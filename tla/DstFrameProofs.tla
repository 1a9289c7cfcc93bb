--------------------------- MODULE DstFrameProofs ---------------------------
(* Proofs about the DST frame decoder: the tables of a frame (DstFrame), the   *)
(* bits that are decoded with them (DstBits) and the bit reader (DstData).  A  *)
(* read, a table or a frame is as long as the constants allow; what is proved  *)
(* holds for all constants that satisfy the assumptions of the modules.        *)
EXTENDS MCDst, DataInduction, SequenceTheorems, TLAPS

-----------------------------------------------------------------------------
(* The bits that segments take *)

\* What Bits adds up.
Sums(b, r, l) == /\ b \in [0 .. Len(l) -> Nat] /\ b[0] = 0
                 /\ \A n \in 1 .. Len(l) : b[n] = b[n - 1] + 8 * r * l[n]

LEMMA SegmentBits ==
  ASSUME NEW r \in Nat, NEW x \in Nat
  PROVE  8 * r * x \in Nat
OBVIOUS

LEMMA SumOfSegments ==
  ASSUME NEW r \in Nat, NEW l \in Seq(Nat)
  PROVE  \E b : Sums(b, r, l) /\ Bits(r, l) = b[Len(l)]
<1> DEFINE m == Len(l)
           next == [i \in 1..m |-> [v \in Nat |-> v + 8 * r * l[i]]]
           Is(b) == b = [n \in 0 .. m |-> IF n = 0 THEN 0 ELSE b[n - 1] + 8 * r * l[n]]
<1>1. m \in Nat /\ \A i \in 1..m : l[i] \in Nat  OBVIOUS
<1>2. \A i \in 1..m : 8 * r * l[i] \in Nat  BY <1>1, SegmentBits
<1>3. Steps(next, m, Nat)  BY <1>2 DEF Steps
<1>4. PICK g : Solves(g, m, Nat, 0, next)
  <2> HIDE DEF next
  <2> QED  BY <1>1, <1>3, Recursion
<1> HIDE DEF m
<1>5. Is(g)
  <2>1. \A i \in 1..m : i - 1 \in 0..m /\ g[i - 1] \in Nat  BY <1>1, <1>4 DEF Solves
  <2>2. \A i \in 1..m, v \in Nat : next[i][v] = v + 8 * r * l[i]  OBVIOUS
  <2> HIDE DEF next
  <2>3. \A i \in 1..m : g[i] = g[i - 1] + 8 * r * l[i]  BY <1>4, <2>1, <2>2 DEF Solves
  <2>4. g = [i \in 0..m |-> g[i]] /\ g[0] = 0  BY <1>1, <1>4 DEF Solves
  <2>5. \A i \in 0..m : g[i] = IF i = 0 THEN 0 ELSE g[i - 1] + 8 * r * l[i]
    <3> TAKE i \in 0..m
    <3>1. i = 0 \/ i \in 1..m  BY <1>1
    <3> QED  BY <2>3, <2>4, <3>1
  <2> QED  BY <2>4, <2>5
<1> DEFINE b == CHOOSE h : Is(h)
<1>6. Is(b)  BY <1>5
<1>7. Bits(r, l) = b[m]  BY DEF Bits, m
<1> HIDE DEF b
<1>8. b[0] = 0 /\ \A i \in 1..m : b[i] = b[i - 1] + 8 * r * l[i]
  <2>1. \A i \in 0..m : b[i] = IF i = 0 THEN 0 ELSE b[i - 1] + 8 * r * l[i]  BY <1>6
  <2>2. 0 \in 0..m /\ \A i \in 1..m : i \in 0..m /\ i # 0  BY <1>1
  <2> QED  BY <2>1, <2>2
<1>9. DOMAIN b = 0..m /\ b = [i \in 0..m |-> b[i]]  BY <1>6
<1> HIDE DEF Is
<1>10. \A i \in 0..m : b[i] \in Nat
  <2> DEFINE T == {i \in 0..m : b[i] \in Nat}
  <2>1. 0 \in T  BY <1>1, <1>8
  <2>2. ASSUME NEW i \in 1..m, i - 1 \in T PROVE i \in T
    <3>1. PICK p \in Nat : p = 8 * r * l[i]  BY <1>2
    <3> QED  BY <1>8, <2>2, <3>1
  <2> HIDE DEF T
  <2>3. 0..m \subseteq T  BY <1>1, <2>1, <2>2, Induction
  <2> QED  BY <2>3 DEF T
<1>11. b \in [0..m -> Nat]  BY <1>9, <1>10
<1>12. Sums(b, r, l)  BY <1>8, <1>11 DEF Sums, m
<1> QED  BY <1>7, <1>12 DEF m

\* No segment takes no bits, and one more takes what it is long.
LEMMA BitsOfNone ==
  ASSUME NEW r \in Nat
  PROVE  Bits(r, << >>) = 0
<1>1. PICK b : Sums(b, r, << >>) /\ Bits(r, << >>) = b[Len(<< >>)]
  <2>1. << >> \in Seq(Nat)  OBVIOUS
  <2> QED  BY <2>1, SumOfSegments
<1> QED  BY <1>1 DEF Sums

LEMMA BitsOfMore ==
  ASSUME NEW r \in Nat, NEW l \in Seq(Nat), NEW x \in Nat
  PROVE  /\ Bits(r, l) \in Nat
         /\ Bits(r, Append(l, x)) = Bits(r, l) + 8 * r * x
<1> DEFINE m == Len(l)
           k == Append(l, x)
<1>1. /\ m \in Nat /\ k \in Seq(Nat) /\ Len(k) = m + 1 /\ k[m + 1] = x
      /\ \A i \in 1..m : k[i] = l[i]
  OBVIOUS
<1>2. PICK b : Sums(b, r, l) /\ Bits(r, l) = b[m]  BY SumOfSegments
<1>3. PICK c : Sums(c, r, k) /\ Bits(r, k) = c[m + 1]
  <2> HIDE DEF k
  <2> QED  BY <1>1, SumOfSegments
<1> HIDE DEF k
<1>4. /\ b \in [0..m -> Nat] /\ b[0] = 0 /\ \A i \in 1..m : b[i] = b[i - 1] + 8 * r * l[i]
      /\ c \in [0..m + 1 -> Nat] /\ c[0] = 0
      /\ \A i \in 1..m + 1 : c[i] = c[i - 1] + 8 * r * k[i]
  BY <1>1, <1>2, <1>3 DEF Sums
<1> HIDE DEF m
<1> DEFINE T == {i \in 0..m : b[i] = c[i]}
<1>5. 0 \in T  BY <1>1, <1>4
<1>6. ASSUME NEW i \in 1..m, i - 1 \in T PROVE i \in T
  <2>1. i \in 1..m + 1 /\ i \in 0..m  BY <1>1
  <2>2. c[i] = c[i - 1] + 8 * r * l[i] /\ b[i] = b[i - 1] + 8 * r * l[i]  BY <1>1, <1>4, <2>1
  <2> QED  BY <1>6, <2>1, <2>2
<1> HIDE DEF T
<1>7. 0..m \subseteq T  BY <1>1, <1>5, <1>6, Induction
<1>8. b[m] = c[m] /\ b[m] \in Nat  BY <1>1, <1>4, <1>7 DEF T
<1>9. c[m + 1] = c[m] + 8 * r * x
  <2>1. m + 1 \in 1..m + 1 /\ (m + 1) - 1 = m  BY <1>1
  <2> QED  BY <1>1, <1>4, <2>1
<1> QED  BY <1>2, <1>3, <1>8, <1>9 DEF k, m

\* The places where the segments of a channel end: segment n takes the bits from
\* place n - 1 to place n.
Ends(r, l, n) == Bits(r, SubSeq(l, 1, n))

LEMMA SegmentEnds ==
  ASSUME NEW r \in Nat, NEW l \in Seq(Nat)
  PROVE  /\ Ends(r, l, 0) = 0 /\ Ends(r, l, Len(l)) = Bits(r, l)
         /\ \A n \in 0..Len(l) : Ends(r, l, n) \in Nat
         /\ \A n \in 1..Len(l) : Ends(r, l, n) = Ends(r, l, n - 1) + 8 * r * l[n]
<1>1. ASSUME NEW n \in 0..Len(l) PROVE SubSeq(l, 1, n) \in Seq(Nat)
  BY SubSeqProperties
<1>2. SubSeq(l, 1, 0) = << >> /\ SubSeq(l, 1, Len(l)) = l
  BY SubSeqProperties
<1>3. ASSUME NEW n \in 1..Len(l)
      PROVE  /\ n - 1 \in 0..Len(l) /\ l[n] \in Nat
             /\ SubSeq(l, 1, n) = Append(SubSeq(l, 1, n - 1), l[n])
  <2>1. n - 1 \in 0..Len(l) /\ l[n] \in Nat  OBVIOUS
  <2> DEFINE a == SubSeq(l, 1, n)
             b == Append(SubSeq(l, 1, n - 1), l[n])
  <2>2. a \in Seq(Nat) /\ Len(a) = n /\ \A i \in 1..n : a[i] = l[i]
    OBVIOUS
  <2>3. b \in Seq(Nat) /\ Len(b) = n /\ \A i \in 1..n : b[i] = l[i]
    OBVIOUS
  <2> HIDE DEF a, b
  <2>4. a = b  BY <2>2, <2>3, SeqEqual
  <2> QED  BY <2>1, <2>4 DEF a, b
<1>4. ASSUME NEW n \in 0..Len(l) PROVE Ends(r, l, n) \in Nat
  <2>1. \A s \in Seq(Nat) : Bits(r, s) \in Nat  BY BitsOfMore
  <2> QED  BY <1>1, <2>1 DEF Ends
<1>5. ASSUME NEW n \in 1..Len(l)
      PROVE  Ends(r, l, n) = Ends(r, l, n - 1) + 8 * r * l[n]
  BY <1>1, <1>3, BitsOfMore DEF Ends
<1> QED  BY <1>2, <1>4, <1>5, BitsOfNone DEF Ends

LEMMA EndsAscend ==
  ASSUME NEW r \in Nat, NEW l \in Seq(Nat), \A n \in 1..Len(l) : 8 * r * l[n] > 0
  PROVE  \A i, j \in 0..Len(l) : i < j => Ends(r, l, i) < Ends(r, l, j)
<1> DEFINE m == Len(l)
<1>1. m \in Nat /\ \A n \in 1..m : l[n] \in Nat  OBVIOUS
<1> SUFFICES ASSUME NEW i \in 0..m, NEW j \in 0..m, i < j
             PROVE  Ends(r, l, i) < Ends(r, l, j)
  OBVIOUS
<1>2. PICK e : e = [n \in 0..m |-> Ends(r, l, n)]  OBVIOUS
<1>3. \A n \in 0..m : e[n] \in Nat  BY <1>2, SegmentEnds
<1>4. ASSUME NEW n \in 1..m PROVE e[n - 1] < e[n]
  <2>1. n - 1 \in 0..m /\ n \in 0..m  BY <1>1
  <2>2. PICK p \in Nat : p = 8 * r * l[n]  BY <1>1, SegmentBits
  <2>3. e[n] = e[n - 1] + p
    <3> HIDE DEF m
    <3>1. Ends(r, l, n) = Ends(r, l, n - 1) + 8 * r * l[n]  BY SegmentEnds DEF m
    <3> QED  BY <1>2, <2>1, <2>2, <3>1
  <2>4. p > 0  BY <2>2
  <2>5. e[n - 1] \in Nat  BY <1>3, <2>1
  <2> QED  BY <2>3, <2>4, <2>5
<1> DEFINE T == {n \in 0..m : i < n => e[i] < e[n]}
<1> HIDE DEF m
<1>5. 0 \in T  BY <1>1
<1>6. ASSUME NEW n \in 1..m, n - 1 \in T PROVE n \in T
  <2>1. n \in 0..m /\ n - 1 \in 0..m  BY <1>1
  <2>2. i < n => i = n - 1 \/ i < n - 1  OBVIOUS
  <2> QED  BY <1>3, <1>4, <1>6, <2>1, <2>2
<1> HIDE DEF T
<1>7. 0..m \subseteq T  BY <1>1, <1>5, <1>6, Induction
<1> QED  BY <1>2, <1>7 DEF T

-----------------------------------------------------------------------------
(* The tables of the bits *)

LEMMA FrameNumbers ==
  /\ NrOfChannels \in Nat \ {0} /\ MAXNROF_SEGS \in Nat \ {0} /\ MaxFrameLen \in Nat \ {0}
  /\ NrOfBitsPerCh \in Nat /\ Channels = 0 .. NrOfChannels - 1 /\ 0 \in Channels
  /\ \A k \in Kinds : /\ MinSegLen[k] \in Nat \ {0} /\ MaxNrOfSegs[k] \in Nat \ {0}
                      /\ MinSegLen[k] <= NrOfBitsPerCh /\ MaxNrOfSegs[k] <= MAXNROF_SEGS
  /\ MinSegLen["P"] <= MinSegLen["F"]
BY DstFrameAssumption DEF NrOfBitsPerCh, Channels, Kinds, MinSegLen, MaxNrOfSegs

\* Every bit of a channel is in one of its segments, and every segment has a bit.
LEMMA BitsAndSegments ==
  ASSUME Types, NEW k \in Kinds, NEW c \in Channels, SegmentsFit(k, c)
  PROVE  /\ \A bit \in 0 .. NrOfBitsPerCh - 1 : \E n \in 1..NrOfSegments(k, c) :
              Table4Bit(k, c, bit) = Table4Segment[k][c][n]
         /\ \A n \in 1..NrOfSegments(k, c) : \E bit \in 0 .. NrOfBitsPerCh - 1 :
              Table4Bit(k, c, bit) = Table4Segment[k][c][n]
<1> DEFINE r == Resolution[k]
           l == SegmentLen[k][c]
           m == Len(l)
           Later(bit) == {n \in DOMAIN l : bit < Bits(r, SubSeq(l, 1, n))}
           Seg(bit) == IF Later(bit) = {} THEN NrOfSegments(k, c)
                       ELSE CHOOSE n \in Later(bit) : \A i \in Later(bit) : n <= i
<1>1. r \in Nat /\ l \in Seq(Nat) /\ m \in Nat  BY DEF Types
<1>2. PICK e : e = [n \in 0..m |-> Ends(r, l, n)]  OBVIOUS
<1>3. /\ \A n \in 1..m : 8 * r * l[n] >= MinSegLen[k]
      /\ e[m] + MinSegLen[k] <= NrOfBitsPerCh
  <2>1. DOMAIN l = 1..m /\ m \in 0..m  BY <1>1
  <2>2. BitsRead(k, c) = e[m]
    <3> HIDE DEF r, l
    <3>1. Ends(r, l, Len(l)) = Bits(r, l)  BY <1>1, SegmentEnds
    <3>2. e[m] = Bits(r, l)  BY <1>2, <2>1, <3>1
    <3> QED  BY <3>2 DEF BitsRead, r, l
  <2> QED  BY <2>1, <2>2 DEF SegmentsFit
<1>4. ASSUME NEW n \in 1..m PROVE 8 * r * l[n] > 0
  <2>1. l[n] \in Nat  BY <1>1
  <2>2. PICK p \in Nat : p = 8 * r * l[n]  BY <1>1, <2>1, SegmentBits
  <2>3. p >= MinSegLen[k]  BY <1>3, <2>2
  <2> QED  BY <2>2, <2>3, FrameNumbers
<1>5. \A bit : Table4Bit(k, c, bit) = Table4Segment[k][c][Seg(bit)]  BY DEF Table4Bit
<1>6. /\ \A n \in 0..m : e[n] \in Nat
      /\ \A i, j \in 0..m : i < j => e[i] < e[j]
  <2> HIDE DEF r, l
  <2>1. \A i, j \in 0..m : i < j => Ends(r, l, i) < Ends(r, l, j)  BY <1>1, <1>4, EndsAscend
  <2>2. \A n \in 0..m : Ends(r, l, n) \in Nat  BY <1>1, SegmentEnds
  <2> QED  BY <1>2, <2>1, <2>2
<1>7. NrOfSegments(k, c) = m + 1  BY DEF NrOfSegments
<1>8. \A bit : Later(bit) = {n \in 1..m : bit < e[n]}
  <2> TAKE bit
  <2>1. DOMAIN l = 1..m  BY <1>1
  <2>2. \A n \in 1..m : Bits(r, SubSeq(l, 1, n)) = e[n]
    <3>1. \A n \in 1..m : n \in 0..m  BY <1>1
    <3> QED  BY <1>2, <3>1 DEF Ends
  <2> HIDE DEF l, m
  <2> QED  BY <2>1, <2>2
<1> HIDE DEF r, l, m, Later
<1>9. ASSUME NEW bit PROVE Seg(bit) \in 1..m + 1
  <2>1. CASE Later(bit) = {}  BY <1>1, <1>7, <2>1
  <2>2. CASE Later(bit) # {}
    <3>1. Later(bit) \in SUBSET Nat  BY <1>1, <1>8
    <3>2. \E n \in Later(bit) : \A i \in Later(bit) : n <= i
      BY <2>2, <3>1, LeastElement
    <3>3. Seg(bit) \in Later(bit)  BY <2>2, <3>2
    <3> QED  BY <1>1, <1>8, <3>3
  <2> QED  BY <2>1, <2>2
<1>10. ASSUME NEW n \in 1..m + 1
      PROVE  e[n - 1] \in 0 .. NrOfBitsPerCh - 1 /\ Seg(e[n - 1]) = n
  <2>1. n - 1 \in 0..m /\ m \in 0..m  BY <1>1
  <2>2. n - 1 < m => e[n - 1] < e[m]  BY <1>6, <2>1
  <2>3. e[n - 1] <= e[m] /\ e[m] \in Nat /\ e[n - 1] \in Nat  BY <1>1, <1>6, <2>1, <2>2
  <2>4. e[n - 1] \in 0 .. NrOfBitsPerCh - 1  BY <1>3, <2>3, FrameNumbers
  <2>5. \A i \in 1..m : e[n - 1] < e[i] <=> n <= i
    <3> TAKE i \in 1..m
    <3>1. i \in 0..m  BY <1>1
    <3>2. CASE n <= i
      <4>1. n - 1 < i  BY <1>1, <3>2
      <4> QED  BY <1>6, <2>1, <3>1, <3>2, <4>1
    <3>3. CASE i <= n - 1
      <4>1. i < n - 1 => e[i] < e[n - 1]  BY <1>6, <2>1, <3>1
      <4>2. i = n - 1 \/ i < n - 1  BY <1>1, <3>3
      <4>3. e[i] \in Nat /\ e[n - 1] \in Nat  BY <1>6, <2>1, <3>1
      <4>4. e[i] <= e[n - 1]  BY <4>1, <4>2, <4>3
      <4> QED  BY <1>1, <3>3, <4>3, <4>4
    <3> QED  BY <1>1, <3>2, <3>3
  <2>6. Later(e[n - 1]) = {i \in 1..m : n <= i}  BY <1>8, <2>5
  <2>7. CASE n = m + 1
    <3>1. Later(e[n - 1]) = {}  BY <1>1, <2>6, <2>7
    <3> QED  BY <1>7, <2>4, <2>7, <3>1
  <2>8. CASE n \in 1..m
    <3>1. n \in Later(e[n - 1]) /\ \A i \in Later(e[n - 1]) : n <= i /\ i \in Nat
      BY <2>6, <2>8
    <3>2. \A j : j \in Later(e[n - 1]) /\ (\A i \in Later(e[n - 1]) : j <= i) => j = n
      BY <3>1
    <3>3. Seg(e[n - 1]) = n  BY <3>1, <3>2
    <3> QED  BY <2>4, <3>3
  <2> QED  BY <1>1, <2>7, <2>8
<1> HIDE DEF Seg
<1>11. \A bit : \E n \in 1..m + 1 : Table4Bit(k, c, bit) = Table4Segment[k][c][n]
  BY <1>5, <1>9
<1>12. \A n \in 1..m + 1 : \E bit \in 0 .. NrOfBitsPerCh - 1 :
         Table4Bit(k, c, bit) = Table4Segment[k][c][n]
  BY <1>5, <1>10
<1> QED  BY <1>7, <1>11, <1>12

LEMMA UsedTables ==
  ASSUME NEW k, NEW t
  PROVE  t \in TablesUsed(k) <=> \E c \in Channels : \E n \in DOMAIN Table4Segment[k][c] :
                                    t = Table4Segment[k][c][n]
BY DEF TablesUsed

\* Once the mapping is read, the tables of the bits are those of the segments.
LEMMA TablesOfBits ==
  ASSUME FrameInv, NEW k \in Kinds, Mapped(k)
  PROVE  /\ \A c \in Channels : BitsRead(k, c) + MinSegLen[k] <= NrOfBitsPerCh
         /\ \A c \in Channels : NrOfSegments(k, c) <= MaxNrOfSegs[k] + 1
         /\ {Table4Bit(k, c, bit) : c \in Channels, bit \in 0 .. NrOfBitsPerCh - 1} = TablesUsed(k)
         /\ NrOfTables[k] <= MaxNrOfTables
<1>1. Types /\ \A c \in Channels : SegmentsFit(k, c)  BY DEF FrameInv, SegmentsInv
<1>2. \A c \in Channels : NrOfSegments(k, c) <= MaxNrOfSegs[k] + 1
  <2> TAKE c \in Channels
  <2>1. Len(SegmentLen[k][c]) <= MaxNrOfSegs[k] /\ MaxNrOfSegs[k] \in Nat
    BY <1>1, FrameNumbers DEF SegmentsFit
  <2>2. Len(SegmentLen[k][c]) \in Nat  BY <1>1 DEF Types
  <2> QED  BY <2>1, <2>2 DEF NrOfSegments
<1>3. \A c \in Channels : DOMAIN Table4Segment[k][c] = 1..NrOfSegments(k, c)
  <2>1. \A c \in Channels : Table4Segment[k][c] \in Seq(Nat)  BY <1>1 DEF Types
  <2> QED  BY <2>1 DEF Mapped
<1> DEFINE Tables == {Table4Bit(k, c, bit) : c \in Channels, bit \in 0 .. NrOfBitsPerCh - 1}
<1>4. Tables = TablesUsed(k)
  <2>1. ASSUME NEW t \in Tables PROVE t \in TablesUsed(k)
    <3>1. PICK c \in Channels, bit \in 0 .. NrOfBitsPerCh - 1 : t = Table4Bit(k, c, bit)
      OBVIOUS
    <3>2. \E n \in 1..NrOfSegments(k, c) : t = Table4Segment[k][c][n]
      BY <1>1, <3>1, BitsAndSegments
    <3> HIDE DEF Tables
    <3> QED  BY <1>3, <3>2, UsedTables
  <2>2. ASSUME NEW t \in TablesUsed(k) PROVE t \in Tables
    <3>1. PICK c \in Channels : \E n \in DOMAIN Table4Segment[k][c] : t = Table4Segment[k][c][n]
      BY UsedTables
    <3>2. PICK n \in 1..NrOfSegments(k, c) : t = Table4Segment[k][c][n]
      BY <1>3, <3>1
    <3>3. \E bit \in 0 .. NrOfBitsPerCh - 1 : t = Table4Bit(k, c, bit)
      BY <1>1, <3>2, BitsAndSegments
    <3> QED  BY <3>3
  <2> HIDE DEF Tables
  <2> QED  BY <2>1, <2>2
<1> QED  BY <1>1, <1>2, <1>4 DEF SegmentsFit, Mapped

\* The tables in use, when they and the segments do not change, when there are
\* none, and when they are all that were read.
LEMMA TablesStay ==
  ASSUME TablesInv, NEW k \in Kinds, TablesUsed(k)' = TablesUsed(k),
         NrOfTables'[k] = NrOfTables[k], SegmentLen'[k] = SegmentLen[k]
  PROVE  TablesRead(k)'
BY DEF TablesInv, TablesRead, NoneOutside, NrOfSegments

LEMMA AllTablesUsed ==
  ASSUME NEW k, TablesUsed(k) = 0 .. NrOfTables[k] - 1
  PROVE  TablesRead(k)
BY DEF TablesRead

-----------------------------------------------------------------------------
(* Steps that read neither segments nor tables *)

LEMMA NumberRead ==
  ASSUME NEW width, NEW n \in Unsigned(width)
  PROVE  n \in Nat
BY DEF Unsigned

LEMMA TableSpace ==
  ASSUME NEW c \in Channels
  PROVE  /\ NrOfChannels * (MAXNROF_SEGS + 1) \in Nat
         /\ c * (MAXNROF_SEGS + 1) \in Nat
         /\ c * (MAXNROF_SEGS + 1) + (MAXNROF_SEGS + 1) <= NrOfChannels * (MAXNROF_SEGS + 1)
         /\ (c + 1) * (MAXNROF_SEGS + 1) = c * (MAXNROF_SEGS + 1) + (MAXNROF_SEGS + 1)
<1>1. PICK m \in Nat : m = MAXNROF_SEGS + 1  BY FrameNumbers
<1>2. c \in Nat /\ c + 1 <= NrOfChannels /\ NrOfChannels \in Nat  BY FrameNumbers
<1>3. PICK d \in Nat : NrOfChannels = c + 1 + d
  <2>1. NrOfChannels - c - 1 \in Nat /\ NrOfChannels = c + 1 + (NrOfChannels - c - 1)  BY <1>2
  <2> QED  BY <2>1
<1>4. (c + 1 + d) * m = c * m + m + d * m /\ (c + 1) * m = c * m + m
      /\ c * m \in Nat /\ d * m \in Nat
  BY <1>2
<1> QED  BY <1>1, <1>3, <1>4

LEMMA SegmentsFitKept ==
  ASSUME \A k \in Kinds : \A c \in Channels : SegmentsFit(k, c), UNCHANGED segments
  PROVE  (\A k \in Kinds : \A c \in Channels : SegmentsFit(k, c))'
BY DEF SegmentsFit, BitsRead, segments

LEMMA TablesKept ==
  ASSUME TablesInv, UNCHANGED <<segments, mapping>>
  PROVE  TablesInv'
<1>1. \A k \in Kinds : TablesUsed(k)' = TablesUsed(k)  BY DEF TablesUsed, mapping
<1> QED  BY <1>1 DEF TablesInv, TablesRead, NoneOutside, NrOfSegments, mapping, segments

LEMMA MappedKept ==
  ASSUME UNCHANGED <<mapping, segments>>, NEW k \in Kinds
  PROVE  (Mapped(k) => Mapped(k)') /\ (Unmapped(k) => Unmapped(k)')
BY DEF Mapped, Unmapped, NrOfSegments, mapping, segments

LEMMA Place ==
  ASSUME FrameInv
  PROVE  /\ kind \in Kinds /\ ChNr \in Channels /\ SegNr \in Nat
         /\ Resolution \in [Kinds -> Nat] /\ \A k \in Kinds : Resolution[k] \in 0 .. MaxFrameLen
         /\ SegmentLen \in [Kinds -> [Channels -> Seq(Nat)]]
<1>1. TypeOK => SegNr \in 0 .. MAXNROF_SEGS /\ kind \in Kinds /\ ChNr \in Channels
  BY DEF TypeOK
<1>2. TypeOK => \A k \in Kinds : Resolution[k] \in 0 .. MaxFrameLen  BY DEF TypeOK
<1>3. \A n \in 0 .. MAXNROF_SEGS : n \in Nat  OBVIOUS
<1> QED  BY <1>1, <1>2, <1>3 DEF FrameInv, Types

\* A step that ends, or goes on behind the mapping.
LEMMA ReadOn ==
  ASSUME FrameInv, pc' \in AfterMapping => pc \in AfterMapping,
         pc' \in AfterMapping \cup {"done", "rice_loop", "crashed"},
         kind' \in Kinds, UNCHANGED <<ChNr, SegNr, segments, mapping>>,
         error' \in Errors, output' \in {"undefined", "silence", "audio"}
  PROVE  FrameInv'
<1>1. Types'  BY DEF FrameInv, Types, TypeOK, AfterMapping, segments, mapping
<1>2. SegmentsInv'
  <2>1. SegmentsInPlace'  BY DEF SegmentsInPlace, BeforeSegments, AfterMapping
  <2> QED  BY <2>1, SegmentsFitKept DEF FrameInv, SegmentsInv
<1>3. MappingInv'
  <2>1. pc \in AfterMapping => Mapped("F") /\ Mapped("P")
    BY DEF FrameInv, MappingInv, AfterMapping, BeforeSegments
  <2>2. pc' \in AfterMapping => Mapped("F")' /\ Mapped("P")'  BY <2>1, MappedKept DEF Kinds
  <2> QED  BY <2>2 DEF MappingInv, AfterMapping, BeforeSegments
<1> QED  BY <1>1, <1>2, <1>3, TablesKept DEF FrameInv

LEMMA FailStep ==
  ASSUME FrameInv, NEW e \in Errors, Fail(e)
  PROVE  FrameInv'
<1>1. kind \in Kinds  BY DEF FrameInv, Types, TypeOK
<1> QED  BY <1>1, ReadOn DEF Fail, AfterMapping, place

LEMMA EndOfBitsStep ==
  ASSUME FrameInv, EndOfBits
  PROVE  FrameInv'
BY FailStep DEF EndOfBits, Errors

LEMMA ReadHeaderStep ==
  ASSUME FrameInv, ReadHeader
  PROVE  FrameInv'
<1>1. /\ pc = "header" /\ pc' \in {"plain", "same_segments"}
      /\ UNCHANGED segments /\ UNCHANGED mapping
      /\ UNCHANGED <<kind, ChNr, SegNr, PSameAsF, SameAllCh, error, output>>
  BY DEF ReadHeader, place
<1>2. Types'  BY <1>1 DEF FrameInv, Types, TypeOK, segments, mapping
<1>3. SegmentsInv'
  <2>1. SegmentsInPlace'
    BY <1>1 DEF FrameInv, SegmentsInv, SegmentsInPlace, BeforeSegments, NoSegments, segments
  <2> QED  BY <1>1, <2>1, SegmentsFitKept DEF FrameInv, SegmentsInv
<1>4. MappingInv'
  <2>1. Unmapped("F") /\ Unmapped("P")  BY <1>1 DEF FrameInv, MappingInv, BeforeSegments
  <2>2. Unmapped("F")' /\ Unmapped("P")'  BY <1>1, <2>1 DEF Unmapped, mapping
  <2> QED  BY <1>1, <2>2 DEF MappingInv, BeforeSegments, AfterMapping
<1> QED  BY <1>1, <1>2, <1>3, <1>4, TablesKept DEF FrameInv

LEMMA ReadPlainStep ==
  ASSUME FrameInv, ReadPlain
  PROVE  FrameInv'
<1>1. CASE output' = "audio" /\ pc' = "done" /\ error' = error
           /\ UNCHANGED <<place, PSameAsF, SameAllCh, segments, mapping, entry>>
  <2>1. kind \in Kinds /\ error \in Errors  BY DEF FrameInv, Types, TypeOK
  <2> QED  BY <1>1, <2>1, ReadOn DEF AfterMapping, place
<1>2. CASE Fail("InvalidStuffingPattern") \/ Fail("NegativeBitAllocation")
  BY <1>2, FailStep DEF Errors
<1> QED  BY <1>1, <1>2 DEF ReadPlain

\* The steps behind the mapping.
LEMMA ReadHalfProbStep ==
  ASSUME FrameInv, ReadHalfProb
  PROVE  FrameInv'
<1>1. error \in Errors /\ output \in {"undefined", "silence", "audio"}
  BY DEF FrameInv, Types, TypeOK
<1> QED  BY <1>1, ReadOn DEF ReadHalfProb, AfterMapping, Kinds

LEMMA NextEntryStep ==
  ASSUME FrameInv, NextEntry, pc \in AfterMapping
  PROVE  FrameInv'
<1>1. kind \in Kinds /\ error \in Errors /\ output \in {"undefined", "silence", "audio"}
  BY DEF FrameInv, Types, TypeOK
<1>2. pc' \in {"order", "length", "ptables", "adata"}  BY DEF NextEntry
<1> QED  BY <1>1, <1>2, ReadOn DEF NextEntry, AfterMapping, place

LEMMA ReadTableStep ==
  ASSUME FrameInv, ReadTable
  PROVE  FrameInv'
<1>1. pc \in AfterMapping  BY DEF ReadTable, AfterMapping
<1>2. CASE NextEntry  BY <1>1, <1>2, NextEntryStep
<1>3. CASE Fail(InvalidCoding)
  <2>1. InvalidCoding \in Errors  BY DEF InvalidCoding, Errors
  <2> QED  BY <1>3, <2>1, FailStep
<1>4. CASE pc' = "rice_m" /\ UNCHANGED <<place, PSameAsF, SameAllCh, segments,
                                         mapping, entry, error, output>>
  <2>1. kind \in Kinds /\ error \in Errors /\ output \in {"undefined", "silence", "audio"}
    BY DEF FrameInv, Types, TypeOK
  <2> QED  BY <1>1, <1>4, <2>1, ReadOn DEF AfterMapping, place
<1> QED  BY <1>2, <1>3, <1>4 DEF ReadTable

LEMMA ReadRiceStep ==
  ASSUME FrameInv, ReadRice \/ RiceRunsOff
  PROVE  FrameInv'
<1>1. pc \in AfterMapping  BY DEF ReadRice, RiceRunsOff, AfterMapping
<1>2. CASE NextEntry  BY <1>1, <1>2, NextEntryStep
<1>3. CASE Fail(InvalidRange)
  <2>1. InvalidRange \in Errors  BY DEF InvalidRange, Errors
  <2> QED  BY <1>3, <2>1, FailStep
<1>4. CASE RiceRunsOff
  <2>1. kind \in Kinds /\ error \in Errors /\ output \in {"undefined", "silence", "audio"}
    BY DEF FrameInv, Types, TypeOK
  <2> QED  BY <1>1, <1>4, <2>1, ReadOn DEF RiceRunsOff, AfterMapping, place
<1> QED  BY <1>2, <1>3, <1>4 DEF ReadRice

LEMMA OverrunStep ==
  ASSUME FrameInv, Overrun
  PROVE  FrameInv'
<1>1. kind \in Kinds  BY DEF FrameInv, Types, TypeOK
<1> QED  BY <1>1, ReadOn DEF Overrun, AfterMapping, place

LEMMA ReadRestStep ==
  ASSUME FrameInv, ReadPtables \/ ReadAData \/ Decode
  PROVE  FrameInv'
<1>1. kind \in Kinds /\ error \in Errors /\ output \in {"undefined", "silence", "audio"}
  BY DEF FrameInv, Types, TypeOK
<1>2. CASE ReadPtables  BY <1>1, <1>2, ReadOn DEF ReadPtables, AfterMapping, Kinds
<1>3. CASE Fail("InvalidArithmeticCode") \/ Fail("ArithmeticDecoder")
  BY <1>3, FailStep DEF Errors
<1>4. CASE ReadAData /\ ~Fail("InvalidArithmeticCode")
  BY <1>1, <1>4, ReadOn DEF ReadAData, AfterMapping, place
<1>5. CASE Decode /\ ~Fail("ArithmeticDecoder")
  BY <1>1, <1>5, ReadOn DEF Decode, AfterMapping, place
<1> QED  BY <1>2, <1>3, <1>4, <1>5

-----------------------------------------------------------------------------
(* The segments *)

\* A step among the segments: the mapping is not read yet.
LEMMA NotMapped ==
  ASSUME FrameInv, pc \in BeforeSegments \cup {"segments", "copy_segments"}, UNCHANGED mapping,
         \/ pc' \in BeforeSegments \cup {"segments", "copy_segments", "overrun"}
         \/ pc' = "same_map" /\ kind' = "F"
  PROVE  MappingInv' /\ TablesInv'
<1>1. Unmapped("F") /\ Unmapped("P")  BY DEF FrameInv, MappingInv
<1>2. Unmapped("F")' /\ Unmapped("P")'  BY <1>1 DEF Unmapped, mapping
<1>3. MappingInv'
  <2>1. CASE pc' \in BeforeSegments \cup {"segments", "copy_segments"}
    BY <1>2, <2>1 DEF MappingInv, BeforeSegments, AfterMapping
  <2>2. CASE pc' = "overrun"  BY <2>2 DEF MappingInv, BeforeSegments, AfterMapping
  <2>3. CASE pc' = "same_map" /\ kind' = "F"
    BY <1>2, <2>3 DEF MappingInv, BeforeSegments, AfterMapping
  <2> QED  BY <2>1, <2>2, <2>3
<1>4. ASSUME NEW k \in Kinds PROVE TablesRead(k)'
  <2>1. Unmapped(k)'  BY <1>2 DEF Kinds
  <2>2. NrOfTables'[k] = 0 /\ \A c \in Channels : Table4Segment'[k][c] = << >>
    BY <2>1 DEF Unmapped
  <2>3. \A t : t \notin TablesUsed(k)'
    <3> TAKE t
    <3>1. t \in TablesUsed(k)' <=> \E c \in Channels : \E n \in DOMAIN Table4Segment'[k][c] :
                                     t = Table4Segment'[k][c][n]
      BY DEF TablesUsed
    <3>2. DOMAIN << >> = {}  OBVIOUS
    <3> QED  BY <2>2, <3>1, <3>2
  <2>4. \A t : t \notin 0 .. 0 - 1  OBVIOUS
  <2> QED  BY <2>2, <2>3, <2>4 DEF TablesRead
<1> QED  BY <1>3, <1>4 DEF TablesInv

LEMMA ReadSameSegmentsStep ==
  ASSUME FrameInv, ReadSameSegments
  PROVE  FrameInv'
<1>1. /\ pc = "same_segments" /\ pc' = "segments" /\ ChNr' = 0 /\ SegNr' = 0
      /\ UNCHANGED segments /\ UNCHANGED mapping /\ UNCHANGED <<kind, error, output>>
  BY DEF ReadSameSegments
<1>2. Types'  BY <1>1, FrameNumbers DEF FrameInv, Types, TypeOK, segments, mapping
<1>3. SegmentsInv'
  <2>1. NoSegments(kind, 0) /\ (kind = "F" => NoSegments("P", 0))
    BY <1>1 DEF FrameInv, SegmentsInv, SegmentsInPlace, BeforeSegments
  <2>2. \A c \in Channels : c >= 0 /\ SegmentLen[kind][c] = << >>
    BY <2>1, FrameNumbers DEF NoSegments
  <2>3. SegNr' = Len(SegmentLen'[kind'][ChNr'])  BY <1>1, <2>2, FrameNumbers DEF segments
  <2>4. NoSegments(kind, ChNr + 1)' /\ (kind' = "F" => NoSegments("P", 0)')
    BY <1>1, <2>1, <2>2 DEF NoSegments, segments
  <2>5. SegmentsInPlace'  BY <1>1, <2>3, <2>4 DEF SegmentsInPlace, BeforeSegments
  <2> QED  BY <1>1, <2>5, SegmentsFitKept DEF FrameInv, SegmentsInv
<1> QED  BY <1>1, <1>2, <1>3, NotMapped DEF FrameInv, BeforeSegments

\* A segment more, in the channel ChNr.
LEMMA SegmentAdded ==
  ASSUME FrameInv, pc = "segments", SegNr < MaxNrOfSegs[kind],
         NEW res \in Nat, NEW len \in Nat, res # 0,
         res <= MaxFrameLen, Resolution[kind] # 0 => res = Resolution[kind],
         8 * res * len >= MinSegLen[kind], 8 * res * len <= Room,
         Resolution' = [Resolution EXCEPT ![kind] = res],
         SegmentLen' = [SegmentLen EXCEPT ![kind][ChNr] = Append(@, len)]
  PROVE  /\ \A k \in Kinds : \A c \in Channels : SegmentsFit(k, c)'
         /\ Resolution' \in [Kinds -> Nat] /\ \A k \in Kinds : Resolution'[k] \in 0 .. MaxFrameLen
         /\ SegmentLen' \in [Kinds -> [Channels -> Seq(Nat)]]
         /\ \A k \in Kinds, c \in Channels : k # kind \/ c # ChNr => SegmentLen'[k][c] = SegmentLen[k][c]
         /\ Len(SegmentLen'[kind][ChNr]) = SegNr + 1
<1> DEFINE l == SegmentLen[kind][ChNr]
<1>1. /\ kind \in Kinds /\ ChNr \in Channels /\ SegNr \in Nat
      /\ Resolution \in [Kinds -> Nat] /\ \A k \in Kinds : Resolution[k] \in 0 .. MaxFrameLen
      /\ SegmentLen \in [Kinds -> [Channels -> Seq(Nat)]]
  BY Place
<1>2. l \in Seq(Nat) /\ Len(l) = SegNr
  BY <1>1 DEF FrameInv, SegmentsInv, SegmentsInPlace
<1>3. /\ SegmentLen'[kind][ChNr] = Append(l, len)
      /\ \A k \in Kinds, c \in Channels : k # kind \/ c # ChNr => SegmentLen'[k][c] = SegmentLen[k][c]
      /\ Resolution'[kind] = res /\ \A k \in Kinds : k # kind => Resolution'[k] = Resolution[k]
  BY <1>1
<1>4. \A k \in Kinds, c \in Channels : SegmentsFit(k, c)  BY DEF FrameInv, SegmentsInv
<1>5. /\ Resolution' \in [Kinds -> Nat] /\ \A k \in Kinds : Resolution'[k] \in 0 .. MaxFrameLen
  BY <1>1, FrameNumbers
<1>6. /\ Append(l, len) \in Seq(Nat) /\ Len(Append(l, len)) = SegNr + 1
      /\ \A n \in 1..SegNr : Append(l, len)[n] = l[n] /\ l[n] \in Nat
      /\ Append(l, len)[SegNr + 1] = len
  <2> HIDE DEF l
  <2>1. Append(l, len) \in Seq(Nat) /\ Len(Append(l, len)) = Len(l) + 1  BY <1>2
  <2>2. \A n \in 1..Len(l) : Append(l, len)[n] = l[n] /\ l[n] \in Nat  BY <1>2
  <2>3. Append(l, len)[Len(l) + 1] = len  BY <1>2
  <2> QED  BY <1>2, <2>1, <2>2, <2>3
<1>7. SegmentLen' \in [Kinds -> [Channels -> Seq(Nat)]]
  <2> HIDE DEF l
  <2>1. SegmentLen' = [SegmentLen EXCEPT ![kind] = [SegmentLen[kind] EXCEPT ![ChNr] = Append(l, len)]]
    BY DEF l
  <2>2. [SegmentLen[kind] EXCEPT ![ChNr] = Append(l, len)] \in [Channels -> Seq(Nat)]
    BY <1>1, <1>6
  <2> QED  BY <1>1, <2>1, <2>2
<1> HIDE DEF l
\* What was read in a channel is as it was: if nothing was, no resolution was read.
<1>8. ASSUME NEW c \in Channels
      PROVE  /\ Bits(res, SegmentLen[kind][c]) = BitsRead(kind, c)
             /\ \A n \in DOMAIN SegmentLen[kind][c] : 8 * res * SegmentLen[kind][c][n] >= MinSegLen[kind]
  <2>1. CASE Resolution[kind] # 0  BY <1>1, <1>4, <2>1 DEF BitsRead, SegmentsFit
  <2>2. CASE Resolution[kind] = 0
    <3>1. SegmentLen[kind][c] = << >>  BY <1>1, <1>4, <2>2 DEF SegmentsFit
    <3> QED  BY <2>2, <3>1, BitsOfNone DEF BitsRead
  <2> QED  BY <2>1, <2>2
<1>9. ASSUME NEW k \in Kinds, NEW c \in Channels PROVE SegmentsFit(k, c)'
  <2>1. CASE k # kind  BY <1>3, <1>4, <2>1 DEF SegmentsFit, BitsRead
  <2>2. CASE k = kind /\ c # ChNr
    <3>1. BitsRead(k, c)' = BitsRead(k, c)  BY <1>3, <1>8, <2>2 DEF BitsRead
    <3> QED  BY <1>3, <1>4, <1>8, <2>2, <3>1 DEF SegmentsFit
  <2>3. CASE k = kind /\ c = ChNr
    <3>1. PICK p \in Nat : p = 8 * res * len  BY SegmentBits
    <3>2. BitsRead(k, c)' = Bits(res, Append(l, len))  BY <1>3, <2>3 DEF BitsRead
    <3>3. Bits(res, l) = BitsRead(kind, ChNr) /\ Bits(res, l) \in Nat
      BY <1>1, <1>2, <1>8, BitsOfMore DEF l
    <3>4. BitsRead(k, c)' = BitsRead(kind, ChNr) + p /\ BitsRead(kind, ChNr) \in Nat
      BY <1>2, <3>1, <3>2, <3>3, BitsOfMore
    <3>5. p <= NrOfBitsPerCh - BitsRead(kind, ChNr) - MinSegLen[kind]  BY <3>1 DEF Room
    <3>6. BitsRead(k, c)' + MinSegLen[k] <= NrOfBitsPerCh
      <4>1. MinSegLen[k] \in Nat /\ NrOfBitsPerCh \in Nat  BY FrameNumbers
      <4> HIDE DEF l
      <4> QED  BY <2>3, <3>1, <3>4, <3>5, <4>1
    <3>7. Len(SegmentLen'[k][c]) <= MaxNrOfSegs[k]
      <4>1. MaxNrOfSegs[kind] \in Nat  BY <1>1, FrameNumbers
      <4> QED  BY <1>1, <1>3, <1>6, <2>3, <4>1
    <3>8. ASSUME NEW n \in DOMAIN SegmentLen'[k][c]
          PROVE  8 * Resolution'[k] * SegmentLen'[k][c][n] >= MinSegLen[k]
      <4>1. n \in 1..SegNr + 1  BY <1>3, <1>6, <2>3
      <4>2. CASE n = SegNr + 1  BY <1>3, <1>6, <2>3, <4>2
      <4>3. CASE n \in 1..SegNr
        <5>1. n \in DOMAIN l /\ SegmentLen'[k][c][n] = l[n]  BY <1>2, <1>3, <1>6, <2>3, <4>3
        <5>2. 8 * res * l[n] >= MinSegLen[kind]  BY <1>1, <1>8, <5>1 DEF l
        <5> QED  BY <1>3, <2>3, <5>1, <5>2
      <4> QED  BY <1>1, <4>1, <4>2, <4>3
    <3>9. Resolution'[k] # 0  BY <1>3, <2>3
    <3> QED  BY <3>6, <3>7, <3>8, <3>9 DEF SegmentsFit
  <2> QED  BY <2>1, <2>2, <2>3
<1> QED  BY <1>3, <1>5, <1>6, <1>7, <1>9

LEMMA ReadSegmentStep ==
  ASSUME FrameInv, ReadSegment
  PROVE  FrameInv'
<1>1. CASE Fail("InvalidSegmentResolution") \/ Fail("InvalidSegmentLength")
  BY <1>1, FailStep DEF Errors
<1>2. CASE ~(Fail("InvalidSegmentResolution") \/ Fail("InvalidSegmentLength"))
  <2>1. PICK res, len :
          /\ res \in IF Resolution[kind] = 0
                     THEN Unsigned(Log2RoundUp(MaxFrameLen - (MinSegLen[kind] \div 8)))
                     ELSE {Resolution[kind]}
          /\ ~(res = 0 \/ res > MaxFrameLen - (MinSegLen[kind] \div 8))
          /\ len \in Unsigned(Log2RoundUp(MaxSegSize \div res))
          /\ ~(8 * res * len < MinSegLen[kind] \/ 8 * res * len > Room)
          /\ Resolution' = [Resolution EXCEPT ![kind] = res]
          /\ SegmentLen' = [SegmentLen EXCEPT ![kind][ChNr] = Append(@, len)]
          /\ SegNr' = SegNr + 1
          /\ UNCHANGED <<pc, kind, ChNr, PSameAsF, SameAllCh, mapping, entry, error, output>>
    BY <1>2 DEF ReadSegment
  <2>2. pc = "segments" /\ ~(SegNr >= MaxNrOfSegs[kind])  BY DEF ReadSegment, NoSegmentLeft
  <2>3. /\ res \in Nat /\ len \in Nat /\ res # 0
        /\ Resolution[kind] # 0 => res = Resolution[kind]
    <3>1. Resolution[kind] \in Nat  BY Place
    <3> QED  BY <2>1, <3>1, NumberRead
  <2>4. res <= MaxFrameLen
    <3>1. kind \in Kinds  BY Place
    <3>2. PICK min \in Nat : min = MinSegLen[kind]  BY <3>1, FrameNumbers
    <3>3. min \div 8 \in Nat  BY <3>2
    <3>4. ~(res > MaxFrameLen - (min \div 8))  BY <2>1, <3>2
    <3> QED  BY <2>3, <3>3, <3>4, FrameNumbers
  <2>5. MaxNrOfSegs[kind] \in Nat /\ MaxNrOfSegs[kind] <= MAXNROF_SEGS /\ MAXNROF_SEGS \in Nat
        /\ SegNr \in Nat /\ MinSegLen[kind] \in Nat /\ NrOfBitsPerCh \in Nat
    BY Place, FrameNumbers
  <2>6. SegNr < MaxNrOfSegs[kind]  BY <2>2, <2>5
  <2>7. 8 * res * len >= MinSegLen[kind] /\ 8 * res * len <= Room
    <3>1. PICK p \in Nat : p = 8 * res * len  BY <2>3, SegmentBits
    <3>2. Room \in Int
      <4>1. /\ kind \in Kinds /\ ChNr \in Channels /\ Resolution[kind] \in Nat
            /\ SegmentLen[kind][ChNr] \in Seq(Nat)
        BY Place
      <4>2. BitsRead(kind, ChNr) \in Nat  BY <4>1, BitsOfMore DEF BitsRead
      <4> QED  BY <2>5, <4>2 DEF Room
    <3>3. ~(p < MinSegLen[kind]) /\ ~(p > Room)  BY <2>1, <3>1
    <3>4. p >= MinSegLen[kind] /\ p <= Room  BY <2>5, <3>2, <3>3
    <3> QED  BY <3>1, <3>4
  <2>8. /\ \A k \in Kinds : \A c \in Channels : SegmentsFit(k, c)'
        /\ Resolution' \in [Kinds -> Nat] /\ \A k \in Kinds : Resolution'[k] \in 0 .. MaxFrameLen
        /\ SegmentLen' \in [Kinds -> [Channels -> Seq(Nat)]]
        /\ \A k \in Kinds, c \in Channels : k # kind \/ c # ChNr => SegmentLen'[k][c] = SegmentLen[k][c]
        /\ Len(SegmentLen'[kind][ChNr]) = SegNr + 1
    BY <2>1, <2>2, <2>3, <2>4, <2>6, <2>7, SegmentAdded
  <2>9. UNCHANGED mapping /\ UNCHANGED <<pc, kind, ChNr, SameAllCh, error, output>>  BY <2>1
  <2>10. Types'
    <3>1. SegNr' \in 0 .. MAXNROF_SEGS  BY <2>1, <2>5, <2>6
    <3>2. TypeOK'  BY <2>8, <2>9, <3>1 DEF FrameInv, Types, TypeOK, mapping
    <3> QED  BY <2>8, <2>9, <3>2 DEF FrameInv, Types, mapping
  <2>11. SegmentsInPlace'
    <3>1. /\ kind \in Kinds /\ ChNr \in Channels /\ "P" \in Kinds /\ \A c \in Channels : c \in Int
      BY Place, FrameNumbers DEF Kinds
    <3>2. /\ SameAllCh => ChNr = 0
          /\ NoSegments(kind, ChNr + 1) /\ (kind = "F" => NoSegments("P", 0))
      BY <2>2 DEF FrameInv, SegmentsInv, SegmentsInPlace, BeforeSegments
    <3>3. NoSegments(kind, ChNr + 1)'
      <4>1. \A c \in Channels : c >= ChNr + 1 => c # ChNr  BY <3>1
      <4>2. \A c \in Channels : c >= ChNr + 1 => SegmentLen'[kind][c] = SegmentLen[kind][c]
        BY <2>8, <3>1, <4>1
      <4>3. \A c \in Channels : c >= ChNr + 1 => SegmentLen[kind][c] = << >>
        BY <3>2 DEF NoSegments
      <4> QED  BY <2>9, <4>2, <4>3 DEF NoSegments
    <3>4. kind = "F" => NoSegments("P", 0)'
      <4>1. kind = "F" => \A c \in Channels : SegmentLen'["P"][c] = SegmentLen["P"][c]
        BY <2>8, <3>1
      <4> QED  BY <3>2, <4>1 DEF NoSegments
    <3>5. SegNr' = Len(SegmentLen'[kind'][ChNr'])  BY <2>1, <2>8
    <3> QED  BY <2>2, <2>9, <3>2, <3>3, <3>4, <3>5 DEF SegmentsInPlace, BeforeSegments
  <2> QED  BY <2>2, <2>8, <2>9, <2>10, <2>11, NotMapped DEF FrameInv, SegmentsInv
<1> QED  BY <1>1, <1>2

LEMMA TooManySegmentsStep ==
  ASSUME FrameInv, TooManySegments
  PROVE  FrameInv'
BY FailStep DEF TooManySegments, Errors

\* The segments of a kind are read, some channels having those of others.
LEMMA SegmentsReadStep ==
  ASSUME FrameInv, pc = "segments", SegmentsRead,
         SegmentLen' \in [Kinds -> [Channels -> Seq(Nat)]],
         \A c \in Channels : \E d \in Channels : SegmentLen'[kind][c] = SegmentLen[kind][d],
         \A k \in Kinds : k # kind => SegmentLen'[k] = SegmentLen[k],
         UNCHANGED <<PSameAsF, SameAllCh, mapping, error, output>>
  PROVE  FrameInv'
<1>1. /\ kind \in Kinds /\ Resolution \in [Kinds -> Nat]
      /\ \A k \in Kinds : Resolution[k] \in 0 .. MaxFrameLen
  BY Place
<1>2. /\ \A k \in Kinds : k # kind => Resolution'[k] = Resolution[k]
      /\ Resolution'[kind] = IF Resolution[kind] = 0 THEN 1 ELSE Resolution[kind]
      /\ Resolution' \in [Kinds -> Nat] /\ \A k \in Kinds : Resolution'[k] \in 0 .. MaxFrameLen
  <2>1. 1 \in 0 .. MaxFrameLen /\ 1 \in Nat  BY FrameNumbers
  <2> QED  BY <1>1, <2>1 DEF SegmentsRead
<1>3. /\ ChNr' = 0 /\ SegNr' = 0 /\ kind' \in Kinds
      /\ \/ kind = "F" /\ kind' = "P" /\ pc' \in {"copy_segments", "same_segments"}
         \/ kind' = "F" /\ pc' = "same_map"
  BY DEF SegmentsRead, Kinds
<1>4. UNCHANGED mapping /\ UNCHANGED <<error, output>>  OBVIOUS
<1>5. Types'
  <2>1. 0 \in Channels /\ 0 \in 0 .. MAXNROF_SEGS  BY FrameNumbers
  <2>2. pc' \in {"copy_segments", "same_segments", "same_map"}  BY <1>3
  <2>3. TypeOK'  BY <1>2, <1>3, <1>4, <2>1, <2>2 DEF FrameInv, Types, TypeOK, mapping
  <2> QED  BY <1>2, <1>4, <2>3 DEF FrameInv, Types, mapping
<1>6. ASSUME NEW k \in Kinds, NEW c \in Channels PROVE SegmentsFit(k, c)'
  <2>1. \A d \in Channels : SegmentsFit(k, d)  BY DEF FrameInv, SegmentsInv
  <2>2. CASE k # kind  BY <1>2, <2>1, <2>2 DEF SegmentsFit, BitsRead
  <2>3. CASE k = kind
    <3>1. PICK d \in Channels : SegmentLen'[k][c] = SegmentLen[k][d]  BY <2>3
    <3>2. CASE Resolution[k] # 0  BY <1>2, <2>1, <2>3, <3>1, <3>2 DEF SegmentsFit, BitsRead
    <3>3. CASE Resolution[k] = 0
      <4>1. SegmentLen'[k][c] = << >>  BY <2>1, <3>1, <3>3 DEF SegmentsFit
      <4>2. BitsRead(k, c)' = 0  BY <1>2, <4>1, BitsOfNone DEF BitsRead
      <4>3. 0 + MinSegLen[k] <= NrOfBitsPerCh
        <5>1. MinSegLen[k] \in Nat /\ MinSegLen[k] <= NrOfBitsPerCh  BY FrameNumbers
        <5> QED  BY <5>1
      <4>4. 0 <= MaxNrOfSegs[k]  BY FrameNumbers
      <4>5. Len(<< >>) = 0 /\ DOMAIN << >> = {}  OBVIOUS
      <4> QED  BY <4>1, <4>2, <4>3, <4>4, <4>5 DEF SegmentsFit
    <3> QED  BY <3>2, <3>3
  <2> QED  BY <2>2, <2>3
<1>7. SegmentsInPlace'
  <2>1. kind = "F" => NoSegments("P", 0)
    BY DEF FrameInv, SegmentsInv, SegmentsInPlace, BeforeSegments
  <2>2. kind = "F" => NoSegments("P", 0)'  BY <2>1 DEF NoSegments, Kinds
  <2> QED  BY <1>3, <2>2 DEF SegmentsInPlace, BeforeSegments
<1>8. MappingInv' /\ TablesInv'  BY <1>3, <1>4, NotMapped DEF BeforeSegments
<1> QED  BY <1>5, <1>6, <1>7, <1>8 DEF FrameInv, SegmentsInv

LEMMA EndForAllStep ==
  ASSUME FrameInv, EndForAll
  PROVE  FrameInv'
<1>1. SegmentLen \in [Kinds -> [Channels -> Seq(Nat)]] /\ kind \in Kinds  BY Place
<1>2. /\ pc = "segments"
      /\ SegmentLen' = [SegmentLen EXCEPT ![kind] = [c \in Channels |-> SegmentLen[kind][0]]]
      /\ UNCHANGED mapping /\ UNCHANGED <<PSameAsF, SameAllCh, error, output>>
  BY DEF EndForAll
<1>3. /\ SegmentLen' \in [Kinds -> [Channels -> Seq(Nat)]]
      /\ \A c \in Channels : SegmentLen'[kind][c] = SegmentLen[kind][0]
      /\ \A k \in Kinds : k # kind => SegmentLen'[k] = SegmentLen[k]
  BY <1>1, <1>2, FrameNumbers
<1>4. CASE SegmentsRead
  BY <1>2, <1>3, <1>4, FrameNumbers, SegmentsReadStep
<1>5. CASE pc' = "overrun" /\ UNCHANGED <<kind, ChNr, SegNr, Resolution>>
  <2>1. Types'
    <3>1. TypeOK'  BY <1>2, <1>5 DEF FrameInv, Types, TypeOK, mapping
    <3> QED  BY <1>2, <1>3, <1>5, <3>1 DEF FrameInv, Types, mapping
  <2>2. ASSUME NEW k \in Kinds, NEW c \in Channels PROVE SegmentsFit(k, c)'
    <3>1. \A d \in Channels : SegmentsFit(k, d)  BY DEF FrameInv, SegmentsInv
    <3>2. PICK d \in Channels : SegmentLen'[k][c] = SegmentLen[k][d]  BY <1>3, FrameNumbers
    <3> QED  BY <1>5, <3>1, <3>2 DEF SegmentsFit, BitsRead
  <2>3. SegmentsInPlace'  BY <1>5 DEF SegmentsInPlace, BeforeSegments
  <2>4. MappingInv' /\ TablesInv'  BY <1>2, <1>5, NotMapped
  <2> QED  BY <2>1, <2>2, <2>3, <2>4 DEF FrameInv, SegmentsInv
<1> QED  BY <1>4, <1>5 DEF EndForAll

LEMMA EndOfChannelStep ==
  ASSUME FrameInv, EndOfChannel
  PROVE  FrameInv'
<1>1. SegmentLen \in [Kinds -> [Channels -> Seq(Nat)]] /\ kind \in Kinds /\ ChNr \in Channels
  BY Place
<1>2. /\ pc = "segments" /\ ~SameAllCh /\ UNCHANGED SegmentLen
      /\ UNCHANGED mapping /\ UNCHANGED <<PSameAsF, SameAllCh, error, output>>
  BY DEF EndOfChannel
<1>3. CASE SegmentsRead  BY <1>1, <1>2, <1>3, SegmentsReadStep
<1>4. CASE ChNr # NrOfChannels - 1 /\ ChNr' = ChNr + 1 /\ SegNr' = 0 /\ UNCHANGED <<pc, kind, Resolution>>
  <2>1. ChNr' \in Channels /\ 0 \in 0 .. MAXNROF_SEGS /\ \A c \in Channels : c \in Int
    BY <1>1, <1>4, FrameNumbers
  <2>2. UNCHANGED segments  BY <1>2, <1>4 DEF segments
  <2>3. Types'
    <3>1. TypeOK'  BY <1>2, <1>4, <2>1 DEF FrameInv, Types, TypeOK, mapping
    <3> QED  BY <1>2, <1>4, <3>1 DEF FrameInv, Types, mapping
  <2>4. SegmentsInPlace'
    <3>1. NoSegments(kind, ChNr + 1) /\ (kind = "F" => NoSegments("P", 0))
      BY <1>2 DEF FrameInv, SegmentsInv, SegmentsInPlace, BeforeSegments
    <3>2. SegmentLen[kind][ChNr + 1] = << >>  BY <1>4, <2>1, <3>1 DEF NoSegments
    <3>3. NoSegments(kind, ChNr + 1)' /\ (kind = "F" => NoSegments("P", 0)')
      BY <1>1, <1>2, <1>4, <2>1, <3>1 DEF NoSegments
    <3>4. SegNr' = Len(SegmentLen'[kind'][ChNr'])  BY <1>2, <1>4, <3>2
    <3> QED  BY <1>2, <1>4, <3>3, <3>4 DEF SegmentsInPlace, BeforeSegments
  <2>5. MappingInv' /\ TablesInv'  BY <1>2, <1>4, NotMapped
  <2> QED  BY <2>2, <2>3, <2>4, <2>5, SegmentsFitKept DEF FrameInv, SegmentsInv
<1> QED  BY <1>3, <1>4 DEF EndOfChannel

\* CopySegmentData: as the tests before it let nothing through that is too long
\* or too short for the Ptables, and the last segment of a channel is long enough
\* for a filter.
LEMMA CopySegmentsStep ==
  ASSUME FrameInv, CopySegments
  PROVE  FrameInv'
<1>1. CASE Fail("TooManySegments") \/ Fail("InvalidSegmentLength")
  BY <1>1, FailStep DEF Errors
<1>2. CASE ~(Fail("TooManySegments") \/ Fail("InvalidSegmentLength"))
  <2>1. /\ pc = "copy_segments"
        /\ \A c \in Channels : ~(NrOfSegments("F", c) > MAXNROF_PSEGS)
        /\ \A c \in Channels, n \in 1 .. MAXNROF_SEGS :
             n \in DOMAIN SegmentLen["F"][c] => ~(8 * Resolution["F"] * SegmentLen["F"][c][n] < MIN_PSEG_LEN)
        /\ SegmentLen' = [SegmentLen EXCEPT !["P"] = SegmentLen["F"]]
        /\ Resolution' = [Resolution EXCEPT !["P"] = Resolution["F"]]
        /\ pc' = "same_map" /\ kind' = "F"
        /\ UNCHANGED mapping /\ UNCHANGED <<ChNr, SegNr, error, output>>
    BY <1>2 DEF CopySegments
  <2>2. /\ SegmentLen \in [Kinds -> [Channels -> Seq(Nat)]] /\ Resolution \in [Kinds -> Nat]
        /\ \A k \in Kinds : Resolution[k] \in 0 .. MaxFrameLen
        /\ "F" \in Kinds /\ "P" \in Kinds /\ "F" # "P"
    BY Place DEF Kinds
  <2>3. /\ SegmentLen' \in [Kinds -> [Channels -> Seq(Nat)]] /\ Resolution' \in [Kinds -> Nat]
        /\ \A k \in Kinds : Resolution'[k] \in 0 .. MaxFrameLen
        /\ \A k \in Kinds : SegmentLen'[k] = SegmentLen["F"] /\ Resolution'[k] = Resolution["F"]
    BY <2>1, <2>2 DEF Kinds
  <2>4. Types'
    <3>1. TypeOK'  BY <2>1, <2>2, <2>3 DEF FrameInv, Types, TypeOK, mapping
    <3> QED  BY <2>1, <2>3, <3>1 DEF FrameInv, Types, mapping
  <2>5. ASSUME NEW k \in Kinds, NEW c \in Channels PROVE SegmentsFit(k, c)'
    <3>1. SegmentsFit("F", c)  BY <2>2 DEF FrameInv, SegmentsInv
    <3>2. CASE k = "F"  BY <2>3, <3>1, <3>2 DEF SegmentsFit, BitsRead
    <3>3. CASE k = "P"
      <4>1. BitsRead("P", c)' = BitsRead("F", c) /\ SegmentLen'["P"][c] = SegmentLen["F"][c]
        BY <2>2, <2>3 DEF BitsRead
      <4>2. SegmentLen["F"][c] \in Seq(Nat) /\ Resolution["F"] \in Nat  BY <2>2
      <4>3. BitsRead("F", c) \in Nat  BY <4>2, BitsOfMore DEF BitsRead
      <4>4. BitsRead("P", c)' + MinSegLen["P"] <= NrOfBitsPerCh
        <5>1. BitsRead("F", c) + MinSegLen["F"] <= NrOfBitsPerCh  BY <3>1 DEF SegmentsFit
        <5>2. /\ MinSegLen["P"] \in Nat /\ MinSegLen["F"] \in Nat /\ NrOfBitsPerCh \in Nat
              /\ MinSegLen["P"] <= MinSegLen["F"]
          BY <2>2, FrameNumbers
        <5> QED  BY <4>1, <4>3, <5>1, <5>2
      <4>5. /\ Len(SegmentLen["F"][c]) <= MaxNrOfSegs["P"]
            /\ Len(SegmentLen["F"][c]) <= MAXNROF_SEGS
        <5>1. MAXNROF_PSEGS \in Nat /\ MAXNROF_PSEGS <= MAXNROF_SEGS /\ MAXNROF_SEGS \in Nat
          BY DstFrameAssumption
        <5>2. Len(SegmentLen["F"][c]) \in Nat  BY <4>2
        <5>3. ~(Len(SegmentLen["F"][c]) + 1 > MAXNROF_PSEGS)  BY <2>1 DEF NrOfSegments
        <5> QED  BY <5>1, <5>2, <5>3 DEF MaxNrOfSegs
      <4>6. \A n \in DOMAIN SegmentLen["F"][c] : 8 * Resolution["F"] * SegmentLen["F"][c][n] >= MIN_PSEG_LEN
        <5> TAKE n \in DOMAIN SegmentLen["F"][c]
        <5>0. MAXNROF_SEGS \in Nat  BY FrameNumbers
        <5>1. n \in 1 .. MAXNROF_SEGS /\ SegmentLen["F"][c][n] \in Nat  BY <4>2, <4>5, <5>0
        <5>2. PICK p \in Nat : p = 8 * Resolution["F"] * SegmentLen["F"][c][n]
          BY <4>2, <5>1, SegmentBits
        <5>3. ~(p < MIN_PSEG_LEN)  BY <2>1, <5>1, <5>2
        <5>4. MIN_PSEG_LEN \in Nat  BY DstFrameAssumption
        <5> QED  BY <5>2, <5>3, <5>4
      <4>7. MinSegLen["P"] = MIN_PSEG_LEN  BY DEF MinSegLen
      <4> QED  BY <2>2, <2>3, <3>1, <3>3, <4>1, <4>4, <4>5, <4>6, <4>7 DEF SegmentsFit
    <3> QED  BY <3>2, <3>3 DEF Kinds
  <2>6. SegmentsInPlace'  BY <2>1 DEF SegmentsInPlace, BeforeSegments
  <2>7. MappingInv' /\ TablesInv'  BY <2>1, NotMapped
  <2> QED  BY <2>4, <2>5, <2>6, <2>7 DEF FrameInv, SegmentsInv
<1> QED  BY <1>1, <1>2

-----------------------------------------------------------------------------
(* The mapping *)

\* A step that reads no segments, from the mapping on.
LEMMA SegmentsStay ==
  ASSUME FrameInv, UNCHANGED segments, pc' \notin BeforeSegments \cup {"segments"}
  PROVE  SegmentsInv' /\ Resolution' = Resolution /\ SegmentLen' = SegmentLen
<1>1. SegmentsInPlace'  BY DEF SegmentsInPlace, BeforeSegments
<1> QED  BY <1>1, SegmentsFitKept DEF FrameInv, SegmentsInv, segments

LEMMA Tables ==
  ASSUME FrameInv
  PROVE  /\ NrOfTables \in [Kinds -> Nat]
         /\ \A k \in Kinds : NrOfTables[k] <= NrOfChannels * (MAXNROF_SEGS + 1)
         /\ Table4Segment \in [Kinds -> [Channels -> Seq(Nat)]]
         /\ \A k \in Kinds : TablesRead(k)
         /\ \A k \in Kinds, c \in Channels : NrOfSegments(k, c) \in 1 .. MAXNROF_SEGS + 1
<1>1. TypeOK => \A k \in Kinds : NrOfTables[k] \in 0 .. NrOfChannels * (MAXNROF_SEGS + 1)
  BY DEF TypeOK
<1>2. PICK m : m = NrOfChannels * (MAXNROF_SEGS + 1)  OBVIOUS
<1>3. \A k \in Kinds : NrOfTables[k] <= m  BY <1>1, <1>2 DEF FrameInv, Types
<1>4. \A k \in Kinds, c \in Channels : NrOfSegments(k, c) \in 1 .. MAXNROF_SEGS + 1
  <2> TAKE k \in Kinds, c \in Channels
  <2>1. Len(SegmentLen[k][c]) <= MaxNrOfSegs[k]  BY DEF FrameInv, SegmentsInv, SegmentsFit
  <2>2. Len(SegmentLen[k][c]) \in Nat  BY Place
  <2>3. MaxNrOfSegs[k] <= MAXNROF_SEGS /\ MaxNrOfSegs[k] \in Nat /\ MAXNROF_SEGS \in Nat
    BY FrameNumbers
  <2> QED  BY <2>1, <2>2, <2>3 DEF NrOfSegments
<1> QED  BY <1>2, <1>3, <1>4 DEF FrameInv, Types, TablesInv

\* The types, when only the mapping of a kind changes.
LEMMA MappingTypes ==
  ASSUME FrameInv, UNCHANGED segments, UNCHANGED <<SegNr, error, output>>,
         pc' \in {"map", "copy_map", "same_map", "half"}, kind' \in Kinds, ChNr' \in Channels,
         NrOfTables' \in [Kinds -> Nat],
         \A k \in Kinds : NrOfTables'[k] <= NrOfChannels * (MAXNROF_SEGS + 1),
         Table4Segment' \in [Kinds -> [Channels -> Seq(Nat)]]
  PROVE  Types'
<1>1. PICK m \in Nat : m = NrOfChannels * (MAXNROF_SEGS + 1)  BY FrameNumbers, TableSpace
<1>2. \A k \in Kinds : NrOfTables'[k] \in 0 .. m  BY <1>1
<1>3. TypeOK'  BY <1>1, <1>2 DEF FrameInv, Types, TypeOK, segments
<1> QED  BY <1>3 DEF FrameInv, Types, segments

LEMMA ReadSameMapStep ==
  ASSUME FrameInv, ReadSameMap
  PROVE  FrameInv'
<1>1. /\ pc = "same_map" /\ pc' = "map" /\ ChNr' = 0
      /\ Table4Segment' = [Table4Segment EXCEPT ![kind] = [Table4Segment[kind] EXCEPT ![0] = <<0>>]]
      /\ NrOfTables' = [NrOfTables EXCEPT ![kind] = 1]
      /\ UNCHANGED <<kind, SegNr, error, output>> /\ UNCHANGED segments
  BY DEF ReadSameMap
<1>2. /\ kind \in Kinds /\ 0 \in Channels /\ <<0>> \in Seq(Nat) /\ Len(<<0>>) = 1
      /\ DOMAIN <<0>> = {1} /\ <<0>>[1] = 0
  BY Place, FrameNumbers
<1>3. /\ Unmapped(kind) /\ IF kind = "F" THEN Unmapped("P") ELSE Mapped("F")
  BY <1>1 DEF FrameInv, MappingInv
<1>4. /\ Table4Segment' \in [Kinds -> [Channels -> Seq(Nat)]]
      /\ Table4Segment'[kind][0] = <<0>>
      /\ \A c \in Channels : c # 0 => Table4Segment'[kind][c] = << >>
      /\ \A k \in Kinds : k # kind => Table4Segment'[k] = Table4Segment[k]
  <2>1. Table4Segment \in [Kinds -> [Channels -> Seq(Nat)]]  BY Tables
  <2>2. [Table4Segment[kind] EXCEPT ![0] = <<0>>] \in [Channels -> Seq(Nat)]  BY <1>2, <2>1
  <2> QED  BY <1>1, <1>2, <1>3, <2>1, <2>2 DEF Unmapped
<1>5. /\ NrOfTables' \in [Kinds -> Nat] /\ NrOfTables'[kind] = 1
      /\ \A k \in Kinds : k # kind => NrOfTables'[k] = NrOfTables[k]
  BY <1>1, <1>2, Tables
<1>6. Types'
  <2>1. PICK m \in Nat : m = NrOfChannels * (MAXNROF_SEGS + 1)  BY FrameNumbers, TableSpace
  <2>2. 1 <= m  BY <2>1, FrameNumbers, TableSpace
  <2>3. \A k \in Kinds : NrOfTables'[k] <= m  BY <1>5, <2>1, <2>2, Tables
  <2> QED  BY <1>1, <1>2, <1>4, <1>5, <2>1, <2>3, MappingTypes
<1>7. SegmentsInv' /\ Resolution' = Resolution /\ SegmentLen' = SegmentLen
  BY <1>1, SegmentsStay DEF BeforeSegments
<1>8. TablesInv'
  <2> SUFFICES ASSUME NEW k \in Kinds PROVE TablesRead(k)'
    BY DEF TablesInv
  <2>1. CASE k # kind
    <3>1. TablesUsed(k)' = TablesUsed(k)  BY <1>4, <2>1 DEF TablesUsed
    <3> QED  BY <1>5, <1>7, <2>1, <3>1, TablesStay DEF FrameInv
  <2>2. CASE k = kind
    <3>1. \A t : t \in TablesUsed(k)' <=> t = 0
      <4> TAKE t
      <4>1. t \in TablesUsed(k)' <=> \E c \in Channels : \E n \in DOMAIN Table4Segment'[k][c] :
                                       t = Table4Segment'[k][c][n]
        BY DEF TablesUsed
      <4>2. DOMAIN << >> = {}  OBVIOUS
      <4> QED  BY <1>2, <1>4, <2>2, <4>1, <4>2
    <3>2. TablesUsed(k)' = 0 .. NrOfTables'[k] - 1  BY <1>5, <2>2, <3>1
    <3> QED  BY <3>2 DEF TablesRead
  <2> QED  BY <2>1, <2>2
<1>9. MappingInv'
  <2>1. IF kind = "F" THEN Unmapped("P")' ELSE Mapped("F")'
    <3>1. CASE kind = "F"  BY <1>3, <1>4, <1>5, <3>1 DEF Unmapped, Kinds
    <3>2. CASE kind = "P"
      BY <1>3, <1>4, <1>5, <1>7, <3>2 DEF Mapped, NrOfSegments, Kinds
    <3> QED  BY <1>2, <3>1, <3>2 DEF Kinds
  <2>2. MappingInPlace'
    <3>1. \A c \in Channels : c >= 0 /\ NrOfSegments(kind, c) \in Nat /\ NrOfSegments(kind, c) >= 1
      BY <1>2, Tables, FrameNumbers
    <3>2. \A c \in Channels : NrOfSegments(kind, c)' = NrOfSegments(kind, c)
      BY <1>1, <1>7 DEF NrOfSegments
    <3>3. \A c \in Channels : MapOf(c)' = IF c = 0 THEN <<0>> ELSE << >>
      BY <1>1, <1>4 DEF MapOf
    <3>4. NrOfTables'[kind] <= 0 * (MAXNROF_SEGS + 1) + Len(<<0>>)
      <4>1. MAXNROF_SEGS + 1 \in Nat  BY FrameNumbers
      <4>2. 0 * (MAXNROF_SEGS + 1) = 0  BY <4>1
      <4> QED  BY <1>2, <1>5, <4>2
    <3>5. MapOf(ChNr)' = <<0>>  BY <1>1, <1>2, <3>3
    <3>6. ASSUME NEW c \in Channels
          PROVE  /\ c < ChNr' => Len(MapOf(c)') = NrOfSegments(kind, c)'
                 /\ c = ChNr' => Len(MapOf(c)') <= NrOfSegments(kind, c)'
                 /\ c > ChNr' => MapOf(c)' = << >>
      <4>1. c \in Int /\ c >= 0  BY FrameNumbers
      <4>2. CASE c = 0
        <5>1. Len(MapOf(c)') = 1  BY <1>2, <3>3, <4>2
        <5>2. NrOfSegments(kind, c)' \in Nat /\ NrOfSegments(kind, c)' >= 1  BY <3>1, <3>2
        <5>3. ~(c < ChNr') /\ ~(c > ChNr')  BY <1>1, <4>2
        <5>4. Len(MapOf(c)') <= NrOfSegments(kind, c)'  BY <5>1, <5>2
        <5> QED  BY <5>3, <5>4
      <4>3. CASE c # 0  BY <1>1, <3>3, <4>1, <4>3
      <4> QED  BY <4>2, <4>3
    <3>7. NrOfTables'[kind'] <= ChNr' * (MAXNROF_SEGS + 1) + Len(MapOf(ChNr)')
      BY <1>1, <3>4, <3>5
    <3> QED  BY <1>1, <3>6, <3>7 DEF MappingInPlace
  <2> QED  BY <1>1, <2>1, <2>2 DEF MappingInv, BeforeSegments, AfterMapping
<1> QED  BY <1>6, <1>7, <1>8, <1>9 DEF FrameInv

LEMMA ReadMapStep ==
  ASSUME FrameInv, ReadMap
  PROVE  FrameInv'
<1>1. CASE Fail("InvalidTableNumber")  BY <1>1, FailStep DEF Errors
<1>2. CASE ~Fail("InvalidTableNumber")
  <2>1. PICK n \in Unsigned(Log2RoundUp(NrOfTables[kind])) :
          /\ n <= NrOfTables[kind]
          /\ Table4Segment' = [Table4Segment EXCEPT ![kind] = [Table4Segment[kind] EXCEPT
                                 ![ChNr] = Append(Table4Segment[kind][ChNr], n)]]
          /\ NrOfTables' = [NrOfTables EXCEPT ![kind] = IF n >= NrOfTables[kind]
                              THEN NrOfTables[kind] + 1 ELSE NrOfTables[kind]]
          /\ UNCHANGED <<pc, place, PSameAsF, SameAllCh, segments, entry, error, output>>
    BY <1>2 DEF ReadMap, TableNumber
  <2>2. /\ pc = "map" /\ ~ChannelMapped
        /\ UNCHANGED <<pc, kind, ChNr, SegNr, SameAllCh, error, output>> /\ UNCHANGED segments
    BY <2>1 DEF ReadMap, place
  <2>3. n \in Nat /\ kind \in Kinds /\ ChNr \in Channels  BY <2>1, NumberRead, Place
  <2> DEFINE l == Table4Segment[kind][ChNr]
             x == NrOfTables[kind]
  <2>4. /\ l \in Seq(Nat) /\ x \in Nat /\ n <= x /\ Len(l) \in Nat
        /\ Append(l, n) \in Seq(Nat) /\ Len(Append(l, n)) = Len(l) + 1
        /\ \A i \in 1..Len(l) : Append(l, n)[i] = l[i]
        /\ Append(l, n)[Len(l) + 1] = n
    BY <2>1, <2>3, Tables
  <2>5. /\ Table4Segment' \in [Kinds -> [Channels -> Seq(Nat)]]
        /\ Table4Segment'[kind][ChNr] = Append(l, n)
        /\ \A k \in Kinds, c \in Channels : k # kind \/ c # ChNr => Table4Segment'[k][c] = Table4Segment[k][c]
    <3>1. Table4Segment \in [Kinds -> [Channels -> Seq(Nat)]]  BY Tables
    <3>2. [Table4Segment[kind] EXCEPT ![ChNr] = Append(l, n)] \in [Channels -> Seq(Nat)]
      BY <2>3, <2>4, <3>1
    <3> QED  BY <2>1, <2>3, <3>1, <3>2
  <2>6. /\ NrOfTables' \in [Kinds -> Nat]
        /\ NrOfTables'[kind] = IF n = x THEN x + 1 ELSE x
        /\ \A k \in Kinds : k # kind => NrOfTables'[k] = NrOfTables[k]
    BY <2>1, <2>3, <2>4, Tables
  <2> HIDE DEF l, x
  <2>7. MappingInPlace /\ IF kind = "F" THEN Unmapped("P") ELSE Mapped("F")
    BY <2>2 DEF FrameInv, MappingInv
  <2>8. /\ Len(l) + 1 <= NrOfSegments(kind, ChNr) /\ NrOfSegments(kind, ChNr) \in 1 .. MAXNROF_SEGS + 1
        /\ x <= ChNr * (MAXNROF_SEGS + 1) + Len(l)
    <3>1. Len(l) # NrOfSegments(kind, ChNr)  BY <2>2 DEF ChannelMapped, MapOf, l
    <3>2. Len(l) <= NrOfSegments(kind, ChNr) /\ x <= ChNr * (MAXNROF_SEGS + 1) + Len(l)
      BY <2>3, <2>7 DEF MappingInPlace, MapOf, l, x
    <3>3. NrOfSegments(kind, ChNr) \in 1 .. MAXNROF_SEGS + 1  BY <2>3, Tables
    <3>4. \A a \in Nat, b \in Int : a # b /\ a <= b => a + 1 <= b  OBVIOUS
    <3> QED  BY <2>4, <3>1, <3>2, <3>3, <3>4
  <2>9. NrOfTables'[kind] <= ChNr * (MAXNROF_SEGS + 1) + (Len(l) + 1)
    <3>1. PICK m \in Nat : m = ChNr * (MAXNROF_SEGS + 1)  BY <2>3, TableSpace
    <3> QED  BY <2>4, <2>6, <2>8, <3>1
  <2>10. Types'
    <3>1. PICK m \in Nat : m = ChNr * (MAXNROF_SEGS + 1)  BY <2>3, TableSpace
    <3>2. PICK s \in Nat : s = NrOfChannels * (MAXNROF_SEGS + 1)  BY <2>3, TableSpace
    <3>3. m + (MAXNROF_SEGS + 1) <= s
      <4>1. ChNr * (MAXNROF_SEGS + 1) + (MAXNROF_SEGS + 1) <= NrOfChannels * (MAXNROF_SEGS + 1)
        BY <2>3, TableSpace
      <4> QED  BY <3>1, <3>2, <4>1
    <3>4. NrOfTables'[kind] <= s
      <4>1. NrOfTables'[kind] <= m + (Len(l) + 1)  BY <2>9, <3>1
      <4>2. /\ MAXNROF_SEGS \in Nat /\ Len(l) \in Nat /\ NrOfTables'[kind] \in Nat
            /\ Len(l) + 1 <= MAXNROF_SEGS + 1
        <5>1. NrOfSegments(kind, ChNr) \in 1 .. MAXNROF_SEGS + 1 /\ Len(l) \in Nat
          BY <2>4, <2>8
        <5>2. Len(l) + 1 <= NrOfSegments(kind, ChNr) /\ MAXNROF_SEGS \in Nat
          BY <2>8, FrameNumbers
        <5>3. NrOfTables'[kind] \in Nat  BY <2>3, <2>6
        <5> QED  BY <5>1, <5>2, <5>3
      <4> QED  BY <3>3, <4>1, <4>2
    <3>5. \A k \in Kinds : NrOfTables'[k] <= s  BY <2>6, <3>2, <3>4, Tables
    <3> QED  BY <2>2, <2>3, <2>5, <2>6, <3>2, <3>5, MappingTypes
  <2>11. SegmentsInv' /\ Resolution' = Resolution /\ SegmentLen' = SegmentLen
    BY <2>2, SegmentsStay DEF BeforeSegments
  <2>12. TablesInv'
    <3> SUFFICES ASSUME NEW k \in Kinds PROVE TablesRead(k)'
      BY DEF TablesInv
    <3>1. CASE k # kind
      <4>1. Table4Segment'[k] = Table4Segment[k]  BY <2>5, <3>1, Tables
      <4>2. TablesUsed(k)' = TablesUsed(k)  BY <4>1 DEF TablesUsed
      <4> QED  BY <2>6, <2>11, <3>1, <4>2, TablesStay DEF FrameInv
    <3>2. CASE k = kind
      <4>1. \A t : t \in TablesUsed(k)' <=> t \in TablesUsed(k) \/ t = n
        <5> TAKE t
        <5>1. t \in TablesUsed(k)' <=> \E c \in Channels : \E i \in DOMAIN Table4Segment'[k][c] :
                                         t = Table4Segment'[k][c][i]
          BY DEF TablesUsed
        <5>2. t \in TablesUsed(k) <=> \E c \in Channels : \E i \in DOMAIN Table4Segment[k][c] :
                                         t = Table4Segment[k][c][i]
          BY UsedTables
        <5>3. (\E i \in DOMAIN Append(l, n) : t = Append(l, n)[i])
                <=> (\E i \in DOMAIN l : t = l[i]) \/ t = n
          <6>1. DOMAIN l = 1..Len(l) /\ DOMAIN Append(l, n) = 1..Len(l) + 1  BY <2>4
          <6>2. \A i \in 1..Len(l) + 1 : i = Len(l) + 1 \/ i \in 1..Len(l)  BY <2>4
          <6>3. \A i \in 1..Len(l) : i \in 1..Len(l) + 1  BY <2>4
          <6>4. Len(l) + 1 \in 1..Len(l) + 1  BY <2>4
          <6> QED  BY <2>4, <6>1, <6>2, <6>3, <6>4
        <5>4. \A c \in Channels : c # ChNr => Table4Segment'[k][c] = Table4Segment[k][c]
          BY <2>5, <3>2
        <5>5. Table4Segment'[k][ChNr] = Append(l, n) /\ Table4Segment[k][ChNr] = l
          BY <2>5, <3>2 DEF l
        <5>6. ASSUME t \in TablesUsed(k)' PROVE t \in TablesUsed(k) \/ t = n
          <6>1. PICK c \in Channels : \E i \in DOMAIN Table4Segment'[k][c] : t = Table4Segment'[k][c][i]
            BY <5>1, <5>6
          <6>2. CASE c = ChNr  BY <2>3, <5>2, <5>3, <5>5, <6>1, <6>2
          <6>3. CASE c # ChNr  BY <5>2, <5>4, <6>1, <6>3
          <6> QED  BY <6>2, <6>3
        <5>7. ASSUME t \in TablesUsed(k) PROVE t \in TablesUsed(k)'
          <6>1. PICK c \in Channels : \E i \in DOMAIN Table4Segment[k][c] : t = Table4Segment[k][c][i]
            BY <5>2, <5>7
          <6>2. CASE c = ChNr  BY <2>3, <5>1, <5>3, <5>5, <6>1, <6>2
          <6>3. CASE c # ChNr  BY <5>1, <5>4, <6>1, <6>3
          <6> QED  BY <6>2, <6>3
        <5>8. ASSUME t = n PROVE t \in TablesUsed(k)'  BY <2>3, <5>1, <5>3, <5>5, <5>8
        <5> QED  BY <5>6, <5>7, <5>8
      <4>2. /\ TablesUsed(k) \subseteq 0 .. x - 1
            /\ NoneOutside(k) => 0 .. x - 1 \subseteq TablesUsed(k)
        BY <3>2, Tables DEF TablesRead, x
      <4>3. \A t : t \in 0 .. x - 1 \/ t = n <=> t \in 0 .. NrOfTables'[kind] - 1
        BY <2>3, <2>4, <2>6
      <4>4. NoneOutside(k)' = NoneOutside(k)  BY <2>11 DEF NoneOutside, NrOfSegments
      <4>5. TablesUsed(k)' \subseteq 0 .. NrOfTables'[kind] - 1  BY <4>1, <4>2, <4>3
      <4>6. NoneOutside(k) => 0 .. NrOfTables'[kind] - 1 \subseteq TablesUsed(k)'
        BY <4>1, <4>2, <4>3
      <4> QED  BY <3>2, <4>4, <4>5, <4>6 DEF TablesRead
    <3> QED  BY <3>1, <3>2
  <2>13. MappingInv'
    <3>1. IF kind = "F" THEN Unmapped("P")' ELSE Mapped("F")'
      <4>1. CASE kind = "F"  BY <2>5, <2>6, <2>7, <4>1 DEF Unmapped, Kinds
      <4>2. CASE kind = "P"
        BY <2>5, <2>6, <2>7, <2>11, <4>2 DEF Mapped, NrOfSegments, Kinds
      <4> QED  BY <2>3, <4>1, <4>2 DEF Kinds
    <3>2. MappingInPlace'
      <4>1. \A c \in Channels : NrOfSegments(kind, c)' = NrOfSegments(kind, c)
        BY <2>2, <2>11 DEF NrOfSegments
      <4>2. \A c \in Channels : MapOf(c)' = IF c = ChNr THEN Append(l, n) ELSE MapOf(c)
        BY <2>2, <2>3, <2>5 DEF MapOf
      <4>3. \A c \in Channels : c \in Int  BY FrameNumbers
      <4>4. MapOf(ChNr)' = Append(l, n)  BY <2>2, <2>3, <4>2
      <4> QED  BY <2>2, <2>3, <2>4, <2>7, <2>8, <2>9, <4>1, <4>2, <4>3, <4>4 DEF MappingInPlace
    <3> QED  BY <2>2, <3>1, <3>2 DEF MappingInv, BeforeSegments, AfterMapping
  <2> QED  BY <2>10, <2>11, <2>12, <2>13 DEF FrameInv
<1> QED  BY <1>1, <1>2

LEMMA NextChannelStep ==
  ASSUME FrameInv, NextChannel
  PROVE  FrameInv'
<1>1. /\ pc = "map" /\ Len(MapOf(ChNr)) = NrOfSegments(kind, ChNr) /\ ~SameAllCh
      /\ ChNr < NrOfChannels - 1 /\ ChNr' = ChNr + 1
      /\ UNCHANGED <<pc, kind, SegNr, SameAllCh, error, output>>
      /\ UNCHANGED segments /\ UNCHANGED mapping
  BY DEF NextChannel, ChannelMapped
<1>2. ChNr \in Channels /\ ChNr' \in Channels /\ kind \in Kinds /\ \A c \in Channels : c \in Nat
  BY <1>1, Place, FrameNumbers
<1>3. UNCHANGED Table4Segment /\ UNCHANGED NrOfTables  BY <1>1 DEF mapping
<1>4. Types'
  <2>1. /\ NrOfTables' \in [Kinds -> Nat] /\ Table4Segment' \in [Kinds -> [Channels -> Seq(Nat)]]
        /\ \A k \in Kinds : NrOfTables'[k] <= NrOfChannels * (MAXNROF_SEGS + 1)
    BY <1>3, Tables
  <2> QED  BY <1>1, <1>2, <2>1, MappingTypes
<1>5. SegmentsInv' /\ Resolution' = Resolution /\ SegmentLen' = SegmentLen
  BY <1>1, SegmentsStay DEF BeforeSegments
<1>6. MappingInv'
  <2>1. MappingInPlace /\ IF kind = "F" THEN Unmapped("P") ELSE Mapped("F")
    BY <1>1 DEF FrameInv, MappingInv
  <2>2. IF kind = "F" THEN Unmapped("P")' ELSE Mapped("F")'
    BY <1>3, <1>5, <2>1 DEF Unmapped, Mapped, NrOfSegments
  <2>3. \A c \in Channels : MapOf(c)' = MapOf(c) /\ NrOfSegments(kind, c)' = NrOfSegments(kind, c)
    BY <1>1, <1>3, <1>5 DEF MapOf, NrOfSegments
  <2>4. ASSUME NEW c \in Channels
        PROVE  /\ c < ChNr' => Len(MapOf(c)') = NrOfSegments(kind, c)'
               /\ c = ChNr' => Len(MapOf(c)') <= NrOfSegments(kind, c)'
               /\ c > ChNr' => MapOf(c)' = << >>
    <3>1. CASE c < ChNr
      <4>1. ~(c = ChNr') /\ ~(c > ChNr')  BY <1>1, <1>2, <3>1
      <4>2. Len(MapOf(c)) = NrOfSegments(kind, c)  BY <2>1, <3>1 DEF MappingInPlace
      <4> QED  BY <2>3, <4>1, <4>2
    <3>2. CASE c = ChNr
      <4>1. ~(c = ChNr') /\ ~(c > ChNr')  BY <1>1, <1>2, <3>2
      <4> QED  BY <1>1, <2>3, <3>2, <4>1
    <3>3. CASE c > ChNr
      <4>1. ~(c < ChNr')  BY <1>1, <1>2, <3>3
      <4>2. MapOf(c)' = << >>  BY <2>1, <2>3, <3>3 DEF MappingInPlace
      <4>3. NrOfSegments(kind, c)' >= 1 /\ NrOfSegments(kind, c)' \in Nat
        BY <1>2, <2>3, Tables, FrameNumbers
      <4>4. Len(MapOf(c)') <= NrOfSegments(kind, c)'  BY <4>2, <4>3
      <4> QED  BY <4>1, <4>2, <4>4
    <3> QED  BY <1>2, <3>1, <3>2, <3>3
  <2>5. NrOfTables'[kind'] <= ChNr' * (MAXNROF_SEGS + 1) + Len(MapOf(ChNr)')
    <3>1. PICK m \in Nat : m = ChNr * (MAXNROF_SEGS + 1)  BY <1>2, TableSpace
    <3>2. ChNr' * (MAXNROF_SEGS + 1) = m + (MAXNROF_SEGS + 1)  BY <1>1, <1>2, <3>1, TableSpace
    <3>3. MapOf(ChNr)' = << >>
      <4>1. ChNr' > ChNr  BY <1>1, <1>2
      <4>2. MapOf(ChNr') = << >>  BY <1>2, <2>1, <4>1 DEF MappingInPlace
      <4> QED  BY <1>1, <1>3, <4>2 DEF MapOf
    <3>4. NrOfTables[kind] <= m + Len(MapOf(ChNr))  BY <2>1, <3>1 DEF MappingInPlace
    <3>5. Len(MapOf(ChNr)) \in Nat /\ Len(MapOf(ChNr)) <= MAXNROF_SEGS + 1
      BY <1>1, <1>2, Tables, FrameNumbers
    <3>6. NrOfTables[kind] <= m + (MAXNROF_SEGS + 1)
      <4>1. NrOfTables[kind] \in Nat  BY <1>2, Tables
      <4> QED  BY <3>4, <3>5, <4>1, FrameNumbers
    <3>7. Len(<< >>) = 0 /\ MAXNROF_SEGS \in Nat  BY FrameNumbers
    <3>8. m + (MAXNROF_SEGS + 1) + 0 = m + (MAXNROF_SEGS + 1)  BY <3>7
    <3> QED  BY <1>1, <1>3, <3>2, <3>3, <3>6, <3>7, <3>8
  <2>6. MappingInPlace'
    <3>1. ~SameAllCh'  BY <1>1
    <3> QED  BY <1>1, <2>4, <2>5, <3>1 DEF MappingInPlace
  <2> QED  BY <1>1, <2>2, <2>6 DEF MappingInv, BeforeSegments, AfterMapping
<1> QED  BY <1>1, <1>4, <1>5, <1>6, TablesKept DEF FrameInv

\* Of what was written, each channel has as many tables in its space, and only
\* the one outside of it is another: the first of the next channel.
LEMMA WhatIsInSpace ==
  ASSUME NEW maps \in [Channels -> Seq(Nat)], \A c \in Channels : Len(maps[c]) >= 1, NEW c \in Channels
  PROVE  /\ InSpace(maps)[c] \in Seq(Nat) /\ Len(InSpace(maps)[c]) = Len(maps[c])
         /\ Len(maps[c]) <= MAXNROF_SEGS => InSpace(maps)[c] = maps[c]
         /\ \A n \in DOMAIN InSpace(maps)[c] : \E d \in Channels : \E i \in DOMAIN maps[d] :
              InSpace(maps)[c][n] = maps[d][i]
<1> DEFINE next == maps[c + 1][1]
           changed == [maps[c] EXCEPT ![MAXNROF_SEGS + 1] = next]
<1>1. InSpace(maps)[c] = IF Len(maps[c]) > MAXNROF_SEGS /\ c + 1 \in Channels THEN changed ELSE maps[c]
  BY DEF InSpace
<1>2. maps[c] \in Seq(Nat) /\ Len(maps[c]) \in Nat /\ MAXNROF_SEGS \in Nat  BY FrameNumbers
<1>3. CASE Len(maps[c]) > MAXNROF_SEGS /\ c + 1 \in Channels
  <2>1. 1 \in DOMAIN maps[c + 1] /\ next \in Nat
    <3>1. maps[c + 1] \in Seq(Nat) /\ Len(maps[c + 1]) >= 1  BY <1>3
    <3> QED  BY <3>1
  <2>2. DOMAIN changed = DOMAIN maps[c] /\ DOMAIN maps[c] = 1..Len(maps[c])  BY <1>2
  <2>3. \A n \in DOMAIN maps[c] : changed[n] = IF n = MAXNROF_SEGS + 1 THEN next ELSE maps[c][n]
    OBVIOUS
  <2> HIDE DEF changed, next
  <2>4. changed \in [1..Len(maps[c]) -> Nat]
    <3>1. \A n \in 1..Len(maps[c]) : maps[c][n] \in Nat  BY <1>2
    <3>2. changed = [n \in DOMAIN maps[c] |-> changed[n]]  BY DEF changed
    <3> QED  BY <2>1, <2>2, <2>3, <3>1, <3>2
  <2>5. changed \in Seq(Nat) /\ Len(changed) = Len(maps[c])  BY <1>2, <2>4
  <2>6. ~(Len(maps[c]) <= MAXNROF_SEGS)  BY <1>2, <1>3
  <2>7. \A n \in DOMAIN changed : \/ changed[n] = maps[c + 1][1]
                                  \/ n \in DOMAIN maps[c] /\ changed[n] = maps[c][n]
    BY <2>2, <2>3 DEF next
  <2> QED  BY <1>1, <1>3, <2>1, <2>5, <2>6, <2>7
<1>4. CASE ~(Len(maps[c]) > MAXNROF_SEGS /\ c + 1 \in Channels)  BY <1>1, <1>2, <1>4
<1> QED  BY <1>3, <1>4

LEMMA MapReadStep ==
  ASSUME FrameInv, MapRead
  PROVE  FrameInv'
<1>1. CASE Fail("InvalidChannelMapping") \/ Fail("TooManyTables")
  BY <1>1, FailStep DEF Errors
<1>2. CASE ~(Fail("InvalidChannelMapping") \/ Fail("TooManyTables"))
  <2>1. /\ pc = "map" /\ Len(MapOf(ChNr)) = NrOfSegments(kind, ChNr)
        /\ SameAllCh \/ ChNr = NrOfChannels - 1
        /\ SameAllCh => \A c \in Channels : NrOfSegments(kind, c) = NrOfSegments(kind, 0)
        /\ ~(NrOfTables[kind] > MaxNrOfTables)
        /\ Table4Segment' = [Table4Segment EXCEPT ![kind] =
             IF SameAllCh THEN [c \in Channels |-> InSpace([d \in Channels |-> Table4Segment[kind][0]])[0]]
             ELSE InSpace(Table4Segment[kind])]
        /\ pc' = IF kind = "P" THEN "half" ELSE IF PSameAsF THEN "copy_map" ELSE "same_map"
        /\ kind' = "P"
        /\ UNCHANGED <<ChNr, SegNr, error, output>> /\ UNCHANGED segments /\ UNCHANGED NrOfTables
    BY <1>2 DEF MapRead, ChannelMapped
  <2>2. /\ kind \in Kinds /\ ChNr \in Channels /\ 0 \in Channels /\ \A c \in Channels : c \in Nat
        /\ Table4Segment \in [Kinds -> [Channels -> Seq(Nat)]]
    BY Place, Tables, FrameNumbers
  <2>3. MappingInPlace /\ IF kind = "F" THEN Unmapped("P") ELSE Mapped("F")
    BY <2>1 DEF FrameInv, MappingInv
  <2> DEFINE written == IF SameAllCh THEN [d \in Channels |-> Table4Segment[kind][0]]
                        ELSE Table4Segment[kind]
             row(c) == IF SameAllCh THEN 0 ELSE c
  <2>12. ASSUME NEW c \in Channels PROVE Len(written[c]) = NrOfSegments(kind, c)
    <3>1. CASE SameAllCh
      <4>1. ChNr = 0  BY <2>3, <3>1 DEF MappingInPlace
      <4>2. Len(Table4Segment[kind][0]) = NrOfSegments(kind, 0)  BY <2>1, <4>1 DEF MapOf
      <4> QED  BY <2>1, <3>1, <4>2
    <3>2. CASE ~SameAllCh
      <4>1. ChNr = NrOfChannels - 1 /\ (c < ChNr \/ c = ChNr)
        BY <2>1, <2>2, <3>2, FrameNumbers
      <4>2. Len(Table4Segment[kind][c]) = NrOfSegments(kind, c)
        BY <2>1, <2>3, <4>1 DEF MappingInPlace, MapOf
      <4> QED  BY <3>2, <4>2
    <3> QED  BY <3>1, <3>2
  <2>13. written \in [Channels -> Seq(Nat)] /\ \A c \in Channels : Len(written[c]) >= 1
    <3>1. \A c \in Channels : NrOfSegments(kind, c) >= 1  BY <2>2, Tables, FrameNumbers
    <3> QED  BY <2>2, <2>12, <3>1
  <2>4. /\ Table4Segment' \in [Kinds -> [Channels -> Seq(Nat)]]
        /\ \A k \in Kinds : k # kind => Table4Segment'[k] = Table4Segment[k]
        /\ \A c \in Channels : row(c) \in Channels /\ Table4Segment'[kind][c] = InSpace(written)[row(c)]
    <3>1. \A c \in Channels : InSpace(written)[c] \in Seq(Nat)
      <4> HIDE DEF written
      <4> QED  BY <2>13, WhatIsInSpace
    <3>2. CASE SameAllCh
      <4>1. [c \in Channels |-> InSpace(written)[0]] \in [Channels -> Seq(Nat)]  BY <2>2, <3>1
      <4>2. Table4Segment' = [Table4Segment EXCEPT ![kind] = [c \in Channels |-> InSpace(written)[0]]]
        BY <2>1, <3>2
      <4> HIDE DEF written
      <4> QED  BY <2>2, <3>2, <4>1, <4>2
    <3>3. CASE ~SameAllCh
      <4>1. InSpace(written) \in [Channels -> Seq(Nat)]
        <5>1. DOMAIN InSpace(written) = Channels
              /\ InSpace(written) = [c \in Channels |-> InSpace(written)[c]]  BY DEF InSpace
        <5> HIDE DEF written
        <5> QED  BY <3>1, <5>1
      <4>2. Table4Segment' = [Table4Segment EXCEPT ![kind] = InSpace(written)]  BY <2>1, <3>3
      <4> HIDE DEF written
      <4> QED  BY <2>2, <3>3, <4>1, <4>2
    <3> QED  BY <3>2, <3>3
  <2>5. SegmentsInv' /\ Resolution' = Resolution /\ SegmentLen' = SegmentLen
    <3>1. pc' \in {"half", "copy_map", "same_map"}  BY <2>1
    <3> QED  BY <2>1, <3>1, SegmentsStay DEF BeforeSegments
  <2>6. \A k \in Kinds : k = kind => Mapped(k)'
    <3>1. NrOfTables'[kind] <= MaxNrOfTables
      <4>1. NrOfTables[kind] \in Nat  BY <2>2, Tables
      <4>2. MaxNrOfTables \in Nat  BY FrameNumbers DEF MaxNrOfTables
      <4> QED  BY <2>1, <4>1, <4>2
    <3>2. ASSUME NEW c \in Channels
          PROVE  Len(Table4Segment'[kind][c]) = NrOfSegments(kind, c)
      <4>1. NrOfSegments(kind, row(c)) = NrOfSegments(kind, c)  BY <2>1
      <4>2. Len(written[row(c)]) = NrOfSegments(kind, c)  BY <2>4, <2>12, <4>1
      <4>3. Len(InSpace(written)[row(c)]) = Len(written[row(c)])
        <5> HIDE DEF written, row
        <5> QED  BY <2>4, <2>13, WhatIsInSpace
      <4> QED  BY <2>4, <4>2, <4>3
    <3> QED  BY <2>5, <3>1, <3>2 DEF Mapped, NrOfSegments
  <2>7. kind = "P" => Mapped("F")'
    BY <2>1, <2>3, <2>4, <2>5 DEF Mapped, NrOfSegments, Kinds
  <2>8. kind = "F" => Unmapped("P")'
    BY <2>1, <2>3, <2>4 DEF Unmapped, Kinds
  <2>9. MappingInv'
    <3>1. CASE kind = "P"
      <4>1. Mapped("F")' /\ Mapped("P")'  BY <2>2, <2>6, <2>7, <3>1
      <4> QED  BY <2>1, <3>1, <4>1 DEF MappingInv, BeforeSegments, AfterMapping
    <3>2. CASE kind = "F"
      <4>1. Mapped("F")' /\ Unmapped("P")' /\ pc' \in {"copy_map", "same_map"} /\ kind' = "P"
        BY <2>1, <2>2, <2>6, <2>8, <3>2
      <4> QED  BY <4>1 DEF MappingInv, BeforeSegments, AfterMapping
    <3> QED  BY <2>2, <3>1, <3>2 DEF Kinds
  <2>10. Types'
    <3>1. /\ NrOfTables' \in [Kinds -> Nat] /\ "P" \in Kinds
          /\ \A k \in Kinds : NrOfTables'[k] <= NrOfChannels * (MAXNROF_SEGS + 1)
      BY <2>1, Tables DEF Kinds
    <3>2. pc' \in {"half", "copy_map", "same_map"} /\ kind' \in Kinds /\ ChNr' \in Channels
      BY <2>1, <2>2, <3>1
    <3> QED  BY <2>1, <2>4, <3>1, <3>2, MappingTypes
  <2>11. TablesInv'
    <3> SUFFICES ASSUME NEW k \in Kinds PROVE TablesRead(k)'  BY DEF TablesInv
    <3>1. CASE k # kind
      <4>1. TablesUsed(k)' = TablesUsed(k)  BY <2>4, <3>1 DEF TablesUsed
      <4> QED  BY <2>1, <2>5, <4>1, TablesStay DEF FrameInv
    <3>2. CASE k = kind
      <4>1. \A t : t \in TablesUsed(k)' <=> \E c \in Channels : \E i \in DOMAIN Table4Segment'[k][c] :
                                            t = Table4Segment'[k][c][i]
        BY DEF TablesUsed
      <4>2. \A c \in Channels : DOMAIN written[c] = 1..Len(written[c])  BY <2>13
      <4>3. TablesUsed(k)' \subseteq TablesUsed(k)
        <5> SUFFICES ASSUME NEW t \in TablesUsed(k)' PROVE t \in TablesUsed(k)  OBVIOUS
        <5>1. PICK c \in Channels : \E i \in DOMAIN Table4Segment'[k][c] : t = Table4Segment'[k][c][i]
          BY <4>1
        <5>2. PICK d \in Channels : \E j \in DOMAIN written[d] : t = written[d][j]
          <6>1. row(c) \in Channels /\ Table4Segment'[k][c] = InSpace(written)[row(c)]  BY <2>4, <3>2
          <6>2. \A e \in Channels : \A i \in DOMAIN InSpace(written)[e] :
                  \E d \in Channels : \E j \in DOMAIN written[d] : InSpace(written)[e][i] = written[d][j]
            <7> HIDE DEF written, row
            <7> QED  BY <2>13, WhatIsInSpace
          <6> HIDE DEF written, row
          <6>3. PICK i \in DOMAIN InSpace(written)[row(c)] : t = InSpace(written)[row(c)][i]
            BY <5>1, <6>1
          <6> QED  BY <6>1, <6>2, <6>3
        <5>3. written[d] = Table4Segment[k][row(d)] /\ row(d) \in Channels  BY <2>4, <3>2
        <5> HIDE DEF written, row
        <5> QED  BY <5>2, <5>3, UsedTables
      <4>4. ASSUME NoneOutside(k), NEW t \in TablesUsed(k) PROVE t \in TablesUsed(k)'
        <5>1. PICK c \in Channels : \E i \in DOMAIN Table4Segment[k][c] : t = Table4Segment[k][c][i]
          BY UsedTables
        <5>2. row(c) = c /\ written[c] = Table4Segment[k][c]
          <6>1. CASE SameAllCh
            <7>1. ChNr = 0  BY <2>3, <6>1 DEF MappingInPlace
            <7>2. c = 0 \/ c > ChNr  BY <2>2, <7>1
            <7>3. DOMAIN << >> = {}  OBVIOUS
            <7>4. c = 0  BY <2>3, <3>2, <5>1, <7>2, <7>3 DEF MappingInPlace, MapOf
            <7> QED  BY <3>2, <6>1, <7>4
          <6>2. CASE ~SameAllCh  BY <3>2, <6>2
          <6> QED  BY <6>1, <6>2
        <5>3. Len(written[c]) <= MAXNROF_SEGS  BY <2>12, <3>2, <4>4 DEF NoneOutside
        <5>4. Table4Segment'[k][c] = written[c]
          <6>1. Table4Segment'[k][c] = InSpace(written)[c]
            <7>1. Table4Segment'[k][c] = InSpace(written)[row(c)]  BY <2>4, <3>2
            <7> HIDE DEF written, row
            <7> QED  BY <5>2, <7>1
          <6> HIDE DEF written, row
          <6>2. InSpace(written)[c] = written[c]  BY <2>13, <5>3, WhatIsInSpace
          <6> QED  BY <6>1, <6>2
        <5> QED  BY <4>1, <5>1, <5>2, <5>4
      <4>5. NoneOutside(k)' = NoneOutside(k)  BY <2>5 DEF NoneOutside, NrOfSegments
      <4>6. NrOfTables'[k] = NrOfTables[k] /\ TablesRead(k)  BY <2>1, Tables
      <4> QED  BY <4>3, <4>4, <4>5, <4>6 DEF TablesRead
    <3> QED  BY <3>1, <3>2
  <2> QED  BY <2>5, <2>9, <2>10, <2>11 DEF FrameInv
<1> QED  BY <1>1, <1>2

LEMMA CopyMapStep ==
  ASSUME FrameInv, CopyMap
  PROVE  FrameInv'
<1>1. CASE Fail("SegmentNumberMismatch")  BY <1>1, FailStep DEF Errors
<1>2. CASE ~Fail("SegmentNumberMismatch")
  <2>1. /\ pc = "copy_map" /\ pc' = "half"
        /\ \A c \in Channels : NrOfSegments("P", c) = NrOfSegments("F", c)
        /\ Table4Segment' = [Table4Segment EXCEPT !["P"] = Table4Segment["F"]]
        /\ NrOfTables' = [NrOfTables EXCEPT !["P"] = NrOfTables["F"]]
        /\ UNCHANGED <<kind, ChNr, SegNr, error, output>> /\ UNCHANGED segments
    BY <1>2 DEF CopyMap, SameSegmentNumbers, place
  <2>2. /\ kind \in Kinds /\ ChNr \in Channels /\ "F" \in Kinds /\ "P" \in Kinds
        /\ Table4Segment \in [Kinds -> [Channels -> Seq(Nat)]] /\ NrOfTables \in [Kinds -> Nat]
    BY Place, Tables DEF Kinds
  <2>3. /\ Table4Segment' \in [Kinds -> [Channels -> Seq(Nat)]] /\ NrOfTables' \in [Kinds -> Nat]
        /\ \A k \in Kinds : Table4Segment'[k] = Table4Segment["F"] /\ NrOfTables'[k] = NrOfTables["F"]
    BY <2>1, <2>2 DEF Kinds
  <2>4. Types'
    <3>1. \A k \in Kinds : NrOfTables'[k] <= NrOfChannels * (MAXNROF_SEGS + 1)
      BY <2>2, <2>3, Tables
    <3> QED  BY <2>1, <2>2, <2>3, <3>1, MappingTypes
  <2>5. SegmentsInv' /\ Resolution' = Resolution /\ SegmentLen' = SegmentLen
    BY <2>1, SegmentsStay DEF BeforeSegments
  <2>6. TablesInv'
    <3> SUFFICES ASSUME NEW k \in Kinds PROVE TablesRead(k)'
      BY DEF TablesInv
    <3>1. TablesUsed(k)' = TablesUsed("F")  BY <2>3 DEF TablesUsed
    <3>2. NoneOutside(k)' => NoneOutside("F")
      BY <2>1, <2>5 DEF NoneOutside, NrOfSegments, Kinds
    <3> QED  BY <2>2, <2>3, <3>1, <3>2, Tables DEF TablesRead
  <2>7. MappingInv'
    <3>1. Mapped("F")  BY <2>1 DEF FrameInv, MappingInv
    <3>2. Mapped("F")' /\ Mapped("P")'
      BY <2>1, <2>2, <2>3, <2>5, <3>1 DEF Mapped, NrOfSegments
    <3> QED  BY <2>1, <3>2 DEF MappingInv, BeforeSegments, AfterMapping
  <2> QED  BY <2>4, <2>5, <2>6, <2>7 DEF FrameInv
<1> QED  BY <1>1, <1>2

-----------------------------------------------------------------------------
(* The inductive invariant of the decoding of a frame *)

LEMMA FrameStarts == Init => FrameInv
<1> SUFFICES ASSUME Init PROVE FrameInv  OBVIOUS
<1>1. /\ pc = "header" /\ kind = "F" /\ ChNr = 0 /\ SegNr = 0
      /\ \A k \in Kinds : Resolution[k] = 0 /\ NrOfTables[k] = 0
      /\ \A k \in Kinds, c \in Channels : SegmentLen[k][c] = << >> /\ Table4Segment[k][c] = << >>
      /\ "F" \in Kinds /\ "P" \in Kinds /\ Len(<< >>) = 0 /\ DOMAIN << >> = {}
  BY DEF Init, Kinds
<1>2. Types
  <2>1. PICK m \in Nat : m = NrOfChannels * (MAXNROF_SEGS + 1)  BY FrameNumbers, TableSpace
  <2>2. 0 \in Channels /\ 0 \in 0 .. MAXNROF_SEGS /\ 0 \in 0 .. MaxFrameLen /\ 0 \in 0 .. m
    BY <2>1, FrameNumbers
  <2>3. error \in Errors /\ output \in {"undefined", "silence", "audio"}  BY DEF Init, Errors
  <2>4. TypeOK  BY <1>1, <2>1, <2>2, <2>3 DEF TypeOK
  <2>5. << >> \in Seq(Nat)  OBVIOUS
  <2> QED  BY <2>4, <2>5 DEF Types, Init
<1>3. SegmentsInv
  <2>1. ASSUME NEW k \in Kinds, NEW c \in Channels PROVE SegmentsFit(k, c)
    <3>1. BitsRead(k, c) = 0  BY <1>1, BitsOfNone DEF BitsRead
    <3> QED  BY <1>1, <3>1, FrameNumbers DEF SegmentsFit
  <2>2. SegmentsInPlace  BY <1>1 DEF SegmentsInPlace, BeforeSegments, NoSegments
  <2> QED  BY <2>1, <2>2 DEF SegmentsInv
<1>4. TablesInv
  <2> SUFFICES ASSUME NEW k \in Kinds PROVE TablesUsed(k) = 0 .. NrOfTables[k] - 1
    BY AllTablesUsed DEF TablesInv
  <2>1. \A t : t \notin TablesUsed(k)  BY <1>1, UsedTables
  <2>2. \A t : t \notin 0 .. 0 - 1  OBVIOUS
  <2>3. TablesUsed(k) = 0 .. 0 - 1  BY <2>1, <2>2
  <2> QED  BY <1>1, <2>3
<1>5. MappingInv
  <2>1. Unmapped("F") /\ Unmapped("P")  BY <1>1 DEF Unmapped
  <2> QED  BY <1>1, <2>1 DEF MappingInv, BeforeSegments, AfterMapping
<1> QED  BY <1>2, <1>3, <1>4, <1>5 DEF FrameInv

LEMMA FrameStep == FrameInv /\ [Next]_vars => FrameInv'
<1> SUFFICES ASSUME FrameInv, [Next]_vars PROVE FrameInv'  OBVIOUS
<1>1. CASE Step
  BY <1>1, EndOfBitsStep, ReadHeaderStep, ReadPlainStep, ReadSameSegmentsStep, TooManySegmentsStep,
     ReadSegmentStep, EndForAllStep, OverrunStep, EndOfChannelStep, CopySegmentsStep, ReadSameMapStep,
     ReadMapStep, NextChannelStep, MapReadStep, CopyMapStep, ReadHalfProbStep, ReadTableStep,
     ReadRiceStep, ReadRestStep DEF Step
<1>2. CASE UNCHANGED vars
  <2>1. /\ UNCHANGED <<pc, kind, ChNr, SegNr, SameAllCh, error, output>>
        /\ UNCHANGED segments /\ UNCHANGED mapping
    BY <1>2 DEF vars, place
  <2>2. Types'  BY <2>1 DEF FrameInv, Types, TypeOK, segments, mapping
  <2>3. SegmentsInPlace'
    BY <2>1 DEF FrameInv, SegmentsInv, SegmentsInPlace, NoSegments, segments
  <2>4. MappingInv'
    BY <2>1 DEF FrameInv, MappingInv, MappingInPlace, MapOf, Mapped, Unmapped, NrOfSegments,
                segments, mapping
  <2> QED  BY <2>1, <2>2, <2>3, <2>4, SegmentsFitKept, TablesKept DEF FrameInv, SegmentsInv
<1> QED  BY <1>1, <1>2 DEF Next, Stop

\* The segments and tables of a frame are as they were read, up to the one segment
\* too many for all channels, and every table that is used was read, whatever
\* the numbers of channels, segments and tables.  Once the number of segments was
\* overwritten (Overrun), it says nothing of what the code has.
THEOREM FrameInvariant == Init /\ [][Next]_vars => []FrameInv
<1>1. Init => FrameInv  BY FrameStarts
<1>2. FrameInv /\ [Next]_vars => FrameInv'  BY FrameStep
<1> QED  BY <1>1, <1>2, PTL

-----------------------------------------------------------------------------
(* Powers, sums and numbers of bits are recursive functions. *)

\* What TwoTo computes step by step.
IsPower(b, n) == /\ b \in [0 .. n -> Nat] /\ b[0] = 1
                 /\ \A i \in 1 .. n : b[i] = 2 * b[i - 1]

LEMMA PowerSteps ==
  ASSUME NEW n \in Nat
  PROVE  \E b : IsPower(b, n) /\ Audio!TwoTo(n) = b[n]
<1> DEFINE next == [i \in 1..n |-> [v \in Nat |-> 2 * v]]
           Is(b) == b = [k \in 0 .. n |-> IF k = 0 THEN 1 ELSE 2 * b[k - 1]]
<1>1. Steps(next, n, Nat)  BY DEF Steps
<1>2. PICK g : Solves(g, n, Nat, 1, next)
  <2> HIDE DEF next
  <2> QED  BY <1>1, Recursion
<1>3. Is(g)
  <2>1. \A i \in 1..n : i - 1 \in 0..n /\ g[i - 1] \in Nat  BY <1>2 DEF Solves
  <2>2. \A i \in 1..n, v \in Nat : next[i][v] = 2 * v  OBVIOUS
  <2> HIDE DEF next
  <2>3. \A i \in 1..n : g[i] = 2 * g[i - 1]  BY <1>2, <2>1, <2>2 DEF Solves
  <2>4. g = [i \in 0..n |-> g[i]] /\ g[0] = 1  BY <1>2 DEF Solves
  <2>5. \A i \in 0..n : g[i] = IF i = 0 THEN 1 ELSE 2 * g[i - 1]
    <3> TAKE i \in 0..n
    <3>1. i = 0 \/ i \in 1..n  OBVIOUS
    <3> QED  BY <2>3, <2>4, <3>1
  <2> QED  BY <2>4, <2>5
<1> DEFINE b == CHOOSE h : Is(h)
<1>4. Is(b)  BY <1>3
<1>5. Audio!TwoTo(n) = b[n]  BY DEF Audio!TwoTo
<1> HIDE DEF b
<1>6. b[0] = 1 /\ \A i \in 1..n : b[i] = 2 * b[i - 1]
  <2>1. \A i \in 0..n : b[i] = IF i = 0 THEN 1 ELSE 2 * b[i - 1]  BY <1>4
  <2>2. 0 \in 0..n /\ \A i \in 1..n : i \in 0..n /\ i # 0  OBVIOUS
  <2> QED  BY <2>1, <2>2
<1>7. DOMAIN b = 0..n /\ b = [i \in 0..n |-> b[i]]  BY <1>4
<1> HIDE DEF Is
<1>8. \A i \in 0..n : b[i] \in Nat
  <2> DEFINE T == {i \in 0..n : b[i] \in Nat}
  <2>1. 0 \in T  BY <1>6
  <2>2. ASSUME NEW i \in 1..n, i - 1 \in T PROVE i \in T
    BY <1>6, <2>2
  <2> HIDE DEF T
  <2>3. 0..n \subseteq T  BY <2>1, <2>2, Induction
  <2> QED  BY <2>3 DEF T
<1>9. IsPower(b, n)  BY <1>6, <1>7, <1>8 DEF IsPower
<1> QED  BY <1>5, <1>9

\* 2^0 and 2^(n + 1).
LEMMA Powers ==
  /\ Audio!TwoTo(0) = 1
  /\ \A n \in Nat : Audio!TwoTo(n) \in Nat \ {0} /\ Audio!TwoTo(n + 1) = 2 * Audio!TwoTo(n)
<1>1. Audio!TwoTo(0) = 1  BY PowerSteps DEF IsPower
<1>2. ASSUME NEW n \in Nat PROVE Audio!TwoTo(n) \in Nat /\ Audio!TwoTo(n + 1) = 2 * Audio!TwoTo(n)
  <2>1. PICK b : IsPower(b, n) /\ Audio!TwoTo(n) = b[n]  BY PowerSteps
  <2>2. PICK c : IsPower(c, n + 1) /\ Audio!TwoTo(n + 1) = c[n + 1]  BY PowerSteps
  <2> DEFINE T == {i \in 0..n : b[i] = c[i]}
  <2>3. 0 \in T  BY <2>1, <2>2 DEF IsPower
  <2>4. ASSUME NEW i \in 1..n, i - 1 \in T PROVE i \in T
    <3>1. i \in 1..n + 1 /\ i \in 0..n  OBVIOUS
    <3> QED  BY <2>1, <2>2, <2>4, <3>1 DEF IsPower
  <2> HIDE DEF T
  <2>5. 0..n \subseteq T  BY <2>3, <2>4, Induction
  <2>6. b[n] = c[n] /\ b[n] \in Nat  BY <2>1, <2>5 DEF T, IsPower
  <2>7. n + 1 \in 1..n + 1 /\ (n + 1) - 1 = n  OBVIOUS
  <2>8. c[n + 1] = 2 * c[n]  BY <2>2, <2>7 DEF IsPower
  <2> QED  BY <2>1, <2>2, <2>6, <2>8
<1> DEFINE P == {n \in Nat : Audio!TwoTo(n) # 0}
<1>3. ASSUME NEW n \in Nat PROVE Audio!TwoTo(n) # 0
  <2>1. 0 \in P  BY <1>1
  <2>2. ASSUME NEW i \in 1..n, i - 1 \in P PROVE i \in P
    <3>1. i - 1 \in Nat /\ (i - 1) + 1 = i  OBVIOUS
    <3>2. Audio!TwoTo(i) = 2 * Audio!TwoTo(i - 1) /\ Audio!TwoTo(i - 1) \in Nat
      <4>1. Audio!TwoTo((i - 1) + 1) = 2 * Audio!TwoTo(i - 1) /\ Audio!TwoTo(i - 1) \in Nat
        BY <1>2, <3>1
      <4> QED  BY <3>1, <4>1
    <3> QED  BY <2>2, <3>1, <3>2
  <2> HIDE DEF P
  <2>3. 0..n \subseteq P  BY <2>1, <2>2, Induction
  <2>4. n \in 0..n  OBVIOUS
  <2> QED  BY <2>3, <2>4 DEF P
<1> QED  BY <1>1, <1>2, <1>3

LEMMA PowerOfSum ==
  ASSUME NEW m \in Nat, NEW n \in Nat
  PROVE  Audio!TwoTo(m + n) = Audio!TwoTo(m) * Audio!TwoTo(n)
<1> DEFINE T == {i \in Nat : Audio!TwoTo(m + i) = Audio!TwoTo(m) * Audio!TwoTo(i)}
<1>0. Audio!TwoTo(m) \in Nat  BY Powers
<1>1. 0 \in T
  <2>1. Audio!TwoTo(0) = 1 /\ m + 0 = m  BY Powers
  <2> QED  BY <1>0, <2>1
<1>2. ASSUME NEW i \in 1..n, i - 1 \in T PROVE i \in T
  <2>1. i - 1 \in Nat /\ (i - 1) + 1 = i /\ m + (i - 1) \in Nat /\ (m + (i - 1)) + 1 = m + i  OBVIOUS
  <2>2. Audio!TwoTo(i) = 2 * Audio!TwoTo(i - 1) /\ Audio!TwoTo(i - 1) \in Nat
    <3>1. Audio!TwoTo((i - 1) + 1) = 2 * Audio!TwoTo(i - 1) /\ Audio!TwoTo(i - 1) \in Nat
      BY <2>1, Powers
    <3> QED  BY <2>1, <3>1
  <2>3. Audio!TwoTo(m + i) = 2 * Audio!TwoTo(m + (i - 1))
    <3>1. Audio!TwoTo((m + (i - 1)) + 1) = 2 * Audio!TwoTo(m + (i - 1))  BY <2>1, Powers
    <3> QED  BY <2>1, <3>1
  <2>4. Audio!TwoTo(m + (i - 1)) = Audio!TwoTo(m) * Audio!TwoTo(i - 1)  BY <1>2
  <2>5. \A x, y \in Nat : 2 * (x * y) = x * (2 * y)  OBVIOUS
  <2>6. Audio!TwoTo(m + i) = Audio!TwoTo(m) * Audio!TwoTo(i)  BY <1>0, <2>2, <2>3, <2>4, <2>5
  <2> QED  BY <2>1, <2>6
<1> HIDE DEF T
<1>3. 0..n \subseteq T  BY <1>1, <1>2, Induction
<1>4. n \in 0..n  OBVIOUS
<1> QED  BY <1>3, <1>4 DEF T

LEMMA PowersAscend ==
  ASSUME NEW m \in Nat, NEW n \in Nat, m <= n
  PROVE  Audio!TwoTo(m) <= Audio!TwoTo(n)
<1>1. n - m \in Nat /\ m + (n - m) = n  OBVIOUS
<1>2. Audio!TwoTo(m + (n - m)) = Audio!TwoTo(m) * Audio!TwoTo(n - m)  BY <1>1, PowerOfSum
<1>3. Audio!TwoTo(n) = Audio!TwoTo(m) * Audio!TwoTo(n - m)  BY <1>1, <1>2
<1>4. Audio!TwoTo(m) \in Nat /\ Audio!TwoTo(n - m) \in Nat /\ Audio!TwoTo(n - m) >= 1
  BY <1>1, Powers
<1>5. \A x, y \in Nat : y >= 1 => x <= x * y  OBVIOUS
<1> QED  BY <1>3, <1>4, <1>5

\* What Sum computes step by step.
IsSum(b, f, n) == /\ b \in [0 .. n -> Int] /\ b[0] = 0
                  /\ \A i \in 1 .. n : b[i] = b[i - 1] + f[i - 1]

LEMMA SumSteps ==
  ASSUME NEW n \in Nat, NEW f, \A i \in 0 .. n - 1 : f[i] \in Int
  PROVE  \E b : IsSum(b, f, n) /\ Audio!Sum(f, n) = b[n]
<1> DEFINE next == [i \in 1..n |-> [v \in Int |-> v + f[i - 1]]]
           Is(b) == b = [k \in 0 .. n |-> IF k = 0 THEN 0 ELSE b[k - 1] + f[k - 1]]
<1>0. \A i \in 1..n : i - 1 \in 0..n - 1 /\ f[i - 1] \in Int  OBVIOUS
<1>1. Steps(next, n, Int)  BY <1>0 DEF Steps
<1>2. PICK g : Solves(g, n, Int, 0, next)
  <2> HIDE DEF next
  <2> QED  BY <1>1, Recursion
<1>3. Is(g)
  <2>1. \A i \in 1..n : i - 1 \in 0..n /\ g[i - 1] \in Int  BY <1>2 DEF Solves
  <2>2. \A i \in 1..n, v \in Int : next[i][v] = v + f[i - 1]  OBVIOUS
  <2> HIDE DEF next
  <2>3. \A i \in 1..n : g[i] = g[i - 1] + f[i - 1]  BY <1>2, <2>1, <2>2 DEF Solves
  <2>4. g = [i \in 0..n |-> g[i]] /\ g[0] = 0  BY <1>2 DEF Solves
  <2>5. \A i \in 0..n : g[i] = IF i = 0 THEN 0 ELSE g[i - 1] + f[i - 1]
    <3> TAKE i \in 0..n
    <3>1. i = 0 \/ i \in 1..n  OBVIOUS
    <3> QED  BY <2>3, <2>4, <3>1
  <2> QED  BY <2>4, <2>5
<1> DEFINE b == CHOOSE h : Is(h)
<1>4. Is(b)  BY <1>3
<1>5. Audio!Sum(f, n) = b[n]  BY DEF Audio!Sum
<1> HIDE DEF b
<1>6. b[0] = 0 /\ \A i \in 1..n : b[i] = b[i - 1] + f[i - 1]
  <2>1. \A i \in 0..n : b[i] = IF i = 0 THEN 0 ELSE b[i - 1] + f[i - 1]  BY <1>4
  <2>2. 0 \in 0..n /\ \A i \in 1..n : i \in 0..n /\ i # 0  OBVIOUS
  <2> QED  BY <2>1, <2>2
<1>7. DOMAIN b = 0..n /\ b = [i \in 0..n |-> b[i]]  BY <1>4
<1> HIDE DEF Is
<1>8. \A i \in 0..n : b[i] \in Int
  <2> DEFINE T == {i \in 0..n : b[i] \in Int}
  <2>1. 0 \in T  BY <1>6
  <2>2. ASSUME NEW i \in 1..n, i - 1 \in T PROVE i \in T
    BY <1>0, <1>6, <2>2
  <2> HIDE DEF T
  <2>3. 0..n \subseteq T  BY <2>1, <2>2, Induction
  <2> QED  BY <2>3 DEF T
<1>9. IsSum(b, f, n)  BY <1>6, <1>7, <1>8 DEF IsSum
<1> QED  BY <1>5, <1>9

\* No terms, and one more.
LEMMA AudioSums ==
  ASSUME NEW n \in Nat, NEW f, \A i \in 0 .. n - 1 : f[i] \in Int
  PROVE  /\ Audio!Sum(f, 0) = 0 /\ Audio!Sum(f, n) \in Int
         /\ f[n] \in Int => Audio!Sum(f, n + 1) = Audio!Sum(f, n) + f[n]
<1>1. Audio!Sum(f, 0) = 0
  <2>1. PICK b : IsSum(b, f, 0) /\ Audio!Sum(f, 0) = b[0]
    <3>1. \A i \in 0 .. 0 - 1 : f[i] \in Int  OBVIOUS
    <3> QED  BY <3>1, SumSteps
  <2> QED  BY <2>1 DEF IsSum
<1>2. PICK b : IsSum(b, f, n) /\ Audio!Sum(f, n) = b[n]  BY SumSteps
<1>3. Audio!Sum(f, n) \in Int  BY <1>2 DEF IsSum
<1>4. ASSUME f[n] \in Int PROVE Audio!Sum(f, n + 1) = Audio!Sum(f, n) + f[n]
  <2>1. \A i \in 0 .. (n + 1) - 1 : f[i] \in Int
    <3>1. \A i \in 0 .. (n + 1) - 1 : i = n \/ i \in 0 .. n - 1  OBVIOUS
    <3> QED  BY <1>4, <3>1
  <2>2. PICK c : IsSum(c, f, n + 1) /\ Audio!Sum(f, n + 1) = c[n + 1]  BY <2>1, SumSteps
  <2> DEFINE T == {i \in 0..n : b[i] = c[i]}
  <2>3. 0 \in T  BY <1>2, <2>2 DEF IsSum
  <2>4. ASSUME NEW i \in 1..n, i - 1 \in T PROVE i \in T
    <3>1. i \in 1..n + 1 /\ i \in 0..n  OBVIOUS
    <3> QED  BY <1>2, <2>2, <2>4, <3>1 DEF IsSum
  <2> HIDE DEF T
  <2>5. 0..n \subseteq T  BY <2>3, <2>4, Induction
  <2>6. b[n] = c[n]  BY <2>5 DEF T
  <2>7. n + 1 \in 1..n + 1 /\ (n + 1) - 1 = n  OBVIOUS
  <2>8. c[n + 1] = c[n] + f[n]  BY <2>2, <2>7 DEF IsSum
  <2> QED  BY <1>2, <2>2, <2>6, <2>8
<1> QED  BY <1>1, <1>3, <1>4

-----------------------------------------------------------------------------
(* Quotients and bits *)

LEMMA Division ==
  ASSUME NEW M \in Nat \ {0}, NEW x \in Nat
  PROVE  /\ x \div M \in Nat /\ x % M \in 0 .. M - 1
         /\ x = M * (x \div M) + (x % M)
<1>1. x = M * (x \div M) + (x % M) /\ x % M \in 0 .. M - 1 /\ x \div M \in Int  OBVIOUS
<1>2. PICK q \in Int, r \in 0 .. M - 1 : q = x \div M /\ r = x % M /\ x = M * q + r  BY <1>1
<1>3. q >= 0
  <2>1. SUFFICES ASSUME q < 0 PROVE FALSE  OBVIOUS
  <2>2. PICK p \in Nat : q = -1 - p
    <3>1. -1 - q \in Nat /\ q = -1 - (-1 - q)  BY <2>1
    <3> QED  BY <3>1
  <2>3. M * q = -M - M * p /\ M * p \in Nat  BY <2>2
  <2> QED  BY <1>2, <2>3
<1> QED  BY <1>1, <1>2, <1>3

LEMMA DivisionIs ==
  ASSUME NEW M \in Nat \ {0}, NEW q \in Nat, NEW r \in 0 .. M - 1
  PROVE  (M * q + r) \div M = q /\ (M * q + r) % M = r
<1>1. M * q \in Nat /\ M * q + r \in Nat  OBVIOUS
<1>2. PICK x \in Nat : x = M * q + r  BY <1>1
<1>3. PICK p \in Nat, s \in 0 .. M - 1 : p = x \div M /\ s = x % M /\ x = M * p + s
  BY Division
<1>4. p = q
  <2>1. ASSUME p < q PROVE FALSE
    <3>1. PICK d \in Nat : q = p + 1 + d
      <4>1. q - p - 1 \in Nat /\ q = p + 1 + (q - p - 1)  BY <2>1
      <4> QED  BY <4>1
    <3>2. M * q = M * p + M + M * d /\ M * d \in Nat /\ M * p \in Nat  BY <3>1
    <3> QED  BY <1>2, <1>3, <3>2
  <2>2. ASSUME q < p PROVE FALSE
    <3>1. PICK d \in Nat : p = q + 1 + d
      <4>1. p - q - 1 \in Nat /\ p = q + 1 + (p - q - 1)  BY <2>2
      <4> QED  BY <4>1
    <3>2. M * p = M * q + M + M * d /\ M * d \in Nat /\ M * q \in Nat  BY <3>1
    <3> QED  BY <1>2, <1>3, <3>2
  <2> QED  BY <2>1, <2>2
<1>5. s = r  BY <1>2, <1>3, <1>4
<1> QED  BY <1>2, <1>3, <1>4, <1>5

\* A remainder does not change when remainders are taken before.
IsRemainder(r, x, M) == r = x % M
LEMMA RemainderOf ==
  ASSUME NEW M \in Nat \ {0}, NEW x \in Nat, NEW t \in Nat, NEW y \in Nat, NEW r, IsRemainder(r, x, M)
  PROVE  (r * t + y) % M = (x * t + y) % M /\ (y + r) % M = (y + x) % M
<1>1. PICK q \in Nat : r = x % M /\ r \in 0 .. M - 1 /\ x = M * q + r
  BY Division DEF IsRemainder
<1>2. ASSUME NEW p \in Nat, NEW z \in Nat PROVE (M * p + z) % M = z % M
  <2>1. PICK a \in Nat, b \in 0 .. M - 1 : b = z % M /\ z = M * a + b  BY Division
  <2>2. M * p + z = M * (p + a) + b /\ p + a \in Nat  BY <2>1
  <2>3. (M * (p + a) + b) % M = b  BY <2>2, DivisionIs
  <2> QED  BY <2>1, <2>2, <2>3
<1>3. r * t + y \in Nat /\ q * t \in Nat /\ x * t + y = M * (q * t) + (r * t + y)
  <2>0. r \in Nat  BY <1>1
  <2>1. r * t \in Nat /\ q * t \in Nat  BY <2>0
  <2>2. x * t = (M * q) * t + r * t /\ (M * q) * t = M * (q * t)  BY <1>1
  <2> QED  BY <2>1, <2>2
<1>4. y + x = M * q + (y + r) /\ y + r \in Nat  BY <1>1
<1>5. (M * (q * t) + (r * t + y)) % M = (r * t + y) % M  BY <1>2, <1>3
<1>6. (M * q + (y + r)) % M = (y + r) % M  BY <1>2, <1>4
<1> QED  BY <1>1, <1>3, <1>4, <1>5, <1>6

LEMMA BitIsBit ==
  ASSUME NEW n \in Nat, NEW k \in Nat
  PROVE  Audio!Bit(n, k) \in {0, 1}
<1>1. n \div Audio!TwoTo(k) \in Nat  BY Powers, Division
<1>2. \A x \in Nat : x % 2 \in {0, 1}  OBVIOUS
<1> QED  BY <1>1, <1>2 DEF Audio!Bit

\* A number shifted left by one bit.
LEMMA BitOfDouble ==
  ASSUME NEW n \in Nat, NEW x \in {0, 1}, NEW k \in Nat
  PROVE  Audio!Bit(2 * n + x, 0) = x /\ Audio!Bit(2 * n + x, k + 1) = Audio!Bit(n, k)
<1>1. Audio!Bit(2 * n + x, 0) = x
  <2>1. Audio!TwoTo(0) = 1 /\ (2 * n + x) \div 1 = 2 * n + x /\ (2 * n + x) % 2 = x  BY Powers
  <2> QED  BY <2>1 DEF Audio!Bit
<1>2. PICK M \in Nat \ {0} : M = Audio!TwoTo(k) /\ Audio!TwoTo(k + 1) = 2 * M  BY Powers
<1>3. PICK q \in Nat, r \in 0 .. M - 1 : q = n \div M /\ n = M * q + r  BY Division
<1>4. 2 * n + x = (2 * M) * q + (2 * r + x) /\ 2 * r + x \in 0 .. 2 * M - 1 /\ 2 * M \in Nat \ {0}
  <2>1. M * q \in Nat /\ (2 * M) * q = 2 * (M * q)  OBVIOUS
  <2> QED  BY <1>3, <2>1
<1>5. (2 * n + x) \div (2 * M) = q
  <2>1. ((2 * M) * q + (2 * r + x)) \div (2 * M) = q  BY <1>4, DivisionIs
  <2> QED  BY <1>4, <2>1
<1> QED  BY <1>1, <1>2, <1>3, <1>5 DEF Audio!Bit

\* The low bits of a number.
LEMMA BitOfRemainder ==
  ASSUME NEW n \in Nat, NEW w \in Nat, NEW k \in 0 .. w - 1
  PROVE  Audio!Bit(n % Audio!TwoTo(w), k) = Audio!Bit(n, k)
<1>1. PICK a \in Nat : w = k + (a + 1)
  <2>1. w - k - 1 \in Nat /\ w = k + ((w - k - 1) + 1)  OBVIOUS
  <2> QED  BY <2>1
<1>2. PICK M \in Nat \ {0}, h \in Nat \ {0} : M = Audio!TwoTo(k) /\ Audio!TwoTo(w) = M * (2 * h)
  <2>1. Audio!TwoTo(w) = Audio!TwoTo(k) * Audio!TwoTo(a + 1)  BY <1>1, PowerOfSum
  <2>2. Audio!TwoTo(a + 1) = 2 * Audio!TwoTo(a) /\ Audio!TwoTo(a) \in Nat \ {0} /\ Audio!TwoTo(k) \in Nat \ {0}
    BY Powers
  <2>3. Audio!TwoTo(w) = Audio!TwoTo(k) * (2 * Audio!TwoTo(a))  BY <2>1, <2>2
  <2> QED  BY <2>2, <2>3
<1>3. Audio!TwoTo(w) \in Nat \ {0}  BY Powers
<1>4. PICK q \in Nat, r \in Nat : r = n % Audio!TwoTo(w) /\ n = (M * (2 * h)) * q + r
  <2>1. PICK W \in Nat \ {0} : W = Audio!TwoTo(w)  BY <1>3
  <2>2. PICK q \in Nat, r \in 0 .. W - 1 : r = n % W /\ n = W * q + r  BY Division
  <2> QED  BY <1>2, <2>1, <2>2
<1>5. PICK p \in Nat, s \in 0 .. M - 1 : p = r \div M /\ r = M * p + s  BY Division
<1>6. n = M * (2 * (h * q) + p) + s /\ h * q \in Nat /\ 2 * (h * q) + p \in Nat
  <2>1. h * q \in Nat  OBVIOUS
  <2>2. (M * (2 * h)) * q = M * (2 * (h * q))  OBVIOUS
  <2>3. PICK z \in Nat : z = h * q  BY <2>1
  <2>4. M * (2 * z + p) = M * (2 * z) + M * p  OBVIOUS
  <2> QED  BY <1>4, <1>5, <2>1, <2>2, <2>3, <2>4
<1>7. n \div M = 2 * (h * q) + p
  <2>1. (M * (2 * (h * q) + p) + s) \div M = 2 * (h * q) + p  BY <1>6, DivisionIs
  <2> QED  BY <1>6, <2>1
<1>8. (2 * (h * q) + p) % 2 = p % 2
  <2>1. PICK z \in Nat : z = h * q  BY <1>6
  <2>2. (2 * z + p) % 2 = p % 2  OBVIOUS
  <2> QED  BY <2>1, <2>2
<1> QED  BY <1>2, <1>4, <1>5, <1>7, <1>8 DEF Audio!Bit

\* The high bits.
LEMMA BitOfQuotient ==
  ASSUME NEW n \in Nat, NEW a \in Nat, NEW k \in Nat
  PROVE  Audio!Bit(n \div Audio!TwoTo(a), k) = Audio!Bit(n, a + k)
<1>1. PICK M \in Nat \ {0}, N \in Nat \ {0} :
        M = Audio!TwoTo(a) /\ N = Audio!TwoTo(k) /\ Audio!TwoTo(a + k) = M * N
  BY Powers, PowerOfSum
<1>2. PICK q \in Nat, r \in 0 .. M - 1 : q = n \div M /\ n = M * q + r  BY Division
<1>3. PICK p \in Nat, s \in 0 .. N - 1 : p = q \div N /\ q = N * p + s  BY Division
<1>4. n = (M * N) * p + (M * s + r)
  <2>1. M * q = (M * N) * p + M * s
    <3>1. M * (N * p + s) = M * (N * p) + M * s /\ M * (N * p) = (M * N) * p
      <4>1. PICK z \in Nat : z = N * p  OBVIOUS
      <4>2. M * (z + s) = M * z + M * s  OBVIOUS
      <4>3. M * (N * p) = (M * N) * p  OBVIOUS
      <4> QED  BY <4>1, <4>2, <4>3
    <3> QED  BY <1>3, <3>1
  <2>2. M * q \in Nat /\ (M * N) * p \in Nat /\ M * s \in Nat  OBVIOUS
  <2> QED  BY <1>2, <2>1, <2>2
<1>5. M * s + r \in 0 .. M * N - 1 /\ M * N \in Nat \ {0}
  <2>1. PICK d \in Nat : N = s + 1 + d
    <3>1. N - s - 1 \in Nat /\ N = s + 1 + (N - s - 1)  OBVIOUS
    <3> QED  BY <3>1
  <2>2. M * N = M * s + M + M * d /\ M * s \in Nat /\ M * d \in Nat  BY <2>1
  <2> QED  BY <2>2
<1>6. n \div (M * N) = p
  <2>1. ((M * N) * p + (M * s + r)) \div (M * N) = p  BY <1>5, DivisionIs
  <2> QED  BY <1>4, <2>1
<1> QED  BY <1>1, <1>2, <1>3, <1>6 DEF Audio!Bit

-----------------------------------------------------------------------------
(* The numbers that code bits are *)

LEMMA NumberTypes ==
  ASSUME Audio!Numbers
  PROVE  /\ NrOfChannels \in Nat \ {0} /\ BitsPerCh \in Nat /\ BitsPerByte \in Nat \ {0}
         /\ PBITS \in Nat \ {0} /\ NBITS \in Nat \ {0} /\ QSTEP \in Nat
         /\ UintBits \in Nat /\ Audio!ABITS <= UintBits /\ PredictBits \in Nat \ {0}
         /\ TableBits \in Nat \ {0} /\ TablesPerWord \in Nat \ {0} /\ NrOfWords \in Nat \ {0}
         /\ Audio!WordBits % 2 = 0
  BY DEF Audio!Numbers

LEMMA Widths ==
  ASSUME Audio!Numbers
  PROVE  /\ Audio!ABITS \in Nat \ {0} /\ Audio!PSUM \in Nat \ {0} /\ Audio!HALF \in Nat \ {0} /\ Audio!ONE = 2 * Audio!HALF
         /\ Audio!ONE <= Audio!TwoTo(UintBits) /\ Audio!TwoTo(UintBits) \in Nat \ {0}
         /\ Audio!PSUM = 2 * Audio!TwoTo(PBITS - 1) /\ Audio!TwoTo(PBITS - 1) \in Nat \ {0}
         /\ Audio!HALF = Audio!PSUM * Audio!TwoTo(NBITS - 1) /\ Audio!TwoTo(NBITS - 1) \in Nat \ {0}
<1>1. /\ PBITS \in Nat \ {0} /\ NBITS \in Nat \ {0} /\ UintBits \in Nat /\ PBITS + NBITS <= UintBits
      /\ PBITS - 1 \in Nat /\ NBITS - 1 \in Nat /\ Audio!ABITS = PBITS + NBITS /\ Audio!ABITS \in Nat \ {0}
      /\ Audio!ABITS - 1 = PBITS + (NBITS - 1) /\ (PBITS - 1) + 1 = PBITS /\ Audio!ABITS - 1 \in Nat
      /\ (Audio!ABITS - 1) + 1 = Audio!ABITS
  BY DEF Audio!Numbers, Audio!ABITS
<1>2. Audio!TwoTo((PBITS - 1) + 1) = 2 * Audio!TwoTo(PBITS - 1)  BY <1>1, Powers
<1>3. Audio!TwoTo((Audio!ABITS - 1) + 1) = 2 * Audio!TwoTo(Audio!ABITS - 1)  BY <1>1, Powers
<1>4. Audio!TwoTo(PBITS + (NBITS - 1)) = Audio!TwoTo(PBITS) * Audio!TwoTo(NBITS - 1)
  BY <1>1, PowerOfSum
<1>5. Audio!TwoTo(Audio!ABITS) <= Audio!TwoTo(UintBits)  BY <1>1, PowersAscend
<1>6. /\ Audio!TwoTo(PBITS) \in Nat \ {0} /\ Audio!TwoTo(PBITS - 1) \in Nat \ {0} /\ Audio!TwoTo(NBITS - 1) \in Nat \ {0}
      /\ Audio!TwoTo(Audio!ABITS - 1) \in Nat \ {0} /\ Audio!TwoTo(UintBits) \in Nat \ {0}
  BY <1>1, Powers
<1> QED  BY <1>1, <1>2, <1>3, <1>4, <1>5, <1>6 DEF Audio!PSUM, Audio!ONE, Audio!HALF

LEMMA UintIs ==
  ASSUME Audio!Numbers, NEW x \in Nat
  PROVE  /\ Audio!Uint(x) \in 0 .. Audio!TwoTo(UintBits) - 1
         /\ x < Audio!TwoTo(UintBits) => Audio!Uint(x) = x
<1>1. PICK M \in Nat \ {0} : M = Audio!TwoTo(UintBits)  BY Widths
<1>2. x % M \in 0 .. M - 1  BY Division
<1>3. ASSUME x < M PROVE x % M = x
  <2>1. x = M * 0 + x /\ x \in 0 .. M - 1  BY <1>3
  <2>2. (M * 0 + x) % M = x  BY <2>1, DivisionIs
  <2> QED  BY <2>1, <2>2
<1> QED  BY <1>1, <1>2, <1>3 DEF Audio!Uint

\* Intermediate results may be cut to the width of a register.
LEMMA UintOfUint ==
  ASSUME Audio!Numbers, NEW x \in Nat, NEW t \in Nat, NEW y \in Nat
  PROVE  Audio!Uint(Audio!Uint(x) * t + y) = Audio!Uint(x * t + y) /\ Audio!Uint(y + Audio!Uint(x)) = Audio!Uint(y + x)
<1>1. PICK M \in Nat \ {0} : M = Audio!TwoTo(UintBits)  BY Widths
<1>2. PICK r : r = x % M  OBVIOUS
<1>3. IsRemainder(r, x, M)  BY <1>2 DEF IsRemainder
<1>4. (r * t + y) % M = (x * t + y) % M /\ (y + r) % M = (y + x) % M
  BY <1>1, <1>3, RemainderOf
<1> QED  BY <1>1, <1>2, <1>4 DEF Audio!Uint

LEMMA CodeBitIsBit ==
  ASSUME Audio!Numbers, AData \in Codes, NEW k \in Nat
  PROVE  Audio!CodeBit(k) \in {0, 1}
<1>1. AData \in Seq({0, 1})  BY DEF Audio!Numbers
<1> QED  BY <1>1 DEF Audio!CodeBit

\* What Code computes step by step.
IsCode(b, k, n) == /\ b \in [0 .. n -> Nat] /\ b[0] = 0
                   /\ \A i \in 1 .. n : b[i] = Audio!Uint(2 * b[i - 1] + Audio!CodeBit(k + i - 1))

LEMMA CodeSteps ==
  ASSUME Audio!Numbers, AData \in Codes, NEW k \in Nat, NEW n \in Nat
  PROVE  \E b : IsCode(b, k, n) /\ Audio!Code(k, n) = b[n]
<1> DEFINE next == [i \in 1..n |-> [v \in Nat |-> Audio!Uint(2 * v + Audio!CodeBit(k + i - 1))]]
           Is(b) == b = [i \in 0 .. n |-> IF i = 0 THEN 0 ELSE Audio!Uint(2 * b[i - 1] + Audio!CodeBit(k + i - 1))]
<1>0. \A i \in 1..n, v \in Nat : Audio!Uint(2 * v + Audio!CodeBit(k + i - 1)) \in Nat
  <2> TAKE i \in 1..n, v \in Nat
  <2>1. k + i - 1 \in Nat  OBVIOUS
  <2>2. 2 * v + Audio!CodeBit(k + i - 1) \in Nat  BY <2>1, CodeBitIsBit
  <2>3. Audio!TwoTo(UintBits) \in Nat  BY Widths
  <2> QED  BY <2>2, <2>3, UintIs
<1>1. Steps(next, n, Nat)  BY <1>0 DEF Steps
<1>2. PICK g : Solves(g, n, Nat, 0, next)
  <2> HIDE DEF next
  <2> QED  BY <1>1, Recursion
<1>3. Is(g)
  <2>1. \A i \in 1..n : i - 1 \in 0..n /\ g[i - 1] \in Nat  BY <1>2 DEF Solves
  <2>2. \A i \in 1..n, v \in Nat : next[i][v] = Audio!Uint(2 * v + Audio!CodeBit(k + i - 1))  OBVIOUS
  <2> HIDE DEF next
  <2>3. \A i \in 1..n : g[i] = Audio!Uint(2 * g[i - 1] + Audio!CodeBit(k + i - 1))
    BY <1>2, <2>1, <2>2 DEF Solves
  <2>4. g = [i \in 0..n |-> g[i]] /\ g[0] = 0  BY <1>2 DEF Solves
  <2>5. \A i \in 0..n : g[i] = IF i = 0 THEN 0 ELSE Audio!Uint(2 * g[i - 1] + Audio!CodeBit(k + i - 1))
    <3> TAKE i \in 0..n
    <3>1. i = 0 \/ i \in 1..n  OBVIOUS
    <3> QED  BY <2>3, <2>4, <3>1
  <2> QED  BY <2>4, <2>5
<1> DEFINE b == CHOOSE h : Is(h)
<1>4. Is(b)  BY <1>3
<1>5. Audio!Code(k, n) = b[n]  BY DEF Audio!Code
<1> HIDE DEF b
<1>6. b[0] = 0 /\ \A i \in 1..n : b[i] = Audio!Uint(2 * b[i - 1] + Audio!CodeBit(k + i - 1))
  <2>1. \A i \in 0..n : b[i] = IF i = 0 THEN 0 ELSE Audio!Uint(2 * b[i - 1] + Audio!CodeBit(k + i - 1))
    BY <1>4
  <2>2. 0 \in 0..n /\ \A i \in 1..n : i \in 0..n /\ i # 0  OBVIOUS
  <2> QED  BY <2>1, <2>2
<1>7. DOMAIN b = 0..n /\ b = [i \in 0..n |-> b[i]]  BY <1>4
<1> HIDE DEF Is, next
<1>8. \A i \in 0..n : b[i] \in Nat
  <2> DEFINE T == {i \in 0..n : b[i] \in Nat}
  <2>1. 0 \in T  BY <1>6
  <2>2. ASSUME NEW i \in 1..n, i - 1 \in T PROVE i \in T
    BY <1>0, <1>6, <2>2
  <2> HIDE DEF T
  <2>3. 0..n \subseteq T  BY <2>1, <2>2, Induction
  <2> QED  BY <2>3 DEF T
<1>9. IsCode(b, k, n)  BY <1>6, <1>7, <1>8 DEF IsCode
<1> QED  BY <1>5, <1>9

\* No bits, and one more.
LEMMA Codes1 ==
  ASSUME Audio!Numbers, AData \in Codes, NEW k \in Nat, NEW n \in Nat
  PROVE  /\ Audio!Code(k, 0) = 0 /\ Audio!Code(k, n) \in Nat
         /\ Audio!Code(k, n + 1) = Audio!Uint(2 * Audio!Code(k, n) + Audio!CodeBit(k + n))
<1>1. Audio!Code(k, 0) = 0
  <2>1. PICK b : IsCode(b, k, 0) /\ Audio!Code(k, 0) = b[0]  BY CodeSteps
  <2> QED  BY <2>1 DEF IsCode
<1>2. PICK b : IsCode(b, k, n) /\ Audio!Code(k, n) = b[n]  BY CodeSteps
<1>3. PICK c : IsCode(c, k, n + 1) /\ Audio!Code(k, n + 1) = c[n + 1]
  <2>1. n + 1 \in Nat  OBVIOUS
  <2> QED  BY <2>1, CodeSteps
<1> DEFINE T == {i \in 0..n : b[i] = c[i]}
<1>4. 0 \in T  BY <1>2, <1>3 DEF IsCode
<1>5. ASSUME NEW i \in 1..n, i - 1 \in T PROVE i \in T
  <2>1. i \in 1..n + 1 /\ i \in 0..n  OBVIOUS
  <2> QED  BY <1>2, <1>3, <1>5, <2>1 DEF IsCode
<1> HIDE DEF T
<1>6. 0..n \subseteq T  BY <1>4, <1>5, Induction
<1>7. b[n] = c[n] /\ b[n] \in Nat  BY <1>2, <1>6 DEF T, IsCode
<1>8. n + 1 \in 1..n + 1 /\ (n + 1) - 1 = n /\ k + (n + 1) - 1 = k + n  OBVIOUS
<1>9. c[n + 1] = Audio!Uint(2 * c[n] + Audio!CodeBit(k + n))  BY <1>3, <1>8 DEF IsCode
<1> QED  BY <1>1, <1>2, <1>3, <1>7, <1>9

\* Few enough bits are less than the power of two, and not cut.
LEMMA CodeFits ==
  ASSUME Audio!Numbers, AData \in Codes, NEW k \in Nat, NEW n \in 0 .. UintBits
  PROVE  Audio!Code(k, n) <= Audio!TwoTo(n) - 1
<1>0. UintBits \in Nat  BY DEF Audio!Numbers
<1> DEFINE T == {i \in 0..UintBits : Audio!Code(k, i) <= Audio!TwoTo(i) - 1}
<1>1. 0 \in T
  <2>1. Audio!Code(k, 0) = 0 /\ Audio!TwoTo(0) = 1  BY Codes1, Powers
  <2> QED  BY <1>0, <2>1
<1>2. ASSUME NEW i \in 1..UintBits, i - 1 \in T PROVE i \in T
  <2>1. i - 1 \in Nat /\ (i - 1) + 1 = i /\ i \in 0..UintBits /\ k + (i - 1) \in Nat  BY <1>0
  <2>2. Audio!TwoTo((i - 1) + 1) = 2 * Audio!TwoTo(i - 1) /\ Audio!TwoTo(i - 1) \in Nat \ {0}
    BY <2>1, Powers
  <2>3. /\ Audio!Code(k, i - 1) \in Nat /\ Audio!Code(k, i - 1) <= Audio!TwoTo(i - 1) - 1
        /\ Audio!Code(k, (i - 1) + 1) = Audio!Uint(2 * Audio!Code(k, i - 1) + Audio!CodeBit(k + (i - 1)))
    BY <1>2, <2>1, Codes1
  <2>4. Audio!CodeBit(k + (i - 1)) \in {0, 1}  BY <2>1, CodeBitIsBit
  <2>5. PICK x \in Nat : x = 2 * Audio!Code(k, i - 1) + Audio!CodeBit(k + (i - 1))
    BY <2>3, <2>4
  <2>6. x <= Audio!TwoTo(i) - 1  BY <2>1, <2>2, <2>3, <2>4, <2>5
  <2>7. Audio!TwoTo(i) <= Audio!TwoTo(UintBits) /\ Audio!TwoTo(i) \in Nat /\ Audio!TwoTo(UintBits) \in Nat
    BY <1>0, <2>1, PowersAscend, Powers
  <2>8. Audio!Uint(x) = x  BY <2>6, <2>7, UintIs
  <2> QED  BY <2>1, <2>3, <2>5, <2>6, <2>8
<1> HIDE DEF T
<1>3. 0..UintBits \subseteq T  BY <1>0, <1>1, <1>2, Induction
<1> QED  BY <1>3 DEF T

\* Bits that follow: the number of the first ones is shifted.
LEMMA CodeOfMore ==
  ASSUME Audio!Numbers, AData \in Codes, NEW k \in Nat, NEW m \in Nat, NEW n \in Nat
  PROVE  Audio!Code(k, m + n) = Audio!Uint(Audio!Code(k, m) * Audio!TwoTo(n) + Audio!Code(k + m, n))
<1> DEFINE P(i) == Audio!Code(k, m + i) = Audio!Uint(Audio!Code(k, m) * Audio!TwoTo(i) + Audio!Code(k + m, i))
           T == {i \in Nat : P(i)}
<1>1. PICK x \in Nat : x = Audio!Code(k, m)  BY Codes1
<1>2. k + m \in Nat /\ m + 0 = m  OBVIOUS
<1>3. x < Audio!TwoTo(UintBits) \/ m = 0
  <2>1. ASSUME m # 0 PROVE x < Audio!TwoTo(UintBits)
    <3>1. m - 1 \in Nat /\ (m - 1) + 1 = m /\ k + (m - 1) \in Nat  BY <2>1
    <3>2. Audio!Code(k, (m - 1) + 1) = Audio!Uint(2 * Audio!Code(k, m - 1) + Audio!CodeBit(k + (m - 1))) /\ Audio!Code(k, m - 1) \in Nat
      BY <3>1, Codes1
    <3>3. Audio!CodeBit(k + (m - 1)) \in {0, 1}  BY <3>1, CodeBitIsBit
    <3>4. PICK y \in Nat : y = 2 * Audio!Code(k, m - 1) + Audio!CodeBit(k + (m - 1))
      BY <3>2, <3>3
    <3>5. Audio!Uint(y) \in 0 .. Audio!TwoTo(UintBits) - 1 /\ Audio!TwoTo(UintBits) \in Nat
      BY UintIs, Widths
    <3> QED  BY <1>1, <3>1, <3>2, <3>4, <3>5
  <2> QED  BY <2>1
<1>4. 0 \in T
  <2>1. Audio!Code(k + m, 0) = 0 /\ Audio!TwoTo(0) = 1  BY <1>2, Codes1, Powers
  <2>2. x * 1 + 0 = x  OBVIOUS
  <2>3. Audio!Uint(x) = x
    <3>1. CASE x < Audio!TwoTo(UintBits)  BY <3>1, UintIs
    <3>2. CASE m = 0
      <4>1. Audio!Code(k, 0) = 0  BY <1>1, Codes1
      <4>2. 0 < Audio!TwoTo(UintBits)  BY Widths
      <4> QED  BY <1>1, <3>2, <4>1, <4>2, UintIs
    <3> QED  BY <1>3, <3>1, <3>2
  <2> QED  BY <1>1, <1>2, <2>1, <2>2, <2>3
<1>5. ASSUME NEW i \in 1..n, i - 1 \in T PROVE i \in T
  <2>1. /\ i - 1 \in Nat /\ i \in Nat /\ (i - 1) + 1 = i /\ m + (i - 1) \in Nat
        /\ (m + (i - 1)) + 1 = m + i /\ (k + m) + (i - 1) \in Nat
        /\ k + (m + (i - 1)) = (k + m) + (i - 1)
    OBVIOUS
  <2>2. PICK b \in {0, 1} : b = Audio!CodeBit((k + m) + (i - 1))  BY <2>1, CodeBitIsBit
  <2>3. PICK t \in Nat : t = Audio!TwoTo(i - 1) /\ Audio!TwoTo(i) = 2 * t
    <3>1. Audio!TwoTo((i - 1) + 1) = 2 * Audio!TwoTo(i - 1) /\ Audio!TwoTo(i - 1) \in Nat
      BY <2>1, Powers
    <3> QED  BY <2>1, <3>1
  <2>4. PICK y \in Nat : y = Audio!Code(k + m, i - 1) /\ Audio!Code(k + m, i) = Audio!Uint(2 * y + b)
    <3>1. /\ Audio!Code(k + m, (i - 1) + 1) = Audio!Uint(2 * Audio!Code(k + m, i - 1) + Audio!CodeBit((k + m) + (i - 1)))
          /\ Audio!Code(k + m, i - 1) \in Nat
      BY <1>2, <2>1, Codes1
    <3> QED  BY <2>1, <2>2, <3>1
  <2>5. Audio!Code(k, m + i) = Audio!Uint(2 * Audio!Code(k, m + (i - 1)) + b)
    <3>1. Audio!Code(k, (m + (i - 1)) + 1) = Audio!Uint(2 * Audio!Code(k, m + (i - 1)) + Audio!CodeBit(k + (m + (i - 1))))
      BY <2>1, Codes1
    <3> QED  BY <2>1, <2>2, <3>1
  <2>6. Audio!Code(k, m + (i - 1)) = Audio!Uint(x * t + y)  BY <1>1, <1>5, <2>3, <2>4
  <2>7. x * t + y \in Nat /\ 2 * y + b \in Nat /\ x * (2 * t) \in Nat
    <3>1. x * t \in Nat /\ x * (2 * t) \in Nat  OBVIOUS
    <3> QED  BY <3>1
  <2>8. Audio!Uint(Audio!Uint(x * t + y) * 2 + b) = Audio!Uint((x * t + y) * 2 + b)
    BY <2>7, UintOfUint
  <2>9. Audio!Uint(x * (2 * t) + Audio!Uint(2 * y + b)) = Audio!Uint(x * (2 * t) + (2 * y + b))
    BY <2>7, UintOfUint
  <2>10. (x * t + y) * 2 + b = x * (2 * t) + (2 * y + b)
    <3>1. x * (2 * t) = 2 * (x * t) /\ x * t \in Nat  OBVIOUS
    <3> QED  BY <3>1
  <2>11. \A z \in Nat : 2 * z = z * 2  OBVIOUS
  <2>12. Audio!Uint(x * t + y) \in Nat  BY <2>7, UintIs, Widths
  <2>13. Audio!Code(k, m + i) = Audio!Uint(x * (2 * t) + Audio!Code(k + m, i))
    BY <2>4, <2>5, <2>6, <2>8, <2>9, <2>10, <2>11, <2>12
  <2> QED  BY <1>1, <2>1, <2>3, <2>13
<1> HIDE DEF T
<1>6. 0..n \subseteq T  BY <1>4, <1>5, Induction
<1>7. n \in 0..n  OBVIOUS
<1> QED  BY <1>6, <1>7 DEF T

-----------------------------------------------------------------------------
(* The arithmetic decoder *)

\* Both parts of the interval are not empty.
LEMMA PartIsPart ==
  ASSUME Audio!Numbers, NEW a \in Audio!HALF .. Audio!ONE - 1, NEW p \in 1 .. Audio!AC_PROBS \div 2
  PROVE  Audio!Part(a, p) \in 1 .. a - 1
<1>1. PICK H \in Nat \ {0} : H = Audio!TwoTo(PBITS - 1) /\ Audio!PSUM = 2 * H  BY Widths
<1>2. PICK N \in Nat \ {0} : Audio!HALF = Audio!PSUM * N  BY Widths
<1>3. a \in Nat /\ a >= Audio!HALF /\ a # 0 /\ p \in 1 .. H
  <2>1. Audio!HALF \in Nat \ {0} /\ Audio!ONE \in Nat  BY Widths
  <2>2. (2 * H) \div 2 = H  OBVIOUS
  <2> QED  BY <1>1, <2>1, <2>2 DEF Audio!AC_PROBS
<1>4. PICK q \in Nat, r \in 0 .. Audio!PSUM - 1 : q = a \div Audio!PSUM /\ a = Audio!PSUM * q + r
  <2>1. Audio!PSUM \in Nat \ {0}  BY Widths
  <2> QED  BY <1>3, <2>1, Division
<1>5. q >= 1
  <2>1. SUFFICES ASSUME q = 0 PROVE FALSE  OBVIOUS
  <2>2. a < Audio!PSUM  BY <1>1, <1>4, <2>1
  <2>3. Audio!PSUM * N >= Audio!PSUM
    <3>1. \A x, y \in Nat \ {0} : x * y >= x  OBVIOUS
    <3> QED  BY <1>1, <3>1
  <2> QED  BY <1>1, <1>2, <1>3, <2>2, <2>3
<1> DEFINE e == IF Audio!Bit(a, PBITS - 1) = 1 /\ Audio!Bit(a, PBITS) = 0 THEN 1 ELSE 0
<1>6. e = 0 \/ (e = 1 /\ r >= H)
  <2>1. SUFFICES ASSUME r < H PROVE Audio!Bit(a, PBITS - 1) = 0  OBVIOUS
  <2>2. a = H * (2 * q) + r /\ r \in 0 .. H - 1 /\ 2 * q \in Nat
    <3>1. (2 * H) * q = H * (2 * q)  OBVIOUS
    <3> QED  BY <1>1, <1>4, <2>1, <3>1
  <2>3. (H * (2 * q) + r) \div H = 2 * q  BY <2>2, DivisionIs
  <2>4. (2 * q) % 2 = 0  OBVIOUS
  <2> QED  BY <1>1, <2>2, <2>3, <2>4 DEF Audio!Bit
<1>7. Audio!Part(a, p) = (q + e) * p  BY <1>4 DEF Audio!Part
<1> HIDE DEF e
<1>8. PICK z \in Nat : z = q * H /\ z >= 1 /\ a = 2 * z + r
  <2>1. q * H \in Nat /\ q * H >= 1 /\ (2 * H) * q = 2 * (q * H)  BY <1>5
  <2> QED  BY <1>1, <1>4, <2>1
<1>9. (q + e) * H = z + (IF e = 0 THEN 0 ELSE H)  BY <1>6, <1>8
<1>10. (q + e) * p \in Nat /\ (q + e) * p >= 1 /\ (q + e) * p <= (q + e) * H
  <2>1. q + e \in Nat \ {0}  BY <1>5, <1>6
  <2>2. \A x, y \in Nat \ {0} : x * y \in Nat /\ x * y >= 1  OBVIOUS
  <2>3. \A x, y, w \in Nat : y <= w => x * y <= x * w  OBVIOUS
  <2>4. p \in Nat \ {0} /\ p <= H  BY <1>3
  <2> QED  BY <2>1, <2>2, <2>3, <2>4
<1>11. r \in Nat  BY <1>1
<1> QED  BY <1>3, <1>6, <1>7, <1>8, <1>9, <1>10, <1>11

\* A part is doubled until it has the width of the interval again.
LEMMA ShiftsOf ==
  ASSUME Audio!Numbers, NEW a \in 1 .. Audio!ONE - 1
  PROVE  Audio!Shifts(a) \in 0 .. Audio!ABITS /\ a * Audio!TwoTo(Audio!Shifts(a)) \in Audio!HALF .. Audio!ONE - 1
<1>0. Audio!HALF \in Nat \ {0} /\ Audio!ONE = 2 * Audio!HALF /\ Audio!ABITS \in Nat \ {0} /\ a \in Nat \ {0}
  BY Widths
<1> DEFINE T == {s \in 0 .. Audio!ABITS : a * Audio!TwoTo(s) >= Audio!HALF}
           P(s) == a * Audio!TwoTo(s) >= Audio!HALF /\ (s = 0 \/ a * Audio!TwoTo(s - 1) < Audio!HALF)
<1>1. Audio!ABITS - 1 \in T
  <2>1. Audio!TwoTo(Audio!ABITS - 1) = Audio!HALF  BY DEF Audio!HALF
  <2>2. \A x, y \in Nat \ {0} : x * y >= y  OBVIOUS
  <2> QED  BY <1>0, <2>1, <2>2
<1>2. PICK s \in T : \A m \in T : s <= m
  <2>1. T \in SUBSET Nat  BY <1>0
  <2> HIDE DEF T
  <2> QED  BY <1>1, <2>1, LeastElement
<1>3. s \in 0 .. Audio!ABITS /\ P(s)
  <2>1. ASSUME s # 0, ~(a * Audio!TwoTo(s - 1) < Audio!HALF) PROVE FALSE
    <3>1. s - 1 \in 0 .. Audio!ABITS /\ s - 1 \in Nat /\ ~(s <= s - 1)  BY <2>1, <1>0
    <3>2. Audio!TwoTo(s - 1) \in Nat  BY <3>1, Powers
    <3>3. a * Audio!TwoTo(s - 1) \in Nat  BY <1>0, <3>2
    <3>4. a * Audio!TwoTo(s - 1) >= Audio!HALF  BY <1>0, <2>1, <3>3
    <3>5. s - 1 \in T  BY <3>1, <3>4
    <3> QED  BY <1>2, <3>1, <3>5
  <2> QED  BY <2>1
<1> HIDE DEF T
<1>4. Audio!Shifts(a) = CHOOSE t \in 0 .. Audio!ABITS : P(t)  BY DEF Audio!Shifts
<1>5. PICK t \in 0 .. Audio!ABITS : t = Audio!Shifts(a) /\ P(t)  BY <1>3, <1>4
<1>6. a * Audio!TwoTo(t) < Audio!ONE /\ a * Audio!TwoTo(t) \in Nat
  <2>1. CASE t = 0
    <3>1. Audio!TwoTo(0) = 1  BY Powers
    <3> QED  BY <1>0, <2>1, <3>1
  <2>2. CASE t # 0
    <3>1. t - 1 \in Nat /\ (t - 1) + 1 = t  BY <2>2, <1>0
    <3>2. Audio!TwoTo((t - 1) + 1) = 2 * Audio!TwoTo(t - 1) /\ Audio!TwoTo(t - 1) \in Nat
      BY <3>1, Powers
    <3>3. PICK w \in Nat : w = Audio!TwoTo(t - 1)  BY <3>2
    <3>4. a * (2 * w) = 2 * (a * w) /\ a * w \in Nat  BY <1>0
    <3> QED  BY <1>0, <1>5, <2>2, <3>1, <3>2, <3>3, <3>4
  <2> QED  BY <2>1, <2>2
<1> QED  BY <1>0, <1>5, <1>6

\* A bit: what the arithmetic decoder has read stays in its interval.
LEMMA DecodeKeeps ==
  ASSUME Audio!Numbers, AData \in Codes, AData' = AData, A \in Audio!HALF .. Audio!ONE - 1, C \in Nat,
         cbptr \in Nat \ {0}, low \in Nat, NEW p \in 1 .. Audio!AC_PROBS \div 2, Audio!DecodeBit(p)
  PROVE  /\ A' \in Audio!HALF .. Audio!ONE - 1 /\ C' \in 0 .. Audio!TwoTo(UintBits) - 1
         /\ cbptr' \in Nat \ {0} /\ low' \in Nat
         /\ C < A /\ Audio!Code(1, cbptr - 1) = Audio!Uint(low + C)
              => C' < A' /\ Audio!Code(1, cbptr' - 1) = Audio!Uint(low' + C')
<1>0. /\ Audio!HALF \in Nat \ {0} /\ Audio!ONE \in Nat /\ Audio!ABITS \in Nat /\ A \in Nat \ {0} /\ Audio!ABITS <= UintBits
      /\ Audio!ONE <= Audio!TwoTo(UintBits) /\ Audio!TwoTo(UintBits) \in Nat \ {0} /\ UintBits \in Nat
  BY Widths, NumberTypes
<1> DEFINE h == A - Audio!Part(A, p)
           zero == Audio!Residual(p) = 0
           a == IF zero THEN Audio!Part(A, p) ELSE h
           c == IF zero THEN C - h ELSE C
           d == IF zero THEN h ELSE 0
           s == Audio!Shifts(a)
<1>1. h \in 1 .. A - 1 /\ Audio!Part(A, p) \in 1 .. A - 1 /\ Audio!Part(A, p) = A - h
  <2>1. Audio!Part(A, p) \in 1 .. A - 1  BY PartIsPart
  <2> QED  BY <1>0, <2>1
<1>2. zero <=> C >= h  BY DEF Audio!Residual
<1> HIDE DEF h, zero
<1>3. a \in 1 .. A - 1 /\ c \in Nat /\ d \in Nat /\ C = d + c /\ (C < A => c < a)
  BY <1>0, <1>1, <1>2
<1>4. PICK T \in Nat \ {0} : T = Audio!TwoTo(s) /\ s \in 0 .. Audio!ABITS /\ a * T \in Audio!HALF .. Audio!ONE - 1
  <2>1. a \in 1 .. Audio!ONE - 1  BY <1>0, <1>3
  <2> HIDE DEF a
  <2>2. s \in 0 .. Audio!ABITS /\ a * Audio!TwoTo(s) \in Audio!HALF .. Audio!ONE - 1
    BY <2>1, ShiftsOf
  <2>3. Audio!TwoTo(s) \in Nat \ {0}  BY <1>0, <2>2, Powers
  <2> QED  BY <2>2, <2>3
<1>5. PICK N \in Nat : N = Audio!NewBits(s) /\ N = Audio!Code(cbptr, s) /\ N <= T - 1
  <2> HIDE DEF s
  <2>1. s \in 0 .. UintBits /\ cbptr \in Nat /\ s \in Nat  BY <1>0, <1>4
  <2>2. Audio!Code(cbptr, s) <= Audio!TwoTo(s) - 1 /\ Audio!Code(cbptr, s) \in Nat
    BY <2>1, CodeFits, Codes1
  <2> QED  BY <1>4, <2>2 DEF Audio!NewBits
<1>6. /\ A' = Audio!Uint(a * T) /\ C' = Audio!Uint(c * T + N) /\ cbptr' = cbptr + s /\ low' = Audio!Uint((low + d) * T)
  BY <1>4, <1>5 DEF Audio!DecodeBit, h, zero
<1> HIDE DEF a, c, d, s
<1>7. A' = a * T
  <2>1. a * T \in Nat /\ a * T < Audio!TwoTo(UintBits)  BY <1>0, <1>4
  <2> QED  BY <1>6, <2>1, UintIs
<1>8. c * T + N \in Nat /\ (low + d) * T \in Nat
  <2>1. \A x, y \in Nat : x * y \in Nat  OBVIOUS
  <2>2. low + d \in Nat  BY <1>3
  <2> QED  BY <1>3, <2>1, <2>2
<1>9. C' \in 0 .. Audio!TwoTo(UintBits) - 1 /\ low' \in 0 .. Audio!TwoTo(UintBits) - 1
  BY <1>6, <1>8, UintIs
<1>10. cbptr' \in Nat \ {0}  BY <1>4, <1>6, <1>0
<1>11. ASSUME C < A, Audio!Code(1, cbptr - 1) = Audio!Uint(low + C)
       PROVE  C' < A' /\ Audio!Code(1, cbptr' - 1) = Audio!Uint(low' + C')
  <2>1. c * T + N < a * T
    <3>1. PICK k \in Nat : a = c + 1 + k
      <4>1. a - c - 1 \in Nat /\ a = c + 1 + (a - c - 1)  BY <1>0, <1>3, <1>11
      <4> QED  BY <4>1
    <3>2. (c + 1 + k) * T = c * T + T + k * T /\ k * T \in Nat /\ c * T \in Nat  BY <1>3
    <3> QED  BY <1>5, <3>1, <3>2
  <2>2. C' = c * T + N
    <3>1. a * T \in Nat /\ c * T + N < Audio!TwoTo(UintBits)  BY <1>0, <1>4, <1>8, <2>1
    <3> QED  BY <1>6, <1>8, <3>1, UintIs
  <2>3. Audio!Code(1, cbptr' - 1) = Audio!Uint(Audio!Uint(low + C) * T + N)
    <3>1. /\ cbptr - 1 \in Nat /\ s \in Nat /\ 1 \in Nat /\ cbptr' - 1 = (cbptr - 1) + s
          /\ 1 + (cbptr - 1) = cbptr
      BY <1>0, <1>4, <1>6
    <3>2. Audio!Code(1, (cbptr - 1) + s) = Audio!Uint(Audio!Code(1, cbptr - 1) * Audio!TwoTo(s) + Audio!Code(1 + (cbptr - 1), s))
      BY <3>1, CodeOfMore
    <3> QED  BY <1>4, <1>5, <1>11, <3>1, <3>2
  <2>4. Audio!Uint(Audio!Uint(low + C) * T + N) = Audio!Uint((low + C) * T + N)
    <3>1. low + C \in Nat  OBVIOUS
    <3> QED  BY <3>1, UintOfUint
  <2>5. Audio!Uint((c * T + N) + Audio!Uint((low + d) * T)) = Audio!Uint((c * T + N) + (low + d) * T)
    BY <1>8, UintOfUint
  <2>6. (c * T + N) + (low + d) * T = (low + C) * T + N
    <3>1. PICK w \in Nat : w = low + d /\ w + c = low + C  BY <1>3
    <3>2. (w + c) * T = w * T + c * T /\ w * T \in Nat /\ c * T \in Nat  BY <1>3
    <3> QED  BY <3>1, <3>2
  <2>7. low' + C' = (c * T + N) + Audio!Uint((low + d) * T)
    <3>1. Audio!Uint((low + d) * T) \in Nat  BY <1>8, UintIs, <1>0
    <3> QED  BY <1>6, <1>8, <2>2, <3>1
  <2> QED  BY <1>7, <2>1, <2>2, <2>3, <2>4, <2>5, <2>6, <2>7
<1> QED  BY <1>0, <1>4, <1>7, <1>9, <1>10, <1>11

\* The code of a frame stays.
LEMMA CodeStays ==
  ASSUME AData' = AData, NEW k, NEW n
  PROVE  Audio!Code(k, n)' = Audio!Code(k, n)
<1>1. \A j : Audio!CodeBit(j)' = Audio!CodeBit(j)  BY DEF Audio!CodeBit
<1> QED  BY <1>1 DEF Audio!Code, Audio!Uint

-----------------------------------------------------------------------------
(* Sums and the bits of sums *)

LEMMA SumsEqual ==
  ASSUME NEW n \in Nat, NEW f, NEW g, \A i \in 0 .. n - 1 : f[i] \in Int /\ g[i] = f[i]
  PROVE  Audio!Sum(g, n) = Audio!Sum(f, n)
<1> DEFINE T == {i \in 0..n : Audio!Sum(g, i) = Audio!Sum(f, i)}
<1>1. 0 \in T
  <2>1. Audio!Sum(f, 0) = 0 /\ Audio!Sum(g, 0) = 0  BY AudioSums
  <2> QED  BY <2>1
<1>2. ASSUME NEW i \in 1..n, i - 1 \in T PROVE i \in T
  <2>1. i - 1 \in Nat /\ (i - 1) + 1 = i /\ i \in 0..n /\ i - 1 \in 0..n - 1  OBVIOUS
  <2>2. /\ \A j \in 0 .. (i - 1) - 1 : f[j] \in Int /\ g[j] \in Int
        /\ f[i - 1] \in Int /\ g[i - 1] = f[i - 1]
    <3>1. \A j \in 0 .. (i - 1) - 1 : j \in 0 .. n - 1  OBVIOUS
    <3> QED  BY <2>1, <3>1
  <2>3. Audio!Sum(f, (i - 1) + 1) = Audio!Sum(f, i - 1) + f[i - 1]  BY <2>1, <2>2, AudioSums
  <2>4. Audio!Sum(g, (i - 1) + 1) = Audio!Sum(g, i - 1) + g[i - 1]  BY <2>1, <2>2, AudioSums
  <2> QED  BY <1>2, <2>1, <2>2, <2>3, <2>4
<1> HIDE DEF T
<1>3. 0..n \subseteq T  BY <1>1, <1>2, Induction
<1>4. n \in 0..n  OBVIOUS
<1> QED  BY <1>3, <1>4 DEF T

AreInts(f, n) == \A i \in 0 .. n - 1 : f[i] \in Int
Continues(f, m, g, n) == \A i \in 0 .. n - 1 : g[i] = f[m + i]
LEMMA SumOfMore ==
  ASSUME NEW m \in Nat, NEW n \in Nat, NEW f, NEW g, AreInts(f, m + n), Continues(f, m, g, n)
  PROVE  Audio!Sum(f, m + n) = Audio!Sum(f, m) + Audio!Sum(g, n) /\ Audio!Sum(f, m) \in Int /\ Audio!Sum(g, n) \in Int
<1> DEFINE T == {i \in 0..n : Audio!Sum(f, m + i) = Audio!Sum(f, m) + Audio!Sum(g, i)}
<1>01. (\A i \in 0 .. m + n - 1 : f[i] \in Int) /\ \A i \in 0 .. n - 1 : g[i] = f[m + i]
  BY DEF AreInts, Continues
<1>0. \A k \in 0..n : /\ \A j \in 0 .. (m + k) - 1 : f[j] \in Int
                     /\ \A j \in 0 .. k - 1 : g[j] \in Int /\ g[j] = f[m + j]
  <2> TAKE k \in 0..n
  <2>1. \A j \in 0 .. (m + k) - 1 : j \in 0 .. m + n - 1  OBVIOUS
  <2>2. \A j \in 0 .. k - 1 : j \in 0 .. n - 1 /\ m + j \in 0 .. m + n - 1  OBVIOUS
  <2> QED  BY <1>01, <2>1, <2>2
<1>1. \A k \in 0..n : k \in Nat /\ m + k \in Nat /\ Audio!Sum(f, m + k) \in Int /\ Audio!Sum(g, k) \in Int
  <2> TAKE k \in 0..n
  <2>1. k \in Nat /\ m + k \in Nat  OBVIOUS
  <2>2. Audio!Sum(f, m + k) \in Int  BY <1>0, <2>1, AudioSums
  <2>3. Audio!Sum(g, k) \in Int  BY <1>0, <2>1, AudioSums
  <2> QED  BY <2>1, <2>2, <2>3
<1>2. 0 \in 0..n /\ m + 0 = m /\ n \in 0..n  OBVIOUS
<1>3. 0 \in T
  <2>1. Audio!Sum(g, 0) = 0
    <3>1. \A j \in 0 .. 0 - 1 : g[j] \in Int  OBVIOUS
    <3> QED  BY <3>1, AudioSums
  <2> QED  BY <1>1, <1>2, <2>1
<1>4. ASSUME NEW i \in 1..n, i - 1 \in T PROVE i \in T
  <2>1. /\ i - 1 \in Nat /\ (i - 1) + 1 = i /\ i \in 0..n /\ i - 1 \in 0..n /\ m + (i - 1) \in Nat
        /\ (m + (i - 1)) + 1 = m + i
    OBVIOUS
  <2>2. f[m + (i - 1)] \in Int /\ g[i - 1] = f[m + (i - 1)]
    <3>1. m + (i - 1) \in 0 .. (m + n) - 1 /\ i - 1 \in 0 .. n - 1  BY <2>1
    <3> QED  BY <1>0, <1>2, <3>1
  <2>3. Audio!Sum(f, (m + (i - 1)) + 1) = Audio!Sum(f, m + (i - 1)) + f[m + (i - 1)]
    BY <1>0, <2>1, <2>2, AudioSums
  <2>4. Audio!Sum(g, (i - 1) + 1) = Audio!Sum(g, i - 1) + g[i - 1]
    BY <1>0, <2>1, <2>2, AudioSums
  <2>5. Audio!Sum(f, m + (i - 1)) = Audio!Sum(f, m) + Audio!Sum(g, i - 1)  BY <1>4
  <2>6. Audio!Sum(f, m) \in Int /\ Audio!Sum(g, i - 1) \in Int  BY <1>1, <1>2, <2>1
  <2> QED  BY <2>1, <2>2, <2>3, <2>4, <2>5, <2>6
<1> HIDE DEF T
<1>5. 0..n \subseteq T  BY <1>3, <1>4, Induction
<1> QED  BY <1>1, <1>2, <1>5 DEF T

\* A number from its bits, the lowest first.
BinaryTerms(f, b, n) == \A k \in 0 .. n - 1 : b[k] \in {0, 1} /\ f[k] = b[k] * Audio!TwoTo(k)

LEMMA BitOfSum ==
  ASSUME NEW n \in Nat, NEW b, NEW f, BinaryTerms(f, b, n)
  PROVE  /\ Audio!Sum(f, n) \in 0 .. Audio!TwoTo(n) - 1
         /\ \A k \in 0 .. n - 1 : Audio!Bit(Audio!Sum(f, n), k) = b[k]
<1> DEFINE P(i) == /\ Audio!Sum(f, i) \in 0 .. Audio!TwoTo(i) - 1
                   /\ \A k \in 0 .. i - 1 : Audio!Bit(Audio!Sum(f, i), k) = b[k]
           T == {i \in 0..n : P(i)}
<1> \A k \in 0 .. n - 1 : b[k] \in {0, 1} /\ f[k] = b[k] * Audio!TwoTo(k)  BY DEF BinaryTerms
<1>0. \A i \in 0 .. n - 1 : f[i] \in Int
  <2> TAKE i \in 0 .. n - 1
  <2>1. Audio!TwoTo(i) \in Nat  BY Powers
  <2>2. PICK x \in Nat : x = Audio!TwoTo(i)  BY <2>1
  <2>3. b[i] = 0 \/ b[i] = 1  OBVIOUS
  <2>4. 0 * x = 0 /\ 1 * x = x  OBVIOUS
  <2> QED  BY <2>2, <2>3, <2>4
<1>1. 0 \in T
  <2>1. Audio!Sum(f, 0) = 0 /\ Audio!TwoTo(0) = 1  BY <1>0, AudioSums, Powers
  <2> QED  BY <2>1
<1>2. ASSUME NEW i \in 1..n, i - 1 \in T PROVE i \in T
  <2>1. PICK j \in Nat : j = i - 1 /\ j + 1 = i /\ j \in 0 .. n - 1 /\ i \in 0..n  OBVIOUS
  <2>2. PICK M \in Nat \ {0} : M = Audio!TwoTo(j) /\ Audio!TwoTo(j + 1) = 2 * M  BY Powers
  <2>3. PICK S \in 0 .. M - 1 : S = Audio!Sum(f, j) /\ \A k \in 0 .. j - 1 : Audio!Bit(S, k) = b[k]
    BY <1>2, <2>1, <2>2
  <2>4. PICK x \in {0, 1} : x = b[j] /\ f[j] = x * M  BY <2>1, <2>2
  <2>5. Audio!Sum(f, j + 1) = S + x * M
    <3>1. \A k \in 0 .. j - 1 : f[k] \in Int
      <4>1. \A k \in 0 .. j - 1 : k \in 0 .. n - 1  BY <2>1
      <4> QED  BY <1>0, <4>1
    <3>2. f[j] \in Int  BY <1>0, <2>1
    <3>3. Audio!Sum(f, j + 1) = Audio!Sum(f, j) + f[j]  BY <3>1, <3>2, AudioSums
    <3> QED  BY <2>3, <2>4, <3>3
  <2>6. PICK z \in Nat : z = S + x * M /\ z = M * x + S /\ z <= 2 * M - 1
    <3>1. CASE x = 0  BY <3>1
    <3>2. CASE x = 1  BY <3>2
    <3> QED  BY <3>1, <3>2
  <2>7. z \div M = x /\ z % M = S
    <3>1. (M * x + S) \div M = x /\ (M * x + S) % M = S
      <4>1. x \in Nat  OBVIOUS
      <4> QED  BY <4>1, DivisionIs
    <3> QED  BY <2>6, <3>1
  <2>8. Audio!Bit(z, j) = x
    <3>1. x % 2 = x  OBVIOUS
    <3> QED  BY <2>2, <2>7, <3>1 DEF Audio!Bit
  <2>9. \A k \in 0 .. j - 1 : Audio!Bit(z, k) = b[k]
    <3> TAKE k \in 0 .. j - 1
    <3>1. Audio!Bit(z % Audio!TwoTo(j), k) = Audio!Bit(z, k)  BY BitOfRemainder
    <3> QED  BY <2>2, <2>3, <2>7, <3>1
  <2>10. \A k \in 0 .. i - 1 : Audio!Bit(z, k) = b[k]
    <3>1. \A k \in 0 .. i - 1 : k = j \/ k \in 0 .. j - 1  BY <2>1
    <3> QED  BY <2>4, <2>8, <2>9, <3>1
  <2>11. Audio!Sum(f, i) = z /\ z \in 0 .. Audio!TwoTo(i) - 1  BY <2>1, <2>2, <2>5, <2>6
  <2> QED  BY <2>1, <2>10, <2>11
<1> HIDE DEF T
<1>3. 0..n \subseteq T  BY <1>1, <1>2, Induction
<1>4. n \in 0..n  OBVIOUS
<1> QED  BY <1>3, <1>4 DEF T

-----------------------------------------------------------------------------
(* The bits of a channel in its status words *)

LEMMA WindowSizes ==
  ASSUME Audio!Numbers
  PROVE  /\ Audio!WordBits \in Nat \ {0} /\ Audio!NrOfTables \in Nat \ {0} /\ Audio!WordBits % 2 = 0
         /\ Audio!TwoTo(Audio!WordBits) \in Nat \ {0}
         /\ \A w \in 0 .. NrOfWords - 1 : w \in Nat /\ w * Audio!WordBits \in Nat
<1>1. TableBits \in Nat \ {0} /\ TablesPerWord \in Nat \ {0} /\ NrOfWords \in Nat \ {0}
  BY NumberTypes
<1>2. \A x, y \in Nat \ {0} : x * y \in Nat \ {0}  OBVIOUS
<1>3. Audio!WordBits \in Nat \ {0} /\ Audio!NrOfTables \in Nat \ {0}
  BY <1>1, <1>2 DEF Audio!WordBits, Audio!NrOfTables
<1>4. \A x, y \in Nat : x * y \in Nat  OBVIOUS
<1>5. \A w \in 0 .. NrOfWords - 1 : w \in Nat  BY <1>1
<1> QED  BY <1>3, <1>4, <1>5, NumberTypes, Powers

\* The bits that start a channel alternate, across the borders of the words.
LEMMA StartBits ==
  ASSUME Audio!Numbers
  PROVE  /\ Audio!StartWord \in 0 .. Audio!TwoTo(Audio!WordBits) - 1
         /\ \A w \in 0 .. NrOfWords - 1, k \in 0 .. Audio!WordBits - 1 :
              Audio!Bit(Audio!StartWord, k) = (w * Audio!WordBits + k) % 2
<1> DEFINE b == [k \in 0 .. Audio!WordBits - 1 |-> k % 2]
           f == [k \in 0 .. Audio!WordBits - 1 |-> (k % 2) * Audio!TwoTo(k)]
<1>1. Audio!WordBits \in Nat  BY WindowSizes
<1>2. \A k \in 0 .. Audio!WordBits - 1 : b[k] \in {0, 1} /\ f[k] = b[k] * Audio!TwoTo(k) /\ b[k] = k % 2
  <2>1. \A k \in 0 .. Audio!WordBits - 1 : k % 2 \in {0, 1}  BY <1>1
  <2> QED  BY <2>1
<1>3. Audio!StartWord = Audio!Sum(f, Audio!WordBits)  BY DEF Audio!StartWord
<1> HIDE DEF b, f
<1>4. /\ Audio!Sum(f, Audio!WordBits) \in 0 .. Audio!TwoTo(Audio!WordBits) - 1
      /\ \A k \in 0 .. Audio!WordBits - 1 : Audio!Bit(Audio!Sum(f, Audio!WordBits), k) = b[k]
  <2>1. BinaryTerms(f, b, Audio!WordBits)  BY <1>2 DEF BinaryTerms
  <2> QED  BY <1>1, <2>1, BitOfSum
<1>5. ASSUME NEW w \in 0 .. NrOfWords - 1, NEW k \in 0 .. Audio!WordBits - 1
      PROVE  (w * Audio!WordBits + k) % 2 = k % 2
  <2>1. PICK h \in Nat : Audio!WordBits = 2 * h
    <3>1. Audio!WordBits % 2 = 0  BY WindowSizes
    <3>2. Audio!WordBits \div 2 \in Nat /\ Audio!WordBits = 2 * (Audio!WordBits \div 2)
      BY <1>1, <3>1
    <3> QED  BY <3>2
  <2>2. w \in Nat /\ k \in Nat  BY WindowSizes
  <2>3. PICK x \in Nat : x = w * h /\ w * Audio!WordBits = 2 * x
    <3>1. w * h \in Nat /\ w * (2 * h) = 2 * (w * h)  BY <2>2
    <3> QED  BY <2>1, <3>1
  <2>4. (2 * x + k) % 2 = k % 2  BY <2>2
  <2> QED  BY <2>3, <2>4
<1> QED  BY <1>2, <1>3, <1>4, <1>5

\* The words st hold the bits last[0], last[1], ...
Holds(st, last) == \A w \in 0 .. NrOfWords - 1, k \in 0 .. Audio!WordBits - 1 :
                     Audio!Bit(st[w], k) = last[w * Audio!WordBits + k]
Follows(next, b, last) == next[0] = b /\ \A j \in Nat : next[j + 1] = last[j]

\* A bit more: the words that hold the last bits of a channel hold those before.
LEMMA ShiftedWindow ==
  ASSUME Audio!Numbers, NEW st \in [0 .. NrOfWords - 1 -> 0 .. Audio!TwoTo(Audio!WordBits) - 1], NEW b \in {0, 1},
         NEW last, NEW next, Holds(st, last), Follows(next, b, last)
  PROVE  /\ Audio!Shifted(st, b) \in [0 .. NrOfWords - 1 -> 0 .. Audio!TwoTo(Audio!WordBits) - 1]
         /\ Holds(Audio!Shifted(st, b), next)
<1>01. \A w \in 0 .. NrOfWords - 1, k \in 0 .. Audio!WordBits - 1 : Audio!Bit(st[w], k) = last[w * Audio!WordBits + k]
  BY DEF Holds
<1>02. next[0] = b /\ \A j \in Nat : next[j + 1] = last[j]  BY DEF Follows
<1>1. Audio!WordBits \in Nat \ {0} /\ Audio!TwoTo(Audio!WordBits) \in Nat \ {0} /\ NrOfWords \in Nat \ {0}
  BY WindowSizes, NumberTypes
<1>0. \A w \in 0 .. NrOfWords - 1 : st[w] \in Nat
  <2>1. PICK M \in Nat : M = Audio!TwoTo(Audio!WordBits)  BY <1>1
  <2>2. \A w \in 0 .. NrOfWords - 1 : st[w] \in 0 .. M - 1  BY <2>1
  <2> QED  BY <2>2
<1>2. ASSUME NEW w \in 0 .. NrOfWords - 1
      PROVE  /\ Audio!Shifted(st, b)[w] \in 0 .. Audio!TwoTo(Audio!WordBits) - 1
             /\ \A k \in 0 .. Audio!WordBits - 1 : Audio!Bit(Audio!Shifted(st, b)[w], k) = next[w * Audio!WordBits + k]
  <2> DEFINE x == IF w = 0 THEN b ELSE Audio!Bit(st[w - 1], Audio!WordBits - 1)
  <2>0. w \in Nat /\ w * Audio!WordBits \in Nat /\ (w # 0 => w - 1 \in 0 .. NrOfWords - 1 /\ w - 1 \in Nat)
    BY <1>1, WindowSizes
  <2>1. x \in {0, 1} /\ x = next[w * Audio!WordBits]
    <3>1. CASE w = 0
      <4>1. 0 * Audio!WordBits = 0  BY <1>1
      <4> QED  BY <1>02, <3>1, <4>1
    <3>2. CASE w # 0
      <4>1. w - 1 \in 0 .. NrOfWords - 1 /\ Audio!WordBits - 1 \in 0 .. Audio!WordBits - 1 /\ Audio!WordBits - 1 \in Nat
        BY <1>1, <2>0, <3>2
      <4>2. st[w - 1] \in Nat  BY <1>0, <4>1
      <4>3. Audio!Bit(st[w - 1], Audio!WordBits - 1) \in {0, 1}  BY <4>1, <4>2, BitIsBit
      <4>4. Audio!Bit(st[w - 1], Audio!WordBits - 1) = last[(w - 1) * Audio!WordBits + (Audio!WordBits - 1)]
        BY <1>01, <4>1
      <4>5. (w - 1) * Audio!WordBits + (Audio!WordBits - 1) \in Nat
            /\ ((w - 1) * Audio!WordBits + (Audio!WordBits - 1)) + 1 = w * Audio!WordBits
        <5>1. PICK v \in Nat : v = w - 1 /\ w = v + 1  BY <2>0, <3>2
        <5>2. (v + 1) * Audio!WordBits = v * Audio!WordBits + Audio!WordBits /\ v * Audio!WordBits \in Nat
          BY <1>1
        <5>3. \A y \in Nat : (y + (Audio!WordBits - 1)) + 1 = y + Audio!WordBits /\ y + (Audio!WordBits - 1) \in Nat
          BY <1>1
        <5> QED  BY <5>1, <5>2, <5>3
      <4>6. next[((w - 1) * Audio!WordBits + (Audio!WordBits - 1)) + 1] = last[(w - 1) * Audio!WordBits + (Audio!WordBits - 1)]
        BY <1>02, <4>5
      <4> QED  BY <3>2, <4>3, <4>4, <4>5, <4>6
    <3> QED  BY <3>1, <3>2
  <2>2. Audio!Shifted(st, b)[w] = (2 * st[w] + x) % Audio!TwoTo(Audio!WordBits)
    BY DEF Audio!Shifted
  <2> HIDE DEF x
  <2>3. st[w] \in Nat /\ 2 * st[w] + x \in Nat
    <3>1. PICK n \in Nat : n = st[w]  BY <1>0
    <3>2. \A z \in {0, 1} : 2 * n + z \in Nat  OBVIOUS
    <3>3. 2 * n + x \in Nat  BY <2>1, <3>2
    <3> QED  BY <3>1, <3>3
  <2>4. (2 * st[w] + x) % Audio!TwoTo(Audio!WordBits) \in 0 .. Audio!TwoTo(Audio!WordBits) - 1
    BY <1>1, <2>3, Division
  <2>5. ASSUME NEW k \in 0 .. Audio!WordBits - 1
        PROVE  Audio!Bit((2 * st[w] + x) % Audio!TwoTo(Audio!WordBits), k) = next[w * Audio!WordBits + k]
    <3>1. Audio!Bit((2 * st[w] + x) % Audio!TwoTo(Audio!WordBits), k) = Audio!Bit(2 * st[w] + x, k)
      BY <1>1, <2>3, BitOfRemainder
    <3>2. CASE k = 0
      <4>1. Audio!Bit(2 * st[w] + x, 0) = x  BY <2>1, <2>3, BitOfDouble
      <4>2. w * Audio!WordBits + 0 = w * Audio!WordBits  BY <2>0
      <4> QED  BY <2>1, <3>1, <3>2, <4>1, <4>2
    <3>3. CASE k # 0
      <4>1. k - 1 \in 0 .. Audio!WordBits - 1 /\ k - 1 \in Nat /\ (k - 1) + 1 = k  BY <1>1, <3>3
      <4>2. Audio!Bit(2 * st[w] + x, (k - 1) + 1) = Audio!Bit(st[w], k - 1)
        <5>1. PICK n \in Nat : n = st[w]  BY <2>3
        <5>2. PICK i \in Nat : i = k - 1  BY <4>1
        <5>3. Audio!Bit(2 * n + x, i + 1) = Audio!Bit(n, i)  BY <2>1, BitOfDouble
        <5> QED  BY <5>1, <5>2, <5>3
      <4>3. Audio!Bit(st[w], k - 1) = last[w * Audio!WordBits + (k - 1)]  BY <1>01, <4>1
      <4>4. w * Audio!WordBits + (k - 1) \in Nat /\ (w * Audio!WordBits + (k - 1)) + 1 = w * Audio!WordBits + k
        <5>1. PICK y \in Nat : y = w * Audio!WordBits  BY <2>0
        <5>2. y + (k - 1) \in Nat /\ (y + (k - 1)) + 1 = y + k  BY <4>1
        <5> QED  BY <5>1, <5>2
      <4>5. next[(w * Audio!WordBits + (k - 1)) + 1] = last[w * Audio!WordBits + (k - 1)]
        BY <1>02, <4>4
      <4> QED  BY <3>1, <4>1, <4>2, <4>3, <4>4, <4>5
    <3> QED  BY <3>2, <3>3
  <2> QED  BY <2>2, <2>4, <2>5
<1>3. Audio!Shifted(st, b) = [w \in 0 .. NrOfWords - 1 |-> Audio!Shifted(st, b)[w]]
  BY DEF Audio!Shifted
<1> QED  BY <1>2, <1>3 DEF Holds

\* What the last bits of a channel are before and after a bit is appended.
LEMMA LastOfAppend ==
  ASSUME NEW s \in Seq({0, 1}), NEW b \in {0, 1}, NEW s2, s2 = Append(s, b), NEW j \in Nat
  PROVE  /\ s2[Len(s2) - 0] = b /\ 0 < Len(s2)
         /\ j + 1 < Len(s2) <=> j < Len(s)
         /\ j < Len(s) => s2[Len(s2) - (j + 1)] = s[Len(s) - j]
         /\ ((j + 1) - Len(s2)) % 2 = (j - Len(s)) % 2
<1>1. Len(s) \in Nat /\ Len(s2) = Len(s) + 1 /\ s2[Len(s) + 1] = b
      /\ \A i \in 1 .. Len(s) : s2[i] = s[i]
  BY AppendProperties
<1>2. (j + 1) - (Len(s) + 1) = j - Len(s) /\ (Len(s) + 1) - (j + 1) = Len(s) - j
      /\ (Len(s) + 1) - 0 = Len(s) + 1
  BY <1>1
<1>3. j < Len(s) => Len(s) - j \in 1 .. Len(s)  BY <1>1
<1> QED  BY <1>1, <1>2, <1>3

-----------------------------------------------------------------------------
(* What a filter computes *)

LEMMA StatusByteBits ==
  ASSUME Audio!Numbers, NEW st \in [0 .. NrOfWords - 1 -> 0 .. Audio!TwoTo(Audio!WordBits) - 1], NEW last,
         Holds(st, last), NEW t \in 0 .. Audio!NrOfTables - 1, NEW j \in 0 .. TableBits - 1
  PROVE  Audio!StatusByte(st, t) \in Nat /\ Audio!Bit(Audio!StatusByte(st, t), j) = last[t * TableBits + j]
<1>0. /\ TableBits \in Nat \ {0} /\ TablesPerWord \in Nat \ {0} /\ NrOfWords \in Nat \ {0}
      /\ Audio!WordBits \in Nat \ {0} /\ Audio!NrOfTables \in Nat \ {0} /\ Audio!TwoTo(Audio!WordBits) \in Nat \ {0}
      /\ Audio!TwoTo(TableBits) \in Nat \ {0} /\ t \in Nat /\ j \in Nat
  <2>1. TableBits \in Nat \ {0} /\ TablesPerWord \in Nat \ {0} /\ NrOfWords \in Nat \ {0}
    BY NumberTypes
  <2>2. Audio!WordBits \in Nat \ {0} /\ Audio!NrOfTables \in Nat \ {0} /\ Audio!TwoTo(Audio!WordBits) \in Nat \ {0}
    BY WindowSizes
  <2>3. Audio!TwoTo(TableBits) \in Nat \ {0}  BY <2>1, Powers
  <2>4. t \in Nat /\ j \in Nat  BY <2>1, <2>2
  <2> QED  BY <2>1, <2>2, <2>3, <2>4
<1>1. PICK w \in Nat, r \in 0 .. TablesPerWord - 1 :
        w = t \div TablesPerWord /\ r = t % TablesPerWord /\ t = TablesPerWord * w + r
  <2>1. PICK M \in Nat \ {0} : M = TablesPerWord  BY <1>0
  <2>2. t \div M \in Nat /\ t % M \in 0 .. M - 1 /\ t = M * (t \div M) + (t % M)
    BY <1>0, Division
  <2> QED  BY <2>1, <2>2
<1>2. w \in 0 .. NrOfWords - 1
  <2>1. SUFFICES ASSUME w >= NrOfWords PROVE FALSE  BY <1>0
  <2>2. PICK d \in Nat : w = NrOfWords + d
    <3>1. w - NrOfWords \in Nat /\ w = NrOfWords + (w - NrOfWords)  BY <1>0, <2>1
    <3> QED  BY <3>1
  <2>3. TablesPerWord * (NrOfWords + d) = TablesPerWord * NrOfWords + TablesPerWord * d
        /\ TablesPerWord * d \in Nat
    BY <1>0
  <2>4. t < Audio!NrOfTables  BY <1>0
  <2>5. TablesPerWord * w = Audio!NrOfTables + TablesPerWord * d
    BY <2>2, <2>3 DEF Audio!NrOfTables
  <2>6. PICK z \in Nat : z = TablesPerWord * d  BY <2>3
  <2>7. t = Audio!NrOfTables + z + r  BY <1>1, <2>5, <2>6
  <2>8. r \in Nat  BY <1>0
  <2> QED  BY <1>0, <2>4, <2>7, <2>8
<1>3. PICK below \in Nat : below = TableBits * r /\ below + j \in 0 .. Audio!WordBits - 1 /\ below + j \in Nat
  <2>1. PICK d \in Nat : TablesPerWord = r + 1 + d
    <3>1. TablesPerWord - r - 1 \in Nat /\ TablesPerWord = r + 1 + (TablesPerWord - r - 1)
      BY <1>0
    <3> QED  BY <3>1
  <2>2. r \in Nat  BY <1>0
  <2>3. TableBits * (r + 1 + d) = TableBits * r + TableBits + TableBits * d
        /\ TableBits * d \in Nat /\ TableBits * r \in Nat
    BY <1>0, <2>2
  <2>4. PICK x \in Nat, y \in Nat : x = TableBits * r /\ y = TableBits * d
                                    /\ Audio!WordBits = x + TableBits + y
    BY <2>1, <2>3 DEF Audio!WordBits
  <2>5. j \in Nat /\ j <= TableBits - 1 /\ TableBits \in Nat  BY <1>0
  <2>6. x + j \in 0 .. (x + TableBits + y) - 1 /\ x + j \in Nat  BY <2>5
  <2> QED  BY <2>4, <2>6
<1>4. PICK n \in Nat : n = st[w]
  <2>1. PICK M \in Nat : M = Audio!TwoTo(Audio!WordBits)  BY <1>0
  <2>2. st[w] \in 0 .. M - 1  BY <1>2, <2>1
  <2> QED  BY <2>2
<1>5. Audio!StatusByte(st, t) = (n \div Audio!TwoTo(below)) % Audio!TwoTo(TableBits)
  BY <1>1, <1>3, <1>4 DEF Audio!StatusByte
<1>6. PICK q \in Nat : q = n \div Audio!TwoTo(below)  BY Powers, Division
<1>7. q % Audio!TwoTo(TableBits) \in Nat
  <2>1. PICK M \in Nat \ {0} : M = Audio!TwoTo(TableBits)  BY <1>0
  <2>2. q % M \in 0 .. M - 1  BY Division
  <2> QED  BY <2>1, <2>2
<1>8. Audio!Bit(q % Audio!TwoTo(TableBits), j) = Audio!Bit(q, j)  BY <1>0, BitOfRemainder
<1>9. Audio!Bit(n \div Audio!TwoTo(below), j) = Audio!Bit(n, below + j)  BY <1>0, BitOfQuotient
<1>10. Audio!Bit(n, below + j) = last[w * Audio!WordBits + (below + j)]
  BY <1>2, <1>3, <1>4 DEF Holds
<1>11. w * Audio!WordBits + (below + j) = t * TableBits + j
  <2>1. PICK x \in Nat : x = TablesPerWord * w  BY <1>0
  <2>2. (x + r) * TableBits = x * TableBits + TableBits * r /\ r \in Nat  BY <1>0
  <2>3. w * Audio!WordBits = x * TableBits
    <3>1. w * (TableBits * TablesPerWord) = (TablesPerWord * w) * TableBits  BY <1>0
    <3> QED  BY <2>1, <3>1 DEF Audio!WordBits
  <2>4. PICK y \in Nat : y = x * TableBits  BY <1>0
  <2>5. t * TableBits = y + below  BY <1>1, <1>3, <2>1, <2>2, <2>4
  <2>6. y + (below + j) = (y + below) + j  BY <1>0
  <2> QED  BY <2>3, <2>4, <2>5, <2>6
<1> QED  BY <1>5, <1>6, <1>7, <1>8, <1>9, <1>10, <1>11

\* The sums over the tables are the sum over the coefficients.
LEMMA PredictIs ==
  ASSUME Audio!Numbers, ICoefA \in Filters, NEW f \in DOMAIN ICoefA,
         NEW st \in [0 .. NrOfWords - 1 -> 0 .. Audio!TwoTo(Audio!WordBits) - 1], NEW last,
         Holds(st, last), \A j \in Nat : last[j] \in Int
  PROVE  /\ Audio!Predict(f, st) \in Int
         /\ Audio!Predict(f, st) = Audio!Short(Audio!Sum([j \in 0 .. Len(ICoefA[f]) - 1 |-> (2 * last[j] - 1) * ICoefA[f][j + 1]],
                                 Len(ICoefA[f])))
<1> DEFINE L == Len(ICoefA[f])
           g == [j \in 0 .. L - 1 |-> (2 * last[j] - 1) * ICoefA[f][j + 1]]
           h == [t \in 0 .. Audio!NrOfTables - 1 |-> Audio!ICoefI(f, t, Audio!StatusByte(st, t))]
           Seen(t) == IF t * TableBits < L THEN t * TableBits ELSE L
           P(t) == Audio!Sum(h, t) = Audio!Sum(g, Seen(t))
           T == {t \in 0 .. Audio!NrOfTables : P(t)}
<1>0. /\ TableBits \in Nat \ {0} /\ Audio!NrOfTables \in Nat \ {0}
      /\ ICoefA[f] \in Seq(Int) /\ L \in Nat /\ L <= TableBits * Audio!NrOfTables
  <2>1. ICoefA \in Seq(Seq(Int)) /\ Len(ICoefA[f]) \in 1 .. TableBits * Audio!NrOfTables
    BY DEF Audio!Numbers
  <2>2. ICoefA[f] \in Seq(Int)  BY <2>1
  <2>3. TableBits \in Nat \ {0} /\ Audio!NrOfTables \in Nat \ {0}  BY NumberTypes, WindowSizes
  <2>4. L \in Nat  BY <2>2
  <2> HIDE DEF L
  <2>5. TableBits * Audio!NrOfTables \in Nat  BY <2>3
  <2>6. L <= TableBits * Audio!NrOfTables  BY <2>1, <2>4, <2>5 DEF L
  <2> QED  BY <2>2, <2>3, <2>4, <2>6
<1>1. \A j \in 0 .. L - 1 : g[j] \in Int /\ g[j] = (2 * last[j] - 1) * ICoefA[f][j + 1]
  <2> TAKE j \in 0 .. L - 1
  <2>1. j \in Nat /\ j + 1 \in 1 .. L  BY <1>0
  <2>2. ICoefA[f][j + 1] \in Int /\ last[j] \in Int  BY <1>0, <2>1
  <2>3. \A x, y \in Int : (2 * x - 1) * y \in Int  OBVIOUS
  <2> QED  BY <2>2, <2>3
<1>2. ASSUME NEW t \in 0 .. Audio!NrOfTables - 1
      PROVE  /\ h[t] \in Int /\ Seen(t) \in Nat /\ Seen(t + 1) \in Nat /\ Seen(t) <= Seen(t + 1)
             /\ Seen(t + 1) <= L /\ Audio!Sum(g, Seen(t + 1)) = Audio!Sum(g, Seen(t)) + h[t]
  <2>1. PICK x \in Nat : x = t * TableBits /\ (t + 1) * TableBits = x + TableBits /\ t \in Nat
    <3>1. t \in Nat /\ t * TableBits \in Nat /\ (t + 1) * TableBits = t * TableBits + TableBits
      BY <1>0
    <3> QED  BY <3>1
  <2>2. PICK n \in 0 .. TableBits : n = Audio!Coefficients(f, t) /\ Seen(t + 1) = Seen(t) + n
                                    /\ (n > 0 => Seen(t) = x) /\ Seen(t) \in 0 .. L /\ Seen(t) + n <= L
    <3>1. Audio!Coefficients(f, t) = IF L - x > TableBits THEN TableBits ELSE IF L - x < 0 THEN 0 ELSE L - x
      BY <2>1 DEF Audio!Coefficients
    <3> HIDE DEF L
    <3>2. L \in Nat /\ TableBits \in Nat \ {0}  BY <1>0
    <3>3. Seen(t) = (IF x < L THEN x ELSE L) /\ Seen(t + 1) = (IF x + TableBits < L THEN x + TableBits ELSE L)
      BY <2>1
    <3> HIDE DEF Seen
    <3>4. PICK n : n = Audio!Coefficients(f, t)  OBVIOUS
    <3>5. CASE L - x > TableBits  BY <3>1, <3>2, <3>3, <3>4, <3>5
    <3>6. CASE L - x < 0  BY <3>1, <3>2, <3>3, <3>4, <3>6
    <3>7. CASE ~(L - x > TableBits) /\ ~(L - x < 0)  BY <3>1, <3>2, <3>3, <3>4, <3>7
    <3> QED  BY <3>5, <3>6, <3>7
  <2> DEFINE i == Audio!StatusByte(st, t)
             e == [j \in 0 .. n - 1 |-> (2 * Audio!Bit(i, j) - 1) * ICoefA[f][t * TableBits + j + 1]]
  <2>3. h[t] = Audio!Sum(e, n)  BY <2>2 DEF Audio!ICoefI
  <2>4. \A j \in 0 .. n - 1 : e[j] = g[Seen(t) + j]
    <3> TAKE j \in 0 .. n - 1
    <3>1. Seen(t) = x /\ x + j \in 0 .. L - 1 /\ j \in 0 .. TableBits - 1  BY <1>0, <2>2
    <3>2. Audio!Bit(i, j) = last[t * TableBits + j]  BY <3>1, StatusByteBits
    <3>3. e[j] = (2 * last[x + j] - 1) * ICoefA[f][x + j + 1]  BY <2>1, <3>2
    <3>4. g[x + j] = (2 * last[x + j] - 1) * ICoefA[f][x + j + 1]  BY <1>1, <3>1
    <3> QED  BY <3>1, <3>3, <3>4
  <2> HIDE DEF e, g, h, Seen, L
  <2>5. PICK s \in Nat : s = Seen(t)  BY <1>0, <2>2
  <2>6. AreInts(g, s + n)
    <3>1. \A k \in 0 .. s + n - 1 : k \in 0 .. L - 1  BY <1>0, <2>2, <2>5
    <3> QED  BY <1>1, <3>1 DEF AreInts
  <2>7. n \in Nat /\ Continues(g, s, e, n)
    <3>1. n \in Nat  BY <1>0
    <3>2. \A j \in 0 .. n - 1 : e[j] = g[s + j]  BY <2>4, <2>5
    <3> QED  BY <3>1, <3>2 DEF Continues
  <2>8. Audio!Sum(g, s + n) = Audio!Sum(g, s) + Audio!Sum(e, n) /\ Audio!Sum(e, n) \in Int
    BY <2>6, <2>7, SumOfMore
  <2> QED  BY <1>0, <2>2, <2>3, <2>5, <2>7, <2>8
<1>3. 0 \in T
  <2>1. Seen(0) = 0  BY <1>0
  <2> HIDE DEF g, h
  <2>2. Audio!Sum(g, 0) = 0 /\ Audio!Sum(h, 0) = 0
    <3>1. 0 \in Nat /\ \A z : \A j \in 0 .. 0 - 1 : z[j] \in Int  OBVIOUS
    <3> QED  BY <3>1, AudioSums
  <2> QED  BY <1>0, <2>1, <2>2
<1> HIDE DEF g, h, L
<1>4. ASSUME NEW t \in 1 .. Audio!NrOfTables, t - 1 \in T PROVE t \in T
  <2>1. PICK u \in Nat : u = t - 1 /\ t = u + 1 /\ u \in 0 .. Audio!NrOfTables - 1 /\ t \in 0 .. Audio!NrOfTables
    BY <1>0
  <2>2. Audio!Sum(g, Seen(u + 1)) = Audio!Sum(g, Seen(u)) + h[u]  BY <1>2, <2>1
  <2>3. \A j \in 0 .. u - 1 : h[j] \in Int
    <3>1. \A j \in 0 .. u - 1 : j \in 0 .. Audio!NrOfTables - 1  BY <1>0, <2>1
    <3> QED  BY <1>2, <3>1
  <2>4. h[u] \in Int  BY <1>2, <2>1
  <2>5. Audio!Sum(h, u + 1) = Audio!Sum(h, u) + h[u]  BY <2>3, <2>4, AudioSums
  <2>6. Audio!Sum(h, u) = Audio!Sum(g, Seen(u))  BY <1>4, <2>1
  <2> HIDE DEF Seen
  <2> QED  BY <2>1, <2>2, <2>5, <2>6
<1> HIDE DEF T
<1>5. 0 .. Audio!NrOfTables \subseteq T  BY <1>0, <1>3, <1>4, Induction
<1>6. P(Audio!NrOfTables)
  <2>1. Audio!NrOfTables \in 0 .. Audio!NrOfTables  BY <1>0
  <2> QED  BY <1>5, <2>1 DEF T
<1>7. Seen(Audio!NrOfTables) = L
  <2>1. Audio!NrOfTables * TableBits = TableBits * Audio!NrOfTables /\ TableBits * Audio!NrOfTables \in Nat
    BY <1>0
  <2> QED  BY <1>0, <2>1
<1>8. Audio!Sum(g, L) \in Int  BY <1>0, <1>1, AudioSums
<1>9. Audio!Predict(f, st) = Audio!Short(Audio!Sum(h, Audio!NrOfTables))  BY DEF Audio!Predict, h
<1>10. Audio!Short(Audio!Sum(g, L)) \in Int
  <2>1. PredictBits - 1 \in Nat /\ PredictBits \in Nat  BY NumberTypes
  <2>2. PICK M \in Nat \ {0}, H \in Nat : M = Audio!TwoTo(PredictBits) /\ H = Audio!TwoTo(PredictBits - 1)
    BY <2>1, Powers
  <2>3. PICK x \in Int : x = Audio!Sum(g, L)  BY <1>8
  <2>4. ((x + H) % M) - H \in Int  BY <2>2, <2>3
  <2> QED  BY <2>2, <2>3, <2>4 DEF Audio!Short
<1> QED  BY <1>6, <1>7, <1>9, <1>10 DEF g, L

-----------------------------------------------------------------------------
(* Probabilities *)

LEMMA ReverseIsProbability ==
  ASSUME Audio!Numbers, NEW c \in Int
  PROVE  Audio!Reverse7LSBs(c) \in 1 .. Audio!AC_PROBS \div 2
<1>1. PICK n \in Nat : n = PBITS - 1
  <2>1. PBITS \in Nat \ {0}  BY NumberTypes
  <2> QED  BY <2>1
<1>2. PICK H \in Nat \ {0} : H = Audio!TwoTo(n) /\ Audio!AC_PROBS \div 2 = H
  <2>1. PICK H \in Nat \ {0} : H = Audio!TwoTo(PBITS - 1) /\ Audio!PSUM = 2 * H  BY Widths
  <2>2. (2 * H) \div 2 = H  OBVIOUS
  <2> QED  BY <1>1, <2>1, <2>2 DEF Audio!AC_PROBS
<1>3. PICK x \in Nat : x = c % Audio!TwoTo(PBITS - 1)
  <2>1. c % H \in 0 .. H - 1  OBVIOUS
  <2>2. c % H \in Nat  BY <2>1
  <2> QED  BY <1>1, <1>2, <2>2
<1> DEFINE f == [k \in 0 .. PBITS - 2 |-> Audio!Bit(x, k) * Audio!TwoTo(PBITS - 2 - k)]
           P(i) == Audio!Sum(f, i) \in Nat /\ Audio!Sum(f, i) + Audio!TwoTo(n - i) <= H
           T == {i \in 0..n : P(i)}
<1>4. \A i \in 0 .. n - 1 : f[i] \in Nat /\ f[i] <= Audio!TwoTo(n - (i + 1))
  <2> TAKE i \in 0 .. n - 1
  <2>1. /\ i \in 0 .. PBITS - 2 /\ PBITS - 2 - i = n - (i + 1) /\ n - (i + 1) \in Nat /\ i \in Nat
    <3>1. PBITS = n + 1 /\ PBITS \in Nat  BY <1>1, NumberTypes
    <3> QED  BY <3>1
  <2>2. PICK y \in Nat : y = Audio!TwoTo(n - (i + 1))  BY <2>1, Powers
  <2>3. PICK b \in {0, 1} : b = Audio!Bit(x, i)  BY <2>1, BitIsBit
  <2>4. f[i] = b * y  BY <2>1, <2>2, <2>3
  <2>5. 0 * y = 0 /\ 1 * y = y  OBVIOUS
  <2> QED  BY <2>2, <2>3, <2>4, <2>5
<1>5. Audio!Reverse7LSBs(c) = 1 + Audio!Sum(f, n)  BY <1>1, <1>3 DEF Audio!Reverse7LSBs
<1> HIDE DEF f
<1>6. 0 \in T
  <2>1. Audio!Sum(f, 0) = 0
    <3>1. \A i \in 0 .. 0 - 1 : f[i] \in Int  OBVIOUS
    <3> QED  BY <3>1, AudioSums
  <2>2. n - 0 = n  OBVIOUS
  <2> QED  BY <1>2, <2>1, <2>2
<1>7. ASSUME NEW i \in 1..n, i - 1 \in T PROVE i \in T
  <2>1. PICK j \in Nat : /\ j = i - 1 /\ i = j + 1 /\ j \in 0 .. n - 1 /\ n - i \in Nat
                         /\ (n - i) + 1 = n - j /\ i \in 0..n
    OBVIOUS
  <2>2. f[j] \in Nat /\ f[j] <= Audio!TwoTo(n - i)  BY <1>4, <2>1
  <2>3. PICK y \in Nat : y = Audio!TwoTo(n - i) /\ Audio!TwoTo(n - j) = 2 * y
    <3>1. Audio!TwoTo((n - i) + 1) = 2 * Audio!TwoTo(n - i) /\ Audio!TwoTo(n - i) \in Nat
      BY <2>1, Powers
    <3> QED  BY <2>1, <3>1
  <2>4. Audio!Sum(f, j + 1) = Audio!Sum(f, j) + f[j]
    <3>1. \A k \in 0 .. j - 1 : f[k] \in Int
      <4>1. \A k \in 0 .. j - 1 : k \in 0 .. n - 1  BY <2>1
      <4> QED  BY <1>4, <4>1
    <3>2. f[j] \in Int  BY <2>2
    <3> QED  BY <3>1, <3>2, AudioSums
  <2>5. Audio!Sum(f, j) \in Nat /\ Audio!Sum(f, j) + Audio!TwoTo(n - j) <= H  BY <1>7, <2>1
  <2> QED  BY <2>1, <2>2, <2>3, <2>4, <2>5
<1> HIDE DEF T
<1>8. 0..n \subseteq T  BY <1>6, <1>7, Induction
<1>9. P(n)
  <2>1. n \in 0..n  OBVIOUS
  <2> QED  BY <1>8, <2>1 DEF T
<1>10. Audio!TwoTo(n - n) = 1
  <2>1. n - n = 0  OBVIOUS
  <2> QED  BY <2>1, Powers
<1> QED  BY <1>2, <1>5, <1>9, <1>10

LEMMA ProbabilityIs ==
  ASSUME Audio!Numbers, Audio!Read, bits_ChNr \in Audio!Channels, BitNr \in Audio!BitNrs, NEW predict \in Int
  PROVE  Audio!Probability(predict) \in 1 .. Audio!AC_PROBS \div 2
<1>1. PICK H \in Nat \ {0} : Audio!AC_PROBS \div 2 = H
  <2>1. PICK H \in Nat \ {0} : Audio!PSUM = 2 * H  BY Widths
  <2>2. (2 * H) \div 2 = H  OBVIOUS
  <2> QED  BY <2>1, <2>2 DEF Audio!AC_PROBS
<1>2. CASE BitNr < HalfBits[bits_ChNr]  BY <1>1, <1>2 DEF Audio!Probability
<1>3. CASE ~(BitNr < HalfBits[bits_ChNr])
  <2> DEFINE table == P_one[Ptable4Bit[bits_ChNr, BitNr] + 1]
  <2>1. Ptable4Bit[bits_ChNr, BitNr] + 1 \in DOMAIN P_one
    <3>1. P_one \in Filters \cup Ptables /\ Ptable4Bit \in Maps /\ <<bits_ChNr, BitNr>> \in Audio!Channels \X Audio!BitNrs
      BY DEF Audio!Read
    <3>2. \A tables \in Filters \cup Ptables, map \in Maps : \A x \in Audio!Channels \X Audio!BitNrs :
            map[x] + 1 \in DOMAIN tables
      BY DEF Audio!Numbers
    <3> QED  BY <3>1, <3>2
  <2>2. table \in Seq(1 .. Audio!AC_PROBS \div 2) /\ table # <<>>
    <3>1. P_one \in Ptables  BY DEF Audio!Read
    <3> QED  BY <2>1, <3>1 DEF Audio!Numbers
  <2>3. Audio!Probability(predict) = table[Audio!PtableIndex(predict, Len(table)) + 1]
    BY <1>3 DEF Audio!Probability
  <2> HIDE DEF table
  <2>4. PICK len \in Nat \ {0} : len = Len(table) /\ \A i \in 1 .. len : table[i] \in 1 .. Audio!AC_PROBS \div 2
    <3>0. PICK S : S = 1 .. Audio!AC_PROBS \div 2  OBVIOUS
    <3>1. table \in Seq(S) /\ table # <<>>  BY <2>2, <3>0
    <3>2. Len(table) \in Nat /\ Len(table) # 0 /\ \A i \in 1 .. Len(table) : table[i] \in S
      BY <3>1, EmptySeq, ElementOfSeq
    <3> QED  BY <3>0, <3>2
  <2>5. Audio!PtableIndex(predict, len) + 1 \in 1 .. len
    <3>1. QSTEP \in Nat  BY NumberTypes
    <3>2. PICK M \in Nat \ {0} : M = Audio!TwoTo(QSTEP)  BY <3>1, Powers
    <3>3. PICK m \in Nat : m = Audio!Magnitude(predict)
      <4>1. Audio!Magnitude(predict) \in Nat  BY DEF Audio!Magnitude
      <4> QED  BY <4>1
    <3>4. PICK j \in Nat : j = m \div M  BY Division
    <3>5. Audio!PtableIndex(predict, len) = IF j >= len THEN len - 1 ELSE j
      BY <3>2, <3>3, <3>4 DEF Audio!PtableIndex
    <3> QED  BY <3>5
  <2> QED  BY <2>3, <2>4, <2>5
<1> QED  BY <1>2, <1>3

-----------------------------------------------------------------------------
(* The inductive invariant *)

LEMMA DecoderStep ==
  ASSUME Audio!Numbers, Audio!BitsInv, bits_pc # "done", UNCHANGED Audio!frame,
         NEW p \in 1 .. Audio!AC_PROBS \div 2, Audio!DecodeBit(p)
  PROVE  /\ A' \in Audio!HALF .. Audio!ONE - 1 /\ C' \in 0 .. Audio!TwoTo(UintBits) - 1
         /\ cbptr' \in Nat \ {0} /\ low' \in Nat /\ Audio!CodeInInterval'
<1>1. AData \in Codes /\ AData' = AData  BY DEF Audio!BitsInv, Audio!Read, Audio!frame
<1>2. A \in Audio!HALF .. Audio!ONE - 1 /\ C \in Nat /\ cbptr \in Nat \ {0} /\ low \in Nat
  <2>1. Audio!TwoTo(UintBits) \in Nat  BY Widths
  <2>2. C \in 0 .. Audio!TwoTo(UintBits) - 1  BY DEF Audio!BitsInv, Audio!TypeOK
  <2>3. C \in Nat  BY <2>1, <2>2
  <2> QED  BY <2>3 DEF Audio!BitsInv, Audio!TypeOK
<1>3. Audio!AllOnes \/ (C < A /\ Audio!Code(1, cbptr - 1) = Audio!Uint(low + C))
  BY DEF Audio!BitsInv, Audio!CodeInInterval
<1>4. /\ A' \in Audio!HALF .. Audio!ONE - 1 /\ C' \in 0 .. Audio!TwoTo(UintBits) - 1
      /\ cbptr' \in Nat \ {0} /\ low' \in Nat
      /\ C < A /\ Audio!Code(1, cbptr - 1) = Audio!Uint(low + C)
           => C' < A' /\ Audio!Code(1, cbptr' - 1) = Audio!Uint(low' + C')
  BY <1>1, <1>2, DecodeKeeps
<1>5. Audio!AllOnes => Audio!AllOnes'
  <2>1. Audio!Code(1, Audio!ABITS)' = Audio!Code(1, Audio!ABITS)  BY <1>1, CodeStays
  <2> QED  BY <2>1 DEF Audio!AllOnes
<1>6. Audio!Code(1, cbptr - 1)' = Audio!Code(1, cbptr' - 1)
  <2>1. PICK k : k = cbptr' - 1  OBVIOUS
  <2>2. Audio!Code(1, k)' = Audio!Code(1, k)  BY <1>1, CodeStays
  <2> QED  BY <2>1, <2>2
<1>7. Audio!Uint(low + C)' = Audio!Uint(low' + C')  BY DEF Audio!Uint
<1>8. Audio!CodeInInterval'  BY <1>3, <1>4, <1>5, <1>6, <1>7 DEF Audio!CodeInInterval
<1> QED  BY <1>4, <1>8

LEMMA OutputSizes ==
  ASSUME Audio!Numbers
  PROVE  /\ NrOfChannels \in Nat \ {0} /\ BitsPerByte \in Nat \ {0} /\ Audio!TwoTo(BitsPerByte) \in Nat \ {0}
         /\ (BitsPerCh \div BitsPerByte) * NrOfChannels \in Nat
         /\ \A k \in 0 .. (BitsPerCh \div BitsPerByte) * NrOfChannels - 1 :
              /\ k \in Nat /\ k % NrOfChannels \in Audio!Channels /\ k \div NrOfChannels \in Nat
              /\ k = NrOfChannels * (k \div NrOfChannels) + (k % NrOfChannels)
<1>1. NrOfChannels \in Nat \ {0} /\ BitsPerByte \in Nat \ {0} /\ BitsPerCh \in Nat  BY NumberTypes
<1>2. Audio!TwoTo(BitsPerByte) \in Nat \ {0}  BY <1>1, Powers
<1>3. BitsPerCh \div BitsPerByte \in Nat  BY <1>1, Division
<1>4. \A x, y \in Nat : x * y \in Nat  OBVIOUS
<1>5. PICK n \in Nat : n = (BitsPerCh \div BitsPerByte) * NrOfChannels  BY <1>1, <1>3, <1>4
<1>6. ASSUME NEW k \in 0 .. n - 1
      PROVE  /\ k \in Nat /\ k % NrOfChannels \in Audio!Channels /\ k \div NrOfChannels \in Nat
             /\ k = NrOfChannels * (k \div NrOfChannels) + (k % NrOfChannels)
  <2>1. k \in Nat  OBVIOUS
  <2> QED  BY <1>1, <2>1, Division DEF Audio!Channels
<1> QED  BY <1>1, <1>2, <1>5, <1>6

LEMMA BitsInit ==
  ASSUME Audio!Numbers, Audio!Init
  PROVE  Audio!BitsInv
<1>1. Audio!Read /\ bits_pc = "first" /\ BitNr = 0 /\ bits_ChNr = 0 /\ low = 0
  BY DEF Audio!Init, Audio!Read
<1>2. /\ Audio!HALF \in Nat \ {0} /\ Audio!ONE = 2 * Audio!HALF /\ Audio!ABITS \in Nat \ {0} /\ Audio!ONE <= Audio!TwoTo(UintBits)
      /\ Audio!TwoTo(UintBits) \in Nat \ {0} /\ UintBits \in Nat /\ Audio!ABITS <= UintBits
      /\ BitsPerCh \in Nat /\ NrOfChannels \in Nat \ {0} /\ BitsPerByte \in Nat \ {0}
  BY Widths, NumberTypes
<1>3. A = Audio!ONE - 1 /\ A \in Audio!HALF .. Audio!ONE - 1 /\ A \in Nat
  BY <1>2 DEF Audio!Init
<1>4. C = Audio!Code(1, Audio!ABITS) /\ C \in Nat /\ C <= Audio!ONE - 1
  <2>1. AData \in Codes /\ Audio!ABITS \in Nat /\ Audio!ABITS \in 0 .. UintBits
    BY <1>1, <1>2 DEF Audio!Read
  <2>2. Audio!Code(1, Audio!ABITS) \in Nat /\ Audio!Code(1, Audio!ABITS) <= Audio!TwoTo(Audio!ABITS) - 1
    BY <2>1, Codes1, CodeFits
  <2> QED  BY <2>2 DEF Audio!Init, Audio!ONE
<1>5. cbptr = Audio!ABITS + 1 /\ cbptr \in Nat \ {0} /\ cbptr - 1 = Audio!ABITS
  BY <1>2 DEF Audio!Init
<1>6. Audio!CodeInInterval
  <2>1. 0 + C = C  BY <1>4
  <2>2. Audio!Uint(C) = C  BY <1>2, <1>4, UintIs
  <2>3. C = A => Audio!AllOnes  BY <1>3, <1>4 DEF Audio!AllOnes
  <2>4. C <= A  BY <1>3, <1>4
  <2> QED  BY <1>1, <1>3, <1>4, <1>5, <2>1, <2>2, <2>3, <2>4 DEF Audio!CodeInInterval
<1>7. /\ Status \in [Audio!Channels -> [0 .. NrOfWords - 1 -> 0 .. Audio!TwoTo(Audio!WordBits) - 1]]
      /\ \A c \in Audio!Channels, w \in 0 .. NrOfWords - 1 : Status[c][w] = Audio!StartWord
  BY StartBits DEF Audio!Init
<1>8. audio_bits \in [Audio!Channels -> Seq({0, 1})] /\ \A c \in Audio!Channels : audio_bits[c] = <<>>
  BY EmptySeq DEF Audio!Init
<1>9. Audio!WindowInv
  <2> SUFFICES ASSUME NEW c \in Audio!Channels, NEW w \in 0 .. NrOfWords - 1, NEW k \in 0 .. Audio!WordBits - 1
               PROVE  Audio!Bit(Status[c][w], k) = Audio!LastBit(c, w * Audio!WordBits + k)
    BY DEF Audio!WindowInv
  <2>1. Audio!Bit(Status[c][w], k) = (w * Audio!WordBits + k) % 2  BY <1>7, StartBits
  <2>2. PICK m \in Nat : m = w * Audio!WordBits + k
    <3>1. w * Audio!WordBits \in Nat /\ k \in Nat  BY WindowSizes
    <3> QED  BY <3>1
  <2>3. Len(audio_bits[c]) = 0  BY <1>8
  <2>4. Audio!LastBit(c, m) = (m - 0) % 2 /\ m - 0 = m  BY <2>3 DEF Audio!LastBit
  <2> QED  BY <2>1, <2>2, <2>4
<1>10. /\ MuxedDSD \in [0 .. (BitsPerCh \div BitsPerByte) * NrOfChannels - 1 -> 0 .. Audio!TwoTo(BitsPerByte) - 1]
       /\ \A k \in DOMAIN MuxedDSD : MuxedDSD[k] = 0
  <2>1. 0 \in 0 .. Audio!TwoTo(BitsPerByte) - 1
    <3>1. Audio!TwoTo(BitsPerByte) \in Nat \ {0}  BY OutputSizes
    <3> QED  BY <3>1
  <2> QED  BY <2>1 DEF Audio!Init
<1>11. Audio!OutputInv
  <2> SUFFICES ASSUME NEW k \in DOMAIN MuxedDSD
               PROVE  MuxedDSD[k] + Audio!TwoTo(BitsPerByte - Audio!Filled(k)) <= Audio!TwoTo(BitsPerByte)
    BY DEF Audio!OutputInv
  <2>1. k % NrOfChannels \in Audio!Channels /\ k \div NrOfChannels \in Nat
    BY <1>10, OutputSizes
  <2>2. ~(k % NrOfChannels < 0)
    <3>1. \A i \in Audio!Channels : ~(i < 0)  BY <1>2 DEF Audio!Channels
    <3> QED  BY <2>1, <3>1
  <2>3. Audio!BitsDone(k % NrOfChannels) = 0  BY <1>1, <2>2 DEF Audio!BitsDone
  <2>4. (k \div NrOfChannels) * BitsPerByte \in Nat
    <3>1. \A x, y \in Nat : x * y \in Nat  OBVIOUS
    <3> QED  BY <1>2, <2>1, <3>1
  <2>5. Audio!Filled(k) = 0  BY <2>3, <2>4, <1>2 DEF Audio!Filled
  <2>6. BitsPerByte - 0 = BitsPerByte /\ Audio!TwoTo(BitsPerByte) \in Nat  BY <1>2, Powers
  <2> QED  BY <1>10, <2>5, <2>6
<1>12. Audio!TypeOK
  <2>1. BitNr \in 0 .. BitsPerCh /\ bits_ChNr \in Audio!Channels
    BY <1>1, <1>2 DEF Audio!Channels
  <2>2. C \in 0 .. Audio!TwoTo(UintBits) - 1  BY <1>2, <1>4
  <2> QED  BY <1>1, <1>3, <1>7, <1>10, <2>1, <2>2 DEF Audio!TypeOK
<1>13. low \in Nat  BY <1>1
<1> QED  BY <1>1, <1>5, <1>6, <1>8, <1>9, <1>11, <1>12, <1>13 DEF Audio!BitsInv

LEMMA WindowStays ==
  ASSUME Audio!WindowInv, UNCHANGED <<Status, audio_bits>>
  PROVE  Audio!WindowInv'
  BY DEF Audio!WindowInv, Audio!LastBit

LEMMA OutputStays ==
  ASSUME Audio!OutputInv, UNCHANGED <<BitNr, bits_ChNr, MuxedDSD>>
  PROVE  Audio!OutputInv'
  BY DEF Audio!OutputInv, Audio!Filled, Audio!BitsDone

LEMMA FirstBitKeeps ==
  ASSUME Audio!Numbers, Audio!BitsInv, Audio!FirstBit
  PROVE  Audio!BitsInv'
<1>1. Audio!Read /\ Audio!TypeOK /\ Audio!WindowInv /\ Audio!OutputInv /\ bits_pc = "first" /\ bits_pc' = "bits"
  BY DEF Audio!BitsInv, Audio!FirstBit
<1>2. UNCHANGED <<Audio!frame, BitNr, bits_ChNr, Status, MuxedDSD, ACError, audio_bits>>
  BY DEF Audio!FirstBit
<1>3. Audio!Reverse7LSBs(ICoefA[1][1]) \in 1 .. Audio!AC_PROBS \div 2
  <2>1. ICoefA \in Seq(Seq(Int)) /\ ICoefA # <<>>
        /\ \A f \in DOMAIN ICoefA : Len(ICoefA[f]) \in 1 .. TableBits * Audio!NrOfTables
    BY <1>1 DEF Audio!Numbers, Audio!Read
  <2>2. 1 \in DOMAIN ICoefA /\ ICoefA[1] \in Seq(Int)
    <3>1. Len(ICoefA) \in Nat \ {0} /\ DOMAIN ICoefA = 1 .. Len(ICoefA)
      BY <2>1, EmptySeq, LenProperties
    <3>2. 1 \in 1 .. Len(ICoefA)  BY <3>1
    <3> QED  BY <2>1, <3>1, <3>2, ElementOfSeq
  <2>3. Len(ICoefA[1]) \in 1 .. TableBits * Audio!NrOfTables /\ Len(ICoefA[1]) \in Nat
    BY <2>1, <2>2, LenProperties
  <2>4. 1 \in 1 .. Len(ICoefA[1])
    <3>1. PICK n \in Nat : n = TableBits * Audio!NrOfTables
      <4>1. \A x, y \in Nat : x * y \in Nat  OBVIOUS
      <4> QED  BY <4>1, NumberTypes, WindowSizes
    <3> QED  BY <2>3, <3>1
  <2>5. ICoefA[1][1] \in Int  BY <2>2, <2>4, ElementOfSeq
  <2> QED  BY <2>5, ReverseIsProbability
<1>4. /\ A' \in Audio!HALF .. Audio!ONE - 1 /\ C' \in 0 .. Audio!TwoTo(UintBits) - 1
      /\ cbptr' \in Nat \ {0} /\ low' \in Nat /\ Audio!CodeInInterval'
  <2>1. bits_pc # "done" /\ UNCHANGED Audio!frame /\ Audio!DecodeBit(Audio!Reverse7LSBs(ICoefA[1][1]))
    BY <1>1, <1>2 DEF Audio!FirstBit
  <2> QED  BY <1>3, <2>1, DecoderStep
<1>5. Audio!Read'  BY <1>1, <1>2 DEF Audio!Read, Audio!frame
<1>6. Audio!TypeOK'  BY <1>1, <1>2, <1>4 DEF Audio!TypeOK
<1>7. Audio!WindowInv' /\ Audio!OutputInv'  BY <1>1, <1>2, WindowStays, OutputStays
<1>8. audio_bits' \in [Audio!Channels -> Seq({0, 1})]  BY <1>2 DEF Audio!BitsInv
<1> QED  BY <1>1, <1>4, <1>5, <1>6, <1>7, <1>8 DEF Audio!BitsInv

LEMMA FlushKeeps ==
  ASSUME Audio!Numbers, Audio!BitsInv, Audio!Flush
  PROVE  Audio!BitsInv'
<1>1. Audio!Read /\ Audio!TypeOK /\ Audio!WindowInv /\ Audio!OutputInv /\ bits_pc' = "done" /\ bits_pc' # "first"
  BY DEF Audio!BitsInv, Audio!Flush
<1>2. UNCHANGED <<Audio!frame, BitNr, bits_ChNr, A, C, Status, MuxedDSD, low, audio_bits>>
  BY DEF Audio!Flush
<1>3. cbptr' \in Nat \ {0}
  <2>1. cbptr \in Nat \ {0}  BY DEF Audio!BitsInv
  <2>2. Len(AData) \in Nat
    <3>1. AData \in Seq({0, 1})  BY <1>1 DEF Audio!Read, Audio!Numbers
    <3> QED  BY <3>1, LenProperties
  <2> QED  BY <2>1, <2>2 DEF Audio!Flush
<1>4. Audio!Read'  BY <1>1, <1>2 DEF Audio!Read, Audio!frame
<1>5. Audio!TypeOK'  BY <1>1, <1>2 DEF Audio!TypeOK
<1>6. Audio!WindowInv' /\ Audio!OutputInv'  BY <1>1, <1>2, WindowStays, OutputStays
<1>7. Audio!CodeInInterval'  BY <1>1 DEF Audio!CodeInInterval
<1>8. audio_bits' \in [Audio!Channels -> Seq({0, 1})] /\ low' \in Nat  BY <1>2 DEF Audio!BitsInv
<1> QED  BY <1>1, <1>3, <1>4, <1>5, <1>6, <1>7, <1>8 DEF Audio!BitsInv

\* A bit is decoded: the words and the bits of its channel.
LEMMA StatusStep ==
  ASSUME Audio!Numbers, Audio!BitsInv, NEW b \in {0, 1},
         Status' = [Status EXCEPT ![bits_ChNr] = Audio!Shifted(@, b)],
         audio_bits' = [audio_bits EXCEPT ![bits_ChNr] = Append(@, b)]
  PROVE  /\ Status' \in [Audio!Channels -> [0 .. NrOfWords - 1 -> 0 .. Audio!TwoTo(Audio!WordBits) - 1]]
         /\ audio_bits' \in [Audio!Channels -> Seq({0, 1})] /\ Audio!WindowInv'
<1>1. /\ Status \in [Audio!Channels -> [0 .. NrOfWords - 1 -> 0 .. Audio!TwoTo(Audio!WordBits) - 1]]
      /\ audio_bits \in [Audio!Channels -> Seq({0, 1})] /\ Audio!WindowInv /\ bits_ChNr \in Audio!Channels
  BY DEF Audio!BitsInv, Audio!TypeOK
<1>0. PICK d \in Audio!Channels : d = bits_ChNr  BY <1>1
<1> DEFINE last == [j \in Nat |-> Audio!LastBit(d, j)]
           next == [j \in Nat |-> Audio!LastBit(d, j)']
           s == audio_bits[d]
           s2 == Append(s, b)
<1>2. audio_bits'[d] = s2 /\ s \in Seq({0, 1}) /\ s2 \in Seq({0, 1})
  <2>1. s \in Seq({0, 1})  BY <1>1
  <2>2. Append(s, b) \in Seq({0, 1})  BY <2>1, AppendProperties
  <2> QED  BY <1>0, <1>1, <2>1, <2>2
<1>3. next[0] = b /\ \A j \in Nat : next[j + 1] = last[j]
  <2> HIDE DEF s2, s
  <2>1. \A j \in Nat : next[j] = IF j < Len(s2) THEN s2[Len(s2) - j] ELSE (j - Len(s2)) % 2
    <3> TAKE j \in Nat
    <3>1. next[j] = Audio!LastBit(d, j)'  OBVIOUS
    <3>2. Audio!LastBit(d, j)' = IF j < Len(audio_bits'[d]) THEN audio_bits'[d][Len(audio_bits'[d]) - j]
                              ELSE (j - Len(audio_bits'[d])) % 2
      BY DEF Audio!LastBit
    <3> QED  BY <1>2, <3>1, <3>2
  <2>2. \A j \in Nat : last[j] = IF j < Len(s) THEN s[Len(s) - j] ELSE (j - Len(s)) % 2
    BY DEF Audio!LastBit, s
  <2> HIDE DEF next, last
  <2>3. ASSUME NEW j \in Nat PROVE next[0] = b /\ next[j + 1] = last[j]
    <3>1. /\ s2[Len(s2) - 0] = b /\ 0 < Len(s2)
          /\ j + 1 < Len(s2) <=> j < Len(s)
          /\ j < Len(s) => s2[Len(s2) - (j + 1)] = s[Len(s) - j]
          /\ ((j + 1) - Len(s2)) % 2 = (j - Len(s)) % 2
      BY <1>2, LastOfAppend DEF s2
    <3>2. 0 \in Nat /\ j + 1 \in Nat  OBVIOUS
    <3> QED  BY <2>1, <2>2, <3>1, <3>2
  <2> QED  BY <2>3
<1>4. \A w \in 0 .. NrOfWords - 1, k \in 0 .. Audio!WordBits - 1 : w * Audio!WordBits + k \in Nat
  <2> TAKE w \in 0 .. NrOfWords - 1, k \in 0 .. Audio!WordBits - 1
  <2>1. PICK x \in Nat : x = w * Audio!WordBits  BY WindowSizes
  <2>2. x + k \in Nat  BY WindowSizes
  <2> QED  BY <2>1, <2>2
<1>5. Holds(Status[d], last)  BY <1>1, <1>4 DEF Audio!WindowInv, Holds
<1>6. Status[d] \in [0 .. NrOfWords - 1 -> 0 .. Audio!TwoTo(Audio!WordBits) - 1]  BY <1>1
<1>7. /\ Status'[d] = Audio!Shifted(Status[d], b)
      /\ \A c \in Audio!Channels : c # d => Status'[c] = Status[c] /\ audio_bits'[c] = audio_bits[c]
  BY <1>0, <1>1
<1> HIDE DEF last, next
<1>8. /\ Audio!Shifted(Status[d], b) \in [0 .. NrOfWords - 1 -> 0 .. Audio!TwoTo(Audio!WordBits) - 1]
      /\ Holds(Audio!Shifted(Status[d], b), next)
  <2>1. Follows(next, b, last)  BY <1>3 DEF Follows
  <2> QED  BY <1>5, <1>6, <2>1, ShiftedWindow
<1>9. Audio!WindowInv'
  <2> SUFFICES ASSUME NEW c \in Audio!Channels, NEW w \in 0 .. NrOfWords - 1, NEW k \in 0 .. Audio!WordBits - 1
               PROVE  Audio!Bit(Status'[c][w], k) = Audio!LastBit(c, w * Audio!WordBits + k)'
    BY DEF Audio!WindowInv
  <2>1. CASE c = d
    <3>1. Audio!Bit(Status'[d][w], k) = next[w * Audio!WordBits + k]  BY <1>7, <1>8 DEF Holds
    <3>2. PICK m \in Nat : m = w * Audio!WordBits + k  BY <1>4
    <3>3. next[m] = Audio!LastBit(d, m)'  BY DEF next
    <3> QED  BY <2>1, <3>1, <3>2, <3>3
  <2>2. CASE c # d
    <3>1. Audio!Bit(Status[c][w], k) = Audio!LastBit(c, w * Audio!WordBits + k)
      BY <1>1 DEF Audio!WindowInv
    <3>2. PICK m \in Nat : m = w * Audio!WordBits + k  BY <1>4
    <3>3. audio_bits'[c] = audio_bits[c] /\ Status'[c] = Status[c]  BY <1>7, <2>2
    <3>4. Audio!LastBit(c, m)' = Audio!LastBit(c, m)  BY ONLY <3>3, Zenon DEF Audio!LastBit
    <3> QED  BY <3>1, <3>2, <3>3, <3>4
  <2> QED  BY <2>1, <2>2
<1> QED  BY <1>1, <1>2, <1>8, <1>9

\* The places of the bits of a byte: what is filled before and after a bit of
\* channel ChNr.
LEMMA FilledStep ==
  ASSUME Audio!Numbers, bits_ChNr \in Audio!Channels, BitNr \in Audio!BitNrs,
         bits_ChNr' = (bits_ChNr + 1) % NrOfChannels,
         BitNr' = IF bits_ChNr = NrOfChannels - 1 THEN BitNr + 1 ELSE BitNr,
         NEW byte, byte = (BitNr \div BitsPerByte) * NrOfChannels + bits_ChNr,
         NEW k \in 0 .. (BitsPerCh \div BitsPerByte) * NrOfChannels - 1
  PROVE  /\ Audio!Filled(k) \in 0 .. BitsPerByte
         /\ k # byte => Audio!Filled(k)' = Audio!Filled(k)
         /\ k = byte => /\ Audio!Filled(k) = BitNr % BitsPerByte /\ BitNr % BitsPerByte \in 0 .. BitsPerByte - 1
                        /\ Audio!Filled(k)' = (BitNr % BitsPerByte) + 1
         /\ bits_ChNr' \in Audio!Channels /\ BitNr' \in 0 .. BitsPerCh
<1>1. /\ NrOfChannels \in Nat \ {0} /\ BitsPerByte \in Nat \ {0} /\ BitsPerCh \in Nat
      /\ BitNr \in Nat /\ BitNr + 1 \in 0 .. BitsPerCh /\ bits_ChNr \in 0 .. NrOfChannels - 1
      /\ bits_ChNr \in Nat
  <2>1. NrOfChannels \in Nat \ {0} /\ BitsPerByte \in Nat \ {0} /\ BitsPerCh \in Nat  BY NumberTypes
  <2> QED  BY <2>1 DEF Audio!Channels, Audio!BitNrs
<1>2. PICK c \in Nat, r \in Nat : /\ c = k % NrOfChannels /\ r = k \div NrOfChannels /\ c < NrOfChannels
                                  /\ k = NrOfChannels * r + c
  <2>1. k % NrOfChannels \in Audio!Channels /\ k \div NrOfChannels \in Nat
        /\ k = NrOfChannels * (k \div NrOfChannels) + (k % NrOfChannels)
    BY OutputSizes
  <2>2. k % NrOfChannels \in Nat /\ k % NrOfChannels < NrOfChannels
    BY <1>1, <2>1 DEF Audio!Channels
  <2> QED  BY <2>1, <2>2
<1>3. PICK q \in Nat, m \in 0 .. BitsPerByte - 1 :
        q = BitNr \div BitsPerByte /\ m = BitNr % BitsPerByte /\ BitNr = BitsPerByte * q + m
  <2>1. PICK R \in Nat \ {0} : R = BitsPerByte  BY <1>1
  <2>2. BitNr \div R \in Nat /\ BitNr % R \in 0 .. R - 1 /\ BitNr = R * (BitNr \div R) + (BitNr % R)
    BY <1>1, Division
  <2> QED  BY <2>1, <2>2
<1>4. Audio!BitsDone(c) = (IF c < bits_ChNr THEN BitNr + 1 ELSE BitNr) /\ Audio!BitsDone(c) \in Nat
  BY <1>1 DEF Audio!BitsDone
<1>5. bits_ChNr' \in Audio!Channels /\ BitNr' \in 0 .. BitsPerCh
      /\ Audio!BitsDone(c)' = IF c <= bits_ChNr THEN BitNr + 1 ELSE BitNr
  <2>1. Audio!BitsDone(c)' = IF c < bits_ChNr' THEN BitNr' + 1 ELSE BitNr'
    BY DEF Audio!BitsDone
  <2>2. CASE bits_ChNr = NrOfChannels - 1
    <3>1. NrOfChannels % NrOfChannels = 0 /\ bits_ChNr + 1 = NrOfChannels
      <4>1. PICK M \in Nat \ {0} : M = NrOfChannels  BY <1>1
      <4>2. (M * 1 + 0) % M = 0 /\ M * 1 + 0 = M
        <5>1. 0 \in 0 .. M - 1 /\ 1 \in Nat  OBVIOUS
        <5>2. (M * 1 + 0) % M = 0  BY <5>1, DivisionIs
        <5> QED  BY <5>2
      <4> QED  BY <1>1, <2>2, <4>1, <4>2
    <3>2. bits_ChNr' = 0 /\ BitNr' = BitNr + 1  BY <2>2, <3>1
    <3> QED  BY <1>1, <1>2, <2>1, <2>2, <3>2 DEF Audio!Channels
  <2>3. CASE bits_ChNr # NrOfChannels - 1
    <3>1. PICK M \in Nat \ {0} : M = NrOfChannels  BY <1>1
    <3>2. bits_ChNr + 1 \in 0 .. M - 1 /\ bits_ChNr + 1 \in Nat /\ M * 0 + (bits_ChNr + 1) = bits_ChNr + 1
      BY <1>1, <2>3, <3>1
    <3>3. (M * 0 + (bits_ChNr + 1)) % M = bits_ChNr + 1
      <4>1. 0 \in Nat  OBVIOUS
      <4> QED  BY <3>2, <4>1, DivisionIs
    <3>4. bits_ChNr' = bits_ChNr + 1 /\ BitNr' = BitNr  BY <2>3, <3>1, <3>2, <3>3
    <3> QED  BY <1>1, <1>2, <2>1, <2>3, <3>1, <3>2, <3>4 DEF Audio!Channels
  <2> QED  BY <2>2, <2>3
<1>6. PICK y \in Nat : y = r * BitsPerByte
  <2>1. \A u, v \in Nat : u * v \in Nat  OBVIOUS
  <2> QED  BY <1>1, <2>1
<1> DEFINE Clamp(n) == IF n < 0 THEN 0 ELSE IF n > BitsPerByte THEN BitsPerByte ELSE n
<1>7. Audio!Filled(k) = Clamp(Audio!BitsDone(c) - y) /\ Audio!Filled(k)' = Clamp(Audio!BitsDone(c)' - y)
  BY <1>2, <1>6 DEF Audio!Filled
<1>8. Audio!Filled(k) \in 0 .. BitsPerByte  BY <1>1, <1>4, <1>7
<1>9. k = byte <=> c = bits_ChNr /\ r = q
  <2>1. byte = q * NrOfChannels + bits_ChNr  BY <1>3
  <2>2. q * NrOfChannels = NrOfChannels * q  BY <1>1
  <2>3. PICK M \in Nat \ {0} : M = NrOfChannels  BY <1>1
  <2>4. bits_ChNr \in 0 .. M - 1 /\ c \in 0 .. M - 1  BY <1>1, <1>2, <2>3
  <2>5. (M * q + bits_ChNr) \div M = q /\ (M * q + bits_ChNr) % M = bits_ChNr
    BY <2>4, DivisionIs
  <2>6. byte = M * q + bits_ChNr  BY <2>1, <2>2, <2>3
  <2>7. k = byte => c = bits_ChNr /\ r = q  BY <1>2, <2>3, <2>5, <2>6
  <2>8. c = bits_ChNr /\ r = q => k = byte  BY <1>2, <2>3, <2>6
  <2> QED  BY <2>7, <2>8
<1>10. PICK x \in Nat : x = BitsPerByte * q /\ BitNr = x + m /\ (r = q => y = x)
                        /\ (r < q => y + BitsPerByte <= x) /\ (r > q => x + BitsPerByte <= y)
  <2>1. \A u, v \in Nat : u * v \in Nat /\ u * v = v * u  OBVIOUS
  <2>2. BitsPerByte * q \in Nat /\ y = BitsPerByte * r  BY <1>1, <1>6, <2>1
  <2>3. ASSUME r < q PROVE BitsPerByte * r + BitsPerByte <= BitsPerByte * q
    <3>1. PICK d \in Nat : q = r + 1 + d
      <4>1. q - r - 1 \in Nat /\ q = r + 1 + (q - r - 1)  BY <2>3
      <4> QED  BY <4>1
    <3>2. BitsPerByte * (r + 1 + d) = BitsPerByte * r + BitsPerByte + BitsPerByte * d /\ BitsPerByte * d \in Nat /\ BitsPerByte * r \in Nat
      BY <1>1
    <3> QED  BY <1>1, <3>1, <3>2
  <2>4. ASSUME r > q PROVE BitsPerByte * q + BitsPerByte <= BitsPerByte * r
    <3>1. PICK d \in Nat : r = q + 1 + d
      <4>1. r - q - 1 \in Nat /\ r = q + 1 + (r - q - 1)  BY <2>4
      <4> QED  BY <4>1
    <3>2. BitsPerByte * (q + 1 + d) = BitsPerByte * q + BitsPerByte + BitsPerByte * d /\ BitsPerByte * d \in Nat /\ BitsPerByte * q \in Nat
      BY <1>1
    <3> QED  BY <1>1, <3>1, <3>2
  <2>5. r = q => y = BitsPerByte * q  BY <2>2
  <2>6. BitNr = BitsPerByte * q + m  BY <1>3
  <2>7. r < q => y + BitsPerByte <= BitsPerByte * q  BY <2>2, <2>3
  <2>8. r > q => BitsPerByte * q + BitsPerByte <= y  BY <2>2, <2>4
  <2>9. PICK x \in Nat : x = BitsPerByte * q  BY <2>2
  <2> QED  BY <2>5, <2>6, <2>7, <2>8, <2>9
<1>11. ASSUME k = byte PROVE Audio!Filled(k) = m /\ Audio!Filled(k)' = m + 1
  <2>1. c = bits_ChNr /\ r = q  BY <1>9, <1>11
  <2>2. Audio!BitsDone(c) = BitNr /\ Audio!BitsDone(c)' = BitNr + 1  BY <1>1, <1>4, <1>5, <2>1
  <2>3. BitNr - y = m /\ (BitNr + 1) - y = m + 1 /\ m \in Nat /\ m + 1 <= BitsPerByte
    BY <1>1, <1>10, <2>1
  <2> QED  BY <1>1, <1>7, <2>2, <2>3
<1>12. ASSUME k # byte PROVE Audio!Filled(k)' = Audio!Filled(k)
  <2>1. CASE c < bits_ChNr
    <3>1. Audio!BitsDone(c)' = Audio!BitsDone(c)  BY <1>1, <1>4, <1>5, <2>1
    <3> QED  BY <1>7, <3>1
  <2>2. CASE c > bits_ChNr
    <3>1. Audio!BitsDone(c)' = Audio!BitsDone(c)  BY <1>1, <1>4, <1>5, <2>2
    <3> QED  BY <1>7, <3>1
  <2>3. CASE c = bits_ChNr
    <3>1. Audio!BitsDone(c) = BitNr /\ Audio!BitsDone(c)' = BitNr + 1  BY <1>1, <1>4, <1>5, <2>3
    <3>2. r < q \/ r > q  BY <1>9, <1>12, <2>3
    <3>3. m \in Nat /\ m < BitsPerByte /\ BitsPerByte \in Nat  BY <1>1
    <3>4. CASE r < q
      <4>1. BitNr - y >= BitsPerByte /\ (BitNr + 1) - y > BitsPerByte  BY <1>10, <3>3, <3>4
      <4>2. Clamp(BitNr - y) = BitsPerByte /\ Clamp((BitNr + 1) - y) = BitsPerByte  BY <1>1, <3>3, <4>1
      <4> QED  BY <1>7, <3>1, <4>2
    <3>5. CASE r > q
      <4>1. BitNr - y < 0 /\ (BitNr + 1) - y <= 0  BY <1>10, <3>3, <3>5
      <4>2. Clamp(BitNr - y) = 0 /\ Clamp((BitNr + 1) - y) = 0  BY <1>1, <3>3, <4>1
      <4> QED  BY <1>7, <3>1, <4>2
    <3> QED  BY <3>2, <3>4, <3>5
  <2> QED  BY <1>1, <1>2, <2>1, <2>2, <2>3
<1> QED  BY <1>3, <1>5, <1>8, <1>11, <1>12

LEMMA OutputStep ==
  ASSUME Audio!Numbers, Audio!BitsInv, BitNr \in Audio!BitNrs, NEW b \in {0, 1},
         bits_ChNr' = (bits_ChNr + 1) % NrOfChannels,
         BitNr' = IF bits_ChNr = NrOfChannels - 1 THEN BitNr + 1 ELSE BitNr,
         NEW byte, byte = (BitNr \div BitsPerByte) * NrOfChannels + bits_ChNr,
         MuxedDSD' = [MuxedDSD EXCEPT ![byte] = @ + b * Audio!TwoTo(BitsPerByte - 1 - (BitNr % BitsPerByte))]
  PROVE  /\ MuxedDSD' \in [0 .. (BitsPerCh \div BitsPerByte) * NrOfChannels - 1 -> 0 .. Audio!TwoTo(BitsPerByte) - 1]
         /\ Audio!OutputInv' /\ bits_ChNr' \in Audio!Channels /\ BitNr' \in 0 .. BitsPerCh
<1> DEFINE Bytes == 0 .. (BitsPerCh \div BitsPerByte) * NrOfChannels - 1
<1>1. /\ MuxedDSD \in [Bytes -> 0 .. Audio!TwoTo(BitsPerByte) - 1] /\ bits_ChNr \in Audio!Channels
      /\ \A k \in Bytes : MuxedDSD[k] + Audio!TwoTo(BitsPerByte - Audio!Filled(k)) <= Audio!TwoTo(BitsPerByte)
  BY DEF Audio!BitsInv, Audio!TypeOK, Audio!OutputInv
<1>2. PICK M \in Nat \ {0} : M = Audio!TwoTo(BitsPerByte) /\ BitsPerByte \in Nat \ {0}  BY OutputSizes
<1>3. \A k \in Bytes :
        /\ Audio!Filled(k) \in 0 .. BitsPerByte
        /\ k # byte => Audio!Filled(k)' = Audio!Filled(k)
        /\ k = byte => /\ Audio!Filled(k) = BitNr % BitsPerByte /\ BitNr % BitsPerByte \in 0 .. BitsPerByte - 1
                       /\ Audio!Filled(k)' = (BitNr % BitsPerByte) + 1
  BY <1>1, FilledStep
<1>4. DOMAIN MuxedDSD = Bytes /\ DOMAIN MuxedDSD' = Bytes /\ \A k \in Bytes : MuxedDSD[k] \in 0 .. M - 1
  BY <1>1, <1>2
<1>5. ASSUME NEW k \in Bytes
      PROVE  MuxedDSD'[k] \in Nat /\ MuxedDSD'[k] + Audio!TwoTo(BitsPerByte - Audio!Filled(k)') <= M
             /\ Audio!TwoTo(BitsPerByte - Audio!Filled(k)') \in Nat \ {0}
  <2>1. CASE k # byte
    <3>1. MuxedDSD'[k] = MuxedDSD[k] /\ Audio!Filled(k)' = Audio!Filled(k) /\ BitsPerByte - Audio!Filled(k) \in Nat
      BY <1>1, <1>2, <1>3, <2>1
    <3>2. Audio!TwoTo(BitsPerByte - Audio!Filled(k)) \in Nat \ {0}  BY <3>1, Powers
    <3> QED  BY <1>1, <1>2, <1>4, <3>1, <3>2
  <2>2. CASE k = byte
    <3>1. PICK m \in 0 .. BitsPerByte - 1 : m = BitNr % BitsPerByte /\ Audio!Filled(k) = m /\ Audio!Filled(k)' = m + 1
      BY <1>3, <2>2
    <3>2. /\ BitsPerByte - m \in Nat /\ BitsPerByte - (m + 1) \in Nat /\ (BitsPerByte - (m + 1)) + 1 = BitsPerByte - m
          /\ BitsPerByte - 1 - m = BitsPerByte - (m + 1)
      BY <1>2
    <3>3. PICK y \in Nat \ {0} : y = Audio!TwoTo(BitsPerByte - (m + 1)) /\ Audio!TwoTo(BitsPerByte - m) = 2 * y
      <4>1. Audio!TwoTo((BitsPerByte - (m + 1)) + 1) = 2 * Audio!TwoTo(BitsPerByte - (m + 1)) /\ Audio!TwoTo(BitsPerByte - (m + 1)) \in Nat \ {0}
        BY <3>2, Powers
      <4> QED  BY <3>2, <4>1
    <3>4. MuxedDSD'[k] = MuxedDSD[k] + b * y
      <4>1. MuxedDSD'[k] = MuxedDSD[k] + b * Audio!TwoTo(BitsPerByte - 1 - (BitNr % BitsPerByte))
        BY <1>1, <2>2
      <4> QED  BY <3>1, <3>2, <3>3, <4>1
    <3>5. PICK v \in Nat : v = MuxedDSD[k]  BY <1>4
    <3>6. v + 2 * y <= M  BY <1>1, <1>2, <3>1, <3>3, <3>5
    <3>7. PICK u \in Nat : u = b * y /\ u <= y
      <4>1. 0 * y = 0 /\ 1 * y = y  OBVIOUS
      <4> QED  BY <4>1
    <3> QED  BY <3>1, <3>3, <3>4, <3>5, <3>6, <3>7
  <2> QED  BY <2>1, <2>2
<1>6. \A k \in Bytes : MuxedDSD'[k] \in 0 .. M - 1
  <2> TAKE k \in Bytes
  <2>1. PICK y \in Nat \ {0} : y = Audio!TwoTo(BitsPerByte - Audio!Filled(k)')  BY <1>5
  <2>2. MuxedDSD'[k] \in Nat /\ MuxedDSD'[k] + y <= M  BY <1>5, <2>1
  <2> QED  BY <2>2
<1>7. MuxedDSD' \in [Bytes -> 0 .. M - 1]  BY <1>4, <1>6
<1>8. Audio!OutputInv'  BY <1>2, <1>4, <1>5 DEF Audio!OutputInv
<1>9. bits_ChNr' \in Audio!Channels /\ BitNr' \in 0 .. BitsPerCh
  <2>1. NrOfChannels \in Nat \ {0} /\ BitsPerCh \in Nat  BY NumberTypes
  <2>2. (bits_ChNr + 1) % NrOfChannels \in 0 .. NrOfChannels - 1
    <3>1. bits_ChNr + 1 \in Nat  BY <1>1, <2>1 DEF Audio!Channels
    <3> QED  BY <2>1, <3>1, Division
  <2> QED  BY <2>1, <2>2 DEF Audio!Channels, Audio!BitNrs
<1> QED  BY <1>2, <1>7, <1>8, <1>9

\* The words of a channel hold its last bits.
LEMMA WindowHolds ==
  ASSUME Audio!Numbers, Audio!WindowInv, audio_bits \in [Audio!Channels -> Seq({0, 1})], NEW c \in Audio!Channels
  PROVE  LET last == [j \in Nat |-> Audio!LastBit(c, j)]
         IN Holds(Status[c], last) /\ \A j \in Nat : last[j] \in {0, 1} /\ last[j] = Audio!LastBit(c, j)
<1> DEFINE last == [j \in Nat |-> Audio!LastBit(c, j)]
<1>1. \A w \in 0 .. NrOfWords - 1, k \in 0 .. Audio!WordBits - 1 : w * Audio!WordBits + k \in Nat
  <2> TAKE w \in 0 .. NrOfWords - 1, k \in 0 .. Audio!WordBits - 1
  <2>1. PICK x \in Nat : x = w * Audio!WordBits  BY WindowSizes
  <2>2. x + k \in Nat  BY WindowSizes
  <2> QED  BY <2>1, <2>2
<1>2. Holds(Status[c], last)  BY <1>1 DEF Audio!WindowInv, Holds
<1>3. ASSUME NEW j \in Nat PROVE Audio!LastBit(c, j) \in {0, 1}
  <2>1. PICK s \in Seq({0, 1}) : s = audio_bits[c]  OBVIOUS
  <2>2. Len(s) \in Nat /\ \A i \in 1 .. Len(s) : s[i] \in {0, 1}  BY LenProperties, ElementOfSeq
  <2>3. j < Len(s) => Len(s) - j \in 1 .. Len(s)  BY <2>2
  <2>4. (j - Len(s)) % 2 \in {0, 1}  BY <2>2
  <2>5. Audio!LastBit(c, j) = IF j < Len(s) THEN s[Len(s) - j] ELSE (j - Len(s)) % 2
    BY <2>1 DEF Audio!LastBit
  <2> QED  BY <2>2, <2>3, <2>4, <2>5
<1> QED  BY <1>2, <1>3

LEMMA NextBitKeeps ==
  ASSUME Audio!Numbers, Audio!BitsInv, Audio!NextBit
  PROVE  Audio!BitsInv'
<1>1. /\ Audio!Read /\ Audio!TypeOK /\ Audio!WindowInv /\ Audio!OutputInv /\ bits_pc = "bits" /\ UNCHANGED <<Audio!frame, bits_pc>>
      /\ bits_ChNr' = (bits_ChNr + 1) % NrOfChannels
      /\ BitNr' = IF bits_ChNr = NrOfChannels - 1 THEN BitNr + 1 ELSE BitNr
      /\ audio_bits \in [Audio!Channels -> Seq({0, 1})]
  BY DEF Audio!BitsInv, Audio!NextBit
<1>2. bits_ChNr \in Audio!Channels /\ BitNr \in Audio!BitNrs
  <2>1. BitsPerCh \in Nat  BY NumberTypes
  <2>2. BitNr < BitsPerCh  BY DEF Audio!NextBit
  <2>3. BitNr \in 0 .. BitsPerCh /\ bits_ChNr \in Audio!Channels  BY <1>1 DEF Audio!TypeOK
  <2> QED  BY <2>1, <2>2, <2>3 DEF Audio!BitNrs
<1> DEFINE f == Filter4Bit[bits_ChNr, BitNr] + 1
           predict == Audio!Predict(f, Status[bits_ChNr])
           p == Audio!Probability(predict)
           b == (Audio!Residual(p) + IF predict < 0 THEN 1 ELSE 0) % 2
           byte == (BitNr \div BitsPerByte) * NrOfChannels + bits_ChNr
<1>3. f \in DOMAIN ICoefA
  <2>1. ICoefA \in Filters \cup Ptables /\ Filter4Bit \in Maps /\ <<bits_ChNr, BitNr>> \in Audio!Channels \X Audio!BitNrs
    BY <1>1, <1>2 DEF Audio!Read
  <2>2. \A tables \in Filters \cup Ptables, map \in Maps : \A x \in Audio!Channels \X Audio!BitNrs :
          map[x] + 1 \in DOMAIN tables
    BY DEF Audio!Numbers
  <2> QED  BY <2>1, <2>2
<1>4. predict \in Int
  <2> DEFINE last == [j \in Nat |-> Audio!LastBit(bits_ChNr, j)]
  <2>1. Holds(Status[bits_ChNr], last) /\ \A j \in Nat : last[j] \in Int
    <3>1. \A x \in {0, 1} : x \in Int  OBVIOUS
    <3>2. Holds(Status[bits_ChNr], last) /\ \A j \in Nat : last[j] \in {0, 1}
      BY <1>1, <1>2, WindowHolds
    <3> HIDE DEF last
    <3> QED  BY <3>1, <3>2
  <2>2. Status[bits_ChNr] \in [0 .. NrOfWords - 1 -> 0 .. Audio!TwoTo(Audio!WordBits) - 1]
    BY <1>1, <1>2 DEF Audio!TypeOK
  <2>3. ICoefA \in Filters  BY <1>1 DEF Audio!Read
  <2> HIDE DEF last, f
  <2> QED  BY <1>3, <2>1, <2>2, <2>3, PredictIs
<1> HIDE DEF f
<1>5. p \in 1 .. Audio!AC_PROBS \div 2
  <2> HIDE DEF predict
  <2> QED  BY <1>1, <1>2, <1>4, ProbabilityIs
<1>6. b \in {0, 1}
  <2>1. Audio!Residual(p) \in {0, 1}  BY DEF Audio!Residual
  <2>2. \A x, y \in {0, 1} : (x + y) % 2 \in {0, 1}  OBVIOUS
  <2> HIDE DEF p, predict
  <2> QED  BY <2>1, <2>2
<1>7. /\ Audio!DecodeBit(p)
      /\ MuxedDSD' = [MuxedDSD EXCEPT ![byte] = @ + b * Audio!TwoTo(BitsPerByte - 1 - (BitNr % BitsPerByte))]
      /\ Status' = [Status EXCEPT ![bits_ChNr] = Audio!Shifted(@, b)]
      /\ audio_bits' = [audio_bits EXCEPT ![bits_ChNr] = Append(@, b)]
  BY DEF Audio!NextBit, f
<1> HIDE DEF b, p, predict, byte
<1>8. /\ A' \in Audio!HALF .. Audio!ONE - 1 /\ C' \in 0 .. Audio!TwoTo(UintBits) - 1
      /\ cbptr' \in Nat \ {0} /\ low' \in Nat /\ Audio!CodeInInterval'
  <2>1. bits_pc # "done" /\ UNCHANGED Audio!frame  BY <1>1
  <2> QED  BY <1>5, <1>7, <2>1, DecoderStep
<1>9. /\ Status' \in [Audio!Channels -> [0 .. NrOfWords - 1 -> 0 .. Audio!TwoTo(Audio!WordBits) - 1]]
      /\ audio_bits' \in [Audio!Channels -> Seq({0, 1})] /\ Audio!WindowInv'
  BY <1>6, <1>7, StatusStep
<1>10. /\ MuxedDSD' \in [0 .. (BitsPerCh \div BitsPerByte) * NrOfChannels - 1 -> 0 .. Audio!TwoTo(BitsPerByte) - 1]
       /\ Audio!OutputInv' /\ bits_ChNr' \in Audio!Channels /\ BitNr' \in 0 .. BitsPerCh
  BY <1>1, <1>2, <1>6, <1>7, OutputStep DEF byte
<1>11. Audio!Read'  BY <1>1 DEF Audio!Read, Audio!frame
<1>12. bits_pc' = "bits"  BY <1>1
<1>13. Audio!TypeOK'  BY <1>8, <1>9, <1>10, <1>12 DEF Audio!TypeOK
<1> QED  BY <1>8, <1>9, <1>10, <1>11, <1>12, <1>13 DEF Audio!BitsInv

\* The inductive invariant of the decoding of the bits.
THEOREM BitsInvariant ==
  ASSUME Audio!Numbers
  PROVE  Audio!Spec => []Audio!BitsInv
<1>1. Audio!Init => Audio!BitsInv  BY BitsInit
<1>2. Audio!BitsInv /\ [Audio!Next]_(Audio!vars) => Audio!BitsInv'
  <2> SUFFICES ASSUME Audio!BitsInv, [Audio!Next]_(Audio!vars) PROVE Audio!BitsInv'  OBVIOUS
  <2>1. CASE Audio!FirstBit  BY <2>1, FirstBitKeeps
  <2>2. CASE Audio!NextBit  BY <2>2, NextBitKeeps
  <2>3. CASE Audio!Flush  BY <2>3, FlushKeeps
  <2>4. CASE UNCHANGED Audio!vars
    <3>1. UNCHANGED <<Audio!frame, bits_pc, BitNr, bits_ChNr, A, C, cbptr, Status, MuxedDSD, low, audio_bits>>
      BY <2>4 DEF Audio!vars, Audio!decoder
    <3>2. Audio!Read /\ Audio!TypeOK /\ Audio!CodeInInterval /\ Audio!WindowInv /\ Audio!OutputInv
      BY DEF Audio!BitsInv
    <3>3. Audio!Read' /\ Audio!TypeOK'  BY <3>1, <3>2 DEF Audio!Read, Audio!TypeOK, Audio!frame
    <3>4. Audio!WindowInv' /\ Audio!OutputInv'  BY <3>1, <3>2, WindowStays, OutputStays
    <3>5. Audio!CodeInInterval'
      <4>1. AData' = AData  BY <3>1 DEF Audio!frame
      <4>2. Audio!Code(1, Audio!ABITS)' = Audio!Code(1, Audio!ABITS)  BY <4>1, CodeStays
      <4>3. Audio!Code(1, cbptr - 1)' = Audio!Code(1, cbptr - 1)
        <5>1. PICK k : k = cbptr - 1  OBVIOUS
        <5>2. Audio!Code(1, k)' = Audio!Code(1, k) /\ cbptr' - 1 = k
          BY <3>1, <4>1, <5>1, CodeStays
        <5> QED  BY <5>1, <5>2
      <4>4. Audio!Uint(low + C)' = Audio!Uint(low + C)  BY <3>1 DEF Audio!Uint
      <4> QED  BY <3>1, <3>2, <4>2, <4>3, <4>4 DEF Audio!CodeInInterval, Audio!AllOnes
    <3> QED  BY <3>1, <3>3, <3>4, <3>5 DEF Audio!BitsInv
  <2> QED  BY <2>1, <2>2, <2>3, <2>4 DEF Audio!Next, Audio!Stop
<1> QED  BY <1>1, <1>2, PTL DEF Audio!Spec

\* The filters see the last bits in every state of the invariant.
LEMMA FiltersSee ==
  ASSUME Audio!Numbers, Audio!BitsInv
  PROVE  Audio!FilterSeesLastBits
<1> SUFFICES ASSUME NEW c \in Audio!Channels, NEW f \in DOMAIN ICoefA
             PROVE  Audio!Predict(f, Status[c])
                      = Audio!Short(Audio!Sum(
                          [j \in 0 .. Len(ICoefA[f]) - 1 |-> (2 * Audio!LastBit(c, j) - 1) * ICoefA[f][j + 1]],
                          Len(ICoefA[f])))
  BY DEF Audio!FilterSeesLastBits
<1> DEFINE last == [j \in Nat |-> Audio!LastBit(c, j)]
           L == Len(ICoefA[f])
<1>1. Holds(Status[c], last) /\ \A j \in Nat : last[j] \in Int /\ last[j] = Audio!LastBit(c, j)
  <2>1. \A x \in {0, 1} : x \in Int  OBVIOUS
  <2>2. Audio!WindowInv /\ audio_bits \in [Audio!Channels -> Seq({0, 1})]  BY DEF Audio!BitsInv
  <2>3. Holds(Status[c], last) /\ \A j \in Nat : last[j] \in {0, 1} /\ last[j] = Audio!LastBit(c, j)
    BY <2>2, WindowHolds
  <2> HIDE DEF last
  <2> QED  BY <2>1, <2>3
<1>2. Status[c] \in [0 .. NrOfWords - 1 -> 0 .. Audio!TwoTo(Audio!WordBits) - 1] /\ ICoefA \in Filters
  BY DEF Audio!BitsInv, Audio!TypeOK, Audio!Read
<1> HIDE DEF last
<1>3. Audio!Predict(f, Status[c])
        = Audio!Short(Audio!Sum([j \in 0 .. L - 1 |-> (2 * last[j] - 1) * ICoefA[f][j + 1]], L))
  BY <1>1, <1>2, PredictIs
<1>4. [j \in 0 .. L - 1 |-> (2 * last[j] - 1) * ICoefA[f][j + 1]]
      = [j \in 0 .. L - 1 |-> (2 * Audio!LastBit(c, j) - 1) * ICoefA[f][j + 1]]
  <2>1. \A j \in 0 .. L - 1 : last[j] = Audio!LastBit(c, j)
    <3>1. L \in Nat
      <4>1. ICoefA \in Seq(Seq(Int))  BY <1>2 DEF Audio!Numbers
      <4>2. ICoefA[f] \in Seq(Int)  BY <4>1, ElementOfSeq
      <4> QED  BY <4>2, LenProperties
    <3>2. \A j \in 0 .. L - 1 : j \in Nat  BY <3>1
    <3> QED  BY <1>1, <3>2
  <2> QED  BY <2>1
<1> QED  BY <1>3, <1>4

\* The interval of the arithmetic decoder and the sums of the filters, for every
\* width of the numbers, every code and all filters and tables.
THEOREM BitsProperties ==
  ASSUME Audio!Numbers
  PROVE  Audio!Spec => [](Audio!CodeInInterval /\ Audio!FilterSeesLastBits)
<1>1. Audio!BitsInv => Audio!CodeInInterval /\ Audio!FilterSeesLastBits
  BY FiltersSee DEF Audio!BitsInv
<1> QED  BY <1>1, BitsInvariant, PTL

-----------------------------------------------------------------------------
(* The bit reader (DstData) *)

\* The powers and bits that the bit reader computes are the same ones.
LEMMA SamePowers ==
  /\ \A n : Data!TwoTo(n) = Audio!TwoTo(n)
  /\ \A n, k : Data!Bit(n, k) = Audio!Bit(n, k)
<1>1. \A n : Data!TwoTo(n) = Audio!TwoTo(n)  BY DEF Data!TwoTo, Audio!TwoTo
<1>2. \A n, k : Data!Bit(n, k) = Audio!Bit(n, k)  BY <1>1 DEF Data!Bit, Audio!Bit
<1> QED  BY <1>1, <1>2

LEMMA DataPowers ==
  /\ Data!TwoTo(0) = 1
  /\ \A n \in Nat : Data!TwoTo(n) \in Nat \ {0} /\ Data!TwoTo(n + 1) = 2 * Data!TwoTo(n)
<1> DEFINE P(n) == Data!TwoTo(n)
           Q(n) == Audio!TwoTo(n)
<1>1. \A n : P(n) = Q(n)  BY SamePowers
<1>2. Q(0) = 1 /\ \A n \in Nat : Q(n) \in Nat \ {0} /\ Q(n + 1) = 2 * Q(n)  BY Powers
<1> HIDE DEF P, Q
<1>3. P(0) = 1 /\ \A n \in Nat : P(n) \in Nat \ {0} /\ P(n + 1) = 2 * P(n)  BY <1>1, <1>2
<1> QED  BY <1>3 DEF P

LEMMA DataBitIsBit ==
  ASSUME NEW n \in Nat, NEW k \in Nat
  PROVE  Data!Bit(n, k) \in {0, 1}
BY SamePowers, BitIsBit

LEMMA DataBitOfRemainder ==
  ASSUME NEW n \in Nat, NEW w \in Nat, NEW k \in 0 .. w - 1
  PROVE  Data!Bit(n % Data!TwoTo(w), k) = Data!Bit(n, k)
<1>1. Data!TwoTo(w) = Audio!TwoTo(w)  BY SamePowers
<1>2. Data!Bit(n % Audio!TwoTo(w), k) = Audio!Bit(n % Audio!TwoTo(w), k)
      /\ Data!Bit(n, k) = Audio!Bit(n, k)
  BY SamePowers
<1>3. Audio!Bit(n % Audio!TwoTo(w), k) = Audio!Bit(n, k)  BY BitOfRemainder
<1> QED  BY <1>1, <1>2, <1>3

-----------------------------------------------------------------------------
(* The bits of the buffer and the numbers that they are *)

\* The buffer holds bytes, and k .. k + n - 1 are places of bits in it.
BufferOK == pDSTdata \in Seq(0 .. 255) /\ TotalBytes = Len(pDSTdata)
Inside(k, n) == k + n <= TotalBytes * Data!RESOL

LEMMA BufferTypes ==
  ASSUME BufferOK
  PROVE  /\ TotalBytes \in Nat /\ TotalBytes * Data!RESOL \in Nat /\ Data!RESOL = 8
         /\ \A c \in 1 .. TotalBytes : pDSTdata[c] \in Nat /\ pDSTdata[c] <= 255
<1>1. Len(pDSTdata) \in Nat /\ \A c \in 1 .. Len(pDSTdata) : pDSTdata[c] \in 0 .. 255
  BY LenProperties, ElementOfSeq DEF BufferOK
<1>2. \A x \in 0 .. 255 : x \in Nat /\ x <= 255  OBVIOUS
<1>3. TotalBytes = Len(pDSTdata)  BY DEF BufferOK
<1>4. TotalBytes \in Nat  BY <1>1, <1>3
<1>5. \A c \in 1 .. TotalBytes : pDSTdata[c] \in Nat /\ pDSTdata[c] <= 255  BY <1>1, <1>2, <1>3
<1>6. Data!RESOL = 8  BY DEF Data!RESOL
<1>7. TotalBytes * 8 \in Nat  BY <1>4
<1> QED  BY <1>4, <1>5, <1>6, <1>7

\* Where a bit is.
LEMMA StreamBitIs ==
  ASSUME BufferOK, NEW c \in 1 .. TotalBytes, NEW i \in 0 .. 7
  PROVE  Data!StreamBit(8 * (c - 1) + i) = Data!Bit(pDSTdata[c], 7 - i)
<1>1. c - 1 \in Nat /\ (c - 1) + 1 = c  BY BufferTypes
<1>2. (8 * (c - 1) + i) \div 8 = c - 1 /\ (8 * (c - 1) + i) % 8 = i  BY <1>1
<1> QED  BY <1>1, <1>2 DEF Data!StreamBit, Data!RESOL

LEMMA BitPlace ==
  ASSUME BufferOK, NEW k \in Nat, Inside(k, 1)
  PROVE  \E c \in 1 .. TotalBytes, i \in 0 .. 7 : k = 8 * (c - 1) + i
<1>1. TotalBytes \in Nat /\ k + 1 <= 8 * TotalBytes  BY BufferTypes DEF Inside
<1>2. PICK q \in Nat, i \in 0 .. 7 : k = 8 * q + i
  <2>1. k \div 8 \in Nat /\ k % 8 \in 0 .. 7 /\ k = 8 * (k \div 8) + (k % 8)  OBVIOUS
  <2> QED  BY <2>1
<1>3. q + 1 \in 1 .. TotalBytes /\ (q + 1) - 1 = q  BY <1>1, <1>2
<1> QED  BY <1>2, <1>3

LEMMA StreamBitIsBit ==
  ASSUME BufferOK, NEW k \in Nat, Inside(k, 1)
  PROVE  Data!StreamBit(k) \in {0, 1}
<1>1. PICK c \in 1 .. TotalBytes, i \in 0 .. 7 : k = 8 * (c - 1) + i  BY BitPlace
<1>2. Data!StreamBit(k) = Data!Bit(pDSTdata[c], 7 - i)  BY <1>1, StreamBitIs
<1>3. pDSTdata[c] \in Nat /\ 7 - i \in Nat  BY BufferTypes
<1> QED  BY <1>2, <1>3, DataBitIsBit

\* What Number computes step by step.
IsNumber(b, k, n) == /\ b \in [0 .. n -> Nat] /\ b[0] = 0
                     /\ \A i \in 1 .. n : b[i] = 2 * b[i - 1] + Data!StreamBit(k + i - 1)

LEMMA NumberSteps ==
  ASSUME BufferOK, NEW k \in Nat, NEW n \in Nat, Inside(k, n)
  PROVE  \E b : IsNumber(b, k, n) /\ Data!Number(k, n) = b[n]
<1> DEFINE next == [i \in 1..n |-> [v \in Nat |-> 2 * v + Data!StreamBit(k + i - 1)]]
           Is(b) == b = [i \in 0 .. n |-> IF i = 0 THEN 0 ELSE 2 * b[i - 1] + Data!StreamBit(k + i - 1)]
<1>0. \A i \in 1..n, v \in Nat : 2 * v + Data!StreamBit(k + i - 1) \in Nat
  <2> TAKE i \in 1..n, v \in Nat
  <2>1. k + i - 1 \in Nat /\ Inside(k + i - 1, 1)  BY BufferTypes DEF Inside
  <2>2. Data!StreamBit(k + i - 1) \in {0, 1}  BY <2>1, StreamBitIsBit
  <2> QED  BY <2>2
<1>1. Steps(next, n, Nat)  BY <1>0 DEF Steps
<1>2. PICK g : Solves(g, n, Nat, 0, next)
  <2> HIDE DEF next
  <2> QED  BY <1>1, Recursion
<1>3. Is(g)
  <2>1. \A i \in 1..n : i - 1 \in 0..n /\ g[i - 1] \in Nat  BY <1>2 DEF Solves
  <2>2. \A i \in 1..n, v \in Nat : next[i][v] = 2 * v + Data!StreamBit(k + i - 1)  OBVIOUS
  <2> HIDE DEF next
  <2>3. \A i \in 1..n : g[i] = 2 * g[i - 1] + Data!StreamBit(k + i - 1)
    BY <1>2, <2>1, <2>2 DEF Solves
  <2>4. g = [i \in 0..n |-> g[i]] /\ g[0] = 0  BY <1>2 DEF Solves
  <2>5. \A i \in 0..n : g[i] = IF i = 0 THEN 0 ELSE 2 * g[i - 1] + Data!StreamBit(k + i - 1)
    <3> TAKE i \in 0..n
    <3>1. i = 0 \/ i \in 1..n  OBVIOUS
    <3> QED  BY <2>3, <2>4, <3>1
  <2> QED  BY <2>4, <2>5
<1> DEFINE b == CHOOSE h : Is(h)
<1>4. Is(b)  BY <1>3
<1>5. Data!Number(k, n) = b[n]  BY DEF Data!Number
<1> HIDE DEF b
<1>6. b[0] = 0 /\ \A i \in 1..n : b[i] = 2 * b[i - 1] + Data!StreamBit(k + i - 1)
  <2>1. \A i \in 0..n : b[i] = IF i = 0 THEN 0 ELSE 2 * b[i - 1] + Data!StreamBit(k + i - 1)
    BY <1>4
  <2>2. 0 \in 0..n /\ \A i \in 1..n : i \in 0..n /\ i # 0  OBVIOUS
  <2> QED  BY <2>1, <2>2
<1>7. DOMAIN b = 0..n /\ b = [i \in 0..n |-> b[i]]  BY <1>4
<1> HIDE DEF Is, next
<1>8. \A i \in 0..n : b[i] \in Nat
  <2> DEFINE T == {i \in 0..n : b[i] \in Nat}
  <2>1. 0 \in T  BY <1>6
  <2>2. ASSUME NEW i \in 1..n, i - 1 \in T PROVE i \in T
    BY <1>0, <1>6, <2>2
  <2> HIDE DEF T
  <2>3. 0..n \subseteq T  BY <2>1, <2>2, Induction
  <2> QED  BY <2>3 DEF T
<1>9. IsNumber(b, k, n)  BY <1>6, <1>7, <1>8 DEF IsNumber
<1> QED  BY <1>5, <1>9

\* No bits, and one more.
LEMMA NumberOne ==
  ASSUME BufferOK, NEW k \in Nat, NEW n \in Nat, Inside(k, n)
  PROVE  /\ Data!Number(k, 0) = 0 /\ Data!Number(k, n) \in Nat
         /\ Inside(k, n + 1) => Data!Number(k, n + 1) = 2 * Data!Number(k, n) + Data!StreamBit(k + n)
<1>1. Data!Number(k, 0) = 0
  <2>1. Inside(k, 0) /\ 0 \in Nat  BY BufferTypes DEF Inside
  <2>2. PICK b : IsNumber(b, k, 0) /\ Data!Number(k, 0) = b[0]  BY <2>1, NumberSteps
  <2> QED  BY <2>2 DEF IsNumber
<1>2. PICK b : IsNumber(b, k, n) /\ Data!Number(k, n) = b[n]  BY NumberSteps
<1>3. Data!Number(k, n) \in Nat  BY <1>2 DEF IsNumber
<1>4. ASSUME Inside(k, n + 1) PROVE Data!Number(k, n + 1) = 2 * Data!Number(k, n) + Data!StreamBit(k + n)
  <2>1. PICK c : IsNumber(c, k, n + 1) /\ Data!Number(k, n + 1) = c[n + 1]
    <3>1. n + 1 \in Nat  OBVIOUS
    <3> QED  BY <1>4, <3>1, NumberSteps
  <2> DEFINE T == {i \in 0..n : b[i] = c[i]}
  <2>2. 0 \in T  BY <1>2, <2>1 DEF IsNumber
  <2>3. ASSUME NEW i \in 1..n, i - 1 \in T PROVE i \in T
    <3>1. i \in 1..n + 1 /\ i \in 0..n  OBVIOUS
    <3> QED  BY <1>2, <2>1, <2>3, <3>1 DEF IsNumber
  <2> HIDE DEF T
  <2>4. 0..n \subseteq T  BY <2>2, <2>3, Induction
  <2>5. b[n] = c[n]  BY <2>4 DEF T
  <2>6. n + 1 \in 1..n + 1 /\ (n + 1) - 1 = n /\ k + (n + 1) - 1 = k + n  OBVIOUS
  <2>7. c[n + 1] = 2 * c[n] + Data!StreamBit(k + n)  BY <2>1, <2>6 DEF IsNumber
  <2> QED  BY <1>2, <2>1, <2>5, <2>7
<1> QED  BY <1>1, <1>3, <1>4

LEMMA NumberFits ==
  ASSUME BufferOK, NEW k \in Nat, NEW n \in Nat, Inside(k, n)
  PROVE  Data!Number(k, n) \in 0 .. Data!TwoTo(n) - 1
<1> DEFINE T == {i \in 0..n : Data!Number(k, i) \in 0 .. Data!TwoTo(i) - 1}
<1>1. 0 \in T
  <2>1. Data!Number(k, 0) = 0 /\ Data!TwoTo(0) = 1  BY NumberOne, DataPowers
  <2> QED  BY <2>1
<1>2. ASSUME NEW i \in 1..n, i - 1 \in T PROVE i \in T
  <2>1. /\ i - 1 \in Nat /\ (i - 1) + 1 = i /\ i \in 0..n /\ k + (i - 1) \in Nat
        /\ Inside(k, i - 1) /\ Inside(k, i) /\ Inside(k + (i - 1), 1)
    BY BufferTypes DEF Inside
  <2>2. PICK M \in Nat \ {0} : M = Data!TwoTo(i - 1) /\ Data!TwoTo(i) = 2 * M
    <3>1. Data!TwoTo((i - 1) + 1) = 2 * Data!TwoTo(i - 1) /\ Data!TwoTo(i - 1) \in Nat \ {0}
      BY <2>1, DataPowers
    <3> QED  BY <2>1, <3>1
  <2>3. Data!Number(k, (i - 1) + 1) = 2 * Data!Number(k, i - 1) + Data!StreamBit(k + (i - 1))
    BY <2>1, NumberOne
  <2>4. Data!StreamBit(k + (i - 1)) \in {0, 1}  BY <2>1, StreamBitIsBit
  <2>5. PICK x \in 0 .. M - 1 : x = Data!Number(k, i - 1)  BY <1>2, <2>2
  <2> QED  BY <2>1, <2>2, <2>3, <2>4, <2>5
<1> HIDE DEF T
<1>3. 0..n \subseteq T  BY <1>1, <1>2, Induction
<1>4. n \in 0..n  OBVIOUS
<1> QED  BY <1>3, <1>4 DEF T

\* Bits that follow: the number of the first ones is shifted.
LEMMA NumberOfMore ==
  ASSUME BufferOK, NEW k \in Nat, NEW m \in Nat, NEW n \in Nat, Inside(k, m + n)
  PROVE  Data!Number(k, m + n) = Data!Number(k, m) * Data!TwoTo(n) + Data!Number(k + m, n)
<1> DEFINE P(i) == Data!Number(k, m + i) = Data!Number(k, m) * Data!TwoTo(i) + Data!Number(k + m, i)
           T == {i \in 0..n : P(i)}
<1>0. \A i \in 0..n : /\ m + i \in Nat /\ k + m \in Nat /\ (k + m) + i \in Nat
                     /\ Inside(k, m + i) /\ Inside(k + m, i)
  BY BufferTypes DEF Inside
<1>1. PICK x \in Nat : x = Data!Number(k, m)
  <2>1. 0 \in 0..n /\ m + 0 = m  OBVIOUS
  <2>2. Inside(k, m)  BY <1>0, <2>1
  <2> QED  BY <2>2, NumberOne
<1>2. 0 \in T
  <2>1. 0 \in 0..n /\ 0 \in Nat /\ m + 0 = m /\ k + m \in Nat  OBVIOUS
  <2>2. Data!Number(k + m, 0) = 0 /\ Data!TwoTo(0) = 1  BY <1>0, <2>1, NumberOne, DataPowers
  <2>3. x * 1 + 0 = x  OBVIOUS
  <2> QED  BY <1>1, <2>1, <2>2, <2>3
<1>3. ASSUME NEW i \in 1..n, i - 1 \in T PROVE i \in T
  <2>1. /\ i - 1 \in Nat /\ i - 1 \in 0..n /\ i \in 0..n /\ (i - 1) + 1 = i
        /\ (m + (i - 1)) + 1 = m + i /\ k + (m + (i - 1)) = (k + m) + (i - 1)
    OBVIOUS
  <2>2. Inside(k, (m + (i - 1)) + 1) /\ Inside(k + m, (i - 1) + 1) /\ Inside((k + m) + (i - 1), 1)
    <3>1. Inside(k, m + i) /\ Inside(k + m, i)  BY <1>0, <2>1
    <3>2. Inside((k + m) + (i - 1), 1)  BY <3>1, BufferTypes DEF Inside
    <3> QED  BY <2>1, <3>1, <3>2
  <2>3. PICK b \in {0, 1} : b = Data!StreamBit((k + m) + (i - 1))
    BY <1>0, <2>1, <2>2, StreamBitIsBit
  <2>4. PICK t \in Nat : t = Data!TwoTo(i - 1) /\ Data!TwoTo(i) = 2 * t
    <3>1. Data!TwoTo((i - 1) + 1) = 2 * Data!TwoTo(i - 1) /\ Data!TwoTo(i - 1) \in Nat
      BY <2>1, DataPowers
    <3> QED  BY <2>1, <3>1
  <2>5. PICK y \in Nat : y = Data!Number(k + m, i - 1) /\ Data!Number(k + m, i) = 2 * y + b
    <3>1. Data!Number(k + m, (i - 1) + 1) = 2 * Data!Number(k + m, i - 1) + Data!StreamBit((k + m) + (i - 1))
      BY <1>0, <2>1, <2>2, NumberOne
    <3>2. Data!Number(k + m, i - 1) \in Nat  BY <1>0, <2>1, NumberOne
    <3> QED  BY <2>1, <2>3, <3>1, <3>2
  <2>6. Data!Number(k, m + i) = 2 * Data!Number(k, m + (i - 1)) + b
    <3>1. Data!Number(k, (m + (i - 1)) + 1) = 2 * Data!Number(k, m + (i - 1)) + Data!StreamBit(k + (m + (i - 1)))
      BY <1>0, <2>1, <2>2, NumberOne
    <3> QED  BY <2>1, <2>3, <3>1
  <2>7. Data!Number(k, m + (i - 1)) = x * t + y  BY <1>1, <1>3, <2>4, <2>5
  <2>8. 2 * (x * t + y) + b = x * (2 * t) + (2 * y + b)
    <3>1. x * (2 * t) = 2 * (x * t) /\ x * t \in Nat  OBVIOUS
    <3> QED  BY <3>1
  <2> QED  BY <1>1, <2>1, <2>4, <2>5, <2>6, <2>7, <2>8
<1> HIDE DEF T
<1>4. 0..n \subseteq T  BY <1>2, <1>3, Induction
<1>5. n \in 0..n  OBVIOUS
<1> QED  BY <1>4, <1>5 DEF T

\* The bits of a number are those it was read from.
LEMMA BitOfNumber ==
  ASSUME BufferOK, NEW k \in Nat, NEW n \in Nat, Inside(k, n), NEW j \in 1 .. n
  PROVE  Data!Bit(Data!Number(k, n), n - j) = Data!StreamBit(k + j - 1)
<1>1. /\ n - j \in Nat /\ j \in Nat /\ j + (n - j) = n /\ j - 1 \in Nat /\ (j - 1) + 1 = j
      /\ k + j \in Nat /\ k + (j - 1) \in Nat /\ k + (j - 1) = k + j - 1
      /\ Inside(k + j, n - j) /\ Inside(k, j) /\ Inside(k, j - 1) /\ Inside(k + (j - 1), 1)
  BY BufferTypes DEF Inside
<1>2. Data!Number(k, j + (n - j)) = Data!Number(k, j) * Data!TwoTo(n - j) + Data!Number(k + j, n - j)
  BY <1>1, NumberOfMore
<1>3. PICK M \in Nat \ {0} : M = Data!TwoTo(n - j)  BY <1>1, DataPowers
<1>4. PICK r \in 0 .. M - 1 : r = Data!Number(k + j, n - j)  BY <1>1, <1>3, NumberFits
<1>5. PICK q \in Nat : q = Data!Number(k, j - 1)  BY <1>1, NumberOne
<1>6. PICK b \in {0, 1} : b = Data!StreamBit(k + j - 1) /\ Data!Number(k, j) = 2 * q + b
  <2>1. Data!Number(k, (j - 1) + 1) = 2 * Data!Number(k, j - 1) + Data!StreamBit(k + (j - 1))
    BY <1>1, NumberOne
  <2>2. Data!StreamBit(k + (j - 1)) \in {0, 1}  BY <1>1, StreamBitIsBit
  <2> QED  BY <1>1, <1>5, <2>1, <2>2
<1>7. 2 * q + b \in Nat /\ (2 * q + b) % 2 = b  OBVIOUS
<1>8. (2 * q + b) * M = M * (2 * q + b)
  <2>1. PICK z \in Nat : z = 2 * q + b  BY <1>7
  <2>2. z * M = M * z  OBVIOUS
  <2> QED  BY <2>1, <2>2
<1>9. (M * (2 * q + b) + r) \div M = 2 * q + b  BY <1>7, DivisionIs
<1>10. Data!Number(k, n) = M * (2 * q + b) + r  BY <1>1, <1>2, <1>3, <1>4, <1>6, <1>8
<1> QED  BY <1>3, <1>6, <1>7, <1>9, <1>10 DEF Data!Bit

-----------------------------------------------------------------------------
(* What the loop reads *)

\* The first bits of what is left of a byte.
LEMMA ByteBits ==
  ASSUME BufferOK, NEW c \in 1 .. TotalBytes, NEW pos \in 1 .. 8, NEW n \in 0 .. pos
  PROVE  Data!BitsOf(pDSTdata[c], pos, n) = Data!Number(8 * c - pos, n)
<1> DEFINE k == 8 * c - pos
           T == {i \in 0..n : Data!BitsOf(pDSTdata[c], pos, i) = Data!Number(k, i)}
<1>1. TotalBytes \in Nat /\ c \in Nat /\ pos \in Nat /\ n \in Nat /\ k \in Nat /\ Data!RESOL = 8
  BY BufferTypes
<1>2. PICK b \in Nat : b = pDSTdata[c]  BY BufferTypes
<1>3. \A i \in 0..n : Inside(k, i)  BY <1>1 DEF Inside
<1>4. 0 \in T
  <2>1. Data!Number(k, 0) = 0  BY <1>1, <1>3, NumberOne
  <2>2. Data!TwoTo(0) = 1 /\ pos - 0 = pos  BY DataPowers
  <2>3. PICK x \in Nat : x = b \div Data!TwoTo(pos)  BY <1>1, DataPowers, Division
  <2>4. x % 1 = 0  OBVIOUS
  <2> QED  BY <1>1, <1>2, <2>1, <2>2, <2>3, <2>4 DEF Data!BitsOf
<1> HIDE DEF k
<1>5. ASSUME NEW i \in 1..n, i - 1 \in T PROVE i \in T
  <2>1. PICK j \in Nat : /\ j = i - 1 /\ i = j + 1 /\ j \in 0..n /\ i \in 0..n /\ pos - i \in Nat
                         /\ pos - j = (pos - i) + 1
    BY <1>1
  <2>2. PICK M \in Nat \ {0} : M = Data!TwoTo(pos - i) /\ Data!TwoTo(pos - j) = 2 * M
    <3>1. Data!TwoTo((pos - i) + 1) = 2 * Data!TwoTo(pos - i) /\ Data!TwoTo(pos - i) \in Nat \ {0}
      BY <2>1, DataPowers
    <3> QED  BY <2>1, <3>1
  <2>3. PICK P \in Nat \ {0} : P = Data!TwoTo(j) /\ Data!TwoTo(i) = 2 * P
    <3>1. Data!TwoTo(j + 1) = 2 * Data!TwoTo(j) /\ Data!TwoTo(j) \in Nat \ {0}  BY DataPowers
    <3> QED  BY <2>1, <3>1
  <2>4. PICK y \in Nat, r \in 0 .. M - 1 : y = b \div M /\ b = M * y + r  BY Division
  <2>5. PICK x \in Nat, d \in {0, 1} : y = 2 * x + d /\ d = y % 2
    <3>1. y \div 2 \in Nat /\ y % 2 \in {0, 1} /\ y = 2 * (y \div 2) + (y % 2)  OBVIOUS
    <3> QED  BY <3>1
  <2>6. b \div (2 * M) = x
    <3>1. b = (2 * M) * x + (M * d + r)
      <4>1. M * (2 * x + d) = M * (2 * x) + M * d /\ M * (2 * x) = (2 * M) * x  OBVIOUS
      <4>2. M * (2 * x) \in Nat /\ M * d \in Nat  OBVIOUS
      <4> QED  BY <2>4, <2>5, <4>1, <4>2
    <3>2. M * d + r \in 0 .. 2 * M - 1 /\ 2 * M \in Nat \ {0}
      <4>1. M * 0 = 0 /\ M * 1 = M  OBVIOUS
      <4> QED  BY <4>1
    <3>3. ((2 * M) * x + (M * d + r)) \div (2 * M) = x  BY <3>2, DivisionIs
    <3> QED  BY <3>1, <3>3
  <2>7. PICK a \in Nat, s \in 0 .. P - 1 : s = x % P /\ x = P * a + s  BY Division
  <2>8. y % (2 * P) = 2 * s + d
    <3>1. y = (2 * P) * a + (2 * s + d)
      <4>1. (2 * P) * a = 2 * (P * a) /\ P * a \in Nat  OBVIOUS
      <4> QED  BY <2>5, <2>7, <4>1
    <3>2. 2 * s + d \in 0 .. 2 * P - 1 /\ 2 * P \in Nat \ {0}  OBVIOUS
    <3>3. ((2 * P) * a + (2 * s + d)) % (2 * P) = 2 * s + d  BY <3>2, DivisionIs
    <3> QED  BY <3>1, <3>3
  <2>9. Data!BitsOf(pDSTdata[c], pos, j) = s  BY <1>2, <2>2, <2>3, <2>6, <2>7 DEF Data!BitsOf
  <2>10. Data!BitsOf(pDSTdata[c], pos, i) = 2 * s + d
    BY <1>2, <2>2, <2>3, <2>4, <2>8 DEF Data!BitsOf
  <2>11. Data!StreamBit(k + j) = d
    <3>1. PICK m \in 0 .. 7 : m = 8 - pos + j /\ 7 - m = pos - i /\ k + j = 8 * (c - 1) + m
      BY <1>1, <2>1 DEF k
    <3>2. Data!StreamBit(8 * (c - 1) + m) = Data!Bit(pDSTdata[c], 7 - m)  BY StreamBitIs
    <3>3. Data!Bit(b, pos - i) = d  BY <2>2, <2>4, <2>5 DEF Data!Bit
    <3> QED  BY <1>2, <3>1, <3>2, <3>3
  <2>12. Data!Number(k, j + 1) = 2 * Data!Number(k, j) + Data!StreamBit(k + j)
    BY <1>1, <1>3, <2>1, NumberOne
  <2>13. Data!Number(k, j) = s  BY <1>5, <2>1, <2>9
  <2> QED  BY <2>1, <2>10, <2>11, <2>12, <2>13
<1> HIDE DEF T
<1>6. 0..n \subseteq T  BY <1>1, <1>4, <1>5, Induction
<1>7. n \in 0..n  BY <1>1
<1> QED  BY <1>6, <1>7 DEF T, k

\* The states of the loop: at bit k of the buffer, or past its end.
AnyByte == Data!NotAByte .. 255
Readers == [left : Nat, counter : Nat, pos : 0 .. 7, byte : AnyByte, number : Nat, eof : BOOLEAN]
At(t, k) == /\ t \in Readers /\ ~t.eof /\ t.counter <= TotalBytes /\ k = 8 * t.counter - t.pos
            /\ t.pos > 0 => t.counter > 0 /\ t.byte = pDSTdata[t.counter]
Lost(t, c) == t \in Readers /\ t.eof /\ t.pos = 0 /\ t.counter = c /\ t.left > 0

LEMMA Places ==
  ASSUME BufferOK, NEW t, NEW k, At(t, k)
  PROVE  /\ k \in Nat /\ k <= TotalBytes * Data!RESOL
         /\ k = TotalBytes * Data!RESOL <=> t.counter = TotalBytes /\ t.pos = 0
<1>1. TotalBytes \in Nat /\ Data!RESOL = 8  BY BufferTypes
<1>2. t.counter \in Nat /\ t.pos \in 0 .. 7 /\ t.counter <= TotalBytes /\ k = 8 * t.counter - t.pos
      /\ (t.pos > 0 => t.counter > 0)
  BY DEF At, Readers
<1> QED  BY <1>1, <1>2

LEMMA TakeStep ==
  ASSUME BufferOK, NEW t, NEW k, At(t, k), t.left > 0
  PROVE  \/ \E n \in 1 .. t.left :
              /\ At(Data!Take(t), k + n) /\ Data!Take(t).left = t.left - n /\ Inside(k, n)
              /\ Data!Take(t).number = t.number * Data!TwoTo(n) + Data!Number(k, n)
         \/ k = TotalBytes * Data!RESOL /\ Lost(Data!Take(t), TotalBytes + 1)
<1>1. TotalBytes \in Nat /\ Data!RESOL = 8  BY BufferTypes
<1>2. /\ t \in Readers /\ t.left \in Nat \ {0} /\ t.counter \in Nat /\ t.pos \in 0 .. 7 /\ t.byte \in AnyByte
      /\ t.number \in Nat /\ ~t.eof /\ t.counter <= TotalBytes /\ k = 8 * t.counter - t.pos
      /\ (t.pos > 0 => t.counter > 0 /\ t.byte = pDSTdata[t.counter])
  BY DEF At, Readers
<1> DEFINE counter == Data!AtByte(t.counter, t.pos)
           byte == IF t.pos = 0 THEN Data!ByteAt(t.counter) ELSE t.byte
           pos == IF t.pos = 0 THEN Data!RESOL ELSE t.pos
           n == Data!Least(pos, t.left)
<1>3. CASE counter > TotalBytes
  <2>1. t.pos = 0 /\ t.counter = TotalBytes /\ counter = TotalBytes + 1
    BY <1>1, <1>2, <1>3 DEF Data!AtByte
  <2>2. Data!Take(t) = [t EXCEPT !.counter = counter, !.byte = byte, !.eof = TRUE]
    BY <1>3 DEF Data!Take
  <2>3. byte \in AnyByte  BY <1>1, <2>1 DEF Data!ByteAt, Data!NotAByte, AnyByte
  <2>4. counter \in Nat  BY <1>1, <2>1
  <2> HIDE DEF counter, byte
  <2>5. Data!Take(t) \in Readers /\ Data!Take(t).eof /\ Data!Take(t).pos = t.pos /\ Data!Take(t).counter = counter
        /\ Data!Take(t).left = t.left
    BY <1>2, <2>2, <2>3, <2>4 DEF Readers
  <2>6. Lost(Data!Take(t), TotalBytes + 1)  BY <1>2, <2>1, <2>5 DEF Lost
  <2>7. k = TotalBytes * Data!RESOL  BY <1>1, <1>2, <2>1
  <2> QED  BY <2>6, <2>7
<1>4. CASE ~(counter > TotalBytes)
  <2>1. /\ counter \in 1 .. TotalBytes /\ pos \in 1 .. 8 /\ byte = pDSTdata[counter]
        /\ k = 8 * counter - pos
    <3>1. CASE t.pos = 0
      <4>1. counter = t.counter + 1 /\ t.counter < TotalBytes
        BY <1>1, <1>2, <1>4, <3>1 DEF Data!AtByte
      <4>2. byte = pDSTdata[t.counter + 1]  BY <3>1, <4>1 DEF Data!ByteAt
      <4> QED  BY <1>1, <1>2, <3>1, <4>1, <4>2
    <3>2. CASE t.pos # 0
      <4>1. counter = t.counter  BY <3>2 DEF Data!AtByte
      <4> QED  BY <1>1, <1>2, <3>2, <4>1
    <3> QED  BY <3>1, <3>2
  <2>2. Data!Take(t) = [left |-> t.left - n, counter |-> counter, pos |-> pos - n, byte |-> byte,
                   number |-> t.number * Data!TwoTo(n) + Data!BitsOf(byte, pos, n), eof |-> FALSE]
    BY <1>4 DEF Data!Take
  <2> HIDE DEF counter, byte, pos
  <2>3. n \in 1 .. t.left /\ n \in 0 .. pos /\ n <= pos /\ n \in Nat
    BY <1>2, <2>1 DEF Data!Least
  <2> HIDE DEF n
  <2>4. Data!BitsOf(byte, pos, n) = Data!Number(k, n)
    <3>1. Data!BitsOf(pDSTdata[counter], pos, n) = Data!Number(8 * counter - pos, n)
      BY <2>1, <2>3, ByteBits
    <3> QED  BY <2>1, <3>1
  <2>5. k \in Nat /\ Inside(k, n)
    <3>1. k \in Nat  BY Places
    <3>2. k + n <= TotalBytes * 8  BY <1>1, <2>1, <2>3
    <3> QED  BY <1>1, <3>1, <3>2 DEF Inside
  <2>6. t.number * Data!TwoTo(n) + Data!Number(k, n) \in Nat
    <3>1. Data!TwoTo(n) \in Nat /\ Data!Number(k, n) \in Nat
      BY <2>3, <2>5, DataPowers, NumberOne
    <3>2. \A x, y, z \in Nat : x * y + z \in Nat  OBVIOUS
    <3> QED  BY <1>2, <3>1, <3>2
  <2>7. pDSTdata[counter] \in Nat /\ pDSTdata[counter] <= 255  BY <2>1, BufferTypes
  <2>8. t.left - n \in Nat /\ counter \in Nat /\ pos - n \in 0 .. 7 /\ byte \in AnyByte
    BY <1>1, <1>2, <2>1, <2>3, <2>7 DEF Data!NotAByte, AnyByte
  <2>9. Data!Take(t) \in Readers  BY <2>2, <2>4, <2>6, <2>8 DEF Readers
  <2>10. k + n = 8 * counter - (pos - n)  BY <1>1, <2>1, <2>3
  <2>11. At(Data!Take(t), k + n)  BY <1>1, <2>1, <2>2, <2>9, <2>10 DEF At
  <2>12. Data!Take(t).left = t.left - n /\ Data!Take(t).number = t.number * Data!TwoTo(n) + Data!Number(k, n)
    BY <2>2, <2>4
  <2> QED  BY <2>3, <2>5, <2>11, <2>12
<1> QED  BY <1>3, <1>4

\* A reader past the end of the buffer.
Astray(t) == t \in Readers /\ t.counter > TotalBytes /\ t.pos = 0
Placed == {t \in Readers : (\E k \in Nat : At(t, k)) \/ Astray(t)}

LEMMA TakeAstray ==
  ASSUME BufferOK, NEW t, Astray(t), t.left > 0
  PROVE  Lost(Data!Take(t), t.counter + 1) /\ Astray(Data!Take(t))
<1>1. TotalBytes \in Nat  BY BufferTypes
<1>2. t \in Readers /\ t.counter \in Nat /\ t.pos = 0 /\ t.left \in Nat /\ t.counter > TotalBytes
  BY DEF Astray, Readers
<1>3. Data!AtByte(t.counter, t.pos) = t.counter + 1 /\ Data!ByteAt(t.counter) = Data!NotAByte
      /\ t.counter + 1 > TotalBytes
  BY <1>1, <1>2 DEF Data!AtByte, Data!ByteAt
<1>4. Data!Take(t) = [t EXCEPT !.counter = t.counter + 1, !.byte = Data!NotAByte, !.eof = TRUE]
  BY ONLY <1>2, <1>3 DEF Data!Take
<1>5. t.counter + 1 \in Nat /\ Data!NotAByte \in AnyByte  BY <1>2 DEF Data!NotAByte, AnyByte
<1>6. /\ Data!Take(t) \in Readers /\ Data!Take(t).eof /\ Data!Take(t).pos = t.pos
      /\ Data!Take(t).counter = t.counter + 1 /\ Data!Take(t).left = t.left
  BY <1>2, <1>4, <1>5 DEF Readers
<1>7. t.counter + 1 > TotalBytes  BY <1>1, <1>2
<1> QED  BY ONLY <1>2, <1>6, <1>7, t.left > 0 DEF Lost, Astray

LEMMA TakePlaced ==
  ASSUME BufferOK, NEW t \in Placed, t.left # 0, ~t.eof
  PROVE  Data!Take(t) \in Placed
<1>1. t \in Readers /\ t.left > 0 /\ TotalBytes \in Nat  BY BufferTypes DEF Placed, Readers
<1>2. CASE Astray(t)
  <2>1. Astray(Data!Take(t))  BY <1>1, <1>2, TakeAstray
  <2> QED  BY <2>1 DEF Placed, Astray
<1>3. ASSUME NEW k \in Nat, At(t, k) PROVE Data!Take(t) \in Placed
  <2>1. CASE \E n \in 1 .. t.left : At(Data!Take(t), k + n)
    <3>1. PICK n \in 1 .. t.left : At(Data!Take(t), k + n)  BY <2>1
    <3>2. t.left \in Nat  BY <1>1 DEF Readers
    <3>3. k + n \in Nat  BY <3>2
    <3> QED  BY <3>1, <3>3 DEF Placed, At
  <2>2. CASE Lost(Data!Take(t), TotalBytes + 1)
    <3>1. Astray(Data!Take(t))  BY <1>1, <2>2 DEF Lost, Astray
    <3> QED  BY <3>1 DEF Placed, Astray
  <2> QED  BY <1>1, <1>3, <2>1, <2>2, TakeStep
<1> QED  BY <1>2, <1>3 DEF Placed

\* What TakenFrom computes step by step.
NextTaken(t) == IF t.left = 0 \/ t.eof THEN t ELSE Data!Take(t)
IsTaken(b, s, n) == /\ b \in [0 .. n -> Placed] /\ b[0] = s
                    /\ \A i \in 1 .. n : b[i] = NextTaken(b[i - 1])

LEMMA TakenSteps ==
  ASSUME BufferOK, NEW s \in Placed, NEW n \in Nat
  PROVE  \E b : IsTaken(b, s, n) /\ Data!TakenFrom(s, n) = b[n]
<1> DEFINE next == [i \in 1..n |-> [v \in Placed |-> NextTaken(v)]]
           Is(b) == b = [k \in 0 .. n |->
                           IF k = 0 THEN s
                           ELSE LET t == b[k - 1] IN IF t.left = 0 \/ t.eof THEN t ELSE Data!Take(t)]
<1>0. \A v \in Placed : NextTaken(v) \in Placed  BY TakePlaced DEF NextTaken
<1>1. Steps(next, n, Placed)  BY <1>0 DEF Steps
<1>2. PICK g : Solves(g, n, Placed, s, next)
  <2> HIDE DEF next
  <2> QED  BY <1>1, Recursion
<1>3. Is(g)
  <2>1. \A i \in 1..n : i - 1 \in 0..n /\ g[i - 1] \in Placed  BY <1>2 DEF Solves
  <2>2. \A i \in 1..n, v \in Placed : next[i][v] = NextTaken(v)  OBVIOUS
  <2> HIDE DEF next
  <2>3. \A i \in 1..n : g[i] = NextTaken(g[i - 1])  BY <1>2, <2>1, <2>2 DEF Solves
  <2>4. g = [i \in 0..n |-> g[i]] /\ g[0] = s  BY <1>2 DEF Solves
  <2>5. \A i \in 0..n : g[i] = IF i = 0 THEN s ELSE NextTaken(g[i - 1])
    <3> TAKE i \in 0..n
    <3>1. i = 0 \/ i \in 1..n  OBVIOUS
    <3> QED  BY <2>3, <2>4, <3>1
  <2> QED  BY <2>4, <2>5 DEF NextTaken
<1> DEFINE b == CHOOSE h : Is(h)
<1>4. Is(b)  BY <1>3
<1>5. Data!TakenFrom(s, n) = b[n]  BY DEF Data!TakenFrom
<1> HIDE DEF b
<1>6. b[0] = s /\ \A i \in 1..n : b[i] = NextTaken(b[i - 1])
  <2>1. \A i \in 0..n : b[i] = IF i = 0 THEN s ELSE NextTaken(b[i - 1])  BY <1>4 DEF NextTaken
  <2>2. 0 \in 0..n /\ \A i \in 1..n : i \in 0..n /\ i # 0  OBVIOUS
  <2> QED  BY <2>1, <2>2
<1>7. DOMAIN b = 0..n /\ b = [i \in 0..n |-> b[i]]  BY <1>4
<1> HIDE DEF Is
<1>8. \A i \in 0..n : b[i] \in Placed
  <2> DEFINE T == {i \in 0..n : b[i] \in Placed}
  <2>1. 0 \in T  BY <1>6
  <2>2. ASSUME NEW i \in 1..n, i - 1 \in T PROVE i \in T
    BY <1>0, <1>6, <2>2
  <2> HIDE DEF T
  <2>3. 0..n \subseteq T  BY <2>1, <2>2, Induction
  <2> QED  BY <2>3 DEF T
<1>9. IsTaken(b, s, n)  BY <1>6, <1>7, <1>8 DEF IsTaken
<1> QED  BY <1>5, <1>9

\* After i rounds of a loop that begins at bit k and is to take n bits, at least i
\* of them are taken, or there were not n.
InLoop(r, k, n, i) ==
  \/ \E m \in i .. n : /\ At(r, k + m) /\ Inside(k, m) /\ r.left = n - m
                       /\ r.number = Data!Number(k, m)
  \/ Lost(r, TotalBytes + 1) /\ ~Inside(k, n)

LEMMA InLoopStep ==
  ASSUME BufferOK, NEW k \in Nat, NEW n \in Nat, NEW i \in 1 .. n, NEW r \in Placed,
         InLoop(r, k, n, i - 1)
  PROVE  InLoop(NextTaken(r), k, n, i)
<1>1. TotalBytes \in Nat /\ Data!RESOL = 8 /\ i \in Nat  BY BufferTypes
<1>2. CASE Lost(r, TotalBytes + 1) /\ ~Inside(k, n)
  <2>1. NextTaken(r) = r  BY <1>2 DEF NextTaken, Lost
  <2> QED  BY <1>2, <2>1 DEF InLoop
<1>3. ASSUME NEW m \in i - 1 .. n, At(r, k + m), Inside(k, m), r.left = n - m, r.number = Data!Number(k, m)
      PROVE  InLoop(NextTaken(r), k, n, i)
  <2>0. m \in Nat /\ k + m \in Nat /\ m <= n /\ i - 1 <= m  BY <1>1
  <2>1. CASE r.left = 0
    <3>1. NextTaken(r) = r  BY <2>1 DEF NextTaken
    <3>2. m \in i .. n  BY <1>1, <1>3, <2>0, <2>1
    <3> QED  BY <1>3, <3>1, <3>2 DEF InLoop
  <2>2. CASE r.left # 0
    <3>1. ~r.eof  BY <1>3 DEF At
    <3>2. NextTaken(r) = Data!Take(r) /\ r.left > 0
      BY <1>1, <1>3, <2>0, <2>2, <3>1 DEF NextTaken
    <3>3. ASSUME NEW p \in 1 .. r.left, At(Data!Take(r), (k + m) + p), Data!Take(r).left = r.left - p,
                 Inside(k + m, p), Data!Take(r).number = r.number * Data!TwoTo(p) + Data!Number(k + m, p)
          PROVE  InLoop(NextTaken(r), k, n, i)
      <4>1. /\ m + p \in i .. n /\ p \in Nat /\ (k + m) + p = k + (m + p) /\ r.left - p = n - (m + p)
            /\ Inside(k, m + p)
        <5>1. r.left \in Nat  BY <1>3, <2>0
        <5>2. p \in Nat /\ p >= 1 /\ p <= n - m  BY <1>3, <5>1
        <5>3. Inside(k, m + p)  BY <1>1, <2>0, <3>3, <5>2 DEF Inside
        <5> QED  BY <1>1, <1>3, <2>0, <5>2, <5>3
      <4>2. Data!Number(k, m + p) = Data!Number(k, m) * Data!TwoTo(p) + Data!Number(k + m, p)
        BY <2>0, <4>1, NumberOfMore
      <4>3. Data!Take(r).number = Data!Number(k, m + p)  BY <1>3, <3>3, <4>2
      <4>4. At(Data!Take(r), k + (m + p)) /\ Data!Take(r).left = n - (m + p)  BY <3>3, <4>1
      <4> QED  BY <3>2, <4>1, <4>3, <4>4 DEF InLoop
    <3>4. ASSUME k + m = TotalBytes * Data!RESOL, Lost(Data!Take(r), TotalBytes + 1)
          PROVE  InLoop(NextTaken(r), k, n, i)
      <4>1. ~Inside(k, n)  BY <1>1, <1>3, <2>0, <2>2, <3>4 DEF Inside
      <4> QED  BY <3>2, <3>4, <4>1 DEF InLoop
    <3> QED  BY <1>3, <3>2, <3>3, <3>4, TakeStep
  <2> QED  BY <2>1, <2>2
<1> QED  BY <1>2, <1>3 DEF InLoop

\* What a read from bit k on returns, and where it ends.
LEMMA TakenFromIs ==
  ASSUME BufferOK, NEW k \in Nat, NEW n \in Nat, NEW s, At(s, k), s.left = n, s.number = 0
  PROVE  /\ Inside(k, n) => /\ At(Data!TakenFrom(s, n), k + n) /\ Data!TakenFrom(s, n).left = 0
                            /\ Data!TakenFrom(s, n).number = Data!Number(k, n)
         /\ ~Inside(k, n) => Lost(Data!TakenFrom(s, n), TotalBytes + 1)
<1>1. TotalBytes \in Nat /\ Data!RESOL = 8 /\ k <= TotalBytes * Data!RESOL
  BY BufferTypes, Places
<1>2. s \in Placed  BY DEF Placed, At
<1>3. PICK b : IsTaken(b, s, n) /\ Data!TakenFrom(s, n) = b[n]  BY <1>2, TakenSteps
<1>4. /\ b[0] = s /\ \A i \in 0..n : b[i] \in Placed
      /\ \A i \in 1..n : b[i] = NextTaken(b[i - 1])
  BY <1>3 DEF IsTaken
<1> DEFINE T == {i \in 0..n : InLoop(b[i], k, n, i)}
<1>5. 0 \in T
  <2>1. Inside(k, 0)  BY <1>1 DEF Inside
  <2>2. Data!Number(k, 0) = 0  BY <2>1, NumberOne
  <2>3. 0 \in 0..n /\ k + 0 = k /\ n - 0 = n  OBVIOUS
  <2>4. InLoop(s, k, n, 0)  BY <2>1, <2>2, <2>3 DEF InLoop
  <2> QED  BY <1>4, <2>3, <2>4
<1>6. ASSUME NEW i \in 1..n, i - 1 \in T PROVE i \in T
  <2>1. i - 1 \in 0..n /\ i \in 0..n  OBVIOUS
  <2>2. b[i - 1] \in Placed /\ InLoop(b[i - 1], k, n, i - 1)  BY <1>4, <1>6, <2>1
  <2>3. InLoop(NextTaken(b[i - 1]), k, n, i)  BY <2>2, InLoopStep
  <2> QED  BY <1>4, <2>1, <2>3
<1> HIDE DEF T
<1>7. 0..n \subseteq T  BY <1>5, <1>6, Induction
<1>8. n \in 0..n  OBVIOUS
<1>9. InLoop(b[n], k, n, n)  BY <1>7, <1>8 DEF T
<1>10. CASE \E m \in n .. n : At(b[n], k + m) /\ Inside(k, m) /\ b[n].left = n - m /\ b[n].number = Data!Number(k, m)
  <2>1. PICK m \in n .. n : At(b[n], k + m) /\ Inside(k, m) /\ b[n].left = n - m /\ b[n].number = Data!Number(k, m)
    BY <1>10
  <2>2. m = n /\ n - n = 0  OBVIOUS
  <2> QED  BY <1>3, <2>1, <2>2
<1>11. CASE Lost(b[n], TotalBytes + 1) /\ ~Inside(k, n)
  BY <1>3, <1>11
<1> QED  BY <1>9, <1>10, <1>11 DEF InLoop

\* After a read has failed there is nothing left to take.
LEMMA LostTaken ==
  ASSUME BufferOK, NEW s, Astray(s), ~s.eof, NEW n \in Nat \ {0}, s.left = n
  PROVE  Lost(Data!TakenFrom(s, n), s.counter + 1)
<1>1. s \in Placed  BY DEF Placed, Astray
<1>2. PICK b : IsTaken(b, s, n) /\ Data!TakenFrom(s, n) = b[n]  BY <1>1, TakenSteps
<1>3. b[0] = s /\ \A i \in 1..n : b[i] = NextTaken(b[i - 1])
  BY <1>2 DEF IsTaken
<1> DEFINE T == {i \in 0..n : i = 0 \/ Lost(b[i], s.counter + 1)}
<1>4. 0 \in T  OBVIOUS
<1>5. ASSUME NEW i \in 1..n, i - 1 \in T PROVE i \in T
  <2>1. CASE i = 1
    <3>1. i - 1 = 0 /\ 1 \in 1..n  BY <2>1
    <3>2. NextTaken(s) = Data!Take(s) /\ s.left > 0  BY DEF NextTaken
    <3>3. Lost(NextTaken(s), s.counter + 1)  BY <3>2, TakeAstray
    <3>4. b[i] = NextTaken(s)  BY <1>3, <2>1, <3>1
    <3> QED  BY <3>3, <3>4
  <2>2. CASE i # 1
    <3>1. i - 1 # 0 /\ i - 1 \in 0..n  BY <2>2
    <3>2. Lost(b[i - 1], s.counter + 1)  BY <1>5, <3>1
    <3>3. NextTaken(b[i - 1]) = b[i - 1]  BY <3>2 DEF Lost, NextTaken
    <3> QED  BY <1>3, <3>2, <3>3
  <2> QED  BY <2>1, <2>2
<1> HIDE DEF T
<1>6. 0..n \subseteq T  BY <1>4, <1>5, Induction
<1>7. n \in 0..n /\ n # 0  OBVIOUS
<1> QED  BY <1>2, <1>6, <1>7 DEF T

-----------------------------------------------------------------------------
(* The invariant of the bit reader *)

LEMMA DataNumberTypes ==
  ASSUME Data!Numbers
  PROVE  MaxLen \in Nat /\ MaxRiceM \in 0 .. MaxLen /\ MaxFrames \in Nat
BY DEF Data!Numbers

LEMMA InvTypes ==
  ASSUME Data!Numbers, Data!DataInv
  PROVE  /\ BufferOK /\ TotalBytes \in Nat /\ Data!RESOL = 8
         /\ ByteCounter \in Nat /\ BitPosition \in 0 .. 7 /\ DataByte \in AnyByte
         /\ failed \in BOOLEAN /\ frames \in 0 .. MaxFrames
<1>1. pDSTdata \in Seq(0 .. 255)
  <2>1. <<>> \in Seq(0 .. 255)  OBVIOUS
  <2> QED  BY <2>1 DEF Data!DataInv, Data!Numbers
<1>2. BufferOK  BY <1>1 DEF BufferOK, Data!DataInv, Data!TypeOK
<1>3. TotalBytes \in Nat /\ Data!RESOL = 8  BY <1>2, BufferTypes
<1> QED  BY <1>2, <1>3 DEF Data!DataInv, Data!TypeOK, AnyByte

\* Where a read begins.
LEMMA StartPlaced ==
  ASSUME Data!Numbers, Data!DataInv, NEW n \in Nat
  PROVE  /\ Data!Start(n).left = n /\ Data!Start(n).number = 0 /\ ~Data!Start(n).eof
         /\ ~failed => At(Data!Start(n), Data!get_in_bitcount) /\ Data!get_in_bitcount \in Nat
         /\ failed => Astray(Data!Start(n)) /\ Data!Start(n).counter = ByteCounter
                      /\ Data!get_in_bitcount > TotalBytes * Data!RESOL
<1>1. /\ BufferOK /\ TotalBytes \in Nat /\ Data!RESOL = 8
      /\ ByteCounter \in Nat /\ BitPosition \in 0 .. 7 /\ DataByte \in AnyByte
  BY InvTypes
<1>2. Data!Start(n) \in Readers  BY <1>1 DEF Data!Start, Readers
<1>3. Data!Start(n).left = n /\ Data!Start(n).number = 0 /\ ~Data!Start(n).eof /\ Data!Start(n).counter = ByteCounter
      /\ Data!Start(n).pos = BitPosition /\ Data!Start(n).byte = DataByte
  BY DEF Data!Start
<1>4. /\ failed <=> ByteCounter > TotalBytes
      /\ failed => BitPosition = 0
      /\ BitPosition > 0 => ByteCounter > 0 /\ DataByte = pDSTdata[ByteCounter]
  BY DEF Data!DataInv
<1>5. ASSUME ~failed PROVE At(Data!Start(n), Data!get_in_bitcount)
  <2>1. ByteCounter <= TotalBytes  BY <1>1, <1>4, <1>5
  <2>2. Data!get_in_bitcount = 8 * ByteCounter - BitPosition  BY <1>1 DEF Data!get_in_bitcount
  <2> QED  BY <1>2, <1>3, <1>4, <2>1, <2>2 DEF At
<1>6. ASSUME failed PROVE Astray(Data!Start(n)) /\ Data!get_in_bitcount > TotalBytes * Data!RESOL
  <2>1. ByteCounter > TotalBytes /\ BitPosition = 0  BY <1>4, <1>6
  <2>2. Data!get_in_bitcount > TotalBytes * Data!RESOL  BY <1>1, <2>1 DEF Data!get_in_bitcount
  <2> QED  BY <1>2, <1>3, <2>1, <2>2 DEF Astray
<1>7. ~failed => Data!get_in_bitcount \in Nat  BY <1>1, <1>5, Places
<1> QED  BY <1>3, <1>5, <1>6, <1>7

LEMMA DataInit ==
  ASSUME Data!Numbers, Data!Init
  PROVE  Data!DataInv /\ Data!ReadsMatchStream
<1>1. Len(<<>>) = 0  OBVIOUS
<1>2. Data!TypeOK
  <2>1. Data!Nothing \in [kind : Data!Kinds, bits : 0 .. MaxLen]
    BY DataNumberTypes DEF Data!Nothing, Data!Kinds
  <2>2. TotalBytes = Len(pDSTdata) /\ frames \in 0 .. MaxFrames
    BY <1>1, DataNumberTypes DEF Data!Init
  <2>3. /\ ByteCounter \in 0 .. TotalBytes + 2 /\ BitPosition \in 0 .. Data!RESOL - 1
        /\ DataByte \in Data!NotAByte .. 255
    BY DEF Data!Init, Data!RESOL, Data!NotAByte
  <2>4. asked \in [kind : Data!Kinds, bits : 0 .. MaxLen] /\ result \in {-1, 0} /\ failed \in BOOLEAN
    BY <2>1 DEF Data!Init
  <2> QED  BY <2>2, <2>3, <2>4 DEF Data!TypeOK
<1>3. Data!DataInv  BY <1>2 DEF Data!DataInv, Data!Init
<1>4. Data!ReadsMatchStream  BY DEF Data!Init, Data!ReadsMatchStream, Data!Nothing
<1> QED  BY <1>3, <1>4

LEMMA FillBufferStep ==
  ASSUME Data!Numbers, Data!DataInv, NEW data \in Buffers, Data!FillBuffer(data)
  PROVE  Data!DataInv' /\ Data!ReadsMatchStream'
<1>1. Len(data) \in Nat  BY DEF Data!Numbers
<1>2. frames' \in 0 .. MaxFrames
  <2>1. frames \in 0 .. MaxFrames /\ MaxFrames \in Nat  BY InvTypes, DataNumberTypes
  <2> QED  BY <2>1 DEF Data!FillBuffer
<1>3. Data!TypeOK'
  <2>1. asked' \in [kind : Data!Kinds, bits : 0 .. MaxLen]
    BY DataNumberTypes DEF Data!FillBuffer, Data!Nothing, Data!Kinds
  <2>2. TotalBytes' = Len(pDSTdata')  BY DEF Data!FillBuffer
  <2>3. ByteCounter' \in 0 .. TotalBytes' + 2
    BY <1>1 DEF Data!FillBuffer, Data!ResetReadingIndex
  <2>4. BitPosition' \in 0 .. Data!RESOL - 1 /\ DataByte' \in Data!NotAByte .. 255
    BY DEF Data!FillBuffer, Data!ResetReadingIndex, Data!RESOL, Data!NotAByte
  <2>5. result' \in {-1, 0} /\ failed' \in BOOLEAN  BY DEF Data!FillBuffer
  <2> QED  BY <1>2, <2>1, <2>2, <2>3, <2>4, <2>5 DEF Data!TypeOK, Data!RESOL, Data!NotAByte
<1>4. Data!DataInv'  BY <1>1, <1>3 DEF Data!DataInv, Data!FillBuffer, Data!ResetReadingIndex
<1>5. Data!ReadsMatchStream'  BY DEF Data!FillBuffer, Data!ReadsMatchStream, Data!Nothing
<1> QED  BY <1>4, <1>5

\* A read leaves the reader where its loop ended.
LEMMA DonePlaced ==
  ASSUME Data!Numbers, Data!DataInv, NEW t, NEW v, Data!Done(t, v), UNCHANGED Data!buffer, t.eof \in BOOLEAN,
         NEW sign \in Data!Kinds, NEW n \in 0 .. MaxLen, asked' = [kind |-> sign, bits |-> n],
         \/ ~failed /\ ~t.eof /\ \E k : At(t, k)
         \/ t.eof /\ Astray(t) /\ t.counter <= TotalBytes + 2
  PROVE  Data!DataInv'
<1>1. /\ BufferOK /\ TotalBytes \in Nat /\ Data!RESOL = 8 /\ failed \in BOOLEAN
      /\ frames \in 0 .. MaxFrames
  BY InvTypes
<1>2. /\ ByteCounter' = t.counter /\ BitPosition' = t.pos /\ DataByte' = t.byte
      /\ result' = (IF t.eof THEN -1 ELSE 0) /\ failed' = (failed \/ t.eof)
  BY DEF Data!Done
<1>3. pDSTdata' = pDSTdata /\ TotalBytes' = TotalBytes /\ frames' = frames  BY DEF Data!buffer
<1>4. t \in Readers  BY DEF At, Astray
<1>5. t.counter \in Nat /\ t.pos \in 0 .. 7 /\ t.byte \in Data!NotAByte .. 255
  BY <1>4 DEF Readers, AnyByte
<1>6. /\ t.counter <= TotalBytes + 2 /\ failed' = t.eof /\ t.eof <=> t.counter > TotalBytes
      /\ t.eof => t.pos = 0
      /\ t.pos > 0 => t.counter > 0 /\ t.byte = pDSTdata[t.counter]
  <2>1. CASE ~failed /\ ~t.eof /\ \E k : At(t, k)
    BY <1>1, <1>2, <1>5, <2>1 DEF At
  <2>2. CASE t.eof /\ Astray(t) /\ t.counter <= TotalBytes + 2
    <3>1. t.counter > TotalBytes /\ t.pos = 0  BY <2>2 DEF Astray
    <3>2. failed' = t.eof  BY <1>1, <1>2, <2>2
    <3> QED  BY <1>1, <1>5, <2>2, <3>1, <3>2
  <2> QED  BY <2>1, <2>2
<1>7. Data!TypeOK'
  <2>1. TotalBytes = Len(pDSTdata)  BY <1>1 DEF BufferOK
  <2>2. ByteCounter' \in 0 .. TotalBytes + 2  BY <1>1, <1>2, <1>5, <1>6
  <2>3. result' \in {-1, 0} /\ failed' \in BOOLEAN  BY <1>2, <1>6
  <2>4. asked' \in [kind : Data!Kinds, bits : 0 .. MaxLen]  OBVIOUS
  <2>5. BitPosition' \in 0 .. Data!RESOL - 1 /\ DataByte' \in Data!NotAByte .. 255
    BY <1>1, <1>2, <1>5
  <2>6. (Data!RESOL - 1)' = Data!RESOL - 1  BY DEF Data!RESOL
  <2> QED
    BY <1>1, <1>3, <2>1, <2>2, <2>3, <2>4, <2>5 DEF Data!TypeOK, Data!RESOL, Data!NotAByte
<1>8. pDSTdata' \in Buffers \cup {<<>>}  BY <1>3 DEF Data!DataInv
<1>9. /\ failed' <=> ByteCounter' > TotalBytes'
      /\ failed' => BitPosition' = 0
      /\ BitPosition' > 0 => ByteCounter' > 0 /\ DataByte' = pDSTdata'[ByteCounter']
  BY <1>2, <1>3, <1>6
<1> QED  BY <1>7, <1>8, <1>9 DEF Data!DataInv

LEMMA AllTaken ==
  ASSUME NEW t, t.left = 0, t.number \in Nat
  PROVE  Data!ValueOf(t) = t.number
<1>1. Data!TwoTo(0) = 1  BY DataPowers
<1>2. \A x \in Nat : x * 1 = x  OBVIOUS
<1> QED  BY <1>1, <1>2 DEF Data!ValueOf

\* A read of n bits: within the buffer, or past its end.
LEMMA TakenIs ==
  ASSUME Data!Numbers, Data!DataInv, Data!MayRead, NEW n \in Nat \ {0}, NEW k, k = Data!get_in_bitcount
  PROVE  \/ /\ ~failed /\ k \in Nat /\ Inside(k, n) /\ At(Data!Taken(n), k + n) /\ Data!Taken(n).left = 0
            /\ Data!Taken(n).number = Data!Number(k, n) /\ Data!ValueOf(Data!Taken(n)) = Data!Number(k, n)
         \/ /\ k + n > TotalBytes * Data!RESOL /\ Data!Taken(n).eof /\ Astray(Data!Taken(n))
            /\ Data!Taken(n).counter <= TotalBytes + 2
<1>1. BufferOK /\ TotalBytes \in Nat /\ Data!RESOL = 8 /\ ByteCounter \in Nat /\ BitPosition \in 0 .. 7
  BY InvTypes
<1>2. Data!Taken(n) = Data!TakenFrom(Data!Start(n), n) /\ n \in Nat  BY DEF Data!Taken
<1>3. Data!Start(n).left = n /\ Data!Start(n).number = 0 /\ ~Data!Start(n).eof  BY StartPlaced
<1>4. CASE failed
  <2>1. Astray(Data!Start(n)) /\ Data!Start(n).counter = ByteCounter /\ k > TotalBytes * Data!RESOL
    BY <1>4, StartPlaced
  <2>2. Lost(Data!Taken(n), ByteCounter + 1)  BY <1>1, <1>2, <1>3, <2>1, LostTaken
  <2>3. ByteCounter <= TotalBytes + 1  BY DEF Data!MayRead
  <2>4. ByteCounter > TotalBytes  BY <1>4 DEF Data!DataInv
  <2>5. k \in Int  BY <1>1 DEF Data!get_in_bitcount
  <2>6. k + n > TotalBytes * Data!RESOL  BY <1>1, <2>1, <2>5
  <2>7. ByteCounter + 1 > TotalBytes /\ ByteCounter + 1 <= TotalBytes + 2  BY <1>1, <2>3, <2>4
  <2> QED  BY <2>2, <2>6, <2>7 DEF Lost, Astray
<1>5. CASE ~failed
  <2>1. At(Data!Start(n), k) /\ k \in Nat  BY <1>5, StartPlaced
  <2>2. CASE Inside(k, n)
    <3>1. At(Data!Taken(n), k + n) /\ Data!Taken(n).left = 0 /\ Data!Taken(n).number = Data!Number(k, n)
      BY <1>1, <1>2, <1>3, <2>1, <2>2, TakenFromIs
    <3>2. Data!Number(k, n) \in Nat  BY <1>1, <1>2, <2>1, <2>2, NumberOne
    <3>3. Data!ValueOf(Data!Taken(n)) = Data!Number(k, n)  BY <3>1, <3>2, AllTaken
    <3> QED  BY <1>5, <2>1, <2>2, <3>1, <3>3
  <2>3. CASE ~Inside(k, n)
    <3>1. Lost(Data!Taken(n), TotalBytes + 1)  BY <1>1, <1>2, <1>3, <2>1, <2>3, TakenFromIs
    <3>2. k + n > TotalBytes * Data!RESOL  BY <1>1, <2>1, <2>3 DEF Inside
    <3>3. TotalBytes + 1 > TotalBytes /\ TotalBytes + 1 <= TotalBytes + 2  BY <1>1
    <3> QED  BY <3>1, <3>2, <3>3 DEF Lost, Astray
  <2> QED  BY <2>2, <2>3
<1> QED  BY <1>4, <1>5, InvTypes

LEMMA NothingRead ==
  ASSUME Data!Numbers, Data!DataInv, NEW sign \in {"unsigned", "signed"}, Data!MayRead, Data!BitGet(0, sign)
  PROVE  Data!DataInv' /\ Data!ReadsMatchStream'
<1>1. /\ asked' = [kind |-> sign, bits |-> 0] /\ result' = 0 /\ value' = 0
      /\ ByteCounter' = ByteCounter /\ BitPosition' = BitPosition /\ DataByte' = DataByte
      /\ failed' = failed /\ pDSTdata' = pDSTdata /\ TotalBytes' = TotalBytes /\ frames' = frames
  BY DEF Data!BitGet, Data!buffer, Data!index
<1>2. asked' \in [kind : Data!Kinds, bits : 0 .. MaxLen]
  BY <1>1, DataNumberTypes DEF Data!Kinds
<1>3. Data!TypeOK' /\ Data!DataInv'
  <2>1. Data!TypeOK'  BY <1>1, <1>2 DEF Data!DataInv, Data!TypeOK, Data!RESOL, Data!NotAByte
  <2> QED  BY <1>1, <2>1 DEF Data!DataInv
<1>4. asked'.kind # "rice" /\ asked'.bits = 0  BY <1>1
<1>5. Data!ReadsMatchStream'  BY <1>1, <1>4 DEF Data!ReadsMatchStream
<1> QED  BY <1>3, <1>5

LEMMA BitGetStep ==
  ASSUME Data!Numbers, Data!DataInv, NEW n \in 0 .. MaxLen, NEW sign \in {"unsigned", "signed"}, Data!MayRead,
         Data!BitGet(n, sign)
  PROVE  Data!DataInv' /\ Data!ReadsMatchStream'
<1>1. CASE n = 0
  BY <1>1, NothingRead
<1>2. CASE n # 0
  <2>0. n \in Nat \ {0}  BY <1>2, DataNumberTypes
  <2>1. PICK k : k = Data!get_in_bitcount  OBVIOUS
  <2>2. PICK t : t = Data!Taken(n)  OBVIOUS
  <2> DEFINE v == IF sign = "signed" THEN Data!Signed(n, Data!ValueOf(t)) ELSE Data!ValueOf(t)
  <2>3. asked' = [kind |-> sign, bits |-> n] /\ from' = k /\ Data!Done(t, v) /\ UNCHANGED Data!buffer
    BY <1>2, <2>1, <2>2 DEF Data!BitGet
  <2> HIDE DEF v
  <2>4. pDSTdata' = pDSTdata /\ TotalBytes' = TotalBytes /\ sign \in Data!Kinds /\ sign # "rice"
    BY <2>3 DEF Data!buffer, Data!Kinds
  <2>5. /\ ByteCounter' = t.counter /\ BitPosition' = t.pos /\ result' = (IF t.eof THEN -1 ELSE 0)
        /\ failed' = (failed \/ t.eof) /\ value' = v
    BY <2>3 DEF Data!Done
  <2>6. TotalBytes \in Nat /\ Data!RESOL = 8  BY InvTypes
  <2>7. asked'.kind = sign /\ asked'.bits = n  BY <2>3
  <2>8. CASE /\ ~failed /\ k \in Nat /\ Inside(k, n) /\ At(t, k + n)
             /\ Data!ValueOf(t) = Data!Number(k, n)
    <3>1. t.eof = FALSE  BY <2>8, Zenon DEF At, Readers
    <3>2. Data!DataInv'  BY <2>3, <2>4, <2>8, <3>1, DonePlaced
    <3>3. result' = 0 /\ ~failed'  BY <2>5, <2>8, <3>1
    <3>4. Data!get_in_bitcount' = k + n
      <4>1. k + n = 8 * t.counter - t.pos /\ t.counter \in Nat /\ t.pos \in 0 .. 7
        BY <2>8 DEF At, Readers
      <4> QED  BY <2>5, <4>1 DEF Data!get_in_bitcount, Data!RESOL
    <3>5. k + n <= TotalBytes' * 8  BY <2>4, <2>6, <2>8 DEF Inside
    <3>6. Data!Number(from, asked.bits)' = Data!Number(k, n)
      <4>1. asked'.bits = n /\ from' = k  BY <2>3
      <4> QED  BY <2>4, <4>1 DEF Data!Number, Data!StreamBit
    <3>7. Data!Signed(asked.bits, Data!Number(from, asked.bits))' = Data!Signed(n, Data!Number(k, n))
      <4>1. Data!TwoTo(asked.bits)' = Data!TwoTo(n) /\ Data!TwoTo(asked.bits - 1)' = Data!TwoTo(n - 1)
        BY <2>7 DEF Data!TwoTo
      <4> QED  BY <3>6, <4>1 DEF Data!Signed
    <3>8. v = IF sign = "signed" THEN Data!Signed(n, Data!Number(k, n)) ELSE Data!Number(k, n)
      BY <2>8 DEF v
    <3>9. Data!ReadsMatchStream'
      <4>1. (value = IF asked.kind = "signed" THEN Data!Signed(asked.bits, Data!Number(from, asked.bits))
                     ELSE Data!Number(from, asked.bits))'
        BY <2>5, <2>7, <3>6, <3>7, <3>8
      <4>2. (Data!get_in_bitcount = from + asked.bits)'  BY <2>3, <2>7, <3>4
      <4>3. (Data!get_in_bitcount <= TotalBytes * Data!RESOL)'  BY <3>4, <3>5 DEF Data!RESOL
      <4>4. asked'.kind # "rice" /\ asked'.bits # 0  BY <1>2, <2>4, <2>7
      <4> QED  BY ONLY <3>3, <4>1, <4>2, <4>3, <4>4, Zenon DEF Data!ReadsMatchStream
    <3> QED  BY <3>2, <3>9
  <2>9. CASE k + n > TotalBytes * Data!RESOL /\ t.eof /\ Astray(t) /\ t.counter <= TotalBytes + 2
    <3>1. t.eof \in BOOLEAN  BY <2>9 DEF Astray, Readers
    <3>2. Data!DataInv'  BY <2>3, <2>4, <2>9, <3>1, DonePlaced
    <3>3. result' = -1 /\ failed'  BY <2>5, <2>9
    <3>4. from' + asked'.bits > TotalBytes' * 8  BY <2>3, <2>4, <2>6, <2>7, <2>9
    <3>5. Data!ReadsMatchStream'  BY <3>3, <3>4 DEF Data!ReadsMatchStream, Data!RESOL
    <3> QED  BY <3>2, <3>5
  <2> QED  BY <2>0, <2>1, <2>2, <2>8, <2>9, TakenIs
<1> QED  BY <1>1, <1>2

-----------------------------------------------------------------------------
(* The code of a number *)

\* The sequence s is what the bits from k on are.
IsRead(s, k) == s \in Seq(Int) /\ \A j \in 1 .. Len(s) : s[j] = Data!StreamBit(k + j - 1)

LEMMA ReadOne ==
  ASSUME NEW k \in Nat, NEW b \in Int, Data!StreamBit(k) = b
  PROVE  IsRead(<<b>>, k) /\ Len(<<b>>) = 1
<1>1. <<b>> \in Seq(Int) /\ Len(<<b>>) = 1 /\ <<b>>[1] = b  OBVIOUS
<1>2. k + 1 - 1 = k /\ \A j \in 1 .. 1 : j = 1  OBVIOUS
<1> QED  BY <1>1, <1>2 DEF IsRead

LEMMA ReadMore ==
  ASSUME NEW s, NEW t, NEW k \in Nat, IsRead(s, k), IsRead(t, k + Len(s))
  PROVE  IsRead(s \o t, k) /\ Len(s \o t) = Len(s) + Len(t) /\ Len(s) \in Nat /\ Len(t) \in Nat
<1>1. s \in Seq(Int) /\ t \in Seq(Int)  BY DEF IsRead
<1>2. Len(s) \in Nat /\ Len(t) \in Nat  BY <1>1, LenProperties
<1>3. /\ s \o t \in Seq(Int) /\ Len(s \o t) = Len(s) + Len(t)
      /\ \A j \in 1 .. Len(s) + Len(t) : (s \o t)[j] = IF j <= Len(s) THEN s[j] ELSE t[j - Len(s)]
  BY <1>1, ConcatProperties
<1>4. ASSUME NEW j \in 1 .. Len(s) + Len(t) PROVE (s \o t)[j] = Data!StreamBit(k + j - 1)
  <2>1. CASE j <= Len(s)
    <3>1. j \in 1 .. Len(s)  BY <1>2, <2>1
    <3> QED  BY <1>3, <2>1, <3>1 DEF IsRead
  <2>2. CASE ~(j <= Len(s))
    <3>1. j - Len(s) \in 1 .. Len(t) /\ (k + Len(s)) + (j - Len(s)) - 1 = k + j - 1
      BY <1>2, <2>2
    <3>2. t[j - Len(s)] = Data!StreamBit((k + Len(s)) + (j - Len(s)) - 1)  BY <3>1 DEF IsRead
    <3> QED  BY <1>3, <2>2, <3>1, <3>2
  <2> QED  BY <2>1, <2>2
<1> QED  BY <1>2, <1>3, <1>4 DEF IsRead

LEMMA ReadFunction ==
  ASSUME NEW k \in Nat, NEW n \in Nat, NEW s, s = [j \in 1 .. n |-> s[j]],
         \A j \in 1 .. n : s[j] \in Int /\ s[j] = Data!StreamBit(k + j - 1)
  PROVE  IsRead(s, k) /\ Len(s) = n
<1>1. s \in [1 .. n -> Int]  OBVIOUS
<1>2. s \in Seq(Int) /\ Len(s) = n  BY <1>1
<1> QED  BY <1>2 DEF IsRead

Zeros(k, n) == \A j \in 1 .. n : Data!StreamBit(k + j - 1) = 0

\* The number v of R zeros, a one, m bits and e bits of sign, at bit k.
IsCoded(v, k, R, m, e, N) ==
  /\ k \in Nat /\ R \in Nat /\ m \in Nat /\ e \in {0, 1} /\ N \in Nat
  /\ Inside(k, R + 1 + m + e) /\ Zeros(k, R) /\ Data!StreamBit(k + R) = 1
  /\ N = R * Data!TwoTo(m) + Data!Number(k + R + 1, m) /\ e = IF N # 0 THEN 1 ELSE 0
  /\ v = IF e = 1 /\ Data!StreamBit(k + R + 1 + m) = 1 THEN -N ELSE N

LEMMA RiceCodeRead ==
  ASSUME BufferOK, NEW k, NEW R, NEW m, NEW e, NEW N, NEW v, IsCoded(v, k, R, m, e, N)
  PROVE  IsRead(Data!RiceCode(v, m), k) /\ Len(Data!RiceCode(v, m)) = R + 1 + m + e
<1> DEFINE zeros == [j \in 1 .. Data!Magnitude(v) \div Data!TwoTo(m) |-> 0]
           lsbs == [j \in 1 .. m |-> Data!Bit(Data!Magnitude(v), m - j)]
           sign == IF v = 0 THEN <<>> ELSE IF v < 0 THEN <<1>> ELSE <<0>>
           c == k + R + 1
<1> k \in Nat /\ R \in Nat /\ m \in Nat /\ e \in {0, 1} /\ N \in Nat  BY DEF IsCoded
<1>0. /\ Inside(k, R + 1 + m + e) /\ Zeros(k, R) /\ Data!StreamBit(k + R) = 1
      /\ N = R * Data!TwoTo(m) + Data!Number(k + R + 1, m) /\ e = IF N # 0 THEN 1 ELSE 0
      /\ v = IF e = 1 /\ Data!StreamBit(k + R + 1 + m) = 1 THEN -N ELSE N
  BY DEF IsCoded
<1>1. /\ TotalBytes \in Nat /\ Data!RESOL = 8 /\ c \in Nat /\ c + m \in Nat /\ k + R \in Nat
      /\ Inside(c, m) /\ (e = 1 => Inside(c + m, 1))
  BY <1>0, BufferTypes DEF Inside
<1>2. PICK M \in Nat \ {0} : M = Data!TwoTo(m)  BY DataPowers
<1>3. PICK L \in 0 .. M - 1 : L = Data!Number(c, m)  BY <1>1, <1>2, NumberFits
<1>4. N = M * R + L
  <2>1. R * M = M * R  OBVIOUS
  <2> QED  BY <1>0, <1>2, <1>3, <2>1
<1>5. N \div M = R /\ N % M = L
  <2>1. (M * R + L) \div M = R /\ (M * R + L) % M = L  BY DivisionIs
  <2> QED  BY <1>4, <2>1
<1>6. Data!Magnitude(v) = N  BY <1>0 DEF Data!Magnitude
<1>7. IsRead(zeros, k) /\ Len(zeros) = R
  <2>1. zeros = [j \in 1 .. R |-> zeros[j]] /\ \A j \in 1 .. R : zeros[j] = 0
    BY <1>2, <1>5, <1>6
  <2>2. \A j \in 1 .. R : zeros[j] \in Int /\ zeros[j] = Data!StreamBit(k + j - 1)
    <3> HIDE DEF zeros
    <3> QED  BY <1>0, <2>1 DEF Zeros
  <2> HIDE DEF zeros
  <2> QED  BY <2>1, <2>2, ReadFunction
<1>8. IsRead(<<1>>, k + R) /\ Len(<<1>>) = 1  BY <1>0, <1>1, ReadOne
<1>9. IsRead(lsbs, c) /\ Len(lsbs) = m
  <2>1. lsbs = [j \in 1 .. m |-> lsbs[j]] /\ \A j \in 1 .. m : lsbs[j] = Data!Bit(N, m - j)
    BY <1>6
  <2> HIDE DEF lsbs
  <2>2. ASSUME NEW j \in 1 .. m PROVE lsbs[j] \in Int /\ lsbs[j] = Data!StreamBit(c + j - 1)
    <3>1. m - j \in 0 .. m - 1 /\ m - j \in Nat  OBVIOUS
    <3>2. Data!Bit(N % Data!TwoTo(m), m - j) = Data!Bit(N, m - j)  BY <3>1, DataBitOfRemainder
    <3>3. Data!Bit(L, m - j) = Data!StreamBit(c + j - 1)  BY <1>1, <1>3, BitOfNumber
    <3>4. Data!Bit(N, m - j) \in {0, 1}  BY <3>1, DataBitIsBit
    <3>5. lsbs[j] = Data!Bit(N, m - j)  BY <2>1
    <3>6. Data!Bit(N, m - j) = Data!StreamBit(c + j - 1)  BY <1>2, <1>5, <3>2, <3>3
    <3>7. Data!Bit(N, m - j) \in Int  BY <3>4
    <3> QED  BY <3>5, <3>6, <3>7
  <2> HIDE DEF c
  <2> QED  BY <1>1, <2>1, <2>2, ReadFunction
<1>10. IsRead(sign, c + m) /\ Len(sign) = e
  <2>1. CASE N = 0
    <3>1. v = 0 /\ e = 0  BY <1>0, <2>1
    <3>2. sign = <<>> /\ Len(<<>>) = 0 /\ <<>> \in Seq(Int)  BY <3>1
    <3>3. IsRead(<<>>, c + m)  BY <3>2 DEF IsRead
    <3> QED  BY <3>1, <3>2, <3>3
  <2>2. CASE N # 0
    <3>1. e = 1 /\ c + m = k + R + 1 + m  BY <1>0, <2>2
    <3>2. PICK b \in {0, 1} : b = Data!StreamBit(c + m)  BY <1>1, <3>1, StreamBitIsBit
    <3>3. v = IF b = 1 THEN -N ELSE N  BY <1>0, <3>1, <3>2
    <3>4. sign = <<b>>
      <4>1. CASE b = 1  BY <2>2, <3>3, <4>1
      <4>2. CASE b = 0  BY <2>2, <3>3, <4>2
      <4> QED  BY <4>1, <4>2
    <3>5. IsRead(<<b>>, c + m) /\ Len(<<b>>) = 1  BY <1>1, <3>2, ReadOne
    <3> QED  BY <3>1, <3>4, <3>5
  <2> QED  BY <2>1, <2>2
<1>11. Data!RiceCode(v, m) = zeros \o <<1>> \o lsbs \o sign  BY DEF Data!RiceCode
<1> HIDE DEF zeros, lsbs, sign
<1>12. IsRead(zeros \o <<1>>, k) /\ Len(zeros \o <<1>>) = R + 1  BY <1>7, <1>8, ReadMore
<1>13. IsRead(zeros \o <<1>> \o lsbs, k) /\ Len(zeros \o <<1>> \o lsbs) = R + 1 + m
  <2>1. k + (R + 1) = c  OBVIOUS
  <2> QED  BY <1>9, <1>12, <2>1, ReadMore
<1>14. IsRead(zeros \o <<1>> \o lsbs \o sign, k) /\ Len(zeros \o <<1>> \o lsbs \o sign) = R + 1 + m + e
  <2>1. k + (R + 1 + m) = c + m  OBVIOUS
  <2> QED  BY <1>10, <1>13, <2>1, ReadMore
<1> QED  BY <1>11, <1>14

-----------------------------------------------------------------------------
(* RiceDecode *)

LEMMA ContinueIs ==
  ASSUME BufferOK, NEW t, NEW k, At(t, k), NEW n \in Nat
  PROVE  /\ Inside(k, n) => /\ At(Data!Continue(t, n), k + n) /\ Data!Continue(t, n).left = 0
                            /\ Data!Continue(t, n).number = Data!Number(k, n)
                            /\ Data!ValueOf(Data!Continue(t, n)) = Data!Number(k, n)
         /\ ~Inside(k, n) => Lost(Data!Continue(t, n), TotalBytes + 1)
<1> DEFINE s == [t EXCEPT !.left = n, !.number = 0, !.eof = FALSE]
<1>1. t \in Readers /\ k \in Nat  BY Places DEF At
<1>2. /\ s \in Readers /\ s.left = n /\ s.number = 0 /\ ~s.eof /\ s.counter = t.counter
      /\ s.pos = t.pos /\ s.byte = t.byte
  BY <1>1 DEF Readers
<1>3. Data!Continue(t, n) = Data!TakenFrom(s, n)  BY DEF Data!Continue
<1> HIDE DEF s
<1>4. At(s, k)  BY <1>2 DEF At
<1>5. Inside(k, n) => Data!Number(k, n) \in Nat  BY <1>1, NumberOne
<1>6. /\ Inside(k, n) => /\ At(Data!TakenFrom(s, n), k + n) /\ Data!TakenFrom(s, n).left = 0
                         /\ Data!TakenFrom(s, n).number = Data!Number(k, n)
      /\ ~Inside(k, n) => Lost(Data!TakenFrom(s, n), TotalBytes + 1)
  BY <1>1, <1>2, <1>4, TakenFromIs
<1> QED  BY <1>3, <1>5, <1>6, AllTaken

LEMMA ContinueLost ==
  ASSUME BufferOK, NEW t, Astray(t), NEW n \in {0, 1}
  PROVE  Astray(Data!Continue(t, n)) /\ Data!Continue(t, n).counter <= t.counter + 1
<1> DEFINE s == [t EXCEPT !.left = n, !.number = 0, !.eof = FALSE]
<1>1. t \in Readers /\ t.counter \in Nat /\ TotalBytes \in Nat /\ n \in Nat
  BY BufferTypes DEF Astray, Readers
<1>2. s \in Readers /\ s.left = n /\ ~s.eof /\ s.counter = t.counter /\ s.pos = t.pos
  BY <1>1 DEF Readers
<1>3. Data!Continue(t, n) = Data!TakenFrom(s, n)  BY DEF Data!Continue
<1> HIDE DEF s
<1>4. Astray(s)  BY <1>2 DEF Astray
<1>5. CASE n = 0
  <2>1. s \in Placed  BY <1>2, <1>4 DEF Placed
  <2>2. PICK b : IsTaken(b, s, 0) /\ Data!TakenFrom(s, 0) = b[0]  BY <2>1, TakenSteps
  <2>3. Data!TakenFrom(s, 0) = s  BY <2>2 DEF IsTaken
  <2> QED  BY <1>1, <1>2, <1>3, <1>4, <1>5, <2>3
<1>6. CASE n = 1
  <2>1. Lost(Data!TakenFrom(s, n), t.counter + 1)  BY <1>2, <1>4, <1>6, LostTaken
  <2>2. t.counter > TotalBytes  BY DEF Astray
  <2>3. t.counter + 1 > TotalBytes  BY <1>1, <2>2
  <2> QED  BY <1>1, <1>3, <2>1, <2>3 DEF Lost, Astray
<1> QED  BY <1>5, <1>6

LEMMA FirstOne ==
  ASSUME BufferOK, NEW k \in Nat, k = Data!get_in_bitcount, Data!Ones # {}
  PROVE  \E R \in Nat : /\ Data!Min(Data!Ones) - k = R /\ Inside(k, R + 1) /\ Data!StreamBit(k + R) = 1
                        /\ Zeros(k, R)
<1>1. TotalBytes \in Nat /\ Data!RESOL = 8  BY BufferTypes
<1>2. Data!Ones = {j \in k .. 8 * TotalBytes - 1 : Data!StreamBit(j) = 1}  BY DEF Data!Ones
<1>3. Data!Ones \in SUBSET Nat
  <2>1. \A j \in k .. 8 * TotalBytes - 1 : j \in Nat  BY <1>1
  <2> QED  BY <1>2, <2>1
<1>4. \E n \in Data!Ones : \A m \in Data!Ones : n <= m  BY <1>3, LeastElement
<1>5. PICK o \in Data!Ones : o = Data!Min(Data!Ones) /\ \A m \in Data!Ones : o <= m
  BY <1>4 DEF Data!Min
<1>6. o \in k .. 8 * TotalBytes - 1 /\ Data!StreamBit(o) = 1  BY <1>2
<1>7. PICK R \in Nat : R = o - k /\ k + R = o /\ o < 8 * TotalBytes
  <2>1. o - k \in Nat /\ k + (o - k) = o /\ o < 8 * TotalBytes  BY <1>1, <1>6
  <2> QED  BY <2>1
<1>8. ASSUME NEW j \in 1 .. R PROVE Data!StreamBit(k + j - 1) = 0
  <2>1. k + j - 1 \in k .. 8 * TotalBytes - 1 /\ k + j - 1 < o  BY <1>1, <1>7
  <2>2. k + j - 1 \notin Data!Ones
    <3>1. k + j - 1 \in Data!Ones => o <= k + j - 1  BY <1>5
    <3>2. ~(o <= k + j - 1)  BY <1>7
    <3> QED  BY <3>1, <3>2
  <2>3. Data!StreamBit(k + j - 1) # 1  BY <1>2, <2>1, <2>2
  <2>4. k + j - 1 \in Nat /\ Inside(k + j - 1, 1)  BY <1>1, <1>7, <2>1 DEF Inside
  <2>5. Data!StreamBit(k + j - 1) \in {0, 1}  BY <2>4, StreamBitIsBit
  <2> QED  BY <2>3, <2>5
<1>9. Inside(k, R + 1)  BY <1>1, <1>7 DEF Inside
<1>10. Data!Min(Data!Ones) - k = R /\ Data!StreamBit(k + R) = 1  BY <1>5, <1>6, <1>7
<1> QED  BY <1>8, <1>9, <1>10 DEF Zeros

LEMMA RiceDecodeStep ==
  ASSUME Data!Numbers, Data!DataInv, NEW m \in 0 .. MaxRiceM, Data!MayRead, Data!RiceDecode(m)
  PROVE  Data!DataInv' /\ Data!ReadsMatchStream'
<1>1. BufferOK /\ TotalBytes \in Nat /\ Data!RESOL = 8 /\ m \in Nat /\ m \in 0 .. MaxLen
  BY InvTypes, DataNumberTypes
<1>2. ~failed /\ Data!Ones # {} /\ Data!get_in_bitcount \in Nat
  BY StartPlaced DEF Data!RiceDecode
<1>3. PICK k \in Nat : k = Data!get_in_bitcount  BY <1>2
<1>4. PICK R \in Nat : /\ Data!Min(Data!Ones) - k = R /\ Inside(k, R + 1) /\ Data!StreamBit(k + R) = 1
                       /\ Zeros(k, R)
  BY <1>1, <1>2, <1>3, FirstOne
<1>5. PICK c \in Nat : c = k + R + 1 /\ c = k + (R + 1)  OBVIOUS
<1>6. PICK t : t = Data!Taken(R + 1) /\ At(t, c)
  <2>1. R + 1 \in Nat \ {0} /\ ~(k + (R + 1) > TotalBytes * Data!RESOL)
    BY <1>1, <1>4 DEF Inside
  <2>2. At(Data!Taken(R + 1), k + (R + 1))  BY <1>3, <2>1, TakenIs
  <2> QED  BY <1>5, <2>2
<1>7. PICK l : l = Data!Continue(t, m)  OBVIOUS
<1>8. PICK N : N = R * Data!TwoTo(m) + Data!ValueOf(l)  OBVIOUS
<1>9. PICK e \in {0, 1} : e = IF N # 0 THEN 1 ELSE 0  OBVIOUS
<1>10. PICK s : s = Data!Continue(l, e)  OBVIOUS
<1>11. PICK u : u = [s EXCEPT !.eof = l.eof \/ s.eof]  OBVIOUS
<1>12. PICK v : v = IF Data!ValueOf(s) = 1 THEN -N ELSE N  OBVIOUS
<1>13. /\ asked' = [kind |-> "rice", bits |-> m] /\ from' = k /\ UNCHANGED Data!buffer
       /\ Data!Done(u, v)
  <2>1. Data!Min(Data!Ones) - Data!get_in_bitcount = R  BY <1>3, <1>4
  <2> QED
    BY ONLY Data!RiceDecode(m), <2>1, <1>3, <1>6, <1>7, <1>8, <1>9, <1>10, <1>11, <1>12
       DEF Data!RiceDecode
<1>14. "rice" \in Data!Kinds  BY DEF Data!Kinds
<1>15. /\ ByteCounter' = u.counter /\ BitPosition' = u.pos /\ result' = (IF u.eof THEN -1 ELSE 0)
       /\ failed' = (failed \/ u.eof) /\ value' = v
       /\ pDSTdata' = pDSTdata /\ TotalBytes' = TotalBytes
  BY <1>13 DEF Data!Done, Data!buffer
\* A read that failed
<1>16. ASSUME u.eof = TRUE, Astray(u), u.counter <= TotalBytes + 2 PROVE Data!DataInv' /\ Data!ReadsMatchStream'
  <2>1. Data!DataInv'  BY <1>13, <1>14, <1>1, <1>16, DonePlaced
  <2>2. result' = -1 /\ failed' /\ asked'.kind = "rice"  BY <1>13, <1>15, <1>16
  <2>3. result' # 0  BY <2>2
  <2> QED  BY ONLY <2>1, <2>2, <2>3, Zenon DEF Data!ReadsMatchStream
\* One that did not
<1>17. ASSUME Inside(c, m), At(l, c + m), Data!ValueOf(l) = Data!Number(c, m), Inside(c + m, e),
              At(s, c + m + e), Data!ValueOf(s) = Data!Number(c + m, e)
       PROVE  Data!DataInv' /\ Data!ReadsMatchStream'
  <2>0. c + m \in Nat /\ c + m + e \in Nat /\ e \in Nat /\ c + m = k + R + 1 + m
    BY <1>1, <1>5
  <2>1. ~l.eof /\ ~s.eof /\ s \in Readers  BY <1>17 DEF At
  <2>2. u \in Readers /\ u.eof = FALSE /\ u.counter = s.counter /\ u.pos = s.pos /\ u.byte = s.byte
    BY <1>11, <2>1 DEF Readers
  <2>3. At(u, c + m + e)  BY <1>17, <2>2 DEF At
  <2>4. Data!DataInv'  BY <1>1, <1>2, <1>13, <1>14, <2>2, <2>3, DonePlaced
  <2>5. result' = 0 /\ ~failed'  BY <1>2, <1>15, <2>2
  <2>6. N \in Nat
    <3>1. Data!Number(c, m) \in Nat /\ Data!TwoTo(m) \in Nat
      BY <1>1, <1>17, NumberOne, DataPowers
    <3>2. \A x, y, z \in Nat : x * y + z \in Nat  OBVIOUS
    <3> QED  BY <1>8, <1>17, <3>1, <3>2
  <2>7. v = IF e = 1 /\ Data!StreamBit(k + R + 1 + m) = 1 THEN -N ELSE N
    <3>1. Inside(c + m, 0)  BY <1>1, <1>17, <2>0 DEF Inside
    <3>2. Data!Number(c + m, 0) = 0 /\ (e = 1 => Data!Number(c + m, 0 + 1) = 2 * Data!Number(c + m, 0) + Data!StreamBit((c + m) + 0))
      BY <1>1, <1>17, <2>0, <3>1, NumberOne
    <3>3. e = 0 => Data!ValueOf(s) = 0  BY <1>17, <3>2
    <3>4. e = 1 => Data!ValueOf(s) = Data!StreamBit(k + R + 1 + m)
      <4>1. 0 + 1 = 1 /\ (c + m) + 0 = k + R + 1 + m  BY <2>0
      <4>2. ASSUME e = 1 PROVE Data!StreamBit(c + m) \in {0, 1}
        BY <1>1, <1>17, <2>0, <4>2, StreamBitIsBit
      <4>3. ASSUME e = 1 PROVE Data!ValueOf(s) = Data!StreamBit(k + R + 1 + m)
        BY <1>17, <2>0, <3>2, <4>1, <4>2, <4>3
      <4> QED  BY <4>3
    <3> QED  BY <1>12, <3>3, <3>4
  <2>8. N = R * Data!TwoTo(m) + Data!Number(k + R + 1, m)  BY <1>5, <1>8, <1>17
  <2>9. Inside(k, R + 1 + m + e)  BY <1>1, <1>5, <1>17, <2>0 DEF Inside
  <2>10. IsRead(Data!RiceCode(v, m), k) /\ Len(Data!RiceCode(v, m)) = R + 1 + m + e
    <3>2. BufferOK /\ k \in Nat /\ R \in Nat /\ m \in Nat /\ e \in {0, 1} /\ Zeros(k, R)
          /\ Data!StreamBit(k + R) = 1
      BY <1>1, <1>4
    <3>3. IsCoded(v, k, R, m, e, N)
      BY ONLY <1>9, <2>6, <2>7, <2>8, <2>9, <3>2, Zenon DEF IsCoded
    <3> QED  BY ONLY <3>2, <3>3, RiceCodeRead
  <2>11. Data!RiceCode(value, asked.bits)' = Data!RiceCode(v, m) /\ asked'.kind = "rice"
    <3>1. asked'.bits = m /\ value' = v /\ asked'.kind = "rice"  BY <1>13, <1>15
    <3> QED  BY <3>1 DEF Data!RiceCode, Data!Magnitude, Data!TwoTo, Data!Bit
  <2>12. Data!get_in_bitcount' = k + (R + 1 + m + e)
    <3>1. c + m + e = 8 * u.counter - u.pos /\ u.counter \in Nat /\ u.pos \in 0 .. 7
      BY <2>3 DEF At, Readers
    <3>2. Data!get_in_bitcount' = c + m + e  BY <1>15, <3>1 DEF Data!get_in_bitcount, Data!RESOL
    <3> QED  BY <1>1, <1>5, <2>0, <3>2
  <2>13. (Data!get_in_bitcount = from + Len(Data!RiceCode(value, asked.bits)))'
    BY <1>13, <2>10, <2>11, <2>12
  <2>14. (Data!get_in_bitcount <= TotalBytes * Data!RESOL)'
    <3>1. (TotalBytes * Data!RESOL)' = TotalBytes * Data!RESOL  BY <1>15 DEF Data!RESOL
    <3> QED  BY <2>9, <2>12, <3>1 DEF Inside
  <2>15. (\A j \in DOMAIN Data!RiceCode(value, asked.bits) :
            Data!RiceCode(value, asked.bits)[j] = Data!StreamBit(from + j - 1))'
    <3>1. PICK d : d = Data!RiceCode(v, m)  OBVIOUS
    <3>2. d \in Seq(Int) /\ \A j \in 1 .. Len(d) : d[j] = Data!StreamBit(k + j - 1)
      BY <2>10, <3>1 DEF IsRead
    <3>3. DOMAIN d = 1 .. Len(d)  BY <3>2
    <3>4. \A j : Data!StreamBit(from + j - 1)' = Data!StreamBit(k + j - 1)
      BY <1>13, <1>15 DEF Data!StreamBit
    <3> QED  BY ONLY <2>11, <3>1, <3>2, <3>3, <3>4, Zenon
  <2> QED  BY ONLY <2>4, <2>5, <2>11, <2>13, <2>14, <2>15, Zenon DEF Data!ReadsMatchStream
<1>18. CASE ~Inside(c, m)
  <2>1. Lost(l, TotalBytes + 1)  BY <1>1, <1>6, <1>7, <1>18, ContinueIs
  <2>2. Astray(l) /\ l.eof  BY <1>1, <2>1 DEF Lost, Astray
  <2>3. Astray(s) /\ s.counter <= l.counter + 1  BY <1>1, <1>10, <2>2, ContinueLost
  <2>4. s \in Readers  BY <2>3 DEF Astray
  <2>5. u \in Readers /\ u.eof = TRUE /\ u.counter = s.counter /\ u.pos = s.pos
    BY <1>11, <2>2, <2>4 DEF Readers
  <2>6. u.counter <= TotalBytes + 2
    <3>1. l.counter = TotalBytes + 1 /\ s.counter \in Nat  BY <2>1, <2>4 DEF Lost, Readers
    <3> QED  BY <1>1, <2>3, <2>5, <3>1
  <2>7. Astray(u)  BY <2>3, <2>5 DEF Astray
  <2> QED  BY <1>16, <2>5, <2>6, <2>7
<1>19. CASE Inside(c, m)
  <2>1. At(l, c + m) /\ Data!ValueOf(l) = Data!Number(c, m)
    BY <1>1, <1>6, <1>7, <1>19, ContinueIs
  <2>2. e \in Nat  OBVIOUS
  <2>3. CASE Inside(c + m, e)
    <3>1. At(s, c + m + e) /\ Data!ValueOf(s) = Data!Number(c + m, e)
      BY <1>1, <1>10, <2>1, <2>2, <2>3, ContinueIs
    <3> QED  BY <1>17, <1>19, <2>1, <2>3, <3>1
  <2>4. CASE ~Inside(c + m, e)
    <3>1. Lost(s, TotalBytes + 1)  BY <1>1, <1>10, <2>1, <2>2, <2>4, ContinueIs
    <3>2. s \in Readers /\ s.eof /\ s.pos = 0 /\ s.counter = TotalBytes + 1  BY <3>1 DEF Lost
    <3>3. u \in Readers /\ u.eof = TRUE /\ u.counter = s.counter /\ u.pos = s.pos
      BY <1>11, <3>2 DEF Readers
    <3>4. u.counter > TotalBytes /\ u.counter <= TotalBytes + 2  BY <1>1, <3>2, <3>3
    <3> QED  BY <1>16, <3>2, <3>3, <3>4 DEF Astray
  <2> QED  BY <2>3, <2>4
<1> QED  BY <1>18, <1>19

\* The inductive invariant of the bit reader, and that each read returns the next
\* number of the frame.
THEOREM DataInvariant ==
  ASSUME Data!Numbers
  PROVE  Data!Spec => [](Data!DataInv /\ Data!ReadsMatchStream)
<1>1. Data!Init => Data!DataInv /\ Data!ReadsMatchStream  BY DataInit
<1>2. ASSUME Data!DataInv /\ Data!ReadsMatchStream, [Data!Next]_(Data!vars) PROVE Data!DataInv' /\ Data!ReadsMatchStream'
  <2>1. CASE \E data \in Buffers : Data!FillBuffer(data)  BY <1>2, <2>1, FillBufferStep
  <2>2. CASE Data!MayRead /\ \E n \in 0 .. MaxLen, sign \in {"unsigned", "signed"} : Data!BitGet(n, sign)
    BY <1>2, <2>2, BitGetStep
  <2>3. CASE Data!MayRead /\ \E m \in 0 .. MaxRiceM : Data!RiceDecode(m)
    BY <1>2, <2>3, RiceDecodeStep
  <2>4. CASE UNCHANGED Data!vars
    <3>1. Data!DataInv'
      BY <1>2, <2>4
         DEF Data!DataInv, Data!TypeOK, Data!vars, Data!buffer, Data!index, Data!read,
             Data!RESOL, Data!NotAByte
    <3>2. Data!ReadsMatchStream'
      <4>1. /\ asked' = asked /\ result' = result /\ value' = value /\ from' = from
            /\ failed' = failed /\ pDSTdata' = pDSTdata /\ TotalBytes' = TotalBytes
            /\ ByteCounter' = ByteCounter /\ BitPosition' = BitPosition
        BY <2>4 DEF Data!vars, Data!buffer, Data!index, Data!read
      <4>2. Data!get_in_bitcount' = Data!get_in_bitcount /\ (TotalBytes * Data!RESOL)' = TotalBytes * Data!RESOL
        BY <4>1 DEF Data!get_in_bitcount, Data!RESOL
      <4>3. Data!RiceCode(value, asked.bits)' = Data!RiceCode(value, asked.bits)
        BY <4>1 DEF Data!RiceCode, Data!Magnitude, Data!TwoTo, Data!Bit
      <4>4. \A j : Data!StreamBit(from + j - 1)' = Data!StreamBit(from + j - 1)
        BY <4>1 DEF Data!StreamBit, Data!Bit, Data!TwoTo, Data!RESOL
      <4>5. Data!Number(from, asked.bits)' = Data!Number(from, asked.bits)
        BY <4>1 DEF Data!Number, Data!StreamBit, Data!Bit, Data!TwoTo, Data!RESOL
      <4>6. Data!Signed(asked.bits, Data!Number(from, asked.bits))' = Data!Signed(asked.bits, Data!Number(from, asked.bits))
        BY <4>1, <4>5 DEF Data!Signed, Data!TwoTo
      <4> QED  BY ONLY <1>2, <4>1, <4>2, <4>3, <4>4, <4>5, <4>6 DEF Data!ReadsMatchStream
    <3> QED  BY <3>1, <3>2
  <2> QED  BY <1>2, <2>1, <2>2, <2>3, <2>4 DEF Data!Next, Data!Stop
<1> QED  BY <1>1, <1>2, PTL DEF Data!Spec

-----------------------------------------------------------------------------
(* The theorems *)

LEMMA FramePart == MCSpec => Init /\ [][Next]_vars
<1>1. MCInit => Init  BY DEF MCInit
<1>2. [MCNext]_<<part, vars, bits_vars, data_vars>> => [Next]_vars  BY DEF MCNext
<1> QED  BY <1>1, <1>2, PTL DEF MCSpec

LEMMA AudioPart == MCSpec => Audio!Spec
<1>1. MCInit => Audio!Init  BY DEF MCInit
<1>2. [MCNext]_<<part, vars, bits_vars, data_vars>> => [Audio!Next]_Audio!vars
  <2>1. UNCHANGED bits_vars => UNCHANGED Audio!vars
    BY DEF bits_vars, Audio!vars, Audio!frame, Audio!decoder
  <2> QED  BY <2>1 DEF MCNext
<1> QED  BY <1>1, <1>2, PTL DEF MCSpec, Audio!Spec

LEMMA DataPart == MCSpec => Data!Spec
<1>1. MCInit => Data!Init  BY DEF MCInit
<1>2. [MCNext]_<<part, vars, bits_vars, data_vars>> => [Data!Next]_Data!vars
  <2>1. UNCHANGED data_vars => UNCHANGED Data!vars
    BY DEF data_vars, Data!vars, Data!buffer, Data!index, Data!read
  <2> QED  BY <2>1 DEF MCNext
<1> QED  BY <1>1, <1>2, PTL DEF MCSpec, Data!Spec

\* However the tables of a frame came about, read for each channel, for all of
\* them or copied, when decoding starts every bit of every channel has a filter
\* and a Ptable that was read: for all numbers of channels, segments and bits.
\* With one segment too many for all channels this is so too; it says nothing of the
\* frames after which the number of segments was overwritten (Overrun).
THEOREM TablesForEveryBit == MCSpec => []EveryBitHasTables
<1>1. FrameInv => EveryBitHasTables
  <2> SUFFICES ASSUME FrameInv, pc = "decode" PROVE EveryBitHasTables  BY DEF EveryBitHasTables
  <2>1. Mapped("F") /\ Mapped("P")  BY DEF FrameInv, MappingInv, AfterMapping
  <2>2. \A k \in Kinds : Mapped(k)  BY <2>1 DEF Kinds
  <2>3. \A k \in Kinds : TablesRead(k)  BY DEF FrameInv, TablesInv
  <2> QED  BY <2>2, <2>3, TablesOfBits DEF EveryBitHasTables, TablesRead
<1> QED  BY <1>1, FrameInvariant, FramePart, PTL

\* The arithmetic decoder holds the code that was read less the bounds of the
\* bits that were decoded, and it is below its interval, so that the subtractions
\* of uint32_t do not wrap: for every width of the numbers, every probability and
\* every code.
THEOREM CodeStaysInInterval == MCSpec => []CodeInInterval
<1>1. Audio!Spec => [](Audio!CodeInInterval /\ Audio!FilterSeesLastBits)
  BY BitsProperties, AudioNumbers
<1> QED  BY <1>1, AudioPart, PTL DEF CodeInInterval

\* The sums that the filter tables give for the status words are those over the
\* last bits of the channel: for every number and length of filters and all bits.
THEOREM FiltersSeeLastBits == MCSpec => []FilterSeesLastBits
<1>1. Audio!Spec => [](Audio!CodeInInterval /\ Audio!FilterSeesLastBits)
  BY BitsProperties, AudioNumbers
<1> QED  BY <1>1, AudioPart, PTL DEF FilterSeesLastBits

\* Reads return the numbers that the bits of the frame are, one after the other,
\* and fail only when there are not so many bits: for all frames and all widths.
THEOREM ReadsReturnTheStream == MCSpec => []ReadsMatchStream
<1>1. Data!Spec => [](Data!DataInv /\ Data!ReadsMatchStream)
  BY DataInvariant, DataNumbers
<1> QED  BY <1>1, DataPart, PTL DEF ReadsMatchStream

\* The types of the three parts, with their inductive invariants.
THEOREM DstTypes == MCSpec => []TypesOK
<1>1. Audio!Spec => []Audio!BitsInv  BY BitsInvariant, AudioNumbers
<1>2. Data!Spec => [](Data!DataInv /\ Data!ReadsMatchStream)  BY DataInvariant, DataNumbers
<1> QED  BY <1>1, <1>2, FrameInvariant, FramePart, AudioPart, DataPart, PTL DEF TypesOK
=============================================================================
