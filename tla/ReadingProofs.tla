---------------------------- MODULE ReadingProofs ----------------------------
(* What is proved about reading a disc, where the first state chooses a part: *)
(* of the frames put together from its sectors (FrameAssembler, TocOpen), and *)
(* of its sectors read over the network (NetInput).                           *)
EXTENDS MCReading, SequenceTheorems, FiniteSetTheorems, DataInduction, TLAPS

-----------------------------------------------------------------------------
(* Layouts *)

LEMMA Minimum ==
  ASSUME NEW S \in SUBSET Nat, S # {}
  PROVE  Min(S) \in S /\ \A x \in S : Min(S) <= x
<1>1. \E x \in S : \A y \in S : x <= y  BY LeastElement
<1> QED  BY <1>1 DEF Min

LEMMA Greatest ==
  ASSUME NEW n \in Nat, NEW S \in SUBSET (0..n), S # {}
  PROVE  \E m \in S : \A x \in S : x <= m
<1> DEFINE T == {n - x : x \in S}
<1>1. T \in SUBSET Nat /\ T # {}
  <2>1. \A x \in S : x \in 0..n  OBVIOUS
  <2>2. \A x \in S : n - x \in Nat  BY <2>1
  <2> QED  BY <2>2
<1> HIDE DEF T
<1>2. PICK k \in T : \A j \in T : k <= j  BY <1>1, LeastElement
<1>3. PICK m \in S : k = n - m  BY DEF T
<1>4. ASSUME NEW x \in S PROVE x <= m
  <2>1. n - x \in T  BY DEF T
  <2>2. x \in 0..n /\ m \in 0..n  OBVIOUS
  <2> QED  BY <1>2, <1>3, <2>1, <2>2
<1> QED  BY <1>4

\* The packets of a sector.
LEMMA Packets ==
  ASSUME NEW l, Mastered(l), NEW s \in DOMAIN l
  PROVE  /\ Len(l) \in Nat /\ s \in 1..Len(l)
         /\ l[s][1] \in Nat /\ Len(l[s]) \in 1..7 /\ Len(l[s]) <= SectorSize
         /\ \A q \in 1..Len(l[s]) : l[s][q] = l[s][1] + q - 1
         /\ LastOf(l, s) = l[s][1] + Len(l[s]) - 1
         /\ LastOf(l, s) \in Nat /\ l[s][1] <= LastOf(l, s)
         /\ s > 1 => s - 1 \in DOMAIN l /\ l[s][1] \in {LastOf(l, s - 1), LastOf(l, s - 1) + 1}
<1>1. l \in Seq(Seq(Nat)) /\ DOMAIN l = 1..Len(l) /\ Len(l) \in Nat  BY DEF Mastered
<1>2. l[s] \in Seq(Nat) /\ s \in 1..Len(l)  BY <1>1
<1>3. /\ Len(l[s]) \in 1..7 /\ Len(l[s]) <= SectorSize
      /\ \A q \in 1..Len(l[s]) : l[s][q] = l[s][1] + q - 1
      /\ s > 1 => l[s][1] \in {LastOf(l, s - 1), LastOf(l, s - 1) + 1}
  BY DEF Mastered
<1>4. l[s][1] \in Nat  BY <1>2, <1>3
<1>5. LastOf(l, s) = l[s][1] + Len(l[s]) - 1  BY <1>3 DEF LastOf
<1>6. LastOf(l, s) \in Nat /\ l[s][1] <= LastOf(l, s)  BY <1>3, <1>4, <1>5
<1> QED  BY <1>1, <1>2, <1>3, <1>4, <1>5, <1>6

LEMMA InSector ==
  ASSUME NEW l, Mastered(l), NEW s \in DOMAIN l, NEW f
  PROVE  s \in SectorsOf(l, f) <=> f \in l[s][1]..LastOf(l, s)
<1>1. s \in SectorsOf(l, f) <=> \E q \in 1..Len(l[s]) : l[s][q] = f  BY DEF SectorsOf
<1>2. /\ l[s][1] \in Nat /\ Len(l[s]) \in 1..7
      /\ \A q \in 1..Len(l[s]) : l[s][q] = l[s][1] + q - 1
      /\ LastOf(l, s) = l[s][1] + Len(l[s]) - 1
  BY Packets
<1>3. ASSUME f \in l[s][1]..LastOf(l, s) PROVE \E q \in 1..Len(l[s]) : l[s][q] = f
  <2>1. f - l[s][1] + 1 \in 1..Len(l[s])  BY <1>2, <1>3
  <2>2. l[s][f - l[s][1] + 1] = f  BY <1>2, <1>3, <2>1
  <2> QED  BY <2>1, <2>2
<1>4. ASSUME NEW q \in 1..Len(l[s]), l[s][q] = f PROVE f \in l[s][1]..LastOf(l, s)
  BY <1>2, <1>4
<1> QED  BY <1>1, <1>3, <1>4

\* Sectors ascend.
LEMMA Ascending ==
  ASSUME NEW l, Mastered(l), NEW s \in DOMAIN l, NEW t \in DOMAIN l, s < t
  PROVE  LastOf(l, s) <= l[t][1]
<1> DEFINE n == t - s - 1
           T == {k \in 0..n : LastOf(l, s) <= l[s + k + 1][1]}
<1>1. Len(l) \in Nat /\ s \in 1..Len(l) /\ t \in 1..Len(l) /\ DOMAIN l = 1..Len(l)
  BY Packets DEF Mastered
<1>2. n \in Nat /\ \A k \in 0..n : s + k + 1 \in DOMAIN l  BY <1>1
<1>3. 0 \in T
  <2>1. s + 1 \in DOMAIN l /\ s + 1 > 1 /\ s + 1 - 1 = s  BY <1>1, <1>2
  <2>2. l[s + 1][1] \in {LastOf(l, s), LastOf(l, s) + 1} /\ l[s + 1][1] \in Nat
    BY <2>1, Packets
  <2>3. LastOf(l, s) \in Int  BY Packets
  <2>4. LastOf(l, s) <= l[s + 1][1]  BY <2>2, <2>3
  <2>5. 0 \in 0..n /\ s + 0 + 1 = s + 1  BY <1>1, <1>2
  <2> QED  BY <2>4, <2>5
<1>4. ASSUME NEW i \in 1..n, i - 1 \in T PROVE i \in T
  <2> DEFINE u == s + i + 1
  <2>1. u \in DOMAIN l /\ u > 1 /\ u - 1 \in DOMAIN l /\ u - 1 = s + (i - 1) + 1
    BY <1>1, <1>2
  <2>2. LastOf(l, s) <= l[u - 1][1]  BY <1>4, <2>1
  <2> HIDE DEF u
  <2>3. l[u][1] \in {LastOf(l, u - 1), LastOf(l, u - 1) + 1} /\ l[u][1] \in Nat
    BY <2>1, Packets
  <2>4. LastOf(l, u - 1) >= l[u - 1][1] /\ LastOf(l, u - 1) \in Int /\ l[u - 1][1] \in Int
    <3>1. \A v \in DOMAIN l : l[v][1] \in Nat /\ LastOf(l, v) \in Nat /\ l[v][1] <= LastOf(l, v)
      BY Packets
    <3>2. PICK v \in DOMAIN l : v = u - 1  BY <2>1
    <3> QED  BY <3>1, <3>2
  <2>5. LastOf(l, s) \in Int  BY Packets
  <2>6. LastOf(l, s) <= l[u][1]  BY <2>2, <2>3, <2>4, <2>5
  <2> QED  BY <2>6 DEF u
<1> HIDE DEF T
<1>5. n \in T  BY <1>2, <1>3, <1>4, Induction
<1>6. LastOf(l, s) <= l[s + n + 1][1]  BY <1>5 DEF T
<1>7. s + n + 1 = t  BY <1>1
<1> QED  BY <1>6, <1>7

EndOf(l, f) == StartOf(l, f) + Cardinality(SectorsOf(l, f)) - 1

\* The sectors of a frame are consecutive.
LEMMA FrameSectors ==
  ASSUME NEW l, Mastered(l), NEW f \in FrameNumbers(l)
  PROVE  /\ SectorsOf(l, f) = StartOf(l, f)..EndOf(l, f)
         /\ StartOf(l, f) \in DOMAIN l /\ EndOf(l, f) \in DOMAIN l
         /\ StartOf(l, f) <= EndOf(l, f)
         /\ f \in Nat
<1> DEFINE S == SectorsOf(l, f)
<1>1. DOMAIN l = 1..Len(l) /\ Len(l) \in Nat  BY DEF Mastered
<1>2. S \subseteq 0..Len(l) /\ S \subseteq DOMAIN l  BY <1>1 DEF SectorsOf
<1>3. S # {}  BY DEF FrameNumbers, SectorsOf
<1>4. \A s \in S : f \in l[s][1]..LastOf(l, s)  BY InSector, <1>2
<1> DEFINE a == Min(S)
<1>5. PICK b \in S : \A x \in S : x <= b
  <2> HIDE DEF S
  <2> QED  BY <1>1, <1>2, <1>3, Greatest
<1>6. a \in S /\ \A x \in S : a <= x
  <2> HIDE DEF S
  <2>1. S \in SUBSET Nat  BY <1>1, <1>2
  <2> QED  BY <1>3, <2>1, Minimum
<1> HIDE DEF a
<1>7. ASSUME NEW u \in a..b PROVE u \in S
  <2>1. CASE u = a \/ u = b  BY <2>1, <1>5, <1>6
  <2>2. CASE a < u /\ u < b
    <3>1. a \in DOMAIN l /\ b \in DOMAIN l /\ u \in DOMAIN l  BY <1>1, <1>2, <1>5, <1>6, <1>7
    <3>2. LastOf(l, a) <= l[u][1] /\ LastOf(l, u) <= l[b][1]  BY <2>2, <3>1, Ascending
    <3>3. f \in l[a][1]..LastOf(l, a) /\ f \in l[b][1]..LastOf(l, b)  BY <1>4, <1>5, <1>6
    <3>4. \A x \in DOMAIN l : l[x][1] \in Int /\ LastOf(l, x) \in Int /\ l[x][1] <= LastOf(l, x)
      BY Packets
    <3>5. f \in l[u][1]..LastOf(l, u)  BY <3>1, <3>2, <3>3, <3>4
    <3> QED  BY <3>1, <3>5, InSector
  <2>3. a \in Int /\ b \in Int  BY <1>1, <1>2, <1>5, <1>6
  <2> QED  BY <2>1, <2>2, <2>3, <1>7
<1>8. S = a..b
  <2>1. a \in Int /\ b \in Int /\ S \subseteq Int  BY <1>1, <1>2, <1>5, <1>6
  <2>2. \A x \in S : x \in a..b  BY <1>5, <1>6, <2>1
  <2> HIDE DEF S
  <2> QED  BY <1>7, <2>2
<1>9. Cardinality(S) = b - a + 1
  <2>1. a \in Int /\ b \in Int /\ a <= b  BY <1>1, <1>2, <1>5, <1>6
  <2> HIDE DEF S
  <2> QED  BY <1>8, <2>1, FS_Interval
<1>10. StartOf(l, f) = a /\ EndOf(l, f) = b
  <2>1. StartOf(l, f) = a  BY DEF StartOf, a
  <2>2. a \in Int /\ b \in Int  BY <1>1, <1>2, <1>5, <1>6
  <2> QED  BY <2>1, <2>2, <1>9 DEF EndOf
<1>11. f \in Nat
  <2>1. a \in DOMAIN l /\ f \in l[a][1]..LastOf(l, a)  BY <1>2, <1>4, <1>6
  <2> QED  BY <2>1, Packets
<1>12. a \in DOMAIN l /\ b \in DOMAIN l /\ a <= b  BY <1>2, <1>5, <1>6
<1> QED  BY <1>8, <1>10, <1>11, <1>12

LEMMA FrameIn ==
  ASSUME NEW l, Mastered(l), NEW s \in DOMAIN l, NEW f \in l[s][1]..LastOf(l, s)
  PROVE  f \in FrameNumbers(l) /\ s \in StartOf(l, f)..EndOf(l, f)
<1>1. s \in SectorsOf(l, f)  BY InSector
<1>2. f \in FrameNumbers(l)  BY <1>1 DEF SectorsOf, FrameNumbers
<1> QED  BY <1>1, <1>2, FrameSectors

\* Which packets start a frame: all but the first of a sector do, and the first
\* does unless it goes on with the last frame of the sector before.
LEMMA LaterPacketStarts ==
  ASSUME NEW l, Mastered(l), NEW s \in DOMAIN l, NEW q \in 2..Len(l[s])
  PROVE  Starts(l, s, q)
<1> DEFINE f == l[s][q]
           a == StartOf(l, f)
<1>1. \A x \in DOMAIN l : l[x][1] \in Nat /\ LastOf(l, x) \in Nat /\ x \in Nat  BY Packets
<1>2. f = l[s][1] + q - 1 /\ f \in l[s][1]..LastOf(l, s)  BY Packets
<1>3. a \in DOMAIN l /\ a <= s /\ a \in SectorsOf(l, f)
  <2> HIDE DEF f
  <2>1. f \in FrameNumbers(l) /\ s \in a..EndOf(l, f)  BY <1>2, FrameIn
  <2>2. SectorsOf(l, f) = a..EndOf(l, f) /\ a \in DOMAIN l /\ EndOf(l, f) \in DOMAIN l /\ a <= EndOf(l, f)
    BY <2>1, FrameSectors
  <2> HIDE DEF a
  <2> QED  BY <2>1, <2>2, <1>1
<1> HIDE DEF a
<1>4. f \in l[a][1]..LastOf(l, a)
  <2> HIDE DEF f
  <2> QED  BY <1>3, InSector
<1>5. ASSUME a < s PROVE FALSE
  <2>1. LastOf(l, a) <= l[s][1]  BY <1>3, <1>5, Ascending
  <2>2. l[s][1] < f  BY <1>1, <1>2
  <2> HIDE DEF f
  <2> QED  BY <1>1, <1>3, <1>4, <2>1, <2>2
<1>6. a = s  BY <1>1, <1>3, <1>5
<1> QED  BY <1>6 DEF Starts, a

LEMMA FirstPacketStarts ==
  ASSUME NEW l, Mastered(l), NEW s \in DOMAIN l
  PROVE  Starts(l, s, 1) <=> s = 1 \/ l[s][1] = LastOf(l, s - 1) + 1
<1> DEFINE f == l[s][1]
           a == StartOf(l, f)
<1>1. \A x \in DOMAIN l : /\ l[x][1] \in Nat /\ LastOf(l, x) \in Nat /\ x \in Nat
                          /\ x >= 1 /\ l[x][1] <= LastOf(l, x)
  BY Packets
<1>2. f \in l[s][1]..LastOf(l, s)  BY <1>1
<1>3. a \in DOMAIN l /\ a <= s /\ SectorsOf(l, f) = a..EndOf(l, f) /\ EndOf(l, f) \in Int /\ s <= EndOf(l, f)
  <2> HIDE DEF f
  <2>1. f \in FrameNumbers(l) /\ s \in a..EndOf(l, f)  BY <1>2, FrameIn
  <2>2. SectorsOf(l, f) = a..EndOf(l, f) /\ a \in DOMAIN l /\ EndOf(l, f) \in DOMAIN l /\ a <= EndOf(l, f)
    BY <2>1, FrameSectors
  <2> HIDE DEF a
  <2> QED  BY <2>1, <2>2, <1>1
<1>4. Starts(l, s, 1) <=> a = s  BY DEF Starts
<1> HIDE DEF a
<1>5. CASE s = 1
  <2>1. a = 1  BY <1>1, <1>3, <1>5
  <2> QED  BY <2>1, <1>4, <1>5
<1>6. CASE s # 1
  <2>1. s > 1 /\ s \in Nat  BY <1>1, <1>6
  <2>2. s - 1 \in DOMAIN l /\ f \in {LastOf(l, s - 1), LastOf(l, s - 1) + 1}  BY <2>1, Packets
  <2>3. a # s <=> s - 1 \in SectorsOf(l, f)
    <3> HIDE DEF f
    <3>1. a \in Nat  BY <1>1, <1>3
    <3> QED  BY <3>1, <2>1, <1>3
  <2>4. s - 1 \in SectorsOf(l, f) <=> f \in l[s - 1][1]..LastOf(l, s - 1)
    <3> HIDE DEF f
    <3> QED  BY <2>2, InSector
  <2>5. /\ l[s - 1][1] \in Nat /\ LastOf(l, s - 1) \in Nat /\ l[s - 1][1] <= LastOf(l, s - 1)
        /\ f \in Nat
    BY <1>1, <2>2
  <2>6. f \in l[s - 1][1]..LastOf(l, s - 1) <=> f = LastOf(l, s - 1)  BY <2>2, <2>5
  <2>7. a = s <=> f = LastOf(l, s - 1) + 1
    <3> HIDE DEF f
    <3> QED  BY <2>2, <2>3, <2>4, <2>5, <2>6
  <2> QED  BY <2>7, <1>4, <1>6
<1> QED  BY <1>5, <1>6

\* There is no gap between the frames of two sectors.
LEMMA Covered ==
  ASSUME NEW l, Mastered(l), NEW s \in DOMAIN l, NEW t \in DOMAIN l, s <= t,
         NEW f \in l[s][1]..LastOf(l, t)
  PROVE  \E u \in s..t : f \in l[u][1]..LastOf(l, u)
<1> DEFINE n == t - s
           Found(k) == f <= LastOf(l, s + k) => \E u \in s..s + k : f \in l[u][1]..LastOf(l, u)
           T == {k \in 0..n : Found(k)}
<1>1. Len(l) \in Nat /\ s \in 1..Len(l) /\ t \in 1..Len(l) /\ DOMAIN l = 1..Len(l)
  BY Packets DEF Mastered
<1>2. \A x \in DOMAIN l : l[x][1] \in Nat /\ LastOf(l, x) \in Nat /\ x \in Nat  BY Packets
<1>3. n \in Nat /\ \A k \in 0..n : s + k \in DOMAIN l  BY <1>1
<1>4. f \in Int /\ l[s][1] <= f /\ f <= LastOf(l, t)  BY <1>2
<1>5. 0 \in T
  <2>1. f <= LastOf(l, s) => f \in l[s][1]..LastOf(l, s)  BY <1>2, <1>4
  <2>2. s + 0 = s /\ s \in s..s + 0  BY <1>1
  <2>3. Found(0)  BY <2>1, <2>2
  <2> HIDE DEF Found
  <2> QED  BY <2>3, <1>3
<1>6. ASSUME NEW i \in 1..n, i - 1 \in T PROVE i \in T
  <2>1. Found(i - 1) /\ s + (i - 1) \in DOMAIN l /\ s + i \in DOMAIN l
    <3> HIDE DEF Found
    <3>1. i - 1 \in 0..n /\ i \in 0..n  BY <1>3
    <3> QED  BY <1>3, <1>6, <3>1
  <2> DEFINE u == s + i
  <2>2. u > 1 /\ u - 1 = s + (i - 1) /\ u \in Nat /\ u \in s..u  BY <1>1, <1>3
  <2>3. l[u][1] \in {LastOf(l, u - 1), LastOf(l, u - 1) + 1}
    <3>1. u \in DOMAIN l /\ u > 1  BY <2>1, <2>2
    <3> HIDE DEF u
    <3> QED  BY <3>1, Packets
  <2>4. CASE f <= LastOf(l, u - 1)
    <3>1. PICK v \in s..u - 1 : f \in l[v][1]..LastOf(l, v)  BY <2>1, <2>2, <2>4
    <3>2. v \in s..u  BY <2>2, <1>1
    <3> QED  BY <3>1, <3>2, <1>3
  <2>5. CASE ~(f <= LastOf(l, u - 1)) /\ f <= LastOf(l, u)
    <3>1. l[u][1] \in Int /\ LastOf(l, u) \in Int /\ LastOf(l, u - 1) \in Int
      BY <1>2, <2>1, <2>2
    <3>2. f \in l[u][1]..LastOf(l, u)
      <4> HIDE DEF u
      <4> QED  BY <1>4, <2>3, <2>5, <3>1
    <3>3. Found(i)  BY <2>2, <3>2
    <3> QED  BY <3>3, <1>3
  <2>6. CASE ~(f <= LastOf(l, u))
    <3>1. Found(i)  BY <2>6
    <3> QED  BY <3>1, <1>3
  <2> QED  BY <2>4, <2>5, <2>6
<1> HIDE DEF T
<1>7. n \in T  BY <1>3, <1>5, <1>6, Induction
<1>8. Found(n)  BY <1>7 DEF T
<1>9. s + n = t  BY <1>1
<1> QED  BY <1>4, <1>8, <1>9

-----------------------------------------------------------------------------
(* The bytes of a frame *)

LEMMA Lengths ==
  ASSUME NEW l, Mastered(l), NEW s \in DOMAIN l
  PROVE  PacketLength(l, s) \in Nat /\ PacketLength(l, s) > 0
<1>1. PICK n : n = Len(l[s])  OBVIOUS
<1>2. n \in 1..7 /\ n <= SectorSize  BY <1>1, Packets
<1>3. n \in {1, 2, 3, 4, 5, 6, 7}  BY <1>2
<1>4. SectorSize \div n \in Nat /\ SectorSize \div n > 0  BY <1>2, <1>3, AssemblerAssumption
<1> QED  BY <1>1, <1>4 DEF PacketLength

\* What sector s has of frame f.
Part(l, f, s) == IF s \in SectorsOf(l, f) THEN PacketLength(l, s) ELSE 0
Adds(b, l, f) == /\ b \in [0..Len(l) -> Nat] /\ b[0] = 0
                 /\ \A s \in 1..Len(l) : b[s] = b[s - 1] + Part(l, f, s)

\* What Bytes computes sector by sector.
LEMMA BytesAdd ==
  ASSUME NEW l, Mastered(l), NEW f
  PROVE  Adds(Bytes(l, f), l, f)
<1> DEFINE n == Len(l)
           next == [i \in 1..n |-> [v \in Nat |-> v + Part(l, f, i)]]
           Is(b) == b = [s \in 0..n |-> IF s = 0 THEN 0 ELSE b[s - 1] +
                                        IF s \in SectorsOf(l, f) THEN PacketLength(l, s) ELSE 0]
<1>1. n \in Nat /\ DOMAIN l = 1..n  BY DEF Mastered
<1>2. \A i \in 1..n : Part(l, f, i) \in Nat  BY <1>1, Lengths DEF Part
<1>3. Steps(next, n, Nat)  BY <1>2 DEF Steps
<1>4. PICK g : Solves(g, n, Nat, 0, next)
  <2> HIDE DEF next
  <2> QED  BY <1>1, <1>3, Recursion
<1> HIDE DEF n
<1>5. Is(g)
  <2>1. \A i \in 1..n : i - 1 \in 0..n /\ g[i - 1] \in Nat  BY <1>1, <1>4 DEF Solves
  <2>2. \A i \in 1..n, v \in Nat : next[i][v] = v + Part(l, f, i)  OBVIOUS
  <2> HIDE DEF next
  <2>3. \A i \in 1..n : g[i] = g[i - 1] + Part(l, f, i)  BY <1>4, <2>1, <2>2 DEF Solves
  <2>4. g = [i \in 0..n |-> g[i]] /\ g[0] = 0  BY <1>1, <1>4 DEF Solves
  <2>5. \A i \in 0..n : g[i] = IF i = 0 THEN 0 ELSE g[i - 1] + Part(l, f, i)
    <3> TAKE i \in 0..n
    <3>1. i = 0 \/ i \in 1..n  BY <1>1
    <3> QED  BY <2>3, <2>4, <3>1
  <2> QED  BY <2>4, <2>5 DEF Part
<1> DEFINE b == CHOOSE h : Is(h)
<1>6. Is(b)  BY <1>5
<1>7. Bytes(l, f) = b  BY DEF Bytes, n
<1> HIDE DEF b
<1>8. b[0] = 0 /\ \A i \in 1..n : b[i] = b[i - 1] + Part(l, f, i)  BY <1>1, <1>6 DEF Part
<1>9. DOMAIN b = 0..n /\ b = [i \in 0..n |-> b[i]]  BY <1>6
<1> HIDE DEF Is
<1>10. 0..n \subseteq {i \in 0..n : b[i] \in Nat}
  <2> DEFINE T == {i \in 0..n : b[i] \in Nat}
  <2>1. 0 \in T  BY <1>1, <1>8
  <2>2. \A i \in 1..n : i - 1 \in T => i \in T  BY <1>1, <1>2, <1>8
  <2> HIDE DEF T
  <2>3. 0..n \subseteq T  BY <1>1, <2>1, <2>2, Induction
  <2> QED  BY <2>3 DEF T
<1>11. b \in [0..n -> Nat]
  <2>1. \A i \in 0..n : b[i] \in Nat  BY <1>10
  <2> QED  BY <1>9, <2>1
<1>12. Adds(b, l, f)  BY <1>8, <1>11 DEF Adds, n
<1> QED  BY <1>7, <1>12

LEMMA BytesGrow ==
  ASSUME NEW l, Mastered(l), NEW f, NEW s \in 0..Len(l), NEW t \in s..Len(l)
  PROVE  /\ Bytes(l, f)[s] \in Nat /\ Bytes(l, f)[t] \in Nat
         /\ Bytes(l, f)[s] <= Bytes(l, f)[t]
         /\ (\A u \in s + 1..t : u \notin SectorsOf(l, f)) => Bytes(l, f)[s] = Bytes(l, f)[t]
<1>1. PICK b : b = Bytes(l, f)  OBVIOUS
<1>2. Adds(b, l, f)  BY <1>1, BytesAdd
<1>3. Len(l) \in Nat /\ DOMAIN l = 1..Len(l)  BY DEF Mastered
<1>4. \A u \in 1..Len(l) : Part(l, f, u) \in Nat  BY <1>3, Lengths DEF Part
<1> DEFINE n == t - s
           Has(k) == /\ b[s] <= b[s + k]
                     /\ (\A u \in s + 1..s + k : u \notin SectorsOf(l, f)) => b[s] = b[s + k]
           T == {k \in 0..n : Has(k)}
<1>5. n \in Nat /\ s \in Nat /\ \A k \in 0..n : s + k \in 0..Len(l)  BY <1>3
<1>6. \A u \in 0..Len(l) : b[u] \in Nat  BY <1>2 DEF Adds
<1>7. 0 \in T
  <2>1. s + 0 = s /\ b[s] \in Nat  BY <1>5, <1>6
  <2>2. Has(0)  BY <2>1
  <2> HIDE DEF Has
  <2> QED  BY <2>2, <1>5
<1>8. ASSUME NEW i \in 1..n, i - 1 \in T PROVE i \in T
  <2> DEFINE u == s + i
  <2>1. i - 1 \in 0..n /\ i \in 0..n /\ Has(i - 1)
    <3> HIDE DEF Has
    <3> QED  BY <1>5, <1>8
  <2>2. u \in 1..Len(l) /\ u - 1 \in 0..Len(l) /\ s + (i - 1) = u - 1  BY <1>3, <1>5, <2>1
  <2>3. b[u] = b[u - 1] + Part(l, f, u)  BY <2>2, <1>2 DEF Adds
  <2>4. b[u] \in Nat /\ b[u - 1] \in Nat /\ b[s] \in Nat /\ Part(l, f, u) \in Nat
    BY <1>4, <1>5, <1>6, <2>2
  <2>5. b[s] <= b[u - 1]  BY <2>1, <2>2
  <2>6. b[s] <= b[u]
    <3> HIDE DEF u
    <3> QED  BY <2>3, <2>4, <2>5
  <2>7. ASSUME \A v \in s + 1..u : v \notin SectorsOf(l, f) PROVE b[s] = b[u]
    <3>1. u \in s + 1..u /\ \A v \in s + 1..u - 1 : v \in s + 1..u  BY <1>3, <1>5, <2>2
    <3>2. b[s] = b[u - 1]  BY <2>1, <2>2, <2>7, <3>1
    <3>3. Part(l, f, u) = 0  BY <2>7, <3>1 DEF Part
    <3> HIDE DEF u
    <3> QED  BY <2>3, <2>4, <3>2, <3>3
  <2>8. Has(i)  BY <2>6, <2>7
  <2> HIDE DEF Has
  <2> QED  BY <2>1, <2>8
<1> HIDE DEF T
<1>9. n \in T
  <2> HIDE DEF n
  <2>1. 0..n \subseteq T  BY <1>5, <1>7, <1>8, Induction
  <2> QED  BY <1>5, <2>1
<1>10. Has(n) /\ s + n = t  BY <1>3, <1>9 DEF T
<1>11. t \in 0..Len(l)  BY <1>3
<1> QED  BY <1>1, <1>6, <1>10, <1>11

\* The bytes of a frame: none before its start, more with each of its sectors,
\* and all at its end.
LEMMA BytesOfFrame ==
  ASSUME NEW l, Mastered(l), NEW f \in FrameNumbers(l), NEW s \in StartOf(l, f)..EndOf(l, f)
  PROVE  /\ Bytes(l, f)[StartOf(l, f) - 1] = 0
         /\ Bytes(l, f)[s] = Bytes(l, f)[s - 1] + PacketLength(l, s)
         /\ Bytes(l, f)[s - 1] \in Nat /\ Bytes(l, f)[s] \in Nat /\ Bytes(l, f)[s] > 0
         /\ Bytes(l, f)[s] <= Bytes(l, f)[Len(l)]
         /\ Bytes(l, f)[Len(l)] \in Nat /\ Bytes(l, f)[Len(l)] <= MaxSize
         /\ Bytes(l, f)[s] = Bytes(l, f)[Len(l)] <=> s = EndOf(l, f)
<1> DEFINE a == StartOf(l, f)
           e == EndOf(l, f)
<1>1. PICK b : b = Bytes(l, f)  OBVIOUS
<1>2. Adds(b, l, f)  BY <1>1, BytesAdd
<1>3. Len(l) \in Nat /\ DOMAIN l = 1..Len(l)  BY DEF Mastered
<1>4. SectorsOf(l, f) = a..e /\ a \in 1..Len(l) /\ e \in 1..Len(l) /\ a <= e
  BY <1>3, FrameSectors
<1> HIDE DEF a, e
<1>5. s \in a..e /\ s \in 1..Len(l) /\ s - 1 \in 0..Len(l)  BY <1>3, <1>4 DEF a, e
<1>6. \A u \in 0..Len(l) : b[u] \in Nat  BY <1>2 DEF Adds
<1>7. PacketLength(l, s) \in Nat /\ PacketLength(l, s) > 0  BY <1>3, <1>5, Lengths
<1>8. b[s] = b[s - 1] + PacketLength(l, s)
  <2>1. Part(l, f, s) = PacketLength(l, s)  BY <1>4, <1>5 DEF Part
  <2> QED  BY <1>2, <1>5, <2>1 DEF Adds
<1>9. b[a - 1] = 0
  <2>1. 0 \in 0..Len(l) /\ a - 1 \in 0..Len(l) /\ \A u \in 0 + 1..a - 1 : u \notin SectorsOf(l, f)
    BY <1>3, <1>4
  <2>2. b[0] = b[a - 1]  BY <1>1, <2>1, BytesGrow
  <2> QED  BY <2>2, <1>2 DEF Adds
<1>10. Len(l) \in s..Len(l) /\ s \in 0..Len(l)  BY <1>3, <1>5
<1>11. b[s] <= b[Len(l)]  BY <1>1, <1>10, BytesGrow
<1>12. b[Len(l)] <= MaxSize  BY <1>1 DEF Mastered
<1>13. b[s] \in Nat /\ b[s - 1] \in Nat /\ b[Len(l)] \in Nat  BY <1>3, <1>5, <1>6, <1>10
<1>14. ASSUME s = e PROVE b[s] = b[Len(l)]
  <2>1. \A u \in s + 1..Len(l) : u \notin SectorsOf(l, f)  BY <1>3, <1>4, <1>5, <1>14
  <2> QED  BY <1>1, <1>10, <2>1, BytesGrow
<1>15. ASSUME s # e PROVE b[s] < b[Len(l)]
  <2>1. s + 1 \in a..e /\ s + 1 \in 1..Len(l) /\ s + 1 - 1 = s  BY <1>3, <1>4, <1>5, <1>15
  <2>2. Part(l, f, s + 1) = PacketLength(l, s + 1)  BY <1>4, <2>1 DEF Part
  <2>3. PacketLength(l, s + 1) \in Nat /\ PacketLength(l, s + 1) > 0  BY <1>3, <2>1, Lengths
  <2>4. b[s + 1] = b[s] + PacketLength(l, s + 1)  BY <1>2, <2>1, <2>2 DEF Adds
  <2>5. Len(l) \in s + 1..Len(l) /\ s + 1 \in 0..Len(l)  BY <1>3, <2>1
  <2>6. b[s + 1] <= b[Len(l)]  BY <1>1, <2>5, BytesGrow
  <2>7. b[s + 1] \in Nat  BY <1>6, <2>5
  <2> QED  BY <1>13, <2>3, <2>4, <2>6, <2>7
<1>16. b[s] > 0  BY <1>7, <1>8, <1>13
<1>17. b[s] = b[Len(l)] <=> s = e  BY <1>13, <1>14, <1>15
<1> QED  BY <1>1, <1>8, <1>9, <1>11, <1>12, <1>13, <1>16, <1>17 DEF a, e

-----------------------------------------------------------------------------
(* The frame under construction *)

DiscInv == /\ layout \in DstLayouts \cup PlainLayouts /\ dst_encoded \in BOOLEAN
           /\ ~dst_encoded => layout \in PlainLayouts
           /\ first \in DOMAIN layout /\ last \in first..Len(layout)

LEMMA Disc ==
  ASSUME DiscInv
  PROVE  /\ Mastered(layout)
         /\ ~dst_encoded => \A f \in FrameNumbers(layout) : Bytes(layout, f)[Len(layout)] = FrameSize
         /\ Len(layout) \in Nat /\ DOMAIN layout = 1..Len(layout)
         /\ first \in DOMAIN layout /\ last \in DOMAIN layout /\ first <= last
         /\ first..last \subseteq DOMAIN layout
<1>1. Mastered(layout)  BY AssemblerAssumption DEF DiscInv
<1>2. ~dst_encoded => \A f \in FrameNumbers(layout) : Bytes(layout, f)[Len(layout)] = FrameSize
  BY AssemblerAssumption DEF DiscInv
<1>3. Len(layout) \in Nat /\ DOMAIN layout = 1..Len(layout)  BY <1>1 DEF Mastered
<1> QED  BY <1>1, <1>2, <1>3 DEF DiscInv

\* Where a packet is: what was before it, and what it starts.
LEMMA AtPlace ==
  ASSUME NEW l, Mastered(l), NEW start \in DOMAIN l, NEW s \in DOMAIN l, start <= s,
         NEW q \in 1..Len(l[s]), NEW f, f = l[s][q]
  PROVE  /\ f \in FrameNumbers(l) /\ f \in Nat /\ s \in StartOf(l, f)..EndOf(l, f)
         /\ NextStart(l, start) \in Nat /\ Carried(l, s) \in {0, 1}
         /\ Starts(l, s, q) => f >= NextStart(l, start) /\ StartOf(l, f) = s
         /\ q > 1 => Starts(l, s, q) /\ f - 1 = l[s][q - 1]
         /\ q = 1 /\ s = start => (Starts(l, s, q) <=> f = NextStart(l, start))
                                  /\ (~Starts(l, s, q) => f < NextStart(l, start))
         /\ q = 1 /\ s > start => IF Starts(l, s, q) THEN f - 1 = LastOf(l, s - 1)
                                  ELSE f = LastOf(l, s - 1)
<1>1. \A x \in DOMAIN l : /\ l[x][1] \in Nat /\ LastOf(l, x) \in Nat /\ x \in Nat
                          /\ x >= 1 /\ l[x][1] <= LastOf(l, x)
                          /\ Len(l[x]) \in 1..7 /\ LastOf(l, x) = l[x][1] + Len(l[x]) - 1
                          /\ \A i \in 1..Len(l[x]) : l[x][i] = l[x][1] + i - 1
                          /\ x > 1 => /\ x - 1 \in DOMAIN l
                                      /\ l[x][1] \in {LastOf(l, x - 1), LastOf(l, x - 1) + 1}
  <2> TAKE x \in DOMAIN l
  <2>1. x \in Nat /\ x >= 1  BY Packets
  <2>2. /\ l[x][1] \in Nat /\ LastOf(l, x) \in Nat /\ l[x][1] <= LastOf(l, x)
        /\ Len(l[x]) \in 1..7 /\ LastOf(l, x) = l[x][1] + Len(l[x]) - 1
    BY Packets
  <2>3. \A i \in 1..Len(l[x]) : l[x][i] = l[x][1] + i - 1  BY Packets
  <2>4. x > 1 => /\ x - 1 \in DOMAIN l
                 /\ l[x][1] \in {LastOf(l, x - 1), LastOf(l, x - 1) + 1}
    BY Packets
  <2> QED  BY <2>1, <2>2, <2>3, <2>4
<1>2. f \in l[s][1]..LastOf(l, s)  BY <1>1
<1>3. f \in FrameNumbers(l) /\ s \in StartOf(l, f)..EndOf(l, f)  BY <1>2, FrameIn
<1>4. f \in Nat  BY <1>1, <1>2
<1>5. Carried(l, s) \in {0, 1} /\ Carried(l, start) \in {0, 1}  BY DEF Carried
<1>6. NextStart(l, start) \in Nat  BY <1>1, <1>5 DEF NextStart
<1>7. Starts(l, s, q) => StartOf(l, f) = s  BY DEF Starts
<1>8. ASSUME Starts(l, s, q) PROVE f >= NextStart(l, start)
  <2>1. l[start][1] <= f
    <3>1. CASE start = s  BY <1>1, <1>2, <3>1
    <3>2. CASE start < s
      <4>1. LastOf(l, start) <= l[s][1]  BY <3>2, Ascending
      <4>2. \A x \in DOMAIN l : l[x][1] \in Nat /\ LastOf(l, x) \in Nat /\ l[x][1] <= LastOf(l, x)
        BY <1>1
      <4> QED  BY <1>2, <4>1, <4>2
    <3>3. start \in Nat /\ s \in Nat  BY <1>1
    <3> QED  BY <3>1, <3>2, <3>3
  <2>2. CASE Carried(l, start) = 0
    <3>1. NextStart(l, start) = l[start][1]  BY <2>2, <1>1 DEF NextStart
    <3> QED  BY <2>1, <3>1
  <2>3. CASE Carried(l, start) = 1 /\ f = l[start][1]
    <3>1. StartOf(l, f) # start  BY <2>3 DEF Carried, Starts
    <3>2. start \in SectorsOf(l, f)
      <4>1. f \in l[start][1]..LastOf(l, start)  BY <1>1, <2>3
      <4> QED  BY <4>1, InSector
    <3>3. start \in s..EndOf(l, f)  BY <1>3, <1>7, <1>8, <3>2, FrameSectors
    <3>4. start = s  BY <3>3, <1>1
    <3> QED  BY <3>1, <3>4, <1>7, <1>8
  <2>4. CASE Carried(l, start) = 1 /\ f # l[start][1]
    <3>1. NextStart(l, start) = l[start][1] + 1  BY <2>4 DEF NextStart
    <3>2. l[start][1] \in Nat  BY <1>1
    <3> QED  BY <2>1, <2>4, <3>1, <3>2, <1>4
  <2> QED  BY <2>2, <2>3, <2>4, <1>5
<1>9. q > 1 => Starts(l, s, q) /\ f - 1 = l[s][q - 1]
  <2>1. q > 1 => q \in 2..Len(l[s]) /\ q - 1 \in 1..Len(l[s])  BY <1>1
  <2>2. q > 1 => l[s][q - 1] = l[s][1] + (q - 1) - 1 /\ f = l[s][1] + q - 1  BY <1>1, <2>1
  <2>3. q > 1 => f - 1 = l[s][q - 1]  BY <2>2, <1>1
  <2> QED  BY <2>1, <2>3, LaterPacketStarts
<1>10. ASSUME q = 1, s = start
       PROVE  (Starts(l, s, q) <=> f = NextStart(l, start)) /\ (~Starts(l, s, q) => f < NextStart(l, start))
  <2>1. NextStart(l, start) = IF Starts(l, s, q) THEN f ELSE f + 1  BY <1>4, <1>10 DEF NextStart, Carried
  <2> QED  BY <2>1, <1>4
<1>11. ASSUME q = 1, s > start
       PROVE  IF Starts(l, s, q) THEN f - 1 = LastOf(l, s - 1) ELSE f = LastOf(l, s - 1)
  <2>1. Starts(l, s, q) <=> s = 1 \/ f = LastOf(l, s - 1) + 1  BY <1>11, FirstPacketStarts
  <2>2. s > 1 /\ s # 1
    <3>1. s \in Nat /\ start \in Nat /\ start >= 1  BY <1>1
    <3> QED  BY <3>1, <1>11
  <2>3. f \in {LastOf(l, s - 1), LastOf(l, s - 1) + 1} /\ LastOf(l, s - 1) \in Nat  BY <1>1, <1>11, <2>2
  <2> QED  BY <2>1, <2>2, <2>3
<1> QED  BY <1>3, <1>4, <1>5, <1>6, <1>7, <1>8, <1>9, <1>10, <1>11

\* A frame is complete exactly when its last sector has been read.
LEMMA Completed ==
  ASSUME DiscInv, NEW f \in FrameNumbers(layout), f >= NextStart(layout, first),
         NextStart(layout, first) \in Nat,
         NEW s \in StartOf(layout, f)..EndOf(layout, f),
         NEW fr, fr = Held(layout, dst_encoded, first, s, f)
  PROVE  /\ Complete(fr) <=> s = EndOf(layout, f)
         /\ s = EndOf(layout, f) => [timecode |-> fr.timecode, data |-> fr.data] = Entire(layout, f)
<1>1. Mastered(layout)  BY Disc
<1>2. /\ StartOf(layout, f) \in DOMAIN layout /\ EndOf(layout, f) \in DOMAIN layout
      /\ StartOf(layout, f) <= EndOf(layout, f) /\ f \in Nat
      /\ SectorsOf(layout, f) = StartOf(layout, f)..EndOf(layout, f)
  BY <1>1, FrameSectors
<1>3. DOMAIN layout \subseteq Nat  BY Disc
<1> DEFINE n == Cardinality(SectorsOf(layout, f))
           packets == s - StartOf(layout, f) + 1
<1>4. n = EndOf(layout, f) - StartOf(layout, f) + 1
  <2>1. \A a, b \in Nat : a <= b => Cardinality(a..b) = b - a + 1
    <3> TAKE a, b \in Nat
    <3>1. Cardinality(a..b) = IF a > b THEN 0 ELSE b - a + 1  BY FS_Interval
    <3> QED  BY <3>1
  <2> QED  BY <1>2, <1>3, <2>1
<1>5. n \in Nat /\ packets \in Int /\ (packets = n <=> s = EndOf(layout, f))  BY <1>2, <1>3, <1>4
<1> HIDE DEF n
<1>6. /\ fr.started = TRUE /\ fr.size = Bytes(layout, f)[s] /\ fr.timecode = f
      /\ fr.sector_count = n - IF dst_encoded THEN packets ELSE 0
      /\ fr.data = Pieces(layout, f, packets)
  <2>1. ~(f < NextStart(layout, first))  BY <1>2
  <2> QED  BY <2>1 DEF Held, n
<1> HIDE DEF packets
<1>7. fr.size > 0 /\ (fr.size = Bytes(layout, f)[Len(layout)] <=> s = EndOf(layout, f))
  BY <1>1, <1>6, BytesOfFrame
<1>8. Complete(fr) <=> s = EndOf(layout, f)
  <2>1. CASE dst_encoded
    <3>1. fr.sector_count = n - packets  BY <1>6, <2>1
    <3>2. fr.sector_count = 0 <=> packets = n  BY <1>5, <3>1
    <3>3. Complete(fr) <=> fr.sector_count = 0  BY <1>6, <1>7, <2>1 DEF Complete
    <3> QED  BY <1>5, <3>2, <3>3
  <2>2. CASE ~dst_encoded
    <3>1. Bytes(layout, f)[Len(layout)] = FrameSize  BY <2>2, Disc
    <3>2. Complete(fr) <=> fr.size = FrameSize  BY <1>6, <1>7, <2>2 DEF Complete
    <3> QED  BY <1>7, <3>1, <3>2
  <2> QED  BY <2>1, <2>2
<1>9. s = EndOf(layout, f) => [timecode |-> fr.timecode, data |-> fr.data] = Entire(layout, f)
  BY <1>5, <1>6 DEF Entire, n
<1> QED  BY <1>8, <1>9

LEMMA Appended ==
  ASSUME NEW n \in Nat, NEW S, NEW g \in [1..n -> S], NEW e \in S
  PROVE  Append(g, e) = [i \in 1..n + 1 |-> IF i = n + 1 THEN e ELSE g[i]]
<1>1. g \in Seq(S) /\ Len(g) = n  OBVIOUS
<1>2. PICK h : h = Append(g, e)  OBVIOUS
<1>3. h \in Seq(S) /\ Len(h) = n + 1 /\ (\A i \in 1..n : h[i] = g[i]) /\ h[n + 1] = e
  BY <1>1, <1>2, AppendProperties
<1>4. \A i \in 1..n + 1 : h[i] = IF i = n + 1 THEN e ELSE g[i]  BY <1>3
<1>5. h = [i \in 1..n + 1 |-> h[i]]  BY <1>3
<1> QED  BY <1>2, <1>4, <1>5

LEMMA PassedOnNext ==
  ASSUME NEW l, NEW start, NEW f \in Nat, NextStart(l, start) \in Nat, f >= NextStart(l, start)
  PROVE  Append(PassedOn(l, start, f), Entire(l, f)) = PassedOn(l, start, f + 1)
<1>1. PICK w \in Nat : w = NextStart(l, start)  OBVIOUS
<1> DEFINE n == f - w
           S == {Entire(l, x) : x \in Int}
           g == [i \in 1..n |-> Entire(l, w + i - 1)]
           h == [i \in 1..n + 1 |-> Entire(l, w + i - 1)]
<1>2. n \in Nat /\ w + (n + 1) - 1 = f /\ f + 1 - w = n + 1  BY <1>1
<1>3. g \in [1..n -> S] /\ Entire(l, f) \in S  BY <1>1
<1>4. h = [i \in 1..n + 1 |-> IF i = n + 1 THEN Entire(l, f) ELSE g[i]]
  <2>1. \A i \in 1..n + 1 : i # n + 1 => i \in 1..n  BY <1>2
  <2>2. \A i \in 1..n + 1 : i = n + 1 => Entire(l, w + i - 1) = Entire(l, f)  BY <1>2
  <2> HIDE DEF n
  <2> QED  BY <2>1, <2>2
<1>5. g = PassedOn(l, start, f) /\ h = PassedOn(l, start, f + 1)
  BY <1>1, <1>2 DEF PassedOn, EntireFrom
<1> HIDE DEF n, S, g, h
<1>6. PICK e \in S : e = Entire(l, f)  BY <1>3
<1>7. Append(g, e) = [i \in 1..n + 1 |-> IF i = n + 1 THEN e ELSE g[i]]  BY <1>2, <1>3, Appended
<1> QED  BY <1>4, <1>5, <1>6, <1>7

LEMMA PiecesNext ==
  ASSUME NEW l, NEW f, NEW n \in Nat, StartOf(l, f) \in Nat
  PROVE  Append(Pieces(l, f, n), Piece(f, StartOf(l, f) + n, TRUE)) = Pieces(l, f, n + 1)
<1>1. PICK a \in Nat : a = StartOf(l, f)  OBVIOUS
<1> DEFINE S == {Piece(f, x, TRUE) : x \in Int}
           g == [i \in 1..n |-> Piece(f, a + i - 1, TRUE)]
           h == [i \in 1..n + 1 |-> Piece(f, a + i - 1, TRUE)]
<1>2. a + (n + 1) - 1 = a + n  BY <1>1
<1>3. g \in [1..n -> S] /\ Piece(f, a + n, TRUE) \in S
  <2>1. \A x \in Int : Piece(f, x, TRUE) \in S  BY Zenon
  <2>2. \A i \in 1..n : a + i - 1 \in Int /\ a + n \in Int  BY <1>1
  <2>3. \A i \in 1..n : g[i] = Piece(f, a + i - 1, TRUE)  BY Zenon
  <2>4. a + n \in Int  BY <1>1
  <2> HIDE DEF S
  <2>5. \A i \in 1..n : g[i] \in S  BY <2>1, <2>2, <2>3
  <2>6. g = [i \in 1..n |-> g[i]]  BY Zenon
  <2> HIDE DEF g
  <2> QED  BY <2>1, <2>4, <2>5, <2>6
<1>4. h = [i \in 1..n + 1 |-> IF i = n + 1 THEN Piece(f, a + n, TRUE) ELSE g[i]]
  <2>1. \A i \in 1..n + 1 : i # n + 1 => i \in 1..n  OBVIOUS
  <2>2. \A i \in 1..n + 1 : i = n + 1 => Piece(f, a + i - 1, TRUE) = Piece(f, a + n, TRUE)
    BY <1>2
  <2> QED  BY <2>1, <2>2
<1>5. g = Pieces(l, f, n) /\ h = Pieces(l, f, n + 1)  BY <1>1 DEF Pieces
<1> HIDE DEF S, g, h
<1>6. PICK e \in S : e = Piece(f, a + n, TRUE)  BY <1>3
<1>7. Append(g, e) = [i \in 1..n + 1 |-> IF i = n + 1 THEN e ELSE g[i]]  BY <1>3, Appended
<1> QED  BY <1>1, <1>4, <1>5, <1>6, <1>7

Fields == {"started", "size", "timecode", "sector_count", "data"}
Changed(fr, size, d, c) == [fr EXCEPT !.size = size, !.data = d, !.sector_count = c]
FrameOf(started, size, timecode, c, d) ==
  [started |-> started, size |-> size, timecode |-> timecode, sector_count |-> c, data |-> d]

LEMMA FrameChanged ==
  ASSUME NEW fr, DOMAIN fr = Fields, NEW size, NEW c, NEW d
  PROVE  Changed(fr, size, d, c) = FrameOf(fr.started, size, fr.timecode, c, d)
<1> USE DEF Fields
<1> DEFINE g == [fr EXCEPT !.size = size, !.data = d, !.sector_count = c]
           h == [started |-> fr["started"], size |-> size, timecode |-> fr["timecode"],
                 sector_count |-> c, data |-> d]
           F == {"started", "size", "timecode", "sector_count", "data"}
<1>1. DOMAIN g = F  OBVIOUS
<1>2. /\ g["started"] = fr["started"] /\ g["size"] = size /\ g["timecode"] = fr["timecode"]
      /\ g["sector_count"] = c /\ g["data"] = d
  OBVIOUS
<1>3. /\ h["started"] = fr["started"] /\ h["size"] = size /\ h["timecode"] = fr["timecode"]
      /\ h["sector_count"] = c /\ h["data"] = d
  OBVIOUS
<1>4. g = [x \in F |-> g[x]] /\ h = [x \in F |-> h[x]]  BY <1>1
<1>5. g = h
  <2> HIDE DEF g, h
  <2>1. \A x \in F : g[x] = h[x]  BY <1>2, <1>3
  <2> HIDE DEF F
  <2> QED  BY <2>1, <1>4
<1> QED  BY <1>5 DEF Changed, FrameOf

\* A packet of the frame is added.
LEMMA AddPacket ==
  ASSUME DiscInv, NEW f \in FrameNumbers(layout), NextStart(layout, first) \in Nat,
         f >= NextStart(layout, first), NEW s \in StartOf(layout, f)..EndOf(layout, f),
         NEW fr, fr = [started |-> TRUE, size |-> Bytes(layout, f)[s - 1], timecode |-> f,
                       sector_count |-> Cardinality(SectorsOf(layout, f)) -
                                        IF dst_encoded THEN s - StartOf(layout, f) ELSE 0,
                       data |-> Pieces(layout, f, s - StartOf(layout, f))]
  PROVE  /\ Fits(fr, PacketLength(layout, s))
         /\ Extended(fr, PacketLength(layout, s), Piece(f, s, TRUE))
              = Held(layout, dst_encoded, first, s, f)
<1>1. Mastered(layout)  BY Disc
<1>2. /\ StartOf(layout, f) \in DOMAIN layout /\ EndOf(layout, f) \in DOMAIN layout
      /\ f \in Nat /\ SectorsOf(layout, f) = StartOf(layout, f)..EndOf(layout, f)
  BY <1>1, FrameSectors
<1>3. DOMAIN layout \subseteq Nat  BY Disc
<1>4. PICK a \in Nat : a = StartOf(layout, f)  BY <1>2, <1>3
<1>5. s \in Nat /\ a <= s  BY <1>2, <1>3, <1>4
<1>6. PICK k \in Nat : k = s - a  BY <1>4, <1>5
<1>7. PICK n \in Nat : n = Cardinality(SectorsOf(layout, f))
  <2>1. StartOf(layout, f) \in Int /\ EndOf(layout, f) \in Int  BY <1>2, <1>3
  <2>2. IsFiniteSet(SectorsOf(layout, f))  BY <1>2, <2>1, FS_Interval
  <2> QED  BY <2>2, FS_CardinalityType
<1>8. PICK b : b = Bytes(layout, f)  OBVIOUS
<1>9. PICK length : length = PacketLength(layout, s)  OBVIOUS
<1>10. /\ b[s] = b[s - 1] + length /\ b[s - 1] \in Nat /\ b[s] <= MaxSize
  <2>1. /\ b[s] = b[s - 1] + length /\ b[s - 1] \in Nat /\ b[s] \in Nat
        /\ b[s] <= b[Len(layout)] /\ b[Len(layout)] \in Nat /\ b[Len(layout)] <= MaxSize
    BY <1>1, <1>8, <1>9, BytesOfFrame
  <2>2. MaxSize \in Nat  BY AssemblerAssumption
  <2> QED  BY <2>1, <2>2
<1>11. PICK d : d = Pieces(layout, f, k)  OBVIOUS
<1>12. Append(d, Piece(f, s, TRUE)) = Pieces(layout, f, k + 1)
  <2>1. s = StartOf(layout, f) + k  BY <1>4, <1>5, <1>6
  <2> QED  BY <2>1, <1>4, <1>11, PiecesNext
<1>13. PICK c \in Int : c = n - IF dst_encoded THEN k ELSE 0  BY <1>6, <1>7
<1>14. fr = [started |-> TRUE, size |-> b[s - 1], timecode |-> f, sector_count |-> c, data |-> d]
  BY <1>4, <1>6, <1>7, <1>8, <1>11, <1>13
<1>15. Fits(fr, length)  BY <1>10, <1>14 DEF Fits
<1>16. Extended(fr, length, Piece(f, s, TRUE)) =
         [started |-> TRUE, size |-> b[s], timecode |-> f,
          sector_count |-> IF dst_encoded THEN c - 1 ELSE c, data |-> Pieces(layout, f, k + 1)]
  <2>1. PICK piece : piece = Piece(f, s, TRUE)  OBVIOUS
  <2>2. fr.started = TRUE /\ fr.size = b[s - 1] /\ fr.data = d /\ fr.sector_count = c
    BY <1>14
  <2>3. Extended(fr, length, piece) =
          [fr EXCEPT !.size = fr.size + length, !.data = Append(fr.data, piece),
                     !.sector_count = IF dst_encoded THEN fr.sector_count - 1 ELSE fr.sector_count]
    BY <1>15, <2>2 DEF Extended
  <2>4. PICK e : e = IF dst_encoded THEN c - 1 ELSE c  OBVIOUS
  <2>5. PICK v : v = Append(d, piece)  OBVIOUS
  <2>6. Extended(fr, length, piece) = Changed(fr, b[s], v, e)
    <3>1. fr.size + length = b[s]  BY <1>10, <2>2
    <3>2. (IF dst_encoded THEN fr.sector_count - 1 ELSE fr.sector_count) = e  BY <2>2, <2>4
    <3>3. Append(fr.data, piece) = v  BY <2>2, <2>5
    <3> QED  BY Zenon, <2>3, <3>1, <3>2, <3>3 DEF Changed
  <2>7. Changed(fr, b[s], v, e) = FrameOf(TRUE, b[s], f, e, v)
    <3>1. DOMAIN fr = Fields /\ fr.timecode = f
      <4>1. DOMAIN fr = Fields  BY <1>14 DEF Fields
      <4>2. fr.timecode = f  BY <1>14
      <4> QED  BY <4>1, <4>2
    <3>2. Changed(fr, b[s], v, e) = FrameOf(fr.started, b[s], fr.timecode, e, v)
      BY Zenon, <3>1, FrameChanged
    <3> QED  BY Zenon, <2>2, <3>1, <3>2
  <2>8. FrameOf(TRUE, b[s], f, e, v) =
          [started |-> TRUE, size |-> b[s], timecode |-> f, sector_count |-> e, data |-> v]
    BY Zenon DEF FrameOf
  <2> QED  BY Zenon, <1>12, <2>1, <2>4, <2>5, <2>6, <2>7, <2>8
<1>17. Held(layout, dst_encoded, first, s, f) =
         [started |-> TRUE, size |-> b[s], timecode |-> f,
          sector_count |-> n - IF dst_encoded THEN k + 1 ELSE 0, data |-> Pieces(layout, f, k + 1)]
  <2>1. ~(f < NextStart(layout, first))  BY <1>2
  <2>2. s - StartOf(layout, f) + 1 = k + 1  BY <1>4, <1>6
  <2> QED  BY <2>1, <2>2, <1>7, <1>8 DEF Held
<1>18. (IF dst_encoded THEN c - 1 ELSE c) = n - IF dst_encoded THEN k + 1 ELSE 0
  <2>1. CASE dst_encoded  BY <2>1, <1>13
  <2>2. CASE ~dst_encoded  BY <2>2, <1>13
  <2> QED  BY <2>1, <2>2
<1> QED  BY <1>9, <1>15, <1>16, <1>17, <1>18

LEMMA BeginFrame ==
  ASSUME DiscInv, NEW s \in first..last, NEW q \in 1..Len(layout[s]), Starts(layout, s, q),
         NEW f, f = layout[s][q]
  PROVE  /\ Fits(Begun(InfoOf(layout, f)), PacketLength(layout, s))
         /\ Extended(Begun(InfoOf(layout, f)), PacketLength(layout, s), Piece(f, s, TRUE))
              = Held(layout, dst_encoded, first, s, f)
<1>1. Mastered(layout) /\ s \in DOMAIN layout /\ first \in DOMAIN layout /\ first <= s /\ DOMAIN layout \subseteq Nat
  BY Disc
<1>2. /\ f \in FrameNumbers(layout) /\ s \in StartOf(layout, f)..EndOf(layout, f)
      /\ NextStart(layout, first) \in Nat /\ f >= NextStart(layout, first) /\ StartOf(layout, f) = s
  BY <1>1, AtPlace
<1>3. Bytes(layout, f)[s - 1] = 0  BY <1>1, <1>2, BytesOfFrame
<1>4. /\ SectorsOf(layout, f) = StartOf(layout, f)..EndOf(layout, f)
      /\ EndOf(layout, f) \in DOMAIN layout /\ StartOf(layout, f) \in DOMAIN layout
  BY <1>1, <1>2, FrameSectors
<1>5. PICK n \in Nat : n = Cardinality(SectorsOf(layout, f))
  <2>1. StartOf(layout, f) \in Int /\ EndOf(layout, f) \in Int  BY <1>1, <1>4
  <2>2. IsFiniteSet(SectorsOf(layout, f))  BY <1>4, <2>1, FS_Interval
  <2> QED  BY <2>2, FS_CardinalityType
<1>6. s - StartOf(layout, f) = 0  BY <1>1, <1>2
<1>7. Pieces(layout, f, 0) = <<>>  BY DEF Pieces
<1>8. n - (IF dst_encoded THEN 0 ELSE 0) = n  OBVIOUS
<1>9. Begun(InfoOf(layout, f)) =
        [started |-> TRUE, size |-> Bytes(layout, f)[s - 1], timecode |-> f,
         sector_count |-> Cardinality(SectorsOf(layout, f)) -
                          IF dst_encoded THEN s - StartOf(layout, f) ELSE 0,
         data |-> Pieces(layout, f, s - StartOf(layout, f))]
  BY <1>3, <1>5, <1>6, <1>7, <1>8 DEF Begun, InfoOf
<1> QED  BY <1>2, <1>9, AddPacket

\* A packet that goes on with the frame before the sector.
LEMMA ContinueFrame ==
  ASSUME DiscInv, NEW s \in first..last, ~Starts(layout, s, 1), NEW f, f = layout[s][1],
         frame = IF s = first THEN NoFrame
                 ELSE Held(layout, dst_encoded, first, s - 1, LastOf(layout, s - 1))
  PROVE  /\ frame.started => Fits(frame, PacketLength(layout, s))
         /\ Extended(frame, PacketLength(layout, s), Piece(f, s, TRUE))
              = Held(layout, dst_encoded, first, s, f)
<1>1. Mastered(layout) /\ s \in DOMAIN layout /\ first \in DOMAIN layout /\ first <= s /\ DOMAIN layout \subseteq Nat
  BY Disc
<1>2. 1 \in 1..Len(layout[s])  BY <1>1, Packets
<1>3. /\ f \in FrameNumbers(layout) /\ f \in Nat /\ s \in StartOf(layout, f)..EndOf(layout, f)
      /\ NextStart(layout, first) \in Nat
      /\ s = first => f < NextStart(layout, first)
      /\ s > first => f = LastOf(layout, s - 1)
  BY <1>1, <1>2, AtPlace
<1>4. CASE f < NextStart(layout, first)
  <2>1. frame = NoFrame
    <3>1. CASE s # first
      <4>1. f = LastOf(layout, s - 1)  BY <1>1, <1>3, <3>1
      <4> QED  BY <3>1, <4>1, <1>4 DEF Held
    <3> QED  BY <3>1
  <2>2. ~frame.started /\ Extended(frame, PacketLength(layout, s), Piece(f, s, TRUE)) = frame
    BY <2>1 DEF NoFrame, Extended
  <2>3. Held(layout, dst_encoded, first, s, f) = NoFrame  BY <1>4 DEF Held
  <2> QED  BY <2>1, <2>2, <2>3
<1>5. CASE f >= NextStart(layout, first)
  <2>1. s # first /\ s > first /\ f = LastOf(layout, s - 1)  BY <1>1, <1>3, <1>5
  <2>2. frame = Held(layout, dst_encoded, first, s - 1, f)  BY <2>1
  <2>3. ~(f < NextStart(layout, first))  BY <1>3, <1>5
  <2>4. StartOf(layout, f) \in Nat /\ s \in Nat
    <3>1. StartOf(layout, f) \in DOMAIN layout  BY <1>1, <1>3, FrameSectors
    <3> QED  BY <3>1, <1>1
  <2>5. s - 1 - StartOf(layout, f) + 1 = s - StartOf(layout, f)  BY <2>4
  <2>6. frame = [started |-> TRUE, size |-> Bytes(layout, f)[s - 1], timecode |-> f,
                 sector_count |-> Cardinality(SectorsOf(layout, f)) -
                                  IF dst_encoded THEN s - StartOf(layout, f) ELSE 0,
                 data |-> Pieces(layout, f, s - StartOf(layout, f))]
    BY <2>2, <2>3, <2>5 DEF Held
  <2>7. PICK fr : fr = frame  OBVIOUS
  <2>8. /\ Fits(fr, PacketLength(layout, s))
        /\ Extended(fr, PacketLength(layout, s), Piece(f, s, TRUE))
             = Held(layout, dst_encoded, first, s, f)
    BY <1>3, <1>5, <2>6, <2>7, AddPacket
  <2>9. Fits(frame, PacketLength(layout, s))  BY Zenon, <2>7, <2>8
  <2>10. Extended(frame, PacketLength(layout, s), Piece(f, s, TRUE))
           = Held(layout, dst_encoded, first, s, f)
    BY Zenon, <2>7, <2>8
  <2> QED  BY <2>9, <2>10
<1>6. f < NextStart(layout, first) \/ f >= NextStart(layout, first)  BY <1>3
<1> QED  BY Zenon, <1>4, <1>5, <1>6

\* The frame before one that starts, and the sector of its last packet.
LEMMA FrameBefore ==
  ASSUME DiscInv, NEW s \in first..last, NEW q \in 1..Len(layout[s]), Starts(layout, s, q),
         ~(q = 1 /\ s = first), NEW f, f = layout[s][q],
         NEW g, g = IF q = 1 THEN LastOf(layout, s - 1) ELSE layout[s][q - 1],
         NEW t, t = IF q = 1 THEN s - 1 ELSE s
  PROVE  /\ g \in FrameNumbers(layout) /\ g \in Nat /\ f = g + 1
         /\ t \in DOMAIN layout /\ first <= t
         /\ t \in StartOf(layout, g)..EndOf(layout, g) /\ EndOf(layout, g) = t
<1>1. Mastered(layout) /\ s \in DOMAIN layout /\ first \in DOMAIN layout /\ first <= s /\ DOMAIN layout \subseteq Nat
  BY Disc
<1>2. /\ f \in FrameNumbers(layout) /\ f \in Nat /\ s \in StartOf(layout, f)..EndOf(layout, f)
      /\ q > 1 => f - 1 = layout[s][q - 1]
      /\ q = 1 /\ s > first => f - 1 = LastOf(layout, s - 1)
  BY <1>1, AtPlace
<1>3. t \in DOMAIN layout /\ first <= t
      /\ \E i \in 1..Len(layout[t]) : g = layout[t][i]
  <2>1. CASE q = 1
    <3>1. s # first /\ s > first /\ s > 1
      <4>1. first >= 1 /\ s # first  BY <2>1, Disc
      <4> QED  BY <4>1, <1>1
    <3>2. s - 1 \in DOMAIN layout /\ first <= s - 1  BY <1>1, <3>1, Packets
    <3>3. Len(layout[s - 1]) \in 1..Len(layout[s - 1])  BY <1>1, <3>2, Packets
    <3>4. g = layout[s - 1][Len(layout[s - 1])]  BY <2>1 DEF LastOf
    <3> QED  BY <2>1, <3>2, <3>3, <3>4
  <2>2. CASE q # 1
    <3>1. q > 1 /\ q - 1 \in 1..Len(layout[s])  BY <2>2, <1>1, Packets
    <3> QED  BY <1>1, <2>2, <3>1
  <2> QED  BY <2>1, <2>2
<1>4. g \in FrameNumbers(layout) /\ g \in Nat /\ t \in StartOf(layout, g)..EndOf(layout, g)
  <2>1. PICK i \in 1..Len(layout[t]) : g = layout[t][i]  BY <1>3
  <2>2. t \in SectorsOf(layout, g)  BY <1>3, <2>1 DEF SectorsOf
  <2>3. g \in FrameNumbers(layout)  BY <1>3, <2>1 DEF FrameNumbers
  <2> QED  BY <1>1, <2>2, <2>3, FrameSectors
<1>5. f = g + 1
  <2>1. g = f - 1
    <3>1. CASE q = 1
      <4>1. s # first  BY <3>1
      <4>2. s > first  BY <4>1, <1>1
      <4> QED  BY <1>2, <3>1, <4>2
    <3>2. CASE q # 1
      <4>1. q > 1  BY <3>2, <1>1, Packets
      <4> QED  BY <1>2, <3>2, <4>1
    <3> QED  BY <3>1, <3>2
  <2> QED  BY <1>2, <2>1
<1>6. PICK e : e = EndOf(layout, g)  OBVIOUS
<1>7. e \in DOMAIN layout /\ e \in SectorsOf(layout, g)
  <2>1. /\ EndOf(layout, g) \in DOMAIN layout /\ StartOf(layout, g) \in DOMAIN layout
        /\ StartOf(layout, g) <= EndOf(layout, g)
        /\ SectorsOf(layout, g) = StartOf(layout, g)..EndOf(layout, g)
    BY <1>1, <1>4, FrameSectors
  <2> QED  BY <1>6, <2>1, <1>1
<1>8. g \in layout[e][1]..LastOf(layout, e)  BY <1>1, <1>7, InSector
<1>9. \A x \in DOMAIN layout : layout[x][1] \in Nat /\ LastOf(layout, x) \in Nat
  BY <1>1, Packets
<1>10. f \in layout[s][1]..LastOf(layout, s)
  <2>1. s \in SectorsOf(layout, f)  BY <1>1, <1>2, FrameSectors
  <2> QED  BY <2>1, <1>1, InSector
<1>11. e <= s
  <2>1. ASSUME s < e PROVE FALSE
    <3>1. LastOf(layout, s) <= layout[e][1]  BY <1>1, <1>7, <2>1, Ascending
    <3>2. PICK y \in Nat : y = LastOf(layout, s)  BY <1>1, <1>9
    <3>3. PICK z \in Nat : z = layout[e][1]  BY <1>7, <1>9
    <3>4. g + 1 <= y /\ z <= g /\ y <= z
      <4>1. f <= y  BY <1>10, <3>2
      <4>2. z <= g  BY <1>8, <3>3
      <4> QED  BY <1>5, <3>1, <3>2, <3>3, <4>1, <4>2
    <3> QED  BY <1>4, <3>4
  <2> QED  BY <1>1, <1>7, <2>1
<1>12. q = 1 => e # s
  <2> SUFFICES ASSUME q = 1, e = s PROVE FALSE  OBVIOUS
  <2>1. PICK z \in Nat : z = layout[s][1]  BY <1>1, <1>9
  <2>2. z <= g /\ z = g + 1
    <3>1. z <= g  BY <1>8, <2>1
    <3> QED  BY <1>5, <2>1, <3>1
  <2> QED  BY <1>4, <2>2
<1>13. t <= e
  <2>1. EndOf(layout, g) \in DOMAIN layout /\ StartOf(layout, g) \in DOMAIN layout
    BY <1>1, <1>4, FrameSectors
  <2> QED  BY <2>1, <1>1, <1>3, <1>4, <1>6
<1>14. t = e  BY <1>1, <1>3, <1>7, <1>11, <1>12, <1>13
<1> QED  BY <1>3, <1>4, <1>5, <1>6, <1>14

\* When a packet starts a frame, the frame before it is passed on.
LEMMA PassOnPrevious ==
  ASSUME DiscInv, NEW s \in first..last, NEW q \in 1..Len(layout[s]), Starts(layout, s, q),
         NEW f, f = layout[s][q],
         IF q = 1 THEN SectorsDone(s) ELSE Assembled(s, layout[s][q - 1])
  PROVE  PassOn(frame) = PassedOn(layout, first, f)
<1>1. Mastered(layout) /\ s \in DOMAIN layout /\ first \in DOMAIN layout /\ first <= s /\ DOMAIN layout \subseteq Nat
  BY Disc
<1>2. /\ f \in Nat /\ NextStart(layout, first) \in Nat /\ f >= NextStart(layout, first)
      /\ q = 1 /\ s = first => f = NextStart(layout, first)
  BY <1>1, AtPlace
<1>3. CASE q = 1 /\ s = first
  <2>1. PassedOn(layout, first, f) = <<>>  BY <1>2, <1>3 DEF PassedOn, EntireFrom
  <2>2. frame = NoFrame /\ frames = <<>>  BY <1>3 DEF SectorsDone
  <2> QED  BY <2>1, <2>2 DEF PassOn, Complete, NoFrame
<1>4. CASE ~(q = 1 /\ s = first)
  <2>1. PICK g : g = IF q = 1 THEN LastOf(layout, s - 1) ELSE layout[s][q - 1]  OBVIOUS
  <2>2. PICK t : t = IF q = 1 THEN s - 1 ELSE s  OBVIOUS
  <2>3. Assembled(t, g)  BY <1>4, <2>1, <2>2 DEF SectorsDone
  <2>4. /\ g \in FrameNumbers(layout) /\ g \in Nat /\ f = g + 1
        /\ t \in StartOf(layout, g)..EndOf(layout, g) /\ EndOf(layout, g) = t
    BY <1>4, <2>1, <2>2, FrameBefore
  <2>5. frame = Held(layout, dst_encoded, first, t, g) /\ frames = PassedOn(layout, first, g)
    BY <2>3 DEF Assembled
  <2>6. CASE g < NextStart(layout, first)
    <3>1. frame = NoFrame  BY <2>5, <2>6 DEF Held
    <3>2. PassOn(frame) = frames  BY <3>1 DEF PassOn, Complete, NoFrame
    <3>3. f = NextStart(layout, first)  BY <1>2, <2>4, <2>6
    <3>4. PassedOn(layout, first, g) = <<>> /\ PassedOn(layout, first, f) = <<>>
      BY <1>2, <2>4, <3>3 DEF PassedOn, EntireFrom
    <3> QED  BY <2>5, <3>2, <3>4
  <2>7. CASE g >= NextStart(layout, first)
    <3>1. Complete(frame) /\ [timecode |-> frame.timecode, data |-> frame.data] = Entire(layout, g)
      BY <1>2, <2>4, <2>5, <2>7, Completed
    <3>2. PassOn(frame) = Append(PassedOn(layout, first, g), Entire(layout, g))
      BY <2>5, <3>1 DEF PassOn
    <3> QED  BY <1>2, <2>4, <2>7, <3>2, PassedOnNext
  <2> QED  BY <1>2, <2>4, <2>6, <2>7
<1> QED  BY <1>3, <1>4

\* The frames that lie in the file as a whole: from the first that starts in it
\* to the last that ends in it.
LEMMA WholeFrames ==
  ASSUME DiscInv, NEW w, w = NextStart(layout, first), NEW f0, f0 = LastOf(layout, last)
  PROVE  /\ w \in Nat /\ f0 \in Nat /\ f0 \in FrameNumbers(layout)
         /\ last \in StartOf(layout, f0)..EndOf(layout, f0)
         /\ Whole = {f \in w..f0 : f = f0 => EndOf(layout, f0) = last}
<1>1. Mastered(layout) /\ first \in DOMAIN layout /\ last \in DOMAIN layout /\ first <= last
      /\ DOMAIN layout \subseteq Nat
  BY Disc
<1>2. \A x \in DOMAIN layout :
        layout[x][1] \in Nat /\ LastOf(layout, x) \in Nat /\ layout[x][1] <= LastOf(layout, x)
  BY <1>1, Packets
<1>3. Carried(layout, first) \in {0, 1}  BY DEF Carried
<1>4. w = layout[first][1] + Carried(layout, first) /\ w \in Nat  BY <1>1, <1>2, <1>3 DEF NextStart
<1>5. f0 \in Nat /\ f0 \in layout[last][1]..LastOf(layout, last)  BY <1>1, <1>2
<1>6. f0 \in FrameNumbers(layout) /\ last \in StartOf(layout, f0)..EndOf(layout, f0)
  BY <1>1, <1>5, FrameIn
<1>7. \A f \in FrameNumbers(layout) :
        /\ SectorsOf(layout, f) = StartOf(layout, f)..EndOf(layout, f)
        /\ StartOf(layout, f) \in DOMAIN layout /\ EndOf(layout, f) \in DOMAIN layout
        /\ StartOf(layout, f) <= EndOf(layout, f) /\ f \in Nat
  BY <1>1, FrameSectors
<1>8. \A f \in FrameNumbers(layout) : \A s \in StartOf(layout, f)..EndOf(layout, f) :
        f \in layout[s][1]..LastOf(layout, s) /\ s \in DOMAIN layout
  <2> TAKE f \in FrameNumbers(layout)
  <2> TAKE s \in StartOf(layout, f)..EndOf(layout, f)
  <2>1. s \in SectorsOf(layout, f)  BY <1>7
  <2>2. s \in DOMAIN layout  BY <2>1 DEF SectorsOf
  <2> QED  BY <1>1, <2>1, <2>2, InSector
<1>9. Carried(layout, first) = 0 <=> StartOf(layout, layout[first][1]) = first
  BY DEF Carried, Starts
<1>10. ASSUME NEW f \in FrameNumbers(layout)
       PROVE  StartOf(layout, f) >= first <=> f >= w
  <2>1. PICK a \in DOMAIN layout : a = StartOf(layout, f)  BY <1>7
  <2>2. f \in layout[a][1]..LastOf(layout, a) /\ a \in Nat /\ first \in Nat /\ f \in Nat
    BY <1>1, <1>7, <1>8, <2>1
  <2>3. CASE a < first
    <3>1. LastOf(layout, a) <= layout[first][1]  BY <1>1, <2>3, Ascending
    <3>2. f <= layout[first][1]  BY <1>1, <1>2, <2>2, <3>1
    <3>3. f = layout[first][1] => Carried(layout, first) # 0  BY <1>9, <2>1, <2>2, <2>3
    <3>4. f < w  BY <1>1, <1>2, <1>3, <1>4, <2>2, <3>2, <3>3
    <3> QED  BY <2>1, <2>2, <2>3, <3>4, <1>4
  <2>4. CASE a >= first
    <3>1. layout[first][1] <= f
      <4>1. CASE a = first  BY <4>1, <1>1, <1>2, <2>2
      <4>2. CASE a > first
        <5>1. LastOf(layout, first) <= layout[a][1]  BY <1>1, <4>2, Ascending
        <5> QED  BY <5>1, <1>1, <1>2, <2>2
      <4> QED  BY <4>1, <4>2, <2>2, <2>4
    <3>2. f = layout[first][1] => Carried(layout, first) = 0
      <4>1. ASSUME f = layout[first][1] PROVE a = first
        <5>1. first \in SectorsOf(layout, f)
          <6>1. f \in layout[first][1]..LastOf(layout, first)  BY <4>1, <1>1, <1>2
          <6> QED  BY <6>1, <1>1, InSector
        <5>2. first \in a..EndOf(layout, f)  BY <5>1, <1>7, <2>1
        <5> QED  BY <5>2, <2>2, <2>4
      <4> QED  BY <4>1, <1>9, <2>1
    <3>3. f >= w  BY <1>1, <1>2, <1>3, <1>4, <2>2, <3>1, <3>2
    <3> QED  BY <2>1, <2>4, <3>3
  <2> QED  BY <2>2, <2>3, <2>4
<1>11. ASSUME NEW f \in FrameNumbers(layout)
       PROVE  EndOf(layout, f) <= last <=> f < f0 \/ (f = f0 /\ EndOf(layout, f0) = last)
  <2>1. PICK e \in DOMAIN layout : e = EndOf(layout, f)  BY <1>7
  <2>2. f \in layout[e][1]..LastOf(layout, e) /\ e \in Nat /\ last \in Nat /\ f \in Nat
    BY <1>1, <1>7, <1>8, <2>1
  <2>3. CASE f = f0
    <3>1. last <= e  BY <1>6, <1>7, <2>1, <2>2, <2>3, <1>1
    <3> QED  BY <3>1, <2>1, <2>2, <2>3, <1>5
  <2>4. CASE f # f0 /\ e <= last
    <3>1. f <= f0
      <4>1. CASE e = last  BY <4>1, <2>2, <1>1, <1>2
      <4>2. CASE e < last
        <5>1. LastOf(layout, e) <= layout[last][1]  BY <1>1, <4>2, Ascending
        <5> QED  BY <5>1, <1>1, <1>2, <2>2
      <4> QED  BY <4>1, <4>2, <2>2, <2>4
    <3> QED  BY <3>1, <2>1, <2>2, <2>4, <1>5
  <2>5. CASE f # f0 /\ e > last
    <3>1. f0 <= layout[e][1]  BY <1>1, <2>5, Ascending
    <3>2. f > f0  BY <3>1, <2>2, <2>5, <1>2, <1>5
    <3> QED  BY <3>2, <2>1, <2>2, <2>5, <1>5
  <2> QED  BY <2>2, <2>3, <2>4, <2>5
<1>12. ASSUME NEW f \in w..f0 PROVE f \in FrameNumbers(layout)
  <2>1. f \in layout[first][1]..LastOf(layout, last)  BY <1>1, <1>2, <1>3, <1>4, <1>5
  <2>2. PICK u \in first..last : f \in layout[u][1]..LastOf(layout, u)  BY <1>1, <2>1, Covered
  <2>3. u \in DOMAIN layout  BY <1>1, Disc
  <2> QED  BY <1>1, <2>2, <2>3, FrameIn
<1>13. ASSUME NEW f \in FrameNumbers(layout)
       PROVE  SectorsOf(layout, f) \subseteq first..last <=>
                StartOf(layout, f) >= first /\ EndOf(layout, f) <= last
  <2>1. PICK a, e \in Nat : a = StartOf(layout, f) /\ e = EndOf(layout, f)  BY <1>1, <1>7
  <2>2. SectorsOf(layout, f) = a..e /\ a <= e  BY <1>7, <2>1
  <2> QED  BY <1>1, <2>1, <2>2
<1>14. ASSUME NEW f PROVE f \in Whole <=> f \in w..f0 /\ (f = f0 => EndOf(layout, f0) = last)
  <2>1. f \in Whole <=> f \in FrameNumbers(layout) /\ SectorsOf(layout, f) \subseteq first..last
    BY DEF Whole
  <2>2. CASE f \in FrameNumbers(layout)
    <3>1. f \in Nat  BY <1>7, <2>2
    <3>2. f \in Whole <=> f >= w /\ (f < f0 \/ (f = f0 /\ EndOf(layout, f0) = last))
      BY <1>10, <1>11, <1>13, <2>1, <2>2
    <3> QED  BY <3>1, <3>2, <1>4, <1>5
  <2>3. CASE f \notin FrameNumbers(layout)  BY <2>1, <2>3, <1>12
  <2> QED  BY <2>2, <2>3
<1>15. Whole = {f \in w..f0 : f = f0 => EndOf(layout, f0) = last}
  <2> DEFINE T == {f \in w..f0 : f = f0 => EndOf(layout, f0) = last}
  <2>1. \A f : f \in T <=> f \in w..f0 /\ (f = f0 => EndOf(layout, f0) = last)  OBVIOUS
  <2> HIDE DEF T
  <2>2. Whole = T  BY <1>14, <2>1
  <2> QED  BY <2>2 DEF T
<1> QED  BY <1>4, <1>5, <1>6, <1>15

\* What is passed on in all, when the last sector has been read.
LEMMA AllPassedOn ==
  ASSUME DiscInv, SectorsDone(last + 1)
  PROVE  PassOn(frame) = EntireFrom(layout, Min(Whole), Cardinality(Whole))
<1>1. Mastered(layout) /\ last + 1 # first /\ last + 1 - 1 = last
  <2>1. first \in Nat /\ last \in Nat /\ first <= last /\ Mastered(layout)  BY Disc
  <2> QED  BY <2>1
<1>2. PICK w : w = NextStart(layout, first)  OBVIOUS
<1>3. PICK f0 : f0 = LastOf(layout, last)  OBVIOUS
<1>4. /\ w \in Nat /\ f0 \in Nat /\ f0 \in FrameNumbers(layout)
      /\ last \in StartOf(layout, f0)..EndOf(layout, f0)
      /\ Whole = {f \in w..f0 : f = f0 => EndOf(layout, f0) = last}
  BY <1>2, <1>3, WholeFrames
<1>5. frame = Held(layout, dst_encoded, first, last, f0) /\ frames = PassedOn(layout, first, f0)
  <2>1. PICK t : t = last + 1  OBVIOUS
  <2>2. t # first /\ t - 1 = last
    <3>1. last \in Nat  BY Disc
    <3> QED  BY <1>1, <2>1, <3>1
  <2>3. SectorsDone(t)  BY Zenon, <2>1
  <2> QED  BY <1>3, <2>2, <2>3 DEF SectorsDone, Assembled
<1>6. \E z \in Int : Whole = w..z /\ z <= f0 /\ PassOn(frame) = PassedOn(layout, first, z + 1)
  <2>1. PICK z0 : z0 = f0 - 1  OBVIOUS
  <2>2. z0 \in Int /\ z0 <= f0 /\ z0 + 1 = f0  BY <1>4, <2>1
  <2>3. CASE f0 < w
    <3>1. frame = NoFrame  BY <1>2, <1>5, <2>3 DEF Held
    <3>2. PassOn(frame) = PassedOn(layout, first, z0 + 1)
      BY <3>1, <1>5, <2>2 DEF PassOn, Complete, NoFrame
    <3>3. Whole = w..z0  BY <1>4, <2>2, <2>3
    <3> QED  BY <2>2, <3>2, <3>3
  <2>4. CASE f0 >= w
    <3>1. PICK fr : fr = frame  OBVIOUS
    <3>2. /\ Complete(fr) <=> last = EndOf(layout, f0)
          /\ last = EndOf(layout, f0) =>
               [timecode |-> fr.timecode, data |-> fr.data] = Entire(layout, f0)
      BY <1>2, <1>4, <1>5, <2>4, <3>1, Completed
    <3>3. CASE last = EndOf(layout, f0)
      <4>1. PassOn(fr) = Append(PassedOn(layout, first, f0), Entire(layout, f0))
        BY <1>5, <3>2, <3>3 DEF PassOn
      <4>2. PassOn(frame) = PassedOn(layout, first, f0 + 1)
        BY <1>2, <1>4, <2>4, <3>1, <4>1, PassedOnNext
      <4>3. Whole = w..f0  BY <1>4, <3>3
      <4> QED  BY <1>4, <4>2, <4>3
    <3>4. CASE last # EndOf(layout, f0)
      <4>1. PassOn(fr) = PassedOn(layout, first, f0)  BY <1>5, <3>2, <3>4 DEF PassOn
      <4>2. PassOn(frame) = PassedOn(layout, first, z0 + 1)  BY <2>2, <3>1, <4>1
      <4>3. Whole = w..z0  BY <1>4, <2>2, <3>4
      <4> QED  BY <2>2, <4>2, <4>3
    <3> QED  BY <3>3, <3>4
  <2> QED  BY <1>4, <2>3, <2>4
<1>7. PICK z \in Int : Whole = w..z /\ z <= f0 /\ PassOn(frame) = PassedOn(layout, first, z + 1)
  BY <1>6
<1>8. PICK n : n = Cardinality(Whole)  OBVIOUS
<1>9. n = IF w > z THEN 0 ELSE z - w + 1  BY <1>4, <1>7, <1>8, FS_Interval
<1>10. 1..n = 1..(z + 1) - w  BY <1>4, <1>9
<1>11. ASSUME w <= z PROVE Min(Whole) = w
  <2>1. \A x \in w..z : x \in Nat /\ w <= x  BY <1>4
  <2>2. w \in w..z  BY <1>4, <1>11
  <2>3. Whole \in SUBSET Nat /\ Whole # {}  BY <1>7, <2>1, <2>2
  <2>4. Min(Whole) \in Whole /\ Min(Whole) <= w  BY <1>7, <2>2, <2>3, Minimum
  <2> QED  BY <1>4, <1>7, <2>1, <2>4
<1>12. n = 0 \/ Min(Whole) = w  BY <1>4, <1>9, <1>11
<1>13. PassedOn(layout, first, z + 1) = EntireFrom(layout, w, (z + 1) - w)
  BY <1>2 DEF PassedOn
<1>14. EntireFrom(layout, w, (z + 1) - w) = EntireFrom(layout, w, n)  BY <1>10 DEF EntireFrom
<1>15. EntireFrom(layout, w, n) = EntireFrom(layout, Min(Whole), n)
  <2>1. PICK m : m = Min(Whole)  OBVIOUS
  <2>2. CASE n = 0  BY <2>2 DEF EntireFrom
  <2>3. CASE m = w  BY <2>1, <2>3
  <2> QED  BY <1>12, <2>1, <2>2, <2>3
<1> QED  BY <1>7, <1>8, <1>13, <1>14, <1>15

-----------------------------------------------------------------------------
(* The steps *)

\* The sectors of the file, and no packet of them is damaged.
LEMMA Undamaged ==
  ASSUME DiscInv, AssemblyInv, damage = NoDamage
  PROVE  /\ first \in Nat /\ last \in Nat /\ first <= last /\ DOMAIN layout \subseteq Nat
         /\ sector \in Nat /\ upto \in Nat /\ upto <= last /\ first <= sector /\ first <= upto
         /\ sector <= last + 1
         /\ \A q : /\ HitOf(sector, q) = "none"
                   /\ StartBit(sector, q) <=> Starts(layout, sector, q)
<1>1. /\ first \in DOMAIN layout /\ last \in DOMAIN layout /\ first <= last
      /\ DOMAIN layout = 1..Len(layout) /\ Len(layout) \in Nat
  BY Disc
<1>2. sector \in first..last + 1 /\ upto \in first..last  BY DEF AssemblyInv
<1>3. sector \in Nat /\ sector # 0  BY <1>1, <1>2
<1>4. damage.sector = 0  BY DEF NoDamage
<1>5. \A q : HitOf(sector, q) = "none"  BY <1>3, <1>4 DEF HitOf
<1>6. \A q : StartBit(sector, q) <=> Starts(layout, sector, q)  BY <1>5 DEF StartBit, Starts
<1> QED  BY <1>1, <1>2, <1>5, <1>6

LEMMA DoneIsKept ==
  ASSUME UNCHANGED <<layout, dst_encoded, first, frame, frames>>, NEW s
  PROVE  SectorsDone(s)' <=> SectorsDone(s)
BY DEF SectorsDone, Assembled

LEMMA StartsWithNone ==
  ASSUME DiscInv, Init, damage = NoDamage
  PROVE  AssemblyInv
<1>1. SectorsDone(sector)  BY DEF Init, SectorsDone
<1>2. first <= last /\ first \in Int /\ last \in Int  BY Disc
<1> QED  BY <1>1, <1>2 DEF AssemblyInv, Init

LEMMA CallStep ==
  ASSUME DiscInv, AssemblyInv, damage = NoDamage, Call
  PROVE  AssemblyInv'
<1>1. PICK s : s = sector  OBVIOUS
<1>2. /\ pc = "caller" /\ pc' = "header" /\ UNCHANGED <<disc, sector, frame, frames>>
      /\ \E n \in 1..MaxBlocks : sector + n - 1 <= last /\ upto' = sector + n - 1
  BY DEF Call
<1>3. SectorsDone(s)  BY <1>1, <1>2 DEF AssemblyInv
<1>4. SectorsDone(s)'  BY <1>2, <1>3, DoneIsKept DEF disc
<1>5. sector' = s /\ upto' \in first..last /\ s <= upto' /\ s \in first..last + 1
  BY <1>1, <1>2, Undamaged
<1>6. first' = first /\ last' = last  BY <1>2 DEF disc
<1> QED  BY <1>2, <1>4, <1>5, <1>6 DEF AssemblyInv

LEMMA ReadHeaderStep ==
  ASSUME DiscInv, AssemblyInv, damage = NoDamage, ReadHeader
  PROVE  AssemblyInv'
<1>1. PICK s : s = sector  OBVIOUS
<1>2. PICK here : here = Infos(layout, s)  OBVIOUS
<1>3. /\ pc = "header" /\ pc' = "packet" /\ packet_info_idx' = 1 /\ frame_info_idx' = 0
      /\ shifted' = FALSE /\ UNCHANGED <<disc, upto, sector, frame, frames>>
      /\ info' = [i \in Slots |-> IF i < Len(here) THEN here[i + 1] ELSE info[i]]
  BY <1>1, <1>2 DEF ReadHeader
<1>4. s <= upto /\ SectorsDone(s)  BY <1>1, <1>3 DEF AssemblyInv
<1>5. SectorsDone(s)'  BY <1>3, <1>4, DoneIsKept DEF disc
<1>6. s \in DOMAIN layout /\ s \in first..last + 1 /\ upto \in first..last
  BY <1>1, <1>4, Undamaged, Disc
<1>7. Len(layout[s]) \in 1..7  BY <1>6, Disc, Packets
<1>8. \A i \in DOMAIN here : info'[i - 1] = here[i]
  <2>1. Len(layout[s]) - Carried(layout, s) \in 0..7
    <3>1. PICK c \in {0, 1} : c = Carried(layout, s)  BY DEF Carried
    <3>2. PICK k \in 1..7 : k = Len(layout[s])  BY <1>7
    <3>3. k - c \in 0..7  OBVIOUS
    <3> QED  BY <3>1, <3>2, <3>3
  <2>2. PICK n \in 0..7 : n = Len(layout[s]) - Carried(layout, s)  BY <2>1
  <2>3. DOMAIN here = 1..n /\ Len(here) = n
    <3>1. here = [i \in 1..n |-> InfoOf(layout, layout[s][i + Carried(layout, s)])]
      BY <1>2, <2>2 DEF Infos
    <3> QED  BY <3>1
  <2>4. TAKE i \in DOMAIN here
  <2>5. i \in 1..n /\ i - 1 \in Slots /\ i - 1 < n /\ (i - 1) + 1 = i  BY <2>3 DEF Slots
  <2> QED  BY <1>3, <2>3, <2>5
<1>9. UNCHANGED <<layout, first, last, upto>> /\ sector' = s  BY <1>1, <1>3 DEF disc
<1>10. PacketsDone'
  <2>1. 1 \in 1..Len(layout[s]) + 1  BY <1>7
  <2>2. SectorsDone(sector)'  BY <1>3, <1>4, <1>1 DEF SectorsDone, Assembled, disc
  <2> QED  BY <1>2, <1>3, <1>8, <1>9, <2>1, <2>2 DEF PacketsDone, In
<1> QED  BY <1>3, <1>4, <1>6, <1>9, <1>10 DEF AssemblyInv

LEMMA EndSectorStep ==
  ASSUME DiscInv, AssemblyInv, damage = NoDamage, EndSector
  PROVE  AssemblyInv'
<1>1. PICK s : s = sector  OBVIOUS
<1>2. PICK f : f = LastOf(layout, s)  OBVIOUS
<1>3. /\ pc = "packet" /\ packet_info_idx > In(s) /\ sector' = s + 1
      /\ pc' = (IF s = upto THEN "return" ELSE "header")
      /\ UNCHANGED <<disc, upto, frame, frames>>
  BY <1>1 DEF EndSector
<1>4. s <= upto /\ PacketsDone  BY <1>1, <1>3 DEF AssemblyInv
<1>5. s \in DOMAIN layout /\ s \in Nat /\ upto \in Nat /\ s >= first /\ first \in Nat
      /\ last \in Nat /\ upto <= last /\ upto \in first..last
  BY <1>1, <1>4, Undamaged, Disc
<1>6. Len(layout[s]) \in 1..7  BY <1>5, Disc, Packets
<1>7. packet_info_idx = Len(layout[s]) + 1
  <2>1. packet_info_idx \in 1..Len(layout[s]) + 1  BY <1>1, <1>4 DEF PacketsDone, In
  <2>2. packet_info_idx > Len(layout[s])  BY <1>3 DEF In
  <2> QED  BY <1>6, <2>1, <2>2
<1>8. Assembled(s, f)
  <2>1. Assembled(s, layout[s][packet_info_idx - 1])
    <3>1. packet_info_idx # 1
      <4>1. PICK k \in 1..7 : k = Len(layout[s])  BY <1>6
      <4>2. k + 1 # 1  OBVIOUS
      <4> QED  BY <1>7, <4>1, <4>2
    <3>2. IF packet_info_idx = 1 THEN SectorsDone(s) ELSE Assembled(s, layout[s][packet_info_idx - 1])
      BY Zenon, <1>1, <1>4 DEF PacketsDone
    <3> QED  BY Zenon, <3>1, <3>2
  <2>2. packet_info_idx - 1 = Len(layout[s])  BY <1>6, <1>7
  <2> QED  BY <1>2, <2>1, <2>2 DEF LastOf
<1>9. PICK t : t = s + 1  OBVIOUS
<1>10. SectorsDone(t)
  <2>1. t # first /\ t - 1 = s  BY <1>5, <1>9
  <2> QED  BY <1>2, <1>8, <2>1 DEF SectorsDone
<1>11. SectorsDone(t)'  BY <1>3, <1>10, DoneIsKept DEF disc
<1>12. sector' = t /\ first' = first /\ last' = last /\ upto' = upto  BY <1>3, <1>9 DEF disc
<1>13. SectorsDone(sector)'  BY <1>11, <1>12 DEF SectorsDone, Assembled
<1>14. t \in first..last + 1  BY <1>4, <1>5, <1>9
<1>15. CASE s = upto
  <2>1. t = upto + 1 /\ pc' = "return"  BY <1>3, <1>9, <1>15
  <2> QED  BY <1>5, <1>12, <1>13, <1>14, <2>1 DEF AssemblyInv
<1>16. CASE s # upto
  <2>1. t <= upto /\ pc' = "header"  BY <1>3, <1>4, <1>5, <1>9, <1>16
  <2> QED  BY <1>5, <1>12, <1>13, <1>14, <2>1 DEF AssemblyInv
<1> QED  BY <1>15, <1>16

LEMMA ReturnStep ==
  ASSUME DiscInv, AssemblyInv, damage = NoDamage, Return
  PROVE  AssemblyInv'
<1>1. PICK s : s = sector  OBVIOUS
<1>2. /\ pc = "return" /\ UNCHANGED <<disc, upto, sector>>
      /\ IF s > last THEN frames' = PassOn(frame) ELSE UNCHANGED <<frame, frames>>
      /\ pc' = IF s > last THEN "done" ELSE "caller"
  BY <1>1 DEF Return, Flush
<1>3. s = upto + 1 /\ SectorsDone(s)  BY <1>1, <1>2 DEF AssemblyInv
<1>4. /\ s \in Nat /\ last \in Nat /\ upto \in first..last /\ s \in first..last + 1 /\ s <= last + 1
  BY <1>1, Undamaged
<1>5. UNCHANGED <<layout, dst_encoded, first, last, upto>> /\ sector' = s  BY <1>1, <1>2 DEF disc
<1>6. CASE s > last
  <2>1. s = last + 1  BY <1>4, <1>6
  <2>2. SectorsDone(last + 1)  BY <1>3, <2>1
  <2>3. frames' = EntireFrom(layout, Min(Whole), Cardinality(Whole))
    BY <1>2, <1>6, <2>2, AllPassedOn
  <2>4. Whole' = Whole  BY <1>5 DEF Whole
  <2>5. frames' = EntireFrom(layout', Min(Whole'), Cardinality(Whole'))  BY <1>5, <2>3, <2>4
  <2>6. pc' = "done"  BY <1>2, <1>6
  <2> QED  BY <1>4, <1>5, <2>5, <2>6 DEF AssemblyInv
<1>7. CASE ~(s > last)
  <2>1. s <= last /\ pc' = "caller" /\ UNCHANGED <<frame, frames>>  BY <1>2, <1>4, <1>7
  <2>2. SectorsDone(sector)'  BY <1>1, <1>3, <1>5, <2>1 DEF SectorsDone, Assembled
  <2> QED  BY <1>4, <1>5, <2>1, <2>2 DEF AssemblyInv
<1> QED  BY <1>6, <1>7

\* A packet that is as it was mastered, with the infos in step.
LEMMA AudioAsMastered ==
  ASSUME DiscInv, Audio, NEW s \in first..last, s = sector,
         NEW q \in 1..Len(layout[s]), q = packet_info_idx, NEW f, f = layout[s][q],
         HitOf(s, q) = "none", ~shifted,
         frame_info_idx = IF q = 1 THEN 0 ELSE q - 1 - Carried(layout, s),
         \A j \in DOMAIN Infos(layout, s) : info[j - 1] = Infos(layout, s)[j]
  PROVE  /\ frame_info_idx' = q - Carried(layout, s)
         /\ IF Starts(layout, s, q)
            THEN /\ frames' = PassOn(frame)
                 /\ frame' = Extended(Begun(InfoOf(layout, f)), PacketLength(layout, s), Piece(f, s, TRUE))
            ELSE /\ q = 1 /\ frames' = frames
                 /\ frame' = Extended(frame, PacketLength(layout, s), Piece(f, s, TRUE))
<1>1. PICK i : i = frame_info_idx  OBVIOUS
<1>2. PICK length : length = PacketLength(layout, s)  OBVIOUS
<1>3. StartBit(s, q) <=> Starts(layout, s, q)  BY DEF StartBit, Starts
<1>4. s \in DOMAIN layout  BY Disc
<1>5. PICK k \in 1..7 : k = Len(layout[s])  BY <1>4, Disc, Packets
<1>6. PICK c \in {0, 1} : c = Carried(layout, s)  BY DEF Carried
<1>7. q \in 1..k /\ i = IF q = 1 THEN 0 ELSE q - 1 - c  BY <1>1, <1>5, <1>6
<1>8. Piece(f, s, ~shifted) = Piece(f, s, TRUE)  OBVIOUS
<1>9. CASE Starts(layout, s, q)
  <2>1. q = 1 => c = 0  BY <1>6, <1>9 DEF Carried
  <2>2. i = q - 1 - c /\ i \in Nat  BY <1>7, <2>1
  <2>3. info[i] = InfoOf(layout, f)
    <3>1. PICK n \in 0..7 : n = k - c  OBVIOUS
    <3>2. Infos(layout, s) = [j \in 1..n |-> InfoOf(layout, layout[s][j + c])]
      BY <1>5, <1>6, <3>1 DEF Infos
    <3>3. i + 1 \in 1..n /\ (i + 1) + c = q /\ (i + 1) - 1 = i  BY <1>7, <2>2, <3>1
    <3>4. i + 1 \in DOMAIN Infos(layout, s) /\ Infos(layout, s)[i + 1] = InfoOf(layout, f)
      BY <3>2, <3>3
    <3> QED  BY <3>3, <3>4
  <2>4. PICK r : r = Begun(InfoOf(layout, f))  OBVIOUS
  <2>5. /\ frames' = PassOn(frame) /\ frame_info_idx' = i + 1
        /\ frame' = Extended(r, length, Piece(f, s, TRUE))
    BY <1>1, <1>2, <1>3, <1>8, <1>9, <2>3, <2>4 DEF Audio, NextInfo
  <2>6. i + 1 = q - c  BY <1>7, <2>2
  <2> QED  BY <1>2, <1>6, <1>9, <2>4, <2>5, <2>6
<1>10. CASE ~Starts(layout, s, q)
  <2>1. q = 1
    <3>1. q > 1 => q \in 2..Len(layout[s])  BY <1>5, <1>7
    <3>2. q > 1 => Starts(layout, s, q)  BY <1>4, <3>1, Disc, LaterPacketStarts
    <3> QED  BY <1>7, <1>10, <3>2
  <2>2. c = 1 /\ i = 0  BY <1>6, <1>7, <1>10, <2>1 DEF Carried
  <2>3. /\ frames' = frames /\ frame_info_idx' = i
        /\ frame' = Extended(frame, length, Piece(f, s, TRUE))
    BY <1>1, <1>2, <1>3, <1>8, <1>10 DEF Audio
  <2>4. q - c = i  BY <2>1, <2>2
  <2> QED  BY <1>2, <1>6, <1>10, <2>1, <2>3, <2>4
<1> QED  BY <1>9, <1>10

\* What it makes of the frame and of those passed on.
LEMMA AudioAssembles ==
  ASSUME DiscInv, NEW s \in first..last, NEW q \in 1..Len(layout[s]), NEW f, f = layout[s][q],
         IF q = 1 THEN SectorsDone(s) ELSE Assembled(s, layout[s][q - 1]),
         IF Starts(layout, s, q)
         THEN /\ frames' = PassOn(frame)
              /\ frame' = Extended(Begun(InfoOf(layout, f)), PacketLength(layout, s), Piece(f, s, TRUE))
         ELSE /\ q = 1 /\ frames' = frames
              /\ frame' = Extended(frame, PacketLength(layout, s), Piece(f, s, TRUE))
  PROVE  /\ frame' = Held(layout, dst_encoded, first, s, f) /\ frames' = PassedOn(layout, first, f)
<1>1. PICK length : length = PacketLength(layout, s)  OBVIOUS
<1>2. CASE Starts(layout, s, q)
  <2>1. PassOn(frame) = PassedOn(layout, first, f)  BY <1>2, PassOnPrevious
  <2>2. PICK r : r = Begun(InfoOf(layout, f))  OBVIOUS
  <2>3. Extended(r, length, Piece(f, s, TRUE)) = Held(layout, dst_encoded, first, s, f)
    BY <1>1, <1>2, <2>2, BeginFrame
  <2> QED  BY <1>1, <1>2, <2>1, <2>2, <2>3
<1>3. CASE ~Starts(layout, s, q)
  <2>1. q = 1 /\ SectorsDone(s) /\ ~Starts(layout, s, 1) /\ f = layout[s][1]  BY <1>3
  <2>2. frame = IF s = first THEN NoFrame
                ELSE Held(layout, dst_encoded, first, s - 1, LastOf(layout, s - 1))
    BY <2>1 DEF SectorsDone, Assembled
  <2>3. Extended(frame, length, Piece(f, s, TRUE)) = Held(layout, dst_encoded, first, s, f)
    BY <1>1, <2>1, <2>2, ContinueFrame
  <2>4. frames = PassedOn(layout, first, f)
    <3>1. /\ NextStart(layout, first) \in Nat /\ f \in Nat
          /\ s = first => f < NextStart(layout, first)
          /\ s > first => f = LastOf(layout, s - 1)
      <4>1. s \in DOMAIN layout /\ first \in DOMAIN layout /\ first <= s  BY Disc
      <4> QED  BY <1>3, <2>1, <4>1, Disc, AtPlace
    <3>2. CASE s = first
      <4>1. PassedOn(layout, first, f) = <<>>  BY <3>1, <3>2 DEF PassedOn, EntireFrom
      <4> QED  BY <2>1, <3>2, <4>1 DEF SectorsDone
    <3>3. CASE s # first
      <4>1. s > first
        <5>1. first \in Nat /\ last \in Nat  BY Disc
        <5> QED  BY <3>3, <5>1
      <4> QED  BY <2>1, <3>1, <3>3, <4>1 DEF SectorsDone, Assembled
    <3> QED  BY <3>2, <3>3
  <2> QED  BY <1>1, <1>3, <2>3, <2>4
<1> QED  BY <1>2, <1>3

LEMMA AudioStep ==
  ASSUME DiscInv, AssemblyInv, damage = NoDamage, Audio
  PROVE  AssemblyInv'
<1>1. PICK s : s = sector  OBVIOUS
<1>2. PICK q : q = packet_info_idx  OBVIOUS
<1>3. PICK f : f = layout[s][q]  OBVIOUS
<1>4. /\ pc = "packet" /\ pc' = pc /\ q <= In(s) /\ packet_info_idx' = q + 1
      /\ UNCHANGED <<disc, upto, sector, shifted, info>>
  BY <1>1, <1>2 DEF Audio, AtPacket
<1>5. HitOf(s, q) = "none"  BY <1>1, Undamaged
<1>6. s <= upto /\ PacketsDone  BY <1>1, <1>4 DEF AssemblyInv
<1>7. /\ s \in DOMAIN layout /\ s \in Nat /\ upto \in Nat /\ s \in first..last + 1
      /\ s \in first..last /\ upto \in first..last /\ first \in DOMAIN layout /\ first <= s
  BY <1>1, <1>6, Undamaged, Disc
<1>8. PICK k \in 1..7 : k = Len(layout[s])  BY <1>7, Disc, Packets
<1>9. q \in 1..Len(layout[s]) /\ q \in 1..k
  <2>1. q \in 1..k + 1  BY <1>1, <1>2, <1>6, <1>8 DEF PacketsDone, In
  <2>2. q <= k  BY <1>4, <1>8 DEF In
  <2>3. q \in 1..k  BY <2>1, <2>2
  <2> QED  BY <1>8, <2>3
<1>10. IF q = 1 THEN SectorsDone(s) ELSE Assembled(s, layout[s][q - 1])
  BY <1>1, <1>2, <1>6 DEF PacketsDone
<1>11. /\ frame_info_idx = IF q = 1 THEN 0 ELSE q - 1 - Carried(layout, s)
       /\ \A j \in DOMAIN Infos(layout, s) : info[j - 1] = Infos(layout, s)[j]
       /\ ~shifted
  BY <1>1, <1>2, <1>6 DEF PacketsDone
<1>12. /\ frame_info_idx' = q - Carried(layout, s)
       /\ IF Starts(layout, s, q)
          THEN /\ frames' = PassOn(frame)
               /\ frame' = Extended(Begun(InfoOf(layout, f)), PacketLength(layout, s), Piece(f, s, TRUE))
          ELSE /\ q = 1 /\ frames' = frames
               /\ frame' = Extended(frame, PacketLength(layout, s), Piece(f, s, TRUE))
  BY <1>1, <1>2, <1>3, <1>5, <1>7, <1>9, <1>11, AudioAsMastered
<1>13. frame' = Held(layout, dst_encoded, first, s, f) /\ frames' = PassedOn(layout, first, f)
  BY <1>3, <1>7, <1>9, <1>10, <1>12, AudioAssembles
<1>14. /\ UNCHANGED <<layout, dst_encoded, first, last, upto, shifted, info>> /\ sector' = s
       /\ pc' = "packet" /\ packet_info_idx' = q + 1
  BY <1>1, <1>4 DEF disc
<1>15. PICK x : x = q + 1  OBVIOUS
<1>16. PICK c \in {0, 1} : c = Carried(layout, s)  BY DEF Carried
<1>17. x \in 1..Len(layout[s]) + 1 /\ x # 1 /\ x - 1 = q /\ q - c = x - 1 - c
  BY <1>8, <1>9, <1>15, <1>16
<1>18. PacketsDone'
  <2>1. Assembled(s, layout[s][x - 1])'  BY <1>3, <1>13, <1>14, <1>17 DEF Assembled
  <2>2. Assembled(sector, layout[sector][packet_info_idx - 1])'
    BY <1>14, <1>15, <2>1 DEF Assembled
  <2>3. packet_info_idx' = x  BY <1>14, <1>15
  <2>4. frame_info_idx' = x - 1 - Carried(layout, s)  BY <1>12, <1>16, <1>17
  <2> QED  BY <1>11, <1>14, <1>17, <2>2, <2>3, <2>4 DEF PacketsDone, In
<1> QED  BY <1>6, <1>7, <1>14, <1>18 DEF AssemblyInv

\* Every step without damage keeps the invariant.
LEMMA AssemblyStep ==
  ASSUME DiscInv, AssemblyInv, [Next]_vars
  PROVE  DiscInv' /\ AssemblyInv'
<1>1. UNCHANGED disc
  <2>1. CASE Next
    BY <2>1 DEF Next, Call, ReadHeader, SkipLong, SkipOther, Audio, EndSector, Return,
                Finished, vars, disc
  <2>2. CASE UNCHANGED vars  BY <2>2 DEF vars, disc
  <2> QED  BY <2>1, <2>2
<1>2. DiscInv'  BY <1>1 DEF DiscInv, disc
<1>3. CASE damage # NoDamage
  <2>1. damage' # NoDamage  BY <1>1, <1>3 DEF disc
  <2> QED  BY <1>2, <2>1 DEF AssemblyInv
<1>4. CASE damage = NoDamage
  <2>1. CASE UNCHANGED vars
    <3>1. AssemblyInv' <=> AssemblyInv
      BY <2>1 DEF vars, AssemblyInv, PacketsDone, SectorsDone, Assembled, Whole, In
    <3> QED  BY <1>2, <3>1
  <2>2. CASE Call  BY <1>2, <1>4, <2>2, CallStep
  <2>3. CASE ReadHeader  BY <1>2, <1>4, <2>3, ReadHeaderStep
  <2>4. CASE SkipLong \/ SkipOther
    <3>1. HitOf(sector, packet_info_idx) # "none"  BY <2>4 DEF SkipLong, SkipOther, AtPacket
    <3>2. FALSE  BY <1>4, <3>1, Undamaged
    <3> QED  BY <3>2
  <2>5. CASE Audio  BY <1>2, <1>4, <2>5, AudioStep
  <2>6. CASE EndSector  BY <1>2, <1>4, <2>6, EndSectorStep
  <2>7. CASE Return  BY <1>2, <1>4, <2>7, ReturnStep
  <2>8. CASE Finished  BY <2>1, <2>8 DEF Finished
  <2> QED  BY <2>1, <2>2, <2>3, <2>4, <2>5, <2>6, <2>7, <2>8 DEF Next
<1> QED  BY <1>3, <1>4

LEMMA SomeFile ==
  ASSUME Init
  PROVE  DiscInv
  <1>1. first \in DOMAIN layout /\ last \in first..Len(layout)  BY DEF Init
  <1>2. CASE layout \in DstLayouts /\ dst_encoded = TRUE  BY <1>1, <1>2 DEF DiscInv
  <1>3. CASE layout \in PlainLayouts /\ dst_encoded = FALSE  BY <1>1, <1>3 DEF DiscInv
  <1> QED  BY <1>2, <1>3 DEF Init

LEMMA Assembly == Spec => [](DiscInv /\ AssemblyInv)
<1>1. Init => DiscInv /\ AssemblyInv
  <2> SUFFICES ASSUME Init PROVE DiscInv /\ AssemblyInv  OBVIOUS
  <2>1. DiscInv  BY SomeFile
  <2>2. CASE damage = NoDamage  BY <2>1, <2>2, StartsWithNone
  <2>3. CASE damage # NoDamage  BY <2>1, <2>3 DEF AssemblyInv
  <2> QED  BY <2>1, <2>2, <2>3
<1>2. DiscInv /\ AssemblyInv /\ [Next]_vars => (DiscInv /\ AssemblyInv)'  BY AssemblyStep
<1> QED  BY <1>1, <1>2, PTL DEF Spec

-----------------------------------------------------------------------------
(* With damage *)

LEMMA Numbers ==
  ASSUME DiscInv
  PROVE  /\ first \in Nat /\ last \in Nat /\ first <= last /\ MaxSize \in Nat
         /\ FrameNumbers(layout) \subseteq Nat /\ Codes \subseteq Nat
<1>1. FrameNumbers(layout) \subseteq Nat  BY Disc, FrameSectors
<1>2. Codes \subseteq Nat  BY <1>1 DEF Codes
<1> QED  BY <1>1, <1>2, Disc, AssemblerAssumption

\* The infos of a sector are those of the frames that start in it.
LEMMA InfosOf ==
  ASSUME NEW l, Mastered(l), NEW s \in DOMAIN l
  PROVE  /\ Carried(l, s) \in {0, 1} /\ Len(l[s]) - Carried(l, s) \in 0..7
         /\ DOMAIN Infos(l, s) = 1..Len(l[s]) - Carried(l, s)
         /\ Len(Infos(l, s)) = Len(l[s]) - Carried(l, s)
         /\ \A i \in DOMAIN Infos(l, s) :
              /\ Infos(l, s)[i].timecode \in FrameNumbers(l)
              /\ Infos(l, s)[i].timecode = NextStart(l, s) + i - 1
              /\ Infos(l, s)[i] \in [timecode : FrameNumbers(l), sector_count : Nat]
<1>1. PICK c \in {0, 1} : c = Carried(l, s)  BY DEF Carried
<1>2. PICK k \in 1..7 : k = Len(l[s])  BY Packets
<1>3. PICK n \in 0..7 : n = k - c  OBVIOUS
<1>4. Infos(l, s) = [i \in 1..n |-> InfoOf(l, l[s][i + c])]  BY <1>1, <1>2, <1>3 DEF Infos
<1>5. DOMAIN Infos(l, s) = 1..n /\ Len(Infos(l, s)) = n  BY <1>4
<1>6. ASSUME NEW i \in 1..n
      PROVE  /\ Infos(l, s)[i].timecode \in FrameNumbers(l)
             /\ Infos(l, s)[i].timecode = NextStart(l, s) + i - 1
             /\ Infos(l, s)[i] \in [timecode : FrameNumbers(l), sector_count : Nat]
  <2>1. PICK q \in 1..k : q = i + c  BY <1>3
  <2>2. PICK f : f = l[s][q]  OBVIOUS
  <2>3. PICK x \in Nat : x = l[s][1]  BY Packets
  <2>4. f = x + q - 1  BY <1>2, <2>2, <2>3, Packets
  <2>5. f \in l[s][1]..LastOf(l, s)
    <3>1. LastOf(l, s) = x + k - 1  BY <1>2, <2>3, Packets
    <3> QED  BY <2>3, <2>4, <3>1
  <2>6. f \in FrameNumbers(l)  BY <2>5, FrameIn
  <2>7. PICK n2 : n2 = Cardinality(SectorsOf(l, f))  OBVIOUS
  <2>8. n2 \in Nat
    <3>1. StartOf(l, f) \in Int /\ EndOf(l, f) \in Int
      <4>1. DOMAIN l \subseteq Int  BY DEF Mastered
      <4> QED  BY <2>6, <4>1, FrameSectors
    <3>2. IsFiniteSet(SectorsOf(l, f))  BY <2>6, <3>1, FrameSectors, FS_Interval
    <3> QED  BY <2>7, <3>2, FS_CardinalityType
  <2>9. Infos(l, s)[i] = [timecode |-> f, sector_count |-> n2]
    BY <1>4, <2>1, <2>2, <2>7 DEF InfoOf
  <2>10. NextStart(l, s) = x + c  BY <1>1, <2>3 DEF NextStart
  <2>11. f = NextStart(l, s) + i - 1  BY <2>1, <2>4, <2>10
  <2> QED  BY <2>6, <2>8, <2>9, <2>11
<1> QED  BY <1>1, <1>2, <1>3, <1>5, <1>6

\* The frame under construction keeps its type and its time code.
LEMMA ExtendedFrame ==
  ASSUME DiscInv, NEW fr \in AudioFrames, NEW length \in Nat, NEW f \in FrameNumbers(layout),
         NEW s \in first..last, NEW right \in BOOLEAN
  PROVE  /\ Extended(fr, length, Piece(f, s, right)) \in AudioFrames
         /\ Extended(fr, length, Piece(f, s, right)).timecode = fr.timecode
         /\ Extended(fr, length, Piece(f, s, right)).started => fr.started
<1>1. PICK piece : piece = Piece(f, s, right)  OBVIOUS
<1>2. PICK D : D = [frame : FrameNumbers(layout), sector : first..last, right : BOOLEAN]  OBVIOUS
<1>3. piece \in D /\ Data = Seq(D)  BY <1>1, <1>2 DEF Piece, Data
<1>4. fr.data \in Seq(D) /\ fr.size \in 0..MaxSize /\ fr.sector_count \in Int  BY <1>3 DEF AudioFrames
<1>5. PICK d \in Data : d = Append(fr.data, piece)
  <2>1. Append(fr.data, piece) \in Seq(D)  BY <1>3, <1>4
  <2> QED  BY <1>3, <2>1
<1>6. CASE ~fr.started  BY <1>1, <1>6 DEF Extended
<1>7. CASE fr.started /\ ~Fits(fr, length)
  <2>1. Extended(fr, length, piece) = [fr EXCEPT !.started = FALSE]  BY <1>7 DEF Extended
  <2>2. [fr EXCEPT !.started = FALSE] \in AudioFrames  BY DEF AudioFrames
  <2>3. [fr EXCEPT !.started = FALSE].timecode = fr.timecode
        /\ ~[fr EXCEPT !.started = FALSE].started
    BY DEF AudioFrames
  <2> QED  BY <1>1, <2>1, <2>2, <2>3
<1>8. CASE fr.started /\ Fits(fr, length)
  <2>1. PICK z \in 0..MaxSize : z = fr.size + length
    <3>1. fr.size + length <= MaxSize /\ MaxSize \in Nat  BY <1>8, Numbers DEF Fits
    <3> QED  BY <1>4, <3>1
  <2>2. PICK c \in Int : c = IF dst_encoded THEN fr.sector_count - 1 ELSE fr.sector_count
    <3>1. fr.sector_count \in Int /\ fr.sector_count - 1 \in Int  BY <1>4
    <3> QED  BY Zenon, <3>1
  <2>3. Extended(fr, length, piece) = [fr EXCEPT !.size = z, !.data = d, !.sector_count = c]
    BY <1>5, <1>8, <2>1, <2>2 DEF Extended
  <2>4. [fr EXCEPT !.size = z, !.data = d, !.sector_count = c] \in AudioFrames
    BY DEF AudioFrames
  <2>5. [fr EXCEPT !.size = z, !.data = d, !.sector_count = c].timecode = fr.timecode
    BY DEF AudioFrames
  <2> QED  BY <1>1, <1>8, <2>3, <2>4, <2>5
<1> QED  BY <1>6, <1>7, <1>8

LEMMA BegunFrame ==
  ASSUME DiscInv, NEW i \in [timecode : Codes, sector_count : Nat]
  PROVE  Begun(i) \in AudioFrames /\ Begun(i).timecode = i.timecode /\ Begun(i).started
<1>1. <<>> \in Data  BY DEF Data
<1>2. MaxSize \in Nat  BY Numbers
<1>3. i.timecode \in Codes /\ i.sector_count \in Int  OBVIOUS
<1> QED  BY <1>1, <1>2, <1>3 DEF Begun, AudioFrames

Passed == [timecode : Codes, data : Data]

LEMMA PassOnFrame ==
  ASSUME NEW fr \in AudioFrames, frames \in Seq(Passed)
  PROVE  PassOn(fr) \in Seq(Passed)
<1>1. [timecode |-> fr.timecode, data |-> fr.data] \in Passed  BY DEF AudioFrames, Passed
<1> QED  BY <1>1 DEF PassOn

LEMMA TypesOfFile ==
  ASSUME UNCHANGED disc
  PROVE  Codes' = Codes /\ Data' = Data /\ AudioFrames' = AudioFrames /\ Passed' = Passed
<1>1. UNCHANGED <<layout, first, last>>  BY DEF disc
<1>2. Codes' = Codes /\ Data' = Data  BY <1>1 DEF Codes, Data
<1> QED  BY <1>2 DEF AudioFrames, Passed

FileInv == DiscInv /\ TypeOK /\ PlaceInv

\* In a sector that is read.
LEMMA InFile ==
  ASSUME FileInv
  PROVE  /\ first \in Nat /\ last \in Nat /\ upto \in Nat /\ sector \in Nat /\ MaxSize \in Nat
         /\ first <= sector /\ first <= upto /\ upto <= last /\ first <= last
         /\ pc \in {"header", "packet"} =>
              sector \in DOMAIN layout /\ sector <= upto /\ sector \in first..last
<1>1. /\ first \in Nat /\ last \in Nat /\ MaxSize \in Nat /\ first <= last  BY Numbers DEF FileInv
<1>2. sector \in first..last + 1 /\ upto \in first..last  BY DEF FileInv, TypeOK
<1>3. pc \in {"header", "packet"} => sector <= upto  BY DEF FileInv, PlaceInv
<1>4. first..last \subseteq DOMAIN layout  BY Disc DEF FileInv
<1> QED  BY <1>1, <1>2, <1>3, <1>4

LEMMA StartsInPlace ==
  ASSUME Init, DiscInv
  PROVE  TypeOK /\ PlaceInv
<1>1. /\ first \in Nat /\ last \in Nat /\ first <= last /\ MaxSize \in Nat  BY Numbers
<1>2. NoInfo \in [timecode : Codes, sector_count : Nat]  BY DEF NoInfo, Codes
<1>3. info \in [Slots -> [timecode : Codes, sector_count : Nat]]  BY <1>2 DEF Init
<1>4. <<>> \in Data /\ 0 \in Codes  BY DEF Data, Codes
<1>5. frame \in AudioFrames
  <2>1. NoFrame \in AudioFrames  BY <1>1, <1>4 DEF NoFrame, AudioFrames
  <2> QED  BY <2>1 DEF Init
<1>6. frames \in Seq([timecode : Codes, data : Data])  BY DEF Init
<1>7. sector \in first..last + 1 /\ upto \in first..last /\ sector <= last  BY <1>1 DEF Init
<1>8. /\ pc = "caller" /\ packet_info_idx = 1 /\ frame_info_idx = 0 /\ shifted = FALSE
      /\ sector_bad_reads = FALSE
  BY DEF Init
<1>9. TypeOK
  <2>1. packet_info_idx \in 1..8 /\ frame_info_idx \in 0..7  BY <1>8
  <2>2. shifted \in BOOLEAN /\ sector_bad_reads \in BOOLEAN  BY <1>8
  <2> QED  BY <1>3, <1>5, <1>6, <1>7, <1>8, <2>1, <2>2 DEF TypeOK
<1>10. PlaceInv  BY <1>7, <1>8 DEF PlaceInv
<1> QED  BY <1>9, <1>10

\* The steps that leave the frame alone.
LEMMA CallInPlace ==
  ASSUME FileInv, Call
  PROVE  TypeOK' /\ PlaceInv'
<1>1. /\ pc = "caller" /\ pc' = "header" /\ sector_bad_reads' = FALSE
      /\ \E n \in 1..MaxBlocks : sector + n - 1 <= last /\ upto' = sector + n - 1
      /\ UNCHANGED <<disc, sector, packet_info_idx, frame_info_idx, shifted, info, frame, frames>>
  BY DEF Call
<1>2. upto' \in first..last /\ sector <= upto'  BY <1>1, InFile
<1>3. first' = first /\ last' = last  BY <1>1 DEF disc
<1>4. TypeOK'  BY <1>1, <1>2, <1>3, TypesOfFile DEF FileInv, TypeOK
<1>5. PlaceInv'  BY <1>1, <1>2 DEF PlaceInv
<1> QED  BY <1>4, <1>5

LEMMA ReadHeaderInPlace ==
  ASSUME FileInv, ReadHeader
  PROVE  TypeOK' /\ PlaceInv'
<1>1. PICK s \in DOMAIN layout : s = sector  BY InFile DEF ReadHeader
<1>2. PICK here : here = Infos(layout, s)  OBVIOUS
<1>3. /\ pc = "header" /\ pc' = "packet" /\ packet_info_idx' = 1 /\ frame_info_idx' = 0
      /\ shifted' = FALSE /\ UNCHANGED <<disc, upto, sector, frame, sector_bad_reads, frames>>
      /\ info' = [i \in Slots |-> IF i < Len(here) THEN here[i + 1] ELSE info[i]]
  BY <1>1, <1>2 DEF ReadHeader
<1>4. PICK n \in 0..7 : n = Len(layout[s]) - Carried(layout, s)  BY InfosOf, Disc DEF FileInv
<1>5. /\ DOMAIN here = 1..n /\ Len(here) = n
      /\ \A i \in 1..n : here[i] \in [timecode : FrameNumbers(layout), sector_count : Nat]
  BY <1>2, <1>4, InfosOf, Disc DEF FileInv
<1>6. \A i \in 1..n : here[i] \in [timecode : Codes, sector_count : Nat]
  BY <1>5 DEF Codes
<1>7. info' \in [Slots -> [timecode : Codes, sector_count : Nat]]
  <2>1. \A i \in Slots : info[i] \in [timecode : Codes, sector_count : Nat]
    BY DEF FileInv, TypeOK
  <2>2. \A i \in Slots : i < n => i + 1 \in 1..n  BY DEF Slots
  <2> QED  BY <1>3, <1>5, <1>6, <2>1, <2>2
<1>8. \A i \in DOMAIN here : info'[i - 1] = here[i]
  <2> TAKE i \in DOMAIN here
  <2>1. i \in 1..n  BY <1>5
  <2>2. i - 1 \in Slots /\ i - 1 < n /\ (i - 1) + 1 = i  BY <2>1 DEF Slots
  <2> QED  BY <1>3, <1>5, <2>2
<1>9. UNCHANGED <<layout, first, last, upto>> /\ sector' = s  BY <1>1, <1>3 DEF disc
<1>10. TypeOK'
  <2>1. info' \in [Slots -> [timecode : Codes', sector_count : Nat]]  BY <1>3, <1>7, TypesOfFile
  <2>2. /\ packet_info_idx' \in 1..8 /\ frame_info_idx' \in 0..7
        /\ shifted' \in BOOLEAN
    <3>1. packet_info_idx' \in 1..8 /\ frame_info_idx' \in 0..7  BY <1>3
    <3>2. shifted' \in BOOLEAN  BY <1>3
    <3> QED  BY <3>1, <3>2
  <2>3. /\ pc' \in {"caller", "header", "packet", "return", "done"}
        /\ sector' \in first'..last' + 1 /\ upto' \in first'..last' /\ sector_bad_reads' \in BOOLEAN
    BY <1>1, <1>3, <1>9 DEF FileInv, TypeOK
  <2>4. frame' \in AudioFrames' /\ frames' \in Seq([timecode : Codes', data : Data'])
    BY <1>3, TypesOfFile DEF FileInv, TypeOK
  <2> QED  BY <2>1, <2>2, <2>3, <2>4 DEF TypeOK
<1>11. PlaceInv'
  <2>1. 1 \in 1..Len(layout[s]) + 1
    <3>1. Len(layout[s]) \in 1..7  BY Packets, Disc DEF FileInv
    <3> QED  BY <3>1
  <2>2. sector' <= upto'  BY <1>3, InFile
  <2> QED  BY <1>2, <1>3, <1>8, <1>9, <2>1, <2>2 DEF PlaceInv, In
<1> QED  BY <1>10, <1>11

\* A packet is behind, and a start may have been seen.
LEMMA NextPacket ==
  ASSUME FileInv, NEW hits, AtPacket(hits), UNCHANGED <<disc, pc, upto, sector, info>>,
         frame_info_idx' \in {frame_info_idx, frame_info_idx + 1}, shifted' \in BOOLEAN,
         sector_bad_reads' \in BOOLEAN, frame' \in AudioFrames, frames' \in Seq(Passed)
  PROVE  TypeOK' /\ PlaceInv'
<1>1. /\ pc = "packet" /\ packet_info_idx <= Len(layout[sector])
      /\ packet_info_idx' = packet_info_idx + 1
  BY DEF AtPacket, In
<1>2. /\ packet_info_idx \in 1..Len(layout[sector]) + 1 /\ frame_info_idx \in 0..packet_info_idx - 1
      /\ \A i \in DOMAIN Infos(layout, sector) : info[i - 1] = Infos(layout, sector)[i]
  BY <1>1 DEF FileInv, PlaceInv, In
<1>3. PICK k \in 1..7 : k = Len(layout[sector])
  BY <1>1, InFile, Packets, Disc DEF FileInv
<1>4. /\ packet_info_idx' \in 1..k + 1 /\ frame_info_idx' \in 0..packet_info_idx' - 1
      /\ packet_info_idx' \in 1..8 /\ frame_info_idx' \in 0..7
  <2>1. PICK q \in 1..k : q = packet_info_idx  BY <1>1, <1>2, <1>3
  <2>2. PICK j \in 0..q - 1 : j = frame_info_idx  BY <1>2, <2>1
  <2>3. frame_info_idx' = j \/ frame_info_idx' = j + 1  BY <2>2
  <2>4. packet_info_idx' = q + 1  BY <1>1, <2>1
  <2>5. j \in 0..q /\ j + 1 \in 0..q /\ j \in 0..7 /\ j + 1 \in 0..7 /\ q + 1 \in 1..k + 1
        /\ q + 1 \in 1..8 /\ (q + 1) - 1 = q
    OBVIOUS
  <2> QED  BY <2>3, <2>4, <2>5
<1>5. UNCHANGED <<layout, first, last>>  BY DEF disc
<1>6. TypeOK'
  BY <1>1, <1>4, <1>5, TypesOfFile DEF FileInv, TypeOK, Passed
<1>7. PlaceInv'
  <2>1. sector' <= upto'  BY <1>1, InFile
  <2> QED  BY <1>1, <1>2, <1>3, <1>4, <1>5, <2>1 DEF PlaceInv, In
<1> QED  BY <1>6, <1>7

LEMMA SkipInPlace ==
  ASSUME FileInv, SkipLong \/ SkipOther
  PROVE  TypeOK' /\ PlaceInv'
<1>1. frame \in AudioFrames /\ frames \in Seq(Passed) /\ sector_bad_reads \in BOOLEAN /\ shifted \in BOOLEAN
  BY DEF FileInv, TypeOK, Passed
<1>2. CASE SkipLong
  <2>1. sector_bad_reads' \in BOOLEAN /\ shifted' \in BOOLEAN  BY <1>2 DEF SkipLong
  <2> QED  BY <1>1, <1>2, <2>1, NextPacket DEF SkipLong
<1>3. CASE SkipOther  BY <1>1, <1>3, NextPacket DEF SkipOther
<1> QED  BY <1>2, <1>3

LEMMA AudioInPlace ==
  ASSUME FileInv, Audio
  PROVE  TypeOK' /\ PlaceInv'
<1>1. PICK s \in first..last : s = sector  BY InFile DEF Audio, AtPacket
<1>2. PICK q : q = packet_info_idx  OBVIOUS
<1>3. pc = "packet" /\ q <= Len(layout[s])  BY <1>1, <1>2 DEF Audio, AtPacket, In
<1>4. s \in DOMAIN layout  BY <1>1, <1>3, InFile
<1>5. PICK k \in 1..7 : k = Len(layout[s])  BY <1>4, Packets, Disc DEF FileInv
<1>6. q \in 1..k
  <2>1. q \in 1..k + 1  BY <1>1, <1>2, <1>3, <1>5 DEF FileInv, PlaceInv, In
  <2> QED  BY <1>3, <1>5, <2>1
<1>7. PICK f \in FrameNumbers(layout) : f = layout[s][q]
  <2>1. layout[s][q] \in FrameNumbers(layout)  BY <1>4, <1>5, <1>6 DEF FrameNumbers
  <2> QED  BY <2>1
<1>8. PICK length \in Nat : length = PacketLength(layout, s)  BY <1>4, Lengths, Disc DEF FileInv
<1>9. PICK right \in BOOLEAN : right = ~shifted  OBVIOUS
<1>10. PICK i : i = frame_info_idx  OBVIOUS
<1>11. i \in Slots
  <2>1. i \in 0..q - 1  BY <1>2, <1>3, <1>10 DEF FileInv, PlaceInv
  <2> QED  BY <1>6, <2>1 DEF Slots
<1>12. info[i] \in [timecode : Codes, sector_count : Nat]  BY <1>11 DEF FileInv, TypeOK
<1>13. PICK fr \in AudioFrames : fr = IF StartBit(s, q) THEN Begun(info[i]) ELSE frame
  <2>1. frame \in AudioFrames  BY DEF FileInv, TypeOK
  <2>2. Begun(info[i]) \in AudioFrames  BY <1>12, BegunFrame DEF FileInv
  <2> QED  BY Zenon, <2>1, <2>2
<1>14. /\ AtPacket({"none", "flip"})
       /\ frames' = IF StartBit(s, q) THEN PassOn(frame) ELSE frames
       /\ frame_info_idx' = IF StartBit(s, q) THEN i + 1 ELSE i
       /\ frame' = Extended(fr, length, Piece(f, s, right))
       /\ sector_bad_reads' = (sector_bad_reads \/ (fr.started /\ ~Fits(fr, length)))
       /\ UNCHANGED <<disc, pc, upto, sector, shifted, info>>
  BY <1>1, <1>2, <1>7, <1>8, <1>9, <1>10, <1>13 DEF Audio, NextInfo
<1>15. frame' \in AudioFrames  BY <1>14, ExtendedFrame DEF FileInv
<1>16. frames' \in Seq(Passed)
  <2>1. frame \in AudioFrames /\ frames \in Seq(Passed)  BY DEF FileInv, TypeOK, Passed
  <2>2. PassOn(frame) \in Seq(Passed)  BY <2>1, PassOnFrame
  <2> QED  BY <1>14, <2>1, <2>2
<1>17. shifted' \in BOOLEAN /\ sector_bad_reads' \in BOOLEAN
  <2>1. shifted \in BOOLEAN  BY DEF FileInv, TypeOK
  <2>2. (sector_bad_reads \/ (fr.started /\ ~Fits(fr, length))) \in BOOLEAN  OBVIOUS
  <2> QED  BY <1>14, <2>1, <2>2
<1>18. frame_info_idx' \in {frame_info_idx, frame_info_idx + 1}  BY <1>10, <1>14
<1> QED  BY <1>14, <1>15, <1>16, <1>17, <1>18, NextPacket

LEMMA EndSectorInPlace ==
  ASSUME FileInv, EndSector
  PROVE  TypeOK' /\ PlaceInv'
<1>1. /\ pc = "packet" /\ sector' = sector + 1
      /\ pc' = IF sector = upto THEN "return" ELSE "header"
      /\ UNCHANGED <<disc, upto, packet_info_idx, frame_info_idx, shifted, info, frame,
                     sector_bad_reads, frames>>
  BY DEF EndSector
<1>2. /\ sector \in Nat /\ upto \in Nat /\ last \in Nat /\ first \in Nat /\ first <= sector
      /\ sector <= upto /\ upto <= last
  BY <1>1, InFile
<1>3. UNCHANGED <<layout, first, last>>  BY <1>1 DEF disc
<1>4. sector' \in first..last + 1  BY <1>1, <1>2
<1>5. TypeOK'
  <2>1. pc' \in {"caller", "header", "packet", "return", "done"}  BY <1>1
  <2>2. info' \in [Slots -> [timecode : Codes', sector_count : Nat]]
        /\ frame' \in AudioFrames' /\ frames' \in Seq([timecode : Codes', data : Data'])
    BY <1>1, TypesOfFile DEF FileInv, TypeOK
  <2> QED  BY <1>1, <1>3, <1>4, <2>1, <2>2 DEF FileInv, TypeOK
<1>6. CASE sector = upto
  <2>1. pc' = "return" /\ sector' = upto' + 1  BY <1>1, <1>6
  <2> QED  BY <1>5, <2>1 DEF PlaceInv
<1>7. CASE sector # upto
  <2>1. pc' = "header" /\ sector' <= upto'  BY <1>1, <1>2, <1>7
  <2> QED  BY <1>5, <2>1 DEF PlaceInv
<1> QED  BY <1>6, <1>7

LEMMA ReturnInPlace ==
  ASSUME FileInv, Return
  PROVE  TypeOK' /\ PlaceInv'
<1>1. /\ pc = "return" /\ pc' = IF sector > last THEN "done" ELSE "caller"
      /\ IF sector > last THEN Flush ELSE UNCHANGED <<frame, frames>>
      /\ UNCHANGED <<disc, upto, sector, packet_info_idx, frame_info_idx, shifted, info,
                     sector_bad_reads>>
  BY DEF Return
<1>2. frame \in AudioFrames /\ frames \in Seq(Passed)  BY DEF FileInv, TypeOK, Passed
<1>3. frame' \in AudioFrames /\ frames' \in Seq(Passed)
  <2>1. PassOn(frame) \in Seq(Passed)  BY <1>2, PassOnFrame
  <2>2. PICK b \in BOOLEAN : b = (frame.started /\ ~Complete(frame))  OBVIOUS
  <2>3. [frame EXCEPT !.started = b] \in AudioFrames  BY <1>2 DEF AudioFrames
  <2>4. CASE Flush  BY <2>1, <2>2, <2>3, <2>4 DEF Flush
  <2> QED  BY <1>1, <1>2, <2>4
<1>4. UNCHANGED <<layout, first, last>>  BY <1>1 DEF disc
<1>5. TypeOK'
  <2>1. pc' \in {"caller", "header", "packet", "return", "done"}  BY <1>1
  <2>2. info' \in [Slots -> [timecode : Codes', sector_count : Nat]]
        /\ frame' \in AudioFrames' /\ frames' \in Seq([timecode : Codes', data : Data'])
    BY <1>1, <1>3, TypesOfFile DEF FileInv, TypeOK, Passed
  <2> QED  BY <1>1, <1>4, <2>1, <2>2 DEF FileInv, TypeOK
<1>6. PlaceInv'
  <2>1. sector \in Nat /\ last \in Nat  BY InFile
  <2>2. pc' = "caller" => sector' <= last'  BY <1>1, <1>4, <2>1
  <2> QED  BY <1>1, <2>2 DEF PlaceInv
<1> QED  BY <1>5, <1>6

LEMMA FileStep ==
  ASSUME FileInv, [Next]_vars
  PROVE  FileInv'
<1>1. UNCHANGED disc
  <2>1. CASE Next
    BY <2>1 DEF Next, Call, ReadHeader, SkipLong, SkipOther, Audio, EndSector, Return,
                Finished, vars, disc
  <2>2. CASE UNCHANGED vars  BY <2>2 DEF vars, disc
  <2> QED  BY <2>1, <2>2
<1>2. DiscInv'  BY <1>1 DEF FileInv, DiscInv, disc
<1>3. TypeOK' /\ PlaceInv'
  <2>1. CASE UNCHANGED vars
    <3>1. TypeOK'  BY <1>1, <2>1, TypesOfFile DEF vars, FileInv, TypeOK
    <3>2. PlaceInv'  BY <2>1 DEF vars, FileInv, PlaceInv, In
    <3> QED  BY <3>1, <3>2
  <2>2. CASE Call  BY <2>2, CallInPlace
  <2>3. CASE ReadHeader  BY <2>3, ReadHeaderInPlace
  <2>4. CASE SkipLong \/ SkipOther  BY <2>4, SkipInPlace
  <2>5. CASE Audio  BY <2>5, AudioInPlace
  <2>6. CASE EndSector  BY <2>6, EndSectorInPlace
  <2>7. CASE Return  BY <2>7, ReturnInPlace
  <2>8. CASE Finished  BY <2>1, <2>8 DEF Finished
  <2> QED  BY <2>1, <2>2, <2>3, <2>4, <2>5, <2>6, <2>7, <2>8 DEF Next
<1> QED  BY <1>2, <1>3 DEF FileInv

\* The headers of the damaged sector.
DamageInv == \A s \in DOMAIN layout : s = damage.sector => DOMAIN damage.hit = 1..Len(layout[s])

LEMMA CodesAreNumbers ==
  ASSUME FileInv
  PROVE  \A i \in DOMAIN frames : frames[i].timecode \in Nat
<1>1. Codes \subseteq Nat  BY Numbers DEF FileInv
<1>2. PICK seq \in Seq(Passed) : seq = frames  BY DEF FileInv, TypeOK, Passed
<1>3. \A i \in DOMAIN seq : seq[i] \in Passed  OBVIOUS
<1>4. \A g \in Passed : g.timecode \in Nat  BY <1>1 DEF Passed
<1> QED  BY <1>2, <1>3, <1>4

LEMMA BelowMore ==
  ASSUME FileInv, NEW b \in Int, NEW c \in Int, b <= c, Below(b), UNCHANGED <<frame, frames>>
  PROVE  Below(c)'
<1>1. Codes \subseteq Nat  BY Numbers DEF FileInv
<1>2. \A i \in DOMAIN frames : frames[i].timecode \in Nat  BY CodesAreNumbers
<1>3. frame.timecode \in Nat  BY <1>1 DEF FileInv, TypeOK, AudioFrames
<1>4. \A i \in DOMAIN frames : frames[i].timecode < c  BY <1>2 DEF Below
<1>5. frame.started => frame.timecode < c  BY <1>3 DEF Below
<1> QED  BY <1>4, <1>5 DEF Below

\* A frame is passed on behind those before it.
LEMMA PassedOnBelow ==
  ASSUME FileInv, NEW b \in Int, Below(b), NEW new, new = PassOn(frame)
  PROVE  /\ \A i, j \in DOMAIN new : i < j => new[i].timecode < new[j].timecode
         /\ \A i \in DOMAIN new : new[i].timecode < b /\ new[i].timecode \in Nat
<1>1. Codes \subseteq Nat  BY Numbers DEF FileInv
<1>2. frames \in Seq(Passed)  BY DEF FileInv, TypeOK, Passed
<1>3. \A i \in DOMAIN frames : frames[i].timecode \in Nat  BY CodesAreNumbers
<1>4. CASE ~Complete(frame)  BY <1>3, <1>4 DEF PassOn, Below
<1>5. CASE Complete(frame)
  <2>1. PICK g \in Passed : g = [timecode |-> frame.timecode, data |-> frame.data]
    BY DEF FileInv, TypeOK, AudioFrames, Passed
  <2>2. new = Append(frames, g)  BY <1>5, <2>1 DEF PassOn
  <2>3. frame.started  BY <1>5 DEF Complete
  <2>4. g.timecode = frame.timecode /\ g.timecode \in Nat  BY <1>1, <2>1 DEF Passed
  <2>5. g.timecode < b /\ \A i \in DOMAIN frames : frames[i].timecode < g.timecode
    BY <2>3, <2>4 DEF Below
  <2>6. PICK n \in Nat : n = Len(frames) /\ DOMAIN frames = 1..n  BY <1>2
  <2>7. /\ DOMAIN new = 1..n + 1 /\ new[n + 1] = g
        /\ \A i \in 1..n : new[i] = frames[i]
    BY <1>2, <2>2, <2>6
  <2>8. \A i \in 1..n + 1 : i = n + 1 \/ i \in 1..n  BY <2>6
  <2>9. \A i, j \in 1..n : i < j => frames[i].timecode < frames[j].timecode  BY <2>6 DEF Below
  <2>10. \A i \in 1..n : frames[i].timecode < b /\ frames[i].timecode \in Nat
    BY <1>3, <2>6 DEF Below
  <2>11. ASSUME NEW i \in 1..n + 1, NEW j \in 1..n + 1, i < j PROVE new[i].timecode < new[j].timecode
    <3>1. i \in 1..n  BY <2>6, <2>11
    <3>2. CASE j = n + 1  BY <2>5, <2>6, <2>7, <3>1, <3>2
    <3>3. CASE j \in 1..n  BY <2>7, <2>9, <2>11, <3>1, <3>3
    <3> QED  BY <2>8, <3>2, <3>3
  <2>12. \A i \in 1..n + 1 : new[i].timecode < b /\ new[i].timecode \in Nat
    BY <2>4, <2>5, <2>7, <2>8, <2>10
  <2> QED  BY <2>7, <2>11, <2>12
<1> QED  BY <1>4, <1>5

\* A sector begins above the codes of the sectors before it.
LEMMA SectorBounds ==
  ASSUME DiscInv, NEW s \in first..last
  PROVE  /\ NextStart(layout, s) \in Nat /\ LastOf(layout, s) \in Nat
         /\ s > first => LastOf(layout, s - 1) + 1 = NextStart(layout, s)
         /\ NextStart(layout, s) <= LastOf(layout, s) + 1
         /\ NextStart(layout, s) + (Len(layout[s]) - Carried(layout, s)) = LastOf(layout, s) + 1
<1>1. Mastered(layout) /\ s \in DOMAIN layout /\ first \in DOMAIN layout /\ first <= s
  BY Disc
<1>2. PICK c \in {0, 1} : c = Carried(layout, s)  BY DEF Carried
<1>3. PICK k \in 1..7 : k = Len(layout[s])  BY <1>1, Packets
<1>4. PICK x \in Nat : x = layout[s][1]  BY <1>1, Packets
<1>5. LastOf(layout, s) = x + k - 1  BY <1>1, <1>3, <1>4, Packets
<1>6. NextStart(layout, s) = x + c  BY <1>2, <1>4 DEF NextStart
<1>7. s > first => LastOf(layout, s - 1) + 1 = NextStart(layout, s)
  <2> SUFFICES ASSUME s > first PROVE LastOf(layout, s - 1) + 1 = NextStart(layout, s)  OBVIOUS
  <2>1. s - 1 \in DOMAIN layout
    <3>1. s > 1  BY <1>1, Disc
    <3> QED  BY <1>1, <3>1, Packets
  <2>2. PICK y \in Nat : y = LastOf(layout, s - 1)  BY <1>1, <2>1, Packets
  <2>3. 1 \in 1..Len(layout[s])
    <3>1. 1 \in 1..k  OBVIOUS
    <3> QED  BY <1>3, <3>1
  <2>4. IF Starts(layout, s, 1) THEN x - 1 = y ELSE x = y
    BY <1>1, <1>4, <2>2, <2>3, AtPlace
  <2>5. c = IF Starts(layout, s, 1) THEN 0 ELSE 1  BY <1>2 DEF Carried
  <2>6. y + 1 = x + c  BY <2>4, <2>5
  <2> QED  BY <1>6, <2>2, <2>6
<1>8. (x + c) + (k - c) = x + k - 1 + 1 /\ x + c <= x + k - 1 + 1 /\ x + c \in Nat /\ x + k - 1 \in Nat
  OBVIOUS
<1> QED  BY <1>2, <1>3, <1>5, <1>6, <1>7, <1>8

\* Between the sectors.
Bound(s) == IF s = first THEN 0 ELSE LastOf(layout, s - 1) + 1

LEMMA AscendBegins ==
  ASSUME DiscInv, Init
  PROVE  AscendInv
<1>1. Below(Bound(sector))  BY DEF Init, Below, NoFrame
<1>2. pc # "packet"  BY DEF Init
<1> QED  BY <1>1, <1>2 DEF AscendInv, Bound

LEMMA BoundIsNat ==
  ASSUME FileInv
  PROVE  Bound(sector) \in Nat
<1>1. CASE sector = first  BY <1>1 DEF Bound
<1>2. CASE sector # first
  <2>1. sector - 1 \in first..last
    <3>1. sector \in first..last + 1 /\ first \in Nat /\ last \in Nat  BY InFile DEF FileInv, TypeOK
    <3> QED  BY <1>2, <3>1
  <2>2. LastOf(layout, sector - 1) \in Nat  BY <2>1, SectorBounds DEF FileInv
  <2> QED  BY <1>2, <2>2 DEF Bound
<1> QED  BY <1>1, <1>2

LEMMA AscendStep ==
  ASSUME FileInv, DamageInv, NoFalseStart, AscendInv, Next
  PROVE  AscendInv'
<1>1. /\ UNCHANGED <<layout, first, last, damage>>
  BY DEF Next, Call, ReadHeader, SkipLong, SkipOther, Audio, EndSector, Return, Finished, vars, disc
<1>2. PICK s : s = sector  OBVIOUS
<1>3. PICK b \in Nat : b = Bound(s)  BY <1>2, BoundIsNat
<1>4. pc # "packet" => Below(b)  BY <1>2, <1>3 DEF AscendInv, Bound
<1>5. ASSUME pc \in {"header", "packet"}
      PROVE  s \in first..last /\ s \in DOMAIN layout
  BY <1>2, <1>5, InFile
<1>6. CASE Call
  <2>1. Below(b)'
    <3>1. Below(b)  BY <1>4, <1>6 DEF Call
    <3> QED  BY <3>1, <1>6, BelowMore DEF Call
  <2>2. sector' = s /\ pc' = "header"  BY <1>2, <1>6 DEF Call
  <2> QED  BY <1>1, <1>3, <2>1, <2>2 DEF AscendInv, Bound, Below
<1>7. CASE ReadHeader
  <2>1. pc = "header" /\ pc' = "packet" /\ sector' = s /\ frame_info_idx' = 0 /\ UNCHANGED <<frame, frames>>
    BY <1>2, <1>7 DEF ReadHeader
  <2>2. PICK x \in Nat : x = NextStart(layout, s)  BY <1>5, <2>1, SectorBounds DEF FileInv
  <2>3. b <= x
    <3>1. CASE s = first  BY <1>3, <2>2, <3>1 DEF Bound
    <3>2. CASE s # first
      <4>1. s > first  BY <1>5, <2>1, <3>2, InFile
      <4>2. b = x  BY <1>3, <1>5, <2>1, <2>2, <3>2, <4>1, SectorBounds DEF FileInv, Bound
      <4> QED  BY <2>2, <4>2
    <3> QED  BY <3>1, <3>2
  <2>4. Below(x)'  BY <1>4, <2>1, <2>2, <2>3, BelowMore
  <2>5. NextStart(layout, sector)' + frame_info_idx' = x  BY <1>1, <2>1, <2>2
  <2> QED  BY <2>1, <2>4, <2>5 DEF AscendInv, Below
<1>8. ASSUME NEW hits, AtPacket(hits)
      PROVE  /\ pc = "packet" /\ s \in first..last /\ s \in DOMAIN layout
             /\ packet_info_idx \in 1..Len(layout[s]) /\ packet_info_idx' = packet_info_idx + 1
             /\ frame_info_idx \in Nat
             /\ frame_info_idx = 0 \/ frame_info_idx < packet_info_idx - Carried(layout, s)
             /\ Below(NextStart(layout, s) + frame_info_idx)
  <2>1. pc = "packet" /\ packet_info_idx <= Len(layout[s]) /\ packet_info_idx' = packet_info_idx + 1
    BY <1>2, <1>8 DEF AtPacket, In
  <2>2. s \in first..last /\ s \in DOMAIN layout  BY <1>5, <2>1
  <2>3. PICK k \in 1..7 : k = Len(layout[s])  BY <2>2, Packets, Disc DEF FileInv
  <2>4. packet_info_idx \in 1..k + 1 /\ frame_info_idx \in 0..packet_info_idx - 1
    BY <1>2, <2>1, <2>3 DEF FileInv, PlaceInv, In
  <2>5. packet_info_idx \in 1..k  BY <2>1, <2>3, <2>4
  <2> QED  BY <1>2, <2>1, <2>2, <2>3, <2>4, <2>5 DEF AscendInv
\* The frame is of the time code it had, or of none: the bound stays.
<1>9. ASSUME NEW hits, AtPacket(hits), UNCHANGED <<pc, sector, frame_info_idx, frames>>,
             frame'.timecode = frame.timecode, frame'.started => frame.started
      PROVE  AscendInv'
  <2>1. PICK i \in Nat : i = frame_info_idx  BY <1>8, <1>9
  <2>2. PICK c \in {0, 1} : c = Carried(layout, s)  BY DEF Carried
  <2>3. PICK q : q = packet_info_idx  OBVIOUS
  <2>4. PICK k \in Nat : k = Len(layout[s])  BY <1>8, <1>9, Packets, Disc DEF FileInv
  <2>5. q \in 1..k /\ (i = 0 \/ i < q - c) /\ packet_info_idx' = q + 1 /\ pc = "packet"
    BY <1>8, <1>9, <2>1, <2>2, <2>3, <2>4
  <2>6. PICK x : x = NextStart(layout, s) + i  OBVIOUS
  <2>7. Below(x)  BY <1>8, <1>9, <2>1, <2>6
  <2>8. Below(x)'  BY <1>9, <2>7 DEF Below
  <2>9. NextStart(layout, sector)' + frame_info_idx' = x /\ Carried(layout, sector)' = c
    BY <1>1, <1>2, <1>9, <2>1, <2>2, <2>6
  <2>10. i = 0 \/ i < (q + 1) - c  BY <2>2, <2>5
  <2> QED  BY <1>9, <2>1, <2>5, <2>8, <2>9, <2>10 DEF AscendInv, Below
<1>10. CASE SkipLong \/ SkipOther  BY <1>9, <1>10 DEF SkipLong, SkipOther
<1>11. CASE EndSector
  <2>1. /\ pc = "packet" /\ packet_info_idx > Len(layout[s]) /\ sector' = s + 1 /\ pc' # "packet"
        /\ UNCHANGED <<frame, frames>>
    BY <1>2, <1>11 DEF EndSector, In
  <2>2. s \in first..last /\ s \in DOMAIN layout  BY <1>5, <2>1
  <2>3. PICK k \in 1..7 : k = Len(layout[s])  BY <2>2, Packets, Disc DEF FileInv
  <2>4. PICK q \in Nat : q = packet_info_idx /\ q = k + 1
    <3>1. packet_info_idx \in 1..k + 1  BY <1>2, <2>1, <2>3 DEF FileInv, PlaceInv, In
    <3> QED  BY <2>1, <2>3, <3>1
  <2>5. PICK i \in Nat : i = frame_info_idx
    <3>1. frame_info_idx \in 0..7  BY DEF FileInv, TypeOK
    <3> QED  BY <3>1
  <2>6. PICK c \in {0, 1} : c = Carried(layout, s)  BY DEF Carried
  <2>7. (i = 0 \/ i < q - c) /\ Below(NextStart(layout, s) + i)
    BY <1>2, <2>1, <2>4, <2>5, <2>6 DEF AscendInv
  <2>8. PICK x \in Nat, y \in Nat : /\ x = NextStart(layout, s) /\ y = LastOf(layout, s) + 1
                                    /\ x <= y /\ x + (k - c) = y
    BY <2>2, <2>3, <2>6, SectorBounds DEF FileInv
  <2>9. x + i <= y /\ x + i \in Int
    <3>1. i = 0 \/ i <= k - c  BY <2>4, <2>7
    <3> QED  BY <2>8, <3>1
  <2>10. Below(y)'  BY <2>1, <2>7, <2>8, <2>9, BelowMore
  <2>11. sector' # first' /\ sector' - 1 = s /\ LastOf(layout, s)' + 1 = y
    <3>1. first \in Nat /\ s \in Nat /\ first <= s  BY <1>2, InFile
    <3> QED  BY <1>1, <2>1, <2>8, <3>1
  <2>12. PICK t : t = sector'  OBVIOUS
  <2>13. (IF sector' = first' THEN 0 ELSE LastOf(layout', sector' - 1) + 1) = y  BY <1>1, <2>8, <2>11
  <2> QED  BY <2>1, <2>10, <2>13 DEF AscendInv, Below
<1>12. CASE Return
  <2>1. /\ pc = "return" /\ pc' # "packet" /\ sector' = s
        /\ Flush \/ UNCHANGED <<frame, frames>>
    BY <1>2, <1>12 DEF Return
  <2>2. Below(b)  BY <1>4, <2>1
  <2>3. Below(b)'
    <3>1. CASE UNCHANGED <<frame, frames>>  BY <2>2, <3>1, BelowMore
    <3>2. CASE Flush
      <4>1. PICK new : new = PassOn(frame)  OBVIOUS
      <4>2. frames' = new /\ frame' = [frame EXCEPT !.started = @ /\ ~Complete(frame)]
        BY <3>2, <4>1 DEF Flush
      <4>3. /\ \A i, j \in DOMAIN new : i < j => new[i].timecode < new[j].timecode
            /\ \A i \in DOMAIN new : new[i].timecode < b
        BY <2>2, <4>1, PassedOnBelow
      <4>4. frame \in AudioFrames  BY DEF FileInv, TypeOK
      <4>5. frame'.timecode = frame.timecode /\ (frame'.started <=> frame.started /\ ~Complete(frame))
        BY <4>2, <4>4 DEF AudioFrames
      <4>6. ~Complete(frame) => new = frames  BY <4>1 DEF PassOn
      <4> QED  BY <2>2, <4>2, <4>3, <4>5, <4>6 DEF Below
    <3> QED  BY <2>1, <3>1, <3>2
  <2> QED  BY <1>1, <1>3, <2>1, <2>3 DEF AscendInv, Bound, Below
<1>13. CASE Finished
  <2>1. pc # "packet" /\ pc' = pc /\ sector' = s /\ UNCHANGED <<frame, frames>>
    BY <1>2, <1>13 DEF Finished, vars
  <2>2. Below(b)'  BY <1>4, <2>1, BelowMore
  <2> QED  BY <1>1, <1>3, <2>1, <2>2 DEF AscendInv, Bound, Below
<1>14. CASE Audio
  <2>1. PICK hits : hits = {"none", "flip"}  OBVIOUS
  <2>2. AtPacket(hits)  BY <1>14, <2>1 DEF Audio
  <2>3. PICK q : q = packet_info_idx  OBVIOUS
  <2>4. /\ pc = "packet" /\ s \in first..last /\ s \in DOMAIN layout
        /\ q \in 1..Len(layout[s]) /\ packet_info_idx' = q + 1
    BY <1>8, <2>2, <2>3
  <2>5. PICK k \in 1..7 : k = Len(layout[s])  BY <2>4, Packets, Disc DEF FileInv
  <2>6. PICK f \in FrameNumbers(layout) : f = layout[s][q]
    <3>1. layout[s][q] \in FrameNumbers(layout)  BY <2>4 DEF FrameNumbers
    <3> QED  BY <3>1
  <2>7. PICK length \in Nat : length = PacketLength(layout, s)  BY <2>4, Lengths, Disc DEF FileInv
  <2>8. PICK right \in BOOLEAN : right = ~shifted  OBVIOUS
  <2>9. PICK i \in Nat : i = frame_info_idx  BY <1>8, <2>2
  <2>10. /\ UNCHANGED <<pc, sector>>
         /\ IF StartBit(s, q)
            THEN /\ frames' = PassOn(frame) /\ frame_info_idx' = i + 1
                 /\ frame' = Extended(Begun(info[i]), length, Piece(f, s, right))
            ELSE /\ frames' = frames /\ frame_info_idx' = i
                 /\ frame' = Extended(frame, length, Piece(f, s, right))
    BY <1>2, <1>14, <2>3, <2>6, <2>7, <2>8, <2>9 DEF Audio, NextInfo
  <2>11. CASE ~StartBit(s, q)
    <3>1. frame \in AudioFrames  BY DEF FileInv, TypeOK
    <3>2. frame'.timecode = frame.timecode /\ (frame'.started => frame.started)
      BY <2>4, <2>10, <2>11, <3>1, ExtendedFrame DEF FileInv
    <3> QED  BY <1>9, <2>2, <2>9, <2>10, <2>11, <3>2
  <2>12. CASE StartBit(s, q)
    <3>1. Starts(layout, s, q)
      <4>1. HitOf(s, q) = "flip" => Starts(layout, s, q)
        <5> SUFFICES ASSUME HitOf(s, q) = "flip" PROVE Starts(layout, s, q)  OBVIOUS
        <5>1. s = damage.sector /\ damage.hit[q] = "flip"  BY DEF HitOf
        <5>2. q \in DOMAIN damage.hit  BY <2>4, <5>1 DEF DamageInv
        <5> QED  BY <5>1, <5>2 DEF NoFalseStart
      <4> QED  BY <2>12, <4>1 DEF StartBit
    <3>2. PICK c \in {0, 1} : c = Carried(layout, s)  BY DEF Carried
    <3>3. q = 1 => c = 0  BY <3>1, <3>2 DEF Carried
    <3>4. i = 0 \/ i < q - c  BY <1>8, <2>2, <2>3, <2>9, <3>2
    <3>5. q \in 1..k  BY <2>4, <2>5
    <3>6. i + 1 \in 1..k - c /\ i + 1 < (q + 1) - c /\ (i + 1) - 1 = i  BY <3>2, <3>3, <3>4, <3>5
    <3>7. PICK x \in Nat : x = NextStart(layout, s)  BY <2>4, SectorBounds DEF FileInv
    <3>8. PICK n : n = info[i]  OBVIOUS
    <3>9. n \in [timecode : Codes, sector_count : Nat] /\ n.timecode = x + i
      <4>1. i + 1 \in DOMAIN Infos(layout, s)  BY <2>4, <2>5, <3>2, <3>6, InfosOf, Disc DEF FileInv
      <4>2. n = Infos(layout, s)[i + 1]
        <5>1. info[(i + 1) - 1] = Infos(layout, s)[i + 1]  BY <1>2, <2>4, <4>1 DEF FileInv, PlaceInv
        <5> QED  BY <3>6, <3>8, <5>1
      <4>3. /\ n \in [timecode : FrameNumbers(layout), sector_count : Nat]
            /\ n.timecode = x + (i + 1) - 1
        BY <2>4, <3>7, <4>1, <4>2, InfosOf, Disc DEF FileInv
      <4> QED  BY <4>3 DEF Codes
    <3>10. Begun(n) \in AudioFrames /\ Begun(n).timecode = x + i
      BY <3>9, BegunFrame DEF FileInv
    <3>11. frame'.timecode = x + i
      BY <2>4, <2>10, <2>12, <3>8, <3>10, ExtendedFrame DEF FileInv
    <3>12. Below(x + i)  BY <1>8, <2>2, <2>9, <3>7
    <3>13. PICK new : new = PassOn(frame)  OBVIOUS
    <3>14. /\ \A g, h \in DOMAIN new : g < h => new[g].timecode < new[h].timecode
           /\ \A g \in DOMAIN new : new[g].timecode < x + i /\ new[g].timecode \in Nat
      BY <3>12, <3>13, PassedOnBelow
    <3>15. frames' = new  BY <2>10, <2>12, <3>13
    <3>16. \A g \in DOMAIN new : new[g].timecode < x + (i + 1)  BY <3>14
    <3>17. x + i < x + (i + 1)  OBVIOUS
    <3>18. Below(x + (i + 1))'  BY <3>11, <3>14, <3>15, <3>16, <3>17 DEF Below
    <3>19. NextStart(layout, sector)' + frame_info_idx' = x + (i + 1) /\ Carried(layout, sector)' = c
      BY <1>1, <1>2, <2>10, <2>12, <3>2, <3>7
    <3>20. frame_info_idx' < packet_info_idx' - Carried(layout, sector)'
      BY <2>4, <2>10, <2>12, <3>6, <3>19
    <3> QED  BY <2>4, <2>10, <3>18, <3>19, <3>20 DEF AscendInv, Below
  <2> QED  BY <2>11, <2>12
<1> QED  BY <1>6, <1>7, <1>10, <1>11, <1>12, <1>13, <1>14 DEF Next

\* What is kept by every step, with damage or without.
LEMMA File == Spec => [](FileInv /\ DamageInv /\ AscendInv)
<1>1. Init => FileInv /\ DamageInv /\ AscendInv
  <2> SUFFICES ASSUME Init PROVE FileInv /\ DamageInv /\ AscendInv  OBVIOUS
  <2>1. DiscInv  BY SomeFile
  <2>2. DamageInv
    <3> SUFFICES ASSUME NEW s \in DOMAIN layout, s = damage.sector
                 PROVE  DOMAIN damage.hit = 1..Len(layout[s])
      BY DEF DamageInv
    <3>1. CASE damage = NoDamage
      <4>1. s = 0  BY <3>1 DEF NoDamage
      <4>2. s # 0  BY <2>1, Disc
      <4> QED  BY <4>1, <4>2
    <3>2. CASE damage # NoDamage
      <4>1. PICK t \in first..last : \E h \in [1..In(t) -> Hits] : damage = [sector |-> t, hit |-> h]
        BY <3>2 DEF Init
      <4>2. s = t /\ DOMAIN damage.hit = 1..In(t)  BY <4>1
      <4> QED  BY <4>2 DEF In
    <3> QED  BY <3>1, <3>2
  <2> QED  BY <2>1, <2>2, StartsInPlace, AscendBegins DEF FileInv
<1>2. FileInv /\ DamageInv /\ AscendInv /\ [Next]_vars => (FileInv /\ DamageInv /\ AscendInv)'
  <2> SUFFICES ASSUME FileInv, DamageInv, AscendInv, [Next]_vars
               PROVE  FileInv' /\ DamageInv' /\ AscendInv'
    OBVIOUS
  <2>1. FileInv'  BY FileStep
  <2>2. UNCHANGED <<layout, damage>>
    BY DEF Next, Call, ReadHeader, SkipLong, SkipOther, Audio, EndSector, Return, Finished, vars, disc
  <2>3. DamageInv'  BY <2>2 DEF DamageInv
  <2>4. AscendInv'
    <3>1. CASE ~NoFalseStart
      <4>1. ~NoFalseStart'  BY <2>2, <3>1 DEF NoFalseStart
      <4> QED  BY <4>1 DEF AscendInv
    <3>2. CASE NoFalseStart /\ Next  BY <3>2, AscendStep
    <3>3. CASE UNCHANGED vars  BY <3>3 DEF vars, AscendInv, NoFalseStart, Below
    <3> QED  BY <3>1, <3>2, <3>3
  <2> QED  BY <2>1, <2>3, <2>4
<1> QED  BY <1>1, <1>2, PTL DEF Spec

LEMMA AscendingCodes == FileInv /\ AscendInv => TimecodesAscend
<1> SUFFICES ASSUME AscendInv, NoFalseStart
             PROVE  \A i, j \in DOMAIN frames : i < j => frames[i].timecode < frames[j].timecode
  BY DEF TimecodesAscend
<1>1. CASE pc = "packet"  BY <1>1 DEF AscendInv, Below
<1>2. CASE pc # "packet"  BY <1>2 DEF AscendInv, Below
<1> QED  BY <1>1, <1>2

-----------------------------------------------------------------------------
(* Damage is local *)

DamageAt == /\ damage.sector \in Nat
            /\ damage.sector # 0 => damage.sector \in first..last

\* What LocalInv says of the frames, said of a sequence and a frame.
EntireIn(fs) == {f \in Whole : \E i \in DOMAIN fs : fs[i] = Entire(layout, f)}
AllLocal(fs) == \A i \in DOMAIN fs : EntireOrHit(fs[i].timecode, fs[i].data)
TouchedBy(fr) == fr.started =>
                   /\ fr.data # <<>> /\ fr.data[1].sector <= damage.sector
                   /\ Complete(fr) => EntireOrHit(fr.timecode, fr.data)

LEMMA NowBehind ==
  ASSUME NEW s, NEW f
  PROVE  Behind(s, f) <=>
           /\ \A g \in Whole : g < f /\ AwayFromDamage(g) => g \in EntireIn(frames)
           /\ AllLocal(frames)
           /\ IF StartOf(layout, f) > damage.sector
              THEN frame = Held(layout, dst_encoded, first, s, f) ELSE TouchedBy(frame)
BY DEF Behind, EntireIn, EntireFrames, AllLocal, TouchedBy, Touched

LEMMA BehindNext ==
  ASSUME UNCHANGED disc, NEW fs, frames' = fs, NEW fr, frame' = fr, NEW s, NEW f,
         \A g \in Whole : g < f /\ AwayFromDamage(g) => g \in EntireIn(fs), AllLocal(fs),
         IF StartOf(layout, f) > damage.sector
         THEN fr = Held(layout, dst_encoded, first, s, f) ELSE TouchedBy(fr)
  PROVE  Behind(s, f)'
<1>1. UNCHANGED <<layout, dst_encoded, first, last, damage>>  BY DEF disc
<1>2. Whole' = Whole  BY <1>1 DEF Whole
<1>3. \A g : AwayFromDamage(g)' <=> AwayFromDamage(g)
  BY <1>1 DEF AwayFromDamage, NextStartFound, In, HitOf
<1>4. EntireFrames' = EntireIn(fs)  BY <1>1, <1>2 DEF EntireFrames, EntireIn
<1>5. \A g \in Whole' : g < f /\ AwayFromDamage(g)' => g \in EntireFrames'
  BY <1>2, <1>3, <1>4
<1>6. \A i \in DOMAIN frames' : EntireOrHit(frames[i].timecode, frames[i].data)'
  BY <1>1 DEF AllLocal, EntireOrHit
<1>7. StartOf(layout, f)' > damage.sector' => frame' = Held(layout', dst_encoded', first', s, f)
  BY <1>1
<1>8. ~(StartOf(layout, f)' > damage.sector') => Touched'
  <2>1. Complete(frame)' <=> Complete(fr)  BY <1>1 DEF Complete
  <2>2. EntireOrHit(frame.timecode, frame.data)' <=> EntireOrHit(fr.timecode, fr.data)
    BY <1>1 DEF EntireOrHit
  <2>3. ~(StartOf(layout, f)' > damage.sector') => TouchedBy(fr)  BY <1>1
  <2> QED  BY <1>1, <2>1, <2>2, <2>3 DEF Touched, TouchedBy
<1> QED  BY <1>1, <1>5, <1>6, <1>7, <1>8 DEF Behind

\* A frame is entire by its first packet.
LEMMA EntireIsLocal ==
  ASSUME DiscInv, NEW g \in FrameNumbers(layout), NEW c, NEW d,
         [timecode |-> c, data |-> d] = Entire(layout, g)
  PROVE  EntireOrHit(c, d)
<1>1. PICK n \in Nat : n = Cardinality(SectorsOf(layout, g)) /\ n >= 1
  <2>1. PICK a, b \in Nat : a <= b /\ SectorsOf(layout, g) = a..b
    <3>1. DOMAIN layout \subseteq Nat  BY Disc
    <3> QED  BY <3>1, Disc, FrameSectors
  <2>2. Cardinality(a..b) = b - a + 1  BY <2>1, FS_Interval
  <2> QED  BY <2>1, <2>2
<1>2. PICK e : e = Entire(layout, g)  OBVIOUS
<1>3. e.data = Pieces(layout, g, n)  BY <1>1, <1>2 DEF Entire
<1>4. e.data = d  BY <1>2
<1>5. d[1].frame = g
  <2>1. 1 \in 1..n  BY <1>1
  <2>2. d[1] = Piece(g, StartOf(layout, g) + 1 - 1, TRUE)  BY <1>3, <1>4, <2>1 DEF Pieces
  <2> QED  BY <2>2 DEF Piece
<1> QED  BY <1>5 DEF EntireOrHit

\* A frame that was put together without damage is complete at its end, and
\* entire when it is complete.
LEMMA HeldEntire ==
  ASSUME DiscInv, NEW g \in FrameNumbers(layout),
         NEW t \in StartOf(layout, g)..EndOf(layout, g),
         frame = Held(layout, dst_encoded, first, t, g)
  PROVE  /\ Complete(frame) => /\ [timecode |-> frame.timecode, data |-> frame.data] = Entire(layout, g)
                               /\ EntireOrHit(frame.timecode, frame.data)
         /\ t = EndOf(layout, g) /\ g \in Whole => Complete(frame)
         /\ frame.started => frame.data # <<>> /\ frame.data[1].sector = StartOf(layout, g)
<1>1. PICK w \in Nat : w = NextStart(layout, first)  BY WholeFrames
<1>2. g \in Nat  BY Disc, FrameSectors
<1>3. CASE g < w
  <2>1. frame = NoFrame  BY <1>1, <1>3 DEF Held
  <2>2. ~frame.started /\ ~Complete(frame)  BY <2>1 DEF NoFrame, Complete
  <2>3. g \notin Whole
    <3>1. PICK f0 : f0 = LastOf(layout, last)  OBVIOUS
    <3>2. f0 \in Nat /\ Whole = {f \in w..f0 : f = f0 => EndOf(layout, f0) = last}
      BY <1>1, <3>1, WholeFrames
    <3>3. g \in Whole => g \in w..f0  BY <3>2
    <3> QED  BY <1>1, <1>2, <1>3, <3>2, <3>3
  <2> QED  BY <2>2, <2>3
<1>4. CASE g >= w
  <2>1. /\ Complete(frame) <=> t = EndOf(layout, g)
        /\ t = EndOf(layout, g) => [timecode |-> frame.timecode, data |-> frame.data] = Entire(layout, g)
    BY <1>1, <1>4, Completed
  <2>2. Complete(frame) => EntireOrHit(frame.timecode, frame.data)  BY <2>1, EntireIsLocal
  <2>3. frame.data # <<>> /\ frame.data[1].sector = StartOf(layout, g)
    <3>1. PICK a \in Nat : a = StartOf(layout, g)
      <4>1. DOMAIN layout \subseteq Nat  BY Disc
      <4> QED  BY <4>1, Disc, FrameSectors
    <3>2. PICK n \in Nat : n = t - StartOf(layout, g) + 1 /\ n >= 1
      <4>1. t \in a..EndOf(layout, g)  BY <3>1
      <4>2. t \in Int /\ a <= t
        <5>1. EndOf(layout, g) \in Int
          <6>1. DOMAIN layout \subseteq Nat  BY Disc
          <6> QED  BY <6>1, Disc, FrameSectors
        <5> QED  BY <4>1, <5>1, <3>1
      <4>3. t - a + 1 \in Nat /\ t - a + 1 >= 1  BY <4>2, <3>1
      <4> QED  BY <3>1, <4>3
    <3>3. frame.data = Pieces(layout, g, n)
      <4>1. ~(g < NextStart(layout, first))  BY <1>1, <1>2, <1>4
      <4> QED  BY <3>2, <4>1 DEF Held
    <3>4. frame.data = [i \in 1..n |-> Piece(g, a + i - 1, TRUE)]  BY <3>1, <3>3 DEF Pieces
    <3>5. 1 \in 1..n /\ a + 1 - 1 = a  BY <3>1, <3>2
    <3>6. frame.data[1] = Piece(g, a, TRUE)  BY <3>4, <3>5
    <3>7. frame.data # <<>>
      <4>1. DOMAIN frame.data = 1..n  BY <3>4
      <4> QED  BY <3>5, <4>1
    <3> QED  BY <3>1, <3>6, <3>7 DEF Piece
  <2> QED  BY <2>1, <2>2, <2>3
<1> QED  BY <1>1, <1>2, <1>3, <1>4

\* What is passed on stays, and one frame may follow.
LEMMA PassedOnLocal ==
  ASSUME FileInv, AllLocal(frames), NEW fs, fs = PassOn(frame),
         Complete(frame) => EntireOrHit(frame.timecode, frame.data)
  PROVE  /\ AllLocal(fs) /\ EntireIn(frames) \subseteq EntireIn(fs)
         /\ \A g \in Whole : /\ Complete(frame)
                             /\ [timecode |-> frame.timecode, data |-> frame.data] = Entire(layout, g)
              => g \in EntireIn(fs)
<1>1. CASE ~Complete(frame)  BY <1>1 DEF PassOn
<1>2. CASE Complete(frame)
  <2>1. PICK c : c = frame.timecode  OBVIOUS
  <2>2. PICK d : d = frame.data  OBVIOUS
  <2>3. PICK r \in Passed : r = [timecode |-> c, data |-> d]
    BY <2>1, <2>2 DEF FileInv, TypeOK, AudioFrames, Passed
  <2>4. fs = Append(frames, r)  BY <1>2, <2>1, <2>2, <2>3 DEF PassOn
  <2>5. frames \in Seq(Passed)  BY DEF FileInv, TypeOK, Passed
  <2>6. PICK n \in Nat : n = Len(frames) /\ DOMAIN frames = 1..n  BY <2>5
  <2>7. DOMAIN fs = 1..n + 1 /\ fs[n + 1] = r /\ \A i \in 1..n : fs[i] = frames[i]
    BY <2>4, <2>5, <2>6
  <2>8. n + 1 \in 1..n + 1 /\ \A i \in 1..n + 1 : i = n + 1 \/ i \in 1..n  OBVIOUS
  <2>9. AllLocal(fs)
    <3>1. EntireOrHit(c, d) /\ r.timecode = c /\ r.data = d  BY <1>2, <2>1, <2>2, <2>3
    <3>2. \A i \in 1..n : EntireOrHit(frames[i].timecode, frames[i].data)  BY <2>6 DEF AllLocal
    <3>3. \A i \in 1..n + 1 : EntireOrHit(fs[i].timecode, fs[i].data)
      BY <2>7, <2>8, <3>1, <3>2
    <3> QED  BY <2>7, <3>3 DEF AllLocal
  <2>10. EntireIn(frames) \subseteq EntireIn(fs)  BY <2>6, <2>7, <2>8 DEF EntireIn
  <2>11. \A g \in Whole : r = Entire(layout, g) => g \in EntireIn(fs)
    BY <2>7, <2>8 DEF EntireIn
  <2> QED  BY <2>1, <2>2, <2>3, <2>9, <2>10, <2>11
<1> QED  BY <1>1, <1>2

\* A packet in or behind the damaged sector.
LEMMA ExtendedTouched ==
  ASSUME FileInv, DamageAt, NEW fr \in AudioFrames, NEW s \in first..last, damage.sector <= s,
         NEW f \in FrameNumbers(layout), NEW length \in Nat, NEW right \in BOOLEAN,
         fr.started => IF fr.data = <<>> THEN s <= damage.sector
                       ELSE fr.data[1].sector <= damage.sector,
         NEW new, new = Extended(fr, length, Piece(f, s, right))
  PROVE  TouchedBy(new)
<1>1. CASE ~fr.started  BY <1>1 DEF Extended, TouchedBy
<1>2. CASE fr.started /\ ~Fits(fr, length)
  <2>1. new = [fr EXCEPT !.started = FALSE]  BY <1>2 DEF Extended
  <2>2. ~new.started  BY <2>1 DEF AudioFrames
  <2> QED  BY <2>2 DEF TouchedBy
<1>3. CASE fr.started /\ Fits(fr, length)
  <2>1. PICK piece : piece = Piece(f, s, right)  OBVIOUS
  <2>2. PICK D : D = [frame : FrameNumbers(layout), sector : first..last, right : BOOLEAN]  OBVIOUS
  <2>3. piece \in D /\ piece.sector = s  BY <2>1, <2>2 DEF Piece
  <2>4. PICK old \in Seq(D) : old = fr.data  BY <2>2 DEF AudioFrames, Data
  <2>5. PICK d : d = Append(old, piece)  OBVIOUS
  <2>6. new.data = d
    <3>1. PICK x : x = fr.size + length  OBVIOUS
    <3>2. PICK y : y = IF dst_encoded THEN fr.sector_count - 1 ELSE fr.sector_count  OBVIOUS
    <3>3. new = [fr EXCEPT !.size = x, !.data = d, !.sector_count = y]
      BY <1>3, <2>1, <2>4, <2>5, <3>1, <3>2 DEF Extended
    <3> QED  BY <3>3 DEF AudioFrames
  <2>7. PICK n \in Nat : n = Len(old) /\ DOMAIN old = 1..n  OBVIOUS
  <2>8. Len(d) = n + 1 /\ DOMAIN d = 1..n + 1 /\ d[n + 1] = piece /\ \A i \in 1..n : d[i] = old[i]
    BY <2>3, <2>5, <2>7
  <2>9. d # <<>> /\ d[Len(d)].sector = s  BY <2>3, <2>7, <2>8
  <2>10. d[1].sector <= damage.sector
    <3>1. CASE n = 0
      <4>1. old = <<>>  BY <2>7, <3>1
      <4>2. d[1] = piece  BY <2>8, <3>1
      <4> QED  BY <1>3, <2>3, <2>4, <4>1, <4>2
    <3>2. CASE n # 0
      <4>1. old # <<>> /\ 1 \in 1..n  BY <2>7, <3>2
      <4>2. d[1] = old[1]  BY <2>8, <4>1
      <4> QED  BY <1>3, <2>4, <4>1, <4>2
    <3> QED  BY <3>1, <3>2
  <2>11. EntireOrHit(new.timecode, d)  BY <2>9, <2>10 DEF EntireOrHit
  <2> QED  BY <2>6, <2>9, <2>10, <2>11 DEF TouchedBy
<1> QED  BY <1>1, <1>2, <1>3

\* What lies in the file as a whole, lies behind the first start and before the
\* end.
LEMMA WholeBounds ==
  ASSUME DiscInv, NEW g \in Whole
  PROVE  /\ g \in FrameNumbers(layout) /\ g \in Nat
         /\ NextStart(layout, first) \in Nat /\ g >= NextStart(layout, first)
         /\ LastOf(layout, last) \in Nat /\ g <= LastOf(layout, last)
         /\ g = LastOf(layout, last) => EndOf(layout, g) = last
<1>1. PICK w : w = NextStart(layout, first)  OBVIOUS
<1>2. PICK f0 : f0 = LastOf(layout, last)  OBVIOUS
<1>3. w \in Nat /\ f0 \in Nat /\ Whole = {f \in w..f0 : f = f0 => EndOf(layout, f0) = last}
  BY <1>1, <1>2, WholeFrames
<1>4. g \in w..f0 /\ (g = f0 => EndOf(layout, f0) = last)  BY <1>3
<1>5. g \in FrameNumbers(layout)  BY DEF Whole
<1> QED  BY <1>1, <1>2, <1>3, <1>4, <1>5

\* What was passed on before the damaged sector.
LEMMA PassedOnEntire ==
  ASSUME DiscInv, NEW t \in first..last, NEW g0, g0 = LastOf(layout, t),
         frames = PassedOn(layout, first, g0)
  PROVE  /\ \A g \in Whole : g < g0 => g \in EntireIn(frames)
         /\ AllLocal(frames)
<1>1. PICK w \in Nat : w = NextStart(layout, first)  BY WholeFrames
<1>2. Mastered(layout) /\ t \in DOMAIN layout /\ first \in DOMAIN layout /\ first <= t  BY Disc
<1>3. g0 \in Nat  BY <1>2, Packets
<1>4. frames = [i \in 1..g0 - w |-> Entire(layout, w + i - 1)]
  BY <1>1 DEF PassedOn, EntireFrom
<1>5. \A x \in w..g0 : x \in FrameNumbers(layout)
  <2> TAKE x \in w..g0
  <2>1. PICK y \in Nat : y = layout[first][1]  BY <1>2, Packets
  <2>2. w = y \/ w = y + 1  BY <1>1, <2>1 DEF NextStart, Carried
  <2>3. x \in layout[first][1]..LastOf(layout, t)  BY <1>1, <1>3, <2>1, <2>2
  <2>4. PICK u \in first..t : x \in layout[u][1]..LastOf(layout, u)  BY <1>2, <2>3, Covered
  <2>5. u \in DOMAIN layout
    <3>1. first \in Nat /\ last \in Nat  BY Disc
    <3>2. u \in first..last  BY <3>1
    <3> QED  BY <3>2, Disc
  <2> QED  BY <1>2, <2>4, <2>5, FrameIn
<1>6. ASSUME NEW g \in Whole, g < g0 PROVE g \in EntireIn(frames)
  <2>1. g \in Nat /\ g >= w  BY <1>1, WholeBounds
  <2>2. PICK i : i = g - w + 1  OBVIOUS
  <2>3. i \in 1..g0 - w /\ w + i - 1 = g  BY <1>3, <1>6, <2>1, <2>2
  <2>4. i \in DOMAIN frames /\ frames[i] = Entire(layout, g)  BY <1>4, <2>3
  <2> QED  BY <2>4 DEF EntireIn
<1>7. ASSUME NEW i \in 1..g0 - w PROVE EntireOrHit(frames[i].timecode, frames[i].data)
  <2>1. PICK x : x = w + i - 1  OBVIOUS
  <2>2. x \in w..g0  BY <1>3, <2>1
  <2>3. PICK r : r = frames[i]  OBVIOUS
  <2>4. r = Entire(layout, x)  BY <1>4, <2>1, <2>3
  <2>5. [timecode |-> r.timecode, data |-> r.data] = Entire(layout, x)  BY <2>4 DEF Entire
  <2> QED  BY <1>5, <2>2, <2>3, <2>5, EntireIsLocal
<1>8. AllLocal(frames)
  <2>1. DOMAIN frames = 1..g0 - w  BY <1>4
  <2> QED  BY <1>7, <2>1 DEF AllLocal
<1> QED  BY <1>6, <1>8

\* Nothing whole lies before the first sector of the file.
LEMMA NoneBefore ==
  ASSUME DiscInv, NEW q \in 1..Len(layout[first]), q = 1, NEW f, f = layout[first][q],
         NEW g \in Whole
  PROVE  ~(g < f)
<1>1. first \in DOMAIN layout /\ Mastered(layout)  BY Disc
<1>2. PICK y \in Nat : y = layout[first][1]  BY <1>1, Packets
<1>3. NextStart(layout, first) = y \/ NextStart(layout, first) = y + 1
  BY <1>2 DEF NextStart, Carried
<1>4. g \in Nat /\ g >= NextStart(layout, first)  BY WholeBounds
<1> QED  BY <1>2, <1>3, <1>4

\* Before a packet of the damaged sector.
LEMMA AtDamage ==
  ASSUME FileInv, DamageAt, NEW s \in first..last, s = damage.sector,
         NEW q \in 1..Len(layout[s]), NEW f, f = layout[s][q],
         IF q = 1 THEN SectorsRead(s) ELSE ReadTo(s, layout[s][q - 1])
  PROVE  /\ \A g \in Whole : g < f /\ AwayFromDamage(g) =>
              \/ g \in EntireIn(frames)
              \/ /\ HitOf(s, q) = "none" /\ Starts(layout, s, q) /\ Complete(frame)
                 /\ [timecode |-> frame.timecode, data |-> frame.data] = Entire(layout, g)
         /\ AllLocal(frames) /\ TouchedBy(frame)
<1>1. /\ DiscInv /\ Mastered(layout) /\ s \in DOMAIN layout /\ first \in DOMAIN layout
      /\ first <= s /\ DOMAIN layout \subseteq Nat /\ s \in Nat /\ first \in Nat /\ last \in Nat
  BY Disc DEF FileInv
<1>2. PICK k \in 1..7 : k = Len(layout[s]) /\ q \in 1..k  BY <1>1, Packets
<1>3. CASE q # 1
  <2>1. PICK h : h = layout[s][q - 1]  OBVIOUS
  <2>2. q - 1 \in 1..Len(layout[s]) /\ q > 1  BY <1>2, <1>3
  <2>3. h \in FrameNumbers(layout) /\ h \in Nat /\ s \in StartOf(layout, h)..EndOf(layout, h)
    BY <1>1, <2>1, <2>2, AtPlace
  <2>4. f = h + 1
    <3>1. f \in Nat /\ f - 1 = h  BY <1>1, <2>1, <2>2, AtPlace
    <3> QED  BY <3>1
  <2>5. Behind(s, h)  BY <1>1, <1>3, <2>1 DEF ReadTo
  <2>6. s \in SectorsOf(layout, h) /\ ~(StartOf(layout, h) > s)
    <3>1. /\ SectorsOf(layout, h) = StartOf(layout, h)..EndOf(layout, h)
          /\ StartOf(layout, h) \in DOMAIN layout
      BY <1>1, <2>3, FrameSectors
    <3> QED  BY <1>1, <2>3, <3>1
  <2>7. AllLocal(frames) /\ TouchedBy(frame)
        /\ \A g \in Whole : g < h /\ AwayFromDamage(g) => g \in EntireIn(frames)
    BY <2>5, <2>6, NowBehind
  <2>8. ASSUME NEW g \in Whole, g < f, AwayFromDamage(g) PROVE g \in EntireIn(frames)
    <3>1. g \in Nat  BY <1>1, WholeBounds
    <3>2. g # h  BY <2>6, <2>8 DEF AwayFromDamage
    <3>3. g < h  BY <2>3, <2>4, <2>8, <3>1, <3>2
    <3> QED  BY <2>7, <2>8, <3>3
  <2> QED  BY <2>7, <2>8
<1>4. CASE q = 1 /\ s = first
  <2>1. frame = NoFrame /\ frames = <<>>  BY <1>4 DEF SectorsRead
  <2>2. AllLocal(frames)  BY <2>1 DEF AllLocal
  <2>3. TouchedBy(frame)  BY <2>1 DEF TouchedBy, NoFrame
  <2>4. \A g \in Whole : ~(g < f)  BY <1>1, <1>4, NoneBefore
  <2> QED  BY <2>2, <2>3, <2>4
<1>5. CASE q = 1 /\ s # first
  <2>1. PICK t \in first..last : t = s - 1  BY <1>1, <1>5
  <2>2. PICK g0 : g0 = LastOf(layout, t)  OBVIOUS
  <2>3. Assembled(t, g0)
    <3>1. s - 1 < s  BY <1>1
    <3>2. SectorsRead(s)  BY <1>5
    <3> QED  BY <1>5, <2>1, <2>2, <3>1, <3>2 DEF SectorsRead, ReadTo
  <2>4. frame = Held(layout, dst_encoded, first, t, g0) /\ frames = PassedOn(layout, first, g0)
    BY <2>3 DEF Assembled
  <2>5. AllLocal(frames) /\ \A g \in Whole : g < g0 => g \in EntireIn(frames)
    BY <1>1, <2>2, <2>4, PassedOnEntire
  <2>6. t \in DOMAIN layout /\ t \in Nat  BY <1>1, Disc
  <2>7. g0 \in FrameNumbers(layout) /\ g0 \in Nat /\ t \in StartOf(layout, g0)..EndOf(layout, g0)
    <3>1. g0 \in layout[t][1]..LastOf(layout, t) /\ g0 \in Nat  BY <1>1, <2>2, <2>6, Packets
    <3> QED  BY <1>1, <2>6, <3>1, FrameIn
  <2>8. TouchedBy(frame)
    <3>1. StartOf(layout, g0) <= damage.sector
      <4>1. StartOf(layout, g0) \in Nat /\ EndOf(layout, g0) \in Nat  BY <1>1, <2>7, FrameSectors
      <4>2. StartOf(layout, g0) <= t  BY <2>7, <4>1
      <4> QED  BY <1>1, <2>1, <4>1, <4>2
    <3>2. frame.started => frame.data # <<>> /\ frame.data[1].sector = StartOf(layout, g0)
      BY <1>1, <2>4, <2>7, HeldEntire
    <3>3. Complete(frame) => EntireOrHit(frame.timecode, frame.data)
      BY <1>1, <2>4, <2>7, HeldEntire
    <3> QED  BY <3>1, <3>2, <3>3 DEF TouchedBy
  <2>9. f \in Nat /\ IF Starts(layout, s, q) THEN f - 1 = g0 ELSE f = g0
    <3>1. s > first  BY <1>1, <1>5
    <3> QED  BY <1>1, <1>5, <2>1, <2>2, <3>1, AtPlace
  <2>10. ASSUME NEW g \in Whole, g < f, AwayFromDamage(g), g \notin EntireIn(frames)
         PROVE  /\ HitOf(s, q) = "none" /\ Starts(layout, s, q) /\ Complete(frame)
                /\ [timecode |-> frame.timecode, data |-> frame.data] = Entire(layout, g)
    <3>1. g \in Nat /\ ~(g < g0)
      <4>1. g \in Nat  BY <1>1, WholeBounds
      <4> QED  BY <2>5, <2>10, <4>1
    <3>2. Starts(layout, s, q) /\ f = g0 + 1 /\ g = g0  BY <2>7, <2>9, <2>10, <3>1
    <3>3. HitOf(s, q) = "none"
      <4>1. NextStartFound(g)  BY <2>10 DEF AwayFromDamage
      <4>2. damage.sector # 0 /\ In(damage.sector) = Len(layout[s])
        <5>1. s # 0  BY <1>1, Disc
        <5> QED  BY <5>1 DEF In
      <4>3. q \in 1..(IF damage.sector = 0 THEN 0 ELSE In(damage.sector))  BY <4>2
      <4>4. layout[damage.sector][q] = g + 1 /\ Starts(layout, damage.sector, q)  BY <3>2
      <4>5. HitOf(damage.sector, q) = "none"  BY <4>1, <4>3, <4>4 DEF NextStartFound
      <4> QED  BY <4>5
    <3>4. t = EndOf(layout, g0)  BY <1>1, <1>5, <2>1, <2>2, <3>2, FrameBefore
    <3>5. Complete(frame) /\ [timecode |-> frame.timecode, data |-> frame.data] = Entire(layout, g0)
      BY <1>1, <2>4, <2>7, <3>2, <3>4, HeldEntire
    <3> QED  BY <3>2, <3>3, <3>5
  <2> QED  BY <2>5, <2>8, <2>10
<1> QED  BY <1>3, <1>4, <1>5

\* A packet of the damaged sector that is passed over.
LEMMA SkipAtDamage ==
  ASSUME FileInv, DamageAt, NEW s \in first..last, s = damage.sector,
         NEW q \in 1..Len(layout[s]), NEW f, f = layout[s][q],
         IF q = 1 THEN SectorsRead(s) ELSE ReadTo(s, layout[s][q - 1]),
         HitOf(s, q) # "none", UNCHANGED <<disc, frame, frames>>
  PROVE  Behind(s, f)'
<1>1. DiscInv /\ Mastered(layout) /\ s \in DOMAIN layout /\ s \in Nat /\ DOMAIN layout \subseteq Nat
  BY Disc DEF FileInv
<1>2. /\ \A g \in Whole : g < f /\ AwayFromDamage(g) => g \in EntireIn(frames)
      /\ AllLocal(frames) /\ TouchedBy(frame)
  BY AtDamage
<1>3. ~(StartOf(layout, f) > damage.sector)
  <2>1. f \in FrameNumbers(layout) /\ s \in StartOf(layout, f)..EndOf(layout, f)  BY <1>1, AtPlace
  <2>2. StartOf(layout, f) \in Nat /\ EndOf(layout, f) \in Nat  BY <1>1, <2>1, FrameSectors
  <2> QED  BY <1>1, <2>1, <2>2
<1>4. PICK fs : fs = frames  OBVIOUS
<1>5. PICK fr : fr = frame  OBVIOUS
<1>6. frames' = fs /\ frame' = fr /\ UNCHANGED disc  BY <1>4, <1>5
<1> QED  BY <1>2, <1>3, <1>4, <1>5, <1>6, BehindNext

\* A packet of the damaged sector that is taken for audio.
LEMMA AudioAtDamage ==
  ASSUME FileInv, DamageAt, Audio, NEW s \in first..last, s = damage.sector, s = sector,
         NEW q \in 1..Len(layout[s]), q = packet_info_idx, NEW f, f = layout[s][q],
         IF q = 1 THEN SectorsRead(s) ELSE ReadTo(s, layout[s][q - 1])
  PROVE  Behind(s, f)'
<1>1. DiscInv /\ Mastered(layout) /\ s \in DOMAIN layout /\ s \in Nat /\ DOMAIN layout \subseteq Nat
  BY Disc DEF FileInv
<1>2. /\ \A g \in Whole : g < f /\ AwayFromDamage(g) =>
           \/ g \in EntireIn(frames)
           \/ /\ HitOf(s, q) = "none" /\ Starts(layout, s, q) /\ Complete(frame)
              /\ [timecode |-> frame.timecode, data |-> frame.data] = Entire(layout, g)
      /\ AllLocal(frames) /\ TouchedBy(frame)
  BY AtDamage
<1>3. f \in FrameNumbers(layout) /\ s \in StartOf(layout, f)..EndOf(layout, f)  BY <1>1, AtPlace
<1>4. ~(StartOf(layout, f) > damage.sector)
  <2>1. StartOf(layout, f) \in Nat /\ EndOf(layout, f) \in Nat  BY <1>1, <1>3, FrameSectors
  <2> QED  BY <1>1, <1>3, <2>1
<1>5. PICK fs : fs = IF StartBit(s, q) THEN PassOn(frame) ELSE frames  OBVIOUS
<1>6. AllLocal(fs) /\ \A g \in Whole : g < f /\ AwayFromDamage(g) => g \in EntireIn(fs)
  <2>1. CASE StartBit(s, q)
    <3>1. fs = PassOn(frame) /\ (Complete(frame) => EntireOrHit(frame.timecode, frame.data))
      <4>1. Complete(frame) => frame.started  BY DEF Complete
      <4> QED  BY <1>2, <1>5, <2>1, <4>1 DEF TouchedBy
    <3>2. /\ AllLocal(fs) /\ EntireIn(frames) \subseteq EntireIn(fs)
          /\ \A g \in Whole : /\ Complete(frame)
                              /\ [timecode |-> frame.timecode, data |-> frame.data] = Entire(layout, g)
               => g \in EntireIn(fs)
      BY <1>2, <3>1, PassedOnLocal
    <3> QED  BY <1>2, <3>2
  <2>2. CASE ~StartBit(s, q)
    <3>1. ~(HitOf(s, q) = "none" /\ Starts(layout, s, q))  BY <2>2 DEF StartBit
    <3> QED  BY <1>2, <1>5, <2>2, <3>1
  <2> QED  BY <2>1, <2>2
<1>7. PICK i \in Slots : i = frame_info_idx
  <2>1. pc = "packet"  BY DEF Audio, AtPacket
  <2>2. frame_info_idx \in 0..q - 1  BY <2>1 DEF FileInv, PlaceInv
  <2>3. Len(layout[s]) \in 1..7  BY <1>1, Packets
  <2>4. q \in 1..7  BY <2>3
  <2>5. frame_info_idx \in Slots  BY <2>2, <2>4 DEF Slots
  <2> QED  BY <2>5
<1>8. PICK n \in [timecode : Codes, sector_count : Nat] : n = info[i]  BY DEF FileInv, TypeOK
<1>9. PICK fr \in AudioFrames : fr = IF StartBit(s, q) THEN Begun(n) ELSE frame
  <2>1. frame \in AudioFrames  BY DEF FileInv, TypeOK
  <2>2. Begun(n) \in AudioFrames  BY <1>1, BegunFrame
  <2> QED  BY Zenon, <2>1, <2>2
<1>10. PICK length \in Nat : length = PacketLength(layout, s)  BY <1>1, Lengths
<1>11. PICK right \in BOOLEAN : right = ~shifted  OBVIOUS
<1>12. frames' = fs /\ frame' = Extended(fr, length, Piece(f, s, right)) /\ UNCHANGED disc
  BY <1>5, <1>7, <1>8, <1>9, <1>10, <1>11 DEF Audio
<1>13. PICK new : new = Extended(fr, length, Piece(f, s, right))  OBVIOUS
<1>14. TouchedBy(new)
  <2>1. damage.sector <= s /\ s <= damage.sector  BY <1>1
  <2>2. fr.started => IF fr.data = <<>> THEN s <= damage.sector
                      ELSE fr.data[1].sector <= damage.sector
    <3>1. CASE StartBit(s, q)
      <4>1. fr.data = <<>>  BY <1>9, <3>1 DEF Begun
      <4> QED  BY <2>1, <4>1
    <3>2. CASE ~StartBit(s, q)
      <4>1. TouchedBy(fr)  BY <1>2, <1>9, <3>2
      <4> QED  BY <4>1 DEF TouchedBy
    <3> QED  BY <3>1, <3>2
  <2> QED  BY <1>3, <1>13, <2>1, <2>2, ExtendedTouched
<1>15. frames' = fs /\ frame' = new /\ UNCHANGED disc  BY <1>12, <1>13
<1> QED  BY <1>4, <1>6, <1>14, <1>15, BehindNext

\* A packet behind the damaged sector: the frame before it, when it starts one.
LEMMA StartBehind ==
  ASSUME FileInv, DamageAt, NEW s \in first..last, damage.sector < s,
         NEW q \in 1..Len(layout[s]), NEW f, f = layout[s][q], Starts(layout, s, q),
         IF q = 1 THEN SectorsRead(s) ELSE ReadTo(s, layout[s][q - 1]),
         NEW fs, fs = PassOn(frame)
  PROVE  AllLocal(fs) /\ \A h \in Whole : h < f /\ AwayFromDamage(h) => h \in EntireIn(fs)
<1>1. /\ DiscInv /\ Mastered(layout) /\ s \in DOMAIN layout /\ s \in Nat /\ DOMAIN layout \subseteq Nat
      /\ first \in Nat /\ last \in Nat /\ damage.sector \in Nat /\ first <= s
  BY Disc DEF FileInv, DamageAt
<1>2. CASE q = 1 /\ s = first
  <2>1. frame = NoFrame /\ frames = <<>>  BY <1>2 DEF SectorsRead
  <2>2. fs = <<>>  BY <2>1 DEF PassOn, Complete, NoFrame
  <2>3. AllLocal(fs)  BY <2>2 DEF AllLocal
  <2>4. \A h \in Whole : ~(h < f)  BY <1>1, <1>2, NoneBefore
  <2> QED  BY <2>3, <2>4
<1>3. CASE ~(q = 1 /\ s = first)
  <2>1. PICK g : g = IF q = 1 THEN LastOf(layout, s - 1) ELSE layout[s][q - 1]  OBVIOUS
  <2>2. PICK t : t = IF q = 1 THEN s - 1 ELSE s  OBVIOUS
  <2>3. /\ g \in FrameNumbers(layout) /\ g \in Nat /\ f = g + 1 /\ t \in DOMAIN layout
        /\ t \in StartOf(layout, g)..EndOf(layout, g) /\ EndOf(layout, g) = t
    BY <1>1, <1>3, <2>1, <2>2, FrameBefore
  <2>4. damage.sector <= t
    <3>1. t = s - 1 \/ t = s  BY <2>2
    <3> QED  BY <1>1, <3>1
  <2>5. Behind(t, g)
    <3>1. ReadTo(t, g)  BY <1>3, <2>1, <2>2 DEF SectorsRead
    <3>2. ~(t < damage.sector)  BY <1>1, <2>3, <2>4
    <3> QED  BY <3>1, <3>2 DEF ReadTo
  <2>6. /\ \A h \in Whole : h < g /\ AwayFromDamage(h) => h \in EntireIn(frames)
        /\ AllLocal(frames)
        /\ IF StartOf(layout, g) > damage.sector
           THEN frame = Held(layout, dst_encoded, first, t, g) ELSE TouchedBy(frame)
    BY <2>5, NowBehind
  <2>7. Complete(frame) => EntireOrHit(frame.timecode, frame.data)
    <3>1. CASE StartOf(layout, g) > damage.sector  BY <1>1, <2>3, <2>6, <3>1, HeldEntire
    <3>2. CASE ~(StartOf(layout, g) > damage.sector)
      <4>1. Complete(frame) => frame.started  BY DEF Complete
      <4> QED  BY <2>6, <3>2, <4>1 DEF TouchedBy
    <3> QED  BY <3>1, <3>2
  <2>8. /\ AllLocal(fs) /\ EntireIn(frames) \subseteq EntireIn(fs)
        /\ \A h \in Whole : /\ Complete(frame)
                            /\ [timecode |-> frame.timecode, data |-> frame.data] = Entire(layout, h)
             => h \in EntireIn(fs)
    BY <2>6, <2>7, PassedOnLocal
  <2>9. g \in Whole /\ AwayFromDamage(g) => g \in EntireIn(fs)
    <3> SUFFICES ASSUME g \in Whole, AwayFromDamage(g) PROVE g \in EntireIn(fs)  OBVIOUS
    <3>1. StartOf(layout, g) > damage.sector
      <4>1. /\ SectorsOf(layout, g) = StartOf(layout, g)..EndOf(layout, g)
            /\ StartOf(layout, g) \in Nat
        BY <1>1, <2>3, FrameSectors
      <4>2. damage.sector \notin StartOf(layout, g)..t  BY <2>3, <4>1 DEF AwayFromDamage
      <4> QED  BY <1>1, <2>3, <2>4, <4>1, <4>2
    <3>2. Complete(frame) /\ [timecode |-> frame.timecode, data |-> frame.data] = Entire(layout, g)
      BY <1>1, <2>3, <2>6, <3>1, HeldEntire
    <3> QED  BY <2>8, <3>2
  <2>10. ASSUME NEW h \in Whole, h < f, AwayFromDamage(h) PROVE h \in EntireIn(fs)
    <3>1. h \in Nat  BY <1>1, WholeBounds
    <3>2. h < g \/ h = g  BY <2>3, <2>10, <3>1
    <3> QED  BY <2>6, <2>8, <2>9, <2>10, <3>2
  <2> QED  BY <2>8, <2>10
<1> QED  BY <1>2, <1>3

\* And when it goes on with one.
LEMMA GoOnBehind ==
  ASSUME FileInv, DamageAt, NEW s \in first..last, damage.sector < s,
         ~Starts(layout, s, 1), NEW f, f = layout[s][1], SectorsRead(s),
         NEW fr, fr = Extended(frame, PacketLength(layout, s), Piece(f, s, TRUE))
  PROVE  /\ AllLocal(frames)
         /\ \A g \in Whole : g < f /\ AwayFromDamage(g) => g \in EntireIn(frames)
         /\ IF StartOf(layout, f) > damage.sector
            THEN fr = Held(layout, dst_encoded, first, s, f) ELSE TouchedBy(fr)
<1>1. /\ DiscInv /\ Mastered(layout) /\ s \in DOMAIN layout /\ s \in Nat /\ DOMAIN layout \subseteq Nat
      /\ first \in Nat /\ last \in Nat /\ damage.sector \in Nat /\ first <= s /\ first \in DOMAIN layout
  BY Disc DEF FileInv, DamageAt
<1>2. 1 \in 1..Len(layout[s])  BY <1>1, Packets
<1>3. PICK length \in Nat : length = PacketLength(layout, s)  BY <1>1, Lengths
<1>4. f \in FrameNumbers(layout) /\ f \in Nat /\ s \in StartOf(layout, f)..EndOf(layout, f)
  BY <1>1, <1>2, AtPlace
<1>5. CASE s = first
  <2>1. frame = NoFrame /\ frames = <<>>  BY <1>5 DEF SectorsRead
  <2>2. AllLocal(frames)  BY <2>1 DEF AllLocal
  <2>3. \A g \in Whole : ~(g < f)  BY <1>1, <1>2, <1>5, NoneBefore
  <2>4. fr = Held(layout, dst_encoded, first, s, f)  BY <1>1, <1>5, <2>1, ContinueFrame
  <2>5. damage.sector = 0  BY <1>1, <1>5 DEF DamageAt
  <2>6. StartOf(layout, f) > damage.sector
    <3>1. StartOf(layout, f) \in DOMAIN layout  BY <1>1, <1>4, FrameSectors
    <3>2. StartOf(layout, f) # 0 /\ StartOf(layout, f) \in Nat  BY <1>1, <3>1, Disc
    <3> QED  BY <2>5, <3>2
  <2> QED  BY <2>2, <2>3, <2>4, <2>6
<1>6. CASE s # first
  <2>1. PICK t : t = s - 1  OBVIOUS
  <2>2. f = LastOf(layout, t)
    <3>1. s > first  BY <1>1, <1>6
    <3> QED  BY <1>1, <1>2, <2>1, <3>1, AtPlace
  <2>3. Behind(t, f)
    <3>1. ReadTo(t, f)  BY <1>6, <2>1, <2>2 DEF SectorsRead
    <3>2. ~(t < damage.sector)  BY <1>1, <2>1
    <3> QED  BY <3>1, <3>2 DEF ReadTo
  <2>4. /\ \A g \in Whole : g < f /\ AwayFromDamage(g) => g \in EntireIn(frames)
        /\ AllLocal(frames)
        /\ IF StartOf(layout, f) > damage.sector
           THEN frame = Held(layout, dst_encoded, first, t, f) ELSE TouchedBy(frame)
    BY <2>3, NowBehind
  <2>5. CASE StartOf(layout, f) > damage.sector
    <3>1. frame = IF s = first THEN NoFrame
                  ELSE Held(layout, dst_encoded, first, s - 1, LastOf(layout, s - 1))
      BY <1>6, <2>1, <2>2, <2>4, <2>5
    <3>2. fr = Held(layout, dst_encoded, first, s, f)  BY <1>1, <3>1, ContinueFrame
    <3> QED  BY <2>4, <2>5, <3>2
  <2>6. CASE ~(StartOf(layout, f) > damage.sector)
    <3>1. TouchedBy(frame) /\ frame \in AudioFrames  BY <2>4, <2>6 DEF FileInv, TypeOK
    <3>2. PICK old \in AudioFrames : old = frame  BY <3>1
    <3>3. old.started => IF old.data = <<>> THEN s <= damage.sector
                         ELSE old.data[1].sector <= damage.sector
      BY <3>1, <3>2 DEF TouchedBy
    <3>4. fr = Extended(old, length, Piece(f, s, TRUE)) /\ damage.sector <= s /\ TRUE \in BOOLEAN
      BY <1>1, <1>3, <3>2
    <3>5. TouchedBy(fr)  BY <1>3, <1>4, <3>3, <3>4, ExtendedTouched
    <3> QED  BY <2>4, <2>6, <3>5
  <2> QED  BY <2>5, <2>6
<1> QED  BY <1>5, <1>6

\* A packet in any other sector than the damaged one.
LEMMA AudioElsewhere ==
  ASSUME FileInv, DamageAt, Audio, PacketsRead, NEW s \in first..last, s # damage.sector, s = sector,
         NEW q \in 1..Len(layout[s]), q = packet_info_idx, NEW f, f = layout[s][q]
  PROVE  ReadTo(s, f)' /\ frame_info_idx' = q - Carried(layout, s) /\ ~shifted'
<1>1. /\ DiscInv /\ Mastered(layout) /\ s \in DOMAIN layout /\ s \in Nat /\ DOMAIN layout \subseteq Nat
      /\ first \in Nat /\ last \in Nat /\ damage.sector \in Nat /\ first <= s /\ first \in DOMAIN layout
  BY Disc DEF FileInv, DamageAt
<1>2. /\ frame_info_idx = IF q = 1 THEN 0 ELSE q - 1 - Carried(layout, s)
      /\ ~shifted
      /\ IF q = 1 THEN SectorsRead(s) ELSE ReadTo(s, layout[s][q - 1])
  BY DEF PacketsRead
<1>3. \A j \in DOMAIN Infos(layout, s) : info[j - 1] = Infos(layout, s)[j]
  <2>1. pc = "packet"  BY DEF Audio, AtPacket
  <2> QED  BY <2>1 DEF FileInv, PlaceInv
<1>4. HitOf(s, q) = "none"  BY DEF HitOf
<1>5. PICK length : length = PacketLength(layout, s)  OBVIOUS
<1>6. /\ frame_info_idx' = q - Carried(layout, s)
      /\ IF Starts(layout, s, q)
         THEN /\ frames' = PassOn(frame)
              /\ frame' = Extended(Begun(InfoOf(layout, f)), PacketLength(layout, s), Piece(f, s, TRUE))
         ELSE /\ q = 1 /\ frames' = frames
              /\ frame' = Extended(frame, PacketLength(layout, s), Piece(f, s, TRUE))
  BY <1>1, <1>2, <1>3, <1>4, AudioAsMastered
<1>7. UNCHANGED disc /\ ~shifted'  BY <1>2 DEF Audio
<1>8. UNCHANGED <<layout, dst_encoded, first, last, damage>>  BY <1>7 DEF disc
<1>9. CASE s < damage.sector
  <2>1. IF q = 1 THEN SectorsDone(s) ELSE Assembled(s, layout[s][q - 1])
    <3>1. q # 1 => Assembled(s, layout[s][q - 1])  BY <1>2, <1>9 DEF ReadTo
    <3>2. q = 1 => SectorsDone(s)
      <4>1. s - 1 < damage.sector  BY <1>1, <1>9
      <4> QED  BY <1>2, <4>1 DEF SectorsRead, ReadTo, SectorsDone
    <3> QED  BY <3>1, <3>2
  <2>2. frame' = Held(layout, dst_encoded, first, s, f) /\ frames' = PassedOn(layout, first, f)
    BY <1>1, <1>6, <2>1, AudioAssembles
  <2>3. Assembled(s, f)'  BY <1>8, <2>2 DEF Assembled
  <2>4. s < damage.sector'  BY <1>8, <1>9
  <2> QED  BY <1>6, <1>7, <2>3, <2>4 DEF ReadTo
<1>10. CASE damage.sector < s
  <2>1. PICK fs : fs = IF Starts(layout, s, q) THEN PassOn(frame) ELSE frames  OBVIOUS
  <2>2. PICK fr : fr = IF Starts(layout, s, q)
                       THEN Extended(Begun(InfoOf(layout, f)), length, Piece(f, s, TRUE))
                       ELSE Extended(frame, length, Piece(f, s, TRUE))
    OBVIOUS
  <2>3. frames' = fs /\ frame' = fr  BY <1>5, <1>6, <2>1, <2>2
  <2>4. /\ AllLocal(fs)
        /\ \A g \in Whole : g < f /\ AwayFromDamage(g) => g \in EntireIn(fs)
        /\ IF StartOf(layout, f) > damage.sector
           THEN fr = Held(layout, dst_encoded, first, s, f) ELSE TouchedBy(fr)
    <3>1. CASE Starts(layout, s, q)
      <4>1. AllLocal(fs) /\ \A g \in Whole : g < f /\ AwayFromDamage(g) => g \in EntireIn(fs)
        BY <1>2, <1>10, <2>1, <3>1, StartBehind
      <4>2. PICK r : r = Begun(InfoOf(layout, f))  OBVIOUS
      <4>3. Extended(r, length, Piece(f, s, TRUE)) = Held(layout, dst_encoded, first, s, f)
        BY <1>1, <1>5, <3>1, <4>2, BeginFrame
      <4>4. fr = Held(layout, dst_encoded, first, s, f)  BY <2>2, <3>1, <4>2, <4>3
      <4>5. StartOf(layout, f) > damage.sector  BY <1>10, <3>1 DEF Starts
      <4> QED  BY <4>1, <4>4, <4>5
    <3>2. CASE ~Starts(layout, s, q)
      <4>1. q = 1 /\ ~Starts(layout, s, 1) /\ f = layout[s][1] /\ SectorsRead(s)
        BY <1>2, <1>6, <3>2
      <4>2. fs = frames /\ fr = Extended(frame, PacketLength(layout, s), Piece(f, s, TRUE))
        BY <1>5, <2>1, <2>2, <3>2
      <4> QED  BY <1>10, <4>1, <4>2, GoOnBehind
    <3> QED  BY <3>1, <3>2
  <2>5. Behind(s, f)'  BY <1>7, <2>3, <2>4, BehindNext
  <2>6. ~(s < damage.sector')  BY <1>1, <1>8, <1>10
  <2> QED  BY <1>6, <1>7, <2>5, <2>6 DEF ReadTo
<1> QED  BY <1>1, <1>9, <1>10

LEMMA ReadIsKept ==
  ASSUME UNCHANGED <<disc, frame, frames>>, NEW s
  PROVE  /\ SectorsRead(s)' <=> SectorsRead(s)
         /\ \A x, f : ReadTo(x, f)' <=> ReadTo(x, f)
<1>1. UNCHANGED <<layout, dst_encoded, first, last, damage>>  BY DEF disc
<1>2. \A x, f : Behind(x, f)' <=> Behind(x, f)
  <2>1. Whole' = Whole /\ EntireFrames' = EntireFrames  BY <1>1 DEF Whole, EntireFrames
  <2>2. \A g : AwayFromDamage(g)' <=> AwayFromDamage(g)
    BY <1>1 DEF AwayFromDamage, NextStartFound, In, HitOf
  <2>3. Touched' <=> Touched  BY <1>1 DEF Touched, Complete, EntireOrHit
  <2>4. (\A i \in DOMAIN frames : EntireOrHit(frames[i].timecode, frames[i].data))' <=>
        \A i \in DOMAIN frames : EntireOrHit(frames[i].timecode, frames[i].data)
    BY <1>1 DEF EntireOrHit
  <2> QED  BY <1>1, <2>1, <2>2, <2>3, <2>4 DEF Behind
<1>3. \A x, f : Assembled(x, f)' <=> Assembled(x, f)  BY <1>1 DEF Assembled
<1> QED  BY <1>1, <1>2, <1>3 DEF SectorsRead, ReadTo

LEMMA PacketStep ==
  ASSUME FileInv, DamageAt, LocalInv, SkipLong \/ SkipOther \/ Audio
  PROVE  LocalInv'
<1>1. PICK s : s = sector  OBVIOUS
<1>2. PICK q : q = packet_info_idx  OBVIOUS
<1>3. PICK f : f = layout[s][q]  OBVIOUS
<1>4. /\ pc = "packet" /\ pc' = pc /\ q <= In(s) /\ packet_info_idx' = q + 1
      /\ UNCHANGED <<disc, sector>>
  BY <1>1, <1>2 DEF SkipLong, SkipOther, Audio, AtPacket
<1>5. s \in first..last /\ s \in DOMAIN layout  BY <1>1, <1>4, InFile
<1>6. PICK k \in 1..7 : k = Len(layout[s])  BY <1>5, Packets, Disc DEF FileInv
<1>7. q \in 1..Len(layout[s])
  <2>1. q \in 1..k + 1  BY <1>1, <1>2, <1>4, <1>6 DEF FileInv, PlaceInv, In
  <2>2. q <= k  BY <1>4, <1>6 DEF In
  <2> QED  BY <1>6, <2>1, <2>2
<1>8. PacketsRead  BY <1>4 DEF LocalInv
<1>9. IF q = 1 THEN SectorsRead(s) ELSE ReadTo(s, layout[s][q - 1])
  BY <1>1, <1>2, <1>8 DEF PacketsRead
<1>10. /\ ReadTo(s, f)'
       /\ s # damage.sector => frame_info_idx' = q - Carried(layout, s) /\ ~shifted'
  <2>1. CASE s = damage.sector
    <3>1. Behind(s, f)'
      <4>1. CASE SkipLong \/ SkipOther
        <5>1. HitOf(s, q) # "none" /\ UNCHANGED <<disc, frame, frames>>
          BY <1>1, <1>2, <4>1 DEF SkipLong, SkipOther, AtPacket
        <5> QED  BY <1>3, <1>5, <1>7, <1>9, <2>1, <5>1, SkipAtDamage
      <4>2. CASE Audio  BY <1>1, <1>2, <1>3, <1>5, <1>7, <1>9, <2>1, <4>2, AudioAtDamage
      <4> QED  BY <4>1, <4>2
    <3>2. ~(s < damage.sector')
      <4>1. damage' = damage /\ s \in Nat
        <5>1. first \in Nat /\ last \in Nat  BY InFile
        <5> QED  BY <1>4, <1>5, <5>1 DEF disc
      <4> QED  BY <2>1, <4>1
    <3> QED  BY <2>1, <3>1, <3>2 DEF ReadTo
  <2>2. CASE s # damage.sector
    <3>1. HitOf(s, q) = "none"  BY <2>2 DEF HitOf
    <3>2. Audio  BY <1>1, <1>2, <3>1 DEF SkipLong, SkipOther, AtPacket
    <3> QED  BY <1>1, <1>2, <1>3, <1>5, <1>7, <1>8, <2>2, <3>2, AudioElsewhere
  <2> QED  BY <2>1, <2>2
<1>11. UNCHANGED <<layout, dst_encoded, first, last, damage>> /\ sector' = s /\ pc' = "packet"
  BY <1>1, <1>4 DEF disc
<1>12. PICK x : x = q + 1  OBVIOUS
<1>13. PICK c \in {0, 1} : c = Carried(layout, s)  BY DEF Carried
<1>14. x # 1 /\ x - 1 = q /\ x - 1 - c = q - c  BY <1>6, <1>7, <1>12, <1>13
<1>15. PacketsRead'
  <2>1. packet_info_idx' = x  BY <1>4, <1>12
  <2>2. ReadTo(sector, layout[sector][packet_info_idx - 1])'
    <3>1. layout'[sector'][packet_info_idx' - 1] = f  BY <1>3, <1>11, <1>14, <2>1
    <3> QED  BY <1>10, <1>11, <3>1 DEF ReadTo, Assembled, Behind
  <2>3. s # damage.sector => frame_info_idx' = x - 1 - Carried(layout, s) /\ ~shifted'
    BY <1>10, <1>13, <1>14
  <2> QED  BY <1>11, <1>14, <2>1, <2>2, <2>3 DEF PacketsRead
<1> QED  BY <1>11, <1>15 DEF LocalInv

LEMMA EndStep ==
  ASSUME FileInv, DamageAt, LocalInv, EndSector
  PROVE  LocalInv'
<1>1. PICK s : s = sector  OBVIOUS
<1>2. PICK q : q = packet_info_idx  OBVIOUS
<1>3. /\ pc = "packet" /\ q > In(s) /\ sector' = s + 1 /\ pc' \in {"return", "header"}
      /\ UNCHANGED <<disc, frame, frames>>
  BY <1>1, <1>2 DEF EndSector
<1>4. s \in first..last /\ s \in DOMAIN layout /\ first \in Nat /\ last \in Nat /\ s \in Nat
      /\ first <= s
  BY <1>1, <1>3, InFile
<1>5. PICK k \in 1..7 : k = Len(layout[s])  BY <1>4, Packets, Disc DEF FileInv
<1>6. q = k + 1
  <2>1. q \in 1..k + 1  BY <1>1, <1>2, <1>3, <1>5 DEF FileInv, PlaceInv, In
  <2>2. q > k  BY <1>3, <1>5 DEF In
  <2> QED  BY <1>5, <2>1, <2>2
<1>7. q # 1 /\ q - 1 = Len(layout[s])
  <2>1. k + 1 # 1 /\ (k + 1) - 1 = k  OBVIOUS
  <2> QED  BY <1>5, <1>6, <2>1
<1>8. ReadTo(s, LastOf(layout, s))
  <2>1. PacketsRead  BY <1>3 DEF LocalInv
  <2> QED  BY <1>1, <1>2, <1>7, <2>1 DEF PacketsRead, LastOf
<1>9. PICK t : t = s + 1  OBVIOUS
<1>10. SectorsRead(t)
  <2>1. t # first /\ t - 1 = s  BY <1>4, <1>9
  <2> QED  BY <1>8, <2>1 DEF SectorsRead
<1>11. SectorsRead(t)'  BY <1>3, <1>10, ReadIsKept
<1>12. SectorsRead(sector)'
  <2>1. sector' = t  BY <1>3, <1>9
  <2> QED  BY <1>11, <2>1 DEF SectorsRead, ReadTo, Assembled, Behind
<1> QED  BY <1>3, <1>12 DEF LocalInv

\* When the last sector has been read, the last frame is passed on.
LEMMA DoneStep ==
  ASSUME FileInv, DamageAt, LocalInv, Return, sector > last
  PROVE  LocalInv'
<1>1. /\ pc = "return" /\ pc' = "done" /\ frames' = PassOn(frame)
      /\ UNCHANGED <<disc, sector>>
  BY DEF Return, Flush
<1>2. /\ DiscInv /\ Mastered(layout) /\ first \in Nat /\ last \in Nat /\ first <= last
      /\ last \in DOMAIN layout /\ DOMAIN layout \subseteq Nat /\ damage.sector \in Nat
  BY Disc, InFile DEF FileInv, DamageAt
<1>3. PICK t : t = sector  OBVIOUS
<1>4. t = last + 1
  <2>1. t \in first..last + 1  BY <1>3 DEF FileInv, TypeOK
  <2> QED  BY <1>2, <1>3, <2>1
<1>5. PICK g : g = LastOf(layout, last)  OBVIOUS
<1>6. g \in FrameNumbers(layout) /\ g \in Nat /\ last \in StartOf(layout, g)..EndOf(layout, g)
  BY <1>2, <1>5, WholeFrames
<1>7. /\ SectorsOf(layout, g) = StartOf(layout, g)..EndOf(layout, g)
      /\ StartOf(layout, g) \in Nat /\ EndOf(layout, g) \in Nat
  BY <1>2, <1>6, FrameSectors
<1>8. damage.sector <= last  BY <1>2 DEF DamageAt
<1>9. Behind(last, g)
  <2>1. SectorsRead(t)  BY <1>1, <1>3 DEF LocalInv
  <2>2. t # first /\ t - 1 = last  BY <1>2, <1>4
  <2>3. ReadTo(last, g)  BY <1>5, <2>1, <2>2 DEF SectorsRead
  <2>4. ~(last < damage.sector)  BY <1>2, <1>8
  <2> QED  BY <2>3, <2>4 DEF ReadTo
<1>10. /\ \A h \in Whole : h < g /\ AwayFromDamage(h) => h \in EntireIn(frames)
       /\ AllLocal(frames)
       /\ IF StartOf(layout, g) > damage.sector
          THEN frame = Held(layout, dst_encoded, first, last, g) ELSE TouchedBy(frame)
  BY <1>9, NowBehind
<1>11. Complete(frame) => EntireOrHit(frame.timecode, frame.data)
  <2>1. CASE StartOf(layout, g) > damage.sector  BY <1>2, <1>6, <1>10, <2>1, HeldEntire
  <2>2. CASE ~(StartOf(layout, g) > damage.sector)
    <3>1. Complete(frame) => frame.started  BY DEF Complete
    <3> QED  BY <1>10, <2>2, <3>1 DEF TouchedBy
  <2> QED  BY <2>1, <2>2
<1>12. PICK fs : fs = PassOn(frame)  OBVIOUS
<1>13. /\ AllLocal(fs) /\ EntireIn(frames) \subseteq EntireIn(fs)
       /\ \A h \in Whole : /\ Complete(frame)
                           /\ [timecode |-> frame.timecode, data |-> frame.data] = Entire(layout, h)
            => h \in EntireIn(fs)
  BY <1>10, <1>11, <1>12, PassedOnLocal
<1>14. ASSUME NEW h \in Whole, AwayFromDamage(h) PROVE h \in EntireIn(fs)
  <2>1. h \in Nat /\ h <= g /\ (h = g => EndOf(layout, g) = last)  BY <1>2, <1>5, WholeBounds
  <2>2. CASE h < g  BY <1>10, <1>13, <1>14, <2>2
  <2>3. CASE h = g
    <3>1. EndOf(layout, g) = last  BY <2>1, <2>3
    <3>2. StartOf(layout, g) > damage.sector
      <4>1. damage.sector \notin StartOf(layout, g)..last
        BY <1>7, <1>14, <2>3, <3>1 DEF AwayFromDamage
      <4> QED  BY <1>2, <1>7, <1>8, <4>1
    <3>3. Complete(frame) /\ [timecode |-> frame.timecode, data |-> frame.data] = Entire(layout, g)
      BY <1>2, <1>6, <1>10, <1>14, <2>3, <3>1, <3>2, HeldEntire
    <3> QED  BY <1>13, <2>3, <3>3
  <2> QED  BY <1>6, <2>1, <2>2, <2>3
<1>15. UNCHANGED <<layout, dst_encoded, first, last, damage>> /\ frames' = fs
  BY <1>1, <1>12 DEF disc
<1>16. Whole' = Whole /\ EntireFrames' = EntireIn(fs)  BY <1>15 DEF Whole, EntireFrames, EntireIn
<1>17. \A h : AwayFromDamage(h)' <=> AwayFromDamage(h)
  BY <1>15 DEF AwayFromDamage, NextStartFound, In, HitOf
<1>18. \A i \in DOMAIN frames' : EntireOrHit(frames[i].timecode, frames[i].data)'
  BY <1>13, <1>15 DEF AllLocal, EntireOrHit
<1>19. DamageIsLocal'  BY <1>14, <1>16, <1>17, <1>18 DEF DamageIsLocal
<1> QED  BY <1>1, <1>19 DEF LocalInv

LEMMA LocalStep ==
  ASSUME FileInv, DamageAt, LocalInv, Next
  PROVE  LocalInv'
<1>1. CASE Call \/ ReadHeader
  <2>1. /\ pc \in {"caller", "header"} /\ UNCHANGED <<disc, sector, frame, frames>>
        /\ \/ pc' = "header"
           \/ pc' = "packet" /\ packet_info_idx' = 1 /\ frame_info_idx' = 0 /\ shifted' = FALSE
    BY <1>1 DEF Call, ReadHeader
  <2>2. PICK s : s = sector  OBVIOUS
  <2>3. SectorsRead(s)  BY <2>1, <2>2 DEF LocalInv
  <2>4. SectorsRead(s)'  BY <2>1, <2>3, ReadIsKept
  <2>5. SectorsRead(sector)'
    <3>1. sector' = s  BY <2>1, <2>2
    <3> QED  BY <2>4, <3>1 DEF SectorsRead, ReadTo, Assembled, Behind
  <2>6. pc' = "packet" => PacketsRead'  BY <2>1, <2>5 DEF PacketsRead
  <2> QED  BY <2>1, <2>5, <2>6 DEF LocalInv
<1>2. CASE SkipLong \/ SkipOther \/ Audio  BY <1>2, PacketStep
<1>3. CASE EndSector  BY <1>3, EndStep
<1>4. CASE Return /\ sector > last  BY <1>4, DoneStep
<1>5. CASE Return /\ ~(sector > last)
  <2>1. pc = "return" /\ pc' = "caller" /\ UNCHANGED <<disc, sector, frame, frames>>
    BY <1>5 DEF Return
  <2>2. PICK s : s = sector  OBVIOUS
  <2>3. SectorsRead(s)  BY <2>1, <2>2 DEF LocalInv
  <2>4. SectorsRead(s)'  BY <2>1, <2>3, ReadIsKept
  <2>5. SectorsRead(sector)'
    <3>1. sector' = s  BY <2>1, <2>2
    <3> QED  BY <2>4, <3>1 DEF SectorsRead, ReadTo, Assembled, Behind
  <2> QED  BY <2>1, <2>5 DEF LocalInv
<1>6. CASE Finished
  <2>1. pc = "done" /\ UNCHANGED vars  BY <1>6 DEF Finished
  <2>2. UNCHANGED <<layout, dst_encoded, first, last, damage, frames>> /\ pc' = "done"
    BY <2>1 DEF vars
  <2>3. Whole' = Whole /\ EntireFrames' = EntireFrames  BY <2>2 DEF Whole, EntireFrames
  <2>4. \A h : AwayFromDamage(h)' <=> AwayFromDamage(h)
    BY <2>2 DEF AwayFromDamage, NextStartFound, In, HitOf
  <2>5. DamageIsLocal  BY <2>1 DEF LocalInv
  <2>6. \A i \in DOMAIN frames' : EntireOrHit(frames[i].timecode, frames[i].data)'
    BY <2>1, <2>2, <2>5 DEF DamageIsLocal, EntireOrHit
  <2>7. DamageIsLocal'  BY <2>1, <2>3, <2>4, <2>5, <2>6 DEF DamageIsLocal
  <2> QED  BY <2>2, <2>7 DEF LocalInv
<1> QED  BY <1>1, <1>2, <1>3, <1>4, <1>5, <1>6 DEF Next

\* What is kept about the damage by every step.
LEMMA Local == Spec => [](DamageAt /\ LocalInv)
<1>1. Init => DamageAt /\ LocalInv
  <2> SUFFICES ASSUME Init PROVE DamageAt /\ LocalInv  OBVIOUS
  <2>1. DiscInv  BY SomeFile
  <2>2. DamageAt
    <3>1. first \in Nat /\ last \in Nat  BY <2>1, Numbers
    <3>2. CASE damage = NoDamage  BY <3>2 DEF NoDamage, DamageAt
    <3>3. CASE damage # NoDamage
      <4>1. PICK t \in first..last : \E h \in [1..In(t) -> Hits] : damage = [sector |-> t, hit |-> h]
        BY <3>3 DEF Init
      <4>2. damage.sector = t  BY <4>1
      <4> QED  BY <3>1, <4>2 DEF DamageAt
    <3> QED  BY <3>2, <3>3
  <2>3. pc = "caller" /\ sector = first /\ frame = NoFrame /\ frames = <<>>  BY DEF Init
  <2>4. LocalInv  BY <2>3 DEF LocalInv, SectorsRead
  <2> QED  BY <2>2, <2>4
<1>2. FileInv /\ DamageAt /\ LocalInv /\ [Next]_vars => (DamageAt /\ LocalInv)'
  <2> SUFFICES ASSUME FileInv, DamageAt, LocalInv, [Next]_vars PROVE DamageAt' /\ LocalInv'
    OBVIOUS
  <2>1. UNCHANGED <<first, last, damage>>
    BY DEF Next, Call, ReadHeader, SkipLong, SkipOther, Audio, EndSector, Return, Finished, vars, disc
  <2>2. DamageAt'  BY <2>1 DEF DamageAt
  <2>3. LocalInv'
    <3>1. CASE Next  BY <3>1, LocalStep
    <3>2. CASE UNCHANGED vars
      <4>1. CASE pc = "done"
        <5>1. Finished  BY <3>2, <4>1 DEF Finished
        <5> QED  BY <5>1, LocalStep DEF Next
      <4>2. CASE pc # "done"
        <5>1. /\ UNCHANGED <<disc, frame, frames>>
              /\ UNCHANGED <<layout, damage, sector, pc, packet_info_idx, frame_info_idx, shifted>>
          BY <3>2 DEF vars, disc
        <5>2. PICK s : s = sector  OBVIOUS
        <5>3. SectorsRead(s)' <=> SectorsRead(s)  BY <5>1, ReadIsKept
        <5>4. SectorsRead(sector)' <=> SectorsRead(sector)
          <6>1. sector' = s  BY <5>1, <5>2
          <6> QED  BY <5>2, <5>3, <6>1 DEF SectorsRead, ReadTo, Assembled, Behind
        <5>5. PICK f : f = layout[sector][packet_info_idx - 1]  OBVIOUS
        <5>6. ReadTo(s, f)' <=> ReadTo(s, f)  BY <5>1, ReadIsKept
        <5>7. ReadTo(sector, layout[sector][packet_info_idx - 1])' <=>
              ReadTo(sector, layout[sector][packet_info_idx - 1])
          <6>1. sector' = s /\ layout'[sector'][packet_info_idx' - 1] = f  BY <5>1, <5>2, <5>5
          <6> QED  BY <5>2, <5>5, <5>6, <6>1 DEF ReadTo, Assembled, Behind
        <5>8. PacketsRead' <=> PacketsRead  BY <5>1, <5>4, <5>7 DEF PacketsRead
        <5> QED  BY <4>2, <5>1, <5>4, <5>8 DEF LocalInv
      <4> QED  BY <4>1, <4>2
    <3> QED  BY <3>1, <3>2
  <2> QED  BY <2>2, <2>3
<1> QED  BY <1>1, <1>2, File, PTL DEF Spec

LEMMA LocalAtEnd == LocalInv => DamageIsLocal
BY DEF LocalInv, DamageIsLocal

-----------------------------------------------------------------------------
(* The lists of an area *)

Texts == [type : Lists!Types \cup {"unknown"}, holds : Lists!Holds]
InAreaTocs == toc_area \in AreaTocs

LEMMA AreaFacts ==
  ASSUME InAreaTocs
  PROVE  /\ toc_area.size \in Nat /\ toc_area.lists \in Seq(DOMAIN Lists!Sectors)
         /\ toc_area.items \in Seq(Seq(Texts)) /\ toc_area.items # <<>>
         /\ Lists!TrackCount \in Nat \ {0} /\ Lists!Tracks = 1..Lists!TrackCount
         /\ DOMAIN toc_area.items = Lists!Tracks
         /\ toc_area.start \in [Lists!Tracks -> Lists!Times]
         /\ toc_area.duration \in [Lists!Tracks -> Lists!Times]
         /\ FrameRate \in Nat \ {0}
<1>1. /\ toc_area.size \in Nat /\ toc_area.lists \in Seq(DOMAIN Lists!Sectors)
      /\ toc_area.items \in Seq(Seq(Texts)) /\ toc_area.items # <<>>
      /\ toc_area.start \in [DOMAIN toc_area.items -> Lists!Times]
      /\ toc_area.duration \in [DOMAIN toc_area.items -> Lists!Times]
      /\ FrameRate \in Nat \ {0}
  BY AreaNumbers DEF Lists!Numbers, Texts, InAreaTocs
<1>2. /\ Lists!TrackCount \in Nat \ {0} /\ Lists!Tracks = 1..Lists!TrackCount
      /\ DOMAIN toc_area.items = Lists!Tracks
  BY <1>1 DEF Lists!Tracks, Lists!TrackCount
<1> QED  BY <1>1, <1>2

LEMMA SectorSizes ==
  \A list \in DOMAIN Lists!Sectors :
    /\ Lists!Sectors[list] \in 1..32 /\ Lists!Sectors[list] \in Nat
    /\ list \in {"SACDTTxt", "SACD_IGL", "SACD_ACC", "SACDTRL1", "SACDTRL2", "other"}
    /\ list = "SACDTTxt" => Lists!Sectors[list] = 1
BY DEF Lists!Sectors

\* Each list begins behind the one before it.
LEMMA Ends ==
  ASSUME NEW lists \in Seq(DOMAIN Lists!Sectors), NEW n \in Nat, n = Len(lists)
  PROVE  /\ Lists!Ends(lists) \in [0..n -> Nat] /\ Lists!Ends(lists)[0] = 1
         /\ \A k \in 1..n : Lists!Ends(lists)[k] = Lists!Ends(lists)[k - 1] + Lists!Sectors[lists[k]]
<1> DEFINE Is(f) == f = [k \in 0..n |-> IF k = 0 THEN 1 ELSE f[k - 1] + Lists!Sectors[lists[k]]]
           next == [k \in 1..n |-> [v \in Nat |-> v + Lists!Sectors[lists[k]]]]
<1>1. \A k \in 1..n : Lists!Sectors[lists[k]] \in Nat
  <2>1. \A k \in 1..n : lists[k] \in DOMAIN Lists!Sectors  OBVIOUS
  <2>2. \A list \in DOMAIN Lists!Sectors : Lists!Sectors[list] \in Nat  BY SectorSizes
  <2> QED  BY <2>1, <2>2
<1>2. Steps(next, n, Nat)
  <2>1. \A k \in 1..n : [v \in Nat |-> v + Lists!Sectors[lists[k]]] \in [Nat -> Nat]
    <3> SUFFICES ASSUME NEW k \in 1..n PROVE [v \in Nat |-> v + Lists!Sectors[lists[k]]] \in [Nat -> Nat]
      OBVIOUS
    <3>1. PICK w \in Nat : w = Lists!Sectors[lists[k]]  BY <1>1
    <3> QED  BY <3>1
  <2> QED  BY <2>1 DEF Steps
<1>3. PICK f : Solves(f, n, Nat, 1, next)
  <2> HIDE DEF next
  <2> QED  BY <1>2, Recursion
<1>4. Is(f)
  <2>1. \A k \in 1..n : f[k] = f[k - 1] + Lists!Sectors[lists[k]]
    <3> SUFFICES ASSUME NEW k \in 1..n PROVE f[k] = f[k - 1] + Lists!Sectors[lists[k]]  OBVIOUS
    <3>1. f[k - 1] \in Nat
      <4>1. k - 1 \in 0..n  OBVIOUS
      <4> QED  BY <1>3, <4>1 DEF Solves
    <3>2. f[k] = next[k][f[k - 1]]
      <4> HIDE DEF next
      <4> QED  BY <1>3 DEF Solves
    <3> QED  BY <3>1, <3>2
  <2> QED  BY <1>3, <2>1 DEF Solves
<1>5. Lists!Ends(lists) = CHOOSE f1 : Is(f1)  BY DEF Lists!Ends
<1>6. PICK g : g = Lists!Ends(lists)  OBVIOUS
<1>7. Is(g)
  <2> HIDE DEF Is
  <2> QED  BY <1>4, <1>5, <1>6
<1> DEFINE T == {k \in 0..n : g[k] \in Nat}
<1>8. 0 \in T  BY <1>7
<1>9. ASSUME NEW k \in 1..n, k - 1 \in T PROVE k \in T
  <2>1. g[k] = g[k - 1] + Lists!Sectors[lists[k]]  BY <1>7
  <2>2. PICK w \in Nat : w = Lists!Sectors[lists[k]]  BY <1>1
  <2> QED  BY <1>9, <2>1, <2>2
<1>10. 0..n \subseteq T
  <2> HIDE DEF T, Is
  <2> QED  BY <1>8, <1>9, Induction
<1>11. g \in [0..n -> Nat]  BY <1>7, <1>10
<1> QED  BY <1>6, <1>7, <1>11

\* The places of the lists, and what stands there.
LEMMA Places ==
  ASSUME InAreaTocs, NEW n \in Nat, n = Len(toc_area.lists)
  PROVE  /\ \A k \in 1..n + 1 : Lists!Begin(k) \in Nat
         /\ Lists!Begin(1) = 1
         /\ \A k \in 1..n : Lists!Begin(k + 1) = Lists!Begin(k) + Lists!Sectors[toc_area.lists[k]]
         /\ \A j, k \in 1..n + 1 : j < k => Lists!Begin(j) < Lists!Begin(k)
<1> DEFINE lists == toc_area.lists
           g == Lists!Ends(lists)
<1>1. lists \in Seq(DOMAIN Lists!Sectors)  BY AreaFacts
<1>2. /\ g \in [0..n -> Nat] /\ g[0] = 1
      /\ \A k \in 1..n : g[k] = g[k - 1] + Lists!Sectors[lists[k]]
  BY <1>1, Ends
<1>3. \A k : Lists!Begin(k) = g[k - 1]  BY DEF Lists!Begin
<1>4. \A k \in 1..n : Lists!Sectors[lists[k]] \in 1..32
  <2>1. \A k \in 1..n : lists[k] \in DOMAIN Lists!Sectors  BY <1>1
  <2> QED  BY <2>1, SectorSizes
<1> HIDE DEF lists, g
<1>5. \A i \in 0..n : \A j \in 0..n : j < i => g[j] < g[i]
  <2> DEFINE T == {i \in 0..n : \A j \in 0..n : j < i => g[j] < g[i]}
  <2>1. 0 \in T  OBVIOUS
  <2>2. ASSUME NEW i \in 1..n, i - 1 \in T PROVE i \in T
    <3>1. g[i - 1] < g[i] /\ g[i - 1] \in Nat /\ g[i] \in Nat
      <4>1. PICK w \in 1..32 : w = Lists!Sectors[lists[i]]  BY <1>4
      <4>2. g[i] = g[i - 1] + w  BY <1>2, <4>1
      <4>3. g[i - 1] \in Nat
        <5>1. i - 1 \in 0..n  OBVIOUS
        <5> QED  BY <1>2, <5>1
      <4>4. PICK v \in Nat : v = g[i - 1]  BY <4>3
      <4>5. v < v + w /\ v + w \in Nat
        <5>1. v \in Nat /\ w \in 1..32  BY <4>1, <4>4
        <5>2. \A y \in Nat : \A x \in 1..32 : y < y + x /\ y + x \in Nat  OBVIOUS
        <5> QED  BY <5>1, <5>2
      <4> QED  BY <4>2, <4>4, <4>5
    <3>2. ASSUME NEW j \in 0..n, j < i PROVE g[j] < g[i]
      <4>1. j = i - 1 \/ j < i - 1  BY <3>2
      <4>2. j < i - 1 => g[j] < g[i - 1]  BY <2>2
      <4>3. g[j] \in Nat  BY <1>2
      <4> QED  BY <3>1, <4>1, <4>2, <4>3
    <3> QED  BY <3>2
  <2>3. 0..n \subseteq T
    <3> HIDE DEF T
    <3> QED  BY <2>1, <2>2, Induction
  <2> QED  BY <2>3
<1>6. \A k \in 1..n + 1 : k - 1 \in 0..n  OBVIOUS
<1>7. \A k \in 1..n + 1 : Lists!Begin(k) \in Nat  BY <1>2, <1>3, <1>6
<1>8. Lists!Begin(1) = 1  BY <1>2, <1>3
<1>9. \A k \in 1..n : Lists!Begin(k + 1) = Lists!Begin(k) + Lists!Sectors[lists[k]]
  <2> SUFFICES ASSUME NEW k \in 1..n
               PROVE  Lists!Begin(k + 1) = Lists!Begin(k) + Lists!Sectors[lists[k]]
    OBVIOUS
  <2>1. (k + 1) - 1 = k  OBVIOUS
  <2>2. Lists!Begin(k + 1) = g[k] /\ Lists!Begin(k) = g[k - 1]  BY <1>3, <2>1
  <2> QED  BY <1>2, <2>2
<1>10. ASSUME NEW j \in 1..n + 1, NEW k \in 1..n + 1, j < k
       PROVE  Lists!Begin(j) < Lists!Begin(k)
  <2>1. j - 1 \in 0..n /\ k - 1 \in 0..n /\ j - 1 < k - 1  BY <1>10
  <2> QED  BY <1>3, <1>5, <2>1
<1> QED  BY <1>7, <1>8, <1>9, <1>10 DEF lists

LEMMA ListIn ==
  ASSUME InAreaTocs, NEW n \in Nat, n = Len(toc_area.lists), NEW k \in 1..n + 1
  PROVE  Lists!ListAt(Lists!Begin(k)) = IF k \in 1..n THEN toc_area.lists[k] ELSE "other"
<1>1. DOMAIN toc_area.lists = 1..n  BY AreaFacts
<1>2. \A j \in 1..n : Lists!Begin(j) = Lists!Begin(k) => j = k
  <2>1. \A i, j \in 1..n + 1 : i < j => Lists!Begin(i) < Lists!Begin(j)  BY Places
  <2>2. \A i \in 1..n + 1 : Lists!Begin(i) \in Nat  BY Places
  <2> SUFFICES ASSUME NEW j \in 1..n, Lists!Begin(j) = Lists!Begin(k) PROVE j = k  OBVIOUS
  <2>3. j \in 1..n + 1 /\ (j < k \/ j = k \/ k < j)  OBVIOUS
  <2> QED  BY <2>1, <2>2, <2>3
<1> DEFINE here == {j \in DOMAIN toc_area.lists : Lists!Begin(j) = Lists!Begin(k)}
<1>3. here = IF k \in 1..n THEN {k} ELSE {}  BY <1>1, <1>2
<1>4. Lists!ListAt(Lists!Begin(k)) =
        IF here = {} THEN "other" ELSE toc_area.lists[CHOOSE j \in here : TRUE]
  BY DEF Lists!ListAt
<1> HIDE DEF here
<1> QED  BY <1>3, <1>4

\* What the first lists point to.
PointedBy(j) == IF toc_area.lists[j] = "SACDTTxt" THEN {"area_text"}
                ELSE Lists!Pointed[toc_area.lists[j]]
PointedUpTo(m) == UNION {PointedBy(j) : j \in 1..m}

LEMMA OneMore ==
  ASSUME NEW k \in Nat \ {0}
  PROVE  PointedUpTo(k) = PointedUpTo(k - 1) \cup PointedBy(k)
<1>1. 1..k = (1..k - 1) \cup {k}  OBVIOUS
<1> HIDE DEF PointedBy
<1> QED  BY <1>1 DEF PointedUpTo

\* The place of the walk.
At(k) ==
  /\ k \in 1..Len(toc_area.lists) + 1
  /\ p = Lists!Begin(k) /\ \A j \in 1..k - 1 : toc_area.lists[j] # "other"
  /\ text_idx = 0 <=> \A j \in 1..k - 1 : toc_area.lists[j] # "SACDTTxt"
  /\ lists_pc = "text" => k <= Len(toc_area.lists) /\ toc_area.lists[k] = "SACDTTxt"
  /\ pointers = PointedUpTo(IF lists_pc = "text" THEN k ELSE k - 1)
  /\ lists_pc \in {"open", "cue"} /\ p < toc_area.size =>
       k = Len(toc_area.lists) + 1 \/ toc_area.lists[k] = "other"

SomePlace == \E k : At(k)

LEMMA WalkAt == Lists!WalkInv <=> SomePlace
<1>1. ASSUME NEW k
      PROVE  At(k) <=>
        /\ k \in 1..Len(toc_area.lists) + 1
        /\ p = Lists!Begin(k) /\ \A j \in 1..k - 1 : toc_area.lists[j] # "other"
        /\ text_idx = 0 <=> \A j \in 1..k - 1 : toc_area.lists[j] # "SACDTTxt"
        /\ lists_pc = "text" => k <= Len(toc_area.lists) /\ toc_area.lists[k] = "SACDTTxt"
        /\ pointers = UNION {IF toc_area.lists[j] = "SACDTTxt" THEN {"area_text"}
                             ELSE Lists!Pointed[toc_area.lists[j]] :
                               j \in 1 .. IF lists_pc = "text" THEN k ELSE k - 1}
        /\ lists_pc \in {"open", "cue"} /\ p < toc_area.size =>
             k = Len(toc_area.lists) + 1 \/ toc_area.lists[k] = "other"
  BY DEF At, PointedUpTo, PointedBy
<1> QED  BY <1>1, Zenon DEF Lists!WalkInv, SomePlace

LEMMA SameArea ==
  ASSUME toc_area' = toc_area
  PROVE  /\ \A k : Lists!Begin(k)' = Lists!Begin(k)
         /\ \A k : PointedUpTo(k)' = PointedUpTo(k)
BY DEF Lists!Begin, PointedUpTo, PointedBy

LEMMA Here ==
  ASSUME InAreaTocs, NEW k, At(k)
  PROVE  /\ Len(toc_area.lists) \in Nat /\ k \in 1..Len(toc_area.lists) + 1
         /\ Lists!ListAt(p) = IF k \in 1..Len(toc_area.lists) THEN toc_area.lists[k] ELSE "other"
         /\ k \in 1..Len(toc_area.lists) => toc_area.lists[k] \in DOMAIN Lists!Sectors
<1>1. toc_area.lists \in Seq(DOMAIN Lists!Sectors)  BY AreaFacts
<1>2. PICK n \in Nat : n = Len(toc_area.lists)  BY <1>1
<1>3. k \in 1..n + 1 /\ p = Lists!Begin(k)  BY <1>2 DEF At
<1>4. Lists!ListAt(Lists!Begin(k)) = IF k \in 1..n THEN toc_area.lists[k] ELSE "other"
  BY <1>2, <1>3, ListIn
<1> QED  BY <1>1, <1>2, <1>3, <1>4

\* The walk goes to the next list.
LEMMA MoveOn ==
  ASSUME InAreaTocs, NEW k, At(k), k \in 1..Len(toc_area.lists), toc_area' = toc_area,
         toc_area.lists[k] # "other", text_idx \in Nat,
         lists_pc' = "walk", p' = p + Lists!Sectors[toc_area.lists[k]], pointers' = PointedUpTo(k),
         text_idx' = IF toc_area.lists[k] = "SACDTTxt" THEN text_idx + 1 ELSE text_idx
  PROVE  At(k + 1)'
<1>1. PICK n \in Nat : n = Len(toc_area.lists)  BY Here
<1>2. k \in 1..n /\ p = Lists!Begin(k)  BY <1>1 DEF At
<1>3. Lists!Begin(k + 1) = Lists!Begin(k) + Lists!Sectors[toc_area.lists[k]]  BY <1>1, <1>2, Places
<1>4. p' = Lists!Begin(k + 1)'
  <2>1. PICK x : x = k + 1  OBVIOUS
  <2>2. Lists!Begin(x)' = Lists!Begin(x)  BY SameArea
  <2> QED  BY <1>2, <1>3, <2>1, <2>2
<1>5. (k + 1) - 1 = k /\ k + 1 \in 1..n + 1 /\ \A j : j \in 1..k <=> j \in 1..k - 1 \/ j = k
  BY <1>2
<1>6. \A j \in 1..k : toc_area.lists[j] # "other"  BY <1>5 DEF At
<1>7. text_idx' = 0 <=> \A j \in 1..k : toc_area.lists[j] # "SACDTTxt"
  <2>1. text_idx = 0 <=> \A j \in 1..k - 1 : toc_area.lists[j] # "SACDTTxt"  BY DEF At
  <2>2. CASE toc_area.lists[k] = "SACDTTxt"
    <3>1. text_idx' # 0  BY <2>2
    <3> QED  BY <1>5, <2>2, <3>1
  <2>3. CASE toc_area.lists[k] # "SACDTTxt"  BY <1>5, <2>1, <2>3
  <2> QED  BY <2>2, <2>3
<1>8. pointers' = PointedUpTo(k)'  BY SameArea
<1>9. PICK x : x = k + 1  OBVIOUS
<1>10. At(x)'
  <2>1. x - 1 = k /\ x \in 1..n + 1 /\ p' = Lists!Begin(x)'  BY <1>4, <1>5, <1>9
  <2>2. Len(toc_area'.lists) = n /\ toc_area' = toc_area  BY <1>1
  <2>3. pointers' = PointedUpTo(x - 1)'  BY <1>8, <2>1
  <2>4. \A j \in 1..x - 1 : toc_area.lists[j] # "other"  BY <1>6, <2>1
  <2>5. text_idx' = 0 <=> \A j \in 1..x - 1 : toc_area.lists[j] # "SACDTTxt"  BY <1>7, <2>1
  <2> QED  BY <2>1, <2>2, <2>3, <2>4, <2>5 DEF At
<1> QED  BY <1>9, <1>10

LEMMA WalkSame ==
  ASSUME NEW k, At(k), UNCHANGED <<toc_area, lists_pc, p, text_idx, pointers>>
  PROVE  At(k)'
<1>1. Lists!Begin(k)' = Lists!Begin(k)  BY SameArea
<1>2. \A m : PointedUpTo(m)' = PointedUpTo(m)  BY SameArea
<1>3. pointers = PointedUpTo(IF lists_pc = "text" THEN k ELSE k - 1)  BY DEF At
<1>4. pointers' = PointedUpTo(IF lists_pc = "text" THEN k ELSE k - 1)'
  <2>1. PICK m : m = IF lists_pc = "text" THEN k ELSE k - 1  OBVIOUS
  <2>2. m = IF lists_pc' = "text" THEN k ELSE k - 1  BY <2>1
  <2> QED  BY <1>2, <1>3, <2>1, <2>2
<1> QED  BY <1>1, <1>4 DEF At

\* The walk ends, or the step is behind it.
LEMMA WalkOver ==
  ASSUME NEW k, At(k), lists_pc # "text", lists_pc' # "text",
         lists_pc' \in {"open", "cue"} /\ p < toc_area.size =>
           k = Len(toc_area.lists) + 1 \/ toc_area.lists[k] = "other",
         UNCHANGED <<toc_area, p, text_idx, pointers>>
  PROVE  At(k)'
<1>1. Lists!Begin(k)' = Lists!Begin(k)  BY SameArea
<1>2. \A m : PointedUpTo(m)' = PointedUpTo(m)  BY SameArea
<1>3. pointers = PointedUpTo(k - 1)  BY DEF At
<1>4. pointers' = PointedUpTo(k - 1)'
  <2>1. PICK m : m = k - 1  OBVIOUS
  <2> QED  BY <1>2, <1>3, <2>1
<1> QED  BY <1>1, <1>4 DEF At

LEMMA WalkStep ==
  ASSUME InAreaTocs, Lists!TypeOK, Lists!WalkInv, [Lists!Next]_lists_vars
  PROVE  Lists!WalkInv'
<1>1. PICK k : At(k)  BY WalkAt DEF SomePlace
<1>2. PICK n \in Nat : n = Len(toc_area.lists)  BY <1>1, Here
<1>3. /\ k \in 1..n + 1
      /\ Lists!ListAt(p) = IF k \in 1..n THEN toc_area.lists[k] ELSE "other"
      /\ k \in 1..n => toc_area.lists[k] \in DOMAIN Lists!Sectors
  BY <1>1, <1>2, Here
<1>4. p \in Nat /\ text_idx \in Nat /\ p \in 1..toc_area.size + 31
  <2>1. p \in 1..toc_area.size + 31 /\ text_idx \in 0..p - 1  BY DEF Lists!TypeOK
  <2> QED  BY <2>1
<1>5. \A list \in DOMAIN Lists!Pointed \cup {"SACDTTxt"} : list # "other"
  BY DEF Lists!Pointed
<1>6. SUFFICES \E m : At(m)'
  <2>1. Lists!WalkInv' <=> SomePlace'  BY WalkAt, PTL
  <2> QED  BY <2>1 DEF SomePlace
<1>7. ASSUME Lists!TextList PROVE \E m : At(m)'
  <2>1. k \in 1..n /\ toc_area.lists[k] = "SACDTTxt" /\ lists_pc = "walk" /\ toc_area' = toc_area
    BY <1>3, <1>7 DEF Lists!TextList, Lists!Walking
  <2>2. PointedUpTo(k) = PointedUpTo(k - 1) \cup {"area_text"}
    <3>1. k \in Nat \ {0}  BY <2>1
    <3>2. PointedBy(k) = {"area_text"}  BY <2>1 DEF PointedBy
    <3> QED  BY <3>1, <3>2, OneMore
  <2>3. pointers = PointedUpTo(k - 1)  BY <1>1, <2>1 DEF At
  <2>4. text_idx = 0 <=> \A j \in 1..k - 1 : toc_area.lists[j] # "SACDTTxt"  BY <1>1 DEF At
  <2>5. CASE text_idx = 0
    <3>1. /\ lists_pc' = "text" /\ pointers' = pointers \cup {"area_text"}
          /\ UNCHANGED <<p, text_idx>>
      <4>1. PICK t \in Nat \ {0} : Lists!Tracks = 1..t  BY AreaFacts
      <4>2. 1 \in Lists!Tracks  BY <4>1
      <4> QED  BY <2>5, <4>2, <1>7 DEF Lists!TextList
    <3>2. pointers' = PointedUpTo(k)'  BY <2>1, <2>2, <2>3, <3>1, SameArea
    <3>3. Lists!Begin(k)' = Lists!Begin(k)  BY <2>1, SameArea
    <3>4. k <= Len(toc_area.lists)  BY <1>2, <2>1
    <3> QED  BY <1>1, <2>1, <3>1, <3>2, <3>3, <3>4 DEF At
  <2>6. CASE text_idx # 0
    <3>1. lists_pc' = "walk" /\ p' = p + 1 /\ text_idx' = text_idx + 1 /\ pointers' = pointers
      BY <2>1, <2>6, <1>7 DEF Lists!TextList
    <3>2. PICK j \in 1..k - 1 : toc_area.lists[j] = "SACDTTxt"  BY <2>4, <2>6
    <3>3. "area_text" \in PointedUpTo(k - 1)  BY <3>2 DEF PointedUpTo, PointedBy
    <3>4. pointers' = PointedUpTo(k)  BY <2>2, <2>3, <3>1, <3>3
    <3>5. Lists!Sectors[toc_area.lists[k]] = 1  BY <2>1 DEF Lists!Sectors
    <3>6. toc_area.lists[k] # "other"  BY <2>1
    <3>7. k \in 1..Len(toc_area.lists)  BY <1>2, <2>1
    <3>8. At(k + 1)'  BY <1>1, <1>4, <2>1, <3>1, <3>4, <3>5, <3>6, <3>7, MoveOn
    <3> QED  BY <3>8
  <2> QED  BY <2>5, <2>6
<1>8. ASSUME Lists!OtherList PROVE \E m : At(m)'
  <2>1. PICK list \in DOMAIN Lists!Pointed :
          Lists!Walking(list) /\ pointers' = pointers \cup Lists!Pointed[list]
                              /\ p' = p + Lists!Sectors[list]
    BY <1>8 DEF Lists!OtherList
  <2>2. list # "other" /\ list # "SACDTTxt"  BY DEF Lists!Pointed
  <2>3. k \in 1..n /\ toc_area.lists[k] = list /\ lists_pc = "walk"
    BY <1>3, <2>1, <2>2 DEF Lists!Walking
  <2>4. UNCHANGED <<toc_area, lists_pc, text_idx>>  BY <1>8 DEF Lists!OtherList
  <2>5. pointers = PointedUpTo(k - 1)  BY <1>1, <2>3 DEF At
  <2>6. pointers' = PointedUpTo(k)
    <3>1. k \in Nat \ {0}  BY <2>3
    <3>2. PointedBy(k) = Lists!Pointed[list]  BY <2>2, <2>3 DEF PointedBy
    <3> QED  BY <2>1, <2>5, <3>1, <3>2, OneMore
  <2>7. k \in 1..Len(toc_area.lists)  BY <1>2, <2>3
  <2>8. At(k + 1)'
    BY <1>1, <1>4, <2>1, <2>2, <2>3, <2>4, <2>6, <2>7, MoveOn
  <2> QED  BY <2>8
<1>9. ASSUME lists_pc = "text", Lists!NextTrack, UNCHANGED <<toc_area, pointers>>
      PROVE  \E m : At(m)'
  <2>1. CASE UNCHANGED <<lists_pc, p, text_idx>>  BY <1>1, <1>9, <2>1, WalkSame
  <2>2. CASE lists_pc' = "walk" /\ p' = p + 1 /\ text_idx' = text_idx + 1
    <3>1. k \in 1..n /\ toc_area.lists[k] = "SACDTTxt" /\ pointers = PointedUpTo(k)
      BY <1>1, <1>2, <1>3, <1>9 DEF At
    <3>2. Lists!Sectors[toc_area.lists[k]] = 1  BY <3>1 DEF Lists!Sectors
    <3>3. toc_area.lists[k] # "other"  BY <3>1
    <3>4. k \in 1..Len(toc_area.lists)  BY <1>2, <3>1
    <3>5. At(k + 1)'  BY <1>1, <1>4, <1>9, <2>2, <3>1, <3>2, <3>3, <3>4, MoveOn
    <3> QED  BY <3>5
  <2> QED  BY <1>9, <2>1, <2>2 DEF Lists!NextTrack
<1>10. CASE Lists!TooLong \/ Lists!TrackEnds
  BY <1>9, <1>10 DEF Lists!TooLong, Lists!TrackEnds, Lists!HasItem
<1>11. CASE UNCHANGED <<toc_area, lists_pc, p, text_idx, pointers>>  BY <1>1, <1>11, WalkSame
<1>12. CASE Lists!SkipEmpty \/ Lists!Convert \/ Lists!CueTrack \/ Lists!Ended \/ UNCHANGED lists_vars
  BY <1>11, <1>12 DEF Lists!SkipEmpty, Lists!Convert, Lists!CueTrack, Lists!Ended, Lists!NextItem,
                      Lists!vars, lists_vars
<1>13. CASE Lists!WalkEnds
  <2>1. /\ lists_pc = "walk" /\ lists_pc' = "open" /\ UNCHANGED <<toc_area, p, text_idx, pointers>>
        /\ p < toc_area.size => Lists!ListAt(p) = "other"
    BY <1>13 DEF Lists!WalkEnds
  <2>2. p < toc_area.size => k = Len(toc_area.lists) + 1 \/ toc_area.lists[k] = "other"
    BY <1>2, <1>3, <2>1
  <2>3. At(k)'  BY <1>1, <2>1, <2>2, WalkOver
  <2> QED  BY <2>3
<1>14. CASE Lists!StartCue \/ Lists!Close
  <2>1. /\ lists_pc \in {"open", "cue"} /\ lists_pc' \in {"cue", "crashed", "closed"}
        /\ UNCHANGED <<toc_area, p, text_idx, pointers>>
    BY <1>14 DEF Lists!StartCue, Lists!Close
  <2>2. p < toc_area.size => k = Len(toc_area.lists) + 1 \/ toc_area.lists[k] = "other"
    BY <1>1, <2>1 DEF At
  <2>3. At(k)'  BY <1>1, <2>1, <2>2, WalkOver
  <2> QED  BY <2>3
<1> QED  BY <1>7, <1>8, <1>10, <1>12, <1>13, <1>14 DEF Lists!Next

\* The sheet.
LEMMA Frames ==
  ASSUME FrameRate \in Nat \ {0}, NEW t \in Lists!Times
  PROVE  Lists!FrameCount(t) \in Nat
<1>1. t[1] \in Nat /\ t[2] \in Nat /\ t[3] \in Nat  BY DEF Lists!Times
<1>2. PICK m \in Nat : m = t[1] * 60 + t[2]  BY <1>1
<1>3. PICK k \in Nat : k = m * FrameRate
  <2>1. \A x, y \in Nat : x * y \in Nat  OBVIOUS
  <2> QED  BY <1>2, <2>1
<1>4. Lists!FrameCount(t) = k + t[3]  BY <1>2, <1>3 DEF Lists!FrameCount
<1> QED  BY <1>1, <1>3, <1>4

\* The time that is made of a count of frames is that count.
LEMMA MsfOfCount ==
  ASSUME FrameRate \in Nat \ {0}, NEW n \in Nat
  PROVE  Lists!Msf(n) \in Lists!Times /\ Lists!FrameCount(Lists!Msf(n)) = n
<1>1. PICK q \in Nat : q = n \div FrameRate  OBVIOUS
<1>2. PICK r \in Nat : r = n % FrameRate  OBVIOUS
<1>3. n = q * FrameRate + r  BY <1>1, <1>2
<1>4. PICK a \in Nat, b \in Nat : a = q \div 60 /\ b = q % 60 /\ q = a * 60 + b  OBVIOUS
<1>5. Lists!Msf(n) = <<a, b, r>>  BY <1>1, <1>2, <1>4 DEF Lists!Msf
<1>6. Lists!FrameCount(<<a, b, r>>) = (a * 60 + b) * FrameRate + r  BY DEF Lists!FrameCount
<1>7. Lists!FrameCount(<<a, b, r>>) = n  BY <1>3, <1>4, <1>6
<1>8. <<a, b, r>> \in Lists!Times  BY DEF Lists!Times
<1> QED  BY <1>5, <1>7, <1>8

LEMMA EndBefore ==
  ASSUME InAreaTocs, NEW n, n = Lists!TrackCount, track \in 1..n
  PROVE  /\ Lists!PrevEnd \in Nat
         /\ Lists!FrameCount(toc_area.start[track]) \in Nat
         /\ track > 1 => Lists!PrevEnd = Lists!FrameCount(toc_area.start[track - 1])
                                          + Lists!FrameCount(toc_area.duration[track - 1])
<1>1. n \in Nat \ {0} /\ Lists!Tracks = 1..n /\ FrameRate \in Nat \ {0}  BY AreaFacts
<1>2. \A t \in 1..n : toc_area.start[t] \in Lists!Times /\ toc_area.duration[t] \in Lists!Times
  BY <1>1, AreaFacts
<1>3. \A t \in 1..n : /\ Lists!FrameCount(toc_area.start[t]) \in Nat
                      /\ Lists!FrameCount(toc_area.duration[t]) \in Nat
  BY <1>1, <1>2, Frames
<1>4. track > 1 => track - 1 \in 1..n  BY <1>1
<1>5. Lists!PrevEnd = IF track = 1 THEN 0 ELSE Lists!FrameCount(toc_area.start[track - 1])
                                          + Lists!FrameCount(toc_area.duration[track - 1])
  BY DEF Lists!PrevEnd
<1>6. track = 1 \/ track > 1  BY <1>1
<1>7. Lists!PrevEnd \in Nat
  <2>1. CASE track = 1  BY <1>5, <2>1
  <2>2. CASE track > 1  BY <1>3, <1>4, <1>5, <2>2
  <2> QED  BY <1>6, <2>1, <2>2
<1> QED  BY <1>3, <1>5, <1>7

\* What a step adds to the sheet.
LEMMA CueAdds ==
  ASSUME InAreaTocs, NEW n, n = Lists!TrackCount, track \in 1..n, NEW S, cue \in Seq(S),
         S = [track : 1..n, index : {0, 1}, at : Lists!Times], Lists!CueTrack
  PROVE  \E e \in S :
           /\ e = [track |-> track, index |-> 1, at |-> toc_area.start[track]]
           /\ \/ cue' = Append(cue, e) /\ Lists!FrameCount(e.at) <= Lists!PrevEnd
              \/ \E d \in S : /\ cue' = Append(Append(cue, d), e)
                              /\ d.track = track /\ d.index = 0
                              /\ Lists!FrameCount(d.at) = Lists!PrevEnd
                              /\ Lists!PrevEnd < Lists!FrameCount(e.at)
<1>1. FrameRate \in Nat \ {0} /\ toc_area.start[track] \in Lists!Times
  BY AreaFacts
<1>2. /\ Lists!PrevEnd \in Nat /\ Lists!FrameCount(toc_area.start[track]) \in Nat
  BY EndBefore
<1>3. PICK e \in S : e = [track |-> track, index |-> 1, at |-> toc_area.start[track]]  BY <1>1
<1>4. PICK d \in S : d = [track |-> track, index |-> 0, at |-> Lists!Msf(Lists!PrevEnd)]
  BY <1>1, <1>2, MsfOfCount
<1>5. d.track = track /\ d.index = 0 /\ Lists!FrameCount(d.at) = Lists!PrevEnd /\ e.at = toc_area.start[track]
  BY <1>1, <1>2, <1>3, <1>4, MsfOfCount
<1>6. CASE Lists!FrameCount(toc_area.start[track]) > Lists!PrevEnd
  <2>1. cue' = cue \o <<d>> \o <<e>>  BY <1>3, <1>4, <1>6 DEF Lists!CueTrack
  <2>2. PICK c \in Seq(S) : c = Append(cue, d)
    <3>1. Append(cue, d) \in Seq(S)  OBVIOUS
    <3> QED  BY <3>1
  <2>3. cue \o <<d>> = c /\ c \o <<e>> = Append(c, e)
    <3>1. cue \o <<d>> = Append(cue, d)  OBVIOUS
    <3>2. \A x \in Seq(S) : x \o <<e>> = Append(x, e)  OBVIOUS
    <3> QED  BY <2>2, <3>1, <3>2
  <2>4. cue' = Append(Append(cue, d), e)  BY <2>1, <2>2, <2>3
  <2> QED  BY <1>2, <1>3, <1>5, <1>6, <2>4
<1>7. CASE ~(Lists!FrameCount(toc_area.start[track]) > Lists!PrevEnd)
  <2>1. cue' = cue \o <<>> \o <<e>>  BY <1>3, <1>7 DEF Lists!CueTrack
  <2>2. cue' = Append(cue, e)  BY <2>1
  <2> QED  BY <1>2, <1>3, <1>5, <1>7, <2>2
<1> QED  BY <1>6, <1>7

LEMMA CueTypes ==
  ASSUME InAreaTocs, NEW n, n = Lists!TrackCount, track \in 1..n, NEW S, cue \in Seq(S),
         S = [track : 1..n, index : {0, 1}, at : Lists!Times], Lists!CueTrack
  PROVE  cue' \in Seq(S)
<1>1. PICK e \in S : cue' = Append(cue, e) \/ \E d \in S : cue' = Append(Append(cue, d), e)
  BY CueAdds
<1>2. CASE cue' = Append(cue, e)  BY <1>2
<1>3. CASE \E d \in S : cue' = Append(Append(cue, d), e)
  <2>1. PICK d \in S : cue' = Append(Append(cue, d), e)  BY <1>3
  <2>2. \A c \in Seq(S) : \A x \in S : Append(c, x) \in Seq(S)  OBVIOUS
  <2>3. Append(cue, d) \in Seq(S)  BY <2>2
  <2>4. PICK c \in Seq(S) : c = Append(cue, d)  BY <2>3
  <2> QED  BY <2>1, <2>2, <2>4
<1> QED  BY <1>1, <1>2, <1>3

LEMMA AreaTypes ==
  ASSUME InAreaTocs, Lists!TypeOK, Lists!TextInv, [Lists!Next]_lists_vars
  PROVE  Lists!TypeOK' /\ InAreaTocs'
<1>1. PICK n \in Nat \ {0} : n = Lists!TrackCount /\ Lists!Tracks = 1..n  BY AreaFacts
<1>2. toc_area.size \in Nat  BY AreaFacts
<1>3. toc_area' = toc_area
  BY DEF Lists!Next, Lists!TextList, Lists!TooLong, Lists!SkipEmpty, Lists!Convert,
         Lists!TrackEnds, Lists!OtherList, Lists!WalkEnds, Lists!StartCue, Lists!CueTrack,
         Lists!Close, Lists!Ended, Lists!vars, lists_vars
<1>4. Lists!TrackCount' = n /\ Lists!Tracks' = 1..n
  BY <1>1, <1>3 DEF Lists!TrackCount, Lists!Tracks
<1>5. /\ lists_pc \in {"walk", "text", "open", "cue", "crashed", "closed"}
      /\ p \in 1..toc_area.size + 31 /\ text_idx \in 0..p - 1
      /\ track \in 1..n + 1 /\ item \in Nat
      /\ track_text \in [1..n -> [Lists!Types -> Nat]]
      /\ pointers \subseteq {"area_text", "area_isrc_genre", "area_tracklist_offset", "area_tracklist_time"}
      /\ converted \subseteq (1..n) \X Nat
      /\ cue \in Seq([track : 1..n, index : {0, 1}, at : Lists!Times])
  BY <1>1 DEF Lists!TypeOK
<1>6. p \in Nat /\ text_idx \in Nat  BY <1>5
<1>7. lists_pc = "text" => track \in 1..n /\ p < toc_area.size  BY <1>1 DEF Lists!TextInv
<1>8. lists_pc' \in {"walk", "text", "open", "cue", "crashed", "closed"}
  BY <1>5 DEF Lists!Next, Lists!TextList, Lists!TooLong, Lists!SkipEmpty, Lists!Convert,
         Lists!TrackEnds, Lists!OtherList, Lists!WalkEnds, Lists!StartCue, Lists!CueTrack,
         Lists!Close, Lists!Ended, Lists!vars, lists_vars, Lists!NextTrack, Lists!NextItem
<1>9. p' \in 1..toc_area.size + 31 /\ text_idx' \in 0..p' - 1
  <2>1. CASE UNCHANGED <<p, text_idx>>  BY <1>5, <2>1
  <2>2. ASSUME p < toc_area.size, p' = p + 1, text_idx' = text_idx + 1
        PROVE  p' \in 1..toc_area.size + 31 /\ text_idx' \in 0..p' - 1
    BY <1>2, <1>5, <1>6, <2>2
  <2>3. CASE Lists!TextList  BY <2>1, <2>2, <2>3 DEF Lists!TextList, Lists!Walking
  <2>4. CASE Lists!TooLong \/ Lists!TrackEnds
    BY <1>7, <2>1, <2>2, <2>4 DEF Lists!TooLong, Lists!TrackEnds, Lists!HasItem, Lists!NextTrack
  <2>5. CASE Lists!OtherList
    <3>1. PICK list \in DOMAIN Lists!Pointed :
            p < toc_area.size /\ p' = p + Lists!Sectors[list]
      BY <2>5 DEF Lists!OtherList, Lists!Walking
    <3>2. list \in DOMAIN Lists!Sectors  BY DEF Lists!Pointed, Lists!Sectors
    <3>3. Lists!Sectors[list] \in 1..32  BY <3>2, SectorSizes
    <3>4. PICK w \in 1..32 : p' = p + w  BY <3>1, <3>3
    <3>5. text_idx' = text_idx  BY <2>5 DEF Lists!OtherList
    <3>6. PICK m \in Nat : m = toc_area.size  BY <1>2
    <3>7. \A x \in Nat : \A y \in 1..32 : \A i \in Nat :
            x \in 1..m + 31 /\ x < m /\ i \in 0..x - 1 =>
              x + y \in 1..m + 31 /\ i \in 0..(x + y) - 1
      OBVIOUS
    <3>8. p \in 1..m + 31 /\ p < m /\ text_idx \in 0..p - 1  BY <1>5, <3>1, <3>6
    <3>9. p + w \in 1..m + 31 /\ text_idx \in 0..(p + w) - 1  BY <1>6, <3>4, <3>7, <3>8
    <3>10. p' - 1 = (p + w) - 1  BY <3>4
    <3> QED  BY <3>4, <3>5, <3>6, <3>9, <3>10
  <2>6. CASE UNCHANGED lists_vars  BY <2>1, <2>6 DEF lists_vars
  <2>7. CASE Lists!SkipEmpty \/ Lists!Convert \/ Lists!WalkEnds \/ Lists!StartCue
             \/ Lists!CueTrack \/ Lists!Close \/ Lists!Ended
    BY <2>1, <2>7 DEF Lists!SkipEmpty, Lists!Convert, Lists!NextItem, Lists!WalkEnds,
                      Lists!StartCue, Lists!CueTrack, Lists!Close, Lists!Ended, Lists!vars
  <2> QED  BY <2>3, <2>4, <2>5, <2>6, <2>7 DEF Lists!Next
<1>10. track' \in 1..n + 1 /\ item' \in Nat
  <2>1. CASE Lists!TooLong \/ Lists!TrackEnds
    BY <1>1, <1>5, <2>1 DEF Lists!TooLong, Lists!TrackEnds, Lists!NextTrack
  <2>2. CASE Lists!SkipEmpty \/ Lists!Convert
    BY <1>5, <2>2 DEF Lists!SkipEmpty, Lists!Convert, Lists!NextItem
  <2>3. CASE Lists!CueTrack  BY <1>1, <1>5, <2>3 DEF Lists!CueTrack
  <2>4. CASE Lists!TextList \/ Lists!OtherList \/ Lists!WalkEnds \/ Lists!StartCue
             \/ Lists!Close \/ Lists!Ended \/ UNCHANGED lists_vars
    BY <1>5, <2>4 DEF Lists!TextList, Lists!OtherList, Lists!WalkEnds, Lists!StartCue,
                      Lists!Close, Lists!Ended, Lists!vars, lists_vars
  <2> QED  BY <2>1, <2>2, <2>3, <2>4 DEF Lists!Next
<1>11. track_text' \in [1..n -> [Lists!Types -> Nat]]
  <2>1. CASE Lists!Convert  BY <1>5, <2>1 DEF Lists!Convert
  <2>2. CASE UNCHANGED track_text  BY <1>5, <2>2
  <2> QED
    BY <2>1, <2>2 DEF Lists!Next, Lists!TextList, Lists!TooLong, Lists!SkipEmpty,
         Lists!TrackEnds, Lists!OtherList, Lists!WalkEnds, Lists!StartCue, Lists!CueTrack,
         Lists!Close, Lists!Ended, Lists!vars, lists_vars
<1>12. pointers' \subseteq {"area_text", "area_isrc_genre", "area_tracklist_offset", "area_tracklist_time"}
  <2>1. CASE Lists!TextList  BY <1>5, <2>1 DEF Lists!TextList
  <2>2. CASE Lists!OtherList
    <3>1. \A list \in DOMAIN Lists!Pointed : Lists!Pointed[list] \subseteq
            {"area_text", "area_isrc_genre", "area_tracklist_offset", "area_tracklist_time"}
      BY DEF Lists!Pointed
    <3> QED  BY <1>5, <2>2, <3>1 DEF Lists!OtherList
  <2>3. CASE UNCHANGED pointers  BY <1>5, <2>3
  <2> QED
    BY <2>1, <2>2, <2>3 DEF Lists!Next, Lists!TooLong, Lists!SkipEmpty, Lists!Convert,
         Lists!TrackEnds, Lists!WalkEnds, Lists!StartCue, Lists!CueTrack,
         Lists!Close, Lists!Ended, Lists!vars, lists_vars
<1>13. converted' \subseteq (1..n) \X Nat
  <2>1. CASE Lists!Convert
    <3>1. track \in 1..n  BY <1>7, <2>1 DEF Lists!Convert, Lists!HasItem
    <3> QED  BY <1>5, <2>1, <3>1 DEF Lists!Convert
  <2>2. CASE Lists!Close  BY <1>5, <2>2 DEF Lists!Close
  <2>3. CASE UNCHANGED converted  BY <1>5, <2>3
  <2> QED
    BY <2>1, <2>2, <2>3 DEF Lists!Next, Lists!TextList, Lists!TooLong, Lists!SkipEmpty,
         Lists!TrackEnds, Lists!OtherList, Lists!WalkEnds, Lists!StartCue, Lists!CueTrack,
         Lists!Ended, Lists!vars, lists_vars
<1>14. Lists!CueTrack => track \in 1..n  BY <1>1, <1>5 DEF Lists!CueTrack
<1>15. cue' \in Seq([track : 1..n, index : {0, 1}, at : Lists!Times])
  <2>1. CASE Lists!CueTrack  BY <1>1, <1>5, <1>14, <2>1, CueTypes
  <2>2. CASE UNCHANGED cue  BY <1>5, <2>2
  <2> QED
    BY <2>1, <2>2 DEF Lists!Next, Lists!TextList, Lists!TooLong, Lists!SkipEmpty, Lists!Convert,
         Lists!TrackEnds, Lists!OtherList, Lists!WalkEnds, Lists!StartCue,
         Lists!Close, Lists!Ended, Lists!vars, lists_vars
<1>16. InAreaTocs'  BY <1>3 DEF InAreaTocs
<1> QED  BY <1>3, <1>4, <1>8, <1>9, <1>10, <1>11, <1>12, <1>13, <1>15, <1>16 DEF Lists!TypeOK

\* The texts of the tracks that are done.
Mine(t, type, items) == {i \in items : /\ toc_area.items[t][i].type = type
                                       /\ toc_area.items[t][i].holds \in {"text", "controls"}}
Ready(t) == IF lists_pc = "text" /\ t = track THEN 1..item - 1
            ELSE IF (IF lists_pc = "text" THEN t < track ELSE text_idx > 0) THEN Lists!Usable(t)
            ELSE {}
AllReady == \A t \in Lists!Tracks, type \in Lists!Types : Lists!Latest(t, type, Ready(t))

LEMMA LatestIs ==
  ASSUME NEW t, NEW type, NEW items
  PROVE  Lists!Latest(t, type, items) <=>
           IF Mine(t, type, items) = {} THEN track_text[t][type] = 0
           ELSE /\ track_text[t][type] \in Mine(t, type, items)
                /\ \A i \in Mine(t, type, items) : i <= track_text[t][type]
BY DEF Lists!Latest, Mine, Lists!None

LEMMA LatestKept ==
  ASSUME NEW t, NEW type, NEW before, NEW after, Lists!Latest(t, type, before),
         Mine(t, type, after) = Mine(t, type, before), toc_area' = toc_area,
         track_text'[t][type] = track_text[t][type]
  PROVE  Lists!Latest(t, type, after)'
<1>1. Mine(t, type, after)' = Mine(t, type, before)  BY DEF Mine
<1>2. PICK mine : mine = Mine(t, type, before)  OBVIOUS
<1>3. IF mine = {} THEN track_text[t][type] = 0
      ELSE track_text[t][type] \in mine /\ \A i \in mine : i <= track_text[t][type]
  BY <1>2, LatestIs
<1>4. IF Mine(t, type, after)' = {} THEN track_text'[t][type] = 0
      ELSE /\ track_text'[t][type] \in Mine(t, type, after)'
           /\ \A i \in Mine(t, type, after)' : i <= track_text'[t][type]
  BY <1>1, <1>2, <1>3
<1>5. Lists!Latest(t, type, after)' <=>
        IF Mine(t, type, after)' = {} THEN track_text'[t][type] = 0
        ELSE /\ track_text'[t][type] \in Mine(t, type, after)'
             /\ \A i \in Mine(t, type, after)' : i <= track_text'[t][type]
  BY DEF Lists!Latest, Mine, Lists!None
<1> QED  BY <1>4, <1>5

LEMMA ReadyKept ==
  ASSUME AllReady, UNCHANGED <<toc_area, track_text>>,
         \A t \in Lists!Tracks : Ready(t)' = Ready(t)
  PROVE  AllReady'
<1>1. Lists!Tracks' = Lists!Tracks  BY DEF Lists!Tracks, Lists!TrackCount
<1> SUFFICES ASSUME NEW t \in Lists!Tracks, NEW type \in Lists!Types
             PROVE  Lists!Latest(t, type, Ready(t))'
  BY <1>1 DEF AllReady, Lists!Types
<1>2. PICK after : after = Ready(t)  OBVIOUS
<1>3. Lists!Latest(t, type, after)  BY <1>2 DEF AllReady
<1>4. Lists!Latest(t, type, after)'  BY <1>3, LatestKept
<1>5. Ready(t)' = after  BY <1>2
<1> QED  BY <1>4, <1>5 DEF Lists!Latest

TextPlace ==
  /\ lists_pc = "text" =>
       /\ text_idx = 0 /\ p < toc_area.size /\ track \in Lists!Tracks
       /\ item \in 1..Len(toc_area.items[track]) + 1
       /\ \A i \in 1..item - 1 : toc_area.items[track][i].holds # "long"
  /\ lists_pc \in {"walk", "open"} => track = 1 /\ item = 1

LEMMA TextParts == Lists!TextInv <=> TextPlace /\ AllReady
<1>1. AllReady <=> \A t \in Lists!Tracks, type \in Lists!Types :
         Lists!Latest(t, type, IF lists_pc = "text" /\ t = track THEN 1..item - 1
                               ELSE IF (IF lists_pc = "text" THEN t < track ELSE text_idx > 0)
                                    THEN Lists!Usable(t) ELSE {})
  BY DEF AllReady, Ready
<1> QED  BY <1>1 DEF Lists!TextInv, TextPlace

\* The items of a track.
LEMMA TrackItems ==
  ASSUME InAreaTocs, NEW t \in Lists!Tracks
  PROVE  /\ toc_area.items[t] \in Seq(Texts) /\ Len(toc_area.items[t]) \in Nat
         /\ DOMAIN toc_area.items[t] = 1..Len(toc_area.items[t])
         /\ Lists!Usable(t) \subseteq 1..Len(toc_area.items[t])
         /\ \A i \in 1..Len(toc_area.items[t]) : toc_area.items[t][i] \in Texts
<1>1. toc_area.items[t] \in Seq(Texts)  BY AreaFacts
<1> QED  BY <1>1 DEF Lists!Usable

\* The texts of a track end.
LEMMA TrackDone ==
  ASSUME InAreaTocs, lists_pc = "text", TextPlace, Lists!TooLong \/ Lists!TrackEnds
  PROVE  1..item - 1 = Lists!Usable(track)
<1>1. /\ track \in Lists!Tracks /\ item \in 1..Len(toc_area.items[track]) + 1
      /\ \A i \in 1..item - 1 : toc_area.items[track][i].holds # "long"
  BY DEF TextPlace
<1>2. PICK n \in Nat : n = Len(toc_area.items[track]) /\ DOMAIN toc_area.items[track] = 1..n
  BY <1>1, TrackItems
<1>3. item \in 1..n + 1  BY <1>1, <1>2
<1>4. item = n + 1 \/ toc_area.items[track][item].holds = "long"
  <2>1. CASE Lists!TooLong  BY <2>1 DEF Lists!TooLong, Lists!Item
  <2>2. CASE Lists!TrackEnds  BY <1>2, <1>3, <2>2 DEF Lists!TrackEnds
  <2> QED  BY <2>1, <2>2
<1>5. ASSUME NEW i \in Lists!Usable(track) PROVE i \in 1..item - 1
  <2>1. i \in 1..n /\ \A j \in 1..i : toc_area.items[track][j].holds # "long"
    BY <1>2 DEF Lists!Usable
  <2>2. item \in 1..i => toc_area.items[track][item].holds # "long"  BY <2>1
  <2> QED  BY <1>3, <1>4, <2>1, <2>2
<1>6. ASSUME NEW i \in 1..item - 1 PROVE i \in Lists!Usable(track)
  <2>1. i \in 1..n /\ \A j \in 1..i : j \in 1..item - 1  BY <1>3
  <2>2. \A j \in 1..i : toc_area.items[track][j].holds # "long"  BY <1>1, <2>1
  <2> QED  BY <1>2, <2>1, <2>2 DEF Lists!Usable
<1> QED  BY <1>5, <1>6

\* An item is read.
LEMMA ItemStep ==
  ASSUME InAreaTocs, Lists!TypeOK, TextPlace, AllReady, Lists!SkipEmpty \/ Lists!Convert
  PROVE  AllReady'
<1>1. /\ lists_pc = "text" /\ item' = item + 1 /\ UNCHANGED <<toc_area, lists_pc, text_idx, track>>
      /\ item <= Len(toc_area.items[track])
  BY DEF Lists!SkipEmpty, Lists!Convert, Lists!NextItem, Lists!HasItem
<1>2. track \in Lists!Tracks /\ item \in 1..Len(toc_area.items[track]) + 1  BY <1>1 DEF TextPlace
<1>3. PICK m \in Nat : /\ m = Len(toc_area.items[track])
                       /\ \A i \in 1..m : toc_area.items[track][i] \in Texts
  BY <1>2, TrackItems
<1>4. item \in 1..m  BY <1>1, <1>2, <1>3
<1>5. PICK i \in 1..m : i = item  BY <1>4
<1>6. Lists!Tracks' = Lists!Tracks  BY <1>1 DEF Lists!Tracks, Lists!TrackCount
<1>7. track_text \in [Lists!Tracks -> [Lists!Types -> Nat]]  BY DEF Lists!TypeOK
<1> SUFFICES ASSUME NEW t \in Lists!Tracks, NEW type \in Lists!Types
             PROVE  Lists!Latest(t, type, Ready(t))'
  BY <1>6 DEF AllReady, Lists!Types
<1>8. PICK before : before = Ready(t)  OBVIOUS
<1>9. PICK after : after = IF t = track THEN before \cup {i} ELSE before  OBVIOUS
<1>10. Lists!Latest(t, type, before)  BY <1>8 DEF AllReady
<1>11. t = track => before = 1..i - 1  BY <1>1, <1>5, <1>8 DEF Ready
<1>12. Ready(t)' = after
  <2>1. CASE t = track
    <3>1. Ready(t)' = 1..item' - 1  BY <1>1, <2>1 DEF Ready
    <3>2. item' - 1 = i  BY <1>1, <1>5
    <3>3. 1..i = (1..i - 1) \cup {i}  OBVIOUS
    <3> QED  BY <1>9, <1>11, <2>1, <3>1, <3>2, <3>3
  <2>2. CASE t # track
    <3>1. Ready(t)' = Ready(t)  BY <1>1, <2>2 DEF Ready, Lists!Usable
    <3> QED  BY <1>8, <1>9, <2>2, <3>1
  <2> QED  BY <2>1, <2>2
<1>13. Lists!Latest(t, type, after)'
  <2>1. CASE t # track
    <3>1. track_text'[t][type] = track_text[t][type]
      BY <1>7, <2>1 DEF Lists!SkipEmpty, Lists!Convert
    <3> QED  BY <1>1, <1>9, <1>10, <2>1, <3>1, LatestKept
  <2>2. CASE t = track /\ (toc_area.items[t][i].type # type \/ Lists!SkipEmpty)
    <3>1. Mine(t, type, after) = Mine(t, type, before)
      <4>1. Lists!SkipEmpty => toc_area.items[t][i].holds = "empty"
        BY <1>5, <2>2 DEF Lists!SkipEmpty, Lists!Item
      <4> QED  BY <1>9, <2>2, <4>1 DEF Mine
    <3>2. track_text'[t][type] = track_text[t][type]
      <4>1. CASE Lists!SkipEmpty  BY <4>1 DEF Lists!SkipEmpty
      <4>2. CASE Lists!Convert
        <5>1. PICK other : other = Lists!Item.type  OBVIOUS
        <5>2. track_text' = IF other \in Lists!Types THEN [track_text EXCEPT ![track][other] = item]
                            ELSE track_text
          BY <4>2, <5>1 DEF Lists!Convert
        <5>3. CASE Lists!SkipEmpty  BY <4>1, <5>3
        <5>4. CASE other # type  BY <1>2, <1>7, <5>2, <5>4
        <5>5. toc_area.items[t][i].type = other  BY <1>5, <2>2, <5>1 DEF Lists!Item
        <5> QED  BY <2>2, <5>3, <5>4, <5>5
      <4> QED  BY <4>1, <4>2
    <3> QED  BY <1>1, <1>10, <3>1, <3>2, LatestKept
  <2>3. CASE t = track /\ toc_area.items[t][i].type = type /\ Lists!Convert
    <3>1. Lists!Item = toc_area.items[t][i]  BY <1>5, <2>3 DEF Lists!Item
    <3>2. toc_area.items[t][i].holds \in {"text", "controls"}  BY <2>3, <3>1 DEF Lists!Convert
    <3>3. track_text' = [track_text EXCEPT ![t][type] = i]
      BY <1>5, <2>3, <3>1 DEF Lists!Convert
    <3>4. track_text'[t][type] = i  BY <1>7, <3>3
    <3>5. i \in Mine(t, type, after)  BY <1>9, <2>3, <3>2 DEF Mine
    <3>6. \A j \in Mine(t, type, after) : j <= i
      <4>1. \A j \in after : j <= i  BY <1>9, <1>11, <2>3
      <4> QED  BY <4>1 DEF Mine
    <3>7. Mine(t, type, after)' = Mine(t, type, after)  BY <1>1 DEF Mine
    <3>8. PICK mine : mine = Mine(t, type, after)  OBVIOUS
    <3>9. i \in mine /\ \A j \in mine : j <= i  BY <3>5, <3>6, <3>8
    <3>10. Lists!Latest(t, type, after)' <=>
             IF Mine(t, type, after)' = {} THEN track_text'[t][type] = 0
             ELSE /\ track_text'[t][type] \in Mine(t, type, after)'
                  /\ \A j \in Mine(t, type, after)' : j <= track_text'[t][type]
      BY DEF Lists!Latest, Mine, Lists!None
    <3> QED  BY <3>4, <3>7, <3>8, <3>9, <3>10
  <2> QED  BY <2>1, <2>2, <2>3
<1> QED  BY <1>12, <1>13 DEF Lists!Latest

LEMMA ReadyStep ==
  ASSUME InAreaTocs, Lists!TypeOK, TextPlace, AllReady, [Lists!Next]_lists_vars
  PROVE  AllReady'
<1>1. PICK n \in Nat \ {0} : n = Lists!TrackCount /\ Lists!Tracks = 1..n  BY AreaFacts
<1>2. track \in 1..n + 1 /\ item \in Nat /\ text_idx \in Nat
  <2>1. p \in 1..toc_area.size + 31 /\ text_idx \in 0..p - 1 /\ track \in 1..n + 1 /\ item \in Nat
    BY <1>1 DEF Lists!TypeOK
  <2> QED  BY <2>1
<1>3. ASSUME lists_pc # "text", lists_pc' # "text", UNCHANGED <<toc_area, track_text>>,
             text_idx' > 0 <=> text_idx > 0
      PROVE  AllReady'
  <2>1. \A t \in Lists!Tracks : Ready(t)' = Ready(t)  BY <1>3 DEF Ready, Lists!Usable
  <2> QED  BY <1>3, <2>1, ReadyKept
<1>4. CASE Lists!TextList
  <2>1. UNCHANGED <<toc_area, track_text, track, item>> /\ lists_pc = "walk"
    BY <1>4 DEF Lists!TextList, Lists!Walking
  <2>2. CASE text_idx = 0
    <3>1. lists_pc' = "text" /\ text_idx' = text_idx
      <4>1. 1 \in Lists!Tracks  BY <1>1
      <4> QED  BY <1>4, <2>2, <4>1 DEF Lists!TextList
    <3>2. track = 1 /\ item = 1  BY <2>1 DEF TextPlace
    <3>3. ASSUME NEW t \in Lists!Tracks PROVE Ready(t)' = Ready(t)
      <4>1. Ready(t) = {}  BY <2>1, <2>2 DEF Ready
      <4>2. t \in 1..n /\ ~(t < 1) /\ 1..1 - 1 = {}  BY <1>1
      <4>3. Ready(t)' = {}  BY <2>1, <3>1, <3>2, <4>2 DEF Ready
      <4> QED  BY <4>1, <4>3
    <3> QED  BY <2>1, <3>3, ReadyKept
  <2>3. CASE text_idx # 0
    <3>1. lists_pc' = lists_pc /\ text_idx' = text_idx + 1  BY <1>4, <2>3 DEF Lists!TextList
    <3>2. text_idx' > 0 /\ text_idx > 0  BY <1>2, <2>3, <3>1
    <3> QED  BY <1>3, <2>1, <3>1, <3>2
  <2> QED  BY <2>2, <2>3
<1>5. CASE Lists!TooLong \/ Lists!TrackEnds
  <2>1. UNCHANGED <<toc_area, track_text>> /\ lists_pc = "text" /\ Lists!NextTrack
    BY <1>5 DEF Lists!TooLong, Lists!TrackEnds, Lists!HasItem
  <2>2. 1..item - 1 = Lists!Usable(track) /\ track \in 1..n /\ text_idx = 0
    BY <1>1, <1>5, <2>1, TrackDone DEF TextPlace
  <2>3. ASSUME NEW t \in Lists!Tracks PROVE Ready(t)' = Ready(t)
    <3>1. t \in 1..n /\ Lists!Usable(t)' = Lists!Usable(t)  BY <1>1, <2>1 DEF Lists!Usable
    <3>2. Ready(t) = IF t <= track THEN Lists!Usable(t) ELSE {}
      <4>1. CASE t = track  BY <2>1, <2>2, <4>1 DEF Ready
      <4>2. CASE t # track
        <5>1. t < track <=> t <= track  BY <2>2, <3>1, <4>2
        <5> QED  BY <2>1, <4>2, <5>1 DEF Ready
      <4> QED  BY <4>1, <4>2
    <3>3. CASE track < n
      <4>1. item' = 1 /\ track' = track + 1 /\ lists_pc' = "text"
        BY <1>1, <2>1, <3>3 DEF Lists!NextTrack
      <4>2. t <= track <=> t < track'  BY <2>2, <3>1, <4>1
      <4>3. 1..item' - 1 = {}  BY <4>1
      <4>4. t = track' => ~(t <= track)  BY <2>2, <3>1, <4>1
      <4>5. Ready(t)' = IF lists_pc' = "text" /\ t = track' THEN 1..item' - 1
                        ELSE IF (IF lists_pc' = "text" THEN t < track' ELSE text_idx' > 0)
                             THEN Lists!Usable(t)' ELSE {}
        BY DEF Ready
      <4> QED  BY <3>1, <3>2, <4>1, <4>2, <4>3, <4>4, <4>5
    <3>4. CASE ~(track < n)
      <4>1. lists_pc' = "walk" /\ text_idx' = text_idx + 1
        BY <1>1, <2>1, <3>4 DEF Lists!NextTrack
      <4>2. text_idx' > 0 /\ t <= track  BY <2>2, <3>1, <3>4, <4>1
      <4> QED  BY <3>1, <3>2, <4>1, <4>2 DEF Ready
    <3> QED  BY <3>3, <3>4
  <2> QED  BY <2>1, <2>3, ReadyKept
<1>6. CASE Lists!SkipEmpty \/ Lists!Convert  BY <1>6, ItemStep
<1>7. CASE Lists!OtherList \/ Lists!WalkEnds \/ Lists!StartCue \/ Lists!CueTrack \/ Lists!Close
  <2>1. UNCHANGED <<toc_area, track_text, text_idx>> /\ lists_pc # "text" /\ lists_pc' # "text"
    BY <1>7 DEF Lists!OtherList, Lists!Walking, Lists!WalkEnds, Lists!StartCue, Lists!CueTrack,
                Lists!Close
  <2> QED  BY <1>3, <2>1
<1>8. CASE Lists!Ended \/ UNCHANGED lists_vars
  <2>1. UNCHANGED <<toc_area, track_text, lists_pc, track, item, text_idx>>
    BY <1>8 DEF Lists!Ended, Lists!vars, lists_vars
  <2>2. \A t \in Lists!Tracks : Ready(t)' = Ready(t)  BY <2>1 DEF Ready, Lists!Usable
  <2> QED  BY <2>1, <2>2, ReadyKept
<1> QED  BY <1>4, <1>5, <1>6, <1>7, <1>8 DEF Lists!Next

LEMMA PlaceKept ==
  ASSUME InAreaTocs, Lists!TypeOK, TextPlace, [Lists!Next]_lists_vars
  PROVE  TextPlace'
<1>1. PICK n \in Nat \ {0} : n = Lists!TrackCount /\ Lists!Tracks = 1..n  BY AreaFacts
<1>2. track \in 1..n + 1 /\ item \in Nat  BY <1>1 DEF Lists!TypeOK
<1>3. ASSUME lists_pc' # "text", lists_pc' \notin {"walk", "open"} PROVE TextPlace'
  BY <1>3 DEF TextPlace
<1>4. ASSUME lists_pc' = "text", UNCHANGED <<toc_area, text_idx, p>>, text_idx = 0,
             p < toc_area.size, track' \in 1..n, item' = 1
      PROVE  TextPlace'
  <2>1. Lists!Tracks' = 1..n  BY <1>1, <1>4 DEF Lists!Tracks, Lists!TrackCount
  <2>2. Len(toc_area.items[track']) \in Nat  BY <1>1, <1>4, TrackItems
  <2>3. PICK t \in 1..n : t = track'  BY <1>4
  <2>4. PICK m \in Nat : m = Len(toc_area.items[t])  BY <2>2, <2>3
  <2>5. 1 \in 1..m + 1 /\ 1..1 - 1 = {}  OBVIOUS
  <2>6. item' \in 1..Len(toc_area.items[track])'  + 1  BY <1>4, <2>3, <2>4, <2>5
  <2>7. \A i \in 1..item' - 1 : FALSE  BY <1>4, <2>5
  <2> QED  BY <1>4, <2>1, <2>3, <2>6, <2>7 DEF TextPlace
<1>5. ASSUME lists_pc' \in {"walk", "open"}, track' = 1, item' = 1 PROVE TextPlace'
  BY <1>5 DEF TextPlace
<1>6. CASE Lists!TextList
  <2>1. /\ lists_pc = "walk" /\ p < toc_area.size /\ UNCHANGED <<toc_area, track, item>>
        /\ lists_pc' = "walk" \/ (lists_pc' = "text" /\ text_idx = 0 /\ UNCHANGED <<p, text_idx>>)
    BY <1>6 DEF Lists!TextList, Lists!Walking
  <2>2. track' = 1 /\ item' = 1 /\ 1 \in 1..n  BY <1>1, <2>1 DEF TextPlace
  <2> QED  BY <1>4, <1>5, <2>1, <2>2
<1>7. CASE Lists!TooLong \/ Lists!TrackEnds
  <2>1. lists_pc = "text" /\ toc_area' = toc_area /\ Lists!NextTrack
    BY <1>7 DEF Lists!TooLong, Lists!TrackEnds, Lists!HasItem
  <2>2. text_idx = 0 /\ p < toc_area.size /\ track \in 1..n  BY <1>1, <2>1 DEF TextPlace
  <2>3. CASE track < n
    <3>1. /\ track' = track + 1 /\ item' = 1 /\ lists_pc' = "text" /\ UNCHANGED <<p, text_idx>>
      BY <1>1, <2>1, <2>3 DEF Lists!NextTrack
    <3>2. track' \in 1..n  BY <2>2, <2>3, <3>1
    <3> QED  BY <1>4, <2>1, <2>2, <3>1, <3>2
  <2>4. CASE ~(track < n)  BY <1>1, <1>5, <2>1, <2>4 DEF Lists!NextTrack
  <2> QED  BY <2>3, <2>4
<1>8. CASE Lists!SkipEmpty \/ Lists!Convert
  <2>1. /\ lists_pc = "text" /\ item' = item + 1
        /\ UNCHANGED <<toc_area, lists_pc, p, text_idx, track>>
        /\ item <= Len(toc_area.items[track])
        /\ toc_area.items[track][item].holds # "long"
    BY <1>8 DEF Lists!SkipEmpty, Lists!Convert, Lists!NextItem, Lists!HasItem, Lists!Item
  <2>2. /\ text_idx = 0 /\ p < toc_area.size /\ track \in Lists!Tracks
        /\ item \in 1..Len(toc_area.items[track]) + 1
        /\ \A i \in 1..item - 1 : toc_area.items[track][i].holds # "long"
    BY <2>1 DEF TextPlace
  <2>3. PICK m \in Nat : m = Len(toc_area.items[track])  BY <2>2, TrackItems
  <2>4. item \in 1..m + 1 /\ item <= m  BY <2>1, <2>2, <2>3
  <2>5. item' \in 1..m + 1 /\ item' - 1 = item  BY <2>1, <2>4
  <2>6. \A i \in 1..item : i \in 1..item - 1 \/ i = item  BY <2>4
  <2>7. \A i \in 1..item' - 1 : toc_area.items[track][i].holds # "long"  BY <2>1, <2>2, <2>5, <2>6
  <2>8. Lists!Tracks' = Lists!Tracks  BY <2>1 DEF Lists!Tracks, Lists!TrackCount
  <2> QED  BY <2>1, <2>2, <2>3, <2>5, <2>7, <2>8 DEF TextPlace
<1>9. CASE Lists!OtherList \/ Lists!WalkEnds
  <2>1. lists_pc = "walk" /\ lists_pc' \in {"walk", "open"} /\ UNCHANGED <<track, item>>
    BY <1>9 DEF Lists!OtherList, Lists!Walking, Lists!WalkEnds
  <2>2. track' = 1 /\ item' = 1  BY <2>1 DEF TextPlace
  <2> QED  BY <1>5, <2>1, <2>2
<1>10. CASE Lists!StartCue \/ Lists!CueTrack \/ Lists!Close
  BY <1>3, <1>10 DEF Lists!StartCue, Lists!CueTrack, Lists!Close
<1>11. CASE Lists!Ended \/ UNCHANGED lists_vars
  BY <1>11 DEF Lists!Ended, Lists!vars, lists_vars, TextPlace, Lists!Tracks, Lists!TrackCount
<1> QED  BY <1>6, <1>7, <1>8, <1>9, <1>10, <1>11 DEF Lists!Next

\* What is allocated.
LEMMA AllocStep ==
  ASSUME InAreaTocs, Lists!TypeOK, TextPlace, Lists!AllocInv, [Lists!Next]_lists_vars
  PROVE  Lists!AllocInv'
<1>1. Lists!Tracks = DOMAIN toc_area.items  BY AreaFacts
<1>2. /\ track_text \in [Lists!Tracks -> [Lists!Types -> Nat]]
      /\ converted \subseteq Lists!Tracks \X Nat
  BY DEF Lists!TypeOK
<1>3. ASSUME lists_pc # "closed", lists_pc' # "closed", UNCHANGED <<toc_area, track_text, converted>>
      PROVE  Lists!AllocInv'
  BY <1>3 DEF Lists!AllocInv, Lists!OneOfEach, Lists!Tracks, Lists!TrackCount, Lists!Types
<1>4. CASE Lists!Convert
  <2>1. /\ lists_pc = "text" /\ item <= Len(toc_area.items[track])
        /\ UNCHANGED <<toc_area, lists_pc>> /\ converted' = converted \cup {<<track, item>>}
        /\ track_text' = IF Lists!Item.type \in Lists!Types
                         THEN [track_text EXCEPT ![track][Lists!Item.type] = item] ELSE track_text
    BY <1>4 DEF Lists!Convert, Lists!NextItem, Lists!HasItem
  <2>2. track \in Lists!Tracks /\ item \in 1..Len(toc_area.items[track]) + 1  BY <2>1 DEF TextPlace
  <2>3. PICK m \in Nat : m = Len(toc_area.items[track]) /\ DOMAIN toc_area.items[track] = 1..m
    BY <2>2, TrackItems
  <2>4. item \in DOMAIN toc_area.items[track]
    <3>1. item \in 1..m + 1 /\ item <= m  BY <2>1, <2>2, <2>3
    <3> QED  BY <2>3, <3>1
  <2>5. \A c \in converted' : c[2] \in DOMAIN toc_area.items[c[1]]
    <3>1. \A c \in converted : c[2] \in DOMAIN toc_area.items[c[1]]  BY DEF Lists!AllocInv
    <3> QED  BY <2>1, <2>4, <3>1
  <2>6. ASSUME Lists!OneOfEach, NEW c \in converted'
        PROVE  track_text'[c[1]][toc_area.items[c[1]][c[2]].type] = c[2]
    <3>1. PICK type : type = toc_area.items[track][item].type  OBVIOUS
    <3>2. type \in Lists!Types  BY <2>2, <2>4, <2>6, <3>1 DEF Lists!OneOfEach
    <3>3. track_text' = [track_text EXCEPT ![track][type] = item]  BY <2>1, <3>1, <3>2 DEF Lists!Item
    <3>4. CASE c = <<track, item>>
      <4>1. track_text'[track][type] = item  BY <1>2, <2>2, <3>2, <3>3
      <4> QED  BY <3>1, <3>4, <4>1
    <3>5. CASE c \in converted /\ c # <<track, item>>
      <4>1. c[1] \in Lists!Tracks /\ c = <<c[1], c[2]>>  BY <1>2, <3>5
      <4>2. c[2] \in DOMAIN toc_area.items[c[1]]  BY <3>5 DEF Lists!AllocInv
      <4>3. track_text[c[1]][toc_area.items[c[1]][c[2]].type] = c[2]
        BY <2>1, <2>6, <3>5 DEF Lists!AllocInv
      <4>4. PICK mine : mine = toc_area.items[c[1]][c[2]].type  OBVIOUS
      <4>5. mine \in Lists!Types  BY <2>6, <4>1, <4>2, <4>4 DEF Lists!OneOfEach
      <4>6. c[1] # track \/ mine # type
        <5>1. c[1] = track => c[2] # item  BY <3>5, <4>1
        <5> QED  BY <2>2, <2>4, <2>6, <3>1, <4>2, <4>4, <5>1 DEF Lists!OneOfEach
      <4>7. track_text'[c[1]][mine] = track_text[c[1]][mine]
        BY <1>2, <3>3, <4>1, <4>5, <4>6
      <4> QED  BY <4>3, <4>4, <4>7
    <3> QED  BY <2>1, <3>4, <3>5
  <2>7. Lists!OneOfEach' <=> Lists!OneOfEach
    BY <2>1 DEF Lists!OneOfEach, Lists!Tracks, Lists!TrackCount, Lists!Types
  <2> QED  BY <2>1, <2>5, <2>6, <2>7 DEF Lists!AllocInv
<1>5. CASE Lists!Close
  <2>1. /\ lists_pc \in {"open", "cue"} /\ lists_pc' = "closed" /\ UNCHANGED <<toc_area, track_text>>
        /\ converted' = converted \ {<<t, track_text[t][type]>> : t \in Lists!Tracks, type \in Lists!Types}
    BY <1>5 DEF Lists!Close
  <2>2. \A c \in converted' : c[2] \in DOMAIN toc_area.items[c[1]]  BY <2>1 DEF Lists!AllocInv
  <2>3. ASSUME Lists!OneOfEach PROVE converted' = {}
    <3> SUFFICES ASSUME NEW c \in converted
                 PROVE  \E t \in Lists!Tracks, type \in Lists!Types : c = <<t, track_text[t][type]>>
      BY <2>1
    <3>1. c[1] \in Lists!Tracks /\ c = <<c[1], c[2]>>  BY <1>2
    <3>2. c[2] \in DOMAIN toc_area.items[c[1]]  BY DEF Lists!AllocInv
    <3>3. track_text[c[1]][toc_area.items[c[1]][c[2]].type] = c[2]
      BY <2>1, <2>3 DEF Lists!AllocInv
    <3>4. toc_area.items[c[1]][c[2]].type \in Lists!Types  BY <2>3, <3>1, <3>2 DEF Lists!OneOfEach
    <3> QED  BY <3>1, <3>3, <3>4
  <2>4. Lists!OneOfEach' <=> Lists!OneOfEach
    BY <2>1 DEF Lists!OneOfEach, Lists!Tracks, Lists!TrackCount, Lists!Types
  <2> QED  BY <2>1, <2>2, <2>3, <2>4 DEF Lists!AllocInv
<1>6. CASE Lists!Ended \/ UNCHANGED lists_vars
  BY <1>6 DEF Lists!Ended, Lists!vars, lists_vars, Lists!AllocInv, Lists!OneOfEach, Lists!Tracks,
              Lists!TrackCount, Lists!Types
<1>7. CASE Lists!TextList \/ Lists!TooLong \/ Lists!SkipEmpty \/ Lists!TrackEnds \/ Lists!OtherList
           \/ Lists!WalkEnds \/ Lists!StartCue \/ Lists!CueTrack
  <2>1. lists_pc # "closed" /\ lists_pc' # "closed"
    BY <1>7 DEF Lists!TextList, Lists!TooLong, Lists!SkipEmpty, Lists!TrackEnds, Lists!HasItem,
       Lists!OtherList, Lists!Walking, Lists!WalkEnds, Lists!StartCue, Lists!CueTrack,
       Lists!NextTrack, Lists!NextItem
  <2>2. UNCHANGED <<toc_area, track_text, converted>>
    BY <1>7 DEF Lists!TextList, Lists!TooLong, Lists!SkipEmpty, Lists!TrackEnds,
       Lists!OtherList, Lists!WalkEnds, Lists!StartCue, Lists!CueTrack
  <2> QED  BY <1>3, <2>1, <2>2
<1> QED  BY <1>4, <1>5, <1>6, <1>7 DEF Lists!Next

\* The sheet so far.
PauseFits(e) ==
  e.index = 0 =>
    /\ Lists!FrameCount(e.at) < Lists!FrameCount(toc_area.start[e.track])
    /\ e.track > 1 =>
         Lists!FrameCount(e.at) = Lists!FrameCount(toc_area.start[e.track - 1])
                                    + Lists!FrameCount(toc_area.duration[e.track - 1])
SheetFits(c) ==
  /\ \A i \in 1..Len(c) - 1 : Lists!FrameCount(c[i].at) <= Lists!FrameCount(c[i + 1].at)
  /\ \A i \in DOMAIN c : PauseFits(c[i])

LEMMA SheetIs == Lists!CueAscends <=> (Lists!NoOverlap => SheetFits(cue))
BY DEF Lists!CueAscends, SheetFits, PauseFits

LEMMA SheetMore ==
  ASSUME NEW S, NEW c \in Seq(S), NEW e \in S, SheetFits(c), PauseFits(e),
         c # <<>> => Lists!FrameCount(c[Len(c)].at) <= Lists!FrameCount(e.at)
  PROVE  SheetFits(Append(c, e))
<1>1. PICK n \in Nat : n = Len(c) /\ DOMAIN c = 1..n  OBVIOUS
<1>2. PICK new : new = Append(c, e)  OBVIOUS
<1>3. /\ Len(new) = n + 1 /\ DOMAIN new = 1..n + 1
      /\ \A i \in 1..n : new[i] = c[i]
      /\ new[n + 1] = e
  BY <1>1, <1>2
<1>4. ASSUME NEW i \in 1..n PROVE Lists!FrameCount(new[i].at) <= Lists!FrameCount(new[i + 1].at)
  <2>1. CASE i = n
    <3>1. c # <<>>  BY <1>1, <2>1
    <3> QED  BY <1>1, <1>3, <2>1, <3>1
  <2>2. CASE i \in 1..n - 1
    <3>1. i + 1 \in 1..n  BY <1>1, <2>2
    <3>2. Lists!FrameCount(c[i].at) <= Lists!FrameCount(c[i + 1].at)  BY <1>1, <2>2 DEF SheetFits
    <3> QED  BY <1>3, <3>1, <3>2
  <2>3. i = n \/ i \in 1..n - 1  BY <1>1
  <2> QED  BY <2>1, <2>2, <2>3
<1>5. ASSUME NEW i \in 1..n + 1 PROVE PauseFits(new[i])
  <2>1. CASE i = n + 1  BY <1>3, <2>1
  <2>2. CASE i \in 1..n  BY <1>1, <1>3, <2>2 DEF SheetFits
  <2>3. i = n + 1 \/ i \in 1..n  BY <1>1
  <2> QED  BY <2>1, <2>2, <2>3
<1>6. Len(new) - 1 = n  BY <1>1, <1>3
<1>7. SheetFits(new)  BY <1>3, <1>4, <1>5, <1>6 DEF SheetFits
<1> QED  BY <1>2, <1>7

LEMMA CueTrackStep ==
  ASSUME InAreaTocs, Lists!TypeOK, Lists!CueInv, Lists!CueTrack
  PROVE  Lists!CueInv'
<1>1. PICK n \in Nat \ {0} : n = Lists!TrackCount /\ Lists!Tracks = 1..n  BY AreaFacts
<1>2. PICK S : S = [track : 1..n, index : {0, 1}, at : Lists!Times]  OBVIOUS
<1>3. cue \in Seq(S) /\ track \in 1..n + 1  BY <1>1, <1>2 DEF Lists!TypeOK
<1>4. /\ lists_pc = "cue" /\ track \in 1..n /\ track' = track + 1 /\ UNCHANGED <<toc_area, lists_pc>>
  BY <1>1, <1>3 DEF Lists!CueTrack
<1>5. FrameRate \in Nat \ {0}  BY AreaFacts
<1>6. \A t \in 1..n : /\ Lists!FrameCount(toc_area.start[t]) \in Nat
                      /\ Lists!FrameCount(toc_area.duration[t]) \in Nat
  <2>1. \A t \in 1..n : toc_area.start[t] \in Lists!Times /\ toc_area.duration[t] \in Lists!Times
    BY <1>1, AreaFacts
  <2> QED  BY <1>5, <2>1, Frames
<1>7. PICK e \in S :
        /\ e = [track |-> track, index |-> 1, at |-> toc_area.start[track]]
        /\ \/ cue' = Append(cue, e) /\ Lists!FrameCount(e.at) <= Lists!PrevEnd
           \/ \E d \in S : /\ cue' = Append(Append(cue, d), e)
                           /\ d.track = track /\ d.index = 0
                           /\ Lists!FrameCount(d.at) = Lists!PrevEnd
                           /\ Lists!PrevEnd < Lists!FrameCount(e.at)
  BY <1>1, <1>2, <1>3, <1>4, CueAdds
<1>8. e.index = 1 /\ e.at = toc_area.start[track] /\ PauseFits(e)  BY <1>7 DEF PauseFits
<1>9. /\ Lists!PrevEnd \in Nat
      /\ track > 1 => Lists!PrevEnd = Lists!FrameCount(toc_area.start[track - 1])
                                       + Lists!FrameCount(toc_area.duration[track - 1])
  BY <1>1, <1>4, EndBefore
<1>10. cue' # <<>> /\ cue'[Len(cue')].at = toc_area.start[track]
  <2>1. \A c \in Seq(S) : /\ Append(c, e) # <<>> /\ Append(c, e)[Len(Append(c, e))] = e
    BY <1>7
  <2>2. \A c \in Seq(S) : \A d \in S : Append(c, d) \in Seq(S)  OBVIOUS
  <2>3. CASE cue' = Append(cue, e)  BY <1>3, <1>8, <2>1, <2>3
  <2>4. CASE \E d \in S : cue' = Append(Append(cue, d), e)
    <3>1. PICK d \in S : cue' = Append(Append(cue, d), e)  BY <2>4
    <3>2. PICK c \in Seq(S) : c = Append(cue, d)  BY <1>3, <2>2, <3>1
    <3>3. cue' = Append(c, e)  BY <3>1, <3>2
    <3> QED  BY <1>8, <2>1, <3>2, <3>3
  <2> QED  BY <1>7, <2>3, <2>4
<1>11. ASSUME Lists!NoOverlap PROVE SheetFits(cue')
  <2>1. SheetFits(cue)  BY <1>11, SheetIs DEF Lists!CueInv
  <2>2. ASSUME cue # <<>>
        PROVE  /\ track > 1 /\ Lists!FrameCount(cue[Len(cue)].at) <= Lists!PrevEnd
               /\ Lists!PrevEnd <= Lists!FrameCount(toc_area.start[track])
    <3>1. track # 1 /\ cue[Len(cue)].at = toc_area.start[track - 1]
      BY <1>4, <2>2 DEF Lists!CueInv
    <3>2. track - 1 \in 1..n /\ track > 1  BY <1>4, <3>1
    <3>3. PICK x \in Nat, y \in Nat : x = Lists!FrameCount(toc_area.start[track - 1])
                              /\ y = Lists!FrameCount(toc_area.duration[track - 1])
      BY <1>6, <3>2
    <3>4. Lists!PrevEnd = x + y  BY <1>9, <3>2, <3>3
    <3>5. Lists!FrameCount(toc_area.start[track]) >= x + y
      <4>1. track \in Lists!Tracks \ {1}  BY <1>1, <1>4, <3>1
      <4> QED  BY <1>11, <3>3, <4>1 DEF Lists!NoOverlap
    <3>6. PICK z \in Nat : z = Lists!FrameCount(toc_area.start[track])  BY <1>4, <1>6
    <3>7. x <= x + y /\ x + y <= z  BY <3>5, <3>6
    <3> QED  BY <3>1, <3>2, <3>3, <3>4, <3>6, <3>7
  <2>3. CASE cue' = Append(cue, e)
    <3>1. cue # <<>> => Lists!FrameCount(cue[Len(cue)].at) <= Lists!FrameCount(e.at)
      <4> SUFFICES ASSUME cue # <<>> PROVE Lists!FrameCount(cue[Len(cue)].at) <= Lists!FrameCount(e.at)
        OBVIOUS
      <4>1. PICK z \in Nat : z = Lists!FrameCount(e.at)  BY <1>4, <1>6, <1>8
      <4>2. Lists!FrameCount(cue[Len(cue)].at) \in Nat
        <5>1. cue[Len(cue)].at = toc_area.start[track - 1]  BY <1>4, <2>2 DEF Lists!CueInv
        <5>2. track - 1 \in 1..n  BY <1>4, <2>2
        <5> QED  BY <1>6, <5>1, <5>2
      <4>3. PICK l \in Nat : l = Lists!FrameCount(cue[Len(cue)].at)  BY <4>2
      <4>4. PICK m \in Nat : m = Lists!PrevEnd  BY <1>9
      <4>5. l <= m /\ m <= z  BY <1>8, <2>2, <4>1, <4>3, <4>4
      <4> QED  BY <4>1, <4>3, <4>5
    <3>2. SheetFits(Append(cue, e))  BY <1>3, <1>8, <2>1, <3>1, SheetMore
    <3> QED  BY <2>3, <3>2
  <2>4. ASSUME NEW d \in S, cue' = Append(Append(cue, d), e), d.track = track, d.index = 0,
               Lists!FrameCount(d.at) = Lists!PrevEnd, Lists!PrevEnd < Lists!FrameCount(e.at)
        PROVE  SheetFits(cue')
    <3>1. PauseFits(d)  BY <1>8, <1>9, <2>4 DEF PauseFits
    <3>2. cue # <<>> => Lists!FrameCount(cue[Len(cue)].at) <= Lists!FrameCount(d.at)
      BY <2>2, <2>4
    <3>3. Append(cue, d) \in Seq(S)  BY <1>3
    <3>4. PICK c \in Seq(S) : c = Append(cue, d)  BY <3>3
    <3>5. SheetFits(c)
      <4>1. SheetFits(Append(cue, d))  BY <1>3, <2>1, <3>1, <3>2, SheetMore
      <4> QED  BY <3>4, <4>1
    <3>6. c[Len(c)] = d  BY <1>3, <3>4
    <3>7. Lists!FrameCount(c[Len(c)].at) <= Lists!FrameCount(e.at)
      <4>1. PICK z \in Nat : z = Lists!FrameCount(e.at)  BY <1>4, <1>6, <1>8
      <4> QED  BY <1>9, <2>4, <3>6, <4>1
    <3>8. SheetFits(Append(c, e))  BY <1>8, <3>5, <3>7, SheetMore
    <3> QED  BY <2>4, <3>4, <3>8
  <2> QED  BY <1>7, <2>3, <2>4
<1>12. Lists!CueAscends'
  <2>1. Lists!NoOverlap' <=> Lists!NoOverlap
    BY <1>4 DEF Lists!NoOverlap, Lists!Tracks, Lists!TrackCount, Lists!FrameCount
  <2>2. PICK c : c = cue'  OBVIOUS
  <2>3. SheetFits(c)' <=> SheetFits(c)  BY <1>4 DEF SheetFits, PauseFits, Lists!FrameCount
  <2>4. SheetFits(cue)' <=> SheetFits(c)'  BY <2>2 DEF SheetFits, PauseFits, Lists!FrameCount
  <2>5. Lists!CueAscends' <=> (Lists!NoOverlap' => SheetFits(cue)')  BY SheetIs, PTL
  <2> QED  BY <1>11, <2>1, <2>2, <2>3, <2>4, <2>5
<1>13. track' # 1 /\ track' - 1 = track  BY <1>4
<1> QED  BY <1>4, <1>10, <1>12, <1>13 DEF Lists!CueInv

LEMMA CueStep ==
  ASSUME InAreaTocs, Lists!TypeOK, TextPlace, Lists!CueInv, [Lists!Next]_lists_vars
  PROVE  Lists!CueInv'
<1>1. ASSUME UNCHANGED <<toc_area, cue>> PROVE Lists!CueAscends'
  BY <1>1 DEF Lists!CueInv, Lists!CueAscends, Lists!NoOverlap, Lists!Tracks, Lists!TrackCount,
              Lists!FrameCount
<1>2. CASE Lists!CueTrack  BY <1>2, CueTrackStep
<1>3. CASE Lists!StartCue
  <2>1. /\ lists_pc = "open" /\ lists_pc' \in {"cue", "crashed"} /\ UNCHANGED <<toc_area, track, cue>>
    BY <1>3 DEF Lists!StartCue
  <2>2. track = 1 /\ cue = <<>>  BY <2>1 DEF TextPlace, Lists!CueInv
  <2> QED  BY <1>1, <2>1, <2>2 DEF Lists!CueInv
<1>4. CASE Lists!Close
  BY <1>1, <1>4 DEF Lists!Close, Lists!CueInv
<1>5. CASE Lists!TextList \/ Lists!TooLong \/ Lists!SkipEmpty \/ Lists!Convert \/ Lists!TrackEnds
           \/ Lists!OtherList \/ Lists!WalkEnds
  <2>1. lists_pc \in {"walk", "text"} /\ lists_pc' \in {"walk", "text", "open"}
    BY <1>5 DEF Lists!TextList, Lists!TooLong, Lists!SkipEmpty, Lists!Convert, Lists!TrackEnds,
         Lists!HasItem, Lists!OtherList, Lists!Walking, Lists!WalkEnds, Lists!NextTrack, Lists!NextItem
  <2>2. UNCHANGED <<toc_area, cue>>
    BY <1>5 DEF Lists!TextList, Lists!TooLong, Lists!SkipEmpty, Lists!Convert, Lists!TrackEnds,
         Lists!OtherList, Lists!WalkEnds
  <2> QED  BY <1>1, <2>1, <2>2 DEF Lists!CueInv
<1>6. CASE Lists!Ended \/ UNCHANGED lists_vars
  <2>1. UNCHANGED <<toc_area, lists_pc, track, cue>>
    BY <1>6 DEF Lists!Ended, Lists!vars, lists_vars
  <2> QED  BY <1>1, <2>1 DEF Lists!CueInv
<1> QED  BY <1>2, <1>3, <1>4, <1>5, <1>6 DEF Lists!Next

LEMMA ListsBegin ==
  ASSUME Lists!Init
  PROVE  InAreaTocs /\ Lists!TypeOK /\ Lists!ListsInv
<1>1. InAreaTocs  BY DEF Lists!Init, InAreaTocs
<1>2. PICK n \in Nat \ {0} : n = Lists!TrackCount /\ Lists!Tracks = 1..n  BY <1>1, AreaFacts
<1>3. /\ lists_pc = "walk" /\ p = 1 /\ text_idx = 0 /\ track = 1 /\ item = 1
      /\ track_text = [t \in Lists!Tracks |-> [type \in Lists!Types |-> 0]]
      /\ pointers = {} /\ converted = {} /\ cue = <<>>
  BY DEF Lists!Init, Lists!None
<1>4. toc_area.size \in Nat  BY <1>1, AreaFacts
<1>5. Lists!TypeOK
  <2>1. 1 \in 1..toc_area.size + 31 /\ 0 \in 0..1 - 1 /\ 1 \in 1..n + 1  BY <1>4
  <2> QED  BY <1>2, <1>3, <2>1 DEF Lists!TypeOK
<1>6. Lists!WalkInv
  <2>1. PICK m \in Nat : m = Len(toc_area.lists)
    <3>1. toc_area.lists \in Seq(DOMAIN Lists!Sectors)  BY <1>1, AreaFacts
    <3> QED  BY <3>1
  <2>2. Lists!Begin(1) = 1  BY <1>1, <2>1, Places
  <2>3. PointedUpTo(1 - 1) = {}  BY DEF PointedUpTo
  <2>4. 1 \in 1..m + 1 /\ \A j \in 1..1 - 1 : FALSE  BY <2>1
  <2>5. At(1)  BY <1>3, <2>1, <2>2, <2>3, <2>4 DEF At
  <2> QED  BY <2>5, WalkAt DEF SomePlace
<1>7. Lists!TextInv
  <2>1. TextPlace  BY <1>3 DEF TextPlace
  <2>2. ASSUME NEW t \in Lists!Tracks, NEW type \in Lists!Types PROVE Lists!Latest(t, type, Ready(t))
    <3>1. Ready(t) = {}  BY <1>3 DEF Ready
    <3>2. track_text[t][type] = 0  BY <1>3
    <3> QED  BY <3>1, <3>2 DEF Lists!Latest, Lists!None
  <2> QED  BY <2>1, <2>2, TextParts DEF AllReady
<1>8. Lists!AllocInv  BY <1>3 DEF Lists!AllocInv
<1>9. Lists!CueInv
  <2>1. Lists!CueAscends  BY <1>3 DEF Lists!CueAscends
  <2> QED  BY <1>3, <2>1 DEF Lists!CueInv
<1> QED  BY <1>1, <1>5, <1>6, <1>7, <1>8, <1>9 DEF Lists!ListsInv

LEMMA ListsPart ==
  MCSpec => [](InAreaTocs /\ Lists!TypeOK /\ Lists!ListsInv)
<1>1. MCInit => InAreaTocs /\ Lists!TypeOK /\ Lists!ListsInv  BY ListsBegin DEF MCInit
<1>2. [MCNext]_<<part, vars, toc_vars, net_vars, lists_vars>> => [Lists!Next]_lists_vars
  BY DEF MCNext
<1>3. InAreaTocs /\ Lists!TypeOK /\ Lists!ListsInv /\ [Lists!Next]_lists_vars
        => (InAreaTocs /\ Lists!TypeOK /\ Lists!ListsInv)'
  <2> SUFFICES ASSUME InAreaTocs, Lists!TypeOK, Lists!ListsInv, [Lists!Next]_lists_vars
               PROVE  InAreaTocs' /\ Lists!TypeOK' /\ Lists!ListsInv'
    OBVIOUS
  <2>1. Lists!WalkInv /\ Lists!TextInv /\ Lists!AllocInv /\ Lists!CueInv  BY DEF Lists!ListsInv
  <2>2. TextPlace /\ AllReady  BY <2>1, TextParts
  <2>3. InAreaTocs' /\ Lists!TypeOK'  BY <2>1, AreaTypes
  <2>4. Lists!WalkInv'  BY <2>1, WalkStep
  <2>5. TextPlace'  BY <2>2, PlaceKept
  <2>6. AllReady'  BY <2>2, ReadyStep
  <2>7. Lists!TextInv'
    <3>1. Lists!TextInv' <=> TextPlace' /\ AllReady'  BY TextParts, PTL
    <3> QED  BY <2>5, <2>6, <3>1
  <2>8. Lists!AllocInv'  BY <2>1, <2>2, AllocStep
  <2>9. Lists!CueInv'  BY <2>1, <2>2, CueStep
  <2> QED  BY <2>3, <2>4, <2>7, <2>8, <2>9 DEF Lists!ListsInv
<1> QED  BY <1>1, <1>2, <1>3, PTL DEF MCSpec

LEMMA CueTimes == Lists!ListsInv => Lists!CueAscends
BY DEF Lists!ListsInv, Lists!CueInv

LEMMA Freed == Lists!ListsInv => Lists!TextsAreFreed
BY DEF Lists!ListsInv, Lists!AllocInv, Lists!TextsAreFreed

\* What an open area has is what its lists say.
LEMMA Found == InAreaTocs /\ Lists!TypeOK /\ Lists!ListsInv => Lists!ListsAreFound
<1> SUFFICES ASSUME InAreaTocs, Lists!TypeOK, Lists!ListsInv, lists_pc \in {"open", "cue"},
                    Lists!Begin(Len(toc_area.lists) + 1) <= toc_area.size
             PROVE  LET known == {k \in DOMAIN toc_area.lists : \A j \in 1..k : toc_area.lists[j] # "other"}
    IN  /\ p <= toc_area.size
        /\ pointers = UNION {IF toc_area.lists[k] = "SACDTTxt" THEN {"area_text"}
                             ELSE Lists!Pointed[toc_area.lists[k]] : k \in known}
        /\ (\E k \in known : toc_area.lists[k] = "SACDTTxt") =>
             \A t \in Lists!Tracks, type \in Lists!Types :
               LET mine == {i \in Lists!Usable(t) : /\ toc_area.items[t][i].type = type
                                                    /\ toc_area.items[t][i].holds # "empty"}
               IN  IF mine = {} THEN track_text[t][type] = 0
                   ELSE track_text[t][type] \in mine /\ \A i \in mine : i <= track_text[t][type]
  BY DEF Lists!ListsAreFound, Lists!None
<1> DEFINE known == {k \in DOMAIN toc_area.lists : \A j \in 1..k : toc_area.lists[j] # "other"}
<1>1. PICK k : At(k)  BY WalkAt DEF Lists!ListsInv, SomePlace
<1>2. PICK n \in Nat : n = Len(toc_area.lists) /\ DOMAIN toc_area.lists = 1..n
  BY <1>1, AreaFacts
<1>3. k \in 1..n + 1 /\ p = Lists!Begin(k)  BY <1>1, <1>2 DEF At
<1>4. p \in Nat /\ Lists!Begin(n + 1) \in Nat /\ (k < n + 1 => p < Lists!Begin(n + 1))
  <2>1. n + 1 \in 1..n + 1  OBVIOUS
  <2> QED  BY <1>2, <1>3, <2>1, Places
<1>5. toc_area.size \in Nat  BY AreaFacts
<1>6. p <= toc_area.size /\ (k < n + 1 => p < toc_area.size)
  <2>1. k = n + 1 \/ k < n + 1  BY <1>3
  <2>2. Lists!Begin(n + 1) <= toc_area.size  BY <1>2
  <2> QED  BY <1>3, <1>4, <1>5, <2>1, <2>2
<1>7. k = n + 1 \/ toc_area.lists[k] = "other"  BY <1>1, <1>2, <1>3, <1>6 DEF At
<1>8. known = 1..k - 1
  <2>1. ASSUME NEW m \in known PROVE m \in 1..k - 1
    <3>1. m \in 1..n /\ \A j \in 1..m : toc_area.lists[j] # "other"  BY <1>2
    <3>2. k \in 1..m => toc_area.lists[k] # "other"  BY <3>1
    <3> QED  BY <1>3, <1>7, <3>1, <3>2
  <2>2. ASSUME NEW m \in 1..k - 1 PROVE m \in known
    <3>1. m \in 1..n /\ \A j \in 1..m : j \in 1..k - 1  BY <1>3
    <3>2. \A j \in 1..k - 1 : toc_area.lists[j] # "other"  BY <1>1 DEF At
    <3> QED  BY <1>2, <3>1, <3>2
  <2> QED  BY <2>1, <2>2
<1> HIDE DEF known
<1>9. pointers = UNION {IF toc_area.lists[j] = "SACDTTxt" THEN {"area_text"}
                        ELSE Lists!Pointed[toc_area.lists[j]] : j \in known}
  <2>1. pointers = PointedUpTo(k - 1)  BY <1>1 DEF At
  <2> QED  BY <1>8, <2>1 DEF PointedUpTo, PointedBy
<1>10. ASSUME NEW m \in known, toc_area.lists[m] = "SACDTTxt", NEW t \in Lists!Tracks,
              NEW type \in Lists!Types, NEW mine,
              mine = {i \in Lists!Usable(t) : /\ toc_area.items[t][i].type = type
                                              /\ toc_area.items[t][i].holds # "empty"}
       PROVE  IF mine = {} THEN track_text[t][type] = 0
              ELSE track_text[t][type] \in mine /\ \A i \in mine : i <= track_text[t][type]
  <2>1. text_idx # 0  BY <1>1, <1>8, <1>10 DEF At
  <2>2. text_idx > 0
    <3>1. text_idx \in 0..p - 1  BY DEF Lists!TypeOK
    <3> QED  BY <1>4, <2>1, <3>1
  <2>3. Ready(t) = Lists!Usable(t)  BY <2>2 DEF Ready
  <2>4. Lists!Latest(t, type, Lists!Usable(t))
    <3>1. AllReady  BY TextParts DEF Lists!ListsInv
    <3> QED  BY <2>3, <3>1 DEF AllReady
  <2>5. mine = Mine(t, type, Lists!Usable(t))
    <3>1. ASSUME NEW i \in Lists!Usable(t)
          PROVE  toc_area.items[t][i].holds # "empty"
                   <=> toc_area.items[t][i].holds \in {"text", "controls"}
      <4>1. i \in 1..Len(toc_area.items[t]) /\ toc_area.items[t][i] \in Texts  BY TrackItems
      <4>2. toc_area.items[t][i].holds \in Lists!Holds  BY <4>1 DEF Texts
      <4>3. toc_area.items[t][i].holds # "long"
        <5>1. \A j \in 1..i : toc_area.items[t][j].holds # "long"  BY DEF Lists!Usable
        <5>2. PICK h \in Nat : h = Len(toc_area.items[t])  BY TrackItems
        <5>3. i \in 1..i  BY <4>1, <5>2
        <5> QED  BY <5>1, <5>3
      <4> QED  BY <4>2, <4>3 DEF Lists!Holds
    <3> QED  BY <1>10, <3>1 DEF Mine
  <2>6. IF Mine(t, type, Lists!Usable(t)) = {} THEN track_text[t][type] = 0
        ELSE /\ track_text[t][type] \in Mine(t, type, Lists!Usable(t))
             /\ \A i \in Mine(t, type, Lists!Usable(t)) : i <= track_text[t][type]
    BY <2>4, LatestIs
  <2> QED  BY <2>5, <2>6
<1> QED  BY <1>6, <1>9, <1>10 DEF known

-----------------------------------------------------------------------------
(* Opening a disc *)

Counted == \A s \in 0..area_count - 1 : \E a \in Toc!Done :
             /\ owner[s] = <<"toc", a>> /\ area[s] = toc1[a] /\ Toc!Accepted(area[s])
             /\ toc_pc # "closed" => owner[s] \in live
TocSteps ==
  /\ toc_pc \in {"master", "area", "read", "backup", "parse"} => area_count < cur
  /\ toc_pc = "master" => cur = 1
  /\ toc_pc \in {"finish", "open", "closed"} => cur = 2
  /\ toc_pc = "open" => area_count > 0

LEMMA SlotsIs == Toc!SlotsInv <=> TocSteps /\ Counted
BY DEF Toc!SlotsInv, TocSteps, Counted

LEMMA TocFacts ==
  ASSUME Toc!TypeOK
  PROVE  /\ cur \in {1, 2} /\ area_count \in 0..2 /\ Toc!Done \subseteq {1, 2}
         /\ \A x \in {1, 2} : index[x] \in {-1, 0, 1}
         /\ Toc!Done = IF toc_pc \in {"finish", "open", "closed", "failed"} /\ cur = 2 THEN {1, 2}
                       ELSE {cur - 1} \cap {1}
<1>1. cur \in {1, 2} /\ area_count \in 0..2  BY DEF Toc!TypeOK, Toc!Areas
<1>2. \A x \in {1, 2} : index[x] \in {-1, 0, 1}
  <2>1. index \in [{1, 2} -> -1..1]  BY DEF Toc!TypeOK, Toc!Areas, Toc!NoIndex
  <2> QED  BY <2>1
<1>3. Toc!Done = IF toc_pc \in {"finish", "open", "closed", "failed"} /\ cur = 2 THEN {1, 2}
                 ELSE {cur - 1} \cap {1}
  <2>1. CASE cur = 1
    <3>1. \A a \in {1, 2} : ~(a < cur)  BY <2>1
    <3>2. Toc!Done = {}  BY <2>1, <3>1 DEF Toc!Done, Toc!Areas
    <3>3. {cur - 1} \cap {1} = {}  BY <2>1
    <3> QED  BY <2>1, <3>2, <3>3
  <2>2. CASE cur = 2
    <3>1. \A a \in {1, 2} : a < cur <=> a = 1  BY <2>2
    <3>2. {cur - 1} \cap {1} = {1}  BY <2>2
    <3> QED  BY <2>2, <3>1, <3>2 DEF Toc!Done, Toc!Areas
  <2> QED  BY <1>1, <2>1, <2>2
<1> QED  BY <1>1, <1>2, <1>3

\* The slots that are counted and the indexes stay, and an area that is done
\* now and was read had its index.
LEMMA TocKept ==
  ASSUME Toc!TypeOK, Counted, Toc!IndexInv, UNCHANGED <<toc1, area_count, index>>,
         toc_pc # "closed", live \subseteq live', Toc!Done \subseteq Toc!Done',
         \A s \in 0..area_count - 1 : owner'[s] = owner[s] /\ area'[s] = area[s],
         \A a \in Toc!Done' :
           Toc!Accepted(toc1[a]) /\ (~short' \/ <<"toc", a>> \in live') =>
             a \in Toc!Done /\ (~short \/ <<"toc", a>> \in live)
  PROVE  Counted' /\ Toc!IndexInv'
<1>1. Counted'  BY DEF Counted, Toc!Accepted
<1>2. ASSUME NEW x \in Toc!Areas, index[x] # Toc!NoIndex
      PROVE  /\ index[x] < area_count
             /\ \E a \in Toc!Areas : /\ owner'[index[x]] = <<"toc", a>>
                                     /\ Toc!AreaOf(area'[index[x]], a) = x
  <2>1. PICK a \in Toc!Areas : /\ index[x] < area_count /\ owner[index[x]] = <<"toc", a>>
                               /\ Toc!AreaOf(area[index[x]], a) = x
    BY <1>2 DEF Toc!IndexInv
  <2>2. index[x] \in 0..area_count - 1
    <3>1. index[x] \in {-1, 0, 1} /\ area_count \in 0..2  BY TocFacts DEF Toc!Areas
    <3> QED  BY <1>2, <2>1, <3>1 DEF Toc!NoIndex
  <2> QED  BY <2>1, <2>2
<1>3. Toc!IndexInv'
  <2>1. area_count > 0 => \E x \in Toc!Areas : index[x] # Toc!NoIndex  BY DEF Toc!IndexInv
  <2>2. \A a \in Toc!Done' : Toc!Accepted(toc1[a]) /\ (~short' \/ <<"toc", a>> \in live') =>
          index[Toc!AreaOf(toc1[a], a)] # Toc!NoIndex
    BY DEF Toc!IndexInv
  <2> QED  BY <1>2, <2>1, <2>2 DEF Toc!IndexInv, Toc!Areas, Toc!NoIndex, Toc!Accepted, Toc!AreaOf
<1> QED  BY <1>1, <1>3

\* Done with an area.
LEMMA Left ==
  ASSUME Toc!TypeOK, toc_pc \in {"area", "read", "backup", "parse"}, Toc!Leave
  PROVE  /\ cur' = 2 /\ toc_pc' \in {"area", "finish"}
         /\ toc_pc' = "area" <=> cur = 1
         /\ Toc!Done' = Toc!Done \cup {cur} /\ cur \notin Toc!Done
         /\ Toc!Begun' = Toc!Done'
<1>1. cur \in {1, 2}  BY TocFacts
<1>2. cur' = 2 /\ toc_pc' = IF cur = 1 THEN "area" ELSE "finish"  BY DEF Toc!Leave
<1>3. \A a \in {1, 2} : a < cur <=> a = 1 /\ cur = 2  BY <1>1
<1>4. \A a \in {1, 2} : a < 2 <=> a = 1  OBVIOUS
<1>5. Toc!Done = {a \in {1, 2} : a = 1 /\ cur = 2}  BY <1>3 DEF Toc!Done, Toc!Areas
<1>6. Toc!Done' = {a \in {1, 2} : a = 1 \/ cur = 2}
  <2>1. Toc!Done' = {a \in {1, 2} : a < cur' \/ (toc_pc' \in {"finish", "open", "closed", "failed"} /\ cur' = 2)}
    BY DEF Toc!Done, Toc!Areas
  <2>2. CASE cur = 1  BY <1>2, <1>4, <2>1, <2>2
  <2>3. CASE cur = 2  BY <1>2, <1>4, <2>1, <2>3
  <2> QED  BY <1>1, <2>2, <2>3
<1>7. Toc!Done' = Toc!Done \cup {cur} /\ cur \notin Toc!Done
  <2>1. CASE cur = 1  BY <1>5, <1>6, <2>1
  <2>2. CASE cur = 2  BY <1>5, <1>6, <2>2
  <2> QED  BY <1>1, <2>1, <2>2
<1>8. Toc!Begun' = Toc!Done'  BY <1>1, <1>2 DEF Toc!Begun
<1> QED  BY <1>1, <1>2, <1>7, <1>8

\* The areas that are done before the first step for an area.
LEMMA TocMaster ==
  ASSUME Toc!TypeOK, Toc!TocInv, Toc!ReadMaster \/ Toc!MasterFails
  PROVE  Toc!TocInv'
<1>1. /\ toc_pc = "master" /\ toc_pc' \in {"area", "failed"} /\ live' \subseteq {Toc!Master}
      /\ UNCHANGED <<toc1, toc2, cur, area, owner, area_count, index, use1, use2, short>>
  BY DEF Toc!ReadMaster, Toc!MasterFails, Toc!disc, Toc!result
<1>2. cur = 1 /\ area_count < cur  BY <1>1, SlotsIs DEF Toc!TocInv, TocSteps
<1>3. area_count = 0  BY <1>2, TocFacts
<1>4. Toc!Done' = {}
  <2>1. \A a \in {1, 2} : ~(a < 1)  OBVIOUS
  <2> QED  BY <1>1, <1>2, <2>1 DEF Toc!Done, Toc!Areas
<1>5. \A x \in Toc!Areas : index[x] = Toc!NoIndex
  <2> SUFFICES ASSUME NEW x \in Toc!Areas, index[x] # Toc!NoIndex PROVE FALSE  OBVIOUS
  <2>1. index[x] < 0  BY <1>3 DEF Toc!TocInv, Toc!IndexInv
  <2>2. index[x] \in {-1, 0, 1}  BY TocFacts DEF Toc!Areas
  <2> QED  BY <2>1, <2>2 DEF Toc!NoIndex
<1>6. Toc!SlotsInv'
  <2>1. TocSteps'  BY <1>1, <1>2 DEF TocSteps
  <2>2. Counted'
    <3>1. area_count' = 0 /\ 0..0 - 1 = {}  BY <1>1, <1>3
    <3> QED  BY <3>1 DEF Counted
  <2>3. Toc!SlotsInv' <=> TocSteps' /\ Counted'  BY SlotsIs, PTL
  <2> QED  BY <2>1, <2>2, <2>3
<1>7. Toc!IndexInv'
  BY <1>1, <1>3, <1>4, <1>5 DEF Toc!IndexInv, Toc!Areas, Toc!NoIndex
<1>8. Toc!CurrentInv' /\ Toc!LiveInv' /\ Toc!CloseFreesAll'
  BY <1>1 DEF Toc!CurrentInv, Toc!LiveInv, Toc!CloseFreesAll, Toc!Master
<1> QED  BY <1>6, <1>7, <1>8 DEF Toc!TocInv

\* An area is left without a slot of its own.
LEMMA TocSkipped ==
  ASSUME Toc!TypeOK, Toc!TocInv, toc_pc \in {"area", "parse"}, Toc!Leave,
         UNCHANGED <<toc1, area_count, index, live>>,
         \A s \in 0..area_count - 1 : owner'[s] = owner[s] /\ area'[s] = area[s],
         short => short',
         Toc!Accepted(toc1[cur]) => short' /\ <<"toc", cur>> \notin live
  PROVE  Toc!TocInv'
<1>1. /\ cur' = 2 /\ toc_pc' \in {"area", "finish"}
      /\ Toc!Done' = Toc!Done \cup {cur} /\ cur \notin Toc!Done /\ Toc!Begun' = Toc!Done'
  BY Left
<1>2. cur \in {1, 2} /\ area_count \in 0..2 /\ area_count < cur
  BY SlotsIs, TocFacts DEF Toc!TocInv, TocSteps
<1>3. Counted' /\ Toc!IndexInv'
  <2>1. Counted /\ Toc!IndexInv  BY SlotsIs DEF Toc!TocInv
  <2>2. ASSUME NEW a \in Toc!Done', Toc!Accepted(toc1[a]), ~short' \/ <<"toc", a>> \in live'
        PROVE  a \in Toc!Done /\ (~short \/ <<"toc", a>> \in live)
    <3>1. a # cur  BY <2>2
    <3> QED  BY <1>1, <2>2, <3>1
  <2> QED  BY <1>1, <2>1, <2>2, TocKept
<1>4. TocSteps'
  <2>1. area_count' < cur'  BY <1>1, <1>2
  <2> QED  BY <1>1, <2>1 DEF TocSteps
<1>5. Toc!SlotsInv'
  <2>1. Toc!SlotsInv' <=> TocSteps' /\ Counted'  BY SlotsIs, PTL
  <2> QED  BY <1>3, <1>4, <2>1
<1>6. Toc!LiveInv'
  <2>1. live \subseteq {Toc!Master} \cup {<<"toc", a>> : a \in {b \in Toc!Begun : toc1[b] # "absent"}}
    BY DEF Toc!TocInv, Toc!LiveInv
  <2>2. Toc!Begun \subseteq Toc!Begun'  BY <1>1 DEF Toc!Begun
  <2> QED  BY <2>1, <2>2 DEF Toc!LiveInv, Toc!Master
<1>7. Toc!CurrentInv' /\ Toc!CloseFreesAll'
  BY <1>1 DEF Toc!CurrentInv, Toc!CloseFreesAll
<1> QED  BY <1>3, <1>5, <1>6, <1>7 DEF Toc!TocInv

LEMMA TocNoArea ==
  ASSUME Toc!TypeOK, Toc!TocInv, Toc!NoArea \/ Toc!AllocAreaFails
  PROVE  Toc!TocInv'
<1>1. toc_pc = "area" /\ Toc!Leave /\ UNCHANGED <<toc1, area_count, index, live>>
  BY DEF Toc!NoArea, Toc!AllocAreaFails, Toc!disc, Toc!result
<1>2. cur \in {1, 2} /\ area_count \in 0..2  BY TocFacts
<1>3. \A s \in 0..area_count - 1 : owner'[s] = owner[s] /\ area'[s] = area[s]
  <2> SUFFICES ASSUME NEW s \in 0..area_count - 1
               PROVE  owner'[s] = owner[s] /\ area'[s] = area[s]
    OBVIOUS
  <2>1. s # area_count /\ s \in Toc!Slots  BY <1>2 DEF Toc!Slots
  <2> QED  BY <2>1 DEF Toc!NoArea, Toc!AllocAreaFails, Toc!TypeOK
<1>4. short => short'  BY DEF Toc!NoArea, Toc!AllocAreaFails
<1>5. ASSUME Toc!Accepted(toc1[cur]) PROVE short' /\ <<"toc", cur>> \notin live
  <2>1. toc1[cur] # "absent"  BY <1>5 DEF Toc!Accepted
  <2>2. short'  BY <2>1 DEF Toc!NoArea, Toc!AllocAreaFails
  <2>3. cur \notin Toc!Begun  BY <1>1, Left DEF Toc!Begun
  <2>4. live \subseteq {Toc!Master} \cup {<<"toc", a>> : a \in {b \in Toc!Begun : toc1[b] # "absent"}}
    BY DEF Toc!TocInv, Toc!LiveInv
  <2>5. <<"toc", cur>> # Toc!Master  BY DEF Toc!Master
  <2> QED  BY <2>2, <2>3, <2>4, <2>5
<1> QED  BY <1>1, <1>3, <1>4, <1>5, TocSkipped

LEMMA TocNotParsed ==
  ASSUME Toc!TypeOK, Toc!TocInv, Toc!NotParsed
  PROVE  Toc!TocInv'
<1>1. toc_pc = "parse" /\ Toc!Leave /\ UNCHANGED <<toc1, area_count, index, live, owner, area, short>>
  BY DEF Toc!NotParsed, Toc!disc, Toc!result
<1>2. ~Toc!Accepted(toc1[cur])
  <2> SUFFICES ASSUME Toc!Accepted(toc1[cur]) PROVE FALSE  OBVIOUS
  <2>1. toc1[cur] # "unreadable"  BY DEF Toc!Accepted
  <2>2. use1 /\ area[area_count] = toc1[cur]  BY <1>1, <2>1 DEF Toc!TocInv, Toc!CurrentInv
  <2> QED  BY <2>2 DEF Toc!NotParsed, Toc!MayParse
<1> QED  BY <1>1, <1>2, TocSkipped

\* The steps for an area before it is parsed.
LEMMA TocReading ==
  ASSUME Toc!TypeOK, Toc!TocInv, toc_pc \in {"area", "read", "backup"},
         toc_pc' \in {"read", "backup", "parse"},
         UNCHANGED <<toc1, cur, area_count, index>>,
         live' = live \cup {<<"toc", cur>>}, short => short',
         \A s \in 0..area_count - 1 : owner'[s] = owner[s] /\ area'[s] = area[s],
         Toc!CurrentInv'
  PROVE  Toc!TocInv'
<1>1. cur \in {1, 2} /\ area_count \in 0..2 /\ area_count < cur
  BY SlotsIs, TocFacts DEF Toc!TocInv, TocSteps
<1>2. Toc!Done' = Toc!Done /\ cur \notin Toc!Done
  <2>1. \A a \in {1, 2} : a = cur => ~(a < cur)  BY <1>1
  <2> QED  BY <1>1, <2>1 DEF Toc!Done, Toc!Areas
<1>3. Counted' /\ Toc!IndexInv'
  <2>1. Counted /\ Toc!IndexInv  BY SlotsIs DEF Toc!TocInv
  <2>2. ASSUME NEW a \in Toc!Done', ~short' \/ <<"toc", a>> \in live'
        PROVE  a \in Toc!Done /\ (~short \/ <<"toc", a>> \in live)
    <3>1. a # cur  BY <1>2
    <3> QED  BY <1>2, <2>2, <3>1
  <2> QED  BY <1>2, <2>1, <2>2, TocKept
<1>4. Toc!SlotsInv'
  <2>1. TocSteps'  BY <1>1 DEF TocSteps
  <2>2. Toc!SlotsInv' <=> TocSteps' /\ Counted'  BY SlotsIs, PTL
  <2> QED  BY <1>3, <2>1, <2>2
<1>5. Toc!LiveInv'
  <2>1. live \subseteq {Toc!Master} \cup {<<"toc", a>> : a \in {b \in Toc!Begun : toc1[b] # "absent"}}
    BY DEF Toc!TocInv, Toc!LiveInv
  <2>2. Toc!Begun' = Toc!Done \cup {cur} /\ Toc!Begun \subseteq Toc!Begun' /\ toc1[cur] # "absent"
    BY <1>2 DEF Toc!Begun, Toc!CurrentInv
  <2> QED  BY <2>1, <2>2 DEF Toc!LiveInv, Toc!Master
<1>6. Toc!CloseFreesAll'  BY DEF Toc!CloseFreesAll
<1> QED  BY <1>3, <1>4, <1>5, <1>6 DEF Toc!TocInv

LEMMA TocAlloc ==
  ASSUME Toc!TypeOK, Toc!TocInv, Toc!AllocArea
  PROVE  Toc!TocInv'
<1>1. /\ toc_pc = "area" /\ toc_pc' = "read" /\ toc1[cur] # "absent"
      /\ UNCHANGED <<toc1, toc2, cur, area_count, index, short>>
      /\ live' = live \cup {<<"toc", cur>>} /\ use2' = FALSE
      /\ area' = [area EXCEPT ![area_count] = "garbage"]
      /\ owner' = [owner EXCEPT ![area_count] = <<"toc", cur>>]
  BY DEF Toc!AllocArea, Toc!disc, Toc!result
<1>2. area_count \in 0..2 /\ area_count \in Toc!Slots  BY TocFacts DEF Toc!Slots
<1>3. area \in [Toc!Slots -> Toc!Contents] /\ owner \in [Toc!Slots -> Toc!Buffers \cup {Toc!NoOwner}]
  BY DEF Toc!TypeOK
<1>4. area'[area_count] = "garbage" /\ owner'[area_count] = <<"toc", cur>>  BY <1>1, <1>2, <1>3
<1>5. \A s \in 0..area_count - 1 : owner'[s] = owner[s] /\ area'[s] = area[s]
  <2> SUFFICES ASSUME NEW s \in 0..area_count - 1
               PROVE  owner'[s] = owner[s] /\ area'[s] = area[s]
    OBVIOUS
  <2>1. s # area_count /\ s \in Toc!Slots  BY <1>2 DEF Toc!Slots
  <2> QED  BY <1>1, <1>3, <2>1
<1>6. Toc!CurrentInv'  BY <1>1, <1>4 DEF Toc!CurrentInv
<1> QED  BY <1>1, <1>5, <1>6, TocReading

LEMMA TocRead ==
  ASSUME Toc!TypeOK, Toc!TocInv, Toc!ReadToc1
  PROVE  Toc!TocInv'
<1>1. /\ toc_pc = "read" /\ toc_pc' = IF toc2[cur] = "absent" THEN "parse" ELSE "backup"
      /\ UNCHANGED <<toc1, toc2, cur, owner, area_count, index, live, short>>
      /\ IF toc1[cur] = "unreadable"
         THEN use2' = TRUE /\ UNCHANGED <<area, use1>>
         ELSE use1' = TRUE /\ area' = [area EXCEPT ![area_count] = toc1[cur]] /\ UNCHANGED use2
  BY DEF Toc!ReadToc1, Toc!disc, Toc!result
<1>2. area_count \in 0..2 /\ area_count \in Toc!Slots  BY TocFacts DEF Toc!Slots
<1>3. area \in [Toc!Slots -> Toc!Contents]  BY DEF Toc!TypeOK
<1>4. /\ toc1[cur] # "absent" /\ owner[area_count] = <<"toc", cur>> /\ <<"toc", cur>> \in live
      /\ area[area_count] = "garbage" /\ ~use2
  BY <1>1 DEF Toc!TocInv, Toc!CurrentInv
<1>5. \A s \in 0..area_count - 1 : owner'[s] = owner[s] /\ area'[s] = area[s]
  <2> SUFFICES ASSUME NEW s \in 0..area_count - 1
               PROVE  owner'[s] = owner[s] /\ area'[s] = area[s]
    OBVIOUS
  <2>1. s # area_count /\ s \in Toc!Slots  BY <1>2 DEF Toc!Slots
  <2> QED  BY <1>1, <1>3, <2>1
<1>6. Toc!CurrentInv'
  <2>1. toc1[cur] # "unreadable" => use1' /\ area'[area_count] = toc1[cur] /\ ~use2'
    BY <1>1, <1>2, <1>3, <1>4
  <2> QED  BY <1>1, <1>4, <2>1 DEF Toc!CurrentInv
<1>7. live' = live \cup {<<"toc", cur>>}  BY <1>1, <1>4
<1>8. toc_pc' \in {"backup", "parse"}  BY <1>1
<1> QED  BY <1>1, <1>5, <1>6, <1>7, <1>8, TocReading

\* The backup is never copied: it is to be used only if the first copy could not
\* be read, and then the two are not the same.
LEMMA TocBackup ==
  ASSUME Toc!TypeOK, Toc!TocInv, Toc!Backup \/ Toc!BackupAllocFails
  PROVE  Toc!TocInv'
<1>1. /\ toc_pc = "backup" /\ toc_pc' = "parse"
      /\ UNCHANGED <<toc1, toc2, cur, area_count, index, live>>
  BY DEF Toc!Backup, Toc!BackupAllocFails, Toc!disc, Toc!result
<1>2. cur \in {1, 2} /\ area_count \in {0, 1}
  <2>1. cur \in {1, 2} /\ area_count \in 0..2 /\ area_count < cur
    BY <1>1, SlotsIs, TocFacts DEF Toc!TocInv, TocSteps
  <2> QED  BY <2>1
<1>3. PICK b \in {2, 3} : b = Toc!BackupSlot(cur)
  <2>1. cur + 1 \in {2, 3}  BY <1>2
  <2> QED  BY <2>1 DEF Toc!BackupSlot
<1>4. /\ toc1[cur] # "absent" /\ owner[area_count] = <<"toc", cur>> /\ <<"toc", cur>> \in live
      /\ IF toc1[cur] = "unreadable" THEN area[area_count] = "garbage"
         ELSE use1 /\ area[area_count] = toc1[cur]
      /\ use2 => toc1[cur] = "unreadable"
  BY <1>1 DEF Toc!TocInv, Toc!CurrentInv
<1>5. use1 \in BOOLEAN /\ use2 \in BOOLEAN  BY DEF Toc!TypeOK
<1>6. PICK flags : flags = Toc!Flags(area[area_count], toc2[cur])  OBVIOUS
<1>7. ~flags.use2 /\ (use1 => flags.use1)
  <2>1. use2 => ~Toc!Identical(area[area_count], toc2[cur])  BY <1>4 DEF Toc!Identical
  <2>2. flags = IF toc2[cur] = "unreadable" THEN [use1 |-> use1, use2 |-> FALSE]
                ELSE IF ~Toc!Identical(area[area_count], toc2[cur]) THEN [use1 |-> TRUE, use2 |-> FALSE]
                ELSE [use1 |-> use1, use2 |-> use2]
    BY <1>6 DEF Toc!Flags
  <2> QED  BY <2>1, <2>2
<1>8. /\ use1 => use1'
      /\ \E content, buffer1 : /\ area' = [area EXCEPT ![b] = content]
                               /\ owner' = [owner EXCEPT ![b] = buffer1]
  <2>1. CASE Toc!Backup
    <3>1. PICK content : content = IF toc2[cur] = "unreadable" THEN "garbage" ELSE toc2[cur]
      OBVIOUS
    <3>2. area' = [area EXCEPT ![b] = content]
      BY <1>3, <1>6, <1>7, <2>1, <3>1 DEF Toc!Backup
    <3>3. owner' = [owner EXCEPT ![b] = <<"backup", cur>>] /\ use1' = flags.use1
      BY <1>3, <1>6, <2>1 DEF Toc!Backup
    <3> QED  BY <1>7, <3>2, <3>3
  <2>2. CASE Toc!BackupAllocFails  BY <1>3, <2>2 DEF Toc!BackupAllocFails
  <2> QED  BY <2>1, <2>2
<1>9. \A s \in {0, 1} : owner'[s] = owner[s] /\ area'[s] = area[s]
  <2> SUFFICES ASSUME NEW s \in {0, 1} PROVE owner'[s] = owner[s] /\ area'[s] = area[s]  OBVIOUS
  <2>1. s # b /\ s \in Toc!Slots  BY DEF Toc!Slots
  <2> QED  BY <1>8, <2>1 DEF Toc!TypeOK
<1>10. \A s \in 0..area_count - 1 : owner'[s] = owner[s] /\ area'[s] = area[s]
  <2>1. \A s \in 0..area_count - 1 : s \in {0, 1}  BY <1>2
  <2> QED  BY <1>9, <2>1
<1>11. Toc!CurrentInv'  BY <1>1, <1>2, <1>4, <1>8, <1>9 DEF Toc!CurrentInv
<1>12. live' = live \cup {<<"toc", cur>>}  BY <1>1, <1>4
<1>13. short => short'  BY DEF Toc!Backup, Toc!BackupAllocFails
<1> QED  BY <1>1, <1>10, <1>11, <1>12, <1>13, TocReading

LEMMA TocParse ==
  ASSUME Toc!TypeOK, Toc!TocInv, Toc!Parse
  PROVE  Toc!TocInv'
<1>1. /\ toc_pc = "parse" /\ Toc!Leave
      /\ index' = [index EXCEPT ![Toc!AreaOf(area[area_count], cur)] = area_count]
      /\ area_count' = area_count + 1
      /\ UNCHANGED <<toc1, toc2, area, owner, use1, use2, live, short>>
  BY DEF Toc!Parse, Toc!MayParse, Toc!disc
<1>2. Toc!Accepted(area[area_count])  BY DEF Toc!Parse, Toc!MayParse
<1>3. /\ cur' = 2 /\ toc_pc' \in {"area", "finish"}
      /\ toc_pc' = "area" <=> cur = 1
      /\ Toc!Done' = Toc!Done \cup {cur} /\ cur \notin Toc!Done /\ Toc!Begun' = Toc!Done'
  BY <1>1, Left
<1>4. cur \in {1, 2} /\ area_count \in 0..2 /\ area_count < cur
  BY <1>1, SlotsIs, TocFacts DEF Toc!TocInv, TocSteps
<1>5. /\ owner[area_count] = <<"toc", cur>> /\ <<"toc", cur>> \in live
      /\ IF toc1[cur] = "unreadable" THEN area[area_count] = "garbage"
         ELSE use1 /\ area[area_count] = toc1[cur]
  BY <1>1 DEF Toc!TocInv, Toc!CurrentInv
<1>6. area[area_count] = toc1[cur]  BY <1>2, <1>5 DEF Toc!Accepted
<1>7. PICK k \in {1, 2} : k = Toc!AreaOf(toc1[cur], cur)
  <2>1. 3 - cur \in {1, 2}  BY <1>4
  <2> QED  BY <1>4, <2>1 DEF Toc!AreaOf
<1>8. index' = [index EXCEPT ![k] = area_count] /\ index \in [{1, 2} -> -1..1]
  BY <1>1, <1>6, <1>7 DEF Toc!TypeOK, Toc!Areas, Toc!NoIndex
<1>9. index'[k] = area_count /\ \A x \in {1, 2} : x # k => index'[x] = index[x]  BY <1>8
<1>10. area_count # -1 /\ area_count < area_count + 1 /\ area_count + 1 > 0  BY <1>4
<1>11. Counted'
  <2> SUFFICES ASSUME NEW s \in 0..area_count' - 1
               PROVE  \E a \in Toc!Done' : /\ owner[s] = <<"toc", a>> /\ area[s] = toc1[a]
                                           /\ Toc!Accepted(area[s]) /\ owner[s] \in live
    BY <1>1, <1>3 DEF Counted, Toc!Accepted
  <2>1. s \in 0..area_count - 1 \/ s = area_count  BY <1>1, <1>4
  <2>2. CASE s = area_count  BY <1>2, <1>3, <1>5, <1>6, <2>2
  <2>3. CASE s \in 0..area_count - 1  BY <1>1, <1>3, <2>3, SlotsIs DEF Toc!TocInv, Counted
  <2> QED  BY <2>1, <2>2, <2>3
<1>12. Toc!IndexInv'
  <2>1. ASSUME NEW x \in {1, 2}, index'[x] # -1
        PROVE  /\ index'[x] < area_count'
               /\ \E a \in {1, 2} : /\ owner[index'[x]] = <<"toc", a>>
                                    /\ Toc!AreaOf(area[index'[x]], a) = x
    <3>1. CASE x = k
      <4>1. index'[x] = area_count  BY <1>9, <3>1
      <4> QED  BY <1>1, <1>4, <1>5, <1>6, <1>7, <1>10, <3>1, <4>1
    <3>2. CASE x # k
      <4>1. index'[x] = index[x]  BY <1>9, <3>2
      <4>2. PICK i \in {0, 1} : i = index[x]
        <5>1. index[x] \in {-1, 0, 1}  BY TocFacts
        <5> QED  BY <2>1, <4>1, <5>1
      <4>3. /\ i < area_count
            /\ \E a \in {1, 2} : owner[i] = <<"toc", a>> /\ Toc!AreaOf(area[i], a) = x
        BY <2>1, <4>1, <4>2 DEF Toc!TocInv, Toc!IndexInv, Toc!Areas, Toc!NoIndex
      <4>4. i < area_count + 1  BY <1>4, <4>3
      <4> QED  BY <1>1, <4>1, <4>2, <4>3, <4>4
    <3> QED  BY <3>1, <3>2
  <2>2. \E x \in {1, 2} : index'[x] # -1  BY <1>9, <1>10
  <2>3. ASSUME NEW a \in Toc!Done', Toc!Accepted(toc1[a]), ~short \/ <<"toc", a>> \in live
        PROVE  index'[Toc!AreaOf(toc1[a], a)] # -1
    <3>1. CASE a = cur  BY <1>7, <1>9, <1>10, <3>1
    <3>2. CASE a # cur
      <4>1. a \in Toc!Done /\ a \in {1, 2}  BY <1>3, <3>2, TocFacts
      <4>2. PICK x \in {1, 2} : x = Toc!AreaOf(toc1[a], a)
        <5>1. 3 - a \in {1, 2}  BY <4>1
        <5> QED  BY <4>1, <5>1 DEF Toc!AreaOf
      <4>3. index[x] # -1  BY <2>3, <4>1, <4>2 DEF Toc!TocInv, Toc!IndexInv, Toc!NoIndex
      <4> QED  BY <1>9, <1>10, <4>2, <4>3
    <3> QED  BY <3>1, <3>2
  <2> QED
    BY <1>1, <2>1, <2>2, <2>3 DEF Toc!IndexInv, Toc!Areas, Toc!NoIndex, Toc!AreaOf, Toc!Accepted
<1>13. Toc!SlotsInv'
  <2>1. toc_pc' = "area" => area_count' < cur'  BY <1>1, <1>3, <1>4
  <2>2. TocSteps'  BY <1>3, <2>1 DEF TocSteps
  <2>3. Toc!SlotsInv' <=> TocSteps' /\ Counted'  BY SlotsIs, PTL
  <2> QED  BY <1>11, <2>2, <2>3
<1>14. Toc!LiveInv'
  <2>1. live \subseteq {Toc!Master} \cup {<<"toc", a>> : a \in {b \in Toc!Begun : toc1[b] # "absent"}}
    BY DEF Toc!TocInv, Toc!LiveInv
  <2>2. Toc!Begun \subseteq Toc!Begun'  BY <1>1, <1>3 DEF Toc!Begun
  <2> QED  BY <1>1, <2>1, <2>2 DEF Toc!LiveInv, Toc!Master
<1>15. Toc!CurrentInv' /\ Toc!CloseFreesAll'
  BY <1>3 DEF Toc!CurrentInv, Toc!CloseFreesAll
<1> QED  BY <1>12, <1>13, <1>14, <1>15 DEF Toc!TocInv

LEMMA TocFinish ==
  ASSUME Toc!TypeOK, Toc!TocInv, Toc!Finish
  PROVE  Toc!TocInv'
<1>1. /\ toc_pc = "finish" /\ toc_pc' = IF area_count = 0 THEN "failed" ELSE "open"
      /\ UNCHANGED <<toc1, toc2, cur, area, owner, area_count, index, use1, use2, live, short>>
  BY DEF Toc!Finish, Toc!disc, Toc!result
<1>2. cur = 2 /\ area_count \in 0..2
  BY <1>1, SlotsIs, TocFacts DEF Toc!TocInv, TocSteps
<1>3. Toc!Done' = Toc!Done  BY <1>1, <1>2 DEF Toc!Done, Toc!Areas
<1>4. Counted' /\ Toc!IndexInv'
  <2>1. Counted /\ Toc!IndexInv  BY SlotsIs DEF Toc!TocInv
  <2> QED  BY <1>1, <1>3, <2>1, TocKept
<1>5. Toc!SlotsInv'
  <2>1. toc_pc' = "open" => area_count' > 0  BY <1>1, <1>2
  <2>2. TocSteps'  BY <1>1, <1>2, <2>1 DEF TocSteps
  <2>3. Toc!SlotsInv' <=> TocSteps' /\ Counted'  BY SlotsIs, PTL
  <2> QED  BY <1>4, <2>2, <2>3
<1>6. Toc!LiveInv' /\ Toc!CurrentInv' /\ Toc!CloseFreesAll'
  <2>1. Toc!Begun' = Toc!Begun  BY <1>1, <1>3 DEF Toc!Begun
  <2>2. live \subseteq {Toc!Master} \cup {<<"toc", a>> : a \in {b \in Toc!Begun : toc1[b] # "absent"}}
    BY DEF Toc!TocInv, Toc!LiveInv
  <2>3. toc_pc' \in {"failed", "open"}  BY <1>1
  <2> QED  BY <1>1, <2>1, <2>2, <2>3 DEF Toc!LiveInv, Toc!Master, Toc!CurrentInv, Toc!CloseFreesAll
<1> QED  BY <1>4, <1>5, <1>6 DEF Toc!TocInv

\* The first copy of an area that is accepted as what it is and is allocated has
\* the index of the area.
LEMMA OwnIndex ==
  ASSUME Toc!TypeOK, Toc!TocInv, NEW a \in Toc!Done, Toc!Accepted(toc1[a]),
         toc1[a] # "mislabelled", toc1[3 - a] # "mislabelled",
         ~short \/ <<"toc", a>> \in live
  PROVE  /\ index[a] # -1 /\ index[a] < area_count
         /\ owner[index[a]] = <<"toc", a>> /\ area[index[a]] = toc1[a]
<1>1. a \in {1, 2} /\ Toc!AreaOf(toc1[a], a) = a  BY TocFacts DEF Toc!AreaOf
<1>2. index[a] # -1  BY <1>1 DEF Toc!TocInv, Toc!IndexInv, Toc!NoIndex
<1>3. PICK i \in {0, 1} : i = index[a]
  <2>1. index[a] \in {-1, 0, 1}  BY <1>1, TocFacts
  <2> QED  BY <1>2, <2>1
<1>4. PICK b \in {1, 2} : i < area_count /\ owner[i] = <<"toc", b>> /\ Toc!AreaOf(area[i], b) = a
  BY <1>1, <1>2, <1>3 DEF Toc!TocInv, Toc!IndexInv, Toc!Areas, Toc!NoIndex
<1>5. i \in 0..area_count - 1
  <2>1. area_count \in 0..2  BY TocFacts
  <2> QED  BY <1>4, <2>1
<1>6. PICK c \in Toc!Done : owner[i] = <<"toc", c>> /\ area[i] = toc1[c]
  BY <1>5, SlotsIs DEF Toc!TocInv, Counted
<1>7. c = b  BY <1>4, <1>6
<1>8. b = a
  <2>1. b = a \/ b = 3 - a  BY <1>1, <1>4
  <2>2. toc1[b] # "mislabelled"  BY <2>1
  <2>3. Toc!AreaOf(area[i], b) = b  BY <1>6, <1>7, <2>2 DEF Toc!AreaOf
  <2> QED  BY <1>4, <2>3
<1> QED  BY <1>2, <1>3, <1>4, <1>6, <1>7, <1>8

LEMMA TocClose ==
  ASSUME Toc!TypeOK, Toc!TocInv, Toc!Close
  PROVE  Toc!TocInv'
<1>1. /\ toc_pc = "open" /\ toc_pc' = "closed"
      /\ live' = live \ ({Toc!Master} \cup {owner[index[a]] : a \in {b \in Toc!Areas : index[b] # Toc!NoIndex}})
      /\ UNCHANGED <<toc1, toc2, cur, area, owner, area_count, index, use1, use2, short>>
  BY DEF Toc!Close, Toc!disc, Toc!result
<1>2. cur = 2 /\ area_count \in 0..2
  BY <1>1, SlotsIs, TocFacts DEF Toc!TocInv, TocSteps
<1>3. Toc!Done' = Toc!Done /\ Toc!Begun = Toc!Done /\ Toc!Begun' = Toc!Done
  BY <1>1, <1>2 DEF Toc!Done, Toc!Areas, Toc!Begun
<1>4. Toc!SlotsInv'
  <2>1. TocSteps'  BY <1>1, <1>2 DEF TocSteps
  <2>2. Counted'
    <3>1. Counted  BY SlotsIs DEF Toc!TocInv
    <3> QED  BY <1>1, <1>3, <3>1 DEF Counted, Toc!Accepted
  <2>3. Toc!SlotsInv' <=> TocSteps' /\ Counted'  BY SlotsIs, PTL
  <2> QED  BY <2>1, <2>2, <2>3
<1>5. Toc!IndexInv'
  <2>1. live' \subseteq live  BY <1>1
  <2>2. \A a \in Toc!Done : Toc!Accepted(toc1[a]) /\ (~short \/ <<"toc", a>> \in live') =>
          index[Toc!AreaOf(toc1[a], a)] # Toc!NoIndex
    BY <2>1 DEF Toc!TocInv, Toc!IndexInv
  <2>3. /\ \A x \in Toc!Areas : index[x] # Toc!NoIndex =>
             index[x] < area_count /\ \E a \in Toc!Areas : /\ owner[index[x]] = <<"toc", a>>
                                                           /\ Toc!AreaOf(area[index[x]], a) = x
        /\ area_count > 0 => \E x \in Toc!Areas : index[x] # Toc!NoIndex
    BY DEF Toc!TocInv, Toc!IndexInv
  <2> QED  BY <1>1, <1>3, <2>2, <2>3
           DEF Toc!IndexInv, Toc!Areas, Toc!NoIndex, Toc!Accepted, Toc!AreaOf
<1>6. live \subseteq {Toc!Master} \cup {<<"toc", a>> : a \in {b \in Toc!Done : toc1[b] # "absent"}}
  BY <1>3 DEF Toc!TocInv, Toc!LiveInv
<1>7. Toc!LiveInv'  BY <1>1, <1>3, <1>6 DEF Toc!LiveInv, Toc!Master
<1>8. Toc!CloseFreesAll'
  <2> SUFFICES ASSUME \A a \in {1, 2} : toc1[a] \in {"absent", "valid", "damaged"}, NEW x \in live'
               PROVE  FALSE
    BY <1>1 DEF Toc!CloseFreesAll, Toc!Areas
  <2>1. PICK a \in Toc!Done : x = <<"toc", a>> /\ x \in live /\ toc1[a] # "absent"  BY <1>1, <1>6
  <2>2. a \in {1, 2} /\ 3 - a \in {1, 2}
    <3>1. a \in {1, 2}  BY TocFacts
    <3> QED  BY <3>1
  <2>3. toc1[a] # "mislabelled" /\ toc1[3 - a] # "mislabelled"  BY <2>2
  <2>4. Toc!Accepted(toc1[a])  BY <2>1, <2>2 DEF Toc!Accepted
  <2>5. index[a] # -1 /\ owner[index[a]] = x  BY <1>1, <2>1, <2>3, <2>4, OwnIndex
  <2> QED  BY <1>1, <2>2, <2>5 DEF Toc!Areas, Toc!NoIndex
<1>9. Toc!CurrentInv'  BY <1>1 DEF Toc!CurrentInv
<1> QED  BY <1>4, <1>5, <1>7, <1>8, <1>9 DEF Toc!TocInv

LEMMA TocStops ==
  ASSUME Toc!TocInv, Toc!Finished \/ UNCHANGED toc_vars
  PROVE  Toc!TocInv'
<1>1. UNCHANGED <<toc1, toc2, toc_pc, cur, area, owner, area_count, index, use1, use2, live, short>>
  BY DEF Toc!Finished, Toc!vars, Toc!disc, Toc!result, toc_vars
<1> QED
  BY <1>1 DEF Toc!TocInv, Toc!SlotsInv, Toc!IndexInv, Toc!CurrentInv, Toc!LiveInv, Toc!CloseFreesAll,
              Toc!Done, Toc!Begun, Toc!Areas, Toc!NoIndex, Toc!Accepted, Toc!AreaOf, Toc!Master

LEMMA TocTypes ==
  ASSUME Toc!TypeOK, Toc!TocInv, [Toc!Next]_toc_vars
  PROVE  Toc!TypeOK'
<1> USE DEF Toc!Areas, Toc!NoIndex
<1>1. /\ toc1 \in [{1, 2} -> Toc!Copies \cup {"absent"}]
      /\ toc2 \in [{1, 2} -> Toc!Copies \cup {"absent"}]
      /\ toc_pc \in {"master", "area", "read", "backup", "parse", "finish", "open", "failed", "closed"}
      /\ cur \in {1, 2} /\ area \in [Toc!Slots -> Toc!Contents]
      /\ owner \in [Toc!Slots -> Toc!Buffers \cup {Toc!NoOwner}]
      /\ area_count \in 0..2 /\ index \in [{1, 2} -> -1..1]
      /\ use1 \in BOOLEAN /\ use2 \in BOOLEAN
      /\ live \subseteq Toc!Buffers /\ short \in BOOLEAN
  BY DEF Toc!TypeOK
<1>2. CASE UNCHANGED toc_vars \/ Toc!Finished
  BY <1>2 DEF toc_vars, Toc!Finished, Toc!vars, Toc!disc, Toc!result, Toc!TypeOK
<1>3. CASE Toc!ReadMaster \/ Toc!MasterFails
  <2>1. /\ toc_pc' \in {"area", "failed"} /\ live' \subseteq {Toc!Master}
        /\ UNCHANGED <<toc1, toc2, cur, area, owner, area_count, index, use1, use2, short>>
    BY <1>3 DEF Toc!ReadMaster, Toc!MasterFails, Toc!disc, Toc!result
  <2>2. Toc!Master \in Toc!Buffers  BY DEF Toc!Buffers
  <2>3. live' \subseteq Toc!Buffers  BY <2>1, <2>2
  <2> QED  BY <1>1, <2>1, <2>3 DEF Toc!TypeOK
<1>4. ASSUME Toc!Leave PROVE cur' = 2 /\ toc_pc' \in {"area", "finish"}
  BY <1>4 DEF Toc!Leave
<1>5. area_count \in Toc!Slots /\ Toc!BackupSlot(cur) \in Toc!Slots
  BY <1>1 DEF Toc!Slots, Toc!BackupSlot
<1>6. <<"toc", cur>> \in Toc!Buffers /\ <<"backup", cur>> \in Toc!Buffers  BY <1>1 DEF Toc!Buffers
<1>7. {"garbage", "null"} \cup Toc!Readable \subseteq Toc!Contents  BY DEF Toc!Contents
<1>8. Toc!Copies = Toc!Readable \cup {"unreadable"}  BY DEF Toc!Copies
<1>9. CASE Toc!NoArea \/ Toc!NotParsed
  <2>1. Toc!Leave /\ UNCHANGED <<toc1, toc2, area, owner, area_count, index, use1, use2, live, short>>
    BY <1>9 DEF Toc!NoArea, Toc!NotParsed, Toc!disc, Toc!result
  <2> QED  BY <1>1, <1>4, <2>1 DEF Toc!TypeOK
<1>10. CASE Toc!AllocArea
  <2>1. /\ toc_pc' = "read" /\ live' = live \cup {<<"toc", cur>>}
        /\ area' = [area EXCEPT ![area_count] = "garbage"]
        /\ owner' = [owner EXCEPT ![area_count] = <<"toc", cur>>]
        /\ use1' = FALSE /\ use2' = FALSE
        /\ UNCHANGED <<toc1, toc2, cur, area_count, index, short>>
    BY <1>10 DEF Toc!AllocArea, Toc!disc, Toc!result
  <2>2. area' \in [Toc!Slots -> Toc!Contents]  BY <1>1, <1>5, <1>7, <2>1
  <2>3. owner' \in [Toc!Slots -> Toc!Buffers \cup {Toc!NoOwner}]  BY <1>1, <1>5, <1>6, <2>1
  <2>4. live' \subseteq Toc!Buffers  BY <1>1, <1>6, <2>1
  <2> QED  BY <1>1, <2>1, <2>2, <2>3, <2>4 DEF Toc!TypeOK
<1>11. CASE Toc!AllocAreaFails
  <2>1. /\ Toc!Leave /\ short' = TRUE
        /\ area' = [area EXCEPT ![area_count] = "null"]
        /\ owner' = [owner EXCEPT ![area_count] = Toc!NoOwner]
        /\ UNCHANGED <<toc1, toc2, area_count, index, use1, use2, live>>
    BY <1>11 DEF Toc!AllocAreaFails, Toc!disc, Toc!result
  <2>2. area' \in [Toc!Slots -> Toc!Contents]  BY <1>1, <1>5, <1>7, <2>1
  <2>3. owner' \in [Toc!Slots -> Toc!Buffers \cup {Toc!NoOwner}]  BY <1>1, <1>5, <2>1
  <2> QED  BY <1>1, <1>4, <2>1, <2>2, <2>3 DEF Toc!TypeOK
<1>12. CASE Toc!ReadToc1
  <2>1. /\ toc_pc = "read" /\ toc_pc' \in {"parse", "backup"}
        /\ UNCHANGED <<toc1, toc2, cur, owner, area_count, index, live, short>>
    BY <1>12 DEF Toc!ReadToc1, Toc!disc, Toc!result
  <2>2. toc1[cur] # "absent"  BY <2>1 DEF Toc!TocInv, Toc!CurrentInv
  <2>3. CASE toc1[cur] = "unreadable"
    <3>1. use2' = TRUE /\ area' = area /\ use1' = use1  BY <1>12, <2>3 DEF Toc!ReadToc1
    <3> QED  BY <1>1, <2>1, <3>1 DEF Toc!TypeOK
  <2>4. CASE toc1[cur] # "unreadable"
    <3>1. use1' = TRUE /\ area' = [area EXCEPT ![area_count] = toc1[cur]] /\ use2' = use2
      BY <1>12, <2>4 DEF Toc!ReadToc1
    <3>2. toc1[cur] \in Toc!Contents  BY <1>1, <1>7, <1>8, <2>2, <2>4
    <3>3. area' \in [Toc!Slots -> Toc!Contents]  BY <1>1, <1>5, <3>1, <3>2
    <3> QED  BY <1>1, <2>1, <3>1, <3>3 DEF Toc!TypeOK
  <2> QED  BY <2>3, <2>4
<1>13. CASE Toc!Backup
  <2>1. PICK content : content = IF toc2[cur] = "unreadable" THEN "garbage" ELSE toc2[cur]  OBVIOUS
  <2>2. PICK flags : flags = Toc!Flags(area[area_count], toc2[cur])  OBVIOUS
  <2>3. PICK slots : slots = [area EXCEPT ![Toc!BackupSlot(cur)] = content]  OBVIOUS
  <2>4. /\ toc_pc = "backup" /\ toc_pc' = "parse" /\ use1' = flags.use1 /\ use2' = flags.use2
        /\ area' = IF flags.use2 THEN [slots EXCEPT ![area_count] = slots[2]] ELSE slots
        /\ owner' = [owner EXCEPT ![Toc!BackupSlot(cur)] = <<"backup", cur>>]
        /\ UNCHANGED <<toc1, toc2, cur, area_count, index, live, short>>
    BY <1>13, <2>1, <2>2, <2>3 DEF Toc!Backup, Toc!disc, Toc!result
  <2>5. toc2[cur] # "absent"  BY <2>4 DEF Toc!TocInv, Toc!CurrentInv
  <2>6. content \in Toc!Contents  BY <1>1, <1>7, <1>8, <2>1, <2>5
  <2>7. slots \in [Toc!Slots -> Toc!Contents]  BY <1>1, <1>5, <2>3, <2>6
  <2>8. area' \in [Toc!Slots -> Toc!Contents]
    <3>1. slots[2] \in Toc!Contents  BY <2>7 DEF Toc!Slots
    <3>2. [slots EXCEPT ![area_count] = slots[2]] \in [Toc!Slots -> Toc!Contents]
      BY <1>5, <2>7, <3>1
    <3> QED  BY <2>4, <2>7, <3>2
  <2>9. owner' \in [Toc!Slots -> Toc!Buffers \cup {Toc!NoOwner}]  BY <1>1, <1>5, <1>6, <2>4
  <2>10. flags.use1 \in BOOLEAN
    <3>1. CASE toc2[cur] = "unreadable"  BY <1>1, <2>2, <3>1 DEF Toc!Flags
    <3>2. CASE toc2[cur] # "unreadable" /\ ~Toc!Identical(area[area_count], toc2[cur])
      BY <2>2, <3>2 DEF Toc!Flags
    <3>3. CASE toc2[cur] # "unreadable" /\ Toc!Identical(area[area_count], toc2[cur])
      BY <1>1, <2>2, <3>3 DEF Toc!Flags
    <3> QED  BY <3>1, <3>2, <3>3
  <2>11. flags.use2 \in BOOLEAN
    <3>1. CASE toc2[cur] = "unreadable"  BY <2>2, <3>1 DEF Toc!Flags
    <3>2. CASE toc2[cur] # "unreadable" /\ ~Toc!Identical(area[area_count], toc2[cur])
      BY <2>2, <3>2 DEF Toc!Flags
    <3>3. CASE toc2[cur] # "unreadable" /\ Toc!Identical(area[area_count], toc2[cur])
      BY <1>1, <2>2, <3>3 DEF Toc!Flags
    <3> QED  BY <3>1, <3>2, <3>3
  <2> QED  BY <1>1, <2>4, <2>8, <2>9, <2>10, <2>11 DEF Toc!TypeOK
<1>14. CASE Toc!BackupAllocFails
  <2>1. /\ toc_pc' = "parse" /\ use2' = FALSE /\ short' = TRUE
        /\ area' = [area EXCEPT ![Toc!BackupSlot(cur)] = "null"]
        /\ owner' = [owner EXCEPT ![Toc!BackupSlot(cur)] = Toc!NoOwner]
        /\ UNCHANGED <<toc1, toc2, cur, area_count, index, use1, live>>
    BY <1>14 DEF Toc!BackupAllocFails, Toc!disc, Toc!result
  <2>2. area' \in [Toc!Slots -> Toc!Contents]  BY <1>1, <1>5, <1>7, <2>1
  <2>3. owner' \in [Toc!Slots -> Toc!Buffers \cup {Toc!NoOwner}]  BY <1>1, <1>5, <2>1
  <2> QED  BY <1>1, <2>1, <2>2, <2>3 DEF Toc!TypeOK
<1>15. CASE Toc!Parse
  <2>1. PICK x : x = Toc!AreaOf(area[area_count], cur)  OBVIOUS
  <2>2. /\ toc_pc = "parse" /\ Toc!Leave /\ area_count' = area_count + 1
        /\ index' = [index EXCEPT ![x] = area_count]
        /\ UNCHANGED <<toc1, toc2, area, owner, use1, use2, live, short>>
    BY <1>15, <2>1 DEF Toc!Parse, Toc!disc
  <2>3. area_count < cur  BY <2>2, SlotsIs DEF Toc!TocInv, TocSteps
  <2>4. area_count \in -1..1 /\ area_count + 1 \in 0..2  BY <1>1, <2>3
  <2>5. index' \in [{1, 2} -> -1..1]  BY <1>1, <2>2, <2>4
  <2> QED  BY <1>1, <1>4, <2>2, <2>4, <2>5 DEF Toc!TypeOK
<1>16. CASE Toc!Finish
  <2>1. /\ toc_pc' \in {"failed", "open"}
        /\ UNCHANGED <<toc1, toc2, cur, area, owner, area_count, index, use1, use2, live, short>>
    BY <1>16 DEF Toc!Finish, Toc!disc, Toc!result
  <2> QED  BY <1>1, <2>1 DEF Toc!TypeOK
<1>17. CASE Toc!Close
  <2>1. /\ toc_pc' = "closed" /\ live' \subseteq live
        /\ UNCHANGED <<toc1, toc2, cur, area, owner, area_count, index, use1, use2, short>>
    BY <1>17 DEF Toc!Close, Toc!disc, Toc!result
  <2> QED  BY <1>1, <2>1 DEF Toc!TypeOK
<1> QED  BY <1>2, <1>3, <1>9, <1>10, <1>11, <1>12, <1>13, <1>14, <1>15, <1>16, <1>17 DEF Toc!Next

LEMMA TocBegin ==
  ASSUME Toc!Init
  PROVE  Toc!TypeOK /\ Toc!TocInv
<1>1. /\ toc1 \in [{1, 2} -> Toc!Copies \cup {"absent"}]
      /\ toc2 \in [{1, 2} -> Toc!Copies \cup {"absent"}]
      /\ toc_pc = "master" /\ cur = 1
      /\ area = [s \in Toc!Slots |-> "null"] /\ owner = [s \in Toc!Slots |-> Toc!NoOwner]
      /\ area_count = 0 /\ index = [a \in {1, 2} |-> -1]
      /\ use1 = FALSE /\ use2 = FALSE /\ live = {} /\ short = FALSE
  BY DEF Toc!Init, Toc!Areas, Toc!NoIndex
<1>2. Toc!TypeOK
  <2>1. index \in [{1, 2} -> -1..1] /\ area_count \in 0..2  BY <1>1
  <2> QED  BY <1>1, <2>1 DEF Toc!TypeOK, Toc!Areas, Toc!NoIndex, Toc!Contents
<1>3. Toc!Done = {}
  <2>1. \A a \in {1, 2} : ~(a < 1)  OBVIOUS
  <2> QED  BY <1>1, <2>1 DEF Toc!Done, Toc!Areas
<1>4. Toc!SlotsInv
  <2>1. 0..0 - 1 = {} /\ 0 < 1  OBVIOUS
  <2> QED  BY <1>1, <2>1 DEF Toc!SlotsInv
<1>5. Toc!IndexInv
  BY <1>1, <1>3 DEF Toc!IndexInv, Toc!Areas, Toc!NoIndex
<1>6. Toc!CurrentInv /\ Toc!LiveInv /\ Toc!CloseFreesAll
  BY <1>1 DEF Toc!CurrentInv, Toc!LiveInv, Toc!CloseFreesAll
<1> QED  BY <1>2, <1>4, <1>5, <1>6 DEF Toc!TocInv

LEMMA TocPart == MCSpec => [](Toc!TypeOK /\ Toc!TocInv)
<1>1. MCInit => Toc!TypeOK /\ Toc!TocInv  BY TocBegin DEF MCInit
<1>2. [MCNext]_<<part, vars, toc_vars, net_vars, lists_vars>> => [Toc!Next]_toc_vars
  BY DEF MCNext
<1>3. Toc!TypeOK /\ Toc!TocInv /\ [Toc!Next]_toc_vars => (Toc!TypeOK /\ Toc!TocInv)'
  <2> SUFFICES ASSUME Toc!TypeOK, Toc!TocInv, [Toc!Next]_toc_vars
               PROVE  Toc!TypeOK' /\ Toc!TocInv'
    OBVIOUS
  <2>1. Toc!TypeOK'  BY TocTypes
  <2>2. CASE Toc!ReadMaster \/ Toc!MasterFails  BY <2>2, <2>1, TocMaster
  <2>3. CASE Toc!NoArea \/ Toc!AllocAreaFails  BY <2>3, <2>1, TocNoArea
  <2>4. CASE Toc!AllocArea  BY <2>4, <2>1, TocAlloc
  <2>5. CASE Toc!ReadToc1  BY <2>5, <2>1, TocRead
  <2>6. CASE Toc!Backup \/ Toc!BackupAllocFails  BY <2>6, <2>1, TocBackup
  <2>7. CASE Toc!Parse  BY <2>7, <2>1, TocParse
  <2>8. CASE Toc!NotParsed  BY <2>8, <2>1, TocNotParsed
  <2>9. CASE Toc!Finish  BY <2>9, <2>1, TocFinish
  <2>10. CASE Toc!Close  BY <2>10, <2>1, TocClose
  <2>11. CASE Toc!Finished \/ UNCHANGED toc_vars  BY <2>11, <2>1, TocStops
  <2> QED
    BY <2>1, <2>2, <2>3, <2>4, <2>5, <2>6, <2>7, <2>8, <2>9, <2>10, <2>11 DEF Toc!Next
<1> QED  BY <1>1, <1>2, <1>3, PTL DEF MCSpec

\* What an open disc names.
LEMMA NamedAreas == Toc!TypeOK /\ Toc!TocInv => Toc!OpenAreasAreSound
<1> SUFFICES ASSUME Toc!TypeOK, Toc!TocInv, toc_pc = "open"
             PROVE  /\ \E a \in {1, 2} : index[a] # -1
                    /\ \A a \in {1, 2} : index[a] # -1 =>
                         /\ index[a] < area_count
                         /\ Toc!Accepted(area[index[a]])
                         /\ owner[index[a]] \in live
                    /\ index[1] # index[2]
  BY DEF Toc!OpenAreasAreSound, Toc!Areas, Toc!NoIndex
<1>1. area_count \in 0..2 /\ area_count > 0  BY SlotsIs, TocFacts DEF Toc!TocInv, TocSteps
<1>2. \E a \in {1, 2} : index[a] # -1  BY <1>1 DEF Toc!TocInv, Toc!IndexInv, Toc!Areas, Toc!NoIndex
<1>3. ASSUME NEW x \in {1, 2}, index[x] # -1
      PROVE  \E a \in Toc!Done : /\ index[x] < area_count /\ Toc!Accepted(area[index[x]])
                                 /\ owner[index[x]] \in live
                                 /\ owner[index[x]] = <<"toc", a>>
                                 /\ Toc!AreaOf(area[index[x]], a) = x
  <2>1. PICK i \in {0, 1} : i = index[x]
    <3>1. index[x] \in {-1, 0, 1}  BY TocFacts
    <3> QED  BY <1>3, <3>1
  <2>2. PICK a \in {1, 2} : i < area_count /\ owner[i] = <<"toc", a>> /\ Toc!AreaOf(area[i], a) = x
    BY <1>3, <2>1 DEF Toc!TocInv, Toc!IndexInv, Toc!Areas, Toc!NoIndex
  <2>3. i \in 0..area_count - 1  BY <1>1, <2>2
  <2>4. PICK b \in Toc!Done : owner[i] = <<"toc", b>> /\ Toc!Accepted(area[i]) /\ owner[i] \in live
    BY <2>3, SlotsIs DEF Toc!TocInv, Counted
  <2>5. a = b  BY <2>2, <2>4
  <2> QED  BY <2>1, <2>2, <2>4, <2>5
<1>4. index[1] # index[2]
  <2> SUFFICES ASSUME index[1] = index[2] PROVE FALSE  OBVIOUS
  <2>1. index[1] # -1 /\ index[2] # -1  BY <1>2
  <2>2. PICK a : owner[index[1]] = <<"toc", a>> /\ Toc!AreaOf(area[index[1]], a) = 1  BY <1>3, <2>1
  <2>3. PICK b : owner[index[2]] = <<"toc", b>> /\ Toc!AreaOf(area[index[2]], b) = 2  BY <1>3, <2>1
  <2>4. a = b  BY <2>2, <2>3
  <2> QED  BY <2>2, <2>3, <2>4
<1> QED  BY <1>2, <1>3, <1>4

\* The copy of an area as mastered.
LEMMA GoodCopies == Toc!TypeOK /\ Toc!TocInv => Toc!GoodCopyIsUsed
<1> SUFFICES ASSUME Toc!TypeOK, Toc!TocInv, toc_pc \in {"open", "failed"}, cur = 2, ~short,
                    NEW a \in {1, 2}, toc1[a] = "valid", toc1[3 - a] # "mislabelled"
             PROVE  Toc!Opened(a) /\ area[index[a]] = "valid"
  BY DEF Toc!GoodCopyIsUsed, Toc!Areas
<1>1. a \in Toc!Done  BY DEF Toc!Done, Toc!Areas
<1>2. Toc!Accepted(toc1[a]) /\ toc1[a] # "mislabelled"  BY DEF Toc!Accepted
<1>3. index[a] # -1 /\ owner[index[a]] = <<"toc", a>> /\ area[index[a]] = toc1[a]
  BY <1>1, <1>2, OwnIndex
<1> QED  BY <1>2, <1>3 DEF Toc!Opened, Toc!NoIndex
LEMMA FramesPart == MCSpec => Spec
<1>1. MCInit => Init  BY DEF MCInit
<1>2. [MCNext]_<<part, vars, toc_vars, net_vars, lists_vars>> => [Next]_vars  BY DEF MCNext
<1> QED  BY <1>1, <1>2, PTL DEF MCSpec, Spec

\* From undamaged sectors exactly the frames that lie in the file as a whole are
\* passed on by scarletbook_process_frames, each once, entire and in order: for
\* every layout as discs are mastered, every file and every division into calls.
THEOREM OnlyWholeFrames == MCSpec => []ExactlyWholeFrames
<1>1. AssemblyInv => ExactlyWholeFrames  BY DEF AssemblyInv, ExactlyWholeFrames
<1> QED  BY <1>1, FramesPart, Assembly, PTL

\* Whatever is wrong with the headers of one sector, a frame away from it is passed
\* on entire unless the start of the next one is lost, and what is passed on that
\* is not an entire frame has packets before the sector or in it and in it or
\* behind it: for every layout, file, damaged sector and damage of its headers.
THEOREM DamageStaysLocal == MCSpec => []DamageIsLocal
<1> QED  BY FramesPart, Local, LocalAtEnd, PTL

\* The times in the frames that are passed on ascend, whatever sector is damaged
\* as long as no damage makes a frame begin where none does, and so do the
\* indexes of a cue sheet when the tracks do not overlap, with INDEX 00 where the
\* track before ends: for every layout, every file and every area.
THEOREM TimesAreOrdered == MCSpec => []TimesAscend
<1> QED  BY FramesPart, File, AscendingCodes, ListsPart, CueTimes, PTL DEF TimesAscend

-----------------------------------------------------------------------------
(* The input over a network: as long as no message is given up halfway, what  *)
(* the stream holds belongs to the request that waits, although nothing       *)
(* numbers the messages.                                                      *)

Calls == [op : Net!Ops, pos : 0 .. Total, n : Nat]

-----------------------------------------------------------------------------
(* Sequences whose elements are of no common type *)

LEMMA SeqOfElements ==
  ASSUME NEW s, Net!IsSeq(s)
  PROVE  s \in Seq({s[k] : k \in 1 .. Len(s)})
<1>1. s \in [1 .. Len(s) -> {s[k] : k \in 1 .. Len(s)}]  BY DEF Net!IsSeq
<1> QED  BY <1>1 DEF Net!IsSeq

LEMMA IsSeqOf ==
  ASSUME NEW S, NEW s \in Seq(S)
  PROVE  Net!IsSeq(s) /\ DOMAIN s = 1 .. Len(s)
  BY DEF Net!IsSeq

LEMMA TailOf ==
  ASSUME NEW s, Net!IsSeq(s), s # <<>>
  PROVE  /\ Net!IsSeq(Tail(s)) /\ Len(Tail(s)) = Len(s) - 1
         /\ DOMAIN Tail(s) = 1 .. Len(s) - 1
         /\ 1 \in DOMAIN s /\ DOMAIN s = 1 .. Len(s)
         /\ \A k \in 1 .. Len(s) - 1 : k + 1 \in DOMAIN s /\ Tail(s)[k] = s[k + 1]
<1> DEFINE S == {s[k] : k \in 1 .. Len(s)}
<1>1. s \in Seq(S)  BY SeqOfElements
<1> HIDE DEF S
<1>2. Tail(s) \in Seq(S)  BY <1>1
<1>3. Net!IsSeq(Tail(s)) /\ DOMAIN Tail(s) = 1 .. Len(Tail(s)) /\ DOMAIN s = 1 .. Len(s)
  BY <1>1, <1>2, IsSeqOf
<1> QED  BY <1>1, <1>3

LEMMA PrefixOf ==
  ASSUME NEW s, Net!IsSeq(s), NEW n \in 0 .. Len(s)
  PROVE  /\ Net!IsSeq(SubSeq(s, 1, n)) /\ Len(SubSeq(s, 1, n)) = n
         /\ DOMAIN SubSeq(s, 1, n) = 1 .. n
         /\ DOMAIN s = 1 .. Len(s)
         /\ \A k \in 1 .. n : SubSeq(s, 1, n)[k] = s[k]
<1> DEFINE S == {s[k] : k \in 1 .. Len(s)}
<1>1. s \in Seq(S)  BY SeqOfElements
<1> HIDE DEF S
<1>0. Len(s) \in Nat  BY <1>1
<1>2. SubSeq(s, 1, n) \in Seq(S)  BY <1>0, <1>1
<1>3. Net!IsSeq(SubSeq(s, 1, n)) /\ DOMAIN SubSeq(s, 1, n) = 1 .. Len(SubSeq(s, 1, n)) /\ DOMAIN s = 1 .. Len(s)
  BY <1>1, <1>2, IsSeqOf
<1>4. Len(SubSeq(s, 1, n)) = n /\ \A k \in 1 .. n : SubSeq(s, 1, n)[k] = s[k]
  BY <1>0, <1>1
<1> QED  BY <1>3, <1>4

LEMMA Joined ==
  ASSUME NEW s, NEW t, Net!IsSeq(s), Net!IsSeq(t)
  PROVE  /\ Net!IsSeq(s \o t) /\ Len(s \o t) = Len(s) + Len(t)
         /\ DOMAIN (s \o t) = 1 .. Len(s) + Len(t)
         /\ \A k \in 1 .. Len(s) : (s \o t)[k] = s[k]
         /\ \A k \in 1 .. Len(t) : (s \o t)[Len(s) + k] = t[k]
<1> DEFINE S == {s[k] : k \in 1 .. Len(s)}
           T == {t[k] : k \in 1 .. Len(t)}
<1>1. s \in Seq(S) /\ t \in Seq(T)  BY SeqOfElements
<1> HIDE DEF S, T
<1>2. s \in Seq(S \cup T) /\ t \in Seq(S \cup T)  BY <1>1
<1>3. (s \o t) \in Seq(S \cup T)  BY <1>2
<1>4. Net!IsSeq(s \o t) /\ DOMAIN (s \o t) = 1 .. Len(s \o t)  BY <1>3, IsSeqOf
<1>5. Len(s \o t) = Len(s) + Len(t) /\ \A k \in 1 .. Len(s) : (s \o t)[k] = s[k]  BY <1>2
<1>6. \A k \in 1 .. Len(t) : (s \o t)[Len(s) + k] = t[k]  BY <1>2
<1> QED  BY <1>4, <1>5, <1>6

-----------------------------------------------------------------------------
(* What an answer holds *)

LEMMA NetSectorsRead ==
  ASSUME Net!Numbers, NEW c \in Calls
  PROVE  /\ Len(Net!Sectors(c.pos, c.n)) \in 0 .. Total
         /\ Net!IsSeq(Net!Sectors(c.pos, c.n))
         /\ Len(Net!Sectors(c.pos, c.n)) <= c.n
         /\ \A k \in 1 .. Len(Net!Sectors(c.pos, c.n)) : Net!Sectors(c.pos, c.n)[k] = c.pos + k - 1
<1> DEFINE m == IF c.n <= Total - c.pos THEN c.n ELSE Total - c.pos
<1>0. c.pos \in 0 .. Total /\ c.n \in Nat /\ Total \in Nat  BY DEF Calls, Net!Numbers
<1>1. m \in 0 .. Total /\ m <= c.n  BY <1>0
<1>2. Net!Sectors(c.pos, c.n) = [k \in 1 .. m |-> c.pos + k - 1]  BY DEF Net!Sectors
<1> HIDE DEF m
<1>3. \A k \in 1 .. m : c.pos + k - 1 \in Int  BY <1>0, <1>1
<1>4. Net!Sectors(c.pos, c.n) \in Seq(Int) /\ Len(Net!Sectors(c.pos, c.n)) = m
  BY <1>1, <1>2, <1>3
<1>5. \A k \in 1 .. m : Net!Sectors(c.pos, c.n)[k] = c.pos + k - 1  BY <1>2
<1>6. Net!IsSeq(Net!Sectors(c.pos, c.n))  BY <1>4, IsSeqOf
<1> QED  BY <1>1, <1>4, <1>5, <1>6

\* Fields of an answer to c, and of one of another type, without the end.
Suited(s, c) == Net!IsSeq(s) /\ \A k \in 1 .. Len(s) : s[k].field # "end" /\ Net!Suits(s[k], c)
Strange(s) == Net!IsSeq(s) /\ \A k \in 1 .. Len(s) : s[k].field # "end" /\ Net!Foreign(s[k])

LEMMA SuitedPrefix ==
  ASSUME NEW s, NEW c, Suited(s, c), NEW n \in 0 .. Len(s)
  PROVE  Suited(SubSeq(s, 1, n), c)
<1>0. Len(s) \in Nat /\ \A k \in 1 .. n : k \in 1 .. Len(s)  BY DEF Suited, Net!IsSeq
<1> QED  BY <1>0, PrefixOf DEF Suited

LEMMA SuitedJoined ==
  ASSUME NEW s, NEW t, NEW c, Suited(s, c), Suited(t, c)
  PROVE  Suited(s \o t, c)
<1>0. Net!IsSeq(s) /\ Net!IsSeq(t) /\ Len(s) \in Nat /\ Len(t) \in Nat  BY DEF Suited, Net!IsSeq
<1>1. Net!IsSeq(s \o t) /\ Len(s \o t) = Len(s) + Len(t)  BY <1>0, Joined
<1>2. ASSUME NEW k \in 1 .. Len(s) + Len(t)
      PROVE  (s \o t)[k].field # "end" /\ Net!Suits((s \o t)[k], c)
  <2>1. CASE k <= Len(s)  BY <1>0, <2>1, Joined DEF Suited
  <2>2. CASE k > Len(s)
    <3>1. k - Len(s) \in 1 .. Len(t) /\ k = Len(s) + (k - Len(s))  BY <1>0, <2>2
    <3>2. (s \o t)[k] = t[k - Len(s)]  BY <1>0, <3>1, Joined
    <3> QED  BY <3>1, <3>2 DEF Suited
  <2> QED  BY <1>0, <2>1, <2>2
<1> QED  BY <1>1, <1>2 DEF Suited

LEMMA StrangeJoined ==
  ASSUME NEW s, NEW t, Strange(s), Strange(t)
  PROVE  Strange(s \o t)
<1>0. Net!IsSeq(s) /\ Net!IsSeq(t) /\ Len(s) \in Nat /\ Len(t) \in Nat
  BY DEF Strange, Net!IsSeq
<1>1. Net!IsSeq(s \o t) /\ Len(s \o t) = Len(s) + Len(t)  BY <1>0, Joined
<1>2. ASSUME NEW k \in 1 .. Len(s) + Len(t)
      PROVE  (s \o t)[k].field # "end" /\ Net!Foreign((s \o t)[k])
  <2>1. CASE k <= Len(s)  BY <1>0, <2>1, Joined DEF Strange
  <2>2. CASE k > Len(s)
    <3>1. k - Len(s) \in 1 .. Len(t) /\ k = Len(s) + (k - Len(s))  BY <1>0, <2>2
    <3>2. (s \o t)[k] = t[k - Len(s)]  BY <1>0, <3>1, Joined
    <3> QED  BY <3>1, <3>2 DEF Strange
  <2> QED  BY <1>0, <2>1, <2>2
<1> QED  BY <1>1, <1>2 DEF Strange

LEMMA OneSuited ==
  ASSUME NEW x, NEW c, x.field # "end", Net!Suits(x, c)
  PROVE  Suited(<<x>>, c) /\ Len(<<x>>) = 1
<1>1. <<x>> \in Seq({x}) /\ Len(<<x>>) = 1 /\ <<x>>[1] = x  OBVIOUS
<1>2. \A k \in 1 .. 1 : k = 1  OBVIOUS
<1>3. Net!IsSeq(<<x>>)  BY <1>1, IsSeqOf
<1> QED  BY <1>1, <1>2, <1>3 DEF Suited

LEMMA TwoSuited ==
  ASSUME NEW x, NEW y, NEW c, x.field # "end", Net!Suits(x, c), y.field # "end", Net!Suits(y, c)
  PROVE  Suited(<<x, y>>, c)
<1>1. /\ <<x, y>> \in Seq({x, y}) /\ Len(<<x, y>>) = 2
      /\ <<x, y>>[1] = x /\ <<x, y>>[2] = y
  OBVIOUS
<1>2. \A k \in 1 .. 2 : k = 1 \/ k = 2  OBVIOUS
<1>3. Net!IsSeq(<<x, y>>)  BY <1>1, IsSeqOf
<1> QED  BY <1>1, <1>2, <1>3 DEF Suited

LEMMA OneStrange ==
  ASSUME NEW x, x.field # "end", Net!Foreign(x)
  PROVE  Strange(<<x>>)
<1>1. <<x>> \in Seq({x}) /\ Len(<<x>>) = 1 /\ <<x>>[1] = x  OBVIOUS
<1>2. \A k \in 1 .. 1 : k = 1  OBVIOUS
<1>3. Net!IsSeq(<<x>>)  BY <1>1, IsSeqOf
<1> QED  BY <1>1, <1>2, <1>3 DEF Strange

LEMMA TwoStrange ==
  ASSUME NEW x, NEW y, x.field # "end", Net!Foreign(x), y.field # "end", Net!Foreign(y)
  PROVE  Strange(<<x, y>>)
<1>1. /\ <<x, y>> \in Seq({x, y}) /\ Len(<<x, y>>) = 2
      /\ <<x, y>>[1] = x /\ <<x, y>>[2] = y
  OBVIOUS
<1>2. \A k \in 1 .. 2 : k = 1 \/ k = 2  OBVIOUS
<1>3. Net!IsSeq(<<x, y>>)  BY <1>1, IsSeqOf
<1> QED  BY <1>1, <1>2, <1>3 DEF Strange

\* A good answer has a type and a result, and data for a read.
LEMMA GoodSuits ==
  ASSUME Net!Numbers, NEW c \in Calls
  PROVE  /\ Suited(Net!Good(c), c) /\ Len(Net!Good(c)) >= 2
         /\ Net!Good(c)[1] = Net!Field("type", <<c.op>>)
<1> DEFINE read == Net!Sectors(c.pos, c.n)
           x == Net!Field("type", <<c.op>>)
           y == Net!Field("result", <<IF c.op = "size" THEN Total
                                  ELSE IF c.op = "read" THEN Len(read) ELSE 0>>)
           z == Net!Field("data", read)
<1>0. c.op \in Net!Ops  BY DEF Calls
<1>1. Net!Good(c) = IF c.op = "read" THEN <<x, y, z>> ELSE <<x, y>>
  BY <1>0 DEF Net!Good, Net!Ops
<1>2. x.field = "type" /\ x.value[1] = c.op  BY DEF Net!Field
<1>3. y.field = "result" /\ (c.op \in {"size", "read"} => y.value[1] \in Net!Results(c))
  BY DEF Net!Field, Net!Results
<1>4. z.field = "data" /\ z.value = read  BY DEF Net!Field
<1>5. Net!Suits(x, c) /\ Net!Suits(y, c) /\ Net!Suits(z, c)
  BY <1>2, <1>3, <1>4 DEF Net!Suits, Net!Known
<1> HIDE DEF x, y, z
<1>6. CASE c.op = "read"
  <2>1. Net!Good(c) = <<x, y, z>>  BY <1>1, <1>6
  <2>2. /\ <<x, y, z>> \in Seq({x, y, z}) /\ Len(<<x, y, z>>) = 3
        /\ <<x, y, z>>[1] = x /\ <<x, y, z>>[2] = y /\ <<x, y, z>>[3] = z
    OBVIOUS
  <2>3. Net!IsSeq(<<x, y, z>>)  BY <2>2, IsSeqOf
  <2>4. Suited(<<x, y, z>>, c)
    <3>1. \A k \in 1 .. 3 : k = 1 \/ k = 2 \/ k = 3  OBVIOUS
    <3> QED  BY <1>2, <1>3, <1>4, <1>5, <2>2, <2>3, <3>1 DEF Suited
  <2> QED  BY <2>1, <2>2, <2>4 DEF x
<1>7. CASE c.op # "read"
  <2>1. Net!Good(c) = <<x, y>>  BY <1>1, <1>7
  <2>2. /\ <<x, y>> \in Seq({x, y}) /\ Len(<<x, y>>) = 2
        /\ <<x, y>>[1] = x /\ <<x, y>>[2] = y
    OBVIOUS
  <2>3. Net!IsSeq(<<x, y>>)  BY <2>2, IsSeqOf
  <2>4. Suited(<<x, y>>, c)
    <3>1. \A k \in 1 .. 2 : k = 1 \/ k = 2  OBVIOUS
    <3> QED  BY <1>2, <1>3, <1>5, <2>2, <2>3, <3>1 DEF Suited
  <2> QED  BY <2>1, <2>2, <2>4 DEF x
<1> QED  BY <1>6, <1>7

\* Every bad one is of another type throughout, or suits the request as well.
LEMMA BadFits ==
  ASSUME Net!Numbers, NEW c \in Calls, NEW a \in Net!Bad(c)
  PROVE  Suited(a, c) \/ Strange(a)
<1> DEFINE good == Net!Good(c)
           other == <<Net!Field("type", <<"other">>), Net!Field("result", <<1>>)>>
           more == IF c.op = "read" THEN <<Net!Field("data", <<Net!NoSector>>)>> ELSE <<>>
           failed == <<good[1], Net!Field("result", <<-1>>)>>
           long == Net!Field("data", [k \in 1 .. MaxData + 1 |-> Net!NoSector])
<1>1. /\ Suited(good, c) /\ Len(good) \in Nat /\ Len(good) >= 2
      /\ good[1] = Net!Field("type", <<c.op>>)
  BY GoodSuits DEF Suited, Net!IsSeq
<1> HIDE DEF good
<1>2. Suited(SubSeq(good, 1, 2), c) /\ Suited(SubSeq(good, 1, 1), c)
  BY <1>1, SuitedPrefix
<1>3. /\ Suited(<<Net!Field("varint", <<>>)>>, c)
      /\ Suited(<<Net!Field("bytes", <<>>)>>, c)
  <2>1. /\ Net!Suits(Net!Field("varint", <<>>), c) /\ Net!Field("varint", <<>>).field # "end"
        /\ Net!Suits(Net!Field("bytes", <<>>), c) /\ Net!Field("bytes", <<>>).field # "end"
    BY DEF Net!Suits, Net!Known, Net!Field
  <2> QED  BY <2>1, OneSuited
<1>4. Suited(<<long>>, c)
  <2>0. MaxData + 1 \in Nat /\ Net!NoSector \in Int /\ MaxData \in Nat
    BY DEF Net!Numbers, Net!NoSector
  <2>1. Len([k \in 1 .. MaxData + 1 |-> Net!NoSector]) = MaxData + 1  BY <2>0
  <2>2. Len(long.value) > MaxData /\ long.field = "data"  BY <2>0, <2>1 DEF Net!Field
  <2>3. Net!Suits(long, c)  BY <2>2 DEF Net!Suits, Net!Known
  <2> HIDE DEF long
  <2> QED  BY <2>2, <2>3, OneSuited
<1>5. Suited(failed, c)
  <2> DEFINE x == good[1]
             y == Net!Field("result", <<-1>>)
  <2>1. x.field = "type" /\ x.value[1] = c.op  BY <1>1 DEF Net!Field
  <2>2. y.field = "result" /\ y.value[1] \in Net!Results(c)  BY DEF Net!Field, Net!Results
  <2>3. Net!Suits(x, c) /\ Net!Suits(y, c)  BY <2>1, <2>2 DEF Net!Suits, Net!Known
  <2> HIDE DEF x, y
  <2>6. Suited(<<x, y>>, c)  BY <2>1, <2>2, <2>3, TwoSuited
  <2> QED  BY <2>6 DEF x, y
<1>6. Strange(other \o more)
  <2> DEFINE x == Net!Field("type", <<"other">>)
             y == Net!Field("result", <<1>>)
             z == Net!Field("data", <<Net!NoSector>>)
  <2>1. /\ x.field # "end" /\ Net!Foreign(x)
        /\ y.field # "end" /\ Net!Foreign(y)
        /\ z.field # "end" /\ Net!Foreign(z)
    BY DEF Net!Foreign, Net!Known, Net!Field
  <2> HIDE DEF x, y, z
  <2>2. Strange(<<z>>)  BY <2>1, OneStrange
  <2>4. Strange(<<x, y>>)  BY <2>1, TwoStrange
  <2>5. Strange(<<>>)
    <3>1. <<>> \in Seq({x}) /\ Len(<<>>) = 0  OBVIOUS
    <3>2. Net!IsSeq(<<>>)  BY <3>1, IsSeqOf
    <3>3. \A k \in 1 .. 0 : FALSE  OBVIOUS
    <3> QED  BY <3>1, <3>2, <3>3 DEF Strange
  <2>6. Strange(<<x, y>> \o <<z>>) /\ Strange(<<x, y>> \o <<>>)
    BY <2>2, <2>4, <2>5, StrangeJoined
  <2>7. CASE c.op = "read"  BY <2>6, <2>7 DEF x, y, z
  <2>8. CASE c.op # "read"  BY <2>6, <2>8 DEF x, y
  <2> QED  BY <2>7, <2>8
<1>7. /\ Suited(<<Net!Field("varint", <<>>)>> \o good, c)
      /\ Suited(<<Net!Field("bytes", <<>>)>> \o good, c)
      /\ Suited(SubSeq(good, 1, 2) \o <<long>>, c)
  BY <1>1, <1>2, <1>3, <1>4, SuitedJoined
<1>8. \/ a = other \o more \/ a = failed
      \/ a = SubSeq(good, 1, 2) \/ a = SubSeq(good, 1, 1)
      \/ a = <<Net!Field("varint", <<>>)>> \o good \/ a = <<Net!Field("bytes", <<>>)>> \o good
      \/ a = SubSeq(good, 1, 2) \o <<long>>
  BY DEF Net!Bad, good
<1> HIDE DEF other, more, failed, long
<1> QED  BY <1>2, <1>5, <1>6, <1>7, <1>8

\* The message that reaches the client ends once, and is all of one kind.
LEMMA MessageFits ==
  ASSUME Net!Numbers, NEW c \in Calls, NEW a, a = Net!Good(c) \/ a \in Net!Bad(c),
         NEW m, m = a \o <<Net!Field("end", <<>>)>>
  PROVE  /\ Net!IsSeq(m)
         /\ \A k \in DOMAIN m : m[k].field = "end" => k = Len(m)
         /\ \/ \A k \in DOMAIN m : Net!Suits(m[k], c)
            \/ \A k \in DOMAIN m : Net!Foreign(m[k])
<1> DEFINE x == Net!Field("end", <<>>)
<1>1. x.field = "end" /\ Net!Suits(x, c) /\ Net!Foreign(x)
  BY DEF Net!Suits, Net!Foreign, Net!Known, Net!Field
<1> HIDE DEF x
<1>2. <<x>> \in Seq({x}) /\ Len(<<x>>) = 1 /\ <<x>>[1] = x  OBVIOUS
<1>3. Suited(a, c) \/ Strange(a)  BY GoodSuits, BadFits
<1>4. Net!IsSeq(a) /\ Len(a) \in Nat /\ Net!IsSeq(<<x>>)
  BY <1>2, <1>3, IsSeqOf DEF Suited, Strange, Net!IsSeq
<1>5. Net!IsSeq(m) /\ Len(m) = Len(a) + 1 /\ DOMAIN m = 1 .. Len(a) + 1
  BY <1>2, <1>4, Joined DEF x
<1>6. \A k \in 1 .. Len(a) : m[k] = a[k]  BY <1>4, Joined DEF x
<1>7. m[Len(a) + 1] = x
  <2>1. 1 \in 1 .. Len(<<x>>)  BY <1>2
  <2> QED  BY <1>2, <1>4, <2>1, Joined DEF x
<1>8. \A k \in DOMAIN m : k \in 1 .. Len(a) \/ k = Len(a) + 1  BY <1>4, <1>5
<1>9. \A k \in DOMAIN m : m[k].field = "end" => k = Len(m)
  BY <1>3, <1>5, <1>6, <1>8 DEF Suited, Strange
<1>10. \/ \A k \in DOMAIN m : Net!Suits(m[k], c)
       \/ \A k \in DOMAIN m : Net!Foreign(m[k])
  BY <1>1, <1>3, <1>6, <1>7, <1>8 DEF Suited, Strange
<1> QED  BY <1>5, <1>9, <1>10

-----------------------------------------------------------------------------
(* The inductive invariant *)

LEMMA NetStarts == ASSUME Net!Numbers PROVE Net!Init => Net!NetInv
<1> SUFFICES ASSUME Net!Init PROVE Net!NetInv  OBVIOUS
<1>1. Net!CallInv
  <2>1. Net!CloseCall \in Calls  BY DEF Net!CloseCall, Calls, Net!Ops, Net!Numbers
  <2> QED  BY <2>1 DEF Net!Init, Net!CallInv, Calls
<1>2. Net!ConnectionInv /\ Net!ClosedIsReleased /\ Net!AnswersMatchRequests
  BY DEF Net!Init, Net!ConnectionInv, Net!ClosedIsReleased, Net!AnswersMatchRequests
<1>3. Net!IsSeq(<<>>) /\ DOMAIN <<>> = 1 .. 0
  <2>1. <<>> \in Seq({1}) /\ Len(<<>>) = 0  OBVIOUS
  <2> QED  BY <2>1, IsSeqOf
<1>4. Net!StreamInv /\ net_pc # "decode"  BY <1>3 DEF Net!Init, Net!StreamInv
<1> QED  BY <1>1, <1>2, <1>4 DEF Net!NetInv

\* The step of the server: what arrives is the answer to the call that waits.
LEMMA AnswerStep ==
  ASSUME Net!Numbers, Net!NetInv, Net!Answer PROVE Net!NetInv'
<1>1. Net!CallInv' /\ Net!ConnectionInv' /\ Net!ClosedIsReleased' /\ Net!AnswersMatchRequests'
  <2>1. Net!CallInv'  BY DEF Net!NetInv, Net!CallInv, Net!Answer
  <2>2. Net!ConnectionInv' /\ Net!ClosedIsReleased'
    BY DEF Net!NetInv, Net!ConnectionInv, Net!ClosedIsReleased, Net!Answer, Net!device
  <2>3. Net!AnswersMatchRequests'  BY DEF Net!NetInv, Net!AnswersMatchRequests, Net!Answer
  <2> QED  BY <2>1, <2>2, <2>3
<1>2. ASSUME ~outOfStep' PROVE Net!StreamInv' /\ (net_pc' = "decode" => Net!DecodeInv')
  <2>1. ~outOfStep /\ Net!StreamInv /\ requests # <<>>  BY <1>2 DEF Net!Answer, Net!NetInv
  <2>2. /\ net_pc = "decode" /\ requests = <<call>> /\ input = <<>>
        /\ response = Net!Garbage /\ seen = {}
    BY <2>1 DEF Net!StreamInv
  <2>3. requests[1] = call /\ Tail(requests) = <<>>  BY <2>2
  <2>4. call \in Calls  BY DEF Net!NetInv, Net!CallInv, Calls
  <2>5. PICK a : /\ a = Net!Good(call) \/ a \in Net!Bad(call)
                 /\ input' = input \o a \o <<Net!Field("end", <<>>)>>
    BY <2>3 DEF Net!Answer
  <2>6. input' = a \o <<Net!Field("end", <<>>)>>
    <3>1. Net!IsSeq(a)  BY <2>4, <2>5, GoodSuits, BadFits DEF Suited, Strange
    <3>2. a \in Seq({a[k] : k \in 1 .. Len(a)})  BY <3>1, SeqOfElements
    <3>3. <<>> \o a = a  BY <3>2
    <3> QED  BY <2>2, <2>5, <3>3
  <2>7. /\ Net!IsSeq(input')
        /\ \A k \in DOMAIN input' : input'[k].field = "end" => k = Len(input')
        /\ \/ \A k \in DOMAIN input' : Net!Suits(input'[k], call)
           \/ \A k \in DOMAIN input' : Net!Foreign(input'[k])
    BY <2>4, <2>5, <2>6, MessageFits
  <2>8. /\ net_pc' = "decode" /\ requests' = <<>> /\ call' = call
        /\ response' = Net!Garbage /\ seen' = {} /\ buffer' = buffer
    BY <2>2, <2>3 DEF Net!Answer, Net!decoder
  <2>9. Net!StreamInv'  BY <2>7, <2>8 DEF Net!StreamInv
  <2>10. Net!DecodeInv'
    <3>1. /\ DOMAIN response' = {"type", "result", "has_data"}
          /\ response'.type = "any" /\ ~response'.has_data /\ "result" \notin seen'
      BY <2>8 DEF Net!Garbage
    <3>2. CASE \A k \in DOMAIN input' : Net!Suits(input'[k], call)
      BY <2>8, <3>1, <3>2 DEF Net!DecodeInv
    <3>3. CASE \A k \in DOMAIN input' : Net!Foreign(input'[k])
      BY <2>8, <3>1, <3>3 DEF Net!DecodeInv
    <3> QED  BY <2>7, <3>2, <3>3
  <2> QED  BY <2>9, <2>10
<1> QED  BY <1>1, <1>2 DEF Net!NetInv

\* What the connection loses is the end of what is on the way.
LEMMA DisconnectStep ==
  ASSUME Net!Numbers, Net!NetInv, Net!Disconnect PROVE Net!NetInv'
<1>1. Net!CallInv' /\ Net!ConnectionInv' /\ Net!ClosedIsReleased' /\ Net!AnswersMatchRequests'
  <2>1. Net!CallInv'  BY DEF Net!NetInv, Net!CallInv, Net!Disconnect
  <2>2. Net!ConnectionInv' /\ Net!ClosedIsReleased'
    BY DEF Net!NetInv, Net!ConnectionInv, Net!ClosedIsReleased, Net!Disconnect, Net!device
  <2>3. Net!AnswersMatchRequests'  BY DEF Net!NetInv, Net!AnswersMatchRequests, Net!Disconnect
  <2> QED  BY <2>1, <2>2, <2>3
<1>2. ASSUME ~outOfStep' PROVE Net!StreamInv' /\ (net_pc' = "decode" => Net!DecodeInv')
  <2>1. ~outOfStep /\ Net!StreamInv /\ (net_pc = "decode" => Net!DecodeInv)
    BY <1>2 DEF Net!Disconnect, Net!NetInv
  <2>2. PICK n \in 0 .. Len(input) : input' = SubSeq(input, 1, n)  BY DEF Net!Disconnect
  <2>3. Net!IsSeq(input) /\ Len(input) \in Nat  BY <2>1 DEF Net!StreamInv, Net!IsSeq
  <2>4. /\ Net!IsSeq(input') /\ Len(input') = n /\ DOMAIN input' = 1 .. n
        /\ DOMAIN input = 1 .. Len(input)
        /\ \A k \in 1 .. n : input'[k] = input[k]
    BY <2>2, <2>3, PrefixOf
  <2>5. \A k \in DOMAIN input' : k \in DOMAIN input /\ input'[k] = input[k] /\ k <= n
    BY <2>3, <2>4
  <2>6. \A k \in DOMAIN input' : input'[k].field = "end" => k = Len(input')
    <3>1. n <= Len(input) /\ n \in Nat  BY <2>2, <2>3
    <3>2. \A k \in DOMAIN input' : input'[k].field = "end" => k = Len(input)
      BY <2>1, <2>5 DEF Net!StreamInv
    <3>3. \A k \in DOMAIN input' : k \in Nat  BY <2>4
    <3> QED  BY <2>3, <2>4, <2>5, <3>1, <3>2, <3>3
  <2>7. input = <<>> => input' = <<>>  BY <2>2, <2>3
  <2>8. /\ net_pc' = net_pc /\ requests' = <<>> /\ call' = call
        /\ response' = response /\ seen' = seen /\ buffer' = buffer
    BY DEF Net!Disconnect, Net!decoder
  <2>9. Net!StreamInv'  BY <2>1, <2>4, <2>6, <2>7, <2>8 DEF Net!StreamInv
  <2>10. ASSUME net_pc' = "decode" PROVE Net!DecodeInv'
    <3>1. Net!DecodeInv  BY <2>1, <2>8, <2>10
    <3> QED  BY <2>5, <2>8, <3>1 DEF Net!DecodeInv
  <2> QED  BY <2>9, <2>10
<1> QED  BY <1>1, <1>2 DEF Net!NetInv

\* What a failure makes of a call.
LEMMA ErrorEffect ==
  ASSUME Net!CallInv, Net!Error
  PROVE  \/ net_pc' = "close" \/ net_pc' = "release"
         \/ net_pc' = "idle" /\ returned' = 0 /\ call.op \in {"size", "read"}
<1>1. call.op \in {"open", "size", "read", "close"}  BY DEF Net!CallInv, Net!Ops
<1> QED  BY <1>1 DEF Net!Error, Net!Return

LEMMA FailureAnswers ==
  ASSUME Net!CallInv, Net!Error, call' = call
  PROVE  /\ net_pc' \in {"close", "release", "idle"}
         /\ Net!CallInv' /\ Net!AnswersMatchRequests'
<1>1. net_pc' \in {"close", "release", "idle"}  BY ErrorEffect
<1>2. Net!CallInv'  BY <1>1 DEF Net!CallInv
<1>3. Net!AnswersMatchRequests'
  <2>1. call.n \in Nat  BY DEF Net!CallInv
  <2>2. 1 .. 0 = {} /\ 0 <= call.n  BY <2>1
  <2>3. SUFFICES ASSUME net_pc' = "idle" PROVE returned' = 0
    BY <2>2 DEF Net!AnswersMatchRequests
  <2> QED  BY <2>3, ErrorEffect
<1> QED  BY <1>1, <1>2, <1>3

\* A message that is given up promises nothing any more.
LEMMA GivenUp ==
  ASSUME Net!NetInv, Net!GiveUp PROVE Net!NetInv'
<1>1. Net!CallInv /\ Net!Error /\ call' = call  BY DEF Net!NetInv, Net!GiveUp
<1>2. Net!CallInv' /\ Net!AnswersMatchRequests' /\ net_pc' # "closed"  BY <1>1, FailureAnswers
<1>3. Net!ConnectionInv'
  BY DEF Net!NetInv, Net!GiveUp, Net!ConnectionInv, Net!device, Net!Unread
<1>4. Net!ClosedIsReleased'  BY <1>2 DEF Net!ClosedIsReleased
<1>5. outOfStep'  BY DEF Net!GiveUp
<1> QED  BY <1>2, <1>3, <1>4, <1>5 DEF Net!NetInv

-----------------------------------------------------------------------------
(* The fields *)

\* What is left of the stream after its first field.
LEMMA Consumed ==
  ASSUME Net!StreamInv, net_pc = "decode", input # <<>>, Net!Consume
  PROVE  /\ requests = <<>> /\ Net!IsSeq(input')
         /\ \A k \in DOMAIN input' : input'[k].field = "end" => k = Len(input')
         /\ \A k \in DOMAIN input' : k + 1 \in DOMAIN input /\ input'[k] = input[k + 1]
         /\ 1 \in DOMAIN input
         /\ input[1].field = "end" => input' = <<>>
<1>1. Net!IsSeq(input) /\ Len(input) \in Nat  BY DEF Net!StreamInv, Net!IsSeq
<1>2. /\ Net!IsSeq(input') /\ Len(input') = Len(input) - 1
      /\ DOMAIN input' = 1 .. Len(input) - 1
      /\ 1 \in DOMAIN input /\ DOMAIN input = 1 .. Len(input)
      /\ \A k \in 1 .. Len(input) - 1 : k + 1 \in DOMAIN input /\ input'[k] = input[k + 1]
  BY <1>1, TailOf DEF Net!Consume
<1>3. requests = <<>>  BY DEF Net!StreamInv
<1>4. ASSUME NEW k \in DOMAIN input', input'[k].field = "end" PROVE k = Len(input')
  <2>1. k + 1 \in DOMAIN input /\ input[k + 1].field = "end"  BY <1>2, <1>4
  <2>2. k + 1 = Len(input)  BY <2>1 DEF Net!StreamInv
  <2> QED  BY <1>1, <1>2, <2>2
<1>5. ASSUME input[1].field = "end" PROVE input' = <<>>
  <2>1. Len(input) = 1  BY <1>2, <1>5 DEF Net!StreamInv
  <2>2. Len(input') = 0  BY <1>2, <2>1
  <2>3. input' \in Seq({input'[k] : k \in 1 .. Len(input')})  BY <1>2, SeqOfElements
  <2> QED  BY <2>2, <2>3
<1> QED  BY <1>2, <1>3, <1>4, <1>5

\* A step that only decodes a field.
FieldRead == /\ net_pc = "decode" /\ input # <<>> /\ Net!Consume
             /\ UNCHANGED <<net_pc, call, Net!device, Net!Unread, returned, outOfStep>>

LEMMA FieldKeeps ==
  ASSUME Net!NetInv, FieldRead, ~outOfStep /\ Net!StreamInv /\ Net!DecodeInv => Net!DecodeInv'
  PROVE  Net!NetInv'
<1>1. Net!CallInv' /\ Net!ConnectionInv' /\ Net!ClosedIsReleased' /\ Net!AnswersMatchRequests'
  <2>1. net_pc = "decode" /\ net_pc' = "decode"  BY DEF FieldRead
  <2>2. Net!CallInv' /\ Net!ConnectionInv'
    BY DEF Net!NetInv, FieldRead, Net!CallInv, Net!ConnectionInv, Net!device, Net!Unread
  <2> QED  BY <2>1, <2>2 DEF Net!ClosedIsReleased, Net!AnswersMatchRequests
<1>2. ASSUME ~outOfStep' PROVE Net!StreamInv' /\ Net!DecodeInv'
  <2>1. ~outOfStep /\ Net!StreamInv /\ Net!DecodeInv  BY <1>2 DEF Net!NetInv, FieldRead
  <2>2. /\ requests = <<>> /\ Net!IsSeq(input')
        /\ \A k \in DOMAIN input' : input'[k].field = "end" => k = Len(input')
    BY <2>1, Consumed DEF FieldRead
  <2>3. net_pc' = "decode" /\ requests' = <<>>  BY <2>2 DEF FieldRead, Net!Unread
  <2>4. Net!StreamInv'  BY <2>2, <2>3 DEF Net!StreamInv
  <2> QED  BY <2>1, <2>4
<1> QED  BY <1>1, <1>2 DEF Net!NetInv

\* The fields that follow are of the same kind.
LEMMA RestForeign ==
  ASSUME Net!StreamInv, net_pc = "decode", input # <<>>, Net!Consume,
         \A k \in DOMAIN input : Net!Foreign(input[k])
  PROVE  Net!Foreign(input[1]) /\ \A k \in DOMAIN input' : Net!Foreign(input'[k])
  BY Consumed

LEMMA RestSuits ==
  ASSUME Net!StreamInv, net_pc = "decode", input # <<>>, Net!Consume, call' = call,
         \A k \in DOMAIN input : Net!Suits(input[k], call)
  PROVE  Net!Suits(input[1], call) /\ \A k \in DOMAIN input' : Net!Suits(input'[k], call')
  BY Consumed

LEMMA TypeStep ==
  ASSUME Net!NetInv, Net!TypeField PROVE Net!NetInv'
<1>1. FieldRead  BY DEF Net!TypeField, Net!Decoding, FieldRead
<1>2. ASSUME Net!StreamInv, Net!DecodeInv PROVE Net!DecodeInv'
  <2>1. /\ DOMAIN response = {"type", "result", "has_data"}
        /\ net_pc = "decode" /\ input # <<>> /\ Net!Consume /\ input[1].field = "type"
        /\ call' = call /\ buffer' = buffer /\ seen' = seen \cup {"type"}
        /\ response' = [response EXCEPT !.type = input[1].value[1]]
    BY <1>2 DEF Net!DecodeInv, Net!TypeField, Net!Decoding, Net!Next1
  <2>2. /\ DOMAIN response' = {"type", "result", "has_data"}
        /\ response'.type = input[1].value[1]
        /\ response'.has_data = response.has_data /\ response'.result = response.result
    BY <2>1
  <2>3. CASE \A k \in DOMAIN input : Net!Foreign(input[k])
    <3>1. Net!Foreign(input[1]) /\ \A k \in DOMAIN input' : Net!Foreign(input'[k])
      BY <1>2, <2>1, <2>3, RestForeign
    <3>2. response'.type = "other"  BY <2>1, <2>2, <3>1 DEF Net!Foreign
    <3> QED  BY <2>2, <3>1, <3>2 DEF Net!DecodeInv
  <2>4. CASE /\ \A k \in DOMAIN input : Net!Suits(input[k], call)
             /\ response.has_data => buffer = Net!Sectors(call.pos, call.n)
             /\ "result" \in seen /\ call.op \in {"size", "read"} => response.result \in Net!Results(call)
    <3>1. \A k \in DOMAIN input' : Net!Suits(input'[k], call')  BY <1>2, <2>1, <2>4, RestSuits
    <3>2. "result" \in seen' => "result" \in seen  BY <2>1
    <3> QED  BY <2>1, <2>2, <2>4, <3>1, <3>2 DEF Net!DecodeInv
  <2> QED  BY <1>2, <2>3, <2>4 DEF Net!DecodeInv
<1> QED  BY <1>1, <1>2, FieldKeeps

LEMMA ResultStep ==
  ASSUME Net!NetInv, Net!ResultField PROVE Net!NetInv'
<1>1. FieldRead  BY DEF Net!ResultField, Net!Decoding, FieldRead
<1>2. ASSUME Net!StreamInv, Net!DecodeInv PROVE Net!DecodeInv'
  <2>1. /\ DOMAIN response = {"type", "result", "has_data"}
        /\ net_pc = "decode" /\ input # <<>> /\ Net!Consume /\ input[1].field = "result"
        /\ call' = call /\ buffer' = buffer
        /\ response' = [response EXCEPT !.result = input[1].value[1]]
    BY <1>2 DEF Net!DecodeInv, Net!ResultField, Net!Decoding, Net!Next1
  <2>2. /\ DOMAIN response' = {"type", "result", "has_data"}
        /\ response'.result = input[1].value[1]
        /\ response'.has_data = response.has_data /\ response'.type = response.type
    BY <2>1
  <2>3. CASE (\A k \in DOMAIN input : Net!Foreign(input[k])) /\ response.type \in {"any", "other"}
    <3>1. \A k \in DOMAIN input' : Net!Foreign(input'[k])
      BY <1>2, <2>1, <2>3, RestForeign
    <3> QED  BY <2>2, <2>3, <3>1 DEF Net!DecodeInv
  <2>4. CASE /\ \A k \in DOMAIN input : Net!Suits(input[k], call)
             /\ response.has_data => buffer = Net!Sectors(call.pos, call.n)
    <3>1. Net!Suits(input[1], call) /\ \A k \in DOMAIN input' : Net!Suits(input'[k], call')
      BY <1>2, <2>1, <2>4, RestSuits
    <3>2. call.op \in {"size", "read"} => response'.result \in Net!Results(call)
      BY <2>1, <2>2, <3>1 DEF Net!Suits
    <3> QED  BY <2>1, <2>2, <2>4, <3>1, <3>2 DEF Net!DecodeInv
  <2> QED  BY <1>2, <2>3, <2>4 DEF Net!DecodeInv
<1> QED  BY <1>1, <1>2, FieldKeeps

LEMMA DataStep ==
  ASSUME Net!Numbers, Net!NetInv, Net!DataField PROVE Net!NetInv'
<1>0. CASE Net!GiveUp  BY <1>0, GivenUp
<1>1. CASE ~Net!GiveUp
  <2>1. /\ Net!Consume /\ buffer' = input[1].value
        /\ ~(Len(input[1].value) > MaxData)
        /\ response' = [response EXCEPT !.has_data = TRUE]
        /\ UNCHANGED <<net_pc, call, Net!device, Net!Unread, seen, returned, outOfStep, Net!counts>>
        /\ net_pc = "decode" /\ input # <<>> /\ input[1].field = "data"
    BY <1>1 DEF Net!DataField, Net!Decoding, Net!Next1
  <2>2. FieldRead  BY <2>1 DEF FieldRead
  <2>3. ASSUME Net!StreamInv, Net!DecodeInv PROVE Net!DecodeInv'
    <3>1. DOMAIN response = {"type", "result", "has_data"}  BY <2>3 DEF Net!DecodeInv
    <3>2. /\ DOMAIN response' = {"type", "result", "has_data"}
          /\ response'.result = response.result /\ response'.type = response.type
      BY <2>1, <3>1
    <3>3. CASE (\A k \in DOMAIN input : Net!Foreign(input[k])) /\ response.type \in {"any", "other"}
      <4>1. \A k \in DOMAIN input' : Net!Foreign(input'[k])
        BY <2>1, <2>3, <3>3, RestForeign
      <4> QED  BY <3>2, <3>3, <4>1 DEF Net!DecodeInv
    <3>4. CASE /\ \A k \in DOMAIN input : Net!Suits(input[k], call)
               /\ "result" \in seen /\ call.op \in {"size", "read"} => response.result \in Net!Results(call)
      <4>1. Net!Suits(input[1], call) /\ \A k \in DOMAIN input' : Net!Suits(input'[k], call')
        BY <2>1, <2>3, <3>4, RestSuits
      <4>2. buffer' = Net!Sectors(call.pos, call.n)  BY <2>1, <4>1 DEF Net!Suits
      <4> QED  BY <2>1, <3>2, <3>4, <4>1, <4>2 DEF Net!DecodeInv
    <3> QED  BY <2>3, <3>3, <3>4 DEF Net!DecodeInv
  <2> QED  BY <2>2, <2>3, FieldKeeps
<1> QED  BY <1>0, <1>1

LEMMA UnknownStep ==
  ASSUME Net!NetInv, Net!UnknownNumber \/ Net!UnknownBytes PROVE Net!NetInv'
<1>0. CASE Net!UnknownBytes  BY <1>0, GivenUp DEF Net!UnknownBytes
<1>1. CASE Net!UnknownNumber
  <2>1. /\ net_pc = "decode" /\ input # <<>> /\ Net!Consume
        /\ call' = call /\ buffer' = buffer /\ seen' = seen /\ response' = response
        /\ FieldRead
    BY <1>1 DEF Net!UnknownNumber, Net!Decoding, FieldRead, Net!decoder
  <2>2. ASSUME Net!StreamInv, Net!DecodeInv PROVE Net!DecodeInv'
    <3>1. CASE (\A k \in DOMAIN input : Net!Foreign(input[k])) /\ response.type \in {"any", "other"}
      <4>1. \A k \in DOMAIN input' : Net!Foreign(input'[k])
        BY <2>1, <2>2, <3>1, RestForeign
      <4> QED  BY <2>1, <2>2, <3>1, <4>1 DEF Net!DecodeInv
    <3>2. CASE \A k \in DOMAIN input : Net!Suits(input[k], call)
      <4>1. \A k \in DOMAIN input' : Net!Suits(input'[k], call')
        BY <2>1, <2>2, <3>2, RestSuits
      <4> QED  BY <2>1, <2>2, <4>1, <3>1 DEF Net!DecodeInv
    <3> QED  BY <2>2, <3>1, <3>2 DEF Net!DecodeInv
  <2> QED  BY <2>1, <2>2, FieldKeeps
<1> QED  BY <1>0, <1>1

\* In step there is no rest of a field.
LEMMA RestStep ==
  ASSUME Net!NetInv, Net!RestOfField PROVE Net!NetInv'
<1>0. CASE Net!GiveUp  BY <1>0, GivenUp
<1>1. CASE ~Net!GiveUp
  <2>1. /\ net_pc = "decode" /\ input # <<>> /\ Net!Consume /\ input[1].field = "rest" /\ FieldRead
    BY <1>1 DEF Net!RestOfField, Net!Decoding, Net!Next1, FieldRead
  <2>2. ASSUME Net!StreamInv, Net!DecodeInv PROVE FALSE
    <3>1. 1 \in DOMAIN input  BY <2>1, <2>2, Consumed
    <3>2. Net!Foreign(input[1]) \/ Net!Suits(input[1], call)  BY <2>2, <3>1 DEF Net!DecodeInv
    <3> QED  BY <2>1, <3>2 DEF Net!Foreign, Net!Suits, Net!Known
  <2> QED  BY <2>1, <2>2, FieldKeeps
<1> QED  BY <1>0, <1>1

-----------------------------------------------------------------------------
(* The end of a message *)

\* What a call returns when its message is complete, is an answer to it.
LEMMA FinishAnswers ==
  ASSUME Net!Numbers, Net!NetInv, net_pc = "decode", Net!Finish, call' = call, buffer' = buffer,
         outOfStep' = outOfStep
  PROVE  /\ net_pc' \in {"close", "release", "idle"}
         /\ Net!CallInv' /\ Net!AnswersMatchRequests'
<1>0. Net!CallInv  BY DEF Net!NetInv
<1>1. CASE Net!Error  BY <1>0, <1>1, FailureAnswers
<1>2. CASE ~Net!Error
  <2>0. call.op \in {"open", "size", "read", "close"} /\ call \in Calls
    BY <1>0 DEF Net!CallInv, Net!Ops, Calls
  <2>1. /\ Net!Complete /\ Net!Accepted
        /\ \/ call.op = "open" /\ Net!Return(1)
           \/ call.op = "size" /\ Net!Return(response.result)
           \/ call.op = "read" /\ response.has_data /\ Net!Return(response.result)
    BY <1>2, <2>0 DEF Net!Finish
  <2>2. net_pc' = "idle" /\ Net!CallInv'  BY <1>0, <2>1 DEF Net!Return, Net!CallInv
  <2>3. ASSUME ~outOfStep PROVE Net!AnswersMatchRequests'
    <3>1. Net!DecodeInv  BY <2>3 DEF Net!NetInv
    <3>2. response.type \notin {"any", "other"}  BY <2>0, <2>1 DEF Net!Accepted
    <3>3. /\ response.has_data => buffer = Net!Sectors(call.pos, call.n)
          /\ call.op \in {"size", "read"} => response.result \in Net!Results(call)
      BY <2>1, <3>1, <3>2 DEF Net!DecodeInv, Net!Complete
    <3>4. CASE call.op = "open"  BY <3>4 DEF Net!AnswersMatchRequests
    <3>5. CASE call.op = "size"
      <4>1. returned' = response.result  BY <2>1, <3>5 DEF Net!Return
      <4>2. returned' \in {-1, Total}  BY <3>3, <3>5, <4>1 DEF Net!Results
      <4> QED  BY <3>5, <4>2 DEF Net!AnswersMatchRequests
    <3>6. CASE call.op = "read"
      <4> DEFINE m == Len(Net!Sectors(call.pos, call.n))
      <4>1. /\ m \in 0 .. Total /\ Net!IsSeq(Net!Sectors(call.pos, call.n)) /\ m <= call.n
            /\ \A k \in 1 .. m : Net!Sectors(call.pos, call.n)[k] = call.pos + k - 1
        BY <2>0, NetSectorsRead
      <4>2. buffer' = Net!Sectors(call.pos, call.n) /\ Len(buffer') = m
        BY <2>1, <3>3, <3>6
      <4>3. returned' \in {-1, m}  BY <2>1, <3>3, <3>6 DEF Net!Return, Net!Results
      <4> HIDE DEF m
      <4>4. call.n \in Nat /\ Total \in Nat  BY <2>0 DEF Calls, Net!Numbers
      <4>5. returned' <= call.n  BY <4>1, <4>3, <4>4
      <4>6. \A k \in 1 .. returned' : k \in 1 .. m /\ k <= m  BY <4>1, <4>3, <4>4
      <4> QED  BY <3>6, <4>1, <4>2, <4>5, <4>6 DEF Net!AnswersMatchRequests
    <3> QED  BY <2>0, <2>1, <3>4, <3>5, <3>6
  <2>4. Net!AnswersMatchRequests'  BY <2>3 DEF Net!AnswersMatchRequests
  <2> QED  BY <2>2, <2>4
<1> QED  BY <1>1, <1>2

\* The end of the message is the end of what is in the stream.
LEMMA NetEndStep ==
  ASSUME Net!Numbers, Net!NetInv, Net!EndOfMessage PROVE Net!NetInv'
<1>1. /\ net_pc = "decode" /\ input # <<>> /\ Net!Consume /\ input[1].field = "end"
      /\ Net!Finish /\ call' = call /\ buffer' = buffer /\ outOfStep' = outOfStep
      /\ UNCHANGED <<Net!device, Net!Unread>>
  BY DEF Net!EndOfMessage, Net!Decoding, Net!Next1
<1>2. net_pc' \in {"close", "release", "idle"} /\ Net!CallInv' /\ Net!AnswersMatchRequests'
  BY <1>1, FinishAnswers
<1>3. Net!ConnectionInv' /\ Net!ClosedIsReleased'
  BY <1>1, <1>2 DEF Net!NetInv, Net!ConnectionInv, Net!ClosedIsReleased, Net!device, Net!Unread
<1>4. ASSUME ~outOfStep' PROVE Net!StreamInv' /\ net_pc' # "decode"
  <2>1. Net!StreamInv  BY <1>1, <1>4 DEF Net!NetInv
  <2>2. /\ requests = <<>> /\ Net!IsSeq(input') /\ input' = <<>>
        /\ \A k \in DOMAIN input' : input'[k].field = "end" => k = Len(input')
    BY <1>1, <2>1, Consumed
  <2>3. requests' = <<>>  BY <1>1, <2>2 DEF Net!Unread
  <2> QED  BY <1>2, <2>2, <2>3 DEF Net!StreamInv
<1> QED  BY <1>2, <1>3, <1>4 DEF Net!NetInv

LEMMA EndOfStreamStep ==
  ASSUME Net!Numbers, Net!NetInv, Net!EndOfStream PROVE Net!NetInv'
<1>1. /\ net_pc = "decode" /\ input = <<>> /\ conn = "down"
      /\ Net!Finish \/ Net!Error
      /\ call' = call /\ buffer' = buffer /\ outOfStep' = outOfStep
      /\ UNCHANGED <<Net!device, Net!stream>>
  BY DEF Net!EndOfStream
<1>2. net_pc' \in {"close", "release", "idle"} /\ Net!CallInv' /\ Net!AnswersMatchRequests'
  <2>1. CASE Net!Error  BY <1>1, <2>1, FailureAnswers DEF Net!NetInv
  <2>2. CASE Net!Finish  BY <1>1, <2>2, FinishAnswers
  <2> QED  BY <1>1, <2>1, <2>2
<1>3. Net!ConnectionInv' /\ Net!ClosedIsReleased'
  BY <1>1, <1>2 DEF Net!NetInv, Net!ConnectionInv, Net!ClosedIsReleased, Net!device, Net!stream
<1>4. ASSUME ~outOfStep' PROVE Net!StreamInv' /\ net_pc' # "decode"
  <2>1. Net!StreamInv  BY <1>1, <1>4 DEF Net!NetInv
  <2>2. requests = <<>>  BY <1>1 DEF Net!NetInv, Net!ConnectionInv
  <2>3. requests' = <<>> /\ input' = input  BY <1>1, <2>2 DEF Net!stream
  <2> QED  BY <1>1, <1>2, <2>1, <2>3 DEF Net!StreamInv
<1> QED  BY <1>2, <1>3, <1>4 DEF Net!NetInv

-----------------------------------------------------------------------------
(* The calls *)

LEMMA NothingLeft ==
  ASSUME NEW s, s = <<>>
  PROVE  Net!IsSeq(s) /\ \A k \in DOMAIN s : FALSE
<1>1. <<>> \in Seq({1}) /\ Len(<<>>) = 0  OBVIOUS
<1>2. Net!IsSeq(<<>>) /\ DOMAIN <<>> = 1 .. 0  BY <1>1, IsSeqOf
<1> QED  BY <1>2

\* Outside of a message nothing is in the stream, and nothing is waited for.
LEMMA IdleStream ==
  ASSUME ~outOfStep => input' = <<>> /\ requests' = <<>>, net_pc' # "decode",
         outOfStep' = outOfStep
  PROVE  ~outOfStep' => Net!StreamInv' /\ (net_pc' = "decode" => Net!DecodeInv')
<1> SUFFICES ASSUME ~outOfStep' PROVE Net!StreamInv'  OBVIOUS
<1>1. input' = <<>> /\ requests' = <<>>  OBVIOUS
<1>2. Net!IsSeq(input') /\ \A k \in DOMAIN input' : FALSE  BY <1>1, NothingLeft
<1> QED  BY <1>1, <1>2 DEF Net!StreamInv

LEMMA NetOpenStep ==
  ASSUME Net!Numbers, Net!NetInv, Net!NetOpen PROVE Net!NetInv'
<1>1. /\ net' = net /\ net /\ call' = [op |-> "open", pos |-> 0, n |-> 0]
      /\ input' = <<>> /\ requests' = <<>> /\ ~outOfStep'
      /\ net_pc' \in {"close", "send"}
  BY DEF Net!NetOpen, Net!Called
<1>2. Net!CallInv'
  <2>1. call' \in Calls  BY <1>1 DEF Calls, Net!Ops, Net!Numbers
  <2> QED  BY <1>1, <2>1 DEF Net!CallInv, Calls
<1>3. Net!ConnectionInv' /\ Net!ClosedIsReleased' /\ Net!AnswersMatchRequests'
  BY <1>1 DEF Net!ConnectionInv, Net!ClosedIsReleased, Net!AnswersMatchRequests
<1>4. Net!StreamInv' /\ net_pc' # "decode"
  <2>1. Net!IsSeq(input') /\ \A k \in DOMAIN input' : FALSE  BY <1>1, NothingLeft
  <2> QED  BY <1>1, <2>1 DEF Net!StreamInv
<1> QED  BY <1>2, <1>3, <1>4 DEF Net!NetInv

LEMMA NetCallStep ==
  ASSUME Net!Numbers, Net!NetInv, Net!NetCall PROVE Net!NetInv'
<1>1. /\ net_pc = "idle" /\ net_pc' = "send" /\ outOfStep' = outOfStep
      /\ UNCHANGED <<Net!device, Net!stream>>
  BY DEF Net!NetCall
<1>2. Net!CallInv'
  <2>1. call' \in Calls
    <3>1. CASE Net!Called("size", 0, 0) \/ Net!Called("close", 0, 0)
      BY <3>1 DEF Net!Called, Calls, Net!Ops, Net!Numbers
    <3>2. CASE \E pos \in 0 .. Total - 1, n \in 1 .. MaxData : Net!Called("read", pos, n)
      <4>1. PICK pos \in 0 .. Total - 1, n \in 1 .. MaxData : Net!Called("read", pos, n)
        BY <3>2
      <4>2. pos \in 0 .. Total /\ n \in Nat  BY DEF Net!Numbers
      <4> QED  BY <4>1, <4>2 DEF Net!Called, Calls, Net!Ops
    <3> QED  BY <3>1, <3>2 DEF Net!NetCall
  <2> QED  BY <1>1, <2>1 DEF Net!CallInv, Calls
<1>3. Net!ConnectionInv' /\ Net!ClosedIsReleased' /\ Net!AnswersMatchRequests'
  BY <1>1
     DEF Net!NetInv, Net!ConnectionInv, Net!ClosedIsReleased, Net!AnswersMatchRequests,
         Net!device, Net!stream
<1>4. ~outOfStep => input' = <<>> /\ requests' = <<>>
  BY <1>1 DEF Net!NetInv, Net!StreamInv, Net!stream
<1>5. ~outOfStep' => Net!StreamInv' /\ (net_pc' = "decode" => Net!DecodeInv')
  BY <1>1, <1>4, IdleStream
<1> QED  BY <1>2, <1>3, <1>5 DEF Net!NetInv

LEMMA CloseFailedStep ==
  ASSUME Net!Numbers, Net!NetInv, Net!CloseFailed PROVE Net!NetInv'
<1>1. /\ net_pc = "close" /\ net_pc' = "send" /\ outOfStep' = outOfStep /\ call' = Net!CloseCall
      /\ UNCHANGED <<Net!device, Net!stream>>
  BY DEF Net!CloseFailed
<1>2. Net!CallInv'
  <2>1. Net!CloseCall \in Calls  BY DEF Net!CloseCall, Calls, Net!Ops, Net!Numbers
  <2> QED  BY <1>1, <2>1 DEF Net!CallInv, Calls
<1>3. Net!ConnectionInv' /\ Net!ClosedIsReleased' /\ Net!AnswersMatchRequests'
  BY <1>1
     DEF Net!NetInv, Net!ConnectionInv, Net!ClosedIsReleased, Net!AnswersMatchRequests,
         Net!device, Net!stream
<1>4. ~outOfStep => input' = <<>> /\ requests' = <<>>
  BY <1>1 DEF Net!NetInv, Net!StreamInv, Net!stream
<1>5. ~outOfStep' => Net!StreamInv' /\ (net_pc' = "decode" => Net!DecodeInv')
  BY <1>1, <1>4, IdleStream
<1> QED  BY <1>2, <1>3, <1>5 DEF Net!NetInv

\* A request is sent when nothing is left of the answer before it.
LEMMA SendStep ==
  ASSUME Net!Numbers, Net!NetInv, Net!Send PROVE Net!NetInv'
<1>1. /\ net_pc = "send" /\ net_pc' = "decode" /\ outOfStep' = outOfStep /\ call' = call
      /\ input' = input /\ conn' = conn /\ response' = Net!Garbage /\ seen' = {}
      /\ UNCHANGED Net!device
      /\ requests' \in {requests, Append(requests, call)}
      /\ conn # "up" => requests' = requests
  BY DEF Net!Send, Net!Defaults
<1>2. Net!CallInv'  BY <1>1 DEF Net!NetInv, Net!CallInv
<1>3. Net!ConnectionInv' /\ Net!ClosedIsReleased' /\ Net!AnswersMatchRequests'
  BY <1>1
     DEF Net!NetInv, Net!ConnectionInv, Net!ClosedIsReleased, Net!AnswersMatchRequests,
         Net!device
<1>4. ASSUME ~outOfStep' PROVE Net!StreamInv' /\ Net!DecodeInv'
  <2>1. input = <<>> /\ requests = <<>>  BY <1>1, <1>4 DEF Net!NetInv, Net!StreamInv
  <2>2. Net!IsSeq(input') /\ \A k \in DOMAIN input' : FALSE  BY <1>1, <2>1, NothingLeft
  <2>3. Append(<<>>, call) = <<call>>  OBVIOUS
  <2>4. requests' \in {<<>>, <<call'>>}  BY <1>1, <2>1, <2>3
  <2>5. Net!StreamInv'  BY <1>1, <2>1, <2>2, <2>4 DEF Net!StreamInv
  <2>6. Net!DecodeInv'  BY <1>1, <2>2 DEF Net!DecodeInv, Net!Garbage
  <2> QED  BY <2>5, <2>6
<1> QED  BY <1>2, <1>3, <1>4 DEF Net!NetInv

LEMMA SendFailsStep ==
  ASSUME Net!NetInv, Net!SendFails PROVE Net!NetInv'
<1>1. /\ net_pc = "send" /\ Net!Error /\ outOfStep' = outOfStep /\ call' = call
      /\ input' = input /\ requests' = requests /\ conn' = conn
      /\ UNCHANGED Net!device
  BY DEF Net!SendFails
<1>2. net_pc' \in {"close", "release", "idle"} /\ Net!CallInv' /\ Net!AnswersMatchRequests'
  BY <1>1, FailureAnswers DEF Net!NetInv
<1>3. Net!ConnectionInv' /\ Net!ClosedIsReleased'
  BY <1>1, <1>2 DEF Net!NetInv, Net!ConnectionInv, Net!ClosedIsReleased, Net!device
<1>4. ~outOfStep => input' = <<>> /\ requests' = <<>>
  BY <1>1 DEF Net!NetInv, Net!StreamInv
<1>5. ~outOfStep' => Net!StreamInv' /\ (net_pc' = "decode" => Net!DecodeInv')
  BY <1>1, <1>2, <1>4, IdleStream
<1> QED  BY <1>2, <1>3, <1>5 DEF Net!NetInv

LEMMA ReleaseStep ==
  ASSUME Net!NetInv, Net!Release PROVE Net!NetInv'
<1>1. /\ net_pc = "release" /\ net_pc' = "closed" /\ outOfStep' = outOfStep /\ call' = call
      /\ input' = <<>> /\ requests' = <<>> /\ net' = net
      /\ dev' = "none" /\ fd' = "none" /\ conn' = "none"
  BY DEF Net!Release
<1>2. Net!CallInv'  BY <1>1 DEF Net!NetInv, Net!CallInv
<1>3. Net!ConnectionInv' /\ Net!ClosedIsReleased' /\ Net!AnswersMatchRequests'
  BY <1>1 DEF Net!ConnectionInv, Net!ClosedIsReleased, Net!AnswersMatchRequests
<1>5. ~outOfStep' => Net!StreamInv' /\ (net_pc' = "decode" => Net!DecodeInv')
  BY <1>1, IdleStream
<1> QED  BY <1>2, <1>3, <1>5 DEF Net!NetInv

-----------------------------------------------------------------------------
(* A file or a device *)

LEMMA NetFileStep ==
  ASSUME Net!Numbers, Net!NetInv, Net!FileOpen \/ Net!FileRead \/ Net!FileSize \/ Net!FileClose
  PROVE  Net!NetInv'
<1>1. /\ ~net /\ net' = net /\ outOfStep' = outOfStep /\ UNCHANGED Net!stream
      /\ net_pc \in {"closed", "idle"} /\ net_pc' \in {"closed", "idle"}
  BY DEF Net!FileOpen, Net!FileRead, Net!FileSize, Net!FileClose, Net!Return, Net!device
<1>2. conn = "none" /\ conn' = "none" /\ Net!ConnectionInv'
  BY <1>1 DEF Net!NetInv, Net!ConnectionInv, Net!stream
<1>3. Net!ClosedIsReleased'
  <2>1. CASE net_pc' = "closed" /\ Net!FileOpen
    BY <1>1, <1>2, <2>1 DEF Net!FileOpen, Net!Return, Net!NetInv, Net!ClosedIsReleased
  <2>2. CASE net_pc' = "closed" /\ Net!FileClose
    BY <1>2, <2>2 DEF Net!FileClose, Net!ClosedIsReleased
  <2> QED  BY <2>1, <2>2 DEF Net!FileRead, Net!FileSize, Net!Return, Net!ClosedIsReleased
<1>4. ~outOfStep => input' = <<>> /\ requests' = <<>>
  BY <1>1 DEF Net!NetInv, Net!StreamInv, Net!stream
<1>5. ~outOfStep' => Net!StreamInv' /\ (net_pc' = "decode" => Net!DecodeInv')
  BY <1>1, <1>4, IdleStream
<1>6. Net!CallInv' /\ Net!AnswersMatchRequests'
  <2>1. CASE Net!FileOpen \/ Net!FileClose \/ Net!FileSize
    <3>1. call' \in Calls /\ call'.op # "read"
      BY <2>1
         DEF Net!FileOpen, Net!FileClose, Net!FileSize, Net!Called, Calls, Net!Ops, Net!Numbers
    <3>2. net_pc' = "idle" /\ call'.op = "size" => returned' \in {0, Total}
      BY <2>1 DEF Net!FileOpen, Net!FileClose, Net!FileSize, Net!Called, Net!Return
    <3> QED  BY <1>1, <3>1, <3>2 DEF Net!CallInv, Net!AnswersMatchRequests, Calls
  <2>2. CASE Net!FileRead
    <3>1. PICK pos \in 0 .. Total, n \in 1 .. MaxData :
            /\ Net!Called("read", pos, n)
            /\ \E m \in 0 .. Len(Net!Sectors(pos, n)) :
                 Net!Return(m) /\ buffer' = SubSeq(Net!Sectors(pos, n), 1, m)
      BY <2>2 DEF Net!FileRead
    <3>2. PICK m \in 0 .. Len(Net!Sectors(pos, n)) :
            Net!Return(m) /\ buffer' = SubSeq(Net!Sectors(pos, n), 1, m)
      BY <3>1
    <3>3. call' = [op |-> "read", pos |-> pos, n |-> n] /\ n \in Nat
      BY <3>1 DEF Net!Called, Net!Numbers
    <3>4. call' \in Calls /\ call'.pos = pos /\ call'.n = n /\ call'.op = "read"
      BY <3>3 DEF Calls, Net!Ops
    <3> DEFINE c == [op |-> "read", pos |-> pos, n |-> n]
    <3>5. c \in Calls /\ c.pos = pos /\ c.n = n  BY <3>3 DEF Calls, Net!Ops
    <3> HIDE DEF c
    <3> DEFINE read == Net!Sectors(pos, n)
    <3>6. /\ Len(read) \in 0 .. Total /\ Net!IsSeq(read) /\ Len(read) <= n
          /\ \A k \in 1 .. Len(read) : read[k] = pos + k - 1
      BY <3>5, NetSectorsRead
    <3>7. /\ returned' = m /\ buffer' = SubSeq(read, 1, m) /\ m \in 0 .. Len(read)
      BY <3>2 DEF Net!Return
    <3> HIDE DEF read
    <3>8. Len(buffer') = m /\ \A k \in 1 .. m : buffer'[k] = read[k]
      BY <3>6, <3>7, PrefixOf
    <3>9. m <= n /\ \A k \in 1 .. m : k <= m /\ buffer'[k] = pos + k - 1
      BY <3>3, <3>6, <3>7, <3>8 DEF Net!Numbers
    <3> QED  BY <1>1, <3>4, <3>7, <3>8, <3>9 DEF Net!CallInv, Net!AnswersMatchRequests, Calls
  <2> QED  BY <2>1, <2>2
<1> QED  BY <1>2, <1>3, <1>5, <1>6 DEF Net!NetInv

LEMMA NetStep ==
  ASSUME Net!Numbers, Net!NetInv, [Net!Next]_(Net!vars) PROVE Net!NetInv'
<1>1. CASE UNCHANGED Net!vars
  BY <1>1
     DEF Net!vars, Net!device, Net!stream, Net!decoder, Net!counts, Net!NetInv, Net!CallInv,
         Net!ConnectionInv,
              Net!ClosedIsReleased, Net!AnswersMatchRequests, Net!StreamInv, Net!DecodeInv
<1>2. CASE Net!Next
  BY <1>1, <1>2, AnswerStep, DisconnectStep, NetOpenStep, NetCallStep, CloseFailedStep,
     SendStep, SendFailsStep, TypeStep, ResultStep, DataStep, UnknownStep, RestStep,
     NetEndStep, EndOfStreamStep, ReleaseStep, NetFileStep
     DEF Net!Next, Net!Stop
<1> QED  BY <1>1, <1>2

-----------------------------------------------------------------------------
(* The results of the answers, in step or not *)

\* Fields whose results are numbers that an answer may hold.
Bounded(s) == Net!IsSeq(s) /\ \A k \in DOMAIN s : Net!Plain(s[k])

LEMMA BoundedJoined ==
  ASSUME NEW s, NEW t, Bounded(s), Bounded(t)
  PROVE  Bounded(s \o t)
<1>0. Net!IsSeq(s) /\ Net!IsSeq(t) /\ Len(s) \in Nat /\ Len(t) \in Nat
  BY DEF Bounded, Net!IsSeq
<1>1. Net!IsSeq(s \o t) /\ DOMAIN (s \o t) = 1 .. Len(s) + Len(t)  BY <1>0, Joined
<1>2. DOMAIN s = 1 .. Len(s) /\ DOMAIN t = 1 .. Len(t)  BY <1>0, SeqOfElements, IsSeqOf
<1>3. ASSUME NEW k \in 1 .. Len(s) + Len(t) PROVE Net!Plain((s \o t)[k])
  <2>1. CASE k <= Len(s)
    <3>1. k \in 1 .. Len(s)  BY <1>0, <2>1
    <3>2. (s \o t)[k] = s[k]  BY <1>0, <3>1, Joined
    <3> QED  BY <1>2, <3>1, <3>2 DEF Bounded
  <2>2. CASE k > Len(s)
    <3>1. k - Len(s) \in 1 .. Len(t) /\ k = Len(s) + (k - Len(s))  BY <1>0, <2>2
    <3>2. (s \o t)[k] = t[k - Len(s)]  BY <1>0, <3>1, Joined
    <3> QED  BY <1>2, <3>1, <3>2 DEF Bounded
  <2> QED  BY <1>0, <2>1, <2>2
<1> QED  BY <1>1, <1>3 DEF Bounded

LEMMA BoundedPrefix ==
  ASSUME NEW s, Bounded(s), NEW n \in 0 .. Len(s)
  PROVE  Bounded(SubSeq(s, 1, n))
<1>0. Net!IsSeq(s) /\ Len(s) \in Nat /\ \A k \in 1 .. n : k \in 1 .. Len(s)
  BY DEF Bounded, Net!IsSeq
<1> QED  BY <1>0, PrefixOf DEF Bounded

LEMMA BoundedTail ==
  ASSUME NEW s, Bounded(s), s # <<>>
  PROVE  Bounded(Tail(s)) /\ Net!Plain(s[1])
<1>0. Net!IsSeq(s)  BY DEF Bounded
<1>1. /\ Net!IsSeq(Tail(s)) /\ DOMAIN Tail(s) = 1 .. Len(s) - 1 /\ 1 \in DOMAIN s
      /\ \A k \in 1 .. Len(s) - 1 : k + 1 \in DOMAIN s /\ Tail(s)[k] = s[k + 1]
  BY <1>0, TailOf
<1> QED  BY <1>1 DEF Bounded

LEMMA OneBounded ==
  ASSUME NEW x, Net!Plain(x)
  PROVE  Bounded(<<x>>)
<1>1. <<x>> \in Seq({x}) /\ DOMAIN <<x>> = 1 .. 1 /\ <<x>>[1] = x  OBVIOUS
<1>2. \A k \in 1 .. 1 : k = 1  OBVIOUS
<1>3. Net!IsSeq(<<x>>)  BY <1>1, IsSeqOf
<1> QED  BY <1>1, <1>2, <1>3 DEF Bounded

LEMMA TwoBounded ==
  ASSUME NEW x, NEW y, Net!Plain(x), Net!Plain(y)
  PROVE  Bounded(<<x, y>>)
<1>1. <<x, y>> \in Seq({x, y}) /\ DOMAIN <<x, y>> = 1 .. 2 /\ <<x, y>>[1] = x /\ <<x, y>>[2] = y
  OBVIOUS
<1>2. \A k \in 1 .. 2 : k = 1 \/ k = 2  OBVIOUS
<1>3. Net!IsSeq(<<x, y>>)  BY <1>1, IsSeqOf
<1> QED  BY <1>1, <1>2, <1>3 DEF Bounded

LEMMA ThreeBounded ==
  ASSUME NEW x, NEW y, NEW z, Net!Plain(x), Net!Plain(y), Net!Plain(z)
  PROVE  Bounded(<<x, y, z>>) /\ Len(<<x, y, z>>) = 3 /\ <<x, y, z>>[1] = x
<1>1. /\ <<x, y, z>> \in Seq({x, y, z}) /\ Len(<<x, y, z>>) = 3 /\ DOMAIN <<x, y, z>> = 1 .. 3
      /\ <<x, y, z>>[1] = x /\ <<x, y, z>>[2] = y /\ <<x, y, z>>[3] = z
  OBVIOUS
<1>2. \A k \in 1 .. 3 : k = 1 \/ k = 2 \/ k = 3  OBVIOUS
<1>3. Net!IsSeq(<<x, y, z>>)  BY <1>1, IsSeqOf
<1> QED  BY <1>1, <1>2, <1>3 DEF Bounded

LEMMA GoodBounded ==
  ASSUME Net!Numbers, NEW c \in Calls
  PROVE  Bounded(Net!Good(c)) /\ Len(Net!Good(c)) >= 2 /\ Len(Net!Good(c)) \in Nat /\ Net!Plain(Net!Good(c)[1])
<1> DEFINE read == Net!Sectors(c.pos, c.n)
           x == Net!Field("type", <<c.op>>)
           y == Net!Field("result", <<IF c.op = "size" THEN Total
                                  ELSE IF c.op = "read" THEN Len(read) ELSE 0>>)
           z == Net!Field("data", read)
<1>0. c.op \in Net!Ops  BY DEF Calls
<1>1. Net!Good(c) = IF c.op = "read" THEN <<x, y, z>> ELSE <<x, y>>
  BY <1>0 DEF Net!Good, Net!Ops
<1>2. Net!Plain(x) /\ Net!Plain(z)  BY DEF Net!Plain, Net!Field
<1>3. Net!Plain(y)
  <2>1. Len(read) \in 0 .. Total  BY NetSectorsRead
  <2>2. \A v \in 0 .. Total : v \in -1 .. Total  BY DEF Net!Numbers
  <2>3. Total \in 0 .. Total /\ 0 \in 0 .. Total  BY DEF Net!Numbers
  <2>4. y.value[1] = IF c.op = "size" THEN Total ELSE IF c.op = "read" THEN Len(read) ELSE 0
    BY DEF Net!Field
  <2> HIDE DEF y, read
  <2> QED  BY <2>1, <2>2, <2>3, <2>4 DEF Net!Plain
<1> HIDE DEF x, y, z
<1>4. Bounded(<<x, y>>) /\ Len(<<x, y>>) = 2 /\ <<x, y>>[1] = x
  BY <1>2, <1>3, TwoBounded
<1>5. Bounded(<<x, y, z>>) /\ Len(<<x, y, z>>) = 3 /\ <<x, y, z>>[1] = x
  BY <1>2, <1>3, ThreeBounded
<1>6. CASE c.op = "read"  BY <1>1, <1>2, <1>5, <1>6
<1>7. CASE c.op # "read"  BY <1>1, <1>2, <1>4, <1>7
<1> QED  BY <1>6, <1>7

LEMMA BadBounded ==
  ASSUME Net!Numbers, NEW c \in Calls, NEW a \in Net!Bad(c)
  PROVE  Bounded(a)
<1> DEFINE good == Net!Good(c)
           other == <<Net!Field("type", <<"other">>), Net!Field("result", <<1>>)>>
           more == IF c.op = "read" THEN <<Net!Field("data", <<Net!NoSector>>)>> ELSE <<>>
           failed == <<good[1], Net!Field("result", <<-1>>)>>
           long == Net!Field("data", [k \in 1 .. MaxData + 1 |-> Net!NoSector])
<1>1. Bounded(good) /\ Len(good) \in Nat /\ Len(good) >= 2 /\ Net!Plain(good[1])
  BY GoodBounded
<1> HIDE DEF good
<1>2. Bounded(SubSeq(good, 1, 2)) /\ Bounded(SubSeq(good, 1, 1))  BY <1>1, BoundedPrefix
<1>3. /\ Net!Plain(Net!Field("varint", <<>>)) /\ Net!Plain(Net!Field("bytes", <<>>)) /\ Net!Plain(long)
      /\ Net!Plain(Net!Field("type", <<"other">>)) /\ Net!Plain(Net!Field("data", <<Net!NoSector>>))
  BY DEF Net!Plain, Net!Field
<1>4. Net!Plain(Net!Field("result", <<1>>)) /\ Net!Plain(Net!Field("result", <<-1>>))
  BY DEF Net!Plain, Net!Field, Net!Numbers
<1>5. Bounded(other) /\ Bounded(failed)  BY <1>1, <1>3, <1>4, TwoBounded
<1>6. Bounded(more)
  <2>1. Bounded(<<>>)
    <3>1. <<>> \in Seq({1}) /\ Len(<<>>) = 0  OBVIOUS
    <3>2. Net!IsSeq(<<>>) /\ DOMAIN <<>> = 1 .. 0  BY <3>1, IsSeqOf
    <3> QED  BY <3>2 DEF Bounded
  <2> QED  BY <1>3, <2>1, OneBounded
<1>7. Bounded(<<Net!Field("varint", <<>>)>>) /\ Bounded(<<Net!Field("bytes", <<>>)>>) /\ Bounded(<<long>>)
  BY <1>3, OneBounded
<1>8. /\ Bounded(other \o more)
      /\ Bounded(<<Net!Field("varint", <<>>)>> \o good) /\ Bounded(<<Net!Field("bytes", <<>>)>> \o good)
      /\ Bounded(SubSeq(good, 1, 2) \o <<long>>)
  BY <1>1, <1>2, <1>5, <1>6, <1>7, BoundedJoined
<1>9. \/ a = other \o more \/ a = failed
      \/ a = SubSeq(good, 1, 2) \/ a = SubSeq(good, 1, 1)
      \/ a = <<Net!Field("varint", <<>>)>> \o good \/ a = <<Net!Field("bytes", <<>>)>> \o good
      \/ a = SubSeq(good, 1, 2) \o <<long>>
  BY DEF Net!Bad, good
<1> HIDE DEF other, more, failed, long
<1> QED  BY <1>2, <1>5, <1>8, <1>9

\* What the stream gets and loses.
LEMMA StreamBounded ==
  ASSUME Net!Numbers, Net!NetInv, Net!ResultInv, Net!Next
  PROVE  Bounded(input') /\ requests' \in Seq(Calls)
<1>0. /\ Bounded(input) /\ requests \in Seq(Calls) /\ call \in Calls
      /\ Len(input) \in Nat
  BY DEF Net!ResultInv, Bounded, Net!IsSeq, Net!NetInv, Net!CallInv, Calls
<1>1. Bounded(<<>>)
  <2>1. <<>> \in Seq({1}) /\ Len(<<>>) = 0  OBVIOUS
  <2>2. Net!IsSeq(<<>>) /\ DOMAIN <<>> = 1 .. 0  BY <2>1, IsSeqOf
  <2> QED  BY <2>2 DEF Bounded
<1>2. <<>> \in Seq(Calls) /\ Append(requests, call) \in Seq(Calls)  BY <1>0
<1>3. CASE Net!Answer
  <2>1. requests # <<>> /\ requests' = Tail(requests)  BY <1>3 DEF Net!Answer
  <2>2. requests[1] \in Calls /\ requests' \in Seq(Calls)  BY <1>0, <2>1
  <2> DEFINE end == <<Net!Field("end", <<>>)>>
  <2>3. Net!Plain(Net!Field("end", <<>>))  BY DEF Net!Plain, Net!Field
  <2>4. Bounded(end)  BY <2>3, OneBounded
  <2>5. PICK a : /\ a = Net!Good(requests[1]) \/ a \in Net!Bad(requests[1])
                 /\ input' = input \o a \o end
    BY <1>3 DEF Net!Answer
  <2> HIDE DEF end
  <2>6. Bounded(a)  BY <2>2, <2>5, GoodBounded, BadBounded
  <2>7. Bounded(input \o a) /\ Bounded(a \o end)  BY <1>0, <2>4, <2>6, BoundedJoined
  <2>8. Bounded((input \o a) \o end) /\ Bounded(input \o (a \o end))
    BY <1>0, <2>4, <2>7, BoundedJoined
  <2> QED  BY <2>2, <2>5, <2>8
<1>4. CASE Net!Disconnect
  <2>1. PICK n \in 0 .. Len(input) : input' = SubSeq(input, 1, n)  BY <1>4 DEF Net!Disconnect
  <2> QED  BY <1>0, <1>2, <1>4, <2>1, BoundedPrefix DEF Net!Disconnect
<1>5. CASE UNCHANGED input /\ requests' \in {requests, Append(requests, call)}
  BY <1>0, <1>2, <1>5
<1>6. CASE input' = <<>> /\ requests' = <<>>  BY <1>1, <1>2, <1>6
<1>7. CASE input # <<>> /\ requests' = requests /\ (Net!Consume \/ Net!Rest)
  <2>1. Bounded(Tail(input))  BY <1>0, <1>7, BoundedTail
  <2>2. Net!Plain(Net!Field("rest", <<>>))  BY DEF Net!Plain, Net!Field
  <2>3. Bounded(<<Net!Field("rest", <<>>)>> \o Tail(input))
    BY <2>1, <2>2, OneBounded, BoundedJoined
  <2> QED  BY <1>0, <1>7, <2>1, <2>3 DEF Net!Consume, Net!Rest
<1>8. CASE Net!NetOpen \/ Net!Release  BY <1>6, <1>8 DEF Net!NetOpen, Net!Release
<1>9. CASE Net!NetCall \/ Net!CloseFailed \/ Net!Send \/ Net!SendFails \/ Net!EndOfStream
  BY <1>5, <1>9
     DEF Net!NetCall, Net!CloseFailed, Net!Send, Net!SendFails, Net!EndOfStream, Net!stream
<1>10. CASE Net!FileOpen \/ Net!FileRead \/ Net!FileSize \/ Net!FileClose \/ Net!Stop
  BY <1>5, <1>10
     DEF Net!FileOpen, Net!FileRead, Net!FileSize, Net!FileClose, Net!Stop, Net!stream, Net!vars
<1>11. CASE \/ Net!TypeField \/ Net!ResultField \/ Net!DataField \/ Net!UnknownNumber \/ Net!UnknownBytes
            \/ Net!RestOfField \/ Net!EndOfMessage
  BY <1>7, <1>11
     DEF Net!TypeField, Net!ResultField, Net!DataField, Net!UnknownNumber, Net!UnknownBytes,
     Net!RestOfField, Net!EndOfMessage, Net!Decoding, Net!Unread, Net!GiveUp
<1> QED  BY <1>3, <1>4, <1>8, <1>9, <1>10, <1>11 DEF Net!Next

\* What is decoded of it.
LEMMA ResponseBounded ==
  ASSUME Net!Numbers, Net!NetInv, Net!ResultInv, Net!Next
  PROVE  /\ DOMAIN response' = {"type", "result", "has_data"}
         /\ response'.result \in -1 .. Total
<1>0. /\ DOMAIN response = {"type", "result", "has_data"}
      /\ response.result \in -1 .. Total /\ Bounded(input)
  BY DEF Net!ResultInv, Bounded
<1>1. CASE response' = response  BY <1>0, <1>1
<1>2. CASE Net!Send
  <2>1. response' = Net!Garbage  BY <1>2 DEF Net!Send, Net!Defaults
  <2> QED  BY <2>1 DEF Net!Garbage, Net!Numbers
<1>3. CASE Net!TypeField
  <2>1. response' = [response EXCEPT !.type = input[1].value[1]]  BY <1>3 DEF Net!TypeField
  <2> QED  BY <1>0, <2>1
<1>4. CASE Net!ResultField
  <2>1. /\ response' = [response EXCEPT !.result = input[1].value[1]]
        /\ input # <<>> /\ input[1].field = "result"
    BY <1>4 DEF Net!ResultField, Net!Decoding, Net!Next1
  <2>2. input[1].value[1] \in -1 .. Total  BY <1>0, <2>1, BoundedTail DEF Net!Plain
  <2> QED  BY <1>0, <2>1, <2>2
<1>5. CASE Net!DataField
  <2>1. response' = response \/ response' = [response EXCEPT !.has_data = TRUE]
    BY <1>5 DEF Net!DataField
  <2> QED  BY <1>0, <2>1
<1>6. CASE Net!Answer \/ Net!Disconnect \/ Net!NetOpen \/ Net!NetCall \/ Net!CloseFailed \/ Net!SendFails
  BY <1>1, <1>6
     DEF Net!Answer, Net!Disconnect, Net!NetOpen, Net!NetCall, Net!CloseFailed, Net!SendFails,
         Net!decoder
<1>7. CASE Net!UnknownNumber \/ Net!UnknownBytes \/ Net!RestOfField \/ Net!EndOfMessage \/ Net!EndOfStream \/ Net!Release
  BY <1>1, <1>7
     DEF Net!UnknownNumber, Net!UnknownBytes, Net!RestOfField, Net!EndOfMessage,
         Net!EndOfStream,
     Net!Release, Net!decoder
<1>8. CASE Net!FileOpen \/ Net!FileRead \/ Net!FileSize \/ Net!FileClose \/ Net!Stop
  BY <1>1, <1>8
     DEF Net!FileOpen, Net!FileRead, Net!FileSize, Net!FileClose, Net!Stop, Net!vars,
         Net!decoder
<1> QED  BY <1>2, <1>3, <1>4, <1>5, <1>6, <1>7, <1>8 DEF Net!Next

-----------------------------------------------------------------------------
(* The types *)

LEMMA TypesStart == ASSUME Net!Numbers PROVE Net!Init => Net!TypeOK /\ Net!ResultInv
<1> SUFFICES ASSUME Net!Init PROVE Net!TypeOK /\ Net!ResultInv  OBVIOUS
<1>0. Net!Flags  BY Zenon DEF Net!Init, Net!Flags
<1>1. Net!TypeOK  BY <1>0 DEF Net!Init, Net!TypeOK, Net!CloseCall, Net!Ops, Net!Numbers
<1>2. <<>> \in Seq(Calls)  OBVIOUS
<1>3. Net!IsSeq(input) /\ \A k \in DOMAIN input : FALSE  BY NothingLeft DEF Net!Init
<1>4. Net!ResultInv  BY <1>2, <1>3 DEF Net!Init, Net!ResultInv, Net!Garbage, Calls, Net!Numbers
<1> QED  BY <1>1, <1>4

\* What a call returns: what was decoded, and 0 or 1.
LEMMA ReturnBounded ==
  ASSUME Net!Numbers, Net!NetInv, Net!TypeOK, Net!ResultInv, Net!Finish \/ Net!Error
  PROVE  returned' \in -1 .. Total
<1>1. returned \in -1 .. Total /\ response.result \in -1 .. Total
  BY DEF Net!TypeOK, Net!ResultInv
<1>2. 0 \in -1 .. Total /\ 1 \in -1 .. Total  BY DEF Net!Numbers
<1>3. call.op \in {"open", "size", "read", "close"}  BY DEF Net!TypeOK, Net!Ops
<1>4. CASE Net!Error  BY <1>1, <1>2, <1>3, <1>4 DEF Net!Error, Net!Return
<1>5. CASE Net!Finish /\ ~Net!Error  BY <1>1, <1>2, <1>3, <1>5 DEF Net!Finish, Net!Return
<1> QED  BY <1>4, <1>5

LEMMA AnyReturn ==
  ASSUME Net!Numbers, Net!NetInv, Net!TypeOK, Net!ResultInv, Net!Next
  PROVE  returned' \in -1 .. Total
<1>0. returned \in -1 .. Total  BY DEF Net!TypeOK
<1>1. 0 \in -1 .. Total /\ 1 \in -1 .. Total /\ Total \in -1 .. Total  BY DEF Net!Numbers
<1>2. CASE returned' = returned  BY <1>0, <1>2
<1>3. CASE Net!Finish \/ Net!Error  BY <1>3, ReturnBounded
<1>4. CASE Net!Answer \/ Net!Disconnect \/ Net!NetOpen \/ Net!NetCall \/ Net!CloseFailed \/ Net!Send
  BY <1>2, <1>4
     DEF Net!Answer, Net!Disconnect, Net!NetOpen, Net!NetCall, Net!CloseFailed, Net!Send
<1>5. CASE Net!SendFails \/ Net!EndOfMessage \/ Net!EndOfStream \/ Net!UnknownBytes
  BY <1>3, <1>5
     DEF Net!SendFails, Net!EndOfMessage, Net!EndOfStream, Net!UnknownBytes, Net!GiveUp
<1>6. CASE Net!TypeField \/ Net!ResultField \/ Net!DataField \/ Net!UnknownNumber \/ Net!RestOfField
  BY <1>2, <1>3, <1>6
     DEF Net!TypeField, Net!ResultField, Net!DataField, Net!UnknownNumber, Net!RestOfField,
         Net!GiveUp
<1>7. CASE Net!Release \/ Net!FileOpen \/ Net!FileSize \/ Net!FileClose \/ Net!Stop
  BY <1>1, <1>2, <1>7
     DEF Net!Release, Net!FileOpen, Net!FileSize, Net!FileClose, Net!Stop, Net!Return, Net!vars
<1>8. CASE Net!FileRead
  <2>1. PICK pos \in 0 .. Total, n \in 1 .. MaxData :
          \E m \in 0 .. Len(Net!Sectors(pos, n)) : Net!Return(m)
    BY <1>8 DEF Net!FileRead
  <2>2. PICK m \in 0 .. Len(Net!Sectors(pos, n)) : Net!Return(m)  BY <2>1
  <2> DEFINE c == [op |-> "read", pos |-> pos, n |-> n]
  <2>3. n \in Nat  BY <2>1 DEF Net!Numbers
  <2>4. c \in Calls /\ c.pos = pos /\ c.n = n  BY <2>1, <2>3 DEF Calls, Net!Ops
  <2> HIDE DEF c
  <2>5. Len(Net!Sectors(pos, n)) \in 0 .. Total  BY <2>4, NetSectorsRead
  <2>6. \A size \in 0 .. Total : \A v \in 0 .. size : v \in -1 .. Total  BY DEF Net!Numbers
  <2> QED  BY <2>2, <2>5, <2>6 DEF Net!Return
<1> QED  BY <1>4, <1>5, <1>6, <1>7, <1>8 DEF Net!Next

\* The device and the connection.
LEMMA DeviceTypes ==
  ASSUME Net!NetInv, Net!TypeOK, Net!Next
  PROVE  /\ dev' \in {"none", "bare", "device"}
         /\ fd' \in {"none", "zero", "invalid", "socket", "file"}
         /\ conn' \in {"none", "up", "down"}
<1>1. /\ dev \in {"none", "bare", "device"}
      /\ fd \in {"none", "zero", "invalid", "socket", "file"}
      /\ conn \in {"none", "up", "down"}
  BY DEF Net!TypeOK
<1>2. CASE Net!Answer \/ Net!Disconnect \/ Net!NetOpen \/ Net!NetCall \/ Net!CloseFailed \/ Net!Send \/ Net!SendFails
  BY <1>1, <1>2
     DEF Net!Answer, Net!Disconnect, Net!NetOpen, Net!NetCall, Net!CloseFailed, Net!Send,
         Net!SendFails,
     Net!device, Net!stream
<1>3. CASE Net!TypeField \/ Net!ResultField \/ Net!DataField \/ Net!UnknownNumber \/ Net!UnknownBytes \/ Net!RestOfField
  BY <1>1, <1>3
     DEF Net!TypeField, Net!ResultField, Net!DataField, Net!UnknownNumber, Net!UnknownBytes,
         Net!RestOfField,
     Net!GiveUp, Net!device, Net!Unread
<1>4. CASE Net!EndOfMessage \/ Net!EndOfStream \/ Net!Release
  BY <1>1, <1>4
     DEF Net!EndOfMessage, Net!EndOfStream, Net!Release, Net!device, Net!stream, Net!Unread
<1>5. CASE Net!FileOpen \/ Net!FileRead \/ Net!FileSize \/ Net!FileClose \/ Net!Stop
  BY <1>1, <1>5
     DEF Net!FileOpen, Net!FileRead, Net!FileSize, Net!FileClose, Net!Stop, Net!vars,
         Net!device, Net!stream
<1> QED  BY <1>2, <1>3, <1>4, <1>5 DEF Net!Next

LEMMA FlagTypes ==
  ASSUME Net!Flags, Net!Next PROVE Net!Flags'
<1>1. CASE Net!NetOpen \/ Net!Send \/ Net!SendFails
  <2>1. /\ garbled' = garbled \/ garbled' = TRUE \/ garbled' = FALSE
        /\ outOfStep' = outOfStep \/ outOfStep' = FALSE
    BY <1>1, Zenon DEF Net!NetOpen, Net!Send, Net!SendFails, Net!Flags
  <2> QED  BY <2>1, Zenon DEF Net!Flags
<1>2. CASE Net!DataField \/ Net!UnknownBytes \/ Net!RestOfField
  <2>1. garbled' = garbled /\ (outOfStep' = outOfStep \/ outOfStep' = TRUE)
    BY <1>2, Zenon DEF Net!DataField, Net!UnknownBytes, Net!RestOfField, Net!GiveUp, Net!Unread
  <2> QED  BY <2>1, Zenon DEF Net!Flags
<1>3. CASE garbled' = garbled /\ outOfStep' = outOfStep  BY <1>3, Zenon DEF Net!Flags
<1>4. CASE Net!Answer \/ Net!Disconnect \/ Net!NetCall \/ Net!CloseFailed \/ Net!EndOfStream
  BY <1>3, <1>4, Zenon
     DEF Net!Answer, Net!Disconnect, Net!NetCall, Net!CloseFailed, Net!EndOfStream, Net!stream
<1>5. CASE Net!TypeField \/ Net!ResultField \/ Net!UnknownNumber \/ Net!EndOfMessage \/ Net!Release \/ Net!Stop
  BY <1>3, <1>5, Zenon
     DEF Net!TypeField, Net!ResultField, Net!UnknownNumber, Net!EndOfMessage, Net!Release,
         Net!Stop,
     Net!Unread, Net!vars, Net!stream
<1>6. CASE Net!FileOpen \/ Net!FileRead \/ Net!FileSize \/ Net!FileClose
  BY <1>3, <1>6, Zenon DEF Net!FileOpen, Net!FileRead, Net!FileSize, Net!FileClose, Net!stream
<1> QED  BY <1>1, <1>2, <1>4, <1>5, <1>6 DEF Net!Next

\* The bounds of the calls and of the faults.
LEMMA CountTypes ==
  ASSUME Net!Numbers, Net!TypeOK, Net!Next
  PROVE  calls' \in 0 .. MaxCalls /\ faults' \in 0 .. MaxFaults
<1>0. calls \in 0 .. MaxCalls /\ faults \in 0 .. MaxFaults  BY DEF Net!TypeOK
<1>1. calls' = calls \/ (calls < MaxCalls /\ calls' = calls + 1)
  <2>1. CASE Net!NetOpen \/ Net!NetCall \/ Net!FileOpen \/ Net!FileRead \/ Net!FileSize \/ Net!FileClose
    BY <2>1
       DEF Net!NetOpen, Net!NetCall, Net!FileOpen, Net!FileRead, Net!FileSize, Net!FileClose,
           Net!Called
  <2>2. CASE Net!Answer \/ Net!Disconnect \/ Net!CloseFailed \/ Net!Send \/ Net!SendFails \/ Net!Release \/ Net!Stop
    BY <2>2
       DEF Net!Answer, Net!Disconnect, Net!CloseFailed, Net!Send, Net!SendFails, Net!Release,
           Net!Stop, Net!vars, Net!counts
  <2>3. CASE \/ Net!TypeField \/ Net!ResultField \/ Net!DataField \/ Net!UnknownNumber \/ Net!UnknownBytes
             \/ Net!RestOfField \/ Net!EndOfMessage \/ Net!EndOfStream
    BY <2>3
       DEF Net!TypeField, Net!ResultField, Net!DataField, Net!UnknownNumber, Net!UnknownBytes,
           Net!RestOfField,
       Net!EndOfMessage, Net!EndOfStream, Net!GiveUp, Net!counts
  <2> QED  BY <2>1, <2>2, <2>3 DEF Net!Next
<1>2. faults' = faults \/ (faults < MaxFaults /\ faults' = faults + 1)
  <2>1. CASE Net!NetOpen \/ Net!NetCall \/ Net!FileOpen \/ Net!FileRead \/ Net!FileSize \/ Net!FileClose
    BY <2>1
       DEF Net!NetOpen, Net!NetCall, Net!FileOpen, Net!FileRead, Net!FileSize, Net!FileClose
  <2>2. CASE Net!Answer \/ Net!Disconnect \/ Net!CloseFailed \/ Net!Send \/ Net!SendFails \/ Net!Release \/ Net!Stop
    BY <2>2
       DEF Net!Answer, Net!Disconnect, Net!CloseFailed, Net!Send, Net!SendFails, Net!Release,
           Net!Stop, Net!vars, Net!counts
  <2>3. CASE \/ Net!TypeField \/ Net!ResultField \/ Net!DataField \/ Net!UnknownNumber \/ Net!UnknownBytes
             \/ Net!RestOfField \/ Net!EndOfMessage \/ Net!EndOfStream
    BY <2>3
       DEF Net!TypeField, Net!ResultField, Net!DataField, Net!UnknownNumber, Net!UnknownBytes,
           Net!RestOfField,
       Net!EndOfMessage, Net!EndOfStream, Net!counts
  <2> QED  BY <2>1, <2>2, <2>3 DEF Net!Next
<1> QED  BY <1>0, <1>1, <1>2 DEF Net!Numbers

LEMMA TypesStep ==
  ASSUME Net!Numbers, Net!NetInv, Net!TypeOK, Net!ResultInv, [Net!Next]_(Net!vars)
  PROVE  (Net!TypeOK /\ Net!ResultInv)'
<1>1. CASE UNCHANGED Net!vars
  <2>1. Net!Flags'  BY <1>1, Zenon DEF Net!vars, Net!stream, Net!TypeOK, Net!Flags
  <2> QED
    BY <1>1, <2>1
       DEF Net!vars, Net!device, Net!stream, Net!decoder, Net!counts, Net!TypeOK, Net!ResultInv
<1>2. CASE Net!Next
  <2>1. Net!CallInv'  BY <1>2, NetStep DEF Net!NetInv
  <2>2. net_pc' \in {"closed", "idle", "send", "decode", "close", "release"} /\ call'.op \in Net!Ops
    BY <2>1 DEF Net!CallInv
  <2>3. Net!Flags'  BY <1>2, FlagTypes DEF Net!TypeOK
  <2>4. Net!TypeOK'  BY <1>2, <2>2, <2>3, DeviceTypes, AnyReturn, CountTypes DEF Net!TypeOK
  <2>5. Net!ResultInv'
    BY <1>2, StreamBounded, ResponseBounded DEF Net!ResultInv, Bounded, Calls
  <2> QED  BY <2>4, <2>5
<1> QED  BY <1>1, <1>2

-----------------------------------------------------------------------------
(* The theorems *)

\* The inductive invariant of the input layer (sacd_input.c): in step, what the
\* stream holds is the rest of one answer, and all of it answers the call that
\* waits or is of another type.
THEOREM NetInvariant == ASSUME Net!Numbers PROVE Net!Spec => []Net!NetInv
<1>1. Net!Init => Net!NetInv  BY NetStarts
<1>2. Net!NetInv /\ [Net!Next]_(Net!vars) => Net!NetInv'  BY NetStep
<1> QED  BY <1>1, <1>2, PTL DEF Net!Spec

\* The types of the input layer, in step or not, and what gives the results
\* their bounds.
THEOREM NetTypes == ASSUME Net!Numbers PROVE Net!Spec => [](Net!TypeOK /\ Net!ResultInv)
<1>1. Net!Init => Net!TypeOK /\ Net!ResultInv  BY TypesStart
<1>2. Net!NetInv /\ Net!TypeOK /\ Net!ResultInv /\ [Net!Next]_(Net!vars) => (Net!TypeOK /\ Net!ResultInv)'
  BY TypesStep
<1> QED  BY <1>1, <1>2, NetInvariant, PTL DEF Net!Spec

\* For every disc, every answer of the server and every loss of the connection:
\* as long as no message was given up halfway, sacd_input_read returns sectors
\* that were asked for, in their places, and sacd_input_total_sectors the size.
THEOREM NetAnswersMatch == ASSUME Net!Numbers PROVE Net!Spec => []Net!AnswersMatchRequests
<1>1. Net!NetInv => Net!AnswersMatchRequests  BY DEF Net!NetInv
<1> QED  BY <1>1, NetInvariant, PTL

\* Whatever failed between an open and its close, in step or not: the structure,
\* its buffer and its connection are released (sacd_net_input_close).
THEOREM CloseReleases == ASSUME Net!Numbers PROVE Net!Spec => []Net!ClosedIsReleased
<1>1. Net!NetInv => Net!ClosedIsReleased  BY DEF Net!NetInv
<1> QED  BY <1>1, NetInvariant, PTL

-----------------------------------------------------------------------------
(* Over the network *)

LEMMA NetPart == MCSpec => Net!Spec
<1>1. MCInit => Net!Init  BY DEF MCInit
<1>2. [MCNext]_<<part, vars, toc_vars, net_vars, lists_vars>> => [Net!Next]_Net!vars
  <2>1. UNCHANGED net_vars => UNCHANGED Net!vars
    BY DEF net_vars, Net!vars, Net!counts, Net!device, Net!stream, Net!decoder
  <2> QED  BY <2>1 DEF MCNext
<1> QED  BY <1>1, <1>2, PTL DEF MCSpec, Net!Spec

\* What a read over the network returns are the sectors that were asked for, or
\* it says that there are none: for every size of a disc and of the reads.
THEOREM AnswersMatch == MCSpec => []AnswersMatchRequests
<1>1. Net!Spec => []Net!AnswersMatchRequests  BY NetAnswersMatch, NetNumbers
<1> QED  BY <1>1, NetPart, PTL DEF AnswersMatchRequests

-----------------------------------------------------------------------------
(* The disc that is opened *)

\* scarletbook_open gives the areas that were read and accepted, each of its kind
\* and allocated, and scarletbook_read_area_toc finds the lists and the texts of
\* an area: for every state of the copies, every malloc and every area.
THEOREM SoundAreas == MCSpec => []OpenAreasAreSound
<1> QED  BY TocPart, NamedAreas, ListsPart, Found, PTL DEF OpenAreasAreSound

\* A first copy as mastered is used, whatever the state of its backup and of the
\* other area, unless that one claims to be this one.
THEOREM UsedIfGood == MCSpec => []GoodCopyIsUsed
<1> QED  BY TocPart, GoodCopies, PTL DEF GoodCopyIsUsed

\* scarletbook_close frees what scarletbook_open allocated if all first copies
\* are accepted as what they are, free_area the texts of the tracks, and closing
\* the input what opening it took.
THEOREM NothingIsLeft == MCSpec => []CloseFreesAll
<1>1. Toc!TocInv => Toc!CloseFreesAll  BY DEF Toc!TocInv
<1>2. Net!Spec => []Net!ClosedIsReleased  BY CloseReleases, NetNumbers
<1> QED  BY <1>1, <1>2, TocPart, ListsPart, Freed, NetPart, PTL DEF CloseFreesAll

\* The types of all variables, and the inductive invariants.
THEOREM ReadingTypes == MCSpec => []TypesOK
<1>1. Net!Spec => [](Net!TypeOK /\ Net!ResultInv /\ Net!NetInv)
  BY NetTypes, NetInvariant, NetNumbers, PTL
<1>2. FileInv => TypeOK /\ PlaceInv  BY DEF FileInv
<1> QED  BY <1>1, <1>2, FramesPart, File, Assembly, Local, TocPart, NetPart, ListsPart, PTL DEF TypesOK
=============================================================================
