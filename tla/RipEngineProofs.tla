--------------------------- MODULE RipEngineProofs ---------------------------
(* Proofs about RipEngine, for every layout of areas and tracks, every size   *)
(* of a block and every number of interrupts.                                 *)
EXTENDS MCRipEngine, TLAPS, SequenceTheorems, DataInduction

-----------------------------------------------------------------------------
(* The frames of the sectors read: Among is a recursive function, and what it *)
(* computes is proved by induction over the sectors.                          *)

LEMMA ExtendedIsSeq ==
  ASSUME NEW S, NEW s \in Nat, NEW seq \in Seq(Nat)
  PROVE  Extended(seq, S, s) \in Seq(Nat)
BY DEF Extended

Accumulates(a, S, lsn, n) ==
  /\ a \in [0..n -> Seq(Nat)]
  /\ a[0] = <<>>
  /\ \A i \in 1..n : a[i] = Extended(a[i - 1], S, lsn + i - 1)

\* What Among computes step by step.
LEMMA AmongFunction ==
  ASSUME NEW S, NEW lsn \in Nat, NEW n \in Nat
  PROVE  \E a : Accumulates(a, S, lsn, n) /\ Among(S, lsn, n) = a[n]
<1> DEFINE V == Seq(Nat)
           next == [i \in 1..n |-> [v \in V |-> Extended(v, S, lsn + i - 1)]]
           Is(a) == a = [i \in 0..n |-> IF i = 0 THEN <<>> ELSE Extended(a[i - 1], S, lsn + i - 1)]
<1>1. Steps(next, n, V)
  BY ExtendedIsSeq DEF Steps
<1>2. PICK empty : empty = <<>> /\ empty \in V
  <2>1. <<>> \in V
    OBVIOUS
  <2> QED BY <2>1
<1>3. PICK f : Solves(f, n, V, empty, next)
  <2> HIDE DEF next, V
  <2> QED BY <1>1, <1>2, Recursion
<1>4. Is(f)
  <2>1. \A i \in 1..n : i - 1 \in 0..n /\ f[i - 1] \in V
    BY <1>3 DEF Solves
  <2>2. \A i \in 1..n, v \in V : next[i][v] = Extended(v, S, lsn + i - 1)
    OBVIOUS
  <2> HIDE DEF next
  <2>3. \A i \in 1..n : f[i] = Extended(f[i - 1], S, lsn + i - 1)
    BY <1>3, <2>1, <2>2 DEF Solves
  <2>4. f = [i \in 0..n |-> f[i]] /\ f[0] = empty
    BY <1>3 DEF Solves
  <2>5. \A i \in 0..n : f[i] = IF i = 0 THEN empty ELSE Extended(f[i - 1], S, lsn + i - 1)
    <3> TAKE i \in 0..n
    <3>1. i = 0 \/ i \in 1..n
      OBVIOUS
    <3> QED BY <2>3, <2>4, <3>1
  <2> QED BY <2>4, <2>5, <1>2
<1> DEFINE a == CHOOSE g : Is(g)
<1>5. Is(a)
  BY <1>4
<1>6. Among(S, lsn, n) = a[n]
  BY DEF Among
<1> HIDE DEF a
<1>7. a[0] = <<>> /\ \A i \in 1..n : a[i] = Extended(a[i - 1], S, lsn + i - 1)
  BY <1>5
<1>8. DOMAIN a = 0..n /\ a = [i \in 0..n |-> a[i]]
  BY <1>5
<1> HIDE DEF Is
<1>9. 0..n \subseteq {i \in 0..n : a[i] \in Seq(Nat)}
  <2> DEFINE T == {i \in 0..n : a[i] \in Seq(Nat)}
  <2>1. 0 \in T
    <3>1. a[0] \in Seq(Nat)
      BY <1>2, <1>7
    <3> QED BY <3>1
  <2>2. \A i \in 1..n : i - 1 \in T => i \in T
    BY <1>7, ExtendedIsSeq
  <2> HIDE DEF T
  <2>3. 0..n \subseteq T
    BY <2>1, <2>2, Induction
  <2> QED BY <2>3 DEF T
<1>10. Accumulates(a, S, lsn, n)
  BY <1>7, <1>8, <1>9 DEF Accumulates
<1> QED BY <1>6, <1>10

LEMMA AmongIsSeq ==
  ASSUME NEW S, NEW lsn \in Nat, NEW n \in Nat
  PROVE  Among(S, lsn, n) \in Seq(Nat)
<1>1. PICK a : Accumulates(a, S, lsn, n) /\ Among(S, lsn, n) = a[n]
  BY AmongFunction
<1> QED BY <1>1 DEF Accumulates

LEMMA AmongNone ==
  ASSUME NEW S, NEW lsn \in Nat
  PROVE  Among(S, lsn, 0) = <<>>
<1>1. PICK a : Accumulates(a, S, lsn, 0) /\ Among(S, lsn, 0) = a[0]
  BY AmongFunction
<1> QED BY <1>1 DEF Accumulates

\* Among over one sector more.
LEMMA AmongStep ==
  ASSUME NEW S, NEW lsn \in Nat, NEW n \in Nat \ {0}
  PROVE  Among(S, lsn, n) = Extended(Among(S, lsn, n - 1), S, lsn + n - 1)
<1>1. PICK a : Accumulates(a, S, lsn, n - 1) /\ Among(S, lsn, n - 1) = a[n - 1]
  BY AmongFunction
<1>2. PICK b : Accumulates(b, S, lsn, n) /\ Among(S, lsn, n) = b[n]
  BY AmongFunction
<1> DEFINE T == {i \in 0..n - 1 : a[i] = b[i]}
<1>3. 0 \in T
  BY <1>1, <1>2 DEF Accumulates
<1>4. \A i \in 1..n - 1 : i - 1 \in T => i \in T
  BY <1>1, <1>2 DEF Accumulates
<1>5. n - 1 \in T
  <2> HIDE DEF T
  <2> QED BY <1>3, <1>4, Induction
<1>6. b[n] = Extended(b[n - 1], S, lsn + n - 1)
  BY <1>2 DEF Accumulates
<1> QED BY <1>1, <1>2, <1>5, <1>6

LEMMA ConcatThree ==
  ASSUME NEW r \in Seq(Nat), NEW s \in Seq(Nat), NEW t \in Seq(Nat)
  PROVE  (r \o s) \o t = r \o (s \o t)
BY ConcatAssociative, SMTT(30)

LEMMA ConcatSet ==
  ASSUME NEW s \in Seq(Nat), NEW t \in Seq(Nat)
  PROVE  ToSet(s \o t) = ToSet(s) \cup ToSet(t)
<1>1. \A u : ToSet(u) = Range(u)
  BY DEF ToSet, Range
<1> QED BY <1>1, RangeConcatenation

LEMMA AppendSet ==
  ASSUME NEW s \in Seq(Nat), NEW x \in Nat
  PROVE  ToSet(Append(s, x)) = ToSet(s) \cup {x}
<1>1. <<x>> \in Seq(Nat) /\ ToSet(<<x>>) = {x}
  BY DEF ToSet
<1>2. Append(s, x) = s \o <<x>>
  BY AppendIsConcat
<1> QED BY <1>1, <1>2, ConcatSet

\* What Among returns, as a set.
LEMMA AmongSet ==
  ASSUME NEW S, NEW lsn \in Nat, NEW n \in Nat
  PROVE  ToSet(Among(S, lsn, n)) = S \cap (lsn .. lsn + n - 1)
<1> DEFINE T == {i \in 0..n : ToSet(Among(S, lsn, i)) = S \cap (lsn .. lsn + i - 1)}
<1>1. 0 \in T
  <2>1. Among(S, lsn, 0) = <<>>
    BY AmongNone
  <2>2. ToSet(Among(S, lsn, 0)) = {}
    BY <2>1 DEF ToSet
  <2>3. lsn .. lsn + 0 - 1 = {}
    OBVIOUS
  <2> QED BY <2>2, <2>3
<1>2. ASSUME NEW i \in 1..n, i - 1 \in T
      PROVE  i \in T
  <2> DEFINE s == Among(S, lsn, i - 1)
  <2>1. s \in Seq(Nat) /\ ToSet(s) = S \cap (lsn .. lsn + (i - 1) - 1)
    BY <1>2, AmongIsSeq
  <2>2. Among(S, lsn, i) = Extended(s, S, lsn + i - 1)
    BY AmongStep
  <2> HIDE DEF s
  <2>3. CASE lsn + i - 1 \in S
    <3>1. Among(S, lsn, i) = Append(s, lsn + i - 1)
      BY <2>2, <2>3 DEF Extended
    <3>2. ToSet(Among(S, lsn, i)) = ToSet(s) \cup {lsn + i - 1}
      BY <3>1, <2>1, AppendSet
    <3> QED BY <3>2, <2>1, <2>3
  <2>4. CASE lsn + i - 1 \notin S
    <3>1. Among(S, lsn, i) = s
      BY <2>2, <2>4 DEF Extended
    <3> QED BY <3>1, <2>1, <2>4
  <2> QED BY <2>3, <2>4
<1>3. n \in T
  <2> HIDE DEF T
  <2> QED BY <1>1, <1>2, Induction
<1> QED BY <1>3

\* m sectors from lsn on, and n more from mid on, are all sectors from lsn on.
TwoReads(lsn, m, mid, n, all) ==
  {lsn, m, mid, n, all} \subseteq Nat /\ mid = lsn + m /\ all = m + n

\* Two reads in a row give what one read of both gives.
LEMMA AmongConcat ==
  ASSUME NEW S, NEW lsn, NEW m, NEW mid, NEW n, NEW all, TwoReads(lsn, m, mid, n, all)
  PROVE  Among(S, lsn, all) = Among(S, lsn, m) \o Among(S, mid, n)
<1> SUFFICES ASSUME lsn \in Nat, m \in Nat, n \in Nat
             PROVE  Among(S, lsn, m + n) = Among(S, lsn, m) \o Among(S, lsn + m, n)
  BY DEF TwoReads
<1> DEFINE T == {i \in 0..n : Among(S, lsn, m + i) = Among(S, lsn, m) \o Among(S, lsn + m, i)}
<1>1. 0 \in T
  <2>1. Among(S, lsn + m, 0) = <<>> /\ Among(S, lsn, m) \in Seq(Nat)
    BY AmongNone, AmongIsSeq
  <2>2. Among(S, lsn, m) \o Among(S, lsn + m, 0) = Among(S, lsn, m)
    BY <2>1
  <2> QED BY <2>2
<1>2. ASSUME NEW i \in 1..n, i - 1 \in T
      PROVE  i \in T
  <2> DEFINE a == Among(S, lsn, m)
             b == Among(S, lsn + m, i - 1)
             s == lsn + m + i - 1
  <2>2. a \in Seq(Nat) /\ b \in Seq(Nat) /\ s \in Nat
    BY AmongIsSeq
  <2>3. Among(S, lsn, m + i) = Extended(Among(S, lsn, m + i - 1), S, s)
    <3>1. PICK k \in Nat \ {0} : k = m + i
      OBVIOUS
    <3>2. Among(S, lsn, k) = Extended(Among(S, lsn, k - 1), S, lsn + k - 1)
      BY AmongStep
    <3>3. lsn + k - 1 = s /\ k - 1 = m + i - 1
      BY <3>1
    <3> QED BY <3>1, <3>2, <3>3
  <2>4. Among(S, lsn + m, i) = Extended(b, S, s)
    <3>1. lsn + m \in Nat /\ i \in Nat \ {0}
      OBVIOUS
    <3> QED BY <3>1, AmongStep
  <2>5. Among(S, lsn, m + i - 1) = a \o b
    <3>1. m + (i - 1) = m + i - 1
      OBVIOUS
    <3> QED BY <1>2, <3>1
  <2> HIDE DEF a, b, s
  <2>6. Extended(a \o b, S, s) = a \o Extended(b, S, s)
    <3>1. Append(a \o b, s) = a \o Append(b, s)
      <4>1. <<s>> \in Seq(Nat) /\ a \o b \in Seq(Nat)
        BY <2>2
      <4>2. Append(a \o b, s) = (a \o b) \o <<s>>
        BY <2>2, <4>1, AppendIsConcat
      <4>3. (a \o b) \o <<s>> = a \o (b \o <<s>>)
        BY <2>2, <4>1, ConcatThree
      <4>4. Append(b, s) = b \o <<s>>
        BY <2>2, AppendIsConcat
      <4> QED BY <4>2, <4>3, <4>4
    <3> QED BY <3>1 DEF Extended
  <2>7. Among(S, lsn, m + i) = a \o Among(S, lsn + m, i)
    BY <2>3, <2>4, <2>5, <2>6
  <2> QED BY <2>7 DEF a
<1>3. n \in T
  <2> HIDE DEF T
  <2> QED BY <1>1, <1>2, Induction
<1> QED BY <1>3

LEMMA KeptIsSeq ==
  ASSUME NEW f, NEW start \in Nat, NEW lsn \in Nat, start <= lsn
  PROVE  KeptIn(f, start, lsn - start) \in Seq(Nat)
<1>1. lsn - start \in Nat
  OBVIOUS
<1> QED BY <1>1, AmongIsSeq DEF KeptIn

-----------------------------------------------------------------------------
(* The sum of the lengths of a queue *)

IsQueue(files) == files \in Seq(Files)
Sums(a, files) ==
  /\ a \in [0..Len(files) -> Nat]
  /\ a[0] = 0
  /\ \A i \in 1..Len(files) : a[i] = a[i - 1] + files[i].length

LEMMA QueueLengths ==
  ASSUME NEW files, IsQueue(files)
  PROVE  Len(files) \in Nat /\ \A i \in 1..Len(files) : files[i].length \in Nat
<1>1. Len(files) \in Nat /\ \A i \in 1..Len(files) : files[i] \in Files
  BY DEF IsQueue
<1>2. \A f \in Files : f.length \in Nat
  BY DEF Files
<1> QED BY <1>1, <1>2

\* What SumLengths computes step by step.
LEMMA SumSteps ==
  ASSUME NEW files, IsQueue(files)
  PROVE  \E a : Sums(a, files) /\ SumLengths(files) = a[Len(files)]
<1> DEFINE n == Len(files)
           next == [i \in 1..n |-> [v \in Nat |-> v + files[i].length]]
           Is(a) == a = [i \in 0..n |-> IF i = 0 THEN 0 ELSE a[i - 1] + files[i].length]
<1>1. n \in Nat /\ \A i \in 1..n : files[i].length \in Nat
  BY QueueLengths
<1>2. Steps(next, n, Nat)
  BY <1>1 DEF Steps
<1>3. PICK f : Solves(f, n, Nat, 0, next)
  <2> HIDE DEF next
  <2> QED BY <1>1, <1>2, Recursion
<1> HIDE DEF n
<1>4. Is(f)
  <2>1. \A i \in 1..n : i - 1 \in 0..n /\ f[i - 1] \in Nat
    BY <1>1, <1>3 DEF Solves
  <2>2. \A i \in 1..n, v \in Nat : next[i][v] = v + files[i].length
    OBVIOUS
  <2> HIDE DEF next
  <2>3. \A i \in 1..n : f[i] = f[i - 1] + files[i].length
    BY <1>3, <2>1, <2>2 DEF Solves
  <2>4. f = [i \in 0..n |-> f[i]] /\ f[0] = 0
    BY <1>1, <1>3 DEF Solves
  <2>5. \A i \in 0..n : f[i] = IF i = 0 THEN 0 ELSE f[i - 1] + files[i].length
    <3> TAKE i \in 0..n
    <3>1. i = 0 \/ i \in 1..n
      BY <1>1
    <3> QED BY <2>3, <2>4, <3>1
  <2> QED BY <2>4, <2>5
<1> DEFINE a == CHOOSE g : Is(g)
<1>5. Is(a)
  BY <1>4
<1>6. SumLengths(files) = a[n]
  BY DEF SumLengths, n
<1> HIDE DEF a
<1>7. a[0] = 0 /\ \A i \in 1..n : a[i] = a[i - 1] + files[i].length
  BY <1>1, <1>5
<1>8. DOMAIN a = 0..n /\ a = [i \in 0..n |-> a[i]]
  BY <1>5
<1> HIDE DEF Is
<1>9. 0..n \subseteq {i \in 0..n : a[i] \in Nat}
  <2> DEFINE T == {i \in 0..n : a[i] \in Nat}
  <2>1. 0 \in T
    BY <1>1, <1>7
  <2>2. \A i \in 1..n : i - 1 \in T => i \in T
    BY <1>1, <1>7
  <2> HIDE DEF T
  <2>3. 0..n \subseteq T
    BY <1>1, <2>1, <2>2, Induction
  <2> QED BY <2>3 DEF T
<1>10. a \in [0..n -> Nat]
  <2>1. \A i \in 0..n : a[i] \in Nat
    BY <1>9
  <2> QED BY <1>8, <2>1
<1>11. Sums(a, files)
  BY <1>7, <1>10 DEF Sums, n
<1>12. SumLengths(files) = a[Len(files)]
  BY <1>6 DEF n
<1> QED BY <1>11, <1>12

LEMMA SumEmpty == SumLengths(<<>>) = 0
<1>1. IsQueue(<<>>) /\ Len(<<>>) = 0
  BY DEF IsQueue
<1>2. PICK empty : empty = <<>> /\ IsQueue(empty)
  BY <1>1
<1>3. PICK a : Sums(a, empty) /\ SumLengths(empty) = a[Len(empty)]
  BY <1>2, SumSteps
<1>4. a[0] = 0 /\ Len(empty) = 0
  BY <1>1, <1>2, <1>3 DEF Sums
<1> QED BY <1>2, <1>3, <1>4

LEMMA SumIsNat ==
  ASSUME NEW files, IsQueue(files)
  PROVE  SumLengths(files) \in Nat
<1>1. PICK a : Sums(a, files) /\ SumLengths(files) = a[Len(files)]
  BY SumSteps
<1>2. Len(files) \in 0..Len(files)
  BY DEF IsQueue
<1> QED BY <1>1, <1>2 DEF Sums

\* Taking a file off the queue takes its length off the sum.
LEMMA SumTail ==
  ASSUME NEW files, IsQueue(files), files # <<>>
  PROVE  SumLengths(files) = Head(files).length + SumLengths(Tail(files))
<1> DEFINE rest == Tail(files)
           n == Len(rest)
<1>1. /\ IsQueue(rest) /\ n \in Nat /\ Len(files) = n + 1
      /\ Head(files) = files[1] /\ \A i \in 1..n : rest[i] = files[i + 1]
  BY HeadTailProperties DEF IsQueue
<1>2. \A i \in 1..n + 1 : files[i].length \in Nat
  BY <1>1, QueueLengths
<1>3. PICK a : Sums(a, files) /\ SumLengths(files) = a[n + 1]
  <2>1. PICK a : Sums(a, files) /\ SumLengths(files) = a[Len(files)]
    BY SumSteps
  <2> QED BY <1>1, <2>1
<1>4. PICK b : Sums(b, rest) /\ SumLengths(rest) = b[n]
  <2> HIDE DEF rest
  <2> QED BY <1>1, SumSteps
<1> HIDE DEF rest
<1>5. /\ a \in [0..n + 1 -> Nat] /\ a[0] = 0
      /\ \A i \in 1..n + 1 : a[i] = a[i - 1] + files[i].length
  BY <1>1, <1>3 DEF Sums
<1>6. /\ b \in [0..n -> Nat] /\ b[0] = 0
      /\ \A i \in 1..n : b[i] = b[i - 1] + rest[i].length
  BY <1>4 DEF Sums
<1> HIDE DEF n
<1> DEFINE T == {i \in 0..n : a[i + 1] = files[1].length + b[i]}
<1>7. 0 \in T
  BY <1>1, <1>2, <1>5, <1>6
<1>8. ASSUME NEW i \in 1..n, i - 1 \in T PROVE i \in T
  <2>1. a[i + 1] = a[i] + files[i + 1].length
    <3>1. PICK k \in 1..n + 1 : k = i + 1
      BY <1>1
    <3>2. a[k] = a[k - 1] + files[k].length /\ k - 1 = i
      BY <1>5, <3>1
    <3> QED BY <3>1, <3>2
  <2>2. b[i] = b[i - 1] + files[i + 1].length /\ b[i - 1] \in Nat
    <3>1. i - 1 \in 0..n
      BY <1>1
    <3>2. b[i] = b[i - 1] + rest[i].length /\ rest[i] = files[i + 1]
      BY <1>1, <1>6
    <3> QED BY <1>6, <3>1, <3>2
  <2>3. a[i] = files[1].length + b[i - 1]
    <3>1. (i - 1) + 1 = i
      OBVIOUS
    <3> QED BY <1>8, <3>1
  <2>4. files[i + 1].length \in Nat /\ files[1].length \in Nat
    BY <1>1, <1>2
  <2>5. a[i + 1] = files[1].length + b[i]
    BY <2>1, <2>2, <2>3, <2>4
  <2> QED BY <1>1, <2>5
<1>9. n \in T
  <2> HIDE DEF T
  <2>1. n \in 0..n
    BY <1>1
  <2> QED BY <1>1, <1>7, <1>8, <2>1, Induction
<1> QED BY <1>1, <1>3, <1>4, <1>9 DEF rest

USE RipAssumption

-----------------------------------------------------------------------------
(* The files that main queues: their sectors. *)

LEMMA TrackFileIsFile ==
  ASSUME NEW first \in Tracks, NEW last \in Tracks, first <= last
  PROVE  TrackFile(first, last) \in Files
<1>1. /\ Tracks = 1..Len(TrackStarts) /\ Len(TrackStarts) \in Nat
      /\ \A t \in Tracks : TrackStarts[t] \in AreaStart..AreaEnd
  BY DEF Tracks
<1>2. TrackStart(first) \in AreaStart..AreaEnd /\ TrackStart(first) \in Nat
  BY <1>1 DEF TrackStart
<1>3. TrackLength(first, last) \in Nat
  <2>1. CASE last < Len(TrackStarts)
    <3>1. /\ last + 1 \in Tracks /\ TrackLength(first, last) = TrackStarts[last + 1] - TrackStart(first) + 1
          /\ first <= last + 1
      BY <1>1, <2>1 DEF TrackLength
    <3>2. TrackStart(first) <= TrackStarts[last + 1] /\ TrackStarts[last + 1] \in Nat
      BY <1>1, <3>1, SMTT(30) DEF TrackStart, Tracks
    <3> QED BY <1>2, <3>1, <3>2, SMTT(30)
  <2>2. CASE ~(last < Len(TrackStarts))
    BY <1>2, <2>2 DEF TrackLength
  <2> QED BY <2>1, <2>2
<1>4. first..last \subseteq Tracks /\ first \in FileIds
  BY <1>1 DEF FileIds
<1> QED BY <1>2, <1>3, <1>4 DEF TrackFile, Files

\* An ascending selection of tracks.
LEMMA SelectedTracks ==
  ASSUME NEW selected \in Selections
  PROVE  /\ DOMAIN selected = 1..Len(selected) /\ Len(selected) \in Nat \ {0}
         /\ \A i \in 1..Len(selected) : selected[i] \in Tracks
         /\ selected[1] <= selected[Len(selected)]
<1>1. PICK n \in 1..Len(TrackStarts) : selected \in [1..n -> Tracks]
  BY DEF Selections
<1>2. n \in Nat \ {0} /\ Len(selected) = n /\ DOMAIN selected = 1..n
  BY <1>1
<1>3. \A i \in 1..n : selected[i] \in Tracks
  BY <1>1
<1>4. Tracks \subseteq Nat
  BY DEF Tracks
<1>5. selected[1] <= selected[n]
  <2>1. CASE n = 1
    <3>1. 1 \in 1..n
      BY <1>2
    <3>2. selected[1] \in Nat
      BY <1>3, <1>4, <3>1
    <3> QED BY <2>1, <3>2
  <2>2. CASE n # 1
    <3>1. 1 \in DOMAIN selected /\ n \in DOMAIN selected /\ 1 < n
      BY <1>2, <2>2
    <3>2. selected[1] < selected[n]
      BY <3>1 DEF Selections
    <3> QED BY <1>2, <1>3, <1>4, <3>2
  <2> QED BY <2>1, <2>2
<1> QED BY <1>2, <1>3, <1>5

LEMMA QueuesAreFiles ==
  /\ ImageQueue \in Seq(Files) /\ MasterQueue \in Seq(Files)
  /\ \A selected \in Selections :
       TrackQueue(selected) \in Seq(Files) /\ ConcatQueue(selected) \in Seq(Files)
<1>1. ImageFile \in Files /\ MasterFile \in Files
  BY DEF ImageFile, MasterFile, Files, FileIds
<1>2. ASSUME NEW selected \in Selections
      PROVE  TrackQueue(selected) \in Seq(Files) /\ ConcatQueue(selected) \in Seq(Files)
  <2>1. Tracks \subseteq Nat
    BY DEF Tracks
  <2>2. \A i \in 1..Len(selected) : TrackFile(selected[i], selected[i]) \in Files
    <3> TAKE i \in 1..Len(selected)
    <3>1. selected[i] \in Tracks /\ selected[i] \in Nat
      BY <2>1, SelectedTracks
    <3>2. selected[i] <= selected[i]
      BY <3>1
    <3> QED BY <3>1, <3>2, TrackFileIsFile
  <2>3. TrackFile(selected[1], selected[Len(selected)]) \in Files
    BY SelectedTracks, TrackFileIsFile
  <2>4. TrackQueue(selected) \in Seq(Files)
    BY <2>2, SelectedTracks DEF TrackQueue
  <2> QED BY <2>3, <2>4 DEF ConcatQueue
<1> QED BY <1>1, <1>2 DEF ImageQueue, MasterQueue

-----------------------------------------------------------------------------
(* The inductive invariant: one lemma per action. *)

LEMMA InitInv == Init => RipInv
<1> SUFFICES ASSUME Init PROVE RipInv
  OBVIOUS
<1>1. /\ stop = 0 /\ tpc = "none" /\ mpc = "ready" /\ ft = NoFile /\ decoder = <<>>
      /\ block = [size |-> 0, encrypted |-> FALSE]
      /\ file = [id \in FileIds |-> FileAt("none", 0, <<>>)]
  BY DEF Init
<1>2. NoFile \in Files /\ 0 \in FileIds
  BY DEF NoFile, Files, FileIds
<1>3. queue \in Seq(Files)
  BY QueuesAreFiles DEF Init
<1>4. \A id \in FileIds : file[id].state = "none" /\ file[id].lsn = 0
                          /\ file[id] = FileAt(file[id].state, file[id].lsn, file[id].data)
  BY <1>1 DEF FileAt
<1>5. ft.id \in FileIds
  BY <1>1, <1>2 DEF Files
<1>6. ShapeInv
  BY <1>1, <1>2, <1>3, <1>4 DEF ShapeInv, ThreadLabels
<1>7. ThreadInv
  BY <1>1 DEF ThreadInv
<1>8. OpenInv
  BY <1>1, <1>4, <1>5 DEF OpenInv, FileOpen
<1>9. ReachInv /\ BlockInOneRegion
  BY <1>1, <1>4, <1>5 DEF ReachInv, BlockInOneRegion, FileOpen
<1> QED BY <1>6, <1>7, <1>8, <1>9 DEF RipInv

\* What the parts of the invariant depend on.
LEMMA Unchanged ==
  ASSUME RipInv, UNCHANGED <<stop, tpc, ft, queue, block, file, mpc, processing, decoder>>
  PROVE  RipInv'
<1>1. ShapeInv' /\ ThreadInv'
  BY DEF RipInv, ShapeInv, ThreadInv
<1>2. OpenInv'
  BY DEF RipInv, OpenInv, FileOpen
<1>3. ReachInv' /\ BlockInOneRegion'
  BY DEF RipInv, ReachInv, BlockInOneRegion, FileOpen, EndLsn
<1> QED BY <1>1, <1>2, <1>3 DEF RipInv

\* Main's steps: the thread starts, is told to stop, has ended.
LEMMA MainInv ==
  ASSUME RipInv, Start \/ DestroyInterrupt \/ Join
  PROVE  RipInv'
<1> USE DEF RipInv
<1>1. /\ UNCHANGED <<ft, queue, block, file, decoder, processing>>
      /\ stop' \in {stop, 1}
      /\ tpc' = tpc \/ (tpc = "none" /\ tpc' = "begin")
      /\ tpc' = "none" <=> mpc' = "ready"
      /\ mpc' = "done" => tpc' = "exited"
  BY DEF Start, DestroyInterrupt, Join, ThreadInv
<1>2. ShapeInv'
  BY <1>1 DEF ShapeInv, ThreadLabels
<1>3. ThreadInv'
  BY <1>1 DEF ThreadInv
<1>4. OpenInv'
  BY <1>1 DEF OpenInv, FileOpen
<1>5. ReachInv' /\ BlockInOneRegion'
  BY <1>1 DEF ReachInv, BlockInOneRegion, FileOpen, EndLsn
<1> QED BY <1>2, <1>3, <1>4, <1>5

\* An interrupt may come at any time: a stop that is pending stays so.
LEMMA SigintInv ==
  ASSUME RipInv, Sigint
  PROVE  RipInv'
<1> USE DEF RipInv, Sigint
<1>1. ShapeInv' /\ ThreadInv'
  BY DEF ShapeInv, ThreadInv
<1>2. OpenInv'
  BY DEF OpenInv, FileOpen
<1>3. ReachInv' /\ BlockInOneRegion'
  BY DEF ReachInv, BlockInOneRegion, FileOpen, EndLsn
<1> QED BY <1>1, <1>2, <1>3

\* The thread's steps from file to file.
LEMMA BetweenFilesInv ==
  ASSUME RipInv, Begin \/ Finish
  PROVE  RipInv'
<1> USE DEF RipInv
<1>1. /\ UNCHANGED <<stop, mpc, ft, queue, block, file, decoder>>
      /\ \/ tpc = "begin" /\ tpc' = "next"
         \/ tpc = "next" /\ tpc' = "exited" /\ queue = <<>> /\ processing' = 0
  BY DEF Begin, Finish
<1>2. ShapeInv'
  BY <1>1 DEF ShapeInv, ThreadLabels
<1>3. ThreadInv'
  BY <1>1 DEF ThreadInv
<1>4. OpenInv'
  BY <1>1 DEF OpenInv, FileOpen
<1>5. ReachInv' /\ BlockInOneRegion'
  BY <1>1 DEF OpenInv, ReachInv, BlockInOneRegion, FileOpen, EndLsn
<1> QED BY <1>2, <1>3, <1>4, <1>5

LEMMA TakeFileInv ==
  ASSUME RipInv, TakeFile
  PROVE  RipInv'
<1> USE DEF RipInv
<1>1. /\ UNCHANGED <<stop, mpc, processing, block, file>>
      /\ tpc = "next" /\ tpc' = "create" /\ decoder' = <<>>
      /\ queue # <<>> /\ ft' = Head(queue) /\ queue' = Tail(queue)
  BY DEF TakeFile
<1>2. ft' \in Files /\ queue' \in Seq(Files)
  BY <1>1 DEF ShapeInv
<1>3. ShapeInv'
  BY <1>1, <1>2 DEF ShapeInv, ThreadLabels
<1>4. ThreadInv'
  BY <1>1 DEF ThreadInv
<1>5. \A id \in FileIds : file'[id].state # "open"
  BY <1>1 DEF OpenInv
<1>6. ft'.id \in FileIds
  BY <1>2 DEF Files
<1>7. OpenInv'
  BY <1>1, <1>5, <1>6 DEF OpenInv, FileOpen
<1>8. ReachInv' /\ BlockInOneRegion'
  BY <1>1, <1>5, <1>6 DEF ReachInv, BlockInOneRegion, FileOpen
<1> QED BY <1>3, <1>4, <1>7, <1>8

LEMMA CreateEffect ==
  ASSUME RipInv, CreateFile \/ CreateFails
  PROVE  /\ DOMAIN file' = FileIds
         /\ \A id \in FileIds : id # ft.id => file'[id] = file[id]
         /\ file'[ft.id] = FileAt(file'[ft.id].state, file'[ft.id].lsn, file'[ft.id].data)
         /\ \/ /\ tpc' = "reset" /\ file'[ft.id].state = "open"
               /\ file'[ft.id].lsn = ft.start /\ file'[ft.id].data = <<>>
            \/ /\ tpc' = "check" /\ file'[ft.id].state = "failed"
               /\ file'[ft.id].lsn = file[ft.id].lsn /\ file'[ft.id].data = file[ft.id].data
<1> USE DEF RipInv
<1>1. ft.id \in FileIds
  BY DEF ShapeInv, Files
<1>2. /\ DOMAIN file' = FileIds
      /\ \A id \in FileIds : id # ft.id => file'[id] = file[id]
  BY <1>1 DEF CreateFile, CreateFails, ShapeInv
<1>3. CASE CreateFile
  <2>1. tpc' = "reset" /\ file'[ft.id] = FileAt("open", ft.start, <<>>)
    BY <1>1, <1>3 DEF CreateFile, ShapeInv
  <2> QED BY <1>2, <2>1 DEF FileAt
<1>4. CASE CreateFails
  <2>1. file'[ft.id] = [file[ft.id] EXCEPT !.state = "failed"] /\ tpc' = "check"
    BY <1>1, <1>4 DEF CreateFails, ShapeInv
  <2>2. file[ft.id] = FileAt(file[ft.id].state, file[ft.id].lsn, file[ft.id].data)
    BY <1>1 DEF ShapeInv
  <2>3. file'[ft.id] = FileAt("failed", file[ft.id].lsn, file[ft.id].data)
    BY <2>1, <2>2 DEF FileAt
  <2> QED BY <1>2, <2>1, <2>3 DEF FileAt
<1> QED BY <1>3, <1>4

\* The file is open at its first sector, or not at all.
LEMMA CreateInv ==
  ASSUME RipInv, CreateFile \/ CreateFails
  PROVE  RipInv'
<1> USE DEF RipInv
<1>1. /\ UNCHANGED <<stop, mpc, processing, queue, ft, block, decoder>>
      /\ tpc = "create"
      /\ ft.id \in FileIds /\ ft.start \in Nat /\ ft.length \in Nat
      /\ decoder = <<>>
      /\ \A id \in FileIds : file[id].state # "open"
  BY DEF CreateFile, CreateFails, ShapeInv, Files, OpenInv
<1>2. /\ DOMAIN file' = FileIds
      /\ \A id \in FileIds : id # ft.id => file'[id] = file[id]
      /\ file'[ft.id] = FileAt(file'[ft.id].state, file'[ft.id].lsn, file'[ft.id].data)
  BY CreateEffect
<1>3. \/ tpc' = "reset" /\ file'[ft.id].state = "open" /\ file'[ft.id].lsn = ft.start
      \/ tpc' = "check" /\ file'[ft.id].state = "failed" /\ file'[ft.id].lsn = file[ft.id].lsn
  BY CreateEffect
<1>4. file'[ft.id].lsn \in Nat
  BY <1>1, <1>3 DEF ShapeInv
<1>5. ShapeInv'
  BY <1>1, <1>2, <1>3, <1>4 DEF ShapeInv, ThreadLabels
<1>6. ThreadInv'
  BY <1>1, <1>3 DEF ThreadInv
<1>7. OpenInv'
  BY <1>1, <1>2, <1>3 DEF OpenInv, FileOpen
<1>8. ReachInv' /\ BlockInOneRegion'
  BY <1>1, <1>2, <1>3 DEF ReachInv, BlockInOneRegion, FileOpen, EndLsn
<1> QED BY <1>5, <1>6, <1>7, <1>8

LEMMA ResetStopInv ==
  ASSUME RipInv, ResetStop
  PROVE  RipInv'
<1> USE DEF RipInv, ResetStop
<1>1. ShapeInv' /\ ThreadInv'
  BY DEF ShapeInv, ThreadInv, ThreadLabels
<1>2. OpenInv'
  BY DEF OpenInv, FileOpen
<1>3. ReachInv' /\ BlockInOneRegion'
  BY DEF ReachInv, BlockInOneRegion, FileOpen, EndLsn
<1> QED BY <1>1, <1>2, <1>3

\* The block chosen lies in one region, whatever the layout of the areas.
LEMMA BlockChosen ==
  ASSUME NEW lsn \in Nat, NEW end \in Nat, lsn < end
  PROVE  LET n == LsnMin(end - lsn, LsnMin(Region(lsn).size, MaxBlock))
         IN  /\ n \in 1..MaxBlock /\ lsn + n <= end
             /\ \A s \in lsn .. lsn + n - 1 : s \in Encrypted <=> Region(lsn).encrypted
<1> DEFINE r == Region(lsn)
           n == LsnMin(end - lsn, LsnMin(r.size, MaxBlock))
<1>1. /\ r.size \in Nat \ {0}
      /\ \A s \in lsn .. lsn + r.size - 1 : s \in Encrypted <=> r.encrypted
  <2>1. CASE lsn < AreaStart
    <3>1. r = [size |-> AreaStart - lsn, encrypted |-> FALSE]
      BY <2>1 DEF Region
    <3> QED BY <2>1, <3>1 DEF Encrypted
  <2>2. CASE AreaStart <= lsn /\ lsn <= AreaEnd
    <3>1. r = [size |-> AreaEnd + 1 - lsn, encrypted |-> TRUE]
      BY <2>2 DEF Region
    <3> QED BY <2>2, <3>1 DEF Encrypted
  <2>3. CASE AreaEnd < lsn /\ lsn < OtherStart
    <3>1. r = [size |-> OtherStart - lsn, encrypted |-> FALSE]
      BY <2>3 DEF Region
    <3> QED BY <2>3, <3>1 DEF Encrypted
  <2>4. CASE OtherStart <= lsn /\ lsn <= OtherEnd
    <3>1. r = [size |-> OtherEnd + 1 - lsn, encrypted |-> TRUE]
      BY <2>4 DEF Region
    <3> QED BY <2>4, <3>1 DEF Encrypted
  <2>5. CASE OtherEnd < lsn
    <3>1. r = [size |-> MaxBlock, encrypted |-> FALSE]
      BY <2>5 DEF Region
    <3> QED BY <2>5, <3>1 DEF Encrypted
  <2> QED BY <2>1, <2>2, <2>3, <2>4, <2>5
<1>3. n \in 1..MaxBlock /\ n <= end - lsn /\ n <= r.size
  BY <1>1 DEF LsnMin
<1> HIDE DEF n, r
<1>4. lsn .. lsn + n - 1 \subseteq lsn .. lsn + r.size - 1 /\ lsn + n <= end
  BY <1>1, <1>3
<1> QED BY <1>1, <1>3, <1>4 DEF n, r

LEMMA LoopTestInv ==
  ASSUME RipInv, LoopTest
  PROVE  RipInv'
<1> USE DEF RipInv
<1> DEFINE lsn == file[ft.id].lsn
<1>1. /\ UNCHANGED <<stop, mpc, processing, queue, ft, file, decoder>>
      /\ tpc = "test" /\ FileOpen /\ ft.id \in FileIds
      /\ lsn \in Nat /\ EndLsn \in Nat /\ lsn <= EndLsn
  BY DEF LoopTest, OpenInv, ReachInv, ShapeInv, Files, EndLsn
<1>2. CASE stop = 0 /\ lsn < EndLsn
  <2>1. /\ block' = [size |-> BlockSize(lsn), encrypted |-> Region(lsn).encrypted]
        /\ tpc' = "read"
    BY <1>2 DEF LoopTest
  <2>2. /\ BlockSize(lsn) \in 1..MaxBlock /\ lsn + BlockSize(lsn) <= EndLsn
        /\ \A s \in lsn .. lsn + BlockSize(lsn) - 1 : s \in Encrypted <=> Region(lsn).encrypted
    BY <1>1, <1>2, BlockChosen DEF BlockSize
  <2>3. Region(lsn).encrypted \in BOOLEAN
    BY DEF Region
  <2>4. /\ block'.size = BlockSize(lsn) /\ block'.encrypted = Region(lsn).encrypted
        /\ block' \in [size : 0..MaxBlock, encrypted : BOOLEAN]
    BY <2>1, <2>2, <2>3
  <2>5. EndLsn' = EndLsn
    BY <1>1 DEF EndLsn
  <2>6. BlockInOneRegion'
    <3>1. /\ block'.size \in 1..MaxBlock /\ file'[ft'.id].lsn + block'.size <= EndLsn'
          /\ \A s \in file'[ft'.id].lsn .. file'[ft'.id].lsn + block'.size - 1 :
               s \in Encrypted <=> block'.encrypted
      BY <1>1, <2>2, <2>4, <2>5
    <3> QED BY <3>1 DEF BlockInOneRegion
  <2>7. ShapeInv'
    BY <1>1, <2>1, <2>4 DEF ShapeInv, ThreadLabels
  <2>8. ThreadInv' /\ OpenInv'
    BY <1>1, <2>1 DEF ThreadInv, OpenInv, FileOpen
  <2>9. ReachInv'
    BY <1>1, <2>1, <2>5 DEF ReachInv, FileOpen
  <2> QED BY <2>6, <2>7, <2>8, <2>9
<1>3. CASE ~(stop = 0 /\ lsn < EndLsn)
  <2>1. tpc' = "check" /\ UNCHANGED block
    BY <1>3 DEF LoopTest
  <2>2. stop = 1 \/ lsn = EndLsn
    BY <1>1, <1>3 DEF ShapeInv
  <2>3. ShapeInv' /\ ThreadInv'
    BY <1>1, <2>1 DEF ShapeInv, ThreadInv, ThreadLabels
  <2>4. OpenInv'
    BY <1>1, <2>1 DEF OpenInv, FileOpen
  <2>5. ReachInv' /\ BlockInOneRegion'
    BY <1>1, <2>1, <2>2 DEF ReachInv, BlockInOneRegion, FileOpen, EndLsn
  <2> QED BY <2>3, <2>4, <2>5
<1> QED BY <1>2, <1>3

\* What a read does to the file: the position advances by what was read, and
\* the frames that are kept reach the decoder or, but for those lost, the file.
LEMMA ReadEffect ==
  ASSUME RipInv, Read
  PROVE  \E n \in 1..block.size : \E lost \in SUBSET ToSet(Arrived(n)) :
           /\ DOMAIN file' = FileIds
           /\ \A id \in FileIds : id # ft.id => file'[id] = file[id]
           /\ file'[ft.id].state = file[ft.id].state
           /\ file'[ft.id].lsn = file[ft.id].lsn + n
           /\ file'[ft.id] = FileAt(file'[ft.id].state, file'[ft.id].lsn, file'[ft.id].data)
           /\ stop' \in {stop, 1} /\ stats' = Processed(n)
           /\ \/ /\ format = "dst" /\ decoder' = decoder \o Arrived(n)
                 /\ file'[ft.id].data = file[ft.id].data /\ failure' = failure
              \/ /\ format # "dst" /\ decoder' = decoder
                 /\ file'[ft.id].data
                      = file[ft.id].data \o Among(KeptOf(ft) \ lost, file[ft.id].lsn, n)
                 /\ failure' = (failure \/ lost # {})
<1> USE DEF RipInv
<1>1. PICK n \in 1..block.size : (ReadForDecoder(n) \/ ReadAndWrite(n)) /\ stats' = Processed(n)
  BY DEF Read
<1>2. tpc = "read" /\ ft.id \in FileIds
  BY DEF Read, ShapeInv, Files
<1>3. file[ft.id] = FileAt(file[ft.id].state, file[ft.id].lsn, file[ft.id].data)
  BY <1>2 DEF ShapeInv
<1>4. Advanced(n) = FileAt(file[ft.id].state, file[ft.id].lsn + n, file[ft.id].data)
  BY <1>3, SMTT(30) DEF Advanced, FileAt
<1>5. CASE ReadForDecoder(n)
  <2>1. /\ DOMAIN file' = FileIds
        /\ \A id \in FileIds : id # ft.id => file'[id] = file[id]
        /\ file'[ft.id] = FileAt(file[ft.id].state, file[ft.id].lsn + n, file[ft.id].data)
    BY <1>2, <1>4, <1>5 DEF ReadForDecoder, ShapeInv
  <2>2. /\ file'[ft.id].state = file[ft.id].state
        /\ file'[ft.id].lsn = file[ft.id].lsn + n
        /\ file'[ft.id].data = file[ft.id].data
    BY <2>1 DEF FileAt
  <2>3. PICK lost \in SUBSET ToSet(Arrived(n)) : lost = {}
    OBVIOUS
  <2>4. file'[ft.id] = FileAt(file'[ft.id].state, file'[ft.id].lsn, file'[ft.id].data)
    BY <2>1, <2>2
  <2>5. /\ stop' = stop /\ stats' = Processed(n) /\ format = "dst"
        /\ decoder' = decoder \o Arrived(n) /\ failure' = failure
    BY <1>1, <1>5 DEF ReadForDecoder
  <2> QED BY <2>1, <2>2, <2>3, <2>4, <2>5
<1>6. CASE ReadAndWrite(n)
  <2>1. PICK lost \in SUBSET ToSet(Arrived(n)) :
          /\ file' = [file EXCEPT ![ft.id] =
                        [Advanced(n) EXCEPT !.data =
                           @ \o Among(KeptOf(ft) \ lost, file[ft.id].lsn, n)]]
          /\ stop' = IF lost = {} THEN stop ELSE 1
          /\ failure' = (failure \/ lost # {})
    BY <1>6 DEF ReadAndWrite
  <2>2. PICK more : more = Among(KeptOf(ft) \ lost, file[ft.id].lsn, n)
    OBVIOUS
  <2>3. PICK f : f = Advanced(n)
    OBVIOUS
  <2>4. file' = [file EXCEPT ![ft.id] = [f EXCEPT !.data = @ \o more]]
    BY <2>1, <2>2, <2>3
  <2>5. [f EXCEPT !.data = @ \o more]
          = FileAt(file[ft.id].state, file[ft.id].lsn + n, file[ft.id].data \o more)
    <3>1. PICK state, lsn, data : /\ state = file[ft.id].state
                                  /\ lsn = file[ft.id].lsn + n
                                  /\ data = file[ft.id].data
      OBVIOUS
    <3>2. f = FileAt(state, lsn, data)
      BY <1>4, <2>3, <3>1
    <3>3. f.data = data
      BY <3>2 DEF FileAt
    <3>4. \A new : [f EXCEPT !.data = new] = FileAt(state, lsn, new)
      BY <3>2 DEF FileAt
    <3> QED BY <3>1, <3>3, <3>4
  <2>6. /\ DOMAIN file' = FileIds
        /\ \A id \in FileIds : id # ft.id => file'[id] = file[id]
        /\ file'[ft.id] = FileAt(file[ft.id].state, file[ft.id].lsn + n,
                                 file[ft.id].data \o more)
    BY <1>2, <2>4, <2>5 DEF ShapeInv
  <2>7. /\ file'[ft.id].state = file[ft.id].state
        /\ file'[ft.id].lsn = file[ft.id].lsn + n
        /\ file'[ft.id].data = file[ft.id].data \o more
    BY <2>6 DEF FileAt
  <2>8. file'[ft.id] = FileAt(file'[ft.id].state, file'[ft.id].lsn, file'[ft.id].data)
    BY <2>6, <2>7
  <2>9. stop' \in {stop, 1} /\ stats' = Processed(n) /\ format # "dst" /\ decoder' = decoder
    BY <1>1, <1>6, <2>1 DEF ReadAndWrite
  <2> QED BY <2>1, <2>2, <2>6, <2>7, <2>8, <2>9
<1> QED BY <1>1, <1>5, <1>6

\* However few blocks a read returns, the file does not go beyond its end.
LEMMA ReadInv ==
  ASSUME RipInv, Read
  PROVE  RipInv'
<1> USE DEF RipInv
<1>1. PICK n \in 1..block.size :
        /\ DOMAIN file' = FileIds
        /\ \A id \in FileIds : id # ft.id => file'[id] = file[id]
        /\ file'[ft.id].state = file[ft.id].state
        /\ file'[ft.id].lsn = file[ft.id].lsn + n
        /\ file'[ft.id] = FileAt(file'[ft.id].state, file'[ft.id].lsn, file'[ft.id].data)
        /\ stop' \in {stop, 1}
  BY ReadEffect
<1>2. /\ UNCHANGED <<mpc, processing, queue, ft, block>>
      /\ tpc = "read" /\ tpc' = "test"
      /\ ft.id \in FileIds /\ FileOpen
      /\ file[ft.id].lsn \in Nat /\ block.size \in Nat /\ n \in Nat
      /\ file[ft.id].lsn + n <= EndLsn
  BY SMTT(30) DEF Read, ShapeInv, OpenInv, Files, BlockInOneRegion, EndLsn
<1>3. ShapeInv'
  <2>1. file'[ft.id].lsn \in Nat
    BY <1>1, <1>2
  <2> QED BY <1>1, <1>2, <2>1 DEF ShapeInv, ThreadLabels
<1>4. ThreadInv'
  BY <1>2 DEF ThreadInv
<1>5. OpenInv'
  BY <1>1, <1>2 DEF OpenInv, FileOpen
<1>6. ReachInv'
  BY <1>1, <1>2 DEF ReachInv, FileOpen, EndLsn
<1>7. BlockInOneRegion'
  BY <1>2 DEF BlockInOneRegion
<1> QED BY <1>3, <1>4, <1>5, <1>6, <1>7

LEMMA ReadFailsInv ==
  ASSUME RipInv, ReadFails
  PROVE  RipInv'
<1> USE DEF RipInv, ReadFails
<1>1. ShapeInv' /\ ThreadInv'
  BY DEF ShapeInv, ThreadInv, ThreadLabels
<1>2. OpenInv'
  BY DEF OpenInv, FileOpen
<1>3. ReachInv' /\ BlockInOneRegion'
  BY DEF ReachInv, BlockInOneRegion, FileOpen, EndLsn
<1> QED BY <1>1, <1>2, <1>3

\* A file that was cut short leaves a stop pending, which this test finds.
LEMMA CheckInv ==
  ASSUME RipInv, Check
  PROVE  RipInv'
<1> USE DEF RipInv
<1>1. /\ UNCHANGED <<stop, mpc, queue, ft, block, file, decoder>>
      /\ tpc = "check"
      /\ \/ stop = 1 /\ tpc' = "stopdrain" /\ processing' = 0
         \/ stop # 1 /\ tpc' = "drain" /\ processing' = processing
  BY DEF Check, Stopped
<1>2. ShapeInv' /\ ThreadInv'
  BY <1>1 DEF ShapeInv, ThreadInv, ThreadLabels
<1>3. OpenInv'
  BY <1>1 DEF OpenInv, FileOpen
<1>4. ReachInv' /\ BlockInOneRegion'
  BY <1>1 DEF ReachInv, BlockInOneRegion, FileOpen, EndLsn
<1> QED BY <1>2, <1>3, <1>4

LEMMA DrainInv ==
  ASSUME RipInv, Drain
  PROVE  RipInv'
<1> USE DEF RipInv
<1>1. /\ UNCHANGED <<stop, mpc, processing, queue, ft, block, file, decoder>>
      /\ decoder = <<>>
      /\ \/ tpc = "drain" /\ tpc' = "close"
         \/ tpc = "stopdrain" /\ tpc' = "stopclose"
  BY DEF Drain
<1>2. ShapeInv' /\ ThreadInv'
  BY <1>1 DEF ShapeInv, ThreadInv, ThreadLabels
<1>3. OpenInv'
  BY <1>1 DEF OpenInv, FileOpen
<1>4. ReachInv' /\ BlockInOneRegion'
  BY <1>1 DEF ReachInv, BlockInOneRegion, FileOpen, EndLsn
<1> QED BY <1>2, <1>3, <1>4

LEMMA CloseEffect ==
  ASSUME RipInv, Close
  PROVE  /\ DOMAIN file' = FileIds
         /\ \A id \in FileIds : id # ft.id => file'[id] = file[id]
         /\ file'[ft.id] = FileAt(file'[ft.id].state, file'[ft.id].lsn, file'[ft.id].data)
         /\ file'[ft.id].lsn = file[ft.id].lsn /\ file'[ft.id].data = file[ft.id].data
         /\ \/ FileOpen /\ file'[ft.id].state = "closed"
            \/ file[ft.id].state = "failed" /\ file'[ft.id].state = "failed"
<1> USE DEF RipInv
<1>1. ft.id \in FileIds /\ file[ft.id].state \in {"open", "failed"}
  BY DEF Close, ShapeInv, Files, OpenInv
<1>2. file[ft.id] = FileAt(file[ft.id].state, file[ft.id].lsn, file[ft.id].data)
  BY <1>1 DEF ShapeInv
<1>3. CASE FileOpen
  <2>1. file' = [file EXCEPT ![ft.id].state = "closed"]
    BY <1>3 DEF Close
  <2>2. /\ DOMAIN file' = FileIds
        /\ \A id \in FileIds : id # ft.id => file'[id] = file[id]
        /\ file'[ft.id] = [file[ft.id] EXCEPT !.state = "closed"]
    BY <1>1, <2>1 DEF ShapeInv
  <2>3. file'[ft.id] = FileAt("closed", file[ft.id].lsn, file[ft.id].data)
    BY <1>2, <2>2 DEF FileAt
  <2> QED BY <1>3, <2>2, <2>3 DEF FileAt
<1>4. CASE ~FileOpen
  <2>1. file' = file /\ DOMAIN file = FileIds /\ file[ft.id].state = "failed"
    BY <1>1, <1>4 DEF Close, FileOpen, ShapeInv
  <2> QED BY <1>2, <2>1
<1> QED BY <1>3, <1>4

LEMMA CloseInv ==
  ASSUME RipInv, Close
  PROVE  RipInv'
<1> USE DEF RipInv
<1>1. /\ UNCHANGED <<stop, mpc, processing, ft, block, decoder>>
      /\ tpc \in {"close", "stopclose"}
      /\ ft.id \in FileIds /\ decoder = <<>>
  BY DEF Close, ShapeInv, Files, OpenInv
<1>2. /\ queue' \in Seq(Files)
      /\ \/ tpc = "close" /\ tpc' = "next" /\ queue' = queue
         \/ tpc = "stopclose" /\ tpc' = "exited" /\ queue' = <<>>
  BY DEF Close, ShapeInv
<1>3. /\ DOMAIN file' = FileIds
      /\ \A id \in FileIds : id # ft.id => file'[id] = file[id]
      /\ file'[ft.id].lsn = file[ft.id].lsn
      /\ file'[ft.id] = FileAt(file'[ft.id].state, file'[ft.id].lsn, file'[ft.id].data)
      /\ file'[ft.id].state \in {"closed", "failed"}
      /\ file'[ft.id].state = "closed" => FileOpen
  BY CloseEffect
<1>4. ShapeInv'
  BY <1>1, <1>2, <1>3 DEF ShapeInv, ThreadLabels
<1>5. ThreadInv'
  BY <1>1, <1>2 DEF ThreadInv
<1>6. OpenInv'
  <2>1. \A id \in FileIds : file'[id].state # "open"
    BY <1>1, <1>3 DEF OpenInv
  <2> QED BY <1>1, <1>2, <1>3, <2>1 DEF OpenInv, FileOpen
<1>7. ReachInv'
  BY <1>1, <1>2, <1>3 DEF ReachInv, FileOpen, EndLsn
<1>8. BlockInOneRegion'
  BY <1>2 DEF BlockInOneRegion
<1> QED BY <1>4, <1>5, <1>6, <1>7, <1>8

LEMMA CallbackEffect ==
  ASSUME RipInv, Callback
  PROVE  /\ DOMAIN file' = FileIds
         /\ \A id \in FileIds : id # ft.id => file'[id] = file[id]
         /\ file'[ft.id].state = file[ft.id].state /\ file'[ft.id].lsn = file[ft.id].lsn
         /\ file'[ft.id] = FileAt(file'[ft.id].state, file'[ft.id].lsn, file'[ft.id].data)
         /\ \/ /\ file'[ft.id].data = Append(file[ft.id].data, Head(decoder))
               /\ UNCHANGED <<stop, failure>>
            \/ file'[ft.id].data = file[ft.id].data /\ stop' = 1 /\ failure' = TRUE
<1> USE DEF RipInv
<1>1. ft.id \in FileIds
  BY DEF ShapeInv, Files
<1>2. file[ft.id] = FileAt(file[ft.id].state, file[ft.id].lsn, file[ft.id].data)
  BY <1>1 DEF ShapeInv
<1>3. CASE file' = file /\ stop' = 1 /\ failure' = TRUE
  <2>1. DOMAIN file = FileIds
    BY DEF ShapeInv
  <2> QED BY <1>2, <1>3, <2>1
<1>4. CASE file' = [file EXCEPT ![ft.id].data = Append(@, Head(decoder))]
           /\ UNCHANGED <<stop, failure>>
  <2>1. /\ DOMAIN file' = FileIds
        /\ \A id \in FileIds : id # ft.id => file'[id] = file[id]
        /\ file'[ft.id] = [file[ft.id] EXCEPT !.data = Append(@, Head(decoder))]
    BY <1>1, <1>4 DEF ShapeInv
  <2>2. file'[ft.id] = FileAt(file[ft.id].state, file[ft.id].lsn,
                              Append(file[ft.id].data, Head(decoder)))
    BY <1>2, <2>1 DEF FileAt
  <2>3. /\ file'[ft.id].state = file[ft.id].state /\ file'[ft.id].lsn = file[ft.id].lsn
        /\ file'[ft.id].data = Append(file[ft.id].data, Head(decoder))
    BY <2>2, SMTT(30) DEF FileAt
  <2> QED BY <1>4, <2>1, <2>2, <2>3
<1> QED BY <1>3, <1>4 DEF Callback

\* The decoder's write thread adds to the file that is open.
LEMMA CallbackInv ==
  ASSUME RipInv, Callback
  PROVE  RipInv'
<1> USE DEF RipInv
<1>1. /\ UNCHANGED <<mpc, processing, queue, tpc, ft, block>>
      /\ decoder # <<>> /\ FileOpen /\ ft.id \in FileIds
  BY DEF Callback, ShapeInv, Files, OpenInv
<1>2. /\ DOMAIN file' = FileIds
      /\ \A id \in FileIds : id # ft.id => file'[id] = file[id]
      /\ file'[ft.id].state = file[ft.id].state /\ file'[ft.id].lsn = file[ft.id].lsn
      /\ file'[ft.id] = FileAt(file'[ft.id].state, file'[ft.id].lsn, file'[ft.id].data)
      /\ stop' \in {stop, 1}
  BY CallbackEffect
<1>3. ShapeInv'
  BY <1>1, <1>2 DEF ShapeInv
<1>4. ThreadInv'
  BY <1>1 DEF ThreadInv
<1>5. OpenInv'
  BY <1>1, <1>2 DEF OpenInv, FileOpen
<1>6. ReachInv' /\ BlockInOneRegion'
  BY <1>1, <1>2 DEF ReachInv, BlockInOneRegion, FileOpen, EndLsn
<1> QED BY <1>3, <1>4, <1>5, <1>6

LEMMA NextInv ==
  ASSUME RipInv, [Next]_vars
  PROVE  RipInv'
<1>1. CASE Start \/ DestroyInterrupt \/ Join
  BY <1>1, MainInv
<1>2. CASE ProcessingThread
  BY <1>2, BetweenFilesInv, TakeFileInv, CreateInv, ResetStopInv, LoopTestInv,
     ReadInv, ReadFailsInv, CheckInv, DrainInv, CloseInv DEF ProcessingThread
<1>3. CASE UNCHANGED vars
  BY <1>3, Unchanged DEF vars
<1> QED BY <1>1, <1>2, <1>3, SigintInv, CallbackInv DEF Next, Finished

\* The inductive invariant of the ripping engine.
THEOREM InductiveInvariant == Spec => []RipInv
<1>1. Init => RipInv
  BY InitInv
<1>2. RipInv /\ [Next]_vars => RipInv'
  BY NextInv
<1> QED BY <1>1, <1>2, PTL DEF Spec

-----------------------------------------------------------------------------
(* What follows from it *)

\* The block sizes of processing_thread are right for every layout of a disc:
\* a read is never empty, never longer than the buffer, never beyond the end of
\* the file, and all of it is encrypted or none.
THEOREM BlocksInOneRegion == Spec => []BlockInOneRegion
<1>1. RipInv => BlockInOneRegion
  BY DEF RipInv
<1> QED BY <1>1, InductiveInvariant, PTL

\* Whenever and however often it is interrupted, the engine begins no file after
\* one that was cut short.
THEOREM NothingAfterCutShort == Spec => NoneAfterCutShort
<1>1. RipInv /\ [Next]_vars =>
        [TakesNextFile => file[ft.id].state # "closed" \/ file[ft.id].lsn = EndLsn]_vars
  BY DEF RipInv, ReachInv, TakesNextFile
<1> QED BY <1>1, InductiveInvariant, PTL DEF Spec, NoneAfterCutShort

\* However the thread ends, scarletbook_output_destroy returns with every file
\* closed, no frame in a decoder and an empty queue.
THEOREM CleanEnd == Spec => []NothingOpen
<1>1. RipInv => NothingOpen
  BY DEF RipInv, NothingOpen, ThreadInv, OpenInv
<1> QED BY <1>1, InductiveInvariant, PTL

\* Frames are in the decoder only while the file they belong to is open.
THEOREM NoFrameWithoutFile == Spec => [](decoder # <<>> => FileOpen)
<1>1. RipInv => (decoder # <<>> => FileOpen)
  BY DEF RipInv, OpenInv
<1> QED BY <1>1, InductiveInvariant, PTL

-----------------------------------------------------------------------------
(* What the files hold, and how far the engine is: RipDataInv. *)

\* A selection is queued without a track twice.
LEMMA PlannedQueues ==
  ASSUME Init
  PROVE  /\ \A i \in DOMAIN queue : Planned(queue[i])
         /\ \A i, j \in DOMAIN queue : i # j => queue[i].id # queue[j].id
<1>1. Tracks \subseteq Nat
  BY DEF Tracks
<1>2. CASE (format = "iso" /\ queue = ImageQueue) \/ (format # "iso" /\ queue = MasterQueue)
  <2>1. DOMAIN queue = {1}
    BY <1>2 DEF ImageQueue, MasterQueue
  <2>2. Planned(queue[1])
    BY <1>2 DEF Planned, ImageQueue, MasterQueue
  <2> QED BY <2>1, <2>2
<1>3. ASSUME format # "iso", NEW selected \in Selections,
             queue = TrackQueue(selected)
      PROVE  /\ \A i \in DOMAIN queue : Planned(queue[i])
             /\ \A i, j \in DOMAIN queue : i # j => queue[i].id # queue[j].id
  <2>1. DOMAIN queue = DOMAIN selected /\ DOMAIN selected = 1..Len(selected)
        /\ Len(selected) \in Nat
    BY <1>3, SelectedTracks DEF TrackQueue
  <2>2. \A i \in DOMAIN selected : selected[i] \in Tracks /\ selected[i] \in Nat
    BY <1>1, <2>1, SelectedTracks
  <2>3. \A i \in DOMAIN queue : queue[i] = TrackFile(selected[i], selected[i])
    BY <1>3, <2>1 DEF TrackQueue
  <2>4. \A i \in DOMAIN queue : queue[i].id = selected[i]
    BY <2>3 DEF TrackFile
  <2>5. ASSUME NEW i \in DOMAIN queue PROVE Planned(queue[i])
    <3>1. selected[i] <= selected[i] /\ selected[i] \in Tracks
      BY <2>1, <2>2
    <3> QED BY <1>3, <2>3, <3>1 DEF Planned
  <2>6. ASSUME NEW i \in DOMAIN queue, NEW j \in DOMAIN queue, i # j
        PROVE  queue[i].id # queue[j].id
    <3>1. selected[i] # selected[j]
      <4>1. \A k, l \in DOMAIN selected : k < l => selected[k] < selected[l]
        BY DEF Selections
      <4>2. i < j \/ j < i
        BY <2>1, <2>6
      <4> QED BY <2>1, <2>2, <4>1, <4>2
    <3> QED BY <2>4, <3>1
  <2> QED BY <2>5, <2>6
<1>4. ASSUME format # "iso", ~trimming, NEW selected \in Selections,
             queue = ConcatQueue(selected)
      PROVE  /\ \A i \in DOMAIN queue : Planned(queue[i])
             /\ \A i, j \in DOMAIN queue : i # j => queue[i].id # queue[j].id
  <2>1. DOMAIN queue = {1} /\ queue[1] = TrackFile(selected[1], selected[Len(selected)])
    BY <1>4 DEF ConcatQueue
  <2>2. /\ selected[1] \in Tracks /\ selected[Len(selected)] \in Tracks
        /\ selected[1] <= selected[Len(selected)]
    BY SelectedTracks
  <2>3. Planned(queue[1])
    BY <1>4, <2>1, <2>2 DEF Planned
  <2> QED BY <2>1, <2>3
<1> QED BY <1>2, <1>3, <1>4 DEF Init

LEMMA InitData == Init => RipDataInv
<1> SUFFICES ASSUME Init PROVE RipDataInv
  OBVIOUS
<1>1. /\ tpc = "none" /\ ft = NoFile /\ decoder = <<>> /\ stats = [total |-> 0, done |-> 0]
      /\ format \in Formats /\ trimming \in BOOLEAN /\ failure = FALSE
      /\ file = [id \in FileIds |-> FileAt("none", 0, <<>>)]
  BY DEF Init
<1>2. \A id \in FileIds : file[id].state = "none" /\ file[id].data = <<>>
  BY <1>1 DEF FileAt
<1>3. queue \in Seq(Files) /\ ft.id \in FileIds
  BY InitInv DEF RipInv, ShapeInv, Files
<1>4. \A i \in DOMAIN queue : queue[i].id \in FileIds
  <2>1. \A i \in DOMAIN queue : queue[i] \in Files
    BY <1>3
  <2> QED BY <2>1 DEF Files
<1>5. QueueInv
  BY <1>1, <1>2, <1>3, <1>4, PlannedQueues DEF QueueInv
<1>6. <<>> \in Seq(Nat)
  OBVIOUS
<1>7. DataInv
  BY <1>1, <1>2, <1>3, <1>6 DEF DataInv
<1>8. ProgressInv
  BY <1>1 DEF ProgressInv
<1> QED BY <1>5, <1>7, <1>8 DEF RipDataInv

\* The thread is between two files.
Between == tpc \in {"none", "begin", "next"}

\* Steps that leave the files, the decoder and the queue alone.
LEMMA QuietData ==
  ASSUME RipDataInv, UNCHANGED <<format, trimming, queue, ft, file, decoder>>,
         failure' \in {failure, TRUE},
         \/ UNCHANGED tpc \/ (Between /\ Between')
         \/ tpc # "exited" /\ ~Between /\ ~Between' /\ tpc' # "create"
  PROVE  QueueInv' /\ DataInv'
<1>1. \A f : Planned(f)' <=> Planned(f)
  BY DEF Planned
<1>2. QueueInv'
  <2>1. CASE Between /\ Between'
    BY <1>1, <2>1 DEF RipDataInv, QueueInv, Between
  <2>2. CASE tpc # "exited" /\ ~Between /\ ~Between' /\ tpc' # "create"
    <3>1. Planned(ft)
      BY <2>2 DEF RipDataInv, QueueInv, Between
    <3> QED BY <1>1, <2>2, <3>1 DEF RipDataInv, QueueInv, Between
  <2>3. CASE UNCHANGED tpc
    BY <1>1, <2>3 DEF RipDataInv, QueueInv
  <2> QED BY <2>1, <2>2, <2>3
<1>3. DataInv'
  BY DEF RipDataInv, DataInv, KeptIn, KeptOf, Kept
<1> QED BY <1>2, <1>3

\* Nothing of the statistics changes, and the thread keeps its place.
LEMMA QuietProgress ==
  ASSUME RipDataInv, UNCHANGED <<queue, ft, file, stats>>,
         tpc \notin {"none", "exited"},
         UNCHANGED Rest \/ tpc' = "exited"
  PROVE  ProgressInv'
BY DEF RipDataInv, ProgressInv

\* Main's steps: the total is that of the queue.
LEMMA MainData ==
  ASSUME RipInv, RipDataInv, Start \/ DestroyInterrupt \/ Join \/ Sigint
  PROVE  RipDataInv'
<1>1. /\ UNCHANGED <<format, trimming, queue, ft, file, decoder, failure>>
      /\ UNCHANGED tpc \/ (tpc = "none" /\ tpc' = "begin")
  BY DEF Start, DestroyInterrupt, Join, Sigint, modeVars, history, RipInv, ThreadInv
<1>2. QueueInv' /\ DataInv'
  BY <1>1, QuietData DEF Between
<1>3. ProgressInv'
  <2>1. CASE Start
    <3>1. /\ stats' = [total |-> SumLengths(queue), done |-> 0] /\ tpc' = "begin"
          /\ queue' = queue
      BY <2>1 DEF Start
    <3>2. SumLengths(queue) \in Nat
      BY SumIsNat DEF RipInv, ShapeInv, IsQueue
    <3>3. stats'.total = SumLengths(queue') /\ stats'.done = 0 /\ DOMAIN stats' = {"total", "done"}
      BY <3>1
    <3>4. Rest' = 0
      BY <3>1 DEF Rest
    <3> QED BY <3>1, <3>2, <3>3, <3>4 DEF ProgressInv
  <2>2. CASE DestroyInterrupt \/ Join \/ Sigint
    <3>1. UNCHANGED <<queue, ft, file, stats, tpc>>
      BY <2>2 DEF DestroyInterrupt, Join, Sigint
    <3>2. UNCHANGED Rest
      BY <3>1 DEF Rest, EndLsn
    <3> QED BY <3>1, <3>2 DEF RipDataInv, ProgressInv
  <2> QED BY <2>1, <2>2
<1> QED BY <1>2, <1>3 DEF RipDataInv

\* The thread's steps that neither read nor write.
LEMMA ThreadData ==
  ASSUME RipInv, RipDataInv, Begin \/ ResetStop \/ LoopTest \/ ReadFails \/ Check \/ Drain
  PROVE  RipDataInv'
<1>1. /\ UNCHANGED <<format, trimming, queue, ft, file, decoder, stats>>
      /\ failure' \in {failure, TRUE}
      /\ \/ tpc = "begin" /\ tpc' = "next"
         \/ /\ tpc \in {"reset", "test", "read", "check", "drain", "stopdrain"}
            /\ tpc' \in {"test", "read", "check", "drain", "stopdrain", "close", "stopclose"}
  BY DEF Begin, ResetStop, LoopTest, ReadFails, Check, Drain, modeVars, history
<1>2. QueueInv' /\ DataInv'
  BY <1>1, QuietData DEF Between
<1>3. UNCHANGED Rest
  BY <1>1 DEF Rest, EndLsn
<1>4. ProgressInv'
  BY <1>1, <1>3, QuietProgress
<1> QED BY <1>2, <1>4 DEF RipDataInv

LEMMA FinishData ==
  ASSUME RipInv, RipDataInv, Finish
  PROVE  RipDataInv'
<1>1. /\ UNCHANGED <<format, trimming, queue, ft, file, decoder, stats, failure>>
      /\ tpc = "next" /\ tpc' = "exited" /\ queue = <<>>
  BY DEF Finish, modeVars, history
<1>2. QueueInv'
  <2>1. \A f : Planned(f)' <=> Planned(f)
    BY <1>1 DEF Planned
  <2>2. DOMAIN queue' = {}
    BY <1>1
  <2> QED BY <1>1, <2>1, <2>2 DEF RipDataInv, QueueInv
<1>3. DataInv'
  BY <1>1 DEF RipDataInv, DataInv, KeptIn, KeptOf, Kept
<1>4. ProgressInv'
  BY <1>1, QuietProgress
<1> QED BY <1>2, <1>3, <1>4 DEF RipDataInv

\* The file taken off the queue is one that was not begun before.
LEMMA TakeFileData ==
  ASSUME RipInv, RipDataInv, TakeFile
  PROVE  RipDataInv'
<1> DEFINE rest == Tail(queue)
<1>1. /\ UNCHANGED <<format, trimming, file, stats, failure>>
      /\ tpc = "next" /\ tpc' = "create" /\ decoder' = <<>> /\ queue # <<>>
      /\ ft' = Head(queue) /\ queue' = rest
  BY DEF TakeFile, modeVars, history
<1>2. queue \in Seq(Files)
  BY DEF RipInv, ShapeInv
<1>3. /\ Head(queue) = queue[1] /\ 1 \in DOMAIN queue
      /\ \A i \in DOMAIN rest : rest[i] = queue[i + 1] /\ i + 1 \in DOMAIN queue /\ i + 1 # 1
      /\ \A i, j \in DOMAIN rest : i # j => i + 1 # j + 1
  <2>1. DOMAIN rest = 1..Len(queue) - 1 /\ DOMAIN queue = 1..Len(queue) /\ Len(queue) \in Nat \ {0}
    BY <1>1, <1>2, HeadTailProperties
  <2>2. Head(queue) = queue[1] /\ \A i \in 1..Len(queue) - 1 : rest[i] = queue[i + 1]
    BY <1>1, <1>2, HeadTailProperties
  <2> HIDE DEF rest
  <2> QED BY <2>1, <2>2
<1> HIDE DEF rest
<1>4. \A f : Planned(f)' <=> Planned(f)
  BY <1>1 DEF Planned
<1>5. \A i \in DOMAIN queue : Planned(queue[i]) /\ file[queue[i].id].state = "none"
  BY DEF RipDataInv, QueueInv
<1>6. \A i, j \in DOMAIN queue : i # j => queue[i].id # queue[j].id
  BY DEF RipDataInv, QueueInv
<1>7. QueueInv'
  <2>1. /\ Planned(ft)' /\ file'[ft'.id].state = "none"
    BY <1>1, <1>3, <1>4, <1>5
  <2>2. ASSUME NEW i \in DOMAIN queue'
        PROVE  Planned(queue[i])' /\ file'[queue'[i].id].state = "none" /\ queue'[i].id # ft'.id
    <3>1. queue'[i] = queue[i + 1] /\ i + 1 \in DOMAIN queue /\ i + 1 # 1
      BY <1>1, <1>3
    <3>2. queue[i + 1].id # queue[1].id
      BY <1>3, <1>6, <3>1
    <3> QED BY <1>1, <1>3, <1>4, <1>5, <3>1, <3>2
  <2>3. ASSUME NEW i \in DOMAIN queue', NEW j \in DOMAIN queue', i # j
        PROVE  queue'[i].id # queue'[j].id
    <3>1. /\ queue'[i] = queue[i + 1] /\ i + 1 \in DOMAIN queue
          /\ queue'[j] = queue[j + 1] /\ j + 1 \in DOMAIN queue
          /\ i + 1 # j + 1
      BY <1>1, <1>3, <2>3
    <3> QED BY <1>6, <3>1
  <2> QED BY <1>1, <2>1, <2>2, <2>3 DEF QueueInv
<1>8. DataInv'
  <2>1. <<>> \in Seq(Nat)
    OBVIOUS
  <2>2. file'[ft'.id].state = "none"
    BY <1>1, <1>3, <1>5
  <2> QED BY <1>1, <2>1, <2>2 DEF RipDataInv, DataInv
<1>9. ProgressInv'
  <2>1. SumLengths(queue) = Head(queue).length + SumLengths(rest)
    BY <1>1, <1>2, SumTail DEF IsQueue, rest
  <2>2. Head(queue).length \in Nat
    <3>1. Head(queue) \in Files
      BY <1>1, <1>2
    <3> QED BY <3>1 DEF Files
  <2>3. SumLengths(rest) \in Nat
    <3>1. IsQueue(rest)
      BY <1>1, <1>2 DEF IsQueue, rest
    <3> QED BY <3>1, SumIsNat
  <2>4. Rest = 0 /\ Rest' = Head(queue).length
    BY <1>1 DEF Rest
  <2> QED BY <1>1, <2>1, <2>2, <2>3, <2>4 DEF RipDataInv, ProgressInv
<1> QED BY <1>7, <1>8, <1>9 DEF RipDataInv

\* A step that changes only the file the thread works on leaves the queue valid.
LEMMA QueueKept ==
  ASSUME RipInv, RipDataInv, UNCHANGED <<format, trimming, ft>>,
         queue' = queue \/ queue' = <<>>,
         \A id \in FileIds : id # ft.id => file'[id] = file[id],
         ~Between, tpc # "exited", tpc' # "create"
  PROVE  QueueInv'
<1>1. \A f : Planned(f)' <=> Planned(f)
  BY DEF Planned
<1>2. Planned(ft)
  BY DEF RipDataInv, QueueInv, Between
<1>3. \A i \in DOMAIN queue : /\ Planned(queue[i]) /\ file[queue[i].id].state = "none"
                             /\ queue[i].id # ft.id
  BY DEF RipDataInv, QueueInv, Between
<1>4. \A i \in DOMAIN queue : queue[i].id \in FileIds
  <2>1. \A i \in DOMAIN queue : queue[i] \in Files
    BY DEF RipInv, ShapeInv
  <2> QED BY <2>1 DEF Files
<1>5. CASE queue' = queue
  BY <1>1, <1>2, <1>3, <1>4, <1>5 DEF RipDataInv, QueueInv
<1>6. CASE queue' = <<>>
  <2>1. DOMAIN queue' = {}
    BY <1>6
  <2> QED BY <1>1, <1>2, <2>1 DEF QueueInv
<1> QED BY <1>5, <1>6

\* Every file so far could be created.
NoneFailed == \A id \in FileIds : file[id].state # "failed"

LEMMA CreateData ==
  ASSUME RipInv, RipDataInv, CreateFile \/ CreateFails
  PROVE  RipDataInv'
<1>1. /\ UNCHANGED <<format, trimming, queue, ft, decoder, stats, failure>>
      /\ tpc = "create" /\ tpc' # "create"
      /\ ft.id \in FileIds /\ ft.start \in Nat /\ ft.length \in Nat
      /\ decoder = <<>> /\ file[ft.id].state = "none"
  BY DEF CreateFile, CreateFails, modeVars, history, RipInv, ShapeInv, Files, OpenInv,
         RipDataInv, QueueInv
<1>2. /\ DOMAIN file' = FileIds
      /\ \A id \in FileIds : id # ft.id => file'[id] = file[id]
      /\ \/ /\ tpc' = "reset" /\ file'[ft.id].state = "open"
            /\ file'[ft.id].lsn = ft.start /\ file'[ft.id].data = <<>>
         \/ /\ tpc' = "check" /\ file'[ft.id].state = "failed"
            /\ file'[ft.id].data = file[ft.id].data
  BY CreateEffect
<1>3. QueueInv'
  BY <1>1, <1>2, QueueKept DEF Between
<1>4. DataInv'
  <2>1. <<>> \in Seq(Nat) /\ <<>> \o <<>> = <<>> /\ ToSet(<<>>) = {}
    BY DEF ToSet
  <2>2. \A id \in FileIds : file'[id].data \in Seq(Nat)
    BY <1>1, <1>2, <2>1 DEF RipDataInv, DataInv
  <2>3. CASE file'[ft.id].state = "failed"
    BY <1>1, <2>2, <2>3 DEF RipDataInv, DataInv
  <2>4. CASE file'[ft.id].state = "open"
    <3>1. file'[ft.id].lsn = ft.start /\ file'[ft.id].data = <<>>
      BY <1>2, <2>4
    <3>2. KeptIn(ft, ft.start, file[ft.id].lsn - ft.start)' = <<>>
      <4>1. PICK n \in Nat : n = 0 /\ file'[ft.id].lsn - ft.start = n
        BY <1>1, <3>1
      <4>2. Among(KeptOf(ft)', ft.start, n) = <<>>
        BY <1>1, <4>1, AmongNone
      <4> QED BY <1>1, <4>1, <4>2 DEF KeptIn
    <3> QED BY <1>1, <2>1, <2>2, <2>4, <3>1, <3>2 DEF RipDataInv, DataInv
  <2> QED BY <1>2, <2>3, <2>4
<1>5. ProgressInv'
  <2>1. CASE file'[ft.id].state = "failed"
    BY <1>1, <2>1 DEF RipDataInv, ProgressInv
  <2>2. CASE file'[ft.id].state = "open"
    <3>1. NoneFailed' => NoneFailed
      BY <1>1, <1>2 DEF NoneFailed
    <3>2. Rest = ft.length /\ Rest' = ft.length
      BY <1>1, <1>2, <2>2 DEF Rest, EndLsn
    <3> QED BY <1>1, <3>1, <3>2 DEF RipDataInv, ProgressInv, NoneFailed
  <2> QED BY <1>2, <2>1, <2>2
<1> QED BY <1>3, <1>4, <1>5 DEF RipDataInv

LEMMA ReadData ==
  ASSUME RipInv, RipDataInv, Read
  PROVE  RipDataInv'
<1> DEFINE f == file[ft.id]
           expected == KeptIn(ft, ft.start, f.lsn - ft.start)
<1>1. /\ UNCHANGED <<format, trimming, queue, ft>>
      /\ tpc = "read" /\ tpc' = "test" /\ ft.id \in FileIds
      /\ ft.start \in Nat /\ ft.length \in Nat /\ f.lsn \in Nat /\ f.state = "open"
      /\ block.size \in Nat
  BY DEF Read, modeVars, RipInv, ShapeInv, Files, OpenInv, FileOpen
<1>2. /\ f.lsn >= ft.start
      /\ f.data \in Seq(Nat) /\ decoder \in Seq(Nat) /\ failure \in BOOLEAN
      /\ ~failure => f.data \o decoder = expected
      /\ ToSet(f.data) \cup ToSet(decoder) \subseteq ToSet(expected)
      /\ format # "dst" => decoder = <<>>
  BY <1>1 DEF RipDataInv, DataInv
<1>3. PICK n \in 1..block.size : \E lost \in SUBSET ToSet(Arrived(n)) :
        /\ DOMAIN file' = FileIds
        /\ \A id \in FileIds : id # ft.id => file'[id] = file[id]
        /\ file'[ft.id].state = f.state /\ file'[ft.id].lsn = f.lsn + n
        /\ stats' = Processed(n)
        /\ \/ /\ format = "dst" /\ decoder' = decoder \o Arrived(n)
              /\ file'[ft.id].data = f.data /\ failure' = failure
           \/ /\ format # "dst" /\ decoder' = decoder
              /\ file'[ft.id].data = f.data \o Among(KeptOf(ft) \ lost, f.lsn, n)
              /\ failure' = (failure \/ lost # {})
  BY ReadEffect
<1>4. PICK lost \in SUBSET ToSet(Arrived(n)) :
        \/ /\ format = "dst" /\ decoder' = decoder \o Arrived(n)
           /\ file'[ft.id].data = f.data /\ failure' = failure
        \/ /\ format # "dst" /\ decoder' = decoder
           /\ file'[ft.id].data = f.data \o Among(KeptOf(ft) \ lost, f.lsn, n)
           /\ failure' = (failure \/ lost # {})
  BY <1>3
<1> HIDE DEF f, expected
<1>5. QueueInv'
  BY <1>1, <1>3, QueueKept DEF Between, f
<1>6. n \in Nat
  BY <1>1
<1>7. PICK e, more : e = expected /\ more = Arrived(n)
  OBVIOUS
<1>8. /\ e \in Seq(Nat) /\ more \in Seq(Nat)
      /\ KeptIn(ft, ft.start, f.lsn + n - ft.start) = e \o more
  <2>1. more = KeptIn(ft, f.lsn, n)
    BY <1>7 DEF Arrived, f
  <2>2. e \in Seq(Nat)
    BY <1>1, <1>2, <1>7, KeptIsSeq DEF expected
  <2>3. more \in Seq(Nat)
    BY <1>1, <1>6, <2>1, AmongIsSeq DEF KeptIn
  <2>4. KeptIn(ft, ft.start, f.lsn + n - ft.start) = e \o more
    <3>1. PICK m, all : /\ m = f.lsn - ft.start /\ all = f.lsn + n - ft.start
                        /\ TwoReads(ft.start, m, f.lsn, n, all)
      BY <1>1, <1>2, <1>6, SMTT(30) DEF TwoReads
    <3>2. PICK S, start, lsn : S = KeptOf(ft) /\ start = ft.start /\ lsn = f.lsn
      OBVIOUS
    <3>3. Among(S, start, all) = Among(S, start, m) \o Among(S, lsn, n)
      <4>1. TwoReads(start, m, lsn, n, all)
        BY <3>1, <3>2
      <4> QED BY <4>1, AmongConcat
    <3> QED BY <1>7, <2>1, <3>1, <3>2, <3>3 DEF KeptIn, expected
  <2> QED BY <2>2, <2>3, <2>4
<1>9. expected' = e \o more
  <2>1. KeptOf(ft)' = KeptOf(ft)
    BY <1>1 DEF KeptOf, Kept
  <2>2. expected' = Among(KeptOf(ft)', ft.start, f.lsn + n - ft.start)
    <3>1. expected' = Among(KeptOf(ft)', ft'.start, file'[ft'.id].lsn - ft'.start)
      BY DEF KeptIn, expected, f
    <3>2. PICK lsn, t : lsn = f.lsn + n /\ t = ft /\ lsn \in Int
      BY <1>1, <1>6
    <3>3. ft' = t
      BY <1>1, <3>2
    <3>4. file'[t.id].lsn = lsn
      BY <1>3, <3>2
    <3>5. expected' = Among(KeptOf(ft)', t.start, lsn - t.start)
      BY <3>1, <3>3, <3>4, SMTT(30)
    <3>6. lsn - t.start = f.lsn + n - ft.start /\ t.start = ft.start
      BY <1>1, <1>6, <3>2
    <3> QED BY <3>5, <3>6, Zenon
  <2> QED BY <1>8, <2>1, <2>2 DEF KeptIn
<1>10. file'[ft.id].data \in Seq(Nat) /\ decoder' \in Seq(Nat)
  <2>1. PICK S : S = KeptOf(ft) \ lost
    OBVIOUS
  <2>2. PICK written : written = Among(S, f.lsn, n) /\ written \in Seq(Nat)
    BY <1>1, <1>6, AmongIsSeq
  <2>3. \A s, t \in Seq(Nat) : s \o t \in Seq(Nat)
    OBVIOUS
  <2> QED BY <1>2, <1>4, <1>7, <1>8, <2>1, <2>2, <2>3
<1>11. ~failure' => file'[ft.id].data \o decoder' = e \o more
  <2>1. CASE format = "dst"
    <3>1. ~failure' => f.data \o decoder = e
      BY <1>2, <1>4, <1>7, <2>1
    <3>2. f.data \o (decoder \o more) = (f.data \o decoder) \o more
      <4>1. PICK a \in Seq(Nat), b \in Seq(Nat) : a = f.data /\ b = decoder
        BY <1>2
      <4>2. (a \o b) \o more = a \o (b \o more)
        BY <1>8, ConcatThree
      <4> QED BY <4>1, <4>2
    <3>3. file'[ft.id].data = f.data /\ decoder' = decoder \o more
      BY <1>4, <1>7, <2>1
    <3> QED BY <3>1, <3>2, <3>3
  <2>2. CASE format # "dst" /\ ~failure'
    <3>1. lost = {} /\ ~failure
      BY <1>4, <2>2
    <3>2. KeptOf(ft) \ lost = KeptOf(ft)
      BY <3>1
    <3>3. file'[ft.id].data = f.data \o more
      BY <1>4, <1>7, <2>2, <3>2 DEF Arrived, KeptIn, f
    <3>4. decoder' = <<>> /\ decoder = <<>>
      BY <1>2, <1>4, <2>2
    <3>5. f.data = e
      BY <1>2, <1>7, <3>1, <3>4
    <3> QED BY <1>8, <1>10, <3>3, <3>4, <3>5
  <2> QED BY <2>1, <2>2
<1>12. ToSet(file'[ft.id].data) \cup ToSet(decoder') \subseteq ToSet(e \o more)
  <2>1. ToSet(e \o more) = ToSet(e) \cup ToSet(more)
    BY <1>8, ConcatSet
  <2>2. CASE format = "dst"
    <3>1. ToSet(decoder \o more) = ToSet(decoder) \cup ToSet(more)
      BY <1>2, <1>8, ConcatSet
    <3>2. file'[ft.id].data = f.data /\ decoder' = decoder \o more
      BY <1>4, <1>7, <2>2
    <3> QED BY <1>2, <1>7, <2>1, <3>1, <3>2
  <2>3. CASE format # "dst"
    <3>1. PICK S, T : S = KeptOf(ft) /\ T = S \ lost
      OBVIOUS
    <3>2. PICK written : written = Among(T, f.lsn, n)
      OBVIOUS
    <3>3. written \in Seq(Nat) /\ ToSet(written) = T \cap (f.lsn .. f.lsn + n - 1)
      BY <1>1, <1>6, <3>2, AmongIsSeq, AmongSet
    <3>4. ToSet(more) = S \cap (f.lsn .. f.lsn + n - 1)
      <4>1. more = Among(S, f.lsn, n)
        BY <1>7, <3>1 DEF Arrived, KeptIn, f
      <4> QED BY <1>1, <1>6, <4>1, AmongSet
    <3>5. ToSet(f.data \o written) = ToSet(f.data) \cup ToSet(written)
      BY <1>2, <3>3, ConcatSet
    <3>6. file'[ft.id].data = f.data \o written /\ decoder' = decoder
      BY <1>4, <2>3, <3>1, <3>2
    <3> QED BY <1>2, <1>7, <2>1, <3>1, <3>3, <3>4, <3>5, <3>6
  <2> QED BY <2>2, <2>3
<1>13. DataInv'
  <2>1. \A id \in FileIds : file'[id].data \in Seq(Nat)
    BY <1>3, <1>10 DEF RipDataInv, DataInv
  <2>2. failure' \in BOOLEAN /\ (format # "dst" => decoder' = <<>>)
    BY <1>2, <1>4
  <2>3. f.lsn + n >= ft.start /\ file'[ft.id].lsn = f.lsn + n
    BY <1>1, <1>2, <1>3, <1>6
  <2>4. expected' = KeptIn(ft, ft.start, file[ft.id].lsn - ft.start)'
    BY DEF expected, f
  <2> QED BY <1>1, <1>9, <1>10, <1>11, <1>12, <2>1, <2>2, <2>3, <2>4 DEF RipDataInv, DataInv
<1>14. ProgressInv'
  <2>1. NoneFailed' => NoneFailed
    BY <1>1, <1>3 DEF NoneFailed, f
  <2>2. Rest = EndLsn - f.lsn /\ Rest' = EndLsn - (f.lsn + n) /\ EndLsn \in Nat
    <3>1. Rest = EndLsn - f.lsn
      BY <1>1 DEF Rest, f
    <3>2. Rest' = EndLsn' - file'[ft'.id].lsn
      BY <1>1 DEF Rest
    <3>3. ft' = ft /\ file'[ft.id].lsn = f.lsn + n /\ EndLsn' = EndLsn /\ EndLsn \in Nat
      BY <1>1, <1>3 DEF EndLsn
    <3> QED BY <3>1, <3>2, <3>3
  <2>3. /\ stats.done \in Nat /\ stats.total \in Nat /\ DOMAIN stats = {"total", "done"}
        /\ stats' = [stats EXCEPT !.done = @ + n]
    BY <1>3 DEF Processed, RipDataInv, ProgressInv
  <2>4. /\ stats'.done = stats.done + n /\ stats'.total = stats.total
        /\ DOMAIN stats' = {"total", "done"}
    BY <2>3
  <2>5. SumLengths(queue) \in Nat
    BY SumIsNat DEF RipInv, ShapeInv, IsQueue
  <2>6. NoneFailed => stats.total = stats.done + Rest + SumLengths(queue)
    BY <1>1 DEF RipDataInv, ProgressInv, NoneFailed
  <2>7. NoneFailed' => stats'.total = stats'.done + Rest' + SumLengths(queue')
    <3>1. SumLengths(queue') = SumLengths(queue)
      BY <1>1
    <3>2. f.lsn \in Nat
      BY <1>1
    <3> QED BY <1>6, <2>1, <2>2, <2>3, <2>4, <2>5, <2>6, <3>1, <3>2, SMTT(30)
  <2>8. stats'.done \in Nat /\ stats'.total \in Nat
    BY <1>6, <2>3, <2>4
  <2> QED BY <2>4, <2>7, <2>8 DEF ProgressInv, NoneFailed
<1> QED BY <1>5, <1>13, <1>14 DEF RipDataInv

\* The head of a sequence, moved from it to the end of another.
LEMMA HeadMoved ==
  ASSUME NEW d \in Seq(Nat), NEW q \in Seq(Nat), q # <<>>
  PROVE  /\ Append(d, Head(q)) \in Seq(Nat) /\ Tail(q) \in Seq(Nat)
         /\ Append(d, Head(q)) \o Tail(q) = d \o q
         /\ ToSet(Append(d, Head(q))) \cup ToSet(Tail(q)) = ToSet(d) \cup ToSet(q)
         /\ ToSet(Tail(q)) \subseteq ToSet(q)
<1> DEFINE h == <<Head(q)>>
<1>1. Head(q) \in Nat /\ Tail(q) \in Seq(Nat) /\ h \in Seq(Nat)
  BY HeadTailProperties
<1>2. q = h \o Tail(q)
  BY HeadTailProperties
<1>3. Append(d, Head(q)) = d \o h
  BY <1>1, AppendIsConcat
<1>4. ToSet(h) = {Head(q)}
  BY <1>1 DEF ToSet
<1> HIDE DEF h
<1>5. (d \o h) \o Tail(q) = d \o (h \o Tail(q))
  BY <1>1, ConcatThree
<1>6. ToSet(q) = ToSet(h) \cup ToSet(Tail(q))
  BY <1>1, <1>2, ConcatSet
<1>7. ToSet(d \o h) = ToSet(d) \cup ToSet(h)
  BY <1>1, ConcatSet
<1>8. d \o h \in Seq(Nat)
  BY <1>1
<1> QED BY <1>1, <1>2, <1>3, <1>5, <1>6, <1>7, <1>8

\* What the decoder's write thread takes from the decoder is what it appends.
LEMMA CallbackData ==
  ASSUME RipInv, RipDataInv, Callback
  PROVE  RipDataInv'
<1>1. /\ UNCHANGED <<format, trimming, queue, tpc, ft, stats>>
      /\ decoder # <<>> /\ decoder' = Tail(decoder) /\ FileOpen /\ ft.id \in FileIds
      /\ tpc \in {"test", "read", "check", "drain", "stopdrain"}
  BY DEF Callback, modeVars, RipInv, ShapeInv, Files, OpenInv
<1>2. /\ DOMAIN file' = FileIds
      /\ \A id \in FileIds : id # ft.id => file'[id] = file[id]
      /\ file'[ft.id].state = file[ft.id].state /\ file'[ft.id].lsn = file[ft.id].lsn
      /\ \/ file'[ft.id].data = Append(file[ft.id].data, Head(decoder)) /\ failure' = failure
         \/ file'[ft.id].data = file[ft.id].data /\ failure' = TRUE
  BY CallbackEffect
<1>3. QueueInv'
  BY <1>1, <1>2, QueueKept DEF Between
<1>4. PICK d, q, e : d = file[ft.id].data /\ q = decoder
                     /\ e = KeptIn(ft, ft.start, file[ft.id].lsn - ft.start)
  OBVIOUS
<1>5. /\ d \in Seq(Nat) /\ q \in Seq(Nat) /\ q # <<>>
      /\ ~failure => d \o q = e
      /\ ToSet(d) \cup ToSet(q) \subseteq ToSet(e)
      /\ format = "dst"
      /\ file[ft.id].lsn >= ft.start
  BY <1>1, <1>4 DEF RipDataInv, DataInv, FileOpen
<1>6. KeptIn(ft, ft.start, file[ft.id].lsn - ft.start)' = e
  BY <1>1, <1>2, <1>4 DEF KeptIn, KeptOf, Kept
<1>7. /\ file'[ft.id].data \in Seq(Nat) /\ decoder' \in Seq(Nat)
      /\ ~failure' => file'[ft.id].data \o decoder' = e
      /\ ToSet(file'[ft.id].data) \cup ToSet(decoder') \subseteq ToSet(e)
  <2>1. PICK all : all = Append(d, Head(q))
    OBVIOUS
  <2>2. /\ all \in Seq(Nat) /\ Tail(q) \in Seq(Nat) /\ all \o Tail(q) = d \o q
        /\ ToSet(all) \cup ToSet(Tail(q)) = ToSet(d) \cup ToSet(q)
        /\ ToSet(Tail(q)) \subseteq ToSet(q)
    BY <1>5, <2>1, HeadMoved
  <2>3. decoder' = Tail(q)
    BY <1>1, <1>4
  <2>4. CASE file'[ft.id].data = all /\ failure' = failure
    BY <1>5, <2>2, <2>3, <2>4
  <2>5. CASE file'[ft.id].data = d /\ failure' = TRUE
    BY <1>5, <2>2, <2>3, <2>5
  <2> QED BY <1>2, <1>4, <2>1, <2>4, <2>5
<1>8. \A id \in FileIds : file'[id].data \in Seq(Nat)
  BY <1>2, <1>7 DEF RipDataInv, DataInv
<1>9. DataInv'
  BY <1>1, <1>2, <1>5, <1>6, <1>7, <1>8 DEF RipDataInv, DataInv
<1>10. ProgressInv'
  <2>1. NoneFailed' => NoneFailed
    BY <1>1, <1>2 DEF NoneFailed
  <2>2. UNCHANGED Rest
    BY <1>1, <1>2 DEF Rest, EndLsn
  <2> QED BY <1>1, <2>1, <2>2 DEF RipDataInv, ProgressInv, NoneFailed
<1> QED BY <1>3, <1>9, <1>10 DEF RipDataInv

LEMMA CloseData ==
  ASSUME RipInv, RipDataInv, Close
  PROVE  RipDataInv'
<1>1. /\ UNCHANGED <<format, trimming, ft, decoder, stats, failure>>
      /\ decoder = <<>> /\ ft.id \in FileIds
      /\ \/ tpc = "close" /\ tpc' = "next" /\ queue' = queue
         \/ tpc = "stopclose" /\ tpc' = "exited" /\ queue' = <<>>
  BY DEF Close, modeVars, history, RipInv, ShapeInv, Files, OpenInv
<1>2. /\ DOMAIN file' = FileIds
      /\ \A id \in FileIds : id # ft.id => file'[id] = file[id]
      /\ file'[ft.id].lsn = file[ft.id].lsn /\ file'[ft.id].data = file[ft.id].data
      /\ \/ FileOpen /\ file'[ft.id].state = "closed"
         \/ file[ft.id].state = "failed" /\ file'[ft.id].state = "failed"
  BY CloseEffect
<1>3. QueueInv'
  BY <1>1, <1>2, QueueKept DEF Between
<1>4. PICK e : e = KeptIn(ft, ft.start, file[ft.id].lsn - ft.start)
  OBVIOUS
<1>5. KeptIn(ft, ft.start, file[ft.id].lsn - ft.start)' = e
  BY <1>1, <1>2, <1>4 DEF KeptIn, KeptOf, Kept
<1>6. \A id \in FileIds : file'[id].data \in Seq(Nat)
  BY <1>2 DEF RipDataInv, DataInv
<1>7. DataInv'
  BY <1>1, <1>2, <1>4, <1>5, <1>6 DEF RipDataInv, DataInv, FileOpen
<1>8. ProgressInv'
  <2>1. NoneFailed' => NoneFailed /\ FileOpen
    BY <1>1, <1>2 DEF NoneFailed, FileOpen
  <2>2. CASE tpc' = "exited"
    BY <1>1, <2>2 DEF RipDataInv, ProgressInv
  <2>3. CASE tpc' = "next" /\ NoneFailed'
    <3>1. file[ft.id].lsn = EndLsn /\ EndLsn \in Nat
      BY <1>1, <2>1, <2>3 DEF RipInv, ReachInv, ShapeInv, Files, EndLsn
    <3>2. Rest = 0 /\ Rest' = 0
      BY <1>1, <2>3, <3>1 DEF Rest
    <3> QED BY <1>1, <2>1, <2>3, <3>2 DEF RipDataInv, ProgressInv, NoneFailed
  <2>4. CASE tpc' = "next" /\ ~NoneFailed'
    BY <1>1, <2>4 DEF RipDataInv, ProgressInv, NoneFailed
  <2> QED BY <1>1, <2>2, <2>3, <2>4
<1> QED BY <1>3, <1>7, <1>8 DEF RipDataInv

LEMMA NextData ==
  ASSUME RipInv, RipDataInv, [Next]_vars
  PROVE  RipDataInv'
<1>1. CASE ProcessingThread
  BY <1>1, ThreadData, TakeFileData, FinishData, CreateData, ReadData, CloseData
     DEF ProcessingThread
<1>2. CASE UNCHANGED vars
  <2>1. UNCHANGED <<format, trimming, queue, tpc, ft, file, decoder, stats, failure>>
    BY <1>2 DEF vars
  <2>2. QueueInv' /\ DataInv'
    BY <2>1, QuietData
  <2>3. UNCHANGED Rest
    BY <2>1 DEF Rest, EndLsn
  <2>4. ProgressInv'
    BY <2>1, <2>3 DEF RipDataInv, ProgressInv
  <2> QED BY <2>2, <2>4 DEF RipDataInv
<1> QED BY <1>1, <1>2, MainData, CallbackData DEF Next, Finished

\* The second inductive invariant of the ripping engine: what is in the files,
\* the decoder and the queue.
THEOREM DataInvariant == Spec => []RipDataInv
<1>1. Init => RipDataInv
  BY InitData
<1>2. RipInv /\ RipDataInv /\ [Next]_vars => RipDataInv'
  BY NextData
<1> QED BY <1>1, <1>2, InductiveInvariant, PTL DEF Spec

\* A closed file holds the frames of what was read for it, in order and each
\* once, unless a write failed, and never any other frame.
THEOREM ClosedFiles == Spec => []ClosedFileHoldsWhatWasRead
<1>1. ASSUME RipInv, RipDataInv
      PROVE  ClosedFileHoldsWhatWasRead
  <2>1. SUFFICES ASSUME file[ft.id].state = "closed"
                 PROVE  LET expected == KeptIn(ft, ft.start, file[ft.id].lsn - ft.start)
                        IN  /\ ~failure => file[ft.id].data = expected
                            /\ ToSet(file[ft.id].data) \subseteq ToSet(expected)
    BY DEF ClosedFileHoldsWhatWasRead
  <2>2. ft.id \in FileIds
    BY <1>1 DEF RipInv, ShapeInv, Files
  <2>3. decoder = <<>>
    BY <1>1, <2>1 DEF RipInv, OpenInv, FileOpen
  <2>4. file[ft.id].data \o decoder = file[ft.id].data
    BY <1>1, <2>2, <2>3 DEF RipDataInv, DataInv
  <2> QED BY <1>1, <2>1, <2>4 DEF RipDataInv, DataInv
<1> QED BY <1>1, DataInvariant, InductiveInvariant, PTL

\* The sectors of the tracks of a file are sectors of the file.
LEMMA ExtentsInFile ==
  /\ \A t \in Tracks : Extent(t) \subseteq Sectors(MasterFile)
  /\ \A t, u \in Tracks : \A v \in t..u : t <= u => Extent(v) \subseteq Sectors(TrackFile(t, u))
<1>1. /\ Tracks = 1..Len(TrackStarts) /\ Len(TrackStarts) \in Nat
      /\ \A t \in Tracks : TrackStarts[t] \in AreaStart..AreaEnd /\ TrackStarts[t] \in Nat
      /\ AreaStart \in Nat /\ AreaEnd \in Nat
  BY DEF Tracks
<1>2. \A t \in Tracks : TrackStart(t) \in AreaStart..AreaEnd
  BY <1>1 DEF TrackStart
<1>3. \A t, u \in Tracks : t <= u => TrackStarts[t] <= TrackStarts[u] /\ TrackStart(t) <= TrackStart(u)
  BY <1>1, <1>2 DEF TrackStart, Tracks
<1>4. Sectors(MasterFile) = AreaStart..AreaEnd
  <2>1. MasterFile.start = AreaStart /\ MasterFile.length = AreaEnd - AreaStart + 1
    BY DEF MasterFile
  <2> QED BY <1>1, <2>1 DEF Sectors
<1>5. \A t \in Tracks : Extent(t) \subseteq AreaStart..AreaEnd
  <2> TAKE t \in Tracks
  <2>1. CASE t < Len(TrackStarts)
    <3>1. t + 1 \in Tracks
      BY <1>1, <2>1
    <3> QED BY <1>1, <1>2, <2>1, <3>1, SMTT(30) DEF Extent
  <2>2. CASE ~(t < Len(TrackStarts))
    BY <1>1, <1>2, <2>2 DEF Extent
  <2> QED BY <2>1, <2>2
<1>6. ASSUME NEW t \in Tracks, NEW u \in Tracks, NEW v \in t..u, t <= u
      PROVE  Extent(v) \subseteq Sectors(TrackFile(t, u))
  <2>1. v \in Tracks /\ t <= v /\ v <= u
    BY <1>1
  <2>2. TrackStart(t) <= TrackStart(v) /\ TrackStart(v) \in Nat /\ TrackStart(t) \in Nat
    BY <1>1, <1>2, <1>3, <2>1, SMTT(30)
  <2>3. TrackFile(t, u).start = TrackStart(t) /\ TrackFile(t, u).length = TrackLength(t, u)
    BY DEF TrackFile
  <2>4. CASE u < Len(TrackStarts)
    <3>1. u + 1 \in Tracks /\ v + 1 \in Tracks /\ v + 1 <= u + 1 /\ v < Len(TrackStarts)
      BY <1>1, <2>1, <2>4, SMTT(30)
    <3>2. TrackStarts[v + 1] <= TrackStarts[u + 1] /\ TrackStarts[v + 1] \in Nat
          /\ TrackStarts[u + 1] \in Nat
      BY <1>1, <1>3, <3>1
    <3>3. Extent(v) = TrackStart(v) .. TrackStarts[v + 1] - 1
      BY <3>1 DEF Extent
    <3>4. Sectors(TrackFile(t, u)) = TrackStart(t) .. TrackStarts[u + 1]
      BY <2>2, <2>3, <2>4, <3>2 DEF Sectors, TrackLength
    <3>5. \A a, b, c, d \in Nat : a <= b /\ c <= d => b .. c - 1 \subseteq a .. d
      OBVIOUS
    <3> QED BY <2>2, <3>2, <3>3, <3>4, <3>5
  <2>5. CASE ~(u < Len(TrackStarts))
    <3>1. Sectors(TrackFile(t, u)) = TrackStart(t) .. AreaEnd
      BY <1>1, <2>2, <2>3, <2>5, SMTT(30) DEF Sectors, TrackLength
    <3>2. \A s \in Extent(v) : s \in Nat /\ TrackStart(v) <= s /\ s <= AreaEnd
      <4>1. \A s \in Extent(v) : s \in AreaStart..AreaEnd
        BY <1>5, <2>1
      <4>2. \A s \in Extent(v) : TrackStart(v) <= s
        BY DEF Extent
      <4> QED BY <1>1, <4>1, <4>2
    <3> QED BY <1>1, <2>2, <3>1, <3>2
  <2> QED BY <2>4, <2>5
<1> QED BY <1>4, <1>5, <1>6

\* What a file should hold is kept of its sectors.
LEMMA PromisedIsKept ==
  ASSUME NEW f, Planned(f), trimming \in BOOLEAN
  PROVE  Promised(f) \subseteq KeptOf(f)
<1>1. CASE format = "iso"
  <2>1. f.id = 0 /\ f.start = 0 /\ f.length = DiscSize
    BY <1>1 DEF Planned, ImageFile
  <2>2. Promised(f) = 0 .. DiscSize - 1
    BY <1>1 DEF Promised
  <2> QED BY <2>1, <2>2 DEF KeptOf, Kept, Sectors
<1>2. CASE format # "iso" /\ f = MasterFile
  <2>1. f.id = 0 /\ f.tracks = Tracks
    BY <1>2 DEF MasterFile
  <2>2. Promised(f) = UNION {Extent(t) : t \in Tracks}
    BY <1>2, <2>1 DEF Promised
  <2>3. Promised(f) \subseteq Sectors(f)
    BY <1>2, <2>2, ExtentsInFile
  <2> QED BY <2>1, <2>3 DEF KeptOf, Kept
<1>3. ASSUME format # "iso", NEW t \in Tracks, NEW u \in Tracks,
             t <= u, f = TrackFile(t, u), trimming => t = u
      PROVE  Promised(f) \subseteq KeptOf(f)
  <2>1. f.id = t /\ t # 0 /\ f.tracks = t..u
    BY <1>3 DEF TrackFile, Tracks
  <2>2. \A v \in t..u : Extent(v) \subseteq Sectors(f)
    BY <1>3, ExtentsInFile
  <2>3. CASE trimming
    <3>1. t \in t..u
      BY <1>3 DEF Tracks
    <3>2. TrackTimes[t] \subseteq Sectors(f)
      BY <2>2, <3>1, TimesAssumption
    <3>3. Promised(f) = TrackTimes[t]
      BY <1>3, <2>1, <2>3 DEF Promised
    <3> QED BY <2>1, <3>2, <3>3 DEF KeptOf, Kept
  <2>4. CASE ~trimming
    <3>1. Promised(f) = UNION {Extent(v) : v \in t..u}
      BY <1>3, <2>1, <2>4 DEF Promised
    <3> QED BY <2>2, <2>4, <3>1 DEF KeptOf, Kept
  <2> QED BY <2>3, <2>4
<1> QED BY <1>1, <1>2, <1>3 DEF Planned

\* A file read to its end holds all of its tracks: no sector is left out where
\* two tracks meet, nor at the end of the area, for every layout of tracks.
THEOREM CompleteFiles == Spec => []CompleteFileHoldsItsTracks
<1>1. ASSUME RipInv, RipDataInv, ClosedFileHoldsWhatWasRead
      PROVE  CompleteFileHoldsItsTracks
  <2>1. SUFFICES ASSUME file[ft.id].state = "closed", file[ft.id].lsn = EndLsn, ~failure
                 PROVE  Promised(ft) \subseteq ToSet(file[ft.id].data)
    BY DEF CompleteFileHoldsItsTracks
  <2>2. Planned(ft) /\ trimming \in BOOLEAN
    BY <1>1, <2>1 DEF RipDataInv, QueueInv, DataInv
  <2>3. ft.start \in Nat /\ ft.length \in Nat
    BY <1>1 DEF RipInv, ShapeInv, Files
  <2>4. file[ft.id].lsn - ft.start = ft.length
    BY <2>1, <2>3 DEF EndLsn
  <2>5. file[ft.id].data = Among(KeptOf(ft), ft.start, ft.length)
    BY <1>1, <2>1, <2>4 DEF ClosedFileHoldsWhatWasRead, KeptIn
  <2>6. PICK S, start, n : S = KeptOf(ft) /\ start = ft.start /\ n = ft.length
    OBVIOUS
  <2>7. ToSet(Among(S, start, n)) = S \cap (start .. start + n - 1)
    BY <2>3, <2>6, AmongSet
  <2>8. S \subseteq start .. start + n - 1
    BY <2>6 DEF KeptOf, Sectors
  <2> QED BY <2>2, <2>5, <2>6, <2>7, <2>8, PromisedIsKept
<1> QED BY <1>1, DataInvariant, InductiveInvariant, ClosedFiles, PTL

\* When main goes on, nothing is open or queued; and when all files were created
\* and none is left, the progress is at its total, however the reads were cut.
THEOREM ProgressComplete == Spec => []NothingLeft
<1>1. ASSUME RipInv, RipDataInv, NothingOpen
      PROVE  NothingLeft
  <2>1. SUFFICES ASSUME tpc = "next", queue = <<>>, NoneFailed
                 PROVE  stats.done = stats.total
    BY <1>1 DEF NothingLeft, NoneFailed
  <2>2. stats.total = stats.done + Rest + SumLengths(queue)
    BY <1>1, <2>1 DEF RipDataInv, ProgressInv, NoneFailed
  <2>3. Rest = 0 /\ SumLengths(queue) = 0
    BY <2>1, SumEmpty DEF Rest
  <2>4. stats.done \in Nat
    BY <1>1 DEF RipDataInv, ProgressInv
  <2> QED BY <2>2, <2>3, <2>4
<1> QED BY <1>1, DataInvariant, InductiveInvariant, CleanEnd, PTL

-----------------------------------------------------------------------------
(* The types of the variables: TypeOK and WithinTotal. *)

\* A file lies on the disc.
LEMMA OnDisc ==
  ASSUME NEW f, Planned(f)
  PROVE  \A s \in KeptOf(f) : s \in 0..DiscSize
<1>1. /\ Tracks = 1..Len(TrackStarts) /\ Len(TrackStarts) \in Nat
      /\ \A t \in Tracks : TrackStarts[t] \in AreaStart..AreaEnd /\ TrackStarts[t] \in Nat
      /\ AreaStart \in Nat /\ AreaEnd \in Nat /\ DiscSize \in Nat /\ AreaEnd < DiscSize
  <2>1. AreaEnd < DiscSize
    BY RipAssumption
  <2> QED BY <2>1, RipAssumption DEF Tracks
<1>2. \A t \in Tracks : TrackStart(t) \in AreaStart..AreaEnd
  BY <1>1 DEF TrackStart
<1>3. f.start \in Nat /\ f.length \in Int /\ f.start + f.length <= DiscSize
  <2>1. CASE f = ImageFile
    BY <1>1, <2>1 DEF ImageFile
  <2>2. CASE f = MasterFile
    BY <1>1, <2>2 DEF MasterFile
  <2>3. ASSUME NEW t \in Tracks, NEW u \in Tracks, f = TrackFile(t, u)
        PROVE  f.start \in Nat /\ f.length \in Int /\ f.start + f.length <= DiscSize
    <3>1. f.start = TrackStart(t) /\ f.length = TrackLength(t, u)
      BY <2>3 DEF TrackFile
    <3>2. TrackStart(t) \in AreaStart..AreaEnd
      BY <1>2
    <3>3. CASE u < Len(TrackStarts)
      <4>1. u + 1 \in Tracks
        BY <1>1, <3>3
      <4>2. PICK next \in AreaStart..AreaEnd : next = TrackStarts[u + 1]
        BY <1>1, <4>1
      <4>3. PICK first \in AreaStart..AreaEnd : first = TrackStart(t)
        BY <3>2
      <4>4. f.start = first /\ f.length = next - first + 1
        BY <3>1, <3>3, <4>2, <4>3 DEF TrackLength
      <4>5. next < DiscSize /\ first \in Nat /\ next \in Nat
        BY <1>1
      <4> QED BY <1>1, <4>4, <4>5
    <3>4. CASE ~(u < Len(TrackStarts))
      <4>1. f.length = AreaEnd - TrackStart(t) + 1
        BY <3>1, <3>4 DEF TrackLength
      <4> QED BY <1>1, <3>1, <3>2, <4>1
    <3> QED BY <3>3, <3>4
  <2> QED BY <2>1, <2>2, <2>3 DEF Planned
<1>4. \A s \in KeptOf(f) : s \in f.start .. f.start + f.length - 1
  BY DEF KeptOf, Sectors
<1> QED BY <1>1, <1>3, <1>4

LEMMA SeqOnDisc ==
  ASSUME NEW s \in Seq(Nat), \A x \in ToSet(s) : x \in 0..DiscSize
  PROVE  s \in Seq(0..DiscSize)
<1>1. \A i \in 1..Len(s) : s[i] \in ToSet(s)
  BY DEF ToSet
<1>2. \A i \in 1..Len(s) : s[i] \in 0..DiscSize
  BY <1>1
<1>3. Len(s) \in Nat /\ s = [i \in 1..Len(s) |-> s[i]]
  OBVIOUS
<1>4. [i \in 1..Len(s) |-> s[i]] \in Seq(0..DiscSize)
  BY <1>2, <1>3
<1> QED BY <1>3, <1>4

\* What the decoder holds, and the file that is open or was closed last: frames
\* of the sectors of the file.
FramesInv ==
  /\ decoder \in Seq(0..DiscSize)
  /\ file[ft.id].state \in {"open", "closed"} => file[ft.id].data \in Seq(0..DiscSize)

LEMMA FramesOnDisc == RipInv /\ RipDataInv => FramesInv
<1> SUFFICES ASSUME RipInv, RipDataInv PROVE FramesInv
  OBVIOUS
<1>1. ft.id \in FileIds /\ ft.start \in Nat /\ file[ft.id].lsn \in Nat
  BY DEF RipInv, ShapeInv, Files
<1>2. decoder \in Seq(Nat) /\ file[ft.id].data \in Seq(Nat)
  BY <1>1 DEF RipDataInv, DataInv
<1>3. CASE file[ft.id].state \in {"open", "closed"}
  <2>1. Planned(ft)
    <3>1. file[ft.id].state = "open" => tpc \notin {"none", "begin", "next", "exited"}
      BY <1>1 DEF RipInv, OpenInv
    <3> QED BY <1>3, <3>1 DEF RipDataInv, QueueInv
  <2>2. file[ft.id].lsn >= ft.start
    BY <1>3 DEF RipDataInv, DataInv
  <2>3. PICK n \in Nat : n = file[ft.id].lsn - ft.start
    BY <1>1, <2>2
  <2>4. PICK S : S = KeptOf(ft)
    OBVIOUS
  <2>5. \A x \in ToSet(Among(S, ft.start, n)) : x \in S
    BY <1>1, AmongSet
  <2>6. \A x \in ToSet(file[ft.id].data) \cup ToSet(decoder) : x \in 0..DiscSize
    <3>1. ToSet(file[ft.id].data) \cup ToSet(decoder) \subseteq ToSet(Among(S, ft.start, n))
      BY <1>3, <2>3, <2>4 DEF RipDataInv, DataInv, KeptIn
    <3> QED BY <2>1, <2>4, <2>5, <3>1, OnDisc
  <2> QED BY <1>2, <2>6, SeqOnDisc DEF FramesInv
<1>4. CASE file[ft.id].state \notin {"open", "closed"}
  <2>1. decoder = <<>>
    BY <1>4 DEF RipInv, OpenInv, FileOpen
  <2>2. <<>> \in Seq(0..DiscSize)
    OBVIOUS
  <2> QED BY <1>4, <2>1, <2>2 DEF FramesInv
<1> QED BY <1>3, <1>4

\* A step changes one file, and the frames in it only while it is open.
LEMMA OneFileChanges ==
  ASSUME RipInv, [Next]_vars
  PROVE  \/ UNCHANGED file
         \/ /\ ft' = ft
            /\ \A id \in FileIds : id # ft.id => file'[id] = file[id]
            /\ file'[ft.id].state \in {file[ft.id].state, "open", "closed", "failed"}
            /\ file'[ft.id].data = file[ft.id].data \/ file'[ft.id].state = "open"
<1>1. CASE CreateFile \/ CreateFails
  <2>1. ft' = ft
    BY <1>1 DEF CreateFile, CreateFails
  <2> QED BY <1>1, <2>1, CreateEffect
<1>2. CASE Read
  <2>1. ft' = ft /\ file[ft.id].state = "open"
    BY <1>2 DEF Read, RipInv, OpenInv, FileOpen
  <2> QED BY <1>2, <2>1, ReadEffect
<1>3. CASE Close
  <2>1. ft' = ft
    BY <1>3 DEF Close
  <2> QED BY <1>3, <2>1, CloseEffect
<1>4. CASE Callback
  <2>1. ft' = ft /\ file[ft.id].state = "open"
    BY <1>4 DEF Callback, RipInv, OpenInv, FileOpen
  <2> QED BY <1>4, <2>1, CallbackEffect
<1>5. CASE Start \/ DestroyInterrupt \/ Join \/ Sigint \/ Finished \/ UNCHANGED vars
  BY <1>5 DEF Start, DestroyInterrupt, Join, Sigint, Finished, vars
<1>6. CASE Begin \/ TakeFile \/ Finish \/ ResetStop \/ LoopTest \/ ReadFails \/ Check \/ Drain
  BY <1>6 DEF Begin, TakeFile, Finish, ResetStop, LoopTest, ReadFails, Check, Drain
<1> QED BY <1>1, <1>2, <1>3, <1>4, <1>5, <1>6 DEF Next, ProcessingThread

\* The flags and the labels of main.
LEMMA FlagTypes ==
  ASSUME TypeOK, [Next]_vars
  PROVE  /\ mpc' \in {"ready", "destroy", "join", "done"} /\ processing' \in {0, 1}
         /\ signals' \in 0..MaxSignals /\ interrupted' \in BOOLEAN
<1>1. /\ mpc \in {"ready", "destroy", "join", "done"} /\ processing \in {0, 1}
      /\ signals \in 0..MaxSignals /\ interrupted \in BOOLEAN
  BY DEF TypeOK
<1>2. CASE Sigint
  <2>1. signals' \in 0..MaxSignals
    BY <1>1, <1>2, RipAssumption DEF Sigint
  <2>2. interrupted' \in BOOLEAN /\ UNCHANGED <<mpc, processing>>
    BY <1>2 DEF Sigint
  <2> QED BY <1>1, <2>1, <2>2
<1>3. CASE Start \/ DestroyInterrupt \/ Join \/ Finished \/ UNCHANGED vars
  BY <1>1, <1>3 DEF Start, DestroyInterrupt, Join, Finished, vars, history
<1>4. CASE Begin \/ TakeFile \/ Finish \/ CreateFile \/ CreateFails \/ ResetStop
  BY <1>1, <1>4 DEF Begin, TakeFile, Finish, CreateFile, CreateFails, ResetStop, history
<1>5. CASE LoopTest \/ Read \/ ReadFails \/ Check \/ Drain \/ Close
  BY <1>1, <1>5 DEF LoopTest, Read, ReadFails, Check, Drain, Close, history
<1>6. CASE Callback
  BY <1>1, <1>6 DEF Callback
<1> QED BY <1>2, <1>3, <1>4, <1>5, <1>6 DEF Next, ProcessingThread

\* What is left is a number.
LEMMA LeftIsNat ==
  ASSUME NEW f \in Files, NEW state, NEW lsn \in Nat, NEW read, NEW c \in BOOLEAN,
         state = "open" => lsn <= f.start + f.length,
         read = IF c THEN f.length ELSE IF state = "open" THEN f.start + f.length - lsn ELSE 0
  PROVE  read \in Nat
<1>1. f.start \in Nat /\ f.length \in Nat
  BY DEF Files
<1> QED BY <1>1

\* What is read and what is left: the same sum as before, or less.
LEMMA TotalKept ==
  ASSUME RipInv, RipDataInv, RipInv', RipDataInv', WithinTotal, [Next]_vars
  PROVE  WithinTotal' /\ ToRead' \in Nat /\ SumLengths(queue') \in Nat
<1> DEFINE lsn == file[ft.id].lsn
<1>1. /\ ft.id \in FileIds /\ ft.start \in Nat /\ ft.length \in Nat /\ lsn \in Nat
      /\ FileOpen => lsn <= EndLsn
      /\ stats.total \in Nat /\ stats.done \in Nat /\ stats'.total \in Nat /\ stats'.done \in Nat
  BY DEF RipInv, ShapeInv, ReachInv, Files, RipDataInv, ProgressInv
<1>2. SumLengths(queue) \in Nat /\ SumLengths(queue') \in Nat
  BY SumIsNat DEF RipInv, ShapeInv, IsQueue
<1>3. ToRead \in Nat
  <2>1. ft \in Files
    BY DEF RipInv, ShapeInv
  <2> QED BY <1>1, <2>1, LeftIsNat DEF ToRead, FileOpen, EndLsn
<1>4. ToRead' \in Nat
  <2>1. /\ ft' \in Files /\ file'[ft'.id].lsn \in Nat
        /\ file'[ft'.id].state = "open" => file'[ft'.id].lsn <= ft'.start + ft'.length
    BY DEF RipInv, ShapeInv, ReachInv, Files, FileOpen, EndLsn
  <2>2. ft'.start \in Nat /\ ft'.length \in Nat
    BY <2>1 DEF Files
  <2>3. CASE tpc' = "create"
    <3>1. ToRead' = ft'.length
      BY <2>3 DEF ToRead
    <3> QED BY <2>2, <3>1
  <2>4. CASE tpc' # "create" /\ file'[ft'.id].state = "open"
    <3>1. ToRead' = ft'.start + ft'.length - file'[ft'.id].lsn
      BY <2>1, <2>2, <2>4 DEF ToRead, FileOpen, EndLsn
    <3> QED BY <2>1, <2>2, <2>4, <3>1
  <2>5. CASE tpc' # "create" /\ file'[ft'.id].state # "open"
    <3>1. ToRead' = 0
      BY <2>5 DEF ToRead, FileOpen
    <3> QED BY <3>1
  <2> QED BY <2>3, <2>4, <2>5
<1> SUFFICES WithinTotal'
  BY <1>2, <1>4
\* A step that adds n to what is done and takes as much, or more, from what is left.
<1>5. ASSUME NEW n \in Nat, tpc # "none", stats'.total = stats.total, stats'.done = stats.done + n,
             n + ToRead' + SumLengths(queue') <= ToRead + SumLengths(queue)
      PROVE  WithinTotal'
  <2>1. stats.done + ToRead + SumLengths(queue) <= stats.total
    BY <1>5 DEF WithinTotal
  <2>2. \A d, a, b, e, f, t \in Nat :
          d + a + b <= t /\ n + e + f <= a + b => (d + n) + e + f <= t
    OBVIOUS
  <2>3. (stats.done + n) + ToRead' + SumLengths(queue') <= stats.total
    BY <1>1, <1>2, <1>3, <1>4, <1>5, <2>1, <2>2
  <2> QED BY <1>5, <2>3 DEF WithinTotal
<1>6. CASE Start
  <2>1. /\ stats' = [total |-> SumLengths(queue), done |-> 0] /\ tpc' = "begin"
        /\ UNCHANGED <<queue, ft, file>> /\ tpc = "none"
    BY <1>6 DEF Start, RipInv, ThreadInv
  <2>2. file[ft.id].state = "none"
    BY <2>1 DEF RipInv, OpenInv
  <2>3. ToRead' = 0
    BY <2>1, <2>2 DEF ToRead, FileOpen
  <2>4. stats'.total = SumLengths(queue') /\ stats'.done = 0
    BY <2>1
  <2> QED BY <1>2, <2>3, <2>4 DEF WithinTotal
<1>7. ASSUME UNCHANGED <<queue, ft, stats>>, tpc' = tpc \/ tpc # "none",
             tpc' = tpc \/ (tpc # "create" /\ tpc' # "create"),
             file'[ft.id].state = file[ft.id].state, file'[ft.id].lsn = lsn
      PROVE  WithinTotal'
  <2>1. ToRead' = ToRead
    BY <1>7 DEF ToRead, FileOpen, EndLsn
  <2>2. SumLengths(queue') = SumLengths(queue)
    BY <1>7
  <2> QED BY <1>7, <2>1, <2>2 DEF WithinTotal
<1>8. CASE TakeFile
  <2>1. /\ tpc = "next" /\ tpc' = "create" /\ queue # <<>> /\ UNCHANGED <<file, stats>>
        /\ ft' = Head(queue) /\ queue' = Tail(queue)
    BY <1>8 DEF TakeFile
  <2>2. SumLengths(queue) = Head(queue).length + SumLengths(Tail(queue))
    BY <2>1, SumTail DEF RipInv, ShapeInv, IsQueue
  <2>3. ToRead' = Head(queue).length /\ SumLengths(queue') = SumLengths(Tail(queue))
    BY <2>1 DEF ToRead
  <2>4. 0 + ToRead' + SumLengths(queue') <= ToRead + SumLengths(queue)
    <3>1. SumLengths(queue) = ToRead' + SumLengths(queue')
      BY <2>2, <2>3
    <3> QED BY <1>2, <1>3, <1>4, <3>1
  <2>5. 0 \in Nat /\ stats'.total = stats.total /\ stats'.done = stats.done + 0 /\ tpc # "none"
    BY <1>1, <2>1
  <2> QED BY <1>5, <2>4, <2>5
<1>9. CASE CreateFile \/ CreateFails
  <2>1. tpc = "create" /\ UNCHANGED <<queue, ft, stats>>
    BY <1>9 DEF CreateFile, CreateFails
  <2>2. \/ tpc' = "reset" /\ file'[ft.id].state = "open" /\ file'[ft.id].lsn = ft.start
        \/ tpc' = "check" /\ file'[ft.id].state = "failed"
    BY <1>9, CreateEffect
  <2>3. ToRead = ft.length /\ ToRead' \in {0, ft.length} /\ SumLengths(queue') = SumLengths(queue)
    BY <1>1, <2>1, <2>2 DEF ToRead, FileOpen, EndLsn
  <2>4. 0 + ToRead' + SumLengths(queue') <= ToRead + SumLengths(queue)
    BY <1>1, <1>2, <2>3
  <2>5. 0 \in Nat /\ stats'.total = stats.total /\ stats'.done = stats.done + 0 /\ tpc # "none"
    BY <1>1, <2>1
  <2> QED BY <1>5, <2>4, <2>5
<1>10. CASE Read
  <2>1. tpc = "read" /\ tpc' = "test" /\ UNCHANGED <<queue, ft>> /\ FileOpen
    BY <1>10 DEF Read, RipInv, OpenInv
  <2>2. block.size \in Nat
    BY DEF RipInv, ShapeInv
  <2>3. PICK n \in 1..block.size :
          /\ file'[ft.id].state = file[ft.id].state /\ file'[ft.id].lsn = lsn + n
          /\ stats' = Processed(n)
    BY <1>10, ReadEffect
  <2>4. n \in Nat /\ stats'.done = stats.done + n /\ stats'.total = stats.total
    BY <2>2, <2>3 DEF Processed, RipDataInv, ProgressInv
  <2>5. /\ ToRead = EndLsn - lsn /\ ToRead' = EndLsn - (lsn + n)
        /\ SumLengths(queue') = SumLengths(queue) /\ EndLsn \in Nat
    <3>1. EndLsn' = EndLsn /\ EndLsn \in Nat /\ FileOpen' /\ SumLengths(queue') = SumLengths(queue)
      BY <1>1, <2>1, <2>3 DEF FileOpen, EndLsn
    <3>2. ToRead = EndLsn - lsn
      BY <2>1 DEF ToRead
    <3>3. ToRead' = EndLsn' - file'[ft'.id].lsn
      BY <2>1, <3>1, Zenon DEF ToRead
    <3>4. file'[ft'.id].lsn = lsn + n
      BY <2>1, <2>3
    <3> QED BY <3>1, <3>2, <3>3, <3>4
  <2> HIDE DEF lsn
  <2>6. n + ToRead' + SumLengths(queue') <= ToRead + SumLengths(queue)
    BY <1>1, <1>2, <2>4, <2>5
  <2> QED BY <1>5, <2>1, <2>4, <2>6
<1>11. CASE Close
  <2>1. /\ tpc \in {"close", "stopclose"} /\ tpc' \in {"next", "exited"}
        /\ UNCHANGED <<ft, stats>> /\ queue' \in {queue, <<>>}
    BY <1>11 DEF Close
  <2>2. file'[ft.id].state \in {"closed", "failed"}
    BY <1>11, CloseEffect
  <2>3. ToRead' = 0
    BY <2>1, <2>2 DEF ToRead, FileOpen
  <2>4. SumLengths(queue') \in {SumLengths(queue), 0}
    BY <2>1, SumEmpty
  <2>5. 0 + ToRead' + SumLengths(queue') <= ToRead + SumLengths(queue)
    BY <1>2, <1>3, <2>3, <2>4
  <2> QED BY <1>1, <1>5, <2>1, <2>5
<1>12. CASE Callback
  <2>1. UNCHANGED <<tpc, queue, ft, stats>>
    BY <1>12 DEF Callback
  <2>2. file'[ft.id].state = file[ft.id].state /\ file'[ft.id].lsn = lsn
    BY <1>12, CallbackEffect
  <2> QED BY <1>7, <2>1, <2>2
<1>13. CASE DestroyInterrupt \/ Join \/ Sigint \/ Finished \/ UNCHANGED vars
  <2>1. UNCHANGED <<tpc, queue, ft, stats, file>>
    BY <1>13 DEF DestroyInterrupt, Join, Sigint, Finished, vars
  <2> QED BY <1>7, <2>1
<1>14. CASE Begin \/ Finish \/ ResetStop \/ LoopTest \/ ReadFails \/ Check \/ Drain
  <2>1. UNCHANGED <<queue, ft, stats, file>> /\ tpc \notin {"none", "create"} /\ tpc' # "create"
    BY <1>14 DEF Begin, Finish, ResetStop, LoopTest, ReadFails, Check, Drain
  <2> QED BY <1>7, <2>1
<1> QED BY <1>6, <1>8, <1>9, <1>10, <1>11, <1>12, <1>13, <1>14 DEF Next, ProcessingThread

LEMMA InitTypes == Init => TypeOK /\ WithinTotal
<1> SUFFICES ASSUME Init PROVE TypeOK /\ WithinTotal
  OBVIOUS
<1>1. RipInv
  BY InitInv
<1>2. <<>> \in Seq(0..DiscSize) /\ 0 \in 0..MaxSignals
  BY RipAssumption
<1>3. file \in [FileIds -> [state : {"none", "open", "closed", "failed"},
                            lsn : Nat, data : Seq(0..DiscSize)]]
  BY <1>2 DEF Init, FileAt
<1>4. stats = [total |-> 0, done |-> 0] /\ stats.done = 0 /\ stats.total = 0
  BY DEF Init
<1>5. stats \in [total : Nat, done : Nat] /\ stats.done <= stats.total
  BY <1>4
<1>6. /\ format \in Formats /\ trimming \in BOOLEAN /\ mpc = "ready" /\ processing = 0
      /\ tpc = "none" /\ decoder = <<>> /\ signals = 0 /\ interrupted = FALSE /\ failure = FALSE
  BY DEF Init
<1>7. WithinTotal
  BY <1>6 DEF WithinTotal
<1> QED BY <1>1, <1>2, <1>3, <1>5, <1>6, <1>7 DEF TypeOK, RipInv, ShapeInv

LEMMA StatsTypes ==
  ASSUME TypeOK, [Next]_vars, SumLengths(queue) \in Nat
  PROVE  stats' \in [total : Nat, done : Nat]
<1>1. stats \in [total : Nat, done : Nat]
  BY DEF TypeOK
<1>2. CASE Start
  <2>1. stats' = [total |-> SumLengths(queue), done |-> 0]
    BY <1>2 DEF Start
  <2> QED BY <2>1
<1>3. CASE Read
  <2>1. PICK n \in 1..block.size : stats' = [stats EXCEPT !.done = @ + n]
    BY <1>3 DEF Read, Processed
  <2>2. n \in Nat
    <3>1. block.size \in Nat
      BY DEF TypeOK
    <3> QED BY <3>1
  <2>3. stats = [total |-> stats.total, done |-> stats.done]
        /\ stats.total \in Nat /\ stats.done \in Nat
    BY <1>1
  <2>4. stats' = [total |-> stats.total, done |-> stats.done + n]
    BY <2>1, <2>3
  <2>5. stats.done + n \in Nat
    BY <2>2, <2>3
  <2> QED BY <2>3, <2>4, <2>5
<1>4. CASE DestroyInterrupt \/ Join \/ Sigint \/ Finished \/ Callback \/ UNCHANGED vars
  BY <1>1, <1>4 DEF DestroyInterrupt, Join, Sigint, Finished, Callback, vars
<1>5. CASE \/ Begin \/ TakeFile \/ Finish \/ CreateFile \/ CreateFails
           \/ ResetStop \/ LoopTest \/ ReadFails \/ Check \/ Drain \/ Close
  BY <1>1, <1>5 DEF Begin, TakeFile, Finish, CreateFile, CreateFails, ResetStop, LoopTest,
                    ReadFails, Check, Drain, Close
<1> QED BY <1>2, <1>3, <1>4, <1>5 DEF Next, ProcessingThread

LEMMA ExceptFunction ==
  ASSUME NEW S, NEW g, g = [x \in S |-> g[x]], NEW a, NEW e, NEW f, f = [g EXCEPT ![a] = e]
  PROVE  f = [x \in S |-> f[x]]
OBVIOUS

LEMMA FilesKept ==
  ASSUME file = [id \in FileIds |-> file[id]], [Next]_vars
  PROVE  file' = [id \in FileIds |-> file'[id]]
<1>1. UNCHANGED file \/ \E e : file' = [file EXCEPT ![ft.id] = e]
  <2>1. CASE CreateFile \/ CreateFails
    BY <2>1 DEF CreateFile, CreateFails
  <2>2. CASE Read
    BY <2>2 DEF Read, ReadForDecoder, ReadAndWrite
  <2>3. CASE Close
    BY <2>3 DEF Close
  <2>4. CASE Callback
    BY <2>4 DEF Callback
  <2>5. CASE Start \/ DestroyInterrupt \/ Join \/ Sigint \/ Finished \/ UNCHANGED vars
    BY <2>5 DEF Start, DestroyInterrupt, Join, Sigint, Finished, vars
  <2>6. CASE Begin \/ TakeFile \/ Finish \/ ResetStop \/ LoopTest \/ ReadFails \/ Check \/ Drain
    BY <2>6 DEF Begin, TakeFile, Finish, ResetStop, LoopTest, ReadFails, Check, Drain
  <2> QED BY <2>1, <2>2, <2>3, <2>4, <2>5, <2>6 DEF Next, ProcessingThread
<1> QED BY <1>1, ExceptFunction

LEMMA NextTypes ==
  ASSUME RipInv, RipDataInv, RipInv', RipDataInv', FramesInv', TypeOK, WithinTotal, [Next]_vars
  PROVE  TypeOK' /\ WithinTotal'
<1>1. WithinTotal' /\ ToRead' \in Nat /\ SumLengths(queue') \in Nat
  BY TotalKept
<1>2. stats' \in [total : Nat, done : Nat]
  <2>1. SumLengths(queue) \in Nat
    BY SumIsNat DEF RipInv, ShapeInv, IsQueue
  <2> QED BY <2>1, StatsTypes
<1>3. stats'.done <= stats'.total
  <2>1. CASE tpc' # "none"
    <3>1. stats'.done + ToRead' + SumLengths(queue') <= stats'.total
      BY <1>1, <2>1 DEF WithinTotal
    <3>2. \A d, a, b, t \in Nat : d + a + b <= t => d <= t
      OBVIOUS
    <3> QED BY <1>1, <1>2, <3>1, <3>2
  <2>2. CASE tpc' = "none"
    <3>1. ~Start /\ ~Read
      BY <2>2 DEF Start, Read
    <3>2. UNCHANGED stats
      BY <3>1 DEF Next, ProcessingThread, DestroyInterrupt, Join, Sigint, Finished, Callback, vars,
         Begin, TakeFile, Finish, CreateFile, CreateFails, ResetStop, LoopTest, ReadFails, Check,
         Drain, Close
    <3> QED BY <3>2 DEF TypeOK
  <2> QED BY <2>1, <2>2
<1>4. ASSUME NEW id \in FileIds
      PROVE  /\ file'[id].state \in {"none", "open", "closed", "failed"}
             /\ file'[id].data \in Seq(0..DiscSize)
  <2>1. /\ file[id].state \in {"none", "open", "closed", "failed"}
        /\ file[id].data \in Seq(0..DiscSize)
    BY DEF TypeOK
  <2>2. CASE id # ft.id \/ UNCHANGED file
    BY <2>1, <2>2, OneFileChanges
  <2>3. CASE id = ft.id /\ ~UNCHANGED file
    <3>1. /\ ft' = ft /\ file'[id].state \in {file[id].state, "open", "closed", "failed"}
          /\ file'[id].data = file[id].data \/ file'[id].state = "open"
      BY <2>3, OneFileChanges
    <3>2. file'[id].state = "open" => file'[id].data \in Seq(0..DiscSize)
      BY <2>3, <3>1 DEF FramesInv
    <3> QED BY <2>1, <3>1, <3>2
  <2> QED BY <2>2, <2>3
<1>5. file' \in [FileIds -> [state : {"none", "open", "closed", "failed"},
                             lsn : Nat, data : Seq(0..DiscSize)]]
  <2>1. file' = [id \in FileIds |-> file'[id]]
    BY FilesKept DEF TypeOK
  <2>2. ASSUME NEW id \in FileIds
        PROVE  file'[id] \in [state : {"none", "open", "closed", "failed"},
                              lsn : Nat, data : Seq(0..DiscSize)]
    <3>1. file'[id] = FileAt(file'[id].state, file'[id].lsn, file'[id].data)
          /\ file'[id].lsn \in Nat
      BY DEF RipInv, ShapeInv, FileAt
    <3> QED BY <1>4, <3>1 DEF FileAt
  <2> QED BY <2>1, <2>2
<1>6. /\ format' \in Formats /\ trimming' \in BOOLEAN /\ failure' \in BOOLEAN
      /\ decoder' \in Seq(0..DiscSize)
  BY DEF RipDataInv, DataInv, FramesInv
<1>7. /\ stop' \in {0, 1} /\ queue' \in Seq(Files) /\ tpc' \in ThreadLabels /\ ft' \in Files
      /\ block' \in [size : 0..MaxBlock, encrypted : BOOLEAN]
  BY DEF RipInv, ShapeInv
<1> QED BY <1>1, <1>2, <1>3, <1>5, <1>6, <1>7, FlagTypes DEF TypeOK

\* The types of the engine, and with them that the progress never overtakes its
\* total, whatever fails and wherever it is interrupted.
THEOREM RipTypes == Spec => []TypesOK
<1>1. Init => TypeOK /\ WithinTotal
  BY InitTypes
<1>2. /\ RipInv /\ RipDataInv /\ RipInv' /\ RipDataInv' /\ FramesInv'
      /\ TypeOK /\ WithinTotal /\ [Next]_vars
      => (TypeOK /\ WithinTotal)'
  BY NextTypes
<1>3. RipInv /\ RipDataInv => FramesInv
  BY FramesOnDisc
<1>4. RipInv /\ RipDataInv /\ TypeOK /\ WithinTotal => TypesOK
  BY DEF TypesOK
<1> QED BY <1>1, <1>2, <1>3, <1>4, InductiveInvariant, DataInvariant, PTL DEF Spec
==============================================================================
