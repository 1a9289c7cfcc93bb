---------------------------- MODULE WritingProofs ----------------------------
(* Proofs about what is written.  First the writer of DSF files (DsfWriter),   *)
(* for every number of channels, size of a block and of a frame, and every     *)
(* selection of tracks; then the tag of a track (Id3Tag), for all texts and    *)
(* all tags of others; at the end what holds of MCWriting, with the theorems   *)
(* of DsdiffWriterProofs.                                                      *)
EXTENDS MCWriting, TLAPS, SequenceTheorems, DataInduction, FiniteSetTheorems

-----------------------------------------------------------------------------
(* The arithmetic of blocks that go round the channels *)

LEMMA Rounds ==
  ASSUME NEW C \in Nat \ {0}, NEW q \in Nat, NEW c \in 0 .. C - 1, NEW r \in Nat
  PROVE  /\ q * C \in Nat /\ r * C \in Nat
         /\ q < r <=> q * C + c + 1 <= r * C
<1>0. q * C \in Nat /\ r * C \in Nat  OBVIOUS
<1>1. ASSUME q < r PROVE q * C + c + 1 <= r * C
  <2>1. r = q + 1 + (r - q - 1) /\ r - q - 1 \in Nat  BY <1>1
  <2>2. PICK d \in Nat : r = q + 1 + d  BY <2>1
  <2>3. r * C = q * C + C + d * C /\ d * C \in Nat  BY <2>2
  <2> QED  BY <1>0, <2>3
<1>2. ASSUME ~(q < r) PROVE ~(q * C + c + 1 <= r * C)
  <2>1. q = r + (q - r) /\ q - r \in Nat  BY <1>2
  <2>2. PICK d \in Nat : q = r + d  BY <2>1
  <2>3. q * C = r * C + d * C /\ d * C \in Nat  BY <2>2
  <2> QED  BY <1>0, <2>3
<1> QED  BY <1>0, <1>1, <1>2

LEMMA SamePlace ==
  ASSUME NEW C \in Nat \ {0}, NEW q \in Nat, NEW c \in 0 .. C - 1, NEW r \in Nat, NEW d \in 0 .. C - 1,
         q * C + c = r * C + d
  PROVE  q = r /\ c = d
<1>1. q * C \in Nat /\ r * C \in Nat  OBVIOUS
<1>2. ~(q < r)
  <2>1. q < r <=> q * C + c + 1 <= r * C  BY Rounds
  <2> QED  BY <1>1, <2>1
<1>3. ~(r < q)
  <2>1. r < q <=> r * C + d + 1 <= q * C  BY Rounds
  <2> QED  BY <1>1, <2>1
<1>4. q = r  BY <1>2, <1>3
<1> QED  BY <1>1, <1>4

LEMMA EveryPlace ==
  ASSUME NEW C \in Nat \ {0}, NEW p \in Nat \ {0}
  PROVE  /\ (p - 1) \div C \in Nat
         /\ (p - 1) % C \in 0 .. C - 1
         /\ ((p - 1) \div C) * C + ((p - 1) % C) + 1 = p
<1>1. (p - 1) = C * ((p - 1) \div C) + ((p - 1) % C) /\ (p - 1) % C \in 0 .. C - 1
  OBVIOUS
<1>2. (p - 1) \div C \in Nat  OBVIOUS
<1>3. C * ((p - 1) \div C) = ((p - 1) \div C) * C  BY <1>2
<1> QED  BY <1>1, <1>2, <1>3

LEMMA DivideProduct ==
  ASSUME NEW C \in Nat \ {0}, NEW n \in Nat
  PROVE  (n * C) \div C = n /\ n * C \in Nat
<1>1. n * C \in Nat  OBVIOUS
<1>2. PICK q \in Int, r \in 0 .. C - 1 : q = (n * C) \div C /\ n * C = q * C + r
  <2>1. n * C = C * ((n * C) \div C) + ((n * C) % C) /\ (n * C) % C \in 0 .. C - 1  BY <1>1
  <2>2. (n * C) \div C \in Int  BY <1>1
  <2> QED  BY <2>1, <2>2
<1>3. q \in Nat  BY <1>1, <1>2
<1>4. n * C + 0 = q * C + r /\ 0 \in 0 .. C - 1  BY <1>1, <1>2
<1>5. n = q  BY <1>3, <1>4, SamePlace
<1> QED  BY <1>1, <1>2, <1>5

\* The byte of a frame that the loop is at.
LEMMA TakenRound ==
  ASSUME NEW C \in Nat \ {0}, NEW more \in Nat \ {0}, NEW c \in 0 .. C - 1
  PROVE  (more * C - c - 1) \div C = more - 1
<1> DEFINE n == more * C - c - 1
<1>1. more * C = (more - 1) * C + C /\ (more - 1) * C \in Nat /\ more - 1 \in Nat  OBVIOUS
<1>2. n = (more - 1) * C + (C - 1 - c) /\ C - 1 - c \in 0 .. C - 1 /\ n \in Nat  BY <1>1
<1>3. PICK q \in Int, r \in 0 .. C - 1 : q = n \div C /\ n = q * C + r
  <2> HIDE DEF n
  <2>1. PICK p \in Nat \ {0} : p - 1 = n
    <3>1. n + 1 \in Nat \ {0} /\ (n + 1) - 1 = n  BY <1>2
    <3> QED  BY <3>1
  <2>2. /\ (p - 1) \div C \in Nat /\ (p - 1) % C \in 0 .. C - 1
        /\ ((p - 1) \div C) * C + ((p - 1) % C) + 1 = p
    BY EveryPlace
  <2>3. n \div C \in Int /\ n % C \in 0 .. C - 1 /\ (n \div C) * C + (n % C) + 1 = n + 1
    BY <2>1, <2>2
  <2>4. n = (n \div C) * C + (n % C)  BY <1>2, <2>3
  <2> QED  BY <2>3, <2>4
<1> HIDE DEF n
<1>4. q \in Nat  BY <1>2, <1>3
<1>5. more - 1 = q
  <2>1. (more - 1) * C + (C - 1 - c) = q * C + r  BY <1>2, <1>3
  <2> QED  BY <1>1, <1>2, <1>4, <2>1, SamePlace
<1> QED  BY <1>3, <1>5 DEF n

-----------------------------------------------------------------------------
(* What is due to a file: a recursion over the files before it *)

LEMMA AudioBytes ==
  ASSUME NEW t \in Tracks, NEW k \in 1 .. MaxFrames * FrameBytes
  PROVE  <<t, k>> \in Audio
<1>1. t # -1  BY DsfAssumption DEF Tracks
<1>2. <<t, k>> # <<-1, 0>>  BY <1>1
<1> QED  BY <1>2 DEF Audio, Bytes, Pad

LEMMA OwnIsSeq ==
  ASSUME NEW t \in Tracks, NEW frames \in 0 .. MaxFrames
  PROVE  /\ Own(t, frames) \in Seq(Audio) /\ Len(Own(t, frames)) = frames * FrameBytes
         /\ frames * FrameBytes \in Nat
         /\ \A k \in 1 .. frames * FrameBytes : Own(t, frames)[k] = <<t, k>>
<1> DEFINE n == frames * FrameBytes
<1>1. n \in Nat /\ n <= MaxFrames * FrameBytes /\ MaxFrames * FrameBytes \in Nat
  <2>1. frames \in Nat /\ MaxFrames \in Nat /\ FrameBytes \in Nat /\ MaxFrames - frames \in Nat
    BY DsfAssumption
  <2>2. PICK d \in Nat : MaxFrames = frames + d  BY <2>1
  <2>3. MaxFrames * FrameBytes = frames * FrameBytes + d * FrameBytes /\ d * FrameBytes \in Nat
    BY <2>1, <2>2
  <2>4. frames * FrameBytes \in Nat  BY <2>1
  <2> QED  BY <2>3, <2>4
<1>2. Own(t, frames) = [k \in 1 .. n |-> <<t, k>>]  BY DEF Own
<1> HIDE DEF n
<1>3. \A k \in 1 .. n : <<t, k>> \in Audio  BY <1>1, AudioBytes
<1> QED  BY <1>1, <1>2, <1>3 DEF n

LEMMA CountIsNat ==
  ASSUME NEW f \in File
  PROVE  Count(f) \in Nat
<1>1. f.header.sample_count \in Nat  BY DEF File, Chunks
<1> QED  BY <1>1 DEF Count

LEMMA RestIsSeq ==
  ASSUME NEW due \in Seq(Audio), NEW f \in File
  PROVE  /\ Rest(due, f) \in Seq(Audio)
         /\ Len(Rest(due, f)) = IF Count(f) <= Len(due) THEN Len(due) - Count(f) ELSE 0
         /\ \A k \in 1 .. Len(Rest(due, f)) : Rest(due, f)[k] = due[Count(f) + k]
<1> DEFINE n == Count(f)
           m == Len(due)
<1>1. n \in Nat /\ m \in Nat /\ Rest(due, f) = SubSeq(due, n + 1, m)  BY CountIsNat DEF Rest
<1> HIDE DEF n, m
<1>2. due \in Seq(Audio) /\ m = Len(due)  BY DEF m
<1>3. SubSeq(due, n + 1, m) \in Seq(Audio)  BY <1>1, <1>2
<1>4. Len(SubSeq(due, n + 1, m)) = IF n <= m THEN m - n ELSE 0  BY <1>1, <1>2
<1>5. \A k \in 1 .. Len(SubSeq(due, n + 1, m)) : SubSeq(due, n + 1, m)[k] = due[n + k]
  BY <1>1, <1>2, <1>4
<1> QED  BY <1>1, <1>3, <1>4, <1>5 DEF n, m

LEMMA CarriedIsSeq ==
  ASSUME NEW nopad, NEW fs \in Seq(File), NEW n \in 0 .. Len(fs), NEW due \in Seq(Audio), NEW t
  PROVE  Carried(nopad, fs, n, due, t) \in Seq(Audio)
<1>1. CASE n > 0 /\ nopad /\ fs[n].track = t - 1
  <2>1. fs[n] \in File  BY <1>1
  <2> QED  BY <1>1, <2>1, RestIsSeq DEF Carried
<1>2. CASE ~(n > 0 /\ nopad /\ fs[n].track = t - 1)  BY <1>2 DEF Carried
<1> QED  BY <1>1, <1>2

LEMMA DueStepIsSeq ==
  ASSUME NEW nopad, NEW fs \in Seq(File), NEW i \in 1 .. Len(fs), NEW due \in Seq(Audio)
  PROVE  DueStep(nopad, fs, i, due) \in Seq(Audio)
<1>1. fs[i] \in File /\ i - 1 \in 0 .. Len(fs)  OBVIOUS
<1>2. fs[i].track \in Tracks /\ fs[i].sent \in 0 .. MaxFrames  BY <1>1 DEF File
<1>3. Own(fs[i].track, fs[i].sent) \in Seq(Audio)  BY <1>2, OwnIsSeq
<1>4. Carried(nopad, fs, i - 1, due, fs[i].track) \in Seq(Audio)  BY <1>1, CarriedIsSeq
<1> QED  BY <1>3, <1>4 DEF DueStep

Dues(a, nopad, fs, n) ==
  /\ a \in [0 .. n -> Seq(Audio)] /\ a[0] = <<>>
  /\ \A i \in 1 .. n : a[i] = DueStep(nopad, fs, i, a[i - 1])

LEMMA DueFunction ==
  ASSUME NEW nopad, NEW fs \in Seq(File), NEW n \in 0 .. Len(fs)
  PROVE  \E a : Dues(a, nopad, fs, n) /\ DueOf(nopad, fs, n) = a[n]
<1> DEFINE V == Seq(Audio)
           next == [i \in 1 .. n |-> [v \in V |-> DueStep(nopad, fs, i, v)]]
           Is(a) == a = [i \in 0 .. n |-> IF i = 0 THEN <<>> ELSE DueStep(nopad, fs, i, a[i - 1])]
<1>0. n \in Nat /\ \A i \in 1 .. n : i \in 1 .. Len(fs)  OBVIOUS
<1>1. Steps(next, n, V)  BY <1>0, DueStepIsSeq DEF Steps
<1>2. PICK empty : empty = <<>> /\ empty \in V
  <2>1. <<>> \in V  OBVIOUS
  <2> QED  BY <2>1
<1>3. PICK f : Solves(f, n, V, empty, next)
  <2> HIDE DEF next, V
  <2> QED  BY <1>0, <1>1, <1>2, Recursion
<1>4. Is(f)
  <2>1. \A i \in 1 .. n : i - 1 \in 0 .. n /\ f[i - 1] \in V  BY <1>0, <1>3 DEF Solves
  <2>2. \A i \in 1 .. n, v \in V : next[i][v] = DueStep(nopad, fs, i, v)  OBVIOUS
  <2> HIDE DEF next
  <2>3. \A i \in 1 .. n : f[i] = DueStep(nopad, fs, i, f[i - 1])  BY <1>3, <2>1, <2>2 DEF Solves
  <2>4. f = [i \in 0 .. n |-> f[i]] /\ f[0] = empty  BY <1>3 DEF Solves
  <2>5. \A i \in 0 .. n : f[i] = IF i = 0 THEN empty ELSE DueStep(nopad, fs, i, f[i - 1])
    <3> TAKE i \in 0 .. n
    <3>1. i = 0 \/ i \in 1 .. n  BY <1>0
    <3> QED  BY <2>3, <2>4, <3>1
  <2> QED  BY <2>4, <2>5, <1>2
<1> DEFINE a == CHOOSE g : Is(g)
<1>5. Is(a)  BY <1>4
<1>6. DueOf(nopad, fs, n) = a[n]  BY DEF DueOf
<1> HIDE DEF a
<1>7. a[0] = <<>> /\ \A i \in 1 .. n : a[i] = DueStep(nopad, fs, i, a[i - 1])  BY <1>0, <1>5
<1>8. DOMAIN a = 0 .. n /\ a = [i \in 0 .. n |-> a[i]]  BY <1>5
<1> HIDE DEF Is
<1>9. 0 .. n \subseteq {i \in 0 .. n : a[i] \in Seq(Audio)}
  <2> DEFINE T == {i \in 0 .. n : a[i] \in Seq(Audio)}
  <2>1. 0 \in T
    <3>1. a[0] \in Seq(Audio)  BY <1>2, <1>7
    <3> QED  BY <1>0, <3>1
  <2>2. \A i \in 1 .. n : i - 1 \in T => i \in T  BY <1>0, <1>7, DueStepIsSeq
  <2> HIDE DEF T
  <2>3. 0 .. n \subseteq T  BY <1>0, <2>1, <2>2, Induction
  <2> QED  BY <2>3 DEF T
<1>10. Dues(a, nopad, fs, n)  BY <1>7, <1>8, <1>9 DEF Dues
<1> QED  BY <1>6, <1>10

\* What the files from the first to the n-th make due depends on no others.
LEMMA SameDues ==
  ASSUME NEW nopad, NEW fs \in Seq(File), NEW gs \in Seq(File), NEW n \in 0 .. Len(fs), n <= Len(gs),
         \A i \in 1 .. n : gs[i] = fs[i]
  PROVE  DueOf(nopad, gs, n) = DueOf(nopad, fs, n)
<1>0. n \in Nat /\ n \in 0 .. Len(gs)  OBVIOUS
<1>1. PICK a : Dues(a, nopad, fs, n) /\ DueOf(nopad, fs, n) = a[n]  BY DueFunction
<1>2. PICK b : Dues(b, nopad, gs, n) /\ DueOf(nopad, gs, n) = b[n]  BY <1>0, DueFunction
<1>3. \A i \in 1 .. n : \A v : DueStep(nopad, gs, i, v) = DueStep(nopad, fs, i, v)
  <2> TAKE i \in 1 .. n
  <2> TAKE v
  <2>1. gs[i] = fs[i] /\ (i - 1 > 0 => gs[i - 1] = fs[i - 1])  BY <1>0
  <2> QED  BY <2>1 DEF DueStep, Carried
<1> DEFINE T == {i \in 0 .. n : a[i] = b[i]}
<1>4. 0 \in T  BY <1>0, <1>1, <1>2 DEF Dues
<1>5. \A i \in 1 .. n : i - 1 \in T => i \in T  BY <1>0, <1>1, <1>2, <1>3 DEF Dues
<1>6. n \in T
  <2> HIDE DEF T
  <2>1. 0 .. n \subseteq T  BY <1>0, <1>4, <1>5, Induction
  <2> QED  BY <1>0, <2>1
<1> QED  BY <1>1, <1>2, <1>6

\* Step by step.
LEMMA DueIsSeq ==
  ASSUME NEW nopad, NEW fs \in Seq(File), NEW n \in 0 .. Len(fs)
  PROVE  DueOf(nopad, fs, n) \in Seq(Audio)
<1>1. PICK a : Dues(a, nopad, fs, n) /\ DueOf(nopad, fs, n) = a[n]  BY DueFunction
<1> QED  BY <1>1 DEF Dues

LEMMA NextDue ==
  ASSUME NEW nopad, NEW fs \in Seq(File), NEW n \in 1 .. Len(fs)
  PROVE  DueOf(nopad, fs, n) = DueStep(nopad, fs, n, DueOf(nopad, fs, n - 1))
<1>0. n - 1 \in Nat /\ n - 1 \in 0 .. Len(fs) /\ n \in 0 .. Len(fs)  OBVIOUS
<1>1. PICK a : Dues(a, nopad, fs, n - 1) /\ DueOf(nopad, fs, n - 1) = a[n - 1]
  BY <1>0, DueFunction
<1>2. PICK b : Dues(b, nopad, fs, n) /\ DueOf(nopad, fs, n) = b[n]  BY <1>0, DueFunction
<1> DEFINE T == {i \in 0 .. n - 1 : a[i] = b[i]}
<1>3. 0 \in T  BY <1>0, <1>1, <1>2 DEF Dues
<1>4. \A i \in 1 .. n - 1 : i - 1 \in T => i \in T  BY <1>0, <1>1, <1>2 DEF Dues
<1>5. n - 1 \in T
  <2> HIDE DEF T
  <2>1. 0 .. n - 1 \subseteq T  BY <1>0, <1>3, <1>4, Induction
  <2> QED  BY <1>0, <2>1
<1>6. b[n] = DueStep(nopad, fs, n, b[n - 1])  BY <1>0, <1>2 DEF Dues
<1> QED  BY <1>1, <1>2, <1>5, <1>6

-----------------------------------------------------------------------------
(* What dsf_close writes of the buffers: recursions over the channels *)

Buffers == {buf \in [Chans -> Seq(Audio)] : \A c \in Chans : Len(buf[c]) <= BlockSize}

LEMMA PaddedBlockType ==
  ASSUME NEW buf \in Buffers, NEW c \in Chans
  PROVE  PaddedBlock(buf, c) \in Block
<1>1. buf[c] \in Seq(Audio)  BY DEF Buffers
<1>2. \A k \in 1 .. BlockSize : k <= Len(buf[c]) => buf[c][k] \in Audio
  BY <1>1, DsfAssumption
<1>3. \A k \in 1 .. BlockSize : (IF k <= Len(buf[c]) THEN buf[c][k] ELSE Pad) \in Bytes
  BY <1>2 DEF Audio, Bytes
<1> QED  BY <1>3 DEF PaddedBlock, Block

PaddedStep(buf, c, sofar) ==
  IF buf[c - 1] = <<>> THEN sofar ELSE Append(sofar, PaddedBlock(buf, c - 1))

LEMMA PaddedStepType ==
  ASSUME NEW buf \in Buffers, NEW c \in 1 .. Channels, NEW v \in Seq(Block)
  PROVE  PaddedStep(buf, c, v) \in Seq(Block)
<1>1. c - 1 \in Chans  BY DsfAssumption DEF Chans
<1>2. PaddedBlock(buf, c - 1) \in Block  BY <1>1, PaddedBlockType
<1> QED  BY <1>2 DEF PaddedStep

CountedStep(buf, c, sofar) == sofar + Len(buf[c - 1])

LEMMA CountedStepType ==
  ASSUME NEW buf \in Buffers, NEW c \in 1 .. Channels, NEW v \in Nat
  PROVE  CountedStep(buf, c, v) \in Nat
<1>1. c - 1 \in Chans  BY DsfAssumption DEF Chans
<1>2. Len(buf[c - 1]) \in Nat  BY <1>1 DEF Buffers
<1> QED  BY <1>2 DEF CountedStep

Padding(a, buf, n) ==
  /\ a \in [0 .. n -> Seq(Block)] /\ a[0] = <<>>
  /\ \A c \in 1 .. n : a[c] = PaddedStep(buf, c, a[c - 1])

LEMMA PaddedFunction ==
  ASSUME NEW buf \in Buffers, NEW n \in 0 .. Channels
  PROVE  \E a : Padding(a, buf, n) /\ PaddedBlocks(buf, n) = a[n]
<1> DEFINE V == Seq(Block)
           next == [i \in 1 .. n |-> [v \in V |-> PaddedStep(buf, i, v)]]
           Is(a) == a = [c \in 0 .. n |-> IF c = 0 THEN <<>> ELSE PaddedStep(buf, c, a[c - 1])]
<1>0. n \in Nat /\ \A i \in 1 .. n : i \in 1 .. Channels  BY DsfAssumption
<1>1. Steps(next, n, V)  BY <1>0, PaddedStepType DEF Steps
<1>2. PICK first : first = <<>> /\ first \in V
  <2>1. <<>> \in V  OBVIOUS
  <2> QED  BY <2>1
<1>3. PICK f : Solves(f, n, V, first, next)
  <2> HIDE DEF next, V
  <2> QED  BY <1>0, <1>1, <1>2, Recursion
<1>4. Is(f)
  <2>1. \A i \in 1 .. n : i - 1 \in 0 .. n /\ f[i - 1] \in V  BY <1>0, <1>3 DEF Solves
  <2>2. \A i \in 1 .. n, v \in V : next[i][v] = PaddedStep(buf, i, v)  OBVIOUS
  <2> HIDE DEF next
  <2>3. \A i \in 1 .. n : f[i] = PaddedStep(buf, i, f[i - 1])  BY <1>3, <2>1, <2>2 DEF Solves
  <2>4. f = [i \in 0 .. n |-> f[i]] /\ f[0] = first  BY <1>3 DEF Solves
  <2>5. \A i \in 0 .. n : f[i] = IF i = 0 THEN first ELSE PaddedStep(buf, i, f[i - 1])
    <3> TAKE i \in 0 .. n
    <3>1. i = 0 \/ i \in 1 .. n  BY <1>0
    <3> QED  BY <2>3, <2>4, <3>1
  <2> QED  BY <2>4, <2>5, <1>2
<1> DEFINE a == CHOOSE g : Is(g)
<1>5. Is(a)  BY <1>4
<1>6. PaddedBlocks(buf, n) = a[n]  BY DEF PaddedBlocks, PaddedStep
<1> HIDE DEF a
<1>7. a[0] = <<>> /\ \A i \in 1 .. n : a[i] = PaddedStep(buf, i, a[i - 1])  BY <1>0, <1>5
<1>8. DOMAIN a = 0 .. n /\ a = [i \in 0 .. n |-> a[i]]  BY <1>5
<1> HIDE DEF Is
<1>9. 0 .. n \subseteq {i \in 0 .. n : a[i] \in Seq(Block)}
  <2> DEFINE T == {i \in 0 .. n : a[i] \in Seq(Block)}
  <2>1. 0 \in T
    <3>1. a[0] \in Seq(Block)  BY <1>2, <1>7
    <3> QED  BY <1>0, <3>1
  <2>2. \A i \in 1 .. n : i - 1 \in T => i \in T  BY <1>0, <1>7, PaddedStepType
  <2> HIDE DEF T
  <2>3. 0 .. n \subseteq T  BY <1>0, <2>1, <2>2, Induction
  <2> QED  BY <2>3 DEF T
<1>10. Padding(a, buf, n)  BY <1>7, <1>8, <1>9 DEF Padding
<1> QED  BY <1>6, <1>10

Counting(a, buf, n) ==
  /\ a \in [0 .. n -> Nat] /\ a[0] = 0
  /\ \A c \in 1 .. n : a[c] = CountedStep(buf, c, a[c - 1])

LEMMA LeftoverFunction ==
  ASSUME NEW buf \in Buffers, NEW n \in 0 .. Channels
  PROVE  \E a : Counting(a, buf, n) /\ Leftover(buf, n) = a[n]
<1> DEFINE V == Nat
           next == [i \in 1 .. n |-> [v \in V |-> CountedStep(buf, i, v)]]
           Is(a) == a = [c \in 0 .. n |-> IF c = 0 THEN 0 ELSE CountedStep(buf, c, a[c - 1])]
<1>0. n \in Nat /\ \A i \in 1 .. n : i \in 1 .. Channels  BY DsfAssumption
<1>1. Steps(next, n, V)  BY <1>0, CountedStepType DEF Steps
<1>2. PICK first : first = 0 /\ first \in V
  <2>1. 0 \in V  OBVIOUS
  <2> QED  BY <2>1
<1>3. PICK f : Solves(f, n, V, first, next)
  <2> HIDE DEF next, V
  <2> QED  BY <1>0, <1>1, <1>2, Recursion
<1>4. Is(f)
  <2>1. \A i \in 1 .. n : i - 1 \in 0 .. n /\ f[i - 1] \in V  BY <1>0, <1>3 DEF Solves
  <2>2. \A i \in 1 .. n, v \in V : next[i][v] = CountedStep(buf, i, v)  OBVIOUS
  <2> HIDE DEF next
  <2>3. \A i \in 1 .. n : f[i] = CountedStep(buf, i, f[i - 1])  BY <1>3, <2>1, <2>2 DEF Solves
  <2>4. f = [i \in 0 .. n |-> f[i]] /\ f[0] = first  BY <1>3 DEF Solves
  <2>5. \A i \in 0 .. n : f[i] = IF i = 0 THEN first ELSE CountedStep(buf, i, f[i - 1])
    <3> TAKE i \in 0 .. n
    <3>1. i = 0 \/ i \in 1 .. n  BY <1>0
    <3> QED  BY <2>3, <2>4, <3>1
  <2> QED  BY <2>4, <2>5, <1>2
<1> DEFINE a == CHOOSE g : Is(g)
<1>5. Is(a)  BY <1>4
<1>6. Leftover(buf, n) = a[n]  BY DEF Leftover, CountedStep
<1> HIDE DEF a
<1>7. a[0] = 0 /\ \A i \in 1 .. n : a[i] = CountedStep(buf, i, a[i - 1])  BY <1>0, <1>5
<1>8. DOMAIN a = 0 .. n /\ a = [i \in 0 .. n |-> a[i]]  BY <1>5
<1> HIDE DEF Is
<1>9. 0 .. n \subseteq {i \in 0 .. n : a[i] \in Nat}
  <2> DEFINE T == {i \in 0 .. n : a[i] \in Nat}
  <2>1. 0 \in T
    <3>1. a[0] \in Nat  BY <1>2, <1>7
    <3> QED  BY <1>0, <3>1
  <2>2. \A i \in 1 .. n : i - 1 \in T => i \in T  BY <1>0, <1>7, CountedStepType
  <2> HIDE DEF T
  <2>3. 0 .. n \subseteq T  BY <1>0, <2>1, <2>2, Induction
  <2> QED  BY <2>3 DEF T
<1>10. Counting(a, buf, n)  BY <1>7, <1>8, <1>9 DEF Counting
<1> QED  BY <1>6, <1>10

LEMMA PaddedType ==
  ASSUME NEW buf \in Buffers, NEW n \in 0 .. Channels
  PROVE  PaddedBlocks(buf, n) \in Seq(Block) /\ Leftover(buf, n) \in Nat
<1>0. n \in 0 .. n  BY DsfAssumption
<1>1. PICK a : Padding(a, buf, n) /\ PaddedBlocks(buf, n) = a[n]  BY PaddedFunction
<1>2. PICK b : Counting(b, buf, n) /\ Leftover(buf, n) = b[n]  BY LeftoverFunction
<1> QED  BY <1>0, <1>1, <1>2 DEF Padding, Counting

\* When no buffer is empty, each gives a block; when all are, there is none.
LEMMA PaddedAll ==
  ASSUME NEW buf \in Buffers, \A c \in Chans : buf[c] # <<>>
  PROVE  /\ Len(PaddedBlocks(buf, Channels)) = Channels
         /\ \A c \in Chans : PaddedBlocks(buf, Channels)[c + 1] = PaddedBlock(buf, c)
<1>0. Channels \in Nat /\ Channels \in 0 .. Channels  BY DsfAssumption
<1>1. PICK a : Padding(a, buf, Channels) /\ PaddedBlocks(buf, Channels) = a[Channels]
  BY <1>0, PaddedFunction
<1> DEFINE T == {i \in 0 .. Channels : /\ Len(a[i]) = i
                                       /\ \A k \in 1 .. i : a[i][k] = PaddedBlock(buf, k - 1)}
<1>2. 0 \in T  BY <1>0, <1>1 DEF Padding
<1>3. ASSUME NEW i \in 1 .. Channels, i - 1 \in T PROVE i \in T
  <2>1. i - 1 \in Chans /\ i - 1 \in 0 .. Channels /\ i \in Nat  BY <1>0 DEF Chans
  <2>2. PaddedBlock(buf, i - 1) \in Block  BY <2>1, PaddedBlockType
  <2>3. a[i] = Append(a[i - 1], PaddedBlock(buf, i - 1)) /\ a[i - 1] \in Seq(Block)
    BY <1>1, <2>1 DEF Padding, PaddedStep
  <2>4. Len(a[i - 1]) = i - 1 /\ \A k \in 1 .. i - 1 : a[i - 1][k] = PaddedBlock(buf, k - 1)
    BY <1>3
  <2>5. Len(a[i]) = i /\ a[i][i] = PaddedBlock(buf, i - 1)
    BY <2>1, <2>2, <2>3, <2>4
  <2>6. \A k \in 1 .. i - 1 : a[i][k] = a[i - 1][k]  BY <2>1, <2>2, <2>3, <2>4
  <2>7. \A k \in 1 .. i : k \in 1 .. i - 1 \/ k = i  BY <2>1
  <2>8. \A k \in 1 .. i : a[i][k] = PaddedBlock(buf, k - 1)  BY <2>4, <2>5, <2>6, <2>7
  <2>9. i \in 0 .. Channels  BY <1>0
  <2> QED  BY <2>5, <2>8, <2>9
<1>4. Channels \in T
  <2> HIDE DEF T
  <2>1. 0 .. Channels \subseteq T  BY <1>0, <1>2, <1>3, Induction
  <2> QED  BY <1>0, <2>1
<1>5. \A c \in Chans : c + 1 \in 1 .. Channels /\ (c + 1) - 1 = c  BY <1>0 DEF Chans
<1>6. Len(a[Channels]) = Channels /\ \A k \in 1 .. Channels : a[Channels][k] = PaddedBlock(buf, k - 1)
  BY <1>4
<1>7. ASSUME NEW c \in Chans PROVE a[Channels][c + 1] = PaddedBlock(buf, c)
  <2>1. PICK k \in 1 .. Channels : k = c + 1 /\ k - 1 = c  BY <1>5
  <2> QED  BY <1>6, <2>1
<1> QED  BY <1>1, <1>6, <1>7

LEMMA PaddedNone ==
  ASSUME NEW buf \in Buffers, \A c \in Chans : buf[c] = <<>>
  PROVE  PaddedBlocks(buf, Channels) = <<>>
<1>0. Channels \in Nat /\ Channels \in 0 .. Channels  BY DsfAssumption
<1>1. PICK a : Padding(a, buf, Channels) /\ PaddedBlocks(buf, Channels) = a[Channels]
  BY <1>0, PaddedFunction
<1> DEFINE T == {i \in 0 .. Channels : a[i] = <<>>}
<1>2. 0 \in T  BY <1>0, <1>1 DEF Padding
<1>3. ASSUME NEW i \in 1 .. Channels, i - 1 \in T PROVE i \in T
  <2>1. i - 1 \in Chans  BY <1>0 DEF Chans
  <2> QED  BY <1>1, <1>3, <2>1 DEF Padding, PaddedStep
<1>4. Channels \in T
  <2> HIDE DEF T
  <2>1. 0 .. Channels \subseteq T  BY <1>0, <1>2, <1>3, Induction
  <2> QED  BY <1>0, <2>1
<1> QED  BY <1>1, <1>4

LEMMA LeftoverEqual ==
  ASSUME NEW buf \in Buffers, NEW some \in Nat, \A c \in Chans : Len(buf[c]) = some
  PROVE  Leftover(buf, Channels) = some * Channels
<1>0. Channels \in Nat /\ Channels \in 0 .. Channels  BY DsfAssumption
<1>1. PICK a : Counting(a, buf, Channels) /\ Leftover(buf, Channels) = a[Channels]
  BY <1>0, LeftoverFunction
<1> DEFINE T == {i \in 0 .. Channels : a[i] = some * i}
<1>2. 0 \in T  BY <1>0, <1>1 DEF Counting
<1>3. ASSUME NEW i \in 1 .. Channels, i - 1 \in T PROVE i \in T
  <2>1. i - 1 \in Chans /\ i \in Nat /\ i - 1 \in Nat  BY <1>0 DEF Chans
  <2>2. a[i] = a[i - 1] + some /\ a[i - 1] = some * (i - 1)
    BY <1>1, <1>3, <2>1 DEF Counting, CountedStep
  <2>3. some * i = some * (i - 1) + some  BY <2>1
  <2> QED  BY <2>2, <2>3
<1>4. Channels \in T
  <2> HIDE DEF T
  <2>1. 0 .. Channels \subseteq T  BY <1>0, <1>2, <1>3, Induction
  <2> QED  BY <1>0, <2>1
<1> QED  BY <1>1, <1>4

-----------------------------------------------------------------------------
(* Types *)

LEMMA HeaderType ==
  ASSUME NEW samples \in Nat, NEW audio \in Nat, tags \in BOOLEAN
  PROVE  Header(samples, audio) \in Chunks
<1>1. FooterSize \in Nat  BY DsfAssumption DEF FooterSize
<1>2. HeaderSize \in Nat /\ DATA_CHUNK_SIZE \in Nat
  BY DEF HeaderSize, DSD_CHUNK_HEADER_SIZE, FMT_CHUNK_SIZE, DATA_CHUNK_SIZE
<1>3. samples \div Channels \in Nat  BY DsfAssumption
<1> QED  BY <1>1, <1>2, <1>3 DEF Header, Chunks

LEMMA TheByteType ==
  ASSUME TypeOK, left > 0, pc # "next"
  PROVE  TheByte \in Audio
<1>0. left \in Nat \ {0} /\ left <= FrameBytes * Channels /\ sent \in Nat \ {0} /\ sent <= MaxFrames
  BY DsfAssumption DEF TypeOK
<1>1. PICK q \in Nat, r \in 0 .. Channels - 1 : q = (left - 1) \div Channels /\ q * Channels + r + 1 = left
  BY <1>0, DsfAssumption, EveryPlace
<1>2. q < FrameBytes
  <2>1. q < FrameBytes <=> q * Channels + r + 1 <= FrameBytes * Channels
    BY DsfAssumption, Rounds
  <2> QED  BY <1>0, <1>1, <2>1
<1>3. sent * FrameBytes >= FrameBytes /\ sent * FrameBytes <= MaxFrames * FrameBytes
  <2>1. PICK d \in Nat : sent = d + 1
    <3>1. sent - 1 \in Nat /\ sent = (sent - 1) + 1  BY <1>0
    <3> QED  BY <3>1
  <2>2. PICK e \in Nat : MaxFrames = sent + e
    <3>1. MaxFrames - sent \in Nat /\ MaxFrames = sent + (MaxFrames - sent)  BY <1>0, DsfAssumption
    <3> QED  BY <3>1
  <2>3. FrameBytes \in Nat /\ d * FrameBytes \in Nat /\ e * FrameBytes \in Nat  BY DsfAssumption
  <2>4. sent * FrameBytes = d * FrameBytes + FrameBytes  BY <2>1, <2>3
  <2>5. MaxFrames * FrameBytes = sent * FrameBytes + e * FrameBytes  BY <1>0, <2>2, <2>3
  <2> QED  BY <2>3, <2>4, <2>5
<1>4. sent * FrameBytes - q \in 1 .. MaxFrames * FrameBytes
  <2>1. FrameBytes \in Nat /\ sent * FrameBytes \in Nat /\ MaxFrames * FrameBytes \in Nat
    BY <1>0, DsfAssumption
  <2> QED  BY <1>2, <1>3, <2>1
<1>5. track \in Tracks  BY DEF TypeOK
<1> QED  BY <1>1, <1>4, <1>5, AudioBytes DEF TheByte

LEMMA NextChannelType ==
  ASSUME TypeOK, NextChannel
  PROVE  ch' \in Chans
  BY DsfAssumption DEF TypeOK, NextChannel, Chans

LEMMA TypeStart == Init => TypeOK
<1> SUFFICES ASSUME Init PROVE TypeOK  OBVIOUS
<1>1. queue \in Seq(Tracks)
  <2>1. queue \in SeqOf(Tracks, TrackCount)  BY DEF Init
  <2>2. PICK m \in 0 .. TrackCount : queue \in [1 .. m -> Tracks]  BY <2>1 DEF SeqOf
  <2>3. m \in Nat  BY DsfAssumption
  <2> QED  BY <2>2, <2>3
<1>2. <<>> \in Seq(Audio) /\ <<>> \in Seq(Block) /\ <<>> \in Seq(File) /\ Len(<<>>) = 0  OBVIOUS
<1>3. 0 \in Chans /\ 0 \in 0 .. MaxFrames /\ 0 \in 0 .. FrameBytes * Channels /\ 0 <= BlockSize
  BY DsfAssumption DEF Chans
<1> QED  BY <1>1, <1>2, <1>3 DEF Init, TypeOK

\* A file that is closed gets its type from its parts.
LEMMA FinishedType ==
  ASSUME TypeOK, pc # "next", NEW samples \in Nat, NEW audio \in Nat, NEW written \in Seq(Block),
         NEW whole \in BOOLEAN, Finished(samples, audio, written, whole),
         buffer' \in Buffers, prev' \in Buffers, prev_track_no' \in Tracks \cup {NoTrack},
         left = 0
  PROVE  TypeOK'
<1>1. Header(samples, audio) \in Chunks  BY HeaderType DEF TypeOK
<1>2. [track |-> track, sent |-> sent, blocks |-> written,
       header |-> Header(samples, audio), whole |-> whole] \in File
  BY <1>1 DEF TypeOK, File
<1>3. files' \in Seq(File)  BY <1>2 DEF TypeOK, Finished
<1>4. /\ pc' = "next" /\ queue' = queue /\ track' = track /\ sent' = sent /\ left' = left /\ ch' = ch
      /\ dsf_nopad' = dsf_nopad /\ concatenate' = concatenate /\ tags' = tags
      /\ sample_count' = samples /\ audio_data_size' = audio /\ blocks' = written
  BY DEF Finished, options
<1>5. ~(left' > 0)  BY <1>4
<1> QED  BY <1>3, <1>4, <1>5 DEF TypeOK, Buffers

LEMMA BuffersType ==
  ASSUME TypeOK PROVE buffer \in Buffers /\ prev \in Buffers
  BY DEF TypeOK, Buffers

LEMMA EmptyBuffers == [c \in Chans |-> <<>>] \in Buffers
<1>1. <<>> \in Seq(Audio) /\ Len(<<>>) = 0 /\ 0 <= BlockSize  BY DsfAssumption
<1> QED  BY <1>1 DEF Buffers

LEMMA TypeStep ==
  ASSUME TypeOK, [Next]_vars PROVE TypeOK'
<1>0. buffer \in Buffers /\ prev \in Buffers  BY BuffersType
<1>1. ASSUME Create PROVE TypeOK'
  <2>1. /\ track' \in Tracks /\ queue' \in Seq(Tracks) /\ pc' \in {"write", "broken"}
    BY <1>1 DEF Create, TypeOK
  <2>2. buffer' \in Buffers /\ prev' \in Buffers /\ prev_track_no' \in Tracks \cup {NoTrack}
    BY <1>0, <1>1, EmptyBuffers DEF Create, TypeOK
  <2>3. 0 \in Chans /\ 0 \in 0 .. MaxFrames /\ 0 \in 0 .. FrameBytes * Channels
    BY DsfAssumption DEF Chans
  <2>4. /\ sample_count' = 0 /\ audio_data_size' = 0 /\ sent' = 0 /\ left' = 0 /\ ch' = 0
        /\ blocks' = <<>> /\ files' = files
        /\ dsf_nopad' = dsf_nopad /\ concatenate' = concatenate /\ tags' = tags
    BY <1>1 DEF Create, options
  <2>5. blocks' \in Seq(Block)  BY <2>4
  <2> QED  BY <2>1, <2>2, <2>3, <2>4, <2>5 DEF TypeOK, Buffers
<1>2. ASSUME CreateFails PROVE TypeOK'
  BY <1>2 DEF CreateFails, TypeOK, options, counts
<1>3. ASSUME WriteFrame PROVE TypeOK'
  <2>1. sent' \in 0 .. MaxFrames /\ sent' > 0  BY <1>3, DsfAssumption DEF WriteFrame, TypeOK
  <2>2. left' \in 0 .. FrameBytes * Channels /\ ch' \in Chans
    BY <1>3, DsfAssumption DEF WriteFrame, Chans
  <2> QED  BY <1>3, <2>1, <2>2 DEF WriteFrame, TypeOK, options, counts
<1>4. ASSUME PutByte PROVE TypeOK'
  <2>0. pc # "next"  BY <1>4 DEF PutByte, TypeOK
  <2>1. TheByte \in Audio  BY <1>4, <2>0, TheByteType DEF PutByte
  <2>2. ch \in Chans /\ buffer[ch] \in Seq(Audio) /\ Len(buffer[ch]) < BlockSize
    BY <1>4 DEF PutByte, TypeOK
  <2>3. /\ Append(buffer[ch], TheByte) \in Seq(Audio)
        /\ Len(Append(buffer[ch], TheByte)) = Len(buffer[ch]) + 1 /\ Len(buffer[ch]) \in Nat
    BY <2>1, <2>2
  <2>4. buffer' \in Buffers
    <3>1. buffer' = [buffer EXCEPT ![ch] = Append(buffer[ch], TheByte)]  BY <1>4 DEF PutByte
    <3>2. Len(buffer[ch]) + 1 <= BlockSize  BY <2>2, <2>3, DsfAssumption
    <3> QED  BY <1>0, <2>2, <2>3, <3>1, <3>2 DEF Buffers
  <2>5. left' \in 0 .. FrameBytes * Channels /\ sent > 0
    BY <1>4, DsfAssumption DEF PutByte, TypeOK
  <2>6. ch' \in Chans  BY <1>4, NextChannelType DEF PutByte
  <2> QED  BY <1>4, <2>4, <2>5, <2>6 DEF PutByte, TypeOK, Buffers, options, counts
<1>5. ASSUME FlushBlock PROVE TypeOK'
  <2>1. ch \in Chans /\ buffer[ch] \in Seq(Audio) /\ Len(buffer[ch]) = BlockSize
    BY <1>5 DEF FlushBlock, TypeOK
  <2>2. [channel |-> ch, data |-> buffer[ch]] \in Block
    <3>1. buffer[ch] \in [1 .. BlockSize -> Audio]  BY <2>1
    <3>2. buffer[ch] \in [1 .. BlockSize -> Bytes]  BY <3>1 DEF Audio
    <3> QED  BY <2>1, <3>2 DEF Block
  <2>3. blocks' \in Seq(Block)  BY <1>5, <2>2 DEF FlushBlock, TypeOK
  <2>4. buffer' \in Buffers
    <3>1. buffer' = [buffer EXCEPT ![ch] = <<>>]  BY <1>5 DEF FlushBlock
    <3>2. <<>> \in Seq(Audio) /\ Len(<<>>) = 0 /\ 0 <= BlockSize  BY DsfAssumption
    <3> QED  BY <1>0, <2>1, <3>1, <3>2 DEF Buffers
  <2>5. ch' \in Chans  BY <1>5, NextChannelType DEF FlushBlock
  <2>6. sample_count' \in Nat /\ audio_data_size' \in Nat
    BY <1>5, DsfAssumption DEF FlushBlock, TypeOK
  <2> QED  BY <1>5, <2>3, <2>4, <2>5, <2>6 DEF FlushBlock, TypeOK, Buffers, options
<1>6. ASSUME FlushFails PROVE TypeOK'
  <2>1. left' \in 0 .. FrameBytes * Channels /\ ~(left' > 0)  BY <1>6, DsfAssumption DEF FlushFails
  <2> QED  BY <1>6, <2>1 DEF FlushFails, TypeOK, options, counts
<1>7. ASSUME ClosePadded PROVE TypeOK'
  <2> DEFINE samples == sample_count + Leftover(buffer, Channels)
             audio == audio_data_size + BlockSize * Len(PaddedBlocks(buffer, Channels))
             written == blocks \o PaddedBlocks(buffer, Channels)
  <2>0. Channels \in 0 .. Channels  BY DsfAssumption
  <2>1. PaddedBlocks(buffer, Channels) \in Seq(Block) /\ Leftover(buffer, Channels) \in Nat
    BY <1>0, <2>0, PaddedType
  <2>2. samples \in Nat /\ audio \in Nat /\ written \in Seq(Block)
    <3>1. /\ sample_count \in Nat /\ audio_data_size \in Nat /\ blocks \in Seq(Block)
          /\ BlockSize \in Nat /\ Len(PaddedBlocks(buffer, Channels)) \in Nat
      BY <2>1, DsfAssumption DEF TypeOK
    <3>2. BlockSize * Len(PaddedBlocks(buffer, Channels)) \in Nat  BY <3>1
    <3>3. written \in Seq(Block)  BY <2>1, <3>1
    <3> QED  BY <2>1, <3>1, <3>2, <3>3
  <2>3. Finished(samples, audio, written, pc = "write") /\ pc # "next" /\ left = 0  BY <1>7 DEF ClosePadded
  <2>4. buffer' \in Buffers /\ prev' \in Buffers /\ prev_track_no' \in Tracks \cup {NoTrack}
    BY <1>0, <1>7, EmptyBuffers DEF ClosePadded
  <2> HIDE DEF samples, audio, written
  <2> QED  BY <2>2, <2>3, <2>4, FinishedType
<1>8. ASSUME CloseFails PROVE TypeOK'
  <2>1. PICK n \in Chans, some \in 0 .. BlockSize - 1 :
          /\ Finished(sample_count + Leftover(buffer, n),
                      audio_data_size + BlockSize * Len(PaddedBlocks(buffer, n)) + some,
                      blocks \o PaddedBlocks(buffer, n), FALSE)
          /\ buffer' = [c \in Chans |-> IF c < n THEN <<>> ELSE buffer[c]]
    BY <1>8 DEF CloseFails
  <2> DEFINE samples == sample_count + Leftover(buffer, n)
             audio == audio_data_size + BlockSize * Len(PaddedBlocks(buffer, n)) + some
             written == blocks \o PaddedBlocks(buffer, n)
  <2>0. n \in 0 .. Channels /\ some \in Nat  BY DsfAssumption DEF Chans
  <2>2. PaddedBlocks(buffer, n) \in Seq(Block) /\ Leftover(buffer, n) \in Nat
    BY <1>0, <2>0, PaddedType
  <2>3. samples \in Nat /\ audio \in Nat /\ written \in Seq(Block)
    <3>1. /\ sample_count \in Nat /\ audio_data_size \in Nat /\ blocks \in Seq(Block)
          /\ BlockSize \in Nat /\ Len(PaddedBlocks(buffer, n)) \in Nat
      BY <2>2, DsfAssumption DEF TypeOK
    <3>2. BlockSize * Len(PaddedBlocks(buffer, n)) \in Nat  BY <3>1
    <3>3. written \in Seq(Block)  BY <2>2, <3>1
    <3> QED  BY <2>0, <2>2, <3>1, <3>2, <3>3
  <2>4. Finished(samples, audio, written, FALSE)  BY <2>1
  <2>5. pc # "next" /\ left = 0 /\ prev' \in Buffers /\ prev_track_no' \in Tracks \cup {NoTrack}
    BY <1>0, <1>8 DEF CloseFails
  <2>6. buffer' \in Buffers
    <3>1. <<>> \in Seq(Audio) /\ Len(<<>>) = 0 /\ 0 <= BlockSize  BY DsfAssumption
    <3>2. \A c \in Chans : buffer[c] \in Seq(Audio) /\ Len(buffer[c]) <= BlockSize
      BY <1>0 DEF Buffers
    <3> QED  BY <2>1, <3>1, <3>2 DEF Buffers
  <2> HIDE DEF samples, audio, written
  <2> QED  BY <2>3, <2>4, <2>5, <2>6, FinishedType
<1>9. ASSUME CloseKept PROVE TypeOK'
  <2>1. Finished(sample_count, audio_data_size, blocks, pc = "write") /\ pc # "next" /\ left = 0
    BY <1>9 DEF CloseKept
  <2>2. buffer' \in Buffers /\ prev' \in Buffers
    BY <1>0, <1>9, EmptyBuffers DEF CloseKept
  <2>3. prev_track_no' \in Tracks \cup {NoTrack}  BY <1>9, <2>1 DEF CloseKept, TypeOK
  <2>4. sample_count \in Nat /\ audio_data_size \in Nat /\ blocks \in Seq(Block)  BY DEF TypeOK
  <2> QED  BY <2>1, <2>2, <2>3, <2>4, FinishedType
<1>10. ASSUME UNCHANGED vars PROVE TypeOK'
  BY <1>10 DEF vars, options, counts, TypeOK
<1> QED
  BY <1>1, <1>2, <1>3, <1>4, <1>5, <1>6, <1>7, <1>8, <1>9, <1>10 DEF Next, Stop

-----------------------------------------------------------------------------
(* The loop of dsf_write_frame *)

\* What a step leaves alone while the file is open.
SameFile == UNCHANGED <<dsf_nopad, concatenate, tags, files, track>>

LEMMA BeforeKept ==
  ASSUME SameFile
  PROVE  /\ Before' = Before /\ track' = track
         /\ (FilesInv => FilesInv')
         /\ WholeUpTo(Len(files))' <=> WholeUpTo(Len(files))
<1>1. \A i : Due(i)' = Due(i)  BY DEF SameFile, Due
<1>2. Before' = Before  BY <1>1 DEF SameFile, Before
<1>3. \A i : WholeUpTo(i)' <=> WholeUpTo(i)  BY DEF SameFile, WholeUpTo
<1>4. \A f, due, rounds : Closed(f, due, rounds)' <=> Closed(f, due, rounds)
  BY DEF SameFile, Closed, Header, FooterSize
<1>5. FilesInv => FilesInv'  BY <1>1, <1>3, <1>4 DEF SameFile, FilesInv
<1> QED  BY <1>2, <1>3, <1>5 DEF SameFile

LEMMA BeforeIsSeq ==
  ASSUME TypeOK PROVE Before \in Seq(Audio) /\ Len(Before) \in Nat
<1>1. files \in Seq(File) /\ Len(files) \in 0 .. Len(files)  BY DEF TypeOK
<1>2. Due(Len(files)) \in Seq(Audio)  BY <1>1, DueIsSeq DEF Due
<1>3. Before \in Seq(Audio)  BY <1>1, <1>2, CarriedIsSeq DEF Before
<1> QED  BY <1>3

\* The numbers that the loop is made of.
LEMMA LoopNumbers ==
  ASSUME TypeOK
  PROVE  /\ Channels \in Nat \ {0} /\ BlockSize \in Nat \ {0} /\ FrameBytes \in Nat \ {0}
         /\ ch \in 0 .. Channels - 1 /\ left \in Nat
         /\ sent \in Nat /\ sent * FrameBytes \in Nat
         /\ Len(blocks) \in Nat /\ Len(Before) \in Nat
<1>1. FrameBytes * Channels \in Nat  BY DsfAssumption
<1>2. sent \in Nat /\ sent * FrameBytes \in Nat  BY DsfAssumption DEF TypeOK
<1> QED  BY <1>1, <1>2, DsfAssumption, BeforeIsSeq DEF TypeOK, Chans

LEMMA LoopBuffers ==
  ASSUME TypeOK
  PROVE  /\ ch \in Chans /\ blocks \in Seq(Block)
         /\ buffer \in [Chans -> Seq(Audio)]
         /\ \A c \in Chans : Len(buffer[c]) \in Nat /\ DOMAIN buffer[c] = 1 .. Len(buffer[c])
  BY DEF TypeOK

\* ... of which those of Loop's parameters are.
LEMMA LoopProducts ==
  ASSUME NEW rounds \in Nat, NEW more \in Nat
  PROVE  /\ rounds * BlockSize \in Nat /\ rounds * Channels \in Nat /\ more * Channels \in Nat
         /\ (rounds + 1) * BlockSize = rounds * BlockSize + BlockSize
         /\ (rounds + 1) * Channels = rounds * Channels + Channels
         /\ more > 0 => /\ (more - 1) * Channels = more * Channels - Channels
                        /\ more * Channels >= Channels
<1>1. BlockSize \in Nat /\ Channels \in Nat  BY DsfAssumption
<1>2. rounds * BlockSize \in Nat /\ rounds * Channels \in Nat /\ more * Channels \in Nat  BY <1>1
<1>3. /\ (rounds + 1) * BlockSize = rounds * BlockSize + BlockSize
      /\ (rounds + 1) * Channels = rounds * Channels + Channels
  BY <1>1
<1>4. ASSUME more > 0 PROVE /\ (more - 1) * Channels = more * Channels - Channels
                            /\ more * Channels >= Channels
  <2>1. PICK d \in Nat : more = d + 1
    <3>1. more - 1 \in Nat /\ more = (more - 1) + 1  BY <1>4
    <3> QED  BY <3>1
  <2>2. more * Channels = d * Channels + Channels /\ d * Channels \in Nat  BY <1>1, <2>1
  <2> QED  BY <1>1, <2>1, <2>2
<1> QED  BY <1>2, <1>3, <1>4

\* Outside of a frame every channel has the same number of bytes.
LEMMA BetweenFrames ==
  ASSUME TypeOK, left = 0,
         NEW rounds \in Nat, NEW some \in 0 .. BlockSize, NEW more \in Nat, Loop(rounds, some, more)
  PROVE  /\ ch = 0 /\ more = 0 /\ Len(blocks) = rounds * Channels
         /\ \A c \in Chans : Len(buffer[c]) = some
<1>1. Channels \in Nat \ {0} /\ ch \in 0 .. Channels - 1 /\ Chans = 0 .. Channels - 1
  BY LoopNumbers DEF Chans
<1>2. more * Channels \in Nat /\ (more > 0 => more * Channels >= Channels)  BY LoopProducts
<1>3. /\ 0 = more * Channels - ch /\ Len(blocks) = rounds * Channels
      /\ \A c \in Chans : Len(buffer[c]) = IF c < ch THEN some + 1 ELSE some
  BY <1>1, <1>2 DEF Loop
<1>4. more = 0 /\ ch = 0  BY <1>1, <1>2, <1>3
<1> QED  BY <1>1, <1>3, <1>4

LEMMA WriteFrameLoop ==
  ASSUME TypeOK, LoopInv, WriteFrame PROVE LoopInv'
<1>1. PICK rounds \in 0 .. Len(blocks), some \in 0 .. BlockSize, more \in 0 .. FrameBytes :
        Loop(rounds, some, more)
  BY DEF LoopInv
<1>n. /\ Channels \in Nat \ {0} /\ BlockSize \in Nat \ {0} /\ FrameBytes \in Nat \ {0}
      /\ sent \in Nat /\ sent * FrameBytes \in Nat /\ Len(Before) \in Nat /\ Len(blocks) \in Nat
  BY LoopNumbers
<1>2. rounds \in Nat /\ more \in Nat /\ some \in Nat  BY <1>n
<1>p. rounds * BlockSize \in Nat  BY <1>2, LoopProducts
<1>3. /\ ch = 0 /\ more = 0 /\ Len(blocks) = rounds * Channels
      /\ \A c \in Chans : Len(buffer[c]) = some
  BY <1>1, <1>2, BetweenFrames DEF WriteFrame
<1>4. /\ SameFile /\ UNCHANGED <<buffer, blocks, sample_count, audio_data_size>>
      /\ sent' = sent + 1 /\ left' = FrameBytes * Channels /\ ch' = 0
  BY DEF WriteFrame, SameFile, options, counts
<1>5. Before' = Before /\ track' = track  BY <1>4, BeforeKept
<1>6. (sent + 1) * FrameBytes = sent * FrameBytes + FrameBytes  BY <1>n
<1>7. Loop(rounds, some, FrameBytes)'
  <2>1. /\ rounds * BlockSize + some + FrameBytes = Len(Before) + (sent + 1) * FrameBytes
        /\ rounds * BlockSize + some >= Len(Before)
    <3>1. /\ rounds * BlockSize + some + more = Len(Before) + sent * FrameBytes
          /\ rounds * BlockSize + some >= Len(Before)
      BY <1>1 DEF Loop
    <3> QED  BY <1>2, <1>3, <1>6, <1>n, <1>p, <3>1
  <2>2. left' = FrameBytes * Channels - ch' /\ ~(ch' > 0)
    <3>1. FrameBytes * Channels \in Nat  BY <1>n
    <3> QED  BY <1>4, <3>1
  <2>3. Chans = 0 .. Channels - 1  BY DEF Chans
  <2>4. \A c \in Chans : Len(buffer'[c]) = IF c < ch' THEN some + 1 ELSE some
    BY <1>3, <1>4, <1>n, <2>3
  <2>5. \A c \in Chans : \A k \in DOMAIN buffer'[c] :
          buffer'[c][k] = Stream(Before', track', rounds * BlockSize + k)
    BY <1>1, <1>4, <1>5 DEF Loop
  <2>6. Len(blocks') = rounds * Channels  BY <1>3, <1>4
  <2> QED  BY <1>4, <1>5, <2>1, <2>2, <2>4, <2>5, <2>6 DEF Loop
<1>8. FrameBytes \in 0 .. FrameBytes /\ rounds \in 0 .. Len(blocks')  BY <1>4, <1>n
<1> QED  BY <1>4, <1>5, <1>7, <1>8 DEF LoopInv

LEMMA PutByteLoop ==
  ASSUME TypeOK, LoopInv, PutByte PROVE LoopInv'
<1>1. PICK rounds \in 0 .. Len(blocks), some \in 0 .. BlockSize, more \in 0 .. FrameBytes :
        Loop(rounds, some, more)
  BY DEF LoopInv
<1>n. /\ Channels \in Nat \ {0} /\ BlockSize \in Nat \ {0} /\ FrameBytes \in Nat \ {0}
      /\ ch \in 0 .. Channels - 1 /\ left \in Nat
      /\ sent \in Nat /\ sent * FrameBytes \in Nat /\ Len(Before) \in Nat /\ Len(blocks) \in Nat
  BY LoopNumbers
<1>c. Chans = 0 .. Channels - 1 /\ ch \in Chans  BY LoopBuffers DEF Chans
<1>2. rounds \in Nat /\ more \in Nat /\ some \in Nat  BY <1>n
<1>p. /\ rounds * BlockSize \in Nat /\ more * Channels \in Nat /\ rounds * Channels \in Nat
      /\ more > 0 => (more - 1) * Channels = more * Channels - Channels
  BY <1>2, LoopProducts
<1>3. /\ left > 0 /\ Len(buffer[ch]) < BlockSize /\ left' = left - 1 /\ NextChannel
      /\ buffer' = [buffer EXCEPT ![ch] = Append(buffer[ch], TheByte)]
      /\ SameFile /\ UNCHANGED <<blocks, sample_count, audio_data_size, sent>>
  BY DEF PutByte, SameFile, options, counts
<1>4. Before' = Before /\ track' = track  BY <1>3, BeforeKept
<1>5. /\ left = more * Channels - ch /\ Len(blocks) = rounds * Channels
      /\ \A c \in Chans : Len(buffer[c]) = IF c < ch THEN some + 1 ELSE some
  <2>1. ~(/\ some = BlockSize
          /\ \A c \in Chans : Len(buffer[c]) = IF c < ch THEN 0 ELSE BlockSize)
    BY <1>3, <1>n, <1>c
  <2> QED  BY <1>1, <2>1 DEF Loop
<1>6. Len(buffer[ch]) = some /\ some < BlockSize  BY <1>3, <1>5, <1>n, <1>c
<1>7. more > 0 /\ more \in Nat \ {0}
  <2>1. ~(more = 0)
    <3>1. 0 * Channels = 0  BY <1>n
    <3> QED  BY <1>3, <1>5, <1>n, <3>1
  <2> QED  BY <1>2, <2>1
<1>8. /\ rounds * BlockSize + some + more = Len(Before) + sent * FrameBytes
      /\ rounds * BlockSize + some >= Len(Before)
  BY <1>1 DEF Loop
<1>9. TheByte = Stream(Before, track, rounds * BlockSize + (some + 1))
  <2>1. left - 1 = more * Channels - ch - 1  BY <1>5, <1>n, <1>p
  <2>2. (left - 1) \div Channels = more - 1
    <3>1. (more * Channels - ch - 1) \div Channels = more - 1  BY <1>7, <1>n, TakenRound
    <3> QED  BY <2>1, <3>1
  <2>3. sent * FrameBytes - (more - 1) = rounds * BlockSize + (some + 1) - Len(Before)
    BY <1>2, <1>8, <1>n, <1>p
  <2>4. ~(rounds * BlockSize + (some + 1) <= Len(Before))  BY <1>2, <1>8, <1>n, <1>p
  <2>5. TheByte = <<track, sent * FrameBytes - (more - 1)>>  BY <2>2 DEF TheByte
  <2>6. PICK p \in Nat : p = rounds * BlockSize + (some + 1)
    <3>1. rounds * BlockSize + (some + 1) \in Nat  BY <1>2, <1>p
    <3> QED  BY <3>1
  <2>7. ~(p <= Len(Before)) /\ sent * FrameBytes - (more - 1) = p - Len(Before)
    BY <1>2, <1>n, <1>p, <2>3, <2>4, <2>6
  <2>8. Stream(Before, track, p) = <<track, p - Len(Before)>>  BY <2>7 DEF Stream
  <2> QED  BY <2>5, <2>6, <2>7, <2>8
<1>10. TheByte \in Audio
  <2>1. pc # "next"  BY <1>3 DEF TypeOK
  <2> QED  BY <1>3, <2>1, TheByteType
<1>11. /\ Len(buffer'[ch]) = some + 1 /\ buffer'[ch][some + 1] = TheByte
       /\ \A k \in 1 .. some : buffer'[ch][k] = buffer[ch][k]
       /\ DOMAIN buffer'[ch] = 1 .. some + 1 /\ DOMAIN buffer[ch] = 1 .. some
  <2>1. buffer[ch] \in Seq(Audio) /\ ch \in DOMAIN buffer  BY <1>c, LoopBuffers
  <2>2. buffer'[ch] = Append(buffer[ch], TheByte)  BY <1>3, <2>1
  <2> QED  BY <1>2, <1>6, <1>10, <2>1, <2>2
<1>12. \A c \in Chans : c # ch => buffer'[c] = buffer[c]
  <2>1. buffer \in [Chans -> Seq(Audio)]  BY LoopBuffers
  <2> QED  BY <1>3, <2>1
<1>13. ASSUME NEW c \in Chans, NEW k \in DOMAIN buffer'[c]
       PROVE  buffer'[c][k] = Stream(Before, track, rounds * BlockSize + k)
  <2>1. CASE c # ch  BY <1>1, <1>12, <2>1 DEF Loop
  <2>2. CASE c = ch /\ k = some + 1  BY <1>9, <1>11, <2>2
  <2>3. CASE c = ch /\ k # some + 1
    <3>1. k \in 1 .. some /\ k \in DOMAIN buffer[ch]  BY <1>2, <1>11, <2>3
    <3> QED  BY <1>1, <1>11, <1>c, <2>3, <3>1 DEF Loop
  <2> QED  BY <2>1, <2>2, <2>3
<1>14. \A c \in Chans : Len(buffer'[c]) = IF c < ch + 1 THEN some + 1 ELSE some
  <2>1. \A c \in Chans : c < ch + 1 <=> c < ch \/ c = ch  BY <1>n, <1>c
  <2> QED  BY <1>5, <1>11, <1>12, <2>1
<1>d. rounds \in 0 .. Len(blocks')  BY <1>3, <1>n, <1>2
<1>15. CASE ch < Channels - 1
  <2>1. ch' = ch + 1 /\ ch' > 0  BY <1>3, <1>15, <1>n DEF NextChannel
  <2>2. left' = more * Channels - ch'  BY <1>3, <1>5, <2>1, <1>n, <1>p
  <2>3. Loop(rounds, some, more)'
    BY <1>3, <1>4, <1>5, <1>6, <1>8, <1>13, <1>14, <2>1, <2>2 DEF Loop
  <2> QED  BY <1>3, <1>4, <1>d, <2>3 DEF LoopInv
<1>16. CASE ch = Channels - 1
  <2>1. ch' = 0 /\ ~(ch' > 0)  BY <1>3, <1>16, <1>n DEF NextChannel
  <2>2. left' = (more - 1) * Channels - ch'
    BY <1>3, <1>5, <1>7, <1>16, <2>1, <1>n, <1>p
  <2>3. \A c \in Chans : Len(buffer'[c]) = IF c < ch' THEN (some + 1) + 1 ELSE some + 1
    BY <1>14, <1>16, <2>1, <1>n, <1>c
  <2>4. /\ rounds * BlockSize + (some + 1) + (more - 1) = Len(Before) + sent * FrameBytes
        /\ rounds * BlockSize + (some + 1) >= Len(Before)
    BY <1>2, <1>8, <1>n, <1>p
  <2>5. Loop(rounds, some + 1, more - 1)'
    BY <1>3, <1>4, <1>5, <1>13, <2>1, <2>2, <2>3, <2>4 DEF Loop
  <2>6. some + 1 \in 0 .. BlockSize /\ more - 1 \in 0 .. FrameBytes  BY <1>2, <1>6, <1>7, <1>n
  <2> QED  BY <1>3, <1>4, <1>d, <2>5, <2>6 DEF LoopInv
<1> QED  BY <1>15, <1>16, <1>n

LEMMA NotLess ==
  ASSUME NEW C \in Nat \ {0}, NEW q \in Nat
  PROVE  q * C \in Nat /\ q <= q * C
<1>1. PICK d \in Nat : C = d + 1
  <2>1. C - 1 \in Nat /\ C = (C - 1) + 1  OBVIOUS
  <2> QED  BY <2>1
<1>2. q * C = q * d + q /\ q * d \in Nat  BY <1>1
<1> QED  BY <1>2

LEMMA NextChannelIs ==
  ASSUME TypeOK, NextChannel
  PROVE  /\ ch < Channels - 1 => ch' = ch + 1
         /\ ch = Channels - 1 => ch' = 0
<1>1. Channels \in Nat \ {0} /\ ch \in 0 .. Channels - 1 /\ ch' = (ch + 1) % Channels
  BY LoopNumbers DEF NextChannel
<1> QED  BY <1>1

LEMMA FlushBlockLoop ==
  ASSUME TypeOK, LoopInv, FlushBlock PROVE LoopInv'
<1>1. PICK rounds \in 0 .. Len(blocks), some \in 0 .. BlockSize, more \in 0 .. FrameBytes :
        Loop(rounds, some, more)
  BY DEF LoopInv
<1>n. /\ Channels \in Nat \ {0} /\ BlockSize \in Nat \ {0} /\ FrameBytes \in Nat \ {0}
      /\ ch \in 0 .. Channels - 1 /\ left \in Nat
      /\ sent \in Nat /\ sent * FrameBytes \in Nat /\ Len(Before) \in Nat /\ Len(blocks) \in Nat
  BY LoopNumbers
<1>c. Chans = 0 .. Channels - 1 /\ ch \in Chans /\ blocks \in Seq(Block)  BY LoopBuffers DEF Chans
<1>2. rounds \in Nat /\ more \in Nat /\ some \in Nat  BY <1>n
<1>p. /\ rounds * BlockSize \in Nat /\ more * Channels \in Nat /\ rounds * Channels \in Nat
      /\ (rounds + 1) * BlockSize = rounds * BlockSize + BlockSize
      /\ (rounds + 1) * Channels = rounds * Channels + Channels
  BY <1>2, LoopProducts
<1> DEFINE new == [channel |-> ch, data |-> buffer[ch]]
<1>3. /\ left > 0 /\ Len(buffer[ch]) = BlockSize /\ NextChannel
      /\ buffer' = [buffer EXCEPT ![ch] = <<>>] /\ blocks' = Append(blocks, new)
      /\ sample_count' = sample_count + BlockSize /\ audio_data_size' = audio_data_size + BlockSize
      /\ SameFile /\ UNCHANGED <<sent, left>>
  BY DEF FlushBlock, SameFile, options
<1>4. Before' = Before /\ track' = track  BY <1>3, BeforeKept
<1>5. /\ some = BlockSize /\ left = more * Channels /\ Len(blocks) = rounds * Channels + ch
      /\ more > 0
      /\ \A c \in Chans : Len(buffer[c]) = IF c < ch THEN 0 ELSE BlockSize
  <2>1. CASE /\ left = more * Channels - ch /\ Len(blocks) = rounds * Channels
             /\ ch > 0 => some < BlockSize
             /\ \A c \in Chans : Len(buffer[c]) = IF c < ch THEN some + 1 ELSE some
    <3>1. some = BlockSize /\ ch = 0  BY <1>3, <1>n, <1>c, <2>1
    <3>2. ~(more = 0)
      <4>1. 0 * Channels = 0  BY <1>n
      <4> QED  BY <1>3, <2>1, <3>1, <4>1
    <3>3. \A c \in Chans : Len(buffer[c]) = IF c < ch THEN 0 ELSE BlockSize
      BY <1>c, <2>1, <3>1
    <3> QED  BY <1>2, <1>p, <2>1, <3>1, <3>2, <3>3
  <2>2. CASE /\ left = more * Channels /\ Len(blocks) = rounds * Channels + ch
             /\ ch > 0 /\ more > 0 /\ some = BlockSize
             /\ \A c \in Chans : Len(buffer[c]) = IF c < ch THEN 0 ELSE BlockSize
    BY <2>2
  <2> QED  BY <1>1, <2>1, <2>2 DEF Loop
<1>6. new =
        [channel |-> ch, data |-> [k \in 1 .. BlockSize |-> Stream(Before, track, rounds * BlockSize + k)]]
  <2>1. buffer[ch] \in Seq(Audio) /\ DOMAIN buffer[ch] = 1 .. BlockSize  BY <1>3, <1>c, LoopBuffers
  <2>2. buffer[ch] = [k \in 1 .. BlockSize |-> buffer[ch][k]]
    <3>1. buffer[ch] \in [1 .. BlockSize -> Audio]  BY <1>3, <2>1
    <3> QED  BY <3>1
  <2>3. \A k \in 1 .. BlockSize : buffer[ch][k] = Stream(Before, track, rounds * BlockSize + k)
    BY <1>1, <1>c, <2>1 DEF Loop
  <2> QED  BY <2>2, <2>3
<1>7. new \in Block
  <2>1. buffer[ch] \in [1 .. BlockSize -> Audio]  BY <1>3, <1>c, LoopBuffers
  <2>2. buffer[ch] \in [1 .. BlockSize -> Bytes]  BY <2>1 DEF Audio
  <2> QED  BY <1>c, <2>2 DEF Block
<1> HIDE DEF new
<1>8. /\ Len(blocks') = Len(blocks) + 1 /\ blocks'[Len(blocks) + 1] = new
      /\ DOMAIN blocks = 1 .. Len(blocks) /\ DOMAIN blocks' = 1 .. Len(blocks) + 1
      /\ \A p \in 1 .. Len(blocks) : blocks'[p] = blocks[p]
  BY <1>3, <1>7, <1>c
<1>9. ASSUME NEW q \in 0 .. Len(blocks'), NEW c \in Chans, Place(q, c) \in DOMAIN blocks'
      PROVE  blocks'[Place(q, c)] =
               [channel |-> c, data |-> [k \in 1 .. BlockSize |-> Stream(Before, track, q * BlockSize + k)]]
  <2>0. q \in Nat /\ q * Channels \in Nat /\ q <= q * Channels /\ c \in 0 .. Channels - 1
    BY <1>c, <1>n, <1>8, NotLess
  <2>1. Place(q, c) = q * Channels + c + 1  BY DEF Place
  <2>2. CASE Place(q, c) = Len(blocks) + 1
    <3>1. q * Channels + c = rounds * Channels + ch  BY <1>5, <1>n, <1>p, <2>0, <2>1, <2>2
    <3>2. q = rounds /\ c = ch  BY <1>2, <1>n, <2>0, <3>1, SamePlace
    <3> QED  BY <1>6, <1>8, <2>2, <3>2
  <2>3. CASE Place(q, c) \in 1 .. Len(blocks)
    <3>1. q \in 0 .. Len(blocks)  BY <1>n, <2>0, <2>1, <2>3
    <3>2. Place(q, c) \in DOMAIN blocks  BY <1>8, <2>3
    <3>3. blocks[Place(q, c)] =
            [channel |-> c, data |-> [k \in 1 .. BlockSize |-> Stream(Before, track, q * BlockSize + k)]]
      BY <3>1, <3>2 DEF LoopInv
    <3> QED  BY <1>8, <2>3, <3>3
  <2>4. Place(q, c) = Len(blocks) + 1 \/ Place(q, c) \in 1 .. Len(blocks)
    <3>1. PICK p : p = Place(q, c)  OBVIOUS
    <3>2. p \in 1 .. Len(blocks) + 1  BY <1>8, <1>9, <3>1
    <3>3. p = Len(blocks) + 1 \/ p \in 1 .. Len(blocks)  BY <1>n, <3>2
    <3> QED  BY <3>1, <3>3
  <2> QED  BY <2>2, <2>3, <2>4, Zenon
<1>b. \A q \in 0 .. Len(blocks'), c \in Chans : Place(q, c) \in DOMAIN blocks' =>
         blocks'[Place(q, c)] =
           [channel |-> c, data |-> [k \in 1 .. BlockSize |-> Stream(Before', track', q * BlockSize + k)]]
  BY <1>4, <1>9
<1>10. /\ \A c \in Chans : c # ch => buffer'[c] = buffer[c]
       /\ buffer'[ch] = <<>>
  <2>1. buffer \in [Chans -> Seq(Audio)]  BY LoopBuffers
  <2> QED  BY <1>3, <1>c, <2>1
<1>11. \A c \in Chans : \A k \in DOMAIN buffer'[c] :
         c # ch /\ buffer'[c][k] = Stream(Before, track, rounds * BlockSize + k)
  <2>1. DOMAIN <<>> = {}  OBVIOUS
  <2> QED  BY <1>1, <1>10, <2>1 DEF Loop
<1>12. \A c \in Chans : Len(buffer'[c]) = IF c < ch + 1 THEN 0 ELSE BlockSize
  <2>1. \A c \in Chans : c < ch + 1 <=> c < ch \/ c = ch  BY <1>n, <1>c
  <2>2. Len(<<>>) = 0  OBVIOUS
  <2> QED  BY <1>5, <1>10, <2>1, <2>2
<1>13. sample_count' = BlockSize * Len(blocks') /\ audio_data_size' = BlockSize * Len(blocks')
  <2>1. BlockSize * (Len(blocks) + 1) = BlockSize * Len(blocks) + BlockSize  BY <1>n
  <2> QED  BY <1>3, <1>8, <2>1 DEF LoopInv
<1>14. /\ rounds * BlockSize + some + more = Len(Before) + sent * FrameBytes
       /\ rounds * BlockSize + some >= Len(Before)
  BY <1>1 DEF Loop
<1>15. CASE ch < Channels - 1
  <2>1. ch' = ch + 1 /\ ch' > 0  BY <1>3, <1>15, <1>n, NextChannelIs
  <2>2. Len(blocks') = rounds * Channels + ch'  BY <1>5, <1>8, <1>n, <1>p, <2>1
  <2>3. Loop(rounds, some, more)'
    BY <1>3, <1>4, <1>5, <1>11, <1>12, <1>14, <2>1, <2>2 DEF Loop
  <2>4. rounds \in 0 .. Len(blocks')  BY <1>2, <1>8, <1>n
  <2> QED  BY <1>3, <1>b, <1>13, <2>3, <2>4 DEF LoopInv
<1>16. CASE ch = Channels - 1
  <2>1. ch' = 0 /\ ~(ch' > 0)  BY <1>3, <1>16, <1>n, NextChannelIs
  <2>2. left' = more * Channels - ch'  BY <1>3, <1>5, <1>p, <2>1
  <2>3. Len(blocks') = (rounds + 1) * Channels  BY <1>5, <1>8, <1>16, <1>n, <1>p
  <2>4. \A c \in Chans : Len(buffer'[c]) = IF c < ch' THEN 0 + 1 ELSE 0
    BY <1>12, <1>16, <2>1, <1>n, <1>c
  <2>5. \A c \in Chans : DOMAIN buffer'[c] = {}
    <3>1. \A c \in Chans : c < ch \/ c = ch  BY <1>16, <1>n, <1>c
    <3>2. \A c \in Chans : DOMAIN buffer[c] = 1 .. Len(buffer[c])  BY LoopBuffers
    <3>3. 1 .. 0 = {} /\ DOMAIN <<>> = {}  OBVIOUS
    <3> QED  BY <1>5, <1>10, <3>1, <3>2, <3>3
  <2>6. /\ (rounds + 1) * BlockSize + 0 + more = Len(Before) + sent * FrameBytes
        /\ (rounds + 1) * BlockSize + 0 >= Len(Before)
    BY <1>2, <1>5, <1>14, <1>n, <1>p
  <2>7. Loop(rounds + 1, 0, more)'
    BY <1>3, <1>4, <2>1, <2>2, <2>3, <2>4, <2>5, <2>6 DEF Loop
  <2>8. rounds + 1 \in 0 .. Len(blocks') /\ 0 \in 0 .. BlockSize
    <3>1. rounds + 1 \in Nat /\ rounds + 1 <= (rounds + 1) * Channels  BY <1>2, <1>n, NotLess
    <3>2. Len(blocks') \in Nat  BY <1>8, <1>n
    <3> QED  BY <1>n, <2>3, <3>1, <3>2
  <2> QED  BY <1>3, <1>b, <1>13, <2>7, <2>8 DEF LoopInv
<1> QED  BY <1>15, <1>16, <1>n

-----------------------------------------------------------------------------
(* The start of a file *)

LEMMA CarriedOver ==
  ASSUME DsfInv, Create, WholeUpTo(Len(files))
  PROVE  \A c \in Chans : buffer'[c] = Before'
<1> DEFINE n == Len(files)
<1>1. PICK t : t = Head(queue)  OBVIOUS
<1>2. /\ queue # <<>> /\ queue \in Seq(Tracks) /\ files \in Seq(File) /\ n \in Nat
      /\ prev_track_no \in Tracks \cup {NoTrack} /\ t \in Tracks /\ Len(queue) >= 1
  BY <1>1 DEF DsfInv, TypeOK, Create
<1>3. /\ track' = t /\ dsf_nopad' = dsf_nopad /\ files' = files
      /\ buffer' = IF CarriesOver(t) THEN prev ELSE [c \in Chans |-> <<>>]
  BY <1>1 DEF Create, options
<1>4. Before' = Carried(dsf_nopad, files, n, Due(n), t)
  <2>1. Due(Len(files))' = Due(Len(files))  BY <1>3 DEF Due
  <2> QED  BY <1>3, <2>1 DEF Before
<1>5. dsf_nopad => PrevInv  BY DEF DsfInv, Create
<1>6. concatenate => files = <<>>
  <2>1. concatenate => Len(queue) + n + 0 <= 1  BY DEF DsfInv, QueueInv, Create
  <2>2. Len(queue) \in Nat  BY <1>2
  <2>3. n = 0 => files = <<>>  BY <1>2
  <2> QED  BY <1>2, <2>1, <2>2, <2>3
<1>7. n > 0 => files # <<>> /\ files[n].track \in Tracks
  <2>1. n > 0 => files[n] \in File  BY <1>2
  <2> QED  BY <1>2, <2>1 DEF File
<1>8. t \in Int /\ t >= 0 /\ (n > 0 => files[n].track \in Int /\ files[n].track >= 0)
  BY <1>2, <1>7, DsfAssumption DEF Tracks
<1>9. CASE CarriesOver(t)
  <2>1. dsf_nopad /\ t > 0 /\ t = prev_track_no + 1  BY <1>9 DEF CarriesOver
  <2>2. prev_track_no # NoTrack /\ prev_track_no = t - 1
    BY <1>2, <1>8, <2>1, DsfAssumption DEF NoTrack, Tracks
  <2>3. /\ files # <<>> /\ prev_track_no = files[n].track
        /\ \A c \in Chans : prev[c] = Rest(Due(n), files[n])
    BY <1>5, <2>1, <2>2 DEF PrevInv
  <2>4. n > 0  BY <1>2, <2>3
  <2>5. Before' = Rest(Due(n), files[n])  BY <1>4, <2>1, <2>2, <2>3, <2>4 DEF Carried
  <2> QED  BY <1>3, <1>9, <2>3, <2>5
<1>10. CASE ~CarriesOver(t)
  <2>1. CASE n > 0 /\ dsf_nopad /\ files[n].track = t - 1
    <3>1. prev_track_no = NoTrack
      <4>1. ASSUME prev_track_no # NoTrack PROVE FALSE
        <5>1. prev_track_no = files[n].track  BY <1>5, <1>7, <2>1, <4>1 DEF PrevInv
        <5>2. t = prev_track_no + 1 /\ t > 0  BY <1>8, <2>1, <5>1
        <5> QED  BY <1>10, <2>1, <5>2 DEF CarriesOver
      <4> QED  BY <4>1
    <3>2. Rest(Due(n), files[n]) = <<>>  BY <1>5, <1>6, <1>7, <2>1, <3>1 DEF PrevInv
    <3>3. Before' = <<>>  BY <1>4, <2>1, <3>2 DEF Carried
    <3> QED  BY <1>3, <1>10, <3>3
  <2>2. CASE ~(n > 0 /\ dsf_nopad /\ files[n].track = t - 1)
    <3>1. Before' = <<>>  BY <1>4, <2>2 DEF Carried
    <3> QED  BY <1>3, <1>10, <3>1
  <2> QED  BY <2>1, <2>2
<1> QED  BY <1>9, <1>10

LEMMA CreateLoop ==
  ASSUME DsfInv, Create, WholeUpTo(Len(files)), TypeOK' PROVE LoopInv'
<1>1. PICK carried : carried = Before'  OBVIOUS
<1>2. PICK L : L = Len(carried)  OBVIOUS
<1>3. \A c \in Chans : buffer'[c] = carried  BY <1>1, CarriedOver
<1>4. /\ sample_count' = 0 /\ audio_data_size' = 0 /\ sent' = 0 /\ left' = 0 /\ ch' = 0
      /\ blocks' = <<>>
  BY DEF Create
<1>5. Channels \in Nat \ {0} /\ BlockSize \in Nat \ {0} /\ FrameBytes \in Nat \ {0} /\ 0 \in Chans
  BY DsfAssumption DEF Chans
<1>6. carried \in Seq(Audio) /\ L \in 0 .. BlockSize
  <2>1. buffer'[0] \in Seq(Audio) /\ Len(buffer'[0]) <= BlockSize  BY <1>5 DEF TypeOK
  <2> QED  BY <1>2, <1>3, <1>5, <2>1
<1>7. Loop(0, L, 0)'
  <2>1. 0 * BlockSize + L + 0 = L + 0 * FrameBytes /\ 0 * BlockSize + L >= L  BY <1>5, <1>6
  <2>2. ASSUME NEW c \in Chans, NEW k \in DOMAIN buffer'[c]
        PROVE  buffer'[c][k] = Stream(carried, track', 0 * BlockSize + k)
    <3>1. k \in 1 .. L /\ 0 * BlockSize + k = k  BY <1>2, <1>3, <1>5, <1>6
    <3>2. k <= Len(carried)  BY <1>2, <1>6, <3>1
    <3> QED  BY <1>3, <3>1, <3>2 DEF Stream
  <2>3. 0 = 0 * Channels - 0 /\ 0 = 0 * Channels /\ Len(<<>>) = 0  BY <1>5
  <2>4. \A c \in Chans : ~(c < 0)  BY <1>5 DEF Chans
  <2>5. \A c \in Chans : Len(buffer'[c]) = IF c < ch' THEN L + 1 ELSE L  BY <1>2, <1>3, <1>4, <2>4
  <2>6. left' = 0 * Channels - ch' /\ Len(blocks') = 0 * Channels /\ ~(ch' > 0)  BY <1>4, <2>3
  <2> QED  BY <1>1, <1>2, <1>4, <2>1, <2>2, <2>5, <2>6 DEF Loop
<1>8. DOMAIN blocks' = {} /\ Len(blocks') = 0 /\ BlockSize * 0 = 0  BY <1>4, <1>5
<1>9. 0 \in 0 .. Len(blocks') /\ 0 \in 0 .. FrameBytes  BY <1>5, <1>8
<1> QED  BY <1>4, <1>6, <1>7, <1>8, <1>9 DEF LoopInv

-----------------------------------------------------------------------------
(* The end of a file *)

\* What is due to the file that is open, and where its loop has ended.
OpenDue == Before \o Own(track, sent)

Ended(due, rounds, some) ==
  /\ rounds * BlockSize + some = Len(due) /\ Len(blocks) = rounds * Channels
  /\ \A q \in 0 .. rounds - 1, c \in Chans :
       /\ Place(q, c) \in 1 .. Len(blocks)
       /\ blocks[Place(q, c)] =
            [channel |-> c, data |-> [k \in 1 .. BlockSize |-> due[q * BlockSize + k]]]
  /\ \A c \in Chans : /\ Len(buffer[c]) = some
                      /\ \A k \in 1 .. some : buffer[c][k] = due[rounds * BlockSize + k]

LEMMA OpenDueIs ==
  ASSUME TypeOK, track \in Tracks
  PROVE  /\ OpenDue \in Seq(Audio) /\ Len(OpenDue) = Len(Before) + sent * FrameBytes
         /\ sent * FrameBytes \in Nat /\ Len(Before) \in Nat
         /\ \A p \in 1 .. Len(OpenDue) : OpenDue[p] = Stream(Before, track, p)
<1>1. PICK own : own = Own(track, sent)  OBVIOUS
<1>2. PICK carried : carried = Before  OBVIOUS
<1>3. PICK n : n = sent * FrameBytes  OBVIOUS
<1>4. sent \in 0 .. MaxFrames  BY DEF TypeOK
<1>5. own \in Seq(Audio) /\ Len(own) = n /\ n \in Nat /\ \A k \in 1 .. n : own[k] = <<track, k>>
  BY <1>1, <1>3, <1>4, OwnIsSeq
<1>6. carried \in Seq(Audio) /\ Len(carried) \in Nat  BY <1>2, BeforeIsSeq
<1>7. carried \o own \in Seq(Audio) /\ Len(carried \o own) = Len(carried) + n
  <2>1. carried \o own \in Seq(Audio)  BY <1>5, <1>6
  <2>2. Len(carried \o own) = Len(carried) + Len(own)  BY <1>5, <1>6, ConcatProperties
  <2> QED  BY <1>5, <2>1, <2>2
<1>8. ASSUME NEW p \in 1 .. Len(carried) + n
      PROVE  (carried \o own)[p] = Stream(carried, track, p)
  <2>1. CASE p <= Len(carried)
    <3>1. (carried \o own)[p] = carried[p]  BY <1>5, <1>6, <2>1
    <3> QED  BY <2>1, <3>1 DEF Stream
  <2>2. CASE ~(p <= Len(carried))
    <3>1. p - Len(carried) \in 1 .. n  BY <1>5, <1>6, <2>2
    <3>2. (carried \o own)[p] = own[p - Len(carried)]  BY <1>5, <1>6, <2>2
    <3>3. own[p - Len(carried)] = <<track, p - Len(carried)>>  BY <1>5, <3>1
    <3> QED  BY <2>2, <3>2, <3>3 DEF Stream
  <2> QED  BY <2>1, <2>2
<1>9. OpenDue = carried \o own  BY <1>1, <1>2 DEF OpenDue
<1> QED  BY <1>2, <1>3, <1>5, <1>6, <1>7, <1>8, <1>9

LEMMA LoopEnds ==
  ASSUME TypeOK, track \in Tracks, LoopInv, left = 0
  PROVE  \E rounds \in Nat, some \in 0 .. BlockSize : Ended(OpenDue, rounds, some)
<1>1. PICK rounds \in 0 .. Len(blocks), some \in 0 .. BlockSize, more \in 0 .. FrameBytes :
        Loop(rounds, some, more)
  BY DEF LoopInv
<1>n. /\ Channels \in Nat \ {0} /\ BlockSize \in Nat \ {0} /\ FrameBytes \in Nat \ {0}
      /\ Len(Before) \in Nat /\ Len(blocks) \in Nat /\ Chans = 0 .. Channels - 1
  BY LoopNumbers DEF Chans
<1>2. rounds \in Nat /\ more \in Nat /\ some \in Nat  BY <1>n
<1>3. /\ ch = 0 /\ more = 0 /\ Len(blocks) = rounds * Channels
      /\ \A c \in Chans : Len(buffer[c]) = some
  BY <1>1, <1>2, BetweenFrames
<1>p. rounds * BlockSize \in Nat /\ rounds * Channels \in Nat  BY <1>2, LoopProducts
<1>4. PICK due : due = OpenDue  OBVIOUS
<1>5. /\ Len(due) = Len(Before) + sent * FrameBytes /\ sent * FrameBytes \in Nat
      /\ \A p \in 1 .. Len(due) : due[p] = Stream(Before, track, p)
  BY <1>4, OpenDueIs
<1>6. rounds * BlockSize + some = Len(due)
  <2>1. rounds * BlockSize + some + more = Len(Before) + sent * FrameBytes  BY <1>1 DEF Loop
  <2> QED  BY <1>2, <1>3, <1>5, <1>p, <2>1
<1>7. ASSUME NEW q \in 0 .. rounds - 1, NEW c \in Chans
      PROVE  /\ Place(q, c) \in 1 .. Len(blocks)
             /\ blocks[Place(q, c)] =
                  [channel |-> c, data |-> [k \in 1 .. BlockSize |-> due[q * BlockSize + k]]]
  <2>0. q \in Nat /\ q < rounds /\ c \in 0 .. Channels - 1  BY <1>2, <1>n
  <2>1. q * Channels \in Nat /\ q * Channels + c + 1 <= rounds * Channels
    BY <1>2, <1>n, <2>0, Rounds
  <2>2. Place(q, c) \in 1 .. Len(blocks)  BY <1>3, <1>p, <1>n, <2>0, <2>1 DEF Place
  <2>3. q \in 0 .. Len(blocks)  BY <1>n, <2>0
  <2>4. DOMAIN blocks = 1 .. Len(blocks)  BY DEF TypeOK
  <2>5. blocks[Place(q, c)] =
          [channel |-> c, data |-> [k \in 1 .. BlockSize |-> Stream(Before, track, q * BlockSize + k)]]
    BY <2>2, <2>3, <2>4 DEF LoopInv
  <2>6. ASSUME NEW k \in 1 .. BlockSize
        PROVE  Stream(Before, track, q * BlockSize + k) = due[q * BlockSize + k]
    <3>1. PICK j \in 0 .. BlockSize - 1 : k = j + 1
      <4>1. k - 1 \in 0 .. BlockSize - 1 /\ k = (k - 1) + 1  BY <1>n
      <4> QED  BY <4>1
    <3>2. q * BlockSize \in Nat /\ q * BlockSize + j + 1 <= rounds * BlockSize
      BY <1>2, <1>n, <2>0, Rounds
    <3>3. q * BlockSize + k \in 1 .. Len(due)  BY <1>2, <1>6, <1>n, <1>p, <3>1, <3>2
    <3> QED  BY <1>5, <3>3
  <2> QED  BY <2>2, <2>5, <2>6
<1>8. ASSUME NEW c \in Chans, NEW k \in 1 .. some
      PROVE  buffer[c][k] = due[rounds * BlockSize + k]
  <2>1. k \in DOMAIN buffer[c]  BY <1>3, LoopBuffers
  <2>2. buffer[c][k] = Stream(Before, track, rounds * BlockSize + k)  BY <1>1, <2>1 DEF Loop
  <2>3. rounds * BlockSize + k \in 1 .. Len(due)  BY <1>2, <1>6, <1>p
  <2> QED  BY <1>5, <2>2, <2>3
<1>9. Ended(due, rounds, some)  BY <1>3, <1>6, <1>7, <1>8 DEF Ended
<1> QED  BY <1>2, <1>4, <1>9

\* The header counts what it was made from.
LEMMA HeaderCounts ==
  ASSUME NEW n \in Nat, NEW audio, NEW f, f.header = Header(n * Channels, audio)
  PROVE  Count(f) = n
<1>1. f.header.sample_count = ((n * Channels) \div Channels) * 8  BY DEF Header
<1>2. (n * Channels) \div Channels = n  BY DsfAssumption, DivideProduct
<1>3. (n * 8) \div 8 = n  BY DivideProduct
<1> QED  BY <1>1, <1>2, <1>3 DEF Count

\* A block before the end of the rounds.
LEMMA InRounds ==
  ASSUME NEW rounds \in Nat, NEW q \in 0 .. rounds - 1, NEW k \in 1 .. BlockSize
  PROVE  /\ q * BlockSize \in Nat /\ rounds * BlockSize \in Nat
         /\ q * BlockSize + k <= rounds * BlockSize
<1>1. BlockSize \in Nat \ {0} /\ q \in Nat /\ q < rounds  BY DsfAssumption
<1>2. PICK j \in 0 .. BlockSize - 1 : k = j + 1
  <2>1. k - 1 \in 0 .. BlockSize - 1 /\ k = (k - 1) + 1  BY <1>1
  <2> QED  BY <2>1
<1>3. q * BlockSize + j + 1 <= rounds * BlockSize /\ q * BlockSize \in Nat /\ rounds * BlockSize \in Nat
  BY <1>1, Rounds
<1> QED  BY <1>1, <1>2, <1>3

\* With nopad the file ends with its last round.
LEMMA KeptClosed ==
  ASSUME TypeOK, ~Padded, NEW due \in Seq(Audio), NEW rounds \in Nat, NEW some \in 0 .. BlockSize,
         Ended(due, rounds, some), sample_count = BlockSize * Len(blocks),
         NEW f, f.blocks = blocks, f.track = track,
         f.header = Header(sample_count, BlockSize * Len(blocks))
  PROVE  Closed(f, due, rounds) /\ Count(f) = rounds * BlockSize
<1>1. /\ BlockSize \in Nat \ {0} /\ Channels \in Nat \ {0} /\ some \in Nat
      /\ rounds * BlockSize \in Nat /\ rounds * Channels \in Nat
  BY DsfAssumption, LoopProducts
<1>2. sample_count = (rounds * BlockSize) * Channels
  <2>1. BlockSize * (rounds * Channels) = (rounds * BlockSize) * Channels  BY <1>1
  <2> QED  BY <2>1 DEF Ended
<1>3. Count(f) = rounds * BlockSize
  <2>1. PICK n \in Nat : n = rounds * BlockSize  BY <1>1
  <2>2. f.header = Header(n * Channels, BlockSize * Len(blocks))  BY <1>2, <2>1
  <2>3. Count(f) = n  BY <2>2, HeaderCounts
  <2> QED  BY <2>1, <2>3
<1>4. rounds * BlockSize + some = Len(due) /\ Len(blocks) = rounds * Channels  BY DEF Ended
<1>5. /\ Count(f) <= rounds * BlockSize /\ Count(f) <= Len(due) /\ Len(due) <= Count(f) + BlockSize
  BY <1>1, <1>3, <1>4
<1>6. ~(~dsf_nopad \/ f.track = TrackCount - 1)
  <2>1. dsf_nopad /\ ~(track >= TrackCount - 1)  BY DEF Padded
  <2>2. track = TrackCount - 1 => track >= TrackCount - 1  BY DsfAssumption
  <2> QED  BY <2>1, <2>2
<1>7. f.header = Header(Count(f) * Channels, BlockSize * Len(f.blocks))  BY <1>2, <1>3
<1>8. ASSUME NEW q \in 0 .. rounds - 1, NEW c \in Chans
      PROVE  f.blocks[Place(q, c)] =
               [channel |-> c,
                data |-> [k \in 1 .. BlockSize |-> IF q * BlockSize + k <= Count(f)
                                                   THEN due[q * BlockSize + k] ELSE Pad]]
  <2>1. \A k \in 1 .. BlockSize : q * BlockSize + k <= Count(f)  BY <1>3, InRounds
  <2>2. f.blocks[Place(q, c)] =
          [channel |-> c, data |-> [k \in 1 .. BlockSize |-> due[q * BlockSize + k]]]
    BY DEF Ended
  <2> QED  BY <2>1, <2>2
<1> QED  BY <1>3, <1>4, <1>5, <1>6, <1>7, <1>8 DEF Closed

\* A padded file has one round more when a byte is left.
LEMMA PaddedClosed ==
  ASSUME TypeOK, NEW due \in Seq(Audio), NEW rounds \in Nat, NEW some \in 0 .. BlockSize,
         Ended(due, rounds, some),
         sample_count = BlockSize * Len(blocks), audio_data_size = BlockSize * Len(blocks),
         NEW f, f.track = track,
         f.blocks = blocks \o PaddedBlocks(buffer, Channels),
         f.header = Header(sample_count + Leftover(buffer, Channels),
                           audio_data_size + BlockSize * Len(PaddedBlocks(buffer, Channels)))
  PROVE  /\ \E r \in Nat : r <= Len(f.blocks) /\ Closed(f, due, r)
         /\ Count(f) = Len(due)
<1> DEFINE PB == PaddedBlocks(buffer, Channels)
<1>1. /\ BlockSize \in Nat \ {0} /\ Channels \in Nat \ {0} /\ some \in Nat
      /\ rounds * BlockSize \in Nat /\ rounds * Channels \in Nat
      /\ (rounds + 1) * BlockSize = rounds * BlockSize + BlockSize
      /\ (rounds + 1) * Channels = rounds * Channels + Channels
  BY DsfAssumption, LoopProducts
<1>2. /\ rounds * BlockSize + some = Len(due) /\ Len(blocks) = rounds * Channels
      /\ \A c \in Chans : Len(buffer[c]) = some
  BY DEF Ended
<1>3. buffer \in Buffers /\ Channels \in 0 .. Channels /\ blocks \in Seq(Block)
  BY <1>1, BuffersType, SMTT(30) DEF TypeOK
<1>4. PB \in Seq(Block)  BY <1>3, PaddedType
<1>5. Leftover(buffer, Channels) = some * Channels  BY <1>1, <1>2, <1>3, LeftoverEqual
<1>6. sample_count + Leftover(buffer, Channels) = Len(due) * Channels
  <2>1. BlockSize * (rounds * Channels) = (rounds * BlockSize) * Channels  BY <1>1
  <2>2. PICK n \in Nat : n = rounds * BlockSize  BY <1>1
  <2>3. n * Channels + some * Channels = (n + some) * Channels  BY <1>1
  <2> QED  BY <1>2, <1>5, <2>1, <2>2, <2>3
<1>7. Len(due) \in Nat  OBVIOUS
<1>8. Count(f) = Len(due)  BY <1>6, <1>7, HeaderCounts
<1> HIDE DEF PB
<1>9. Len(f.blocks) = Len(blocks) + Len(PB) /\ Len(PB) \in Nat /\ Len(blocks) \in Nat
  <2>1. Len(blocks \o PB) = Len(blocks) + Len(PB)  BY <1>3, <1>4, ConcatProperties
  <2> QED  BY <1>3, <1>4, <2>1 DEF PB
<1>10. audio_data_size + BlockSize * Len(PB) = BlockSize * Len(f.blocks)
  <2>1. BlockSize * (Len(blocks) + Len(PB)) = BlockSize * Len(blocks) + BlockSize * Len(PB)
    BY <1>1, <1>9
  <2> QED  BY <1>9, <2>1
<1>11. f.header = Header(Count(f) * Channels, BlockSize * Len(f.blocks))
  BY <1>6, <1>8, <1>10 DEF PB
<1>12. \A p \in 1 .. Len(blocks) : f.blocks[p] = blocks[p]
  <2>1. \A p \in 1 .. Len(blocks) : (blocks \o PB)[p] = blocks[p]  BY <1>3, <1>4
  <2> QED  BY <2>1 DEF PB
<1>13. ASSUME NEW q \in 0 .. rounds - 1, NEW c \in Chans
       PROVE  f.blocks[Place(q, c)] =
                [channel |-> c,
                 data |-> [k \in 1 .. BlockSize |-> IF q * BlockSize + k <= Count(f)
                                                    THEN due[q * BlockSize + k] ELSE Pad]]
  <2>1. ASSUME NEW k \in 1 .. BlockSize PROVE q * BlockSize + k <= Count(f)
    <3>1. q * BlockSize \in Nat /\ q * BlockSize + k <= rounds * BlockSize  BY InRounds
    <3> QED  BY <1>1, <1>2, <1>7, <1>8, <3>1
  <2>2. /\ f.blocks[Place(q, c)] = blocks[Place(q, c)]
        /\ blocks[Place(q, c)] =
             [channel |-> c, data |-> [k \in 1 .. BlockSize |-> due[q * BlockSize + k]]]
    BY <1>12 DEF Ended
  <2> QED  BY <2>1, <2>2
<1>14. CASE some = 0
  <2>1. \A c \in Chans : buffer[c] = <<>>  BY <1>2, <1>3, <1>14 DEF Buffers
  <2>2. PB = <<>>  BY <1>3, <2>1, PaddedNone DEF PB
  <2>3. Len(f.blocks) = rounds * Channels  BY <1>1, <1>2, <1>9, <2>2
  <2>4. Count(f) <= rounds * BlockSize /\ Count(f) <= Len(due) /\ Len(due) <= Count(f) + BlockSize
    BY <1>1, <1>2, <1>7, <1>8, <1>14
  <2>5. Closed(f, due, rounds)  BY <1>8, <1>11, <1>13, <2>3, <2>4 DEF Closed
  <2>6. rounds <= Len(f.blocks)  BY <1>1, <2>3, NotLess
  <2> QED  BY <1>8, <2>5, <2>6
<1>15. CASE some > 0
  <2>1. \A c \in Chans : buffer[c] # <<>>
    <3>1. Len(<<>>) = 0  OBVIOUS
    <3> QED  BY <1>2, <1>15, <3>1
  <2>2. Len(PB) = Channels /\ \A c \in Chans : PB[c + 1] = PaddedBlock(buffer, c)
    BY <1>3, <2>1, PaddedAll DEF PB
  <2>3. Len(f.blocks) = (rounds + 1) * Channels  BY <1>1, <1>2, <1>9, <2>2
  <2>4. Count(f) <= (rounds + 1) * BlockSize /\ Count(f) <= Len(due) /\ Len(due) <= Count(f) + BlockSize
    BY <1>1, <1>2, <1>7, <1>8
  <2>5. ASSUME NEW c \in Chans
        PROVE  f.blocks[Place(rounds, c)] =
                 [channel |-> c,
                  data |-> [k \in 1 .. BlockSize |-> IF rounds * BlockSize + k <= Count(f)
                                                     THEN due[rounds * BlockSize + k] ELSE Pad]]
    <3>0. c \in 0 .. Channels - 1  BY DEF Chans
    <3>1. Place(rounds, c) = Len(blocks) + (c + 1)  BY <1>1, <1>2, <3>0 DEF Place
    <3>2. f.blocks[Place(rounds, c)] = PB[c + 1]
      <4>1. PICK j \in 1 .. Len(PB) : j = c + 1  BY <1>1, <2>2, <3>0
      <4>2. (blocks \o PB)[Len(blocks) + j] = PB[j]  BY <1>3, <1>4, SMTT(30)
      <4> QED  BY <3>1, <4>1, <4>2 DEF PB
    <3>3. ASSUME NEW k \in 1 .. BlockSize
          PROVE  (IF k <= Len(buffer[c]) THEN buffer[c][k] ELSE Pad) =
                 (IF rounds * BlockSize + k <= Count(f) THEN due[rounds * BlockSize + k] ELSE Pad)
      <4>1. k <= Len(buffer[c]) <=> rounds * BlockSize + k <= Count(f)
        BY <1>1, <1>2, <1>7, <1>8
      <4>2. k <= Len(buffer[c]) => buffer[c][k] = due[rounds * BlockSize + k]
        <5>1. k <= Len(buffer[c]) => k \in 1 .. some  BY <1>1, <1>2
        <5> QED  BY <5>1 DEF Ended
      <4> QED  BY <4>1, <4>2
    <3> QED  BY <2>2, <3>2, <3>3 DEF PaddedBlock
  <2>6. \A q \in 0 .. (rounds + 1) - 1 : q \in 0 .. rounds - 1 \/ q = rounds  OBVIOUS
  <2>7. rounds + 1 \in Nat /\ rounds + 1 <= Len(f.blocks)
    <3>1. PICK r \in Nat : r = rounds + 1  OBVIOUS
    <3>2. r <= r * Channels  BY <1>1, NotLess
    <3> QED  BY <2>3, <3>1, <3>2
  <2>8. Closed(f, due, rounds + 1)
    BY <1>8, <1>11, <1>13, <2>3, <2>4, <2>5, <2>6 DEF Closed
  <2> QED  BY <1>8, <2>7, <2>8
<1> QED  BY <1>1, <1>14, <1>15

-----------------------------------------------------------------------------
(* The step that closes a file *)

\* A closed file changes nothing of what was due before, and OpenDue was due to it.
LEMMA NextFile ==
  ASSUME TypeOK, TypeOK', NEW samples, NEW audio, NEW written, NEW whole,
         Finished(samples, audio, written, whole),
         NEW n \in Nat, n = Len(files),
         NEW f, f = [track |-> track, sent |-> sent, blocks |-> written,
                     header |-> Header(samples, audio), whole |-> whole]
  PROVE  /\ Len(files') = n + 1 /\ files'[n + 1] = f /\ \A i \in 1 .. n : files'[i] = files[i]
         /\ \A i \in 0 .. n : DueOf(dsf_nopad, files', i) = DueOf(dsf_nopad, files, i)
         /\ DueOf(dsf_nopad, files', n + 1) = OpenDue
<1>1. files \in Seq(File) /\ files' \in Seq(File) /\ files' = Append(files, f)
  BY DEF TypeOK, Finished
<1>2. /\ Len(files') = n + 1 /\ files'[n + 1] = f /\ \A i \in 1 .. n : files'[i] = files[i]
  BY <1>1
<1>3. ASSUME NEW i \in 0 .. n PROVE DueOf(dsf_nopad, files', i) = DueOf(dsf_nopad, files, i)
  <2>1. i \in 0 .. Len(files) /\ i <= Len(files') /\ \A j \in 1 .. i : files'[j] = files[j]
    BY <1>2
  <2> QED  BY <1>1, <2>1, SameDues
<1>4. DueOf(dsf_nopad, files', n + 1) = OpenDue
  <2>1. PICK m \in 1 .. Len(files') : m = n + 1  BY <1>2
  <2>2. PICK earlier : earlier = DueOf(dsf_nopad, files, n)  OBVIOUS
  <2>3. DueOf(dsf_nopad, files', m) = DueStep(dsf_nopad, files', m, DueOf(dsf_nopad, files', m - 1))
    BY <1>1, NextDue
  <2>4. m - 1 = n /\ n \in 0 .. n  BY <2>1
  <2>5. DueOf(dsf_nopad, files', m - 1) = earlier  BY <1>3, <2>2, <2>4
  <2>6. files'[m].track = track /\ files'[m].sent = sent  BY <1>2, <2>1
  <2>7. DueStep(dsf_nopad, files', m, earlier) =
          Carried(dsf_nopad, files', n, earlier, track) \o Own(track, sent)
    BY <2>4, <2>6 DEF DueStep
  <2>8. Carried(dsf_nopad, files', n, earlier, track) = Carried(dsf_nopad, files, n, earlier, track)
    <3>1. n > 0 => files'[n] = files[n]  BY <1>2
    <3> QED  BY <3>1 DEF Carried
  <2>9. Before = Carried(dsf_nopad, files, n, earlier, track)  BY <2>2 DEF Before, Due
  <2> QED  BY <2>1, <2>3, <2>5, <2>7, <2>8, <2>9 DEF OpenDue
<1> QED  BY <1>2, <1>3, <1>4

LEMMA FilesStep ==
  ASSUME TypeOK, TypeOK', FilesInv, NEW samples, NEW audio, NEW written, NEW whole,
         Finished(samples, audio, written, whole),
         NEW n \in Nat, n = Len(files),
         NEW f, f = [track |-> track, sent |-> sent, blocks |-> written,
                     header |-> Header(samples, audio), whole |-> whole],
         WholeUpTo(n) /\ whole => \E r \in Nat : r <= Len(f.blocks) /\ Closed(f, OpenDue, r)
  PROVE  /\ FilesInv'
         /\ WholeUpTo(Len(files))' => WholeUpTo(n) /\ whole
<1>1. /\ Len(files') = n + 1 /\ files'[n + 1] = f /\ \A i \in 1 .. n : files'[i] = files[i]
      /\ \A i \in 0 .. n : DueOf(dsf_nopad, files', i) = DueOf(dsf_nopad, files, i)
      /\ DueOf(dsf_nopad, files', n + 1) = OpenDue
  BY NextFile
<1>2. DOMAIN files = 1 .. n /\ DOMAIN files' = 1 .. n + 1  BY <1>1 DEF TypeOK
<1>3. dsf_nopad' = dsf_nopad /\ tags' = tags  BY DEF Finished, options
<1>4. \A g, due, r : Closed(g, due, r)' <=> Closed(g, due, r)
  BY <1>3 DEF Closed, Header, FooterSize
<1>5. ASSUME NEW i \in 1 .. n, WholeUpTo(i)' PROVE WholeUpTo(i)
  BY <1>1, <1>5 DEF WholeUpTo
<1>6. ASSUME WholeUpTo(n + 1)' PROVE WholeUpTo(n) /\ whole
  <2>1. \A j \in 1 .. n + 1 : files'[j].whole  BY <1>6 DEF WholeUpTo
  <2>2. \A j \in 1 .. n : files[j].whole  BY <1>1, <2>1
  <2>3. n + 1 \in 1 .. n + 1 /\ f.whole = whole  OBVIOUS
  <2> QED  BY <1>1, <2>1, <2>2, <2>3 DEF WholeUpTo
<1>7. ASSUME NEW i \in 1 .. n + 1, WholeUpTo(i)'
      PROVE  \E r \in 0 .. Len(files'[i].blocks) : Closed(files'[i], DueOf(dsf_nopad', files', i), r)
  <2>1. CASE i \in 1 .. n
    <3>1. WholeUpTo(i)  BY <1>5, <1>7, <2>1
    <3>2. PICK r \in 0 .. Len(files[i].blocks) : Closed(files[i], Due(i), r)
      BY <1>2, <2>1, <3>1 DEF FilesInv
    <3>3. DueOf(dsf_nopad', files', i) = Due(i) /\ files'[i] = files[i]
      BY <1>1, <1>3, <2>1 DEF Due
    <3> QED  BY <3>2, <3>3
  <2>2. CASE i = n + 1
    <3>1. WholeUpTo(n) /\ whole  BY <1>6, <1>7, <2>2
    <3>2. PICK r \in Nat : r <= Len(f.blocks) /\ Closed(f, OpenDue, r)  BY <3>1
    <3>3. DueOf(dsf_nopad', files', i) = OpenDue /\ files'[i] = f  BY <1>1, <1>3, <2>2
    <3>4. r \in 0 .. Len(f.blocks)
      <4>1. f \in File
        <5>1. files' \in Seq(File)  BY DEF TypeOK
        <5> QED  BY <1>1, <5>1
      <4>2. Len(f.blocks) \in Nat  BY <4>1 DEF File
      <4> QED  BY <3>2, <4>2
    <3> QED  BY <3>2, <3>3, <3>4
  <2> QED  BY <2>1, <2>2
<1>8. FilesInv'
  <2>1. ASSUME NEW i \in 1 .. n + 1, WholeUpTo(i)'
        PROVE  (\E r \in 0 .. Len(files[i].blocks) : Closed(files[i], Due(i), r))'
    <3>1. PICK r \in 0 .. Len(files'[i].blocks) : Closed(files'[i], DueOf(dsf_nopad', files', i), r)
      BY <1>7, <2>1
    <3>2. PICK g, due : g = files'[i] /\ due = DueOf(dsf_nopad', files', i)  OBVIOUS
    <3>3. Closed(g, due, r)  BY <3>1, <3>2
    <3>4. Header(Count(g) * Channels, BlockSize * Len(g.blocks))' =
            Header(Count(g) * Channels, BlockSize * Len(g.blocks))
      BY <1>3 DEF Header, FooterSize
    <3>5. Closed(g, due, r)'  BY <1>3, <3>3, <3>4 DEF Closed
    <3>6. Closed(files[i], Due(i), r)'  BY <3>2, <3>5 DEF Closed, Due, Header, FooterSize
    <3> QED  BY <3>6
  <2> QED  BY <1>2, <2>1 DEF FilesInv
<1>9. WholeUpTo(Len(files))' => WholeUpTo(n) /\ whole  BY <1>1, <1>6
<1> QED  BY <1>8, <1>9

\* What a closed file lacks.
LEMMA RestOf ==
  ASSUME NEW due \in Seq(Audio), NEW f, NEW k \in Nat, NEW some \in Nat,
         Count(f) = k, Len(due) = k + some
  PROVE  /\ Rest(due, f) \in Seq(Audio) /\ Len(Rest(due, f)) = some
         /\ \A j \in 1 .. some : Rest(due, f)[j] = due[k + j]
<1>1. Rest(due, f) = SubSeq(due, k + 1, k + some)  BY DEF Rest
<1>2. SubSeq(due, k + 1, k + some) \in Seq(Audio)  OBVIOUS
<1>3. Len(SubSeq(due, k + 1, k + some)) = some  OBVIOUS
<1>4. \A j \in 1 .. some : SubSeq(due, k + 1, k + some)[j] = due[k + j]  OBVIOUS
<1> QED  BY <1>1, <1>2, <1>3, <1>4

LEMMA SameSequences ==
  ASSUME NEW S, NEW s \in Seq(S), NEW t \in Seq(S), Len(s) = Len(t),
         \A j \in 1 .. Len(s) : s[j] = t[j]
  PROVE  s = t
  OBVIOUS

LEMMA KeptStep ==
  ASSUME DsfInv, TypeOK', CloseKept PROVE DsfInv'
<1>0. TypeOK /\ FilesInv /\ QueueInv  BY DEF DsfInv
<1>1. PICK n \in Nat : n = Len(files)  BY <1>0 DEF TypeOK
<1>2. PICK f : f = [track |-> track, sent |-> sent, blocks |-> blocks,
                    header |-> Header(sample_count, audio_data_size), whole |-> pc = "write"]
  OBVIOUS
<1>3. PICK due : due = OpenDue  OBVIOUS
<1>4. /\ Finished(sample_count, audio_data_size, blocks, pc = "write")
      /\ pc \in {"write", "broken"} /\ left = 0 /\ ~Padded
      /\ UNCHANGED <<dsf_nopad, concatenate, queue>> /\ pc' = "next"
  BY DEF CloseKept, Finished, options
<1>5. track \in Tracks /\ due \in Seq(Audio) /\ track # NoTrack
  <2>1. track \in Tracks  BY <1>0, <1>4 DEF TypeOK
  <2>2. track # NoTrack  BY <2>1, DsfAssumption DEF Tracks, NoTrack
  <2> QED  BY <1>0, <1>3, <2>1, <2>2, OpenDueIs
<1>6. ASSUME WholeUpTo(n), pc = "write"
      PROVE  \E rounds \in Nat, some \in 0 .. BlockSize :
               /\ Ended(due, rounds, some) /\ rounds <= Len(f.blocks)
               /\ Closed(f, due, rounds) /\ Count(f) = rounds * BlockSize
  <2>1. LoopInv  BY <1>1, <1>6 DEF DsfInv
  <2>2. PICK rounds \in Nat, some \in 0 .. BlockSize : Ended(due, rounds, some)
    BY <1>0, <1>3, <1>4, <1>5, <2>1, LoopEnds
  <2>3. sample_count = BlockSize * Len(blocks) /\ audio_data_size = BlockSize * Len(blocks)
    BY <2>1 DEF LoopInv
  <2>4. f.blocks = blocks /\ f.track = track /\ f.header = Header(sample_count, BlockSize * Len(blocks))
    BY <1>2, <2>3
  <2>5. Closed(f, due, rounds) /\ Count(f) = rounds * BlockSize
    BY <1>0, <1>4, <1>5, <2>2, <2>3, <2>4, KeptClosed
  <2>6. rounds <= Len(f.blocks)  BY <2>2, <2>4, NotLess, DsfAssumption DEF Ended
  <2> QED  BY <2>2, <2>5, <2>6
<1>7. /\ FilesInv'
      /\ WholeUpTo(Len(files))' => WholeUpTo(n) /\ pc = "write"
  <2>1. WholeUpTo(n) /\ pc = "write" => \E r \in Nat : r <= Len(f.blocks) /\ Closed(f, OpenDue, r)
    BY <1>3, <1>6
  <2> QED  BY <1>0, <1>1, <1>2, <1>4, <2>1, FilesStep
<1>8. /\ Len(files') = n + 1 /\ files'[n + 1] = f /\ DueOf(dsf_nopad, files', n + 1) = due
  <2>1. /\ Len(files') = n + 1 /\ files'[n + 1] = f
        /\ DueOf(dsf_nopad, files', n + 1) = OpenDue
    <3>1. PICK samples, audio, written :
            samples = sample_count /\ audio = audio_data_size /\ written = blocks
      OBVIOUS
    <3>2. Finished(samples, audio, written, pc = "write")  BY <1>4, <3>1
    <3>3. f = [track |-> track, sent |-> sent, blocks |-> written,
               header |-> Header(samples, audio), whole |-> pc = "write"]
      BY <1>2, <3>1
    <3> QED  BY <1>0, <1>1, <3>2, <3>3, NextFile
  <2> QED  BY <1>3, <2>1
<1>9. ASSUME WholeUpTo(n), pc = "write" PROVE PrevInv'
  <2>1. PICK rounds \in Nat, some \in 0 .. BlockSize :
          Ended(due, rounds, some) /\ Count(f) = rounds * BlockSize
    BY <1>6, <1>9
  <2>2. PICK k \in Nat : k = rounds * BlockSize  BY LoopProducts
  <2>3. some \in Nat /\ Len(due) = k + some  BY <2>1, <2>2, DsfAssumption DEF Ended
  <2>4. PICK rest : rest = Rest(due, f)  OBVIOUS
  <2>5. rest \in Seq(Audio) /\ Len(rest) = some /\ \A j \in 1 .. some : rest[j] = due[k + j]
    BY <1>5, <2>1, <2>2, <2>3, <2>4, RestOf, SMTT(30)
  <2>6. ASSUME NEW c \in Chans PROVE buffer[c] = rest
    <3>1. buffer[c] \in Seq(Audio)  BY <1>0 DEF TypeOK
    <3>2. Len(buffer[c]) = some /\ \A j \in 1 .. some : buffer[c][j] = due[k + j]
      BY <2>1, <2>2 DEF Ended
    <3>3. Len(buffer[c]) = Len(rest) /\ \A j \in 1 .. Len(buffer[c]) : buffer[c][j] = rest[j]
      BY <2>5, <3>2
    <3>4. PICK s : s = buffer[c]  OBVIOUS
    <3> QED  BY <2>5, <3>1, <3>3, <3>4, SameSequences
  <2>7. files' # <<>>
    <3>1. Len(<<>>) = 0 /\ n + 1 # 0  OBVIOUS
    <3> QED  BY <1>8, <3>1
  <2>8. Rest(DueOf(dsf_nopad', files', Len(files')), files'[Len(files')]) = rest
    BY <1>4, <1>8, <2>4
  <2>9. CASE concatenate
    <3>1. prev_track_no' = NoTrack /\ concatenate'  BY <1>4, <2>9 DEF CloseKept
    <3> QED  BY <2>7, <3>1 DEF PrevInv
  <2>10. CASE ~concatenate
    <3>1. prev' = buffer /\ prev_track_no' = IF buffer[Channels - 1] # <<>> THEN track ELSE NoTrack
      BY <2>10 DEF CloseKept
    <3>2. Channels - 1 \in Chans  BY DsfAssumption DEF Chans
    <3>3. CASE rest = <<>>
      <4>1. prev_track_no' = NoTrack  BY <2>6, <3>1, <3>2, <3>3
      <4> QED  BY <2>7, <2>8, <3>3, <4>1 DEF PrevInv, Due
    <3>4. CASE rest # <<>>
      <4>1. prev_track_no' = track /\ track # NoTrack  BY <1>5, <2>6, <3>1, <3>2, <3>4
      <4>2. files'[Len(files')].track = track  BY <1>2, <1>8
      <4>3. \A c \in Chans : prev'[c] = rest  BY <2>6, <3>1
      <4> QED  BY <2>7, <2>8, <4>1, <4>2, <4>3 DEF PrevInv, Due
    <3> QED  BY <3>3, <3>4
  <2> QED  BY <2>9, <2>10
<1>10. QueueInv'
  <2>1. Len(queue) \in Nat  BY <1>0 DEF TypeOK
  <2>2. pc # "next"  BY <1>4
  <2> QED  BY <1>0, <1>1, <1>4, <1>8, <2>1, <2>2 DEF QueueInv
<1>11. pc' = "next" /\ pc' # "write"  BY <1>4
<1> QED  BY <1>7, <1>9, <1>10, <1>11 DEF DsfInv

LEMMA PaddedCloseStep ==
  ASSUME DsfInv, TypeOK', ClosePadded PROVE DsfInv'
<1>0. TypeOK /\ FilesInv /\ QueueInv  BY DEF DsfInv
<1>1. PICK n \in Nat : n = Len(files)  BY <1>0 DEF TypeOK
<1>2. PICK samples, audio, written :
        /\ samples = sample_count + Leftover(buffer, Channels)
        /\ audio = audio_data_size + BlockSize * Len(PaddedBlocks(buffer, Channels))
        /\ written = blocks \o PaddedBlocks(buffer, Channels)
  OBVIOUS
<1>3. PICK f : f = [track |-> track, sent |-> sent, blocks |-> written,
                    header |-> Header(samples, audio), whole |-> pc = "write"]
  OBVIOUS
<1>4. PICK due : due = OpenDue  OBVIOUS
<1>5. /\ Finished(samples, audio, written, pc = "write")
      /\ pc \in {"write", "broken"} /\ left = 0 /\ prev_track_no' = NoTrack
      /\ UNCHANGED <<dsf_nopad, concatenate, queue>> /\ pc' = "next"
  BY <1>2 DEF ClosePadded, Finished, options
<1>6. track \in Tracks /\ due \in Seq(Audio)
  <2>1. track \in Tracks  BY <1>0, <1>5 DEF TypeOK
  <2> QED  BY <1>0, <1>4, <2>1, OpenDueIs
<1>7. ASSUME WholeUpTo(n), pc = "write"
      PROVE  /\ \E r \in Nat : r <= Len(f.blocks) /\ Closed(f, due, r)
             /\ Count(f) = Len(due)
  <2>1. LoopInv  BY <1>1, <1>7 DEF DsfInv
  <2>2. PICK rounds \in Nat, some \in 0 .. BlockSize : Ended(due, rounds, some)
    BY <1>0, <1>4, <1>5, <1>6, <2>1, LoopEnds
  <2>3. sample_count = BlockSize * Len(blocks) /\ audio_data_size = BlockSize * Len(blocks)
    BY <2>1 DEF LoopInv
  <2>4. /\ f.track = track /\ f.blocks = blocks \o PaddedBlocks(buffer, Channels)
        /\ f.header = Header(sample_count + Leftover(buffer, Channels),
                             audio_data_size + BlockSize * Len(PaddedBlocks(buffer, Channels)))
    BY <1>2, <1>3
  <2> QED  BY <1>0, <1>6, <2>2, <2>3, <2>4, PaddedClosed
<1>8. /\ FilesInv'
      /\ WholeUpTo(Len(files))' => WholeUpTo(n) /\ pc = "write"
  <2>1. WholeUpTo(n) /\ pc = "write" => \E r \in Nat : r <= Len(f.blocks) /\ Closed(f, OpenDue, r)
    BY <1>4, <1>7
  <2> QED  BY <1>0, <1>1, <1>3, <1>5, <2>1, FilesStep
<1>9. /\ Len(files') = n + 1 /\ files'[n + 1] = f /\ DueOf(dsf_nopad, files', n + 1) = due
  BY <1>0, <1>1, <1>3, <1>4, <1>5, NextFile
<1>10. ASSUME WholeUpTo(n), pc = "write" PROVE PrevInv'
  <2>1. PICK k \in Nat, none \in Nat : Count(f) = k /\ Len(due) = k + none /\ none = 0
    BY <1>6, <1>7, <1>10
  <2>2. PICK rest : rest = Rest(due, f)  OBVIOUS
  <2>3. rest \in Seq(Audio) /\ Len(rest) = none  BY <1>6, <2>1, <2>2, RestOf
  <2>4. rest = <<>>  BY <2>1, <2>3
  <2>5. files' # <<>>
    <3>1. Len(<<>>) = 0 /\ n + 1 # 0  OBVIOUS
    <3> QED  BY <1>9, <3>1
  <2>6. Rest(DueOf(dsf_nopad', files', Len(files')), files'[Len(files')]) = rest
    BY <1>5, <1>9, <2>2
  <2> QED  BY <1>5, <2>4, <2>5, <2>6 DEF PrevInv, Due
<1>11. QueueInv'
  <2>1. Len(queue) \in Nat  BY <1>0 DEF TypeOK
  <2>2. pc # "next"  BY <1>5
  <2> QED  BY <1>0, <1>1, <1>5, <1>9, <2>1, <2>2 DEF QueueInv
<1>12. pc' = "next" /\ pc' # "write"  BY <1>5
<1> QED  BY <1>8, <1>10, <1>11, <1>12 DEF DsfInv

LEMMA FailedCloseStep ==
  ASSUME DsfInv, TypeOK', CloseFails PROVE DsfInv'
<1>0. TypeOK /\ FilesInv /\ QueueInv  BY DEF DsfInv
<1>1. PICK n \in Nat : n = Len(files)  BY <1>0 DEF TypeOK
<1>2. PICK samples, audio, written : Finished(samples, audio, written, FALSE)  BY DEF CloseFails
<1>3. PICK f : f = [track |-> track, sent |-> sent, blocks |-> written,
                    header |-> Header(samples, audio), whole |-> FALSE]
  OBVIOUS
<1>4. FilesInv' /\ ~WholeUpTo(Len(files))'
  <2>1. WholeUpTo(n) /\ FALSE => \E r \in Nat : r <= Len(f.blocks) /\ Closed(f, OpenDue, r)
    OBVIOUS
  <2>2. /\ FilesInv'
        /\ WholeUpTo(Len(files))' => WholeUpTo(n) /\ FALSE
    BY <1>0, <1>1, <1>2, <1>3, <2>1, FilesStep
  <2> QED  BY <2>2
<1>5. Len(files') = n + 1  BY <1>0, <1>1, <1>2, <1>3, NextFile
<1>6. QueueInv'
  <2>1. Len(queue) \in Nat  BY <1>0 DEF TypeOK
  <2>2. pc # "next" /\ pc' = "next" /\ UNCHANGED <<concatenate, queue>>
    BY <1>2 DEF CloseFails, Finished, options
  <2> QED  BY <1>0, <1>1, <1>5, <2>1, <2>2 DEF QueueInv
<1> QED  BY <1>4, <1>6 DEF DsfInv

-----------------------------------------------------------------------------
(* The inductive invariant *)

LEMMA DsfStart == Init => DsfInv
<1> SUFFICES ASSUME Init PROVE DsfInv  OBVIOUS
<1>1. TypeOK  BY TypeStart
<1>2. files = <<>> /\ pc = "next" /\ prev_track_no = NoTrack /\ (concatenate => Len(queue) = 1)
  BY DEF Init
<1>3. DOMAIN files = {} /\ Len(files) = 0  BY <1>2
<1>4. FilesInv  BY <1>3 DEF FilesInv
<1>5. PrevInv  BY <1>2 DEF PrevInv
<1>6. QueueInv
  <2>1. concatenate => Len(queue) + Len(files) + 0 <= 1
    <3>1. concatenate => Len(queue) + Len(files) + 0 = 1 + 0 + 0  BY <1>2, <1>3
    <3> QED  BY <3>1
  <2> QED  BY <1>2, <2>1 DEF QueueInv
<1>7. pc # "write"  BY <1>2
<1> QED  BY <1>1, <1>4, <1>5, <1>6, <1>7 DEF DsfInv

LEMMA DsfStep == ASSUME DsfInv, [Next]_vars PROVE DsfInv'
<1>0. TypeOK /\ TypeOK' /\ FilesInv /\ QueueInv
  <2>1. TypeOK /\ FilesInv /\ QueueInv  BY DEF DsfInv
  <2> QED  BY <2>1, TypeStep
\* A step inside of a file: only LoopInv is to be seen to.
<1>1. ASSUME SameFile, UNCHANGED queue, pc # "next", pc' # "next",
             pc' = "write" => pc = "write",
             WholeUpTo(Len(files)) /\ pc' = "write" => LoopInv'
      PROVE  DsfInv'
  <2>1. /\ FilesInv => FilesInv'
        /\ WholeUpTo(Len(files))' <=> WholeUpTo(Len(files))
    BY <1>1, BeforeKept
  <2>2. QueueInv'
    <3>1. concatenate' = concatenate /\ files' = files  BY <1>1 DEF SameFile
    <3> QED  BY <1>0, <1>1, <3>1 DEF QueueInv
  <2> QED  BY <1>0, <1>1, <2>1, <2>2 DEF DsfInv
<1>2. ASSUME Create PROVE DsfInv'
  <2>1. /\ files' = files /\ dsf_nopad' = dsf_nopad /\ tags' = tags /\ concatenate' = concatenate
        /\ queue' = Tail(queue) /\ queue # <<>> /\ pc = "next" /\ pc' \in {"write", "broken"}
    BY <1>2 DEF Create, options
  <2>2. /\ \A i : Due(i)' = Due(i)
        /\ \A i : WholeUpTo(i)' <=> WholeUpTo(i)
        /\ \A f, due, rounds : Closed(f, due, rounds)' <=> Closed(f, due, rounds)
    BY <2>1 DEF Due, WholeUpTo, Closed, Header, FooterSize
  <2>3. FilesInv'  BY <1>0, <2>1, <2>2 DEF FilesInv
  <2>4. WholeUpTo(Len(files))' <=> WholeUpTo(Len(files))  BY <2>1 DEF WholeUpTo
  <2>5. WholeUpTo(Len(files)) => LoopInv'  BY <1>0, <1>2, CreateLoop
  <2>6. QueueInv'
    <3>1. queue \in Seq(Tracks) /\ files \in Seq(File)  BY <1>0 DEF TypeOK
    <3>2. Len(Tail(queue)) = Len(queue) - 1 /\ Len(queue) \in Nat /\ Len(files) \in Nat
      BY <2>1, <3>1
    <3>3. concatenate => Len(queue) + Len(files) + 0 <= 1  BY <1>0, <2>1 DEF QueueInv
    <3>4. concatenate => Len(queue') + Len(files') + 1 <= 1  BY <2>1, <3>2, <3>3
    <3> QED  BY <2>1, <3>4 DEF QueueInv
  <2>7. pc' # "next"  BY <2>1
  <2> QED  BY <1>0, <2>3, <2>4, <2>5, <2>6, <2>7 DEF DsfInv
<1>3. ASSUME CreateFails PROVE DsfInv'
  <2>1. /\ UNCHANGED <<dsf_nopad, concatenate, tags, files, track, pc, prev, prev_track_no>>
        /\ queue' = Tail(queue) /\ queue # <<>> /\ pc = "next"
    BY <1>3 DEF CreateFails, options
  <2>2. SameFile  BY <2>1 DEF SameFile
  <2>3. /\ FilesInv => FilesInv'
        /\ WholeUpTo(Len(files))' <=> WholeUpTo(Len(files))
    BY <2>2, BeforeKept
  <2>4. PrevInv => PrevInv'  BY <2>1 DEF PrevInv, Due
  <2>5. QueueInv'
    <3>1. queue \in Seq(Tracks) /\ files \in Seq(File)  BY <1>0 DEF TypeOK
    <3>2. Len(Tail(queue)) = Len(queue) - 1 /\ Len(queue) \in Nat /\ Len(files) \in Nat
      BY <2>1, <3>1
    <3>3. concatenate => Len(queue) + Len(files) + 0 <= 1  BY <1>0, <2>1 DEF QueueInv
    <3>4. concatenate => Len(queue') + Len(files') + 0 <= 1  BY <2>1, <3>2, <3>3
    <3> QED  BY <2>1, <3>4 DEF QueueInv
  <2>6. pc' = "next" /\ dsf_nopad' = dsf_nopad /\ pc' # "write"  BY <2>1
  <2> QED  BY <1>0, <2>1, <2>3, <2>4, <2>5, <2>6 DEF DsfInv
<1>4. ASSUME WriteFrame PROVE DsfInv'
  <2>1. SameFile /\ UNCHANGED queue /\ pc # "next" /\ pc' = pc
    BY <1>4 DEF WriteFrame, SameFile, options
  <2>2. WholeUpTo(Len(files)) /\ pc' = "write" => LoopInv'
    BY <1>0, <1>4, <2>1, WriteFrameLoop DEF DsfInv
  <2> QED  BY <1>1, <2>1, <2>2
<1>5. ASSUME PutByte PROVE DsfInv'
  <2>1. SameFile /\ UNCHANGED queue /\ pc # "next" /\ pc' = pc
    BY <1>0, <1>5 DEF PutByte, SameFile, options, TypeOK
  <2>2. WholeUpTo(Len(files)) /\ pc' = "write" => LoopInv'
    BY <1>0, <1>5, <2>1, PutByteLoop DEF DsfInv
  <2> QED  BY <1>1, <2>1, <2>2
<1>6. ASSUME FlushBlock PROVE DsfInv'
  <2>1. SameFile /\ UNCHANGED queue /\ pc # "next" /\ pc' = pc
    BY <1>0, <1>6 DEF FlushBlock, SameFile, options, TypeOK
  <2>2. WholeUpTo(Len(files)) /\ pc' = "write" => LoopInv'
    BY <1>0, <1>6, <2>1, FlushBlockLoop DEF DsfInv
  <2> QED  BY <1>1, <2>1, <2>2
<1>7. ASSUME FlushFails PROVE DsfInv'
  <2>1. SameFile /\ UNCHANGED queue /\ pc # "next" /\ pc' = "broken"
    BY <1>0, <1>7 DEF FlushFails, SameFile, options, TypeOK
  <2>2. pc' # "write" /\ pc' # "next"  BY <2>1
  <2> QED  BY <1>1, <2>1, <2>2
<1>8. ASSUME ClosePadded PROVE DsfInv'  BY <1>0, <1>8, PaddedCloseStep
<1>9. ASSUME CloseFails PROVE DsfInv'  BY <1>0, <1>9, FailedCloseStep
<1>10. ASSUME CloseKept PROVE DsfInv'  BY <1>0, <1>10, KeptStep
<1>11. ASSUME UNCHANGED vars PROVE DsfInv'
  <2>1. SameFile /\ UNCHANGED <<pc, queue, prev, prev_track_no>>
    BY <1>11 DEF vars, options, SameFile
  <2>2. /\ FilesInv => FilesInv'
        /\ WholeUpTo(Len(files))' <=> WholeUpTo(Len(files))
        /\ Before' = Before
    BY <2>1, BeforeKept
  <2>3. PrevInv => PrevInv'  BY <2>1 DEF PrevInv, Due, SameFile
  <2>4. LoopInv => LoopInv'
    <3>1. UNCHANGED <<track, sent, left, ch, buffer, sample_count, audio_data_size, blocks>>
      BY <1>11 DEF vars, counts
    <3> QED  BY <2>2, <3>1 DEF LoopInv, Loop
  <2>5. QueueInv'  BY <1>0, <2>1 DEF QueueInv, SameFile
  <2> QED  BY <1>0, <2>1, <2>2, <2>3, <2>4, <2>5 DEF DsfInv, SameFile
<1> QED
  BY <1>2, <1>3, <1>4, <1>5, <1>6, <1>7, <1>8, <1>9, <1>10, <1>11 DEF Next, Stop

-----------------------------------------------------------------------------
(* What the invariant says of closed files *)

\* A player takes from a closed file the first bytes due to it.
LEMMA ContentIs ==
  ASSUME NEW f, NEW due \in Seq(Audio), NEW rounds \in Nat, Closed(f, due, rounds),
         Count(f) \in Nat, NEW c \in Chans
  PROVE  /\ Len(Content(f, c)) = Count(f)
         /\ Content(f, c) \in Seq(Audio)
         /\ \A p \in 1 .. Count(f) : Content(f, c)[p] = due[p]
<1> DEFINE byte(p) == f.blocks[Place((p - 1) \div BlockSize, c)].data[((p - 1) % BlockSize) + 1]
<1>1. PICK n \in Nat : n = Count(f)  OBVIOUS
<1>2. Content(f, c) = [p \in 1 .. n |-> byte(p)]  BY <1>1 DEF Content
<1>3. n <= rounds * BlockSize /\ n <= Len(due) /\ rounds * BlockSize \in Nat
  BY <1>1, LoopProducts DEF Closed
<1>4. BlockSize \in Nat \ {0}  BY DsfAssumption
<1>5. ASSUME NEW p \in 1 .. n PROVE byte(p) = due[p]
  <2>1. PICK q \in Nat, j \in 0 .. BlockSize - 1 :
          /\ q = (p - 1) \div BlockSize /\ j = (p - 1) % BlockSize
          /\ q * BlockSize + j + 1 = p
    <3>1. p \in Nat \ {0}  BY <1>1
    <3>2. /\ (p - 1) \div BlockSize \in Nat /\ (p - 1) % BlockSize \in 0 .. BlockSize - 1
          /\ ((p - 1) \div BlockSize) * BlockSize + ((p - 1) % BlockSize) + 1 = p
      BY <1>4, <3>1, EveryPlace
    <3> QED  BY <3>2
  <2>2. q < rounds
    <3>1. q < rounds <=> q * BlockSize + j + 1 <= rounds * BlockSize  BY <1>4, Rounds
    <3> QED  BY <1>1, <1>3, <2>1, <3>1
  <2>3. PICK k \in 1 .. BlockSize : k = j + 1  BY <1>4
  <2>4. q \in 0 .. rounds - 1  BY <2>2
  <2>5. f.blocks[Place(q, c)] =
          [channel |-> c,
           data |-> [i \in 1 .. BlockSize |-> IF q * BlockSize + i <= Count(f)
                                              THEN due[q * BlockSize + i] ELSE Pad]]
    BY <2>4 DEF Closed
  <2>6. q * BlockSize + k = p
    <3>1. q * BlockSize \in Nat  BY <1>4
    <3> QED  BY <1>4, <2>1, <2>3, <3>1
  <2>7. f.blocks[Place(q, c)].data[k] = due[p]
    <3>1. f.blocks[Place(q, c)].data[k] = IF q * BlockSize + k <= Count(f)
                                          THEN due[q * BlockSize + k] ELSE Pad
      BY <2>5
    <3> QED  BY <1>1, <2>6, <3>1
  <2> QED  BY <2>1, <2>3, <2>7
<1> HIDE DEF byte
<1>6. ASSUME NEW p \in 1 .. n PROVE byte(p) \in Audio
  <2>1. p \in 1 .. Len(due)  BY <1>3
  <2> QED  BY <1>5, <2>1
<1>7. [p \in 1 .. n |-> byte(p)] \in Seq(Audio)  BY <1>6
<1>8. Len([p \in 1 .. n |-> byte(p)]) = n  BY <1>1
<1> QED  BY <1>1, <1>2, <1>5, <1>7, <1>8

LEMMA ClosedFile ==
  ASSUME DsfInv, NEW i \in DOMAIN files, WholeUpTo(i)
  PROVE  /\ Due(i) \in Seq(Audio) /\ Count(files[i]) \in Nat /\ Len(files[i].blocks) \in Nat
         /\ \E rounds \in Nat : Closed(files[i], Due(i), rounds)
<1>1. files \in Seq(File) /\ DOMAIN files = 1 .. Len(files)  BY DEF DsfInv, TypeOK
<1>2. files[i] \in File /\ i \in 0 .. Len(files)  BY <1>1
<1>3. Due(i) \in Seq(Audio)  BY <1>1, <1>2, DueIsSeq DEF Due
<1>4. Len(files[i].blocks) \in Nat  BY <1>2 DEF File
<1>5. PICK rounds \in 0 .. Len(files[i].blocks) : Closed(files[i], Due(i), rounds)
  BY DEF DsfInv, FilesInv
<1> QED  BY <1>2, <1>3, <1>4, <1>5, CountIsNat

LEMMA PrefixOf ==
  ASSUME NEW S, NEW s \in Seq(S), NEW t \in Seq(S), Len(s) <= Len(t), \A p \in 1 .. Len(s) : s[p] = t[p]
  PROVE  IsPrefix(s, t) /\ (Len(s) = Len(t) => s = t)
<1>1. SubSeq(s, 1, Len(s)) = SubSeq(t, 1, Len(s))  OBVIOUS
<1>2. Len(s) = Len(t) => s = t  OBVIOUS
<1>3. IsPrefix(s, t)  BY <1>1, Zenon DEF IsPrefix
<1> QED  BY <1>2, <1>3

LEMMA SamplesFollow == DsfInv => EverySampleOnce
<1> SUFFICES ASSUME DsfInv, NEW i \in DOMAIN files, NEW c \in Chans, WholeUpTo(i)
             PROVE  /\ IsPrefix(Content(files[i], c), Due(i))
                    /\ Len(Due(i)) - Len(Content(files[i], c)) <= BlockSize
                    /\ ~dsf_nopad \/ files[i].track = TrackCount - 1 => Content(files[i], c) = Due(i)
  BY DEF EverySampleOnce
<1>1. PICK rounds \in Nat : Closed(files[i], Due(i), rounds)  BY ClosedFile
<1>2. PICK f, due : f = files[i] /\ due = Due(i)  OBVIOUS
<1>3. due \in Seq(Audio) /\ Count(f) \in Nat /\ Closed(f, due, rounds)
  BY <1>1, <1>2, ClosedFile
<1>4. PICK content : content = Content(f, c)  OBVIOUS
<1>5. /\ Len(content) = Count(f) /\ content \in Seq(Audio)
      /\ \A p \in 1 .. Count(f) : content[p] = due[p]
  BY <1>3, <1>4, ContentIs
<1>6. /\ Count(f) <= Len(due) /\ Len(due) <= Count(f) + BlockSize
      /\ ~dsf_nopad \/ f.track = TrackCount - 1 => Count(f) = Len(due)
  BY <1>3 DEF Closed
<1>7. IsPrefix(content, due) /\ (Len(content) = Len(due) => content = due)
  <2>1. Len(content) <= Len(due) /\ \A p \in 1 .. Len(content) : content[p] = due[p]
    BY <1>5, <1>6
  <2> QED  BY <1>3, <1>5, <2>1, PrefixOf
<1>8. Len(due) - Len(content) <= BlockSize  BY <1>3, <1>5, <1>6, DsfAssumption
<1>9. ~dsf_nopad \/ f.track = TrackCount - 1 => content = due  BY <1>5, <1>6, <1>7
<1> QED  BY <1>2, <1>4, <1>7, <1>8, <1>9

LEMMA HeaderFollows == DsfInv => HeaderMatchesFile
<1> SUFFICES ASSUME DsfInv, NEW i \in DOMAIN files, WholeUpTo(i),
                    NEW f, f = files[i], NEW n, n = Len(f.blocks) \div Channels
             PROVE  /\ f.header.data_size = DATA_CHUNK_SIZE + BlockSize * Len(f.blocks)
                    /\ f.header.total = HeaderSize + BlockSize * Len(f.blocks) + FooterSize
                    /\ tags /\ TagSize > 0 => f.header.metadata = f.header.total - TagSize
                    /\ Len(f.blocks) = n * Channels /\ Count(f) <= n * BlockSize
                    /\ \A q \in 0 .. n - 1, c \in Chans :
                         /\ f.blocks[Place(q, c)].channel = c
                         /\ \A j \in 1 .. BlockSize :
                              f.blocks[Place(q, c)].data[j] = Pad <=> q * BlockSize + j > Count(f)
  BY DEF HeaderMatchesFile
<1>1. PICK rounds \in Nat : Closed(files[i], Due(i), rounds)  BY ClosedFile
<1>2. PICK due : due = Due(i)  OBVIOUS
<1>3. /\ due \in Seq(Audio) /\ Count(f) \in Nat /\ Len(f.blocks) \in Nat
      /\ Closed(f, due, rounds)
  BY <1>1, <1>2, ClosedFile
<1>4. n = rounds
  <2>1. Len(f.blocks) = rounds * Channels  BY <1>3 DEF Closed
  <2> QED  BY <2>1, DivideProduct, DsfAssumption
<1>5. f.header = Header(Count(f) * Channels, BlockSize * Len(f.blocks))  BY <1>3 DEF Closed
<1>6. PICK audio \in Nat : audio = BlockSize * Len(f.blocks)  BY <1>3, DsfAssumption
<1>7. /\ f.header.data_size = DATA_CHUNK_SIZE + audio
      /\ f.header.total = HeaderSize + audio + FooterSize
      /\ f.header.metadata = IF FooterSize > 0 THEN HeaderSize + audio ELSE 0
  BY <1>5, <1>6 DEF Header
<1>8. tags /\ TagSize > 0 => f.header.metadata = f.header.total - TagSize
  <2>1. HeaderSize \in Nat  BY DEF HeaderSize, DSD_CHUNK_HEADER_SIZE, FMT_CHUNK_SIZE, DATA_CHUNK_SIZE
  <2>2. tags /\ TagSize > 0 => FooterSize = TagSize /\ FooterSize > 0  BY DEF FooterSize
  <2>3. PICK size \in Nat : size = HeaderSize + audio  BY <2>1
  <2>4. size = (size + TagSize) - TagSize  BY DsfAssumption
  <2> QED  BY <1>7, <2>2, <2>3, <2>4
<1>9. Len(f.blocks) = n * Channels /\ Count(f) <= n * BlockSize  BY <1>3, <1>4 DEF Closed
<1>10. ASSUME NEW q \in 0 .. n - 1, NEW c \in Chans
       PROVE  /\ f.blocks[Place(q, c)].channel = c
              /\ \A j \in 1 .. BlockSize :
                   f.blocks[Place(q, c)].data[j] = Pad <=> q * BlockSize + j > Count(f)
  <2>1. f.blocks[Place(q, c)] =
          [channel |-> c,
           data |-> [k \in 1 .. BlockSize |-> IF q * BlockSize + k <= Count(f)
                                              THEN due[q * BlockSize + k] ELSE Pad]]
    BY <1>3, <1>4 DEF Closed
  <2>2. ASSUME NEW j \in 1 .. BlockSize
        PROVE  f.blocks[Place(q, c)].data[j] = Pad <=> q * BlockSize + j > Count(f)
    <3>1. PICK p \in Nat : p = q * BlockSize + j /\ p > 0
      <4>1. q * BlockSize \in Nat  BY <1>4, InRounds
      <4> QED  BY <4>1
    <3>2. f.blocks[Place(q, c)].data[j] = IF p <= Count(f) THEN due[p] ELSE Pad
      BY <2>1, <3>1
    <3>3. p <= Count(f) => due[p] \in Audio
      <4>1. Count(f) <= Len(due)  BY <1>3 DEF Closed
      <4>2. p <= Count(f) => p \in 1 .. Len(due)  BY <1>3, <3>1, <4>1
      <4> QED  BY <1>3, <4>2
    <3>4. Pad \notin Audio  BY DEF Audio
    <3>5. p <= Count(f) <=> ~(p > Count(f))  BY <1>3, <3>1
    <3> QED  BY <3>1, <3>2, <3>3, <3>4, <3>5
  <2> QED  BY <2>1, <2>2
<1> QED  BY <1>6, <1>7, <1>8, <1>9, <1>10

-----------------------------------------------------------------------------
(* Theorems *)

\* The invariant that the others rest on: what the buffers, the blocks written
\* and the static buffers of dsf.c hold is what the frames up to here demand.
THEOREM DsfInvariant == Spec => []DsfInv
<1>1. Init => DsfInv  BY DsfStart
<1>2. DsfInv /\ [Next]_vars => DsfInv'  BY DsfStep
<1> QED  BY <1>1, <1>2, PTL DEF Spec

\* The state of dsf.c has its types in every run.
THEOREM DsfTypes == Spec => []TypeOK
<1>1. DsfInv => TypeOK  BY DEF DsfInv
<1> QED  BY <1>1, DsfInvariant, PTL

\* While no write fails, each channel of a file holds what is due to it, in
\* order: dsf_write_frame, dsf_close and the buffers kept between two tracks
\* neither lose a byte nor write one twice, whatever the block and frame sizes.
THEOREM SamplesOnce == Spec => []EverySampleOnce
<1>1. DsfInv => EverySampleOnce  BY SamplesFollow
<1> QED  BY <1>1, DsfInvariant, PTL

\* ... and the header that dsf_close writes describes the file as it is.
THEOREM HeadersMatch == Spec => []HeaderMatchesFile
<1>1. DsfInv => HeaderMatchesFile  BY HeaderFollows
<1> QED  BY <1>1, DsfInvariant, PTL

-----------------------------------------------------------------------------
(* The tag of a track (Id3Tag): what its recursive functions compute *)

\* The size of the first k frames, step by step.
LEMMA SizeIs ==
  ASSUME NEW s, Len(s) \in Nat, \A k \in 1 .. Len(s) : s[k].fr_size \in Nat
  PROVE  /\ Id3!SizeUpTo(s, 0) = 0
         /\ \A k \in 1 .. Len(s) : Id3!SizeUpTo(s, k) = Id3!SizeUpTo(s, k - 1) + s[k].fr_size + 10
         /\ \A k \in 0 .. Len(s) : Id3!SizeUpTo(s, k) \in Nat
<1> DEFINE next == [i \in 1 .. Len(s) |-> [v \in Nat |-> v + s[i].fr_size + 10]]
           Is(f) == f = [k \in 0 .. Len(s) |->
                           IF k = 0 THEN 0 ELSE f[k - 1] + s[k].fr_size + Id3!HeaderSize(3)]
<1>0. Id3!HeaderSize(3) = 10  BY DEF Id3!HeaderSize
<1>1. Steps(next, Len(s), Nat)  BY DEF Steps
<1>2. PICK f : Solves(f, Len(s), Nat, 0, next)
  <2> HIDE DEF next
  <2> QED  BY <1>1, Recursion
<1>3. /\ f \in [0 .. Len(s) -> Nat] /\ f[0] = 0
      /\ \A k \in 1 .. Len(s) : f[k] = f[k - 1] + s[k].fr_size + 10
  <2>1. f \in [0 .. Len(s) -> Nat] /\ f[0] = 0 /\ \A k \in 1 .. Len(s) : f[k] = next[k][f[k - 1]]
    BY <1>2 DEF Solves
  <2>2. \A k \in 1 .. Len(s) : k - 1 \in 0 .. Len(s)  OBVIOUS
  <2>3. \A k \in 1 .. Len(s) : \A v \in Nat : next[k][v] = v + s[k].fr_size + 10  OBVIOUS
  <2> HIDE DEF next
  <2> QED  BY <2>1, <2>2, <2>3
<1>4. Is(f)
  <2>1. \A k \in 0 .. Len(s) : f[k] = IF k = 0 THEN 0 ELSE f[k - 1] + s[k].fr_size + Id3!HeaderSize(3)
    BY <1>0, <1>3
  <2> QED  BY <1>3, <2>1
<1>5. PICK g : g = CHOOSE h : Is(h)  OBVIOUS
<1>6. Is(g)  BY <1>4, <1>5
<1>7. \A k \in 0 .. Len(s) : Id3!SizeUpTo(s, k) = g[k]  BY <1>5 DEF Id3!SizeUpTo
<1>8. \A k \in 0 .. Len(s) : g[k] = f[k]
  <2> DEFINE T == {k \in 0 .. Len(s) : g[k] = f[k]}
  <2>1. 0 \in T  BY <1>3, <1>6
  <2>2. \A k \in 1 .. Len(s) : k - 1 \in T => k \in T  BY <1>0, <1>3, <1>6
  <2>3. 0 .. Len(s) \subseteq T
    <3> HIDE DEF T
    <3> QED  BY <2>1, <2>2, Induction
  <2> QED  BY <2>3
<1>9. \A k \in 0 .. Len(s) : Id3!SizeUpTo(s, k) = f[k]  BY <1>7, <1>8
<1>10. ASSUME NEW k \in 1 .. Len(s)
       PROVE  Id3!SizeUpTo(s, k) = Id3!SizeUpTo(s, k - 1) + s[k].fr_size + 10
  <2>1. k \in 0 .. Len(s) /\ k - 1 \in 0 .. Len(s)  OBVIOUS
  <2> QED  BY <1>3, <1>9, <2>1
<1>11. Id3!SizeUpTo(s, 0) = 0 /\ \A k \in 0 .. Len(s) : Id3!SizeUpTo(s, k) \in Nat
  <2>1. 0 \in 0 .. Len(s)  OBVIOUS
  <2> QED  BY <1>3, <1>9, <2>1
<1> QED  BY <1>10, <1>11

\* What is left of a sequence without the elements at some places.
Left(w, out) == {w[i] : i \in (1 .. Len(w)) \ out}

LEMMA WithoutIs ==
  ASSUME NEW V, NEW w \in Seq(V), NEW out
  PROVE  \E f : /\ Id3!Without(w, out) = f[Len(w)] /\ f[0] = <<>>
                /\ \A k \in 0 .. Len(w) : f[k] \in Seq(Left(w, out))
                /\ \A k \in 1 .. Len(w) : f[k] = IF k \in out THEN f[k - 1]
                                                 ELSE Append(f[k - 1], w[k])
<1> DEFINE n == Len(w)
           D == Left(w, out)
           Step(i, v) == IF i \in out THEN v ELSE Append(v, w[i])
           next == [i \in 1 .. n |-> [v \in Seq(D) |-> Step(i, v)]]
           Is(f) == f = [k \in 0 .. n |-> IF k = 0 THEN <<>> ELSE Step(k, f[k - 1])]
<1>0. n \in Nat /\ <<>> \in Seq(D)  OBVIOUS
<1>1. \A i \in 1 .. n, v \in Seq(D) : Step(i, v) \in Seq(D)
  <2> SUFFICES ASSUME NEW i \in 1 .. n, NEW v \in Seq(D), i \notin out PROVE Append(v, w[i]) \in Seq(D)
    OBVIOUS
  <2>1. w[i] \in D  BY DEF Left
  <2> HIDE DEF D
  <2> QED  BY <2>1
<1>3. Steps(next, n, Seq(D))  BY <1>1 DEF Steps
<1>4. PICK f : Solves(f, n, Seq(D), <<>>, next)
  <2> HIDE DEF next, D
  <2> QED  BY <1>0, <1>3, Recursion
<1>5. /\ f \in [0 .. n -> Seq(D)] /\ f[0] = <<>>
      /\ \A k \in 1 .. n : f[k] = Step(k, f[k - 1])
  <2>1. f \in [0 .. n -> Seq(D)] /\ f[0] = <<>> /\ \A k \in 1 .. n : f[k] = next[k][f[k - 1]]
    BY <1>4 DEF Solves
  <2>2. \A k \in 1 .. n : k - 1 \in 0 .. n  BY <1>0
  <2>3. \A k \in 1 .. n : \A v \in Seq(D) : next[k][v] = Step(k, v)  OBVIOUS
  <2> HIDE DEF next, D, Step
  <2> QED  BY <2>1, <2>2, <2>3
<1>6. Is(f)
  <2> HIDE DEF Step, D
  <2>1. \A k \in 0 .. n : f[k] = IF k = 0 THEN <<>> ELSE Step(k, f[k - 1])  BY <1>0, <1>5
  <2> QED  BY <1>5, <2>1
<1>7. PICK g : g = CHOOSE h : Is(h)  OBVIOUS
<1>8. Is(g)
  <2> HIDE DEF Is
  <2> QED  BY <1>6, <1>7
<1>9. Id3!Without(w, out) = g[n]  BY <1>7 DEF Id3!Without
<1>10. \A k \in 0 .. n : g[k] = f[k]
  <2>0. g[0] = <<>> /\ \A k \in 1 .. n : g[k] = Step(k, g[k - 1])
    <3> HIDE DEF Step
    <3>1. \A k \in 0 .. n : g[k] = IF k = 0 THEN <<>> ELSE Step(k, g[k - 1])  BY <1>8
    <3>2. 0 \in 0 .. n /\ \A k \in 1 .. n : k \in 0 .. n /\ k # 0  BY <1>0
    <3> HIDE DEF Is
    <3> QED  BY <3>1, <3>2
  <2> DEFINE T == {k \in 0 .. n : g[k] = f[k]}
  <2>1. 0 \in T  BY <1>0, <1>5, <2>0
  <2>2. \A k \in 1 .. n : k - 1 \in T => k \in T
    <3> HIDE DEF Step, Is
    <3> QED  BY <1>0, <1>5, <2>0
  <2>3. 0 .. n \subseteq T
    <3> HIDE DEF T
    <3> QED  BY <1>0, <2>1, <2>2, Induction
  <2> QED  BY <2>3
<1>11. n \in 0 .. n  BY <1>0
<1>12. Id3!Without(w, out) = f[n]  BY <1>9, <1>10, <1>11
<1>13. \A k \in 0 .. n : f[k] \in Seq(D)
  <2> HIDE DEF D
  <2> QED  BY <1>5
<1> QED  BY <1>5, <1>12, <1>13

LEMMA WithoutSome ==
  ASSUME NEW V, NEW w \in Seq(V), NEW out
  PROVE  /\ Id3!Without(w, out) \in Seq(Left(w, out))
         /\ Id3!Without(w, out) \in Seq(V)
         /\ Len(w) > 0 /\ Len(w) \notin out =>
              LET p == Id3!Without(w, out) IN Len(p) > 0 /\ p[Len(p)] = w[Len(w)]
<1> DEFINE n == Len(w)
           D == Left(w, out)
           p == Id3!Without(w, out)
<1>0. n \in Nat /\ D \subseteq V  BY DEF Left
<1>1. PICK f : /\ p = f[n] /\ \A k \in 0 .. n : f[k] \in Seq(D)
               /\ \A k \in 1 .. n : f[k] = IF k \in out THEN f[k - 1] ELSE Append(f[k - 1], w[k])
  BY WithoutIs
<1>2. p \in Seq(D)
  <2> HIDE DEF D, p
  <2> QED  BY <1>0, <1>1
<1>3. p \in Seq(V)
  <2> HIDE DEF D, p
  <2> QED  BY <1>0, <1>2
<1>4. ASSUME n > 0, n \notin out PROVE Len(p) > 0 /\ p[Len(p)] = w[n]
  <2>1. n \in 1 .. n /\ n - 1 \in 0 .. n  BY <1>0, <1>4
  <2> DEFINE s == f[n - 1]
  <2>2. w[n] \in D  BY <1>0, <1>4, <2>1 DEF Left
  <2>3. s \in Seq(D)
    <3> HIDE DEF D, p
    <3> QED  BY <1>1, <2>1
  <2>4. p = Append(s, w[n])
    <3> HIDE DEF D, p
    <3> QED  BY <1>1, <1>4, <2>1
  <2> HIDE DEF s, D, p
  <2>5. Len(Append(s, w[n])) = Len(s) + 1 /\ Append(s, w[n])[Len(s) + 1] = w[n] /\ Len(s) \in Nat
    BY <2>2, <2>3
  <2> QED  BY <2>4, <2>5
<1> QED  BY <1>2, <1>3, <1>4

\* The frames of a tag are pairs of those wanted that have a text.
LEMMA PresentIs ==
  ASSUME NEW V, NEW w \in Seq(V)
  PROVE  LET p == Id3!Present(w) IN
         /\ p \in Seq(V)
         /\ \A k \in 1 .. Len(p) : p[k][2] # Id3!NoText
         /\ Len(w) > 0 /\ w[Len(w)][2] # Id3!NoText => Len(p) > 0 /\ p[Len(p)] = w[Len(w)]
<1> DEFINE out == {k \in DOMAIN w : w[k][2] = Id3!NoText}
           D == Left(w, out)
           p == Id3!Without(w, out)
<1>1. DOMAIN w = 1 .. Len(w) /\ Id3!Present(w) = p  BY DEF Id3!Present
<1>2. p \in Seq(D) /\ p \in Seq(V)
  <2> HIDE DEF out, p
  <2> QED  BY WithoutSome DEF p
<1>3. \A d \in D : d[2] # Id3!NoText  BY <1>1 DEF Left
<1>4. \A k \in 1 .. Len(p) : p[k] \in D
  <2> HIDE DEF D, p
  <2> QED  BY <1>2
<1>5. Len(w) > 0 /\ w[Len(w)][2] # Id3!NoText => Len(p) > 0 /\ p[Len(p)] = w[Len(w)]
  <2>1. w[Len(w)][2] # Id3!NoText => Len(w) \notin out  OBVIOUS
  <2> HIDE DEF out
  <2> QED  BY <2>1, WithoutSome
<1> QED
  <2> HIDE DEF D, p
  <2> QED  BY <1>1, <1>2, <1>3, <1>4, <1>5

\* What is left of a tag with one more frame.
LEMMA AlteredIs ==
  /\ Id3!Altered(<<>>) = <<>>
  /\ \A V : \A w \in Seq(V), x \in V :
       /\ Id3!Altered(w) \in Seq(V)
       /\ Id3!Altered(Append(w, x)) = IF x.id \in Id3!Discarded THEN Id3!Altered(w)
                                      ELSE Append(Id3!Altered(w), x)
<1> DEFINE out(s) == {k \in DOMAIN s : s[k].id \in Id3!Discarded}
<1>0. Id3!Altered(<<>>) = <<>>
  <2>0. <<>> \in Seq(Nat) /\ Len(<<>>) = 0  OBVIOUS
  <2>1. ASSUME NEW e \in Seq(Nat)
        PROVE  \E f : Id3!Altered(e) = f[Len(e)] /\ f[0] = <<>>
    <3>1. Id3!Altered(e) = Id3!Without(e, out(e))  BY DEF Id3!Altered
    <3> HIDE DEF out
    <3> QED  BY <3>1, WithoutIs
  <2>2. PICK f : Id3!Altered(<<>>) = f[Len(<<>>)] /\ f[0] = <<>>
    <3> HIDE DEF out
    <3> QED  BY <2>0, <2>1
  <2> QED  BY <2>0, <2>2
<1>1. ASSUME NEW V, NEW w \in Seq(V), NEW x \in V
      PROVE  /\ Id3!Altered(w) \in Seq(V)
             /\ Id3!Altered(Append(w, x)) = IF x.id \in Id3!Discarded THEN Id3!Altered(w)
                                            ELSE Append(Id3!Altered(w), x)
  <2> DEFINE y == Append(w, x)
             n == Len(w)
  <2>0. /\ n \in Nat /\ y \in Seq(V) /\ Len(y) = n + 1 /\ y[n + 1] = x
        /\ \A k \in 1 .. n : y[k] = w[k]
        /\ DOMAIN w = 1 .. n /\ DOMAIN y = 1 .. n + 1
    OBVIOUS
  <2>1. /\ \A k \in 1 .. n : k \in out(y) <=> k \in out(w)
        /\ n + 1 \in out(y) <=> x.id \in Id3!Discarded
    <3> HIDE DEF y, n
    <3>1. \A k \in 1 .. n : k \in 1 .. n + 1  BY <2>0
    <3> QED  BY <2>0, <3>1
  <2> HIDE DEF y, n, out
  <2>2. PICK f : /\ Id3!Without(w, out(w)) = f[n] /\ f[0] = <<>>
                 /\ \A k \in 1 .. n : f[k] = IF k \in out(w) THEN f[k - 1] ELSE Append(f[k - 1], w[k])
    BY WithoutIs DEF n
  <2>3. PICK g : /\ Id3!Without(y, out(y)) = g[n + 1] /\ g[0] = <<>>
                 /\ \A k \in 1 .. n + 1 : g[k] = IF k \in out(y) THEN g[k - 1] ELSE Append(g[k - 1], y[k])
    BY <2>0, WithoutIs
  <2>4. \A k \in 0 .. n : g[k] = f[k]
    <3> DEFINE T == {k \in 0 .. n : g[k] = f[k]}
    <3>1. 0 \in T  BY <2>0, <2>2, <2>3
    <3>2. ASSUME NEW k \in 1 .. n, k - 1 \in T PROVE k \in T
      <4>1. k \in 1 .. n + 1 /\ k \in 0 .. n  BY <2>0
      <4>2. g[k] = IF k \in out(y) THEN g[k - 1] ELSE Append(g[k - 1], y[k])  BY <2>3, <4>1
      <4>3. f[k] = IF k \in out(w) THEN f[k - 1] ELSE Append(f[k - 1], w[k])  BY <2>2
      <4>4. g[k - 1] = f[k - 1] /\ y[k] = w[k] /\ (k \in out(y) <=> k \in out(w))  BY <2>0, <2>1, <3>2
      <4> QED  BY <4>1, <4>2, <4>3, <4>4
    <3>3. 0 .. n \subseteq T
      <4> HIDE DEF T
      <4> QED  BY <2>0, <3>1, <3>2, Induction
    <3> QED  BY <3>3
  <2>5. n + 1 \in 1 .. n + 1 /\ n \in 0 .. n /\ n + 1 - 1 = n  BY <2>0
  <2>6. g[n + 1] = IF x.id \in Id3!Discarded THEN f[n] ELSE Append(f[n], x)
    BY <2>0, <2>1, <2>3, <2>4, <2>5
  <2>7. Id3!Altered(w) = f[n] /\ Id3!Altered(y) = g[n + 1]
    <3> USE DEF out
    <3> QED  BY <2>2, <2>3 DEF Id3!Altered
  <2>8. Id3!Altered(w) \in Seq(V)
    <3>1. Id3!Without(w, out(w)) \in Seq(V)  BY WithoutSome
    <3> QED  BY <2>2, <2>7, <3>1
  <2> QED  BY <2>6, <2>7, <2>8 DEF y
<1> QED  BY <1>0, <1>1

-----------------------------------------------------------------------------
(* The sizes *)

\* A size below 2^14 is read as it was written.
LEMMA SizeReadsBack ==
  ASSUME NEW n \in Nat, n < 16384
  PROVE  /\ Id3!GetSize28(Id3!SetSize28(n)) = n
         /\ \A v \in {3, 4} : Id3!FrameSize(v, Id3!FrameSizeBytes(v, n)) = n
<1> DEFINE q == n \div 128
           e == n \div 256
<1>1. /\ n \div (128 * 256 * 256) = 0 /\ n \div (256 * 256 * 256) = 0
      /\ n \div (128 * 256) = 0 /\ n \div (256 * 256) = 0 /\ n \div 1 = n
      /\ q \in 0 .. 127 /\ e \in 0 .. 63 /\ q % 2 \in {0, 1} /\ q = (q % 2) + 2 * e
      /\ n = 128 * q + (n % 128) /\ n % 128 \in 0 .. 127 /\ n = 256 * e + (n % 256) /\ n % 256 \in 0 .. 255
  <2>1. ASSUME NEW m \in Nat, n < m PROVE n \div m = 0
    <3>1. n = m * 0 + n  OBVIOUS
    <3> QED  BY <2>1, <3>1
  <2>2. /\ 128 * 256 \in Nat /\ n < 128 * 256 /\ 256 * 256 \in Nat /\ n < 256 * 256
        /\ 128 * 256 * 256 \in Nat /\ n < 128 * 256 * 256
        /\ 256 * 256 * 256 \in Nat /\ n < 256 * 256 * 256
    OBVIOUS
  <2>3. n = 128 * q + (n % 128) /\ n % 128 \in 0 .. 127 /\ q \in 0 .. 127  OBVIOUS
  <2>4. n = 256 * e + (n % 256) /\ n % 256 \in 0 .. 255 /\ e \in 0 .. 63  OBVIOUS
  <2>5. q % 2 \in {0, 1} /\ q = (q % 2) + 2 * e
    <3>1. PICK m \in Nat : m = q \div 2 /\ q = 2 * m + (q % 2) /\ q % 2 \in {0, 1}  BY <2>3
    <3>2. m = e  BY <2>3, <2>4, <3>1
    <3> QED  BY <3>1, <3>2
  <2>6. n \div 1 = n  OBVIOUS
  <2> HIDE DEF q, e
  <2> QED  BY <2>1, <2>2, <2>3, <2>4, <2>5, <2>6
<1>2. Id3!SetSize28(n) = <<0, 0, q, n % 128>>
  BY <1>1 DEF Id3!SetSize28, Id3!Bits
<1>3. Id3!SetSize32(n) = <<0, 0, e, n % 256>>
  BY <1>1 DEF Id3!SetSize32, Id3!Bits
<1>4. Id3!GetSize28(<<0, 0, q, n % 128>>) = n
  <2>1. q % 128 = q /\ (n % 128) % 128 = n % 128 /\ 0 % 128 = 0  BY <1>1
  <2> QED  BY <1>1, <2>1 DEF Id3!GetSize28
<1>5. Id3!GetSize32(<<0, 0, e, n % 256>>) = n
  BY <1>1 DEF Id3!GetSize32
<1> QED  BY <1>2, <1>3, <1>4, <1>5 DEF Id3!FrameSize, Id3!FrameSizeBytes

\* The size in four bytes is a number.
LEMMA SizesAreNumbers ==
  ASSUME NEW b \in Id3!Bytes4
  PROVE  /\ Id3!GetSize28(b) \in Nat
         /\ \A v : Id3!FrameSize(v, b) \in Nat
<1>1. b[1] \in Nat /\ b[2] \in Nat /\ b[3] \in Nat /\ b[4] \in Nat
  BY DEF Id3!Bytes4
<1>2. Id3!GetSize28(b) \in Nat  BY <1>1 DEF Id3!GetSize28
<1>3. Id3!GetSize32(b) \in Nat  BY <1>1 DEF Id3!GetSize32
<1> QED  BY <1>2, <1>3 DEF Id3!FrameSize

\* Each frame takes its header at least.
LEMMA SizesGrow ==
  ASSUME NEW s, Len(s) \in Nat, \A k \in 1 .. Len(s) : s[k].fr_size \in Nat,
         NEW i \in 0 .. Len(s), NEW j \in i + 1 .. Len(s)
  PROVE  Id3!SizeUpTo(s, i) + 10 <= Id3!SizeUpTo(s, j)
<1> DEFINE size(k) == Id3!SizeUpTo(s, k)
           T == {d \in 0 .. Len(s) : i + d <= Len(s) /\ d > 0 => size(i) + 10 <= size(i + d)}
<1>1. /\ \A k \in 1 .. Len(s) : size(k) = size(k - 1) + s[k].fr_size + 10
      /\ \A k \in 0 .. Len(s) : size(k) \in Nat
  BY SizeIs
<1> HIDE DEF size
<1>2. 0 \in T  OBVIOUS
<1>3. ASSUME NEW d \in 1 .. Len(s), d - 1 \in T PROVE d \in T
  <2> SUFFICES ASSUME i + d <= Len(s) PROVE size(i) + 10 <= size(i + d)
    OBVIOUS
  <2>1. i + d \in 1 .. Len(s) /\ i + d - 1 \in 0 .. Len(s) /\ i + d \in 0 .. Len(s) /\ i + (d - 1) = i + d - 1
    OBVIOUS
  <2>2. size(i + d) = size(i + d - 1) + s[i + d].fr_size + 10  BY <1>1, <2>1
  <2>3. size(i) \in Nat /\ size(i + d - 1) \in Nat /\ s[i + d].fr_size \in Nat  BY <1>1, <2>1
  <2>4. d = 1 \/ d - 1 > 0  OBVIOUS
  <2>5. CASE d = 1  BY <2>2, <2>3, <2>5
  <2>6. CASE d - 1 > 0
    <3>1. size(i) + 10 <= size(i + d - 1)  BY <1>3, <2>1, <2>6
    <3>2. size(i + d) \in Nat  BY <1>1, <2>1
    <3> QED  BY <2>2, <2>3, <3>1, <3>2
  <2> QED  BY <2>4, <2>5, <2>6
<1>4. 0 .. Len(s) \subseteq T
  <2> HIDE DEF T
  <2> QED  BY <1>2, <1>3, Induction
<1>5. j - i \in 0 .. Len(s) /\ i + (j - i) = j /\ j - i > 0  OBVIOUS
<1>6. j - i \in T  BY <1>4, <1>5
<1> QED  BY <1>5, <1>6 DEF size

\* The first frames of a list.
LEMMA FirstFrames ==
  ASSUME NEW V, NEW s \in Seq(V)
  PROVE  /\ SubSeq(s, 1, 0) = <<>> /\ SubSeq(s, 1, Len(s)) = s
         /\ \A n \in 0 .. Len(s) : Len(SubSeq(s, 1, n)) = n
         /\ \A n \in 0 .. Len(s) - 1 : Append(SubSeq(s, 1, n), s[n + 1]) = SubSeq(s, 1, n + 1)
<1>1. SubSeq(s, 1, 0) = <<>> /\ SubSeq(s, 1, Len(s)) = s  OBVIOUS
<1>2. \A n \in 0 .. Len(s) : SubSeq(s, 1, n) \in Seq(V) /\ Len(SubSeq(s, 1, n)) = n
                             /\ \A k \in 1 .. n : SubSeq(s, 1, n)[k] = s[k]
  OBVIOUS
<1>3. ASSUME NEW n \in 0 .. Len(s) - 1
      PROVE  Append(SubSeq(s, 1, n), s[n + 1]) = SubSeq(s, 1, n + 1)
  <2> DEFINE a == SubSeq(s, 1, n)
             b == SubSeq(s, 1, n + 1)
             c == Append(a, s[n + 1])
  <2>1. n \in 0 .. Len(s) /\ n + 1 \in 0 .. Len(s) /\ s[n + 1] \in V /\ n \in Nat  OBVIOUS
  <2>2. /\ a \in Seq(V) /\ Len(a) = n /\ \A k \in 1 .. n : a[k] = s[k]
        /\ b \in Seq(V) /\ Len(b) = n + 1 /\ \A k \in 1 .. n + 1 : b[k] = s[k]
    BY <1>2, <2>1
  <2> HIDE DEF a, b
  <2>3. c \in Seq(V) /\ Len(c) = n + 1 /\ \A k \in 1 .. n + 1 : c[k] = s[k]
    BY <2>1, <2>2
  <2> HIDE DEF c
  <2>4. c = b  BY <2>1, <2>2, <2>3
  <2> QED  BY <2>4 DEF a, b, c
<1> QED  BY <1>1, <1>2, <1>3

-----------------------------------------------------------------------------
(* The frames that a track gets *)

\* The first text is one of them, or none.
LEMMA FirstIs ==
  ASSUME NEW V, NEW s \in Seq(V)
  PROVE  Id3!FirstOf(s) \in V \cup {Id3!NoText}
<1> DEFINE P == {i \in DOMAIN s : s[i] # Id3!NoText}
<1>1. CASE P = {}  BY <1>1 DEF Id3!FirstOf
<1>2. CASE P # {}
  <2>1. P \in SUBSET Nat /\ \A i \in P : s[i] \in V  OBVIOUS
  <2>2. \E i \in P : \A j \in P : i <= j
    <3> HIDE DEF P
    <3> QED  BY <1>2, <2>1, LeastElement
  <2>3. Id3!Min(P) \in P
    <3> HIDE DEF P
    <3> QED  BY <2>2 DEF Id3!Min
  <2>4. Id3!FirstOf(s) = s[Id3!Min(P)]  BY <1>2 DEF Id3!FirstOf
  <2> QED  BY <2>1, <2>3, <2>4
<1> QED  BY <1>1, <1>2

\* The texts of a tag, and the frames of the minimal ones.
Shown == {text[f] : f \in Id3!Fields}
           \cup {Id3!NoText, Id3!Made("isrc", 12), Id3!Made("disc", 3), Id3!Made("genre", 5),
                 Id3!Made("year", 4), Id3!Made("day", 4), Id3!Made("track", 4)}
MinimalIds == {"TIT2", "TALB", "TPE1", "TRCK"}
Ids == IF Id3!Minimal(id3_tag_mode) THEN MinimalIds ELSE Id3!Known \ Id3!Discarded

LEMMA WantedIs ==
  LET w == Id3!Wanted(id3_tag_mode)
  IN  /\ w \in Seq(Ids \X Shown)
      /\ Len(w) > 0 /\ w[Len(w)] = <<"TRCK", Id3!Made("track", 4)>>
<1> DEFINE V == Ids \X Shown
           w == Id3!Wanted(id3_tag_mode)
           named == IF id3_tag_mode = 2 THEN text["track_title"]
                    ELSE Id3!FirstOf(<<text["track_title"], Id3!AlbumTitle>>)
           always == <<<<"TIT2", named>>, <<"TALB", Id3!AlbumTitle>>, <<"TPE1", Id3!TrackArtist>>>>
           more   == <<<<"TPE2", text["album_artist"]>>, <<"TXXX", text["performer"]>>,
                       <<"TCOM", text["composer"]>>, <<"TSRC", Id3!Made("isrc", 12)>>,
                       <<"TPUB", text["album_publisher"]>>, <<"TCOP", text["album_copyright"]>>,
                       <<"TPOS", Id3!Made("disc", 3)>>, <<"TCON", Id3!Made("genre", 5)>>,
                       <<"TYER", Id3!Made("year", 4)>>, <<"TDAT", Id3!Made("day", 4)>>>>
           middle == IF Id3!Minimal(id3_tag_mode) THEN <<>> ELSE more
           last   == <<<<"TRCK", Id3!Made("track", 4)>>>>
<1>0. w = always \o middle \o last  BY DEF Id3!Wanted
<1>1. /\ \A f \in Id3!Fields : text[f] \in Shown
      /\ Id3!NoText \in Shown /\ Id3!Made("isrc", 12) \in Shown /\ Id3!Made("disc", 3) \in Shown
      /\ Id3!Made("genre", 5) \in Shown /\ Id3!Made("year", 4) \in Shown
      /\ Id3!Made("day", 4) \in Shown /\ Id3!Made("track", 4) \in Shown
  BY DEF Shown
<1>2. {"track_title", "album_title", "album_title_phonetic", "disc_title", "disc_title_phonetic",
       "performer", "disc_artist", "disc_artist_phonetic", "album_artist", "album_artist_phonetic",
       "composer", "album_publisher", "album_copyright"} \subseteq Id3!Fields
  BY DEF Id3!Fields
<1>3. \A s \in Seq(Shown) : Id3!FirstOf(s) \in Shown
  <2> TAKE s \in Seq(Shown)
  <2>1. Id3!FirstOf(s) \in Shown \cup {Id3!NoText}  BY FirstIs
  <2> QED  BY <1>1, <2>1
<1>4. Id3!AlbumTitle \in Shown /\ Id3!TrackArtist \in Shown
  <2>1. /\ text["album_title"] \in Shown /\ text["album_title_phonetic"] \in Shown
        /\ text["disc_title"] \in Shown /\ text["disc_title_phonetic"] \in Shown
        /\ text["performer"] \in Shown /\ text["disc_artist"] \in Shown
        /\ text["disc_artist_phonetic"] \in Shown /\ text["album_artist"] \in Shown
        /\ text["album_artist_phonetic"] \in Shown
    BY <1>1, <1>2
  <2>2. <<text["album_title"], text["album_title_phonetic"], text["disc_title"],
          text["disc_title_phonetic"]>> \in Seq(Shown)
    BY <2>1
  <2>3. <<text["performer"], text["disc_artist"], text["disc_artist_phonetic"],
          text["album_artist"], text["album_artist_phonetic"]>> \in Seq(Shown)
    BY <2>1
  <2> QED  BY <1>3, <2>2, <2>3 DEF Id3!AlbumTitle, Id3!TrackArtist
<1>5. named \in Shown
  <2>1. text["track_title"] \in Shown  BY <1>1, <1>2
  <2>2. <<text["track_title"], Id3!AlbumTitle>> \in Seq(Shown)  BY <1>4, <2>1
  <2> QED  BY <1>3, <2>1, <2>2
<1>6. MinimalIds \subseteq Ids
  BY DEF MinimalIds, Ids, Id3!Known, Id3!Discarded
<1>7. always \in Seq(V) /\ last \in Seq(V) /\ Len(last) = 1 /\ last[1] = <<"TRCK", Id3!Made("track", 4)>>
  <2> HIDE DEF named
  <2>1. "TIT2" \in Ids /\ "TALB" \in Ids /\ "TPE1" \in Ids /\ "TRCK" \in Ids  BY <1>6 DEF MinimalIds
  <2>2. <<"TIT2", named>> \in V /\ <<"TALB", Id3!AlbumTitle>> \in V /\ <<"TPE1", Id3!TrackArtist>> \in V
        /\ <<"TRCK", Id3!Made("track", 4)>> \in V
    BY <1>1, <1>4, <1>5, <2>1
  <2> HIDE DEF V
  <2> QED  BY <2>2
<1>8. middle \in Seq(V)
  <2>1. CASE Id3!Minimal(id3_tag_mode)  BY <2>1
  <2>2. CASE ~Id3!Minimal(id3_tag_mode)
    <3>1. {"TPE2", "TXXX", "TCOM", "TSRC", "TPUB", "TCOP", "TPOS", "TCON", "TYER", "TDAT"} \subseteq Ids
      BY <2>2 DEF Ids, Id3!Known, Id3!Discarded
    <3>2. text["album_artist"] \in Shown /\ text["performer"] \in Shown /\ text["composer"] \in Shown
          /\ text["album_publisher"] \in Shown /\ text["album_copyright"] \in Shown
      BY <1>1, <1>2
    <3>3. /\ <<"TPE2", text["album_artist"]>> \in V /\ <<"TXXX", text["performer"]>> \in V
          /\ <<"TCOM", text["composer"]>> \in V /\ <<"TSRC", Id3!Made("isrc", 12)>> \in V
          /\ <<"TPUB", text["album_publisher"]>> \in V /\ <<"TCOP", text["album_copyright"]>> \in V
          /\ <<"TPOS", Id3!Made("disc", 3)>> \in V /\ <<"TCON", Id3!Made("genre", 5)>> \in V
          /\ <<"TYER", Id3!Made("year", 4)>> \in V /\ <<"TDAT", Id3!Made("day", 4)>> \in V
      BY <1>1, <3>1, <3>2
    <3>4. more \in Seq(V)
      <4> HIDE DEF V
      <4> QED  BY <3>3
    <3> QED  BY <2>2, <3>4
  <2> QED  BY <2>1, <2>2
<1>9. w \in Seq(V) /\ Len(w) > 0 /\ w[Len(w)] = <<"TRCK", Id3!Made("track", 4)>>
  <2>1. ASSUME NEW X, NEW a \in Seq(X), NEW b \in Seq(X), NEW c \in Seq(X), Len(c) = 1
        PROVE  /\ a \o b \o c \in Seq(X)
               /\ Len(a \o b \o c) > 0 /\ (a \o b \o c)[Len(a \o b \o c)] = c[1]
    <3>1. PICK d : d = a \o b  OBVIOUS
    <3>2. d \in Seq(X) /\ Len(d) \in Nat  BY <3>1
    <3>3. PICK e : e = d \o c  OBVIOUS
    <3>4. /\ e \in Seq(X) /\ Len(e) = Len(d) + Len(c)
          /\ \A i \in 1 .. Len(d) + Len(c) : e[i] = IF i <= Len(d) THEN d[i] ELSE c[i - Len(d)]
      BY <3>2, <3>3, ConcatProperties
    <3>5. Len(d) + 1 \in 1 .. Len(d) + Len(c) /\ ~(Len(d) + 1 <= Len(d)) /\ Len(d) + 1 - Len(d) = 1
          /\ Len(d) + 1 > 0
      BY <2>1, <3>2
    <3>6. e[Len(d) + 1] = c[1] /\ Len(e) = Len(d) + 1
      BY <2>1, <3>4, <3>5
    <3> QED  BY <3>1, <3>3, <3>4, <3>5, <3>6
  <2> HIDE DEF always, middle, last, V, w
  <2> QED  BY <1>0, <1>7, <1>8, <2>1
<1> QED  BY <1>9

\* Each frame to be rendered has a text, the last one the number of the track.
LEMMA PlanIs ==
  /\ Id3!Plan \in Seq(Ids \X Shown)
  /\ \A k \in 1 .. Len(Id3!Plan) : Id3!Plan[k][2] # Id3!NoText
  /\ Len(Id3!Plan) > 0 /\ Id3!Plan[Len(Id3!Plan)] = <<"TRCK", Id3!Made("track", 4)>>
<1> DEFINE V == Ids \X Shown
           w == Id3!Wanted(id3_tag_mode)
<1>1. /\ w \in Seq(V) /\ Len(w) > 0 /\ w[Len(w)] = <<"TRCK", Id3!Made("track", 4)>>
  BY WantedIs
<1>2. w[Len(w)][2] # Id3!NoText
  <2>1. Id3!NoText = <<"NULL">> /\ Id3!Made("track", 4) = <<"track", 4, 4>>
    BY DEF Id3!NoText, Id3!Made
  <2>2. "NULL" # "track"  OBVIOUS
  <2>3. <<"NULL">>[1] = "NULL" /\ <<"track", 4, 4>>[1] = "track"  OBVIOUS
  <2>4. w[Len(w)][2] = <<"track", 4, 4>>  BY <1>1, <2>1
  <2> HIDE DEF w
  <2> QED  BY <2>1, <2>2, <2>3, <2>4
<1>3. LET p == Id3!Present(w) IN
      /\ p \in Seq(V)
      /\ \A k \in 1 .. Len(p) : p[k][2] # Id3!NoText
      /\ Len(w) > 0 /\ w[Len(w)][2] # Id3!NoText => Len(p) > 0 /\ p[Len(p)] = w[Len(w)]
  <2> HIDE DEF V, w
  <2> QED  BY <1>1, PresentIs
<1>4. Id3!Plan = Id3!Present(w)  BY DEF Id3!Plan
<1>5. /\ Id3!Plan \in Seq(V) /\ \A k \in 1 .. Len(Id3!Plan) : Id3!Plan[k][2] # Id3!NoText
      /\ Len(Id3!Plan) > 0 /\ Id3!Plan[Len(Id3!Plan)] = <<"TRCK", Id3!Made("track", 4)>>
  <2> HIDE DEF V, w
  <2> QED  BY <1>1, <1>2, <1>3, <1>4
<1> QED  BY <1>5

\* What is assumed of the texts.
LEMMA TextsAre ==
  ASSUME text \in DiscTexts
  PROVE  \A t \in Shown : t # Id3!NoText => t[2] \in Nat /\ t[3] \in Nat /\ t[2] <= t[3]
<1>1. \A f \in Id3!Fields : Id3!IsText(text[f])
  BY TagNumbers DEF Id3!Numbers
<1>2. \A f \in Id3!Fields : text[f] # Id3!NoText =>
        text[f][2] \in Nat /\ text[f][3] \in Nat /\ text[f][2] <= text[f][3]
  BY <1>1 DEF Id3!IsText
<1>3. \A name : \A n \in Nat :
        LET t == Id3!Made(name, n) IN t[2] \in Nat /\ t[3] \in Nat /\ t[2] <= t[3]
  BY DEF Id3!Made
<1>4. SUFFICES ASSUME NEW t \in Shown, t # Id3!NoText
               PROVE  t[2] \in Nat /\ t[3] \in Nat /\ t[2] <= t[3]
  OBVIOUS
<1>5. \/ \E f \in Id3!Fields : t = text[f]
      \/ t \in {Id3!Made("isrc", 12), Id3!Made("disc", 3), Id3!Made("genre", 5),
                Id3!Made("year", 4), Id3!Made("day", 4), Id3!Made("track", 4)}
  BY <1>4 DEF Shown
<1> QED  BY <1>2, <1>3, <1>4, <1>5

\* What a text frame holds, and that it has room for it.
LEMMA TextFits ==
  ASSUME id3_tag_mode \in 0 .. 5, NEW id \in Id3!Known, NEW t,
         t[2] \in Nat, t[3] \in Nat, t[2] <= t[3]
  PROVE  LET f == Id3!TextFrame(id, t) IN
         /\ f = [id |-> id, fr_size |-> f.fr_size, data |-> f.data]
         /\ f.id = id /\ f.fr_size \in Nat
         /\ f.data # Id3!NoText => f.fr_size >= Id3!Used(f.id, f.data[1], f.data[2])
<1> DEFINE e == Id3!Encoding(id)
           f == Id3!TextFrame(id, t)
           d == Id3!Description(id)
<1>1. /\ f.id = id /\ f.fr_size = Id3!RawSize(id, e, t[3])
      /\ f.data = IF e = "none" THEN Id3!NoText ELSE <<e, t>>
      /\ f = [id |-> id, fr_size |-> f.fr_size, data |-> f.data]
  BY DEF Id3!TextFrame, Id3!Frame
<1>2. /\ e \in {"none", "UTF-8", "UTF-16", "ISO-8859-1"}
      /\ (id = "TXXX") => d = 9
      /\ (id # "TXXX") => d = 0
  BY DEF Id3!Encoding, Id3!Description
<1> HIDE DEF e, d, f
<1>3. f.fr_size \in Nat
  BY <1>1, <1>2 DEF Id3!RawSize, d
<1>4. ASSUME e # "none" PROVE f.fr_size >= Id3!Used(id, e, t)
  <2>1. CASE e = "UTF-16"
    <3>1. f.fr_size = 2 * (d + t[3]) + (IF id = "TXXX" THEN 9 ELSE 5)
      BY <1>1, <2>1 DEF Id3!RawSize, d
    <3>2. Id3!Used(id, e, t) = 1 + 2 + 2 * (t[2] + 1) + (IF id = "TXXX" THEN 2 + 2 * (d + 1) ELSE 0)
      BY <2>1 DEF Id3!Used, d
    <3> QED  BY <1>2, <3>1, <3>2
  <2>2. CASE e # "UTF-16"
    <3>1. f.fr_size = d + t[3] + (IF id = "TXXX" THEN 3 ELSE 2)
      BY <1>1, <1>4, <2>2 DEF Id3!RawSize, d
    <3>2. PICK long \in Nat : long <= t[3] /\ long = IF e = "UTF-8" THEN t[3] ELSE t[2]
      OBVIOUS
    <3>3. Id3!Used(id, e, t) = 1 + 0 + 1 * (long + 1) + (IF id = "TXXX" THEN 0 + 1 * (d + 1) ELSE 0)
      BY <2>2, <3>2 DEF Id3!Used, d
    <3> QED  BY <1>2, <3>1, <3>2, <3>3
  <2> QED  BY <2>1, <2>2
<1>5. f.data # Id3!NoText => f.data[1] = e /\ f.data[2] = t /\ e # "none"
  BY <1>1
<1> QED  BY <1>1, <1>3, <1>4, <1>5 DEF f

\* What is rendered: a list of frames, each with room for its text.
LEMMA RenderedIs ==
  ASSUME id3_tag_mode \in 0 .. 5, text \in DiscTexts
  PROVE  /\ Len(Id3!Rendered) = Len(Id3!Plan) /\ Len(Id3!Plan) \in Nat
         /\ Id3!Rendered \in Seq({Id3!Rendered[k] : k \in 1 .. Len(Id3!Plan)})
         /\ \A k \in 1 .. Len(Id3!Plan) :
              LET f == Id3!Rendered[k] IN
              /\ f = Id3!TextFrame(Id3!Plan[k][1], Id3!Plan[k][2])
              /\ f = [id |-> f.id, fr_size |-> f.fr_size, data |-> f.data]
              /\ f.id \in Ids /\ f.fr_size \in Nat
              /\ f.data # Id3!NoText => f.fr_size >= Id3!Used(f.id, f.data[1], f.data[2])
         /\ Len(Id3!Plan) > 0 /\ Id3!Rendered[Len(Id3!Plan)].id = "TRCK"
<1> DEFINE n == Len(Id3!Plan)
           R == Id3!Rendered
           p(k) == Id3!Plan[k]
<1>1. n \in Nat /\ DOMAIN Id3!Plan = 1 .. n /\ n > 0 /\ p(n) = <<"TRCK", Id3!Made("track", 4)>>
      /\ \A k \in 1 .. n : p(k) \in Ids \X Shown /\ p(k)[2] # Id3!NoText
  BY PlanIs
<1>2. R = [k \in 1 .. n |-> Id3!TextFrame(p(k)[1], p(k)[2])]
  BY <1>1 DEF Id3!Rendered
<1>3. Ids \subseteq Id3!Known
  BY DEF Ids, MinimalIds, Id3!Known
<1> HIDE DEF R
<1>4. ASSUME NEW k \in 1 .. n
      PROVE  LET f == R[k] IN
             /\ f = Id3!TextFrame(p(k)[1], p(k)[2])
             /\ f = [id |-> f.id, fr_size |-> f.fr_size, data |-> f.data]
             /\ f.id = p(k)[1] /\ f.id \in Ids /\ f.fr_size \in Nat
             /\ f.data # Id3!NoText => f.fr_size >= Id3!Used(f.id, f.data[1], f.data[2])
  <2>1. p(k)[1] \in Ids /\ p(k)[2] \in Shown /\ p(k)[2] # Id3!NoText  BY <1>1
  <2>2. p(k)[2][2] \in Nat /\ p(k)[2][3] \in Nat /\ p(k)[2][2] <= p(k)[2][3]  BY <2>1, TextsAre
  <2>3. R[k] = Id3!TextFrame(p(k)[1], p(k)[2])  BY <1>2
  <2> HIDE DEF p
  <2>4. PICK i, t : i = p(k)[1] /\ t = p(k)[2]  OBVIOUS
  <2>5. LET f == Id3!TextFrame(i, t) IN
         /\ f = [id |-> i, fr_size |-> f.fr_size, data |-> f.data]
         /\ f.id = i /\ f.fr_size \in Nat
         /\ f.data # Id3!NoText => f.fr_size >= Id3!Used(f.id, f.data[1], f.data[2])
    BY <1>3, <2>1, <2>2, <2>4, TextFits
  <2> QED  BY <2>1, <2>3, <2>4, <2>5
<1>5. R \in Seq({R[k] : k \in 1 .. n}) /\ Len(R) = n
  <2>1. DOMAIN R = 1 .. n /\ R = [k \in 1 .. n |-> R[k]]  BY <1>2
  <2>2. PICK S : S = {R[k] : k \in 1 .. n}  OBVIOUS
  <2>3. \A k \in 1 .. n : R[k] \in S  BY <2>2
  <2>4. R \in [1 .. n -> S]  BY <2>1, <2>3
  <2>5. R \in Seq(S) /\ Len(R) = n  BY <1>1, <2>4
  <2> QED  BY <2>2, <2>5
<1>6. n \in 1 .. n /\ R[n].id = "TRCK"
  <2>1. n \in 1 .. n  BY <1>1
  <2>2. R[n].id = p(n)[1]  BY <1>4, <2>1
  <2> QED  BY <1>1, <2>1, <2>2
<1> QED  BY <1>1, <1>4, <1>5, <1>6 DEF R

\* The first frames of what is rendered.
LEMMA FirstRendered ==
  ASSUME id3_tag_mode \in 0 .. 5, text \in DiscTexts
  PROVE  /\ SubSeq(Id3!Rendered, 1, 0) = <<>>
         /\ SubSeq(Id3!Rendered, 1, Len(Id3!Plan)) = Id3!Rendered
         /\ \A n \in 0 .. Len(Id3!Plan) : Len(SubSeq(Id3!Rendered, 1, n)) = n
         /\ \A n \in 0 .. Len(Id3!Plan) - 1 :
              Append(SubSeq(Id3!Rendered, 1, n), Id3!Rendered[n + 1]) = SubSeq(Id3!Rendered, 1, n + 1)
<1>1. PICK V : V = {Id3!Rendered[k] : k \in 1 .. Len(Id3!Plan)}  OBVIOUS
<1>2. Id3!Rendered \in Seq(V) /\ Len(Id3!Rendered) = Len(Id3!Plan)  BY <1>1, RenderedIs
<1> QED  BY <1>2, FirstFrames

-----------------------------------------------------------------------------
(* A step of the tag of a track *)

LEMMA SameCardinality == \A S : Id3!Cardinality(S) = Cardinality(S)
BY DEF Id3!Cardinality, Cardinality

LEMMA SamePlan ==
  ASSUME id3_tag_mode' = id3_tag_mode, text' = text
  PROVE  Id3!Plan' = Id3!Plan /\ Id3!Rendered' = Id3!Rendered /\ Id3!Version' = Id3!Version
         /\ Id3!Small' = Id3!Small
<1>1. Id3!Plan' = Id3!Plan
  BY DEF Id3!Plan, Id3!Wanted, Id3!AlbumTitle, Id3!TrackArtist
<1>2. Id3!Rendered' = Id3!Rendered
  BY <1>1 DEF Id3!Rendered, Id3!TextFrame, Id3!Encoding
<1>3. Id3!Version' = Id3!Version
  BY DEF Id3!Version
<1>4. Id3!Small' = Id3!Small
  BY <1>2 DEF Id3!Small, Id3!FramesSize
<1> QED  BY <1>1, <1>2, <1>3, <1>4

LEMMA ConstantTexts ==
  ASSUME [Id3!Next]_(Id3!vars)
  PROVE  id3_tag_mode' = id3_tag_mode /\ text' = text /\ source' = source
BY DEF Id3!Next, Id3!vars, Id3!Create, Id3!AddFrame, Id3!WriteTag, Id3!OpenTag, Id3!OpenFails,
       Id3!FrameFails, Id3!SkipPadding, Id3!ReadFrame, Id3!ReadEnds, Id3!AlterFile, Id3!Ended,
       Id3!Rejected

\* The first frame at a place is the one that is read there.
LEMMA HereIs ==
  ASSUME NEW N \in Nat, DOMAIN id3_buffer.frames = 1 .. N
  PROVE  /\ \A m \in 1 .. N :
              /\ id3_buffer.frames[m].at = id3_pos
              /\ \A j \in 1 .. m - 1 : id3_buffer.frames[j].at # id3_pos
              => Id3!Here = id3_buffer.frames[m]
         /\ (\A j \in 1 .. N : id3_buffer.frames[j].at # id3_pos) => Id3!Here.id = "padding"
<1> DEFINE found == {k \in DOMAIN id3_buffer.frames : id3_buffer.frames[k].at = id3_pos}
<1>1. ASSUME NEW m \in 1 .. N, id3_buffer.frames[m].at = id3_pos,
             \A j \in 1 .. m - 1 : id3_buffer.frames[j].at # id3_pos
      PROVE  Id3!Here = id3_buffer.frames[m]
  <2>1. m \in found /\ \A k \in found : k \in Nat /\ m <= k
    <3>1. m \in found  BY <1>1
    <3>2. ASSUME NEW k \in found PROVE k \in Nat /\ m <= k
      <4>1. k \in 1 .. N /\ id3_buffer.frames[k].at = id3_pos  OBVIOUS
      <4>2. k \notin 1 .. m - 1  BY <1>1, <4>1
      <4> QED  BY <4>1, <4>2
    <3> QED  BY <3>1, <3>2
  <2>2. Id3!Min(found) = m
    <3>1. \E x \in found : \A y \in found : x =< y  BY <2>1
    <3>2. PICK x : x = Id3!Min(found) /\ x \in found /\ \A y \in found : x =< y
      <4> HIDE DEF found
      <4> QED  BY <3>1 DEF Id3!Min
    <3> HIDE DEF found
    <3>3. x <= m /\ m <= x /\ x \in Nat /\ m \in Nat  BY <2>1, <3>2
    <3> QED  BY <3>2, <3>3
  <2>3. Id3!Here = id3_buffer.frames[Id3!Min(found)]  BY <2>1 DEF Id3!Here
  <2> QED  BY <2>2, <2>3
<1>2. ASSUME \A j \in 1 .. N : id3_buffer.frames[j].at # id3_pos
      PROVE  Id3!Here.id = "padding"
  <2>1. found = {}  BY <1>2
  <2> QED  BY <2>1 DEF Id3!Here
<1> QED  BY <1>1, <1>2

LEMMA DiscCreates ==
  ASSUME Id3!TagInv, source = "disc", Id3!Create
  PROVE  Id3!DiscInv'
<1>1. /\ id3_tag_mode' = id3_tag_mode /\ text' = text /\ source' = source
      /\ id3_tag_mode \in 0 .. 5 /\ text \in DiscTexts
  BY DEF Id3!Create, Id3!TagInv
<1>2. SubSeq(Id3!Rendered, 1, 0) = <<>>
  BY <1>1, RenderedIs, FirstRendered
<1>3. id3_pc' = "render" /\ id3_tag' = [version |-> Id3!Version, frames |-> <<>>]
  BY DEF Id3!Create, Id3!NewTag, Id3!Version
<1>4. Len(Id3!Plan) \in Nat /\ 0 \in 0 .. Len(Id3!Plan)  BY <1>1, RenderedIs
<1> QED  BY <1>1, <1>2, <1>3, <1>4, SamePlan DEF Id3!DiscInv

LEMMA DiscAdds ==
  ASSUME Id3!TagInv, source = "disc", Id3!AddFrame
  PROVE  Id3!DiscInv'
<1>1. /\ id3_tag_mode' = id3_tag_mode /\ text' = text /\ source' = source
      /\ id3_tag_mode \in 0 .. 5 /\ text \in DiscTexts
      /\ id3_pc = "render" /\ id3_pc' = "render" /\ Id3!DiscInv
      /\ Len(id3_tag.frames) < Len(Id3!Plan)
  BY DEF Id3!AddFrame, Id3!TagInv
<1>2. PICK n \in 0 .. Len(Id3!Plan) :
        id3_tag = [version |-> Id3!Version, frames |-> SubSeq(Id3!Rendered, 1, n)]
  BY <1>1 DEF Id3!DiscInv
<1>3. /\ Len(Id3!Plan) \in Nat /\ Len(Id3!Rendered) = Len(Id3!Plan)
      /\ \A k \in 1 .. Len(Id3!Plan) :
           Id3!Rendered[k] = Id3!TextFrame(Id3!Plan[k][1], Id3!Plan[k][2])
      /\ Len(SubSeq(Id3!Rendered, 1, n)) = n
      /\ n \in 0 .. Len(Id3!Plan) - 1 =>
           Append(SubSeq(Id3!Rendered, 1, n), Id3!Rendered[n + 1]) = SubSeq(Id3!Rendered, 1, n + 1)
  BY <1>1, RenderedIs, FirstRendered
<1>4. id3_tag.frames = SubSeq(Id3!Rendered, 1, n) /\ n < Len(Id3!Plan)  BY <1>1, <1>2, <1>3
<1>5. id3_tag' = [id3_tag EXCEPT !.frames =
                    Append(@, Id3!TextFrame(Id3!Plan[n + 1][1], Id3!Plan[n + 1][2]))]
  BY <1>3, <1>4 DEF Id3!AddFrame
<1>6. n + 1 \in 1 .. Len(Id3!Plan) /\ n + 1 \in 0 .. Len(Id3!Plan)  BY <1>3, <1>4
<1>7. id3_tag' = [version |-> Id3!Version, frames |-> SubSeq(Id3!Rendered, 1, n + 1)]
  <2>1. Id3!Rendered[n + 1] = Id3!TextFrame(Id3!Plan[n + 1][1], Id3!Plan[n + 1][2])  BY <1>3, <1>6
  <2>2. Append(id3_tag.frames, Id3!Rendered[n + 1]) = SubSeq(Id3!Rendered, 1, n + 1)
    BY <1>3, <1>4
  <2>3. id3_tag' = [id3_tag EXCEPT !.frames = SubSeq(Id3!Rendered, 1, n + 1)]  BY <1>5, <2>1, <2>2
  <2> QED  BY <1>2, <2>3
<1> QED  BY <1>1, <1>6, <1>7, SamePlan DEF Id3!DiscInv

LEMMA DiscWrites ==
  ASSUME Id3!TagInv, source = "disc", Id3!WriteTag
  PROVE  Id3!DiscInv'
<1>1. /\ id3_tag_mode' = id3_tag_mode /\ text' = text /\ source' = source
      /\ id3_tag_mode \in 0 .. 5 /\ text \in DiscTexts
      /\ id3_pc = "render" /\ id3_pc' = "open" /\ Id3!DiscInv
      /\ Len(id3_tag.frames) = Len(Id3!Plan)
      /\ id3_buffer' = Id3!Written(id3_tag.version, id3_tag.frames)
  BY DEF Id3!WriteTag, Id3!TagInv
<1>2. PICK n \in 0 .. Len(Id3!Plan) :
        id3_tag = [version |-> Id3!Version, frames |-> SubSeq(Id3!Rendered, 1, n)]
  BY <1>1 DEF Id3!DiscInv
<1>3. /\ Len(Id3!Rendered) = Len(Id3!Plan) /\ Len(SubSeq(Id3!Rendered, 1, n)) = n
      /\ SubSeq(Id3!Rendered, 1, Len(Id3!Plan)) = Id3!Rendered
  BY <1>1, RenderedIs, FirstRendered, SMTT(30)
<1>4. id3_tag.frames = Id3!Rendered /\ id3_tag.version = Id3!Version  BY <1>1, <1>2, <1>3, Zenon
<1>5. id3_buffer' = Id3!Written(Id3!Version, Id3!Rendered)  BY <1>1, <1>4
<1>6. Id3!Version' = Id3!Version /\ Id3!Rendered' = Id3!Rendered  BY <1>1, SamePlan
<1>7. id3_buffer' = Id3!Written(Id3!Version, Id3!Rendered)'  BY <1>5, <1>6
<1> QED  BY <1>1, <1>7 DEF Id3!DiscInv

\* The sizes of what is rendered.
LEMMA RenderedSizes ==
  ASSUME id3_tag_mode \in 0 .. 5, text \in DiscTexts
  PROVE  LET N == Len(Id3!Plan)
             S(k) == Id3!SizeUpTo(Id3!Rendered, k)
         IN  /\ N \in Nat /\ S(0) = 0 /\ S(N) = Id3!FramesSize(Id3!Rendered)
             /\ \A k \in 0 .. N : S(k) \in Nat
             /\ \A k \in 1 .. N : S(k) = S(k - 1) + Id3!Rendered[k].fr_size + 10
             /\ \A k \in 1 .. N : Id3!Rendered[k].fr_size \in Nat
             /\ \A i \in 0 .. N : \A j \in i + 1 .. N : S(i) + 10 <= S(j)
<1>1. Len(Id3!Rendered) = Len(Id3!Plan) /\ Len(Id3!Plan) \in Nat
      /\ \A k \in 1 .. Len(Id3!Plan) : Id3!Rendered[k].fr_size \in Nat
  BY RenderedIs
<1> QED  BY <1>1, SizeIs, SizesGrow DEF Id3!FramesSize

\* What was written, frame by frame.
LEMMA WrittenIs ==
  ASSUME id3_tag_mode \in 0 .. 5, text \in DiscTexts,
         id3_buffer = Id3!Written(Id3!Version, Id3!Rendered)
  PROVE  /\ Id3!Version \in {3, 4} /\ id3_buffer.version = Id3!Version /\ id3_buffer.extended = FALSE
         /\ id3_buffer.size = Id3!SetSize28(Id3!FramesSize(Id3!Rendered))
         /\ DOMAIN id3_buffer.frames = 1 .. Len(Id3!Plan)
         /\ \A k \in 1 .. Len(Id3!Plan) :
              LET f == id3_buffer.frames[k] IN
              /\ f.id = Id3!Rendered[k].id /\ f.at = Id3!SizeUpTo(Id3!Rendered, k - 1)
              /\ f.size = Id3!FrameSizeBytes(Id3!Version, Id3!Rendered[k].fr_size)
              /\ f.flags = {} /\ f.data = Id3!Rendered[k].data
<1>1. Id3!Version \in {3, 4}  BY SMTT(30) DEF Id3!Version
<1>2. PICK n \in Nat : n = Len(Id3!Plan) /\ DOMAIN Id3!Rendered = 1 .. n
  <2>1. PICK V : V = {Id3!Rendered[k] : k \in 1 .. Len(Id3!Plan)}  OBVIOUS
  <2>2. Id3!Rendered \in Seq(V) /\ Len(Id3!Rendered) = Len(Id3!Plan)  BY <2>1, RenderedIs
  <2>3. Len(Id3!Rendered) \in Nat /\ DOMAIN Id3!Rendered = 1 .. Len(Id3!Rendered)  BY <2>2
  <2> QED  BY <2>2, <2>3, Zenon
<1>3. id3_buffer.frames =
        [k \in 1 .. n |-> [id |-> Id3!Rendered[k].id, at |-> Id3!SizeUpTo(Id3!Rendered, k - 1),
                           size |-> Id3!FrameSizeBytes(Id3!Version, Id3!Rendered[k].fr_size),
                           flags |-> {}, data |-> Id3!Rendered[k].data]]
  BY <1>2 DEF Id3!Written, Id3!Place
<1> QED  BY <1>1, <1>2, <1>3 DEF Id3!Written

\* A small tag is read, and its first n frames have been.
ReadsWhole == /\ id3_tag_mode \in 0 .. 5 /\ text \in DiscTexts /\ Id3!Small
              /\ id3_buffer = Id3!Written(Id3!Version, Id3!Rendered)
              /\ id3_tagsize = Id3!FramesSize(Id3!Rendered)
AtFrame(n) == /\ n \in 0 .. Len(Id3!Plan) /\ id3_pos = Id3!SizeUpTo(Id3!Rendered, n)
              /\ id3_tag = [version |-> Id3!Version, frames |-> SubSeq(Id3!Rendered, 1, n)]

\* What comes next.
NextFrame(f, next) ==
  /\ Id3!Header = 10 /\ Id3!HereSize = f.fr_size /\ f.fr_size \in Nat /\ f.fr_size < 16384
  /\ Id3!Here.id = f.id /\ Id3!Here.data = f.data /\ Id3!Here.flags = {}
  /\ Id3!Identifier = f.id /\ f.id # "padding" /\ f.id # "none"
  /\ id3_pos + 10 + f.fr_size = next /\ next <= id3_tagsize
  /\ f = [id |-> f.id, fr_size |-> f.fr_size, data |-> f.data]

LEMMA DiscHere ==
  ASSUME ReadsWhole, NEW n, AtFrame(n)
  PROVE  /\ n < Len(Id3!Plan) <=> id3_pos < id3_tagsize
         /\ n < Len(Id3!Plan) => NextFrame(Id3!Rendered[n + 1], Id3!SizeUpTo(Id3!Rendered, n + 1))
         /\ id3_pos \in Nat /\ id3_tagsize \in Nat
<1> DEFINE N == Len(Id3!Plan)
           S(k) == Id3!SizeUpTo(Id3!Rendered, k)
           f == Id3!Rendered[n + 1]
<1>1. /\ N \in Nat /\ S(N) = id3_tagsize /\ \A k \in 0 .. N : S(k) \in Nat
      /\ \A k \in 1 .. N : S(k) = S(k - 1) + Id3!Rendered[k].fr_size + 10
      /\ \A k \in 1 .. N : Id3!Rendered[k].fr_size \in Nat
      /\ \A i \in 0 .. N : \A j \in i + 1 .. N : S(i) + 10 <= S(j)
      /\ S(N) < 16384
  BY RenderedSizes DEF Id3!Small, ReadsWhole
<1>0. /\ id3_tag_mode \in 0 .. 5 /\ text \in DiscTexts /\ n \in 0 .. N /\ id3_pos = S(n)
      /\ id3_buffer = Id3!Written(Id3!Version, Id3!Rendered) /\ id3_tag.version = Id3!Version
  BY DEF ReadsWhole, AtFrame
<1> HIDE DEF S
<1>4. id3_pos \in Nat /\ id3_tagsize \in Nat
  <2>1. N \in 0 .. N  BY <1>1
  <2>2. S(N) \in Nat /\ S(n) \in Nat  BY <1>0, <1>1, <2>1
  <2> QED  BY <1>0, <1>1, <2>2
<1>2. n < N <=> id3_pos < id3_tagsize
  <2>1. ASSUME n < N PROVE id3_pos < id3_tagsize
    <3>1. N \in n + 1 .. N  BY <1>0, <1>1, <2>1
    <3>2. S(n) + 10 <= S(N)  BY <1>0, <1>1, <3>1
    <3>3. id3_pos = S(n) /\ id3_tagsize = S(N)  BY <1>0, <1>1
    <3> QED  BY <1>4, <3>2, <3>3
  <2>2. ASSUME ~(n < N) PROVE ~(id3_pos < id3_tagsize)
    <3>1. n = N  BY <1>0, <1>1, <2>2
    <3>2. id3_pos = id3_tagsize  BY <1>0, <1>1, <3>1
    <3> QED  BY <1>4, <3>2
  <2> QED  BY <2>1, <2>2
<1>3. ASSUME n < N
      PROVE  /\ Id3!Header = 10 /\ Id3!HereSize = f.fr_size /\ f.fr_size \in Nat /\ f.fr_size < 16384
             /\ Id3!Here.id = f.id /\ Id3!Here.data = f.data /\ Id3!Here.flags = {}
             /\ Id3!Identifier = f.id /\ f.id # "padding" /\ f.id # "none"
             /\ id3_pos + 10 + f.fr_size = S(n + 1) /\ S(n + 1) <= id3_tagsize
             /\ f = [id |-> f.id, fr_size |-> f.fr_size, data |-> f.data]
  <2>1. n + 1 \in 1 .. N /\ n + 1 \in 0 .. N /\ n \in 0 .. N /\ n + 1 - 1 = n /\ N \in 0 .. N
    BY <1>0, <1>1, <1>3
  <2>2. /\ Id3!Version \in {3, 4} /\ DOMAIN id3_buffer.frames = 1 .. N
        /\ \A k \in 1 .. N :
             LET b == id3_buffer.frames[k] IN
             /\ b.id = Id3!Rendered[k].id /\ b.at = S(k - 1)
             /\ b.size = Id3!FrameSizeBytes(Id3!Version, Id3!Rendered[k].fr_size)
             /\ b.flags = {} /\ b.data = Id3!Rendered[k].data
    BY <1>0, WrittenIs DEF S
  <2>3. id3_pos = S(n)  BY <1>0
  <2>4. Id3!Here = id3_buffer.frames[n + 1]
    <3>1. id3_buffer.frames[n + 1].at = id3_pos  BY <2>1, <2>2, <2>3
    <3>2. ASSUME NEW j \in 1 .. n + 1 - 1 PROVE id3_buffer.frames[j].at # id3_pos
      <4>1. j \in 1 .. N /\ j - 1 \in 0 .. N /\ n \in (j - 1) + 1 .. N  BY <1>1, <2>1
      <4>2. id3_buffer.frames[j].at = S(j - 1)  BY <2>2, <4>1
      <4>3. S(j - 1) + 10 <= S(n) /\ S(j - 1) \in Nat /\ S(n) \in Nat  BY <1>1, <2>1, <4>1
      <4> QED  BY <2>3, <4>2, <4>3
    <3>3. N \in Nat  BY <1>1
    <3>4. DOMAIN id3_buffer.frames = 1 .. N  BY <2>2
    <3> HIDE DEF N
    <3> QED  BY <2>1, <3>1, <3>2, <3>3, <3>4, HereIs
  <2>5. S(n + 1) = S(n) + f.fr_size + 10 /\ f.fr_size \in Nat /\ S(n) \in Nat /\ S(n + 1) \in Nat
    <3>1. \A k \in 1 .. N : S(k) = S(k - 1) + Id3!Rendered[k].fr_size + 10 /\ Id3!Rendered[k].fr_size \in Nat
      BY <1>1
    <3>2. S(n + 1) = S(n + 1 - 1) + f.fr_size + 10 /\ f.fr_size \in Nat  BY <2>1, <3>1
    <3>3. S(n) \in Nat /\ S(n + 1) \in Nat  BY <1>1, <2>1
    <3> QED  BY <2>1, <3>2, <3>3
  <2>6. S(n + 1) <= S(N)
    <3>1. CASE n + 1 = N  BY <2>5, <3>1
    <3>2. CASE n + 1 < N
      <4>1. N \in (n + 1) + 1 .. N  BY <1>1, <2>1, <3>2
      <4>2. S(n + 1) + 10 <= S(N) /\ S(N) \in Nat  BY <1>1, <2>1, <4>1
      <4> QED  BY <2>5, <4>2
    <3> QED  BY <2>1, <3>1, <3>2
  <2>7. /\ f.fr_size \in Nat /\ f.fr_size < 16384
        /\ id3_pos + 10 + f.fr_size = S(n + 1) /\ S(n + 1) <= id3_tagsize
    <3>1. S(N) \in Nat /\ S(N) < 16384 /\ S(N) = id3_tagsize  BY <1>1, <2>1
    <3> QED  BY <2>3, <2>5, <2>6, <3>1
  <2>8. f.id \in Ids /\ f = [id |-> f.id, fr_size |-> f.fr_size, data |-> f.data]
    BY <1>0, <2>1, RenderedIs
  <2>9. f.id \in Id3!Known /\ f.id # "padding" /\ f.id # "none"
    BY <2>8 DEF Ids, MinimalIds, Id3!Known
  <2>10. /\ Id3!Here.id = f.id /\ Id3!Here.data = f.data /\ Id3!Here.flags = {}
         /\ Id3!Here.size = Id3!FrameSizeBytes(Id3!Version, f.fr_size)
    BY <2>1, <2>2, <2>4
  <2>11. Id3!HereSize = f.fr_size
    BY <1>0, <2>2, <2>7, <2>10, SizeReadsBack DEF Id3!HereSize
  <2>12. Id3!Header = 10 /\ Id3!Identifier = f.id
    BY <1>0, <2>2, <2>9, <2>10 DEF Id3!Header, Id3!HeaderSize, Id3!Identifier
  <2> QED  BY <2>7, <2>8, <2>9, <2>10, <2>11, <2>12
<1> QED  BY <1>2, <1>3, <1>4 DEF S, NextFrame

LEMMA DiscOpens ==
  ASSUME Id3!TagInv, source = "disc", Id3!OpenTag
  PROVE  Id3!DiscInv'
<1>1. /\ id3_tag_mode' = id3_tag_mode /\ text' = text
      /\ id3_tag_mode \in 0 .. 5 /\ text \in DiscTexts
      /\ id3_pc = "open" /\ id3_pc' = "read" /\ id3_buffer' = id3_buffer
      /\ id3_buffer = Id3!Written(Id3!Version, Id3!Rendered)
      /\ id3_tagsize' = Id3!GetSize28(id3_buffer.size)
      /\ id3_pos' = IF id3_buffer.extended THEN 10 ELSE 0
      /\ id3_tag' = [version |-> id3_buffer.version, frames |-> <<>>]
  BY DEF Id3!OpenTag, Id3!TagInv, Id3!DiscInv
<1>2. /\ id3_pos' = 0 /\ id3_tag' = [version |-> Id3!Version, frames |-> <<>>]
      /\ id3_buffer.size = Id3!SetSize28(Id3!FramesSize(Id3!Rendered))
  BY <1>1, WrittenIs
<1>3. Len(Id3!Plan) \in Nat /\ Id3!SizeUpTo(Id3!Rendered, 0) = 0 /\ Id3!FramesSize(Id3!Rendered) \in Nat
  <2>1. Len(Id3!Plan) \in 0 .. Len(Id3!Plan)  BY <1>1, RenderedIs
  <2> QED  BY <1>1, <2>1, RenderedSizes
<1>4. Id3!Small => id3_tagsize' = Id3!FramesSize(Id3!Rendered)
  BY <1>1, <1>2, <1>3, SizeReadsBack DEF Id3!Small
<1>5. id3_tag' = [version |-> Id3!Version, frames |-> SubSeq(Id3!Rendered, 1, 0)]
  BY <1>1, <1>2, FirstRendered
<1>6. 0 \in 0 .. Len(Id3!Plan)  BY <1>3
<1>7. /\ Id3!Plan' = Id3!Plan /\ Id3!Rendered' = Id3!Rendered /\ Id3!Version' = Id3!Version
      /\ Id3!Small' = Id3!Small
  BY <1>1, SamePlan
<1>8. id3_buffer' = Id3!Written(Id3!Version, Id3!Rendered)'  BY <1>1, <1>7
<1>9. Id3!Small' => id3_tagsize' = Id3!FramesSize(Id3!Rendered)'  BY <1>4, <1>7
<1>10. /\ id3_pos' = Id3!SizeUpTo(Id3!Rendered', 0)
       /\ id3_tag' = [version |-> Id3!Version', frames |-> SubSeq(Id3!Rendered', 1, 0)]
       /\ 0 \in 0 .. Len(Id3!Plan')
  BY <1>2, <1>3, <1>5, <1>6, <1>7
<1> QED  BY <1>1, <1>8, <1>9, <1>10 DEF Id3!DiscInv

LEMMA DiscOpenFails ==
  ASSUME Id3!TagInv, source = "disc", Id3!OpenFails
  PROVE  FALSE
<1>1. /\ id3_tag_mode \in 0 .. 5 /\ text \in DiscTexts
      /\ id3_buffer = Id3!Written(Id3!Version, Id3!Rendered)
      /\ id3_buffer.version \in 2 .. 4 => id3_buffer.extended
  BY DEF Id3!OpenFails, Id3!TagInv, Id3!DiscInv
<1>2. id3_buffer.version \in {3, 4} /\ id3_buffer.extended = FALSE
  BY <1>1, WrittenIs
<1> QED  BY <1>1, <1>2

\* While a tag is read.
LEMMA DiscReading ==
  ASSUME Id3!TagInv, source = "disc", id3_pc = "read"
  PROVE  /\ id3_tag_mode \in 0 .. 5 /\ text \in DiscTexts
         /\ id3_buffer = Id3!Written(Id3!Version, Id3!Rendered)
         /\ Id3!Small => ReadsWhole /\ \E n \in 0 .. Len(Id3!Plan) : AtFrame(n)
BY DEF Id3!TagInv, Id3!DiscInv, ReadsWhole, AtFrame

LEMMA DiscFrameFails ==
  ASSUME Id3!TagInv, source = "disc", Id3!FrameFails
  PROVE  Id3!DiscInv'
<1>1. /\ id3_tag_mode' = id3_tag_mode /\ text' = text /\ id3_pc = "read" /\ id3_pc' = "end"
      /\ id3_pos < id3_tagsize
      /\ \/ id3_pos + Id3!Header > id3_tagsize
         \/ Id3!HereSize > 1000 * 1000 \/ id3_pos + Id3!Header + Id3!HereSize > id3_tagsize
  BY DEF Id3!FrameFails, Id3!Rejected
<1>2. ~Id3!Small
  <2> SUFFICES ASSUME Id3!Small PROVE FALSE
    OBVIOUS
  <2>1. PICK n : ReadsWhole /\ AtFrame(n)  BY <1>1, DiscReading
  <2>2. PICK f, next : NextFrame(f, next) /\ id3_pos \in Nat /\ id3_tagsize \in Nat
    BY <1>1, <2>1, DiscHere
  <2>3. /\ Id3!Header = 10 /\ Id3!HereSize = f.fr_size /\ f.fr_size \in Nat /\ f.fr_size < 16384
        /\ id3_pos + 10 + f.fr_size <= id3_tagsize
    BY <2>2 DEF NextFrame
  <2> QED  BY <1>1, <2>2, <2>3
<1>3. ~Id3!Small'  BY <1>1, <1>2, SamePlan
<1> QED  BY <1>1, <1>3 DEF Id3!DiscInv

LEMMA DiscSkips ==
  ASSUME Id3!TagInv, source = "disc", Id3!SkipPadding
  PROVE  Id3!DiscInv'
<1>1. /\ id3_tag_mode' = id3_tag_mode /\ text' = text /\ id3_pc = "read" /\ id3_pc' = "read"
      /\ id3_pos < id3_tagsize /\ Id3!Here.id = "padding" /\ id3_buffer' = id3_buffer
  BY DEF Id3!SkipPadding
<1>2. id3_buffer = Id3!Written(Id3!Version, Id3!Rendered)  BY <1>1, DiscReading
<1>3. ~Id3!Small
  <2> SUFFICES ASSUME Id3!Small PROVE FALSE
    OBVIOUS
  <2>1. PICK n : ReadsWhole /\ AtFrame(n)  BY <1>1, DiscReading
  <2>2. PICK f, next : NextFrame(f, next)  BY <1>1, <2>1, DiscHere
  <2> QED  BY <1>1, <2>2 DEF NextFrame
<1>4. ~Id3!Small' /\ Id3!Version' = Id3!Version /\ Id3!Rendered' = Id3!Rendered
  BY <1>1, <1>3, SamePlan
<1>5. id3_buffer' = Id3!Written(Id3!Version, Id3!Rendered)'  BY <1>1, <1>2, <1>4
<1> QED  BY <1>1, <1>4, <1>5 DEF Id3!DiscInv

LEMMA DiscReads ==
  ASSUME Id3!TagInv, source = "disc", Id3!ReadFrame
  PROVE  Id3!DiscInv'
<1>1. /\ id3_tag_mode' = id3_tag_mode /\ text' = text /\ id3_pc = "read" /\ id3_pc' = "read"
      /\ id3_pos < id3_tagsize /\ id3_buffer' = id3_buffer /\ id3_tagsize' = id3_tagsize
      /\ id3_pos' = id3_pos + Id3!Header + Id3!HereSize
      /\ id3_tag' = IF Id3!Identifier = "none" THEN id3_tag
                    ELSE [id3_tag EXCEPT !.frames = Append(@,
                            IF "compress" \in Id3!Here.flags THEN Id3!Frame(Id3!Identifier, 0, Id3!NoText)
                            ELSE Id3!Frame(Id3!Identifier, Id3!HereSize - Id3!ExtraHeaders(Id3!Here.flags),
                                           Id3!Here.data))]
  BY DEF Id3!ReadFrame
<1>2. /\ id3_tag_mode \in 0 .. 5 /\ text \in DiscTexts
      /\ id3_buffer = Id3!Written(Id3!Version, Id3!Rendered)
  BY <1>1, DiscReading
<1>3. /\ Id3!Plan' = Id3!Plan /\ Id3!Rendered' = Id3!Rendered /\ Id3!Version' = Id3!Version
      /\ Id3!Small' = Id3!Small
  BY <1>1, SamePlan
<1>4. id3_buffer' = Id3!Written(Id3!Version, Id3!Rendered)'  BY <1>1, <1>2, <1>3
<1>5. ASSUME Id3!Small
      PROVE  /\ id3_tagsize' = Id3!FramesSize(Id3!Rendered)'
             /\ \E n \in 0 .. Len(Id3!Plan') :
                  /\ id3_pos' = Id3!SizeUpTo(Id3!Rendered', n)
                  /\ id3_tag' = [version |-> Id3!Version', frames |-> SubSeq(Id3!Rendered', 1, n)]
  <2>1. PICK n : ReadsWhole /\ AtFrame(n)  BY <1>1, <1>5, DiscReading
  <2>2. n < Len(Id3!Plan)  BY <1>1, <2>1, DiscHere
  <2>3. PICK f : f = Id3!Rendered[n + 1]  OBVIOUS
  <2>4. NextFrame(f, Id3!SizeUpTo(Id3!Rendered, n + 1))  BY <2>1, <2>2, <2>3, DiscHere
  <2>5. /\ n \in 0 .. Len(Id3!Plan) /\ id3_tag.frames = SubSeq(Id3!Rendered, 1, n)
        /\ id3_tag = [version |-> Id3!Version, frames |-> SubSeq(Id3!Rendered, 1, n)]
        /\ id3_tagsize = Id3!FramesSize(Id3!Rendered)
    BY <2>1 DEF ReadsWhole, AtFrame
  <2>6. /\ Id3!Header = 10 /\ Id3!HereSize = f.fr_size /\ f.fr_size \in Nat
        /\ Id3!Here.data = f.data /\ Id3!Here.flags = {} /\ Id3!Identifier = f.id /\ f.id # "none"
        /\ id3_pos + 10 + f.fr_size = Id3!SizeUpTo(Id3!Rendered, n + 1)
        /\ f = [id |-> f.id, fr_size |-> f.fr_size, data |-> f.data]
    BY <2>4 DEF NextFrame
  <2>7. Id3!ExtraHeaders(Id3!Here.flags) = 0
    <3>1. PICK S : S = Id3!Here.flags \cap {"encrypt", "group"}  OBVIOUS
    <3>2. S = {} /\ "compress" \notin Id3!Here.flags  BY <2>6, <3>1
    <3>3. Cardinality(S) = 0  BY <3>2, FS_EmptySet
    <3>4. Id3!ExtraHeaders(Id3!Here.flags) = 0 + Cardinality(S)
      BY <3>1, <3>2, SameCardinality DEF Id3!ExtraHeaders
    <3> QED  BY <3>3, <3>4
  <2>8. Id3!Frame(Id3!Identifier, Id3!HereSize - Id3!ExtraHeaders(Id3!Here.flags), Id3!Here.data) = f
    <3>1. f.fr_size - 0 = f.fr_size  BY <2>6
    <3> QED  BY <2>6, <2>7, <3>1 DEF Id3!Frame
  <2>9. id3_tag' = [id3_tag EXCEPT !.frames = Append(id3_tag.frames, f)]
    BY <1>1, <2>6, <2>8
  <2>10. n + 1 \in 0 .. Len(Id3!Plan) /\ n \in 0 .. Len(Id3!Plan) - 1
    BY <1>2, <2>2, <2>5, RenderedIs
  <2>11. Append(id3_tag.frames, f) = SubSeq(Id3!Rendered, 1, n + 1)
    BY <1>2, <2>3, <2>5, <2>10, FirstRendered
  <2>12. id3_tag' = [version |-> Id3!Version, frames |-> SubSeq(Id3!Rendered, 1, n + 1)]
    BY <2>5, <2>9, <2>11
  <2>13. id3_pos' = Id3!SizeUpTo(Id3!Rendered, n + 1)  BY <1>1, <2>6
  <2>14. id3_tagsize' = Id3!FramesSize(Id3!Rendered)'  BY <1>1, <1>3, <2>5
  <2> QED  BY <1>3, <2>10, <2>12, <2>13, <2>14
<1> QED  BY <1>1, <1>3, <1>4, <1>5 DEF Id3!DiscInv

LEMMA DiscEnds ==
  ASSUME Id3!TagInv, source = "disc", Id3!ReadEnds
  PROVE  Id3!DiscInv'
<1>1. /\ id3_tag_mode' = id3_tag_mode /\ text' = text /\ id3_pc = "read" /\ id3_pc' = "end"
      /\ id3_pos >= id3_tagsize /\ id3_tag' = id3_tag
  BY DEF Id3!ReadEnds
<1>2. /\ id3_tag_mode \in 0 .. 5 /\ text \in DiscTexts
      /\ id3_buffer = Id3!Written(Id3!Version, Id3!Rendered)
  BY <1>1, DiscReading
<1>3. ASSUME Id3!Small PROVE id3_tag.frames = Id3!Rendered
  <2>1. PICK n : ReadsWhole /\ AtFrame(n)  BY <1>1, <1>3, DiscReading
  <2>2. ~(n < Len(Id3!Plan))  BY <1>1, <2>1, DiscHere
  <2>3. n \in 0 .. Len(Id3!Plan) /\ id3_tag.frames = SubSeq(Id3!Rendered, 1, n)
    BY <2>1 DEF AtFrame
  <2>4. n = Len(Id3!Plan)  BY <1>2, <2>2, <2>3, RenderedIs
  <2> QED  BY <1>2, <2>3, <2>4, FirstRendered
<1>4. Id3!Small' = Id3!Small /\ Id3!Rendered' = Id3!Rendered  BY <1>1, SamePlan
<1>5. Id3!Small' => id3_tag'.frames = Id3!Rendered'  BY <1>1, <1>3, <1>4
<1> QED  BY <1>1, <1>5 DEF Id3!DiscInv

LEMMA DiscStays ==
  ASSUME Id3!TagInv, source = "disc", UNCHANGED Id3!vars
  PROVE  Id3!DiscInv'
<1>1. /\ id3_tag_mode' = id3_tag_mode /\ text' = text /\ id3_pc' = id3_pc /\ id3_tag' = id3_tag
      /\ id3_buffer' = id3_buffer /\ id3_pos' = id3_pos /\ id3_tagsize' = id3_tagsize
  BY DEF Id3!vars
<1>2. /\ Id3!Plan' = Id3!Plan /\ Id3!Rendered' = Id3!Rendered /\ Id3!Version' = Id3!Version
      /\ Id3!Small' = Id3!Small
  BY <1>1, SamePlan
<1>3. Id3!Written(Id3!Version, Id3!Rendered)' = Id3!Written(Id3!Version, Id3!Rendered)
      /\ Id3!FramesSize(Id3!Rendered)' = Id3!FramesSize(Id3!Rendered)
  BY <1>2
<1>4. Id3!DiscInv  BY DEF Id3!TagInv
<1> QED  BY <1>1, <1>2, <1>3, <1>4 DEF Id3!DiscInv

LEMMA DiscKept ==
  ASSUME Id3!TagInv, source = "disc", [Id3!Next]_(Id3!vars)
  PROVE  Id3!DiscInv'
<1>1. ~Id3!AlterFile  BY DEF Id3!AlterFile, Id3!TagInv, Id3!DiscInv
<1>2. Id3!Ended => UNCHANGED Id3!vars  BY DEF Id3!Ended
<1> QED
  BY <1>1, <1>2, DiscCreates, DiscAdds, DiscWrites, DiscOpens, DiscOpenFails, DiscFrameFails,
     DiscSkips, DiscReads, DiscEnds, DiscStays DEF Id3!Next

-----------------------------------------------------------------------------
(* The tag of another program *)

FrameCount == Len(id3_buffer.frames)
End(k) == Id3!EndOf(id3_buffer, k)
Fits(n) == \A j \in 1 .. n : ~Id3!Large(id3_buffer, j)

\* What is assumed of it.
LEMMA TheirsIs ==
  ASSUME id3_buffer \in Foreign
  PROVE  /\ FrameCount \in Nat /\ DOMAIN id3_buffer.frames = 1 .. FrameCount
         /\ Id3!HeaderSize(id3_buffer.version) \in {6, 10} /\ Id3!GetSize28(id3_buffer.size) \in Nat
         /\ id3_buffer.extended \in BOOLEAN
         /\ End(0) = IF id3_buffer.extended THEN 10 ELSE 0
         /\ \A k \in 0 .. FrameCount : End(k) \in Nat
         /\ \A k \in 1 .. FrameCount :
              LET f == id3_buffer.frames[k]
                  s == Id3!FrameSize(id3_buffer.version, f.size)
              IN  /\ f.id # "padding" /\ f.at \in Nat /\ s \in Nat
                  /\ End(k) = f.at + Id3!HeaderSize(id3_buffer.version) + s
                  /\ Id3!Large(id3_buffer, k) <=> s > 1000 * 1000
         /\ \A n \in 0 .. FrameCount - 1 : Fits(n) =>
              /\ id3_buffer.frames[n + 1].at = End(n)
              /\ End(n) < Id3!GetSize28(id3_buffer.size)
<1>1. Id3!Laid(id3_buffer)
  BY TagNumbers DEF Id3!Numbers
<1>2. /\ FrameCount \in Nat /\ DOMAIN id3_buffer.frames = 1 .. FrameCount
      /\ id3_buffer.extended \in BOOLEAN /\ id3_buffer.size \in Id3!Bytes4
      /\ \A k \in 1 .. FrameCount :
           /\ id3_buffer.frames[k].id # "padding" /\ id3_buffer.frames[k].at \in Nat
           /\ id3_buffer.frames[k].size \in Id3!Bytes4
           /\ (\A j \in 1 .. k - 1 : ~Id3!Large(id3_buffer, j)) =>
                id3_buffer.frames[k].at = End(k - 1)
                /\ id3_buffer.frames[k].at < Id3!GetSize28(id3_buffer.size)
  BY <1>1 DEF Id3!Laid, FrameCount, End
<1>3. /\ Id3!HeaderSize(id3_buffer.version) \in {6, 10}
      /\ Id3!GetSize28(id3_buffer.size) \in Nat
  BY <1>2, SizesAreNumbers DEF Id3!HeaderSize
<1>4. End(0) = IF id3_buffer.extended THEN 10 ELSE 0
  BY DEF End, Id3!EndOf
<1>5. ASSUME NEW k \in 1 .. FrameCount
      PROVE  LET f == id3_buffer.frames[k]
                 s == Id3!FrameSize(id3_buffer.version, f.size)
             IN  /\ f.id # "padding" /\ f.at \in Nat /\ s \in Nat
                 /\ End(k) = f.at + Id3!HeaderSize(id3_buffer.version) + s
                 /\ Id3!Large(id3_buffer, k) <=> s > 1000 * 1000
  <2>1. k # 0  BY <1>2
  <2>2. Id3!FrameSize(id3_buffer.version, id3_buffer.frames[k].size) \in Nat
    BY <1>2, SizesAreNumbers
  <2> QED  BY <1>2, <2>1, <2>2 DEF End, Id3!EndOf, Id3!Large
<1>6. \A k \in 0 .. FrameCount : End(k) \in Nat
  <2>1. End(0) \in Nat  BY <1>2, <1>4
  <2>2. ASSUME NEW k \in 1 .. FrameCount PROVE End(k) \in Nat
    <3>1. PICK a, h, s \in Nat : End(k) = a + h + s  BY <1>3, <1>5
    <3> QED  BY <3>1
  <2> QED  BY <1>2, <2>1, <2>2
<1>7. ASSUME NEW n \in 0 .. FrameCount - 1, Fits(n)
      PROVE  id3_buffer.frames[n + 1].at = End(n) /\ End(n) < Id3!GetSize28(id3_buffer.size)
  <2>1. n + 1 \in 1 .. FrameCount /\ n + 1 - 1 = n  BY <1>2
  <2>2. \A j \in 1 .. n + 1 - 1 : ~Id3!Large(id3_buffer, j)  BY <1>7, <2>1 DEF Fits
  <2>3. id3_buffer.frames[n + 1].at = End(n + 1 - 1)
        /\ id3_buffer.frames[n + 1].at < Id3!GetSize28(id3_buffer.size)
    BY <1>2, <2>1, <2>2
  <2> QED  BY <2>1, <2>3
<1> QED  BY <1>2, <1>3, <1>4, <1>5, <1>6, <1>7

\* The frames that fit lie one behind the other.
LEMMA EndsGrow ==
  ASSUME id3_buffer \in Foreign, NEW n \in 0 .. FrameCount, Fits(n)
  PROVE  /\ \A i \in 0 .. n : End(i) <= End(n)
         /\ \A j \in 1 .. n : id3_buffer.frames[j].at < End(n)
<1>0. /\ FrameCount \in Nat /\ \A k \in 0 .. FrameCount : End(k) \in Nat
      /\ Id3!HeaderSize(id3_buffer.version) \in {6, 10}
      /\ \A k \in 1 .. FrameCount :
           LET f == id3_buffer.frames[k]
               s == Id3!FrameSize(id3_buffer.version, f.size)
           IN  f.at \in Nat /\ s \in Nat /\ End(k) = f.at + Id3!HeaderSize(id3_buffer.version) + s
      /\ \A k \in 0 .. FrameCount - 1 : Fits(k) => id3_buffer.frames[k + 1].at = End(k)
  BY TheirsIs
<1>1. \A j \in 1 .. n : id3_buffer.frames[j].at = End(j - 1) /\ id3_buffer.frames[j].at < End(j)
                        /\ End(j - 1) \in Nat /\ End(j) \in Nat
  <2> TAKE j \in 1 .. n
  <2>1. j \in 1 .. FrameCount /\ j - 1 \in 0 .. FrameCount - 1 /\ j - 1 + 1 = j
        /\ j \in 0 .. FrameCount /\ j - 1 \in 0 .. FrameCount
    BY <1>0
  <2>2. Fits(j - 1)  BY <1>0, <2>1 DEF Fits
  <2>3. id3_buffer.frames[j].at = End(j - 1)  BY <1>0, <2>1, <2>2
  <2>4. PICK a, h, s \in Nat : a = id3_buffer.frames[j].at /\ End(j) = a + h + s /\ h > 0
    <3> DEFINE a == id3_buffer.frames[j].at
               h == Id3!HeaderSize(id3_buffer.version)
               s == Id3!FrameSize(id3_buffer.version, id3_buffer.frames[j].size)
    <3>1. a \in Nat /\ s \in Nat /\ End(j) = a + h + s  BY <1>0, <2>1
    <3>2. h \in Nat /\ h > 0  BY <1>0
    <3> HIDE DEF a, h, s
    <3> QED  BY <3>1, <3>2 DEF a
  <2> QED  BY <1>0, <2>1, <2>3, <2>4
<1>2. ASSUME NEW i \in 0 .. n PROVE End(i) <= End(n)
  <2> DEFINE T == {d \in 0 .. n : i + d <= n => End(i) <= End(i + d)}
  <2>0. n \in Nat /\ i \in Nat /\ End(i) \in Nat  BY <1>0
  <2>1. 0 \in T
    <3>1. i + 0 = i /\ 0 \in 0 .. n  BY <2>0
    <3> QED  BY <2>0, <3>1
  <2>2. ASSUME NEW d \in 1 .. n, d - 1 \in T PROVE d \in T
    <3> SUFFICES ASSUME i + d <= n PROVE End(i) <= End(i + d)
      BY <2>0
    <3>1. i + d \in 1 .. n /\ i + (d - 1) = i + d - 1 /\ i + (d - 1) <= n  BY <2>0
    <3>2. End(i) <= End(i + d - 1)  BY <2>2, <3>1
    <3>3. End(i + d - 1) < End(i + d) /\ End(i + d - 1) \in Nat /\ End(i + d) \in Nat
      BY <1>1, <3>1
    <3> QED  BY <2>0, <3>2, <3>3
  <2>3. 0 .. n \subseteq T
    <3> HIDE DEF T
    <3> QED  BY <2>0, <2>1, <2>2, Induction
  <2>4. n - i \in 0 .. n /\ i + (n - i) = n  BY <2>0
  <2>5. n - i \in T  BY <2>3, <2>4
  <2> QED  BY <2>0, <2>4, <2>5
<1>3. ASSUME NEW j \in 1 .. n PROVE id3_buffer.frames[j].at < End(n)
  <2>1. id3_buffer.frames[j].at = End(j - 1) /\ id3_buffer.frames[j].at < End(j)
        /\ End(j - 1) \in Nat /\ End(j) \in Nat
    BY <1>1
  <2>2. j \in 0 .. n /\ n \in 0 .. FrameCount  BY <1>0
  <2>3. End(j) <= End(n) /\ End(n) \in Nat  BY <1>0, <1>2, <2>2
  <2> QED  BY <2>1, <2>3
<1> QED  BY <1>2, <1>3

\* What is read behind the first n frames.
LEMMA TheirHere ==
  ASSUME id3_buffer \in Foreign, NEW n \in 0 .. FrameCount, Fits(n), id3_pos = End(n)
  PROVE  /\ n < FrameCount => /\ Id3!Here = id3_buffer.frames[n + 1] /\ Id3!Here.id # "padding"
                              /\ End(n) < Id3!GetSize28(id3_buffer.size)
         /\ n = FrameCount => Id3!Here.id = "padding"
<1>1. /\ FrameCount \in Nat /\ DOMAIN id3_buffer.frames = 1 .. FrameCount
      /\ \A k \in 1 .. FrameCount : id3_buffer.frames[k].id # "padding"
      /\ \A j \in 1 .. n : id3_buffer.frames[j].at \in Nat
      /\ n \in 0 .. FrameCount - 1 => /\ id3_buffer.frames[n + 1].at = End(n)
                                      /\ End(n) < Id3!GetSize28(id3_buffer.size)
      /\ End(n) \in Nat
  BY TheirsIs, SMTT(30)
<1>2. \A j \in 1 .. n : id3_buffer.frames[j].at # id3_pos
  <2> TAKE j \in 1 .. n
  <2>1. id3_buffer.frames[j].at < End(n)  BY EndsGrow
  <2> QED  BY <1>1, <2>1
<1>3. ASSUME n < FrameCount
      PROVE  /\ Id3!Here = id3_buffer.frames[n + 1] /\ Id3!Here.id # "padding"
             /\ End(n) < Id3!GetSize28(id3_buffer.size)
  <2>1. n + 1 \in 1 .. FrameCount /\ n \in 0 .. FrameCount - 1 /\ n + 1 - 1 = n  BY <1>1, <1>3
  <2>2. \A j \in 1 .. n + 1 - 1 : id3_buffer.frames[j].at # id3_pos  BY <1>2, <2>1
  <2>3. id3_buffer.frames[n + 1].at = id3_pos  BY <1>1, <2>1
  <2>4. Id3!Here = id3_buffer.frames[n + 1]  BY <1>1, <2>1, <2>2, <2>3, HereIs
  <2> QED  BY <1>1, <2>1, <2>4
<1>4. ASSUME n = FrameCount PROVE Id3!Here.id = "padding"
  BY <1>1, <1>2, <1>4, HereIs
<1> QED  BY <1>3, <1>4

\* The frames to be kept, counted one by one.
LEMMA KeptCounts ==
  /\ Id3!KeptCount(0) = 0
  /\ \A n \in Nat : /\ Id3!KeptCount(n) \in Nat
                    /\ Id3!KeptCount(n + 1) = Id3!KeptCount(n) + (IF Id3!Kept(n + 1) THEN 1 ELSE 0)
<1> DEFINE K(n) == {k \in 1 .. n : Id3!Kept(k)}
<1>1. \A n : Id3!KeptCount(n) = Cardinality(K(n))
  BY SameCardinality DEF Id3!KeptCount
<1>2. ASSUME NEW n \in Nat PROVE IsFiniteSet(K(n)) /\ Cardinality(K(n)) \in Nat
  <2>1. IsFiniteSet(1 .. n) /\ K(n) \in SUBSET (1 .. n)  BY FS_Interval
  <2>2. IsFiniteSet(K(n))
    <3> HIDE DEF K
    <3> QED  BY <2>1, FS_Subset
  <2> HIDE DEF K
  <2> QED  BY <2>2, FS_CardinalityType
<1>3. Cardinality(K(0)) = 0
  <2>1. K(0) = {}  OBVIOUS
  <2> HIDE DEF K
  <2> QED  BY <2>1, FS_EmptySet
<1>4. ASSUME NEW n \in Nat
      PROVE  Cardinality(K(n + 1)) = Cardinality(K(n)) + (IF Id3!Kept(n + 1) THEN 1 ELSE 0)
  <2>1. CASE Id3!Kept(n + 1)
    <3>1. K(n + 1) = K(n) \cup {n + 1} /\ n + 1 \notin K(n)  BY <2>1
    <3> HIDE DEF K
    <3>2. Cardinality(K(n + 1)) = Cardinality(K(n)) + 1  BY <1>2, <3>1, FS_AddElement
    <3> QED  BY <2>1, <3>2
  <2>2. CASE ~Id3!Kept(n + 1)
    <3>1. K(n + 1) = K(n)  BY <2>2
    <3> HIDE DEF K
    <3> QED  BY <1>2, <2>2, <3>1
  <2> QED  BY <2>1, <2>2
<1> HIDE DEF K
<1> QED  BY <1>1, <1>2, <1>3, <1>4

-----------------------------------------------------------------------------
(* A step of the tag of another program *)

SameBuffer == id3_buffer' = id3_buffer
LEMMA SameTheirs ==
  ASSUME SameBuffer
  PROVE  /\ Id3!WellFormed' = Id3!WellFormed /\ Id3!TheirFrames' = Id3!TheirFrames
         /\ \A k : Id3!KeptCount(k)' = Id3!KeptCount(k)
BY DEF SameBuffer, Id3!WellFormed, Id3!TheirFrames, Id3!KeptCount, Id3!Kept

\* The tag is read, and its first n frames have been, or all and the padding.
Theirs == /\ id3_buffer \in Foreign /\ id3_buffer.version \in 2 .. 4
          /\ id3_tagsize = Id3!GetSize28(id3_buffer.size)
          /\ id3_tag.version = id3_buffer.version /\ id3_tag.frames \in Seq(Id3!TheirFrames)
          /\ id3_tag = [version |-> id3_buffer.version, frames |-> id3_tag.frames]
AtTheirs(n) == /\ n \in 0 .. FrameCount /\ Fits(n) /\ End(n) <= id3_tagsize
               /\ \/ id3_pos = End(n)
                  \/ id3_pos = id3_tagsize /\ n = FrameCount /\ End(n) + Id3!Header <= id3_tagsize
               /\ Len(Id3!Altered(id3_tag.frames)) = Id3!KeptCount(n)

LEMMA OtherReading ==
  ASSUME Id3!TagInv, source = "other", id3_pc = "read"
  PROVE  Theirs /\ \E n \in 0 .. FrameCount : AtTheirs(n)
<1>1. Id3!OtherInv  BY DEF Id3!TagInv
<1>2. /\ id3_buffer \in Foreign /\ id3_buffer.version \in 2 .. 4
      /\ id3_tagsize = Id3!GetSize28(id3_buffer.size)
      /\ id3_tag \in [version : {id3_buffer.version}, frames : Seq(Id3!TheirFrames)]
  BY <1>1 DEF Id3!OtherInv
<1>3. \E n \in 0 .. Len(id3_buffer.frames) :
        /\ \A k \in 1 .. n : ~Id3!Large(id3_buffer, k)
        /\ Id3!EndOf(id3_buffer, n) <= id3_tagsize
        /\ \/ id3_pos = Id3!EndOf(id3_buffer, n)
           \/ /\ id3_pos = id3_tagsize /\ n = Len(id3_buffer.frames)
              /\ Id3!EndOf(id3_buffer, n) + Id3!Header <= id3_tagsize
        /\ Len(Id3!Altered(id3_tag.frames)) = Id3!KeptCount(n)
  BY <1>1 DEF Id3!OtherInv
<1>4. Theirs  BY <1>2 DEF Theirs
<1>5. \E n \in 0 .. FrameCount : AtTheirs(n)  BY <1>3 DEF AtTheirs, FrameCount, Fits, End
<1> QED  BY <1>4, <1>5

\* What has to be shown of a tag that is still read.
LEMMA OtherReadsOn ==
  ASSUME SameBuffer, Theirs', id3_pc' = "read", NEW n, AtTheirs(n)'
  PROVE  Id3!OtherInv'
<1>1. /\ id3_buffer' \in Foreign /\ id3_buffer'.version \in 2 .. 4
      /\ id3_tagsize' = Id3!GetSize28(id3_buffer'.size)
      /\ id3_tag'.version = id3_buffer'.version /\ id3_tag'.frames \in Seq(Id3!TheirFrames')
      /\ id3_tag' = [version |-> id3_buffer'.version, frames |-> id3_tag'.frames]
  BY DEF Theirs
<1>2. /\ n \in 0 .. Len(id3_buffer'.frames) /\ \A k \in 1 .. n : ~Id3!Large(id3_buffer', k)
      /\ Id3!EndOf(id3_buffer', n) <= id3_tagsize'
      /\ \/ id3_pos' = Id3!EndOf(id3_buffer', n)
         \/ /\ id3_pos' = id3_tagsize' /\ n = Len(id3_buffer'.frames)
            /\ Id3!EndOf(id3_buffer', n) + Id3!Header' <= id3_tagsize'
      /\ Len(Id3!Altered(id3_tag'.frames)) = Id3!KeptCount(n)'
  BY DEF AtTheirs, FrameCount, Fits, End
<1>3. id3_tag' \in [version : {id3_buffer'.version}, frames : Seq(Id3!TheirFrames')]
  BY <1>1
<1> QED  BY <1>1, <1>2, <1>3 DEF Id3!OtherInv

\* And of one that is refused, or done with.
LEMMA OtherDone ==
  ASSUME SameBuffer, id3_buffer \in Foreign, source' = "other", id3_pc' = "end",
         IF Id3!WellFormed
         THEN /\ id3_tag'.version = id3_buffer.version
              /\ Len(id3_tag'.frames) = Id3!KeptCount(FrameCount)
         ELSE id3_tag' = Id3!NewTag
  PROVE  Id3!OtherInv'
<1>1. Id3!WellFormed' = Id3!WellFormed /\ id3_buffer' = id3_buffer
      /\ \A k : Id3!KeptCount(k)' = Id3!KeptCount(k)
  BY SameTheirs DEF SameBuffer
<1>2. DOMAIN id3_buffer'.frames = 1 .. FrameCount  BY <1>1, TheirsIs
<1>3. Id3!KeptCount(FrameCount)' = Id3!Cardinality({k \in DOMAIN id3_buffer'.frames : Id3!Kept(k)'})
  BY <1>1, <1>2 DEF Id3!KeptCount, FrameCount
<1>4. Id3!KeptCount(FrameCount)' = Id3!KeptCount(FrameCount)
  BY <1>1 DEF Id3!KeptCount, Id3!Kept, FrameCount
<1>5. Id3!NewTag' = Id3!NewTag  BY DEF Id3!NewTag
<1>6. Id3!TagReadsBack'
  BY <1>1, <1>3, <1>4, <1>5 DEF Id3!TagReadsBack
<1> QED  BY <1>1, <1>6 DEF Id3!OtherInv

LEMMA OtherOpens ==
  ASSUME Id3!TagInv, source = "other", Id3!OpenTag
  PROVE  Id3!OtherInv'
<1>1. /\ id3_buffer \in Foreign /\ SameBuffer /\ id3_pc' = "read" /\ id3_buffer.version \in 2 .. 4
      /\ id3_tagsize' = Id3!GetSize28(id3_buffer.size)
      /\ id3_buffer.extended => Id3!GetSize28(id3_buffer.size) >= 10
      /\ id3_pos' = IF id3_buffer.extended THEN 10 ELSE 0
      /\ id3_tag' = [version |-> id3_buffer.version, frames |-> <<>>]
  BY DEF Id3!OpenTag, Id3!TagInv, Id3!OtherInv, SameBuffer
<1>2. FrameCount \in Nat /\ End(0) = (IF id3_buffer.extended THEN 10 ELSE 0)
      /\ Id3!GetSize28(id3_buffer.size) \in Nat
  BY <1>1, TheirsIs
<1>3. Theirs'
  <2>1. <<>> \in Seq(Id3!TheirFrames')  OBVIOUS
  <2> QED  BY <1>1, <2>1 DEF Theirs, SameBuffer
<1>4. FrameCount' = FrameCount /\ End(0)' = End(0)
  BY <1>1 DEF SameBuffer, FrameCount, End
<1>5. Len(Id3!Altered(<<>>)) = 0 /\ Id3!KeptCount(0)' = 0
  <2>1. Id3!KeptCount(0)' = Id3!KeptCount(0)  BY <1>1, SameTheirs
  <2> QED  BY <2>1, AlteredIs, KeptCounts
<1>6. AtTheirs(0)'
  <2>1. 0 \in 0 .. FrameCount' /\ Fits(0)'  BY <1>2, <1>4 DEF Fits
  <2>2. End(0)' <= id3_tagsize' /\ id3_pos' = End(0)'  BY <1>1, <1>2, <1>4
  <2>3. Len(Id3!Altered(id3_tag'.frames)) = 0  BY <1>1, <1>5
  <2> QED  BY <1>5, <2>1, <2>2, <2>3 DEF AtTheirs
<1> QED  BY <1>1, <1>3, <1>6, OtherReadsOn

LEMMA OtherOpenFails ==
  ASSUME Id3!TagInv, source = "other", Id3!OpenFails
  PROVE  Id3!OtherInv'
<1>1. /\ id3_buffer \in Foreign /\ SameBuffer /\ id3_pc' = "end" /\ source' = "other"
      /\ id3_tag' = Id3!NewTag
      /\ id3_buffer.version \in 2 .. 4 => id3_buffer.extended /\ Id3!GetSize28(id3_buffer.size) < 10
  BY DEF Id3!OpenFails, Id3!Rejected, Id3!TagInv, Id3!OtherInv, SameBuffer
<1>2. ASSUME Id3!WellFormed PROVE FALSE
  <2>1. /\ id3_buffer.version \in 2 .. 4 /\ Fits(FrameCount)
        /\ \/ Id3!GetSize28(id3_buffer.size) - End(FrameCount) = 0
           \/ Id3!GetSize28(id3_buffer.size) - End(FrameCount) >= Id3!HeaderSize(id3_buffer.version)
    BY <1>1, <1>2, TheirsIs DEF Id3!WellFormed, Fits, FrameCount, End
  <2>2. /\ FrameCount \in Nat /\ End(0) = 10 /\ Id3!GetSize28(id3_buffer.size) \in Nat
        /\ Id3!GetSize28(id3_buffer.size) < 10 /\ Id3!HeaderSize(id3_buffer.version) \in {6, 10}
    BY <1>1, <2>1, TheirsIs
  <2>3. FrameCount \in 0 .. FrameCount /\ 0 \in 0 .. FrameCount  BY <2>2
  <2>4. End(0) <= End(FrameCount) /\ End(FrameCount) \in Nat
    BY <1>1, <2>1, <2>3, EndsGrow, TheirsIs
  <2> QED  BY <2>1, <2>2, <2>4
<1> QED  BY <1>1, <1>2, OtherDone

\* A tag whose frames all fit ends where they do, or has padding behind them.
LEMMA WellFormedIs ==
  ASSUME id3_buffer \in Foreign
  PROVE  Id3!WellFormed <=>
           LET rest == Id3!GetSize28(id3_buffer.size) - End(FrameCount)
           IN  /\ id3_buffer.version \in 2 .. 4 /\ Fits(FrameCount)
               /\ rest = 0 \/ rest >= Id3!HeaderSize(id3_buffer.version)
<1>1. DOMAIN id3_buffer.frames = 1 .. FrameCount  BY TheirsIs
<1> QED  BY <1>1 DEF Id3!WellFormed, Fits, FrameCount, End

LEMMA OtherFrameFails ==
  ASSUME Id3!TagInv, source = "other", Id3!FrameFails
  PROVE  Id3!OtherInv'
<1>1. /\ SameBuffer /\ id3_pc = "read" /\ id3_pc' = "end" /\ source' = "other"
      /\ id3_tag' = Id3!NewTag /\ id3_pos < id3_tagsize
      /\ \/ id3_pos + Id3!Header > id3_tagsize
         \/ /\ Id3!Here.id # "padding"
            /\ Id3!HereSize > 1000 * 1000 \/ id3_pos + Id3!Header + Id3!HereSize > id3_tagsize
  BY DEF Id3!FrameFails, Id3!Rejected, SameBuffer
<1>2. PICK n : Theirs /\ AtTheirs(n)  BY <1>1, OtherReading
<1> DEFINE h == Id3!HeaderSize(id3_buffer.version)
<1>4. /\ id3_buffer \in Foreign /\ id3_tagsize = Id3!GetSize28(id3_buffer.size)
      /\ id3_tag.version = id3_buffer.version /\ n \in 0 .. FrameCount /\ Fits(n)
      /\ id3_pos = End(n) \/ id3_pos = id3_tagsize
  BY <1>2 DEF Theirs, AtTheirs
<1>5. /\ FrameCount \in Nat /\ id3_tagsize \in Nat /\ h \in {6, 10} /\ Id3!Header = h
      /\ End(n) \in Nat /\ FrameCount \in 0 .. FrameCount
  BY <1>4, TheirsIs DEF Id3!Header
<1>6. id3_pos = End(n)  BY <1>1, <1>4, <1>5
<1>7. ASSUME Id3!WellFormed PROVE FALSE
  <2>1. /\ Fits(FrameCount)
        /\ \/ id3_tagsize - End(FrameCount) = 0
           \/ id3_tagsize - End(FrameCount) >= h
    BY <1>4, <1>7, WellFormedIs
  <2>2. End(FrameCount) \in Nat /\ \A i \in 0 .. FrameCount : End(i) <= End(FrameCount)
    BY <1>4, <1>5, <2>1, EndsGrow, TheirsIs
  <2>3. CASE n = FrameCount
    <3>1. Id3!Here.id = "padding"  BY <1>4, <1>6, <2>3, TheirHere
    <3>2. End(n) + h > id3_tagsize /\ End(n) < id3_tagsize  BY <1>1, <1>5, <1>6, <3>1
    <3> HIDE DEF h
    <3> QED  BY <1>5, <2>1, <2>3, <3>2
  <2>4. CASE n < FrameCount
    <3> DEFINE s == Id3!FrameSize(id3_buffer.version, id3_buffer.frames[n + 1].size)
    <3>1. n + 1 \in 1 .. FrameCount /\ n + 1 \in 0 .. FrameCount /\ n \in 0 .. FrameCount - 1
      BY <1>4, <1>5, <2>4
    <3>2. Id3!Here = id3_buffer.frames[n + 1]  BY <1>4, <1>6, <2>4, TheirHere
    <3>3. Id3!HereSize = s  BY <1>4, <3>2 DEF Id3!HereSize
    <3>4. /\ s \in Nat /\ End(n + 1) = id3_buffer.frames[n + 1].at + h + s
          /\ Id3!Large(id3_buffer, n + 1) <=> s > 1000 * 1000
          /\ id3_buffer.frames[n + 1].at = End(n)
      BY <1>4, <3>1, TheirsIs
    <3>5. ~Id3!Large(id3_buffer, n + 1)  BY <2>1, <3>1 DEF Fits
    <3>6. End(n + 1) <= End(FrameCount)  BY <2>2, <3>1
    <3> HIDE DEF s, h
    <3>7. ~(s > 1000 * 1000)  BY <3>4, <3>5
    <3>8. End(n) + h > id3_tagsize \/ End(n) + h + s > id3_tagsize  BY <1>1, <1>5, <1>6, <3>3, <3>7
    <3>9. End(n + 1) = End(n) + h + s  BY <3>4
    <3> QED  BY <1>5, <2>1, <2>2, <3>4, <3>6, <3>8, <3>9
  <2> QED  BY <1>4, <1>5, <2>3, <2>4
<1> QED  BY <1>1, <1>4, <1>7, OtherDone

LEMMA OtherSkips ==
  ASSUME Id3!TagInv, source = "other", Id3!SkipPadding
  PROVE  Id3!OtherInv'
<1>1. /\ SameBuffer /\ id3_pc = "read" /\ id3_pc' = "read" /\ id3_tag' = id3_tag
      /\ id3_pos < id3_tagsize /\ id3_pos + Id3!Header <= id3_tagsize /\ Id3!Here.id = "padding"
      /\ id3_pos' = id3_tagsize /\ id3_tagsize' = id3_tagsize
  BY DEF Id3!SkipPadding, SameBuffer
<1>2. PICK n : Theirs /\ AtTheirs(n)  BY <1>1, OtherReading
<1>3. /\ id3_buffer \in Foreign /\ id3_tagsize = Id3!GetSize28(id3_buffer.size)
      /\ n \in 0 .. FrameCount /\ Fits(n) /\ End(n) <= id3_tagsize
      /\ id3_pos = End(n) \/ id3_pos = id3_tagsize
      /\ Len(Id3!Altered(id3_tag.frames)) = Id3!KeptCount(n)
  BY <1>2 DEF Theirs, AtTheirs
<1>4. FrameCount \in Nat /\ id3_tagsize \in Nat  BY <1>3, TheirsIs
<1>5. id3_pos = End(n)  BY <1>1, <1>3, <1>4
<1>6. n = FrameCount
  <2>1. ~(n < FrameCount)  BY <1>1, <1>3, <1>5, TheirHere
  <2> QED  BY <1>3, <1>4, <2>1
<1>7. /\ Id3!TheirFrames' = Id3!TheirFrames /\ Id3!KeptCount(n)' = Id3!KeptCount(n)
      /\ FrameCount' = FrameCount /\ End(n)' = End(n) /\ Fits(n)' = Fits(n)
      /\ Id3!Header' = Id3!Header
  BY <1>1, SameTheirs DEF SameBuffer, FrameCount, End, Fits, Id3!Header
<1>8. Theirs'  BY <1>1, <1>2, <1>7 DEF Theirs, SameBuffer
<1>9. AtTheirs(n)'  BY <1>1, <1>3, <1>5, <1>6, <1>7 DEF AtTheirs
<1> QED  BY <1>1, <1>8, <1>9, OtherReadsOn

LEMMA OtherReads ==
  ASSUME Id3!TagInv, source = "other", Id3!ReadFrame
  PROVE  Id3!OtherInv'
<1>1. /\ SameBuffer /\ id3_pc = "read" /\ id3_pc' = "read" /\ id3_pos < id3_tagsize
      /\ id3_pos + Id3!Header + Id3!HereSize <= id3_tagsize /\ Id3!Here.id # "padding"
      /\ Id3!HereSize <= 1000 * 1000 /\ id3_tagsize' = id3_tagsize
      /\ id3_pos' = id3_pos + Id3!Header + Id3!HereSize
      /\ id3_tag' = IF Id3!Identifier = "none" THEN id3_tag
                    ELSE [id3_tag EXCEPT !.frames = Append(@,
                            IF "compress" \in Id3!Here.flags THEN Id3!Frame(Id3!Identifier, 0, Id3!NoText)
                            ELSE Id3!Frame(Id3!Identifier, Id3!HereSize - Id3!ExtraHeaders(Id3!Here.flags),
                                           Id3!Here.data))]
  BY DEF Id3!ReadFrame, SameBuffer
<1>2. PICK n : Theirs /\ AtTheirs(n)  BY <1>1, OtherReading
<1> DEFINE h == Id3!HeaderSize(id3_buffer.version)
           s == Id3!FrameSize(id3_buffer.version, id3_buffer.frames[n + 1].size)
           A == Id3!Altered(id3_tag.frames)
<1>3. /\ id3_buffer \in Foreign /\ id3_tagsize = Id3!GetSize28(id3_buffer.size)
      /\ id3_buffer.version \in 2 .. 4 /\ id3_tag.version = id3_buffer.version
      /\ id3_tag.frames \in Seq(Id3!TheirFrames)
      /\ id3_tag = [version |-> id3_buffer.version, frames |-> id3_tag.frames]
      /\ n \in 0 .. FrameCount /\ Fits(n) /\ End(n) <= id3_tagsize
      /\ id3_pos = End(n) \/ id3_pos = id3_tagsize
      /\ Len(A) = Id3!KeptCount(n)
  BY <1>2 DEF Theirs, AtTheirs
<1>4. FrameCount \in Nat /\ id3_tagsize \in Nat /\ h \in {6, 10} /\ Id3!Header = h
      /\ DOMAIN id3_buffer.frames = 1 .. FrameCount
  BY <1>3, TheirsIs DEF Id3!Header
<1>5. id3_pos = End(n)  BY <1>1, <1>3, <1>4
<1>6. n < FrameCount
  <2>1. ~(n = FrameCount)  BY <1>1, <1>3, <1>5, TheirHere
  <2> QED  BY <1>3, <1>4, <2>1
<1>7. n + 1 \in 1 .. FrameCount /\ n + 1 \in 0 .. FrameCount /\ n \in 0 .. FrameCount - 1 /\ n \in Nat
  BY <1>3, <1>4, <1>6
<1>8. Id3!Here = id3_buffer.frames[n + 1] /\ Id3!HereSize = s
  <2>1. Id3!Here = id3_buffer.frames[n + 1]  BY <1>3, <1>5, <1>6, TheirHere
  <2> QED  BY <1>3, <2>1 DEF Id3!HereSize
<1>9. /\ s \in Nat /\ End(n + 1) = End(n) + h + s /\ (Id3!Large(id3_buffer, n + 1) <=> s > 1000 * 1000)
      /\ End(n) \in Nat
  <2>1. PICK m \in 1 .. FrameCount : m = n + 1  BY <1>7
  <2>2. m - 1 = n /\ n \in Nat  BY <1>7, <2>1
  <2>3. /\ Id3!FrameSize(id3_buffer.version, id3_buffer.frames[m].size) \in Nat
        /\ End(m) = id3_buffer.frames[m].at + Id3!HeaderSize(id3_buffer.version)
                     + Id3!FrameSize(id3_buffer.version, id3_buffer.frames[m].size)
        /\ Id3!Large(id3_buffer, m)
             <=> Id3!FrameSize(id3_buffer.version, id3_buffer.frames[m].size) > 1000 * 1000
    BY <1>3, TheirsIs
  <2>4. id3_buffer.frames[n + 1].at = End(n)  BY <1>3, <1>7, TheirsIs
  <2>5. End(n) \in Nat  BY <1>3, TheirsIs
  <2> QED  BY <2>1, <2>2, <2>3, <2>4, <2>5
<1>10. Fits(n + 1)
  <2>1. ~Id3!Large(id3_buffer, n + 1)
    <3> HIDE DEF s
    <3> QED  BY <1>1, <1>8, <1>9
  <2>2. \A j \in 1 .. n + 1 : j \in 1 .. n \/ j = n + 1  BY <1>7
  <2> QED  BY <1>3, <2>1, <2>2 DEF Fits
<1>11. End(n + 1) <= id3_tagsize /\ id3_pos' = End(n + 1)
  <2> HIDE DEF s, h
  <2> QED  BY <1>1, <1>4, <1>5, <1>8, <1>9
<1>12. /\ id3_tag'.version = id3_buffer.version /\ id3_tag'.frames \in Seq(Id3!TheirFrames)
       /\ id3_tag' = [version |-> id3_buffer.version, frames |-> id3_tag'.frames]
       /\ Len(Id3!Altered(id3_tag'.frames)) = Id3!KeptCount(n + 1)
  <2>0. Id3!KeptCount(n) \in Nat
        /\ Id3!KeptCount(n + 1) = Id3!KeptCount(n) + (IF Id3!Kept(n + 1) THEN 1 ELSE 0)
    BY <1>7, KeptCounts
  <2>1. /\ id3_buffer.version # 2 =>
             Id3!Identifier = IF id3_buffer.frames[n + 1].id \in Id3!Known
                              THEN id3_buffer.frames[n + 1].id ELSE "none"
        /\ id3_buffer.version = 2 =>
             Id3!Identifier = IF id3_buffer.frames[n + 1].id \in {"TT2", "TLE", "PIC"}
                              THEN Id3!Known22[id3_buffer.frames[n + 1].id] ELSE "none"
    <3>1. DOMAIN Id3!Known22 = {"TT2", "TLE", "PIC"}  BY DEF Id3!Known22
    <3> QED  BY <1>3, <1>8, <3>1 DEF Id3!Identifier
  <2>2. /\ Id3!Known22["TT2"] = "TIT2" /\ Id3!Known22["TLE"] = "TLEN" /\ Id3!Known22["PIC"] = "none"
        /\ "none" \notin Id3!Known /\ {"TIT2", "TLEN"} \subseteq Id3!Known
        /\ "TIT2" \notin Id3!Discarded /\ "TLEN" \in Id3!Discarded
    BY DEF Id3!Known22, Id3!Known, Id3!Discarded
  <2>3. /\ Id3!Identifier \in Id3!Known \cup {"none"}
        /\ Id3!Kept(n + 1) <=> Id3!Identifier \in Id3!Known \ Id3!Discarded
    BY <2>1, <2>2 DEF Id3!Kept
  <2>4. CASE Id3!Identifier = "none"
    <3>1. id3_tag' = id3_tag /\ ~Id3!Kept(n + 1)  BY <1>1, <2>2, <2>3, <2>4
    <3>2. Id3!KeptCount(n + 1) = Id3!KeptCount(n)  BY <2>0, <3>1
    <3> QED  BY <1>3, <3>1, <3>2
  <2>5. CASE Id3!Identifier # "none"
    <3>1. Id3!Identifier \in Id3!Known  BY <2>3, <2>5
    <3>2. PICK f : f = IF "compress" \in Id3!Here.flags THEN Id3!Frame(Id3!Identifier, 0, Id3!NoText)
                       ELSE Id3!Frame(Id3!Identifier, Id3!HereSize - Id3!ExtraHeaders(Id3!Here.flags),
                                      Id3!Here.data)
      OBVIOUS
    <3>3. id3_tag' = [id3_tag EXCEPT !.frames = Append(id3_tag.frames, f)]  BY <1>1, <2>5, <3>2
    <3>4. f.id = Id3!Identifier  BY <3>2 DEF Id3!Frame
    <3>5. Id3!ExtraHeaders(Id3!Here.flags) \in Int
      <4>1. PICK S : S = Id3!Here.flags \cap {"encrypt", "group"}  OBVIOUS
      <4>2. S \subseteq {"encrypt", "group"}  BY <4>1
      <4>3. IsFiniteSet({"encrypt"} \cup {"group"})
        <5>1. IsFiniteSet({"encrypt"})  BY FS_Singleton
        <5> QED  BY <5>1, FS_AddElement
      <4>4. {"encrypt", "group"} = {"encrypt"} \cup {"group"}  OBVIOUS
      <4>5. IsFiniteSet(S)  BY <4>2, <4>3, <4>4, FS_Subset
      <4>6. Cardinality(S) \in Nat  BY <4>5, FS_CardinalityType
      <4>7. Id3!ExtraHeaders(Id3!Here.flags) =
              (IF "compress" \in Id3!Here.flags THEN 4 ELSE 0) + Cardinality(S)
        BY <4>1, SameCardinality DEF Id3!ExtraHeaders
      <4> QED  BY <4>6, <4>7
    <3>6. f \in Id3!TheirFrames
      <4>1. Id3!Here.data \in {id3_buffer.frames[k].data : k \in DOMAIN id3_buffer.frames}
        BY <1>4, <1>7, <1>8
      <4>2. Id3!HereSize - Id3!ExtraHeaders(Id3!Here.flags) \in Int
        <5> HIDE DEF s
        <5> QED  BY <1>8, <1>9, <3>5
      <4> QED  BY <3>1, <3>2, <4>1, <4>2 DEF Id3!TheirFrames, Id3!Frame
    <3>7. id3_tag'.frames = Append(id3_tag.frames, f) /\ id3_tag'.version = id3_buffer.version
          /\ id3_tag' = [version |-> id3_buffer.version, frames |-> Append(id3_tag.frames, f)]
      BY <1>3, <3>3
    <3>8. Append(id3_tag.frames, f) \in Seq(Id3!TheirFrames)  BY <1>3, <3>6
    <3>9. A \in Seq(Id3!TheirFrames)
          /\ Id3!Altered(Append(id3_tag.frames, f)) = IF f.id \in Id3!Discarded THEN A ELSE Append(A, f)
      BY <1>3, <3>6, AlteredIs
    <3>10. f.id \in Id3!Discarded <=> ~Id3!Kept(n + 1)  BY <2>3, <3>1, <3>4
    <3>11. Len(Append(A, f)) = Len(A) + 1
      <4> HIDE DEF A
      <4> QED  BY <3>6, <3>9
    <3>12. Len(Id3!Altered(Append(id3_tag.frames, f))) = Id3!KeptCount(n + 1)
      <4> HIDE DEF A
      <4>1. CASE Id3!Kept(n + 1)  BY <1>3, <2>0, <3>9, <3>10, <3>11, <4>1
      <4>2. CASE ~Id3!Kept(n + 1)  BY <1>3, <2>0, <3>9, <3>10, <4>2
      <4> QED  BY <4>1, <4>2
    <3> QED  BY <3>7, <3>8, <3>12
  <2> QED  BY <2>4, <2>5
<1>13. /\ Id3!TheirFrames' = Id3!TheirFrames /\ Id3!KeptCount(n + 1)' = Id3!KeptCount(n + 1)
       /\ FrameCount' = FrameCount /\ End(n + 1)' = End(n + 1) /\ Fits(n + 1)' = Fits(n + 1)
  BY <1>1, SameTheirs DEF SameBuffer, FrameCount, End, Fits
<1>14. Theirs'
  <2> HIDE DEF A, h, s
  <2> QED  BY <1>1, <1>3, <1>12, <1>13 DEF Theirs, SameBuffer
<1>15. AtTheirs(n + 1)'
  <2> HIDE DEF A, h, s
  <2> QED  BY <1>1, <1>7, <1>10, <1>11, <1>12, <1>13 DEF AtTheirs
<1> QED  BY <1>1, <1>14, <1>15, OtherReadsOn

LEMMA OtherEnds ==
  ASSUME Id3!TagInv, source = "other", Id3!ReadEnds
  PROVE  Id3!OtherInv'
<1>1. /\ SameBuffer /\ id3_pc = "read" /\ id3_pc' = "alter" /\ id3_pos >= id3_tagsize
      /\ id3_tag' = id3_tag
  BY DEF Id3!ReadEnds, SameBuffer
<1>2. PICK n : Theirs /\ AtTheirs(n)  BY <1>1, OtherReading
<1> DEFINE h == Id3!HeaderSize(id3_buffer.version)
<1>3. /\ id3_buffer \in Foreign /\ id3_buffer.version \in 2 .. 4
      /\ id3_tagsize = Id3!GetSize28(id3_buffer.size)
      /\ id3_tag.version = id3_buffer.version /\ id3_tag.frames \in Seq(Id3!TheirFrames)
      /\ id3_tag = [version |-> id3_buffer.version, frames |-> id3_tag.frames]
      /\ n \in 0 .. FrameCount /\ Fits(n) /\ End(n) <= id3_tagsize
      /\ \/ id3_pos = End(n)
         \/ n = FrameCount /\ End(n) + Id3!Header <= id3_tagsize
      /\ Len(Id3!Altered(id3_tag.frames)) = Id3!KeptCount(n)
  BY <1>2 DEF Theirs, AtTheirs
<1>4. FrameCount \in Nat /\ id3_tagsize \in Nat /\ h \in {6, 10} /\ Id3!Header = h /\ End(n) \in Nat
  BY <1>3, TheirsIs DEF Id3!Header
<1>5. n = FrameCount
  <2> SUFFICES ASSUME n # FrameCount PROVE FALSE
    OBVIOUS
  <2>1. n < FrameCount /\ id3_pos = End(n)  BY <1>3, <1>4
  <2>2. End(n) < id3_tagsize  BY <1>3, <2>1, TheirHere
  <2> QED  BY <1>1, <1>4, <2>1, <2>2
<1>6. id3_tagsize - End(n) = 0 \/ id3_tagsize - End(n) >= h
  <2> HIDE DEF h
  <2> QED  BY <1>1, <1>3, <1>4
<1>7. Id3!WellFormed
  <2> HIDE DEF h
  <2> QED  BY <1>3, <1>5, <1>6, WellFormedIs DEF h
<1>8. /\ Id3!WellFormed' /\ Id3!TheirFrames' = Id3!TheirFrames
      /\ Id3!KeptCount(FrameCount)' = Id3!KeptCount(FrameCount)
  BY <1>1, <1>7, SameTheirs DEF SameBuffer, Id3!KeptCount, Id3!Kept, FrameCount
<1>9. id3_tag' \in [version : {id3_buffer'.version}, frames : Seq(Id3!TheirFrames')]
  BY <1>1, <1>3, <1>8 DEF SameBuffer
<1>10. Len(Id3!Altered(id3_tag'.frames)) = Id3!KeptCount(Len(id3_buffer.frames))'
  BY <1>1, <1>3, <1>5, <1>8 DEF FrameCount
<1> QED  BY <1>1, <1>3, <1>8, <1>9, <1>10 DEF Id3!OtherInv, SameBuffer

LEMMA OtherAlters ==
  ASSUME Id3!TagInv, source = "other", Id3!AlterFile
  PROVE  Id3!OtherInv'
<1>1. /\ SameBuffer /\ id3_pc = "alter" /\ id3_pc' = "end" /\ source' = "other"
      /\ id3_tag' = [id3_tag EXCEPT !.frames = Id3!Altered(id3_tag.frames)]
  BY DEF Id3!AlterFile, SameBuffer
<1>2. /\ id3_buffer \in Foreign /\ Id3!WellFormed
      /\ Len(Id3!Altered(id3_tag.frames)) = Id3!KeptCount(FrameCount)
      /\ id3_tag \in [version : {id3_buffer.version}, frames : Seq(Id3!TheirFrames)]
  BY <1>1 DEF Id3!TagInv, Id3!OtherInv, FrameCount
<1>3. id3_tag'.version = id3_buffer.version /\ id3_tag'.frames = Id3!Altered(id3_tag.frames)
  BY <1>1, <1>2
<1> QED  BY <1>1, <1>2, <1>3, OtherDone

LEMMA OtherStays ==
  ASSUME Id3!TagInv, source = "other", UNCHANGED Id3!vars
  PROVE  Id3!OtherInv'
<1>1. /\ SameBuffer /\ source' = source /\ id3_pc' = id3_pc /\ id3_tag' = id3_tag
      /\ id3_pos' = id3_pos /\ id3_tagsize' = id3_tagsize /\ id3_buffer' = id3_buffer
  BY DEF Id3!vars, SameBuffer
<1>2. Id3!OtherInv  BY DEF Id3!TagInv
<1>3. CASE id3_pc = "read"
  <2>1. PICK n : Theirs /\ AtTheirs(n)  BY <1>3, OtherReading
  <2>2. /\ Id3!TheirFrames' = Id3!TheirFrames /\ Id3!KeptCount(n)' = Id3!KeptCount(n)
        /\ FrameCount' = FrameCount /\ End(n)' = End(n) /\ Fits(n)' = Fits(n)
        /\ Id3!Header' = Id3!Header
    BY <1>1, SameTheirs DEF FrameCount, End, Fits, Id3!Header
  <2>3. Theirs'  BY <1>1, <2>1, <2>2 DEF Theirs
  <2>4. AtTheirs(n)'  BY <1>1, <2>1, <2>2 DEF AtTheirs
  <2> QED  BY <1>1, <1>3, <2>3, <2>4, OtherReadsOn
<1>4. CASE id3_pc = "alter"
  <2>1. /\ Id3!WellFormed' = Id3!WellFormed /\ Id3!TheirFrames' = Id3!TheirFrames
        /\ Id3!KeptCount(Len(id3_buffer.frames))' = Id3!KeptCount(Len(id3_buffer.frames))
    BY <1>1, SameTheirs DEF Id3!KeptCount, Id3!Kept
  <2>2. /\ id3_tag' \in [version : {id3_buffer'.version}, frames : Seq(Id3!TheirFrames')]
        /\ Id3!WellFormed' /\ id3_buffer' \in Foreign
        /\ Len(Id3!Altered(id3_tag'.frames)) = Id3!KeptCount(Len(id3_buffer.frames))'
    BY <1>1, <1>2, <1>4, <2>1 DEF Id3!OtherInv
  <2> QED  BY <1>1, <1>4, <2>2 DEF Id3!OtherInv
<1>5. CASE id3_pc = "open"
  BY <1>1, <1>2, <1>5 DEF Id3!OtherInv
<1>6. CASE id3_pc = "end"
  <2>1. /\ id3_buffer \in Foreign /\ Id3!TagReadsBack
    BY <1>2, <1>6 DEF Id3!OtherInv
  <2>2. DOMAIN id3_buffer.frames = 1 .. FrameCount  BY <2>1, TheirsIs
  <2>3. IF Id3!WellFormed
        THEN id3_tag.version = id3_buffer.version /\ Len(id3_tag.frames) = Id3!KeptCount(FrameCount)
        ELSE id3_tag = Id3!NewTag
    BY <1>6, <2>1, <2>2 DEF Id3!TagReadsBack, Id3!KeptCount
  <2> QED  BY <1>1, <1>6, <2>1, <2>3, OtherDone
<1> QED  BY <1>2, <1>3, <1>4, <1>5, <1>6 DEF Id3!OtherInv

LEMMA OtherKept ==
  ASSUME Id3!TagInv, source = "other", [Id3!Next]_(Id3!vars)
  PROVE  Id3!OtherInv'
<1>1. ~Id3!Create /\ ~Id3!AddFrame /\ ~Id3!WriteTag
  BY DEF Id3!Create, Id3!AddFrame, Id3!WriteTag, Id3!TagInv, Id3!OtherInv
<1>2. Id3!Ended => UNCHANGED Id3!vars  BY DEF Id3!Ended
<1> QED
  BY <1>1, <1>2, OtherOpens, OtherOpenFails, OtherFrameFails, OtherSkips, OtherReads, OtherEnds,
     OtherAlters, OtherStays DEF Id3!Next

-----------------------------------------------------------------------------
(* The invariant, and the property *)

LEMMA TagStarts == Id3!Init => Id3!TagInv
<1> SUFFICES ASSUME Id3!Init PROVE Id3!TagInv
  OBVIOUS
<1>1. id3_tag_mode \in 0 .. 5 /\ text \in DiscTexts
      /\ \/ source = "disc" /\ id3_pc = "create"
         \/ source = "other" /\ id3_pc = "open" /\ id3_buffer \in Foreign
  BY DEF Id3!Init
<1>2. source = "disc" => Id3!DiscInv  BY <1>1 DEF Id3!DiscInv
<1>3. source = "other" => Id3!OtherInv  BY <1>1 DEF Id3!OtherInv
<1> QED  BY <1>1, <1>2, <1>3 DEF Id3!TagInv

LEMMA TagKept == Id3!TagInv /\ [Id3!Next]_(Id3!vars) => Id3!TagInv'
<1> SUFFICES ASSUME Id3!TagInv, [Id3!Next]_(Id3!vars) PROVE Id3!TagInv'
  OBVIOUS
<1>1. id3_tag_mode' = id3_tag_mode /\ text' = text /\ source' = source  BY ConstantTexts
<1>2. id3_tag_mode \in 0 .. 5 /\ text \in DiscTexts /\ source \in {"disc", "other"}
  BY DEF Id3!TagInv
<1>3. source = "disc" => Id3!DiscInv'  BY DiscKept
<1>4. source = "other" => Id3!OtherInv'  BY OtherKept
<1> QED  BY <1>1, <1>2, <1>3, <1>4 DEF Id3!TagInv

LEMMA TagFollows == Id3!TagInv => Id3!TagReadsBack
<1> SUFFICES ASSUME Id3!TagInv PROVE Id3!TagReadsBack
  OBVIOUS
<1>1. CASE source = "disc"
  <2> SUFFICES ASSUME id3_pc = "end", Id3!FramesSize(Id3!Rendered) < 16384
               PROVE  /\ id3_tag.frames = Id3!Rendered
                      /\ \A f \in Id3!ToSet(id3_tag.frames) :
                           f.data # Id3!NoText => f.fr_size >= Id3!Used(f.id, f.data[1], f.data[2])
                      /\ Id3!Minimal(id3_tag_mode) =>
                           {f.id : f \in Id3!ToSet(id3_tag.frames)} \subseteq MinimalIds
                      /\ \E f \in Id3!ToSet(id3_tag.frames) : f.id = "TRCK"
    BY <1>1 DEF Id3!TagReadsBack, MinimalIds
  <2>1. id3_tag_mode \in 0 .. 5 /\ text \in DiscTexts /\ id3_tag.frames = Id3!Rendered
    BY <1>1 DEF Id3!TagInv, Id3!DiscInv, Id3!Small
  <2>2. PICK n \in Nat : n = Len(Id3!Plan) /\ DOMAIN Id3!Rendered = 1 .. n /\ n > 0
    <3> DEFINE V == {Id3!Rendered[k] : k \in 1 .. Len(Id3!Plan)}
    <3>2. Id3!Rendered \in Seq(V) /\ Len(Id3!Rendered) = Len(Id3!Plan) /\ Len(Id3!Plan) > 0
          /\ Len(Id3!Plan) \in Nat
      BY <2>1, RenderedIs
    <3> HIDE DEF V
    <3> QED  BY <3>2
  <2>3. Id3!ToSet(id3_tag.frames) = {Id3!Rendered[k] : k \in 1 .. n}
    BY <2>1, <2>2 DEF Id3!ToSet
  <2>4. \A k \in 1 .. n :
          LET f == Id3!Rendered[k] IN
          /\ f.id \in Ids
          /\ f.data # Id3!NoText => f.fr_size >= Id3!Used(f.id, f.data[1], f.data[2])
    BY <2>1, <2>2, RenderedIs
  <2>5. n \in 1 .. n /\ Id3!Rendered[n].id = "TRCK"  BY <2>1, <2>2, RenderedIs
  <2>6. Id3!Minimal(id3_tag_mode) => Ids = MinimalIds  BY DEF Ids
  <2> QED  BY <2>1, <2>3, <2>4, <2>5, <2>6
<1>2. CASE source = "other"
  <2>1. id3_pc = "end" => Id3!TagReadsBack  BY <1>2 DEF Id3!TagInv, Id3!OtherInv
  <2>2. id3_pc # "end" => Id3!TagReadsBack  BY DEF Id3!TagReadsBack
  <2> QED  BY <2>1, <2>2
<1> QED  BY <1>1, <1>2 DEF Id3!TagInv

-----------------------------------------------------------------------------
(* The writers and the tag within MCWriting, where the first state chooses one *)

LEMMA DsfPart == MCSpec => Spec
<1>1. MCInit => Init  BY DEF MCInit
<1>2. [MCNext]_<<part, vars, dsdiff_vars, main_vars, id3_vars>> => [Next]_vars
  BY DEF MCNext
<1> QED  BY <1>1, <1>2, PTL DEF MCSpec, Spec

LEMMA DsdiffPart == MCSpec => Dsdiff!Spec
<1>1. MCInit => Dsdiff!Init  BY DEF MCInit
<1>2. [MCNext]_<<part, vars, dsdiff_vars, main_vars, id3_vars>> => [Dsdiff!Next]_Dsdiff!vars
  <2>1. UNCHANGED dsdiff_vars => UNCHANGED Dsdiff!vars
    BY DEF dsdiff_vars, Dsdiff!vars, Dsdiff!setting, Dsdiff!final
  <2> QED  BY <2>1 DEF MCNext
<1> QED  BY <1>1, <1>2, PTL DEF MCSpec, Dsdiff!Spec

LEMMA Id3Part == MCSpec => Id3!Init /\ [][Id3!Next]_(Id3!vars)
<1>1. MCInit => Id3!Init  BY DEF MCInit
<1>2. [MCNext]_<<part, vars, dsdiff_vars, main_vars, id3_vars>> => [Id3!Next]_(Id3!vars)
  BY DEF MCNext, id3_vars, Id3!vars
<1> QED  BY <1>1, <1>2, PTL DEF MCSpec

LEMMA TagInvariant == MCSpec => []Id3!TagInv
<1>1. Id3!TagInv /\ [Id3!Next]_(Id3!vars) => Id3!TagInv'  BY TagKept
<1> QED  BY <1>1, TagStarts, Id3Part, PTL

\* The inductive invariants of both writers and of the tag hold whatever is written.
THEOREM WritersInvariant == MCSpec => []TypesOK
<1>1. Dsdiff!Spec => []Dsdiff!DsdiffInv  BY Dsdiff!DsdiffInvariant, DsdiffNumbers
<1> QED  BY <1>1, DsfPart, DsdiffPart, DsfInvariant, TagInvariant, PTL DEF TypesOK

\* The chunks of a closed DSDIFF file follow each other without a gap, for every
\* length of the texts and the tag, every number of tracks, channels and frames.
THEOREM TilesFile == MCSpec => []ChunksTileFile
<1>1. Dsdiff!Spec => []Dsdiff!ChunksTileFile  BY Dsdiff!TilesFile, DsdiffNumbers
<1> QED  BY <1>1, DsdiffPart, PTL DEF ChunksTileFile

\* The index of a closed DST file leads to every frame, however often it grew.
THEOREM IndexesFrames == MCSpec => []IndexFindsFrames
<1>1. Dsdiff!Spec => []Dsdiff!IndexFindsFrames  BY Dsdiff!IndexesFrames, DsdiffNumbers
<1> QED  BY <1>1, DsdiffPart, PTL DEF IndexFindsFrames

\* A tag below 16 KB is read back as it was rendered, whatever the texts of the
\* disc are; of the tag of another program no frame is lost that need not be
\* discarded, or the tag is refused.
THEOREM TagsReadBack == MCSpec => []TagReadsBack
<1>1. Id3!TagInv => TagReadsBack  BY TagFollows DEF TagReadsBack
<1> QED  BY <1>1, TagInvariant, PTL
=============================================================================
