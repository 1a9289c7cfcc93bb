-------------------------- MODULE DstDecoderProofs --------------------------
(* Proofs about DstDecoder, for every number of decode threads and frames.    *)
EXTENDS DstDecoder, SequenceTheorems, FiniteSetTheorems, TLAPS

-----------------------------------------------------------------------------
(* The lists: what the operations on them do to their elements. *)

\* Taking the head of a list without repetitions removes just that element.
LEMMA PopElements ==
  ASSUME NEW S, NEW list \in Seq(S), list # <<>>, NoRepeat(list)
  PROVE  /\ Head(list) \in Elements(list)
         /\ Tail(list) \in Seq(S)
         /\ Len(Tail(list)) = Len(list) - 1
         /\ Elements(Tail(list)) = Elements(list) \ {Head(list)}
         /\ NoRepeat(Tail(list))
<1>1. /\ Len(list) \in Nat \ {0} /\ DOMAIN list = 1..Len(list)
      /\ Head(list) = list[1]
  OBVIOUS
<1>2. /\ Tail(list) \in Seq(S) /\ Len(Tail(list)) = Len(list) - 1
      /\ DOMAIN Tail(list) = 1..(Len(list) - 1)
      /\ \A i \in 1..(Len(list) - 1) : Tail(list)[i] = list[i + 1]
  OBVIOUS
<1>3. Head(list) \in Elements(list)
  BY <1>1 DEF Elements
<1>4. NoRepeat(Tail(list))
  BY <1>1, <1>2 DEF NoRepeat
<1>5. Elements(Tail(list)) \subseteq Elements(list) \ {Head(list)}
  BY <1>1, <1>2 DEF Elements, NoRepeat
<1>6. ASSUME NEW e \in Elements(list) \ {Head(list)}
      PROVE  e \in Elements(Tail(list))
  <2>1. PICK i \in 1..Len(list) : e = list[i]
    BY <1>1 DEF Elements
  <2>2. i - 1 \in 1..(Len(list) - 1) /\ Tail(list)[i - 1] = e
    BY <1>1, <1>2, <2>1
  <2> QED BY <1>2, <2>2 DEF Elements
<1> QED BY <1>2, <1>3, <1>4, <1>5, <1>6

\* Pushing on a free stack, as buffer_pool_drop_space does.
LEMMA PushElements ==
  ASSUME NEW S, NEW list \in Seq(S), NEW e \in S
  PROVE  /\ <<e>> \o list \in Seq(S)
         /\ Elements(<<e>> \o list) = Elements(list) \cup {e}
         /\ e \notin Elements(list) /\ NoRepeat(list) => NoRepeat(<<e>> \o list)
<1> DEFINE new == <<e>> \o list
<1>1. /\ Len(list) \in Nat /\ DOMAIN list = 1..Len(list)
      /\ new \in Seq(S) /\ DOMAIN new = 1..(Len(list) + 1)
      /\ new[1] = e
      /\ \A i \in 1..Len(list) : new[i + 1] = list[i]
  OBVIOUS
<1>2. \A i \in 1..(Len(list) + 1) : i = 1 \/ (i - 1 \in 1..Len(list) /\ new[i] = list[i - 1])
  BY <1>1
<1> HIDE DEF new
<1>3. Elements(new) = Elements(list) \cup {e}
  <2>1. Elements(new) \subseteq Elements(list) \cup {e}
    BY <1>1, <1>2 DEF Elements
  <2>2. e \in Elements(new)
    <3>1. 1 \in DOMAIN new /\ new[1] = e
      BY <1>1
    <3> QED BY <3>1 DEF Elements
  <2>3. ASSUME NEW i \in 1..Len(list)
        PROVE  list[i] \in Elements(new)
    <3>1. i + 1 \in DOMAIN new /\ new[i + 1] = list[i]
      BY <1>1
    <3> QED BY <3>1 DEF Elements
  <2> QED BY <1>1, <2>1, <2>2, <2>3, ZenonT(30) DEF Elements
<1>4. ASSUME e \notin Elements(list), NoRepeat(list)
      PROVE  NoRepeat(new)
  <2> SUFFICES ASSUME NEW i \in DOMAIN new, NEW j \in DOMAIN new, new[i] = new[j]
               PROVE  i = j
    BY DEF NoRepeat
  <2>1. /\ i = 1 \/ (i - 1 \in 1..Len(list) /\ new[i] = list[i - 1])
        /\ j = 1 \/ (j - 1 \in 1..Len(list) /\ new[j] = list[j - 1])
    BY <1>1, <1>2
  <2>2. \A m \in 1..Len(list) : list[m] # e
    BY <1>1, <1>4 DEF Elements
  <2>3. \A m, o \in 1..Len(list) : list[m] = list[o] => m = o
    BY <1>1, <1>4 DEF NoRepeat
  <2>4. i \in Int /\ j \in Int
    BY <1>1
  <2> QED BY <1>1, <2>1, <2>2, <2>3, <2>4
<1> QED BY <1>1, <1>3, <1>4 DEF new

\* Appending to a list.
LEMMA AppendElements ==
  ASSUME NEW S, NEW list \in Seq(S), NEW e \in S
  PROVE  /\ Append(list, e) \in Seq(S)
         /\ Len(Append(list, e)) = Len(list) + 1
         /\ Elements(Append(list, e)) = Elements(list) \cup {e}
         /\ e \notin Elements(list) /\ NoRepeat(list) => NoRepeat(Append(list, e))
<1> DEFINE new == Append(list, e)
<1>1. /\ Len(list) \in Nat /\ DOMAIN list = 1..Len(list)
      /\ new \in Seq(S) /\ DOMAIN new = 1..(Len(list) + 1)
      /\ Len(new) = Len(list) + 1
      /\ new[Len(list) + 1] = e
      /\ \A i \in 1..Len(list) : new[i] = list[i]
  OBVIOUS
<1> HIDE DEF new
<1>3. Elements(new) = Elements(list) \cup {e}
  BY <1>1 DEF Elements
<1>4. ASSUME e \notin Elements(list), NoRepeat(list)
      PROVE  NoRepeat(new)
  BY <1>1, <1>4 DEF Elements, NoRepeat
<1> QED BY <1>1, <1>3, <1>4 DEF new

\* A list in ascending order holds nothing twice, and so does what is left of it
\* when its head is taken.
LEMMA AscendingList ==
  ASSUME NEW S \in SUBSET Nat, NEW list \in Seq(S), Ascending(list), list # <<>>
  PROVE  NoRepeat(list) /\ Ascending(Tail(list))
<1> DEFINE n == Len(list)
           rest == Tail(list)
<1>1. /\ n \in Nat /\ DOMAIN list = 1..n
      /\ DOMAIN rest = 1..(n - 1)
      /\ \A i \in 1..(n - 1) : rest[i] = list[i + 1]
      /\ \A i \in 1..n : list[i] \in S
  OBVIOUS
<1>2. \A i, j \in 1..n : i < j => list[i] < list[j]
  BY <1>1 DEF Ascending
<1> HIDE DEF n, rest
<1>3. \A i \in 1..n : list[i] \in Nat
  BY <1>1
<1>4. NoRepeat(list)
  <2> SUFFICES ASSUME NEW i \in 1..n, NEW j \in 1..n, list[i] = list[j], i # j
               PROVE  FALSE
    BY <1>1 DEF NoRepeat
  <2>1. i < j \/ j < i
    BY <1>1
  <2> QED BY <1>2, <1>3, <2>1
<1>5. Ascending(rest)
  <2> SUFFICES ASSUME NEW i \in 1..(n - 1), NEW j \in 1..(n - 1), i < j
               PROVE  rest[i] < rest[j]
    BY <1>1 DEF Ascending
  <2>1. /\ i + 1 \in 1..n /\ j + 1 \in 1..n /\ i + 1 < j + 1
        /\ rest[i] = list[i + 1] /\ rest[j] = list[j + 1]
    BY <1>1
  <2> QED BY <1>2, <2>1
<1> QED BY <1>4, <1>5 DEF rest

\* The insertion of decode_thread keeps the write list in ascending order.
LEMMA InsertElements ==
  ASSUME NEW S \in SUBSET Nat, NEW list \in Seq(S), NEW job \in S,
         NEW k \in 0..Len(list),
         job \notin Elements(list), Ascending(list), StopsAt(list, job, k)
  PROVE  /\ Inserted(list, job, k) \in Seq(S)
         /\ Inserted(list, job, k) # <<>>
         /\ Elements(Inserted(list, job, k)) = Elements(list) \cup {job}
         /\ Ascending(Inserted(list, job, k))
<1> DEFINE n == Len(list)
           new == Inserted(list, job, k)
<1>1. n \in Nat /\ DOMAIN list = 1..n /\ k \in Nat /\ k <= n
  OBVIOUS
<1>2. /\ new \in Seq(S) /\ Len(new) = n + 1 /\ DOMAIN new = 1..(n + 1)
      /\ \A i \in 1..(n + 1) :
           new[i] = IF i <= k THEN list[i] ELSE IF i = k + 1 THEN job ELSE list[i - 1]
  <2> DEFINE a == SubSeq(list, 1, k)
             b == SubSeq(list, k + 1, n)
             c == a \o <<job>>
  <2>1. /\ a \in Seq(S) /\ Len(a) = k
        /\ \A i \in 1..k : a[i] = list[i]
    BY <1>1
  <2>2. /\ b \in Seq(S) /\ Len(b) = n - k
        /\ \A i \in 1..(n - k) : b[i] = list[i + k]
    <3> HIDE DEF n
    <3>1. /\ k + 1 \in Int /\ n \in Int
          /\ \A i \in (k + 1)..n : list[i] \in S
      BY <1>1
    <3>2. /\ b \in Seq(S)
          /\ Len(b) = IF k + 1 <= n THEN n - (k + 1) + 1 ELSE 0
          /\ \A i \in 1..(n - (k + 1) + 1) : b[i] = list[(k + 1) + i - 1]
      BY <3>1, SubSeqProperties
    <3> HIDE DEF b
    <3>3. /\ k + 1 <= n \/ n = k
          /\ n - (k + 1) + 1 = n - k
          /\ \A i \in 1..(n - k) : (k + 1) + i - 1 = i + k
      BY <1>1
    <3>4. Len(b) = n - k
      BY <1>1, <3>2, <3>3
    <3> QED BY <3>2, <3>3, <3>4
  <2> HIDE DEF a, b
  <2>3. /\ c \in Seq(S) /\ Len(c) = k + 1
        /\ \A i \in 1..k : c[i] = list[i]
        /\ c[k + 1] = job
    BY <1>1, <2>1
  <2> HIDE DEF c
  <2>4. new = c \o b
    BY DEF Inserted, a, b, c
  <2> HIDE DEF new, n
  <2>5. /\ new \in Seq(S) /\ Len(new) = n + 1 /\ DOMAIN new = 1..(n + 1)
        /\ \A i \in 1..(k + 1) : new[i] = c[i]
        /\ \A i \in 1..(n + 1) : i > k + 1 => new[i] = b[i - (k + 1)]
    <3>1. /\ new \in Seq(S) /\ Len(new) = Len(c) + Len(b)
          /\ \A i \in 1..(Len(c) + Len(b)) :
               new[i] = IF i <= Len(c) THEN c[i] ELSE b[i - Len(c)]
      BY <2>2, <2>3, <2>4, ConcatProperties
    <3>2. Len(c) + Len(b) = n + 1 /\ Len(c) = k + 1 /\ Len(b) \in Nat
      BY <1>1, <2>2, <2>3
    <3> QED BY <1>1, <3>1, <3>2
  <2>6. ASSUME NEW i \in 1..(n + 1)
        PROVE  new[i] = IF i <= k THEN list[i] ELSE IF i = k + 1 THEN job ELSE list[i - 1]
    <3>1. CASE i <= k + 1
      BY <1>1, <2>3, <2>5, <3>1
    <3>2. CASE i > k + 1
      <4>1. new[i] = b[i - (k + 1)] /\ i - (k + 1) \in 1..(n - k)
        BY <1>1, <2>5, <3>2
      <4> QED BY <1>1, <2>2, <3>2, <4>1
    <3> QED BY <1>1, <3>1, <3>2
  <2> QED BY <2>5, <2>6
<1> HIDE DEF new, n
<1>3. ASSUME NEW i \in 1..(n + 1)
      PROVE  new[i] \in Elements(list) \cup {job}
  <2>1. CASE i <= k
    <3>1. i \in DOMAIN list /\ new[i] = list[i]
      BY <1>1, <1>2, <2>1
    <3> QED BY <3>1 DEF Elements
  <2>2. CASE i = k + 1
    BY <1>1, <1>2, <2>2
  <2>3. CASE i > k + 1
    <3>1. i - 1 \in DOMAIN list /\ new[i] = list[i - 1]
      BY <1>1, <1>2, <2>3
    <3> QED BY <3>1 DEF Elements
  <2> QED BY <1>1, <2>1, <2>2, <2>3
<1>4. job \in Elements(new)
  <2>1. k + 1 \in DOMAIN new /\ new[k + 1] = job
    BY <1>1, <1>2
  <2> QED BY <2>1 DEF Elements
<1>5. ASSUME NEW i \in 1..n
      PROVE  list[i] \in Elements(new)
  <2>1. CASE i <= k
    <3>1. i \in DOMAIN new /\ new[i] = list[i]
      BY <1>1, <1>2, <2>1
    <3> QED BY <3>1 DEF Elements
  <2>2. CASE i > k
    <3>1. i + 1 \in 1..(n + 1) /\ new[i + 1] = list[i]
      BY <1>1, <1>2, <2>2
    <3> QED BY <1>2, <3>1 DEF Elements
  <2> QED BY <1>1, <2>1, <2>2
<1>6. Elements(new) = Elements(list) \cup {job}
  BY <1>1, <1>2, <1>3, <1>4, <1>5 DEF Elements
<1>7. \A i \in 1..n : list[i] \in Nat /\ list[i] # job /\ job \in Nat
  <2> SUFFICES ASSUME NEW i \in 1..n
               PROVE  list[i] \in S /\ list[i] # job
    OBVIOUS
  <2>1. list[i] \in Elements(list)
    BY <1>1 DEF Elements
  <2>2. list[i] \in S
    BY <1>1
  <2> QED BY <2>1, <2>2
<1>8. \A i \in 1..n : i <= k => list[i] < job
  BY <1>1, <1>7 DEF StopsAt
<1>9. ASSUME NEW i \in 1..n, i > k
      PROVE  list[i] > job
  <2>1. k + 1 \in 1..n /\ list[k + 1] > job
    BY <1>1, <1>9 DEF StopsAt, n
  <2>2. i = k + 1 \/ list[k + 1] < list[i]
    BY <1>1, <1>9, <2>1 DEF Ascending
  <2> QED BY <1>7, <2>1, <2>2
<1>10. Ascending(new)
  <2> SUFFICES ASSUME NEW i \in 1..(n + 1), NEW j \in 1..(n + 1), i < j
               PROVE  new[i] < new[j]
    BY <1>2 DEF Ascending
  <2>1. \A m, o \in 1..n : m < o => list[m] < list[o]
    BY <1>1 DEF Ascending
  <2>2. CASE j <= k
    BY <1>1, <1>2, <2>1, <2>2
  <2>3. CASE j = k + 1
    BY <1>1, <1>2, <1>8, <2>3
  <2>4. CASE j > k + 1
    <3>1. j - 1 \in 1..n /\ new[j] = list[j - 1]
      BY <1>1, <1>2, <2>4
    <3>2. CASE i <= k
      BY <1>1, <1>2, <2>1, <2>4, <3>1, <3>2
    <3>3. CASE i = k + 1
      BY <1>1, <1>2, <1>9, <2>4, <3>1, <3>3
    <3>4. CASE i > k + 1
      <4>1. i - 1 \in 1..n /\ new[i] = list[i - 1]
        BY <1>1, <1>2, <3>4
      <4> QED BY <2>1, <3>1, <4>1
    <3> QED BY <1>1, <3>2, <3>3, <3>4
  <2> QED BY <1>1, <2>2, <2>3, <2>4
<1> QED BY <1>1, <1>2, <1>6, <1>10 DEF new, n

USE DecoderAssumption
    DEF JobNumbers, Decoders, NoSpace, NoneWaiting, ReturnJob, Silence, Garbage

\* A space that buffer_pool_get_space returns is not in the free stack any more,
\* and it was free before or did not exist.
LEMMA GetSpace ==
  ASSUME NEW buf \in Seq(Contents), NEW free \in Seq(1..Len(buf)), NoRepeat(free)
  PROVE  /\ BufAfterGet(free, buf) \in Seq(Contents)
         /\ Len(BufAfterGet(free, buf)) \in {Len(buf), Len(buf) + 1}
         /\ free # <<>> => Len(BufAfterGet(free, buf)) = Len(buf)
         /\ \A s \in 1..Len(buf) : BufAfterGet(free, buf)[s] = buf[s]
         /\ NextSpace(free, buf) \in 1..Len(BufAfterGet(free, buf))
         /\ NextSpace(free, buf) \in 1..Len(buf) => NextSpace(free, buf) \in Elements(free)
         /\ NextSpace(free, buf) \notin Elements(FreeAfterGet(free))
         /\ Elements(FreeAfterGet(free)) \subseteq Elements(free)
         /\ FreeAfterGet(free) \in Seq(1..Len(BufAfterGet(free, buf)))
         /\ NoRepeat(FreeAfterGet(free))
<1>1. CASE free = <<>>
  <2>1. /\ BufAfterGet(free, buf) = Append(buf, Garbage)
        /\ FreeAfterGet(free) = <<>>
        /\ NextSpace(free, buf) = Len(buf) + 1
    BY <1>1 DEF BufAfterGet, FreeAfterGet, NextSpace
  <2>2. Elements(<<>>) = {} /\ NoRepeat(<<>>)
    BY DEF Elements, NoRepeat
  <2>3. /\ Append(buf, Garbage) \in Seq(Contents)
        /\ Len(Append(buf, Garbage)) = Len(buf) + 1
        /\ \A s \in 1..Len(buf) : Append(buf, Garbage)[s] = buf[s]
        /\ Len(buf) \in Nat
    BY DEF Contents
  <2>4. /\ BufAfterGet(free, buf) \in Seq(Contents)
        /\ Len(BufAfterGet(free, buf)) = Len(buf) + 1
        /\ \A s \in 1..Len(buf) : BufAfterGet(free, buf)[s] = buf[s]
    BY <2>1, <2>3
  <2>5. /\ FreeAfterGet(free) \in Seq(1..Len(BufAfterGet(free, buf)))
        /\ Elements(FreeAfterGet(free)) = {} /\ NoRepeat(FreeAfterGet(free))
    BY <2>1, <2>2
  <2>6. /\ NextSpace(free, buf) \in 1..(Len(buf) + 1)
        /\ NextSpace(free, buf) \notin 1..Len(buf)
    BY <2>1, <2>3
  <2> QED BY <1>1, <2>4, <2>5, <2>6
<1>2. CASE free # <<>>
  <2>1. /\ BufAfterGet(free, buf) = buf
        /\ FreeAfterGet(free) = Tail(free)
        /\ NextSpace(free, buf) = Head(free)
    BY <1>2 DEF BufAfterGet, FreeAfterGet, NextSpace
  <2>2. /\ Head(free) \in Elements(free) /\ Head(free) \in 1..Len(buf)
        /\ Tail(free) \in Seq(1..Len(buf))
        /\ Elements(Tail(free)) = Elements(free) \ {Head(free)}
        /\ NoRepeat(Tail(free))
    BY <1>2, PopElements
  <2> QED BY <1>2, <2>1, <2>2
<1> QED BY <1>1, <1>2
-----------------------------------------------------------------------------
(* The inductive invariant: one lemma per action.  Each says first what the   *)
(* action does to the places of the jobs and to the jobs themselves.          *)

\* dst_decoder_create establishes the invariant.
LEMMA InitInv == Init => IInv
<1> SUFFICES ASSUME Init PROVE IInv
  OBVIOUS
<1> USE DEF Init
<1>1. /\ Pending = {} /\ Queued = {} /\ Sorted = {} /\ AtWriter = {}
      /\ \A t \in Decoders : ~Holding(t)
      /\ \A j \in JobNumbers : jobs[j] = NoJob /\ ~jobs[j].live
  BY DEF Pending, Queued, Sorted, AtWriter, Holding, Elements, NoJob
<1>2. TypeOK
  BY DEF TypeOK, MainTypeOK, JobTypeOK, ListTypeOK, ThreadTypeOK, PoolTypeOK,
         LogTypeOK, MainLabels, DecoderLabels, WriterLabels, NoJob, InLimit
<1>3. SequenceInv /\ WriterInv
  BY DEF SequenceInv, WriterInv
<1>4. LiveInv /\ PlaceInv
  BY <1>1 DEF LiveInv, PlaceInv
<1>5. ListInv /\ StackInv
  BY DEF ListInv, ListsMatchLocks, StackInv, NoRepeat, Ascending, Elements
<1>6. JobInv /\ DataInv /\ BuffersExclusive
  BY <1>1 DEF JobInv, DataInv, BuffersExclusive, OwnsInput, OwnsOutput, Holding
<1> QED BY <1>2, <1>3, <1>4, <1>5, <1>6 DEF IInv

\* A call of dst_decoder_decode: no job or list changes yet.
LEMMA SubmitInv ==
  ASSUME IInv, Submit
  PROVE  IInv'
<1> USE DEF IInv, TypeOK, Submit, mainVars, listVars, inVars, outVars,
            writerVars, logVars
<1>1. /\ UNCHANGED <<Pending, Queued, Sorted, AtWriter>>
      /\ \A u \in Decoders : Holding(u)' <=> Holding(u)
      /\ \A j \in JobNumbers : /\ OwnsInput(j)' <=> OwnsInput(j)
                               /\ OwnsOutput(j)' <=> OwnsOutput(j)
                               /\ Decoded(j)' <=> Decoded(j)
  BY DEF Pending, Queued, Sorted, AtWriter, Holding, OwnsInput, OwnsOutput,
         Decoded
<1>2. MainTypeOK'
  BY DEF MainTypeOK, MainLabels
<1>3. ListTypeOK' /\ LogTypeOK'
  BY DEF ListTypeOK, LogTypeOK
<1>4. JobTypeOK'
  BY DEF JobTypeOK
<1>5. ThreadTypeOK'
  BY DEF ThreadTypeOK, DecoderLabels, WriterLabels
<1>6. PoolTypeOK'
  BY DEF PoolTypeOK
<1>7. SequenceInv'
  BY DEF MainTypeOK, SequenceInv
<1>8. WriterInv'
  BY DEF WriterInv, MainTypeOK, SequenceInv
<1>9. LiveInv'
  BY DEF MainTypeOK, ThreadTypeOK, LiveInv, SequenceInv
<1>10. PlaceInv'
  BY <1>1 DEF PlaceInv
<1>11. ListInv'
  BY DEF ListInv, ListsMatchLocks
<1>12. JobInv'
  BY <1>1 DEF JobInv
<1>13. DataInv'
  BY <1>1 DEF ThreadTypeOK, PlaceInv, DataInv
<1>14. BuffersExclusive'
  BY <1>1 DEF BuffersExclusive
<1>15. StackInv'
  BY DEF StackInv
<1> QED BY <1>2, <1>3, <1>4, <1>5, <1>6, <1>7, <1>8, <1>9, <1>10, <1>11,
           <1>12, <1>13, <1>14, <1>15

\* A new decode thread holds no job.
LEMMA LaunchInv ==
  ASSUME IInv, Launch
  PROVE  IInv'
<1> USE DEF IInv, TypeOK, Launch, mainVars, listVars, inVars, outVars,
            writerVars, logVars
<1>1. /\ UNCHANGED <<Pending, Queued, Sorted, AtWriter>>
      /\ \A u \in Decoders : /\ dpc'[u] \in {dpc[u], "take"}
                             /\ Holding(u)' => Holding(u)
      /\ \A j \in JobNumbers : /\ OwnsInput(j)' => OwnsInput(j)
                               /\ OwnsOutput(j)' <=> OwnsOutput(j)
                               /\ Decoded(j)' <=> Decoded(j)
  BY DEF ThreadTypeOK, Pending, Queued, Sorted, AtWriter, Holding, OwnsInput,
         OwnsOutput, Decoded
<1>2. MainTypeOK'
  BY DEF MainTypeOK, MainLabels
<1>3. ListTypeOK' /\ LogTypeOK'
  BY DEF ListTypeOK, LogTypeOK
<1>4. JobTypeOK'
  BY DEF JobTypeOK
<1>5. ThreadTypeOK'
  BY DEF ThreadTypeOK, DecoderLabels, WriterLabels
<1>6. PoolTypeOK'
  BY DEF PoolTypeOK
<1>7. SequenceInv'
  BY DEF MainTypeOK, SequenceInv
<1>8. WriterInv'
  BY DEF WriterInv
<1>9. LiveInv'
  BY DEF MainTypeOK, ThreadTypeOK, LiveInv, SequenceInv
<1>10. PlaceInv'
  BY <1>1 DEF PlaceInv
<1>11. ListInv'
  BY DEF ListInv, ListsMatchLocks
<1>12. JobInv'
  BY <1>1 DEF JobInv
<1>13. DataInv'
  BY <1>1 DEF ThreadTypeOK, PlaceInv, DataInv
<1>14. BuffersExclusive'
  BY <1>1 DEF BuffersExclusive
<1>15. StackInv'
  BY DEF StackInv
<1> QED BY <1>2, <1>3, <1>4, <1>5, <1>6, <1>7, <1>8, <1>9, <1>10, <1>11,
           <1>12, <1>13, <1>14, <1>15

\* The write thread is joined after it has exited.
LEMMA JoinWriterInv ==
  ASSUME IInv, JoinWriter
  PROVE  IInv'
<1> USE DEF IInv, TypeOK, JoinWriter, mainVars, listVars, inVars, outVars,
            writerVars, logVars
<1>1. /\ UNCHANGED <<Pending, Queued, Sorted, AtWriter>>
      /\ \A u \in Decoders : Holding(u)' <=> Holding(u)
      /\ \A j \in JobNumbers : /\ OwnsInput(j)' <=> OwnsInput(j)
                               /\ OwnsOutput(j)' <=> OwnsOutput(j)
                               /\ Decoded(j)' <=> Decoded(j)
  BY DEF Pending, Queued, Sorted, AtWriter, Holding, OwnsInput, OwnsOutput,
         Decoded
<1>2. MainTypeOK'
  BY DEF MainTypeOK, MainLabels
<1>3. ListTypeOK' /\ LogTypeOK'
  BY DEF ListTypeOK, LogTypeOK
<1>4. JobTypeOK'
  BY DEF JobTypeOK
<1>5. ThreadTypeOK'
  BY DEF ThreadTypeOK, DecoderLabels, WriterLabels
<1>6. PoolTypeOK'
  BY DEF PoolTypeOK
<1>7. SequenceInv'
  BY DEF MainTypeOK, SequenceInv
<1>8. WriterInv'
  BY DEF WriterInv
<1>9. LiveInv'
  BY DEF MainTypeOK, ThreadTypeOK, LiveInv, SequenceInv
<1>10. PlaceInv'
  BY <1>1 DEF PlaceInv
<1>11. ListInv'
  BY DEF ListInv, ListsMatchLocks
<1>12. JobInv'
  BY <1>1 DEF JobInv
<1>13. DataInv'
  BY <1>1 DEF ThreadTypeOK, PlaceInv, DataInv
<1>14. BuffersExclusive'
  BY <1>1 DEF BuffersExclusive
<1>15. StackInv'
  BY DEF StackInv
<1> QED BY <1>2, <1>3, <1>4, <1>5, <1>6, <1>7, <1>8, <1>9, <1>10, <1>11,
           <1>12, <1>13, <1>14, <1>15

\* The new job owns its input space alone.
LEMMA GetInputInv ==
  ASSUME IInv, GetInput
  PROVE  IInv'
<1> USE DEF IInv, TypeOK, GetInput, mainVars, listVars, inVars, outVars,
            writerVars, logVars
<1> DEFINE space == NextSpace(inFree, inBuf)
<1>p. sequence \in JobNumbers /\ submitted = sequence + 1
  BY DEF MainTypeOK, SequenceInv
<1>q. PICK new \in JobNumbers : new = sequence
  BY <1>p
<1>a. /\ submitted = new + 1 /\ submitted \in Contents
      /\ ~jobs[new].live /\ Pending = {}
  BY <1>p, <1>q DEF MainTypeOK, SequenceInv, LiveInv, Pending, Contents
<1>b. /\ BufAfterGet(inFree, inBuf) \in Seq(Contents)
      /\ Len(BufAfterGet(inFree, inBuf)) <= InLimit
      /\ \A s \in 1..Len(inBuf) : BufAfterGet(inFree, inBuf)[s] = inBuf[s]
      /\ \A s \in 1..Len(inBuf) : s \in 1..Len(BufAfterGet(inFree, inBuf))
      /\ space \in 1..Len(BufAfterGet(inFree, inBuf))
      /\ space \in 1..Len(inBuf) => space \in Elements(inFree)
      /\ space \notin Elements(inFree')
      /\ Elements(inFree') \subseteq Elements(inFree)
      /\ inFree' \in Seq(1..Len(BufAfterGet(inFree, inBuf)))
      /\ NoRepeat(inFree')
  <2>1. /\ inBuf \in Seq(Contents) /\ inFree \in Seq(1..Len(inBuf))
        /\ NoRepeat(inFree) /\ Len(inBuf) \in Nat
    BY DEF PoolTypeOK, StackInv
  <2>2. /\ BufAfterGet(inFree, inBuf) \in Seq(Contents)
        /\ Len(BufAfterGet(inFree, inBuf)) \in {Len(inBuf), Len(inBuf) + 1}
        /\ inFree # <<>> => Len(BufAfterGet(inFree, inBuf)) = Len(inBuf)
        /\ \A s \in 1..Len(inBuf) : BufAfterGet(inFree, inBuf)[s] = inBuf[s]
        /\ space \in 1..Len(BufAfterGet(inFree, inBuf))
        /\ space \in 1..Len(inBuf) => space \in Elements(inFree)
        /\ space \notin Elements(FreeAfterGet(inFree))
        /\ Elements(FreeAfterGet(inFree)) \subseteq Elements(inFree)
        /\ FreeAfterGet(inFree) \in Seq(1..Len(BufAfterGet(inFree, inBuf)))
        /\ NoRepeat(FreeAfterGet(inFree))
    BY <2>1, GetSpace
  <2> HIDE DEF space
  <2>3. Len(BufAfterGet(inFree, inBuf)) <= InLimit
    BY <2>1, <2>2 DEF PoolTypeOK, InLimit
  <2>4. \A s \in 1..Len(inBuf) : s \in 1..Len(BufAfterGet(inFree, inBuf))
    BY <2>1, <2>2
  <2> QED BY <2>2, <2>3, <2>4
<1> HIDE DEF space
<1>c. /\ inBuf' \in Seq(Contents)
      /\ Len(inBuf') = Len(BufAfterGet(inFree, inBuf))
      /\ inBuf'[space] = submitted
      /\ \A s \in 1..Len(inBuf) : s # space => inBuf'[s] = inBuf[s]
  BY <1>a, <1>b DEF space
<1>d. /\ jobs'[new] = NewJob(TRUE, space)
      /\ \A j \in JobNumbers : j # new => jobs'[j] = jobs[j]
  BY <1>a, <1>q DEF JobTypeOK, space
<1>e. \A j \in JobNumbers : OwnsInput(j) => jobs[j].in # space
  BY <1>b DEF DataInv, BuffersExclusive
<1>1. /\ UNCHANGED <<Queued, Sorted, AtWriter>> /\ Pending' = {new}
      /\ \A u \in Decoders : /\ Holding(u)' <=> Holding(u)
                             /\ Holding(u) => djob[u] # new
      /\ new \notin Queued \cup Sorted \cup AtWriter
      /\ \A j \in JobNumbers \ {new} :
           /\ OwnsInput(j)' <=> OwnsInput(j)
           /\ OwnsOutput(j)' <=> OwnsOutput(j)
           /\ Decoded(j)' <=> Decoded(j)
      /\ ~OwnsOutput(new)'
  <2>1. UNCHANGED <<Queued, Sorted, AtWriter>> /\ Pending' = {new}
    BY <1>a, <1>q DEF MainTypeOK, Pending, Queued, Sorted, AtWriter
  <2>2. \A u \in Decoders : /\ Holding(u)' <=> Holding(u)
                            /\ Holding(u) => djob[u] # new
    BY <1>a DEF Holding, PlaceInv
  <2>3. new \notin Queued \cup Sorted \cup AtWriter
    BY <1>a DEF PlaceInv
  <2>4. \A j \in JobNumbers \ {new} :
           /\ OwnsInput(j)' <=> OwnsInput(j)
           /\ OwnsOutput(j)' <=> OwnsOutput(j)
           /\ Decoded(j)' <=> Decoded(j)
    BY <1>d DEF OwnsInput, OwnsOutput, Decoded
  <2>5. ~OwnsOutput(new)'
    BY <1>d DEF OwnsOutput, NewJob
  <2> QED BY <2>1, <2>2, <2>3, <2>4, <2>5
<1>2. MainTypeOK'
  BY <1>p DEF MainTypeOK, MainLabels
<1>3. ListTypeOK' /\ LogTypeOK'
  BY DEF ListTypeOK, LogTypeOK
<1>4. JobTypeOK'
  <2>1. space \in Nat
    BY <1>b
  <2> QED BY <1>a, <1>q, <2>1 DEF JobTypeOK, NewJob, space
<1>5. ThreadTypeOK'
  BY DEF ThreadTypeOK, DecoderLabels, WriterLabels
<1>6. PoolTypeOK'
  BY <1>b, <1>c DEF PoolTypeOK
<1>7. SequenceInv'
  BY DEF MainTypeOK, SequenceInv
<1>8. WriterInv'
  BY <1>p DEF WriterInv, MainTypeOK
<1>9. LiveInv'
  BY <1>a, <1>q, <1>d DEF MainTypeOK, ThreadTypeOK, LiveInv, SequenceInv,
       NewJob
<1>10. PlaceInv'
  BY <1>1, <1>a, <1>q, <1>d DEF PlaceInv, NewJob
<1>11. ListInv'
  BY DEF ListInv, ListsMatchLocks
<1>12. JobInv'
  BY <1>1, <1>a, <1>q, <1>d DEF JobInv, NewJob, PlaceInv, Holding
<1>13. DataInv'
  <2>1. ASSUME NEW j \in JobNumbers
        PROVE  /\ OwnsInput(j)' => jobs'[j].in \in 1..Len(inBuf') /\ inBuf'[jobs'[j].in] = j + 1
               /\ OwnsOutput(j)' => jobs'[j].out \in 1..Len(outBuf')
    <3>1. CASE j = new
      BY <1>1, <1>a, <1>b, <1>c, <1>d, <3>1 DEF NewJob
    <3>2. CASE j # new
      <4>1. /\ jobs'[j] = jobs[j]
            /\ OwnsInput(j)' <=> OwnsInput(j)
            /\ OwnsOutput(j)' <=> OwnsOutput(j)
        BY <1>1, <1>d, <3>2
      <4>2. OwnsInput(j) => /\ jobs[j].in \in 1..Len(inBuf)
                            /\ inBuf[jobs[j].in] = j + 1
                            /\ jobs[j].in # space
        BY <1>e DEF DataInv
      <4>3. OwnsOutput(j) => jobs[j].out \in 1..Len(outBuf)
        BY DEF DataInv
      <4> QED BY <1>b, <1>c, <4>1, <4>2, <4>3
    <3> QED BY <3>1, <3>2
  <2>2. \A u \in Decoders : dpc'[u] \in {"drop", "insert"} => Decoded(djob[u])'
    BY <1>1 DEF ThreadTypeOK, DataInv, Holding
  <2>3. \A j \in Sorted' \cup AtWriter' : Decoded(j)'
    BY <1>1 DEF PlaceInv, DataInv
  <2> QED BY <2>1, <2>2, <2>3 DEF DataInv
<1>14. BuffersExclusive'
  BY <1>1, <1>a, <1>q, <1>b, <1>d, <1>e DEF BuffersExclusive, NewJob
<1>15. StackInv'
  BY <1>b DEF StackInv
<1> QED BY <1>2, <1>3, <1>4, <1>5, <1>6, <1>7, <1>8, <1>9, <1>10, <1>11,
           <1>12, <1>13, <1>14, <1>15

\* The job that ends the write thread owns no space.
LEMMA DestroyInv ==
  ASSUME IInv, Destroy
  PROVE  IInv'
<1> USE DEF IInv, TypeOK, Destroy, mainVars, listVars, inVars, outVars,
            writerVars, logVars
<1>p. sequence \in JobNumbers /\ submitted = sequence
  BY DEF MainTypeOK, SequenceInv
<1>q. PICK new \in JobNumbers : new = sequence
  BY <1>p
<1>a. /\ submitted = new
      /\ ~jobs[new].live /\ Pending = {}
  BY <1>p, <1>q DEF MainTypeOK, SequenceInv, LiveInv, Pending
<1>d. /\ jobs'[new] = NewJob(FALSE, NoSpace)
      /\ \A j \in JobNumbers : j # new => jobs'[j] = jobs[j]
  BY <1>a, <1>q DEF JobTypeOK
<1>1. /\ UNCHANGED <<Queued, Sorted, AtWriter>> /\ Pending' = {new}
      /\ \A u \in Decoders : /\ Holding(u)' <=> Holding(u)
                             /\ Holding(u) => djob[u] # new
      /\ new \notin Queued \cup Sorted \cup AtWriter
      /\ \A j \in JobNumbers \ {new} :
           /\ OwnsInput(j)' <=> OwnsInput(j)
           /\ OwnsOutput(j)' <=> OwnsOutput(j)
           /\ Decoded(j)' <=> Decoded(j)
      /\ ~OwnsOutput(new)' /\ ~OwnsInput(new)'
  <2>1. UNCHANGED <<Queued, Sorted, AtWriter>> /\ Pending' = {new}
    BY <1>a, <1>q DEF MainTypeOK, Pending, Queued, Sorted, AtWriter
  <2>2. \A u \in Decoders : /\ Holding(u)' <=> Holding(u)
                            /\ Holding(u) => djob[u] # new
    BY <1>a DEF Holding, PlaceInv
  <2>3. new \notin Queued \cup Sorted \cup AtWriter
    BY <1>a DEF PlaceInv
  <2>4. \A j \in JobNumbers \ {new} :
           /\ OwnsInput(j)' <=> OwnsInput(j)
           /\ OwnsOutput(j)' <=> OwnsOutput(j)
           /\ Decoded(j)' <=> Decoded(j)
    BY <1>d DEF OwnsInput, OwnsOutput, Decoded
  <2>5. ~OwnsOutput(new)' /\ ~OwnsInput(new)'
    BY <1>d DEF OwnsInput, OwnsOutput, NewJob
  <2> QED BY <2>1, <2>2, <2>3, <2>4, <2>5
<1>2. MainTypeOK'
  BY <1>p DEF MainTypeOK, MainLabels
<1>3. ListTypeOK' /\ LogTypeOK'
  BY DEF ListTypeOK, LogTypeOK
<1>4. JobTypeOK'
  BY <1>a, <1>q DEF JobTypeOK, NewJob
<1>5. ThreadTypeOK'
  BY DEF ThreadTypeOK, DecoderLabels, WriterLabels
<1>6. PoolTypeOK'
  BY DEF PoolTypeOK
<1>7. SequenceInv'
  BY DEF MainTypeOK, SequenceInv
<1>8. WriterInv'
  BY <1>p DEF WriterInv, MainTypeOK
<1>9. LiveInv'
  BY <1>a, <1>q, <1>d DEF MainTypeOK, ThreadTypeOK, LiveInv, SequenceInv,
       NewJob
<1>10. PlaceInv'
  BY <1>1, <1>a, <1>q, <1>d DEF PlaceInv, NewJob
<1>11. ListInv'
  BY DEF ListInv, ListsMatchLocks
<1>12. JobInv'
  <2>1. \A j \in JobNumbers : jobs'[j].live /\ ~jobs'[j].more =>
          jobs'[j].in = NoSpace /\ jobs'[j].out = NoSpace /\ ~jobs'[j].error
    BY <1>d DEF JobInv, NewJob
  <2>2. \A j \in Pending' \cup Queued' : jobs'[j].out = NoSpace /\ ~jobs'[j].error
    BY <1>1, <1>d DEF JobInv, NewJob, PlaceInv
  <2>3. \A u \in Decoders : Holding(u) => jobs'[djob[u]] = jobs[djob[u]]
    BY <1>1, <1>d DEF PlaceInv, ThreadTypeOK
  <2>4. wpc \in {"write", "drop"} => jobs'[wseq].more
    BY <1>1, <1>d DEF JobInv, PlaceInv, AtWriter
  <2>5. \A u \in Decoders :
          /\ dpc[u] \in {"space", "decode", "drop"} => jobs'[djob[u]].more
          /\ dpc[u] = "space" => jobs'[djob[u]].out = NoSpace
          /\ dpc[u] \in {"decode", "drop"} => jobs'[djob[u]].out # NoSpace
    BY <2>3 DEF JobInv, Holding
  <2> QED BY <2>1, <2>2, <2>4, <2>5 DEF JobInv
<1>13. DataInv'
  BY <1>1, <1>a, <1>q, <1>d DEF ThreadTypeOK, PlaceInv, DataInv, NewJob,
       Holding
<1>14. BuffersExclusive'
  BY <1>1, <1>a, <1>q, <1>d DEF BuffersExclusive, NewJob
<1>15. StackInv'
  BY DEF StackInv
<1> QED BY <1>2, <1>3, <1>4, <1>5, <1>6, <1>7, <1>8, <1>9, <1>10, <1>11,
           <1>12, <1>13, <1>14, <1>15

\* The job moves from the caller to the decode list.
LEMMA AppendJobInv ==
  ASSUME IInv, AppendJob
  PROVE  IInv'
<1> USE DEF IInv, TypeOK, AppendJob, mainVars, listVars, inVars, outVars,
            writerVars, logVars
<1>p. sequence - 1 \in JobNumbers
  BY DEF MainTypeOK, SequenceInv
<1>q. PICK old \in JobNumbers : old = sequence - 1
  BY <1>p
<1>a. /\ Pending = {old} /\ jobs[old].live
      /\ old \notin Queued \cup Sorted \cup AtWriter
      /\ old \notin Elements(decode_list)
  BY <1>q DEF Pending, PlaceInv, Queued
<1>b. /\ decode_list' \in Seq(JobNumbers \cup {ReturnJob})
      /\ Len(decode_list') = Len(decode_list) + 1
      /\ Elements(decode_list') = Elements(decode_list) \cup {old}
      /\ NoRepeat(decode_list')
  BY <1>a, <1>q, AppendElements DEF ListTypeOK, ListInv
<1>1. /\ UNCHANGED <<Sorted, AtWriter>> /\ Pending' = {}
      /\ Queued' = Queued \cup {old}
      /\ \A u \in Decoders : Holding(u)' <=> Holding(u)
      /\ \A j \in JobNumbers : /\ OwnsInput(j)' <=> OwnsInput(j)
                               /\ OwnsOutput(j)' <=> OwnsOutput(j)
                               /\ Decoded(j)' <=> Decoded(j)
  BY <1>b DEF Pending, Queued, Sorted, AtWriter, Holding, OwnsInput,
              OwnsOutput, Decoded
<1>2. MainTypeOK'
  BY DEF MainTypeOK, MainLabels
<1>3. ListTypeOK' /\ LogTypeOK'
  BY <1>b DEF ListTypeOK, LogTypeOK
<1>4. JobTypeOK'
  BY DEF JobTypeOK
<1>5. ThreadTypeOK'
  BY DEF ThreadTypeOK, DecoderLabels, WriterLabels
<1>6. PoolTypeOK'
  BY DEF PoolTypeOK
<1>7. SequenceInv'
  BY <1>a, <1>q DEF MainTypeOK, SequenceInv, LiveInv
<1>8. WriterInv'
  BY DEF WriterInv
<1>9. LiveInv'
  BY DEF MainTypeOK, ThreadTypeOK, LiveInv, SequenceInv
<1>10. PlaceInv'
  BY <1>1, <1>a DEF PlaceInv
<1>11. ListInv'
  BY <1>b DEF ListInv, ListsMatchLocks, ListTypeOK
<1>12. JobInv'
  BY <1>1, <1>a DEF JobInv
<1>13. DataInv'
  BY <1>1 DEF ThreadTypeOK, PlaceInv, DataInv
<1>14. BuffersExclusive'
  BY <1>1 DEF BuffersExclusive
<1>15. StackInv'
  BY DEF StackInv
<1> QED BY <1>2, <1>3, <1>4, <1>5, <1>6, <1>7, <1>8, <1>9, <1>10, <1>11,
           <1>12, <1>13, <1>14, <1>15

\* When the write thread has exited no job is left: the decode list is empty.
LEMMA CommandReturnInv ==
  ASSUME IInv, CommandReturn
  PROVE  IInv'
<1> USE DEF IInv, TypeOK, CommandReturn, mainVars, listVars, inVars, outVars,
            writerVars, logVars
<1>a. \A j \in JobNumbers : ~jobs[j].live
  BY DEF WriterInv, MainTypeOK, ThreadTypeOK, LiveInv
<1>b. /\ Pending = {} /\ Queued = {} /\ Sorted = {} /\ AtWriter = {}
      /\ \A u \in Decoders : ~Holding(u)
  <2>1. \A j : j \notin Pending /\ j \notin Queued /\ j \notin Sorted /\ j \notin AtWriter
    BY <1>a DEF PlaceInv
  <2>2. \A u \in Decoders : ~Holding(u)
    BY <1>a DEF PlaceInv, ThreadTypeOK
  <2> QED BY <2>1, <2>2
<1>c. decode_list = <<>> /\ decode_have = 0
  <2>1. Elements(decode_list) = {}
    BY <1>b DEF Queued, ListInv
  <2>2. decode_list = <<>>
    <3>1. CASE decode_list # <<>>
      <4>1. 1 \in DOMAIN decode_list
        BY <3>1 DEF ListTypeOK
      <4> QED BY <2>1, <4>1 DEF Elements
    <3> QED BY <3>1
  <2> QED BY <2>2 DEF ListInv, ListsMatchLocks
<1>1. /\ UNCHANGED <<Pending, Queued, Sorted, AtWriter>>
      /\ \A u \in Decoders : Holding(u)' <=> Holding(u)
      /\ \A j \in JobNumbers : /\ OwnsInput(j)' <=> OwnsInput(j)
                               /\ OwnsOutput(j)' <=> OwnsOutput(j)
                               /\ Decoded(j)' <=> Decoded(j)
  BY <1>b DEF Pending, Queued, Sorted, AtWriter, Holding, OwnsInput,
              OwnsOutput, Decoded, Elements
<1>2. MainTypeOK'
  BY DEF MainTypeOK, MainLabels
<1>3. ListTypeOK' /\ LogTypeOK'
  BY <1>c DEF ListTypeOK, LogTypeOK
<1>4. JobTypeOK'
  BY DEF JobTypeOK
<1>5. ThreadTypeOK'
  BY DEF ThreadTypeOK, DecoderLabels, WriterLabels
<1>6. PoolTypeOK'
  BY DEF PoolTypeOK
<1>7. SequenceInv'
  BY DEF MainTypeOK, SequenceInv
<1>8. WriterInv'
  BY DEF WriterInv
<1>9. LiveInv'
  BY DEF MainTypeOK, ThreadTypeOK, LiveInv, SequenceInv
<1>10. PlaceInv'
  BY <1>1 DEF PlaceInv
<1>11. ListInv'
  BY <1>c DEF ListInv, ListsMatchLocks, NoRepeat, Elements
<1>12. JobInv'
  BY <1>1 DEF JobInv
<1>13. DataInv'
  BY <1>1 DEF ThreadTypeOK, PlaceInv, DataInv
<1>14. BuffersExclusive'
  BY <1>1 DEF BuffersExclusive
<1>15. StackInv'
  BY DEF StackInv
<1> QED BY <1>2, <1>3, <1>4, <1>5, <1>6, <1>7, <1>8, <1>9, <1>10, <1>11,
           <1>12, <1>13, <1>14, <1>15

\* A thread that has exited holds no job.
LEMMA JoinOneInv ==
  ASSUME IInv, JoinOne
  PROVE  IInv'
<1> USE DEF IInv, TypeOK, JoinOne, mainVars, listVars, inVars, outVars,
            writerVars, logVars
<1>1. /\ UNCHANGED <<Pending, Queued, Sorted, AtWriter>>
      /\ \A u \in Decoders : Holding(u)' <=> Holding(u)
      /\ \A j \in JobNumbers : /\ OwnsInput(j)' <=> OwnsInput(j)
                               /\ OwnsOutput(j)' <=> OwnsOutput(j)
                               /\ Decoded(j)' <=> Decoded(j)
  BY DEF ThreadTypeOK, Pending, Queued, Sorted, AtWriter, Holding, OwnsInput,
         OwnsOutput, Decoded
<1>2. MainTypeOK'
  BY DEF MainTypeOK, MainLabels
<1>3. ListTypeOK' /\ LogTypeOK'
  BY DEF ListTypeOK, LogTypeOK
<1>4. JobTypeOK'
  BY DEF JobTypeOK
<1>5. ThreadTypeOK'
  BY DEF ThreadTypeOK, DecoderLabels, WriterLabels
<1>6. PoolTypeOK'
  BY DEF PoolTypeOK
<1>7. SequenceInv'
  BY DEF MainTypeOK, SequenceInv
<1>8. WriterInv'
  BY DEF WriterInv
<1>9. LiveInv'
  BY DEF MainTypeOK, ThreadTypeOK, LiveInv, SequenceInv
<1>10. PlaceInv'
  BY <1>1 DEF PlaceInv
<1>11. ListInv'
  BY DEF ListInv, ListsMatchLocks
<1>12. JobInv'
  BY <1>1 DEF JobInv, ThreadTypeOK
<1>13. DataInv'
  BY <1>1 DEF ThreadTypeOK, PlaceInv, DataInv
<1>14. BuffersExclusive'
  BY <1>1 DEF BuffersExclusive
<1>15. StackInv'
  BY DEF StackInv
<1> QED BY <1>2, <1>3, <1>4, <1>5, <1>6, <1>7, <1>8, <1>9, <1>10, <1>11,
           <1>12, <1>13, <1>14, <1>15

\* The end of join_all changes no job or list.
LEMMA JoinedAllInv ==
  ASSUME IInv, JoinedAll
  PROVE  IInv'
<1> USE DEF IInv, TypeOK, JoinedAll, mainVars, listVars, inVars, outVars,
            writerVars, logVars
<1>1. /\ UNCHANGED <<Pending, Queued, Sorted, AtWriter>>
      /\ \A u \in Decoders : Holding(u)' <=> Holding(u)
      /\ \A j \in JobNumbers : /\ OwnsInput(j)' <=> OwnsInput(j)
                               /\ OwnsOutput(j)' <=> OwnsOutput(j)
                               /\ Decoded(j)' <=> Decoded(j)
  BY DEF ThreadTypeOK, Pending, Queued, Sorted, AtWriter, Holding, OwnsInput,
         OwnsOutput, Decoded
<1>2. MainTypeOK'
  BY DEF MainTypeOK, MainLabels
<1>3. ListTypeOK' /\ LogTypeOK'
  BY DEF ListTypeOK, LogTypeOK
<1>4. JobTypeOK'
  BY DEF JobTypeOK
<1>5. ThreadTypeOK'
  BY DEF ThreadTypeOK, DecoderLabels, WriterLabels
<1>6. PoolTypeOK'
  BY DEF PoolTypeOK
<1>7. SequenceInv'
  BY DEF MainTypeOK, SequenceInv
<1>8. WriterInv'
  BY DEF WriterInv
<1>9. LiveInv'
  BY DEF MainTypeOK, ThreadTypeOK, LiveInv, SequenceInv
<1>10. PlaceInv'
  BY <1>1 DEF PlaceInv
<1>11. ListInv'
  BY DEF ListInv, ListsMatchLocks
<1>12. JobInv'
  BY <1>1 DEF JobInv
<1>13. DataInv'
  BY <1>1 DEF ThreadTypeOK, PlaceInv, DataInv
<1>14. BuffersExclusive'
  BY <1>1 DEF BuffersExclusive
<1>15. StackInv'
  BY DEF StackInv
<1> QED BY <1>2, <1>3, <1>4, <1>5, <1>6, <1>7, <1>8, <1>9, <1>10, <1>11,
           <1>12, <1>13, <1>14, <1>15

\* The pools are freed when no job is left.
LEMMA FreeAllInv ==
  ASSUME IInv, FreeAll
  PROVE  IInv'
<1> USE DEF IInv, TypeOK, FreeAll, mainVars, listVars, inVars, outVars,
            writerVars, logVars
<1>a. \A j \in JobNumbers : ~jobs[j].live
  BY DEF WriterInv, MainTypeOK, ThreadTypeOK, LiveInv
<1>b. /\ Pending = {} /\ Queued = {} /\ Sorted = {} /\ AtWriter = {}
      /\ \A u \in Decoders : ~Holding(u)
  <2>1. \A j : j \notin Pending /\ j \notin Queued /\ j \notin Sorted /\ j \notin AtWriter
    BY <1>a DEF PlaceInv
  <2>2. \A u \in Decoders : ~Holding(u)
    BY <1>a DEF PlaceInv, ThreadTypeOK
  <2> QED BY <2>1, <2>2
<1>1. /\ UNCHANGED <<Pending, Queued, Sorted, AtWriter>>
      /\ \A u \in Decoders : Holding(u)' <=> Holding(u)
      /\ \A j \in JobNumbers : ~OwnsInput(j)' /\ ~OwnsOutput(j)'
  BY <1>a DEF Pending, Queued, Sorted, AtWriter, Holding, OwnsInput,
              OwnsOutput
<1>2. MainTypeOK'
  BY DEF MainTypeOK, MainLabels
<1>3. ListTypeOK' /\ LogTypeOK'
  BY DEF ListTypeOK, LogTypeOK
<1>4. JobTypeOK'
  BY DEF JobTypeOK
<1>5. ThreadTypeOK'
  BY DEF ThreadTypeOK, DecoderLabels, WriterLabels
<1>6. PoolTypeOK'
  BY DEF PoolTypeOK, InLimit
<1>7. SequenceInv'
  BY DEF MainTypeOK, SequenceInv
<1>8. WriterInv'
  BY DEF WriterInv
<1>9. LiveInv'
  BY DEF MainTypeOK, ThreadTypeOK, LiveInv, SequenceInv
<1>10. PlaceInv'
  BY <1>1 DEF PlaceInv
<1>11. ListInv'
  BY DEF ListInv, ListsMatchLocks
<1>12. JobInv'
  BY <1>1 DEF JobInv
<1>13. DataInv'
  BY <1>1, <1>b DEF ThreadTypeOK, PlaceInv, DataInv, Holding
<1>14. BuffersExclusive'
  BY <1>1 DEF BuffersExclusive
<1>15. StackInv'
  BY DEF StackInv, NoRepeat
<1> QED BY <1>2, <1>3, <1>4, <1>5, <1>6, <1>7, <1>8, <1>9, <1>10, <1>11,
           <1>12, <1>13, <1>14, <1>15

\* The job at the head moves from the decode list to the thread.
LEMMA TakeJobInv ==
  ASSUME NEW t \in Decoders, IInv, TakeJob(t)
  PROVE  IInv'
<1> USE DEF IInv, TypeOK, TakeJob, mainVars, listVars, inVars, outVars,
            writerVars, logVars
<1>q. PICK job \in JobNumbers : job = Head(decode_list) /\ decode_list # <<>>
  <2>1. decode_list # <<>>
    BY DEF ListInv, ListsMatchLocks, ListTypeOK
  <2>2. Head(decode_list) \in JobNumbers
    BY <2>1 DEF ListTypeOK
  <2> QED BY <2>1, <2>2
<1>b. /\ job \in Elements(decode_list)
      /\ decode_list' \in Seq(JobNumbers \cup {ReturnJob})
      /\ Len(decode_list') = Len(decode_list) - 1
      /\ Elements(decode_list') = Elements(decode_list) \ {job}
      /\ NoRepeat(decode_list')
  BY <1>q, PopElements DEF ListTypeOK, ListInv
<1>a. /\ job \in Queued /\ jobs[job].live
      /\ jobs[job].out = NoSpace /\ ~jobs[job].error
      /\ job \notin Pending \cup Sorted \cup AtWriter
      /\ \A u \in Decoders : Holding(u) => djob[u] # job
  BY <1>b DEF Queued, PlaceInv, JobInv
<1>d. /\ djob'[t] = job /\ \A u \in Decoders : u # t => djob'[u] = djob[u]
      /\ dpc'[t] = IF jobs[job].more THEN "space" ELSE "insert"
      /\ \A u \in Decoders : u # t => dpc'[u] = dpc[u]
  BY <1>q DEF ThreadTypeOK
<1>1. /\ UNCHANGED <<Pending, Sorted, AtWriter>>
      /\ Queued' = Queued \ {job}
      /\ Holding(t)'
      /\ \A u \in Decoders : u # t => (Holding(u)' <=> Holding(u))
      /\ \A j \in JobNumbers : /\ OwnsInput(j)' <=> OwnsInput(j)
                               /\ OwnsOutput(j)' <=> OwnsOutput(j)
                               /\ Decoded(j)' <=> Decoded(j)
  BY <1>b, <1>d DEF Pending, Queued, Sorted, AtWriter, Holding, OwnsInput,
                    OwnsOutput, Decoded
<1>2. MainTypeOK'
  BY DEF MainTypeOK, MainLabels
<1>3. ListTypeOK' /\ LogTypeOK'
  BY <1>b, <1>q DEF ListTypeOK, LogTypeOK
<1>4. JobTypeOK'
  BY DEF JobTypeOK
<1>5. ThreadTypeOK'
  BY <1>q DEF ThreadTypeOK, DecoderLabels, WriterLabels
<1>6. PoolTypeOK'
  BY DEF PoolTypeOK
<1>7. SequenceInv'
  BY DEF MainTypeOK, SequenceInv
<1>8. WriterInv'
  BY DEF WriterInv
<1>9. LiveInv'
  BY DEF MainTypeOK, ThreadTypeOK, LiveInv, SequenceInv
<1>10. PlaceInv'
  BY <1>1, <1>a, <1>d, SMTT(30) DEF PlaceInv
<1>11. ListInv'
  BY <1>b, <1>q DEF ListInv, ListsMatchLocks
<1>12. JobInv'
  BY <1>1, <1>a, <1>d DEF JobInv, PlaceInv
<1>13. DataInv'
  <2>1. \A u \in Decoders : dpc'[u] \in {"drop", "insert"} => Decoded(djob'[u])
    BY <1>d DEF DataInv, Decoded
  <2>2. \A u \in Decoders : djob'[u] \in JobNumbers
    BY <1>d DEF ThreadTypeOK
  <2>3. \A u \in Decoders : dpc'[u] \in {"drop", "insert"} => Decoded(djob[u])'
    BY <2>1, <2>2 DEF Decoded
  <2> QED BY <1>1, <2>3 DEF PlaceInv, DataInv
<1>14. BuffersExclusive'
  BY <1>1 DEF BuffersExclusive
<1>15. StackInv'
  BY DEF StackInv
<1> QED BY <1>2, <1>3, <1>4, <1>5, <1>6, <1>7, <1>8, <1>9, <1>10, <1>11,
           <1>12, <1>13, <1>14, <1>15

\* The job with sequence -1 stays where it is.
LEMMA TakeReturnInv ==
  ASSUME NEW t \in Decoders, IInv, TakeReturn(t)
  PROVE  IInv'
<1> USE DEF IInv, TypeOK, TakeReturn, mainVars, listVars, inVars, outVars,
            writerVars, logVars
<1>1. /\ UNCHANGED <<Pending, Queued, Sorted, AtWriter>>
      /\ \A u \in Decoders : Holding(u)' <=> Holding(u)
      /\ \A u \in Decoders : dpc'[u] \in {dpc[u], "exited"}
      /\ \A j \in JobNumbers : /\ OwnsInput(j)' <=> OwnsInput(j)
                               /\ OwnsOutput(j)' <=> OwnsOutput(j)
                               /\ Decoded(j)' <=> Decoded(j)
  BY DEF ThreadTypeOK, Pending, Queued, Sorted, AtWriter, Holding, OwnsInput,
         OwnsOutput, Decoded
<1>2. MainTypeOK'
  BY DEF MainTypeOK, MainLabels
<1>3. ListTypeOK' /\ LogTypeOK'
  BY DEF ListTypeOK, LogTypeOK
<1>4. JobTypeOK'
  BY DEF JobTypeOK
<1>5. ThreadTypeOK'
  BY DEF ThreadTypeOK, DecoderLabels, WriterLabels
<1>6. PoolTypeOK'
  BY DEF PoolTypeOK
<1>7. SequenceInv'
  BY DEF MainTypeOK, SequenceInv
<1>8. WriterInv'
  BY DEF WriterInv
<1>9. LiveInv'
  BY DEF MainTypeOK, ThreadTypeOK, LiveInv, SequenceInv
<1>10. PlaceInv'
  BY <1>1 DEF PlaceInv
<1>11. ListInv'
  BY DEF ListInv, ListsMatchLocks
<1>12. JobInv'
  BY <1>1 DEF JobInv
<1>13. DataInv'
  BY <1>1 DEF ThreadTypeOK, PlaceInv, DataInv
<1>14. BuffersExclusive'
  BY <1>1 DEF BuffersExclusive
<1>15. StackInv'
  BY DEF StackInv
<1> QED BY <1>2, <1>3, <1>4, <1>5, <1>6, <1>7, <1>8, <1>9, <1>10, <1>11,
           <1>12, <1>13, <1>14, <1>15

\* The job gets an output space that no other job owns.
LEMMA GetOutputInv ==
  ASSUME NEW t \in Decoders, IInv, GetOutput(t)
  PROVE  IInv'
<1> USE DEF IInv, TypeOK, GetOutput, mainVars, listVars, inVars, outVars,
            writerVars, logVars
<1>q. PICK job \in JobNumbers : job = djob[t]
  BY DEF ThreadTypeOK
<1>h. /\ jobs[job].live /\ Holding(t)
      /\ job \notin Pending \cup Queued \cup Sorted \cup AtWriter
      /\ \A u \in Decoders : Holding(u) /\ djob[u] = job => u = t
  BY <1>q DEF Holding, PlaceInv
<1>d. dpc'[t] = "decode" /\ \A u \in Decoders : u # t => dpc'[u] = dpc[u]
  BY DEF ThreadTypeOK
<1> DEFINE space == NextSpace(outFree, outBuf)
<1>a. jobs[job].more /\ jobs[job].out = NoSpace
  BY <1>q DEF JobInv
<1>b. /\ outBuf' \in Seq(Contents)
      /\ \A s \in 1..Len(outBuf) : outBuf'[s] = outBuf[s] /\ s \in 1..Len(outBuf')
      /\ space \in 1..Len(outBuf')
      /\ space \in 1..Len(outBuf) => space \in Elements(outFree)
      /\ space \notin Elements(outFree')
      /\ Elements(outFree') \subseteq Elements(outFree)
      /\ outFree' \in Seq(1..Len(outBuf'))
      /\ NoRepeat(outFree')
  <2>1. /\ outBuf \in Seq(Contents) /\ outFree \in Seq(1..Len(outBuf))
        /\ NoRepeat(outFree) /\ Len(outBuf) \in Nat
    BY DEF PoolTypeOK, StackInv
  <2>2. /\ BufAfterGet(outFree, outBuf) \in Seq(Contents)
        /\ Len(BufAfterGet(outFree, outBuf)) \in {Len(outBuf), Len(outBuf) + 1}
        /\ \A s \in 1..Len(outBuf) : BufAfterGet(outFree, outBuf)[s] = outBuf[s]
        /\ space \in 1..Len(BufAfterGet(outFree, outBuf))
        /\ space \in 1..Len(outBuf) => space \in Elements(outFree)
        /\ space \notin Elements(FreeAfterGet(outFree))
        /\ Elements(FreeAfterGet(outFree)) \subseteq Elements(outFree)
        /\ FreeAfterGet(outFree) \in Seq(1..Len(BufAfterGet(outFree, outBuf)))
        /\ NoRepeat(FreeAfterGet(outFree))
    BY <2>1, GetSpace, ZenonT(30)
  <2>3. \A s \in 1..Len(outBuf) : s \in 1..Len(outBuf')
    BY <2>1, <2>2
  <2> HIDE DEF space
  <2> QED BY <2>2, <2>3
<1> HIDE DEF space
<1>c. space \in Nat /\ space # NoSpace
  BY <1>b
<1>e. /\ jobs'[job] = [jobs[job] EXCEPT !.out = space]
      /\ \A j \in JobNumbers : j # job => jobs'[j] = jobs[j]
  BY <1>q DEF JobTypeOK, space
<1>f. /\ jobs'[job].live /\ jobs'[job].more
      /\ jobs'[job].in = jobs[job].in /\ jobs'[job].out = space
  BY <1>a, <1>e, <1>h DEF JobTypeOK
<1>g. \A j \in JobNumbers : OwnsOutput(j) => jobs[j].out # space
  BY <1>b DEF DataInv, BuffersExclusive
<1>1. /\ UNCHANGED <<Pending, Queued, Sorted, AtWriter>>
      /\ \A u \in Decoders : Holding(u)' <=> Holding(u)
      /\ \A j \in JobNumbers \ {job} :
           /\ OwnsInput(j)' <=> OwnsInput(j)
           /\ OwnsOutput(j)' <=> OwnsOutput(j)
           /\ jobs[j].live /\ Decoded(j) => Decoded(j)'
      /\ OwnsInput(job) /\ ~OwnsOutput(job)
  <2>1. UNCHANGED <<Pending, Queued, Sorted, AtWriter>>
    BY DEF Pending, Queued, Sorted, AtWriter
  <2>2. \A u \in Decoders : Holding(u)' <=> Holding(u)
    BY <1>d DEF Holding
  <2>3. \A j \in JobNumbers \ {job} : /\ OwnsInput(j)' <=> OwnsInput(j)
                                      /\ OwnsOutput(j)' <=> OwnsOutput(j)
    BY <1>d, <1>e, <1>q DEF OwnsInput, OwnsOutput
  <2>4. ASSUME NEW j \in JobNumbers \ {job}, jobs[j].live, Decoded(j)
        PROVE  Decoded(j)'
    <3>1. jobs[j].more => outBuf'[jobs[j].out] = outBuf[jobs[j].out]
      BY <1>b, <2>4 DEF DataInv, Decoded, OwnsOutput
    <3> QED BY <1>e, <2>4, <3>1 DEF Decoded
  <2>5. OwnsInput(job) /\ ~OwnsOutput(job)
    BY <1>a, <1>h DEF OwnsInput, OwnsOutput
  <2> QED BY <2>1, <2>2, <2>3, <2>4, <2>5
<1>2. MainTypeOK'
  BY DEF MainTypeOK, MainLabels
<1>3. ListTypeOK' /\ LogTypeOK'
  BY DEF ListTypeOK, LogTypeOK
<1>4. JobTypeOK'
  BY <1>c, <1>q DEF JobTypeOK, space
<1>5. ThreadTypeOK'
  BY DEF ThreadTypeOK, DecoderLabels, WriterLabels
<1>6. PoolTypeOK'
  BY <1>b DEF PoolTypeOK
<1>7. SequenceInv'
  BY DEF MainTypeOK, SequenceInv
<1>8. WriterInv'
  BY DEF WriterInv
<1>9. LiveInv'
  BY <1>e DEF MainTypeOK, ThreadTypeOK, LiveInv, SequenceInv
<1>10. PlaceInv'
  BY <1>1, <1>e, <1>f DEF PlaceInv
<1>11. ListInv'
  BY DEF ListInv, ListsMatchLocks
<1>12. JobInv'
  BY <1>1, <1>c, <1>d, <1>e, <1>f, <1>h, <1>q DEF JobInv, Holding, PlaceInv
<1>13. DataInv'
  <2>1. ASSUME NEW j \in JobNumbers
        PROVE  /\ OwnsInput(j)' => jobs'[j].in \in 1..Len(inBuf') /\ inBuf'[jobs'[j].in] = j + 1
               /\ OwnsOutput(j)' => jobs'[j].out \in 1..Len(outBuf')
    <3>1. CASE j = job
      BY <1>1, <1>b, <1>f, <3>1 DEF DataInv
    <3>2. CASE j # job
      BY <1>1, <1>b, <1>e, <3>2 DEF DataInv
    <3> QED BY <3>1, <3>2
  <2>2. ASSUME NEW u \in Decoders, dpc'[u] \in {"drop", "insert"}
        PROVE  Decoded(djob[u])'
    <3>1. u # t /\ dpc[u] \in {"drop", "insert"} /\ Holding(u)
      BY <1>d, <2>2 DEF Holding
    <3>2. djob[u] \in JobNumbers \ {job} /\ jobs[djob[u]].live /\ Decoded(djob[u])
      BY <1>h, <1>q, <3>1 DEF PlaceInv, DataInv, ThreadTypeOK
    <3> QED BY <1>1, <3>2
  <2>3. \A j \in Sorted' \cup AtWriter' : Decoded(j)'
    BY <1>1, <1>h DEF PlaceInv, DataInv
  <2> QED BY <2>1, <2>2, <2>3 DEF DataInv
<1>14. BuffersExclusive'
  <2>1. \A j \in JobNumbers : /\ OwnsInput(j)' <=> OwnsInput(j)
                              /\ jobs'[j].in = jobs[j].in
    BY <1>1, <1>e, <1>f, <1>q, <1>d DEF OwnsInput
  <2>2. ASSUME NEW i \in JobNumbers, NEW j \in JobNumbers,
               OwnsOutput(i)', OwnsOutput(j)', jobs'[i].out = jobs'[j].out
        PROVE  i = j
    <3>1. \A o \in JobNumbers : o # job /\ OwnsOutput(o)' =>
             OwnsOutput(o) /\ jobs'[o].out = jobs[o].out /\ jobs'[o].out # space
      BY <1>1, <1>e, <1>g
    <3> QED BY <1>f, <2>2, <3>1 DEF BuffersExclusive
  <2>3. \A j \in JobNumbers : OwnsOutput(j)' => jobs'[j].out \notin Elements(outFree')
    BY <1>1, <1>b, <1>e, <1>f DEF BuffersExclusive
  <2> QED BY <2>1, <2>2, <2>3 DEF BuffersExclusive
<1>15. StackInv'
  BY <1>b DEF StackInv
<1> QED BY <1>2, <1>3, <1>4, <1>5, <1>6, <1>7, <1>8, <1>9, <1>10, <1>11,
           <1>12, <1>13, <1>14, <1>15

\* The output space of the job gets the result for its frame.
LEMMA DecodeInv ==
  ASSUME NEW t \in Decoders, IInv, Decode(t)
  PROVE  IInv'
<1> USE DEF IInv, TypeOK, Decode, mainVars, listVars, inVars, outVars,
            writerVars, logVars
<1>q. PICK job \in JobNumbers : job = djob[t]
  BY DEF ThreadTypeOK
<1>h. /\ jobs[job].live /\ Holding(t)
      /\ job \notin Pending \cup Queued \cup Sorted \cup AtWriter
      /\ \A u \in Decoders : Holding(u) /\ djob[u] = job => u = t
  BY <1>q DEF Holding, PlaceInv
<1>d. dpc'[t] = "drop" /\ \A u \in Decoders : u # t => dpc'[u] = dpc[u]
  BY DEF ThreadTypeOK
<1>a. jobs[job].more /\ jobs[job].out # NoSpace /\ OwnsInput(job) /\ OwnsOutput(job)
  BY <1>h, <1>q DEF JobInv, OwnsInput, OwnsOutput
<1>b. /\ inBuf[jobs[job].in] = job + 1
      /\ jobs[job].out \in 1..Len(outBuf)
      /\ job + 1 \in 1..MaxFrames
  BY <1>a, <1>h DEF DataInv, LiveInv, MainTypeOK
<1>r. PICK failed \in BOOLEAN : failed = (job + 1 \in BadFrames)
  <2>1. CASE job + 1 \in BadFrames
    <3>1. TRUE = (job + 1 \in BadFrames)
      BY <2>1
    <3> QED BY <3>1
  <2>2. CASE job + 1 \notin BadFrames
    <3>1. FALSE = (job + 1 \in BadFrames)
      BY <2>2
    <3> QED BY <3>1
  <2> QED BY <2>1, <2>2
<1>c. /\ jobs' = [jobs EXCEPT ![job].error = failed]
      /\ outBuf' = [outBuf EXCEPT ![jobs[job].out] = Result(job + 1)]
  BY <1>b, <1>q, <1>r DEF Result
<1>e. /\ \A j \in JobNumbers : /\ jobs'[j].live = jobs[j].live
                               /\ jobs'[j].more = jobs[j].more
                               /\ jobs'[j].in = jobs[j].in
                               /\ jobs'[j].out = jobs[j].out
                               /\ j # job => jobs'[j] = jobs[j]
      /\ jobs'[job].error <=> job + 1 \in BadFrames
  <2>1. jobs'[job].error = failed
    BY <1>c DEF JobTypeOK
  <2>2. \A j \in JobNumbers : /\ jobs'[j].live = jobs[j].live
                              /\ jobs'[j].more = jobs[j].more
                              /\ jobs'[j].in = jobs[j].in
                              /\ jobs'[j].out = jobs[j].out
                              /\ j # job => jobs'[j] = jobs[j]
    BY <1>c DEF JobTypeOK
  <2> QED BY <1>r, <2>1, <2>2
<1>f. /\ Result(job + 1) \in Contents
      /\ outBuf' \in Seq(Contents) /\ Len(outBuf') = Len(outBuf)
      /\ outBuf'[jobs[job].out] = Result(job + 1)
      /\ \A s \in 1..Len(outBuf) : s # jobs[job].out => outBuf'[s] = outBuf[s]
  <2>1. Result(job + 1) \in Contents
    BY <1>b DEF Result, Contents
  <2>2. outBuf \in Seq(Contents) /\ jobs[job].out \in 1..Len(outBuf)
    BY <1>b DEF PoolTypeOK
  <2> HIDE DEF Result, Decode, IInv
  <2> QED BY <1>c, <2>1, <2>2
<1>1. /\ UNCHANGED <<Pending, Queued, Sorted, AtWriter>>
      /\ \A u \in Decoders : Holding(u)' <=> Holding(u)
      /\ \A j \in JobNumbers : /\ OwnsInput(j)' <=> OwnsInput(j)
                               /\ OwnsOutput(j)' <=> OwnsOutput(j)
      /\ \A j \in JobNumbers \ {job} : jobs[j].live /\ Decoded(j) => Decoded(j)'
      /\ Decoded(job)'
  <2>1. UNCHANGED <<Pending, Queued, Sorted, AtWriter>>
    BY DEF Pending, Queued, Sorted, AtWriter
  <2>2. \A u \in Decoders : Holding(u)' <=> Holding(u)
    BY <1>d DEF Holding
  <2>3. \A j \in JobNumbers : OwnsInput(j)' <=> OwnsInput(j)
    <3>1. \A u \in Decoders : dpc'[u] \in {"decode", "drop"} <=> dpc[u] \in {"decode", "drop"}
      BY <1>d
    <3> QED BY <1>e, <3>1 DEF OwnsInput
  <2>4. \A j \in JobNumbers : OwnsOutput(j)' <=> OwnsOutput(j)
    BY <1>e DEF OwnsOutput
  <2>5. ASSUME NEW j \in JobNumbers \ {job}, jobs[j].live, Decoded(j)
        PROVE  Decoded(j)'
    <3>1. jobs[j].more => /\ jobs[j].out \in 1..Len(outBuf)
                          /\ jobs[j].out # jobs[job].out
      BY <1>a, <2>5 DEF DataInv, Decoded, OwnsOutput, BuffersExclusive
    <3>2. jobs[j].more => outBuf'[jobs[j].out] = outBuf[jobs[j].out]
      BY <1>f, <3>1
    <3>3. jobs'[j] = jobs[j]
      BY <1>e
    <3> QED BY <2>5, <3>2, <3>3 DEF Decoded
  <2>6. Decoded(job)'
    BY <1>a, <1>e, <1>f DEF Decoded
  <2> QED BY <2>1, <2>2, <2>3, <2>4, <2>5, <2>6
<1>2. MainTypeOK'
  BY DEF MainTypeOK, MainLabels
<1>3. ListTypeOK' /\ LogTypeOK'
  BY DEF ListTypeOK, LogTypeOK
<1>4. JobTypeOK'
  <2>1. failed \in BOOLEAN
    BY <1>r
  <2>2. JobTypeOK
    OBVIOUS
  <2> HIDE DEF Decode, IInv
  <2> QED BY <1>c, <2>1, <2>2 DEF JobTypeOK
<1>5. ThreadTypeOK'
  BY DEF ThreadTypeOK, DecoderLabels, WriterLabels
<1>6. PoolTypeOK'
  BY <1>f DEF PoolTypeOK
<1>7. SequenceInv'
  BY DEF MainTypeOK, SequenceInv
<1>8. WriterInv'
  BY DEF WriterInv
<1>9. LiveInv'
  BY <1>e DEF MainTypeOK, ThreadTypeOK, LiveInv, SequenceInv
<1>10. PlaceInv'
  BY <1>1, <1>e DEF PlaceInv
<1>11. ListInv'
  BY DEF ListInv, ListsMatchLocks
<1>12. JobInv'
  <2>1. \A j \in JobNumbers : jobs'[j].live /\ ~jobs'[j].more =>
          jobs'[j].in = NoSpace /\ jobs'[j].out = NoSpace /\ ~jobs'[j].error
    BY <1>a, <1>e DEF JobInv
  <2>2. \A j \in Pending' \cup Queued' : jobs'[j].out = NoSpace /\ ~jobs'[j].error
    BY <1>1, <1>e, <1>h DEF JobInv, PlaceInv
  <2>3. ASSUME NEW u \in Decoders
        PROVE  /\ dpc'[u] \in {"space", "decode", "drop"} => jobs'[djob[u]].more
               /\ dpc'[u] = "space" => jobs'[djob[u]].out = NoSpace
               /\ dpc'[u] \in {"decode", "drop"} => jobs'[djob[u]].out # NoSpace
    <3>1. djob[u] \in JobNumbers
      BY DEF ThreadTypeOK
    <3> QED BY <1>a, <1>d, <1>e, <1>q, <3>1 DEF JobInv
  <2>4. wpc \in {"write", "drop"} => jobs'[wseq].more
    BY <1>1, <1>e DEF JobInv, PlaceInv, AtWriter
  <2> QED BY <2>1, <2>2, <2>3, <2>4 DEF JobInv
<1>13. DataInv'
  <2>1. \A j \in JobNumbers :
          /\ OwnsInput(j)' => jobs'[j].in \in 1..Len(inBuf') /\ inBuf'[jobs'[j].in] = j + 1
          /\ OwnsOutput(j)' => jobs'[j].out \in 1..Len(outBuf')
    BY <1>1, <1>e, <1>f DEF DataInv
  <2>2. ASSUME NEW u \in Decoders, dpc'[u] \in {"drop", "insert"}
        PROVE  Decoded(djob[u])'
    <3>1. CASE u = t
      BY <1>1, <1>q, <3>1
    <3>2. CASE u # t
      <4>1. dpc[u] \in {"drop", "insert"} /\ Holding(u)
        BY <1>d, <2>2, <3>2 DEF Holding
      <4>2. djob[u] \in JobNumbers \ {job} /\ jobs[djob[u]].live /\ Decoded(djob[u])
        BY <1>h, <1>q, <3>2, <4>1 DEF PlaceInv, DataInv, ThreadTypeOK
      <4> QED BY <1>1, <4>2
    <3> QED BY <3>1, <3>2
  <2>3. \A j \in Sorted' \cup AtWriter' : Decoded(j)'
    BY <1>1, <1>h DEF PlaceInv, DataInv
  <2> QED BY <2>1, <2>2, <2>3 DEF DataInv
<1>14. BuffersExclusive'
  BY <1>1, <1>e DEF BuffersExclusive
<1>15. StackInv'
  BY DEF StackInv
<1> QED BY <1>2, <1>3, <1>4, <1>5, <1>6, <1>7, <1>8, <1>9, <1>10, <1>11,
           <1>12, <1>13, <1>14, <1>15

\* The thread gives back an input space that it alone owned.
LEMMA DropInputInv ==
  ASSUME NEW t \in Decoders, IInv, DropInput(t)
  PROVE  IInv'
<1> USE DEF IInv, TypeOK, DropInput, mainVars, listVars, inVars, outVars,
            writerVars, logVars
<1>q. PICK job \in JobNumbers : job = djob[t]
  BY DEF ThreadTypeOK
<1>h. /\ jobs[job].live /\ Holding(t)
      /\ job \notin Pending \cup Queued \cup Sorted \cup AtWriter
      /\ \A u \in Decoders : Holding(u) /\ djob[u] = job => u = t
  BY <1>q DEF Holding, PlaceInv
<1>d. dpc'[t] = "insert" /\ \A u \in Decoders : u # t => dpc'[u] = dpc[u]
  BY DEF ThreadTypeOK
<1>a. OwnsInput(job)
  BY <1>h, <1>q DEF JobInv, OwnsInput
<1>b. /\ jobs[job].in \in 1..Len(inBuf)
      /\ jobs[job].in \notin Elements(inFree)
      /\ \A j \in JobNumbers : OwnsInput(j) /\ j # job => jobs[j].in # jobs[job].in
  BY <1>a DEF DataInv, BuffersExclusive
<1>c. /\ inFree' \in Seq(1..Len(inBuf))
      /\ Elements(inFree') = Elements(inFree) \cup {jobs[job].in}
      /\ NoRepeat(inFree')
  <2>1. /\ inFree \in Seq(1..Len(inBuf)) /\ NoRepeat(inFree)
        /\ inFree' = <<jobs[job].in>> \o inFree
    BY <1>q DEF PoolTypeOK, StackInv
  <2> QED BY <1>b, <2>1, PushElements, SMTT(30)
<1>1. /\ UNCHANGED <<Pending, Queued, Sorted, AtWriter>>
      /\ \A u \in Decoders : Holding(u)' <=> Holding(u)
      /\ \A j \in JobNumbers : /\ OwnsInput(j)' => OwnsInput(j) /\ j # job
                               /\ OwnsOutput(j)' <=> OwnsOutput(j)
                               /\ Decoded(j)' <=> Decoded(j)
  <2>1. UNCHANGED <<Pending, Queued, Sorted, AtWriter>>
    BY DEF Pending, Queued, Sorted, AtWriter
  <2>2. \A u \in Decoders : Holding(u)' <=> Holding(u)
    BY <1>d DEF Holding
  <2>3. ASSUME NEW j \in JobNumbers, OwnsInput(j)'
        PROVE  OwnsInput(j) /\ j # job
    <3>1. OwnsInput(j)
      BY <1>d, <2>3 DEF OwnsInput
    <3>2. jobs[job].out # NoSpace
      BY <1>q DEF JobInv
    <3>3. \A u \in Decoders : djob[u] = job => dpc'[u] \notin {"decode", "drop"}
      BY <1>d, <1>h DEF Holding
    <3> QED BY <2>3, <3>1, <3>2, <3>3 DEF OwnsInput
  <2>4. \A j \in JobNumbers : /\ OwnsOutput(j)' <=> OwnsOutput(j)
                              /\ Decoded(j)' <=> Decoded(j)
    BY DEF OwnsOutput, Decoded
  <2> QED BY <2>1, <2>2, <2>3, <2>4
<1>2. MainTypeOK'
  BY DEF MainTypeOK, MainLabels
<1>3. ListTypeOK' /\ LogTypeOK'
  BY DEF ListTypeOK, LogTypeOK
<1>4. JobTypeOK'
  BY DEF JobTypeOK
<1>5. ThreadTypeOK'
  BY DEF ThreadTypeOK, DecoderLabels, WriterLabels
<1>6. PoolTypeOK'
  BY <1>c DEF PoolTypeOK
<1>7. SequenceInv'
  BY DEF MainTypeOK, SequenceInv
<1>8. WriterInv'
  BY DEF WriterInv
<1>9. LiveInv'
  BY DEF MainTypeOK, ThreadTypeOK, LiveInv, SequenceInv
<1>10. PlaceInv'
  BY <1>1, <1>d DEF PlaceInv
<1>11. ListInv'
  BY DEF ListInv, ListsMatchLocks
<1>12. JobInv'
  BY <1>1, <1>d DEF JobInv
<1>13. DataInv'
  BY <1>1, <1>d DEF ThreadTypeOK, PlaceInv, DataInv
<1>14. BuffersExclusive'
  BY <1>1, <1>b, <1>c DEF BuffersExclusive
<1>15. StackInv'
  BY <1>c DEF StackInv
<1> QED BY <1>2, <1>3, <1>4, <1>5, <1>6, <1>7, <1>8, <1>9, <1>10, <1>11,
           <1>12, <1>13, <1>14, <1>15

\* The job moves from the thread to its place in the write list.
LEMMA InsertJobInv ==
  ASSUME NEW t \in Decoders, IInv, InsertJob(t)
  PROVE  IInv'
<1> USE DEF IInv, TypeOK, InsertJob, mainVars, listVars, inVars, outVars,
            writerVars, logVars
<1>q. PICK job \in JobNumbers : job = djob[t]
  BY DEF ThreadTypeOK
<1>h. /\ jobs[job].live /\ Holding(t)
      /\ job \notin Pending \cup Queued \cup Sorted \cup AtWriter
      /\ \A u \in Decoders : Holding(u) /\ djob[u] = job => u = t
  BY <1>q DEF Holding, PlaceInv
<1>d. dpc'[t] = "take" /\ \A u \in Decoders : u # t => dpc'[u] = dpc[u]
  BY DEF ThreadTypeOK
<1>a. PICK k \in 0..Len(write_list) :
        /\ StopsAt(write_list, job, k)
        /\ write_list' = Inserted(write_list, job, k)
  BY <1>q
<1>b. /\ write_list' \in Seq(JobNumbers) /\ write_list' # <<>>
      /\ Elements(write_list') = Elements(write_list) \cup {job}
      /\ Ascending(write_list')
  <2>1. /\ JobNumbers \in SUBSET Nat /\ write_list \in Seq(JobNumbers)
        /\ job \notin Elements(write_list) /\ Ascending(write_list)
    BY <1>h DEF ListTypeOK, ListInv, ListsMatchLocks, Sorted
  <2> HIDE DEF JobNumbers
  <2> QED BY <1>a, <2>1, InsertElements
<1>1. /\ UNCHANGED <<Pending, Queued, AtWriter>>
      /\ Sorted' = Sorted \cup {job}
      /\ ~Holding(t)'
      /\ \A u \in Decoders : u # t => (Holding(u)' <=> Holding(u))
      /\ \A j \in JobNumbers : /\ OwnsInput(j)' <=> OwnsInput(j)
                               /\ OwnsOutput(j)' <=> OwnsOutput(j)
                               /\ Decoded(j)' <=> Decoded(j)
      /\ Decoded(job)
  <2>1. UNCHANGED <<Pending, Queued, AtWriter>> /\ Sorted' = Sorted \cup {job}
    BY <1>b DEF Pending, Queued, Sorted, AtWriter
  <2>2. /\ ~Holding(t)'
        /\ \A u \in Decoders : u # t => (Holding(u)' <=> Holding(u))
    BY <1>d DEF Holding
  <2>3. \A j \in JobNumbers : /\ OwnsInput(j)' <=> OwnsInput(j)
                              /\ OwnsOutput(j)' <=> OwnsOutput(j)
                              /\ Decoded(j)' <=> Decoded(j)
    <3>1. \A u \in Decoders : dpc'[u] \in {"decode", "drop"} <=> dpc[u] \in {"decode", "drop"}
      BY <1>d
    <3> QED BY <3>1 DEF OwnsInput, OwnsOutput, Decoded
  <2>4. Decoded(job)
    BY <1>q DEF DataInv
  <2> QED BY <2>1, <2>2, <2>3, <2>4
<1>2. MainTypeOK'
  BY DEF MainTypeOK, MainLabels
<1>3. ListTypeOK' /\ LogTypeOK'
  <2>1. Head(write_list') \in JobNumbers
    BY <1>b
  <2> QED BY <1>b, <2>1 DEF ListTypeOK, LogTypeOK
<1>4. JobTypeOK'
  BY DEF JobTypeOK
<1>5. ThreadTypeOK'
  BY DEF ThreadTypeOK, DecoderLabels, WriterLabels
<1>6. PoolTypeOK'
  BY DEF PoolTypeOK
<1>7. SequenceInv'
  BY DEF MainTypeOK, SequenceInv
<1>8. WriterInv'
  BY DEF WriterInv
<1>9. LiveInv'
  BY DEF MainTypeOK, ThreadTypeOK, LiveInv, SequenceInv
<1>10. PlaceInv'
  BY <1>1, <1>d, <1>h, <1>q, SMTT(30) DEF PlaceInv
<1>11. ListInv'
  BY <1>b DEF ListInv, ListsMatchLocks
<1>12. JobInv'
  BY <1>1, <1>d DEF JobInv
<1>13. DataInv'
  <2>1. ASSUME NEW j \in JobNumbers
        PROVE  /\ OwnsInput(j)'  => jobs'[j].in \in 1..Len(inBuf') /\ inBuf'[jobs'[j].in] = j + 1
               /\ OwnsOutput(j)' => jobs'[j].out \in 1..Len(outBuf')
    BY <1>1 DEF DataInv
  <2>2. ASSUME NEW u \in Decoders, dpc'[u] \in {"drop", "insert"}
        PROVE  Decoded(djob[u])'
    <3>1. u # t /\ dpc[u] \in {"drop", "insert"} /\ djob[u] \in JobNumbers
      BY <1>d, <2>2 DEF ThreadTypeOK, PlaceInv, Holding
    <3> QED BY <1>1, <3>1 DEF DataInv
  <2>3. ASSUME NEW j \in Sorted' \cup AtWriter'
        PROVE  Decoded(j)'
    <3>1. j \in JobNumbers /\ Decoded(j)
      BY <1>1, <1>q DEF PlaceInv, DataInv
    <3> QED BY <1>1, <3>1
  <2> QED BY <2>1, <2>2, <2>3 DEF DataInv
<1>14. BuffersExclusive'
  BY <1>1 DEF BuffersExclusive
<1>15. StackInv'
  BY DEF StackInv
<1> QED BY <1>2, <1>3, <1>4, <1>5, <1>6, <1>7, <1>8, <1>9, <1>10, <1>11,
           <1>12, <1>13, <1>14, <1>15

\* The job that is due moves from the write list to the write thread.
LEMMA WriterTakeInv ==
  ASSUME IInv, WriterTake
  PROVE  IInv'
<1> USE DEF IInv, TypeOK, WriterTake, mainVars, listVars, inVars, outVars,
            writerVars, logVars
<1>q. PICK job \in JobNumbers : job = wseq /\ job = Head(write_list) /\ write_list # <<>>
  BY DEF ThreadTypeOK, ListTypeOK, ListInv, ListsMatchLocks
<1>b. /\ write_list' \in Seq(JobNumbers)
      /\ job \in Elements(write_list)
      /\ Elements(write_list') = Elements(write_list) \ {job}
      /\ Ascending(write_list')
  <2>1. /\ write_list \in Seq(JobNumbers) /\ write_list # <<>>
        /\ Ascending(write_list)
    BY <1>q DEF ListTypeOK, ListInv, ListsMatchLocks
  <2>2. JobNumbers \in SUBSET Nat
    OBVIOUS
  <2> HIDE DEF JobNumbers
  <2>3. NoRepeat(write_list) /\ Ascending(Tail(write_list))
    BY <2>1, <2>2, AscendingList
  <2> QED BY <1>q, <2>1, <2>2, <2>3, PopElements
<1>a. /\ job \in Sorted /\ jobs[job].live
      /\ job \notin Pending \cup Queued
      /\ \A u \in Decoders : Holding(u) => djob[u] # job
  BY <1>b DEF Sorted, PlaceInv
<1>1. /\ UNCHANGED <<Pending, Queued>>
      /\ Sorted' = Sorted \ {job} /\ AtWriter' = {job}
      /\ \A u \in Decoders : Holding(u)' <=> Holding(u)
      /\ \A j \in JobNumbers : /\ OwnsInput(j)' <=> OwnsInput(j)
                               /\ OwnsOutput(j)' <=> OwnsOutput(j)
                               /\ Decoded(j)' <=> Decoded(j)
  BY <1>b, <1>q DEF Pending, Queued, Sorted, AtWriter, Holding, OwnsInput,
                    OwnsOutput, Decoded
<1>2. MainTypeOK'
  BY DEF MainTypeOK, MainLabels
<1>3. ListTypeOK' /\ LogTypeOK'
  <2>1. write_first' \in JobNumbers \cup {NoneWaiting}
    <3>1. CASE write_list' = <<>>
      BY <3>1
    <3>2. CASE write_list' # <<>>
      <4>1. write_first' = Head(write_list')
        BY <3>2
      <4> HIDE DEF WriterTake
      <4> QED BY <1>b, <3>2, <4>1
    <3> QED BY <3>1, <3>2
  <2> QED BY <1>b, <2>1 DEF ListTypeOK, LogTypeOK
<1>4. JobTypeOK'
  BY DEF JobTypeOK
<1>5. ThreadTypeOK'
  BY DEF ThreadTypeOK, DecoderLabels, WriterLabels
<1>6. PoolTypeOK'
  BY DEF PoolTypeOK
<1>7. SequenceInv'
  BY DEF MainTypeOK, SequenceInv
<1>8. WriterInv'
  BY DEF WriterInv
<1>9. LiveInv'
  BY DEF MainTypeOK, ThreadTypeOK, LiveInv, SequenceInv
<1>10. PlaceInv'
  BY <1>1, <1>a, <1>q DEF PlaceInv
<1>11. ListInv'
  BY <1>b DEF ListInv, ListsMatchLocks
<1>12. JobInv'
  BY <1>1, <1>a DEF JobInv
<1>13. DataInv'
  BY <1>1, <1>a DEF ThreadTypeOK, PlaceInv, DataInv
<1>14. BuffersExclusive'
  BY <1>1 DEF BuffersExclusive
<1>15. StackInv'
  BY DEF StackInv
<1> QED BY <1>2, <1>3, <1>4, <1>5, <1>6, <1>7, <1>8, <1>9, <1>10, <1>11,
           <1>12, <1>13, <1>14, <1>15

\* The samples passed to the callback are those of the frame that is due.
LEMMA WriterWriteInv ==
  ASSUME IInv, WriterWrite
  PROVE  IInv'
<1> USE DEF IInv, TypeOK, WriterWrite, mainVars, listVars, inVars, outVars,
            writerVars, logVars
<1>q. PICK job \in JobNumbers : job = wseq /\ AtWriter = {job}
  <2>1. AtWriter = {wseq}
    BY DEF AtWriter
  <2>2. wseq \in JobNumbers
    BY <2>1 DEF PlaceInv
  <2> QED BY <2>1, <2>2
<1>h. /\ jobs[job].live /\ Decoded(job)
      /\ job \notin Pending \cup Queued \cup Sorted
      /\ \A u \in Decoders : Holding(u) => djob[u] # job
  BY <1>q DEF PlaceInv, DataInv
<1>a. /\ jobs[job].more /\ OwnsOutput(job)
      /\ outBuf[jobs[job].out] \in Contents
  <2>1. jobs[job].more /\ OwnsOutput(job)
    BY <1>h, <1>q DEF JobInv, Decoded, OwnsOutput
  <2>2. jobs[job].out \in 1..Len(outBuf)
    BY <2>1 DEF DataInv
  <2> QED BY <2>1, <2>2 DEF PoolTypeOK
<1>b. written' \in Seq(Contents) /\ Len(written') = Len(written) + 1
  BY <1>a, <1>q DEF LogTypeOK
<1>1. /\ UNCHANGED <<Pending, Queued, Sorted, AtWriter>>
      /\ \A u \in Decoders : Holding(u)' <=> Holding(u)
      /\ \A j \in JobNumbers : /\ OwnsInput(j)' <=> OwnsInput(j)
                               /\ OwnsOutput(j)' <=> OwnsOutput(j)
                               /\ Decoded(j)' <=> Decoded(j)
  BY DEF Pending, Queued, Sorted, AtWriter, Holding, OwnsInput, OwnsOutput,
         Decoded
<1>2. MainTypeOK'
  BY DEF MainTypeOK, MainLabels
<1>3. ListTypeOK' /\ LogTypeOK'
  BY <1>b DEF ListTypeOK, LogTypeOK
<1>4. JobTypeOK'
  BY DEF JobTypeOK
<1>5. ThreadTypeOK'
  BY DEF ThreadTypeOK, DecoderLabels, WriterLabels
<1>6. PoolTypeOK'
  BY DEF PoolTypeOK
<1>7. SequenceInv'
  BY DEF MainTypeOK, SequenceInv
<1>8. WriterInv'
  BY <1>b DEF WriterInv
<1>9. LiveInv'
  BY DEF MainTypeOK, ThreadTypeOK, LiveInv, SequenceInv
<1>10. PlaceInv'
  BY <1>1 DEF PlaceInv
<1>11. ListInv'
  BY DEF ListInv, ListsMatchLocks
<1>12. JobInv'
  BY <1>1 DEF JobInv
<1>13. DataInv'
  BY <1>1 DEF ThreadTypeOK, PlaceInv, DataInv
<1>14. BuffersExclusive'
  BY <1>1 DEF BuffersExclusive
<1>15. StackInv'
  BY DEF StackInv
<1> QED BY <1>2, <1>3, <1>4, <1>5, <1>6, <1>7, <1>8, <1>9, <1>10, <1>11,
           <1>12, <1>13, <1>14, <1>15

\* The error of a frame is reported; the job that ends the thread is freed.
LEMMA WriterReportInv ==
  ASSUME IInv, WriterReport
  PROVE  IInv'
<1> USE DEF IInv, TypeOK, WriterReport, mainVars, listVars, inVars, outVars,
            writerVars, logVars
<1>q. PICK job \in JobNumbers : job = wseq /\ AtWriter = {job}
  <2>1. AtWriter = {wseq}
    BY DEF AtWriter
  <2>2. wseq \in JobNumbers
    BY <2>1 DEF PlaceInv
  <2> QED BY <2>1, <2>2
<1>h. /\ jobs[job].live /\ Decoded(job)
      /\ job \notin Pending \cup Queued \cup Sorted
      /\ \A u \in Decoders : Holding(u) => djob[u] # job
  BY <1>q DEF PlaceInv, DataInv
<1>b. reported' \subseteq Contents /\ (job + 1 \in BadFrames /\ jobs[job].more => job + 1 \in reported')
  <2>1. jobs[job].error => jobs[job].more
    BY <1>h DEF JobInv
  <2>2. jobs[job].more => job + 1 \in 1..MaxFrames
    BY <1>h DEF LiveInv, MainTypeOK
  <2>3. jobs[job].error => job + 1 \in Contents
    BY <2>1, <2>2 DEF Contents
  <2>4. job + 1 \in BadFrames /\ jobs[job].more => jobs[job].error
    BY <1>h DEF Decoded
  <2> QED BY <1>q, <2>3, <2>4 DEF LogTypeOK
<1>c. ~jobs[job].more => wseq = submitted /\ sequence = submitted + 1
  BY <1>h, <1>q DEF LiveInv, SequenceInv, MainTypeOK
<1>m. CASE jobs[job].more
  <2>1. /\ wpc' = "write" /\ UNCHANGED <<jobs, wseq>>
    BY <1>m, <1>q
  <2>2. /\ UNCHANGED <<Pending, Queued, Sorted, AtWriter>>
        /\ \A u \in Decoders : Holding(u)' <=> Holding(u)
        /\ \A j \in JobNumbers : /\ OwnsInput(j)' <=> OwnsInput(j)
                                 /\ OwnsOutput(j)' <=> OwnsOutput(j)
                                 /\ Decoded(j)' <=> Decoded(j)
    BY <2>1 DEF Pending, Queued, Sorted, AtWriter, Holding, OwnsInput,
                OwnsOutput, Decoded
  <2>3. MainTypeOK'
    BY DEF MainTypeOK, MainLabels
  <2>4. ListTypeOK' /\ LogTypeOK'
    BY <1>b DEF ListTypeOK, LogTypeOK
  <2>5. JobTypeOK'
    BY <2>1 DEF JobTypeOK
  <2>6. ThreadTypeOK'
    BY <2>1 DEF ThreadTypeOK, DecoderLabels, WriterLabels
  <2>7. PoolTypeOK'
    BY DEF PoolTypeOK
  <2>8. SequenceInv'
    BY DEF MainTypeOK, SequenceInv
  <2>9. WriterInv'
    BY <1>b, <1>m, <1>q, <2>1 DEF WriterInv
  <2>10. LiveInv'
    BY <2>1 DEF MainTypeOK, ThreadTypeOK, LiveInv, SequenceInv
  <2>11. PlaceInv'
    BY <2>2, <2>1 DEF PlaceInv
  <2>12. ListInv'
    BY DEF ListInv, ListsMatchLocks
  <2>13. JobInv'
    BY <2>2, <1>m, <1>q, <2>1 DEF JobInv
  <2>14. DataInv'
    BY <2>2, <2>1 DEF ThreadTypeOK, PlaceInv, DataInv
  <2>15. BuffersExclusive'
    BY <2>2, <2>1 DEF BuffersExclusive
  <2>16. StackInv'
    BY DEF StackInv
  <2> QED BY <2>3, <2>4, <2>5, <2>6, <2>7, <2>8, <2>9, <2>10, <2>11, <2>12,
     <2>13, <2>14, <2>15, <2>16
<1>n. CASE ~jobs[job].more
  <2>a. /\ wpc' = "verify" /\ wseq' = wseq + 1
        /\ jobs' = [jobs EXCEPT ![job] = NoJob]
    BY <1>n, <1>q
  <2>e. /\ jobs'[job] = NoJob
        /\ \A j \in JobNumbers : j # job => jobs'[j] = jobs[j]
    BY <2>a DEF JobTypeOK
  <2>2. /\ UNCHANGED <<Pending, Queued, Sorted>> /\ AtWriter' = {}
        /\ \A u \in Decoders : Holding(u)' <=> Holding(u)
        /\ \A j \in JobNumbers : /\ OwnsInput(j)' => OwnsInput(j) /\ j # job
                                 /\ OwnsOutput(j)' => OwnsOutput(j) /\ j # job
                                 /\ j # job /\ Decoded(j) => Decoded(j)'
    <3>1. UNCHANGED <<Pending, Queued, Sorted>> /\ AtWriter' = {}
      BY <2>a DEF Pending, Queued, Sorted, AtWriter
    <3>2. \A u \in Decoders : Holding(u)' <=> Holding(u)
      BY DEF Holding
    <3>3. \A j \in JobNumbers : /\ OwnsInput(j)' => OwnsInput(j) /\ j # job
                                /\ OwnsOutput(j)' => OwnsOutput(j) /\ j # job
      BY <2>e DEF OwnsInput, OwnsOutput, NoJob
    <3>4. \A j \in JobNumbers : j # job /\ Decoded(j) => Decoded(j)'
      BY <2>e DEF Decoded
    <3> QED BY <3>1, <3>2, <3>3, <3>4
  <2>3. MainTypeOK'
    BY DEF MainTypeOK, MainLabels
  <2>4. ListTypeOK' /\ LogTypeOK'
    BY <1>b DEF ListTypeOK, LogTypeOK
  <2>5. JobTypeOK'
    <3>1. NoJob \in [live : BOOLEAN, more : BOOLEAN, error : BOOLEAN, in : Nat, out : Nat]
      BY DEF NoJob
    <3>2. JobTypeOK
      OBVIOUS
    <3> HIDE DEF WriterReport, IInv
    <3> QED BY <2>a, <3>1, <3>2 DEF JobTypeOK
  <2>6. ThreadTypeOK'
    BY <1>c, <1>n, <2>a DEF ThreadTypeOK, DecoderLabels, WriterLabels,
         MainTypeOK
  <2>7. PoolTypeOK'
    BY DEF PoolTypeOK
  <2>8. SequenceInv'
    BY DEF MainTypeOK, SequenceInv
  <2>9. WriterInv'
    BY <1>c, <1>n, <2>a DEF WriterInv
  <2>10. LiveInv'
    BY <1>c, <1>h, <1>q, <2>a, <2>e DEF MainTypeOK, ThreadTypeOK, LiveInv,
         SequenceInv, NoJob
  <2>11. PlaceInv'
    BY <2>2, <1>h, <2>e DEF PlaceInv
  <2>12. ListInv'
    BY DEF ListInv, ListsMatchLocks
  <2>13. JobInv'
    BY <2>2, <1>h, <2>a, <2>e DEF JobInv, NoJob, Holding, PlaceInv
  <2>14. DataInv'
    BY <2>2, <1>h, <2>e DEF ThreadTypeOK, PlaceInv, DataInv, Holding
  <2>15. BuffersExclusive'
    BY <2>2, <2>e DEF BuffersExclusive
  <2>16. StackInv'
    BY DEF StackInv
  <2> QED BY <2>3, <2>4, <2>5, <2>6, <2>7, <2>8, <2>9, <2>10, <2>11, <2>12,
     <2>13, <2>14, <2>15, <2>16
<1> QED BY <1>m, <1>n

\* The write thread gives back an output space that the job alone owned.
LEMMA WriterDropInv ==
  ASSUME IInv, WriterDrop
  PROVE  IInv'
<1> USE DEF IInv, TypeOK, WriterDrop, mainVars, listVars, inVars, outVars,
            writerVars, logVars
<1>q. PICK job \in JobNumbers : job = wseq /\ AtWriter = {job}
  <2>1. AtWriter = {wseq}
    BY DEF AtWriter
  <2>2. wseq \in JobNumbers
    BY <2>1 DEF PlaceInv
  <2> QED BY <2>1, <2>2
<1>h. /\ jobs[job].live /\ Decoded(job)
      /\ job \notin Pending \cup Queued \cup Sorted
      /\ \A u \in Decoders : Holding(u) => djob[u] # job
  BY <1>q DEF PlaceInv, DataInv
<1>a. /\ wpc' = "take" /\ wseq' = wseq + 1
      /\ jobs' = [jobs EXCEPT ![job] = NoJob]
      /\ outFree' = <<jobs[job].out>> \o outFree
  BY <1>q
<1>b. /\ jobs[job].out \in 1..Len(outBuf)
      /\ jobs[job].out \notin Elements(outFree)
      /\ \A j \in JobNumbers : OwnsOutput(j) /\ j # job => jobs[j].out # jobs[job].out
  <2>1. OwnsOutput(job)
    BY <1>h, <1>q DEF JobInv, Decoded, OwnsOutput
  <2> QED BY <2>1 DEF DataInv, BuffersExclusive
<1>c. /\ outFree' \in Seq(1..Len(outBuf))
      /\ Elements(outFree') = Elements(outFree) \cup {jobs[job].out}
      /\ NoRepeat(outFree')
  <2>1. outFree \in Seq(1..Len(outBuf)) /\ NoRepeat(outFree)
    BY DEF PoolTypeOK, StackInv
  <2> QED BY <1>a, <1>b, <2>1, PushElements
<1>e. /\ jobs'[job] = NoJob
      /\ \A j \in JobNumbers : j # job => jobs'[j] = jobs[j]
  BY <1>a DEF JobTypeOK
<1>1. /\ UNCHANGED <<Pending, Queued, Sorted>> /\ AtWriter' = {}
      /\ \A u \in Decoders : Holding(u)' <=> Holding(u)
      /\ \A j \in JobNumbers : /\ OwnsInput(j)' => OwnsInput(j) /\ j # job
                               /\ OwnsOutput(j)' => OwnsOutput(j) /\ j # job
                               /\ j # job /\ Decoded(j) => Decoded(j)'
  <2>1. UNCHANGED <<Pending, Queued, Sorted>> /\ AtWriter' = {}
    BY <1>a DEF Pending, Queued, Sorted, AtWriter
  <2>2. \A u \in Decoders : Holding(u)' <=> Holding(u)
    BY DEF Holding
  <2>3. \A j \in JobNumbers : /\ OwnsInput(j)' => OwnsInput(j) /\ j # job
                              /\ OwnsOutput(j)' => OwnsOutput(j) /\ j # job
    BY <1>e DEF OwnsInput, OwnsOutput, NoJob
  <2>4. \A j \in JobNumbers : j # job /\ Decoded(j) => Decoded(j)'
    BY <1>e DEF Decoded
  <2> QED BY <2>1, <2>2, <2>3, <2>4
<1>2. MainTypeOK'
  BY DEF MainTypeOK, MainLabels
<1>3. ListTypeOK' /\ LogTypeOK'
  BY DEF ListTypeOK, LogTypeOK
<1>4. JobTypeOK'
  <2>1. NoJob \in [live : BOOLEAN, more : BOOLEAN, error : BOOLEAN, in : Nat, out : Nat]
    BY DEF NoJob
  <2>2. JobTypeOK
    OBVIOUS
  <2> HIDE DEF WriterDrop, IInv
  <2> QED BY <1>a, <2>1, <2>2 DEF JobTypeOK
<1>5. ThreadTypeOK'
  BY <1>a, <1>h, <1>q DEF ThreadTypeOK, DecoderLabels, WriterLabels,
       MainTypeOK, LiveInv
<1>6. PoolTypeOK'
  BY <1>c DEF PoolTypeOK
<1>7. SequenceInv'
  BY DEF MainTypeOK, SequenceInv
<1>8. WriterInv'
  BY <1>a, <1>q DEF WriterInv
<1>9. LiveInv'
  BY <1>a, <1>e, <1>h, <1>q DEF MainTypeOK, ThreadTypeOK, LiveInv,
       SequenceInv, NoJob
<1>10. PlaceInv'
  BY <1>1, <1>e, <1>h DEF PlaceInv
<1>11. ListInv'
  BY DEF ListInv, ListsMatchLocks
<1>12. JobInv'
  BY <1>1, <1>a, <1>e, <1>h DEF JobInv, NoJob, Holding, PlaceInv
<1>13. DataInv'
  BY <1>1, <1>e, <1>h DEF ThreadTypeOK, PlaceInv, DataInv, Holding
<1>14. BuffersExclusive'
  BY <1>1, <1>b, <1>c, <1>e DEF BuffersExclusive
<1>15. StackInv'
  BY <1>c DEF StackInv
<1> QED BY <1>2, <1>3, <1>4, <1>5, <1>6, <1>7, <1>8, <1>9, <1>10, <1>11,
           <1>12, <1>13, <1>14, <1>15

\* The assertion on the decode list changes nothing.
LEMMA WriterVerifyInv ==
  ASSUME IInv, WriterVerify
  PROVE  IInv'
<1> USE DEF IInv, TypeOK, WriterVerify, mainVars, listVars, inVars, outVars,
            writerVars, logVars
<1>1. /\ UNCHANGED <<Pending, Queued, Sorted, AtWriter>>
      /\ \A u \in Decoders : Holding(u)' <=> Holding(u)
      /\ \A j \in JobNumbers : /\ OwnsInput(j)' <=> OwnsInput(j)
                               /\ OwnsOutput(j)' <=> OwnsOutput(j)
                               /\ Decoded(j)' <=> Decoded(j)
  BY DEF Pending, Queued, Sorted, AtWriter, Holding, OwnsInput, OwnsOutput,
         Decoded
<1>2. MainTypeOK'
  BY DEF MainTypeOK, MainLabels
<1>3. ListTypeOK' /\ LogTypeOK'
  BY DEF ListTypeOK, LogTypeOK
<1>4. JobTypeOK'
  BY DEF JobTypeOK
<1>5. ThreadTypeOK'
  BY DEF ThreadTypeOK, DecoderLabels, WriterLabels
<1>6. PoolTypeOK'
  BY DEF PoolTypeOK
<1>7. SequenceInv'
  BY DEF MainTypeOK, SequenceInv
<1>8. WriterInv'
  BY DEF WriterInv
<1>9. LiveInv'
  BY DEF MainTypeOK, ThreadTypeOK, LiveInv, SequenceInv
<1>10. PlaceInv'
  BY <1>1 DEF PlaceInv
<1>11. ListInv'
  BY DEF ListInv, ListsMatchLocks
<1>12. JobInv'
  BY <1>1 DEF JobInv
<1>13. DataInv'
  BY <1>1 DEF ThreadTypeOK, PlaceInv, DataInv
<1>14. BuffersExclusive'
  BY <1>1 DEF BuffersExclusive
<1>15. StackInv'
  BY DEF StackInv
<1> QED BY <1>2, <1>3, <1>4, <1>5, <1>6, <1>7, <1>8, <1>9, <1>10, <1>11,
           <1>12, <1>13, <1>14, <1>15

\* When the last job has been written the write list is empty.
LEMMA WriterExitInv ==
  ASSUME IInv, WriterExit
  PROVE  IInv'
<1> USE DEF IInv, TypeOK, WriterExit, mainVars, listVars, inVars, outVars,
            writerVars, logVars
<1>a. \A j \in JobNumbers : ~jobs[j].live
  BY DEF WriterInv, MainTypeOK, ThreadTypeOK, LiveInv
<1>b. /\ Pending = {} /\ Queued = {} /\ Sorted = {} /\ AtWriter = {}
      /\ \A u \in Decoders : ~Holding(u)
  <2>1. \A j : j \notin Pending /\ j \notin Queued /\ j \notin Sorted /\ j \notin AtWriter
    BY <1>a DEF PlaceInv
  <2>2. \A u \in Decoders : ~Holding(u)
    BY <1>a DEF PlaceInv, ThreadTypeOK
  <2> QED BY <2>1, <2>2
<1>c. write_list = <<>>
  <2>1. CASE write_list # <<>>
    <3>1. 1 \in DOMAIN write_list
      BY <2>1 DEF ListTypeOK
    <3> QED BY <1>b, <3>1 DEF Sorted, Elements
  <2> QED BY <2>1
<1>1. /\ UNCHANGED <<Pending, Queued, Sorted, AtWriter>>
      /\ \A u \in Decoders : Holding(u)' <=> Holding(u)
      /\ \A j \in JobNumbers : /\ OwnsInput(j)' <=> OwnsInput(j)
                               /\ OwnsOutput(j)' <=> OwnsOutput(j)
                               /\ Decoded(j)' <=> Decoded(j)
  BY DEF Pending, Queued, Sorted, AtWriter, Holding, OwnsInput, OwnsOutput,
         Decoded
<1>2. MainTypeOK'
  BY DEF MainTypeOK, MainLabels
<1>3. ListTypeOK' /\ LogTypeOK'
  BY DEF ListTypeOK, LogTypeOK
<1>4. JobTypeOK'
  BY DEF JobTypeOK
<1>5. ThreadTypeOK'
  BY DEF ThreadTypeOK, DecoderLabels, WriterLabels
<1>6. PoolTypeOK'
  BY DEF PoolTypeOK
<1>7. SequenceInv'
  BY DEF MainTypeOK, SequenceInv
<1>8. WriterInv'
  BY DEF WriterInv
<1>9. LiveInv'
  BY DEF MainTypeOK, ThreadTypeOK, LiveInv, SequenceInv
<1>10. PlaceInv'
  BY <1>1 DEF PlaceInv
<1>11. ListInv'
  BY <1>c DEF ListInv, ListsMatchLocks
<1>12. JobInv'
  BY <1>1 DEF JobInv
<1>13. DataInv'
  BY <1>1 DEF ThreadTypeOK, PlaceInv, DataInv
<1>14. BuffersExclusive'
  BY <1>1 DEF BuffersExclusive
<1>15. StackInv'
  BY DEF StackInv
<1> QED BY <1>2, <1>3, <1>4, <1>5, <1>6, <1>7, <1>8, <1>9, <1>10, <1>11,
           <1>12, <1>13, <1>14, <1>15

\* Every step preserves the inductive invariant.
LEMMA NextInv ==
  ASSUME IInv, [Next]_vars
  PROVE  IInv'
<1>1. CASE Submit \/ Destroy
  BY <1>1, SubmitInv, DestroyInv
<1>2. CASE MainInCall
  BY <1>2, GetInputInv, LaunchInv, AppendJobInv, JoinWriterInv,
     CommandReturnInv, JoinOneInv, JoinedAllInv, FreeAllInv DEF MainInCall
<1>3. CASE WriteThread
  BY <1>3, WriterTakeInv, WriterReportInv, WriterWriteInv, WriterDropInv,
     WriterVerifyInv, WriterExitInv DEF WriteThread
<1>4. CASE \E t \in Decoders : DecodeThread(t)
  <2>1. PICK t \in Decoders : DecodeThread(t)
    BY <1>4
  <2> QED BY <2>1, TakeJobInv, TakeReturnInv, GetOutputInv, DecodeInv,
             DropInputInv, InsertJobInv DEF DecodeThread
<1>5. CASE UNCHANGED vars
  <2> USE <1>5 DEF vars
  <2>1. /\ UNCHANGED <<Pending, Queued, Sorted, AtWriter>>
        /\ \A u \in Decoders : Holding(u)' <=> Holding(u)
        /\ \A j \in JobNumbers : /\ OwnsInput(j)' <=> OwnsInput(j)
                                 /\ OwnsOutput(j)' <=> OwnsOutput(j)
                                 /\ Decoded(j)' <=> Decoded(j)
    BY DEF Pending, Queued, Sorted, AtWriter, Holding, OwnsInput, OwnsOutput,
           Decoded
  <2>2. TypeOK'
    BY DEF IInv, TypeOK, MainTypeOK, JobTypeOK, ListTypeOK, ThreadTypeOK,
           PoolTypeOK, LogTypeOK
  <2>3. SequenceInv' /\ WriterInv' /\ LiveInv'
    BY DEF IInv, SequenceInv, WriterInv, LiveInv
  <2>4. PlaceInv' /\ JobInv' /\ BuffersExclusive'
    BY <2>1 DEF IInv, PlaceInv, JobInv, BuffersExclusive
  <2>5. ListInv' /\ StackInv'
    BY DEF IInv, ListInv, ListsMatchLocks, StackInv
  <2>6. DataInv'
    BY <2>1 DEF IInv, TypeOK, ThreadTypeOK, PlaceInv, DataInv
  <2> QED BY <2>2, <2>3, <2>4, <2>5, <2>6 DEF IInv
<1> QED BY <1>1, <1>2, <1>3, <1>4, <1>5 DEF Next, Finished

\* The inductive invariant holds in every state of every run of the decoder,
\* however many decode threads and frames there are.
THEOREM InductiveInvariant == Spec => []IInv
<1>1. Init => IInv
  BY InitInv
<1>2. IInv /\ [Next]_vars => IInv'
  BY NextInv
<1> QED BY <1>1, <1>2, PTL DEF Spec

-----------------------------------------------------------------------------
(* What follows from it *)

\* The state of the decoder always has its type; in particular the input pool
\* never exceeds its limit.
THEOREM TypeCorrect == Spec => []TypeOK
<1>1. IInv => TypeOK
  BY DEF IInv
<1> QED BY <1>1, InductiveInvariant, PTL

\* No two frames share a buffer, and no buffer in use is in a free list, so the
\* data of a frame is never overwritten by that of another.
THEOREM NoBufferShared == Spec => []BuffersExclusive
<1>1. IInv => BuffersExclusive
  BY DEF IInv
<1> QED BY <1>1, InductiveInvariant, PTL

\* The values that the threads wait for describe the lists under the locks.
THEOREM LocksDescribeLists == Spec => []ListsMatchLocks
<1>1. IInv => ListsMatchLocks
  BY DEF IInv, ListInv
<1> QED BY <1>1, InductiveInvariant, PTL

\* When the write thread ends, no job is left in either list.
LEMMA NoJobLeft ==
  ASSUME IInv, wpc \in {"verify", "exit"}
  PROVE  decode_list = <<>> /\ decode_have = 0 /\ write_list = <<>>
<1> USE DEF IInv, TypeOK
<1>1. \A j \in JobNumbers : ~jobs[j].live
  BY DEF WriterInv, MainTypeOK, ThreadTypeOK, LiveInv
<1>2. Queued = {} /\ Sorted = {}
  <2>1. \A j : j \notin Queued /\ j \notin Sorted
    BY <1>1 DEF PlaceInv
  <2> QED BY <2>1
<1>3. Elements(decode_list) = {}
  BY <1>2 DEF Queued, ListInv, WriterInv
<1>4. decode_list = <<>>
  <2>1. CASE decode_list # <<>>
    <3>1. 1 \in DOMAIN decode_list
      BY <2>1 DEF ListTypeOK
    <3> QED BY <1>3, <3>1 DEF Elements
  <2> QED BY <2>1
<1>5. write_list = <<>>
  <2>1. CASE write_list # <<>>
    <3>1. 1 \in DOMAIN write_list
      BY <2>1 DEF ListTypeOK
    <3> QED BY <1>2, <3>1 DEF Elements, Sorted
  <2> QED BY <2>1
<1> QED BY <1>4, <1>5 DEF ListInv, ListsMatchLocks

\* The assertions at the end of write_thread never fail.
THEOREM WriterAssertsNeverFail == Spec => []WriterAsserts
<1>1. IInv => WriterAsserts
  BY NoJobLeft DEF WriterAsserts
<1> QED BY <1>1, InductiveInvariant, PTL

-----------------------------------------------------------------------------
(* DstDecoder implements OrderedDecode. *)

\* Each step is one of OrderedDecode, or changes nothing that it shows.
LEMMA StepSimulation ==
  ASSUME IInv, [Next]_vars
  PROVE  [Ordered!Next]_(Ordered!vars)
<1> USE DEF IInv, TypeOK, Ordered!vars, mainVars, listVars, inVars, outVars,
            writerVars, logVars
<1>1. CASE Submit
  BY <1>1 DEF Submit, Ordered!Next, Ordered!Submit
<1>2. CASE FreeAll
  <2>1. Len(written) = submitted
    BY <1>2 DEF FreeAll, WriterInv
  <2> QED BY <1>2, <2>1 DEF FreeAll, Ordered!Next, Ordered!Close
<1>3. CASE WriterReport
  <2>1. wseq \in JobNumbers /\ jobs[wseq].live /\ Decoded(wseq) /\ Len(written) = wseq
    BY <1>3 DEF WriterReport, PlaceInv, AtWriter, DataInv, WriterInv
  <2>2. CASE jobs[wseq].error
    <3>1. jobs[wseq].more
      BY <2>1, <2>2 DEF JobInv
    <3>2. wseq + 1 \in BadFrames /\ wseq + 1 <= submitted
      BY <2>1, <2>2, <3>1 DEF Decoded, LiveInv, MainTypeOK
    <3>3. Ordered!Report
      BY <1>3, <2>1, <2>2, <3>2 DEF WriterReport, Ordered!Report, Ordered!Due
    <3> QED BY <3>3 DEF Ordered!Next
  <2>3. CASE ~jobs[wseq].error
    BY <1>3, <2>3 DEF WriterReport
  <2> QED BY <2>2, <2>3
<1>4. CASE WriterWrite
  <2>1. wseq \in JobNumbers /\ jobs[wseq].live /\ Decoded(wseq) /\ Len(written) = wseq
    BY <1>4 DEF WriterWrite, PlaceInv, AtWriter, DataInv, WriterInv
  <2>2. jobs[wseq].more /\ wseq + 1 <= submitted
    BY <1>4, <2>1 DEF WriterWrite, JobInv, LiveInv, MainTypeOK
  <2>3. outBuf[jobs[wseq].out] = Result(wseq + 1)
    BY <2>1, <2>2 DEF Decoded
  <2>4. wseq + 1 \in BadFrames => wseq + 1 \in reported
    BY <1>4 DEF WriterWrite, WriterInv
  <2>5. Ordered!Write
    BY <1>4, <2>1, <2>2, <2>3, <2>4 DEF WriterWrite, Result, Ordered!Write,
       Ordered!Due, Ordered!Silence
  <2> QED BY <2>5 DEF Ordered!Next
<1>5. CASE \/ Destroy \/ GetInput \/ Launch \/ AppendJob \/ JoinWriter
           \/ CommandReturn \/ JoinOne \/ JoinedAll
  BY <1>5 DEF Destroy, GetInput, Launch, AppendJob, JoinWriter, CommandReturn,
              JoinOne, JoinedAll
<1>6. CASE WriterTake \/ WriterDrop \/ WriterVerify \/ WriterExit
  BY <1>6 DEF WriterTake, WriterDrop, WriterVerify, WriterExit
<1>7. CASE \E t \in Decoders : DecodeThread(t)
  BY <1>7 DEF DecodeThread, TakeJob, TakeReturn, GetOutput, Decode, DropInput,
              InsertJob
<1>8. CASE UNCHANGED vars
  BY <1>8 DEF vars
<1> QED BY <1>1, <1>2, <1>3, <1>4, <1>5, <1>6, <1>7, <1>8
        DEF Next, MainInCall, WriteThread, Finished

\* However its threads interleave, the decoder returns every frame exactly once
\* and in order, each error before its frame, and closes after the last one.
THEOREM Refinement == Spec => OrderedSpec
<1>1. Init => Ordered!Init
  BY DEF Init, Ordered!Init
<1>2. IInv /\ [Next]_vars => [Ordered!Next]_(Ordered!vars)
  BY StepSimulation
<1> QED BY <1>1, <1>2, InductiveInvariant, PTL DEF Spec, OrderedSpec, Ordered!Spec

-----------------------------------------------------------------------------
(* The assertions that end dst_decoder_destroy: no space is lost on the way   *)
(* of a frame, and join_all counts each decode thread once.  SpacesInv and    *)
(* ThreadsInv are inductive relative to IInv.                                 *)

USE DecoderAssumption
    DEF JobNumbers, Decoders, NoSpace, NoneWaiting, ReturnJob, Silence, Garbage

(* A free stack that holds every space made is as long as there are spaces.   *)
LEMMA FullStack ==
  ASSUME NEW n \in Nat, NEW free \in Seq(1..n), NoRepeat(free),
         \A s \in 1..n : s \in Elements(free)
  PROVE  Len(free) = n
<1>1. /\ Len(free) \in Nat /\ DOMAIN free = 1..Len(free)
      /\ free \in [1..Len(free) -> 1..n]
  OBVIOUS
<1>2. free \in Injection(1..Len(free), 1..n)
  BY <1>1 DEF Injection, IsInjective, NoRepeat
<1>3. free \in Surjection(1..Len(free), 1..n)
  BY <1>1 DEF Surjection, Elements
<1>4. ASSUME NEW m \in Nat
      PROVE  IsFiniteSet(1..m) /\ Cardinality(1..m) = m
  <2>1. Cardinality(1..m) = IF 1 > m THEN 0 ELSE m - 1 + 1
    BY FS_Interval
  <2>2. IsFiniteSet(1..m)
    BY FS_Interval
  <2> QED BY <2>1, <2>2
<1>5. Cardinality(1..Len(free)) = Cardinality(1..n)
  BY <1>2, <1>3, <1>4, FS_Injection
<1> QED BY <1>1, <1>4, <1>5

\* buffer_pool_get_space loses no space: each is still in the stack, or is the
\* one it returns.
LEMMA GetLosesNone ==
  ASSUME NEW buf \in Seq(Contents), NEW free \in Seq(1..Len(buf)), NoRepeat(free)
  PROVE  \A s \in 1..Len(BufAfterGet(free, buf)) :
           \/ s = NextSpace(free, buf)
           \/ s \in Elements(FreeAfterGet(free))
           \/ s \in 1..Len(buf) /\ s \notin Elements(free)
<1>1. CASE free = <<>>
  <2>1. /\ BufAfterGet(free, buf) = Append(buf, Garbage)
        /\ NextSpace(free, buf) = Len(buf) + 1
    BY <1>1 DEF BufAfterGet, NextSpace
  <2>2. Elements(free) = {}
    BY <1>1 DEF Elements
  <2>3. Len(Append(buf, Garbage)) = Len(buf) + 1 /\ Len(buf) \in Nat
    BY DEF Contents
  <2> QED BY <2>1, <2>2, <2>3
<1>2. CASE free # <<>>
  <2>1. /\ BufAfterGet(free, buf) = buf
        /\ FreeAfterGet(free) = Tail(free)
        /\ NextSpace(free, buf) = Head(free)
    BY <1>2 DEF BufAfterGet, FreeAfterGet, NextSpace
  <2>2. Elements(Tail(free)) = Elements(free) \ {Head(free)}
    BY <1>2, PopElements
  <2> QED BY <2>1, <2>2
<1> QED BY <1>1, <1>2

-----------------------------------------------------------------------------
(* The spaces.  First the steps that neither get nor drop a space.            *)

\* A job keeps its spaces while it stays as it is and no decode thread that is
\* decoding it goes on.
LEMMA SpacesKept ==
  ASSUME SpacesInv, UNCHANGED <<jobs, inVars, outVars>>,
         \A t \in Decoders : dpc[t] \in {"decode", "drop"} =>
           dpc'[t] = dpc[t] /\ djob'[t] = djob[t]
  PROVE  SpacesInv'
<1>1. \A j \in JobNumbers : /\ OwnsInput(j) => OwnsInput(j)'
                            /\ OwnsOutput(j) => OwnsOutput(j)'
  BY DEF OwnsInput, OwnsOutput
<1> QED BY <1>1 DEF SpacesInv, inVars, outVars

\* The main thread's steps between its calls on in_pool.
LEMMA MainKeepsSpaces ==
  ASSUME DecoderInv,
         Submit \/ Launch \/ AppendJob \/ JoinWriter \/ CommandReturn \/ JoinOne
           \/ JoinedAll \/ UNCHANGED vars
  PROVE  SpacesInv'
<1> USE DEF DecoderInv
<1>1. UNCHANGED <<jobs, inVars, outVars, djob>>
  BY DEF Submit, Launch, AppendJob, JoinWriter, CommandReturn, JoinOne,
         JoinedAll, vars, inVars, outVars
<1>2. CASE Launch
  <2>1. /\ cthreads \in 0..Procs /\ dpc \in [Decoders -> DecoderLabels]
        /\ cthreads < Procs => dpc[cthreads + 1] = "none"
    BY <1>2 DEF Launch, IInv, TypeOK, MainTypeOK, ThreadTypeOK, ThreadsInv
  <2>2. \A t \in Decoders : dpc[t] # "none" => dpc'[t] = dpc[t]
    BY <1>2, <2>1 DEF Launch
  <2> QED BY <1>1, <2>2, SpacesKept
<1>3. CASE JoinOne
  <2>1. \A t \in Decoders : dpc[t] # "exited" => dpc'[t] = dpc[t]
    BY <1>3 DEF JoinOne, IInv, TypeOK, ThreadTypeOK
  <2> QED BY <1>1, <2>1, SpacesKept
<1>4. CASE Submit \/ AppendJob \/ JoinWriter \/ CommandReturn \/ JoinedAll
             \/ UNCHANGED vars
  <2>1. UNCHANGED dpc
    BY <1>4 DEF Submit, AppendJob, JoinWriter, CommandReturn, JoinedAll, vars
  <2> QED BY <1>1, <2>1, SpacesKept
<1> QED BY <1>2, <1>3, <1>4

\* The decode threads' steps on the lists.
LEMMA ListStepsKeepSpaces ==
  ASSUME DecoderInv, NEW t \in Decoders, TakeJob(t) \/ TakeReturn(t) \/ InsertJob(t)
  PROVE  SpacesInv'
<1> USE DEF DecoderInv
<1>1. /\ UNCHANGED <<jobs, inVars, outVars>>
      /\ dpc[t] \in {"take", "insert"}
  BY DEF TakeJob, TakeReturn, InsertJob
<1>2. \A u \in Decoders : u # t => dpc'[u] = dpc[u] /\ djob'[u] = djob[u]
  BY DEF TakeJob, TakeReturn, InsertJob, IInv, TypeOK, ThreadTypeOK
<1> QED BY <1>1, <1>2, SpacesKept

\* The write thread's steps that leave its job alone.
LEMMA WriterKeepsSpaces ==
  ASSUME DecoderInv, WriterTake \/ WriterWrite \/ WriterVerify \/ WriterExit
  PROVE  SpacesInv'
<1>1. UNCHANGED <<jobs, inVars, outVars, dpc, djob>>
  BY DEF WriterTake, WriterWrite, WriterVerify, WriterExit, inVars, outVars
<1> QED BY <1>1, SpacesKept DEF DecoderInv

-----------------------------------------------------------------------------
(* The steps that make or end a job, and those that get or drop a space.      *)

\* No job has the next sequence number yet, so the new job replaces none.
LEMMA NextNumberFree ==
  ASSUME IInv, mpc \in {"ready", "getspace"}, mpc = "ready" \/ submitted > 0
  PROVE  sequence \in JobNumbers /\ ~jobs[sequence].live
<1>1. sequence \in JobNumbers
  BY DEF IInv, TypeOK, MainTypeOK, SequenceInv
<1> QED BY <1>1 DEF IInv, LiveInv

LEMMA GetInputSpaces ==
  ASSUME DecoderInv, GetInput
  PROVE  SpacesInv'
<1> USE DEF DecoderInv
<1> DEFINE space == NextSpace(inFree, inBuf)
<1>1. /\ sequence \in JobNumbers /\ ~jobs[sequence].live
      /\ jobs \in [JobNumbers -> [live : BOOLEAN, more : BOOLEAN, error : BOOLEAN,
                                  in : Nat, out : Nat]]
  <2>1. submitted > 0
    BY DEF GetInput, IInv, TypeOK, MainTypeOK, SequenceInv
  <2> QED BY <2>1, NextNumberFree DEF GetInput, IInv, TypeOK, JobTypeOK
<1>n. PICK n \in JobNumbers : n = sequence
  BY <1>1
<1>2. /\ jobs'[n] = NewJob(TRUE, space)
      /\ \A j \in JobNumbers : j # n => jobs'[j] = jobs[j]
      /\ UNCHANGED <<dpc, djob, outVars>>
  BY <1>1, <1>n DEF GetInput
<1>3. OwnsInput(n)' /\ jobs'[n].in = space
  BY <1>2 DEF OwnsInput, NewJob
<1>4. \A j \in JobNumbers : j # n =>
        /\ OwnsInput(j) => OwnsInput(j)'
        /\ OwnsOutput(j) => OwnsOutput(j)'
  BY <1>2 DEF OwnsInput, OwnsOutput
<1>5. ~OwnsInput(n) /\ ~OwnsOutput(n)
  BY <1>1, <1>n DEF OwnsInput, OwnsOutput
<1>6. /\ inBuf \in Seq(Contents) /\ inFree \in Seq(1..Len(inBuf)) /\ NoRepeat(inFree)
  BY DEF IInv, TypeOK, PoolTypeOK, StackInv
<1>7. /\ inFree' = FreeAfterGet(inFree)
      /\ Len(inBuf') = Len(BufAfterGet(inFree, inBuf))
  <2>1. BufAfterGet(inFree, inBuf) \in Seq(Contents)
    BY <1>6, GetSpace
  <2> QED BY <2>1 DEF GetInput
<1>8. ASSUME NEW s \in 1..Len(inBuf')
      PROVE  \/ s \in Elements(inFree')
             \/ \E j \in JobNumbers : OwnsInput(j)' /\ jobs'[j].in = s
  <2>1. \/ s = space
        \/ s \in Elements(inFree')
        \/ s \in 1..Len(inBuf) /\ s \notin Elements(inFree)
    BY <1>6, <1>7, GetLosesNone
  <2>2. CASE s = space
    BY <1>3, <2>2
  <2>3. CASE s \in 1..Len(inBuf) /\ s \notin Elements(inFree)
    <3>1. PICK j \in JobNumbers : OwnsInput(j) /\ jobs[j].in = s
      BY <2>3 DEF SpacesInv
    <3> QED BY <1>2, <1>4, <1>5, <3>1
  <2> QED BY <2>1, <2>2, <2>3
<1>9. ASSUME NEW s \in 1..Len(outBuf')
      PROVE  \/ s \in Elements(outFree')
             \/ \E j \in JobNumbers : OwnsOutput(j)' /\ jobs'[j].out = s
  <2>1. CASE s \notin Elements(outFree)
    <3>1. PICK j \in JobNumbers : OwnsOutput(j) /\ jobs[j].out = s
      BY <1>2, <2>1 DEF SpacesInv, outVars
    <3> QED BY <1>2, <1>4, <1>5, <3>1
  <2> QED BY <1>2, <2>1 DEF outVars
<1> QED BY <1>8, <1>9 DEF SpacesInv

LEMMA DestroySpaces ==
  ASSUME DecoderInv, Destroy
  PROVE  SpacesInv'
<1> USE DEF DecoderInv
<1>1. /\ sequence \in JobNumbers /\ ~jobs[sequence].live
      /\ jobs \in [JobNumbers -> [live : BOOLEAN, more : BOOLEAN, error : BOOLEAN,
                                  in : Nat, out : Nat]]
  BY NextNumberFree DEF Destroy, IInv, TypeOK, JobTypeOK
<1>2. /\ \A j \in JobNumbers : j # sequence => jobs'[j] = jobs[j]
      /\ UNCHANGED <<dpc, djob, inVars, outVars>>
  BY <1>1 DEF Destroy
<1>3. \A j \in JobNumbers :
        /\ OwnsInput(j) => j # sequence /\ OwnsInput(j)'
        /\ OwnsOutput(j) => j # sequence /\ OwnsOutput(j)'
  BY <1>1, <1>2 DEF OwnsInput, OwnsOutput
<1> QED BY <1>2, <1>3 DEF SpacesInv, inVars, outVars

LEMMA GetOutputSpaces ==
  ASSUME DecoderInv, NEW t \in Decoders, GetOutput(t)
  PROVE  SpacesInv'
<1> USE DEF DecoderInv
<1> DEFINE space == NextSpace(outFree, outBuf)
<1>j. PICK job : job = djob[t]
  OBVIOUS
<1>1. /\ job \in JobNumbers /\ jobs[job].live /\ jobs[job].more
      /\ jobs[job].out = NoSpace
  <2>1. Holding(t)
    BY DEF GetOutput, Holding
  <2> QED BY <1>j, <2>1 DEF GetOutput, IInv, TypeOK, ThreadTypeOK, PlaceInv, JobInv
<1>2. /\ jobs \in [JobNumbers -> [live : BOOLEAN, more : BOOLEAN, error : BOOLEAN,
                                  in : Nat, out : Nat]]
      /\ dpc \in [Decoders -> DecoderLabels]
  BY DEF IInv, TypeOK, JobTypeOK, ThreadTypeOK
<1>3. /\ jobs'[job] = [jobs[job] EXCEPT !.out = space]
      /\ \A j \in JobNumbers : j # job => jobs'[j] = jobs[j]
      /\ dpc'[t] = "decode" /\ \A u \in Decoders : u # t => dpc'[u] = dpc[u]
      /\ dpc[t] = "space"
      /\ UNCHANGED <<djob, inVars>>
  BY <1>1, <1>2, <1>j DEF GetOutput
<1>4. /\ outBuf \in Seq(Contents) /\ outFree \in Seq(1..Len(outBuf)) /\ NoRepeat(outFree)
      /\ outFree' = FreeAfterGet(outFree)
      /\ outBuf' = BufAfterGet(outFree, outBuf)
  BY DEF GetOutput, IInv, TypeOK, PoolTypeOK, StackInv
<1>5. space # NoSpace
  <2>1. space \in 1..Len(BufAfterGet(outFree, outBuf))
    BY <1>4, GetSpace
  <2> QED BY <2>1
<1>6. jobs'[job].live /\ jobs'[job].more /\ jobs'[job].out = space
      /\ jobs'[job].in = jobs[job].in
  BY <1>1, <1>2, <1>3
<1> HIDE DEF space
<1>7. OwnsInput(job)' /\ OwnsOutput(job)' /\ ~OwnsOutput(job)
  BY <1>1, <1>3, <1>5, <1>6, <1>j DEF OwnsInput, OwnsOutput
<1>8. \A j \in JobNumbers : j # job =>
        /\ OwnsInput(j) => OwnsInput(j)'
        /\ OwnsOutput(j) => OwnsOutput(j)'
  BY <1>1, <1>3, <1>j DEF OwnsInput, OwnsOutput
<1>9. ASSUME NEW s \in 1..Len(inBuf')
      PROVE  \/ s \in Elements(inFree')
             \/ \E j \in JobNumbers : OwnsInput(j)' /\ jobs'[j].in = s
  <2>1. CASE s \notin Elements(inFree)
    <3>1. PICK j \in JobNumbers : OwnsInput(j) /\ jobs[j].in = s
      BY <1>3, <2>1 DEF SpacesInv, inVars
    <3> QED BY <1>3, <1>6, <1>7, <1>8, <3>1
  <2> QED BY <1>3, <2>1 DEF inVars
<1>10. ASSUME NEW s \in 1..Len(outBuf')
       PROVE  \/ s \in Elements(outFree')
              \/ \E j \in JobNumbers : OwnsOutput(j)' /\ jobs'[j].out = s
  <2>1. \/ s = space
        \/ s \in Elements(outFree')
        \/ s \in 1..Len(outBuf) /\ s \notin Elements(outFree)
    BY <1>4, GetLosesNone DEF space
  <2>2. CASE s = space
    BY <1>1, <1>6, <1>7, <2>2
  <2>3. CASE s \in 1..Len(outBuf) /\ s \notin Elements(outFree)
    <3>1. PICK j \in JobNumbers : OwnsOutput(j) /\ jobs[j].out = s
      BY <2>3 DEF SpacesInv
    <3> QED BY <1>3, <1>7, <1>8, <3>1
  <2> QED BY <2>1, <2>2, <2>3
<1> QED BY <1>9, <1>10 DEF SpacesInv

LEMMA DecodeSpaces ==
  ASSUME DecoderInv, NEW t \in Decoders, Decode(t)
  PROVE  SpacesInv'
<1> USE DEF DecoderInv
<1>1. /\ djob[t] \in JobNumbers
      /\ jobs \in [JobNumbers -> [live : BOOLEAN, more : BOOLEAN, error : BOOLEAN,
                                  in : Nat, out : Nat]]
      /\ dpc \in [Decoders -> DecoderLabels]
      /\ outBuf \in Seq(Contents)
  BY DEF IInv, TypeOK, JobTypeOK, ThreadTypeOK, PoolTypeOK
<1>2. /\ \A j \in JobNumbers : /\ jobs'[j].live = jobs[j].live
                               /\ jobs'[j].more = jobs[j].more
                               /\ jobs'[j].in = jobs[j].in
                               /\ jobs'[j].out = jobs[j].out
      /\ dpc'[t] = "drop" /\ \A u \in Decoders : u # t => dpc'[u] = dpc[u]
      /\ dpc[t] = "decode"
      /\ UNCHANGED <<djob, inVars, outFree>>
  BY <1>1 DEF Decode
<1>3. Len(outBuf') = Len(outBuf)
  BY <1>1 DEF Decode
<1>4. \A j \in JobNumbers : /\ OwnsInput(j) => OwnsInput(j)'
                            /\ OwnsOutput(j) => OwnsOutput(j)'
  BY <1>2 DEF OwnsInput, OwnsOutput
<1> QED BY <1>2, <1>3, <1>4 DEF SpacesInv, inVars

LEMMA DropInputSpaces ==
  ASSUME DecoderInv, NEW t \in Decoders, DropInput(t)
  PROVE  SpacesInv'
<1> USE DEF DecoderInv
<1> DEFINE job == djob[t]
<1>1. /\ job \in JobNumbers
      /\ dpc \in [Decoders -> DecoderLabels]
      /\ dpc[t] = "drop" /\ \A u \in Decoders : u # t => dpc'[u] = dpc[u]
      /\ UNCHANGED <<jobs, djob, inBuf, outVars>>
  BY DEF DropInput, IInv, TypeOK, ThreadTypeOK
<1>2. Holding(t) /\ OwnsInput(job)
  <2>1. Holding(t)
    BY <1>1 DEF Holding
  <2>2. jobs[job].live /\ jobs[job].more
    BY <1>1, <2>1 DEF IInv, PlaceInv, JobInv
  <2> QED BY <1>1, <2>1, <2>2 DEF OwnsInput
<1>3. Elements(inFree') = Elements(inFree) \cup {jobs[job].in}
  <2>1. jobs[job].in \in 1..Len(inBuf) /\ inFree \in Seq(1..Len(inBuf))
    BY <1>1, <1>2 DEF IInv, TypeOK, PoolTypeOK, DataInv
  <2> QED BY <2>1, PushElements DEF DropInput
<1>4. \A j \in JobNumbers : /\ j # job /\ OwnsInput(j) => OwnsInput(j)'
                            /\ OwnsOutput(j) => OwnsOutput(j)'
  BY <1>1 DEF OwnsInput, OwnsOutput
<1> QED BY <1>1, <1>3, <1>4 DEF SpacesInv, outVars

\* The last job ends without ever having had a space.
LEMMA WriterReportSpaces ==
  ASSUME DecoderInv, WriterReport
  PROVE  SpacesInv'
<1> USE DEF DecoderInv
<1>1. /\ UNCHANGED <<dpc, djob, inVars, outVars>>
      /\ wpc = "report"
      /\ jobs' = IF jobs[wseq].more THEN jobs ELSE [jobs EXCEPT ![wseq] = NoJob]
  BY DEF WriterReport
<1>2. CASE jobs[wseq].more
  BY <1>1, <1>2, SpacesKept
<1>3. CASE ~jobs[wseq].more
  <2>1. wseq \in JobNumbers /\ jobs[wseq].live
    BY <1>1 DEF IInv, PlaceInv, AtWriter
  <2>2. ~OwnsInput(wseq) /\ ~OwnsOutput(wseq)
    BY <1>3, <2>1 DEF OwnsInput, OwnsOutput, IInv, JobInv
  <2>3. \A j \in JobNumbers : j # wseq => jobs'[j] = jobs[j]
    BY <1>1, <1>3 DEF IInv, TypeOK, JobTypeOK
  <2>4. \A j \in JobNumbers :
          /\ OwnsInput(j) => j # wseq /\ OwnsInput(j)'
          /\ OwnsOutput(j) => j # wseq /\ OwnsOutput(j)'
    BY <1>1, <2>2, <2>3 DEF OwnsInput, OwnsOutput
  <2> QED BY <1>1, <2>3, <2>4 DEF SpacesInv, inVars, outVars
<1> QED BY <1>2, <1>3

\* When the write thread is done with a frame, no decode thread has it, so the
\* job's input space is back in its pool.
LEMMA WriterDropSpaces ==
  ASSUME DecoderInv, WriterDrop
  PROVE  SpacesInv'
<1> USE DEF DecoderInv
<1>1. /\ UNCHANGED <<dpc, djob, inVars, outBuf>>
      /\ wpc = "drop"
      /\ jobs' = [jobs EXCEPT ![wseq] = NoJob]
      /\ outFree' = <<jobs[wseq].out>> \o outFree
  BY DEF WriterDrop
<1>2. wseq \in AtWriter
  BY <1>1 DEF AtWriter
<1>3. /\ wseq \in JobNumbers /\ jobs[wseq].live /\ jobs[wseq].more
      /\ jobs[wseq].out # NoSpace
  <2>1. wseq \in JobNumbers /\ jobs[wseq].live /\ jobs[wseq].more
    BY <1>1, <1>2 DEF IInv, PlaceInv, JobInv
  <2>2. Decoded(wseq)
    BY <1>2 DEF IInv, DataInv
  <2> QED BY <2>1, <2>2 DEF Decoded
<1>4. ~OwnsInput(wseq)
  <2>1. \A t \in Decoders : djob[t] = wseq => ~Holding(t)
    BY <1>2 DEF IInv, PlaceInv
  <2>2. \A t \in Decoders : djob[t] = wseq => dpc[t] \notin {"decode", "drop"}
    BY <2>1 DEF Holding
  <2> QED BY <1>3, <2>2 DEF OwnsInput
<1>5. Elements(outFree') = Elements(outFree) \cup {jobs[wseq].out}
  <2>1. OwnsOutput(wseq)
    BY <1>3 DEF OwnsOutput
  <2>2. jobs[wseq].out \in 1..Len(outBuf) /\ outFree \in Seq(1..Len(outBuf))
    BY <1>3, <2>1 DEF IInv, TypeOK, PoolTypeOK, DataInv
  <2> QED BY <1>1, <2>2, PushElements
<1>6. \A j \in JobNumbers : j # wseq => jobs'[j] = jobs[j]
  BY <1>1 DEF IInv, TypeOK, JobTypeOK
<1>7. \A j \in JobNumbers : j # wseq =>
        /\ OwnsInput(j) => OwnsInput(j)'
        /\ OwnsOutput(j) => OwnsOutput(j)'
  BY <1>1, <1>6 DEF OwnsInput, OwnsOutput
<1> QED BY <1>1, <1>4, <1>5, <1>6, <1>7, SMTT(30) DEF SpacesInv, inVars

LEMMA FreeAllSpaces ==
  ASSUME FreeAll
  PROVE  SpacesInv'
<1>1. Len(inBuf') = 0 /\ Len(outBuf') = 0
  BY DEF FreeAll
<1> QED BY <1>1 DEF SpacesInv

-----------------------------------------------------------------------------
(* The decode threads. *)

\* The invariant depends on nothing but which threads have started, which are
\* joined, and the main thread's numbers.
LEMMA ThreadsKept ==
  ASSUME ThreadsInv, UNCHANGED <<cthreads, caught>>,
         \A t \in Decoders : /\ dpc'[t] = "none" <=> dpc[t] = "none"
                             /\ dpc'[t] = "joined" <=> dpc[t] = "joined",
         mpc = "done" => mpc' = "done",
         mpc' \in {"free", "done"} => \A t \in Decoders : dpc'[t] \in {"none", "joined"}
  PROVE  ThreadsInv'
<1>1. Joined' = Joined
  BY DEF Joined
<1> QED BY <1>1 DEF ThreadsInv

LEMMA LaunchThreads ==
  ASSUME DecoderInv, Launch
  PROVE  ThreadsInv'
<1> USE DEF DecoderInv
<1>1. cthreads \in 0..Procs /\ dpc \in [Decoders -> DecoderLabels]
  BY DEF IInv, TypeOK, MainTypeOK, ThreadTypeOK
<1>2. mpc = "launch" /\ mpc' = "append" /\ caught' = caught
  BY DEF Launch
<1>3. CASE cthreads < Procs
  <2>1. /\ cthreads + 1 \in Decoders /\ cthreads' = cthreads + 1
        /\ dpc'[cthreads + 1] = "take" /\ dpc[cthreads + 1] = "none"
        /\ \A t \in Decoders : t # cthreads + 1 => dpc'[t] = dpc[t]
    BY <1>1, <1>2, <1>3 DEF Launch, ThreadsInv
  <2>2. Joined' = Joined
    BY <2>1 DEF Joined
  <2>3. \A t \in Decoders : dpc'[t] # "none" <=> t <= cthreads'
    BY <1>1, <1>2, <2>1 DEF ThreadsInv
  <2> QED BY <1>2, <2>2, <2>3 DEF ThreadsInv
<1>4. CASE ~(cthreads < Procs)
  <2>1. UNCHANGED <<dpc, cthreads>>
    BY <1>4 DEF Launch
  <2> QED BY <1>2, <2>1, ThreadsKept
<1> QED BY <1>3, <1>4

LEMMA JoinOneThreads ==
  ASSUME DecoderInv, JoinOne
  PROVE  ThreadsInv'
<1> USE DEF DecoderInv
<1>1. PICK t \in Decoders : dpc[t] = "exited" /\ dpc' = [dpc EXCEPT ![t] = "joined"]
  BY DEF JoinOne
<1>2. /\ mpc = "joinall" /\ mpc' = mpc /\ caught' = caught + 1 /\ cthreads' = cthreads
      /\ dpc \in [Decoders -> DecoderLabels]
  BY DEF JoinOne, IInv, TypeOK, ThreadTypeOK
<1>3. dpc'[t] = "joined" /\ \A u \in Decoders : u # t => dpc'[u] = dpc[u]
  BY <1>1, <1>2
<1>4. Joined' = Joined \cup {t} /\ t \notin Joined
  BY <1>1, <1>3 DEF Joined
<1>5. IsFiniteSet(Joined)
  <2>1. IsFiniteSet(1..Procs)
    BY FS_Interval
  <2>2. Joined \subseteq 1..Procs
    BY DEF Joined
  <2> QED BY <2>1, <2>2, FS_Subset
<1>6. Cardinality(Joined') = Cardinality(Joined) + 1
  BY <1>4, <1>5, FS_AddElement
<1>7. \A u \in Decoders : dpc'[u] # "none" <=> u <= cthreads'
  BY <1>1, <1>2, <1>3 DEF ThreadsInv
<1> QED BY <1>2, <1>6, <1>7 DEF ThreadsInv

LEMMA MainThreads ==
  ASSUME DecoderInv,
         Submit \/ Destroy \/ GetInput \/ AppendJob \/ JoinWriter \/ CommandReturn
           \/ UNCHANGED vars
  PROVE  ThreadsInv'
<1>1. /\ UNCHANGED <<cthreads, caught, dpc>>
      /\ mpc = "done" => mpc' = "done"
      /\ mpc' \in {"free", "done"} => mpc' = mpc
  BY DEF Submit, Destroy, GetInput, AppendJob, JoinWriter, CommandReturn, vars
<1> QED BY <1>1, ThreadsKept DEF DecoderInv, ThreadsInv

LEMMA JoinedAllThreads ==
  ASSUME DecoderInv, JoinedAll
  PROVE  ThreadsInv'
<1>1. /\ UNCHANGED <<cthreads, caught, dpc>>
      /\ mpc = "joinall"
      /\ \A t \in Decoders : dpc[t] \in {"none", "joined"}
  BY DEF JoinedAll
<1> QED BY <1>1, ThreadsKept DEF DecoderInv

LEMMA FreeAllThreads ==
  ASSUME DecoderInv, FreeAll
  PROVE  ThreadsInv'
<1>1. UNCHANGED <<caught, dpc>> /\ mpc = "free" /\ mpc' = "done"
  BY DEF FreeAll
<1>2. Joined' = Joined
  BY <1>1 DEF Joined
<1> QED BY <1>1, <1>2 DEF DecoderInv, ThreadsInv

LEMMA DecodeThreads ==
  ASSUME DecoderInv, NEW t \in Decoders, DecodeThread(t)
  PROVE  ThreadsInv'
<1> USE DEF DecoderInv
<1>1. /\ UNCHANGED mainVars
      /\ dpc \in [Decoders -> DecoderLabels]
      /\ dpc[t] \notin {"none", "joined"}
      /\ \A u \in Decoders : u # t => dpc'[u] = dpc[u]
  BY DEF DecodeThread, TakeJob, TakeReturn, GetOutput, Decode, DropInput,
         InsertJob, IInv, TypeOK, ThreadTypeOK
<1>2. dpc'[t] \notin {"none", "joined"}
  BY <1>1 DEF DecodeThread, TakeJob, TakeReturn, GetOutput, Decode, DropInput,
         InsertJob
<1>3. mpc \notin {"free", "done"}
  BY <1>1 DEF ThreadsInv
<1> QED BY <1>1, <1>2, <1>3, ThreadsKept DEF mainVars

LEMMA WriterThreads ==
  ASSUME DecoderInv, WriteThread
  PROVE  ThreadsInv'
<1>1. UNCHANGED mainVars /\ UNCHANGED dpc
  BY DEF WriteThread, WriterTake, WriterReport, WriterWrite, WriterDrop,
         WriterVerify, WriterExit
<1> QED BY <1>1, ThreadsKept DEF DecoderInv, ThreadsInv, mainVars

-----------------------------------------------------------------------------
LEMMA DecoderInit == Init => DecoderInv
<1> SUFFICES ASSUME Init PROVE DecoderInv
  OBVIOUS
<1>1. IInv
  BY InitInv
<1>2. Len(inBuf) = 0 /\ Len(outBuf) = 0
  BY DEF Init
<1>3. SpacesInv
  BY <1>2 DEF SpacesInv
<1>4. ThreadsInv
  <2>1. /\ \A t \in Decoders : dpc[t] = "none" /\ ~(t <= cthreads)
        /\ caught = 0 /\ mpc = "ready"
    BY DEF Init
  <2>2. Joined = {}
    BY <2>1 DEF Joined
  <2>3. Cardinality(Joined) = 0
    BY <2>2, FS_EmptySet
  <2> QED BY <2>1, <2>3 DEF ThreadsInv
<1> QED BY <1>1, <1>3, <1>4 DEF DecoderInv

LEMMA DecoderNext ==
  ASSUME DecoderInv, [Next]_vars
  PROVE  DecoderInv'
<1>1. IInv'
  BY NextInv DEF DecoderInv
<1>2. SpacesInv' /\ ThreadsInv'
  <2>1. CASE Submit \/ Destroy \/ UNCHANGED vars
    BY <2>1, MainKeepsSpaces, DestroySpaces, MainThreads
  <2>2. CASE GetInput \/ AppendJob \/ JoinWriter \/ CommandReturn
    BY <2>2, GetInputSpaces, MainKeepsSpaces, MainThreads
  <2>3. CASE Launch \/ JoinOne \/ JoinedAll
    BY <2>3, MainKeepsSpaces, LaunchThreads, JoinOneThreads, JoinedAllThreads
  <2>4. CASE FreeAll
    BY <2>4, FreeAllSpaces, FreeAllThreads
  <2>5. CASE WriteThread
    BY <2>5, WriterKeepsSpaces, WriterReportSpaces, WriterDropSpaces,
       WriterThreads DEF WriteThread
  <2>6. CASE \E t \in Decoders : DecodeThread(t)
    <3>1. PICK t \in Decoders : DecodeThread(t)
      BY <2>6
    <3>2. SpacesInv'
      BY <3>1, ListStepsKeepSpaces, GetOutputSpaces, DecodeSpaces,
         DropInputSpaces DEF DecodeThread
    <3> QED BY <3>1, <3>2, DecodeThreads
  <2> QED BY <2>1, <2>2, <2>3, <2>4, <2>5, <2>6 DEF Next, MainInCall, Finished
<1> QED BY <1>1, <1>2 DEF DecoderInv

\* Every space made is free or belongs to a frame on its way, and the decode
\* threads are counted, in every state of every run of the decoder.
THEOREM EverySpaceAccounted == Spec => []DecoderInv
<1>1. Init => DecoderInv
  BY DecoderInit
<1>2. DecoderInv /\ [Next]_vars => DecoderInv'
  BY DecoderNext
<1> QED BY <1>1, <1>2, PTL DEF Spec

\* When join_all has returned no frame is on its way, so both pools are whole,
\* and as many threads were joined as were launched.
LEMMA WholeAtTheEnd ==
  ASSUME DecoderInv, mpc = "free"
  PROVE  caught = cthreads /\ Len(inFree) = Len(inBuf) /\ Len(outFree) = Len(outBuf)
<1> USE DEF DecoderInv
<1>1. \A j \in JobNumbers : ~OwnsInput(j) /\ ~OwnsOutput(j)
  <2>1. \A j \in JobNumbers : ~jobs[j].live
    BY DEF IInv, TypeOK, WriterInv, MainTypeOK, ThreadTypeOK, LiveInv
  <2> QED BY <2>1 DEF OwnsInput, OwnsOutput
<1>2. /\ Len(inBuf) \in Nat /\ inFree \in Seq(1..Len(inBuf)) /\ NoRepeat(inFree)
      /\ Len(outBuf) \in Nat /\ outFree \in Seq(1..Len(outBuf)) /\ NoRepeat(outFree)
  BY DEF IInv, TypeOK, PoolTypeOK, StackInv
<1>3. Len(inFree) = Len(inBuf)
  <2>1. \A s \in 1..Len(inBuf) : s \in Elements(inFree)
    BY <1>1 DEF SpacesInv
  <2> QED BY <1>2, <2>1, FullStack
<1>4. Len(outFree) = Len(outBuf)
  <2>1. \A s \in 1..Len(outBuf) : s \in Elements(outFree)
    BY <1>1 DEF SpacesInv
  <2> QED BY <1>2, <2>1, FullStack
<1>5. caught = cthreads
  <2>1. cthreads \in 0..Procs
    BY DEF IInv, TypeOK, MainTypeOK
  <2>2. Joined = 1..cthreads
    BY <2>1 DEF Joined, ThreadsInv
  <2>3. Cardinality(1..cthreads) = IF 1 > cthreads THEN 0 ELSE cthreads - 1 + 1
    BY <2>1, FS_Interval
  <2>4. caught = Cardinality(Joined)
    BY DEF ThreadsInv
  <2>5. Cardinality(Joined) = cthreads
    BY <2>1, <2>2, <2>3
  <2> QED BY <2>4, <2>5
<1> QED BY <1>3, <1>4, <1>5

\* The assertions at the end of dst_decoder_destroy never fail.
THEOREM DestroyAssertsNeverFail == Spec => []DestroyAsserts
<1>1. DecoderInv => DestroyAsserts
  BY WholeAtTheEnd DEF DestroyAsserts
<1> QED BY <1>1, EverySpaceAccounted, PTL
=============================================================================
