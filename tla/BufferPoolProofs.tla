-------------------------- MODULE BufferPoolProofs --------------------------
(* Proofs about BufferPool and ThreadList, for every number of threads and     *)
(* every limit.                                                               *)
EXTENDS MCBufferPool, SequenceTheorems, FiniteSetTheorems, DataInduction, TLAPS

-----------------------------------------------------------------------------
(* The calls of yarn.c, as the actions use them. *)

\* What the calls that take and give back the mutex leave of a lock.
LEMMA LockCalls ==
  ASSUME NEW V, NEW b \in LockType(Threads, V), NEW t \in Threads
  PROVE  /\ Possess(b, t) = [owner |-> t, value |-> b.value, waiting |-> b.waiting]
         /\ Release(b) = [owner |-> NoThread, value |-> b.value, waiting |-> b.waiting]
         /\ CondWait(b, t) = [owner |-> NoThread, value |-> b.value,
                              waiting |-> b.waiting \cup {t}]
         /\ Possess(b, t) \in LockType(Threads, V)
         /\ Release(b) \in LockType(Threads, V)
         /\ CondWait(b, t) \in LockType(Threads, V)
<1>1. /\ b = [owner |-> b.owner, value |-> b.value, waiting |-> b.waiting]
      /\ b.value \in V /\ b.waiting \in SUBSET Threads
  BY DEF LockType
<1>2. \A o \in Threads \cup {NoThread}, n \in V, w \in SUBSET Threads :
        [owner |-> o, value |-> n, waiting |-> w] \in LockType(Threads, V)
  BY DEF LockType
<1>3. Possess(b, t) = [owner |-> t, value |-> b.value, waiting |-> b.waiting]
  BY <1>1 DEF Possess
<1>4. Release(b) = [owner |-> NoThread, value |-> b.value, waiting |-> b.waiting]
  BY <1>1 DEF Release
<1>5. CondWait(b, t) = [owner |-> NoThread, value |-> b.value,
                        waiting |-> b.waiting \cup {t}]
  BY DEF CondWait
<1>6. b.waiting \cup {t} \in SUBSET Threads
  BY <1>1
<1> QED BY <1>1, <1>2, <1>3, <1>4, <1>5, <1>6

\* A lock that is twisted to a value, or new with it, is free and nobody waits.
LEMMA LockValues ==
  ASSUME NEW V, NEW v \in V, NEW b
  PROVE  /\ TwistTo(b, v) = [owner |-> NoThread, value |-> v, waiting |-> {}]
         /\ NewLock(v) = [owner |-> NoThread, value |-> v, waiting |-> {}]
         /\ TwistTo(b, v) \in LockType(Threads, V)
         /\ NewLock(v) \in LockType(Threads, V)
  BY DEF TwistTo, NewLock, LockType

-----------------------------------------------------------------------------
(* The free list. *)

Elems(q) == {q[i] : i \in DOMAIN q}
Distinct(q) == \A i, j \in DOMAIN q : q[i] = q[j] => i = j

\* Taking the head of a list without repetitions.
LEMMA PopList ==
  ASSUME NEW S, NEW q \in Seq(S), q # <<>>, Distinct(q)
  PROVE  /\ Head(q) \in Elems(q)
         /\ Tail(q) \in Seq(S) /\ Len(Tail(q)) = Len(q) - 1
         /\ Elems(Tail(q)) = Elems(q) \ {Head(q)}
         /\ Distinct(Tail(q))
<1>1. /\ Len(q) \in Nat \ {0} /\ DOMAIN q = 1..Len(q) /\ Head(q) = q[1]
      /\ Tail(q) \in Seq(S) /\ Len(Tail(q)) = Len(q) - 1
      /\ DOMAIN Tail(q) = 1..(Len(q) - 1)
      /\ \A i \in 1..(Len(q) - 1) : Tail(q)[i] = q[i + 1]
  OBVIOUS
<1>2. Distinct(Tail(q)) /\ Head(q) \in Elems(q)
  BY <1>1 DEF Distinct, Elems
<1>3. Elems(Tail(q)) \subseteq Elems(q) \ {Head(q)}
  BY <1>1 DEF Distinct, Elems
<1>4. ASSUME NEW e \in Elems(q) \ {Head(q)}
      PROVE  e \in Elems(Tail(q))
  <2>1. PICK i \in 1..Len(q) : e = q[i]
    BY <1>1 DEF Elems
  <2>2. i - 1 \in 1..(Len(q) - 1) /\ Tail(q)[i - 1] = e
    BY <1>1, <2>1
  <2> QED BY <1>1, <2>2 DEF Elems
<1> QED BY <1>1, <1>2, <1>3, <1>4

\* Linking a space in front of a list it is not in.
LEMMA PushList ==
  ASSUME NEW S, NEW q \in Seq(S), NEW e \in S, e \notin Elems(q), Distinct(q)
  PROVE  /\ <<e>> \o q \in Seq(S) /\ Len(<<e>> \o q) = Len(q) + 1
         /\ Elems(<<e>> \o q) = Elems(q) \cup {e}
         /\ Distinct(<<e>> \o q)
<1> DEFINE new == <<e>> \o q
<1>1. /\ Len(q) \in Nat /\ DOMAIN q = 1..Len(q)
      /\ new \in Seq(S) /\ Len(new) = Len(q) + 1 /\ DOMAIN new = 1..(Len(q) + 1)
      /\ new[1] = e
      /\ \A i \in 1..Len(q) : new[i + 1] = q[i]
  OBVIOUS
<1> HIDE DEF new
<1>2. \A i \in 1..(Len(q) + 1) : i = 1 \/ (i - 1 \in 1..Len(q) /\ new[i] = q[i - 1])
  BY <1>1
<1>3. Elems(new) \subseteq Elems(q) \cup {e}
  BY <1>1, <1>2 DEF Elems
<1>4. ASSUME NEW i \in 1..Len(q)
      PROVE  q[i] \in Elems(new)
  <2>1. i + 1 \in DOMAIN new /\ new[i + 1] = q[i]
    BY <1>1
  <2> QED BY <2>1 DEF Elems
<1>5. e \in Elems(new)
  <2>1. 1 \in DOMAIN new
    BY <1>1
  <2> QED BY <1>1, <2>1 DEF Elems
<1>6. Distinct(new)
  <2> SUFFICES ASSUME NEW i \in DOMAIN new, NEW j \in DOMAIN new, new[i] = new[j]
               PROVE  i = j
    BY DEF Distinct
  <2>1. /\ i = 1 \/ (i - 1 \in 1..Len(q) /\ new[i] = q[i - 1])
        /\ j = 1 \/ (j - 1 \in 1..Len(q) /\ new[j] = q[j - 1])
        /\ i \in Int /\ j \in Int
    BY <1>1, <1>2
  <2>2. \A m \in 1..Len(q) : q[m] # e
    BY <1>1 DEF Elems
  <2>3. \A m, o \in 1..Len(q) : q[m] = q[o] => m = o
    BY <1>1 DEF Distinct
  <2> QED BY <1>1, <2>1, <2>2, <2>3
<1> QED BY <1>1, <1>3, <1>4, <1>5, <1>6 DEF Elems, new

\* A list of some of the first n spaces is no longer than n, and has that length
\* only when it has them all.
LEMMA ListLength ==
  ASSUME NEW n \in Nat, NEW S, NEW q \in Seq(S), Elems(q) \subseteq 1..n, Distinct(q)
  PROVE  Len(q) <= n /\ (Elems(q) = 1..n => Len(q) = n)
<1>1. Len(q) \in Nat /\ DOMAIN q = 1..Len(q) /\ q \in [1..Len(q) -> S]
  OBVIOUS
<1>2. q \in [1..Len(q) -> 1..n]
  BY <1>1 DEF Elems
<1>3. q \in Injection(1..Len(q), 1..n)
  BY <1>1, <1>2 DEF Injection, IsInjective, Distinct
<1>4. /\ IsFiniteSet(1..n) /\ Cardinality(1..n) = n
      /\ Cardinality(1..Len(q)) = Len(q)
  <2>1. \A m \in Nat : IsFiniteSet(1..m) /\ Cardinality(1..m) = m
    <3> TAKE m \in Nat
    <3>1. Cardinality(1..m) = IF 1 > m THEN 0 ELSE m - 1 + 1
      BY FS_Interval
    <3>2. IsFiniteSet(1..m)
      BY FS_Interval
    <3> QED BY <3>1, <3>2
  <2> QED BY <1>1, <2>1
<1>5. /\ Cardinality(1..Len(q)) <= Cardinality(1..n)
      /\ Cardinality(1..Len(q)) = Cardinality(1..n) <=> q \in Surjection(1..Len(q), 1..n)
  BY <1>3, <1>4, FS_Injection
<1>6. ASSUME Elems(q) = 1..n
      PROVE  q \in Surjection(1..Len(q), 1..n)
  BY <1>1, <1>2, <1>6 DEF Surjection, Elems
<1> QED BY <1>4, <1>5, <1>6

-----------------------------------------------------------------------------
(* The threads of a space. *)

LEMMA ThreadKinds ==
  /\ NoThread \notin Threads
  /\ \A t \in Getters : t \in Threads /\ t \notin Droppers
  /\ \A t \in Droppers : t \in Threads /\ t \notin Getters
  /\ \A t \in Threads : t \in Getters \/ t \in Droppers
  BY PoolAssumption DEF Threads

LEMMA ThreadsFinite == IsFiniteSet(Threads)
  BY PoolAssumption, FS_Union DEF Threads

\* The users of a space are finitely many.
LEMMA UsersFinite ==
  \A s : /\ IsFiniteSet(Using(s)) /\ Cardinality(Using(s)) \in Nat
         /\ IsFiniteSet(Counted(s)) /\ Cardinality(Counted(s)) \in Nat
         /\ Using(s) = {} <=> Cardinality(Using(s)) = 0
         /\ Counted(s) = {} <=> Cardinality(Counted(s)) = 0
<1> TAKE s
<1>1. Using(s) \subseteq Threads /\ Counted(s) \subseteq Threads
  BY DEF Using, Counted
<1>2. IsFiniteSet(Using(s)) /\ IsFiniteSet(Counted(s))
  BY <1>1, ThreadsFinite, FS_Subset
<1> QED BY <1>2, FS_CardinalityType, FS_EmptySet

\* A thread that is not idle and does not look for a space works on one.
LEMMA SpaceOfThread ==
  ASSUME IInv, NEW t \in Threads, pc[t] \notin {"idle", "check", "wait"}
  PROVE  sp[t] \in Spaces
<1>1. sp[t] # NoSpace
  BY DEF IInv, PlaceInv
<1>2. sp[t] \in Spaces \cup {NoSpace}
  BY DEF IInv, TypeOK
<1> QED BY <1>1, <1>2

\* What the invariant says of the references to a space and the value of its lock.
LEMMA SpaceCounts ==
  ASSUME IInv, NEW s \in Spaces
  PROVE  /\ s \in Nat \ {0} /\ made \in Nat /\ refs[s] \in Nat
         /\ Cardinality(Counted(s)) \in Nat
         /\ use[s].value = refs[s] + Cardinality(Counted(s))
         /\ refs[s] > 0 => s <= made
<1>1. CountInv /\ TypeOK
  BY DEF IInv
<1>2. s \in Nat \ {0} /\ made \in Nat /\ refs[s] \in Nat
  BY <1>1, PoolAssumption DEF TypeOK, Spaces
<1>3. /\ use[s].value = refs[s] + Cardinality(Counted(s))
      /\ refs[s] > 0 => s <= made
  BY <1>1 DEF CountInv
<1>4. Cardinality(Counted(s)) \in Nat
  BY UsersFinite
<1> QED BY <1>2, <1>3, <1>4

\* The size of a set with and without one element.
LEMMA WithOrWithout ==
  ASSUME NEW S, NEW T, NEW t, NEW is, IsFiniteSet(S),
         T = IF is THEN S \cup {t} ELSE S \ {t}
  PROVE  Cardinality(T) = Cardinality(S) + (IF is THEN 1 ELSE 0) - (IF t \in S THEN 1 ELSE 0)
<1>1. Cardinality(S) \in Nat
  BY FS_CardinalityType
<1>2. CASE is
  <2>1. Cardinality(T) = IF t \in S THEN Cardinality(S) ELSE Cardinality(S) + 1
    BY <1>2, FS_AddElement
  <2> QED BY <1>1, <1>2, <2>1
<1>3. CASE ~is
  <2>1. Cardinality(T) = IF t \in S THEN Cardinality(S) - 1 ELSE Cardinality(S)
    BY <1>3, FS_RemoveElement
  <2> QED BY <1>1, <1>3, <2>1
<1> QED BY <1>2, <1>3

\* A step of t changes nobody else's part in the users of a space.
LEMMA OneMoves ==
  ASSUME NEW t \in Threads,
         \A u \in Threads \ {t} : pc'[u] = pc[u] /\ sp'[u] = sp[u]
  PROVE  \A s :
           LET was     == sp[t] = s /\ pc[t] \in UserLabels
               is      == sp'[t] = s /\ pc'[t] \in UserLabels
               counted == sp[t] = s /\ pc[t] \in DropLabels
               counts  == sp'[t] = s /\ pc'[t] \in DropLabels
           IN  /\ Using(s)' = IF is THEN Using(s) \cup {t} ELSE Using(s) \ {t}
               /\ Counted(s)' = IF counts THEN Counted(s) \cup {t} ELSE Counted(s) \ {t}
               /\ Cardinality(Using(s)') = Cardinality(Using(s)) + (IF is THEN 1 ELSE 0)
                                             - (IF was THEN 1 ELSE 0)
               /\ Cardinality(Counted(s)') = Cardinality(Counted(s)) + (IF counts THEN 1 ELSE 0)
                                               - (IF counted THEN 1 ELSE 0)
<1> TAKE s
<1> DEFINE was     == sp[t] = s /\ pc[t] \in UserLabels
           is      == sp'[t] = s /\ pc'[t] \in UserLabels
           counted == sp[t] = s /\ pc[t] \in DropLabels
           counts  == sp'[t] = s /\ pc'[t] \in DropLabels
<1>1. Using(s)' = IF is THEN Using(s) \cup {t} ELSE Using(s) \ {t}
  BY DEF Using
<1>2. Counted(s)' = IF counts THEN Counted(s) \cup {t} ELSE Counted(s) \ {t}
  BY DEF Counted
<1>3. (t \in Using(s) <=> was) /\ (t \in Counted(s) <=> counted)
  BY DEF Using, Counted
<1>4. Cardinality(Using(s)') = Cardinality(Using(s)) + (IF is THEN 1 ELSE 0)
                                             - (IF was THEN 1 ELSE 0)
  BY <1>1, <1>3, UsersFinite, WithOrWithout, ZenonT(40)
<1>5. Cardinality(Counted(s)') = Cardinality(Counted(s)) + (IF counts THEN 1 ELSE 0)
                                               - (IF counted THEN 1 ELSE 0)
  BY <1>2, <1>3, UsersFinite, WithOrWithout, ZenonT(40)
<1> QED BY <1>1, <1>2, <1>4, <1>5 DEF was, is, counted, counts
-----------------------------------------------------------------------------
(* The inductive invariant: one lemma per action. *)

\* The first pool is empty and nobody uses it.
LEMMA InitInv == Init => IInv
<1> SUFFICES ASSUME Init PROVE IInv
  OBVIOUS
<1> USE DEF Init
<1>1. \A s : Using(s) = {} /\ Counted(s) = {}
  BY DEF Using, Counted, UserLabels, DropLabels
<1>2. 0 \in 0..MaxSpaces /\ 0 \in Nat /\ limit \in -1..MaxSpaces
  BY PoolAssumption
<1>3. /\ have \in LockType(Threads, 0..MaxSpaces)
      /\ NewLock(0) \in LockType(Threads, Nat)
      /\ NewLock(0) = [owner |-> NoThread, value |-> 0, waiting |-> {}]
  BY <1>2, LockValues
<1>4. TypeOK
  BY <1>2, <1>3, ThreadKinds DEF TypeOK, GetLabels, DropLabels
<1>5. PlaceInv
  BY <1>3, ThreadKinds DEF PlaceInv, OwnerLabels, NoSpace
<1>6. ListInv
  BY <1>3 DEF ListInv, Listed, Spaces
<1>7. CountInv
  BY <1>1, <1>3, UsersFinite DEF CountInv
<1>8. LimitInv
  BY PoolAssumption DEF LimitInv
<1> QED BY <1>4, <1>5, <1>6, <1>7, <1>8 DEF IInv

\* possess(pool->have) by a getting thread.
LEMMA GetPossessInv ==
  ASSUME IInv, NEW t \in Getters, GetPossess(t)
  PROVE  IInv'
<1> USE DEF IInv, GetPossess
<1>1. t \in Threads
  BY ThreadKinds
<1>2. \A s : Using(s)' = Using(s) /\ Counted(s)' = Counted(s)
  BY <1>1 DEF Using, Counted, UserLabels, DropLabels, TypeOK
<1>3. /\ have' = [owner |-> t, value |-> have.value, waiting |-> have.waiting]
      /\ have' \in LockType(Threads, 0..MaxSpaces)
  BY <1>1, LockCalls DEF TypeOK
<1>4. TypeOK'
  BY <1>3, ThreadKinds DEF TypeOK, GetLabels, DropLabels
<1>5. PlaceInv'
  BY <1>3, ThreadKinds DEF PlaceInv, OwnerLabels, TypeOK, IsFree
<1>6. ListInv'
  BY <1>1, <1>2, <1>3 DEF ListInv, Listed, TypeOK
<1>7. CountInv'
  BY <1>1, <1>2 DEF CountInv, TypeOK
<1>8. LimitInv'
  BY <1>1, <1>2, <1>3 DEF LimitInv, TypeOK, WithinMaxSpaces
<1> QED BY <1>4, <1>5, <1>6, <1>7, <1>8

\* A getting thread that finds nothing gives the mutex back and sleeps.
LEMMA GetWaitInv ==
  ASSUME IInv, NEW t \in Getters, GetWait(t)
  PROVE  IInv'
<1> USE DEF IInv, GetWait
<1>1. t \in Threads
  BY ThreadKinds
<1>2. \A s : Using(s)' = Using(s) /\ Counted(s)' = Counted(s)
  BY <1>1 DEF Using, Counted, UserLabels, DropLabels, TypeOK
<1>3. /\ have' = [owner |-> NoThread, value |-> have.value,
                  waiting |-> have.waiting \cup {t}]
      /\ have' \in LockType(Threads, 0..MaxSpaces)
  BY <1>1, LockCalls DEF TypeOK
<1>4. TypeOK'
  BY <1>3, ThreadKinds DEF TypeOK, GetLabels, DropLabels
<1>5. PlaceInv'
  BY <1>3, ThreadKinds DEF PlaceInv, OwnerLabels, TypeOK
<1>6. ListInv'
  <2>1. Len(list) = 0
    BY DEF MustWait, ListInv
  <2>2. list = <<>>
    BY <2>1 DEF TypeOK
  <2> QED BY <1>1, <1>2, <1>3, <2>2 DEF ListInv, Listed, TypeOK
<1>7. CountInv'
  BY <1>1, <1>2 DEF CountInv, TypeOK
<1>8. LimitInv'
  BY <1>1, <1>2, <1>3, PoolAssumption DEF LimitInv, TypeOK, WithinMaxSpaces, MustWait
<1> QED BY <1>4, <1>5, <1>6, <1>7, <1>8

\* It wakes up with the mutex.
LEMMA GetWakeInv ==
  ASSUME IInv, NEW t \in Getters, GetWake(t)
  PROVE  IInv'
<1> USE DEF IInv, GetWake
<1>1. t \in Threads
  BY ThreadKinds
<1>2. \A s : Using(s)' = Using(s) /\ Counted(s)' = Counted(s)
  BY <1>1 DEF Using, Counted, UserLabels, DropLabels, TypeOK
<1>3. /\ have' = [owner |-> t, value |-> have.value, waiting |-> have.waiting]
      /\ have' \in LockType(Threads, 0..MaxSpaces)
  BY <1>1, LockCalls DEF TypeOK
<1>4. TypeOK'
  BY <1>3, ThreadKinds DEF TypeOK, GetLabels, DropLabels
<1>5. PlaceInv'
  BY <1>3, ThreadKinds DEF PlaceInv, OwnerLabels, TypeOK, IsFree
<1>6. ListInv'
  BY <1>1, <1>2, <1>3, SMTT(40) DEF ListInv, Listed, TypeOK
<1>7. CountInv'
  BY <1>1, <1>2 DEF CountInv, TypeOK
<1>8. LimitInv'
  BY <1>1, <1>3, PoolAssumption DEF LimitInv, TypeOK, WithinMaxSpaces
<1> QED BY <1>4, <1>5, <1>6, <1>7, <1>8

\* The head of the list is a space that exists and that nobody uses.
LEMMA HeadIsUnused ==
  ASSUME IInv, list # <<>>
  PROVE  /\ Head(list) \in Spaces /\ Head(list) \in Listed /\ Head(list) <= made
         /\ refs[Head(list)] = 0 /\ Using(Head(list)) = {}
<1>1. list \in Seq(Spaces) /\ Distinct(list)
  BY DEF IInv, TypeOK, ListInv, Distinct
<1>2. Head(list) \in Elems(list) /\ Head(list) \in Spaces
  BY <1>1, PopList
<1> QED BY <1>2 DEF Elems, Listed, IInv, ListInv

\* space = pool->head.
LEMMA GetPullInv ==
  ASSUME IInv, NEW t \in Getters, GetPull(t)
  PROVE  IInv'
<1> USE DEF IInv, GetPull
<1>1. t \in Threads
  BY ThreadKinds
<1>2. \A s : Using(s)' = Using(s) /\ Counted(s)' = Counted(s)
  BY <1>1 DEF Using, Counted, UserLabels, DropLabels, TypeOK
<1>3. /\ Head(list) \in Spaces /\ Head(list) # NoSpace
      /\ Head(list) <= made /\ Using(Head(list)) = {}
  BY HeadIsUnused DEF Spaces, NoSpace
<1>4. TypeOK'
  BY <1>3, ThreadKinds DEF TypeOK, GetLabels, DropLabels
<1>5. PlaceInv'
  BY <1>1, <1>3, ThreadKinds DEF PlaceInv, OwnerLabels, TypeOK, Spaces, NoSpace
<1>6. ListInv'
  BY <1>1, <1>2 DEF ListInv, Listed, TypeOK
<1>7. CountInv'
  <2>1. \A u \in Threads : pc[u] \in {"took", "make"} => u # t /\ sp[u] # Head(list)
    BY <1>3 DEF Using, UserLabels
  <2> QED BY <1>1, <1>2, <2>1 DEF CountInv, TypeOK
<1>8. LimitInv'
  BY <1>1 DEF LimitInv, TypeOK, WithinMaxSpaces
<1> QED BY <1>4, <1>5, <1>6, <1>7, <1>8

\* possess(space->use) by the getting thread.
LEMMA GetPossessUseInv ==
  ASSUME IInv, NEW t \in Getters, GetPossessUse(t)
  PROVE  IInv'
<1> USE DEF IInv, GetPossessUse
<1>1. t \in Threads /\ sp[t] \in Spaces
  BY ThreadKinds, SMTT(30) DEF TypeOK, PlaceInv
<1>2. \A s : Using(s)' = Using(s) /\ Counted(s)' = Counted(s)
  BY <1>1 DEF Using, Counted, UserLabels, DropLabels, TypeOK
<1>3. /\ use'[sp[t]] = [owner |-> t, value |-> use[sp[t]].value,
                        waiting |-> use[sp[t]].waiting]
      /\ use'[sp[t]] \in LockType(Threads, Nat)
      /\ \A s \in Spaces \ {sp[t]} : use'[s] = use[s]
      /\ use' \in [Spaces -> LockType(Threads, Nat)]
  <2>1. use[sp[t]] \in LockType(Threads, Nat)
    BY <1>1 DEF TypeOK
  <2>2. /\ Possess(use[sp[t]], t) \in LockType(Threads, Nat)
        /\ Possess(use[sp[t]], t) = [owner |-> t, value |-> use[sp[t]].value,
                                     waiting |-> use[sp[t]].waiting]
    BY <1>1, <2>1, LockCalls
  <2> QED BY <1>1, <2>2 DEF TypeOK
<1>4. TypeOK'
  BY <1>3, ThreadKinds DEF TypeOK, GetLabels, DropLabels
<1>5. PlaceInv'
  BY <1>1, <1>3, ThreadKinds DEF PlaceInv, OwnerLabels, TypeOK, IsFree
<1>6. ListInv'
  BY <1>1, <1>2, SMTT(30) DEF ListInv, Listed, TypeOK
<1>7. CountInv'
  BY <1>1, <1>2, <1>3 DEF CountInv, TypeOK
<1>8. LimitInv'
  BY <1>1 DEF LimitInv, TypeOK, WithinMaxSpaces
<1> QED BY <1>4, <1>5, <1>6, <1>7, <1>8

\* pool->head = space->next: the space is the thread's alone.
LEMMA GetTakeInv ==
  ASSUME IInv, NEW t \in Getters, GetTake(t)
  PROVE  IInv'
<1> USE DEF IInv, GetTake
<1>1. t \in Threads /\ sp[t] \in Spaces
  BY ThreadKinds DEF TypeOK, PlaceInv
<1>2. /\ list # <<>> /\ sp[t] = Head(list) /\ sp[t] \in Listed
      /\ refs[sp[t]] = 0 /\ Using(sp[t]) = {}
  BY <1>1, HeadIsUnused DEF ListInv
<1>3. /\ \A s : Using(s)' = IF s = sp[t] THEN {t} ELSE Using(s)
      /\ \A s : Counted(s)' = Counted(s)
  <2>1. \A s : Using(s)' = IF s = sp[t] THEN Using(s) \cup {t} ELSE Using(s)
    BY <1>1 DEF Using, UserLabels, TypeOK
  <2>2. \A s : Counted(s)' = Counted(s)
    BY <1>1 DEF Counted, DropLabels, TypeOK
  <2> QED BY <1>2, <2>1, <2>2
<1>4. /\ list' \in Seq(Spaces) /\ Len(list') = Len(list) - 1
      /\ Listed' = Listed \ {sp[t]} /\ Distinct(list')
  <2>1. list \in Seq(Spaces) /\ Distinct(list)
    BY DEF TypeOK, ListInv, Distinct
  <2> QED BY <1>2, <2>1, PopList, ZenonT(40) DEF Listed, Elems
<1>5. /\ have' = [owner |-> NoThread, value |-> Len(list) - 1, waiting |-> {}]
      /\ have' \in LockType(Threads, 0..MaxSpaces)
  <2>1. have.value = Len(list) /\ have.value \in 0..MaxSpaces
    BY DEF TypeOK, ListInv, LockType
  <2>2. Len(list) \in Nat \ {0}
    BY <1>2 DEF TypeOK
  <2>3. have.value - 1 \in 0..MaxSpaces
    BY <2>1, <2>2, PoolAssumption
  <2>4. have' = TwistTo(have, have.value - 1)
    BY <2>1 DEF TwistBy
  <2> QED BY <2>1, <2>3, <2>4, LockValues
<1>6. TypeOK'
  BY <1>4, <1>5, ThreadKinds DEF TypeOK, GetLabels, DropLabels
<1>7. PlaceInv'
  BY <1>1, <1>5, ThreadKinds DEF PlaceInv, OwnerLabels, TypeOK
<1>8. ListInv'
  <2>1. \A i, j \in DOMAIN list' : list'[i] = list'[j] => i = j
    BY <1>4 DEF Distinct
  <2>2. \A s \in Spaces : s \in Listed' <=> s <= made' /\ refs'[s] = 0 /\ Using(s)' = {}
    BY <1>1, <1>3, <1>4 DEF ListInv
  <2>3. \A u \in Threads : pc'[u] \notin {"pull", "take"}
    BY <1>1, ThreadKinds, SMTT(30) DEF PlaceInv, TypeOK
  <2>4. have'.value = Len(list') /\ have'.waiting = {}
    BY <1>4, <1>5
  <2> QED BY <2>1, <2>2, <2>3, <2>4 DEF ListInv
<1>9. CountInv'
  <2>1. ASSUME NEW u \in Threads, u # t, sp[u] = sp[t]
        PROVE  FALSE
    <3>1. pc[u] \notin UserLabels
      BY <1>2, <2>1 DEF Using
    <3>2. pc[u] \notin {"idle", "check", "wait"}
      BY <1>1, <2>1 DEF PlaceInv, Spaces, NoSpace
    <3>3. have.owner = t /\ use[sp[t]].owner = t
      BY <1>1 DEF PlaceInv, OwnerLabels
    <3>4. pc[u] \notin {"pull", "take", "dropped"}
      BY <1>1, <2>1, <3>3 DEF PlaceInv, OwnerLabels
    <3> QED BY <3>1, <3>2, <3>4 DEF TypeOK, GetLabels, DropLabels, UserLabels
  <2>2. \A u \in Threads : pc'[u] \in {"took", "make"} =>
          refs'[sp'[u]] = 0 /\ \A v \in Threads : sp'[v] = sp'[u] => v = u
    BY <1>1, <1>2, <2>1 DEF CountInv, TypeOK
  <2> QED BY <1>1, <1>3, <2>2 DEF CountInv, TypeOK
<1>10. LimitInv'
  BY <1>1, <1>5, ThreadKinds, SMTT(30) DEF LimitInv, TypeOK, WithinMaxSpaces, PlaceInv
<1> QED BY <1>6, <1>7, <1>8, <1>9, <1>10

\* buffer_pool_get_space returns: the thread's place is taken by its caller's
\* reference.
LEMMA ReturnInv ==
  ASSUME IInv, NEW t \in Getters, pc[t] \in {"took", "make"}, NEW bolt,
         bolt = [owner |-> NoThread, value |-> 1, waiting |-> {}],
         use' = [use EXCEPT ![sp[t]] = bolt],
         refs' = [refs EXCEPT ![sp[t]] = @ + 1],
         sp' = [sp EXCEPT ![t] = NoSpace],
         pc' = [pc EXCEPT ![t] = "idle"],
         UNCHANGED <<have, list, limit, made, created>>
  PROVE  IInv'
<1> USE DEF IInv
<1>1. t \in Threads /\ sp[t] \in Spaces /\ t \notin Droppers /\ sp[t] <= made
  BY ThreadKinds, SMTT(30) DEF TypeOK, PlaceInv
<1>s. PICK x \in Spaces : x = sp[t]
  BY <1>1
<1>2. refs[x] = 0 /\ \A u \in Threads : sp[u] = x => u = t
  BY <1>1, <1>s DEF CountInv
<1>3. /\ \A s \in Spaces \ {x} : Using(s)' = Using(s) /\ Counted(s)' = Counted(s)
      /\ Counted(x)' = {} /\ Using(x) # {}
  <2>1. /\ \A u \in Threads \ {t} : pc'[u] = pc[u] /\ sp'[u] = sp[u] /\ sp[u] # x
        /\ sp'[t] = NoSpace /\ pc'[t] = "idle"
    BY <1>1, <1>s, <1>2 DEF TypeOK
  <2>2. \A s \in Spaces \ {x} : Using(s)' = Using(s) /\ Counted(s)' = Counted(s)
    BY <1>s, <2>1 DEF Using, Counted, UserLabels, DropLabels
  <2>3. Counted(x)' = {}
    BY <2>1 DEF Counted, DropLabels
  <2>4. t \in Using(x)
    BY <1>1, <1>s DEF Using, UserLabels
  <2> QED BY <2>2, <2>3, <2>4
<1>4. /\ use'[x] = [owner |-> NoThread, value |-> 1, waiting |-> {}]
      /\ \A s \in Spaces \ {x} : use'[s] = use[s]
      /\ use' \in [Spaces -> LockType(Threads, Nat)]
  <2>1. bolt \in LockType(Threads, Nat)
    BY DEF LockType
  <2> QED BY <1>1, <1>s, <2>1 DEF TypeOK
<1>5. /\ refs'[x] = 1 /\ refs' \in [Spaces -> Nat]
      /\ \A s \in Spaces \ {x} : refs'[s] = refs[s]
  BY <1>1, <1>s, <1>2 DEF TypeOK
<1>6. TypeOK'
  BY <1>4, <1>5, ThreadKinds DEF TypeOK, GetLabels, DropLabels
<1>7. PlaceInv'
  BY <1>1, <1>s, <1>2, <1>4, ThreadKinds
     DEF PlaceInv, OwnerLabels, TypeOK, Spaces, NoSpace
<1>8. ListInv'
  <2>1. \A s \in Spaces : s \in Listed' <=> s <= made' /\ refs'[s] = 0 /\ Using(s)' = {}
    BY <1>1, <1>s, <1>3, <1>5 DEF ListInv, Listed
  <2> QED BY <1>1, <1>s, <2>1 DEF ListInv, TypeOK
<1>9. CountInv'
  <2>1. \A s \in Spaces : /\ use'[s].value = refs'[s] + Cardinality(Counted(s)')
                          /\ refs'[s] > 0 => s <= made'
    <3>1. Cardinality(Counted(x)') = 0
      BY <1>3, FS_EmptySet
    <3>2. ASSUME NEW s \in Spaces \ {x}
          PROVE  Cardinality(Counted(s)') = Cardinality(Counted(s))
      BY <1>3
    <3> QED BY <1>1, <1>s, <1>4, <1>5, <3>1, <3>2, SpaceCounts
  <2>2. \A u \in Threads \ {t} : sp'[u] = sp[u] /\ pc'[u] = pc[u] /\ sp[u] # x
    BY <1>1, <1>s, <1>2 DEF TypeOK
  <2>3. \A u \in Threads : pc'[u] \in {"took", "make"} =>
          refs'[sp'[u]] = 0 /\ \A v \in Threads : sp'[v] = sp'[u] => v = u
    BY <1>1, <1>s, <1>5, <2>2 DEF CountInv, TypeOK, PlaceInv, Spaces, NoSpace
  <2>4. \A u \in Threads : pc'[u] = "push" => use'[sp'[u]].value = 1
    BY <1>1, <1>s, <1>4, <2>2 DEF CountInv, TypeOK, PlaceInv, Spaces, NoSpace
  <2> QED BY <2>1, <2>3, <2>4 DEF CountInv
<1>10. LimitInv'
  BY <1>1 DEF LimitInv, TypeOK, WithinMaxSpaces
<1> QED BY <1>6, <1>7, <1>8, <1>9, <1>10

LEMMA GetReturnInv ==
  ASSUME IInv, NEW t \in Getters, GetReturn(t)
  PROVE  IInv'
  BY ReturnInv DEF GetReturn, TwistTo

LEMMA GetMadeInv ==
  ASSUME IInv, NEW t \in Getters, GetMade(t)
  PROVE  IInv'
  BY ReturnInv DEF GetMade, NewLock

\* A getting thread that must not wait and finds no space may make one more.
LEMMA RoomForOneMore ==
  ASSUME IInv, NEW t \in Getters, pc[t] = "check", ~MustWait, list = <<>>
  PROVE  /\ made + 1 \in Spaces /\ limit # 0
         /\ created = -1 \/ made < created
         /\ refs[made + 1] = 0
<1> USE DEF IInv
<1>1. t \in Threads /\ have.value = 0
  BY ThreadKinds DEF ListInv
<1>2. /\ created \in {-1} \cup (Nat \ {0}) /\ created <= MaxSpaces
      /\ MaxSpaces \in Nat /\ made \in Nat
  BY PoolAssumption DEF TypeOK
<1>3. limit # 0 /\ (created = -1 \/ made < created)
  BY <1>1, <1>2 DEF MustWait, LimitInv
<1>4. made < MaxSpaces
  <2>1. CASE created = -1
    BY <1>1, <1>2, <2>1 DEF LimitInv, WithinMaxSpaces
  <2>2. CASE created # -1
    BY <1>2, <1>3, <2>2
  <2> QED BY <2>1, <2>2
<1>5. made + 1 \in Spaces
  BY <1>2, <1>4 DEF Spaces
<1>6. refs[made + 1] = 0
  <2>1. refs[made + 1] \in Nat /\ (refs[made + 1] > 0 => made + 1 <= made)
    BY <1>5, SpaceCounts
  <2> QED BY <1>2, <2>1
<1> QED BY <1>3, <1>5, <1>6

\* made++: the new space is the thread's alone.
LEMMA GetMakeInv ==
  ASSUME IInv, NEW t \in Getters, GetMake(t)
  PROVE  IInv'
<1> USE DEF IInv, GetMake
<1>s. PICK new : new = made + 1
  OBVIOUS
<1>1. /\ t \in Threads /\ made \in Nat /\ new \in Nat
      /\ \A u \in Threads : sp[u] # new
  BY <1>s, ThreadKinds DEF TypeOK, PlaceInv, Spaces, NoSpace
<1>2. /\ new \in Spaces /\ limit # 0 /\ (created = -1 \/ made < created)
      /\ refs[new] = 0
  BY <1>s, RoomForOneMore
<1>3. /\ \A s \in Spaces \ {new} : Using(s)' = Using(s)
      /\ Using(new)' # {}
      /\ \A s \in Spaces : Counted(s)' = Counted(s)
  <2>1. /\ \A u \in Threads \ {t} : pc'[u] = pc[u] /\ sp'[u] = sp[u]
        /\ sp'[t] = new /\ pc'[t] = "make"
    BY <1>1, <1>2, <1>s DEF TypeOK
  <2>2. \A s \in Spaces \ {new} : Using(s)' = Using(s)
    BY <1>1, <2>1 DEF Using, UserLabels
  <2>3. \A s \in Spaces : Counted(s)' = Counted(s)
    BY <1>1, <2>1 DEF Counted, DropLabels
  <2>4. t \in Using(new)'
    BY <1>1, <2>1 DEF Using, UserLabels
  <2> QED BY <2>2, <2>3, <2>4
<1>4. /\ have' = [owner |-> NoThread, value |-> have.value, waiting |-> have.waiting]
      /\ have' \in LockType(Threads, 0..MaxSpaces)
  BY <1>1, LockCalls DEF TypeOK
<1>5. made' = new /\ new \in 0..MaxSpaces /\ sp'[t] = new
  BY <1>1, <1>2, <1>s DEF Spaces, TypeOK
<1>6. limit' \in -1..MaxSpaces
  BY PoolAssumption DEF TypeOK
<1>7. TypeOK'
  BY <1>2, <1>4, <1>5, <1>6, ThreadKinds DEF TypeOK, GetLabels, DropLabels
<1>8. PlaceInv'
  BY <1>1, <1>2, <1>4, <1>5, ThreadKinds DEF PlaceInv, OwnerLabels, TypeOK, Spaces, NoSpace
<1>9. ListInv'
  <2>1. \A s \in Spaces : s \in Listed' <=> s <= made' /\ refs'[s] = 0 /\ Using(s)' = {}
    <3> SUFFICES ASSUME NEW s \in Spaces
                 PROVE  s \in Listed' <=> s <= made' /\ refs'[s] = 0 /\ Using(s)' = {}
      OBVIOUS
    <3>1. Listed' = {} /\ Listed = {}
      BY DEF Listed
    <3>2. CASE s = new
      BY <3>1, <3>2, <1>3
    <3>3. CASE s # new
      <4>1. s <= made' <=> s <= made
        BY <3>3, <1>1, <1>s, <1>5, SpaceCounts
      <4>2. Using(s)' = Using(s)
        BY <3>3, <1>3
      <4> QED BY <3>1, <4>1, <4>2 DEF ListInv
    <3> QED BY <3>2, <3>3
  <2>2. \A u \in Threads : pc'[u] \notin {"pull", "take"}
    BY <1>1, ThreadKinds DEF PlaceInv, TypeOK
  <2> QED BY <1>4, <2>1, <2>2 DEF ListInv
<1>10. CountInv'
  <2>1. \A s \in Spaces : refs'[s] > 0 => s <= made'
    <3>1. \A s \in Spaces : s \in Nat /\ (refs[s] > 0 => s <= made)
      BY SpaceCounts
    <3> QED BY <1>1, <1>s, <1>5, <3>1
  <2>2. \A u \in Threads : pc'[u] \in {"took", "make"} =>
          refs'[sp'[u]] = 0 /\ \A v \in Threads : sp'[v] = sp'[u] => v = u
    BY <1>1, <1>2, <1>5 DEF CountInv, TypeOK
  <2> QED BY <1>1, <1>3, <2>1, <2>2 DEF CountInv, TypeOK
<1>11. LimitInv'
  <2>1. \A u \in Threads : pc'[u] # "check"
    BY <1>1, ThreadKinds DEF PlaceInv, TypeOK
  <2> QED BY <1>1, <1>2, <1>s, <1>5, <2>1, PoolAssumption DEF LimitInv, TypeOK
<1> QED BY <1>7, <1>8, <1>9, <1>10, <1>11

-----------------------------------------------------------------------------
(* The dropping threads *)

\* A thread begins to share or to drop a space its caller refers to, and stands for
\* that reference from now on.
LEMMA ReferenceInv ==
  ASSUME IInv, NEW t \in Droppers, NEW x \in Spaces, NEW label \in {"share", "drop"},
         pc[t] = "idle", refs[x] > 0,
         refs' = [refs EXCEPT ![x] = @ - 1],
         sp' = [sp EXCEPT ![t] = x],
         pc' = [pc EXCEPT ![t] = label],
         UNCHANGED <<have, list, limit, made, use, created>>
  PROVE  IInv'
<1> USE DEF IInv
<1>1. t \in Threads /\ t \notin Getters
  BY ThreadKinds
<1>2. label \in DropLabels /\ label \in UserLabels /\ label \notin OwnerLabels
      /\ label \notin {"took", "make", "push", "check", "wait", "idle", "pull", "take"}
  BY DEF DropLabels, UserLabels, OwnerLabels
<1>3. /\ sp[t] = NoSpace /\ x \in Nat \ {0} /\ x <= made /\ refs[x] \in Nat
  BY <1>1, <1>2, SpaceCounts DEF PlaceInv
<1>4. /\ \A u \in Threads \ {t} : pc'[u] = pc[u] /\ sp'[u] = sp[u]
      /\ sp'[t] = x /\ pc'[t] = label
      /\ refs'[x] = refs[x] - 1 /\ refs' \in [Spaces -> Nat]
      /\ \A s \in Spaces \ {x} : refs'[s] = refs[s]
  BY <1>1, <1>2, <1>3 DEF TypeOK
<1>5. /\ \A s \in Spaces \ {x} : Using(s)' = Using(s)
      /\ Using(x)' # {}
      /\ \A s \in Spaces : Cardinality(Counted(s)') = Cardinality(Counted(s))
                                                       + IF s = x THEN 1 ELSE 0
  <2>1. /\ \A s \in Spaces \ {x} : Using(s)' = Using(s)
        /\ t \in Using(x)'
    BY <1>1, <1>2, <1>4 DEF Using, UserLabels
  <2>2. \A s \in Spaces : sp[t] # s /\ label \in DropLabels
    BY <1>3, SpaceCounts DEF NoSpace, DropLabels
  <2>3. ASSUME NEW s \in Spaces
        PROVE  Cardinality(Counted(s)') = Cardinality(Counted(s)) + IF s = x THEN 1 ELSE 0
    <3>1. Cardinality(Counted(s)') = Cardinality(Counted(s)) + (IF s = x THEN 1 ELSE 0) - 0
      BY <1>1, <1>4, <2>2, OneMoves
    <3> QED BY <3>1, UsersFinite
  <2> QED BY <2>1, <2>3
<1>6. TypeOK'
  BY <1>1, <1>2, <1>4, ThreadKinds DEF TypeOK, GetLabels, DropLabels
<1>7. PlaceInv'
  BY <1>1, <1>2, <1>3, <1>4 DEF PlaceInv, OwnerLabels, NoSpace
<1>8. ListInv'
  <2>1. \A s \in Spaces : s \in Listed' <=> s <= made' /\ refs'[s] = 0 /\ Using(s)' = {}
    BY <1>2, <1>4, <1>5 DEF ListInv, Listed
  <2> QED BY <1>2, <1>4, <2>1 DEF ListInv
<1>9. CountInv'
  <2>1. \A s \in Spaces : /\ use'[s].value = refs'[s] + Cardinality(Counted(s)')
                          /\ refs'[s] > 0 => s <= made'
    BY <1>2, <1>3, <1>4, <1>5, SpaceCounts
  <2>2. \A u \in Threads \ {t} : pc[u] \in {"took", "make"} => sp[u] # x /\ refs[sp[u]] = 0
    BY <1>2, <1>3 DEF CountInv
  <2>3. \A u \in Threads : pc'[u] \in {"took", "make"} =>
          refs'[sp'[u]] = 0 /\ \A v \in Threads : sp'[v] = sp'[u] => v = u
    BY <1>1, <1>2, <1>4, <2>2 DEF CountInv
  <2>4. \A u \in Threads : pc'[u] = "push" => use'[sp'[u]].value = 1
    BY <1>2, <1>4 DEF CountInv
  <2> QED BY <2>1, <2>3, <2>4 DEF CountInv
<1>10. LimitInv'
  BY <1>2, <1>4 DEF LimitInv, WithinMaxSpaces
<1> QED BY <1>6, <1>7, <1>8, <1>9, <1>10

LEMMA ShareCallInv ==
  ASSUME IInv, NEW t \in Droppers, ShareCall(t)
  PROVE  IInv'
  BY ReferenceInv DEF ShareCall

LEMMA DropCallInv ==
  ASSUME IInv, NEW t \in Droppers, DropCall(t)
  PROVE  IInv'
  BY ReferenceInv DEF DropCall

\* possess(space->use) by a thread that shares or drops the space.
LEMMA PossessUseInv ==
  ASSUME IInv, NEW t \in Droppers,
         NEW before \in {"share", "drop"}, NEW after \in {"shared", "test"},
         pc[t] = before, IsFree(use[sp[t]]),
         use' = [use EXCEPT ![sp[t]] = Possess(@, t)],
         pc' = [pc EXCEPT ![t] = after],
         UNCHANGED <<have, list, limit, made, sp, refs, created>>
  PROVE  IInv'
<1> USE DEF IInv
<1>1. t \in Threads
  BY ThreadKinds
<1>2. PICK x \in Spaces : x = sp[t]
  <2>1. pc[t] \notin {"idle", "check", "wait"}
    OBVIOUS
  <2> QED BY <1>1, <2>1, SpaceOfThread
<1>3. /\ \A u \in Threads \ {t} : pc'[u] = pc[u]
      /\ pc'[t] = after /\ pc' \in [Threads -> {"idle"} \cup GetLabels \cup DropLabels]
      /\ after \in OwnerLabels /\ before \notin OwnerLabels
      /\ after \in DropLabels /\ before \in DropLabels
      /\ after \in UserLabels /\ before \in UserLabels
      /\ {before, after} \cap {"idle", "check", "wait", "pull", "take", "took", "make", "push"} = {}
  BY <1>1 DEF TypeOK, OwnerLabels, DropLabels, UserLabels
<1>4. \A s : Using(s)' = Using(s) /\ Counted(s)' = Counted(s)
  BY <1>1, <1>3 DEF Using, Counted
<1>5. /\ use'[x] = [owner |-> t, value |-> use[x].value, waiting |-> use[x].waiting]
      /\ \A s \in Spaces \ {x} : use'[s] = use[s]
      /\ use' \in [Spaces -> LockType(Threads, Nat)]
  <2>1. use[x] \in LockType(Threads, Nat)
    BY DEF TypeOK
  <2>2. /\ Possess(use[x], t) \in LockType(Threads, Nat)
        /\ Possess(use[x], t) = [owner |-> t, value |-> use[x].value,
                                 waiting |-> use[x].waiting]
    BY <1>1, <2>1, LockCalls
  <2> QED BY <1>2, <2>2 DEF TypeOK
<1>6. TypeOK'
  BY <1>3, <1>5, ThreadKinds DEF TypeOK, GetLabels
<1>7. PlaceInv'
  <2>1. \A u \in Threads, s \in Spaces :
          use'[s].owner = u <=> sp'[u] = s /\ pc'[u] \in OwnerLabels
    BY <1>1, <1>2, <1>3, <1>5, ThreadKinds DEF PlaceInv, IsFree
  <2>2. \A u \in Threads : /\ sp'[u] = NoSpace <=> pc'[u] \in {"idle", "check", "wait"}
                           /\ sp'[u] <= made'
                           /\ have'.owner = u <=> pc'[u] \in {"check", "pull", "take", "push"}
    BY <1>1, <1>3 DEF PlaceInv
  <2> QED BY <2>1, <2>2 DEF PlaceInv
<1>8. ListInv'
  BY <1>1, <1>3, <1>4 DEF ListInv, Listed
<1>9. CountInv'
  <2>1. \A s \in Spaces : use'[s].value = use[s].value
    BY <1>5
  <2>2. \A s \in Spaces : /\ use'[s].value = refs'[s] + Cardinality(Counted(s)')
                          /\ refs'[s] > 0 => s <= made'
    BY <1>4, <2>1 DEF CountInv
  <2>3. \A u \in Threads : pc'[u] \in {"took", "make"} =>
          refs'[sp'[u]] = 0 /\ \A v \in Threads : sp'[v] = sp'[u] => v = u
    BY <1>1, <1>3 DEF CountInv
  <2>4. \A u \in Threads : pc'[u] = "push" => use'[sp'[u]].value = 1
    <3>1. \A u \in Threads : pc[u] = "push" => sp[u] \in Spaces
      BY SpaceOfThread
    <3> QED BY <1>1, <1>3, <2>1, <3>1 DEF CountInv
  <2> QED BY <2>2, <2>3, <2>4 DEF CountInv
<1>10. LimitInv'
  BY <1>1, <1>3 DEF LimitInv, WithinMaxSpaces
<1> QED BY <1>6, <1>7, <1>8, <1>9, <1>10

LEMMA SharePossessInv ==
  ASSUME IInv, NEW t \in Droppers, SharePossess(t)
  PROVE  IInv'
  BY PossessUseInv DEF SharePossess

LEMMA DropPossessInv ==
  ASSUME IInv, NEW t \in Droppers, DropPossess(t)
  PROVE  IInv'
  BY PossessUseInv DEF DropPossess

\* twist(space->use, BY, v) when the thread's call returns: the references and the
\* threads that stand for one change by the same number, and the space is not
\* left without a user unless it is in the list.
LEMMA ReleaseUseInv ==
  ASSUME IInv, NEW t \in Droppers, NEW x \in Spaces, NEW v \in {-1, 1}, NEW n \in Nat,
         x = sp[t], pc[t] \in {"shared", "test", "dropped"},
         v = n - 1,
         \/ pc[t] = "shared" /\ n = 2
         \/ pc[t] = "dropped" /\ n = 0
         \/ pc[t] = "test" /\ n = 0 /\ (refs[x] > 0 \/ Using(x) \ {t} # {}),
         use' = [use EXCEPT ![x] = TwistBy(@, v)],
         refs' = [refs EXCEPT ![x] = @ + n],
         sp' = [sp EXCEPT ![t] = NoSpace],
         pc' = [pc EXCEPT ![t] = "idle"],
         UNCHANGED <<have, list, limit, made, created>>
  PROVE  IInv'
<1> USE DEF IInv
<1>1. t \in Threads
  BY ThreadKinds
<1>2. /\ \A u \in Threads \ {t} : pc'[u] = pc[u] /\ sp'[u] = sp[u]
      /\ sp'[t] = NoSpace /\ pc'[t] = "idle"
      /\ pc[t] \in OwnerLabels /\ pc[t] \in DropLabels
      /\ pc[t] \notin {"idle", "check", "wait", "pull", "take", "push"}
      /\ sp' \in [Threads -> Spaces \cup {NoSpace}]
      /\ pc' \in [Threads -> {"idle"} \cup GetLabels \cup DropLabels]
  BY <1>1 DEF TypeOK, OwnerLabels, DropLabels
<1>3. /\ x \in Nat \ {0} /\ made \in Nat /\ x <= made /\ refs[x] \in Nat
      /\ Cardinality(Counted(x)) \in Nat \ {0}
      /\ use[x].value = refs[x] + Cardinality(Counted(x))
  <2>1. t \in Counted(x)
    BY <1>1, <1>2 DEF Counted
  <2>2. Cardinality(Counted(x)) # 0
    BY <2>1, UsersFinite
  <2> QED BY <1>1, <2>2, SpaceCounts DEF PlaceInv
<1>4. /\ use'[x] = [owner |-> NoThread, value |-> use[x].value + v, waiting |-> {}]
      /\ use'[x].value \in Nat
      /\ \A s \in Spaces \ {x} : use'[s] = use[s]
      /\ use' \in [Spaces -> LockType(Threads, Nat)]
  <2>1. use[x].value + v \in Nat
    BY <1>3
  <2>2. /\ TwistBy(use[x], v) \in LockType(Threads, Nat)
        /\ TwistBy(use[x], v) = [owner |-> NoThread, value |-> use[x].value + v,
                                 waiting |-> {}]
    BY <2>1, LockValues DEF TwistBy
  <2> QED BY <2>1, <2>2 DEF TypeOK
<1>5. /\ refs'[x] = refs[x] + n /\ refs' \in [Spaces -> Nat]
      /\ \A s \in Spaces \ {x} : refs'[s] = refs[s]
  BY <1>3, SMTT(30) DEF TypeOK
<1>6. /\ \A s \in Spaces : Using(s)' = Using(s) \ {t}
      /\ \A s \in Spaces \ {x} : Using(s)' = Using(s)
      /\ \A s \in Spaces : Cardinality(Counted(s)') = Cardinality(Counted(s))
                                                       - IF s = x THEN 1 ELSE 0
  <2>1. /\ \A s \in Spaces : Using(s)' = Using(s) \ {t}
        /\ \A s \in Spaces \ {x} : t \notin Using(s)
    BY <1>2 DEF Using, UserLabels
  <2>2. "idle" \notin DropLabels
    BY DEF DropLabels
  <2>3. ASSUME NEW s \in Spaces
        PROVE  Cardinality(Counted(s)') = Cardinality(Counted(s)) - IF s = x THEN 1 ELSE 0
    <3>1. Cardinality(Counted(s)') = Cardinality(Counted(s)) + 0 - (IF s = x THEN 1 ELSE 0)
      BY <1>1, <1>2, <2>2, OneMoves
    <3> QED BY <3>1, UsersFinite
  <2>4. ASSUME NEW s \in Spaces \ {x}
        PROVE  Using(s)' = Using(s)
    <3>1. t \notin Using(s)
      BY <2>1
    <3>2. Using(s)' = Using(s) \ {t}
      BY <2>1
    <3>3. \A S : t \notin S => S \ {t} = S
      OBVIOUS
    <3> QED BY <3>1, <3>2, <3>3
  <2> QED BY <2>1, <2>3, <2>4
<1>7. TypeOK'
  BY <1>2, <1>4, <1>5, ThreadKinds DEF TypeOK, DropLabels, GetLabels
<1>8. use[x].owner = t /\ \A u \in Threads \ {t} : ~(sp[u] = x /\ pc[u] \in OwnerLabels)
  BY <1>1, <1>2 DEF PlaceInv
<1>9. PlaceInv'
  <2>1. \A u \in Threads, s \in Spaces :
          use'[s].owner = u <=> sp'[u] = s /\ pc'[u] \in OwnerLabels
    BY <1>1, <1>2, <1>3, <1>4, <1>8, ThreadKinds DEF PlaceInv, OwnerLabels, NoSpace
  <2>2. \A u \in Threads : /\ sp'[u] = NoSpace <=> pc'[u] \in {"idle", "check", "wait"}
                           /\ sp'[u] <= made'
                           /\ have'.owner = u <=> pc'[u] \in {"check", "pull", "take", "push"}
    BY <1>1, <1>2, <1>3 DEF PlaceInv, NoSpace
  <2> QED BY <2>1, <2>2 DEF PlaceInv
<1>10. ListInv'
  <2>1. refs'[x] = 0 /\ Using(x) \ {t} = {} <=> refs[x] = 0 /\ Using(x) = {}
    <3>1. t \in Using(x) <=> pc[t] # "dropped"
      BY <1>1 DEF Using, UserLabels
    <3>2. CASE pc[t] = "dropped"
      <4>1. Using(x) \ {t} = Using(x) /\ refs'[x] = refs[x]
        BY <1>3, <1>5, <3>1, <3>2
      <4> QED BY <4>1
    <3>3. CASE pc[t] # "dropped"
      <4>1. refs'[x] # 0 \/ Using(x) \ {t} # {}
        BY <1>3, <1>5, <3>3
      <4> QED BY <3>1, <3>3, <4>1
    <3> QED BY <3>2, <3>3
  <2>2. \A s \in Spaces : s \in Listed' <=> s <= made' /\ refs'[s] = 0 /\ Using(s)' = {}
    <3> SUFFICES ASSUME NEW s \in Spaces
                 PROVE  s \in Listed' <=> s <= made' /\ refs'[s] = 0 /\ Using(s)' = {}
      OBVIOUS
    <3>1. /\ Listed' = Listed /\ made' = made
          /\ s \in Listed <=> s <= made /\ refs[s] = 0 /\ Using(s) = {}
      BY DEF ListInv, Listed
    <3>2. Using(s)' = Using(s) \ {t}
      BY <1>6
    <3>3. CASE s = x
      BY <2>1, <3>1, <3>2, <3>3
    <3>4. CASE s # x
      <4>1. refs'[s] = refs[s] /\ Using(s)' = Using(s)
        BY <1>5, <1>6, <3>4
      <4> QED BY <3>1, <4>1
    <3> QED BY <3>3, <3>4
  <2> QED BY <1>2, <2>2 DEF ListInv
<1>11. CountInv'
  <2>1. \A s \in Spaces : /\ use'[s].value = refs'[s] + Cardinality(Counted(s)')
                          /\ refs'[s] > 0 => s <= made'
    BY <1>3, <1>4, <1>5, <1>6, SpaceCounts
  <2>2. \A u \in Threads : pc'[u] \in {"took", "make"} =>
          refs'[sp'[u]] = 0 /\ \A w \in Threads : sp'[w] = sp'[u] => w = u
    <3> SUFFICES ASSUME NEW u \in Threads, pc'[u] \in {"took", "make"}
                 PROVE  /\ refs'[sp'[u]] = 0
                        /\ \A w \in Threads : sp'[w] = sp'[u] => w = u
      OBVIOUS
    <3>1. /\ u # t /\ sp'[u] = sp[u] /\ sp[u] \in Spaces
          /\ refs[sp[u]] = 0 /\ \A w \in Threads : sp[w] = sp[u] => w = u
      BY <1>2, SpaceOfThread DEF CountInv
    <3>2. sp[u] # x
      BY <1>1, <3>1
    <3> QED BY <1>2, <1>5, <3>1, <3>2 DEF Spaces, NoSpace
  <2>3. ASSUME NEW u \in Threads, pc'[u] = "push"
        PROVE  use'[sp'[u]].value = 1
    <3>1. u # t /\ sp'[u] = sp[u] /\ sp[u] \in Spaces /\ use[sp[u]].value = 1
      BY <1>2, <2>3, SpaceOfThread DEF CountInv
    <3>2. sp[u] # x
      BY <1>2, <1>8, <2>3, <3>1 DEF OwnerLabels
    <3> QED BY <1>4, <3>1, <3>2
  <2> QED BY <2>1, <2>2, <2>3 DEF CountInv
<1>12. LimitInv'
  BY <1>2 DEF LimitInv, WithinMaxSpaces
<1> QED BY <1>7, <1>9, <1>10, <1>11, <1>12

LEMMA ShareReturnInv ==
  ASSUME IInv, NEW t \in Droppers, ShareReturn(t)
  PROVE  IInv'
<1>1. sp[t] \in Spaces
  BY SpaceOfThread, ThreadKinds DEF ShareReturn
<1>2. /\ use' = [use EXCEPT ![sp[t]] = TwistBy(@, 1)]
      /\ refs' = [refs EXCEPT ![sp[t]] = @ + 2]
      /\ sp' = [sp EXCEPT ![t] = NoSpace] /\ pc[t] = "shared"
      /\ pc' = [pc EXCEPT ![t] = "idle"]
      /\ UNCHANGED <<have, list, limit, made, created>>
  BY DEF ShareReturn
<1>3. 1 \in {-1, 1} /\ 2 \in Nat /\ 1 = 2 - 1
  OBVIOUS
<1> QED BY <1>1, <1>2, <1>3, ReleaseUseInv

\* Of several users of a space one goes: the others are in the way of its return
\* to the list.
LEMMA DropReturnInv ==
  ASSUME IInv, NEW t \in Droppers, DropReturn(t)
  PROVE  IInv'
<1> USE DEF IInv
<1>1. PICK x \in Spaces : x = sp[t]
  BY SpaceOfThread, ThreadKinds DEF DropReturn
<1>2. ASSUME pc[t] = "test", ~LastUser(x)
      PROVE  refs[x] > 0 \/ Using(x) \ {t} # {}
  <2>1. t \in Counted(x) /\ use[x].owner = t
    BY <1>1, <1>2, ThreadKinds DEF Counted, DropLabels, PlaceInv, OwnerLabels
  <2>2. use[x].value = refs[x] + Cardinality(Counted(x)) /\ refs[x] \in Nat
    BY SpaceCounts
  <2>3. CASE Counted(x) = {t}
    <3>1. Cardinality(Counted(x)) = 1
      BY <2>3, FS_Singleton
    <3> QED BY <1>2, <2>2, <3>1 DEF LastUser
  <2>4. CASE Counted(x) # {t}
    <3>1. PICK u \in Counted(x) : u # t
      BY <2>1, <2>4
    <3>2. u \in Threads /\ sp[u] = x /\ pc[u] \in DropLabels
      BY <3>1 DEF Counted
    <3>3. pc[u] # "dropped"
      BY <2>1, <3>1, <3>2 DEF PlaceInv, OwnerLabels
    <3> QED BY <3>1, <3>2, <3>3 DEF Using, UserLabels, DropLabels
  <2> QED BY <2>3, <2>4
<1>3. /\ use' = [use EXCEPT ![x] = TwistBy(@, -1)]
      /\ refs' = [refs EXCEPT ![x] = @ + 0]
      /\ sp' = [sp EXCEPT ![t] = NoSpace]
      /\ pc' = [pc EXCEPT ![t] = "idle"]
      /\ UNCHANGED <<have, list, limit, made, created>>
      /\ pc[t] = "dropped" \/ (pc[t] = "test" /\ ~LastUser(x))
  <2>1. refs[x] + 0 = refs[x] /\ refs \in [Spaces -> Nat]
    BY DEF TypeOK
  <2> QED BY <1>1, <2>1 DEF DropReturn
<1>4. -1 \in {-1, 1} /\ 0 \in Nat /\ -1 = 0 - 1
  OBVIOUS
<1> QED BY <1>1, <1>2, <1>3, <1>4, ReleaseUseInv

\* The last user takes the pool's mutex: what it saw with peek_lock stays true
\* while it holds the lock of the space.
LEMMA DropPossessHaveInv ==
  ASSUME IInv, NEW t \in Droppers, DropPossessHave(t)
  PROVE  IInv'
<1> USE DEF IInv, DropPossessHave
<1>1. t \in Threads
  BY ThreadKinds
<1>2. \A s : Using(s)' = Using(s) /\ Counted(s)' = Counted(s)
  BY <1>1 DEF Using, Counted, UserLabels, DropLabels, TypeOK
<1>3. /\ have' = [owner |-> t, value |-> have.value, waiting |-> have.waiting]
      /\ have' \in LockType(Threads, 0..MaxSpaces)
  BY <1>1, LockCalls DEF TypeOK
<1>4. TypeOK'
  BY <1>3, ThreadKinds DEF TypeOK, GetLabels, DropLabels
<1>5. PlaceInv'
  BY <1>1, <1>3, ThreadKinds DEF PlaceInv, OwnerLabels, TypeOK, IsFree
<1>6. ListInv'
  BY <1>1, <1>2, <1>3, SMTT(30) DEF ListInv, Listed, TypeOK
<1>7. CountInv'
  BY <1>1, <1>2 DEF CountInv, TypeOK, LastUser
<1>8. LimitInv'
  BY <1>1, <1>3 DEF LimitInv, TypeOK, WithinMaxSpaces
<1> QED BY <1>4, <1>5, <1>6, <1>7, <1>8

\* The space goes back to the list when nobody but the dropping thread uses it.
LEMMA LastUserIsAlone ==
  ASSUME IInv, NEW t \in Droppers, pc[t] = "push"
  PROVE  /\ sp[t] \in Spaces /\ sp[t] <= made /\ refs[sp[t]] = 0
         /\ Using(sp[t]) = {t} /\ sp[t] \notin Listed
<1> USE DEF IInv
<1>1. t \in Threads
  BY ThreadKinds
<1>2. PICK x \in Spaces : x = sp[t]
  BY <1>1, SpaceOfThread
<1>3. /\ use[x].value = 1 /\ refs[x] \in Nat /\ Cardinality(Counted(x)) \in Nat
      /\ use[x].value = refs[x] + Cardinality(Counted(x))
      /\ t \in Counted(x) /\ t \in Using(x) /\ Cardinality(Counted(x)) # 0
  <2>1. t \in Counted(x) /\ t \in Using(x)
    BY <1>1, <1>2 DEF Counted, Using, DropLabels, UserLabels
  <2>2. Cardinality(Counted(x)) # 0
    BY <2>1, UsersFinite
  <2> QED BY <1>1, <1>2, <2>1, <2>2, SpaceCounts DEF CountInv
<1>4. refs[x] = 0 /\ Counted(x) = {t}
  <2>1. refs[x] = 0 /\ Cardinality(Counted(x)) = 1
    BY <1>3
  <2>2. PICK u : Counted(x) = {u}
    BY <2>1, UsersFinite, FS_Singleton
  <2> QED BY <1>3, <2>1, <2>2
<1>5. ASSUME NEW u \in Using(x)
      PROVE  u = t
  <2>1. u \in Threads /\ sp[u] = x /\ pc[u] \in UserLabels
    BY DEF Using
  <2>2. CASE pc[u] \in {"took", "make"}
    BY <1>1, <1>2, <2>1, <2>2 DEF CountInv
  <2>3. CASE pc[u] \in DropLabels
    BY <1>4, <2>1, <2>3 DEF Counted
  <2> QED BY <2>1, <2>2, <2>3 DEF UserLabels, DropLabels
<1>6. x \notin Listed
  BY <1>3 DEF ListInv
<1> QED BY <1>1, <1>2, <1>3, <1>4, <1>5, <1>6 DEF PlaceInv

\* pool->head = space.
LEMMA DropPushInv ==
  ASSUME IInv, NEW t \in Droppers, DropPush(t)
  PROVE  IInv'
<1> USE DEF IInv, DropPush
<1>1. t \in Threads /\ t \notin Getters
  BY ThreadKinds
<1>2. /\ sp[t] \in Spaces /\ sp[t] <= made /\ refs[sp[t]] = 0
      /\ Using(sp[t]) = {t} /\ sp[t] \notin Listed
  BY LastUserIsAlone
<1>3. /\ \A s : Using(s)' = Using(s) \ {t}
      /\ \A s \in Spaces \ {sp[t]} : Using(s)' = Using(s)
      /\ \A s : Counted(s)' = Counted(s)
  <2>1. /\ \A u \in Threads \ {t} : pc'[u] = pc[u]
        /\ pc'[t] = "dropped" /\ sp' = sp
    BY <1>1 DEF TypeOK
  <2> QED BY <2>1 DEF Using, Counted, UserLabels, DropLabels
<1>4. /\ list' \in Seq(Spaces) /\ Len(list') = Len(list) + 1
      /\ Listed' = Listed \cup {sp[t]} /\ Distinct(list')
  <2>1. /\ list \in Seq(Spaces) /\ Distinct(list) /\ sp[t] \notin Elems(list)
        /\ list' = <<sp[t]>> \o list
    BY <1>2 DEF TypeOK, ListInv, Distinct, Elems, Listed
  <2>2. /\ list' \in Seq(Spaces) /\ Len(list') = Len(list) + 1
        /\ Elems(list') = Elems(list) \cup {sp[t]} /\ Distinct(list')
    BY <1>2, <2>1, PushList
  <2>3. Listed = Elems(list) /\ Listed' = Elems(list')
    BY DEF Listed, Elems
  <2> QED BY <2>2, <2>3
<1>5. Len(list') \in 0..MaxSpaces
  <2>1. Len(list') \in Nat /\ MaxSpaces \in Nat
    BY <1>4, PoolAssumption
  <2>2. Elems(list') \subseteq Spaces
    BY <1>4 DEF Elems
  <2>3. Len(list') <= MaxSpaces
    BY <1>4, <2>1, <2>2, ListLength DEF Spaces
  <2> QED BY <2>1, <2>3
<1>6. /\ have' = [owner |-> NoThread, value |-> Len(list'), waiting |-> {}]
      /\ have' \in LockType(Threads, 0..MaxSpaces)
  <2>1. have' = TwistTo(have, Len(list'))
    BY <1>4 DEF TwistBy, ListInv
  <2> QED BY <1>5, <2>1, LockValues
<1>7. TypeOK'
  BY <1>4, <1>6, ThreadKinds DEF TypeOK, GetLabels, DropLabels
<1>8. PlaceInv'
  BY <1>1, <1>6, ThreadKinds DEF PlaceInv, OwnerLabels, TypeOK
<1>9. ListInv'
  <2>1. \A i, j \in DOMAIN list' : list'[i] = list'[j] => i = j
    BY <1>4 DEF Distinct
  <2>2. \A s \in Spaces : s \in Listed' <=> s <= made' /\ refs'[s] = 0 /\ Using(s)' = {}
    BY <1>2, <1>3, <1>4 DEF ListInv
  <2>3. \A u \in Threads : pc'[u] \notin {"pull", "take"}
    BY <1>1, ThreadKinds DEF PlaceInv, TypeOK
  <2> QED BY <1>6, <2>1, <2>2, <2>3 DEF ListInv
<1>10. CountInv'
  BY <1>1, <1>3 DEF CountInv, TypeOK
<1>11. LimitInv'
  <2>1. \A u \in Threads : pc'[u] # "check"
    BY <1>1, ThreadKinds, SMTT(30) DEF PlaceInv, TypeOK
  <2> QED BY <1>1, <2>1 DEF LimitInv, TypeOK
<1> QED BY <1>7, <1>8, <1>9, <1>10, <1>11

\* A new pool, made when no thread is in a call and no reference is left.
LEMMA FreeAndCreateInv ==
  ASSUME IInv, FreeAndCreate
  PROVE  IInv'
<1> USE DEF IInv, FreeAndCreate
<1>1. PICK n \in Limits : Create(n)
  OBVIOUS
<1>2. /\ \A t \in Threads : pc'[t] = "idle" /\ sp'[t] = NoSpace
      /\ \A s \in Spaces : refs'[s] = 0
      /\ n \in {-1} \cup (Nat \ {0}) /\ n <= MaxSpaces /\ MaxSpaces \in Nat
  BY PoolAssumption DEF Quiescent, PlaceInv
<1>3. \A s : Using(s)' = {} /\ Counted(s)' = {}
  BY <1>2 DEF Using, Counted, UserLabels, DropLabels
<1>4. /\ have' \in LockType(Threads, 0..MaxSpaces)
      /\ NewLock(0) \in LockType(Threads, Nat)
      /\ NewLock(0) = [owner |-> NoThread, value |-> 0, waiting |-> {}]
      /\ have' = NewLock(0)
  <2>1. 0 \in 0..MaxSpaces /\ 0 \in Nat
    BY <1>2
  <2> QED BY <1>1, <2>1, LockValues DEF Create
<1>5. /\ list' = <<>> /\ limit' = n /\ made' = 0 /\ created' = n
      /\ use' = [s \in Spaces |-> NewLock(0)] /\ pc' = pc /\ sp' = sp /\ refs' = refs
  BY <1>1 DEF Create
<1>6. TypeOK'
  <2>1. limit' \in -1..MaxSpaces /\ made' \in 0..MaxSpaces
    BY <1>2, <1>5
  <2> QED BY <1>4, <1>5, <2>1 DEF TypeOK
<1>7. PlaceInv'
  BY <1>2, <1>4, <1>5, ThreadKinds DEF PlaceInv, OwnerLabels, NoSpace
<1>8. ListInv'
  <2>1. Listed' = {} /\ Len(list') = 0
    BY <1>5 DEF Listed
  <2>2. \A s \in Spaces : ~(s <= made')
    BY <1>5 DEF Spaces
  <2> QED BY <1>2, <1>4, <1>5, <2>1, <2>2 DEF ListInv
<1>9. CountInv'
  <2>1. \A s : Cardinality(Counted(s)') = 0
    BY <1>3, FS_EmptySet
  <2>2. \A s \in Spaces : use'[s].value = 0
    BY <1>4, <1>5
  <2> QED BY <1>2, <2>1, <2>2 DEF CountInv
<1>10. LimitInv'
  BY <1>2, <1>5 DEF LimitInv
<1> QED BY <1>6, <1>7, <1>8, <1>9, <1>10

LEMMA StutterInv ==
  ASSUME IInv, UNCHANGED vars
  PROVE  IInv'
  BY DEF IInv, TypeOK, PlaceInv, ListInv, CountInv, LimitInv, vars, Listed, Using,
         Counted, WithinMaxSpaces

LEMMA StepInv ==
  ASSUME IInv, [Next]_vars
  PROVE  IInv'
<1>1. CASE \E t \in Getters : Get(t)
  BY <1>1, GetPossessInv, GetWaitInv, GetWakeInv, GetPullInv, GetPossessUseInv,
     GetTakeInv, GetReturnInv, GetMakeInv, GetMadeInv DEF Get
<1>2. CASE \E t \in Droppers : Share(t)
  BY <1>2, ShareCallInv, SharePossessInv, ShareReturnInv DEF Share
<1>3. CASE \E t \in Droppers : Drop(t)
  BY <1>3, DropCallInv, DropPossessInv, DropPossessHaveInv, DropPushInv, DropReturnInv
     DEF Drop
<1> QED BY <1>1, <1>2, <1>3, FreeAndCreateInv, StutterInv DEF Next

\* Every reachable state of the pool satisfies the inductive invariant.
THEOREM InductiveInvariant == Spec => []IInv
<1> QED BY InitInv, StepInv, PTL DEF Spec

\* The variables keep their types, so the value of have never leaves 0..MaxSpaces.
THEOREM TypeCorrect == Spec => []TypeOK
<1>1. IInv => TypeOK
  BY DEF IInv
<1> QED BY <1>1, InductiveInvariant, PTL

\* While nobody holds the mutex its value is the length of the list, and no thread
\* sleeps in wait_for although a space is free.
THEOREM NoGetterSleeps == Spec => []NoSleepingGetter
<1>1. IInv => NoSleepingGetter
  BY DEF IInv, ListInv, NoSleepingGetter
<1> QED BY <1>1, InductiveInvariant, PTL

\* No assert() of buffer_pool.c fails: a space that is dropped has a user, a space
\* is made only within the limit, and the pool that is freed has all its spaces.
THEOREM AssertionsHold == Spec => []AssertsHold
<1>1. ASSUME IInv PROVE AssertsHold
  <2> USE <1>1 DEF IInv
  <2>1. ASSUME NEW t \in Threads, pc[t] = "test"
        PROVE  use[sp[t]].value # 0
    <3>1. PICK x \in Spaces : x = sp[t]
      BY <2>1, SpaceOfThread
    <3>2. t \in Counted(x)
      BY <2>1, <3>1 DEF Counted, DropLabels
    <3>3. Cardinality(Counted(x)) # 0
      BY <3>2, UsersFinite
    <3>4. use[x].value # 0
      BY <3>3, SpaceCounts
    <3> QED BY <3>1, <3>4
  <2>2. ASSUME NEW t \in Threads, pc[t] = "check", ~MustWait, list = <<>>
        PROVE  limit # 0
    BY <2>2 DEF MustWait, ListInv
  <2>3. ASSUME Quiescent
        PROVE  Len(list) = made
    <3>1. made \in 0..MaxSpaces /\ list \in Seq(Spaces) /\ MaxSpaces \in Nat
      BY PoolAssumption DEF TypeOK
    <3>2. \A s : Using(s) = {}
      BY <2>3 DEF Quiescent, Using, UserLabels
    <3>3. \A s \in Spaces : s \in Listed <=> s <= made
      BY <2>3, <3>2 DEF Quiescent, ListInv
    <3>4. Listed \subseteq Spaces
      BY <3>1 DEF Listed
    <3>5. Listed = 1..made
      <4>1. \A s \in 1..made : s \in Spaces /\ s <= made
        BY <3>1 DEF Spaces
      <4>2. \A s \in Listed : s \in 1..made
        BY <3>1, <3>3, <3>4 DEF Spaces
      <4> QED BY <3>3, <4>1, <4>2
    <3>6. Elems(list) = 1..made /\ Distinct(list) /\ made \in Nat
      BY <3>1, <3>5 DEF Elems, Listed, Distinct, ListInv
    <3> QED BY <3>1, <3>6, ListLength
  <2> QED BY <2>1, <2>2, <2>3 DEF AssertsHold
<1> QED BY <1>1, InductiveInvariant, PTL

-----------------------------------------------------------------------------
(* The pool implements SpacePool. *)

\* The spaces that SpacePool calls free are those in the list.
LEMMA FreeIsListed ==
  ASSUME IInv
  PROVE  Pool!FreeSpaces = Listed
<1> USE DEF IInv
<1>1. made \in 0..MaxSpaces /\ MaxSpaces \in Nat /\ Listed \subseteq Spaces
  BY PoolAssumption DEF TypeOK, Listed
<1>2. ASSUME NEW s \in Spaces
      PROVE  Users[s] = 0 <=> refs[s] = 0 /\ Using(s) = {}
  <2>1. Users[s] = refs[s] + Cardinality(Using(s))
    BY DEF Users
  <2>2. refs[s] \in Nat /\ Cardinality(Using(s)) \in Nat
    BY SpaceCounts, UsersFinite
  <2> QED BY <2>1, <2>2, UsersFinite
<1>3. \A s \in 1..made : s \in Spaces /\ s <= made
  BY <1>1 DEF Spaces
<1>4. \A s \in Listed : s \in 1..made
  BY <1>1 DEF ListInv, Spaces
<1> QED BY <1>1, <1>2, <1>3, <1>4 DEF ListInv, Pool!FreeSpaces

\* How a step of t changes the users of each space.
LEMMA UsersAfter ==
  ASSUME IInv, IInv', NEW t \in Threads,
         \A u \in Threads \ {t} : pc'[u] = pc[u] /\ sp'[u] = sp[u]
  PROVE  \A s \in Spaces :
           /\ refs[s] \in Nat /\ refs'[s] \in Nat /\ Users[s] \in Nat /\ Users'[s] \in Nat
           /\ Users'[s] = Users[s] + refs'[s] - refs[s]
                            + (IF sp'[t] = s /\ pc'[t] \in UserLabels THEN 1 ELSE 0)
                            - (IF sp[t] = s /\ pc[t] \in UserLabels THEN 1 ELSE 0)
<1> TAKE s \in Spaces
<1>1. /\ Users[s] = refs[s] + Cardinality(Using(s)) /\ refs[s] \in Nat
      /\ Cardinality(Using(s)) \in Nat
  BY SpaceCounts, UsersFinite DEF Users
<1>2. /\ Users'[s] = refs'[s] + Cardinality(Using(s)') /\ refs'[s] \in Nat
  BY DEF Users, IInv, TypeOK
<1>3. Cardinality(Using(s)') = Cardinality(Using(s))
                                + (IF sp'[t] = s /\ pc'[t] \in UserLabels THEN 1 ELSE 0)
                                - (IF sp[t] = s /\ pc[t] \in UserLabels THEN 1 ELSE 0)
  BY OneMoves
<1>4. t \in Using(s) <=> sp[t] = s /\ pc[t] \in UserLabels
  BY DEF Using
<1>5. t \in Using(s) => Cardinality(Using(s)) # 0
  BY UsersFinite
<1> QED BY <1>1, <1>2, <1>3, <1>4, <1>5

\* A step that leaves the users of every space, or of every space but one.
LEMMA SameUsers ==
  ASSUME \A s \in Spaces : Users'[s] = Users[s]
  PROVE  Users' = Users
<1>1. Users = [s \in Spaces |-> Users[s]] /\ Users' = [s \in Spaces |-> Users'[s]]
  BY DEF Users
<1> QED BY <1>1

LEMMA OtherUsers ==
  ASSUME NEW x \in Spaces, NEW n, Users'[x] = n,
         \A s \in Spaces \ {x} : Users'[s] = Users[s]
  PROVE  Users' = [Users EXCEPT ![x] = n]
<1>1. Users = [s \in Spaces |-> Users[s]] /\ Users' = [s \in Spaces |-> Users'[s]]
  BY DEF Users
<1> QED BY <1>1

\* The space that is handed to a getting thread.
LEMMA HandedAfter ==
  ASSUME IInv, NEW t \in Threads,
         \A u \in Threads \ {t} : pc'[u] = pc[u] /\ sp'[u] = sp[u]
  PROVE  /\ pc[t] \notin {"took", "make"} /\ pc'[t] \notin {"took", "make"}
              => Handed' = Handed
         /\ t \in Getters /\ pc'[t] \in {"took", "make"}
              => Handed' = [Handed EXCEPT ![t] = sp'[t]]
         /\ t \in Getters /\ pc'[t] \notin {"took", "make"}
              => Handed' = [Handed EXCEPT ![t] = NoSpace]
<1>1. \A u \in Getters \ {t} : Handed'[u] = Handed[u]
  BY ThreadKinds DEF Handed
<1>2. t \in Getters => /\ Handed[t] = IF pc[t] \in {"took", "make"} THEN sp[t] ELSE NoSpace
                       /\ Handed'[t] = IF pc'[t] \in {"took", "make"} THEN sp'[t] ELSE NoSpace
  BY DEF Handed
<1>3. Handed = [u \in Getters |-> Handed[u]] /\ Handed' = [u \in Getters |-> Handed'[u]]
  BY DEF Handed
<1>4. ASSUME pc[t] \notin {"took", "make"}, pc'[t] \notin {"took", "make"}
      PROVE  Handed' = Handed
  <2>1. \A u \in Getters : Handed'[u] = Handed[u]
    BY <1>1, <1>2, <1>4
  <2> QED BY <1>3, <2>1
<1> QED BY <1>1, <1>2, <1>3, <1>4

\* Taking a mutex, waiting for it and looking at the list change no user of a space.
LEMMA LockSteps ==
  ASSUME IInv, IInv', NEW t \in Threads,
         \/ GetPossess(t) \/ GetWait(t) \/ GetWake(t) \/ GetPull(t) \/ GetPossessUse(t)
         \/ SharePossess(t) \/ DropPossess(t) \/ DropPossessHave(t)
  PROVE  UNCHANGED Pool!vars
<1>1. /\ \A u \in Threads \ {t} : pc'[u] = pc[u] /\ sp'[u] = sp[u]
      /\ pc'[t] \in UserLabels <=> pc[t] \in UserLabels
      /\ pc[t] \in UserLabels => sp'[t] = sp[t]
      /\ pc[t] \notin {"took", "make"} /\ pc'[t] \notin {"took", "make"}
      /\ refs' = refs /\ made' = made /\ created' = created
  BY DEF GetPossess, GetWait, GetWake, GetPull, GetPossessUse, SharePossess, DropPossess,
         DropPossessHave, UserLabels, IInv, TypeOK
<1>2. \A s \in Spaces : Users'[s] = Users[s]
  BY <1>1, UsersAfter
<1>3. Handed' = Handed
  BY <1>1, HandedAfter
<1> QED BY <1>1, <1>2, <1>3, SameUsers DEF Pool!vars

\* A caller's reference becomes the thread that gives it up.
LEMMA CallSteps ==
  ASSUME IInv, IInv', NEW t \in Threads, ShareCall(t) \/ DropCall(t)
  PROVE  UNCHANGED Pool!vars
<1>1. PICK x \in Spaces :
        /\ pc[t] = "idle" /\ refs' = [refs EXCEPT ![x] = @ - 1]
        /\ sp' = [sp EXCEPT ![t] = x]
        /\ pc' = [pc EXCEPT ![t] = "share"] \/ pc' = [pc EXCEPT ![t] = "drop"]
        /\ made' = made /\ created' = created
  BY DEF ShareCall, DropCall
<1>2. /\ \A u \in Threads \ {t} : pc'[u] = pc[u] /\ sp'[u] = sp[u]
      /\ sp'[t] = x /\ pc'[t] \in UserLabels /\ pc[t] \notin UserLabels
      /\ pc[t] \notin {"took", "make"} /\ pc'[t] \notin {"took", "make"}
      /\ refs'[x] = refs[x] - 1 /\ \A s \in Spaces \ {x} : refs'[s] = refs[s]
  BY <1>1 DEF UserLabels, IInv, TypeOK
<1>3. \A s \in Spaces : Users'[s] = Users[s]
  BY <1>2, UsersAfter
<1>4. Handed' = Handed
  BY <1>2, HandedAfter
<1> QED BY <1>1, <1>3, <1>4, SameUsers DEF Pool!vars

\* The head of the list leaves it: a free space is handed to the thread.
LEMMA TakeStep ==
  ASSUME IInv, IInv', NEW t \in Getters, GetTake(t)
  PROVE  Pool!Reuse(t)
<1> USE DEF GetTake
<1>1. t \in Threads
  BY ThreadKinds
<1>2. PICK x \in Spaces : x = sp[t]
  BY <1>1, SpaceOfThread
<1>3. /\ x \in Listed /\ refs[x] = 0 /\ Using(x) = {}
  BY <1>1, <1>2, HeadIsUnused DEF IInv, ListInv
<1>4. /\ \A u \in Threads \ {t} : pc'[u] = pc[u] /\ sp'[u] = sp[u]
      /\ sp'[t] = x /\ pc'[t] = "took" /\ pc[t] = "take"
      /\ "took" \in UserLabels /\ "take" \notin UserLabels
      /\ refs' = refs /\ made' = made /\ created' = created
  BY <1>1, <1>2 DEF UserLabels, IInv, TypeOK
<1>5. Users[x] = 0
  <2>1. Cardinality(Using(x)) = 0
    BY <1>3, UsersFinite
  <2>2. Users[x] = refs[x] + Cardinality(Using(x)) /\ refs[x] = 0
    BY <1>3 DEF Users
  <2> QED BY <2>1, <2>2
<1>6. Users'[x] = 1 /\ \A s \in Spaces \ {x} : Users'[s] = Users[s]
  BY <1>1, <1>2, <1>4, <1>5, UsersAfter
<1>7. Users' = [Users EXCEPT ![x] = 1]
  BY <1>6, OtherUsers
<1>8. Handed[t] = NoSpace /\ Handed' = [Handed EXCEPT ![t] = x]
  BY <1>1, <1>4, HandedAfter DEF Handed
<1>9. x \in Pool!FreeSpaces
  BY <1>3, FreeIsListed
<1> QED BY <1>4, <1>7, <1>8, <1>9 DEF Pool!Reuse, Pool!NoSpace, NoSpace

\* Nothing is free: a new space is handed to the thread.
LEMMA MakeStep ==
  ASSUME IInv, IInv', NEW t \in Getters, GetMake(t)
  PROVE  Pool!Make(t)
<1> USE DEF GetMake
<1>1. /\ t \in Threads /\ made \in Nat /\ MaxSpaces \in Nat
      /\ \A u \in Threads : sp[u] # made + 1
  BY ThreadKinds, PoolAssumption DEF IInv, TypeOK, PlaceInv, Spaces, NoSpace
<1>2. PICK x \in Spaces : x = made + 1
  BY RoomForOneMore
<1>3. /\ made < MaxSpaces /\ (created = -1 \/ made < created) /\ refs[x] = 0
  BY <1>1, <1>2, RoomForOneMore DEF Spaces
<1>4. /\ \A u \in Threads \ {t} : pc'[u] = pc[u] /\ sp'[u] = sp[u]
      /\ sp'[t] = x /\ pc'[t] = "make" /\ pc[t] = "check"
      /\ "make" \in UserLabels /\ "check" \notin UserLabels
      /\ refs' = refs /\ made' = x /\ created' = created
  BY <1>1, <1>2 DEF UserLabels, IInv, TypeOK
<1>5. Using(x) = {}
  BY <1>1, <1>2 DEF Using
<1>6. Users[x] = 0
  <2>1. Cardinality(Using(x)) = 0
    BY <1>5, UsersFinite
  <2> QED BY <1>3, <2>1 DEF Users
<1>7. Users'[x] = 1 /\ \A s \in Spaces \ {x} : Users'[s] = Users[s]
  BY <1>1, <1>4, <1>6, UsersAfter, SMTT(30)
<1>8. Users' = [Users EXCEPT ![x] = 1]
  BY <1>7, OtherUsers
<1>9. Handed[t] = NoSpace /\ Handed' = [Handed EXCEPT ![t] = x]
  BY <1>1, <1>4, HandedAfter DEF Handed
<1>10. Pool!FreeSpaces = {}
  BY FreeIsListed DEF Listed
<1> QED BY <1>2, <1>3, <1>4, <1>8, <1>9, <1>10 DEF Pool!Make, Pool!NoSpace, NoSpace

\* buffer_pool_get_space returns: the caller's reference is the thread's user.
LEMMA ReturnStep ==
  ASSUME IInv, IInv', NEW t \in Getters, GetReturn(t) \/ GetMade(t)
  PROVE  Pool!Receive(t)
<1>1. /\ t \in Threads /\ pc[t] \in {"took", "make"}
      /\ refs' = [refs EXCEPT ![sp[t]] = @ + 1] /\ sp' = [sp EXCEPT ![t] = NoSpace]
      /\ pc' = [pc EXCEPT ![t] = "idle"] /\ made' = made /\ created' = created
  BY ThreadKinds DEF GetReturn, GetMade
<1>2. PICK x \in Spaces : x = sp[t]
  BY <1>1, SpaceOfThread
<1>3. /\ \A u \in Threads \ {t} : pc'[u] = pc[u] /\ sp'[u] = sp[u]
      /\ sp'[t] = NoSpace /\ pc'[t] = "idle" /\ pc[t] \in UserLabels /\ pc'[t] \notin UserLabels
      /\ pc'[t] \notin {"took", "make"}
      /\ refs'[x] = refs[x] + 1 /\ \A s \in Spaces \ {x} : refs'[s] = refs[s]
  BY <1>1, <1>2 DEF UserLabels, IInv, TypeOK
<1>4. \A s \in Spaces : Users'[s] = Users[s]
  BY <1>1, <1>2, <1>3, UsersAfter
<1>5. Handed' = [Handed EXCEPT ![t] = NoSpace]
  BY <1>1, <1>3, HandedAfter
<1> QED BY <1>1, <1>4, <1>5, SameUsers DEF Pool!Receive, Pool!NoSpace, NoSpace

\* buffer_pool_use_space returns: one user more.
LEMMA ShareStep ==
  ASSUME IInv, IInv', NEW t \in Threads, ShareReturn(t)
  PROVE  Pool!Share
<1> USE DEF ShareReturn
<1>1. PICK x \in Spaces : x = sp[t]
  BY SpaceOfThread
<1>2. /\ \A u \in Threads \ {t} : pc'[u] = pc[u] /\ sp'[u] = sp[u]
      /\ sp'[t] = NoSpace /\ pc'[t] = "idle" /\ pc[t] \in UserLabels /\ pc'[t] \notin UserLabels
      /\ pc[t] \notin {"took", "make"} /\ pc'[t] \notin {"took", "make"}
      /\ refs'[x] = refs[x] + 2 /\ \A s \in Spaces \ {x} : refs'[s] = refs[s]
      /\ made' = made /\ created' = created
  BY <1>1 DEF UserLabels, IInv, TypeOK
<1>3. x \in 1..made /\ Users[x] > 0
  <2>1. t \in Using(x)
    BY <1>1, <1>2 DEF Using
  <2>2. Cardinality(Using(x)) # 0 /\ Cardinality(Using(x)) \in Nat
    BY <2>1, UsersFinite
  <2>3. x \in Nat \ {0} /\ made \in Nat /\ x <= made /\ refs[x] \in Nat
    BY <1>1, SpaceCounts DEF IInv, PlaceInv
  <2> QED BY <2>2, <2>3 DEF Users
<1>4. Users'[x] = Users[x] + 1 /\ \A s \in Spaces \ {x} : Users'[s] = Users[s]
  BY <1>1, <1>2, UsersAfter
<1>5. Users' = [Users EXCEPT ![x] = @ + 1]
  BY <1>4, OtherUsers
<1>6. Handed' = Handed
  BY <1>2, HandedAfter
<1> QED BY <1>2, <1>3, <1>5, <1>6 DEF Pool!Share

\* The user a dropping thread stands for goes when the space is linked in the
\* list, or when the value of its lock is reduced because there are others.
LEMMA DropStep ==
  ASSUME IInv, IInv', NEW t \in Threads, DropPush(t) \/ (DropReturn(t) /\ pc[t] = "test")
  PROVE  Pool!Drop
<1>1. /\ pc[t] \in {"push", "test"} /\ refs' = refs /\ made' = made /\ created' = created
      /\ \A u \in Threads \ {t} : pc'[u] = pc[u] /\ sp'[u] = sp[u]
      /\ pc'[t] \in {"idle", "dropped"}
  BY DEF DropPush, DropReturn, IInv, TypeOK
<1>2. PICK x \in Spaces : x = sp[t]
  BY <1>1, SpaceOfThread
<1>3. /\ pc[t] \in UserLabels /\ pc'[t] \notin UserLabels
      /\ pc[t] \notin {"took", "make"} /\ pc'[t] \notin {"took", "make"}
  BY <1>1 DEF UserLabels
<1>4. x \in 1..made /\ Users[x] > 0
  <2>1. t \in Using(x)
    BY <1>2, <1>3 DEF Using
  <2>2. Cardinality(Using(x)) # 0 /\ Cardinality(Using(x)) \in Nat
    BY <2>1, UsersFinite
  <2>3. x \in Nat \ {0} /\ made \in Nat /\ x <= made /\ refs[x] \in Nat
    BY <1>2, SpaceCounts DEF IInv, PlaceInv
  <2> QED BY <2>2, <2>3 DEF Users
<1>5. Users'[x] = Users[x] - 1 /\ \A s \in Spaces \ {x} : Users'[s] = Users[s]
  BY <1>1, <1>2, <1>3, UsersAfter
<1>6. Users' = [Users EXCEPT ![x] = @ - 1]
  BY <1>5, OtherUsers
<1>7. Handed' = Handed
  BY <1>1, <1>3, HandedAfter
<1> QED BY <1>1, <1>4, <1>6, <1>7 DEF Pool!Drop

\* The space is in the list already; the lock of the space is given back.
LEMMA DroppedStep ==
  ASSUME IInv, IInv', NEW t \in Threads, DropReturn(t), pc[t] = "dropped"
  PROVE  UNCHANGED Pool!vars
<1>1. /\ refs' = refs /\ made' = made /\ created' = created
      /\ \A u \in Threads \ {t} : pc'[u] = pc[u] /\ sp'[u] = sp[u]
      /\ pc'[t] = "idle"
      /\ pc[t] \notin UserLabels /\ pc'[t] \notin UserLabels
      /\ pc[t] \notin {"took", "make"} /\ pc'[t] \notin {"took", "make"}
  BY DEF DropReturn, UserLabels, IInv, TypeOK
<1>2. \A s \in Spaces : Users'[s] = Users[s]
  BY <1>1, UsersAfter
<1>3. Handed' = Handed
  BY <1>1, HandedAfter
<1> QED BY <1>1, <1>2, <1>3, SameUsers DEF Pool!vars

\* A pool is freed only when all its spaces are free.
LEMMA CreateStep ==
  ASSUME IInv, IInv', FreeAndCreate
  PROVE  Pool!Recreate
<1>1. PICK n \in Limits : Create(n)
  BY DEF FreeAndCreate
<1>2. made' = 0 /\ created' = n /\ pc' = pc /\ sp' = sp /\ refs' = refs
  BY <1>1 DEF FreeAndCreate, Create
<1>3. Users' = Users /\ Handed' = Handed
  BY <1>2 DEF Users, Handed, Using
<1>4. \A s \in Spaces : Users[s] = 0
  <2>1. \A s \in Spaces : Using(s) = {} /\ refs[s] = 0
    BY DEF FreeAndCreate, Quiescent, Using, UserLabels
  <2> QED BY <2>1, FS_EmptySet DEF Users
<1>5. \A s \in 1..made : s \in Spaces
  BY PoolAssumption DEF IInv, TypeOK, Spaces
<1> QED BY <1>1, <1>2, <1>3, <1>4, <1>5 DEF Pool!Recreate, Pool!FreeSpaces

\* Every step of the pool is a step of SpacePool or leaves it as it is.
LEMMA StepSimulation ==
  ASSUME IInv, IInv', [Next]_vars
  PROVE  [Pool!Next]_(Pool!vars)
<1>1. ASSUME NEW t \in Getters, Get(t)
      PROVE  [Pool!Next]_(Pool!vars)
  BY <1>1, ThreadKinds, LockSteps, TakeStep, MakeStep, ReturnStep DEF Get, Pool!Next
<1>2. ASSUME NEW t \in Droppers, Share(t)
      PROVE  [Pool!Next]_(Pool!vars)
  BY <1>2, ThreadKinds, LockSteps, CallSteps, ShareStep DEF Share, Pool!Next
<1>3. ASSUME NEW t \in Droppers, Drop(t)
      PROVE  [Pool!Next]_(Pool!vars)
  <2>1. CASE DropReturn(t)
    <3>1. pc[t] \in {"dropped", "test"}
      BY <2>1 DEF DropReturn
    <3> QED BY <2>1, <3>1, ThreadKinds, DropStep, DroppedStep DEF Pool!Next
  <2> QED BY <1>3, <2>1, ThreadKinds, LockSteps, CallSteps, DropStep DEF Drop, Pool!Next
<1>4. CASE FreeAndCreate
  BY <1>4, CreateStep DEF Pool!Next
<1>5. CASE UNCHANGED vars
  BY <1>5 DEF vars, Pool!vars, Users, Handed, Using
<1> QED BY <1>1, <1>2, <1>3, <1>4, <1>5 DEF Next

\* Whatever the interleaving of its lock operations, the pool behaves like one whose
\* operations are atomic: no space is handed to two owners, returned while somebody
\* uses it, lost, or made beyond the limit.
THEOREM Refinement == Spec => PoolSpec
<1>1. Init => Pool!Init
  <2> SUFFICES ASSUME Init PROVE Pool!Init
    OBVIOUS
  <2>1. \A s : Using(s) = {}
    BY DEF Init, Using, UserLabels
  <2>2. Users = [s \in Spaces |-> 0]
    <3>1. \A s : Cardinality(Using(s)) = 0
      BY <2>1, UsersFinite
    <3> QED BY <3>1 DEF Users, Init
  <2>3. Handed = [t \in Getters |-> NoSpace]
    BY ThreadKinds DEF Handed, Init
  <2> QED BY <2>2, <2>3 DEF Init, Pool!Init, Pool!Spaces, Spaces, Pool!NoSpace, NoSpace
<1> QED BY <1>1, InductiveInvariant, StepSimulation, PTL DEF Spec, PoolSpec, Pool!Spec

-----------------------------------------------------------------------------
(* The list of threads. *)

\* A list without repetitions, without the element at one of its places.
LEMMA CutList ==
  ASSUME NEW S, NEW q \in Seq(S), Distinct(q), NEW i \in DOMAIN q
  PROVE  \A new : new = SubSeq(q, 1, i - 1) \o SubSeq(q, i + 1, Len(q)) =>
           /\ new \in Seq(S) /\ Len(new) = Len(q) - 1
           /\ Elems(new) = Elems(q) \ {q[i]}
           /\ Distinct(new)
<1>0. SUFFICES ASSUME NEW new, new = SubSeq(q, 1, i - 1) \o SubSeq(q, i + 1, Len(q))
               PROVE  /\ new \in Seq(S) /\ Len(new) = Len(q) - 1
                      /\ Elems(new) = Elems(q) \ {q[i]}
                      /\ Distinct(new)
  OBVIOUS
<1>1. /\ Len(q) \in Nat /\ DOMAIN q = 1 .. Len(q) /\ i \in 1 .. Len(q)
      /\ \A j \in 1 .. Len(q) : q[j] \in S
  OBVIOUS
<1>2. PICK a, b : a = SubSeq(q, 1, i - 1) /\ b = SubSeq(q, i + 1, Len(q))
  OBVIOUS
<1>3. a \in Seq(S) /\ Len(a) = i - 1 /\ \A j \in 1 .. i - 1 : a[j] = q[j]
  <2>1. 1 \in Int /\ i - 1 \in Int /\ \A j \in 1 .. i - 1 : q[j] \in S  BY <1>1
  <2>2. /\ a \in Seq(S) /\ Len(a) = IF 1 <= i - 1 THEN i - 1 - 1 + 1 ELSE 0
        /\ \A j \in 1 .. i - 1 - 1 + 1 : a[j] = q[1 + j - 1]
    BY <1>2, <2>1, SubSeqProperties
  <2> QED  BY <1>1, <2>2
<1>4. b \in Seq(S) /\ Len(b) = Len(q) - i /\ \A j \in 1 .. Len(q) - i : b[j] = q[j + i]
  <2>1. i + 1 \in Int /\ Len(q) \in Int /\ \A j \in i + 1 .. Len(q) : q[j] \in S  BY <1>1
  <2>2. /\ b \in Seq(S) /\ Len(b) = IF i + 1 <= Len(q) THEN Len(q) - (i + 1) + 1 ELSE 0
        /\ \A j \in 1 .. Len(q) - (i + 1) + 1 : b[j] = q[i + 1 + j - 1]
    BY <1>2, <2>1, SubSeqProperties
  <2>3. \A j \in 1 .. Len(q) - i : j \in 1 .. Len(q) - (i + 1) + 1 /\ i + 1 + j - 1 = j + i
    BY <1>1
  <2> QED  BY <1>1, <2>2, <2>3
<1>5. new = a \o b  BY <1>0, <1>2
<1>6. /\ new \in Seq(S) /\ Len(new) = Len(q) - 1 /\ DOMAIN new = 1 .. Len(q) - 1
      /\ \A j \in 1 .. Len(q) - 1 : new[j] = IF j < i THEN q[j] ELSE q[j + 1]
  <2>0. /\ a \o b \in Seq(S) /\ Len(a \o b) = Len(a) + Len(b)
        /\ \A j \in 1 .. Len(a) + Len(b) :
             (a \o b)[j] = IF j <= Len(a) THEN a[j] ELSE b[j - Len(a)]
    BY <1>3, <1>4, ConcatProperties
  <2>1. /\ new \in Seq(S) /\ Len(new) = Len(q) - 1
        /\ \A j \in 1 .. Len(q) - 1 :
             new[j] = IF j <= i - 1 THEN a[j] ELSE b[j - (i - 1)]
    <3>1. Len(a) = i - 1 /\ Len(a) + Len(b) = Len(q) - 1  BY <1>1, <1>3, <1>4
    <3> QED  BY <1>5, <2>0, <3>1
  <2>3. DOMAIN new = 1 .. Len(q) - 1  BY <2>1
  <2>2. ASSUME NEW j \in 1 .. Len(q) - 1 PROVE new[j] = IF j < i THEN q[j] ELSE q[j + 1]
    <3>1. CASE j < i
      <4>1. j \in 1 .. i - 1  BY <1>1, <3>1
      <4>2. new[j] = a[j]  BY <2>1, <4>1
      <4> QED  BY <1>3, <3>1, <4>1, <4>2
    <3>2. CASE j >= i
      <4>1. j - (i - 1) \in 1 .. Len(q) - i  BY <1>1, <3>2
      <4>2. new[j] = b[j - (i - 1)]
        <5>1. ~(j <= i - 1)  BY <1>1, <3>2
        <5> QED  BY <2>1, <5>1
      <4> DEFINE k == j - (i - 1)
      <4>3. b[k] = q[k + i] /\ k + i = j + 1  BY <1>1, <1>4, <4>1
      <4> QED  BY <1>1, <3>2, <4>2, <4>3
    <3> QED  BY <1>1, <3>1, <3>2
  <2> QED  BY <2>1, <2>2, <2>3
<1>7. Elems(new) \subseteq Elems(q) \ {q[i]}
  <2> SUFFICES ASSUME NEW j \in 1 .. Len(q) - 1 PROVE new[j] \in Elems(q) \ {q[i]}
    BY <1>6 DEF Elems
  <2>1. PICK k \in 1 .. Len(q) : new[j] = q[k] /\ k # i
    <3>1. CASE j < i
      <4>1. j \in 1 .. Len(q) /\ new[j] = q[j]  BY <1>1, <1>6, <3>1
      <4> QED  BY <1>1, <3>1, <4>1
    <3>2. CASE ~(j < i)
      <4>1. new[j] = q[j + 1]  BY <1>6, <3>2
      <4>2. j + 1 \in 1 .. Len(q) /\ j + 1 # i  BY <1>1, <3>2
      <4> QED  BY <4>1, <4>2
    <3> QED  BY <3>1, <3>2
  <2> QED  BY <1>1, <2>1 DEF Elems, Distinct
<1>8. ASSUME NEW e \in Elems(q) \ {q[i]} PROVE e \in Elems(new)
  <2>1. PICK j \in 1 .. Len(q) : e = q[j] /\ j # i  BY <1>1 DEF Elems
  <2>2. PICK k \in 1 .. Len(q) - 1 : new[k] = e
    <3>1. CASE j < i
      <4>1. j \in 1 .. Len(q) - 1  BY <1>1, <3>1
      <4>2. new[j] = q[j]  BY <1>6, <3>1, <4>1
      <4> QED  BY <2>1, <4>1, <4>2
    <3>2. CASE j > i
      <4>1. j - 1 \in 1 .. Len(q) - 1 /\ ~(j - 1 < i) /\ j - 1 + 1 = j  BY <1>1, <3>2
      <4>2. PICK k \in 1 .. Len(q) - 1 : k = j - 1 /\ ~(k < i) /\ k + 1 = j  BY <4>1
      <4>3. new[k] = q[k + 1]  BY <1>6, <4>2
      <4> QED  BY <2>1, <4>2, <4>3
    <3>3. j < i \/ j > i  BY <1>1, <2>1
    <3> QED  BY <3>1, <3>2, <3>3
  <2> QED  BY <1>6, <2>2 DEF Elems
<1>9. Distinct(new)
  <2> SUFFICES ASSUME NEW j \in DOMAIN new, NEW k \in DOMAIN new, new[j] = new[k] PROVE j = k
    BY DEF Distinct
  <2>1. \A m, o \in 1 .. Len(q) : q[m] = q[o] => m = o  BY <1>1 DEF Distinct
  <2> DEFINE at(m) == IF m < i THEN m ELSE m + 1
  <2>2. ASSUME NEW m \in 1 .. Len(q) - 1 PROVE at(m) \in 1 .. Len(q) /\ new[m] = q[at(m)]
    <3>1. at(m) \in 1 .. Len(q)  BY <1>1
    <3>2. new[m] = IF m < i THEN q[m] ELSE q[m + 1]  BY <1>6
    <3> QED  BY <3>1, <3>2
  <2>3. j \in 1 .. Len(q) - 1 /\ k \in 1 .. Len(q) - 1  BY <1>6
  <2>4. at(j) = at(k)
    <3>1. PICK m, o : m = at(j) /\ o = at(k)  OBVIOUS
    <3> HIDE DEF at
    <3>2. m \in 1 .. Len(q) /\ o \in 1 .. Len(q) /\ q[m] = q[o]  BY <2>2, <2>3, <3>1
    <3> QED  BY <2>1, <3>1, <3>2
  <2>5. i \in Int /\ j \in Int /\ k \in Int  BY <1>1, <2>3
  <2>6. (IF j < i THEN j ELSE j + 1) = (IF k < i THEN k ELSE k + 1)  BY <2>4
  <2> QED  BY <2>5, <2>6
<1> QED  BY <1>6, <1>7, <1>8, <1>9

\* As long as its length says, a list without repetitions has elements.
LEMMA DistinctSize ==
  ASSUME NEW S, NEW q \in Seq(S), Distinct(q)
  PROVE  Cardinality(Elems(q)) = Len(q)
<1>1. Len(q) \in Nat /\ DOMAIN q = 1 .. Len(q)  OBVIOUS
<1>2. q \in [1 .. Len(q) -> Elems(q)]  BY <1>1 DEF Elems
<1>3. q \in Bijection(1 .. Len(q), Elems(q))
  BY <1>1, <1>2 DEF Bijection, Injection, IsInjective, Surjection, Distinct, Elems
<1>4. ExistsBijection(1 .. Len(q), Elems(q))  BY <1>3 DEF ExistsBijection
<1> QED  BY <1>1, <1>4, FS_CountingElements

\* The library's operator as ThreadList knows it.
LEMMA SameCardinality == \A S : List!Cardinality(S) = Cardinality(S)
  BY DEF List!Cardinality, Cardinality, List!IsFiniteSet, IsFiniteSet

LEMMA ThreadSets ==
  ASSUME NEW T \in SUBSET List!Ids
  PROVE  IsFiniteSet(T) /\ Cardinality(T) \in 0 .. MaxThreads
<1>1. MaxThreads \in Nat /\ 1 \in Int /\ MaxThreads \in Int  BY ListAssumption
<1>2. IsFiniteSet(List!Ids) /\ Cardinality(List!Ids) = MaxThreads
  <2>1. /\ IsFiniteSet(1 .. MaxThreads)
        /\ Cardinality(1 .. MaxThreads) = IF 1 > MaxThreads THEN 0 ELSE MaxThreads - 1 + 1
    BY <1>1, FS_Interval
  <2> QED  BY <1>1, <2>1 DEF List!Ids
<1>3. IsFiniteSet(T) /\ Cardinality(T) <= Cardinality(List!Ids)  BY <1>2, FS_Subset
<1>4. Cardinality(T) \in Nat  BY <1>3, FS_CardinalityType
<1> QED  BY <1>1, <1>2, <1>3, <1>4

LEMMA Numbering ==
  /\ MaxThreads \in Nat /\ List!Caller \in Nat \ List!Ids /\ NoThread # List!Caller
  /\ NoThread \notin List!Ids /\ List!NoAlly \notin List!Ids
  /\ \A t \in List!Ids : t \in Nat /\ t >= 1 /\ t <= MaxThreads
  BY ListAssumption DEF List!Caller, List!Ids, List!NoAlly

\* Taking one thread out of the list.
LEMMA WithoutThread ==
  ASSUME List!ListInv, NEW t \in List!Listed
  PROVE  /\ List!Without(t) \in Seq(List!Ids) /\ Distinct(List!Without(t))
         /\ Elems(List!Without(t)) = List!Listed \ {t}
<1>1. threads \in Seq(List!Ids) /\ Distinct(threads) /\ List!Listed = Elems(threads)
  BY DEF List!ListInv, List!TypeOK, List!ListedInv, Distinct, List!Listed, Elems
<1>2. \E i \in DOMAIN threads : threads[i] = t  BY DEF List!Listed
<1>3. PICK i \in DOMAIN threads : i = List!Place(t) /\ threads[i] = t
  BY <1>2 DEF List!Place
<1>4. PICK new : new = List!Without(t)  OBVIOUS
<1>5. new = SubSeq(threads, 1, i - 1) \o SubSeq(threads, i + 1, Len(threads))
  BY <1>3, <1>4 DEF List!Without
<1>6. new \in Seq(List!Ids) /\ Elems(new) = Elems(threads) \ {threads[i]} /\ Distinct(new)
  BY <1>1, <1>5, CutList
<1> QED  BY <1>1, <1>3, <1>4, <1>6

\* What the calls leave of the lock of the list.
LEMMA ListLock ==
  ASSUME List!TypeOK
  PROVE  /\ threads_lock.value \in 0 .. MaxThreads
         /\ List!Possess(threads_lock, List!Caller).owner = List!Caller
         /\ List!Possess(threads_lock, List!Caller).value = threads_lock.value
         /\ List!Release(threads_lock).owner = NoThread
         /\ List!Release(threads_lock).value = threads_lock.value
         /\ List!CondWait(threads_lock, List!Caller).owner = NoThread
         /\ List!CondWait(threads_lock, List!Caller).value = threads_lock.value
         /\ List!Announced(threads_lock).owner = NoThread
         /\ List!Announced(threads_lock).value = threads_lock.value + 1
         /\ \A l \in {List!Possess(threads_lock, List!Caller), List!Release(threads_lock),
                      List!CondWait(threads_lock, List!Caller)} :
              l \in List!LockType({List!Caller} \cup List!Ids, 0 .. MaxThreads)
         /\ threads_lock.value + 1 \in 0 .. MaxThreads
              => List!Announced(threads_lock)
                   \in List!LockType({List!Caller} \cup List!Ids, 0 .. MaxThreads)
<1> DEFINE T == {List!Caller} \cup List!Ids
           V == 0 .. MaxThreads
<1>1. /\ threads_lock.owner \in T \cup {NoThread} /\ threads_lock.value \in V
      /\ threads_lock.waiting \in SUBSET T
      /\ threads_lock = [owner |-> threads_lock.owner, value |-> threads_lock.value,
                         waiting |-> threads_lock.waiting]
  BY DEF List!TypeOK, List!LockType
<1>2. \A o \in T \cup {NoThread}, n \in V, w \in SUBSET T :
        [owner |-> o, value |-> n, waiting |-> w] \in List!LockType(T, V)
  BY DEF List!LockType
<1>3. List!Possess(threads_lock, List!Caller) = [owner |-> List!Caller, value |-> threads_lock.value,
                                       waiting |-> threads_lock.waiting]
  BY <1>1 DEF List!Possess
<1>4. List!Release(threads_lock) = [owner |-> NoThread, value |-> threads_lock.value,
                               waiting |-> threads_lock.waiting]
  BY <1>1 DEF List!Release
<1>5. List!CondWait(threads_lock, List!Caller) = [owner |-> NoThread, value |-> threads_lock.value,
                                        waiting |-> threads_lock.waiting \cup {List!Caller}]
  BY DEF List!CondWait
<1>6. List!Announced(threads_lock) = [owner |-> NoThread, value |-> threads_lock.value + 1,
                                 waiting |-> {}]
  BY DEF List!Announced, List!TwistBy, List!TwistTo
<1>7. threads_lock.waiting \cup {List!Caller} \in SUBSET T /\ {} \in SUBSET T  BY <1>1
<1>8. /\ List!Possess(threads_lock, List!Caller) \in List!LockType(T, V)
      /\ List!Release(threads_lock) \in List!LockType(T, V)
      /\ List!CondWait(threads_lock, List!Caller) \in List!LockType(T, V)
  <2>1. List!Caller \in T \cup {NoThread} /\ NoThread \in T \cup {NoThread}  OBVIOUS
  <2> HIDE DEF T, V
  <2> QED  BY <1>1, <1>2, <1>3, <1>4, <1>5, <1>7, <2>1
<1>9. threads_lock.value + 1 \in V => List!Announced(threads_lock) \in List!LockType(T, V)
  <2> HIDE DEF T, V
  <2> QED  BY <1>1, <1>2, <1>6, <1>7
<1>10. /\ threads_lock.value \in 0 .. MaxThreads
       /\ List!Possess(threads_lock, List!Caller).owner = List!Caller
       /\ List!Possess(threads_lock, List!Caller).value = threads_lock.value
       /\ List!Release(threads_lock).owner = NoThread
       /\ List!Release(threads_lock).value = threads_lock.value
       /\ List!CondWait(threads_lock, List!Caller).owner = NoThread
       /\ List!CondWait(threads_lock, List!Caller).value = threads_lock.value
       /\ List!Announced(threads_lock).owner = NoThread
       /\ List!Announced(threads_lock).value = threads_lock.value + 1
  BY <1>1, <1>3, <1>4, <1>5, <1>6
<1> QED  BY <1>8, <1>9, <1>10

-----------------------------------------------------------------------------
(* The steps of a thread *)

\* What the invariant says in a form the steps use.
LEMMA ListFacts ==
  ASSUME List!ListInv
  PROVE  /\ threads \in Seq(List!Ids) /\ Distinct(threads) /\ Elems(threads) = List!Listed
         /\ List!Listed \subseteq List!Ids /\ List!MarkedDone \subseteq List!Ids
         /\ List!Joined \subseteq List!Ids
         /\ done \in [List!Ids -> BOOLEAN]
         /\ running \in [List!Ids -> {"no", "probe", "ended", "leaving", "exited", "joined"}]
<1>1. List!TypeOK /\ List!ListedInv  BY DEF List!ListInv
<1>2. List!Listed = List!Extant /\ List!Extant \subseteq List!Ids
  BY <1>1 DEF List!ListedInv, List!Extant
<1>3. Elems(threads) = List!Listed  BY DEF Elems, List!Listed
<1>4. Distinct(threads)  BY <1>1 DEF List!ListedInv, Distinct
<1>5. List!Joined \subseteq List!Ids /\ List!MarkedDone \subseteq List!Listed
  BY DEF List!Joined, List!MarkedDone
<1> QED  BY <1>1, <1>2, <1>3, <1>4, <1>5 DEF List!TypeOK

\* A step of a thread that stays extant, and neither marked nor joined, or both.
LEMMA RunsOn ==
  ASSUME List!ListInv, NEW t \in List!Ids, NEW to, running' = [running EXCEPT ![t] = to],
         \/ running[t] = "probe" /\ to = "ended"
         \/ running[t] = "leaving" /\ to = "exited",
         UNCHANGED <<threads_lock, threads, done, endless, cancelled, caller_pc, ally,
                     count, launched, failed>>
  PROVE  List!ListInv'
<1>1. List!TypeOK'  BY DEF List!ListInv, List!TypeOK
<1>2. ~failed' /\ List!LockInv'  BY DEF List!ListInv, List!LockInv
<1>3. running'[t] = to /\ \A u \in List!Ids \ {t} : running'[u] = running[u]  BY ListFacts
<1>4. List!AllyInv'
  <2>1. List!AllyInv  BY DEF List!ListInv
  <2>2. List!MarkedDone' = List!MarkedDone  BY DEF List!MarkedDone, List!Listed
  <2>3. \A u \in List!Ids : running'[u] = "no" <=> u > launched  BY <1>3, <2>1 DEF List!AllyInv
  <2>4. caller_pc = "created" /\ ally \in List!Ids => running'[ally] \in {"probe", "ended"}
    BY <1>3, <2>1 DEF List!AllyInv
  <2>5. caller_pc = "join" /\ ally \in List!Ids => running'[ally] \notin {"no", "joined"}
    BY <1>3, <2>1 DEF List!AllyInv
  <2>6. caller_pc = "remove" /\ ally \in List!Ids => running'[ally] = "joined"
    BY <1>3, <2>1 DEF List!AllyInv
  <2> QED  BY <2>1, <2>2, <2>3, <2>4, <2>5, <2>6 DEF List!AllyInv
<1>5. List!ListedInv'
  <2>1. List!ListedInv  BY DEF List!ListInv
  <2>2. List!Listed' = List!Listed /\ List!MarkedDone' = List!MarkedDone
    BY DEF List!MarkedDone, List!Listed
  <2>3. List!Joined' = List!Joined  BY <1>3 DEF List!Joined
  <2>4. List!Extant' = List!Extant  BY <1>3 DEF List!Extant
  <2>5. \A u \in List!Listed : running'[u] \in {"leaving", "exited", "joined"}
                          <=> running[u] \in {"leaving", "exited", "joined"}
    BY <1>3, ListFacts
  <2> QED  BY <2>1, <2>2, <2>3, <2>4, <2>5 DEF List!ListedInv
<1> QED  BY <1>1, <1>2, <1>4, <1>5 DEF List!ListInv

LEMMA ReenterStep ==
  ASSUME List!ListInv, NEW t \in List!Ids, List!Reenter(t)
  PROVE  List!ListInv'
<1> USE DEF List!Reenter
<1>1. /\ running[t] = "ended" /\ List!IsFree(threads_lock)
      /\ running' = [running EXCEPT ![t] = "leaving"] /\ done' = [done EXCEPT ![t] = TRUE]
      /\ threads' = <<t>> \o List!Without(t) /\ threads_lock' = List!Announced(threads_lock)
      /\ failed' = (failed \/ t \notin List!Listed)
      /\ UNCHANGED <<endless, cancelled, caller_pc, ally, count, launched>>
  OBVIOUS
<1> USE DEF List!Reenter
<1>2. caller_pc \notin {"launch", "created", "loop", "reap"}
  BY <1>1, Numbering DEF List!ListInv, List!LockInv, List!IsFree
<1>3. t \in List!Listed /\ ~done[t]
  <2>1. t \in List!Extant  BY <1>1, <1>2 DEF List!Extant
  <2> QED  BY <1>1, <2>1 DEF List!ListInv, List!ListedInv
<1>4. /\ running'[t] = "leaving" /\ \A u \in List!Ids \ {t} : running'[u] = running[u]
      /\ done'[t] = TRUE /\ \A u \in List!Ids \ {t} : done'[u] = done[u]
  BY <1>1, ListFacts
<1>5. threads' \in Seq(List!Ids) /\ Distinct(threads') /\ Elems(threads') = List!Listed
  <2>1. PICK rest : rest = List!Without(t)  OBVIOUS
  <2>2. rest \in Seq(List!Ids) /\ Distinct(rest) /\ Elems(rest) = List!Listed \ {t}
    BY <1>3, <2>1, WithoutThread
  <2>3. /\ <<t>> \o rest \in Seq(List!Ids) /\ Elems(<<t>> \o rest) = Elems(rest) \cup {t}
        /\ Distinct(<<t>> \o rest)
    BY <2>2, PushList
  <2>4. threads' = <<t>> \o rest /\ (List!Listed \ {t}) \cup {t} = List!Listed  BY <1>1, <1>3, <2>1
  <2> QED  BY <2>2, <2>3, <2>4
<1>6. List!Listed' = List!Listed  BY <1>5 DEF List!Listed, Elems
<1>7. List!MarkedDone' = List!MarkedDone \cup {t} /\ t \notin List!MarkedDone
  BY <1>3, <1>4, <1>6, ListFacts DEF List!MarkedDone
<1>8. /\ Cardinality(List!MarkedDone') = Cardinality(List!MarkedDone) + 1
      /\ Cardinality(List!MarkedDone') \in 0 .. MaxThreads
  <2>1. List!MarkedDone \in SUBSET List!Ids /\ List!MarkedDone \cup {t} \in SUBSET List!Ids
    BY ListFacts
  <2>2. IsFiniteSet(List!MarkedDone) /\ Cardinality(List!MarkedDone \cup {t}) \in 0 .. MaxThreads
    BY <2>1, ThreadSets
  <2> QED  BY <1>7, <2>2, FS_AddElement
<1>9. /\ threads_lock'.value = Cardinality(List!MarkedDone')
      /\ threads_lock'.value \in 0 .. MaxThreads
      /\ threads_lock' \in List!LockType({List!Caller} \cup List!Ids, 0 .. MaxThreads)
      /\ threads_lock'.owner = NoThread
  <2>1. List!TypeOK /\ threads_lock.value = Cardinality(List!MarkedDone)
    BY SameCardinality DEF List!ListInv, List!ListedInv
  <2> QED  BY <1>1, <1>8, <2>1, ListLock
<1>10. List!TypeOK'
  <2>1. List!TypeOK  BY DEF List!ListInv
  <2>2. /\ running' \in [List!Ids -> {"no", "probe", "ended", "leaving", "exited", "joined"}]
        /\ done' \in [List!Ids -> BOOLEAN]
    BY <1>1, ListFacts
  <2>3. failed' \in BOOLEAN  BY <1>1, <2>1 DEF List!TypeOK
  <2> QED  BY <1>1, <1>5, <1>9, <2>1, <2>2, <2>3 DEF List!TypeOK
<1>11. List!LockInv' /\ ~failed'
  BY <1>1, <1>2, <1>3, <1>9 DEF List!LockInv, List!ListInv
<1>12. List!ListedInv'
  <2>1. List!ListedInv  BY DEF List!ListInv
  <2>2. List!Joined' = List!Joined /\ List!Extant' = List!Extant
    BY <1>1, <1>4 DEF List!Joined, List!Extant
  <2>3. \A u \in List!Listed : done'[u] <=> running'[u] \in {"leaving", "exited", "joined"}
    BY <1>4, <2>1, ListFacts DEF List!ListedInv
  <2>4. \A i, j \in DOMAIN threads' : threads'[i] = threads'[j] => i = j
    BY <1>5 DEF Distinct
  <2> QED  BY <1>1, <1>6, <1>9, <2>1, <2>2, <2>3, <2>4, SameCardinality DEF List!ListedInv
<1>13. List!AllyInv'
  <2>1. List!AllyInv  BY DEF List!ListInv
  <2>2. \A u \in List!Ids : running'[u] = "no" <=> u > launched
    BY <1>1, <1>4, <2>1 DEF List!AllyInv
  <2>3. caller_pc = "join" /\ ally \in List!Ids => running'[ally] \notin {"no", "joined"}
    BY <1>4, <2>1 DEF List!AllyInv
  <2>4. caller_pc = "remove" /\ ally \in List!Ids => running'[ally] = "joined"
    BY <1>1, <1>4, <2>1 DEF List!AllyInv
  <2> QED  BY <1>1, <1>2, <2>1, <2>2, <2>3, <2>4 DEF List!AllyInv
<1> QED  BY <1>10, <1>11, <1>12, <1>13 DEF List!ListInv

-----------------------------------------------------------------------------
(* launch *)

LEMMA LaunchSteps ==
  ASSUME List!ListInv
  PROVE  /\ List!Launch => List!ListInv'
         /\ List!CreateThread => List!ListInv'
         /\ List!ListThread => List!ListInv'
<1>0. List!TypeOK /\ List!LockInv /\ List!ListedInv /\ List!AllyInv /\ ~failed
  BY DEF List!ListInv
<1>1. ASSUME List!Launch PROVE List!ListInv'
  <2> USE DEF List!Launch
  <2>1. List!TypeOK'
    <3>1. launched + 1 \in List!Ids  BY <1>0, <1>1, Numbering DEF List!TypeOK, List!Ids
    <3> QED  BY <1>0, <1>1, <3>1, ListLock DEF List!TypeOK
  <2>2. List!LockInv' /\ ~failed'  BY <1>0, <1>1, ListLock DEF List!LockInv
  <2>3. List!ListedInv'
    <3>1. /\ List!Listed' = List!Listed /\ List!MarkedDone' = List!MarkedDone
          /\ List!Joined' = List!Joined /\ List!Extant' = List!Extant
      BY <1>1 DEF List!Listed, List!MarkedDone, List!Joined, List!Extant
    <3> QED  BY <1>0, <1>1, <3>1, ListLock DEF List!ListedInv
  <2>4. List!AllyInv'
    <3>1. launched + 1 \in List!Ids  BY <1>0, <1>1, Numbering DEF List!TypeOK, List!Ids
    <3> QED  BY <1>0, <1>1, <3>1 DEF List!AllyInv
  <2> QED  BY <2>1, <2>2, <2>3, <2>4 DEF List!ListInv
<1>2. ASSUME List!CreateThread PROVE List!ListInv'
  <2> USE DEF List!CreateThread
  <2>1. ally \in List!Ids /\ ally = launched + 1 /\ launched \in Nat
    BY <1>0, <1>2 DEF List!AllyInv, List!TypeOK
  <2>2. running'[ally] = "probe" /\ \A u \in List!Ids \ {ally} : running'[u] = running[u]
    BY <1>2, <2>1, ListFacts
  <2>3. running[ally] = "no"  BY <1>0, <2>1, Numbering DEF List!AllyInv
  <2>4. List!TypeOK'
    <3>1. running' \in [List!Ids -> {"no", "probe", "ended", "leaving", "exited", "joined"}]
      BY <1>2, <2>1, ListFacts
    <3>2. endless' \subseteq List!Ids  BY <1>0, <1>2, <2>1 DEF List!TypeOK
    <3>3. launched' \in 0 .. MaxThreads  BY <1>2, <2>1, Numbering
    <3> QED  BY <1>0, <1>2, <3>1, <3>2, <3>3 DEF List!TypeOK
  <2>5. List!LockInv' /\ ~failed'  BY <1>0, <1>2 DEF List!LockInv
  <2>6. List!ListedInv'
    <3>1. List!Listed' = List!Listed /\ List!MarkedDone' = List!MarkedDone
      BY <1>2 DEF List!Listed, List!MarkedDone
    <3>2. List!Joined' = List!Joined  BY <2>2, <2>3 DEF List!Joined
    <3>3. ally \notin List!Extant /\ List!Extant' = List!Extant
      BY <1>2, <2>2, <2>3 DEF List!Extant
    <3>4. \A u \in List!Listed : running'[u] = running[u]
      BY <1>0, <2>2, <3>3, ListFacts DEF List!ListedInv
    <3> QED  BY <1>0, <1>2, <3>1, <3>2, <3>3, <3>4 DEF List!ListedInv
  <2>7. List!AllyInv'
    <3>1. \A u \in List!Ids : running'[u] = "no" <=> u > launched'
      BY <1>0, <1>2, <2>1, <2>2, <2>3, Numbering DEF List!AllyInv
    <3> QED  BY <1>2, <2>1, <2>2, <3>1 DEF List!AllyInv
  <2> QED  BY <2>4, <2>5, <2>6, <2>7 DEF List!ListInv
<1>3. ASSUME List!ListThread PROVE List!ListInv'
  <2> USE DEF List!ListThread
  <2>1. ally \in List!Ids /\ ally = launched /\ running[ally] \in {"probe", "ended"}
    BY <1>0, <1>3 DEF List!AllyInv
  <2>2. ally \notin List!Listed /\ List!Extant' = List!Listed \cup {ally}
    <3>1. ally \notin List!Extant  BY <1>3, <2>1 DEF List!Extant
    <3>2. List!Extant' = List!Extant \cup {ally}  BY <1>3, <2>1 DEF List!Extant
    <3> QED  BY <1>0, <3>1, <3>2 DEF List!ListedInv
  <2>3. /\ threads' \in Seq(List!Ids) /\ Distinct(threads')
        /\ Elems(threads') = List!Listed \cup {ally}
    BY <1>3, <2>1, <2>2, ListFacts, PushList
  <2>4. List!Listed' = List!Listed \cup {ally}  BY <2>3 DEF List!Listed, Elems
  <2>5. done'[ally] = FALSE /\ \A u \in List!Ids \ {ally} : done'[u] = done[u]
    BY <1>3, <2>1, ListFacts
  <2>6. List!MarkedDone' = List!MarkedDone
    BY <2>2, <2>4, <2>5, ListFacts DEF List!MarkedDone
  <2>7. List!TypeOK'
    <3>1. done' \in [List!Ids -> BOOLEAN]  BY <1>3, ListFacts
    <3> QED  BY <1>0, <1>3, <2>3, <3>1, ListLock DEF List!TypeOK
  <2>8. List!LockInv' /\ ~failed'  BY <1>0, <1>3, ListLock DEF List!LockInv
  <2>9. List!ListedInv'
    <3>1. List!Joined' = List!Joined  BY <1>3 DEF List!Joined
    <3>2. \A u \in List!Listed' : done'[u] <=> running'[u] \in {"leaving", "exited", "joined"}
      BY <1>0, <1>3, <2>1, <2>2, <2>4, <2>5, ListFacts DEF List!ListedInv
    <3>3. \A i, j \in DOMAIN threads' : threads'[i] = threads'[j] => i = j
      BY <2>3 DEF Distinct
    <3> QED  BY <1>0, <1>3, <2>2, <2>4, <2>6, <3>1, <3>2, <3>3, ListLock DEF List!ListedInv
  <2>10. List!AllyInv'  BY <1>0, <1>3 DEF List!AllyInv
  <2> QED  BY <2>7, <2>8, <2>9, <2>10 DEF List!ListInv
<1> QED  BY <1>1, <1>2, <1>3

-----------------------------------------------------------------------------
(* join, destruct and join_all *)

\* Steps that touch neither the list nor the threads.
LEMMA CallerSteps ==
  ASSUME List!ListInv
  PROVE  /\ \A t \in List!Ids : List!CallJoin(t) \/ List!Destruct(t) => List!ListInv'
         /\ List!CallJoinAll \/ List!AllPossess \/ List!AllWait \/ List!AllReturn => List!ListInv'
<1>0. List!TypeOK /\ List!LockInv /\ List!ListedInv /\ List!AllyInv /\ ~failed
  BY DEF List!ListInv
<1>1. ASSUME NEW t \in List!Ids, List!CallJoin(t) \/ List!Destruct(t) PROVE List!ListInv'
  <2> USE DEF List!CallJoin, List!Destruct
  <2>1. List!TypeOK'  BY <1>0, <1>1 DEF List!TypeOK
  <2>2. List!LockInv' /\ ~failed'  BY <1>0, <1>1 DEF List!LockInv
  <2>3. /\ List!Listed' = List!Listed /\ List!MarkedDone' = List!MarkedDone
        /\ List!Joined' = List!Joined /\ List!Extant' = List!Extant
    BY <1>1 DEF List!Listed, List!MarkedDone, List!Joined, List!Extant
  <2>4. List!ListedInv'  BY <1>0, <1>1, <2>3 DEF List!ListedInv
  <2>5. List!AllyInv'  BY <1>0, <1>1 DEF List!AllyInv
  <2> QED  BY <2>1, <2>2, <2>4, <2>5 DEF List!ListInv
<1>2. ASSUME List!CallJoinAll \/ List!AllPossess \/ List!AllWait \/ List!AllReturn
      PROVE  List!ListInv'
  <2> USE DEF List!CallJoinAll, List!AllPossess, List!AllWait, List!AllReturn
  <2>1. List!TypeOK'
    <3>1. threads_lock' \in List!LockType({List!Caller} \cup List!Ids, 0 .. MaxThreads)
      BY <1>0, <1>2, ListLock DEF List!TypeOK
    <3>2. count' \in 0 .. MaxThreads  BY <1>0, <1>2, Numbering DEF List!TypeOK
    <3> QED  BY <1>0, <1>2, <3>1, <3>2 DEF List!TypeOK
  <2>2. List!LockInv' /\ ~failed'  BY <1>0, <1>2, ListLock DEF List!LockInv
  <2>3. /\ List!Listed' = List!Listed /\ List!MarkedDone' = List!MarkedDone
        /\ List!Joined' = List!Joined /\ List!Extant' = List!Extant
    BY <1>2 DEF List!Listed, List!MarkedDone, List!Joined, List!Extant
  <2>4. List!ListedInv'
    <3>1. threads_lock'.value = threads_lock.value  BY <1>0, <1>2, ListLock
    <3>2. count' <= Cardinality(List!Joined)
      <4>1. Cardinality(List!Joined) \in Nat  BY ThreadSets, ListFacts
      <4> QED  BY <1>0, <1>2, <4>1, SameCardinality DEF List!ListedInv
    <3> QED  BY <1>0, <1>2, <2>3, <3>1, <3>2, SameCardinality DEF List!ListedInv
  <2>5. List!AllyInv'  BY <1>0, <1>2, <2>3 DEF List!AllyInv
  <2> QED  BY <2>1, <2>2, <2>4, <2>5 DEF List!ListInv
<1> QED  BY <1>1, <1>2

\* A thread that is removed: it is joined, and no longer counted.
LEMMA Removed ==
  ASSUME List!ListInv, NEW t \in List!MarkedDone
  PROVE  /\ List!MarkedDone \ {t} \in SUBSET List!Ids /\ IsFiniteSet(List!MarkedDone)
         /\ threads_lock.value - 1 \in 0 .. MaxThreads
         /\ threads_lock.value - 1 = Cardinality(List!MarkedDone \ {t})
<1>1. IsFiniteSet(List!MarkedDone)  BY ThreadSets, ListFacts
<1>2. Cardinality(List!MarkedDone \ {t}) = Cardinality(List!MarkedDone) - 1
  BY <1>1, FS_RemoveElement
<1>3. List!MarkedDone \ {t} \in SUBSET List!Ids  BY ListFacts
<1>4. Cardinality(List!MarkedDone \ {t}) \in 0 .. MaxThreads  BY <1>3, ThreadSets
<1>5. threads_lock.value = Cardinality(List!MarkedDone)  BY SameCardinality DEF List!ListInv, List!ListedInv
<1> QED  BY <1>1, <1>2, <1>3, <1>4, <1>5

LEMMA JoinSteps ==
  ASSUME List!ListInv
  PROVE  /\ List!JoinThread => List!ListInv'
         /\ List!RemoveJoined => List!ListInv'
<1>0. List!TypeOK /\ List!LockInv /\ List!ListedInv /\ List!AllyInv /\ ~failed
  BY DEF List!ListInv
<1>1. ASSUME List!JoinThread PROVE List!ListInv'
  <2> USE DEF List!JoinThread
  <2>1. ally \in List!Ids  BY <1>0, <1>1 DEF List!AllyInv
  <2>2. running'[ally] = "joined" /\ \A u \in List!Ids \ {ally} : running'[u] = running[u]
    BY <1>1, <2>1, ListFacts
  <2>3. List!TypeOK'
    <3>1. running' \in [List!Ids -> {"no", "probe", "ended", "leaving", "exited", "joined"}]
      BY <1>1, <2>1, ListFacts
    <3> QED  BY <1>0, <1>1, <3>1 DEF List!TypeOK
  <2>4. List!LockInv' /\ ~failed'  BY <1>0, <1>1 DEF List!LockInv
  <2>5. List!ListedInv'
    <3>1. List!Listed' = List!Listed /\ List!MarkedDone' = List!MarkedDone
      BY <1>1 DEF List!Listed, List!MarkedDone
    <3>2. List!Extant' = List!Extant  BY <1>1, <2>1, <2>2 DEF List!Extant
    <3>3. \A u \in List!Listed : running'[u] \in {"leaving", "exited", "joined"}
                            <=> running[u] \in {"leaving", "exited", "joined"}
      BY <1>1, <2>1, <2>2, ListFacts
    <3>4. count <= Cardinality(List!Joined')
      <4>1. List!Joined \subseteq List!Joined' /\ List!Joined' \subseteq List!Ids
        BY <1>1, <2>1, <2>2 DEF List!Joined
      <4>2. /\ IsFiniteSet(List!Joined') /\ Cardinality(List!Joined') \in Nat
            /\ Cardinality(List!Joined) \in Nat
        BY <4>1, ThreadSets
      <4>3. Cardinality(List!Joined) <= Cardinality(List!Joined')  BY <4>1, <4>2, FS_Subset
      <4> QED  BY <1>0, <4>2, <4>3, SameCardinality DEF List!ListedInv, List!TypeOK
    <3> QED  BY <1>0, <1>1, <3>1, <3>2, <3>3, <3>4, SameCardinality DEF List!ListedInv
  <2>6. List!AllyInv'
    <3>1. \A u \in List!Ids : running'[u] = "no" <=> u > launched
      BY <1>0, <1>1, <2>1, <2>2 DEF List!AllyInv
    <3> QED  BY <1>0, <1>1, <2>1, <2>2, <3>1 DEF List!AllyInv
  <2> QED  BY <2>3, <2>4, <2>5, <2>6 DEF List!ListInv
<1>2. ASSUME List!RemoveJoined PROVE List!ListInv'
  <2> USE DEF List!RemoveJoined
  <2>1. ally \in List!Ids /\ running[ally] = "joined"  BY <1>0, <1>2 DEF List!AllyInv
  <2>2. ally \in List!Listed /\ done[ally] /\ ally \in List!MarkedDone
    <3>1. ally \in List!Extant  BY <1>2, <2>1 DEF List!Extant
    <3> QED  BY <1>0, <2>1, <3>1 DEF List!ListedInv, List!MarkedDone
  <2>3. threads' \in Seq(List!Ids) /\ Distinct(threads') /\ Elems(threads') = List!Listed \ {ally}
    BY <1>2, <2>2, WithoutThread
  <2>4. List!Listed' = List!Listed \ {ally}  BY <2>3 DEF List!Listed, Elems
  <2>5. List!MarkedDone' = List!MarkedDone \ {ally}  BY <1>2, <2>4 DEF List!MarkedDone
  <2>6. threads_lock' = [owner |-> NoThread, value |-> threads_lock.value - 1,
                         waiting |-> threads_lock.waiting]
    <3>1. threads_lock' = List!Release([threads_lock EXCEPT !.value = @ - 1])
      BY <1>2, <2>2 DEF List!Uncounted
    <3> QED  BY <1>0, <3>1 DEF List!Release, List!TypeOK, List!LockType
  <2>7. threads_lock' \in List!LockType({List!Caller} \cup List!Ids, 0 .. MaxThreads)
    BY <1>0, <2>2, <2>6, Removed DEF List!TypeOK, List!LockType
  <2>8. List!TypeOK'
    <3>1. failed' \in BOOLEAN /\ ~failed'  BY <1>0, <1>2, <2>2
    <3> QED  BY <1>0, <1>2, <2>3, <2>7, <3>1 DEF List!TypeOK
  <2>9. List!LockInv' /\ ~failed'
    <3>1. threads_lock'.owner = NoThread  BY <2>6
    <3>2. caller_pc' = "idle" /\ ~failed'  BY <1>0, <1>2, <2>2
    <3> QED  BY <3>1, <3>2 DEF List!LockInv
  <2>10. List!ListedInv'
    <3>1. List!Joined' = List!Joined /\ List!Extant' = List!Extant \ {ally}
      BY <1>2, <2>1 DEF List!Joined, List!Extant
    <3>2. threads_lock'.value = Cardinality(List!MarkedDone')  BY <2>2, <2>5, <2>6, Removed
    <3>3. \A i, j \in DOMAIN threads' : threads'[i] = threads'[j] => i = j
      BY <2>3 DEF Distinct
    <3> QED  BY <1>0, <1>2, <2>4, <3>1, <3>2, <3>3, SameCardinality DEF List!ListedInv
  <2>11. List!AllyInv'  BY <1>0, <1>2 DEF List!AllyInv
  <2> QED  BY <2>8, <2>9, <2>10, <2>11 DEF List!ListInv
<1> QED  BY <1>1, <1>2

LEMMA JoinAllSteps ==
  ASSUME List!ListInv
  PROVE  /\ List!AllFind => List!ListInv'
         /\ List!AllReap => List!ListInv'
<1>0. List!TypeOK /\ List!LockInv /\ List!ListedInv /\ List!AllyInv /\ ~failed
  BY DEF List!ListInv
<1>1. ASSUME List!AllFind PROVE List!ListInv'
  <2> USE DEF List!AllFind
  <2>1. \E t \in List!Listed : done[t]
    <3>1. List!MarkedDone # {}
      <4>1. SUFFICES ASSUME List!MarkedDone = {} PROVE FALSE  OBVIOUS
      <4>2. threads_lock.value = 0  BY <1>0, <4>1, FS_EmptySet, SameCardinality DEF List!ListedInv
      <4> QED  BY <1>1, <4>2
    <3> QED  BY <3>1 DEF List!MarkedDone
  <2>2. ally' \in List!MarkedDone
    <3>1. \E i \in DOMAIN threads : List!IsFirstDone(i)
      <4>1. PICK n : n = Len(threads)  OBVIOUS
      <4>2. n \in Nat /\ DOMAIN threads = 1 .. n  BY <4>1, ListFacts
      <4> DEFINE Places == {i \in 1 .. n : done[threads[i]]}
      <4>3. Places # {} /\ Places \in SUBSET Nat  BY <2>1, <4>2 DEF List!Listed
      <4>4. PICK i \in Places : \A j \in Places : i <= j
        <5> HIDE DEF Places
        <5> QED  BY <4>3, LeastElement
      <4>5. ASSUME NEW j \in 1 .. i - 1 PROVE ~done[threads[j]]
        <5>1. j \in 1 .. n /\ ~(i <= j)  BY <4>2
        <5> QED  BY <4>4, <5>1
      <4> QED  BY <4>2, <4>5 DEF List!IsFirstDone
    <3>2. PICK i \in DOMAIN threads : ally' = threads[i] /\ List!IsFirstDone(i)
      BY <1>1, <2>1, <3>1 DEF List!FirstDone
    <3>3. threads[i] \in List!Listed /\ done[threads[i]]
      BY <3>2 DEF List!Listed, List!IsFirstDone
    <3> QED  BY <3>2, <3>3 DEF List!MarkedDone
  <2>3. List!TypeOK'
    <3>1. failed' \in BOOLEAN /\ ally' \in List!Ids
      BY <1>0, <1>1, <2>2, ListFacts DEF List!TypeOK
    <3> QED  BY <1>0, <1>1, <3>1 DEF List!TypeOK
  <2>4. List!LockInv' /\ ~failed'  BY <1>0, <1>1, <2>1 DEF List!LockInv
  <2>5. /\ List!Listed' = List!Listed /\ List!MarkedDone' = List!MarkedDone
        /\ List!Joined' = List!Joined /\ List!Extant' = List!Extant
    BY <1>1 DEF List!Listed, List!MarkedDone, List!Joined, List!Extant
  <2>6. List!ListedInv'  BY <1>0, <1>1, <2>5 DEF List!ListedInv
  <2>7. List!AllyInv'  BY <1>0, <1>1, <2>2, <2>5, ListFacts DEF List!AllyInv
  <2> QED  BY <2>3, <2>4, <2>6, <2>7 DEF List!ListInv
<1>2. ASSUME List!AllReap PROVE List!ListInv'
  <2> USE DEF List!AllReap
  <2>1. /\ ally \in List!Ids /\ ally \in List!Listed
        /\ ally \in List!MarkedDone /\ running[ally] = "exited"
    BY <1>0, <1>2, ListFacts DEF List!AllyInv, List!MarkedDone
  <2>2. running'[ally] = "joined" /\ \A u \in List!Ids \ {ally} : running'[u] = running[u]
    BY <1>2, <2>1, ListFacts
  <2>3. threads' \in Seq(List!Ids) /\ Distinct(threads') /\ Elems(threads') = List!Listed \ {ally}
    BY <1>2, <2>1, WithoutThread
  <2>4. List!Listed' = List!Listed \ {ally}  BY <2>3 DEF List!Listed, Elems
  <2>5. List!MarkedDone' = List!MarkedDone \ {ally}  BY <1>2, <2>4 DEF List!MarkedDone
  <2>6. threads_lock' = [owner |-> threads_lock.owner, value |-> threads_lock.value - 1,
                         waiting |-> threads_lock.waiting]
    BY <1>0, <1>2 DEF List!TypeOK, List!LockType
  <2>7. threads_lock' \in List!LockType({List!Caller} \cup List!Ids, 0 .. MaxThreads)
    BY <1>0, <2>1, <2>6, Removed DEF List!TypeOK, List!LockType
  <2>8. List!Joined' = List!Joined \cup {ally} /\ ally \notin List!Joined
    BY <2>1, <2>2 DEF List!Joined
  <2>9. count' <= Cardinality(List!Joined') /\ count' \in 0 .. MaxThreads
    <3>1. List!Joined \in SUBSET List!Ids /\ List!Joined' \in SUBSET List!Ids
      BY DEF List!Joined, List!Ids
    <3>2. /\ IsFiniteSet(List!Joined) /\ Cardinality(List!Joined) \in Nat
          /\ Cardinality(List!Joined') \in 0 .. MaxThreads
      BY <3>1, ThreadSets
    <3>3. Cardinality(List!Joined') = Cardinality(List!Joined) + 1  BY <2>8, <3>2, FS_AddElement
    <3>4. count \in Nat /\ count <= Cardinality(List!Joined) /\ count' = count + 1
      BY <1>0, <1>2, SameCardinality DEF List!TypeOK, List!ListedInv
    <3> QED  BY <3>2, <3>3, <3>4, Numbering
  <2>10. List!TypeOK'
    <3>1. running' \in [List!Ids -> {"no", "probe", "ended", "leaving", "exited", "joined"}]
      BY <1>2, <2>1, ListFacts
    <3> QED  BY <1>0, <1>2, <2>3, <2>7, <2>9, <3>1 DEF List!TypeOK
  <2>11. List!LockInv' /\ ~failed'  BY <1>0, <1>2, <2>6 DEF List!LockInv
  <2>12. List!ListedInv'
    <3>1. List!Extant' = List!Extant \ {ally}  BY <1>2, <2>1, <2>2 DEF List!Extant
    <3>2. threads_lock'.value = Cardinality(List!MarkedDone')  BY <2>1, <2>5, <2>6, Removed
    <3>3. \A i, j \in DOMAIN threads' : threads'[i] = threads'[j] => i = j
      BY <2>3 DEF Distinct
    <3>4. \A u \in List!Listed' : done'[u] <=> running'[u] \in {"leaving", "exited", "joined"}
      BY <1>0, <1>2, <2>2, <2>4, ListFacts DEF List!ListedInv
    <3> QED  BY <1>0, <2>4, <2>9, <3>1, <3>2, <3>3, <3>4, SameCardinality DEF List!ListedInv
  <2>13. List!AllyInv'
    <3>1. \A u \in List!Ids : running'[u] = "no" <=> u > launched
      BY <1>0, <1>2, <2>1, <2>2 DEF List!AllyInv
    <3> QED  BY <1>2, <3>1 DEF List!AllyInv
  <2> QED  BY <2>10, <2>11, <2>12, <2>13 DEF List!ListInv
<1> QED  BY <1>1, <1>2

LEMMA ListInit == List!Init => List!ListInv
<1> SUFFICES ASSUME List!Init PROVE List!ListInv  OBVIOUS
<1>1. /\ threads_lock = [owner |-> NoThread, value |-> 0, waiting |-> {}] /\ threads = <<>>
      /\ done = [t \in List!Ids |-> FALSE] /\ running = [t \in List!Ids |-> "no"]
      /\ endless = {} /\ cancelled = {} /\ caller_pc = "idle" /\ ally = List!NoAlly
      /\ count = 0 /\ launched = 0 /\ failed = FALSE
  BY DEF List!Init, List!NewLock
<1>2. List!TypeOK
  <2>1. threads_lock \in List!LockType({List!Caller} \cup List!Ids, 0 .. MaxThreads)
    BY <1>1, Numbering DEF List!LockType
  <2>2. threads \in Seq(List!Ids) /\ 0 \in 0 .. MaxThreads  BY <1>1, Numbering
  <2> QED  BY <1>1, <2>1, <2>2 DEF List!TypeOK
<1>3. List!Listed = {} /\ List!MarkedDone = {} /\ List!Joined = {} /\ List!Extant = {}
  BY <1>1 DEF List!Listed, List!MarkedDone, List!Joined, List!Extant
<1>4. List!ListedInv  BY <1>1, <1>3, FS_EmptySet, SameCardinality DEF List!ListedInv
<1>5. List!AllyInv  BY <1>1, Numbering DEF List!AllyInv
<1> QED  BY <1>1, <1>2, <1>4, <1>5 DEF List!ListInv, List!LockInv

LEMMA ListStep == List!ListInv /\ [List!Next]_(List!vars) => List!ListInv'
<1> SUFFICES ASSUME List!ListInv, [List!Next]_(List!vars) PROVE List!ListInv'  OBVIOUS
<1>1. ASSUME NEW t \in List!Ids, List!ProbeEnds(t) \/ List!Reenter(t) \/ List!Exit(t)
      PROVE  List!ListInv'
  BY <1>1, RunsOn, ReenterStep DEF List!ProbeEnds, List!Exit
<1>2. ASSUME UNCHANGED List!vars PROVE List!ListInv'
  BY <1>2 DEF List!vars, List!ListInv, List!TypeOK, List!LockInv, List!ListedInv, List!AllyInv,
              List!Listed, List!MarkedDone, List!Joined, List!Extant
<1> QED  BY <1>1, <1>2, LaunchSteps, CallerSteps, JoinSteps, JoinAllSteps DEF List!Next

LEMMA ListCounted == List!ListInv => List!ThreadsCounted
<1> SUFFICES ASSUME List!ListInv PROVE List!ThreadsCounted  OBVIOUS
<1>1. Cardinality(List!Listed) = Len(threads)  BY ListFacts, DistinctSize
<1>2. ASSUME List!IsFree(threads_lock)
      PROVE  List!Extant = {t \in List!Ids : \/ running[t] \notin {"no", "joined"}
                                             \/ caller_pc = "remove" /\ t = ally}
  BY <1>2, Numbering DEF List!ListInv, List!LockInv, List!IsFree, List!Extant
<1> QED  BY <1>1, <1>2, SameCardinality DEF List!ListInv, List!ListedInv, List!ThreadsCounted, List!MarkedDone
-----------------------------------------------------------------------------
(* The two parts together. *)

LEMMA PoolPart == MCSpec => Spec
<1>1. MCInit => Init  BY DEF MCInit
<1>2. [MCNext]_<<part, vars, threadVars>> => [Next]_vars  BY DEF MCNext
<1> QED  BY <1>1, <1>2, PTL DEF MCSpec, Spec

LEMMA ListInvariant == MCSpec => []List!ListInv
<1>1. MCInit => List!ListInv  BY ListInit DEF MCInit
<1>2. List!ListInv /\ [MCNext]_<<part, vars, threadVars>> => List!ListInv'
  <2>1. UNCHANGED threadVars => UNCHANGED List!vars  BY DEF threadVars, List!vars
  <2> QED  BY <2>1, ListStep DEF MCNext
<1> QED  BY <1>1, <1>2, PTL DEF MCSpec

\* The inductive invariants of the pool and of the thread list, with their types, for
\* every number of threads and spaces.
THEOREM LibraryTypes == MCSpec => []TypesOK
<1> QED  BY PoolPart, InductiveInvariant, ListInvariant, PTL DEF TypesOK

\* launch, join, destruct and join_all of yarn.c: no call fails, and whenever the lock of the
\* list is free, the list has each extant thread once and the lock counts those that have
\* announced their end, however the ends and the joins of any number of threads interleave.
THEOREM ListAndCountAgree == MCSpec => []ThreadsCounted
<1>1. List!ListInv => ThreadsCounted  BY ListCounted DEF ThreadsCounted
<1> QED  BY <1>1, ListInvariant, PTL
=============================================================================
