----------------------------- MODULE ThreadList -----------------------------
(* The threads of yarn.c: launch, join, destruct and join_all on one side,    *)
(* ignition and reenter in each thread on the other.  The list of extant      *)
(* threads is guarded by threads_lock, whose value counts the threads that    *)
(* have announced their end and are not joined.  As in dst_decoder.c and as   *)
(* yarn.h asks, one caller joins every thread it launched once, and calls     *)
(* join_all only when all threads that are left end by themselves.            *)
(*                                                                            *)
(* What a thread or the caller does between possess and release touches only  *)
(* what the lock guards, so it is one step, except where another thread can   *)
(* see the middle: a thread runs before launch has listed it, and join_all    *)
(* waits for a thread to exit with the lock held.                             *)
EXTENDS YarnLock, Sequences, FiniteSets

CONSTANT MaxThreads   \* bound: threads launched

VARIABLES threads_lock,
          threads,     \* the list, head first
          done,        \* done[t]: th->done
          running,     \* running[t]: how far thread t is
          endless,     \* the threads whose probe returns only when cancelled
          cancelled,   \* the threads pthread_cancel was called for
          pc, ally,    \* where the caller is, and the thread it works on
          count,       \* join_all's count of joined threads
          launched,    \* threads launched so far
          failed       \* whether fail() was called

vars == <<threads_lock, threads, done, running, endless, cancelled, pc, ally, count, launched,
          failed>>

Ids == 1 .. MaxThreads
NoAlly == 0
Caller == MaxThreads + 1   \* the thread that launches and joins
Listed == {threads[i] : i \in DOMAIN threads}

TypeOK == /\ threads_lock \in LockType({Caller} \cup Ids, 0 .. MaxThreads)
          /\ threads \in Seq(Ids)
          /\ done \in [Ids -> BOOLEAN]
          /\ running \in [Ids -> {"no", "probe", "ended", "leaving", "exited", "joined"}]
          /\ endless \subseteq Ids /\ cancelled \subseteq Ids
          /\ pc \in {"idle", "launch", "created", "join", "remove", "all", "loop", "wait", "reap"}
          /\ ally \in Ids \cup {NoAlly}
          /\ count \in 0 .. MaxThreads
          /\ launched \in 0 .. MaxThreads
          /\ failed \in BOOLEAN

Init == /\ threads_lock = NewLock(0)
        /\ threads = <<>>
        /\ done = [t \in Ids |-> FALSE]
        /\ running = [t \in Ids |-> "no"]
        /\ endless = {} /\ cancelled = {}
        /\ pc = "idle" /\ ally = NoAlly
        /\ count = 0
        /\ launched = 0
        /\ failed = FALSE

\* Where thread t is found in the list, and the list without it.
Place(t) == CHOOSE i \in DOMAIN threads : threads[i] = t
Without(t) == IF t \in Listed
              THEN SubSeq(threads, 1, Place(t) - 1) \o SubSeq(threads, Place(t) + 1, Len(threads))
              ELSE threads

-----------------------------------------------------------------------------
(* A thread *)

\* The probe returns, or the thread is cancelled; the cleanup handler follows.
ProbeEnds(t) == /\ running[t] = "probe"
                /\ t \in endless => t \in cancelled
                /\ running' = [running EXCEPT ![t] = "ended"]
                /\ UNCHANGED <<threads_lock, threads, done, endless, cancelled, pc, ally, count,
                               launched, failed>>

\* Mutant: the thread announces its end without a change of the count.
Announced_NotCounted(bolt) == TwistBy(bolt, 0)

\* twist(&(threads_lock), BY, +1)
Announced(bolt) == TwistBy(bolt, 1)

\* reenter: the thread marks itself as done, moves to the head of the list and
\* tells join_all; it fails when it is not in the list.
Reenter(t) == /\ running[t] = "ended"
              /\ IsFree(threads_lock)
              /\ failed' = (failed \/ t \notin Listed)
              /\ done' = [done EXCEPT ![t] = TRUE]
              /\ threads' = <<t>> \o Without(t)
              /\ threads_lock' = Announced(threads_lock)
              /\ running' = [running EXCEPT ![t] = "leaving"]
              /\ UNCHANGED <<endless, cancelled, pc, ally, count, launched>>

\* ignition returns.
Exit(t) == /\ running[t] = "leaving"
           /\ running' = [running EXCEPT ![t] = "exited"]
           /\ UNCHANGED <<threads_lock, threads, done, endless, cancelled, pc, ally, count,
                          launched, failed>>

-----------------------------------------------------------------------------
(* launch *)

Launch == /\ pc = "idle"
          /\ launched < MaxThreads
          /\ IsFree(threads_lock)
          /\ threads_lock' = Possess(threads_lock, Caller)
          /\ ally' = launched + 1
          /\ pc' = "launch"
          /\ UNCHANGED <<threads, done, running, endless, cancelled, count, launched, failed>>

\* pthread_create: the thread runs from here on.
CreateThread == /\ pc = "launch"
                /\ running' = [running EXCEPT ![ally] = "probe"]
                /\ endless' \in {endless, endless \cup {ally}}
                /\ launched' = ally
                /\ pc' = "created"
                /\ UNCHANGED <<threads_lock, threads, done, cancelled, ally, count, failed>>

ListThread == /\ pc = "created"
              /\ done' = [done EXCEPT ![ally] = FALSE]
              /\ threads' = <<ally>> \o threads
              /\ threads_lock' = Release(threads_lock)
              /\ pc' = "idle" /\ ally' = NoAlly
              /\ UNCHANGED <<running, endless, cancelled, count, launched, failed>>

-----------------------------------------------------------------------------
(* join and destruct *)

\* The caller joins a thread it launched, which ends.
CallJoin(t) == /\ pc = "idle"
               /\ running[t] \notin {"no", "joined"}
               /\ t \in endless => t \in cancelled
               /\ ally' = t
               /\ pc' = "join"
               /\ UNCHANGED <<threads_lock, threads, done, running, endless, cancelled, count,
                              launched, failed>>

\* destruct: pthread_cancel, and join.
Destruct(t) == /\ pc = "idle"
               /\ running[t] \notin {"no", "joined"}
               /\ cancelled' = cancelled \cup {t}
               /\ ally' = t
               /\ pc' = "join"
               /\ UNCHANGED <<threads_lock, threads, done, running, endless, count, launched, failed>>

\* pthread_join(ally->id, NULL)
JoinThread == /\ pc = "join"
              /\ running[ally] = "exited"
              /\ running' = [running EXCEPT ![ally] = "joined"]
              /\ pc' = "remove"
              /\ UNCHANGED <<threads_lock, threads, done, endless, cancelled, ally, count, launched,
                             failed>>

\* Mutant: join does not take back what its thread announced.
Uncounted_Never(bolt, t) == Release(bolt)

\* The count without a thread that is removed.
Uncounted(bolt, t) == IF done[t] THEN Release([bolt EXCEPT !.value = @ - 1]) ELSE Release(bolt)

RemoveJoined == /\ pc = "remove"
                /\ IsFree(threads_lock)
                /\ failed' = (failed \/ ally \notin Listed)
                /\ threads_lock' = Uncounted(threads_lock, ally)
                /\ threads' = Without(ally)
                /\ pc' = "idle" /\ ally' = NoAlly
                /\ UNCHANGED <<done, running, endless, cancelled, count, launched>>

-----------------------------------------------------------------------------
(* join_all *)

CallJoinAll == /\ pc = "idle"
               /\ \A t \in Listed \cap endless : t \in cancelled
               /\ count' = 0
               /\ pc' = "all"
               /\ UNCHANGED <<threads_lock, threads, done, running, endless, cancelled, ally,
                              launched, failed>>

\* possess(&(threads_lock)), and the end of a wait.
AllPossess == /\ pc \in {"all", "wait"}
              /\ Caller \notin threads_lock.waiting
              /\ IsFree(threads_lock)
              /\ threads_lock' = Possess(threads_lock, Caller)
              /\ pc' = "loop"
              /\ UNCHANGED <<threads, done, running, endless, cancelled, ally, count, launched, failed>>

\* wait_for(&(threads_lock), NOT_TO_BE, 0)
AllWait == /\ pc = "loop"
           /\ threads # <<>>
           /\ threads_lock.value = 0
           /\ threads_lock' = CondWait(threads_lock, Caller)
           /\ pc' = "wait"
           /\ UNCHANGED <<threads, done, running, endless, cancelled, ally, count, launched, failed>>

\* The first thread in the list that is marked done.
IsFirstDone(i) == done[threads[i]] /\ \A j \in 1 .. i - 1 : ~done[threads[j]]
FirstDone == IF \E t \in Listed : done[t]
             THEN threads[CHOOSE i \in DOMAIN threads : IsFirstDone(i)]
             ELSE NoAlly

AllFind == /\ pc = "loop"
           /\ threads # <<>>
           /\ threads_lock.value # 0
           /\ failed' = (failed \/ \A t \in Listed : ~done[t])
           /\ ally' = FirstDone
           /\ pc' = "reap"
           /\ UNCHANGED <<threads_lock, threads, done, running, endless, cancelled, count, launched>>

\* The thread is joined and removed; the lock is held all the time.
AllReap == /\ pc = "reap"
           /\ running[ally] = "exited"
           /\ running' = [running EXCEPT ![ally] = "joined"]
           /\ threads_lock' = [threads_lock EXCEPT !.value = @ - 1]
           /\ threads' = Without(ally)
           /\ count' = count + 1
           /\ pc' = "loop" /\ ally' = NoAlly
           /\ UNCHANGED <<done, endless, cancelled, launched, failed>>

AllReturn == /\ pc = "loop"
             /\ threads = <<>>
             /\ threads_lock' = Release(threads_lock)
             /\ pc' = "idle"
             /\ UNCHANGED <<threads, done, running, endless, cancelled, ally, count, launched, failed>>

Next == /\ ~failed
        /\ \/ \E t \in Ids : \/ ProbeEnds(t) \/ Reenter(t) \/ Exit(t)
                             \/ CallJoin(t) \/ Destruct(t)
           \/ Launch \/ CreateThread \/ ListThread
           \/ JoinThread \/ RemoveJoined
           \/ CallJoinAll \/ AllPossess \/ AllWait \/ AllFind \/ AllReap \/ AllReturn

-----------------------------------------------------------------------------
(* Properties *)

\* No call fails, and whenever the lock is free the list has exactly the threads
\* that were launched and are not removed, and its value is the number of those
\* that have announced their end: a thread that is joined before join_all starts,
\* while it waits, or after it has announced its end is counted once.
ThreadsCounted ==
  /\ ~failed
  /\ IsFree(threads_lock) =>
       /\ threads_lock.value = Cardinality({t \in Listed : done[t]})
       /\ Cardinality(Listed) = Len(threads)
       /\ Listed = {t \in Ids : \/ running[t] \notin {"no", "joined"}
                                \/ pc = "remove" /\ t = ally}
       /\ \A t \in Listed : done[t] <=> running[t] \in {"leaving", "exited", "joined"}

-----------------------------------------------------------------------------
(* The inductive invariant *)

\* The caller has the lock from launch's possess to its release, and in join_all
\* while it does not wait.
LockInv == threads_lock.owner = IF pc \in {"launch", "created", "loop", "reap"}
                                THEN Caller ELSE NoThread

\* The threads that are listed: a new one is not yet, a joined one still is.
Extant == {t \in Ids : \/ running[t] \notin {"no", "joined"} /\ ~(pc = "created" /\ t = ally)
                       \/ pc = "remove" /\ t = ally}

MarkedDone == {t \in Listed : done[t]}
Joined == {t \in Ids : running[t] = "joined"}

\* Also while the lock is held: each extant thread is listed once, and the value
\* of the lock is the number of those that are marked.
ListedInv == /\ \A i, j \in DOMAIN threads : threads[i] = threads[j] => i = j
             /\ Listed = Extant
             /\ \A t \in Listed : done[t] <=> running[t] \in {"leaving", "exited", "joined"}
             /\ threads_lock.value = Cardinality(MarkedDone)
             /\ count <= Cardinality(Joined)

\* The thread the caller works on.
AllyInv == /\ \A t \in Ids : running[t] = "no" <=> t > launched
           /\ pc = "launch" => ally = launched + 1
           /\ pc = "created" => ally = launched /\ running[ally] \in {"probe", "ended"}
           /\ pc = "join" => running[ally] \notin {"no", "joined"}
           /\ pc = "remove" => running[ally] = "joined"
           /\ pc = "reap" => ally \in MarkedDone
           /\ pc \in {"launch", "created", "join", "remove", "reap"} => ally \in Ids

ListInv == TypeOK /\ ~failed /\ LockInv /\ ListedInv /\ AllyInv
=============================================================================
