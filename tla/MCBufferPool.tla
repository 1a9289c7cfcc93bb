---------------------------- MODULE MCBufferPool ----------------------------
(* The users of the locks of yarn.c that are libraries themselves: a buffer   *)
(* pool, with two getting and two dropping threads and room for one space, for*)
(* two, or without a limit, and the list of threads.  A behaviour is one of   *)
(* either, which the first state chooses; the other stays in its first state. *)
EXTENDS BufferPool

CONSTANT MaxThreads

ASSUME ListAssumption == MaxThreads \in Nat /\ NoThread \notin 1 .. MaxThreads + 1

VARIABLES part, threads_lock, threads, done, running, endless, cancelled, caller_pc, ally,
          count, launched, failed

threadVars == <<threads_lock, threads, done, running, endless, cancelled, caller_pc, ally,
                count, launched, failed>>

PoolLimits == {1, 2, -1}

List == INSTANCE ThreadList WITH pc <- caller_pc

MCInit == /\ part \in {"pool", "threads"}
          /\ part = "threads" => created = 1
          /\ Init /\ List!Init

MCNext == \/ part = "pool" /\ Next /\ UNCHANGED <<part, threadVars>>
          \/ part = "threads" /\ List!Next /\ UNCHANGED <<part, vars>>

MCSpec == MCInit /\ [][MCNext]_<<part, vars, threadVars>>

\* The types of the variables of the pool and of the thread list, with the
\* inductive invariants: the place of each thread is the place of its locks, and
\* the value of each lock of the pool is the number of users it has been told of,
\* that of the list the number of marked threads.
TypesOK == IInv /\ List!ListInv

\* The thread list and its count agree (ThreadList).
ThreadsCounted == List!ThreadsCounted
=============================================================================
