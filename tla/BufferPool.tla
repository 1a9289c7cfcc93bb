----------------------------- MODULE BufferPool -----------------------------
(* buffer_pool.c, one action per call on a yarn lock.  A pool keeps its free  *)
(* spaces in a stack guarded by the lock "have", whose value is the length of *)
(* the stack; each space has a lock "use" of its own, whose value counts its  *)
(* users.  buffer_pool_get_space takes have and then the use lock of the      *)
(* space it pulls, buffer_pool_drop_space takes the use lock and then have.   *)
(*                                                                            *)
(* As in dst_decoder.c, the threads that get spaces (Getters) are not the     *)
(* ones that drop them (Droppers): the main thread gets an input space and a  *)
(* decode thread drops it, a decode thread gets an output space and the write *)
(* thread drops it.  refs counts the references the program holds and has not *)
(* begun to drop; it is the callers' discipline, not state of the pool.       *)
EXTENDS YarnLock, Sequences, FiniteSets

CONSTANTS Getters, Droppers,
          Limits,      \* the limits a pool is created with; -1 is "no limit"
          MaxSpaces,   \* bound: spaces a pool makes
          MaxUse       \* bound: a space with this many users is not shared further

ASSUME PoolAssumption == /\ Limits \subseteq {-1} \cup (Nat \ {0})
                         /\ MaxSpaces \in Nat
                         /\ \A n \in Limits : n <= MaxSpaces
                         /\ MaxUse \in Nat \ {0}
                         /\ Getters \cap Droppers = {}
                         /\ IsFiniteSet(Getters) /\ IsFiniteSet(Droppers)
                         /\ NoThread \notin Getters \cup Droppers

VARIABLES have,     \* pool->have
          list,     \* the stack from pool->head, top first
          limit,    \* pool->limit
          made,     \* pool->made
          use,      \* use[s]: the lock of space s
          pc, sp,   \* per thread: where it is, and the space it works on
          refs,     \* refs[s]: references to s held by the program
          created   \* the limit given to buffer_pool_create

poolVars == <<have, list, limit, made, use>>
vars == <<have, list, limit, made, use, pc, sp, refs, created>>

Threads == Getters \cup Droppers
Spaces == 1..MaxSpaces
NoSpace == 0

\* The spaces that are linked in the free list.
Listed == {list[i] : i \in DOMAIN list}

GetLabels  == {"check", "wait", "pull", "take", "took", "make"}
DropLabels == {"drop", "test", "push", "dropped", "share", "shared"}

TypeOK == /\ have \in LockType(Threads, 0..MaxSpaces)
          /\ list \in Seq(Spaces)
          /\ limit \in -1..MaxSpaces
          /\ made \in 0..MaxSpaces
          /\ use \in [Spaces -> LockType(Threads, Nat)]
          /\ pc \in [Threads -> {"idle"} \cup GetLabels \cup DropLabels]
          /\ \A t \in Getters : pc[t] \notin DropLabels
          /\ \A t \in Droppers : pc[t] \notin GetLabels
          /\ sp \in [Threads -> Spaces \cup {NoSpace}]
          /\ refs \in [Spaces -> Nat]
          /\ created \in Limits

-----------------------------------------------------------------------------
\* buffer_pool_create(pool, size, n)
Create(n) == /\ have' = NewLock(0)
             /\ list' = <<>>
             /\ limit' = n
             /\ made' = 0
             /\ created' = n

Init == /\ created \in Limits
        /\ have = NewLock(0)
        /\ list = <<>>
        /\ limit = created
        /\ made = 0
        /\ use = [s \in Spaces |-> NewLock(0)]
        /\ pc = [t \in Threads |-> "idle"]
        /\ sp = [t \in Threads |-> NoSpace]
        /\ refs = [s \in Spaces |-> 0]

-----------------------------------------------------------------------------
(* buffer_pool_get_space *)

\* Bound: a pool without a limit is asked for no more than MaxSpaces spaces.
WithinMaxSpaces == limit # -1 \/ list # <<>> \/ made < MaxSpaces

\* possess(pool->have)
GetPossess(t) == /\ pc[t] = "idle"
                 /\ WithinMaxSpaces
                 /\ IsFree(have)
                 /\ have' = Possess(have, t)
                 /\ pc' = [pc EXCEPT ![t] = "check"]
                 /\ UNCHANGED <<list, limit, made, use, sp, refs, created>>

\* Mutant: a getter does not wait for a space to come back.
MustWait_Never == FALSE

MustWait == limit = 0 /\ have.value = 0

\* wait_for(pool->have, NOT_TO_BE, 0): nothing is free and no more can be made.
GetWait(t) == /\ pc[t] = "check"
              /\ MustWait
              /\ have' = CondWait(have, t)
              /\ pc' = [pc EXCEPT ![t] = "wait"]
              /\ UNCHANGED <<list, limit, made, use, sp, refs, created>>

\* The wait is over; the caller tests its condition again.
GetWake(t) == /\ pc[t] = "wait"
              /\ t \notin have.waiting
              /\ IsFree(have)
              /\ have' = Possess(have, t)
              /\ pc' = [pc EXCEPT ![t] = "check"]
              /\ UNCHANGED <<list, limit, made, use, sp, refs, created>>

\* space = pool->head
GetPull(t) == /\ pc[t] = "check"
              /\ ~MustWait
              /\ list # <<>>
              /\ sp' = [sp EXCEPT ![t] = Head(list)]
              /\ pc' = [pc EXCEPT ![t] = "pull"]
              /\ UNCHANGED <<have, list, limit, made, use, refs, created>>

\* possess(space->use), with pool->have still held
GetPossessUse(t) == LET s == sp[t] IN
                    /\ pc[t] = "pull"
                    /\ IsFree(use[s])
                    /\ use' = [use EXCEPT ![s] = Possess(@, t)]
                    /\ pc' = [pc EXCEPT ![t] = "take"]
                    /\ UNCHANGED <<have, list, limit, made, sp, refs, created>>

\* Mutant: the space is handed out but stays in the list.
GetTake_KeepListed(t) == /\ pc[t] = "take"
                         /\ have' = TwistBy(have, -1)
                         /\ pc' = [pc EXCEPT ![t] = "took"]
                         /\ UNCHANGED <<list, limit, made, use, sp, refs, created>>

\* Mutant: the value of pool->have is not decremented.
GetTake_NoTwist(t) == /\ pc[t] = "take"
                      /\ list' = Tail(list)
                      /\ have' = Release(have)
                      /\ pc' = [pc EXCEPT ![t] = "took"]
                      /\ UNCHANGED <<limit, made, use, sp, refs, created>>

\* pool->head = space->next; twist(pool->have, BY, -1)
GetTake(t) == /\ pc[t] = "take"
              /\ list' = Tail(list)
              /\ have' = TwistBy(have, -1)
              /\ pc' = [pc EXCEPT ![t] = "took"]
              /\ UNCHANGED <<limit, made, use, sp, refs, created>>

\* twist(space->use, TO, 1); return space
GetReturn(t) == LET s == sp[t] IN
                /\ pc[t] = "took"
                /\ use' = [use EXCEPT ![s] = TwistTo(@, 1)]
                /\ refs' = [refs EXCEPT ![s] = @ + 1]
                /\ sp' = [sp EXCEPT ![t] = NoSpace]
                /\ pc' = [pc EXCEPT ![t] = "idle"]
                /\ UNCHANGED <<have, list, limit, made, created>>

\* Nothing is free: count one more space, then release(pool->have).
GetMake(t) == /\ pc[t] = "check"
              /\ ~MustWait
              /\ list = <<>>
              /\ limit' = IF limit > 0 THEN limit - 1 ELSE limit
              /\ made' = made + 1
              /\ have' = Release(have)
              /\ sp' = [sp EXCEPT ![t] = made + 1]
              /\ pc' = [pc EXCEPT ![t] = "make"]
              /\ UNCHANGED <<list, use, refs, created>>

\* space = malloc(...); space->use = new_lock(1); return space
GetMade(t) == LET s == sp[t] IN
              /\ pc[t] = "make"
              /\ use' = [use EXCEPT ![s] = NewLock(1)]
              /\ refs' = [refs EXCEPT ![s] = @ + 1]
              /\ sp' = [sp EXCEPT ![t] = NoSpace]
              /\ pc' = [pc EXCEPT ![t] = "idle"]
              /\ UNCHANGED <<have, list, limit, made, created>>
-----------------------------------------------------------------------------
(* buffer_pool_use_space *)

\* The call: t uses one of the program's references until it returns.
ShareCall(t) == \E s \in Spaces :
                   /\ pc[t] = "idle"
                   /\ refs[s] > 0
                   /\ use[s].value < MaxUse
                   /\ refs' = [refs EXCEPT ![s] = @ - 1]
                   /\ sp' = [sp EXCEPT ![t] = s]
                   /\ pc' = [pc EXCEPT ![t] = "share"]
                   /\ UNCHANGED <<have, list, limit, made, use, created>>

\* possess(space->use)
SharePossess(t) == LET s == sp[t] IN
                   /\ pc[t] = "share"
                   /\ IsFree(use[s])
                   /\ use' = [use EXCEPT ![s] = Possess(@, t)]
                   /\ pc' = [pc EXCEPT ![t] = "shared"]
                   /\ UNCHANGED <<have, list, limit, made, sp, refs, created>>

\* twist(space->use, BY, +1)
ShareReturn(t) == LET s == sp[t] IN
                  /\ pc[t] = "shared"
                  /\ use' = [use EXCEPT ![s] = TwistBy(@, 1)]
                  /\ refs' = [refs EXCEPT ![s] = @ + 2]
                  /\ sp' = [sp EXCEPT ![t] = NoSpace]
                  /\ pc' = [pc EXCEPT ![t] = "idle"]
                  /\ UNCHANGED <<have, list, limit, made, created>>

-----------------------------------------------------------------------------
(* buffer_pool_drop_space *)

\* The call: one reference to s is given up.
DropCall(t) == \E s \in Spaces :
                  /\ pc[t] = "idle"
                  /\ refs[s] > 0
                  /\ refs' = [refs EXCEPT ![s] = @ - 1]
                  /\ sp' = [sp EXCEPT ![t] = s]
                  /\ pc' = [pc EXCEPT ![t] = "drop"]
                  /\ UNCHANGED <<have, list, limit, made, use, created>>

\* possess(space->use)
DropPossess(t) == LET s == sp[t] IN
                  /\ pc[t] = "drop"
                  /\ IsFree(use[s])
                  /\ use' = [use EXCEPT ![s] = Possess(@, t)]
                  /\ pc' = [pc EXCEPT ![t] = "test"]
                  /\ UNCHANGED <<have, list, limit, made, sp, refs, created>>

\* use = peek_lock(space->use): only the last user returns the space.
LastUser(s) == use[s].value = 1

\* The last user takes pool->have, with space->use still held.
DropPossessHave(t) == /\ pc[t] = "test"
                      /\ LastUser(sp[t])
                      /\ IsFree(have)
                      /\ have' = Possess(have, t)
                      /\ pc' = [pc EXCEPT ![t] = "push"]
                      /\ UNCHANGED <<list, limit, made, use, sp, refs, created>>

\* Mutant: the value is set and the mutex released, without the broadcast.
DropPush_NoBroadcast(t) == /\ pc[t] = "push"
                           /\ list' = <<sp[t]>> \o list
                           /\ have' = [Release(have) EXCEPT !.value = @ + 1]
                           /\ pc' = [pc EXCEPT ![t] = "dropped"]
                           /\ UNCHANGED <<limit, made, use, sp, refs, created>>

\* space->next = pool->head; pool->head = space; twist(pool->have, BY, +1)
DropPush(t) == /\ pc[t] = "push"
               /\ list' = <<sp[t]>> \o list
               /\ have' = TwistBy(have, 1)
               /\ pc' = [pc EXCEPT ![t] = "dropped"]
               /\ UNCHANGED <<limit, made, use, sp, refs, created>>

\* twist(space->use, BY, -1), at once when others still use the space.
DropReturn(t) == LET s == sp[t] IN
                 /\ pc[t] = "dropped" \/ (pc[t] = "test" /\ ~LastUser(s))
                 /\ use' = [use EXCEPT ![s] = TwistBy(@, -1)]
                 /\ sp' = [sp EXCEPT ![t] = NoSpace]
                 /\ pc' = [pc EXCEPT ![t] = "idle"]
                 /\ UNCHANGED <<have, list, limit, made, refs, created>>

-----------------------------------------------------------------------------
\* No thread is in a call and no reference is left: the state in which
\* finish_decoding_jobs frees the pools.
Quiescent == /\ \A t \in Threads : pc[t] = "idle"
             /\ \A s \in Spaces : refs[s] = 0

\* buffer_pool_free empties the list; the next decoder creates a pool.
FreeAndCreate == /\ Quiescent
                 /\ \E n \in Limits : Create(n)
                 /\ use' = [s \in Spaces |-> NewLock(0)]
                 /\ UNCHANGED <<pc, sp, refs>>

Get(t) == \/ GetPossess(t) \/ GetWait(t) \/ GetWake(t) \/ GetPull(t)
          \/ GetPossessUse(t) \/ GetTake(t) \/ GetReturn(t)
          \/ GetMake(t) \/ GetMade(t)

Share(t) == ShareCall(t) \/ SharePossess(t) \/ ShareReturn(t)

Drop(t) == \/ DropCall(t) \/ DropPossess(t) \/ DropPossessHave(t)
           \/ DropPush(t) \/ DropReturn(t)

Next == \/ \E t \in Getters : Get(t)
        \/ \E t \in Droppers : Share(t) \/ Drop(t)
        \/ FreeAndCreate

Spec == Init /\ [][Next]_vars

-----------------------------------------------------------------------------
(* Properties *)

\* While nobody holds its lock, the value of pool->have is the length of the
\* list, and no thread sleeps in wait_for although a space is free: the
\* broadcast that announced the space reached it.
NoSleepingGetter == IsFree(have) => /\ have.value = Len(list)
                                    /\ list # <<>> => have.waiting = {}

\* The three assert()s of buffer_pool.c: a dropped space has a user, a space is
\* only made while the limit allows it, and freeing the pool finds them all.
AssertsHold ==
  /\ \A t \in Threads : pc[t] = "test" => use[sp[t]].value # 0
  /\ \A t \in Threads : pc[t] = "check" /\ ~MustWait /\ list = <<>>
                           => limit # 0
  /\ Quiescent => Len(list) = made

\* The threads that stand for one user of s: they have it, or give it up.
UserLabels == {"took", "make", "drop", "test", "push", "share", "shared"}
Using(s) == {t \in Threads : sp[t] = s /\ pc[t] \in UserLabels}

\* The users of a space as the program counts them, whatever its lock says.
Users == [s \in Spaces |-> refs[s] + Cardinality(Using(s))]

\* The space a getting thread has, but has not returned with.
Handed == [t \in Getters |-> IF pc[t] \in {"took", "make"} THEN sp[t] ELSE NoSpace]

\* Whatever the interleaving of its lock operations, the pool behaves like one
\* whose operations are atomic and whose free spaces are those nobody uses: a
\* space is never handed to two owners, never returned while somebody still
\* uses it, never lost, and never made beyond the limit.
Pool == INSTANCE SpacePool WITH limit <- created, users <- Users, handed <- Handed
PoolSpec == Pool!Spec

-----------------------------------------------------------------------------
(* The inductive invariant *)

\* The threads that the lock of s counts, or will uncount, as users.
Counted(s) == {t \in Threads : sp[t] = s /\ pc[t] \in DropLabels}

\* The space of a thread, and the locks it holds, for each of its steps.
OwnerLabels == {"take", "took", "test", "push", "dropped", "shared"}

PlaceInv ==
  \A t \in Threads :
    /\ sp[t] = NoSpace <=> pc[t] \in {"idle", "check", "wait"}
    /\ sp[t] <= made
    /\ have.owner = t <=> pc[t] \in {"check", "pull", "take", "push"}
    /\ \A s \in Spaces :
         use[s].owner = t <=> sp[t] = s /\ pc[t] \in OwnerLabels

\* The list has the spaces nobody uses, each once, and the space that a thread
\* is about to take is the first.
ListInv ==
  /\ \A i, j \in DOMAIN list : list[i] = list[j] => i = j
  /\ \A s \in Spaces : s \in Listed <=> s <= made /\ refs[s] = 0 /\ Using(s) = {}
  /\ \A t \in Threads : pc[t] \in {"pull", "take"} => list # <<>> /\ sp[t] = Head(list)
  /\ have.value = Len(list)
  /\ list # <<>> => have.waiting = {}

\* The value of a lock is the number of users it has been told of; a space
\* that is being handed out is nobody else's.
CountInv ==
  /\ \A s \in Spaces : /\ use[s].value = refs[s] + Cardinality(Counted(s))
                       /\ refs[s] > 0 => s <= made
  /\ \A t \in Threads : pc[t] \in {"took", "make"} =>
       refs[sp[t]] = 0 /\ \A u \in Threads : sp[u] = sp[t] => u = t
  /\ \A t \in Threads : pc[t] = "push" => use[sp[t]].value = 1

\* limit is what is left of the limit the pool was created with.
LimitInv ==
  /\ limit = IF created = -1 THEN -1 ELSE created - made
  /\ created # -1 => made <= created
  /\ \A t \in Threads : /\ pc[t] = "check" => WithinMaxSpaces
                        /\ pc[t] = "wait" => created # -1

IInv == TypeOK /\ PlaceInv /\ ListInv /\ CountInv /\ LimitInv
=============================================================================
