----------------------------- MODULE SpacePool ------------------------------
(* What a buffer pool promises its users: a space is handed to one user at a  *)
(* time unless that user shares it, it is free again once its last user has   *)
(* dropped it, and a new space is made only when none is free and the limit   *)
(* allows one more.  BufferPool implements this specification.                *)
EXTENDS Integers

CONSTANTS Getters,     \* the threads that get spaces
          Limits,      \* the limits pools are created with; -1 is "no limit"
          MaxSpaces    \* bound: spaces ever made by one pool

VARIABLES limit,       \* the limit of this pool
          made,        \* the spaces 1..made exist
          users,       \* users[s]: how many users hold s
          handed       \* handed[t]: the space that is being handed to t

vars == <<limit, made, users, handed>>

Spaces == 1..MaxSpaces
NoSpace == 0

FreeSpaces == {s \in 1..made : users[s] = 0}

Init == /\ limit \in Limits
        /\ made = 0
        /\ users = [s \in Spaces |-> 0]
        /\ handed = [t \in Getters |-> NoSpace]

Reuse(t) == \E s \in FreeSpaces :
               /\ handed[t] = NoSpace
               /\ users' = [users EXCEPT ![s] = 1]
               /\ handed' = [handed EXCEPT ![t] = s]
               /\ UNCHANGED <<limit, made>>

Make(t) == /\ handed[t] = NoSpace
           /\ FreeSpaces = {}
           /\ made < MaxSpaces
           /\ limit = -1 \/ made < limit
           /\ made' = made + 1
           /\ users' = [users EXCEPT ![made + 1] = 1]
           /\ handed' = [handed EXCEPT ![t] = made + 1]
           /\ UNCHANGED limit

\* buffer_pool_get_space returns.
Receive(t) == /\ handed' = [handed EXCEPT ![t] = NoSpace]
              /\ UNCHANGED <<limit, made, users>>

Share == \E s \in 1..made :
            /\ users[s] > 0
            /\ users' = [users EXCEPT ![s] = @ + 1]
            /\ UNCHANGED <<limit, made, handed>>

Drop == \E s \in 1..made :
           /\ users[s] > 0
           /\ users' = [users EXCEPT ![s] = @ - 1]
           /\ UNCHANGED <<limit, made, handed>>

\* A pool is freed, and another one created, only when every space is back.
Recreate == /\ FreeSpaces = 1..made
            /\ limit' \in Limits
            /\ made' = 0
            /\ UNCHANGED <<users, handed>>

Next == \/ \E t \in Getters : Reuse(t) \/ Make(t) \/ Receive(t)
        \/ Share \/ Drop \/ Recreate

Spec == Init /\ [][Next]_vars
=============================================================================
