------------------------------ MODULE YarnLock ------------------------------
(* The lock of yarn.c: a mutex, a condition variable and a value, as a        *)
(* record.  The operators give the lock after each call; the actions of the   *)
(* modules that use them supply the guard (IsFree for the calls that take     *)
(* the mutex) and the calling thread.                                         *)
EXTENDS Integers

CONSTANT NoThread   \* the owner of a mutex nobody holds

\* The locks the threads of T can make.
LockType(T, Values) == [owner   : T \cup {NoThread},
                        value   : Values,
                        waiting : SUBSET T]

\* new_lock(initial)
NewLock(initial) == [owner |-> NoThread, value |-> initial, waiting |-> {}]

IsFree(bolt) == bolt.owner = NoThread

\* possess(bolt) by t, and the return of pthread_cond_wait with the mutex.
Possess(bolt, t) == [bolt EXCEPT !.owner = t]

\* release(bolt)
Release(bolt) == [bolt EXCEPT !.owner = NoThread]

\* twist(bolt, TO, val): the broadcast wakes every waiting thread.
TwistTo(bolt, val) == [owner |-> NoThread, value |-> val, waiting |-> {}]

\* twist(bolt, BY, val)
TwistBy(bolt, val) == TwistTo(bolt, bolt.value + val)

\* pthread_cond_wait in wait_for: the mutex is given back and t sleeps.
CondWait(bolt, t) == [owner   |-> NoThread,
                      value   |-> bolt.value,
                      waiting |-> bolt.waiting \cup {t}]
=============================================================================
