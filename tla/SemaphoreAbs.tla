---------------------------- MODULE SemaphoreAbs ----------------------------
(***************************************************************************)
(* What a counting semaphore promises its callers, with no scheduler, no   *)
(* queue and no interrupt level: the comment on class Semaphore in         *)
(* threads/synch.h says "P() waits until value > 0, then decrement" and    *)
(* "V() increment, waking up a thread waiting in P() if necessary".        *)
(*                                                                         *)
(* Semaphores.tla implements this specification.  The modules built on     *)
(* semaphores use these atomic operations.                                 *)
(***************************************************************************)
EXTENDS Integers

CONSTANTS Thread, Semaphore, InitialValue, NoSem

VARIABLES val,     \* the value of each semaphore
          asking   \* the semaphore a thread waits for inside P, or NoSem

absVars == << val, asking >>

AbsInit ==
  /\ val = InitialValue
  /\ asking = [t \in Thread |-> NoSem]

\* P that does not have to wait.
Pass(t, s) ==
  /\ asking[t] = NoSem
  /\ val[s] > 0
  /\ val' = [val EXCEPT ![s] = @ - 1]
  /\ UNCHANGED asking

\* P that has to wait.
Ask(t, s) ==
  /\ asking[t] = NoSem
  /\ val[s] = 0
  /\ asking' = [asking EXCEPT ![t] = s]
  /\ UNCHANGED val

\* A waiting P gets the semaphore and returns.
Take(t, s) ==
  /\ asking[t] = s
  /\ val[s] > 0
  /\ val' = [val EXCEPT ![s] = @ - 1]
  /\ asking' = [asking EXCEPT ![t] = NoSem]

Release(s) ==
  /\ val' = [val EXCEPT ![s] = @ + 1]
  /\ UNCHANGED asking

AbsNext ==
  \E s \in Semaphore :
    \/ Release(s)
    \/ \E t \in Thread : Pass(t, s) \/ Ask(t, s) \/ Take(t, s)

\* The safety promise: the value moves by one, never below zero, and a thread
\* leaves P only by decrementing.
AbsSafety == AbsInit /\ [][AbsNext]_absVars

\* The progress promise: while the semaphore is positive and somebody waits for
\* it, some waiter does not wait forever.  (Not every waiter: a P that comes
\* later may overtake, in the code as here.)
AbsSpec ==
  AbsSafety /\ \A s \in Semaphore : WF_absVars(\E t \in Thread : Take(t, s))

=============================================================================
