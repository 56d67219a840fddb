------------------------------- MODULE Monitor -------------------------------
(***************************************************************************)
(* class Lock and class Condition of threads/synch.cc: a lock with the     *)
(* condition variables it protects.  Semaphores are the atomic ones of     *)
(* SemaphoreAbs.tla; a thread can be preempted after each P and V, so      *)
(* Acquire takes two steps (P, then lockHolder) and Wait five.             *)
(*                                                                         *)
(* MonitorNext is the most general client that keeps the rule of           *)
(* threads/synch.h: "All operations on a condition variable must be made   *)
(* while the current thread has acquired a lock."                          *)
(***************************************************************************)
EXTENDS Integers, Sequences

CONSTANTS Thread, Condition, NoThread, NoCondition

ASSUME MonitorAssumption ==
  NoThread \notin Thread /\ NoCondition \notin Condition

VARIABLES
  semaphore,   \* the value of Lock::semaphore
  lockHolder,  \* Lock::lockHolder
  waitQueue,   \* Condition::waitQueue: the threads whose semaphores are on it
  waiter,      \* value of the semaphore a Wait makes, or Freed
  at,          \* where a thread stands, see Place
  casting      \* the condition of the Broadcast the lock holder is in

monitorVars == << semaphore, lockHolder, waitQueue, waiter, at, casting >>

Freed == -1

\* "acquire": in Acquire, before P returns; "acquired": after P, before the
\* assignment to lockHolder.  "waiting", "reacquire", "reacquired": the same in
\* Wait.  "in": holds the lock.  "broadcast": in the loop of Broadcast.
Place == {"out", "acquire", "acquired", "in", "broadcast",
          "waiting", "reacquire", "reacquired"}

\* Lock::Lock and Condition::Condition.
MonitorInit ==
  /\ semaphore = 1
  /\ lockHolder = NoThread
  /\ waitQueue = [c \in Condition |-> << >>]
  /\ waiter = [t \in Thread |-> Freed]
  /\ at = [t \in Thread |-> "out"]
  /\ casting = NoCondition

Go(t, from, to) == at[t] = from /\ at' = [at EXCEPT ![t] = to]

CallAcquire(t) ==
  /\ Go(t, "out", "acquire")
  /\ UNCHANGED << semaphore, lockHolder, waitQueue, waiter, casting >>

\* semaphore->P() returns, in Acquire or in the Acquire of Wait.
LockP(t) ==
  /\ semaphore > 0
  /\ semaphore' = semaphore - 1
  /\ Go(t, "acquire", "acquired") \/ Go(t, "reacquire", "reacquired")
  /\ UNCHANGED << lockHolder, waitQueue, waiter, casting >>

\* lockHolder = currentThread; Wait then deletes its semaphore.
SetHolder(t) ==
  /\ lockHolder' = t
  /\ Go(t, "acquired", "in") \/ Go(t, "reacquired", "in")
  /\ waiter' = [waiter EXCEPT ![t] = Freed]
  /\ UNCHANGED << semaphore, waitQueue, casting >>

\* Mutant: Release leaves lockHolder set.
GiveUpLockKeepsHolder ==
  /\ semaphore' = semaphore + 1
  /\ UNCHANGED lockHolder

\* The assignments of Lock::Release.
GiveUpLock ==
  /\ lockHolder' = NoThread
  /\ semaphore' = semaphore + 1

Release(t) ==
  /\ Go(t, "in", "out")
  /\ GiveUpLock
  /\ UNCHANGED << waitQueue, waiter, casting >>

\* Condition::Wait up to the V of Release.
Wait(t, c) ==
  /\ Go(t, "in", "waiting")
  /\ waiter' = [waiter EXCEPT ![t] = 0]
  /\ waitQueue' = [waitQueue EXCEPT ![c] = Append(@, t)]
  /\ GiveUpLock
  /\ UNCHANGED casting

\* Mutant: Wait returns without acquiring the lock again.
WaiterPNoLock(t) ==
  /\ waiter[t] > 0
  /\ waiter' = [waiter EXCEPT ![t] = @ - 1]
  /\ Go(t, "waiting", "reacquired")
  /\ UNCHANGED << semaphore, lockHolder, waitQueue, casting >>

\* waiter->P() returns.
WaiterP(t) ==
  /\ waiter[t] > 0
  /\ waiter' = [waiter EXCEPT ![t] = @ - 1]
  /\ Go(t, "waiting", "reacquire")
  /\ UNCHANGED << semaphore, lockHolder, waitQueue, casting >>

\* Mutant: Signal leaves the semaphore on the queue.
WakeFirstKeeps(c) ==
  /\ IF waitQueue[c] = << >>
     THEN UNCHANGED waiter
     ELSE waiter' = [waiter EXCEPT ![Head(waitQueue[c])] = @ + 1]
  /\ UNCHANGED << semaphore, lockHolder, waitQueue >>

\* Mutant: Signal takes the semaphore off the queue and does not call V.
WakeFirstNoV(c) ==
  /\ waitQueue' = [waitQueue EXCEPT ![c] = IF @ = << >> THEN @ ELSE Tail(@)]
  /\ UNCHANGED << semaphore, lockHolder, waiter >>

\* Condition::Signal, apart from its caller's place.
WakeFirst(c) ==
  /\ IF waitQueue[c] = << >>
     THEN UNCHANGED << waitQueue, waiter >>
     ELSE /\ waitQueue' = [waitQueue EXCEPT ![c] = Tail(@)]
          /\ waiter' = [waiter EXCEPT ![Head(waitQueue[c])] = @ + 1]
  /\ UNCHANGED << semaphore, lockHolder >>

Signal(t, c) ==
  /\ at[t] = "in"
  /\ WakeFirst(c)
  /\ UNCHANGED << at, casting >>

\* Condition::Broadcast: Signal while the queue is not empty, a V at a time.
Broadcast(t, c) ==
  \/ /\ waitQueue[c] # << >>
     /\ \/ Go(t, "in", "broadcast")
        \/ Go(t, "broadcast", "broadcast") /\ casting = c
     /\ WakeFirst(c)
     /\ casting' = c
  \/ /\ waitQueue[c] = << >>
     /\ casting = c
     /\ Go(t, "broadcast", "in")
     /\ casting' = NoCondition
     /\ UNCHANGED << semaphore, lockHolder, waitQueue, waiter >>

\* The steps inside Acquire and Wait.
LockStep(t) == LockP(t) \/ SetHolder(t) \/ WaiterP(t)

MonitorNext ==
  \E t \in Thread :
    \/ CallAcquire(t) \/ LockStep(t) \/ Release(t)
    \/ \E c \in Condition : Wait(t, c) \/ Signal(t, c) \/ Broadcast(t, c)

MonitorSpec == MonitorInit /\ [][MonitorNext]_monitorVars

-----------------------------------------------------------------------------
MonitorTypeOK ==
  /\ semaphore \in 0..1
  /\ lockHolder \in Thread \cup {NoThread}
  /\ waitQueue \in [Condition -> Seq(Thread)]
  /\ waiter \in [Thread -> Freed..1]
  /\ at \in [Thread -> Place]
  /\ casting \in Condition \cup {NoCondition}

Inside(t) == at[t] \in {"acquired", "in", "broadcast", "reacquired"}

\* Two threads are never both past the P and before the V of one lock, on
\* whichever way they came to it, Acquire or Wait.
MutualExclusion == \A t, u \in Thread : Inside(t) /\ Inside(u) => t = u

\* IsHeldByCurrentThread tells the truth: it holds for the thread that may use
\* the lock, so the ASSERTs of Release, Wait and Signal never fail, and for no
\* other, although lockHolder is not assigned in one step with the semaphore.
HolderIsInside == \A t \in Thread : lockHolder = t <=> at[t] \in {"in", "broadcast"}

\* A semaphore on a wait queue is allocated, was not signalled yet, and is there
\* once, on one queue: Signal never calls V on a semaphore that its Wait has
\* deleted, and every Wait is signalled once.
WaiterOnQueueIsAlive ==
  \A c \in Condition : \A i \in DOMAIN waitQueue[c] :
    LET t == waitQueue[c][i]
    IN /\ at[t] = "waiting"
       /\ waiter[t] = 0
       /\ \A d \in Condition : \A j \in DOMAIN waitQueue[d] :
            waitQueue[d][j] = t => d = c /\ j = i

\* A Wait that is not on a queue was signalled: no thread sleeps in Wait where
\* no Signal or Broadcast can reach it.
WaitingIsReachable ==
  \A t \in Thread :
    at[t] = "waiting" => \/ waiter[t] = 1
                        \/ \E c \in Condition : \E i \in DOMAIN waitQueue[c] :
                             waitQueue[c][i] = t

=============================================================================
