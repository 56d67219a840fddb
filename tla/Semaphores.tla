----------------------------- MODULE Semaphores -----------------------------
(***************************************************************************)
(* class Semaphore of threads/synch.cc on top of the scheduler, driven by  *)
(* the most general client: the running thread calls Fork, Yield, Finish,  *)
(* Execute, P and V in any order, the timer may preempt it wherever        *)
(* interrupts are on, and device handlers call V (the CallBacks of the     *)
(* console, the disk and the post office all do exactly that).             *)
(***************************************************************************)
EXTENDS Threads

CONSTANTS Semaphore,
          Device,        \* semaphores that an interrupt handler calls V on
          InitialValue,  \* the initialValue each semaphore is made with
          MaxValue,      \* bound on value: V is not called beyond it
          NoSem

ASSUME SemaphoreAssumption ==
  /\ Device \subseteq Semaphore
  /\ InitialValue \in [Semaphore -> Nat]
  /\ MaxValue \in Nat
  /\ NoSem \notin Semaphore

VARIABLES value,      \* Semaphore::value
          queue,      \* Semaphore::queue
          waitingOn   \* the semaphore of the P a thread is in, or NoSem

semVars == << value, queue, waitingOn >>
vars == << threadVars, semVars >>

Init ==
  /\ ThreadInit
  /\ value = InitialValue
  /\ queue = [s \in Semaphore |-> << >>]
  /\ waitingOn = [t \in Thread |-> NoSem]

-----------------------------------------------------------------------------
\* A test of the loop of Semaphore::P: take the semaphore and enable
\* interrupts, or join the queue and enter Thread::Sleep.
PLoop(t, s) ==
  /\ UNCHANGED << currentThread, readyList, toBeDestroyed, space, userRegisters,
                  registers >>
  /\ \/ /\ value[s] # 0
        /\ value' = [value EXCEPT ![s] = @ - 1]
        /\ where' = [where EXCEPT ![t] = "code"]
        /\ level' = "IntOn"
        /\ waitingOn' = [waitingOn EXCEPT ![t] = NoSem]
        /\ UNCHANGED << status, queue >>
     \/ /\ value[s] = 0
        /\ queue' = [queue EXCEPT ![s] = Append(@, t)]
        /\ status' = [status EXCEPT ![t] = "BLOCKED"]
        /\ where' = [where EXCEPT ![t] = "Sleep"]
        /\ level' = "IntOff"
        /\ waitingOn' = [waitingOn EXCEPT ![t] = s]
        /\ UNCHANGED value

\* Mutant: `if` where P has `while`: no test after Sleep.
PAgainNoTest(t) ==
  /\ t = currentThread
  /\ where[t] = "P"
  /\ value' = [value EXCEPT ![waitingOn[t]] = @ - 1]
  /\ where' = [where EXCEPT ![t] = "code"]
  /\ level' = "IntOn"
  /\ waitingOn' = [waitingOn EXCEPT ![t] = NoSem]
  /\ UNCHANGED << currentThread, status, readyList, toBeDestroyed, space,
                  userRegisters, registers, queue >>

\* The call of P, and the test of P again after Sleep returned.
P(t, s) == Runs(t) /\ PLoop(t, s)
PAgain(t) == /\ t = currentThread
             /\ where[t] = "P"
             /\ PLoop(t, waitingOn[t])

\* Mutant: V looks at the first waiter but leaves it on the queue.
SignalKeepsWaiter(s) ==
  /\ value[s] < MaxValue
  /\ value' = [value EXCEPT ![s] = @ + 1]
  /\ IF queue[s] = << >>
     THEN UNCHANGED << status, readyList >>
     ELSE /\ status' = ReadyStatus(Head(queue[s]))
          /\ readyList' = ReadyList(Head(queue[s]))
  /\ UNCHANGED << currentThread, where, toBeDestroyed, level, space,
                  userRegisters, registers, waitingOn, queue >>

\* Mutant: V wakes a waiter only when the value was 0.
SignalOnlyFromZero(s) ==
  /\ value[s] < MaxValue
  /\ value' = [value EXCEPT ![s] = @ + 1]
  /\ IF queue[s] = << >> \/ value[s] > 0
     THEN UNCHANGED << status, readyList, queue >>
     ELSE /\ status' = ReadyStatus(Head(queue[s]))
          /\ readyList' = ReadyList(Head(queue[s]))
          /\ queue' = [queue EXCEPT ![s] = Tail(@)]
  /\ UNCHANGED << currentThread, where, toBeDestroyed, level, space,
                  userRegisters, registers, waitingOn >>

\* Semaphore::V: wake the first waiter, if any, and increment the value.
Signal(s) ==
  /\ value[s] < MaxValue
  /\ value' = [value EXCEPT ![s] = @ + 1]
  /\ IF queue[s] = << >>
     THEN UNCHANGED << status, readyList, queue >>
     ELSE /\ status' = ReadyStatus(Head(queue[s]))
          /\ readyList' = ReadyList(Head(queue[s]))
          /\ queue' = [queue EXCEPT ![s] = Tail(@)]
  /\ UNCHANGED << currentThread, where, toBeDestroyed, level, space,
                  userRegisters, registers, waitingOn >>

V(t, s) == Runs(t) /\ Signal(s)

\* An interrupt handler calls V: at a tick of the running thread, or while a
\* thread idles in Sleep.
Interrupted == Runs(currentThread) \/ Idling(currentThread)
HandlerV(s) == Interrupted /\ Signal(s)

\* The timer fires while idle: Alarm::CallBack asks for no yield.
IdleTick == Idling(currentThread) /\ UNCHANGED vars

-----------------------------------------------------------------------------
ThreadStep(t) ==
  /\ \/ \E u \in Thread : Fork(t, u)
     \/ Execute(t)
     \/ Yield(t)
     \/ Finish(t)
     \/ Dispatch(t)
     \/ AfterSwitch(t)
  /\ UNCHANGED semVars

SemaphoreStep(t) ==
  \/ \E s \in Semaphore : P(t, s) \/ V(t, s)
  \/ PAgain(t)

Next ==
  \/ \E t \in Thread : ThreadStep(t) \/ SemaphoreStep(t)
  \/ \E s \in Device : HandlerV(s)
  \/ IdleTick

\* What the simulator guarantees.  Inside the scheduler nothing stops a thread.
\* The timer is rescheduled by each of its interrupts, and asks the running
\* thread to yield at each: a thread that keeps the CPU is preempted.  The
\* client guarantees nothing.
Scheduling ==
  /\ WF_vars(\E t \in Thread : (Dispatch(t) \/ AfterSwitch(t)) /\ UNCHANGED semVars)
  /\ WF_vars(\E t \in Thread : PAgain(t))
  /\ WF_vars(\E t \in Thread : Yield(t) /\ UNCHANGED semVars)

Spec == Init /\ [][Next]_vars
FairSpec == Spec /\ Scheduling

-----------------------------------------------------------------------------
TypeOK ==
  /\ currentThread \in Thread
  /\ status \in [Thread -> ThreadStatus]
  /\ where \in [Thread -> Place]
  /\ readyList \in Seq(Thread)
  /\ toBeDestroyed \in Thread \cup {NoThread}
  /\ level \in {"IntOn", "IntOff"}
  /\ space \in [Thread -> BOOLEAN]
  /\ userRegisters \in [Thread -> Thread \cup {NoThread}]
  /\ registers \in Thread \cup {NoThread}
  /\ value \in [Semaphore -> Nat]
  /\ queue \in [Semaphore -> Seq(Thread)]
  /\ waitingOn \in [Thread -> Semaphore \cup {NoSem}]

NoDuplicates(list) == \A i, j \in DOMAIN list : list[i] = list[j] => i = j

\* A thread is where the scheduler can find it, in one place only: the running
\* thread is currentThread, the ready threads are exactly those on readyList,
\* and a thread blocked in P is on the queue of the semaphore it waits for and
\* on no other.  List::Append asserts the absence of duplicates (lib/list.cc).
ListsMatchStatus ==
  /\ \A t \in Thread :
       /\ status[t] = "RUNNING" => t = currentThread
       /\ status[t] = "READY" <=> InList(t, readyList)
       /\ \A s \in Semaphore :
            InList(t, queue[s]) <=> /\ status[t] = "BLOCKED"
                                    /\ where[t] = "Sleep"
                                    /\ waitingOn[t] = s
  /\ NoDuplicates(readyList)
  /\ \A s \in Semaphore : NoDuplicates(queue[s])

\* A finished thread is deleted exactly once and off its own stack.  Run's
\* ASSERT(toBeDestroyed == NULL) holds whenever a finishing thread reaches it,
\* and ~Thread's ASSERT(this != currentThread) whenever CheckToBeDestroyed
\* deletes; the carcass is on no list, so nobody can switch to it.
DestroySafely ==
  /\ InSleep(currentThread) => toBeDestroyed = NoThread
  /\ toBeDestroyed # NoThread =>
       /\ toBeDestroyed # currentThread
       /\ where[toBeDestroyed] = "Finish"
       /\ ~InList(toBeDestroyed, readyList)
       /\ \A s \in Semaphore : ~InList(toBeDestroyed, queue[s])
       /\ where[currentThread] \in {"Begin", "Yield", "Sleep"}

\* Threads that V took off the queue of s and that have not yet tested s again.
Woken(s) == {t \in Thread : /\ waitingOn[t] = s
                            /\ status[t] \in {"READY", "RUNNING"}}

\* Wakeups are not lost.  V wakes one waiter per increment and P may be
\* overtaken between the wakeup and its next test, so a semaphore can be
\* positive while threads sleep on it: but then at least as many threads as its
\* value are on their way to test it.
NoLostWakeup ==
  \A s \in Semaphore : queue[s] # << >> => value[s] <= Cardinality(Woken(s))

\* A thread that runs a program finds its own registers and page table in the
\* machine whenever it executes outside the scheduler, whatever threads ran in
\* between (SaveUserState, RestoreUserState and Execute).
UserContextIntact ==
  \A t \in Thread : (Runs(t) \/ (t = currentThread /\ where[t] = "P")) /\ space[t]
                    => registers = t

\* Round robin: a thread on the ready list gets the processor.
ReadyRuns ==
  \A t \in Thread : status[t] = "READY" ~> status[t] = "RUNNING"

\* A positive semaphore with sleepers on it does not stay that way: V's woken
\* threads test it again, and either consume the value or the queue drains.
WakeupsConsumed ==
  \A s \in Semaphore :
    (queue[s] # << >> /\ value[s] > 0) ~> (queue[s] = << >> \/ value[s] = 0)

\* Threads that can go on do: both of the above, under the scheduler's round
\* robin (Scheduler::ReadyToRun, FindNextToRun, Semaphore::P).
ThreadsProgress == ReadyRuns /\ WakeupsConsumed

\* The detailed semaphore keeps the promise of SemaphoreAbs.
Abs == INSTANCE SemaphoreAbs
         WITH val <- value,
              asking <- waitingOn

\* P and V on the scheduler implement the atomic P and V of SemaphoreAbs,
\* including its progress promise.
ImplementsAbs == Abs!AbsSpec

=============================================================================
