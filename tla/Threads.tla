------------------------------- MODULE Threads -------------------------------
(***************************************************************************)
(* Kernel threads and the scheduler of Nachos: threads/thread.cc,          *)
(* threads/scheduler.cc and the part of machine/interrupt.cc they rely on. *)
(*                                                                         *)
(* Nachos simulates one processor.  The processor is given up at three     *)
(* places only: Thread::Sleep, Thread::Yield, and the Yield that OneTick   *)
(* makes for the timer.  OneTick runs when interrupts go from off to on,   *)
(* and after each user instruction, so kernel code between two such points *)
(* is atomic.  An action below is the code from one such point to the      *)
(* next; `level` says whether the running thread may be interrupted in the *)
(* state between two actions.                                              *)
(*                                                                         *)
(* This module has the state and the operations.  Semaphores.tla composes  *)
(* them with semaphores, devices and an arbitrary client.                  *)
(***************************************************************************)
EXTENDS Integers, Sequences, FiniteSets

CONSTANTS Thread,   \* Thread objects: an address that `new Thread` returns
          Main,     \* the Thread that Kernel::Initialize makes for itself
          NoThread  \* the NULL Thread pointer

ASSUME ThreadAssumption ==
  /\ IsFiniteSet(Thread)
  /\ Main \in Thread
  /\ NoThread \notin Thread

VARIABLES
  currentThread,  \* kernel->currentThread
  status,         \* Thread::status; "NONE" is a Thread that is not allocated
  where,          \* the place in the kernel a thread stands at, see Place
  readyList,      \* Scheduler::readyList
  toBeDestroyed,  \* Scheduler::toBeDestroyed
  level,          \* Interrupt::level
  space,          \* whether Thread::space is set: the thread runs a program
  userRegisters,  \* whose user context Thread::userRegisters holds
  registers       \* whose user context is loaded in the Machine

threadVars == << currentThread, status, where, readyList, toBeDestroyed, level,
                 space, userRegisters, registers >>

\* JUST_CREATED is left out: every caller forks the Thread it has just made.
ThreadStatus == {"NONE", "RUNNING", "READY", "BLOCKED"}

\* "code": outside the scheduler.  "Begin": forked, has not run.  "Yield" and
\* "Sleep": inside that call.  "Finish": inside Sleep(TRUE).  "P": back from
\* Sleep, about to test the semaphore again with interrupts still off.
Place == {"code", "Begin", "Yield", "Sleep", "Finish", "P"}

InList(t, list) == \E i \in DOMAIN list : list[i] = t

-----------------------------------------------------------------------------
\* Kernel::Initialize: main is running and interrupts get enabled.
ThreadInit ==
  /\ currentThread = Main
  /\ status = [t \in Thread |-> IF t = Main THEN "RUNNING" ELSE "NONE"]
  /\ where = [t \in Thread |-> "code"]
  /\ readyList = << >>
  /\ toBeDestroyed = NoThread
  /\ level = "IntOn"
  /\ space = [t \in Thread |-> FALSE]
  /\ userRegisters = [t \in Thread |-> NoThread]
  /\ registers = NoThread

\* The running thread executes ordinary code and may be interrupted.
Runs(t) == t = currentThread /\ level = "IntOn"

\* Scheduler::ReadyToRun, as the values status and readyList get.
ReadyStatus(t) == [status EXCEPT ![t] = "READY"]
\* Mutant: ReadyToRun uses Prepend.
ReadyListLIFO(t) == << t >> \o readyList

ReadyList(t) == Append(readyList, t)

\* Thread::Thread and Thread::Fork: u gets a stack whose first frame is
\* ThreadRoot, and goes to the end of the ready list.
Fork(t, u) ==
  /\ Runs(t)
  /\ status[u] = "NONE"
  /\ status' = ReadyStatus(u)
  /\ readyList' = ReadyList(u)
  /\ where' = [where EXCEPT ![u] = "Begin"]
  /\ space' = [space EXCEPT ![u] = FALSE]
  /\ userRegisters' = [userRegisters EXCEPT ![u] = NoThread]
  /\ UNCHANGED << currentThread, toBeDestroyed, level, registers >>

\* AddrSpace::Execute: the thread gets its address space and the machine its
\* initial registers and page table.
Execute(t) ==
  /\ Runs(t)
  /\ ~space[t]
  /\ space' = [space EXCEPT ![t] = TRUE]
  /\ registers' = t
  /\ UNCHANGED << currentThread, status, where, readyList, toBeDestroyed, level,
                  userRegisters >>

\* Mutant: Run forgets SaveUserState.
RunNoSave(old, nextThread, finishing) ==
  /\ toBeDestroyed' = IF finishing THEN old ELSE toBeDestroyed
  /\ currentThread' = nextThread
  /\ UNCHANGED << space, registers, userRegisters >>

\* Scheduler::Run up to SWITCH: the old thread saves its user registers if it
\* runs a program, nextThread becomes the current thread.  The caller sets
\* status, readyList and where.
Run(old, nextThread, finishing) ==
  /\ toBeDestroyed' = IF finishing THEN old ELSE toBeDestroyed
  /\ userRegisters' = IF space[old] THEN [userRegisters EXCEPT ![old] = registers]
                                    ELSE userRegisters
  /\ currentThread' = nextThread
  /\ UNCHANGED << space, registers >>

\* Thread::Yield, called by the thread itself or by OneTick after a timer
\* interrupt.  It does nothing when the ready list is empty.
Yield(t) ==
  /\ Runs(t)
  /\ readyList # << >>
  /\ Run(t, Head(readyList), FALSE)
  /\ status' = [status EXCEPT ![t] = "READY", ![Head(readyList)] = "RUNNING"]
  /\ readyList' = Append(Tail(readyList), t)
  /\ where' = [where EXCEPT ![t] = "Yield"]
  /\ level' = "IntOff"

\* Thread::Finish and the entry of Sleep(TRUE).
Finish(t) ==
  /\ Runs(t)
  /\ status' = [status EXCEPT ![t] = "BLOCKED"]
  /\ where' = [where EXCEPT ![t] = "Finish"]
  /\ level' = "IntOff"
  /\ UNCHANGED << currentThread, readyList, toBeDestroyed, space, userRegisters,
                  registers >>

\* t is in the loop of Thread::Sleep and looks for a thread to run.
InSleep(t) ==
  /\ t = currentThread
  /\ status[t] # "RUNNING"
  /\ where[t] \in {"Sleep", "Finish"}

\* Thread::Sleep finds a thread and switches to it.  The thread it finds can be
\* t itself, when an interrupt handler made t ready while it was idling.
Dispatch(t) ==
  /\ InSleep(t)
  /\ readyList # << >>
  /\ Run(t, Head(readyList), where[t] = "Finish")
  /\ status' = [status EXCEPT ![Head(readyList)] = "RUNNING"]
  /\ readyList' = Tail(readyList)
  /\ UNCHANGED << where, level >>

\* Thread::Sleep finds nobody: Interrupt::Idle advances the clock to the next
\* pending interrupt.  The timer is always pending, and Alarm::CallBack does
\* nothing in IdleMode; device interrupts are in Semaphores.tla.
Idling(t) == InSleep(t) /\ readyList = << >>

\* Mutant: Thread::Begin does not call CheckToBeDestroyed.
AfterSwitchBeginKeeps(t) ==
  /\ t = currentThread
  /\ status[t] = "RUNNING"
  /\ where[t] \in {"Begin", "Yield", "Sleep"}
  /\ IF toBeDestroyed # NoThread /\ where[t] # "Begin"
     THEN /\ status' = [status EXCEPT ![toBeDestroyed] = "NONE"]
          /\ toBeDestroyed' = NoThread
     ELSE UNCHANGED << status, toBeDestroyed >>
  /\ where' = [where EXCEPT ![t] = IF where[t] = "Sleep" THEN "P" ELSE "code"]
  /\ level' = IF where[t] = "Sleep" THEN level ELSE "IntOn"
  /\ registers' = IF space[t] /\ where[t] # "Begin" THEN userRegisters[t]
                                                    ELSE registers
  /\ UNCHANGED << currentThread, readyList, space, userRegisters >>

\* What t does first when SWITCH or ThreadRoot returns in it: the tail of
\* Scheduler::Run, or Thread::Begin.  Both call CheckToBeDestroyed.  Begin and
\* Yield then enable interrupts; Sleep returns to its caller with them off.
AfterSwitch(t) ==
  /\ t = currentThread
  /\ status[t] = "RUNNING"
  /\ where[t] \in {"Begin", "Yield", "Sleep"}
  /\ status' = IF toBeDestroyed # NoThread
               THEN [status EXCEPT ![toBeDestroyed] = "NONE"] ELSE status
  /\ toBeDestroyed' = NoThread
  /\ where' = [where EXCEPT ![t] = IF where[t] = "Sleep" THEN "P" ELSE "code"]
  /\ level' = IF where[t] = "Sleep" THEN level ELSE "IntOn"
  /\ registers' = IF space[t] /\ where[t] # "Begin" THEN userRegisters[t]
                                                    ELSE registers
  /\ UNCHANGED << currentThread, readyList, space, userRegisters >>

=============================================================================
