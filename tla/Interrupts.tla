----------------------------- MODULE Interrupts -----------------------------
(***************************************************************************)
(* Simulated time and interrupts: machine/interrupt.cc, machine/timer.cc,  *)
(* threads/alarm.cc, and the mode changes of Machine::Run and              *)
(* Machine::RaiseException.                                                *)
(*                                                                         *)
(* Time is kept relative to now: where the code compares `when` with       *)
(* totalTicks, an entry of `pending` has the difference, so time goes on   *)
(* for ever in finitely many states.  The scheduler is abstracted to the   *)
(* set of ready threads, in which any may be next (Threads.tla has the     *)
(* list).                                                                  *)
(***************************************************************************)
EXTENDS Integers, Sequences, FiniteSets

CONSTANTS Thread,
          UserTick, SystemTick,  \* machine/stats.h
          TimerDelays,   \* what Timer::SetInterrupt may choose
          PollDelay,     \* delay of a device that polls: keyboard, network
          IODelays       \* delays of a device that answers a request

ASSUME InterruptAssumption ==
  /\ Thread # {} /\ IsFiniteSet(Thread)
  /\ {UserTick, SystemTick, PollDelay} \subseteq Nat \ {0}
  /\ UserTick <= SystemTick
  /\ TimerDelays # {} /\ TimerDelays \subseteq Nat \ {0}
  /\ IODelays \subseteq Nat \ {0}

VARIABLES
  pending,        \* Interrupt::pending, entries [type, due]
  level, inHandler, yieldOnReturn,
  mode,           \* Interrupt::status
  phase,          \* "code", "tick" (in OneTick) or "idle" (in Idle)
  current, ready, \* the running thread, the ready threads
  user,           \* the thread is in the loop of Machine::Run
  nested,         \* the thread is in a Yield that OneTick called ...
  oldStatus       \* ... and OneTick will restore this status after it

vars == << pending, level, inHandler, yieldOnReturn, mode, phase, current, ready,
           user, nested, oldStatus >>

IntType == {"TimerInt", "PollInt", "IOInt"}
Entry == [type : IntType, due : Int]

Blocked == Thread \ (ready \cup {current})

\* The passing of n ticks.
Later(list, n) == [i \in DOMAIN list |-> [list[i] EXCEPT !.due = @ - n]]

\* Mutant: Insert overwrites the entries of the same time.
InsertReplaces(list, e) ==
  SelectSeq(list, LAMBDA x : x.due < e.due) \o << e >>
    \o SelectSeq(list, LAMBDA x : x.due > e.due)

\* SortedList::Insert: behind the entries that are due no later.
Insert(list, e) ==
  LET before == {i \in DOMAIN list : list[i].due <= e.due}
      n == Cardinality(before)
  IN SubSeq(list, 1, n) \o << e >> \o SubSeq(list, n + 1, Len(list))

\* Interrupt::Schedule, which asserts fromNow > 0.
Schedule(list, type, fromNow) == Insert(list, [type |-> type, due |-> fromNow])

Init ==
  /\ \E d \in TimerDelays :
       pending = Schedule(Schedule(<< >>, "TimerInt", d), "PollInt", PollDelay)
  /\ level = "IntOn" /\ inHandler = FALSE /\ yieldOnReturn = FALSE
  /\ mode = "SystemMode" /\ phase = "code"
  /\ current \in Thread /\ ready = Thread \ {current}
  /\ user = [t \in Thread |-> FALSE]
  /\ nested = [t \in Thread |-> FALSE]
  /\ oldStatus = [t \in Thread |-> "SystemMode"]

-----------------------------------------------------------------------------
\* The first half of OneTick in status m: time advances, interrupts go off, CheckIfDue.
OneTick(m) ==
  /\ pending' = Later(pending, IF m = "UserMode" THEN UserTick ELSE SystemTick)
  /\ level' = "IntOff"
  /\ phase' = "tick"

\* Machine::Run starts, or RaiseException returns to it.
EnterUser ==
  /\ phase = "code" /\ level = "IntOn" /\ ~user[current]
  /\ user' = [user EXCEPT ![current] = TRUE]
  /\ mode' = "UserMode"
  /\ UNCHANGED << pending, level, inHandler, yieldOnReturn, phase, current, ready,
                  nested, oldStatus >>

\* RaiseException calls ExceptionHandler.
Trap ==
  /\ phase = "code" /\ user[current]
  /\ user' = [user EXCEPT ![current] = FALSE]
  /\ mode' = "SystemMode"
  /\ UNCHANGED << pending, level, inHandler, yieldOnReturn, phase, current, ready,
                  nested, oldStatus >>

\* OneInstruction and the OneTick after it.
UserInstruction ==
  /\ phase = "code" /\ user[current]
  /\ OneTick(mode)
  /\ UNCHANGED << inHandler, yieldOnReturn, mode, current, ready, user, nested,
                  oldStatus >>

\* Kernel code disables interrupts ...
Disable ==
  /\ phase = "code" /\ ~user[current] /\ level = "IntOn"
  /\ level' = "IntOff"
  /\ UNCHANGED << pending, inHandler, yieldOnReturn, mode, phase, current, ready,
                  user, nested, oldStatus >>

\* ... and enables them again: SetLevel(IntOn).
Enable ==
  /\ phase = "code" /\ level = "IntOff"
  /\ OneTick(mode)
  /\ UNCHANGED << inHandler, yieldOnReturn, mode, current, ready, user, nested,
                  oldStatus >>

\* A driver starts a request: Disk, ConsoleOutput and NetworkOutput schedule
\* the interrupt that ends it.  One request is outstanding at a time.
Request ==
  /\ phase = "code" /\ ~user[current]
  /\ \A i \in DOMAIN pending : pending[i].type # "IOInt"
  /\ \E d \in IODelays : pending' = Schedule(pending, "IOInt", d)
  /\ UNCHANGED << level, inHandler, yieldOnReturn, mode, phase, current, ready,
                  user, nested, oldStatus >>

\* SWITCH to u.  Wherever u stood (in Yield, in Sleep or at Begin), it next
\* enables interrupts, in SystemMode.  (A P that finds the value taken sleeps again
\* without a tick, which is a switch to the thread that runs next.)
SwitchTo(u) ==
  /\ current' = u
  /\ mode' = "SystemMode"
  /\ OneTick("SystemMode")

\* CheckIfDue(TRUE): advance the clock to the next interrupt.
Idle ==
  /\ mode' = "IdleMode"
  /\ phase' = "idle"
  /\ pending' = Later(pending, IF Head(pending).due > 0 THEN Head(pending).due ELSE 0)
  /\ UNCHANGED << level, current >>

\* The loop of Thread::Sleep: run a ready thread, or idle.
SleepLoop ==
  IF ready # {} THEN \E u \in ready : SwitchTo(u) /\ ready' = ready \ {u}
                ELSE Idle /\ UNCHANGED ready

Sleep ==
  /\ phase = "code" /\ ~user[current] /\ level = "IntOff"
  /\ SleepLoop
  /\ UNCHANGED << inHandler, yieldOnReturn, user, nested, oldStatus >>

-----------------------------------------------------------------------------
Due == pending # << >> /\ Head(pending).due <= 0

\* Mutant: Alarm::CallBack does not ask for a yield.
TimerHandlerNoYield ==
  /\ Head(pending).type = "TimerInt"
  /\ \E d \in TimerDelays : pending' = Schedule(Tail(pending), "TimerInt", d)
  /\ UNCHANGED << ready, yieldOnReturn >>

\* Timer::CallBack: Alarm::CallBack asks for a yield unless idle, and the next
\* timer interrupt is scheduled.
TimerHandler ==
  /\ Head(pending).type = "TimerInt"
  /\ yieldOnReturn' = (yieldOnReturn \/ mode # "IdleMode")
  /\ \E d \in TimerDelays : pending' = Schedule(Tail(pending), "TimerInt", d)
  /\ UNCHANGED ready

\* The handler of a device may wake a thread: one that is blocked, or the one
\* that idles in Sleep.
MayWake ==
  \/ UNCHANGED ready
  \/ \E t \in Blocked \cup (IF phase = "idle" THEN {current} ELSE {}) :
       ready' = ready \cup {t}

\* ConsoleInput and NetworkInput look for input and schedule the next poll.  After
\* a character ConsoleInput leaves that to GetChar: here too it polls on, the most
\* that can be pending.
PollHandler ==
  /\ Head(pending).type = "PollInt"
  /\ pending' = Schedule(Tail(pending), "PollInt", PollDelay)
  /\ MayWake
  /\ UNCHANGED yieldOnReturn

\* Disk, ConsoleOutput and NetworkOutput: a request has ended.
IOHandler ==
  /\ Head(pending).type = "IOInt"
  /\ pending' = Tail(pending)
  /\ MayWake
  /\ UNCHANGED yieldOnReturn

\* One round of the loop of CheckIfDue: take the first entry, call its handler.
Handler ==
  /\ phase \in {"tick", "idle"}
  /\ Due
  /\ inHandler' = TRUE
  /\ TimerHandler \/ PollHandler \/ IOHandler
  /\ UNCHANGED << level, mode, phase, current, user, nested, oldStatus >>

\* Mutant: OneTick does not restore the status after its Yield.
TickReturnsInSystemMode ==
  /\ phase = "tick" /\ ~Due /\ ~yieldOnReturn
  /\ inHandler' = FALSE
  /\ level' = "IntOn"
  /\ phase' = "code"
  /\ nested' = [nested EXCEPT ![current] = FALSE]
  /\ UNCHANGED << pending, yieldOnReturn, current, ready, user, oldStatus, mode >>

\* OneTick after CheckIfDue, no yield asked for.  If this OneTick ran inside the
\* Yield of an earlier one, that one now restores the status it saved.
TickReturns ==
  /\ phase = "tick" /\ ~Due /\ ~yieldOnReturn
  /\ inHandler' = FALSE
  /\ level' = "IntOn"
  /\ phase' = "code"
  /\ mode' = IF nested[current] THEN oldStatus[current] ELSE mode
  /\ nested' = [nested EXCEPT ![current] = FALSE]
  /\ UNCHANGED << pending, yieldOnReturn, current, ready, user, oldStatus >>

\* OneTick after CheckIfDue, with the Yield the timer asked for.  Yield disables
\* and enables interrupts even when nobody is ready.
TickYields ==
  /\ phase = "tick" /\ ~Due /\ yieldOnReturn
  /\ inHandler' = FALSE
  /\ yieldOnReturn' = FALSE
  /\ nested' = [nested EXCEPT ![current] = TRUE]
  /\ oldStatus' = IF nested[current] THEN oldStatus
                  ELSE [oldStatus EXCEPT ![current] = mode]
  /\ IF ready = {}
     THEN SwitchTo(current) /\ UNCHANGED ready
     ELSE \E u \in ready : SwitchTo(u) /\ ready' = (ready \ {u}) \cup {current}
  /\ UNCHANGED user

\* Idle after CheckIfDue, back in the loop of Sleep.  The thread that idles may
\* be the one that runs next.
IdleReturns ==
  /\ phase = "idle" /\ ~Due
  /\ inHandler' = FALSE
  /\ SleepLoop
  /\ UNCHANGED << yieldOnReturn, user, nested, oldStatus >>

ThreadCode == EnterUser \/ Trap \/ UserInstruction \/ Disable \/ Enable \/ Request
              \/ Sleep
Simulator == Handler \/ TickReturns \/ TickYields \/ IdleReturns
Next == ThreadCode \/ Simulator

\* The simulator itself never stops, and a thread goes on executing: user code
\* instruction by instruction, kernel code by enabling interrupts again.
Fairness == WF_vars(Simulator) /\ WF_vars(UserInstruction \/ Disable) /\ WF_vars(Enable)

Spec == Init /\ [][Next]_vars
FairSpec == Spec /\ Fairness

-----------------------------------------------------------------------------
TypeOK ==
  /\ pending \in Seq(Entry) /\ Len(pending) <= 3  \* at most one of each type
  /\ level \in {"IntOn", "IntOff"}
  /\ inHandler \in BOOLEAN /\ yieldOnReturn \in BOOLEAN
  /\ mode \in {"IdleMode", "SystemMode", "UserMode"}
  /\ phase \in {"code", "tick", "idle"}
  /\ current \in Thread /\ ready \subseteq Thread
  /\ user \in [Thread -> BOOLEAN] /\ nested \in [Thread -> BOOLEAN]
  /\ oldStatus \in [Thread -> {"SystemMode", "UserMode"}]

\* Thread code never runs while an interrupt is overdue, in a handler, or with a
\* yield still asked for: OneTick's loop and flags are settled before it returns.
CodeSeesNoInterrupt ==
  phase = "code" =>
    /\ \A i \in DOMAIN pending : pending[i].due > 0
    /\ ~inHandler
    /\ ~yieldOnReturn

\* An interrupt is late by less than one system tick: time never jumps past a
\* pending interrupt, in OneTick or in Idle.
BoundedLateness == \A i \in DOMAIN pending : pending[i].due > -SystemTick

\* The timer is pending in every state, exactly once.  Interrupt::Idle therefore
\* always finds an interrupt and never reaches its Halt, and a thread that keeps
\* the CPU is always preempted some day.
TimerAlwaysPending ==
  Cardinality({i \in DOMAIN pending : pending[i].type = "TimerInt"}) = 1

\* The machine is in UserMode exactly when the running thread executes user
\* code, though OneTick saves the status on one thread's stack and other threads
\* change it before the thread comes back.
ModeIsRight ==
  phase = "code" => mode = IF user[current] THEN "UserMode" ELSE "SystemMode"

\* A yield is never asked for while idle: the next thread to run after idling
\* is not preempted on behalf of a thread that went to sleep.
NoYieldWhenIdle == phase = "idle" => ~yieldOnReturn

\* Interrupts are taken when they should be: none is overdue or half handled
\* when thread code runs, none is late by a system tick, the timer is always
\* pending, and no yield is left over from idling (OneTick, CheckIfDue, Idle
\* and the handlers).
InterruptsOnTime ==
  TypeOK /\ CodeSeesNoInterrupt /\ BoundedLateness /\ TimerAlwaysPending /\ NoYieldWhenIdle

\* Time slicing: a thread does not keep the processor while another is ready.
HogPreempted ==
  \A t \in Thread : (current = t /\ ready \ {t} # {}) ~> current # t

=============================================================================
