------------------------------ MODULE UserMode ------------------------------
(***************************************************************************)
(* User programs on one processor: the user registers and the page table   *)
(* register across context switches (Scheduler::Run, Thread::SaveUserState,*)
(* RestoreUserState, AddrSpace::Execute) and the dispatch of exceptions    *)
(* (ExceptionHandler, userprog/exception.cc).                              *)
(*                                                                         *)
(* A program is a sequence of instructions: "op" computes, "fault" raises  *)
(* an exception other than a system call, and anything else is the code    *)
(* of a system call.  own is what the registers would hold if the thread   *)
(* had the machine for itself.                                             *)
(***************************************************************************)
EXTENDS Integers, Sequences, FiniteSets

CONSTANTS UserThread, NoThread,
          SpaceSize, \* bytes of an address space: numPages * PageSize
          Programs   \* what the threads may execute

ASSUME UserAssumption == Cardinality(UserThread) \in Nat \ {0} /\ SpaceSize \in Nat

\* The codes ExceptionHandler has a case for, SC_Halt and SC_Exit aside.
Handled == {"SC_Create", "SC_Open", "SC_Close", "SC_Read", "SC_Write", "SC_Seek", "SC_Remove",
            "SC_SocketTCP", "SC_Connect", "SC_Send", "SC_Receive", "SC_ReadString",
            "SC_PrintString", "SC_Exec", "SC_ExecV", "SC_Join",
            "SC_CreateSemaphore", "SC_Wait", "SC_Signal", "SC_PrintNum"}

\* Those of them that wait, if they do, for the console or for the semaphore
\* of PTable::ExecUpdate.  Wait and Join, like ExitWait in SC_Exit, need another
\* program to let them go, which it need not do.
Driven == Handled \ {"SC_Wait", "SC_Join"}

VARIABLES
  program,   \* thread -> its instructions
  current,   \* currentThread
  ready,     \* readyList
  mode,      \* where each thread is
  space,     \* threads whose space is not NULL
  registers, \* machine->registers
  userRegisters,
  userPageTable, \* the thread whose table machine->pageTable points to
  own,
  userMachine    \* "running", "halted" or "aborted"

userVars == << current, ready, mode, space, registers, userPageTable, userRegisters, own, userMachine >>

\* AddrSpace::InitRegisters
InitRegisters == [PC |-> 0, NextPC |-> 4, PrevPC |-> 0, r2 |-> << 0 >>, SP |-> SpaceSize - 16]

\* Every program has been forked; one thread has the processor.
UserInit ==
  /\ program \in Programs
  /\ current \in UserThread
  /\ ready \in {s \in [1 .. Cardinality(UserThread) - 1 -> UserThread \ {current}] :
                  \A i, j \in DOMAIN s : s[i] = s[j] => i = j}
  /\ mode = [t \in UserThread |-> "new"] /\ space = {} /\ userMachine = "running"
  /\ registers = [PC |-> 0, NextPC |-> 0, PrevPC |-> 0, r2 |-> << 0 >>, SP |-> 0]
  /\ userPageTable = NoThread
  /\ userRegisters = [t \in UserThread |-> registers] /\ own = userRegisters

Instruction(t) == program[t][(registers.PC \div 4) + 1]
CallOf(t) == program[t][(own[t].PC \div 4) + 1]   \* of a thread that is in a call
Running(t, m) == userMachine = "running" /\ current = t /\ mode[t] = m
MayWait(t) == Instruction(t) \in Handled \cup {"SC_Exit"}
CpuUnchanged == UNCHANGED << current, ready, space, userPageTable, userRegisters, userMachine >>

-----------------------------------------------------------------------------
(* Context switch.                                                         *)

SaveUserState(t) ==
  userRegisters' = IF t \in space THEN [userRegisters EXCEPT ![t] = registers] ELSE userRegisters

RestoreUserState(t) == registers' = IF t \in space THEN userRegisters'[t] ELSE registers

\* Mutant: the page table register is left alone.
KeepState(t) == userPageTable' = userPageTable

\* AddrSpace::RestoreState
RestoreState(t) == userPageTable' = IF t \in space THEN t ELSE userPageTable

\* Scheduler::Run up to the point where the next thread goes on.
Run(old, next) ==
  /\ SaveUserState(old)
  /\ current' = next
  /\ RestoreUserState(next) /\ RestoreState(next)

\* Mutant: the thread is not put on the ready list.
YieldLoses(t) ==
  /\ ready # << >>
  /\ ready' = Tail(ready)
  /\ Run(t, Head(ready))
  /\ UNCHANGED << space, own, userMachine >>

\* Thread::Yield out of OneTick, after an instruction or inside a handler.
Yield(t) ==
  /\ ready # << >>
  /\ ready' = Append(Tail(ready), t)
  /\ Run(t, Head(ready))
  /\ UNCHANGED << space, own, userMachine >>

TickYield(t) == Running(t, "tick") /\ mode' = [mode EXCEPT ![t] = "user"] /\ Yield(t)
TickReturn(t) ==
  /\ Running(t, "tick") /\ mode' = [mode EXCEPT ![t] = "user"]
  /\ CpuUnchanged /\ UNCHANGED << registers, own >>
CallYield(t) == Running(t, "call") /\ MayWait(t) /\ mode' = [mode EXCEPT ![t] = "return"] /\ Yield(t)

\* Thread::Sleep: the thread blocks, or finishes, and stays current while
\* there is nobody to run.
Sleep(t) ==
  /\ Running(t, "call") /\ MayWait(t) /\ mode' = [mode EXCEPT ![t] = "blocked"]
  /\ CpuUnchanged /\ UNCHANGED << registers, own >>
Dispatch ==
  /\ userMachine = "running" /\ mode[current] \in {"blocked", "finishing", "return"}
  /\ mode[current] = "return" => current \in {ready[i] : i \in DOMAIN ready}
  /\ ready # << >> /\ ready' = Tail(ready)
  /\ Run(current, Head(ready))
  /\ mode' = [mode EXCEPT ![current] = IF @ = "finishing" THEN "finished" ELSE @]
  /\ UNCHANGED << space, own, userMachine >>

\* An interrupt or another thread wakes t.
ReadyToRun(t) ==
  /\ userMachine = "running" /\ mode[t] = "blocked"
  /\ mode' = [mode EXCEPT ![t] = "return"] /\ ready' = Append(ready, t)
  /\ UNCHANGED << current, space, registers, userPageTable, userRegisters, own, userMachine >>

-----------------------------------------------------------------------------
(* User mode and the kernel's handler.                                     *)

\* AddrSpace::Execute
Execute(t) ==
  /\ Running(t, "new")
  /\ space' = space \cup {t}
  /\ registers' = InitRegisters /\ own' = [own EXCEPT ![t] = InitRegisters]
  /\ userPageTable' = t
  /\ mode' = [mode EXCEPT ![t] = "user"]
  /\ UNCHANGED << current, ready, userRegisters, userMachine >>

\* An instruction that computes something only t can have computed.
Computed(t, r) == [PC |-> r.NextPC, NextPC |-> r.NextPC + 4, PrevPC |-> r.PC,
                   r2 |-> << t, r.PC >>, SP |-> r.SP]
OneInstruction(t) ==
  /\ Running(t, "user") /\ Instruction(t) = "op"
  /\ registers' = Computed(t, registers) /\ own' = [own EXCEPT ![t] = Computed(t, @)]
  /\ mode' = [mode EXCEPT ![t] = "tick"]
  /\ CpuUnchanged

RaiseException(t) ==
  /\ Running(t, "user") /\ Instruction(t) # "op"
  /\ mode' = [mode EXCEPT ![t] = "call"]
  /\ CpuUnchanged /\ UNCHANGED << registers, own >>

InCall(t) == Running(t, "call") \/ (Running(t, "return") /\ t \notin {ready[i] : i \in DOMAIN ready})

IncreasePC(r) == [r EXCEPT !.PrevPC = r.PC, !.PC = r.PC + 4, !.NextPC = r.PC + 8]

\* A case of the switch: the handler's work, the result in r2, IncreasePC.  The
\* one time that the handler may lose the processor stands for any number.
SystemCall(t) ==
  /\ InCall(t) /\ Instruction(t) \in Handled
  /\ \E result \in {-1, 0} :
       /\ registers' = IncreasePC([registers EXCEPT !.r2 = << result >>])
       /\ own' = [own EXCEPT ![t] = [PC |-> @.PC + 4, NextPC |-> @.PC + 8, PrevPC |-> @.PC,
                                     r2 |-> << result >>, SP |-> @.SP]]
  /\ mode' = [mode EXCEPT ![t] = "tick"]
  /\ CpuUnchanged

\* The other exceptions, SC_Halt and SC_Exit of process 0; and SC_Open of a type
\* that is neither 0 nor 1, which runs into ASSERTNOTREACHED.
Halt(t) ==
  /\ InCall(t) /\ Instruction(t) \in {"SC_Halt", "fault", "SC_Exit", "SC_Open"}
  /\ userMachine' = IF Instruction(t) = "SC_Open" THEN "aborted" ELSE "halted"
  /\ UNCHANGED << current, ready, mode, space, registers, userPageTable, userRegisters, own >>

\* SC_Exit of another process ends, if ExitWait is let go, in Thread::Finish.
Exit(t) ==
  /\ InCall(t) /\ Instruction(t) = "SC_Exit"
  /\ mode' = [mode EXCEPT ![t] = "finishing"]
  /\ CpuUnchanged /\ UNCHANGED << registers, own >>

\* The default case: nothing, not even IncreasePC.
DefaultCase(t) ==
  /\ InCall(t) /\ Instruction(t) \notin Handled \cup {"SC_Halt", "SC_Exit", "fault"}
  /\ mode' = [mode EXCEPT ![t] = "tick"]
  /\ CpuUnchanged /\ UNCHANGED << registers, own >>

Progress(t) == \/ TickYield(t) \/ TickReturn(t) \/ CallYield(t) \/ Sleep(t) \/ Execute(t)
               \/ OneInstruction(t) \/ RaiseException(t) \/ SystemCall(t) \/ Halt(t)
               \/ Exit(t) \/ DefaultCase(t)
UserNext == Dispatch \/ \E t \in UserThread : Progress(t) \/ ReadyToRun(t)

\* The processor does not stop, and a call that waits for the machine, not for
\* another program, is answered.
UserSpec ==
  /\ UserInit /\ [][UserNext /\ UNCHANGED program]_<< userVars, program >>
  /\ WF_userVars(Dispatch)
  /\ \A t \in UserThread : /\ WF_userVars(Progress(t))
                            /\ WF_userVars(CallOf(t) \in Driven /\ ReadyToRun(t))

-----------------------------------------------------------------------------
\* Whatever threads ran in between, new ones and finished ones included, a
\* program goes on with its own registers, the result of its own call and its
\* own page table (Scheduler::Run, Execute and the handler's writes).
UserStateKept ==
  mode[current] \in {"user", "tick"} =>
    registers = own[current] /\ userPageTable = current

\* The programs make only calls the kernel knows.
Answered == \A t \in UserThread : \A i \in DOMAIN program[t] :
              program[t][i] \in Handled \cup {"op", "SC_Halt", "SC_Exit", "fault"}

\* The thread is at its end, or sleeps in a call that only another program can
\* let go on.
Over(t) == \/ mode[t] \in {"finishing", "finished"}
           \/ mode[t] = "blocked" /\ CallOf(t) \notin Driven

\* Programs that make only calls the kernel knows get to their end, except those
\* that wait for others, unless the machine stops: no call is made again and
\* again, and nobody stays ready for ever (ExceptionHandler, Scheduler::Run).
ProgramsEnd ==
  <>[](Answered => userMachine # "running" \/ \A t \in UserThread : Over(t))

=============================================================================
