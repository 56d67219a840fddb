------------------------------- MODULE Switch -------------------------------
(***************************************************************************)
(* The context switch on x86: SWITCH and ThreadRoot of threads/switch.S    *)
(* with the stack that Thread::StackAllocate prepares, register by register *)
(* and word by word.  Code compiled from C is represented by what its calls *)
(* owe their caller: ebx, esi, edi, ebp and esp survive, the others do not; *)
(* its own frames are not on the stacks.                                   *)
(*                                                                         *)
(* A stack grows downwards from StackSize - 1 to 0.  A place in the code is *)
(* a pair: << "ThreadRoot", k >> before its call k + 1, << "in", k >> inside *)
(* that call, << "main", 0 >> in the first thread.                         *)
(***************************************************************************)
EXTENDS Integers, Sequences

CONSTANTS KernelThread,
          Main,          \* Main runs first, on the host's stack
          StackSize,
          Value          \* what computations leave in registers

\* There is room for the words SWITCH and ThreadRoot push.
ASSUME SwitchAssumption == StackSize \in Nat /\ StackSize > 10 /\ Main \in KernelThread

Register == {"eax", "ebx", "ecx", "edx", "esi", "edi", "ebp"}
CalleeSaved == {"ebx", "esi", "edi", "ebp"}
STACK_FENCEPOST == << "fence", 0 >>
ThreadRoot == << "ThreadRoot", 0 >>
ThreadBegin == << "ThreadBegin", 0 >>
ThreadFinish == << "ThreadFinish", 0 >>
func(t) == << "func", t >>
argument(t) == << "arg", t >>
Null == << "null", 0 >>

VARIABLES
  running,
  reg, esp, pc,   \* the processor
  stack,          \* the words of each thread's stack
  machineState,   \* what a Thread has saved: registers, esp and PC; << >> before Fork
  frame,          \* registers that the function ThreadRoot called will restore
  rootCalls,      \* what ThreadRoot has called, with the word on top of the stack
  left            \* the processor when the thread called SWITCH, << >> before

switchVars == << running, reg, esp, pc, stack, machineState, frame, rootCalls, left >>

SwitchInit ==
  /\ running = Main
  /\ reg = [r \in Register |-> Null] /\ esp = StackSize - 4 /\ pc = << "main", 0 >>
  /\ stack = [t \in KernelThread |-> [i \in 0 .. StackSize - 1 |-> Null]]
  /\ machineState = [t \in KernelThread |-> << >>] /\ frame = [t \in KernelThread |-> << >>]
  /\ rootCalls = [t \in KernelThread |-> << >>] /\ left = [t \in KernelThread |-> << >>]

\* StackAllocate: stackTop after "-4 to be on the safe side" and one push
stackTop == StackSize - 4 - 1

\* machineState as StackAllocate fills it in: PCReg aside, StartupPC,
\* InitialPC, InitialArg and WhenDonePC.
StartRegisters(t) ==
  [r \in Register |-> CASE r = "ecx" -> ThreadBegin [] r = "esi" -> func(t)
                        [] r = "edx" -> argument(t) [] r = "edi" -> ThreadFinish
                        [] OTHER -> Null]

\* Thread::Fork up to the ready list: StackAllocate.
Fork(t) ==
  /\ machineState[t] = << >> /\ t # Main
  /\ stack' = [stack EXCEPT ![t][stackTop] = ThreadRoot, ![t][0] = STACK_FENCEPOST]
  /\ machineState' = [machineState EXCEPT ![t] =
       << [reg |-> StartRegisters(t), esp |-> stackTop, pc |-> ThreadRoot] >>]
  /\ UNCHANGED << running, reg, esp, pc, frame, rootCalls, left >>

InC == pc[1] # "ThreadRoot"

Compute(v) ==
  /\ InC /\ reg' = [r \in Register |-> << r, v >>]
  /\ UNCHANGED << running, esp, pc, stack, machineState, frame, rootCalls, left >>

\* Mutant: edi is not saved.
SavedNoEdi(r, sp, ret) == [reg |-> [r EXCEPT !["edi"] = Null], esp |-> sp, pc |-> ret]

\* SWITCH, first half: what is stored in t1.
Saved(r, sp, ret) == [reg |-> r, esp |-> sp, pc |-> ret]

\* The call of SWITCH(running, t2), SWITCH, and the pop of the arguments where
\* it returns into C.  The copy of the PC goes to 4(%esp); ret takes 0(%esp).  A
\* thread that was woken while it idled in Sleep is switched to itself.
SWITCH(t2) ==
  LET t1 == running
      sp == esp - 3
      called == [stack EXCEPT ![t1][esp - 1] = << "thread", t2 >>, ![t1][esp - 2] = << "thread", t1 >>,
                              ![t1][sp] = pc]
      old == Saved(reg, sp, pc)
      new == IF t2 = t1 THEN old ELSE machineState[t2][1]
  IN /\ InC /\ (t2 = t1 \/ machineState[t2] # << >>)
     /\ machineState' = [machineState EXCEPT ![t1] = << old >>]
     /\ stack' = [called EXCEPT ![t2][new.esp + 1] = new.pc]
     /\ reg' = new.reg
     /\ pc' = called[t2][new.esp]
     /\ esp' = IF pc' = ThreadRoot THEN new.esp + 1 ELSE new.esp + 3
     /\ running' = t2
     /\ left' = [left EXCEPT ![t1] = << [reg |-> reg, esp |-> esp, pc |-> pc] >>]
     /\ UNCHANGED << frame, rootCalls >>

\* The registers through which ThreadRoot calls: StartupPC, InitialPC and
\* WhenDonePC.
Called(k) == << reg["ecx"], reg["esi"], reg["edi"] >>[k]

\* ThreadRoot up to and with its call number k.
RootCall ==
  LET k == pc[2] + 1
      sp == IF k = 1 THEN esp - 2 ELSE esp
      words == IF k = 1 THEN [stack[running] EXCEPT ![esp - 1] = reg["ebp"], ![sp] = reg["edx"]]
               ELSE stack[running]
      inRoot == IF k = 1 THEN [reg EXCEPT !["ebp"] = << "frame", running >>] ELSE reg
  IN /\ ~InC
     /\ stack' = [stack EXCEPT ![running] = [words EXCEPT ![sp - 1] = << "ThreadRoot", k >>]]
     /\ esp' = sp - 1 /\ pc' = << "in", k >> /\ reg' = inRoot
     /\ frame' = [frame EXCEPT ![running] = << inRoot >>]
     /\ rootCalls' = [rootCalls EXCEPT ![running] = Append(@, << Called(k), words[sp] >>)]
     /\ UNCHANGED << running, machineState, left >>

\* A function that ThreadRoot called returns; ThreadFinish does not.
Return ==
  /\ pc[1] = "in" /\ pc[2] < 3
  /\ reg' = [r \in Register |-> IF r \in CalleeSaved THEN frame[running][1][r] ELSE reg[r]]
  /\ pc' = stack[running][esp] /\ esp' = esp + 1
  /\ UNCHANGED << running, stack, machineState, frame, rootCalls, left >>

SwitchNext == \/ RootCall \/ Return
              \/ \E t \in KernelThread : Fork(t) \/ SWITCH(t)
              \/ \E v \in Value : Compute(v)
SwitchSpec == SwitchInit /\ [][SwitchNext]_switchVars

-----------------------------------------------------------------------------
\* SWITCH returns to a thread where that thread called it, with every register
\* as it was, however many threads ran in between, or none (SWITCH).
ResumesAsItWas ==
  [][/\ running' # running /\ left[running'] # << >> =>
          << [reg |-> reg', esp |-> esp', pc |-> pc'] >> = left[running']
     /\ SWITCH(running) => UNCHANGED << reg, esp, pc >>]_switchVars

\* A new thread calls ThreadBegin, its function with its argument, and
\* ThreadFinish, though it may be switched away inside each of them
\* (StackAllocate, ThreadRoot).
RunsInOrder ==
  \A t \in KernelThread :
    /\ Len(rootCalls[t]) <= 3
    /\ \A k \in DOMAIN rootCalls[t] :
         rootCalls[t][k] = << << ThreadBegin, func(t), ThreadFinish >>[k], argument(t) >>

\* What SWITCH writes above a stack pointer it restores is inside the stack,
\* and the fencepost that CheckOverflow looks at stands (StackAllocate, SWITCH).
InsideStack ==
  \A t \in KernelThread \ {Main} :
    machineState[t] # << >> => machineState[t][1].esp + 1 < StackSize /\ stack[t][0] = STACK_FENCEPOST

\* All of it: however threads are switched, each goes on where and as it left,
\* runs its three functions in order, and stays inside its stack (SWITCH,
\* ThreadRoot, StackAllocate).
SwitchResumes == ResumesAsItWas /\ [](RunsInOrder /\ InsideStack)

\* ThreadRoot expects eax to point to the "startup function (interrupt enable)",
\* says the comment above it in threads/switch.S.
StartupInEax == pc = ThreadRoot => reg["eax"] = ThreadBegin
=============================================================================
