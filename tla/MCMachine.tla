----------------------------- MODULE MCMachine ------------------------------
(***************************************************************************)
(* The machine and what runs programs on it for TLC: Cpu, Switch, UserMode *)
(* and Loader.  In a behaviour one of them works, `part`, and the others   *)
(* stay as they start.                                                     *)
(***************************************************************************)
EXTENDS Memory, Switch, UserMode, TLC

CONSTANTS main, th1, th2, th3

VARIABLES part,
          m, instr, trap, status, steps,
          coff, section, noffH, body, coffStatus, frames, memory, addrLock, at, pageTable,
          loadMachine

-----------------------------------------------------------------------------
(* Cpu.  Bytes of two bits make words of eight, so that the edges of the   *)
(* integer range are few values away from zero; a program has two pages of *)
(* eight bytes, in frames out of order, and there is a third frame it must *)
(* not touch.                                                              *)

RType(funct, rs, rt, rd, shamt) == << rs * 32 + rt, rd * 2048 + shamt * 64 + funct >>
IType(op, rs, rt, imm) == << op * 1024 + rs * 32 + rt, imm % 65536 >>

\* Sequences of loads, stores, a branch, a jump, an addition that can trap or
\* write register 0, and the system call.
SeqWords ==
  {IType(op, 0, 2, 3) : op \in {32, 40}} \cup {IType(op, 0, 2, imm) : op \in {35, 43}, imm \in {3, 8}}
    \cup {IType(op, 0, 2, imm) : op \in {34, 38, 42, 46}, imm \in {3, 16}}
    \cup {RType(32, 1, 2, 0, 0), RType(32, 1, 2, 1, 0), IType(4, 0, 0, 1), RType(8, 1, 0, 0, 0),
          RType(12, 0, 0, 0, 0)}
SeqValues == {0, 4, 100}
TwoPages == {<< 2, 0 >>}

\* Single instructions: every SPECIAL function and every immediate opcode, on
\* registers 1 and 2.
OpWords ==
  {RType(f, 1, 2, 31, 3) : f \in 0 .. 63}
    \cup {IType(op, 1, 2, imm) : op \in 4 .. 63, imm \in {1, 7, -8}}
    \cup {IType(1, 1, rt, 1) : rt \in {0, 1, 2, 16, 17}}
    \cup {IType(op, 0, 0, 2) : op \in {2, 3}}
OpValues == {0, 1, 3, 6, 16, 127, 128, 129, 254, 255}

Regs == {0, 1, 2, 31}
Codes == {2, 4, 16}
Seqs == INSTANCE Cpu WITH GPReg <- Regs, Frames <- TwoPages, Known <- Codes,
                          Words <- SeqWords, RegValues <- SeqValues, MaxSteps <- 3
Ops == INSTANCE Cpu WITH GPReg <- Regs, Frames <- TwoPages, Known <- Codes,
                         Words <- OpWords, RegValues <- OpValues, MaxSteps <- 1

-----------------------------------------------------------------------------
(* UserMode: three programs that exit; three of which one faults, one      *)
(* opens a file and one halts the machine if it is signalled; and three of *)
(* which one makes a call that the kernel does not answer.                 *)

ExitingPrograms ==
  th1 :> << "op", "SC_Exec", "op", "SC_Exit" >> @@ th2 :> << "SC_Join", "op", "SC_Exit" >>
    @@ th3 :> << "SC_Read", "SC_Exit" >>
HaltingPrograms ==
  th1 :> << "SC_Open", "SC_Exit" >> @@ th2 :> << "op", "fault" >> @@ th3 :> << "SC_Wait", "SC_Halt" >>
UnansweredPrograms ==
  th1 :> << "op", "SC_Add", "SC_Exit" >> @@ th2 :> << "SC_Exit" >> @@ th3 :> << "SC_Read", "SC_Exit" >>

MCPrograms == {ExitingPrograms, HaltingPrograms, UnansweredPrograms}

-----------------------------------------------------------------------------
(* Loader: the files a linker with text at address 0 makes, sections of up *)
(* to three bytes, each behind the last, the .bss at the end, their        *)
(* headers in any order; some are cut short, have a bad magic number or a  *)
(* section nobody knows.                                                   *)

Scn(name, paddr, data) == [s_name |-> name, s_paddr |-> paddr, s_size |-> Len(data), data |-> data]
Bytes(from, n) == [i \in 1 .. n |-> from + i]
Linked(text, rdata, data, bss) ==
  << Scn(".text", 0, Bytes(10, text)), Scn(".rdata", text, Bytes(20, rdata)),
     Scn(".data", text + rdata, Bytes(30, data)),
     Scn(".bss", text + rdata + data, [i \in 1 .. bss |-> 0]) >>
Orders == {<< 1, 2, 3, 4 >>, << 4, 3, 1, 2 >>, << 3, 1, 4, 2 >>}
Good == {[magic |-> TRUE, sections |-> [i \in 1 .. 4 |-> Linked(t, r, d, b)[o[i]]]] :
           t \in 1 .. 3, r \in 0 .. 1, d \in 0 .. 2, b \in {0, 2}, o \in Orders}
Short(s) == [s EXCEPT !.data = SubSeq(@, 1, Len(@) - 1)]
NoProgram == [magic |-> FALSE, sections |-> << >>]
Bad == {NoProgram,
        [magic |-> TRUE, sections |-> << Short(Scn(".text", 0, << 11, 12 >>)) >>],
        [magic |-> TRUE, sections |-> << Scn(".sbss", 0, << 0 >>) >>]}

L == INSTANCE Loader
       WITH Coff <- Good \cup Bad, Process <- {th1, th2}, PageSize <- 2, NumPhysPages <- 8,
            UserStackSize <- 1, HeaderSize <- 4, status <- coffStatus, machine <- loadMachine

-----------------------------------------------------------------------------
cpuVars == << m, instr, trap, status, steps >>
loadVars == << coff, section, noffH, body, coffStatus, frames, memory, addrLock, at, pageTable,
               loadMachine >>
mcVars == << part, cpuVars, switchVars, program, userVars, loadVars >>

MCInit ==
  /\ part \in {"sequences", "instructions", "switch", "programs", "load"}
  /\ IF part = "instructions" THEN Ops!Init ELSE Seqs!Init
  /\ part \notin {"sequences", "instructions"} => m.reg[1] = 0 /\ m.reg[2] = 0
  /\ SwitchInit
  /\ UserInit /\ (part # "programs" => program = ExitingPrograms /\ current = th1 /\ ready[1] = th2)
  /\ L!Init /\ (part # "load" => coff = NoProgram)

MCNext ==
  /\ UNCHANGED << part, program >>
  /\ \/ part = "sequences" /\ Seqs!Next /\ UNCHANGED << switchVars, userVars, loadVars >>
     \/ part = "instructions" /\ Ops!Next /\ UNCHANGED << switchVars, userVars, loadVars >>
     \/ part = "switch" /\ SwitchNext /\ UNCHANGED << cpuVars, userVars, loadVars >>
     \/ part = "programs" /\ UserNext /\ UNCHANGED << cpuVars, switchVars, loadVars >>
     \/ part = "load" /\ L!Next /\ UNCHANGED << cpuVars, switchVars, userVars >>

\* The fairness of UserMode and Loader, each in the behaviours in which it works.
UserFairness ==
  /\ WF_userVars(part = "programs" /\ Dispatch)
  /\ \A t \in {th1, th2, th3} : /\ WF_userVars(part = "programs" /\ Progress(t))
                             /\ WF_userVars(part = "programs" /\ CallOf(t) \in Driven /\ ReadyToRun(t))
LoadFairness ==
  /\ WF_loadVars(/\ part = "load"
                 /\ \/ L!ReadHeaders \/ L!SkipSection \/ L!CopySection \/ L!BssSection
                    \/ L!UnknownSection \/ L!WriteHeader)
  /\ \A p \in {th1, th2} : /\ WF_loadVars(part = "load" /\ L!LoadOpen(p))
                         /\ WF_loadVars(part = "load" /\ L!LoadLock(p))
                         /\ WF_loadVars(part = "load" /\ L!LoadWork(p))

MCSpec == MCInit /\ [][MCNext]_mcVars /\ UserFairness /\ LoadFairness

-----------------------------------------------------------------------------
\* The properties of Cpu and Loader, those that belong together as one.

\* ADD, ADDI, SUB, MULT, MULTU, DIV and DIVU compute what integers do, and the
\* additions trap when the result is no int (mipssim.cc).
IntegersExact == Seqs!ArithmeticExact /\ Seqs!MultiplyExact /\ Seqs!DivideExact

\* Whichever two instructions were executed before, LWL and LWR load and SWL
\* and SWR store any word, aligned or not; and always register 0 is zero and a
\* page that was changed is marked dirty (OneInstruction, DelayedLoad,
\* Translate).
MemoryAccessRight ==
  /\ Seqs!TypeOK /\ Seqs!ZeroIsZero /\ Seqs!ChangesAreMarked
  /\ part = "sequences" /\ steps <= 2 => Seqs!UnalignedAccess

\* A fault is precise: it leaves memory, Hi, Lo and the program counters as
\* they were and every register too, except that the load that was in its
\* delay slot has arrived (OneInstruction, RaiseException).
PreciseFaults == Seqs!PreciseFaults

\* A process that runs sees the program the linker made, with room for its
\* stack, in frames of its own, and a Load fails only when memory is full
\* (coff2noff.c and AddrSpace::Load).
ProgramLoaded == L!ImageLoaded /\ L!RoomForAll /\ L!FramesApart /\ L!FailsOnlyWhenFull

\* Every process gets its program or the machine stops, and none waits forever
\* for addrLock; and programs that make only calls the kernel knows get to their
\* end or the machine stops, but for those that sleep in a Wait, Join or Exit
\* that no other program lets go on (StartProcess, AddrSpace::Load,
\* ExceptionHandler).
ProgramsLoadAndEnd ==
  <>[](/\ part = "load" =>
            loadMachine = "aborted" \/ \A p \in {th1, th2} : at[p] \in {"user", "exited"}
       /\ part = "programs" /\ Answered =>
            userMachine # "running" \/ \A t \in {th1, th2, th3} : Over(t))
=============================================================================
