-------------------------------- MODULE Cpu ---------------------------------
(***************************************************************************)
(* The simulated MIPS processor, machine/mipssim.cc: decoding of one       *)
(* instruction, its execution, the delayed load and the trap into the      *)
(* kernel (machine/machine.cc), with SIM_FIX defined as in the Makefile.   *)
(*                                                                         *)
(* A step fetches any word of Words: program text is not kept in mem, so   *)
(* the steps are those of every program over these words.  Registers hold  *)
(* words of Memory.tla; an instruction word is kept as its two 16-bit      *)
(* halves, << hi, lo >>, because TLC has no 32-bit unsigned integers.      *)
(***************************************************************************)
EXTENDS Memory, Bitwise, TLC

CONSTANTS GPReg,      \* the general registers instructions name, 0 among them
          Words,      \* instruction words the programs consist of
          RegValues,  \* initial values of registers 1 and 2
          Frames,     \* the page tables to start with, as sequences of frames
          Known,      \* system call codes ExceptionHandler has a case for
          MaxSteps    \* bound: how many instructions are executed

VARIABLES
  m,        \* the machine: registers, mainMemory and pageTable
  instr,    \* the decoded instruction (Run's `instr`)
  trap,     \* the exception that instruction raised, or "None"
  status,   \* "user", "halted" by the kernel, or "died": killed by the host
  steps     \* instructions executed, for the bound

vars == << m, instr, trap, status, steps >>

\* The registers above the general ones
HiReg == 32
LoReg == 33
PCReg == 34
NextPCReg == 35
PrevPCReg == 36
LoadReg == 37
LoadValueReg == 38
BadVAddrReg == 39
SpecialReg == HiReg .. BadVAddrReg

\* enum ExceptionType, and "HostTrap": the host kills the simulator.
ExceptionType == {"None", "Syscall", "PageFault", "ReadOnly", "BusError", "AddressError",
                  "Overflow", "IllegalInstr", "HostTrap"}

\* The OP_ constants; RFE is in no table.
Opcode ==
  {"ADD", "ADDI", "ADDIU", "ADDU", "AND", "ANDI", "BEQ", "BGEZ", "BGEZAL", "BGTZ", "BLEZ",
   "BLTZ", "BLTZAL", "BNE", "DIV", "DIVU", "J", "JAL", "JALR", "JR", "LB", "LBU", "LH", "LHU",
   "LUI", "LW", "LWL", "LWR", "MFHI", "MFLO", "MTHI", "MTLO", "MULT", "MULTU", "NOR", "OR",
   "ORI", "RFE", "SB", "SH", "SLL", "SLLV", "SLT", "SLTI", "SLTIU", "SLTU", "SRA", "SRAV",
   "SRL", "SRLV", "SUB", "SUBU", "SW", "SWL", "SWR", "XOR", "XORI", "SYSCALL", "UNIMP", "RES"}

\* class Instruction, decoded
Instruction == [op : Opcode \ {"RFE"}, rs : 0 .. 31, rt : 0 .. 31, rd : 0 .. 31, extra : Int]

-----------------------------------------------------------------------------
(* Instruction::Decode *)

\* opTable: the opcode of bits 31:26.
OpTable ==
  << "SPECIAL", "BCOND", "J", "JAL", "BEQ", "BNE", "BLEZ", "BGTZ",
     "ADDI", "ADDIU", "SLTI", "SLTIU", "ANDI", "ORI", "XORI", "LUI" >>
  \o [k \in 1 .. 16 |-> IF k <= 4 THEN "UNIMP" ELSE "RES"]
  \o << "LB", "LH", "LWL", "LW", "LBU", "LHU", "LWR", "RES",
        "SB", "SH", "SWL", "SW", "RES", "RES", "SWR", "RES" >>
  \o [k \in 1 .. 16 |-> IF (k - 1) % 8 < 4 THEN "UNIMP" ELSE "RES"]

\* specialTable: the opcode of the funct field of SPECIAL.
SpecialTable ==
  << "SLL", "RES", "SRL", "SRA", "SLLV", "RES", "SRLV", "SRAV",
     "JR", "JALR", "RES", "RES", "SYSCALL", "UNIMP", "RES", "RES",
     "MFHI", "MTHI", "MFLO", "MTLO", "RES", "RES", "RES", "RES",
     "MULT", "MULTU", "DIV", "DIVU", "RES", "RES", "RES", "RES",
     "ADD", "ADDU", "SUB", "SUBU", "AND", "OR", "XOR", "NOR",
     "RES", "RES", "SLT", "SLTU" >> \o [k \in 1 .. 20 |-> "RES"]

Decode(w) ==
  LET rt == w[1] % 32
      field == OpTable[w[1] \div 1024 + 1]
  IN [op |-> CASE field = "SPECIAL" -> SpecialTable[1 + (w[2] % 64)]
               [] field = "BCOND" -> CASE rt = 0 -> "BLTZ" [] rt = 1 -> "BGEZ"
                                       [] rt = 16 -> "BLTZAL" [] rt = 17 -> "BGEZAL"
                                       [] OTHER -> "UNIMP"
               [] OTHER -> field,
      rs |-> (w[1] \div 32) % 32, rt |-> rt, rd |-> w[2] \div 2048,
      extra |-> CASE field = "SPECIAL" -> (w[2] \div 64) % 32
                  [] field \in {"J", "JAL"} -> (w[1] % 1024) * 65536 + w[2]
                  [] OTHER -> IF w[2] >= 32768 THEN w[2] - 65536 ELSE w[2]]

-----------------------------------------------------------------------------
(* Machine::OneInstruction.  The operators below give what an instruction  *)
(* did to the machine mm when its case of the switch ends: registers,      *)
(* memory and page table, pcAfter, nextLoadReg and nextLoadValue, and the  *)
(* exception it raised with the bad address.                               *)

Go(mm, reg) ==
  [reg |-> reg, mem |-> mm.mem, pt |-> mm.pt, pcAfter |-> ToWord(mm.reg[NextPCReg] + 4),
   loadReg |-> 0, loadValue |-> 0, exc |-> "None", bad |-> 0]
Set(mm, r, v) == Go(mm, [mm.reg EXCEPT ![r] = v])
Raise(mm, which, bad) == [Go(mm, mm.reg) EXCEPT !.exc = which, !.bad = bad]
Flag(b) == IF b THEN 1 ELSE 0
Shl(w, n) == ToWord(w * 2 ^ n)
Sra(w, n) == ToWord(ToInt(w) \div 2 ^ n)
SameSign(a, b) == (a >= SignBit) <=> (b >= SignBit)

\* ADD, ADDI, ADDIU, ADDU, AND, ANDI
AddAnd(mm, i) ==
  LET rs == mm.reg[i.rs]  rt == mm.reg[i.rt]  imm == ToWord(i.extra) IN
  CASE i.op = "ADD" ->
         IF SameSign(rs, rt) /\ ~SameSign(rs, ToWord(rs + rt))
           THEN Raise(mm, "Overflow", 0) ELSE Set(mm, i.rd, ToWord(rs + rt))
    [] i.op = "ADDI" ->
         IF SameSign(rs, imm) /\ ~SameSign(imm, ToWord(rs + imm))
           THEN Raise(mm, "Overflow", 0) ELSE Set(mm, i.rt, ToWord(rs + imm))
    [] i.op = "ADDIU" -> Set(mm, i.rt, ToWord(rs + imm))
    [] i.op = "ADDU" -> Set(mm, i.rd, ToWord(rs + rt))
    [] i.op = "AND" -> Set(mm, i.rd, rs & rt)
    [] i.op = "ANDI" -> Set(mm, i.rt, rs & (imm % Half))

\* BEQ, BGEZ, BGEZAL, BGTZ, BLEZ, BLTZ, BLTZAL, BNE; the link register is
\* written before the condition is looked at.
Branch(mm, i) ==
  LET next == mm.reg[NextPCReg]
      r == IF i.op \in {"BGEZAL", "BLTZAL"}
             THEN Set(mm, 31, ToWord(next + 4)) ELSE Go(mm, mm.reg)
      rs == ToInt(r.reg[i.rs])
      taken == CASE i.op = "BEQ" -> rs = ToInt(r.reg[i.rt])
                 [] i.op = "BNE" -> rs # ToInt(r.reg[i.rt])
                 [] i.op \in {"BGEZ", "BGEZAL"} -> rs >= 0
                 [] i.op \in {"BLTZ", "BLTZAL"} -> rs < 0
                 [] i.op = "BGTZ" -> rs > 0
                 [] i.op = "BLEZ" -> rs <= 0
  IN IF taken THEN [r EXCEPT !.pcAfter = ToWord(next + 4 * i.extra)] ELSE r

\* The quotient of C's int division, rounded towards zero.
Quotient(a, b) ==
  LET abs(x) == IF x < 0 THEN -x ELSE x
      q == abs(a) \div abs(b)
  IN IF (a < 0) # (b < 0) THEN -q ELSE q

\* DIV, DIVU; dividing the least int by -1 is a trap on the host.
Divide(mm, i) ==
  LET sgn(w) == IF i.op = "DIV" THEN ToInt(w) ELSE w
      rs == sgn(mm.reg[i.rs])  rt == sgn(mm.reg[i.rt])
      q == IF rt = 0 THEN 0 ELSE Quotient(rs, rt)
      rem == IF rt = 0 THEN 0 ELSE rs - q * rt
  IN IF rs = -SignBit /\ rt = -1 THEN Raise(mm, "HostTrap", 0)
     ELSE Go(mm, [mm.reg EXCEPT ![LoReg] = ToWord(q), ![HiReg] = ToWord(rem)])

\* J, JAL, JALR, JR; JALR writes rd before it reads rs.
Jump(mm, i) ==
  LET next == mm.reg[NextPCReg]
      link == ToWord(next + 4)
      r == CASE i.op = "JAL" -> Set(mm, 31, link)
             [] i.op = "JALR" -> Set(mm, i.rd, link)
             [] OTHER -> Go(mm, mm.reg)
      top == Word \div 16
  IN [r EXCEPT !.pcAfter =
        IF i.op \in {"J", "JAL"} THEN (@ - (@ % top)) + ((4 * i.extra) % top)
        ELSE r.reg[i.rs]]

\* LB, LBU, LH, LHU, LUI, LW: the value goes to the load delay slot.
Load(mm, i) ==
  LET tmp == ToWord(mm.reg[i.rs] + i.extra)
      size == CASE i.op \in {"LB", "LBU"} -> 1 [] i.op \in {"LH", "LHU"} -> 2 [] OTHER -> 4
      r == ReadMem(mm.mem, mm.pt, tmp, size)
      value == CASE i.op = "LBU" -> r.value % Byte
                 [] i.op = "LH" -> IF 2 * r.value >= Half THEN ToWord(r.value - Half) ELSE r.value
                 [] OTHER -> r.value
  IN CASE i.op = "LUI" -> Set(mm, i.rt, ToWord(i.extra * Half))
       [] i.op # "LUI" /\ tmp % size # 0 -> Raise(mm, "AddressError", tmp)
       [] i.op # "LUI" /\ tmp % size = 0 ->
            IF r.exc # "None" THEN Raise(mm, r.exc, tmp)
            ELSE [Go(mm, mm.reg) EXCEPT !.pt = r.pt, !.loadReg = i.rt, !.loadValue = value]

\* LWL, LWR: merge part of the aligned word with rt, or with the value on
\* its way to rt.
LoadUnaligned(mm, i) ==
  LET tmp == ToWord(mm.reg[i.rs] + i.extra)
      byte == tmp % 4
      r == ReadMem(mm.mem, mm.pt, tmp - byte, 4)
      old == IF mm.reg[LoadReg] = i.rt THEN mm.reg[LoadValueReg] ELSE mm.reg[i.rt]
      value == IF i.op = "LWL"
                 THEN (old % Byte ^ (3 - byte)) + ToWord(r.value * Byte ^ (3 - byte))
                 ELSE (old - (old % Byte ^ (4 - byte))) + r.value \div Byte ^ byte
  IN IF r.exc # "None" THEN Raise(mm, r.exc, tmp - byte)
     ELSE [Go(mm, mm.reg) EXCEPT !.pt = r.pt, !.loadReg = i.rt, !.loadValue = value]

\* Mutant: the negation of the result does not carry into the high word.
MultNoCarry(a, b, signedArith) ==
  LET x == IF signedArith THEN ToInt(a) ELSE a  y == IF signedArith THEN ToInt(b) ELSE b
      p == (IF x < 0 THEN -x ELSE x) * (IF y < 0 THEN -y ELSE y)
  IN IF (x < 0) # (y < 0) THEN << Word - 1 - (p \div Word), ToWord(-p) >>
     ELSE << p \div Word, ToWord(p) >>

\* Mult: shift and add in two words; the loop is left early when no bit of
\* a is left, and the result is negated at the end.
Mult(a, b, signedArith) ==
  LET neg(w) == signedArith /\ w >= SignBit
      RECURSIVE loop(_, _, _, _, _, _)
      loop(k, x, bLo, bHi, lo, hi) ==
        LET lo2 == IF x % 2 = 1 THEN ToWord(lo + bLo) ELSE lo
            hi2 == IF x % 2 = 1 THEN ToWord(hi + Flag(lo2 < bLo) + bHi) ELSE hi
        IN IF k = 4 * ByteBits \/ x = 1 THEN << hi2, lo2 >>
           ELSE loop(k + 1, Sra(x, 1), Shl(bLo, 1), Shl(bHi, 1) + Flag(bLo >= SignBit), lo2, hi2)
      p == loop(1, IF neg(a) THEN ToWord(-a) ELSE a, IF neg(b) THEN ToWord(-b) ELSE b, 0, 0, 0)
      lo1 == ToWord(Word - p[2])
  IN IF a = 0 \/ b = 0 THEN << 0, 0 >>
     ELSE IF neg(a) # neg(b) THEN << ToWord((Word - 1 - p[1]) + Flag(lo1 = 0)), lo1 >>
     ELSE p

\* MFHI, MFLO, MTHI, MTLO, MULT, MULTU
HiLo(mm, i) ==
  LET rs == mm.reg[i.rs]  p == Mult(rs, mm.reg[i.rt], i.op = "MULT") IN
  CASE i.op = "MFHI" -> Set(mm, i.rd, mm.reg[HiReg])
    [] i.op = "MFLO" -> Set(mm, i.rd, mm.reg[LoReg])
    [] i.op = "MTHI" -> Set(mm, HiReg, rs)
    [] i.op = "MTLO" -> Set(mm, LoReg, rs)
    [] OTHER -> Go(mm, [mm.reg EXCEPT ![HiReg] = p[1], ![LoReg] = p[2]])

\* NOR, OR, ORI
NorOr(mm, i) ==
  LET rs == mm.reg[i.rs]  rt == mm.reg[i.rt] IN
  CASE i.op = "NOR" -> Set(mm, i.rd, Word - 1 - (rs | rt))
    [] i.op = "OR" -> Set(mm, i.rd, rs | rt)
    [] i.op = "ORI" -> Set(mm, i.rt, rs | (ToWord(i.extra) % Half))

\* SB, SH, SW
Store(mm, i) ==
  LET addr == ToWord(mm.reg[i.rs] + i.extra)
      size == CASE i.op = "SB" -> 1 [] i.op = "SH" -> 2 [] i.op = "SW" -> 4
      r == WriteMem(mm.mem, mm.pt, addr, size, mm.reg[i.rt])
  IN IF r.exc # "None" THEN Raise(mm, r.exc, addr)
     ELSE [Go(mm, mm.reg) EXCEPT !.pt = r.pt, !.mem = r.mem]

\* SLL to SUBU; SRL and SRLV shift the int tmp, so that copies of the sign
\* bit come in from the left, as for SRA and SRAV.
ShiftSetSub(mm, i) ==
  LET rs == mm.reg[i.rs]  rt == mm.reg[i.rt]
      n == rs % (4 * ByteBits)
      diff == ToWord(rs - rt)
  IN CASE i.op = "SLL" -> Set(mm, i.rd, Shl(rt, i.extra))
       [] i.op = "SLLV" -> Set(mm, i.rd, Shl(rt, n))
       [] i.op = "SLT" -> Set(mm, i.rd, Flag(ToInt(rs) < ToInt(rt)))
       [] i.op = "SLTI" -> Set(mm, i.rt, Flag(ToInt(rs) < i.extra))
       [] i.op = "SLTIU" -> Set(mm, i.rt, Flag(rs < ToWord(i.extra)))
       [] i.op = "SLTU" -> Set(mm, i.rd, Flag(rs < rt))
       [] i.op \in {"SRA", "SRL"} -> Set(mm, i.rd, Sra(rt, i.extra))
       [] i.op \in {"SRAV", "SRLV"} -> Set(mm, i.rd, Sra(rt, n))
       [] i.op = "SUB" -> IF ~SameSign(rs, rt) /\ ~SameSign(rs, diff)
                            THEN Raise(mm, "Overflow", 0) ELSE Set(mm, i.rd, diff)
       [] i.op = "SUBU" -> Set(mm, i.rd, diff)

\* SWL, SWR: read the aligned word, replace part of it, write it back.
StoreUnaligned(mm, i) ==
  LET tmp == ToWord(mm.reg[i.rs] + i.extra)
      byte == tmp % 4
      rt == mm.reg[i.rt]
      r == ReadMem(mm.mem, mm.pt, tmp - byte, 4)
      value == IF i.op = "SWL"
                 THEN (r.value - (r.value % Byte ^ (byte + 1))) + rt \div Byte ^ (3 - byte)
                 ELSE (r.value % Byte ^ byte) + ToWord(rt * Byte ^ byte)
      w == WriteMem(mm.mem, r.pt, tmp - byte, 4, value)
  IN CASE r.exc # "None" -> Raise(mm, r.exc, tmp - byte)
       [] r.exc = "None" /\ w.exc # "None" ->
            [Raise(mm, w.exc, tmp - byte) EXCEPT !.pt = r.pt]
       [] OTHER -> [Go(mm, mm.reg) EXCEPT !.pt = w.pt, !.mem = w.mem]

\* The switch of Machine::OneInstruction, with SYSCALL, XOR, XORI, RES, UNIMP.
Execute(mm, i) ==
  CASE i.op \in {"ADD", "ADDI", "ADDIU", "ADDU", "AND", "ANDI"} -> AddAnd(mm, i)
    [] i.op \in {"BEQ", "BGEZ", "BGEZAL", "BGTZ", "BLEZ", "BLTZ", "BLTZAL", "BNE"} -> Branch(mm, i)
    [] i.op \in {"DIV", "DIVU"} -> Divide(mm, i)
    [] i.op \in {"J", "JAL", "JALR", "JR"} -> Jump(mm, i)
    [] i.op \in {"LB", "LBU", "LH", "LHU", "LUI", "LW"} -> Load(mm, i)
    [] i.op \in {"LWL", "LWR"} -> LoadUnaligned(mm, i)
    [] i.op \in {"MFHI", "MFLO", "MTHI", "MTLO", "MULT", "MULTU"} -> HiLo(mm, i)
    [] i.op \in {"NOR", "OR", "ORI"} -> NorOr(mm, i)
    [] i.op \in {"SB", "SH", "SW"} -> Store(mm, i)
    [] i.op \in {"SLL", "SLLV", "SLT", "SLTI", "SLTIU", "SLTU", "SRA", "SRAV", "SRL", "SRLV",
                 "SUB", "SUBU"} -> ShiftSetSub(mm, i)
    [] i.op \in {"SWL", "SWR"} -> StoreUnaligned(mm, i)
    [] i.op = "SYSCALL" -> Raise(mm, "Syscall", 0)
    [] i.op = "XOR" -> Set(mm, i.rd, mm.reg[i.rs] ^^ mm.reg[i.rt])
    [] i.op = "XORI" -> Set(mm, i.rt, mm.reg[i.rs] ^^ (ToWord(i.extra) % Half))
    [] i.op \in {"RES", "UNIMP"} -> Raise(mm, "IllegalInstr", 0)

\* Machine::DelayedLoad
DelayedLoad(reg, nextReg, nextValue) ==
  [reg EXCEPT ![reg[LoadReg]] = reg[LoadValueReg],
              ![LoadReg] = nextReg, ![LoadValueReg] = nextValue, ![0] = 0]

\* Machine::RaiseException up to the call of ExceptionHandler.
RaiseException(reg, bad) == DelayedLoad([reg EXCEPT ![BadVAddrReg] = bad], 0, 0)

\* The program counters advance.
Advance(reg, pcAfter) ==
  [reg EXCEPT ![PrevPCReg] = reg[PCReg], ![PCReg] = reg[NextPCReg], ![NextPCReg] = pcAfter]

\* Mutant: the program counters advance before the trap.
CompleteSkips(r) ==
  [exc |-> r.exc,
   m |-> [reg |-> Advance(DelayedLoad(r.reg, r.loadReg, r.loadValue), r.pcAfter),
          mem |-> r.mem, pt |-> r.pt]]

\* The end of OneInstruction, when the switch gave r: the delayed load and the
\* program counters, or the trap.
Complete(r) ==
  [exc |-> r.exc,
   m |-> [reg |-> IF r.exc # "None" THEN RaiseException(r.reg, r.bad)
                  ELSE Advance(DelayedLoad(r.reg, r.loadReg, r.loadValue), r.pcAfter),
          mem |-> r.mem, pt |-> r.pt]]

\* Machine::OneInstruction, from the result of the fetch and as a whole.
Fetched(mm, i, fetch) ==
  IF fetch.exc # "None"
    THEN [exc |-> fetch.exc, m |-> [mm EXCEPT !.reg = RaiseException(@, mm.reg[PCReg])]]
    ELSE Complete(Execute([mm EXCEPT !.pt = fetch.pt], i))
OneInstruction(mm, i) == Fetched(mm, i, ReadMem(mm.mem, mm.pt, mm.reg[PCReg], 4))

-----------------------------------------------------------------------------

MemoryImage == [p \in 0 .. MemorySize - 1 |-> (p + p \div 4) % Byte]

\* Machine::Machine and AddrSpace::InitRegisters, once the program has put
\* values in registers 1 and 2.
Init ==
  /\ \E v \in RegValues, w \in RegValues, f \in Frames :
       m = [reg |-> [r \in GPReg \cup SpecialReg |->
                       CASE r = 1 -> v [] r = 2 -> w [] r = NextPCReg -> 4 [] OTHER -> 0],
            mem |-> MemoryImage,
            pt |-> [k \in 1 .. Len(f) |-> [physicalPage |-> f[k], valid |-> TRUE,
                       readOnly |-> FALSE, use |-> FALSE, dirty |-> FALSE]]]
  /\ instr = [op |-> "SLL", rs |-> 0, rt |-> 0, rd |-> 0, extra |-> 0]
  /\ trap = "None" /\ status = "user" /\ steps = 0

\* IncreasePC of userprog/ksyscall.h
IncreasePC(reg) ==
  [reg EXCEPT ![PrevPCReg] = reg[PCReg], ![PCReg] = ToWord(reg[PCReg] + 4),
              ![NextPCReg] = ToWord(reg[PCReg] + 8)]

\* What ExceptionHandler does that the processor sees, when an instruction gave
\* r: a fault halts the machine, a system call it knows leaves a result in
\* register 2 and advances the program counters, one it does not know returns
\* at once.
ExceptionHandler(r) ==
  LET code == r.m.reg[2] IN
  CASE r.exc = "None" -> m' = r.m /\ status' = "user"
    [] r.exc = "Syscall" ->
         IF code \in Known
           THEN /\ \E v \in RegValues : m' = [r.m EXCEPT !.reg = [IncreasePC(@) EXCEPT ![2] = v]]
                /\ status' = "user"
           ELSE m' = r.m /\ status' = IF code = 0 THEN "halted" ELSE "user"
    [] r.exc = "HostTrap" -> m' = m /\ status' = "died"
    [] OTHER -> m' = r.m /\ status' = "halted"

\* One turn of the loop of Machine::Run, without what OneTick adds when an
\* interrupt is due (CheckIfDue, which completes the delayed load).
Turn(i, r) ==
  /\ status = "user" /\ steps < MaxSteps
  /\ instr' = i /\ trap' = r.exc /\ steps' = steps + 1
  /\ ExceptionHandler(r)
Step(w) == Turn(Decode(w), OneInstruction(m, Decode(w)))

Next == \E w \in Words : Step(w)
Spec == Init /\ [][Next]_vars

TypeOK ==
  /\ m.reg \in [GPReg \cup SpecialReg -> 0 .. Word - 1] /\ m.reg[LoadReg] \in GPReg
  /\ m.mem \in [0 .. MemorySize - 1 -> 0 .. Byte - 1]
  /\ \A k \in DOMAIN m.pt : m.pt[k] \in TranslationEntry
  /\ instr \in Instruction /\ trap \in ExceptionType
  /\ status \in {"user", "halted", "died"} /\ steps \in 0 .. MaxSteps

\* What instr' finds in rs, and in rt or the immediate field.
Left == ToInt(m.reg[instr'.rs])
Right == IF instr'.op = "ADDI" THEN instr'.extra ELSE ToInt(m.reg[instr'.rt])
Dest == IF instr'.op = "ADDI" THEN instr'.rt ELSE instr'.rd

\* ADD, ADDI and SUB (mipssim.cc) trap exactly when the mathematical result
\* is no int, and store that result otherwise: the tests of sign bits after
\* the wrapped addition are neither too strict nor too lax at the edges.
ArithmeticExact ==
  [][instr'.op \in {"ADD", "ADDI", "SUB"} /\ trap' \in {"None", "Overflow"} =>
       LET exact == IF instr'.op = "SUB" THEN Left - Right ELSE Left + Right
       IN /\ (trap' = "Overflow") <=> (exact \notin -SignBit .. SignBit - 1)
          /\ (trap' = "None" /\ Dest \notin {0, m.reg[LoadReg]}) => ToInt(m'.reg[Dest]) = exact]_vars

\* MULT and MULTU leave the full double-word product in Hi and Lo: the
\* carries of the shift-and-add loop, its early exit and the final negation
\* (Mult of mipssim.cc) lose nothing, the least int included.
MultiplyExact ==
  [][/\ instr'.op = "MULT" /\ trap' = "None" =>
          ToInt(m'.reg[HiReg]) * Word + m'.reg[LoReg] = Left * Right
     /\ instr'.op = "MULTU" /\ trap' = "None" =>
          m'.reg[HiReg] * Word + m'.reg[LoReg] = m.reg[instr'.rs] * m.reg[instr'.rt]]_vars

Divides(a, b, q, r) ==
  q * b + r = a /\ r * a >= 0 /\ (IF r < 0 THEN -r ELSE r) < (IF b < 0 THEN -b ELSE b)

\* DIV and DIVU by a divisor other than 0 leave a quotient in Lo and a
\* remainder in Hi that make up the dividend, the remainder smaller than the
\* divisor and of the dividend's sign.
DivideExact ==
  [][/\ instr'.op = "DIV" /\ trap' = "None" /\ Right # 0 =>
          Divides(Left, Right, ToInt(m'.reg[LoReg]), ToInt(m'.reg[HiReg]))
     /\ instr'.op = "DIVU" /\ trap' = "None" /\ Right # 0 =>
          Divides(m.reg[instr'.rs], m.reg[instr'.rt], m'.reg[LoReg], m'.reg[HiReg])]_vars

\* SRL is the logical shift of the MIPS manual, zeros coming in from the left.
LogicalShift ==
  [][instr'.op = "SRL" /\ trap' = "None" /\ instr'.rd \notin {0, m.reg[LoadReg]} =>
       m'.reg[instr'.rd] = m.reg[instr'.rt] \div 2 ^ instr'.extra]_vars

\* Register 0 reads as zero after every instruction and every trap, although
\* the cases of OneInstruction write any destination they are given.
ZeroIsZero == m.reg[0] = 0

\* A fault is precise: it leaves memory, Hi, Lo and the program counters as
\* they were and every register too, except that the load that was in its
\* delay slot has arrived; so the instruction could be started again.
PreciseFaults ==
  [][trap' \notin {"None", "Syscall", "HostTrap"} =>
       /\ m'.mem = m.mem
       /\ \A r \in {HiReg, LoReg, PCReg, NextPCReg, PrevPCReg} : m'.reg[r] = m.reg[r]
       /\ \A r \in GPReg \ {0} :
            m'.reg[r] = IF r = m.reg[LoadReg] THEN m.reg[LoadValueReg] ELSE m.reg[r]
       /\ m'.reg[LoadReg] = 0]_vars

Phys(a) == m.pt[(a \div PageSize) + 1].physicalPage * PageSize + (a % PageSize)
Limit == Len(m.pt) * PageSize
Access(op, a) == [op |-> op, rs |-> 0, rt |-> 2, rd |-> 0, extra |-> a]
Nop == [op |-> "SLL", rs |-> 0, rt |-> 0, rd |-> 0, extra |-> 0]
Then(r, i) == IF r.exc = "None" THEN OneInstruction(r.m, i) ELSE r

\* r has loaded the word at address a into register 2, or stored it there and
\* nowhere else.
LoadsWord(a, r) ==
  r.exc = "None" =>
    r.m.reg[2] = m.mem[Phys(a)] + Byte * m.mem[Phys(a + 1)]
                 + Half * m.mem[Phys(a + 2)] + Half * Byte * m.mem[Phys(a + 3)]
StoresWord(a, r) ==
  r.exc = "None" =>
    /\ \A k \in 0 .. 3 : r.m.mem[Phys(a + k)] = (r.m.reg[2] \div Byte ^ k) % Byte
    /\ \A p \in DOMAIN m.mem : r.m.mem[p] # m.mem[p] => \E k \in 0 .. 3 : p = Phys(a + k)

\* LWL and LWR one after the other, in either order, load the word at any
\* address, aligned or not and across pages: the second merges with what the
\* first has not yet delivered.  SWL and SWR store register 2 at any address
\* and change no other byte.
UnalignedAccess ==
  \A a \in 0 .. Limit - 4, first \in {"L", "R"} :
    LET op(o, end) == Access(o \o end, IF end = "L" THEN a + 3 ELSE a)
        second == IF first = "L" THEN "R" ELSE "L"
        here == [exc |-> "None", m |-> m]
    IN /\ LoadsWord(a, Then(Then(Then(here, op("LW", first)), op("LW", second)), Nop))
       /\ m.reg[LoadReg] = 0 =>
            StoresWord(a, Then(Then(here, op("SW", first)), op("SW", second)))

\* The dirty bit is exact enough to page by: a page whose frame no longer
\* holds what was loaded is marked dirty and used, and no instruction
\* changes a frame the page table does not name.
ChangesAreMarked ==
  \A p \in DOMAIN m.mem : m.mem[p] # MemoryImage[p] =>
    \E k \in DOMAIN m.pt : m.pt[k].physicalPage = p \div PageSize /\ m.pt[k].dirty /\ m.pt[k].use

=============================================================================
