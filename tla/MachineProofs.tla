---------------------------- MODULE MachineProofs ---------------------------
(***************************************************************************)
(* Proofs about what the machine keeps for a thread: UserMode, Disk and    *)
(* Switch.                                                                 *)
(*                                                                         *)
(* UserMode, for any threads and programs: the state of a program is in    *)
(* the machine if its thread is current, and in userRegisters otherwise.   *)
(*                                                                         *)
(* Disk, for any threads, sectors, geometry and times.  The lock: only the *)
(* thread that holds it is between the request and the release, and from   *)
(* where it stands follows whether the disk is active and what the         *)
(* semaphore's value is.  The head: the track buffer starts where a sector *)
(* starts, and no later than the request that started it ends.             *)
(*                                                                         *)
(* Switch, for any threads, stack size and values: the places a thread can *)
(* be in, each with the words its stack then holds, and for a thread that  *)
(* does not run the return address SWITCH finds.                           *)
(***************************************************************************)
EXTENDS UserMode, Disk, Switch, TLAPS

-----------------------------------------------------------------------------
(* User programs.                                                          *)

Mode == {"new", "user", "tick", "call", "return", "blocked", "finishing", "finished"}
Result == {<< n >> : n \in Int} \cup (UserThread \X Int)
Registers == [PC : Int, NextPC : Int, PrevPC : Int, r2 : Result, SP : Int]

UserTypes ==
  /\ current \in UserThread /\ ready \in Seq(UserThread)
  /\ mode \in [UserThread -> Mode] /\ space \subseteq UserThread
  /\ registers \in Registers
  /\ userRegisters \in [UserThread -> Registers] /\ own \in [UserThread -> Registers]

\* A thread has a space once it has executed its program.
SpaceFromExecute == \A t \in UserThread : t \in space <=> mode[t] # "new"

\* The processor holds the state of the current thread, if it has one, and
\* userRegisters that of every other.
StateIsSomewhere ==
  /\ current \in space => registers = own[current] /\ userPageTable = current
  /\ \A t \in space : t # current => userRegisters[t] = own[t]

UInv == UserTypes /\ SpaceFromExecute /\ StateIsSomewhere

LEMMA InitRegistersType == InitRegisters \in Registers
<1>1. SpaceSize - 16 \in Int
  BY UserAssumption
<1>2. << 0 >> \in Result
  BY DEF Result
<1> QED
  BY <1>1, <1>2 DEF InitRegisters, Registers

LEMMA UserInitInv == UserInit => UInv
<1> SUFFICES ASSUME UserInit PROVE UInv
  BY Zenon
<1> DEFINE n == Cardinality(UserThread) - 1
<1>1. n \in Nat
  BY UserAssumption
<1>2. ready \in [1 .. n -> UserThread]
  BY Zenon DEF UserInit
<1>3. ready \in Seq(UserThread)
  BY <1>1, <1>2
<1>4. registers \in Registers
  <2>1. << 0 >> \in Result
    BY DEF Result
  <2> QED
    BY <2>1 DEF UserInit, Registers
<1>5. UserTypes
  BY Zenon, <1>3, <1>4 DEF UserInit, UserTypes, Mode
<1> QED
  BY Zenon, <1>5 DEF UserInit, UInv, SpaceFromExecute, StateIsSomewhere

\* Scheduler::Run keeps everyone's state, whoever goes on, t itself included.
LEMMA RunKeeps ==
  ASSUME UInv, NEW next \in UserThread, Run(current, next),
         UNCHANGED << space, own >>, ready' \in Seq(UserThread),
         NEW m \in Mode, m # "new", mode[current] # "new",
         mode' = [mode EXCEPT ![current] = m]
  PROVE  UInv'
<1> USE DEF UInv, UserTypes
<1>1. userRegisters' \in [UserThread -> Registers]
  BY Zenon DEF Run, SaveUserState
<1>2. registers' \in Registers
  BY Zenon, <1>1 DEF Run, RestoreUserState
<1>3. UserTypes'
  BY Zenon, <1>1, <1>2 DEF Run
<1>4. SpaceFromExecute'
  BY Zenon DEF SpaceFromExecute
<1>5. \A t \in space : userRegisters'[t] = own[t]
  BY Zenon DEF Run, SaveUserState, StateIsSomewhere, SpaceFromExecute
<1>6. StateIsSomewhere'
  BY Zenon, <1>5 DEF Run, RestoreUserState, RestoreState, StateIsSomewhere
<1> QED
  BY Zenon, <1>3, <1>4, <1>6

LEMMA ReadyHead ==
  ASSUME ready \in Seq(UserThread), ready # << >>, NEW t \in UserThread
  PROVE  Head(ready) \in UserThread /\ Tail(ready) \in Seq(UserThread)
         /\ Append(Tail(ready), t) \in Seq(UserThread)
  OBVIOUS

\* A step of the current thread that leaves the processor to it.
LEMMA StaysCurrent ==
  ASSUME UInv, UNCHANGED << current, space, userPageTable, userRegisters >>,
         ready' \in Seq(UserThread), mode' \in [UserThread -> Mode], SpaceFromExecute',
         registers' \in Registers, own' \in [UserThread -> Registers],
         \A t \in UserThread : t # current => own'[t] = own[t],
         current \in space => registers' = own'[current]
  PROVE  UInv'
<1>1. UserTypes'
  BY Zenon DEF UInv, UserTypes
<1>2. StateIsSomewhere'
  BY Zenon DEF UInv, UserTypes, StateIsSomewhere
<1> QED
  BY Zenon, <1>1, <1>2 DEF UInv

LEMMA ComputedType ==
  ASSUME NEW r \in Registers, NEW t \in UserThread
  PROVE  Computed(t, r) \in Registers
<1> DEFINE v == << t, r.PC >>
<1>1. v \in Result
  BY Zenon DEF Registers, Result
<1>2. Computed(t, r) = [PC |-> r.NextPC, NextPC |-> r.NextPC + 4, PrevPC |-> r.PC, r2 |-> v, SP |-> r.SP]
  BY Zenon DEF Computed
<1> HIDE DEF v
<1> QED
  BY <1>1, <1>2 DEF Registers

\* What the handler leaves in the registers, written as one record.
LEMMA Returned ==
  ASSUME NEW r \in Registers, NEW n \in Int
  PROVE  /\ IncreasePC([r EXCEPT !.r2 = << n >>]) =
              [PC |-> r.PC + 4, NextPC |-> r.PC + 8, PrevPC |-> r.PC, r2 |-> << n >>, SP |-> r.SP]
         /\ IncreasePC([r EXCEPT !.r2 = << n >>]) \in Registers
<1> DEFINE v == << n >>
<1>1. v \in Result
  BY Zenon DEF Result
<1> HIDE DEF v
<1>2. IncreasePC([r EXCEPT !.r2 = v]) =
        [PC |-> r.PC + 4, NextPC |-> r.PC + 8, PrevPC |-> r.PC, r2 |-> v, SP |-> r.SP]
  <2> DEFINE q == [r EXCEPT !.r2 = v]
  <2>1. q \in Registers /\ q.PC = r.PC /\ q.r2 = v /\ q.SP = r.SP
    BY Zenon, <1>1 DEF Registers
  <2> HIDE DEF q
  <2>2. IncreasePC(q) = [PC |-> q.PC + 4, NextPC |-> q.PC + 8, PrevPC |-> q.PC, r2 |-> q.r2, SP |-> q.SP]
    <3> DEFINE x == IncreasePC(q)
               y == [PC |-> q.PC + 4, NextPC |-> q.PC + 8, PrevPC |-> q.PC, r2 |-> q.r2, SP |-> q.SP]
               q1 == [q EXCEPT !.PrevPC = q.PC]
               q2 == [q1 EXCEPT !.PC = q.PC + 4]
    <3>1. q1 \in Registers /\ q1.PrevPC = q.PC /\ q1.r2 = q.r2 /\ q1.SP = q.SP
      BY Zenon, <2>1 DEF Registers
    <3> HIDE DEF q1
    <3>2. q2 \in Registers /\ q2.PC = q.PC + 4 /\ q2.PrevPC = q.PC /\ q2.r2 = q.r2 /\ q2.SP = q.SP
      BY <2>1, <3>1 DEF Registers
    <3> HIDE DEF q2
    <3>3. x = [q2 EXCEPT !.NextPC = q.PC + 8]
      BY Zenon DEF IncreasePC, q1, q2
    <3> HIDE DEF x
    <3>4. x = y
      BY Zenon, <2>1, <3>2, <3>3 DEF Registers
    <3> QED
      BY Zenon, <3>4 DEF x
  <2> QED
    BY Zenon, <2>1, <2>2 DEF q
<1>3. [PC |-> r.PC + 4, NextPC |-> r.PC + 8, PrevPC |-> r.PC, r2 |-> v, SP |-> r.SP] \in Registers
  BY <1>1 DEF Registers
<1> QED
  BY Zenon, <1>2, <1>3 DEF v

LEMMA UserNextInv == UInv /\ [UserNext]_userVars => UInv'
<1> SUFFICES ASSUME UInv, [UserNext]_userVars PROVE UInv'
  BY Zenon
<1>t. /\ current \in UserThread /\ ready \in Seq(UserThread)
      /\ mode \in [UserThread -> Mode] /\ space \subseteq UserThread
      /\ registers \in Registers
      /\ userRegisters \in [UserThread -> Registers] /\ own \in [UserThread -> Registers]
  BY Zenon DEF UInv, UserTypes
<1>s. \A t \in UserThread : t \in space <=> mode[t] # "new"
  BY Zenon DEF UInv, SpaceFromExecute
<1>o. current \in space => registers = own[current]
  BY Zenon DEF UInv, StateIsSomewhere
<1>n. /\ "user" \in Mode /\ "tick" \in Mode /\ "call" \in Mode /\ "return" \in Mode
      /\ "blocked" \in Mode /\ "finishing" \in Mode
  BY Zenon DEF Mode
\* The mode of a thread with a space changes to one that is not "new".
<1>m. ASSUME NEW t \in UserThread, NEW n \in Mode, n # "new", mode[t] # "new",
             mode' = [mode EXCEPT ![t] = n], space' = space
      PROVE  mode' \in [UserThread -> Mode] /\ SpaceFromExecute'
  BY Zenon, <1>t, <1>s, <1>m DEF SpaceFromExecute
\* Nothing happens to the registers.
<1>q. ASSUME NEW t \in UserThread, NEW n \in Mode, n # "new", mode[t] # "new",
             mode' = [mode EXCEPT ![t] = n], ready' \in Seq(UserThread),
             UNCHANGED << current, space, registers, userPageTable, userRegisters, own >>
      PROVE  UInv'
  BY Zenon, <1>t, <1>o, <1>q, <1>m, StaysCurrent
<1>1. CASE Dispatch
  <2> DEFINE n == IF mode[current] = "finishing" THEN "finished" ELSE mode[current]
  <2>1. mode[current] # "new" /\ n \in Mode /\ n # "new"
    BY Zenon, <1>1, <1>t DEF Dispatch, Mode
  <2>2. mode' = [mode EXCEPT ![current] = n]
    BY Zenon, <1>1, <1>t DEF Dispatch
  <2> HIDE DEF n
  <2>3. Head(ready) \in UserThread /\ ready' \in Seq(UserThread) /\ Run(current, Head(ready))
    BY Zenon, <1>1, <1>t, ReadyHead DEF Dispatch
  <2>4. UNCHANGED << space, own >>
    BY Zenon, <1>1 DEF Dispatch
  <2> QED
    BY Zenon, <2>1, <2>2, <2>3, <2>4, RunKeeps
<1>2. CASE \E t \in UserThread : Progress(t) \/ ReadyToRun(t)
  <2> SUFFICES ASSUME NEW t \in UserThread, Progress(t) \/ ReadyToRun(t) PROVE UInv'
    BY Zenon, <1>2
  <2>y. ASSUME Yield(t), current = t, mode[t] # "new", NEW n \in Mode, n # "new",
               mode' = [mode EXCEPT ![t] = n]
        PROVE  UInv'
    <3>1. Head(ready) \in UserThread /\ ready' \in Seq(UserThread) /\ Run(current, Head(ready))
      BY Zenon, <1>t, <2>y, ReadyHead DEF Yield
    <3>2. UNCHANGED << space, own >>
      BY Zenon, <2>y DEF Yield
    <3> QED
      BY Zenon, <2>y, <3>1, <3>2, RunKeeps
  <2>1. CASE TickYield(t)
    BY Zenon, <1>n, <2>1, <2>y DEF TickYield, Running
  <2>2. CASE TickReturn(t)
    BY Zenon, <1>n, <1>t, <2>2, <1>q DEF TickReturn, Running, CpuUnchanged
  <2>3. CASE CallYield(t)
    BY Zenon, <1>n, <2>3, <2>y DEF CallYield, Running
  <2>4. CASE Sleep(t)
    BY Zenon, <1>n, <1>t, <2>4, <1>q DEF Sleep, Running, CpuUnchanged
  <2>5. CASE Execute(t)
    <3>1. UserTypes'
      BY Zenon, <1>n, <1>t, <2>5, InitRegistersType DEF Execute, UserTypes, Running
    <3>2. SpaceFromExecute'
      BY Zenon, <1>t, <1>s, <2>5 DEF Execute, SpaceFromExecute
    <3>3. StateIsSomewhere'
      BY Zenon, <1>t, <2>5 DEF Execute, Running, UInv, StateIsSomewhere
    <3> QED
      BY Zenon, <3>1, <3>2, <3>3 DEF UInv
  <2>6. CASE OneInstruction(t)
    <3> DEFINE c == Computed(t, registers)
    <3>1. c \in Registers
      BY Zenon, <1>t, ComputedType
    <3> HIDE DEF c
    <3>2. current = t /\ mode[t] = "user" /\ t \in space
      BY Zenon, <1>t, <1>s, <2>6 DEF OneInstruction, Running
    <3>3. registers' = c /\ own' = [own EXCEPT ![t] = c]
      BY Zenon, <1>t, <1>o, <2>6, <3>2 DEF OneInstruction, c
    <3>4. mode' \in [UserThread -> Mode] /\ SpaceFromExecute'
      BY Zenon, <1>n, <2>6, <3>2, <1>m DEF OneInstruction, CpuUnchanged
    <3> QED
      BY Zenon, <1>t, <2>6, <3>1, <3>2, <3>3, <3>4, StaysCurrent DEF OneInstruction, CpuUnchanged
  <2>7. CASE RaiseException(t)
    BY Zenon, <1>n, <1>t, <2>7, <1>q DEF RaiseException, Running, CpuUnchanged
  <2>8. CASE SystemCall(t)
    <3>1. current = t /\ mode[t] # "new" /\ t \in space
      BY Zenon, <1>t, <1>s, <2>8 DEF SystemCall, InCall, Running
    <3>2. PICK n \in {-1, 0} :
            /\ registers' = IncreasePC([registers EXCEPT !.r2 = << n >>])
            /\ own' = [own EXCEPT ![t] = [PC |-> @.PC + 4, NextPC |-> @.PC + 8, PrevPC |-> @.PC,
                                          r2 |-> << n >>, SP |-> @.SP]]
      BY Zenon, <2>8 DEF SystemCall
    <3> DEFINE c == IncreasePC([registers EXCEPT !.r2 = << n >>])
    <3>3. c \in Registers /\ c = [PC |-> registers.PC + 4, NextPC |-> registers.PC + 8,
                                  PrevPC |-> registers.PC, r2 |-> << n >>, SP |-> registers.SP]
      <4>1. n \in Int
        OBVIOUS
      <4> QED
        BY ZenonT(40), <1>t, <4>1, Returned
    <3>4. registers' = c
      BY Zenon, <3>2
    <3> HIDE DEF c
    <3>5. own' = [own EXCEPT ![t] = c]
      BY Zenon, <1>o, <3>1, <3>2, <3>3
    <3>6. mode' \in [UserThread -> Mode] /\ SpaceFromExecute'
      BY Zenon, <1>n, <2>8, <3>1, <1>m DEF SystemCall, CpuUnchanged
    <3> QED
      BY Zenon, <1>t, <2>8, <3>1, <3>3, <3>4, <3>5, <3>6, StaysCurrent DEF SystemCall, CpuUnchanged
  <2>9. CASE Halt(t)
    BY Zenon, <1>t, <1>o, <2>9, StaysCurrent DEF Halt, UInv, SpaceFromExecute
  <2>10. CASE Exit(t)
    BY Zenon, <1>n, <1>t, <2>10, <1>q DEF Exit, InCall, Running, CpuUnchanged
  <2>11. CASE DefaultCase(t)
    BY Zenon, <1>n, <1>t, <2>11, <1>q DEF DefaultCase, InCall, Running, CpuUnchanged
  <2>12. CASE ReadyToRun(t)
    <3>1. Append(ready, t) \in Seq(UserThread)
      BY <1>t
    <3> QED
      BY Zenon, <1>n, <1>t, <2>12, <3>1, <1>q DEF ReadyToRun
  <2> QED
    BY Zenon, <2>1, <2>2, <2>3, <2>4, <2>5, <2>6, <2>7, <2>8, <2>9, <2>10, <2>11, <2>12 DEF Progress
<1>3. CASE UNCHANGED userVars
  BY Zenon, <1>3 DEF userVars, UInv, UserTypes, SpaceFromExecute, StateIsSomewhere
<1> QED
  BY Zenon, <1>1, <1>2, <1>3 DEF UserNext

\* For any number of threads, programs and address space size: whatever ran in
\* between, a program goes on with its own registers, results and page table.
THEOREM UserStateCorrect == UserSpec => []UserStateKept
<1>1. UInv => UserStateKept
  BY Zenon DEF UInv, UserTypes, SpaceFromExecute, StateIsSomewhere, UserStateKept
<1>2. [UserNext /\ UNCHANGED program]_<< userVars, program >> => [UserNext]_userVars
  BY Zenon DEF userVars
<1> QED
  BY <1>1, <1>2, UserInitInv, UserNextInv, PTL DEF UserSpec

-----------------------------------------------------------------------------
(* The disk.                                                               *)

-----------------------------------------------------------------------------
(* Integer arithmetic.                                                     *)

LEMMA Euclid ==
  ASSUME NEW n \in Nat, NEW s \in Nat \ {0}
  PROVE  n = s * (n \div s) + (n % s) /\ n % s \in 0 .. s - 1 /\ n \div s \in Nat
  OBVIOUS

LEMMA EuclidUnique ==
  ASSUME NEW q \in Nat, NEW s \in Nat \ {0}, NEW r \in 0 .. s - 1
  PROVE  (s * q + r) % s = r /\ (s * q + r) \div s = q
  OBVIOUS

\* ModuloDiff: so many sectors after `from`, the sector `to` passes.
LEMMA ModuloDiffReaches ==
  ASSUME NEW to \in Nat, NEW from \in Nat
  PROVE  /\ ModuloDiff(to, from) \in 0 .. SectorsPerTrack - 1
         /\ (from + ModuloDiff(to, from)) % SectorsPerTrack = to % SectorsPerTrack
<1> DEFINE S == SectorsPerTrack
           x == to % S
           y == from % S
           q == from \div S
<1>1. S \in Nat \ {0}
  BY Zenon, DiskAssumption
<1>2. ModuloDiff(to, from) = ((x - y) + S) % S
  BY Zenon DEF ModuloDiff
<1> HIDE DEF S
<1>3. x \in 0 .. S - 1 /\ y \in 0 .. S - 1 /\ q \in Nat /\ from = S * q + y
  BY Zenon, <1>1, Euclid
<1> HIDE DEF x, y, q
<1>4. PICK d \in 0 .. S - 1, p \in Nat :
        ModuloDiff(to, from) = d /\ from + d = S * p + x
  <2>1. CASE x >= y
    <3>1. (x - y) + S = S * 1 + (x - y) /\ x - y \in 0 .. S - 1
      BY <1>1, <1>3, <2>1
    <3>2. (S * 1 + (x - y)) % S = x - y
      BY Zenon, <1>1, <3>1, EuclidUnique, 1 \in Nat
    <3>3. ModuloDiff(to, from) = x - y
      BY Zenon, <1>2, <3>1, <3>2
    <3>4. from + (x - y) = S * q + x
      BY <1>1, <1>3
    <3> QED
      BY Zenon, <1>3, <3>1, <3>3, <3>4
  <2>2. CASE x < y
    <3>1. (x - y) + S = S * 0 + ((x - y) + S) /\ (x - y) + S \in 0 .. S - 1
      BY <1>1, <1>3, <2>2
    <3>2. (S * 0 + ((x - y) + S)) % S = (x - y) + S
      BY Zenon, <1>1, <3>1, EuclidUnique, 0 \in Nat
    <3>3. ModuloDiff(to, from) = (x - y) + S
      BY Zenon, <1>2, <3>1, <3>2
    <3>4. from + ((x - y) + S) = S * (q + 1) + x /\ q + 1 \in Nat
      BY <1>1, <1>3
    <3> QED
      BY Zenon, <1>3, <3>1, <3>3, <3>4
  <2> QED
    BY <1>3, <2>1, <2>2
<1>5. (S * p + x) % S = x
  BY Zenon, <1>1, <1>3, EuclidUnique
<1>6. (from + d) % S = x
  BY Zenon, <1>4, <1>5
<1> QED
  BY Zenon, <1>4, <1>6 DEF x, S

LEMMA TimesMonotone ==
  ASSUME NEW s \in Nat \ {0}, NEW a \in Nat, NEW b \in Nat
  PROVE  s * a \in Nat /\ (a <= b <=> s * a <= s * b)
<1>1. s * a \in Nat /\ s * b \in Nat
  OBVIOUS
<1>2. a <= b => s * a <= s * b
  <2>1. a <= b => \E c \in Nat : b = a + c
    <3>1. a <= b => b - a \in Nat /\ b = a + (b - a)
      OBVIOUS
    <3> QED
      BY Zenon, <3>1
  <2>2. ASSUME NEW c \in Nat, b = a + c PROVE s * a <= s * b
    <3>1. s * b = s * a + s * c /\ s * c \in Nat
      BY <2>2
    <3> QED
      BY <1>1, <3>1
  <2> QED
    BY Zenon, <2>1, <2>2
<1>3. b < a => s * b < s * a
  <2>1. b < a => \E c \in Nat : a = b + 1 + c
    <3>1. b < a => a - b - 1 \in Nat /\ a = b + 1 + (a - b - 1)
      OBVIOUS
    <3> QED
      BY Zenon, <3>1
  <2>2. ASSUME NEW c \in Nat, a = b + 1 + c PROVE s * b < s * a
    <3>1. s * a = s * b + s + s * c /\ s * c \in Nat
      BY <2>2
    <3> QED
      BY <1>1, <3>1
  <2> QED
    BY Zenon, <2>1, <2>2
<1> QED
  BY <1>1, <1>2, <1>3

\* After the seek and the rotation a sector begins under the head.
LEMMA TimeToSeekAligned ==
  ASSUME totalTicks \in Nat, lastSector \in Nat, NEW s \in Nat
  PROVE  LET tts == TimeToSeek(s)
         IN /\ tts.seek \in Nat /\ tts.rotation \in 0 .. RotationTime - 1
            /\ \E a \in Nat : totalTicks + tts.seek + tts.rotation = RotationTime * a
<1> DEFINE R == RotationTime
           S == SectorsPerTrack
           seek == Abs((s \div S) - (lastSector \div S)) * SeekTime
           n == totalTicks + seek
           over == n % R
           rot == IF over > 0 THEN R - over ELSE 0
           q == n \div R
<1>1. R \in Nat \ {0} /\ S \in Nat \ {0} /\ SeekTime \in Nat \ {0}
  BY Zenon, DiskAssumption
<1>2. TimeToSeek(s).seek = seek /\ TimeToSeek(s).rotation = rot
  BY Zenon DEF TimeToSeek
<1>3. seek \in Nat
  <2>1. s \div S \in Nat /\ lastSector \div S \in Nat
    BY Zenon, <1>1, Euclid
  <2>2. Abs((s \div S) - (lastSector \div S)) \in Nat
    BY <2>1 DEF Abs
  <2> QED
    BY <1>1, <2>2
<1> HIDE DEF R, S, seek
<1>4. totalTicks + seek = R * q + over /\ over \in 0 .. R - 1 /\ q \in Nat
  <2>1. n \in Nat
    BY <1>3
  <2> HIDE DEF n
  <2>2. n = R * q + over /\ over \in 0 .. R - 1 /\ q \in Nat
    BY Zenon, <1>1, <2>1, Euclid
  <2> QED
    BY Zenon, <2>2 DEF n
<1> HIDE DEF over, q
<1>5. rot \in 0 .. R - 1
  BY <1>1, <1>4
<1>6. CASE over > 0
  <2>1. totalTicks + seek + rot = R * (q + 1) /\ q + 1 \in Nat
    BY <1>1, <1>3, <1>4, <1>6
  <2> QED
    BY Zenon, <1>2, <1>3, <1>5, <2>1 DEF R
<1>7. CASE over = 0
  <2>1. totalTicks + seek + rot = R * q
    BY <1>1, <1>3, <1>4, <1>7
  <2> QED
    BY Zenon, <1>2, <1>3, <1>4, <1>5, <2>1 DEF R
<1> QED
  BY <1>4, <1>6, <1>7

\* How long a request takes is enough: the head passes over the whole sector k
\* of the rotation before it ends, and not before the request was made or the
\* track buffer was started.
LEMMA LatencyCoversSector ==
  ASSUME totalTicks \in Nat, lastSector \in Nat,
         NEW b \in Nat, bufferInit = RotationTime * b, bufferInit <= totalTicks,
         NEW s \in Nat, NEW writing \in BOOLEAN
  PROVE  LET tts == TimeToSeek(s)
             init == IF tts.seek # 0 THEN totalTicks + tts.seek + tts.rotation ELSE bufferInit
             from == IF writing THEN totalTicks ELSE init
             end == totalTicks + ComputeLatency(s, writing)
         IN /\ end \in Nat /\ totalTicks <= end /\ init <= end
            /\ \E a \in Nat : init = RotationTime * a
            /\ \E k \in 0 .. (end \div RotationTime) :
                 /\ k % SectorsPerTrack = s % SectorsPerTrack
                 /\ k * RotationTime >= from /\ (k + 1) * RotationTime <= end
<1> DEFINE R == RotationTime
           T == totalTicks
           seek == TimeToSeek(s).seek
           rot == TimeToSeek(s).rotation
           after == T + seek + rot
           init == IF seek # 0 THEN after ELSE bufferInit
           from == IF writing THEN T ELSE init
           end == T + ComputeLatency(s, writing)
           buffered == ~writing /\ seek = 0
                       /\ ((after - bufferInit) \div R) > ModuloDiff(s, bufferInit \div R)
<1>1. R \in Nat \ {0} /\ T \in Nat
  BY Zenon, DiskAssumption
<1>2. seek \in Nat /\ rot \in 0 .. R - 1
  BY Zenon, TimeToSeekAligned
<1>3. PICK a \in Nat : after = R * a
  BY Zenon, TimeToSeekAligned
<1>4. ComputeLatency(s, writing) =
        IF buffered THEN R
        ELSE seek + rot + R + ModuloDiff(s, after \div R) * R
  BY Zenon DEF ComputeLatency
<1>5. bufferInit = R * b /\ bufferInit <= T
  BY Zenon
<1> HIDE DEF R, T, seek, rot, after
<1>6. after \in Nat /\ T <= after /\ after <= T + seek + rot
  BY <1>1, <1>2 DEF after
<1>7. a >= b /\ bufferInit \in Nat
  BY <1>1, <1>3, <1>5, <1>6, TimesMonotone
<1>8. after \div R = a /\ bufferInit \div R = b /\ (after - bufferInit) \div R = a - b
  <2>1. 0 \in 0 .. R - 1 /\ a - b \in Nat
    BY <1>1, <1>7
  <2>2. (R * a + 0) \div R = a /\ (R * b + 0) \div R = b /\ (R * (a - b) + 0) \div R = a - b
    BY Zenon, <1>1, <2>1, EuclidUnique
  <2>3. after = R * a + 0 /\ bufferInit = R * b + 0 /\ after - bufferInit = R * (a - b) + 0
    BY <1>1, <1>3, <1>5, <1>7
  <2> QED
    BY Zenon, <2>2, <2>3
<1>9. init = R * a \/ init = R * b
  BY Zenon, <1>3, <1>5
<1>10. init <= after
  BY <1>5, <1>6, <1>1
<1>11. \E k \in Nat : /\ k % SectorsPerTrack = s % SectorsPerTrack
                      /\ R * k >= from /\ R * (k + 1) <= end /\ end \in Nat
                      /\ init <= end /\ T <= end
  <2>1. CASE buffered
    <3> DEFINE d == ModuloDiff(s, b)
               k == b + d
    <3>1. d \in 0 .. SectorsPerTrack - 1 /\ k % SectorsPerTrack = s % SectorsPerTrack
      BY Zenon, ModuloDiffReaches
    <3>2. d \in Nat /\ a - b > d
      BY <1>8, <2>1, <3>1, DiskAssumption
    <3> HIDE DEF d
    <3>3. k \in Nat /\ k + 1 \in Nat /\ b <= k /\ k + 1 <= a
      BY <1>7, <3>2
    <3>4. end = T + R /\ from = bufferInit /\ init = bufferInit
      BY Zenon, <1>4, <2>1
    <3> HIDE DEF k
    <3>5. R * b <= R * k /\ R * (k + 1) <= R * a
      BY Zenon, <1>1, <3>3, TimesMonotone
    <3>6. after <= T + R
      BY <1>1, <1>2, <2>1 DEF after
    <3>7. R * k \in Nat /\ R * (k + 1) \in Nat
      BY Zenon, <1>1, <3>3, TimesMonotone
    <3>8. R * k >= from /\ R * (k + 1) <= end
      BY <1>1, <1>3, <1>5, <1>6, <1>7, <3>4, <3>5, <3>6, <3>7
    <3>9. end \in Nat /\ init <= end /\ T <= end
      BY <1>1, <1>5, <1>7, <3>4
    <3> QED
      BY Zenon, <3>1, <3>3, <3>8, <3>9 DEF k
  <2>2. CASE ~buffered
    <3> DEFINE d == ModuloDiff(s, a)
               k == a + d
    <3>1. d \in 0 .. SectorsPerTrack - 1 /\ k % SectorsPerTrack = s % SectorsPerTrack
      BY Zenon, ModuloDiffReaches
    <3>2. d \in Nat
      BY <3>1, DiskAssumption
    <3>3. end = T + (seek + rot + R + d * R)
      BY Zenon, <1>4, <1>8, <2>2
    <3> HIDE DEF d
    <3>4. k \in Nat /\ R * (k + 1) = R * a + R * d + R /\ R * k = R * a + R * d
      BY <1>1, <3>2
    <3>5. d * R = R * d /\ R * d \in Nat
      BY <1>1, <3>2
    <3>6. end = after + R + R * d
      BY <1>1, <1>2, <3>3, <3>5 DEF after
    <3> HIDE DEF k
    <3>7. R * k >= after /\ R * (k + 1) <= end /\ end \in Nat /\ after <= end
      BY <1>1, <1>3, <1>6, <3>4, <3>5, <3>6
    <3>8. from <= after
      BY Zenon, <1>6, <1>10
    <3>9. R * k \in Nat /\ init \in Nat /\ from \in Nat
      BY Zenon, <1>1, <1>6, <1>7, <3>4, TimesMonotone
    <3>10. R * k >= from /\ init <= end /\ T <= end
      BY <1>1, <1>6, <1>10, <3>7, <3>8, <3>9
    <3> QED
      BY Zenon, <3>1, <3>4, <3>7, <3>10 DEF k
  <2> QED
    BY Zenon, <2>1, <2>2
<1>12. PICK k \in Nat : /\ k % SectorsPerTrack = s % SectorsPerTrack
                        /\ R * k >= from /\ R * (k + 1) <= end /\ end \in Nat
                        /\ init <= end /\ T <= end
  BY Zenon, <1>11
<1> HIDE DEF end, from, init
<1>13. k \in 0 .. (end \div R)
  <2> DEFINE e == end \div R
  <2>1. end = R * e + (end % R) /\ end % R \in 0 .. R - 1 /\ e \in Nat
    BY Zenon, <1>1, <1>12, Euclid
  <2> HIDE DEF e
  <2>2. k <= e
    <3>1. SUFFICES ASSUME ~(k <= e) PROVE FALSE
      BY Zenon
    <3>2. e + 1 <= k /\ e + 1 \in Nat /\ k + 1 \in Nat
      BY <2>1, <3>1
    <3>3. R * (e + 1) <= R * k /\ R * k <= R * (k + 1)
      BY <1>1, <3>2, TimesMonotone, k <= k + 1
    <3>4. R * (e + 1) = R * e + R /\ R * e \in Nat /\ R * k \in Nat /\ R * (k + 1) \in Nat
      BY <1>1, <2>1, <3>2, TimesMonotone
    <3> QED
      BY <1>1, <1>12, <2>1, <3>3, <3>4
  <2> QED
    BY <2>1, <2>2 DEF e
<1>14. k * R = R * k /\ (k + 1) * R = R * (k + 1)
  BY <1>1
<1>15. \E c \in Nat : init = R * c
  BY Zenon, <1>9 DEF init
<1> QED
  BY Zenon, <1>12, <1>13, <1>14, <1>15 DEF R, T, seek, rot, after, init, from, end

-----------------------------------------------------------------------------
(* The inductive invariant.                                                *)

Place == {"out", "acquire", "request", "wait", "release"}
CallType == [writing : BOOLEAN, sector : Int, start : Nat, end : Nat]

TypeInv ==
  /\ totalTicks \in Nat /\ lastSector \in Nat /\ active \in BOOLEAN /\ due \in Nat
  /\ semaphore \in Nat
  /\ at \in [Thread -> Place] /\ call \in [Thread -> CallType]
  /\ \A t \in Thread : at[t] # "out" => call[t].sector \in Sector

\* The thread inside the lock, and what the disk and the semaphore are then.
LockInv ==
  /\ \A t \in Thread : at[t] \in {"request", "wait", "release"} => holder = t
  /\ (\A t \in Thread : at[t] \notin {"request", "wait", "release"})
       => holder = Nobody /\ ~active /\ semaphore = 0
  /\ \A t \in Thread :
       /\ at[t] = "request" => ~active /\ semaphore = 0
       /\ at[t] = "wait" =>
            \/ active /\ semaphore = 0 /\ due = call[t].end
            \/ ~active /\ semaphore = 1 /\ totalTicks >= call[t].end
       /\ at[t] = "release" => ~active /\ semaphore = 0 /\ totalTicks >= call[t].end

HeadInv ==
  /\ bufferInit \in Nat /\ bufferInit % RotationTime = 0
  /\ active => bufferInit <= due
  /\ ~active => bufferInit <= totalTicks

DInv == TypeInv /\ LockInv /\ HeadInv /\ DataUnderHead

LEMMA InitDInv == Init => DInv
<1> SUFFICES ASSUME Init PROVE DInv
  BY Zenon
<1>1. TypeInv
  <2>1. NoCall \in CallType
    BY DEF NoCall, MakeCall, CallType
  <2> QED
    BY Zenon, <2>1 DEF Init, TypeInv, Place
<1>2. LockInv
  BY Zenon DEF Init, LockInv
<1>3. HeadInv
  <2>1. RotationTime \in Nat \ {0} /\ 0 \in 0 .. RotationTime - 1 /\ 0 = RotationTime * 0 + 0
    BY DiskAssumption
  <2>2. 0 % RotationTime = 0
    BY <2>1, EuclidUnique, 0 \in Nat
  <2> QED
    BY <2>2 DEF Init, HeadInv
<1>4. DataUnderHead
  BY Zenon DEF Init, DataUnderHead
<1> QED
  BY Zenon, <1>1, <1>2, <1>3, <1>4 DEF DInv

LEMMA EnterDInv ==
  ASSUME DInv, NEW t \in Thread, Enter(t)
  PROVE  DInv'
<1> USE DEF DInv, TypeInv
<1>1. PICK w \in BOOLEAN, s \in Sector : call' = [call EXCEPT ![t] = MakeCall(w, s)]
  BY Zenon DEF Enter
<1>2. /\ at[t] = "out" /\ at' = [at EXCEPT ![t] = "acquire"]
      /\ UNCHANGED << totalTicks, lastSector, bufferInit, active, due, data, holder, semaphore >>
  BY Zenon DEF Enter, diskVars
<1>3. MakeCall(w, s) \in CallType /\ MakeCall(w, s).sector = s
  BY DiskAssumption DEF MakeCall, CallType
<1>4. call' = [call EXCEPT ![t] = MakeCall(w, s)]
  BY Zenon, <1>1
<1>5. TypeInv'
  BY Zenon, <1>2, <1>3, <1>4 DEF Place
<1>6. LockInv'
  BY Zenon, <1>2, <1>4 DEF LockInv
<1>7. HeadInv'
  BY Zenon, <1>2 DEF HeadInv
<1>8. \A u \in Thread : at'[u] = "wait" => at[u] = "wait" /\ call'[u] = call[u]
  BY Zenon, <1>2, <1>4
<1>9. DataUnderHead'
  BY Zenon, <1>2, <1>8 DEF DataUnderHead
<1> QED
  BY Zenon, <1>5, <1>6, <1>7, <1>9

LEMMA AcquireDInv ==
  ASSUME DInv, NEW t \in Thread, Acquire(t)
  PROVE  DInv'
<1> USE DEF DInv, TypeInv
<1>1. /\ at[t] = "acquire" /\ holder = Nobody /\ holder' = t
      /\ at' = [at EXCEPT ![t] = "request"]
      /\ UNCHANGED << totalTicks, lastSector, bufferInit, active, due, call, semaphore >>
  BY Zenon DEF Acquire, diskVars
<1>2. TypeInv'
  BY Zenon, <1>1 DEF Place
<1>3. LockInv'
  BY Zenon, <1>1, DiskAssumption DEF LockInv
<1>4. HeadInv'
  BY Zenon, <1>1 DEF HeadInv
<1>5. DataUnderHead'
  BY Zenon, <1>1 DEF DataUnderHead
<1> QED
  BY Zenon, <1>2, <1>3, <1>4, <1>5

LEMMA RequestDInv ==
  ASSUME DInv, NEW t \in Thread, Request(t)
  PROVE  DInv'
<1> USE DEF DInv, TypeInv
<1> DEFINE s == call[t].sector
           w == call[t].writing
           end == totalTicks + ComputeLatency(s, w)
           tts == TimeToSeek(s)
           init == IF tts.seek # 0 THEN totalTicks + tts.seek + tts.rotation ELSE bufferInit
           from == IF w THEN totalTicks ELSE init
           new == [call[t] EXCEPT !.start = totalTicks, !.end = end]
<1>1. /\ at[t] = "request" /\ ~active /\ active' = TRUE /\ due' = end
      /\ bufferInit' = init /\ lastSector' = s
      /\ call' = [call EXCEPT ![t] = new]
      /\ at' = [at EXCEPT ![t] = "wait"]
      /\ UNCHANGED << totalTicks, holder, semaphore >>
  BY Zenon DEF Request, UpdateLast
<1>2. s \in Nat /\ s \in Sector /\ w \in BOOLEAN
  BY Zenon, <1>1, DiskAssumption DEF CallType
<1>3. RotationTime \in Nat \ {0}
  BY Zenon, DiskAssumption
<1>4. PICK b \in Nat : bufferInit = RotationTime * b
  <2> DEFINE q == bufferInit \div RotationTime
  <2>1. bufferInit = RotationTime * q + 0 /\ q \in Nat
    BY Zenon, <1>3, Euclid DEF HeadInv
  <2> HIDE DEF q
  <2>2. RotationTime * q + 0 = RotationTime * q
    BY <1>3, <2>1
  <2> QED
    BY Zenon, <2>1, <2>2
<1>5. bufferInit <= totalTicks
  BY Zenon, <1>1 DEF HeadInv
<1>6. /\ end \in Nat /\ totalTicks <= end /\ init <= end
      /\ \E a \in Nat : init = RotationTime * a
      /\ \E k \in 0 .. (end \div RotationTime) :
           /\ k % SectorsPerTrack = s % SectorsPerTrack
           /\ k * RotationTime >= from /\ (k + 1) * RotationTime <= end
  BY Zenon, <1>2, <1>4, <1>5, LatencyCoversSector
<1> HIDE DEF end, init, tts, from
<1>7. init \in Nat /\ init % RotationTime = 0
  <2>1. PICK a \in Nat : init = RotationTime * a
    BY Zenon, <1>6
  <2>2. (RotationTime * a + 0) % RotationTime = 0 /\ RotationTime * a + 0 = RotationTime * a
        /\ RotationTime * a \in Nat
    BY <1>3, EuclidUnique, 0 \in 0 .. RotationTime - 1
  <2> QED
    BY Zenon, <2>1, <2>2
<1>8. /\ new \in CallType /\ new.sector = s /\ new.writing = w
      /\ new.start = totalTicks /\ new.end = end
  BY Zenon, <1>6 DEF CallType
<1> HIDE DEF new, s, w
<1>9. TypeInv'
  BY Zenon, <1>1, <1>2, <1>6, <1>8 DEF Place
<1>10. holder = t /\ \A u \in Thread : u # t => at[u] \notin {"request", "wait", "release"}
  BY Zenon, <1>1 DEF LockInv
<1>11. LockInv'
  BY Zenon, <1>1, <1>8, <1>10 DEF LockInv
<1>12. HeadInv'
  BY Zenon, <1>1, <1>6, <1>7 DEF HeadInv
<1>13. DataUnderHead'
  <2>1. \A u \in Thread : at'[u] = "wait" => u = t
    BY Zenon, <1>1, <1>10
  <2>2. call'[t] = new
    BY Zenon, <1>1
  <2>3. /\ call'[t].end = end /\ call'[t].sector = s
        /\ from = IF call'[t].writing THEN call'[t].start ELSE bufferInit'
    BY Zenon, <1>1, <1>8, <2>2 DEF from
  <2> QED
    BY Zenon, <1>6, <2>1, <2>3 DEF DataUnderHead
<1> QED
  BY Zenon, <1>9, <1>11, <1>12, <1>13

LEMMA WaitDInv ==
  ASSUME DInv, NEW t \in Thread, Wait(t)
  PROVE  DInv'
<1> USE DEF DInv, TypeInv
<1>1. /\ at[t] = "wait" /\ semaphore > 0 /\ semaphore' = semaphore - 1
      /\ at' = [at EXCEPT ![t] = "release"]
      /\ UNCHANGED << totalTicks, lastSector, bufferInit, active, due, call, holder >>
  BY Zenon DEF Wait, diskVars
<1>2. ~active /\ semaphore = 1 /\ totalTicks >= call[t].end /\ holder = t
  BY <1>1 DEF LockInv
<1>3. TypeInv'
  BY <1>1, <1>2 DEF Place
<1>4. LockInv'
  BY <1>1, <1>2 DEF LockInv
<1>5. HeadInv'
  BY Zenon, <1>1 DEF HeadInv
<1>6. DataUnderHead'
  BY Zenon, <1>1 DEF DataUnderHead
<1> QED
  BY Zenon, <1>3, <1>4, <1>5, <1>6

LEMMA ReleaseDInv ==
  ASSUME DInv, NEW t \in Thread, Release(t)
  PROVE  DInv'
<1> USE DEF DInv, TypeInv
<1>1. /\ at[t] = "release" /\ holder' = Nobody /\ at' = [at EXCEPT ![t] = "out"]
      /\ UNCHANGED << totalTicks, lastSector, bufferInit, active, due, call, semaphore >>
  BY Zenon DEF Release, diskVars
<1>2. holder = t /\ ~active /\ semaphore = 0
  BY Zenon, <1>1 DEF LockInv
<1>3. TypeInv'
  BY Zenon, <1>1 DEF Place
<1>4. LockInv'
  BY Zenon, <1>1, <1>2 DEF LockInv
<1>5. HeadInv'
  BY Zenon, <1>1 DEF HeadInv
<1>6. DataUnderHead'
  BY Zenon, <1>1 DEF DataUnderHead
<1> QED
  BY Zenon, <1>3, <1>4, <1>5, <1>6

LEMMA CallBackDInv ==
  ASSUME DInv, CallBack
  PROVE  DInv'
<1> USE DEF DInv, TypeInv
<1>1. /\ active /\ totalTicks >= due /\ active' = FALSE /\ semaphore' = semaphore + 1
      /\ UNCHANGED << totalTicks, lastSector, bufferInit, due, holder, at, call >>
  BY Zenon DEF CallBack
<1>2. TypeInv'
  <2>1. semaphore' \in Nat
    BY <1>1
  <2>2. active' \in BOOLEAN
    BY Zenon, <1>1
  <2> QED
    BY Zenon, <1>1, <2>1, <2>2
<1>3. LockInv'
  BY <1>1 DEF LockInv
<1>4. HeadInv'
  BY <1>1 DEF HeadInv
<1>5. DataUnderHead'
  BY Zenon, <1>1 DEF DataUnderHead
<1> QED
  BY Zenon, <1>2, <1>3, <1>4, <1>5

LEMMA TickDInv ==
  ASSUME DInv, Tick
  PROVE  DInv'
<1> USE DEF DInv, TypeInv
<1>1. /\ totalTicks' = totalTicks + 1
      /\ UNCHANGED << lastSector, bufferInit, active, due, holder, semaphore, at, call >>
  BY Zenon DEF Tick, synchVars
<1>2. TypeInv'
  BY <1>1
<1>3. \A t \in Thread : call[t].end \in Nat
  BY Zenon DEF CallType
<1>4. LockInv'
  BY <1>1, <1>3 DEF LockInv
<1>5. HeadInv'
  BY <1>1 DEF HeadInv
<1>6. DataUnderHead'
  BY Zenon, <1>1 DEF DataUnderHead
<1> QED
  BY Zenon, <1>2, <1>4, <1>5, <1>6

LEMMA NextDInv == DInv /\ [Next]_vars => DInv'
<1> SUFFICES ASSUME DInv, [Next]_vars PROVE DInv'
  BY Zenon
<1>1. ASSUME NEW t \in Thread,
             Enter(t) \/ Acquire(t) \/ Request(t) \/ Wait(t) \/ Release(t)
      PROVE  DInv'
  BY Zenon, <1>1, EnterDInv, AcquireDInv, RequestDInv, WaitDInv, ReleaseDInv
<1>2. CASE CallBack \/ Tick
  BY Zenon, <1>2, CallBackDInv, TickDInv
<1>3. CASE UNCHANGED vars
  BY Zenon, <1>3 DEF vars, diskVars, synchVars, DInv, TypeInv, LockInv, HeadInv, DataUnderHead
<1> QED
  BY Zenon, <1>1, <1>2, <1>3 DEF Next

LEMMA AlwaysDInv == Spec => []DInv
  BY InitDInv, NextDInv, PTL DEF Spec

\* No thread finds the disk busy, and ReadSector and WriteSector return on the
\* interrupt of their own request, for any threads and any delays of the disk.
THEOREM DiskServesRequests == Spec => []RequestsServed
<1>1. DInv => RequestsServed
  BY Zenon DEF DInv, LockInv, RequestsServed, OneRequestAtATime, ReturnsAfterItsOwn
<1> QED
  BY <1>1, AlwaysDInv, PTL

\* What ComputeLatency says a request takes is long enough for the sector to
\* pass under the head, for every geometry of the disk.
THEOREM DiskLatencySuffices == Spec => []DataUnderHead
<1>1. DInv => DataUnderHead
  BY Zenon DEF DInv
<1> QED
  BY <1>1, AlwaysDInv, PTL

-----------------------------------------------------------------------------
(* The context switch.                                                     *)

\* Words, the registers of the processor, what a Thread has saved, and stacks.
Tag == Register \cup {"main", "ThreadRoot", "in", "ThreadBegin", "ThreadFinish", "null", "fence",
                        "func", "arg", "thread", "frame"}
Word == Tag \X (KernelThread \cup Value \cup Int)
RegisterFile == [Register -> Word]
Context == [reg : RegisterFile, esp : Int, pc : Word]
StackWords == [0 .. StackSize - 1 -> Word]

\* What ThreadRoot has called when it is inside or behind call number k.
CallsDone(t, k) ==
  [i \in 1 .. k |-> << << ThreadBegin, func(t), ThreadFinish >>[i], argument(t) >>]

\* Where a thread with registers r, stack pointer e, next instruction p, stack
\* st, function frame fr and history cl of calls can be: the first thread in
\* C; before the first instruction of ThreadRoot; in ThreadRoot behind call
\* number k; inside call number k.
InMain(t, e, p, cl) == t = Main /\ p = << "main", 0 >> /\ e = StackSize - 4 /\ cl = << >>
AtStart(t, r, e, p, cl) ==
  t # Main /\ p = ThreadRoot /\ e = StackSize - 4 /\ r = StartRegisters(t) /\ cl = << >>
Behind(t, r, e, p, st, cl, k) ==
  /\ t # Main /\ p = << "ThreadRoot", k >> /\ e = StackSize - 6
  /\ r["esi"] = func(t) /\ r["edi"] = ThreadFinish /\ st[StackSize - 6] = argument(t)
  /\ cl = CallsDone(t, k)
Inside(t, e, p, st, fr, cl, k) ==
  /\ t # Main /\ p = << "in", k >> /\ e = StackSize - 7
  /\ st[StackSize - 7] = << "ThreadRoot", k >> /\ st[StackSize - 6] = argument(t)
  /\ fr # << >> /\ fr[1]["esi"] = func(t) /\ fr[1]["edi"] = ThreadFinish
  /\ cl = CallsDone(t, k)

\* In C, and anywhere.
Compiled(t, e, p, st, fr, cl) ==
  InMain(t, e, p, cl) \/ \E k \in 1 .. 3 : Inside(t, e, p, st, fr, cl, k)
InPlace(t, r, e, p, st, fr, cl) ==
  \/ Compiled(t, e, p, st, fr, cl)
  \/ AtStart(t, r, e, p, cl)
  \/ \E k \in 1 .. 2 : Behind(t, r, e, p, st, cl, k)

\* A thread that does not run: not forked yet; forked and never run; or it
\* left in SWITCH, whose return address is on its stack.
Fresh(t, ms, st, lf, cl) ==
  /\ t # Main /\ lf = << >> /\ cl = << >> /\ st[stackTop] = ThreadRoot
  /\ ms = << Saved(StartRegisters(t), stackTop, ThreadRoot) >>
Gone(t, ms, st, fr, lf, cl) ==
  \E l \in Context : /\ lf = << l >> /\ ms = << Saved(l.reg, l.esp - 3, l.pc) >>
                     /\ st[l.esp - 3] = l.pc /\ Compiled(t, l.esp, l.pc, st, fr, cl)
Parked(t, ms, st, fr, lf, cl) ==
  \/ t # Main /\ ms = << >> /\ lf = << >> /\ cl = << >>
  \/ Fresh(t, ms, st, lf, cl)
  \/ Gone(t, ms, st, fr, lf, cl)

\* The saved stack pointer is in the stack, and the fencepost stands.
Fenced(t, ms, st) ==
  ms # << >> => ms[1].esp <= StackSize - 5 /\ (t # Main => st[0] = STACK_FENCEPOST)

SwitchTypes ==
  /\ running \in KernelThread /\ reg \in RegisterFile /\ esp \in Int /\ pc \in Word
  /\ stack \in [KernelThread -> StackWords]
  /\ machineState \in [KernelThread -> Seq(Context)]
  /\ frame \in [KernelThread -> Seq(RegisterFile)]
  /\ rootCalls \in [KernelThread -> Seq(Word \X Word)]
  /\ left \in [KernelThread -> Seq(Context)]

SwInv ==
  /\ SwitchTypes
  /\ InPlace(running, reg, esp, pc, stack[running], frame[running], rootCalls[running])
  /\ running # Main => machineState[running] # << >>
  /\ \A t \in KernelThread :
       /\ t # running => Parked(t, machineState[t], stack[t], frame[t], left[t], rootCalls[t])
       /\ Fenced(t, machineState[t], stack[t])

-----------------------------------------------------------------------------
LEMMA PlacesAreWords ==
  /\ \A n \in Int : << "ThreadRoot", n >> \in Word /\ << "in", n >> \in Word
  /\ << "main", 0 >> \in Word /\ ThreadRoot \in Word /\ ThreadBegin \in Word
  /\ ThreadFinish \in Word /\ Null \in Word /\ STACK_FENCEPOST \in Word
  /\ \A t \in KernelThread : /\ func(t) \in Word /\ argument(t) \in Word
                             /\ << "thread", t >> \in Word /\ << "frame", t >> \in Word
  /\ \A r \in Register, v \in Value : << r, v >> \in Word
<1>1. ASSUME NEW s \in Tag, NEW x \in KernelThread \cup Value \cup Int PROVE << s, x >> \in Word
  BY Zenon DEF Word
<1>2. \A n \in Int : << "ThreadRoot", n >> \in Word /\ << "in", n >> \in Word
  BY Zenon, <1>1 DEF Tag
<1>3. /\ << "main", 0 >> \in Word /\ ThreadRoot \in Word /\ ThreadBegin \in Word
      /\ ThreadFinish \in Word /\ Null \in Word /\ STACK_FENCEPOST \in Word
  BY <1>1 DEF ThreadRoot, ThreadBegin, ThreadFinish, Null, STACK_FENCEPOST, Tag
<1>4. \A t \in KernelThread : /\ func(t) \in Word /\ argument(t) \in Word
                              /\ << "thread", t >> \in Word /\ << "frame", t >> \in Word
  BY Zenon, <1>1 DEF func, argument, Tag
<1>5. \A r \in Register : r \in Tag
  BY Zenon DEF Tag
<1>6. \A r \in Register, v \in Value : << r, v >> \in Word
  BY Zenon, <1>1, <1>5
<1> QED
  BY Zenon, <1>2, <1>3, <1>4, <1>6

LEMMA StartRegistersType ==
  ASSUME NEW t \in KernelThread
  PROVE  /\ StartRegisters(t) \in RegisterFile
         /\ StartRegisters(t)["ecx"] = ThreadBegin /\ StartRegisters(t)["esi"] = func(t)
         /\ StartRegisters(t)["edx"] = argument(t) /\ StartRegisters(t)["edi"] = ThreadFinish
<1>1. \A r \in Register : StartRegisters(t)[r] \in {ThreadBegin, func(t), argument(t), ThreadFinish, Null}
  BY Zenon DEF StartRegisters
<1>2. StartRegisters(t) = [r \in Register |-> StartRegisters(t)[r]]
  BY Zenon DEF StartRegisters
<1>3. StartRegisters(t) \in RegisterFile
  BY Zenon, <1>1, <1>2, PlacesAreWords DEF RegisterFile
<1>4. "ecx" \in Register /\ "esi" \in Register /\ "edx" \in Register /\ "edi" \in Register
  BY Zenon DEF Register
<1> QED
  BY Zenon, <1>3, <1>4 DEF StartRegisters

LEMMA SavedType ==
  ASSUME NEW r \in RegisterFile, NEW e \in Int, NEW p \in Word
  PROVE  /\ Saved(r, e, p) \in Context
         /\ Saved(r, e, p).reg = r /\ Saved(r, e, p).esp = e /\ Saved(r, e, p).pc = p
  BY Zenon DEF Saved, Context

LEMMA SavedSelf ==
  ASSUME NEW l \in Context
  PROVE  Saved(l.reg, l.esp, l.pc) = l /\ l.reg \in RegisterFile /\ l.esp \in Int /\ l.pc \in Word
  BY Zenon DEF Saved, Context

\* One call more.
LEMMA CallsDoneNext ==
  ASSUME NEW t \in KernelThread, NEW k \in 1 .. 3, NEW cl, NEW f,
         IF k = 1 THEN cl = << >> ELSE cl = CallsDone(t, k - 1),
         f = << ThreadBegin, func(t), ThreadFinish >>[k]
  PROVE  Append(cl, << f, argument(t) >>) = CallsDone(t, k)
<1> DEFINE w == [i \in 1 .. 3 |-> << << ThreadBegin, func(t), ThreadFinish >>[i], argument(t) >>]
           W == {w[i] : i \in 1 .. 3}
<1>1. \A j \in 0 .. 3 : CallsDone(t, j) = [i \in 1 .. j |-> w[i]]
  BY DEF CallsDone
<1>2. << f, argument(t) >> = w[k] /\ w[k] \in W
  BY Zenon
<1>3. \A i \in 1 .. 3 : w[i] \in W
  BY Zenon
<1> HIDE DEF w, W
<1>4. cl = [i \in 1 .. k - 1 |-> w[i]]
  <2>1. CASE k = 1
    <3>1. cl = << >> /\ 1 .. k - 1 = {}
      BY <2>1
    <3> QED
      BY <3>1
  <2>2. CASE k # 1
    <3>1. k - 1 \in 0 .. 3 /\ cl = CallsDone(t, k - 1)
      BY <2>2
    <3> QED
      BY Zenon, <1>1, <3>1
  <2> QED
    BY Zenon, <2>1, <2>2
<1>5. cl \in Seq(W) /\ Len(cl) = k - 1
  BY <1>3, <1>4
<1>6. Append(cl, w[k]) = [i \in 1 .. k |-> w[i]]
  BY <1>2, <1>4, <1>5
<1> QED
  BY <1>1, <1>2, <1>6

\* A push.
LEMMA StackWrite ==
  ASSUME NEW st \in StackWords, NEW i \in 0 .. StackSize - 1, NEW w \in Word
  PROVE  /\ [st EXCEPT ![i] = w] \in StackWords /\ [st EXCEPT ![i] = w][i] = w
         /\ \A j \in 0 .. StackSize - 1 : j # i => [st EXCEPT ![i] = w][j] = st[j]
  BY Zenon, SwitchAssumption DEF StackWords

\* In C the next instruction is not one of ThreadRoot's, and the stack
\* pointer leaves room for the call of SWITCH.
LEMMA CompiledFacts ==
  ASSUME NEW t, NEW e, NEW p, NEW st, NEW fr, NEW cl, Compiled(t, e, p, st, fr, cl)
  PROVE  /\ p[1] # "ThreadRoot" /\ p # ThreadRoot
         /\ e = StackSize - 4 \/ e = StackSize - 7
         /\ t # Main => e = StackSize - 7
  BY DEF Compiled, InMain, Inside, ThreadRoot

LEMMA NotCompiled ==
  ASSUME NEW t, NEW r, NEW e, NEW p, NEW st, NEW fr, NEW cl, InPlace(t, r, e, p, st, fr, cl),
         p[1] # "ThreadRoot"
  PROVE  Compiled(t, e, p, st, fr, cl)
  BY DEF InPlace, AtStart, Behind, ThreadRoot

\* What SWITCH writes on a stack does not reach what the place depends on.
LEMMA CompiledKeeps ==
  ASSUME NEW t, NEW e, NEW p, NEW st \in StackWords, NEW su \in StackWords, NEW fr, NEW cl,
         Compiled(t, e, p, st, fr, cl), \A i \in e .. StackSize - 1 : su[i] = st[i]
  PROVE  Compiled(t, e, p, su, fr, cl)
<1>1. CASE InMain(t, e, p, cl)
  BY Zenon, <1>1 DEF Compiled
<1>2. CASE \E k \in 1 .. 3 : Inside(t, e, p, st, fr, cl, k)
  <2>1. PICK k \in 1 .. 3 : Inside(t, e, p, st, fr, cl, k)
    BY Zenon, <1>2
  <2>2. e = StackSize - 7
    BY Zenon, <2>1 DEF Inside
  <2>3. su[StackSize - 7] = st[StackSize - 7] /\ su[StackSize - 6] = st[StackSize - 6]
    BY <2>2, SwitchAssumption
  <2>4. Inside(t, e, p, su, fr, cl, k)
    BY Zenon, <2>1, <2>3 DEF Inside
  <2> QED
    BY Zenon, <2>4 DEF Compiled
<1> QED
  BY Zenon, <1>1, <1>2 DEF Compiled

-----------------------------------------------------------------------------
LEMMA SwitchInitInv == SwitchInit => SwInv
<1> SUFFICES ASSUME SwitchInit PROVE SwInv
  BY Zenon
<1>1. Main \in KernelThread /\ StackSize - 4 \in Int
  BY SwitchAssumption
<1>2. SwitchTypes
  <2>1. reg \in RegisterFile /\ pc \in Word
    BY Zenon, PlacesAreWords DEF SwitchInit, RegisterFile
  <2>2. [i \in 0 .. StackSize - 1 |-> Null] \in StackWords
    BY Zenon, PlacesAreWords DEF StackWords
  <2> QED
    BY <1>1, <2>1, <2>2 DEF SwitchInit, SwitchTypes
<1>3. InPlace(running, reg, esp, pc, stack[running], frame[running], rootCalls[running])
  BY Zenon, <1>1 DEF SwitchInit, InPlace, Compiled, InMain
<1>4. ASSUME NEW t \in KernelThread
      PROVE  /\ t # running => Parked(t, machineState[t], stack[t], frame[t], left[t], rootCalls[t])
             /\ Fenced(t, machineState[t], stack[t])
  BY Zenon DEF SwitchInit, Parked, Fenced
<1> QED
  BY Zenon, <1>2, <1>3, <1>4 DEF SwInv, SwitchInit

\* What the invariant says of a thread that does not run and has machineState.
LEMMA SavedContext ==
  ASSUME SwInv, NEW t \in KernelThread, t # running, machineState[t] # << >>
  PROVE  /\ machineState[t][1] \in Context
         /\ \/ Fresh(t, machineState[t], stack[t], left[t], rootCalls[t])
            \/ Gone(t, machineState[t], stack[t], frame[t], left[t], rootCalls[t])
  BY DEF SwInv, SwitchTypes, Parked

-----------------------------------------------------------------------------
LEMMA ForkInv ==
  ASSUME SwInv, NEW t \in KernelThread, Fork(t)
  PROVE  SwInv'
<1>1. t # running /\ t # Main /\ machineState[t] = << >>
  BY Zenon DEF SwInv, SwitchTypes, Fork
<1>2. Parked(t, machineState[t], stack[t], frame[t], left[t], rootCalls[t])
  BY ZenonT(40), <1>1 DEF SwInv, SwitchTypes
<1>3. left[t] = << >> /\ rootCalls[t] = << >>
  BY <1>1, <1>2 DEF Parked, Fresh, Gone
<1>4. stackTop \in 1 .. StackSize - 1 /\ stackTop = StackSize - 5 /\ 0 \in 0 .. StackSize - 1
  BY SwitchAssumption DEF stackTop
<1> DEFINE c == Saved(StartRegisters(t), stackTop, ThreadRoot)
           st == [stack[t] EXCEPT ![stackTop] = ThreadRoot, ![0] = STACK_FENCEPOST]
<1>5. c \in Context /\ c.esp = stackTop
  BY <1>4, StartRegistersType, PlacesAreWords, SavedType
<1>6. machineState' = [machineState EXCEPT ![t] = << c >>]
  BY Zenon DEF Fork, Saved
<1>7. stack[t] \in StackWords
  BY Zenon DEF SwInv, SwitchTypes
<1>8. st \in StackWords /\ st[stackTop] = ThreadRoot /\ st[0] = STACK_FENCEPOST
  <2>1. ThreadRoot \in Word /\ STACK_FENCEPOST \in Word
    BY Zenon, PlacesAreWords
  <2> DEFINE sf == [stack[t] EXCEPT ![stackTop] = ThreadRoot]
  <2>2. sf \in StackWords /\ sf[stackTop] = ThreadRoot
    BY <1>4, <1>7, <2>1, StackWrite, SwitchAssumption
  <2>3. st = [sf EXCEPT ![0] = STACK_FENCEPOST]
    BY Zenon
  <2> HIDE DEF sf, st
  <2>4. stackTop # 0 /\ stackTop \in 0 .. StackSize - 1
    BY <1>4, SwitchAssumption
  <2>5. /\ [sf EXCEPT ![0] = STACK_FENCEPOST] \in StackWords
        /\ [sf EXCEPT ![0] = STACK_FENCEPOST][0] = STACK_FENCEPOST
        /\ \A j \in 0 .. StackSize - 1 : j # 0 => [sf EXCEPT ![0] = STACK_FENCEPOST][j] = sf[j]
    BY <1>4, <2>1, <2>2, StackWrite
  <2> QED
    BY Zenon, <2>2, <2>3, <2>4, <2>5
<1>9. stack' = [stack EXCEPT ![t] = st]
  BY Zenon, <1>7 DEF Fork, SwInv, SwitchTypes
<1> HIDE DEF c, st
<1>10. SwitchTypes'
  <2>1. << c >> \in Seq(Context)
    BY <1>5
  <2>2. machineState' \in [KernelThread -> Seq(Context)] /\ stack' \in [KernelThread -> StackWords]
    BY Zenon, <1>6, <1>8, <1>9, <2>1 DEF SwInv, SwitchTypes
  <2> QED
    BY Zenon, <2>2 DEF SwInv, Fork, SwitchTypes
<1>11. InPlace(running, reg, esp, pc, stack[running], frame[running], rootCalls[running])'
  BY Zenon, <1>1, <1>9 DEF SwInv, SwitchTypes, Fork
<1>12. Fresh(t, << c >>, st, left[t], rootCalls[t])
  BY Zenon, <1>1, <1>3, <1>8 DEF Fresh, c
<1>13. Fenced(t, << c >>, st)
  BY <1>4, <1>5, <1>8 DEF Fenced
<1>14. machineState'[t] = << c >> /\ stack'[t] = st /\ UNCHANGED << running, frame, left, rootCalls >>
  BY Zenon, <1>6, <1>9 DEF SwInv, SwitchTypes, Fork
<1>15. \A u \in KernelThread : u # t => machineState'[u] = machineState[u] /\ stack'[u] = stack[u]
  BY Zenon, <1>6, <1>9 DEF SwInv, SwitchTypes
<1>16. ASSUME NEW u \in KernelThread
       PROVE  (/\ u # running => Parked(u, machineState[u], stack[u], frame[u], left[u], rootCalls[u])
               /\ Fenced(u, machineState[u], stack[u]))'
  <2>1. CASE u = t
    BY Zenon, <2>1, <1>12, <1>13, <1>14 DEF Parked
  <2>2. CASE u # t
    BY Zenon, <2>2, <1>14, <1>15 DEF SwInv, SwitchTypes
  <2> QED
    BY Zenon, <2>1, <2>2
<1>17. (running # Main => machineState[running] # << >>)'
  BY Zenon, <1>1, <1>14, <1>15 DEF SwInv, SwitchTypes
<1> QED
  BY Zenon, <1>10, <1>11, <1>16, <1>17 DEF SwInv, SwitchTypes

LEMMA ComputeInv ==
  ASSUME SwInv, NEW v \in Value, Compute(v)
  PROVE  SwInv'
<1>1. reg' \in RegisterFile
  BY Zenon, PlacesAreWords DEF Compute, RegisterFile
<1>2. Compiled(running, esp, pc, stack[running], frame[running], rootCalls[running])
  BY Zenon, NotCompiled DEF SwInv, Compute, InC
<1>3. InPlace(running, reg, esp, pc, stack[running], frame[running], rootCalls[running])'
  BY Zenon, <1>2 DEF Compute, InPlace
<1> QED
  BY Zenon, <1>1, <1>3 DEF SwInv, SwitchTypes, Compute

\* Where a function that ThreadRoot called returns to.
LEMMA ReturnInv ==
  ASSUME SwInv, Return
  PROVE  SwInv'
<1> DEFINE st == stack[running]
           fr == frame[running]
           cl == rootCalls[running]
<1>1. running \in KernelThread /\ reg \in RegisterFile /\ st \in StackWords /\ fr \in Seq(RegisterFile)
  BY Zenon DEF SwInv, SwitchTypes
<1>2. Compiled(running, esp, pc, st, fr, cl)
  BY Zenon, NotCompiled DEF SwInv, Return
<1>3. PICK k \in 1 .. 3 : Inside(running, esp, pc, st, fr, cl, k)
  BY <1>2 DEF Compiled, InMain, Return
<1>4. k \in 1 .. 2
  BY <1>3 DEF Inside, Return
<1>5. pc' = << "ThreadRoot", k >> /\ esp' = StackSize - 6
  BY <1>3, SwitchAssumption DEF Inside, Return
<1>6. "esi" \in Register /\ "edi" \in Register /\ "esi" \in CalleeSaved /\ "edi" \in CalleeSaved
  BY Zenon DEF Register, CalleeSaved
<1>7. reg'["esi"] = func(running) /\ reg'["edi"] = ThreadFinish
  BY Zenon, <1>3, <1>6 DEF Inside, Return
<1>8. UNCHANGED << running, stack, machineState, frame, rootCalls, left >>
  BY Zenon DEF Return
<1>9. Behind(running, reg, esp, pc, st, cl, k)'
  BY Zenon, <1>3, <1>5, <1>7, <1>8 DEF Inside, Behind
<1>10. reg' \in RegisterFile
  <2>1. fr[1] \in RegisterFile
    BY <1>1, <1>3 DEF Inside
  <2> QED
    BY Zenon, <1>1, <2>1 DEF Return, RegisterFile
<1>11. SwitchTypes'
  <2>1. pc' \in Word
    <3>1. k \in Int
      OBVIOUS
    <3> QED
      BY Zenon, <1>5, <3>1, PlacesAreWords
  <2>2. esp' \in Int
    BY <1>5, SwitchAssumption
  <2> QED
    BY Zenon, <1>8, <1>10, <2>1, <2>2 DEF SwInv, SwitchTypes
<1>12. InPlace(running, reg, esp, pc, stack[running], frame[running], rootCalls[running])'
  BY Zenon, <1>4, <1>9 DEF InPlace
<1> QED
  BY Zenon, <1>8, <1>11, <1>12 DEF SwInv

\* The words ThreadRoot has pushed when it is inside call number k.
LEMMA RootCallInv ==
  ASSUME SwInv, RootCall
  PROVE  SwInv'
<1> DEFINE t == running
           st == stack[t]
           cl == rootCalls[t]
           k == pc[2] + 1
           sp == IF k = 1 THEN esp - 2 ELSE esp
           words == IF k = 1 THEN [st EXCEPT ![esp - 1] = reg["ebp"], ![sp] = reg["edx"]] ELSE st
           inRoot == IF k = 1 THEN [reg EXCEPT !["ebp"] = << "frame", t >>] ELSE reg
           top == [words EXCEPT ![sp - 1] = << "ThreadRoot", k >>]
<1>1. t \in KernelThread /\ reg \in RegisterFile /\ st \in StackWords /\ cl \in Seq(Word \X Word)
  BY Zenon DEF SwInv, SwitchTypes
<1>2. /\ stack' = [stack EXCEPT ![t] = top] /\ esp' = sp - 1 /\ pc' = << "in", k >> /\ reg' = inRoot
      /\ frame' = [frame EXCEPT ![t] = << inRoot >>]
      /\ rootCalls' = [rootCalls EXCEPT ![t] = Append(cl, << Called(k), words[sp] >>)]
      /\ UNCHANGED << running, machineState, left >>
  BY ZenonT(40) DEF RootCall
<1>3. AtStart(t, reg, esp, pc, cl) \/ \E i \in 1 .. 2 : Behind(t, reg, esp, pc, st, cl, i)
  BY DEF SwInv, RootCall, InC, InPlace, Compiled, InMain, Inside
<1>4. /\ "ecx" \in Register /\ "esi" \in Register /\ "edx" \in Register /\ "edi" \in Register
      /\ "ebp" \in Register
  BY Zenon DEF Register
<1>5. \A r \in Register : reg[r] \in Word
  BY Zenon, <1>1 DEF RegisterFile
<1>6. /\ StackSize - 5 \in 1 .. StackSize - 1 /\ StackSize - 6 \in 1 .. StackSize - 1
      /\ StackSize - 7 \in 1 .. StackSize - 1
      /\ StackSize - 5 # StackSize - 6 /\ StackSize - 6 # StackSize - 7
  BY SwitchAssumption
\* Before and after the first call.
<1>7. /\ t # Main /\ k \in 1 .. 3 /\ sp = StackSize - 6 /\ words \in StackWords
      /\ words[StackSize - 6] = argument(t) /\ words[0] = st[0]
      /\ inRoot \in RegisterFile /\ inRoot["esi"] = func(t) /\ inRoot["edi"] = ThreadFinish
      /\ Called(k) = << ThreadBegin, func(t), ThreadFinish >>[k]
      /\ IF k = 1 THEN cl = << >> ELSE cl = CallsDone(t, k - 1)
  <2>1. CASE AtStart(t, reg, esp, pc, cl)
    <3>1. k = 1 /\ t # Main /\ cl = << >> /\ esp = StackSize - 4 /\ reg = StartRegisters(t)
      <4>1. /\ pc[2] = 0 /\ t # Main /\ cl = << >> /\ esp = StackSize - 4
            /\ reg = StartRegisters(t)
        BY Zenon, <2>1 DEF AtStart, ThreadRoot
      <4>2. 0 + 1 = 1
        OBVIOUS
      <4> QED
        BY Zenon, <4>1, <4>2
    <3>2. esp - 1 = StackSize - 5 /\ sp = StackSize - 6
      BY <3>1, SwitchAssumption
    <3>3. /\ reg["ecx"] = ThreadBegin /\ reg["esi"] = func(t)
          /\ reg["edx"] = argument(t) /\ reg["edi"] = ThreadFinish
      BY Zenon, <1>1, <3>1, StartRegistersType
    <3>4. words = [[st EXCEPT ![StackSize - 5] = reg["ebp"]] EXCEPT ![StackSize - 6] = argument(t)]
      BY ZenonT(40), <3>1, <3>2, <3>3
    <3> DEFINE su == [st EXCEPT ![StackSize - 5] = reg["ebp"]]
    <3>5. su \in StackWords /\ su[0] = st[0]
      <4>1. /\ StackSize - 5 \in 0 .. StackSize - 1 /\ 0 \in 0 .. StackSize - 1 /\ 0 # StackSize - 5
        BY SwitchAssumption
      <4>2. reg["ebp"] \in Word
        BY Zenon, <1>4, <1>5
      <4> QED
        BY <1>1, <4>1, <4>2, StackWrite
    <3> HIDE DEF su, words
    <3>6. words \in StackWords /\ words[StackSize - 6] = argument(t) /\ words[0] = su[0]
      <4>1. words = [su EXCEPT ![StackSize - 6] = argument(t)]
        BY Zenon, <3>4 DEF su
      <4>4. argument(t) \in Word
        BY Zenon, <1>1, PlacesAreWords
      <4>2. StackSize - 6 \in 0 .. StackSize - 1 /\ 0 \in 0 .. StackSize - 1 /\ 0 # StackSize - 6
        BY SwitchAssumption
      <4>3. /\ words \in StackWords /\ words[StackSize - 6] = argument(t)
            /\ \A j \in 0 .. StackSize - 1 : j # StackSize - 6 => words[j] = su[j]
        <5> DEFINE x == [su EXCEPT ![StackSize - 6] = argument(t)]
        <5>1. /\ x \in StackWords /\ x[StackSize - 6] = argument(t)
              /\ \A j \in 0 .. StackSize - 1 : j # StackSize - 6 => x[j] = su[j]
          BY <3>5, <4>4, <4>2, StackWrite
        <5> HIDE DEF x
        <5> QED
          BY Zenon, <4>1, <5>1 DEF x
      <4> QED
        BY Zenon, <4>2, <4>3
    <3>7. << "frame", t >> \in Word
      BY Zenon, <1>1, PlacesAreWords
    <3>8. inRoot \in RegisterFile /\ inRoot["esi"] = func(t) /\ inRoot["edi"] = ThreadFinish
      BY Zenon, <1>1, <1>4, <3>1, <3>3, <3>7 DEF RegisterFile
    <3>9. Called(k) = << ThreadBegin, func(t), ThreadFinish >>[k]
      BY ZenonT(40), <3>1, <3>3 DEF Called
    <3>10. 1 \in 1 .. 3
      OBVIOUS
    <3> HIDE DEF k, sp, inRoot
    <3> QED
      BY ZenonT(40), <3>1, <3>2, <3>5, <3>6, <3>8, <3>9, <3>10
  <2>2. CASE \E i \in 1 .. 2 : Behind(t, reg, esp, pc, st, cl, i)
    <3>1. PICK i \in 1 .. 2 : Behind(t, reg, esp, pc, st, cl, i)
      BY Zenon, <2>2
    <3>2. /\ t # Main /\ pc = << "ThreadRoot", i >> /\ esp = StackSize - 6
          /\ reg["esi"] = func(t) /\ reg["edi"] = ThreadFinish
          /\ st[StackSize - 6] = argument(t) /\ cl = CallsDone(t, i)
      BY Zenon, <3>1 DEF Behind
    <3>3. pc[2] = i
      BY Zenon, <3>2
    <3>4. k = i + 1
      BY Zenon, <3>3
    <3> HIDE DEF k
    <3>5. k # 1 /\ k \in 2 .. 3 /\ k \in 1 .. 3 /\ k - 1 = i
      BY <3>4
    <3>6. sp = esp /\ words = st /\ inRoot = reg
      BY Zenon, <3>5
    <3> HIDE DEF sp, words, inRoot
    <3>7. Called(k) = << ThreadBegin, func(t), ThreadFinish >>[k]
      <4> DEFINE x == reg["ecx"]
                 f == func(t)
      <4>1. Called(k) = << x, f, ThreadFinish >>[k]
        BY Zenon, <3>2 DEF Called
      <4> HIDE DEF x, f
      <4>2. << x, f, ThreadFinish >>[k] = << ThreadBegin, f, ThreadFinish >>[k]
        BY <3>5
      <4> QED
        BY Zenon, <4>1, <4>2 DEF f
    <3> QED
      BY ZenonT(40), <1>1, <3>2, <3>5, <3>6, <3>7
  <2> QED
    BY ZenonT(40), <1>3, <2>1, <2>2
<1> HIDE DEF k, sp, words, inRoot
<1>8. << "ThreadRoot", k >> \in Word /\ << "in", k >> \in Word
  BY <1>7, PlacesAreWords
<1>9. /\ top \in StackWords /\ top[StackSize - 7] = << "ThreadRoot", k >>
      /\ top[StackSize - 6] = argument(t) /\ top[0] = st[0]
  <2>1. sp - 1 = StackSize - 7 /\ sp - 1 \in 0 .. StackSize - 1
    BY <1>7, SwitchAssumption
  <2>2. /\ top \in StackWords /\ top[sp - 1] = << "ThreadRoot", k >>
        /\ \A j \in 0 .. StackSize - 1 : j # sp - 1 => top[j] = words[j]
    BY <1>7, <1>8, <2>1, StackWrite
  <2> HIDE DEF top
  <2>3. StackSize - 6 \in 0 .. StackSize - 1 /\ StackSize - 6 # sp - 1 /\ 0 \in 0 .. StackSize - 1 /\ 0 # sp - 1
    BY <2>1, SwitchAssumption
  <2> QED
    BY ZenonT(40), <1>7, <2>1, <2>2, <2>3
<1> HIDE DEF top
<1>10. Append(cl, << Called(k), words[sp] >>) = CallsDone(t, k)
  BY ZenonT(40), <1>1, <1>7, CallsDoneNext
<1>11. CallsDone(t, k) \in Seq(Word \X Word)
  <2>1. \A i \in 1 .. 3 : << << ThreadBegin, func(t), ThreadFinish >>[i], argument(t) >> \in Word \X Word
    <3>1. ThreadBegin \in Word /\ func(t) \in Word /\ ThreadFinish \in Word /\ argument(t) \in Word
      BY Zenon, <1>1, PlacesAreWords
    <3> QED
      BY <3>1
  <2> QED
    BY <1>7, <2>1 DEF CallsDone
<1>12. /\ stack'[t] = top /\ frame'[t] = << inRoot >> /\ rootCalls'[t] = CallsDone(t, k)
       /\ pc' = << "in", k >> /\ esp' = StackSize - 7
  <2>1. stack'[t] = top /\ frame'[t] = << inRoot >>
    BY Zenon, <1>1, <1>2 DEF SwInv, SwitchTypes
  <2>2. rootCalls'[t] = CallsDone(t, k)
    BY ZenonT(40), <1>1, <1>2, <1>10 DEF SwInv, SwitchTypes
  <2>3. esp' = StackSize - 7
    <3>1. esp' = sp - 1 /\ sp = StackSize - 6
      BY ZenonT(40), <1>2, <1>7
    <3> QED
      BY <3>1, SwitchAssumption
  <2> QED
    BY Zenon, <1>2, <2>1, <2>2, <2>3
<1>13. Inside(t, esp', pc', stack'[t], frame'[t], rootCalls'[t], k)
  <2> DEFINE fr == << inRoot >>
  <2>1. fr # << >> /\ fr[1] = inRoot
    OBVIOUS
  <2> HIDE DEF fr
  <2>2. frame'[t] # << >> /\ frame'[t][1] = inRoot
    BY Zenon, <1>12, <2>1 DEF fr
  <2>3. t # Main /\ inRoot["esi"] = func(t) /\ inRoot["edi"] = ThreadFinish
    BY Zenon, <1>7
  <2> QED
    BY ZenonT(40), <1>9, <1>12, <2>2, <2>3 DEF Inside
<1>14. SwitchTypes'
  <2>1. << inRoot >> \in Seq(RegisterFile)
    BY <1>7
  <2>2. stack' \in [KernelThread -> StackWords] /\ frame' \in [KernelThread -> Seq(RegisterFile)]
    BY Zenon, <1>2, <1>9, <2>1 DEF SwInv, SwitchTypes
  <2>3. rootCalls' \in [KernelThread -> Seq(Word \X Word)]
    BY ZenonT(40), <1>2, <1>10, <1>11 DEF SwInv, SwitchTypes
  <2>4. reg' \in RegisterFile /\ esp' \in Int /\ pc' \in Word
    <3>1. StackSize - 7 \in Int
      BY SwitchAssumption
    <3> QED
      BY Zenon, <1>2, <1>7, <1>8, <1>12, <3>1
  <2> QED
    BY ZenonT(40), <1>2, <2>2, <2>3, <2>4 DEF SwInv, SwitchTypes
<1>15. InPlace(running, reg, esp, pc, stack[running], frame[running], rootCalls[running])'
  <2>1. Compiled(t, esp', pc', stack'[t], frame'[t], rootCalls'[t])
    BY Zenon, <1>7, <1>13 DEF Compiled
  <2> QED
    BY Zenon, <1>2, <2>1 DEF InPlace
<1>16. ASSUME NEW u \in KernelThread
       PROVE  (/\ u # running => Parked(u, machineState[u], stack[u], frame[u], left[u], rootCalls[u])
               /\ Fenced(u, machineState[u], stack[u]))'
  <2>1. CASE u = t
    <3>1. Fenced(t, machineState[t], st)
      BY Zenon, <1>1 DEF SwInv
    <3>2. Fenced(t, machineState[t], top)
      BY Zenon, <1>9, <3>1 DEF Fenced
    <3> QED
      BY Zenon, <1>2, <1>12, <2>1, <3>2
  <2>2. CASE u # t
    <3>1. stack'[u] = stack[u] /\ frame'[u] = frame[u] /\ rootCalls'[u] = rootCalls[u]
      BY Zenon, <1>2, <2>2 DEF SwInv, SwitchTypes
    <3> QED
      BY Zenon, <1>2, <2>2, <3>1 DEF SwInv
  <2> QED
    BY Zenon, <2>1, <2>2
<1>17. (running # Main => machineState[running] # << >>)'
  BY Zenon, <1>2 DEF SwInv
<1> QED
  BY Zenon, <1>14, <1>15, <1>16, <1>17 DEF SwInv

\* SWITCH: t1 has gone, t2 is where it was when it went or at its start.
LEMMA SwitchInv ==
  ASSUME SwInv, NEW t2 \in KernelThread, t2 # running, SWITCH(t2)
  PROVE  /\ SwInv'
         /\ left[t2] # << >> => << [reg |-> reg', esp |-> esp', pc |-> pc'] >> = left[t2]
<1> DEFINE t1 == running
           s1 == stack[t1]
           s2 == stack[t2]
           u1 == [[[s1 EXCEPT ![esp - 1] = << "thread", t2 >>]
                      EXCEPT ![esp - 2] = << "thread", t1 >>] EXCEPT ![esp - 3] = pc]
           old == Saved(reg, esp - 3, pc)
           lft == Saved(reg, esp, pc)
           new == machineState[t2][1]
           u2 == [s2 EXCEPT ![new.esp + 1] = new.pc]
<1>1. /\ t1 \in KernelThread /\ reg \in RegisterFile /\ esp \in Int /\ pc \in Word
      /\ s1 \in StackWords /\ s2 \in StackWords
  BY Zenon DEF SwInv, SwitchTypes
<1>2. t2 # t1 /\ machineState[t2] # << >> /\ pc[1] # "ThreadRoot"
  BY Zenon DEF SWITCH, InC
<1>3. Compiled(t1, esp, pc, s1, frame[t1], rootCalls[t1])
  BY Zenon, <1>2, NotCompiled DEF SwInv
<1>4. esp = StackSize - 4 \/ esp = StackSize - 7
  BY Zenon, <1>3, CompiledFacts
<1>5. /\ esp - 1 \in 1 .. StackSize - 1 /\ esp - 2 \in 1 .. StackSize - 1
      /\ esp - 3 \in 1 .. StackSize - 1 /\ esp - 3 <= StackSize - 5
  BY <1>4, SwitchAssumption
\* The stack of t1.
<1>6. /\ u1 \in StackWords /\ u1[esp - 3] = pc /\ u1[0] = s1[0]
      /\ \A i \in esp .. StackSize - 1 : u1[i] = s1[i]
  <2>1. << "thread", t2 >> \in Word /\ << "thread", t1 >> \in Word
    BY Zenon, <1>1, PlacesAreWords
  <2>2. esp - 1 \in 0 .. StackSize - 1 /\ esp - 2 \in 0 .. StackSize - 1 /\ esp - 3 \in 0 .. StackSize - 1
    BY <1>5
  <2> DEFINE v1 == [s1 EXCEPT ![esp - 1] = << "thread", t2 >>]
             v2 == [v1 EXCEPT ![esp - 2] = << "thread", t1 >>]
  <2>3. v1 \in StackWords /\ \A j \in 0 .. StackSize - 1 : j # esp - 1 => v1[j] = s1[j]
    BY <1>1, <2>1, <2>2, StackWrite
  <2> HIDE DEF v1
  <2>4. v2 \in StackWords /\ \A j \in 0 .. StackSize - 1 : j # esp - 2 => v2[j] = v1[j]
    BY <2>1, <2>2, <2>3, StackWrite
  <2>5. u1 = [v2 EXCEPT ![esp - 3] = pc]
    BY Zenon DEF v1
  <2> HIDE DEF v2, u1
  <2>6. /\ u1 \in StackWords /\ u1[esp - 3] = pc
        /\ \A j \in 0 .. StackSize - 1 : j # esp - 3 => u1[j] = v2[j]
    <3> DEFINE x == [v2 EXCEPT ![esp - 3] = pc]
    <3>1. /\ x \in StackWords /\ x[esp - 3] = pc
          /\ \A j \in 0 .. StackSize - 1 : j # esp - 3 => x[j] = v2[j]
      BY <1>1, <2>2, <2>4, StackWrite
    <3>2. u1 = x
      BY Zenon, <2>5
    <3> HIDE DEF x
    <3> QED
      BY ZenonT(40), <3>1, <3>2
  <2>7. \A j \in 0 .. StackSize - 1 : j # esp - 1 /\ j # esp - 2 /\ j # esp - 3 => u1[j] = s1[j]
    BY Zenon, <2>3, <2>4, <2>6
  <2>8. 0 \in 0 .. StackSize - 1 /\ 0 # esp - 1 /\ 0 # esp - 2 /\ 0 # esp - 3
    BY <1>4, SwitchAssumption
  <2>9. ASSUME NEW i \in esp .. StackSize - 1
        PROVE  i \in 0 .. StackSize - 1 /\ i # esp - 1 /\ i # esp - 2 /\ i # esp - 3
    BY <1>4, SwitchAssumption
  <2> QED
    BY Zenon, <2>6, <2>7, <2>8, <2>9
<1> HIDE DEF u1
<1>7. Compiled(t1, esp, pc, u1, frame[t1], rootCalls[t1])
  BY Zenon, <1>1, <1>3, <1>6, CompiledKeeps
<1>8. old \in Context /\ lft \in Context /\ old.esp = esp - 3
      /\ lft.reg = reg /\ lft.esp = esp /\ lft.pc = pc
  BY <1>1, SavedType
<1>9. Gone(t1, << old >>, u1, frame[t1], << lft >>, rootCalls[t1])
  BY <1>6, <1>7, <1>8, Zenon DEF Gone
<1>10. Fenced(t1, << old >>, u1)
  <2>1. t1 # Main => s1[0] = STACK_FENCEPOST
    BY Zenon, <1>1 DEF SwInv, Fenced
  <2> QED
    BY Zenon, <1>5, <1>6, <1>8, <2>1 DEF Fenced
\* What SWITCH computes.
<1>11. /\ machineState' = [machineState EXCEPT ![t1] = << old >>]
       /\ reg' = new.reg /\ pc' = s2[new.esp] /\ running' = t2
       /\ esp' = IF s2[new.esp] = ThreadRoot THEN new.esp + 1 ELSE new.esp + 3
       /\ left' = [left EXCEPT ![t1] = << lft >>]
       /\ UNCHANGED << frame, rootCalls >>
  BY Zenon, <1>1, <1>2 DEF SWITCH, SwInv, SwitchTypes, Saved
<1>12. stack' = [[stack EXCEPT ![t1] = u1] EXCEPT ![t2] = u2]
  BY Zenon, <1>1, <1>2 DEF SWITCH, SwInv, SwitchTypes, u1
<1>13. stack'[t1] = u1 /\ stack'[t2] = u2 /\ \A u \in KernelThread : u # t1 /\ u # t2 => stack'[u] = stack[u]
  BY Zenon, <1>1, <1>2, <1>12 DEF SwInv, SwitchTypes
\* t2 goes on.
<1>14. new \in Context
       /\ \/ Fresh(t2, machineState[t2], s2, left[t2], rootCalls[t2])
          \/ Gone(t2, machineState[t2], s2, frame[t2], left[t2], rootCalls[t2])
  BY Zenon, <1>2, SavedContext
<1>15. /\ u2 \in StackWords /\ u2[0] = s2[0] /\ reg' \in RegisterFile /\ esp' \in Int /\ pc' \in Word
       /\ new.esp <= StackSize - 5
       /\ InPlace(t2, reg', esp', pc', u2, frame[t2], rootCalls[t2])
       /\ left[t2] # << >> => << Saved(reg', esp', pc') >> = left[t2]
  <2> HIDE DEF new
  <2>1. CASE Fresh(t2, machineState[t2], s2, left[t2], rootCalls[t2])
    <3>1. new = Saved(StartRegisters(t2), stackTop, ThreadRoot)
      BY <2>1 DEF Fresh, new
    <3>2. stackTop \in Int /\ StartRegisters(t2) \in RegisterFile /\ ThreadRoot \in Word
      BY SwitchAssumption, StartRegistersType, PlacesAreWords DEF stackTop
    <3>3. new.reg = StartRegisters(t2) /\ new.esp = stackTop /\ new.pc = ThreadRoot
      BY <3>1, <3>2, SavedType
    <3>4. /\ stackTop = StackSize - 5 /\ stackTop + 1 = StackSize - 4
          /\ StackSize - 4 \in 0 .. StackSize - 1 /\ 0 \in 0 .. StackSize - 1 /\ 0 # StackSize - 4
      BY SwitchAssumption DEF stackTop
    <3>5. u2 = [s2 EXCEPT ![StackSize - 4] = ThreadRoot]
      BY Zenon, <3>3, <3>4
    <3>6. u2 \in StackWords /\ u2[0] = s2[0]
      <4> DEFINE x == [s2 EXCEPT ![StackSize - 4] = ThreadRoot]
      <4>1. x \in StackWords /\ \A j \in 0 .. StackSize - 1 : j # StackSize - 4 => x[j] = s2[j]
        BY <1>1, <3>2, <3>4, StackWrite
      <4> HIDE DEF x
      <4> QED
        BY ZenonT(40), <3>4, <3>5, <4>1 DEF x
    <3>7. s2[new.esp] = ThreadRoot /\ t2 # Main /\ rootCalls[t2] = << >> /\ left[t2] = << >>
      BY Zenon, <2>1, <3>3 DEF Fresh
    <3>8. pc' = ThreadRoot /\ reg' = StartRegisters(t2) /\ esp' = StackSize - 4
      BY Zenon, <1>11, <3>3, <3>4, <3>7
    <3>9. AtStart(t2, reg', esp', pc', rootCalls[t2])
      BY Zenon, <3>7, <3>8 DEF AtStart
    <3>10. esp' \in Int /\ new.esp <= StackSize - 5
      BY <3>3, <3>4, <3>8, SwitchAssumption
    <3> QED
      BY ZenonT(40), <3>2, <3>6, <3>7, <3>8, <3>9, <3>10 DEF InPlace
  <2>2. CASE Gone(t2, machineState[t2], s2, frame[t2], left[t2], rootCalls[t2])
    <3>1. PICK l \in Context :
            /\ left[t2] = << l >> /\ machineState[t2] = << Saved(l.reg, l.esp - 3, l.pc) >>
            /\ s2[l.esp - 3] = l.pc /\ Compiled(t2, l.esp, l.pc, s2, frame[t2], rootCalls[t2])
      BY Zenon, <2>2 DEF Gone
    <3>2. l.reg \in RegisterFile /\ l.esp \in Int /\ l.pc \in Word /\ Saved(l.reg, l.esp, l.pc) = l
      BY ZenonT(40), SavedSelf
    <3>3. new = Saved(l.reg, l.esp - 3, l.pc)
      BY <3>1 DEF new
    <3>4. new.reg = l.reg /\ new.esp = l.esp - 3 /\ new.pc = l.pc
      BY <3>2, <3>3, SavedType
    <3>5. (l.esp = StackSize - 4 \/ l.esp = StackSize - 7) /\ l.pc # ThreadRoot
      BY ZenonT(40), <3>1, CompiledFacts
    <3>6. /\ new.esp + 1 = l.esp - 2 /\ new.esp + 3 = l.esp /\ new.esp <= StackSize - 5
          /\ l.esp - 2 \in 0 .. StackSize - 1 /\ 0 \in 0 .. StackSize - 1 /\ 0 # l.esp - 2
      BY <3>4, <3>5, SwitchAssumption
    <3>7. u2 = [s2 EXCEPT ![l.esp - 2] = l.pc]
      BY Zenon, <3>4, <3>6
    <3>8. u2 \in StackWords /\ \A j \in 0 .. StackSize - 1 : j # l.esp - 2 => u2[j] = s2[j]
      <4> DEFINE x == [s2 EXCEPT ![l.esp - 2] = l.pc]
      <4>1. x \in StackWords /\ \A j \in 0 .. StackSize - 1 : j # l.esp - 2 => x[j] = s2[j]
        BY <1>1, <3>2, <3>6, StackWrite
      <4> HIDE DEF x
      <4> QED
        BY ZenonT(40), <3>7, <4>1 DEF x
    <3> HIDE DEF u2
    <3>9. \A i \in l.esp .. StackSize - 1 : u2[i] = s2[i]
      <4>1. \A i \in l.esp .. StackSize - 1 : i \in 0 .. StackSize - 1 /\ i # l.esp - 2
        BY <3>5, SwitchAssumption
      <4> QED
        BY Zenon, <3>8, <4>1
    <3>10. Compiled(t2, l.esp, l.pc, u2, frame[t2], rootCalls[t2])
      BY Zenon, <1>1, <3>1, <3>8, <3>9, CompiledKeeps
    <3>11. pc' = l.pc /\ reg' = l.reg /\ esp' = l.esp
      BY Zenon, <1>11, <3>1, <3>4, <3>5, <3>6
    <3> QED
      BY Zenon, <3>1, <3>2, <3>6, <3>8, <3>10, <3>11 DEF InPlace
  <2> QED
    BY Zenon, <1>14, <2>1, <2>2
<1> HIDE DEF u2, old, lft
<1>16. SwitchTypes'
  <2>1. << old >> \in Seq(Context) /\ << lft >> \in Seq(Context)
    BY <1>8
  <2>2. machineState' \in [KernelThread -> Seq(Context)] /\ left' \in [KernelThread -> Seq(Context)]
    BY Zenon, <1>11, <2>1 DEF SwInv, SwitchTypes
  <2>3. stack' \in [KernelThread -> StackWords]
    BY Zenon, <1>6, <1>12, <1>15 DEF SwInv, SwitchTypes
  <2> QED
    BY Zenon, <1>11, <1>15, <2>2, <2>3 DEF SwInv, SwitchTypes
<1>17. InPlace(running, reg, esp, pc, stack[running], frame[running], rootCalls[running])'
  BY Zenon, <1>11, <1>13, <1>15
<1>18. machineState'[t1] = << old >> /\ left'[t1] = << lft >>
       /\ \A u \in KernelThread : u # t1 => machineState'[u] = machineState[u] /\ left'[u] = left[u]
  BY Zenon, <1>1, <1>11 DEF SwInv, SwitchTypes
<1>19. ASSUME NEW u \in KernelThread
       PROVE  (/\ u # running => Parked(u, machineState[u], stack[u], frame[u], left[u], rootCalls[u])
               /\ Fenced(u, machineState[u], stack[u]))'
  <2>1. CASE u = t1
    BY Zenon, <1>9, <1>10, <1>11, <1>13, <1>18, <2>1 DEF Parked
  <2>2. CASE u = t2
    <3>1. Fenced(t2, machineState[t2], s2)
      BY Zenon DEF SwInv
    <3>2. Fenced(t2, machineState[t2], u2)
      BY Zenon, <1>15, <3>1 DEF Fenced
    <3> QED
      BY Zenon, <1>2, <1>11, <1>13, <1>18, <2>2, <3>2
  <2>3. CASE u # t1 /\ u # t2
    <3>1. Parked(u, machineState[u], stack[u], frame[u], left[u], rootCalls[u])
          /\ Fenced(u, machineState[u], stack[u])
      BY Zenon, <2>3 DEF SwInv
    <3>2. /\ machineState'[u] = machineState[u] /\ left'[u] = left[u] /\ stack'[u] = stack[u]
          /\ frame' = frame /\ rootCalls' = rootCalls
      BY Zenon, <1>11, <1>13, <1>18, <2>3
    <3> QED
      BY Zenon, <3>1, <3>2
  <2> QED
    BY Zenon, <2>1, <2>2, <2>3
<1>20. (running # Main => machineState[running] # << >>)'
  BY Zenon, <1>2, <1>11, <1>18
<1>21. SwInv'
  BY Zenon, <1>16, <1>17, <1>19, <1>20 DEF SwInv
<1> QED
  BY Zenon, <1>15, <1>21 DEF Saved

\* A thread that is switched to itself only has its return address written
\* once more, below its stack pointer.
LEMMA SelfInv ==
  ASSUME SwInv, SWITCH(running)
  PROVE  SwInv' /\ UNCHANGED << reg, esp, pc >>
<1> DEFINE t == running
           s1 == stack[t]
           u1 == [[[s1 EXCEPT ![esp - 1] = << "thread", t >>]
                      EXCEPT ![esp - 2] = << "thread", t >>] EXCEPT ![esp - 3] = pc]
           old == Saved(reg, esp - 3, pc)
           lft == Saved(reg, esp, pc)
           u2 == [u1 EXCEPT ![old.esp + 1] = old.pc]
<1>1. /\ t \in KernelThread /\ reg \in RegisterFile /\ esp \in Int /\ pc \in Word
      /\ s1 \in StackWords
  BY Zenon DEF SwInv, SwitchTypes
<1>2. pc[1] # "ThreadRoot"
  BY Zenon DEF SWITCH, InC
<1>3. Compiled(t, esp, pc, s1, frame[t], rootCalls[t])
  BY Zenon, <1>2, NotCompiled DEF SwInv
<1>4. (esp = StackSize - 4 \/ esp = StackSize - 7) /\ pc # ThreadRoot
  BY Zenon, <1>3, CompiledFacts
<1>5. esp - 3 \in Int /\ (esp - 3) + 1 = esp - 2 /\ (esp - 3) + 3 = esp /\ esp - 3 <= StackSize - 5
  BY <1>1, <1>4, SwitchAssumption
<1>6. /\ old \in Context /\ lft \in Context /\ old.reg = reg /\ old.esp = esp - 3 /\ old.pc = pc
      /\ old.esp + 1 = esp - 2 /\ old.esp + 3 = esp
  <2>1. old \in Context /\ old.reg = reg /\ old.esp = esp - 3 /\ old.pc = pc
    BY <1>1, <1>5, SavedType
  <2>2. lft \in Context
    BY <1>1, SavedType
  <2> HIDE DEF old
  <2> QED
    BY Zenon, <1>5, <2>1, <2>2
\* The stack.
<1>7. /\ u1 \in StackWords /\ u1[esp - 3] = pc
      /\ \A j \in 0 .. StackSize - 1 : j # esp - 1 /\ j # esp - 2 /\ j # esp - 3 => u1[j] = s1[j]
  <2>1. << "thread", t >> \in Word
    BY Zenon, <1>1, PlacesAreWords
  <2>2. esp - 1 \in 0 .. StackSize - 1 /\ esp - 2 \in 0 .. StackSize - 1 /\ esp - 3 \in 0 .. StackSize - 1
    BY <1>4, SwitchAssumption
  <2> DEFINE v1 == [s1 EXCEPT ![esp - 1] = << "thread", t >>]
             v2 == [v1 EXCEPT ![esp - 2] = << "thread", t >>]
             v3 == [v2 EXCEPT ![esp - 3] = pc]
  <2>3. v1 \in StackWords /\ \A j \in 0 .. StackSize - 1 : j # esp - 1 => v1[j] = s1[j]
    BY <1>1, <2>1, <2>2, StackWrite
  <2>4. v3 = u1
    BY Zenon
  <2> HIDE DEF v1, u1
  <2>5. v2 \in StackWords /\ \A j \in 0 .. StackSize - 1 : j # esp - 2 => v2[j] = v1[j]
    BY <2>1, <2>2, <2>3, StackWrite
  <2> HIDE DEF v2
  <2>6. /\ v3 \in StackWords /\ v3[esp - 3] = pc
        /\ \A j \in 0 .. StackSize - 1 : j # esp - 3 => v3[j] = v2[j]
    BY <1>1, <2>2, <2>5, StackWrite
  <2> HIDE DEF v3
  <2> QED
    BY Zenon, <2>3, <2>4, <2>5, <2>6
<1> HIDE DEF u1
<1>8. /\ u2 \in StackWords
      /\ \A j \in 0 .. StackSize - 1 : j # esp - 1 /\ j # esp - 2 /\ j # esp - 3 => u2[j] = s1[j]
  <2> DEFINE x == [u1 EXCEPT ![esp - 2] = pc]
  <2>1. esp - 2 \in 0 .. StackSize - 1
    BY <1>4, SwitchAssumption
  <2>2. x \in StackWords /\ \A j \in 0 .. StackSize - 1 : j # esp - 2 => x[j] = u1[j]
    BY <1>1, <1>7, <2>1, StackWrite
  <2>3. u2 = x
    BY Zenon, <1>6
  <2> HIDE DEF x, u2
  <2> QED
    BY Zenon, <1>7, <2>2, <2>3
<1> HIDE DEF u2
<1>9. u2[0] = s1[0] /\ \A i \in esp .. StackSize - 1 : u2[i] = s1[i]
  <2>1. 0 \in 0 .. StackSize - 1 /\ 0 # esp - 1 /\ 0 # esp - 2 /\ 0 # esp - 3
    BY <1>4, SwitchAssumption
  <2>2. ASSUME NEW i \in esp .. StackSize - 1
        PROVE  i \in 0 .. StackSize - 1 /\ i # esp - 1 /\ i # esp - 2 /\ i # esp - 3
    BY <1>4, SwitchAssumption
  <2> QED
    BY Zenon, <1>8, <2>1, <2>2
<1>10. Compiled(t, esp, pc, u2, frame[t], rootCalls[t])
  BY Zenon, <1>1, <1>3, <1>8, <1>9, CompiledKeeps
\* What SWITCH computes.
<1> HIDE DEF old
<1>11. /\ machineState' = [machineState EXCEPT ![t] = << old >>]
       /\ reg' = old.reg /\ pc' = u1[old.esp] /\ running' = t
       /\ esp' = IF u1[old.esp] = ThreadRoot THEN old.esp + 1 ELSE old.esp + 3
       /\ left' = [left EXCEPT ![t] = << lft >>]
       /\ UNCHANGED << frame, rootCalls >>
  BY Zenon, <1>1 DEF SWITCH, SwInv, SwitchTypes, Saved, u1, old
<1>12. stack' = [[stack EXCEPT ![t] = u1] EXCEPT ![t] = u2]
  BY Zenon, <1>1 DEF SWITCH, SwInv, SwitchTypes, u1, u2, old
<1>13. stack' = [stack EXCEPT ![t] = u2]
  BY Zenon, <1>1, <1>12 DEF SwInv, SwitchTypes
<1>14. UNCHANGED << reg, esp, pc >>
  BY Zenon, <1>4, <1>6, <1>7, <1>11
<1> HIDE DEF lft
<1>15. SwitchTypes'
  <2>1. << old >> \in Seq(Context) /\ << lft >> \in Seq(Context)
    BY <1>6
  <2>2. machineState' \in [KernelThread -> Seq(Context)] /\ left' \in [KernelThread -> Seq(Context)]
    BY Zenon, <1>11, <2>1 DEF SwInv, SwitchTypes
  <2>3. stack' \in [KernelThread -> StackWords]
    BY Zenon, <1>8, <1>13 DEF SwInv, SwitchTypes
  <2> QED
    BY Zenon, <1>1, <1>11, <1>14, <2>2, <2>3 DEF SwInv, SwitchTypes
<1>16. /\ stack'[t] = u2 /\ machineState'[t] = << old >>
       /\ \A u \in KernelThread : u # t => /\ stack'[u] = stack[u] /\ left'[u] = left[u]
                                           /\ machineState'[u] = machineState[u]
  BY Zenon, <1>1, <1>11, <1>13 DEF SwInv, SwitchTypes
<1>17. InPlace(running, reg, esp, pc, stack[running], frame[running], rootCalls[running])'
  BY Zenon, <1>10, <1>11, <1>14, <1>16 DEF InPlace
<1>18. Fenced(t, << old >>, u2)
  <2>1. t # Main => s1[0] = STACK_FENCEPOST
    BY Zenon, <1>1 DEF SwInv, Fenced
  <2>2. << old >>[1] = old
    OBVIOUS
  <2> QED
    BY Zenon, <1>5, <1>6, <1>9, <2>1, <2>2 DEF Fenced
<1>19. ASSUME NEW u \in KernelThread
       PROVE  (/\ u # running => Parked(u, machineState[u], stack[u], frame[u], left[u], rootCalls[u])
               /\ Fenced(u, machineState[u], stack[u]))'
  <2>1. CASE u = t
    BY Zenon, <1>11, <1>16, <1>18, <2>1
  <2>2. CASE u # t
    <3>1. Parked(u, machineState[u], stack[u], frame[u], left[u], rootCalls[u])
          /\ Fenced(u, machineState[u], stack[u])
      BY Zenon, <2>2 DEF SwInv
    <3> QED
      BY Zenon, <1>11, <1>16, <2>2, <3>1
  <2> QED
    BY Zenon, <2>1, <2>2
<1>20. (running # Main => machineState[running] # << >>)'
  <2>1. << old >> # << >>
    OBVIOUS
  <2> QED
    BY Zenon, <1>11, <1>16, <2>1
<1> QED
  BY Zenon, <1>14, <1>15, <1>17, <1>19, <1>20 DEF SwInv

LEMMA SwitchNextInv ==
  SwInv /\ [SwitchNext]_switchVars => SwInv'
<1> SUFFICES ASSUME SwInv, [SwitchNext]_switchVars PROVE SwInv'
  BY Zenon
<1>1. CASE SwitchNext
  BY Zenon, <1>1, RootCallInv, ReturnInv, ForkInv, SwitchInv, SelfInv, ComputeInv DEF SwitchNext
<1>2. CASE UNCHANGED switchVars
  BY Zenon, <1>2 DEF switchVars, SwInv, SwitchTypes
<1> QED
  BY Zenon, <1>1, <1>2

\* Only SWITCH makes another thread run.
LEMMA SwitchStep ==
  SwInv /\ [SwitchNext]_switchVars =>
    [/\ running' # running /\ left[running'] # << >> =>
          << [reg |-> reg', esp |-> esp', pc |-> pc'] >> = left[running']
     /\ SWITCH(running) => UNCHANGED << reg, esp, pc >>]_switchVars
<1>1. ASSUME SwInv, SwitchNext, running' # running, left[running'] # << >>
      PROVE  << [reg |-> reg', esp |-> esp', pc |-> pc'] >> = left[running']
  <2>1. PICK t \in KernelThread : SWITCH(t)
    BY Zenon, <1>1 DEF SwitchNext, RootCall, Return, Fork, Compute
  <2>2. running' = t
    BY Zenon, <2>1 DEF SWITCH
  <2> QED
    BY Zenon, <1>1, <2>1, <2>2, SwitchInv
<1>2. ASSUME SwInv, SWITCH(running) PROVE UNCHANGED << reg, esp, pc >>
  BY Zenon, <1>2, SelfInv
<1> QED
  BY Zenon, <1>1, <1>2

LEMMA SwInvSuffices == SwInv => RunsInOrder /\ InsideStack
<1> SUFFICES ASSUME SwInv PROVE RunsInOrder /\ InsideStack
  BY Zenon
<1>1. ASSUME NEW t \in KernelThread
      PROVE  rootCalls[t] = << >> \/ \E k \in 1 .. 3 : rootCalls[t] = CallsDone(t, k)
  <2>1. CASE t = running
    <3>1. InPlace(t, reg, esp, pc, stack[t], frame[t], rootCalls[t])
      BY Zenon, <2>1 DEF SwInv
    <3> QED
      BY <3>1 DEF InPlace, Compiled, InMain, Inside, AtStart, Behind
  <2>2. CASE t # running
    <3>1. Parked(t, machineState[t], stack[t], frame[t], left[t], rootCalls[t])
      BY Zenon, <2>2 DEF SwInv
    <3> QED
      BY Zenon, <3>1 DEF Parked, Fresh, Gone, Compiled, InMain, Inside
  <2> QED
    BY ZenonT(40), <2>1, <2>2
<1>2. ASSUME NEW t \in KernelThread
      PROVE  /\ Len(rootCalls[t]) <= 3
             /\ \A k \in DOMAIN rootCalls[t] :
                  rootCalls[t][k] = << << ThreadBegin, func(t), ThreadFinish >>[k], argument(t) >>
  <2>1. CASE rootCalls[t] = << >>
    BY <2>1
  <2>2. ASSUME NEW n \in 1 .. 3, rootCalls[t] = CallsDone(t, n)
        PROVE  /\ Len(rootCalls[t]) <= 3
               /\ \A k \in DOMAIN rootCalls[t] :
                    rootCalls[t][k] = << << ThreadBegin, func(t), ThreadFinish >>[k], argument(t) >>
    <3>1. /\ DOMAIN CallsDone(t, n) = 1 .. n
          /\ \A k \in 1 .. n :
               CallsDone(t, n)[k] = << << ThreadBegin, func(t), ThreadFinish >>[k], argument(t) >>
      BY Zenon DEF CallsDone
    <3>2. Len(CallsDone(t, n)) = n
      BY DEF CallsDone
    <3>3. n <= 3
      OBVIOUS
    <3> QED
      BY Zenon, <2>2, <3>1, <3>2, <3>3
  <2> QED
    BY ZenonT(40), <1>1, <2>1, <2>2
<1>3. RunsInOrder
  BY Zenon, <1>2 DEF RunsInOrder
<1>4. ASSUME NEW t \in KernelThread \ {Main}, machineState[t] # << >>
      PROVE  machineState[t][1].esp + 1 < StackSize /\ stack[t][0] = STACK_FENCEPOST
  <2>1. machineState[t][1] \in Context
    BY <1>4 DEF SwInv, SwitchTypes
  <2>2. machineState[t][1].esp \in Int
    BY Zenon, <2>1 DEF Context
  <2>3. machineState[t][1].esp <= StackSize - 5 /\ stack[t][0] = STACK_FENCEPOST
    BY Zenon, <1>4 DEF SwInv, Fenced
  <2> QED
    BY <2>2, <2>3, SwitchAssumption
<1> QED
  BY Zenon, <1>3, <1>4 DEF InsideStack

\* For any threads, stack size and values in the registers: SWITCH returns to a
\* thread where that thread called it, with every register as it was, also when
\* the thread is switched to itself; a new thread calls ThreadBegin, its function and ThreadFinish, each with its
\* argument on the stack; and the fenceposts stand.
THEOREM SwitchCorrect == SwitchSpec => SwitchResumes
  BY SwitchInitInv, SwitchNextInv, SwitchStep, SwInvSuffices, PTL
     DEF SwitchSpec, SwitchResumes, ResumesAsItWas

=============================================================================
