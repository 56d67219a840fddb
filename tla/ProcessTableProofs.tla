------------------------- MODULE ProcessTableProofs -------------------------
(***************************************************************************)
(* Proofs about ProcessTable.tla, for any size of the table, any number of *)
(* processes, any programs and exit codes.                                 *)
(*                                                                         *)
(* GetCurrentThreadId searches the table by the address of a Thread.  All  *)
(* rests on its finding the caller: PInv is kept by every step from a      *)
(* state in which FindsItself holds, and FindsItself follows from PInv and *)
(* OneMatch, which holds as long as no Thread is made at an address that   *)
(* a PCB of the table still has (FreshThreads).                            *)
(***************************************************************************)
EXTENDS ProcessTable, TLAPS, FiniteSetTheorems, WellFoundedInduction

ExecPlace == {"execUpdate", "execFork", "execMutex", "execDone"}
JoinPlace == {"joinInc", "joinInc2", "joinWait", "joinBlocked", "joinDec",
              "joinDec2", "joinRelease", "joinCode"}
Exited == {"exitWait", "remove", "finished"}

\* `new PCB` has made q.
Made(q) == pcb[q].thread # None \/ pcb[q].creator # None

\* The slots, and what a PCB that is not made yet holds.
SlotInv ==
  /\ slotManager = {i \in Slot : pcbs[i] # None /\ pcbs[i] \notin deleted}
  /\ \A i, j \in Slot : pcbs[i] # None /\ pcbs[i] = pcbs[j] => i = j
  /\ \A i \in Slot : pcbs[i] # None => Made(pcbs[i])
  /\ \A q \in Process : ~Made(q) => pcb[q] = NewPCB

\* The life of a process: a Thread from Fork on, a slot until Remove.
LifeInv ==
  \A q \in Process :
    /\ at[q] = "none" <=> pcb[q].thread = None
    /\ at[q] # "none" /\ q \notin deleted => pcb[q].pid \in Slot /\ pcbs[pcb[q].pid] = q
    /\ q \in deleted => at[q] = "finished"
    /\ pcb[q].joinsem > 0 => at[q] \in Exited

\* Exec: one at a time, with a child that is not forked yet or whose mutex it has.
ExecInv ==
  /\ \A p \in Process : at[p] \in ExecPlace =>
       sem = 0 /\ \A r \in Process : at[r] \in ExecPlace => r = p
  /\ sem = 0 => \E p \in Process : at[p] \in ExecPlace
  /\ \A p \in Process : at[p] \in {"execFork", "execMutex"} =>
       /\ pcbs[arg[p]] # None
       /\ pcbs[arg[p]] \notin deleted => pcb[pcbs[arg[p]]].mutex = 0
       /\ at[p] = "execFork" <=> at[pcbs[arg[p]]] = "none"

\* A Join stands on a PCB, has its own mutex between P and V, which the Exec
\* that made it has given back, and is past JoinWait only after the Exit.
JoinOf(p) ==
  /\ at[p] \in JoinPlace => pcbs[arg[p]] # None
  /\ at[p] \in {"joinInc2", "joinDec2"} =>
       /\ pcb[p].mutex = 0
       /\ \A r \in Process : at[r] \in {"execFork", "execMutex"} => pcbs[arg[r]] # p
  /\ at[p] \in {"joinBlocked", "joinDec", "joinDec2", "joinRelease", "joinCode"} =>
       joined[p] # None
  /\ at[p] \in {"joinDec", "joinDec2", "joinRelease", "joinCode"} =>
       at[joined[p]] \in Exited

JoinInv == \A p \in Process : JoinOf(p)

\* The bound of SysExec: there is a PCB for each Exec that may need one.
Allocating == {q \in Process : at[q] \in {"exec", "execUpdate"}}
BoundInv == Cardinality(Allocating) <= Cardinality(Unmade)

PInv == TypeOK /\ SlotInv /\ LifeInv /\ ExecInv /\ JoinInv /\ BoundInv

\* No two slots of the table have the same Thread address.
OneMatch ==
  \A i, j \in Slot :
    /\ pcbs[i] # None /\ pcbs[j] # None
    /\ pcb[pcbs[i]].thread # None /\ pcb[pcbs[i]].thread = pcb[pcbs[j]].thread
    => i = j

\* What is asked of the allocator: a new Thread (PCB::Exec) is not at an address
\* that another PCB in the table has.  The PCB of a removed process is in the table
\* until its slot is used again; from then on its Thread's address may be too.
FreshThreads ==
  \A q \in Process : pcb'[q].thread \notin {None, pcb[q].thread} =>
    \A i \in Slot : pcbs[i] \notin {None, q} => pcb[pcbs[i]].thread # pcb'[q].thread

-----------------------------------------------------------------------------
(* Operators of the model.                                                 *)

LEMMA MinOfNaturals ==
  ASSUME NEW T, T \subseteq Nat, T # {}
  PROVE  Min(T) \in T /\ \A y \in T : Min(T) <= y
<1> DEFINE less == OpToRel(<, Nat)
<1>1. \E x \in T : \A y \in T : ~ (<<y, x>> \in less)
  <2>1. IsWellFoundedOn(less, Nat)
    BY Zenon, NatLessThanWellFounded
  <2> HIDE DEF less
  <2> QED
    BY Zenon, <2>1, WFMin
<1>2. \A x, y \in Nat : <<y, x>> \in less <=> y < x
  BY Zenon DEF OpToRel
<1>3. \E x \in T : \A y \in T : x <= y
  <2>1. PICK x \in T : \A y \in T : ~ (<<y, x>> \in less)
    BY Zenon, <1>1
  <2> HIDE DEF less
  <2>2. ASSUME NEW y \in T PROVE x <= y
    <3>1. x \in Nat /\ y \in Nat
      BY Zenon
    <3>2. ~(y < x)
      BY Zenon, <1>2, <2>1, <3>1
    <3> QED
      BY <3>1, <3>2
  <2> QED
    BY Zenon, <2>2
<1> QED
  BY Zenon, <1>3 DEF Min

LEMMA Constants ==
  /\ Slot \subseteq Nat /\ Process \subseteq Nat /\ 0 \in Slot /\ 0 \in Process
  /\ None \notin Process /\ -1 \notin Slot
  /\ IsFiniteSet(Process)
<1>1. MaxProcesses \in Nat /\ MaxProcesses > 0 /\ MaxExec \in Nat
  BY ProcessAssumption
<1>2. IsFiniteSet(0 .. MaxExec)
  BY <1>1, FS_Interval
<1> QED
  BY <1>1, <1>2 DEF Slot, Process, None

\* A process that finds itself reaches its own PCB.
LEMMA SelfIsP ==
  ASSUME PInv, FindsItself, NEW p \in Process, at[p] \notin {"none", "finished"}
  PROVE  GetCurrentThreadId(p) = pcb[p].pid /\ Self(p) = p /\ pcb[p].pid \in Slot
<1>1. p \notin deleted /\ pcb[p].pid \in Slot /\ pcbs[pcb[p].pid] = p
  BY Zenon DEF PInv, LifeInv
<1>2. GetCurrentThreadId(p) = pcb[p].pid
  BY Zenon DEF FindsItself, Alive
<1> QED
  BY Zenon, <1>1, <1>2 DEF Self

\* With one PCB in the table for each address, a process finds itself.
LEMMA OneMatchFinds ==
  ASSUME PInv, OneMatch
  PROVE  FindsItself
<1> SUFFICES ASSUME NEW p \in Process, at[p] \notin {"none", "finished"}
             PROVE  GetCurrentThreadId(p) = pcb[p].pid
  BY Zenon DEF FindsItself, Alive
<1>1. p \notin deleted /\ pcb[p].pid \in Slot /\ pcbs[pcb[p].pid] = p
  BY Zenon DEF PInv, LifeInv
<1>2. pcb[p].thread # None /\ p # None
  BY Zenon, Constants DEF PInv, LifeInv
<1>3. Matches(p) = {pcb[p].pid}
  <2>1. ASSUME NEW i \in Matches(p) PROVE i = pcb[p].pid
    <3>1. i \in Slot /\ pcbs[i] # None /\ pcb[pcbs[i]].thread = pcb[p].thread
      BY Zenon, <2>1 DEF Matches
    <3> QED
      BY Zenon, <3>1, <1>1, <1>2 DEF OneMatch
  <2>2. pcb[p].pid \in Matches(p)
    BY Zenon, <1>1, <1>2 DEF Matches
  <2> QED
    BY Zenon, <2>1, <2>2
<1>4. Min({pcb[p].pid}) = pcb[p].pid
  <2> DEFINE T == {pcb[p].pid}
  <2>1. T \subseteq Nat /\ T # {}
    BY Zenon, <1>1, Constants
  <2>2. Min(T) \in T
    BY Zenon, <2>1, MinOfNaturals
  <2> QED
    BY Zenon, <2>2
<1> QED
  BY Zenon, <1>1, <1>3, <1>4 DEF GetCurrentThreadId

\* GetFreeSlot returns a slot whose bit is clear, or -1.
LEMMA FreeSlot ==
  ASSUME GetFreeSlot # -1
  PROVE  GetFreeSlot \in Slot \ slotManager
<1> USE Constants
<1>1. ~(Slot \subseteq slotManager) /\ GetFreeSlot = Min(Slot \ slotManager)
  BY Zenon DEF GetFreeSlot
<1> QED
  BY Zenon, <1>1, MinOfNaturals, Slot \ slotManager # {}, Slot \ slotManager \subseteq Nat

-----------------------------------------------------------------------------
(* Steps in general.                                                       *)

\* What a step that makes no process and removes none does to the PCBs.
Kept ==
  /\ pcb' \in [Process -> PCBType]
  /\ \A r \in Process :
       /\ pcb'[r].thread = pcb[r].thread
       /\ pcb'[r].creator = pcb[r].creator
       /\ pcb'[r].pid = pcb[r].pid
       /\ ~Made(r) => pcb'[r] = pcb[r]

LEMMA UnchangedKept ==
  ASSUME TypeOK, UNCHANGED pcb
  PROVE  Kept
BY Zenon DEF Kept, TypeOK

\* What has a Thread has a PCB.
LEMMA ForkedIsMade ==
  ASSUME PInv, NEW q \in Process, at[q] # "none"
  PROVE  Made(q)
BY Zenon DEF PInv, LifeInv, Made

\* One PCB gets a record with the same names.
LEMMA SetKept ==
  ASSUME PInv, NEW q \in Process, Made(q), NEW new \in PCBType, Set(q, new),
         new.thread = pcb[q].thread, new.creator = pcb[q].creator, new.pid = pcb[q].pid
  PROVE  /\ Kept
         /\ pcb'[q] = new
         /\ \A r \in Process : r # q => pcb'[r] = pcb[r]
<1>1. pcb \in [Process -> PCBType]
  BY Zenon DEF PInv, TypeOK
<1>2. pcb' = [pcb EXCEPT ![q] = new]
  BY Zenon DEF Set
<1>3. pcb' \in [Process -> PCBType] /\ pcb'[q] = new
      /\ \A r \in Process : r # q => pcb'[r] = pcb[r]
  BY Zenon, <1>1, <1>2
<1> QED
  BY Zenon, <1>1, <1>3 DEF Kept

\* One semaphore of a PCB changes.
LEMMA PCBFields ==
  ASSUME NEW c \in PCBType
  PROVE  /\ \A n \in 0..1 : LET d == [c EXCEPT !.mutex = n]
                           IN /\ d \in PCBType /\ d.mutex = n /\ d.joinsem = c.joinsem
                              /\ d.exitsem = c.exitsem /\ d.thread = c.thread
                              /\ d.creator = c.creator /\ d.pid = c.pid
         /\ \A n \in 0..1 : LET d == [c EXCEPT !.joinsem = n]
                           IN /\ d \in PCBType /\ d.mutex = c.mutex /\ d.joinsem = n
                              /\ d.exitsem = c.exitsem /\ d.thread = c.thread
                              /\ d.creator = c.creator /\ d.pid = c.pid
         /\ \A n \in Nat : LET d == [c EXCEPT !.exitsem = n]
                           IN /\ d \in PCBType /\ d.mutex = c.mutex
                              /\ d.joinsem = c.joinsem /\ d.exitsem = n
                              /\ d.thread = c.thread
                              /\ d.creator = c.creator /\ d.pid = c.pid
BY DEF PCBType

\* The records of `new PCB` with the fields that ExecUpdate and the first
\* process set.
LEMMA NewPCBFields ==
  /\ NewPCB \in PCBType
  /\ NewPCB.thread = None /\ NewPCB.creator = None /\ NewPCB.joinsem = 0
  /\ NewPCB.exitsem = 0 /\ NewPCB.mutex = 1
BY DEF NewPCB, PCBType

ExecPCB(m, f, p) ==
  [NewPCB EXCEPT !.parentID = m, !.file = f, !.mutex = @ - 1, !.creator = p]

LEMMA ExecFields ==
  ASSUME NEW m \in Slot, NEW f \in Program, NEW p \in Process
  PROVE  /\ ExecPCB(m, f, p) \in PCBType /\ ExecPCB(m, f, p).thread = None
         /\ ExecPCB(m, f, p).creator = p /\ ExecPCB(m, f, p).mutex = 0
         /\ ExecPCB(m, f, p).joinsem = 0 /\ ExecPCB(m, f, p).exitsem = 0
<1> DEFINE a == [NewPCB EXCEPT !.parentID = m, !.file = f]
           b == [a EXCEPT !.mutex = @ - 1]
           d == [b EXCEPT !.creator = p]
<1>1. a \in PCBType /\ a.thread = None /\ a.mutex = 1 /\ a.joinsem = 0 /\ a.exitsem = 0
  BY Zenon, NewPCBFields DEF PCBType
<1>2. b \in PCBType /\ b.thread = None /\ b.mutex = 0 /\ b.joinsem = 0 /\ b.exitsem = 0
  <2> HIDE DEF a
  <2>1. a.mutex - 1 = 0 /\ 0 \in 0..1
    BY <1>1
  <2>2. b = [a EXCEPT !.mutex = 0]
    BY Zenon, <2>1
  <2> HIDE DEF b
  <2> QED
    BY Zenon, <1>1, <2>1, <2>2, PCBFields
<1>3. d \in PCBType /\ d.thread = None /\ d.mutex = 0 /\ d.joinsem = 0 /\ d.exitsem = 0
      /\ d.creator = p
  <2> HIDE DEF b
  <2> QED
    BY Zenon, <1>2 DEF PCBType
<1>4. d = ExecPCB(m, f, p)
  BY Zenon, NewPCBFields DEF PCBType, ExecPCB
<1> HIDE DEF d
<1> QED
  BY Zenon, <1>3, <1>4

LEMMA FirstFields ==
  ASSUME NEW c \in PCBType, NEW f \in Program
  PROVE  LET d == [c EXCEPT !.pid = 0, !.file = f, !.thread = 0]
         IN d \in PCBType /\ d.thread = 0 /\ d.pid = 0 /\ d.joinsem = c.joinsem
BY Zenon, Constants DEF PCBType

\* Unmade, and the processes inside Exec, as sets with a cardinality.
LEMMA UnmadeIs ==
  ASSUME PInv
  PROVE  Unmade = {q \in Process : ~Made(q)}
<1>1. ASSUME NEW q \in Process, pcb[q] = NewPCB PROVE ~Made(q)
  BY <1>1 DEF Made, NewPCB
<1> QED
  BY Zenon, <1>1 DEF Unmade, PInv, SlotInv

LEMMA SetsAreFinite ==
  ASSUME NEW S, S \subseteq Process
  PROVE  IsFiniteSet(S) /\ Cardinality(S) \in Nat
BY Zenon, Constants, FS_Subset, FS_CardinalityType

\* The parts of PInv that such a step of p does not touch.
LEMMA QuietStep ==
  ASSUME PInv, Kept, UNCHANGED << pcbs, slotManager, deleted >>,
         NEW p \in Process, NEW to \in Place, at' = [at EXCEPT ![p] = to],
         at[p] \notin {"none", "finished"}, to # "none",
         \A r \in Process : pcb'[r].joinsem > 0 => at'[r] \in Exited
  PROVE  SlotInv' /\ LifeInv' /\ (Allocating' \subseteq Allocating => BoundInv')
<1>1. \A r \in Process : Made(r)' <=> Made(r)
  BY Zenon DEF Kept, Made
<1>2. SlotInv'
  <2>1. \A q \in Process : ~Made(q)' => pcb'[q] = NewPCB
    BY Zenon, <1>1 DEF Kept, PInv, SlotInv
  <2>2. \A i \in Slot : pcbs[i] # None => pcbs[i] \in Process
    BY Zenon DEF PInv, TypeOK
  <2> QED
    BY Zenon, <1>1, <2>1, <2>2 DEF PInv, SlotInv
<1>3. LifeInv'
  <2> SUFFICES ASSUME NEW q \in Process
               PROVE  LifeInv!(q)'
    BY Zenon DEF LifeInv
  <2>1. LifeInv!(q)
    BY Zenon DEF PInv, LifeInv
  <2>2. at'[q] = IF q = p THEN to ELSE at[q]
    BY Zenon DEF PInv, TypeOK
  <2>3. pcb'[q].thread = pcb[q].thread /\ pcb'[q].pid = pcb[q].pid
    BY Zenon DEF Kept
  <2> QED
    BY Zenon, <2>1, <2>2, <2>3
<1>4. Unmade \subseteq Unmade' /\ Unmade' \subseteq Process
  BY Zenon, <1>1, UnmadeIs DEF Kept, PInv, Unmade
<1>5. ASSUME Allocating' \subseteq Allocating PROVE BoundInv'
  <2>1. Cardinality(Allocating') <= Cardinality(Allocating)
    BY Zenon, <1>5, SetsAreFinite, FS_Subset DEF Allocating
  <2>2. Cardinality(Unmade) <= Cardinality(Unmade')
    BY Zenon, <1>4, SetsAreFinite, FS_Subset
  <2>3. Cardinality(Allocating') \in Nat /\ Cardinality(Allocating) \in Nat
        /\ Cardinality(Unmade) \in Nat /\ Cardinality(Unmade') \in Nat
    BY Zenon, <1>4, <1>5, SetsAreFinite DEF Allocating
  <2> QED
    BY <2>1, <2>2, <2>3 DEF PInv, BoundInv
<1> QED
  BY Zenon, <1>2, <1>3, <1>5

\* Forking: p is between the two P and V of PCB::Exec.
Forking(p) == at[p] \in {"execFork", "execMutex"}

LEMMA ExecKept ==
  ASSUME PInv, NEW p \in Process, NEW to \in Place, at' = [at EXCEPT ![p] = to],
         at[p] \notin ExecPlace \cup {"none"}, to \notin ExecPlace \cup {"none"},
         UNCHANGED << pcbs, deleted, sem >>,
         \A r \in Process : r # p => arg'[r] = arg[r],
         \A r \in Process : Forking(r) /\ pcbs[arg[r]] \notin deleted =>
                              pcb'[pcbs[arg[r]]].mutex = 0
  PROVE  ExecInv'
<1>1. \A r \in Process : at'[r] = IF r = p THEN to ELSE at[r]
  BY Zenon DEF PInv, TypeOK
<1>2. \A r \in Process : at'[r] \in ExecPlace <=> at[r] \in ExecPlace
  BY Zenon, <1>1
<1>3. ExecInv
  BY Zenon DEF PInv
<1>4. ASSUME NEW r \in Process, at'[r] \in {"execFork", "execMutex"}
      PROVE  /\ pcbs'[arg'[r]] # None
             /\ pcbs'[arg'[r]] \notin deleted' => pcb'[pcbs'[arg'[r]]].mutex = 0
             /\ at'[r] = "execFork" <=> at'[pcbs'[arg'[r]]] = "none"
  <2>1. r # p /\ arg'[r] = arg[r] /\ at'[r] = at[r] /\ Forking(r)
    BY Zenon, <1>1, <1>4 DEF ExecPlace, Forking
  <2>2. pcbs[arg[r]] # None /\ (at[r] = "execFork" <=> at[pcbs[arg[r]]] = "none")
    BY Zenon, <1>3, <2>1 DEF ExecInv, Forking
  <2>3. pcbs[arg[r]] \in Process
    BY Zenon, <2>2 DEF PInv, TypeOK
  <2> QED
    BY Zenon, <1>1, <2>1, <2>2, <2>3
<1> QED
  BY <1>2, <1>3, <1>4 DEF ExecInv

LEMMA JoinKept ==
  ASSUME PInv, NEW p \in Process, NEW to \in Place, at' = [at EXCEPT ![p] = to],
         at[p] \in Exited => to \in Exited,
         \A i \in Slot : pcbs[i] # None => pcbs'[i] # None,
         \A r \in Process : r # p => arg'[r] = arg[r] /\ joined'[r] = joined[r],
         \A r \in Process : r # p /\ at[r] \in {"joinInc2", "joinDec2"} =>
           /\ pcb'[r].mutex = 0
           /\ \A x \in Process : Forking(x)' => pcbs'[arg'[x]] # r,
         JoinOf(p)'
  PROVE  JoinInv'
<1> SUFFICES ASSUME NEW r \in Process, r # p PROVE JoinOf(r)'
  BY Zenon DEF JoinInv
<1>1. \A x \in Process : at'[x] = IF x = p THEN to ELSE at[x]
  BY Zenon DEF PInv, TypeOK
<1>2. JoinOf(r)
  BY Zenon DEF PInv, JoinInv
<1>3. arg[r] \in Slot /\ joined[r] \in Process \cup {None}
  BY Zenon DEF PInv, TypeOK
<1> QED
  BY <1>1, <1>2, <1>3 DEF JoinOf, Forking

\* The steps that leave every mutex alone.
LEMMA CalmStep ==
  ASSUME PInv, Kept, UNCHANGED << pcbs, slotManager, deleted >>,
         NEW p \in Process, NEW to \in Place, at' = [at EXCEPT ![p] = to],
         at[p] \notin {"none", "finished"},
         to \notin {"none", "exec", "execFork"},
         to = "execUpdate" => at[p] = "exec",
         to = "execMutex" => at[p] = "execMutex" /\ arg'[p] = arg[p],
         at[p] \in Exited => to \in Exited,
         \A r \in Process : pcb'[r].mutex = pcb[r].mutex,
         \A r \in Process : pcb'[r].joinsem > 0 => at'[r] \in Exited,
         \A r \in Process : r # p => arg'[r] = arg[r] /\ joined'[r] = joined[r],
         JoinOf(p)'
  PROVE  SlotInv' /\ LifeInv' /\ JoinInv' /\ BoundInv'
<1>1. \A r \in Process : at'[r] = IF r = p THEN to ELSE at[r]
  BY Zenon DEF PInv, TypeOK
<1>2. Allocating' \subseteq Allocating
  BY Zenon, <1>1 DEF Allocating
<1>3. SlotInv' /\ LifeInv' /\ BoundInv'
  BY Zenon, <1>2, QuietStep
<1>4. \A r \in Process : Forking(r)' => Forking(r) /\ arg'[r] = arg[r]
  BY Zenon, <1>1 DEF Forking
<1>5. ASSUME NEW r \in Process, r # p, at[r] \in {"joinInc2", "joinDec2"}
      PROVE  /\ pcb'[r].mutex = 0
             /\ \A x \in Process : Forking(x)' => pcbs'[arg'[x]] # r
  BY <1>4, <1>5 DEF PInv, JoinInv, JoinOf, Forking
<1>6. JoinInv'
  BY Zenon, <1>5, JoinKept
<1> QED
  BY Zenon, <1>3, <1>6

-----------------------------------------------------------------------------
(* The actions.                                                            *)

LEMMA SysExecInv ==
  ASSUME PInv, NEW p \in Process, SysExec(p)
  PROVE  PInv'
<1> USE DEF SysExec, Go
<1>1. TypeOK'
  BY Zenon DEF PInv, TypeOK, Place
<1>2. Kept
  BY Zenon, UnchangedKept DEF PInv
<1>3. \A r \in Process : at'[r] = IF r = p THEN "exec" ELSE at[r]
  BY Zenon DEF PInv, TypeOK
<1>4. \A r \in Process : pcb'[r].joinsem > 0 => at'[r] \in Exited
  BY <1>3 DEF PInv, LifeInv, Exited
<1>5. SlotInv' /\ LifeInv'
  BY Zenon, <1>2, <1>4, QuietStep DEF Place
<1>6. ExecInv'
  BY Zenon, ExecKept DEF PInv, ExecInv, Forking, ExecPlace, Place
<1>7. JoinInv'
  <2>1. JoinOf(p)'
    BY <1>3 DEF JoinPlace, JoinOf
  <2>2. \A r \in Process : Forking(r)' => Forking(r)
    BY <1>3 DEF Forking
  <2>3. \A r \in Process : r # p /\ at[r] \in {"joinInc2", "joinDec2"} =>
           /\ pcb'[r].mutex = 0
           /\ \A x \in Process : Forking(x)' => pcbs'[arg'[x]] # r
    BY Zenon, <2>2 DEF PInv, JoinInv, JoinOf, Forking
  <2> QED
    BY Zenon, <2>1, <2>3, JoinKept DEF Exited, Place
<1>8. BoundInv'
  <2>1. Allocating' = Allocating \cup {p} /\ p \notin Allocating
    BY Zenon, <1>3 DEF Allocating
  <2>2. IsFiniteSet(Allocating) /\ Cardinality(Allocating) \in Nat
    BY Zenon, SetsAreFinite DEF Allocating
  <2>3. Cardinality(Allocating') = Cardinality(Allocating) + 1
    BY Zenon, <2>1, <2>2, FS_AddElement
  <2>4. Unmade' = Unmade /\ Cardinality(Unmade) \in Nat
    BY Zenon, SetsAreFinite DEF Unmade
  <2> QED
    BY <2>2, <2>3, <2>4 DEF BoundInv, Allocating
<1> QED
  BY Zenon, <1>1, <1>5, <1>6, <1>7, <1>8 DEF PInv

LEMMA ExecPInv ==
  ASSUME PInv, NEW p \in Process, ExecP(p)
  PROVE  PInv'
<1> USE DEF ExecP, Go
<1>1. sem = 1 /\ sem' = 0
  BY DEF PInv, TypeOK
<1>2. TypeOK'
  BY <1>1 DEF PInv, TypeOK, Place
<1>3. \A r \in Process : at'[r] = IF r = p THEN "execUpdate" ELSE at[r]
  BY Zenon DEF PInv, TypeOK
<1>4. SlotInv' /\ LifeInv' /\ JoinInv' /\ BoundInv'
  <2>1. Kept
    BY Zenon, UnchangedKept DEF PInv
  <2>2. \A r \in Process : pcb'[r].joinsem > 0 => at'[r] \in Exited
    BY <1>3 DEF PInv, LifeInv, Exited
  <2>3. JoinOf(p)'
    BY <1>3 DEF JoinPlace, JoinOf
  <2> QED
    BY Zenon, <2>1, <2>2, <2>3, CalmStep DEF Place, Exited
<1>5. ExecInv'
  <2>1. \A r \in Process : at[r] \notin ExecPlace
    BY <1>1 DEF PInv, ExecInv
  <2> QED
    BY <1>1, <1>3, <2>1 DEF ExecInv, ExecPlace
<1> QED
  BY Zenon, <1>2, <1>4, <1>5 DEF PInv

\* The two ends of an Exec: sem->V().
LEMMA ExecEndInv ==
  ASSUME PInv, NEW p \in Process, Go(p, "execUpdate", "user") \/ Go(p, "execDone", "user"),
         sem' = sem + 1, arg' \in [Process -> Slot], kids' \in [Process -> SUBSET Slot],
         \A r \in Process : r # p => arg'[r] = arg[r],
         UNCHANGED << pcbs, slotManager, pcb, deleted, joined, machine >>
  PROVE  PInv'
<1> USE DEF Go
<1>1. sem = 0 /\ sem' = 1 /\ \A r \in Process : at[r] \in ExecPlace => r = p
  BY DEF PInv, ExecInv, ExecPlace
<1>2. TypeOK'
  BY <1>1 DEF PInv, TypeOK, Place
<1>3. \A r \in Process : at'[r] = IF r = p THEN "user" ELSE at[r]
  BY Zenon DEF PInv, TypeOK
<1>4. SlotInv' /\ LifeInv' /\ JoinInv' /\ BoundInv'
  <2>1. Kept
    BY Zenon, UnchangedKept DEF PInv
  <2>2. \A r \in Process : pcb'[r].joinsem > 0 => at'[r] \in Exited
    BY Zenon, <1>3 DEF PInv, LifeInv, Exited
  <2>3. JoinOf(p)'
    BY Zenon, <1>3 DEF JoinPlace, JoinOf
  <2> QED
    BY Zenon, <2>1, <2>2, <2>3, CalmStep DEF Place, Exited
<1>5. ExecInv'
  <2>1. \A r \in Process : at'[r] \notin ExecPlace
    BY Zenon, <1>1, <1>3 DEF ExecPlace
  <2> QED
    BY <1>1, <2>1 DEF ExecInv, ExecPlace
<1> QED
  BY Zenon, <1>2, <1>4, <1>5 DEF PInv

LEMMA ExecRefusedInv ==
  ASSUME PInv, NEW p \in Process, NEW f \in Program, ExecRefused(p, f)
  PROVE  PInv'
BY Zenon, ExecEndInv DEF ExecRefused, PInv, TypeOK

LEMMA ExecDoneInv ==
  ASSUME PInv, NEW p \in Process, ExecDone(p)
  PROVE  PInv'
<1>1. arg' \in [Process -> Slot] /\ \A r \in Process : r # p => arg'[r] = arg[r]
  BY Zenon, Constants DEF ExecDone, PInv, TypeOK
<1>2. kids' \in [Process -> SUBSET Slot]
  BY Zenon DEF ExecDone, PInv, TypeOK
<1> QED
  BY Zenon, <1>1, <1>2, ExecEndInv DEF ExecDone

\* A step of a process outside Exec that changes no PCB, with the Exec part.
LEMMA OutsideExec ==
  ASSUME PInv, UNCHANGED << pcbs, slotManager, sem, pcb, deleted >>,
         NEW p \in Process, NEW to \in Place, at' = [at EXCEPT ![p] = to],
         at[p] \notin ExecPlace \cup {"none", "finished"},
         to \notin ExecPlace \cup {"none", "exec"},
         at[p] \in Exited => to \in Exited,
         \A r \in Process : r # p => arg'[r] = arg[r] /\ joined'[r] = joined[r],
         JoinOf(p)'
  PROVE  SlotInv' /\ LifeInv' /\ JoinInv' /\ BoundInv' /\ ExecInv'
<1>1. \A r \in Process : at'[r] = IF r = p THEN to ELSE at[r]
  BY Zenon DEF PInv, TypeOK
<1>2. Kept
  BY Zenon, UnchangedKept DEF PInv
<1>3. \A r \in Process : pcb'[r].joinsem > 0 => at'[r] \in Exited
  BY <1>1 DEF PInv, LifeInv
<1>4. SlotInv' /\ LifeInv' /\ JoinInv' /\ BoundInv'
  BY Zenon, <1>2, <1>3, CalmStep DEF ExecPlace
<1>5. \A r \in Process : Forking(r) /\ pcbs[arg[r]] \notin deleted =>
                          pcb'[pcbs[arg[r]]].mutex = 0
  BY Zenon DEF PInv, ExecInv, Forking
<1>6. ExecInv'
  BY Zenon, <1>5, ExecKept
<1> QED
  BY Zenon, <1>4, <1>6

LEMMA StartProcessInv ==
  ASSUME PInv, NEW p \in Process, StartProcess(p)
  PROVE  PInv'
<1>1. PICK to \in {"user", "lost"} : Go(p, "start", to)
  BY Zenon DEF StartProcess
<1>2. TypeOK'
  BY Zenon, <1>1 DEF StartProcess, Go, PInv, TypeOK, Place
<1>3. at'[p] = to
  BY Zenon, <1>1 DEF Go, PInv, TypeOK
<1>4. JoinOf(p)'
  BY Zenon, <1>3 DEF JoinPlace, JoinOf
<1>5. SlotInv' /\ LifeInv' /\ JoinInv' /\ BoundInv' /\ ExecInv'
  BY Zenon, <1>1, <1>4, OutsideExec DEF StartProcess, Go, ExecPlace, Exited, Place
<1> QED
  BY Zenon, <1>2, <1>5 DEF PInv

LEMMA JoinUpdateInv ==
  ASSUME PInv, NEW p \in Process, NEW id, JoinUpdate(p, id)
  PROVE  PInv'
<1> USE DEF JoinUpdate
<1>1. PICK to \in {"user", "joinInc"} :
        /\ Go(p, "user", to)
        /\ arg' = IF to = "user" THEN arg ELSE [arg EXCEPT ![p] = id]
        /\ to = "joinInc" => IsExist(id)
  BY Zenon DEF JoinUpdate
<1>2. to = "joinInc" => id \in Slot /\ pcbs[id] # None
  BY Zenon, <1>1 DEF IsExist
<1>3. kids' \in [Process -> SUBSET Slot]
  BY Zenon DEF PInv, TypeOK
<1>4. arg' \in [Process -> Slot] /\ (\A r \in Process : r # p => arg'[r] = arg[r])
      /\ (to = "joinInc" => arg'[p] = id)
  BY Zenon, <1>1, <1>2 DEF PInv, TypeOK
<1>5. at'[p] = to /\ at' \in [Process -> Place]
  BY Zenon, <1>1 DEF Go, PInv, TypeOK, Place
<1>6. TypeOK'
  BY Zenon, <1>3, <1>4, <1>5 DEF PInv, TypeOK
<1>7. JoinOf(p)'
  BY Zenon, <1>2, <1>4, <1>5 DEF JoinPlace, JoinOf
<1>8. SlotInv' /\ LifeInv' /\ JoinInv' /\ BoundInv' /\ ExecInv'
  BY Zenon, <1>1, <1>4, <1>7, OutsideExec DEF Go, ExecPlace, Exited, Place
<1> QED
  BY Zenon, <1>6, <1>8 DEF PInv

LEMMA JoinReturnInv ==
  ASSUME PInv, NEW p \in Process, JoinReturn(p)
  PROVE  PInv'
<1> USE DEF JoinReturn, Go
<1>1. TypeOK'
  BY Zenon, Constants DEF PInv, TypeOK, Place
<1>2. at'[p] = "user"
  BY Zenon DEF PInv, TypeOK
<1>3. JoinOf(p)'
  BY Zenon, <1>2 DEF JoinPlace, JoinOf
<1>4. \A r \in Process : r # p => arg'[r] = arg[r] /\ joined'[r] = joined[r]
  BY Zenon DEF PInv, TypeOK
<1>5. SlotInv' /\ LifeInv' /\ JoinInv' /\ BoundInv' /\ ExecInv'
  BY Zenon, <1>3, <1>4, OutsideExec DEF ExecPlace, Exited, Place
<1> QED
  BY Zenon, <1>1, <1>5 DEF PInv

\* A step of a process outside Exec that changes joinsem or exitsem of one PCB.
LEMMA SemaphoreStep ==
  ASSUME PInv, UNCHANGED << pcbs, slotManager, sem, deleted >>,
         NEW p \in Process, NEW to \in Place, at' = [at EXCEPT ![p] = to],
         at[p] \notin ExecPlace \cup {"none", "finished"},
         to \notin ExecPlace \cup {"none", "exec"},
         at[p] \in Exited => to \in Exited,
         NEW q \in Process, Made(q), NEW new \in PCBType, Set(q, new),
         new.thread = pcb[q].thread, new.creator = pcb[q].creator, new.pid = pcb[q].pid,
         new.mutex = pcb[q].mutex, new.joinsem > 0 => at'[q] \in Exited,
         \A r \in Process : r # p => arg'[r] = arg[r] /\ joined'[r] = joined[r],
         JoinOf(p)'
  PROVE  /\ SlotInv' /\ LifeInv' /\ JoinInv' /\ BoundInv' /\ ExecInv'
         /\ pcb' \in [Process -> PCBType]
<1>1. \A r \in Process : at'[r] = IF r = p THEN to ELSE at[r]
  BY Zenon DEF PInv, TypeOK
<1>2. Kept /\ pcb'[q] = new /\ \A r \in Process : r # q => pcb'[r] = pcb[r]
  BY Zenon, SetKept
<1>3. ASSUME NEW r \in Process, pcb'[r].joinsem > 0 PROVE at'[r] \in Exited
  <2>1. pcb[r].joinsem > 0 => at[r] \in Exited
    BY Zenon DEF PInv, LifeInv
  <2>2. at[r] \in Exited => at'[r] \in Exited
    BY Zenon, <1>1
  <2>3. CASE r = q
    BY Zenon, <1>2, <1>3, <2>3
  <2>4. CASE r # q
    BY Zenon, <1>2, <1>3, <2>1, <2>2, <2>4
  <2> QED
    BY Zenon, <2>3, <2>4
<1>4. \A r \in Process : pcb'[r].mutex = pcb[r].mutex
  BY Zenon, <1>2
<1>5. SlotInv' /\ LifeInv' /\ JoinInv' /\ BoundInv'
  BY Zenon, <1>2, <1>3, <1>4, CalmStep DEF ExecPlace
<1>6. \A r \in Process : Forking(r) /\ pcbs[arg[r]] \notin deleted =>
                          pcb'[pcbs[arg[r]]].mutex = 0
  BY <1>4 DEF PInv, ExecInv, Forking, TypeOK
<1>7. ExecInv'
  BY Zenon, <1>6, ExecKept
<1> QED
  BY Zenon, <1>2, <1>5, <1>7 DEF Kept

LEMMA JoinWaitInv ==
  ASSUME PInv, NEW p \in Process, JoinWait(p)
  PROVE  PInv'
<1> DEFINE q == pcbs[arg[p]]
<1> USE DEF JoinWait
<1>1. at[p] = "joinWait" /\ arg[p] \in Slot /\ q # None
  BY Zenon DEF Go, PInv, TypeOK, JoinInv, JoinOf, JoinPlace
<1>2. q \in Process
  BY Zenon, <1>1 DEF PInv, TypeOK
<1>3. joined' \in [Process -> Process \cup {None}] /\ joined'[p] = q
      /\ \A r \in Process : r # p => joined'[r] = joined[r]
  BY Zenon, <1>2 DEF PInv, TypeOK
<1>4. CASE q \notin deleted /\ pcb[q].joinsem > 0
  <2> DEFINE new == [pcb[q] EXCEPT !.joinsem = @ - 1]
  <2>1. Go(p, "joinWait", "joinDec") /\ Set(q, new) /\ UNCHANGED machine
    BY <1>4 DEF PInv, TypeOK, PCBType
  <2>2. pcb[q] \in PCBType /\ pcb[q].joinsem - 1 \in 0..1 /\ pcb[q].joinsem - 1 = 0
    BY <1>2, <1>4 DEF PInv, TypeOK, PCBType
  <2>3. /\ new \in PCBType /\ new.thread = pcb[q].thread /\ new.creator = pcb[q].creator
        /\ new.pid = pcb[q].pid /\ new.mutex = pcb[q].mutex /\ new.joinsem = 0
    BY ZenonT(40), <2>2, PCBFields
  <2>4. at[q] \in Exited
    BY Zenon, <1>2, <1>4 DEF PInv, LifeInv
  <2>5. \A r \in Process : at'[r] = IF r = p THEN "joinDec" ELSE at[r]
    BY Zenon, <2>1 DEF Go, PInv, TypeOK
  <2>6. JoinOf(p)'
    BY Zenon, <1>1, <1>2, <1>3, <2>4, <2>5, Constants DEF JoinPlace, Exited, JoinOf
  <2>7. /\ SlotInv' /\ LifeInv' /\ JoinInv' /\ BoundInv' /\ ExecInv'
        /\ pcb' \in [Process -> PCBType]
    <3>1. UNCHANGED << pcbs, slotManager, sem, deleted, arg >>
      BY Zenon
    <3>2. /\ "joinDec" \in Place /\ at' = [at EXCEPT ![p] = "joinDec"]
          /\ at[p] \notin ExecPlace \cup {"none", "finished"} /\ at[p] \notin Exited
          /\ "joinDec" \notin ExecPlace \cup {"none", "exec"} /\ Made(q)
      BY ZenonT(40), <1>1, <1>2, <2>1, <2>4, ForkedIsMade DEF Go, ExecPlace, Exited, Place
    <3>3. ~(new.joinsem > 0)
      BY <2>3
    <3> HIDE DEF new, q, JoinWait
    <3> QED
      BY Zenon, <1>2, <1>3, <2>1, <2>3, <2>6, <3>1, <3>2, <3>3, SemaphoreStep
  <2>8. TypeOK'
    BY Zenon, <1>3, <2>1, <2>7 DEF Go, PInv, TypeOK, Place
  <2> QED
    BY Zenon, <2>7, <2>8 DEF PInv
<1>5. CASE ~(q \notin deleted /\ pcb[q].joinsem > 0)
  <2>1. UNCHANGED pcb
    BY Zenon, <1>5
  <2>2. PICK to \in {"joinBlocked", "joinDec", "lost"} :
          /\ Go(p, "joinWait", to)
          /\ to = "joinDec" => q \in deleted
          /\ machine' \in {machine, "aborted"}
    BY Zenon, <1>5
  <2>3. \A r \in Process : at'[r] = IF r = p THEN to ELSE at[r]
    BY Zenon, <2>2 DEF Go, PInv, TypeOK
  <2>4. q \in deleted => at[q] \in Exited
    BY Zenon, <1>2 DEF PInv, LifeInv, Exited
  <2>5. JoinOf(p)'
    BY Zenon, <1>1, <1>2, <1>3, <2>2, <2>3, <2>4, Constants DEF JoinPlace, Exited, JoinOf
  <2>6. SlotInv' /\ LifeInv' /\ JoinInv' /\ BoundInv' /\ ExecInv'
    BY Zenon, <1>3, <2>1, <2>2, <2>5, OutsideExec DEF Go, ExecPlace, Exited, Place
  <2>7. TypeOK'
    BY Zenon, <1>3, <2>1, <2>2 DEF Go, PInv, TypeOK, Place
  <2> QED
    BY Zenon, <2>6, <2>7 DEF PInv
<1> QED
  BY Zenon, <1>4, <1>5

LEMMA JoinWakeInv ==
  ASSUME PInv, NEW p \in Process, JoinWake(p)
  PROVE  PInv'
<1> DEFINE q == joined[p]
           new == [pcb[q] EXCEPT !.joinsem = @ - 1]
<1> USE DEF JoinWake
<1>1. at[p] = "joinBlocked" /\ q # None /\ pcbs[arg[p]] # None
  BY Zenon DEF Go, PInv, JoinInv, JoinOf, JoinPlace
<1>2. q \in Process
  BY Zenon, <1>1 DEF PInv, TypeOK
<1>3. pcb[q] \in PCBType /\ pcb[q].joinsem - 1 \in 0..1 /\ pcb[q].joinsem - 1 = 0
  BY <1>2 DEF PInv, TypeOK, PCBType
<1>4. /\ new \in PCBType /\ new.thread = pcb[q].thread /\ new.creator = pcb[q].creator
      /\ new.pid = pcb[q].pid /\ new.mutex = pcb[q].mutex /\ new.joinsem = 0
  BY ZenonT(40), <1>3, PCBFields
<1>5. at[q] \in Exited
  BY Zenon, <1>2 DEF PInv, LifeInv
<1>6. \A r \in Process : at'[r] = IF r = p THEN "joinDec" ELSE at[r]
  BY Zenon DEF Go, PInv, TypeOK
<1>7. JoinOf(p)'
  BY Zenon, <1>1, <1>2, <1>5, <1>6 DEF JoinPlace, Exited, JoinOf
<1>8. /\ SlotInv' /\ LifeInv' /\ JoinInv' /\ BoundInv' /\ ExecInv'
      /\ pcb' \in [Process -> PCBType]
  <2>1. Go(p, "joinBlocked", "joinDec") /\ Set(q, new)
        /\ UNCHANGED << pcbs, slotManager, sem, deleted, arg, joined >>
    BY Zenon
  <2>2. /\ "joinDec" \in Place /\ at' = [at EXCEPT ![p] = "joinDec"]
        /\ at[p] \notin ExecPlace \cup {"none", "finished"} /\ at[p] \notin Exited
        /\ "joinDec" \notin ExecPlace \cup {"none", "exec"} /\ Made(q)
    BY Zenon, <1>1, <1>2, <1>5, <2>1, ForkedIsMade DEF Go, ExecPlace, Exited, Place
  <2>3. ~(new.joinsem > 0)
    BY <1>4
  <2> HIDE DEF new, q, JoinWake
  <2> QED
    BY Zenon, <1>2, <1>4, <1>7, <2>1, <2>2, <2>3, SemaphoreStep
<1>9. TypeOK'
  BY Zenon, <1>8 DEF Go, PInv, TypeOK, Place
<1> QED
  BY Zenon, <1>8, <1>9 DEF PInv

LEMMA JoinReleaseInv ==
  ASSUME PInv, NEW p \in Process, JoinRelease(p)
  PROVE  PInv'
<1> DEFINE q == pcbs[arg[p]]
           new == [pcb[q] EXCEPT !.exitsem = @ + 1]
<1> USE DEF JoinRelease
<1>1. at[p] = "joinRelease" /\ q # None /\ joined[p] # None /\ at[joined[p]] \in Exited
  BY Zenon DEF Go, PInv, JoinInv, JoinOf, JoinPlace
<1>2. q \in Process /\ joined[p] \in Process
  BY Zenon, <1>1 DEF PInv, TypeOK
<1>3. CASE q \notin deleted
  <2>1. pcb[q] \in PCBType /\ pcb[q].exitsem + 1 \in Nat
    BY <1>2 DEF PInv, TypeOK, PCBType
  <2>2. /\ new \in PCBType /\ new.thread = pcb[q].thread /\ new.creator = pcb[q].creator
        /\ new.pid = pcb[q].pid /\ new.mutex = pcb[q].mutex
        /\ new.joinsem = pcb[q].joinsem
    BY ZenonT(40), <2>1, PCBFields
  <2>3. \A r \in Process : at'[r] = IF r = p THEN "joinCode" ELSE at[r]
    BY Zenon, <1>3 DEF Go, PInv, TypeOK
  <2>4. JoinOf(p)'
    BY Zenon, <1>1, <1>2, <2>3 DEF JoinPlace, Exited, JoinOf
  <2>5. /\ SlotInv' /\ LifeInv' /\ JoinInv' /\ BoundInv' /\ ExecInv'
        /\ pcb' \in [Process -> PCBType]
    <3>1. Go(p, "joinRelease", "joinCode") /\ Set(q, new)
          /\ UNCHANGED << pcbs, slotManager, sem, deleted, arg, joined >>
      BY Zenon, <1>3
    <3>2. /\ "joinCode" \in Place /\ at' = [at EXCEPT ![p] = "joinCode"]
          /\ at[p] \notin ExecPlace \cup {"none", "finished"} /\ at[p] \notin Exited
          /\ "joinCode" \notin ExecPlace \cup {"none", "exec"} /\ Made(q)
      BY Zenon, <1>1, <1>3, <3>1 DEF PInv, SlotInv, TypeOK, Go, ExecPlace, Exited, Place
    <3>3. new.joinsem > 0 => at'[q] \in Exited
      BY Zenon, <1>1, <1>2, <2>2, <2>3 DEF PInv, LifeInv, Exited
    <3> HIDE DEF new, q, JoinRelease
    <3> QED
      BY Zenon, <1>2, <2>2, <2>4, <3>1, <3>2, <3>3, SemaphoreStep
  <2>6. TypeOK'
    BY Zenon, <1>3, <2>5 DEF Go, PInv, TypeOK, Place
  <2> QED
    BY Zenon, <2>5, <2>6 DEF PInv
<1>4. CASE q \in deleted
  <2>1. UNCHANGED pcb
    BY Zenon, <1>4
  <2>2. PICK to \in {"joinCode", "lost"} :
          Go(p, "joinRelease", to) /\ machine' \in {machine, "aborted"}
    BY Zenon, <1>4
  <2>3. \A r \in Process : at'[r] = IF r = p THEN to ELSE at[r]
    BY Zenon, <2>2 DEF Go, PInv, TypeOK
  <2>4. JoinOf(p)'
    BY Zenon, <1>1, <1>2, <2>2, <2>3 DEF JoinPlace, Exited, JoinOf
  <2>5. SlotInv' /\ LifeInv' /\ JoinInv' /\ BoundInv' /\ ExecInv'
    BY Zenon, <2>1, <2>2, <2>4, OutsideExec DEF Go, ExecPlace, Exited, Place
  <2>6. TypeOK'
    BY Zenon, <2>1, <2>2 DEF Go, PInv, TypeOK, Place
  <2> QED
    BY Zenon, <2>5, <2>6 DEF PInv
<1> QED
  BY Zenon, <1>3, <1>4

LEMMA ExitUpdateInv ==
  ASSUME PInv, FindsItself, NEW p \in Process, NEW code \in ExitCode, ExitUpdate(p, code)
  PROVE  PInv'
<1> USE DEF ExitUpdate
<1>1. at[p] = "user"
  BY Zenon DEF Go
<1>2. Self(p) = p
  BY Zenon, <1>1, SelfIsP
<1>3. CASE GetCurrentThreadId(p) = 0
  <2>1. UNCHANGED pcb /\ Go(p, "user", "finished") /\ machine' = "halted"
    BY Zenon, <1>3
  <2>2. at'[p] = "finished"
    BY Zenon, <2>1 DEF Go, PInv, TypeOK
  <2>3. JoinOf(p)'
    BY Zenon, <2>2 DEF JoinPlace, JoinOf
  <2>4. SlotInv' /\ LifeInv' /\ JoinInv' /\ BoundInv' /\ ExecInv'
    BY Zenon, <2>1, <2>3, OutsideExec DEF Go, ExecPlace, Exited, Place
  <2>5. TypeOK'
    BY Zenon, <2>1 DEF Go, PInv, TypeOK, Place
  <2> QED
    BY Zenon, <2>4, <2>5 DEF PInv
<1>4. CASE GetCurrentThreadId(p) # 0
  <2> DEFINE new == [pcb[p] EXCEPT !.exitcode = code, !.joinsem = @ + 1]
  <2>1. /\ Go(p, "user", "exitWait") /\ Set(p, new)
        /\ UNCHANGED << pcbs, slotManager, sem, deleted, arg, joined, kids, machine >>
    BY Zenon, <1>2, <1>4
  <2>2. pcb[p] \in PCBType /\ pcb[p].joinsem = 0
    BY <1>1 DEF PInv, TypeOK, PCBType, LifeInv, Exited
  <2>3. new \in PCBType /\ new.thread = pcb[p].thread /\ new.creator = pcb[p].creator
        /\ new.pid = pcb[p].pid /\ new.mutex = pcb[p].mutex
    <3> DEFINE mid == [pcb[p] EXCEPT !.exitcode = code]
    <3>1. mid \in PCBType /\ mid.thread = pcb[p].thread /\ mid.creator = pcb[p].creator
          /\ mid.pid = pcb[p].pid /\ mid.mutex = pcb[p].mutex /\ mid.joinsem = 0
      BY <2>2 DEF PCBType
    <3>2. new = [mid EXCEPT !.joinsem = @ + 1]
      BY Zenon, <2>2 DEF PCBType
    <3>3. mid.joinsem + 1 \in 0..1
      BY <3>1
    <3> HIDE DEF mid, new
    <3> QED
      BY ZenonT(40), <3>1, <3>2, <3>3, PCBFields
  <2>4. at'[p] = "exitWait"
    BY Zenon, <2>1 DEF Go, PInv, TypeOK
  <2>5. JoinOf(p)'
    BY Zenon, <2>4 DEF JoinPlace, JoinOf
  <2>6. /\ SlotInv' /\ LifeInv' /\ JoinInv' /\ BoundInv' /\ ExecInv'
        /\ pcb' \in [Process -> PCBType]
    <3>1. /\ "exitWait" \in Place /\ at' = [at EXCEPT ![p] = "exitWait"]
          /\ at[p] \notin ExecPlace \cup {"none", "finished"} /\ at[p] \notin Exited
          /\ "exitWait" \notin ExecPlace \cup {"none", "exec"} /\ at'[p] \in Exited
          /\ Made(p)
      BY Zenon, <1>1, <2>1, <2>4, ForkedIsMade DEF Go, ExecPlace, Exited, Place
    <3> HIDE DEF new, ExitUpdate
    <3> QED
      BY Zenon, <2>1, <2>3, <2>5, <3>1, SemaphoreStep
  <2>7. TypeOK'
    BY Zenon, <2>1, <2>6 DEF Go, PInv, TypeOK, Place
  <2> QED
    BY Zenon, <2>6, <2>7 DEF PInv
<1> QED
  BY Zenon, <1>3, <1>4

LEMMA ExitWaitInv ==
  ASSUME PInv, FindsItself, NEW p \in Process, ExitWait(p)
  PROVE  PInv'
<1> DEFINE new == [pcb[p] EXCEPT !.exitsem = @ - 1]
<1>1. at[p] = "exitWait"
  BY Zenon DEF ExitWait, Go
<1>2. Self(p) = p
  BY Zenon, <1>1, SelfIsP
<1>3. /\ Go(p, "exitWait", "remove") /\ Set(p, new) /\ pcb[p].exitsem > 0
      /\ UNCHANGED << pcbs, slotManager, sem, deleted, arg, joined, kids, machine >>
  BY Zenon, <1>2 DEF ExitWait
<1>4. pcb[p] \in PCBType /\ pcb[p].exitsem - 1 \in Nat
  BY <1>3 DEF PInv, TypeOK, PCBType
<1>5. /\ new \in PCBType /\ new.thread = pcb[p].thread /\ new.creator = pcb[p].creator
      /\ new.pid = pcb[p].pid /\ new.mutex = pcb[p].mutex
  BY ZenonT(40), <1>4, PCBFields
<1>6. at'[p] = "remove"
  BY Zenon, <1>3 DEF Go, PInv, TypeOK
<1>7. JoinOf(p)'
  BY Zenon, <1>6 DEF JoinPlace, JoinOf
<1>8. /\ SlotInv' /\ LifeInv' /\ JoinInv' /\ BoundInv' /\ ExecInv'
      /\ pcb' \in [Process -> PCBType]
  <2>1. /\ "remove" \in Place /\ at' = [at EXCEPT ![p] = "remove"]
        /\ at[p] \notin ExecPlace \cup {"none", "finished"} /\ "remove" \in Exited
        /\ "remove" \notin ExecPlace \cup {"none", "exec"} /\ at'[p] \in Exited
        /\ Made(p)
    BY Zenon, <1>1, <1>3, <1>6, ForkedIsMade DEF Go, ExecPlace, Exited, Place
  <2> HIDE DEF new
  <2> QED
    BY Zenon, <1>3, <1>5, <1>7, <2>1, SemaphoreStep
<1>9. TypeOK'
  BY Zenon, <1>3, <1>8 DEF Go, PInv, TypeOK, Place
<1> QED
  BY Zenon, <1>8, <1>9 DEF PInv

\* P and V of a process's own mutex in IncNumWait and DecNumWait.
LEMMA NumWaitInv ==
  ASSUME PInv, NEW p \in Process, NEW from, NEW to, NEW n \in 0..1,
         \/ from \in {"joinInc", "joinDec"} /\ to \in {"joinInc2", "joinDec2"} /\ n = 0
            /\ pcb[p].mutex > 0
         \/ from \in {"joinInc2", "joinDec2"} /\ to \in {"joinWait", "joinRelease"} /\ n = 1,
         from \in {"joinInc", "joinInc2"} => to \in {"joinInc2", "joinWait"},
         Go(p, from, to), Set(p, [pcb[p] EXCEPT !.mutex = n]),
         UNCHANGED << pcbs, slotManager, sem, deleted, arg, joined, kids, machine >>
  PROVE  PInv'
<1> DEFINE new == [pcb[p] EXCEPT !.mutex = n]
<1>1. /\ at[p] = from /\ to \in Place /\ from \in JoinPlace /\ to \in JoinPlace
      /\ at' = [at EXCEPT ![p] = to]
      /\ \A r \in Process : at'[r] = IF r = p THEN to ELSE at[r]
  BY Zenon DEF Go, PInv, TypeOK, Place, JoinPlace
<1>2. /\ new \in PCBType /\ new.thread = pcb[p].thread /\ new.creator = pcb[p].creator
      /\ new.pid = pcb[p].pid /\ new.joinsem = pcb[p].joinsem /\ new.mutex = n
  <2>1. pcb[p] \in PCBType
    BY Zenon DEF PInv, TypeOK
  <2> QED
    BY ZenonT(40), <2>1, PCBFields
<1>3. Kept /\ pcb'[p] = new /\ \A r \in Process : r # p => pcb'[r] = pcb[r]
  <2>1. Made(p)
    BY Zenon, <1>1, ForkedIsMade DEF JoinPlace
  <2> HIDE DEF new
  <2> QED
    BY Zenon, <1>2, <2>1, SetKept DEF new
<1> HIDE DEF new
<1>4. TypeOK'
  BY Zenon, <1>1, <1>3 DEF Kept, PInv, TypeOK
<1>5. \A r \in Process : pcb'[r].joinsem > 0 => at'[r] \in Exited
  BY <1>1, <1>2, <1>3 DEF PInv, LifeInv, Exited, JoinPlace
<1>6. Allocating' \subseteq Allocating
  BY Zenon, <1>1 DEF Allocating, JoinPlace
<1>7. SlotInv' /\ LifeInv' /\ BoundInv'
  BY Zenon, <1>1, <1>3, <1>5, <1>6, QuietStep DEF JoinPlace
<1>8. \A r \in Process : Forking(r) => pcbs[arg[r]] # p \/ p \in deleted
  <2>1. CASE from \in {"joinInc", "joinDec"}
    <3>1. pcb[p].mutex > 0
      BY Zenon, <2>1
    <3> QED
      BY <3>1 DEF PInv, ExecInv, Forking
  <2>2. CASE from \in {"joinInc2", "joinDec2"}
    BY Zenon, <1>1, <2>2 DEF PInv, JoinInv, JoinOf, Forking
  <2> QED
    BY Zenon, <2>1, <2>2
<1>9. ExecInv'
  <2>1. ASSUME NEW r \in Process, Forking(r), pcbs[arg[r]] \notin deleted
        PROVE  pcb'[pcbs[arg[r]]].mutex = 0
    BY <1>3, <1>8, <2>1 DEF PInv, ExecInv, Forking, TypeOK
  <2> QED
    BY Zenon, <1>1, <2>1, ExecKept DEF JoinPlace, ExecPlace
<1>10. JoinInv'
  <2>1. p \notin deleted
    BY Zenon, <1>1 DEF PInv, LifeInv, JoinPlace
  <2>2. \A r \in Process : Forking(r)' <=> Forking(r)
    BY Zenon, <1>1 DEF Forking, JoinPlace
  <2>3. JoinOf(p)
    BY Zenon DEF PInv, JoinInv
  <2>4. JoinOf(p)'
    <3>1. pcbs[arg[p]] # None
      BY Zenon, <1>1, <2>3 DEF JoinOf
    <3>2. to \in {"joinInc2", "joinDec2"} => n = 0
      BY Zenon
    <3>3. \A r \in Process : Forking(r)' => pcbs'[arg'[r]] # p
      BY Zenon, <1>8, <2>1, <2>2
    <3>4. to \in {"joinDec2", "joinRelease"} => from \in {"joinDec", "joinDec2"}
      BY Zenon
    <3>5. ~(to \in {"joinBlocked", "joinDec", "joinCode"})
      BY Zenon
    <3>6. from \in {"joinDec", "joinDec2"} => joined[p] # None /\ at[joined[p]] \in Exited
      BY Zenon, <1>1, <2>3 DEF JoinOf
    <3>7. joined[p] # None => joined[p] \in Process
      BY Zenon DEF PInv, TypeOK
    <3> QED
      BY <1>1, <1>2, <1>3, <3>1, <3>2, <3>3, <3>4, <3>5, <3>6, <3>7
      DEF JoinOf, Forking, Exited, JoinPlace
  <2>5. ASSUME NEW r \in Process, r # p, at[r] \in {"joinInc2", "joinDec2"}
        PROVE  /\ pcb'[r].mutex = 0
               /\ \A x \in Process : Forking(x)' => pcbs'[arg'[x]] # r
    BY Zenon, <1>3, <2>2, <2>5 DEF PInv, JoinInv, JoinOf, Forking
  <2> QED
    BY Zenon, <1>1, <2>4, <2>5, JoinKept DEF JoinPlace, Exited
<1> QED
  BY Zenon, <1>4, <1>7, <1>9, <1>10 DEF PInv

LEMMA NumWaitPInv ==
  ASSUME PInv, FindsItself, NEW p \in Process,
         NEW from \in {"joinInc", "joinDec"}, NEW to,
         to = IF from = "joinInc" THEN "joinInc2" ELSE "joinDec2",
         NumWaitP(p, from, to)
  PROVE  PInv'
<1>1. Go(p, from, to) /\ at[p] = from
      /\ UNCHANGED << pcbs, slotManager, sem, deleted, arg, joined, kids, machine >>
  BY Zenon DEF NumWaitP, Go
<1>2. Self(p) = p
  BY Zenon, <1>1, SelfIsP
<1>3. pcb[p] \in PCBType /\ pcb[p].mutex \in 0..1 /\ pcb[p].mutex > 0
  BY Zenon, <1>2 DEF NumWaitP, PInv, TypeOK, PCBType
<1>4. pcb[p].mutex - 1 = 0
  BY <1>3
<1>5. Set(p, [pcb[p] EXCEPT !.mutex = 0])
  BY Zenon, <1>2, <1>3, <1>4 DEF NumWaitP
<1>6. to \in {"joinInc2", "joinDec2"} /\ (from = "joinInc" => to = "joinInc2")
  BY Zenon
<1>7. 0 \in 0..1
  OBVIOUS
<1> QED
  BY Zenon, <1>1, <1>3, <1>5, <1>6, <1>7, NumWaitInv

LEMMA NumWaitVInv ==
  ASSUME PInv, FindsItself, NEW p \in Process,
         NEW from \in {"joinInc2", "joinDec2"}, NEW to,
         to = IF from = "joinInc2" THEN "joinWait" ELSE "joinRelease",
         NumWaitV(p, from, to)
  PROVE  PInv'
<1>1. Go(p, from, to) /\ at[p] = from
      /\ UNCHANGED << pcbs, slotManager, sem, deleted, arg, joined, kids, machine >>
  BY Zenon DEF NumWaitV, Go
<1>2. Self(p) = p
  BY Zenon, <1>1, SelfIsP
<1>3. pcb[p] \in PCBType /\ pcb[p].mutex = 0
  BY Zenon, <1>1 DEF PInv, TypeOK, JoinInv, JoinOf
<1>4. pcb[p].mutex + 1 = 1
  BY <1>3
<1>5. Set(p, [pcb[p] EXCEPT !.mutex = 1])
  BY Zenon, <1>2, <1>3, <1>4 DEF NumWaitV
<1>6. to \in {"joinWait", "joinRelease"} /\ (from = "joinInc2" => to = "joinWait")
  BY Zenon
<1>7. 1 \in 0..1
  OBVIOUS
<1> QED
  BY Zenon, <1>1, <1>5, <1>6, <1>7, NumWaitInv

LEMMA ExecMutexVInv ==
  ASSUME PInv, NEW p \in Process, ExecMutexV(p)
  PROVE  PInv'
<1> DEFINE q == pcbs[arg[p]]
           new == [pcb[q] EXCEPT !.mutex = @ + 1]
<1>1. at[p] = "execMutex" /\ q # None /\ Forking(p) /\ at[q] # "none"
  BY Zenon DEF ExecMutexV, Go, PInv, ExecInv, Forking
<1>2. q \in Process /\ p # None
  BY Zenon, <1>1, Constants DEF PInv, TypeOK
<1>3. /\ sem = 0
      /\ \A r \in Process : at[r] \in ExecPlace => r = p
  BY Zenon, <1>1 DEF PInv, ExecInv, ExecPlace
<1>4. PICK to \in {"execDone", "execMutex"} :
        /\ Go(p, "execMutex", to) /\ machine' \in {machine, "aborted"}
        /\ to = "execMutex" => q \in deleted
  BY Zenon DEF ExecMutexV
<1>5. /\ to \in Place /\ at' = [at EXCEPT ![p] = to]
      /\ \A r \in Process : at'[r] = IF r = p THEN to ELSE at[r]
  BY Zenon, <1>4 DEF Go, PInv, TypeOK, Place
<1>6. UNCHANGED << pcbs, slotManager, sem, deleted, arg, joined, kids >>
  BY Zenon DEF ExecMutexV
<1>7. /\ Kept
      /\ \A r \in Process : pcb'[r].joinsem = pcb[r].joinsem
      /\ \A r \in Process : r # q \/ r \in deleted => pcb'[r].mutex = pcb[r].mutex
  <2>1. CASE q \in deleted
    <3>1. UNCHANGED pcb
      BY Zenon, <2>1 DEF ExecMutexV
    <3> QED
      BY Zenon, <3>1, UnchangedKept DEF PInv
  <2>2. CASE q \notin deleted
    <3>1. pcb[q] \in PCBType /\ pcb[q].mutex + 1 \in 0..1
      BY <1>1, <1>2, <2>2 DEF PInv, TypeOK, ExecInv, Forking
    <3>2. /\ new \in PCBType /\ new.thread = pcb[q].thread /\ new.creator = pcb[q].creator
          /\ new.pid = pcb[q].pid /\ new.joinsem = pcb[q].joinsem
      BY ZenonT(40), <3>1, PCBFields
    <3>3. Made(q) /\ Set(q, new)
      BY Zenon, <1>1, <1>2, <2>2, ForkedIsMade DEF ExecMutexV
    <3>4. Kept /\ pcb'[q] = new /\ \A r \in Process : r # q => pcb'[r] = pcb[r]
      <4> HIDE DEF new, q
      <4> QED
        BY Zenon, <1>2, <3>2, <3>3, SetKept
    <3> QED
      BY Zenon, <2>2, <3>2, <3>4
  <2> QED
    BY Zenon, <2>1, <2>2
<1> HIDE DEF new
<1>8. TypeOK'
  BY Zenon, <1>4, <1>5, <1>6, <1>7 DEF Kept, PInv, TypeOK
<1>9. \A r \in Process : pcb'[r].joinsem > 0 => at'[r] \in Exited
  BY <1>1, <1>5, <1>7 DEF PInv, LifeInv, Exited
<1>10. SlotInv' /\ LifeInv' /\ BoundInv'
  <2>1. Allocating' \subseteq Allocating
    BY Zenon, <1>5 DEF Allocating
  <2> QED
    BY Zenon, <1>1, <1>4, <1>5, <1>6, <1>7, <1>9, <2>1, QuietStep
<1>11. ExecInv'
  <2>1. \A r \in Process : at'[r] \in ExecPlace <=> r = p
    BY Zenon, <1>1, <1>3, <1>5 DEF ExecPlace
  <2>2. \A r \in Process : at'[r] \in {"execFork", "execMutex"} =>
          r = p /\ to = "execMutex" /\ q \in deleted /\ at'[q] # "none"
    BY Zenon, <1>1, <1>2, <1>4, <1>5, <2>1 DEF ExecPlace
  <2> QED
    BY Zenon, <1>1, <1>3, <1>5, <1>6, <2>1, <2>2 DEF ExecInv
<1>12. JoinInv'
  <2>1. JoinOf(p)'
    BY Zenon, <1>5 DEF JoinPlace, JoinOf
  <2>2. ASSUME NEW r \in Process, r # p, at[r] \in {"joinInc2", "joinDec2"}
        PROVE  /\ pcb'[r].mutex = 0
               /\ \A x \in Process : Forking(x)' => pcbs'[arg'[x]] # r
    <3>1. pcb[r].mutex = 0 /\ \A x \in Process : Forking(x) => pcbs[arg[x]] # r
      BY Zenon, <2>2 DEF PInv, JoinInv, JoinOf, Forking
    <3>2. \A x \in Process : Forking(x)' => Forking(x)
      BY Zenon, <1>1, <1>5 DEF Forking
    <3> QED
      BY Zenon, <1>1, <1>6, <1>7, <3>1, <3>2
  <2> QED
    BY Zenon, <1>1, <1>5, <1>6, <2>1, <2>2, JoinKept DEF Exited
<1> QED
  BY Zenon, <1>8, <1>10, <1>11, <1>12 DEF PInv

\* Remove: the slot and the PCB go together.
LEMMA RemoveInv ==
  ASSUME PInv, FindsItself, NEW p \in Process, Remove(p)
  PROVE  PInv'
<1>1. at[p] = "remove" /\ UNCHANGED << pcbs, sem, pcb, arg, joined, kids, machine >>
      /\ at' = [at EXCEPT ![p] = "finished"] /\ "finished" \in Place
  BY Zenon DEF Remove, Go, Place
<1>2. Self(p) = p /\ GetCurrentThreadId(p) = pcb[p].pid /\ pcb[p].pid \in Slot
  BY Zenon, <1>1, SelfIsP
<1>3. slotManager' = slotManager \ {pcb[p].pid} /\ deleted' = deleted \cup {p}
  BY Zenon, <1>2 DEF Remove
<1>4. \A r \in Process : at'[r] = IF r = p THEN "finished" ELSE at[r]
  BY Zenon, <1>1 DEF PInv, TypeOK
<1>5. p \notin deleted /\ pcbs[pcb[p].pid] = p /\ p # None
  BY Zenon, <1>1, Constants DEF PInv, LifeInv
<1>6. TypeOK'
  BY Zenon, <1>1, <1>3 DEF PInv, TypeOK
<1>7. SlotInv'
  <2>1. slotManager = {i \in Slot : pcbs[i] # None /\ pcbs[i] \notin deleted}
        /\ \A i, j \in Slot : pcbs[i] # None /\ pcbs[i] = pcbs[j] => i = j
    BY Zenon DEF PInv, SlotInv
  <2>2. slotManager' = {i \in Slot : pcbs'[i] # None /\ pcbs'[i] \notin deleted'}
    BY Zenon, <1>1, <1>2, <1>3, <1>5, <2>1
  <2> QED
    BY Zenon, <1>1, <2>2 DEF PInv, SlotInv, Made
<1>8. LifeInv'
  BY <1>1, <1>3, <1>4 DEF PInv, LifeInv, Exited
<1>9. \A r \in Process : at'[r] \in ExecPlace <=> at[r] \in ExecPlace
  BY <1>1, <1>4 DEF ExecPlace
<1>10. ASSUME NEW r \in Process, at'[r] \in {"execFork", "execMutex"}
       PROVE  /\ r # p /\ at[r] = at'[r] /\ pcbs[arg[r]] \in Process /\ Forking(r)
              /\ pcbs[arg[r]] \notin deleted => pcb[pcbs[arg[r]]].mutex = 0
              /\ at[r] = "execFork" <=> at[pcbs[arg[r]]] = "none"
  BY <1>1, <1>4, <1>10 DEF PInv, ExecInv, TypeOK, Forking
<1>11. ExecInv'
  <2>1. ASSUME NEW r \in Process, at'[r] \in {"execFork", "execMutex"}
        PROVE  /\ pcbs'[arg'[r]] # None
               /\ pcbs'[arg'[r]] \notin deleted' => pcb'[pcbs'[arg'[r]]].mutex = 0
               /\ at'[r] = "execFork" <=> at'[pcbs'[arg'[r]]] = "none"
    BY <1>1, <1>3, <1>4, <1>10, <2>1, Constants
  <2> QED
    BY <1>1, <1>9, <2>1 DEF PInv, ExecInv
<1>12. JoinInv'
  <2>1. JoinOf(p)'
    BY Zenon, <1>4 DEF JoinPlace, JoinOf
  <2>2. \A x \in Process : Forking(x)' => Forking(x)
    BY Zenon, <1>4 DEF Forking
  <2>3. ASSUME NEW r \in Process, r # p, at[r] \in {"joinInc2", "joinDec2"}
        PROVE  /\ pcb'[r].mutex = 0
               /\ \A x \in Process : Forking(x)' => pcbs'[arg'[x]] # r
    BY Zenon, <1>1, <2>2, <2>3 DEF PInv, JoinInv, JoinOf, Forking
  <2>4. "finished" \in Exited
    BY Zenon DEF Exited
  <2> QED
    BY Zenon, <1>1, <2>1, <2>3, <2>4, JoinKept
<1>13. BoundInv'
  <2>1. Allocating' = Allocating /\ Unmade' = Unmade
    BY <1>1, <1>4 DEF Allocating, Unmade
  <2> QED
    BY Zenon, <2>1 DEF PInv, BoundInv
<1> QED
  BY Zenon, <1>6, <1>7, <1>8, <1>11, <1>12, <1>13 DEF PInv

\* ExecFork: the child gets its pid and its Thread.
LEMMA ExecForkInv ==
  ASSUME PInv, NEW p \in Process, ExecFork(p)
  PROVE  PInv'
<1> DEFINE q == pcbs[arg[p]]
<1>1. at[p] = "execFork" /\ at' = [at EXCEPT ![p] = "execMutex", ![q] = "start"]
      /\ UNCHANGED << pcbs, slotManager, sem, deleted, arg, joined, kids, machine >>
  BY Zenon DEF ExecFork
<1>2. PICK a \in Addresses(q) : Set(q, [pcb[q] EXCEPT !.pid = arg[p], !.thread = a])
  BY Zenon DEF ExecFork
<1> DEFINE new == [pcb[q] EXCEPT !.pid = arg[p], !.thread = a]
<1>3. /\ q # None /\ at[q] = "none" /\ Forking(p) /\ arg[p] \in Slot
      /\ pcbs[arg[p]] \notin deleted => pcb[q].mutex = 0
  BY Zenon, <1>1 DEF PInv, ExecInv, Forking, TypeOK
<1>4. q \in Process /\ q \notin deleted /\ pcb[q].mutex = 0
  BY Zenon, <1>3 DEF PInv, LifeInv, TypeOK
<1>5. a \in Process
  <2>1. \A r \in deleted : r \in Process /\ pcb[r].thread # None
    BY Zenon DEF PInv, LifeInv, TypeOK
  <2>2. \A r \in deleted : pcb[r].thread \in Process
    BY Zenon, <2>1 DEF PInv, TypeOK, PCBType
  <2> QED
    BY Zenon, <1>4, <2>2 DEF Addresses
<1>6. /\ new \in PCBType /\ new.pid = arg[p] /\ new.thread = a
      /\ new.creator = pcb[q].creator /\ new.mutex = 0 /\ new.joinsem = pcb[q].joinsem
  <2>1. pcb[q] \in PCBType
    BY Zenon, <1>4 DEF PInv, TypeOK
  <2> QED
    BY ZenonT(40), <1>3, <1>4, <1>5, <2>1 DEF PCBType
<1>7. /\ pcb' \in [Process -> PCBType] /\ pcb'[q] = new
      /\ \A r \in Process : r # q => pcb'[r] = pcb[r]
  BY Zenon, <1>2, <1>4, <1>6 DEF Set, PInv, TypeOK
<1> HIDE DEF new
<1>8. p # q /\ p # None
  BY Zenon, <1>1, <1>3, Constants
<1>9. /\ at' \in [Process -> Place]
      /\ \A r \in Process : at'[r] = IF r = p THEN "execMutex"
                                      ELSE IF r = q THEN "start" ELSE at[r]
  BY Zenon, <1>1, <1>4, <1>8 DEF PInv, TypeOK, Place
<1>10. TypeOK'
  BY Zenon, <1>1, <1>7, <1>9 DEF PInv, TypeOK
<1>11. Made(q) /\ \A r \in Process : Made(r)' <=> Made(r)
  <2>1. Made(q)
    BY Zenon, <1>3 DEF PInv, SlotInv
  <2>2. pcb'[q].thread \in Process /\ None \notin Process
    BY Zenon, <1>5, <1>6, <1>7, Constants
  <2>3. ASSUME NEW r \in Process PROVE Made(r)' <=> Made(r)
    <3> HIDE DEF q
    <3> QED
      BY Zenon, <1>7, <2>1, <2>2 DEF Made
  <2> QED
    BY Zenon, <2>1, <2>3
<1>12. SlotInv'
  <2>1. \A r \in Process : ~Made(r)' => pcb'[r] = NewPCB
    BY Zenon, <1>7, <1>11 DEF PInv, SlotInv
  <2>2. \A i \in Slot : pcbs[i] # None => pcbs[i] \in Process
    BY Zenon DEF PInv, TypeOK
  <2> QED
    BY Zenon, <1>1, <1>11, <2>1, <2>2 DEF PInv, SlotInv
<1>13. LifeInv'
  <2> SUFFICES ASSUME NEW r \in Process PROVE LifeInv!(r)'
    BY Zenon DEF LifeInv
  <2>1. LifeInv!(r)
    BY Zenon DEF PInv, LifeInv
  <2>2. CASE r = q
    <3>1. pcb[q].joinsem = 0
      BY <1>3, <1>4 DEF PInv, LifeInv, TypeOK, PCBType, Exited
    <3>2. pcb'[q].thread # None
      BY Zenon, <1>5, <1>6, <1>7, Constants
    <3>3. at'[q] = "start" /\ deleted' = deleted /\ pcbs' = pcbs
      BY Zenon, <1>1, <1>4, <1>8, <1>9
    <3>4. pcb'[q].pid = arg[p] /\ pcb'[q].joinsem = 0 /\ pcbs'[arg[p]] = q
      BY Zenon, <1>1, <1>6, <1>7, <3>1
    <3>5. \A n : n = 0 => ~(n > 0)
      OBVIOUS
    <3>6. at'[q] # "none" /\ q \notin deleted' /\ arg[p] \in Slot
      BY Zenon, <1>3, <1>4, <3>3
    <3> HIDE DEF q
    <3> QED
      BY Zenon, <2>2, <3>2, <3>4, <3>5, <3>6
  <2>3. CASE r # q
    BY Zenon, <1>1, <1>7, <1>9, <2>1, <2>3 DEF Exited
  <2> QED
    BY Zenon, <2>2, <2>3
<1>14. \A r \in Process : at[r] \in ExecPlace <=> r = p
  BY Zenon, <1>1 DEF PInv, ExecInv, ExecPlace
<1>15. ExecInv'
  <2>1. \A r \in Process : at'[r] \in ExecPlace <=> r = p
    BY Zenon, <1>9, <1>14, <1>4 DEF ExecPlace
  <2>2. sem = 0
    BY Zenon, <1>14 DEF PInv, ExecInv
  <2>3. \A r \in Process : at'[r] \in {"execFork", "execMutex"} => r = p
    BY Zenon, <2>1 DEF ExecPlace
  <2>4. at'[p] = "execMutex" /\ at'[q] = "start" /\ pcb'[q].mutex = 0
    BY Zenon, <1>4, <1>6, <1>7, <1>8, <1>9
  <2> QED
    BY Zenon, <1>1, <1>3, <2>1, <2>2, <2>3, <2>4 DEF ExecInv
<1>16. JoinInv'
  <2> SUFFICES ASSUME NEW r \in Process PROVE JoinOf(r)'
    BY Zenon DEF JoinInv
  <2>1. JoinOf(r)
    BY Zenon DEF PInv, JoinInv
  <2>2. \A x \in Process : Forking(x)' => x = p
    BY Zenon, <1>9, <1>14 DEF Forking, ExecPlace
  <2>3. CASE r \in {p, q}
    BY Zenon, <1>9, <2>3 DEF JoinOf, JoinPlace
  <2>4. CASE r \notin {p, q}
    <3>1. at'[r] = at[r] /\ pcb'[r] = pcb[r]
      BY Zenon, <1>7, <1>9, <2>4
    <3>2. joined[r] # None /\ at[joined[r]] \in Exited => at'[joined[r]] \in Exited
      BY Zenon, <1>1, <1>3, <1>9, <1>10 DEF Exited, TypeOK
    <3>3. \A x \in Process : at'[x] \in {"execFork", "execMutex"} => pcbs[arg[x]] # r
      BY Zenon, <2>2, <2>4 DEF Forking
    <3> QED
      BY Zenon, <1>1, <2>1, <3>1, <3>2, <3>3 DEF JoinOf
  <2> QED
    BY Zenon, <2>3, <2>4
<1>17. BoundInv'
  <2>1. Allocating' = Allocating
    BY Zenon, <1>1, <1>3, <1>9 DEF Allocating
  <2>2. Unmade' = Unmade
    <3>1. Unmade' = {r \in Process : ~Made(r)'}
      <4>1. ASSUME NEW r \in Process, pcb'[r] = NewPCB PROVE ~Made(r)'
        BY <4>1 DEF Made, NewPCB
      <4> QED
        BY Zenon, <1>12, <4>1 DEF Unmade, SlotInv
    <3> QED
      BY Zenon, <1>11, <3>1, UnmadeIs
  <2> QED
    BY Zenon, <2>1, <2>2 DEF PInv, BoundInv
<1> QED
  BY Zenon, <1>10, <1>12, <1>13, <1>15, <1>16, <1>17 DEF PInv

\* An Exec that stands before `new PCB` finds one to make.
LEMMA SomeUnmade ==
  ASSUME PInv, NEW p \in Process, at[p] \in {"exec", "execUpdate"}
  PROVE  Min(Unmade) \in Unmade
<1>1. Allocating # {} /\ Allocating \subseteq Process /\ Unmade \subseteq Process
  BY Zenon DEF Allocating, Unmade
<1>2. /\ IsFiniteSet(Allocating) /\ IsFiniteSet(Unmade)
      /\ Cardinality(Allocating) \in Nat /\ Cardinality(Unmade) \in Nat
  BY Zenon, <1>1, SetsAreFinite
<1>3. Cardinality(Allocating) # 0 /\ Cardinality(Unmade) # 0
  BY <1>1, <1>2, FS_EmptySet DEF PInv, BoundInv
<1>4. Unmade # {} /\ Unmade \subseteq Nat
  BY Zenon, <1>1, <1>3, FS_EmptySet, Constants
<1> QED
  BY Zenon, <1>4, MinOfNaturals

\* ExecAllocate: the slot was clear and the PCB was not made.
LEMMA ExecAllocateInv ==
  ASSUME PInv, FindsItself, NEW p \in Process, NEW f \in Program, ExecAllocate(p, f)
  PROVE  PInv'
<1> DEFINE q == Min(Unmade)
           slot == GetFreeSlot
           me == GetCurrentThreadId(p)
           new == [NewPCB EXCEPT !.parentID = me, !.file = f, !.mutex = @ - 1, !.creator = p]
<1>1. /\ at[p] = "execUpdate" /\ at' = [at EXCEPT ![p] = "execFork"]
      /\ slot # -1 /\ slotManager' = slotManager \cup {slot}
      /\ pcbs' = [pcbs EXCEPT ![slot] = q] /\ Set(q, new)
      /\ arg' = [arg EXCEPT ![p] = slot]
      /\ UNCHANGED << sem, deleted, joined, kids, machine >>
  BY Zenon DEF ExecAllocate, Go
<1>2. slot \in Slot /\ slot \notin slotManager
  BY Zenon, <1>1, FreeSlot
<1>3. q \in Unmade
  BY Zenon, <1>1, SomeUnmade
<1>4. q \in Process /\ ~Made(q) /\ p # None /\ q # None
  BY Zenon, <1>3, UnmadeIs, Constants
<1>5. me \in Slot
  BY Zenon, <1>1, SelfIsP
<1>6. /\ new \in PCBType /\ new.thread = None /\ new.creator = p
      /\ new.mutex = 0 /\ new.joinsem = 0
  <2> HIDE DEF me
  <2>1. new = ExecPCB(me, f, p)
    BY Zenon DEF ExecPCB
  <2> HIDE DEF new
  <2> QED
    BY Zenon, <1>5, <2>1, ExecFields
<1> HIDE DEF new, me, q, slot
<1>7. /\ pcb' \in [Process -> PCBType] /\ pcb'[q] = new
      /\ \A r \in Process : r # q => pcb'[r] = pcb[r]
  BY Zenon, <1>1, <1>4, <1>6 DEF Set, PInv, TypeOK
<1>8. /\ pcbs' \in [Slot -> Process \cup {None}] /\ pcbs'[slot] = q
      /\ \A i \in Slot : i # slot => pcbs'[i] = pcbs[i]
  BY Zenon, <1>1, <1>2, <1>4 DEF PInv, TypeOK
<1>9. /\ at' \in [Process -> Place]
      /\ \A r \in Process : at'[r] = IF r = p THEN "execFork" ELSE at[r]
  BY Zenon, <1>1 DEF PInv, TypeOK, Place
<1>10. /\ arg' \in [Process -> Slot] /\ arg'[p] = slot
       /\ \A r \in Process : r # p => arg'[r] = arg[r]
  BY Zenon, <1>1, <1>2 DEF PInv, TypeOK
<1>11. TypeOK'
  BY Zenon, <1>1, <1>2, <1>7, <1>8, <1>9, <1>10 DEF PInv, TypeOK
<1>12. at[q] = "none" /\ q \notin deleted /\ p # q
  BY Zenon, <1>1, <1>4 DEF PInv, LifeInv, Made
<1>13. \A r \in Process : Made(r)' <=> Made(r) \/ r = q
  BY Zenon, <1>4, <1>6, <1>7 DEF Made
<1>14. \A i \in Slot : pcbs[i] # q
  BY Zenon, <1>4 DEF PInv, SlotInv
<1>15. pcbs[slot] = None \/ pcbs[slot] \in deleted
  BY Zenon, <1>2 DEF PInv, SlotInv
<1>16. SlotInv'
  <2>1. slotManager' = {i \in Slot : pcbs'[i] # None /\ pcbs'[i] \notin deleted'}
    <3>1. slotManager = {i \in Slot : pcbs[i] # None /\ pcbs[i] \notin deleted}
      BY Zenon DEF PInv, SlotInv
    <3>2. ASSUME NEW i \in Slot
          PROVE  i \in slotManager' <=> pcbs'[i] # None /\ pcbs'[i] \notin deleted'
      BY Zenon, <1>1, <1>2, <1>4, <1>8, <1>12, <3>1
    <3> QED
      BY Zenon, <1>11, <3>2 DEF TypeOK
  <2>2. \A i, j \in Slot : pcbs'[i] # None /\ pcbs'[i] = pcbs'[j] => i = j
    BY Zenon, <1>8, <1>14 DEF PInv, SlotInv
  <2>3. ASSUME NEW i \in Slot, pcbs'[i] # None
        PROVE  Made(pcbs[i])'
    <3>1. CASE i = slot
      BY <1>4, <1>6, <1>7, <1>8, <3>1 DEF Made
    <3>2. CASE i # slot
      <4>1. pcbs'[i] = pcbs[i] /\ pcbs[i] \in Process /\ Made(pcbs[i]) /\ pcbs[i] # q
        BY Zenon, <1>8, <1>14, <2>3, <3>2 DEF PInv, SlotInv, TypeOK
      <4> QED
        BY Zenon, <1>7, <4>1 DEF Made
    <3> QED
      BY Zenon, <3>1, <3>2
  <2>5. \A r \in Process : ~Made(r)' => pcb'[r] = NewPCB
    BY Zenon, <1>7, <1>13 DEF PInv, SlotInv
  <2> QED
    BY Zenon, <2>1, <2>2, <2>3, <2>5 DEF SlotInv
<1>17. LifeInv'
  <2> SUFFICES ASSUME NEW r \in Process PROVE LifeInv!(r)'
    BY Zenon DEF LifeInv
  <2>1. LifeInv!(r)
    BY Zenon DEF PInv, LifeInv
  <2>2. CASE r = q
    <3>1. pcb'[r].thread = None /\ pcb'[r].joinsem = 0
      BY Zenon, <1>6, <1>7, <2>2
    <3>2. at'[r] = "none" /\ r \notin deleted'
      BY Zenon, <1>1, <1>4, <1>9, <1>12, <2>2
    <3>3. ~(0 > 0)
      OBVIOUS
    <3> QED
      BY Zenon, <3>1, <3>2, <3>3
  <2>3. CASE r # q
    <3>1. r \notin deleted /\ at[r] # "none" => pcb[r].pid # slot
      BY Zenon, <1>15, <2>1, Constants
    <3>2. pcb'[r] = pcb[r] /\ deleted' = deleted
      BY Zenon, <1>1, <1>7, <2>3
    <3>3. at'[r] = at[r] \/ (at[r] = "execUpdate" /\ at'[r] = "execFork")
      BY Zenon, <1>1, <1>9
    <3>4. ASSUME at'[r] # "none", r \notin deleted'
          PROVE  pcb'[r].pid \in Slot /\ pcbs'[pcb'[r].pid] = r
      BY Zenon, <1>8, <2>1, <3>1, <3>2, <3>3, <3>4
    <3> QED
      BY Zenon, <2>1, <3>2, <3>3, <3>4 DEF Exited
  <2> QED
    BY Zenon, <2>2, <2>3
<1>18. sem = 0 /\ \A r \in Process : at[r] \in ExecPlace <=> r = p
  BY Zenon, <1>1 DEF PInv, ExecInv, ExecPlace
<1>19. \A r \in Process : at'[r] \in ExecPlace <=> r = p
  BY Zenon, <1>9, <1>18 DEF ExecPlace
<1>20. ExecInv'
  <2>1. \A r \in Process : at'[r] \in {"execFork", "execMutex"} => r = p
    BY Zenon, <1>19 DEF ExecPlace
  <2>2. pcbs'[arg'[p]] = q /\ pcb'[q].mutex = 0 /\ at'[p] = "execFork" /\ at'[q] = "none"
    BY Zenon, <1>4, <1>6, <1>7, <1>8, <1>9, <1>10, <1>12
  <2> QED
    BY Zenon, <1>1, <1>4, <1>18, <1>19, <2>1, <2>2 DEF ExecInv
<1>21. JoinInv'
  <2>1. JoinOf(p)'
    BY Zenon, <1>9 DEF JoinPlace, JoinOf
  <2>2. \A x \in Process : Forking(x)' => x = p
    BY Zenon, <1>19 DEF Forking, ExecPlace
  <2>3. ASSUME NEW r \in Process, r # p, at[r] \in {"joinInc2", "joinDec2"}
        PROVE  /\ pcb'[r].mutex = 0
               /\ \A x \in Process : Forking(x)' => pcbs'[arg'[x]] # r
    <3>1. r # q /\ pcb[r].mutex = 0
      BY Zenon, <1>12, <2>3 DEF PInv, JoinInv, JoinOf
    <3> QED
      BY Zenon, <1>7, <1>8, <1>10, <2>2, <3>1
  <2>4. \A i \in Slot : pcbs[i] # None => pcbs'[i] # None
    BY Zenon, <1>4, <1>8
  <2>5. "execFork" \in Place /\ at[p] \notin Exited
    BY Zenon, <1>1 DEF Exited, Place
  <2>6. \A r \in Process : r # p => arg'[r] = arg[r] /\ joined'[r] = joined[r]
    BY Zenon, <1>1, <1>10
  <2>7. at' = [at EXCEPT ![p] = "execFork"]
    BY Zenon, <1>1
  <2> QED
    BY Zenon, <2>1, <2>3, <2>4, <2>5, <2>6, <2>7, JoinKept
<1>22. BoundInv'
  <2>1. Allocating' = Allocating \ {p} /\ p \in Allocating
    BY Zenon, <1>1, <1>9 DEF Allocating
  <2>2. Unmade' = Unmade \ {q}
    <3>1. Unmade' = {r \in Process : ~Made(r)'}
      <4>1. ASSUME NEW r \in Process, pcb'[r] = NewPCB PROVE ~Made(r)'
        BY <4>1 DEF Made, NewPCB
      <4> QED
        BY Zenon, <1>16, <4>1 DEF Unmade, SlotInv
    <3> QED
      BY Zenon, <1>13, <3>1, UnmadeIs
  <2>3. /\ IsFiniteSet(Allocating) /\ IsFiniteSet(Unmade)
        /\ Cardinality(Allocating) \in Nat /\ Cardinality(Unmade) \in Nat
    BY Zenon, SetsAreFinite DEF Allocating, Unmade
  <2>4. Cardinality(Allocating') = Cardinality(Allocating) - 1
    BY Zenon, <2>1, <2>3, FS_RemoveElement
  <2>5. Cardinality(Unmade') = Cardinality(Unmade) - 1
    BY Zenon, <1>3, <2>2, <2>3, FS_RemoveElement
  <2>6. Cardinality(Allocating) <= Cardinality(Unmade)
    BY Zenon DEF PInv, BoundInv
  <2> QED
    BY <2>3, <2>4, <2>5, <2>6 DEF BoundInv
<1> QED
  BY Zenon, <1>11, <1>16, <1>17, <1>20, <1>21, <1>22 DEF PInv

LEMMA InitInv ==
  Init => PInv /\ OneMatch
<1> SUFFICES ASSUME Init PROVE PInv /\ OneMatch
  BY Zenon
<1> USE Constants
<1>1. PICK f \in Program :
        pcb = [p \in Process |->
                IF p = 0 THEN [NewPCB EXCEPT !.pid = 0, !.file = f, !.thread = 0]
                         ELSE NewPCB]
  BY Zenon DEF Init
<1> DEFINE first == [NewPCB EXCEPT !.pid = 0, !.file = f, !.thread = 0]
<1>2. NewPCB \in PCBType /\ first \in PCBType
  BY Zenon, NewPCBFields, FirstFields
<1>3. /\ first.thread = 0 /\ first.pid = 0 /\ first.joinsem = 0
      /\ NewPCB.thread = None /\ NewPCB.joinsem = 0 /\ NewPCB.creator = None
  BY Zenon, NewPCBFields, FirstFields
<1>4. pcb = [p \in Process |-> IF p = 0 THEN first ELSE NewPCB]
  BY Zenon, <1>1
<1> HIDE DEF first
<1>5. pcb \in [Process -> PCBType] /\ pcb[0] = first
      /\ \A p \in Process : p # 0 => pcb[p] = NewPCB
  BY Zenon, <1>2, <1>4
<1>6. TypeOK
  BY <1>5 DEF Init, TypeOK, Place
<1>7. /\ \A p \in Process : at[p] = IF p = 0 THEN "user" ELSE "none"
      /\ \A i \in Slot : pcbs[i] = IF i = 0 THEN 0 ELSE None
  BY Zenon DEF Init
<1>8. 0 # None
  BY Zenon
<1>9. SlotInv
  <2>1. slotManager = {i \in Slot : pcbs[i] # None /\ pcbs[i] \notin deleted}
    BY Zenon, <1>7, <1>8 DEF Init
  <2> QED
    BY Zenon, <1>3, <1>5, <1>7, <1>8, <2>1 DEF SlotInv, Made
<1>10. LifeInv
  BY <1>3, <1>5, <1>7, <1>8 DEF LifeInv, Init
<1>11. ExecInv /\ JoinInv
  BY <1>7 DEF ExecInv, JoinInv, JoinOf, ExecPlace, JoinPlace, Init
<1>12. BoundInv
  <2>1. Allocating = {}
    BY Zenon, <1>7 DEF Allocating
  <2>2. Cardinality(Unmade) \in Nat
    BY Zenon, SetsAreFinite DEF Unmade
  <2> QED
    BY <2>1, <2>2, FS_EmptySet DEF BoundInv
<1>13. OneMatch
  BY Zenon, <1>7 DEF OneMatch
<1> QED
  BY Zenon, <1>6, <1>9, <1>10, <1>11, <1>12, <1>13 DEF PInv

\* Every step from a state in which processes find themselves keeps PInv.
LEMMA NextInv ==
  ASSUME PInv, FindsItself, [Next]_vars
  PROVE  PInv'
<1>1. CASE UNCHANGED vars
  <2>1. UNCHANGED << pcbs, slotManager, sem, pcb, deleted, at, arg, joined, kids, machine >>
    BY Zenon, <1>1 DEF vars
  <2>2. TypeOK' <=> TypeOK
    BY <2>1, Zenon DEF TypeOK
  <2>3. LifeInv' <=> LifeInv
    BY <2>1, Zenon DEF LifeInv
  <2>4. ExecInv' <=> ExecInv
    BY <2>1, Zenon DEF ExecInv
  <2>5. JoinInv' <=> JoinInv
    BY <2>1, Zenon DEF JoinInv, JoinOf
  <2>6. SlotInv' <=> SlotInv
    BY <2>1, Zenon DEF SlotInv, Made
  <2>7. BoundInv' <=> BoundInv
    BY <2>1, Zenon DEF BoundInv, Allocating, Unmade
  <2> QED
    BY Zenon, <2>2, <2>3, <2>4, <2>5, <2>6, <2>7 DEF PInv
<1>2. ASSUME NEW p \in Process, SystemCall(p)
      PROVE  PInv'
  BY Zenon, <1>2, SysExecInv, JoinUpdateInv, ExitUpdateInv DEF SystemCall
<1>3. ASSUME NEW p \in Process, ExecP(p)
      PROVE  PInv'
  BY Zenon, <1>3, ExecPInv
<1>4. ASSUME NEW p \in Process, KernelStep(p)
      PROVE  PInv'
  <2>1. ASSUME NEW f \in Program, ExecRefused(p, f) \/ ExecAllocate(p, f)
        PROVE  PInv'
    BY Zenon, <2>1, ExecRefusedInv, ExecAllocateInv
  <2>2. CASE NumWaitP(p, "joinInc", "joinInc2") \/ NumWaitP(p, "joinDec", "joinDec2")
    BY Zenon, <2>2, NumWaitPInv
  <2>3. CASE NumWaitV(p, "joinInc2", "joinWait") \/ NumWaitV(p, "joinDec2", "joinRelease")
    BY Zenon, <2>3, NumWaitVInv
  <2> QED
    BY SMTT(30), <1>4, <2>1, <2>2, <2>3, ExecForkInv, ExecMutexVInv, ExecDoneInv, StartProcessInv,
       JoinWaitInv, JoinWakeInv, JoinReleaseInv, JoinReturnInv, ExitWaitInv, RemoveInv
    DEF KernelStep
<1> QED
  BY Zenon, <1>1, <1>2, <1>3, <1>4 DEF Next

\* What the steps do to the fields that PInv does not follow.
SameFields == \A r \in Process : /\ pcb'[r].thread = pcb[r].thread
                                 /\ pcb'[r].creator = pcb[r].creator
                                 /\ pcb'[r].exitsem = pcb[r].exitsem

Quiet(p) ==
  \/ SystemCall(p) \/ ExecP(p) \/ ExecMutexV(p) \/ ExecDone(p) \/ StartProcess(p)
  \/ \E f \in Program : ExecRefused(p, f)
  \/ NumWaitP(p, "joinInc", "joinInc2") \/ NumWaitV(p, "joinInc2", "joinWait")
  \/ NumWaitP(p, "joinDec", "joinDec2") \/ NumWaitV(p, "joinDec2", "joinRelease")
  \/ JoinWait(p) \/ JoinWake(p) \/ JoinReturn(p) \/ Remove(p)

LEMMA QuietFields ==
  ASSUME PInv, FindsItself, NEW p \in Process, Quiet(p)
  PROVE  SameFields
<1>1. ASSUME UNCHANGED pcb PROVE SameFields
  BY Zenon, <1>1 DEF SameFields
<1>2. ASSUME NEW q \in Process, NEW n, Set(q, [pcb[q] EXCEPT !.mutex = n])
      PROVE  SameFields
  BY <1>2 DEF SameFields, Set, PInv, TypeOK, PCBType
<1>3. ASSUME NEW q \in Process, NEW n, Set(q, [pcb[q] EXCEPT !.joinsem = n])
      PROVE  SameFields
  BY <1>3 DEF SameFields, Set, PInv, TypeOK, PCBType
<1>4. ASSUME NEW n, NEW m, Set(p, [pcb[p] EXCEPT !.exitcode = m, !.joinsem = n])
      PROVE  SameFields
  BY <1>4 DEF SameFields, Set, PInv, TypeOK, PCBType
<1>5. at[p] \notin {"none", "finished"} => Self(p) = p
  BY Zenon, SelfIsP
<1>6. at[p] \in JoinPlace \cup {"execMutex"} => pcbs[arg[p]] \in Process
  BY DEF PInv, JoinInv, JoinOf, ExecInv, TypeOK
<1>7. at[p] = "joinBlocked" => joined[p] \in Process
  BY Zenon DEF PInv, JoinInv, JoinOf, TypeOK
<1>8. CASE SystemCall(p)
  <2>1. CASE SysExec(p) \/ \E id \in -1 .. MaxProcesses : JoinUpdate(p, id)
    BY Zenon, <1>1, <2>1 DEF SysExec, JoinUpdate
  <2>2. ASSUME NEW code \in ExitCode, ExitUpdate(p, code) PROVE SameFields
    <3>1. Self(p) = p
      BY Zenon, <1>5, <2>2 DEF ExitUpdate, Go
    <3> QED
      BY Zenon, <1>1, <1>4, <2>2, <3>1 DEF ExitUpdate
  <2> QED
    BY Zenon, <1>8, <2>1, <2>2 DEF SystemCall
<1>9. CASE ExecMutexV(p)
  <2>1. pcbs[arg[p]] \in Process
    BY Zenon, <1>6, <1>9 DEF ExecMutexV, Go
  <2> QED
    BY Zenon, <1>1, <1>2, <1>9, <2>1 DEF ExecMutexV
<1>10. ASSUME NEW from, NEW to, from \notin {"none", "finished"},
              NumWaitP(p, from, to) \/ NumWaitV(p, from, to)
       PROVE  SameFields
  <2>1. Self(p) = p
    BY Zenon, <1>5, <1>10 DEF NumWaitP, NumWaitV, Go
  <2> QED
    BY Zenon, <1>2, <1>10, <2>1 DEF NumWaitP, NumWaitV
<1>11. CASE JoinWait(p)
  <2>1. pcbs[arg[p]] \in Process
    BY Zenon, <1>6, <1>11 DEF JoinWait, Go, JoinPlace
  <2> QED
    BY Zenon, <1>1, <1>3, <1>11, <2>1 DEF JoinWait
<1>12. CASE JoinWake(p)
  <2>1. joined[p] \in Process
    BY Zenon, <1>7, <1>12 DEF JoinWake, Go
  <2> QED
    BY Zenon, <1>3, <1>12, <2>1 DEF JoinWake
<1>13. CASE \/ ExecP(p) \/ ExecDone(p) \/ StartProcess(p) \/ JoinReturn(p) \/ Remove(p)
            \/ \E f \in Program : ExecRefused(p, f)
  BY Zenon, <1>1, <1>13 DEF ExecP, ExecDone, StartProcess, JoinReturn, Remove, ExecRefused
<1> QED
  BY <1>8, <1>9, <1>10, <1>11, <1>12, <1>13 DEF Quiet

\* The steps that are not quiet.
LEMMA NextIsQuietOr ==
  ASSUME NEW p \in Process, SystemCall(p) \/ ExecP(p) \/ KernelStep(p)
  PROVE  \/ Quiet(p) \/ ExecFork(p) \/ JoinRelease(p) \/ ExitWait(p)
         \/ \E f \in Program : ExecAllocate(p, f)
BY Zenon DEF Quiet, KernelStep

LEMMA ExitWaitFields ==
  ASSUME PInv, FindsItself, NEW p \in Process, ExitWait(p)
  PROVE  /\ pcb[p].exitsem > 0
         /\ \A r \in Process : /\ pcb'[r].thread = pcb[r].thread
                               /\ pcb'[r].creator = pcb[r].creator
                               /\ r # p => pcb'[r].exitsem = pcb[r].exitsem
<1>1. Self(p) = p
  BY Zenon, SelfIsP DEF ExitWait, Go
<1> QED
  BY <1>1 DEF ExitWait, Set, PInv, TypeOK, PCBType

LEMMA JoinReleaseFields ==
  ASSUME PInv, NEW p \in Process, JoinRelease(p)
  PROVE  \A r \in Process : /\ pcb'[r].thread = pcb[r].thread
                            /\ pcb'[r].creator = pcb[r].creator
                            /\ r # pcbs[arg[p]] => pcb'[r].exitsem = pcb[r].exitsem
<1>1. pcbs[arg[p]] \in Process
  BY Zenon DEF JoinRelease, Go, PInv, JoinInv, JoinOf, JoinPlace, TypeOK
<1>2. CASE pcbs[arg[p]] \in deleted
  BY Zenon, <1>2 DEF JoinRelease
<1>3. CASE pcbs[arg[p]] \notin deleted
  BY <1>1, <1>3 DEF JoinRelease, Set, PInv, TypeOK, PCBType
<1> QED
  BY Zenon, <1>2, <1>3

LEMMA ExecForkFields ==
  ASSUME PInv, NEW p \in Process, ExecFork(p)
  PROVE  /\ pcbs[arg[p]] \in Process
         /\ \A r \in Process :
              /\ pcb'[r].thread # pcb[r].thread => r = pcbs[arg[p]] /\ pcb'[r].thread \in Addresses(r)
              /\ pcb'[r].creator = pcb[r].creator
              /\ pcb'[r].exitsem = pcb[r].exitsem
<1> DEFINE q == pcbs[arg[p]]
<1>1. q \in Process
  BY DEF ExecFork, PInv, ExecInv, TypeOK
<1>2. PICK a \in Addresses(q) : Set(q, [pcb[q] EXCEPT !.pid = arg[p], !.thread = a])
  BY Zenon DEF ExecFork
<1>3. \A r \in Process : r # q => pcb'[r] = pcb[r]
  BY Zenon, <1>1, <1>2 DEF Set, PInv, TypeOK
<1>4. pcb'[q].thread = a /\ pcb'[q].creator = pcb[q].creator /\ pcb'[q].exitsem = pcb[q].exitsem
  <2> HIDE DEF q
  <2> QED
    BY <1>1, <1>2 DEF Set, PInv, TypeOK, PCBType
<1> HIDE DEF q
<1>5. \A r \in Process :
        /\ pcb'[r].thread # pcb[r].thread => r = q /\ pcb'[r].thread \in Addresses(r)
        /\ pcb'[r].creator = pcb[r].creator
        /\ pcb'[r].exitsem = pcb[r].exitsem
  BY Zenon, <1>2, <1>3, <1>4
<1> QED
  BY Zenon, <1>1, <1>5 DEF q

LEMMA ExecAllocateFields ==
  ASSUME PInv, FindsItself, NEW p \in Process, NEW f \in Program, ExecAllocate(p, f)
  PROVE  LET q == Min(Unmade)
         IN /\ q \in Process /\ ~Made(q) /\ GetFreeSlot \in Slot \ slotManager
            /\ pcb'[q].thread = None /\ pcb'[q].creator = p /\ pcb'[q].exitsem = 0
            /\ \A r \in Process : r # q => pcb'[r] = pcb[r]
<1> DEFINE q == Min(Unmade)
<1>1. at[p] = "execUpdate" /\ GetFreeSlot # -1
  BY Zenon DEF ExecAllocate, Go
<1>2. q \in Unmade /\ GetFreeSlot \in Slot \ slotManager
  BY Zenon, <1>1, SomeUnmade, FreeSlot
<1>3. q \in Process /\ ~Made(q)
  BY Zenon, <1>2, UnmadeIs
<1>4. GetCurrentThreadId(p) \in Slot
  BY Zenon, <1>1, SelfIsP
<1>5. pcb' = [pcb EXCEPT ![q] = ExecPCB(GetCurrentThreadId(p), f, p)]
  BY Zenon DEF ExecAllocate, ExecPCB, Set
<1> HIDE DEF q
<1>6. pcb'[q] = ExecPCB(GetCurrentThreadId(p), f, p) /\ \A r \in Process : r # q => pcb'[r] = pcb[r]
  BY Zenon, <1>3, <1>5 DEF PInv, TypeOK
<1>7. pcb'[q].thread = None /\ pcb'[q].creator = p /\ pcb'[q].exitsem = 0
  BY <1>4, <1>6, ExecFields
<1> QED
  BY Zenon, <1>2, <1>3, <1>6, <1>7 DEF q

\* Only ExecUpdate writes to the table.
LEMMA TableKept ==
  ASSUME NEW p \in Process, Quiet(p) \/ ExitWait(p) \/ JoinRelease(p)
  PROVE  UNCHANGED pcbs
<1>1. CASE SystemCall(p)
  BY Zenon, <1>1 DEF SystemCall, SysExec, JoinUpdate, ExitUpdate
<1>2. CASE \/ ExecP(p) \/ ExecMutexV(p) \/ ExecDone(p) \/ StartProcess(p)
           \/ \E f \in Program : ExecRefused(p, f)
  BY Zenon, <1>2 DEF ExecP, ExecMutexV, ExecDone, StartProcess, ExecRefused
<1>3. CASE \/ NumWaitP(p, "joinInc", "joinInc2") \/ NumWaitV(p, "joinInc2", "joinWait")
           \/ NumWaitP(p, "joinDec", "joinDec2") \/ NumWaitV(p, "joinDec2", "joinRelease")
  BY Zenon, <1>3 DEF NumWaitP, NumWaitV
<1>4. CASE JoinWait(p) \/ JoinWake(p) \/ JoinReturn(p) \/ Remove(p) \/ ExitWait(p) \/ JoinRelease(p)
  BY Zenon, <1>4 DEF JoinWait, JoinWake, JoinReturn, Remove, ExitWait, JoinRelease
<1> QED
  BY Zenon, <1>1, <1>2, <1>3, <1>4 DEF Quiet

LEMMA OneMatchStep ==
  ASSUME PInv, OneMatch, FreshThreads, [Next]_vars
  PROVE  OneMatch'
<1> FindsItself
  BY Zenon, OneMatchFinds
<1> \A i \in Slot : pcbs[i] # None => pcbs[i] \in Process
  BY Zenon DEF PInv, TypeOK
<1>1. CASE UNCHANGED vars
  BY Zenon, <1>1 DEF vars, OneMatch
<1>2. ASSUME UNCHANGED pcbs, \A r \in Process : pcb'[r].thread = pcb[r].thread
      PROVE  OneMatch'
  BY Zenon, <1>2 DEF OneMatch
<1>3. ASSUME NEW p \in Process, Quiet(p) \/ ExitWait(p) \/ JoinRelease(p)
      PROVE  OneMatch'
  <2>1. \A r \in Process : pcb'[r].thread = pcb[r].thread
    BY Zenon, <1>3, QuietFields, ExitWaitFields, JoinReleaseFields DEF SameFields
  <2>2. UNCHANGED pcbs
    BY Zenon, <1>3, TableKept
  <2> QED
    BY Zenon, <1>2, <2>1, <2>2
<1>4. ASSUME NEW p \in Process, ExecFork(p) PROVE OneMatch'
  <2>1. pcbs' = pcbs
    BY Zenon, <1>4 DEF ExecFork
  <2> DEFINE q == pcbs[arg[p]]
  <2>2. q \in Process /\ \A r \in Process : r # q => pcb'[r].thread = pcb[r].thread
    BY Zenon, <1>4, ExecForkFields
  <2> HIDE DEF q
  <2>3. ASSUME NEW i \in Slot, NEW j \in Slot, pcbs[i] # None, pcbs[j] # None,
               pcb'[pcbs[i]].thread # None, pcb'[pcbs[i]].thread = pcb'[pcbs[j]].thread,
               pcbs[j] # q
        PROVE  i = j
    <3>1. pcb'[pcbs[j]].thread = pcb[pcbs[j]].thread
      BY Zenon, <2>2, <2>3
    <3>2. pcb'[pcbs[i]].thread = pcb[pcbs[i]].thread
      BY Zenon, <2>2, <2>3, <3>1 DEF FreshThreads
    <3> QED
      BY Zenon, <2>3, <3>1, <3>2 DEF OneMatch
  <2>4. \A i, j \in Slot : pcbs[i] = q /\ pcbs[j] = q => i = j
    <3>1. \A i, j \in Slot : pcbs[i] # None /\ pcbs[i] = pcbs[j] => i = j
      BY Zenon DEF PInv, SlotInv
    <3>2. q # None
      BY Zenon, <2>2, Constants
    <3> QED
      BY Zenon, <3>1, <3>2
  <2>5. ASSUME NEW i \in Slot, NEW j \in Slot, pcbs[i] # None, pcbs[j] # None,
               pcb'[pcbs[i]].thread # None, pcb'[pcbs[i]].thread = pcb'[pcbs[j]].thread
        PROVE  i = j
    <3>1. CASE pcbs[j] # q
      BY Zenon, <2>3, <2>5, <3>1
    <3>2. CASE pcbs[i] # q
      <4>1. pcb'[pcbs[j]].thread # None
        BY Zenon, <2>5
      <4> QED
        BY Zenon, <2>3, <2>5, <3>2, <4>1
    <3> QED
      BY Zenon, <2>4, <3>1, <3>2
  <2> QED
    BY Zenon, <2>1, <2>5 DEF OneMatch
<1>5. ASSUME NEW p \in Process, NEW f \in Program, ExecAllocate(p, f) PROVE OneMatch'
  <2> DEFINE q == Min(Unmade)
  <2>1. q \in Process /\ pcb'[q].thread = None /\ \A r \in Process : r # q => pcb'[r] = pcb[r]
    BY Zenon, <1>5, ExecAllocateFields
  <2>2. pcbs' = [pcbs EXCEPT ![GetFreeSlot] = q] /\ GetFreeSlot \in Slot
    BY Zenon, <1>5, ExecAllocateFields DEF ExecAllocate
  <2> HIDE DEF q
  <2>3. ASSUME NEW i \in Slot, pcbs'[i] # None, pcb'[pcbs'[i]].thread # None
        PROVE  pcbs'[i] = pcbs[i] /\ pcb'[pcbs'[i]] = pcb[pcbs[i]]
    <3>1. pcbs'[i] # q
      BY Zenon, <2>1, <2>3
    <3>2. pcbs'[i] = pcbs[i]
      BY Zenon, <2>2, <3>1 DEF PInv, TypeOK
    <3> QED
      BY Zenon, <2>1, <2>3, <3>1, <3>2
  <2>4. ASSUME NEW i \in Slot, NEW j \in Slot, pcbs'[i] # None, pcbs'[j] # None,
               pcb'[pcbs'[i]].thread # None, pcb'[pcbs'[i]].thread = pcb'[pcbs'[j]].thread
        PROVE  i = j
    <3>1. /\ pcbs[i] # None /\ pcb[pcbs[i]].thread # None
          /\ pcb'[pcbs'[i]].thread = pcb[pcbs[i]].thread
      BY Zenon, <2>3, <2>4
    <3>2. pcbs[j] # None /\ pcb'[pcbs'[j]].thread = pcb[pcbs[j]].thread
      BY Zenon, <2>3, <2>4
    <3> QED
      BY Zenon, <2>4, <3>1, <3>2 DEF OneMatch
  <2> QED
    BY Zenon, <2>4 DEF OneMatch
<1> QED
  BY Zenon, <1>1, <1>3, <1>4, <1>5, NextIsQuietOr DEF Next

-----------------------------------------------------------------------------
(* The theorems.                                                           *)

\* A step of the specification is a step of the table.
LEMMA SpecStep ==
  ASSUME [Next /\ UNCHANGED client]_<< vars, client >>
  PROVE  [Next]_vars /\ (JoinOnce' <=> JoinOnce)
  BY Zenon DEF JoinOnce

LEMMA AlwaysInv == Spec /\ []FindsItself => []PInv
<1>1. Init => PInv
  BY Zenon, InitInv
<1>2. PInv /\ FindsItself /\ [Next /\ UNCHANGED client]_<< vars, client >> => PInv'
  BY Zenon, NextInv, SpecStep
<1> QED
  BY <1>1, <1>2, PTL DEF Spec

LEMMA InvImpliesTableSound ==
  ASSUME PInv PROVE TableSound
<1>1. TypeOK
  BY Zenon DEF PInv
<1>2. SlotsAreOwned
  BY Zenon DEF PInv, SlotInv, LifeInv, SlotsAreOwned, Alive
<1>3. OneExecAtATime
  <2> DEFINE E == {p \in Process : at[p] \in {"execUpdate", "execFork", "execMutex", "execDone"}}
  <2>1. E = {p \in Process : at[p] \in ExecPlace}
    BY Zenon DEF ExecPlace
  <2>2. CASE sem = 0
    <3>1. PICK p \in Process : at[p] \in ExecPlace
      BY Zenon, <2>2 DEF PInv, ExecInv
    <3>2. E = {p}
      BY <2>1, <3>1 DEF PInv, ExecInv
    <3> QED
      BY <2>2, <3>2, FS_Singleton DEF OneExecAtATime
  <2>3. CASE sem = 1
    <3>1. E = {}
      BY <2>1, <2>3 DEF PInv, ExecInv
    <3> QED
      BY <2>3, <3>1, FS_EmptySet DEF OneExecAtATime
  <2> QED
    BY <1>1, <2>2, <2>3 DEF TypeOK
<1> QED
  BY Zenon, <1>1, <1>2, <1>3 DEF TableSound

\* As long as every process in the kernel finds itself in the table
\* (PTable::GetCurrentThreadId), the table is sound: the marked slots are those
\* of the processes that are not removed, no two of them share a slot, and one
\* Exec at a time works on it (PTable::ExecUpdate, GetFreeSlot, Remove).
THEOREM TableStaysSound == Spec /\ []FindsItself => []TableSound
<1>1. PInv => TableSound
  BY Zenon, InvImpliesTableSound
<1> QED
  BY <1>1, AlwaysInv, PTL

\* As long as every process in the kernel finds itself, a Join is past JoinWait
\* only if the process it waited for has called Exit (PCB::JoinWait,
\* PCB::JoinRelease).
THEOREM JoinAlwaysWaits == Spec /\ []FindsItself => []JoinWaitsForExit
<1>1. PInv => JoinWaitsForExit
  BY Zenon DEF PInv, JoinInv, JoinOf, JoinWaitsForExit, Exited
<1> QED
  BY <1>1, AlwaysInv, PTL

\* As long as no Thread is made at an address that a PCB of the table still has,
\* which is what the search of GetCurrentThreadId relies on, every process in the
\* kernel finds itself, and so the table is sound and Join waits for Exit.
THEOREM FreshFindsItself ==
  Spec /\ [][FreshThreads]_vars => [](FindsItself /\ TableSound /\ JoinWaitsForExit)
<1>1. Init => PInv /\ OneMatch
  BY Zenon, InitInv
<1>2. /\ PInv /\ OneMatch
      /\ [Next /\ UNCHANGED client]_<< vars, client >> /\ [FreshThreads]_vars
      => PInv' /\ OneMatch'
  <2>1. ASSUME PInv, OneMatch, [Next]_vars, UNCHANGED vars PROVE OneMatch'
    BY Zenon, <2>1 DEF vars, OneMatch
  <2> QED
    BY Zenon, <2>1, NextInv, OneMatchStep, OneMatchFinds, SpecStep
<1>3. PInv /\ OneMatch => FindsItself /\ TableSound /\ JoinWaitsForExit
  BY Zenon, OneMatchFinds, InvImpliesTableSound DEF PInv, JoinInv, JoinOf, JoinWaitsForExit, Exited
<1> QED
  BY <1>1, <1>2, <1>3, PTL DEF Spec
=============================================================================
