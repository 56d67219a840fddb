---------------------------- MODULE ProcessTable ----------------------------
(***************************************************************************)
(* User processes: class PTable (threads/PTable.cc) and class PCB          *)
(* (threads/pcb.cc), with the system calls Exec, Join and Exit that reach  *)
(* them (userprog/exception.cc, userprog/ksyscall.h).                      *)
(*                                                                         *)
(* A process is named by the number of the PCB object made for it, 0 for   *)
(* the one of the first program; its pid is the slot of the table that     *)
(* holds the PCB, and slots are used again.  Semaphores are the atomic     *)
(* ones of SemaphoreAbs.tla and an action goes from one P, V or Fork to    *)
(* the next.                                                               *)
(*                                                                         *)
(* Remove deletes a PCB, and ~PCB calls thread->Finish(), which does not   *)
(* return: the PCB's semaphores and then its Thread are freed, but neither *)
(* the memory of the PCB is, nor is its slot ever set to NULL.             *)
(***************************************************************************)
EXTENDS Integers, FiniteSets, FiniteSetsExt

CONSTANTS MaxProcesses,  \* MAX_PROCESSES
          MaxExec,       \* bound: how many processes are made after the first
          Recycle,       \* `new Thread` may return the address of a deleted one
          Program,       \* names of executable files
          ExitCode,      \* arguments of Exit
          Client         \* the kinds of programs, see JoinOnce

ASSUME ProcessAssumption ==
  /\ MaxProcesses \in Nat \ {0} /\ MaxExec \in Nat
  /\ ExitCode \subseteq Int
  /\ Client \subseteq {"any", "once"} /\ Recycle \in BOOLEAN

Slot == 0 .. MaxProcesses - 1
Process == 0 .. MaxExec
None == -1

VARIABLES
  pcbs,         \* PTable::pcbs, a process or None for each slot
  slotManager,  \* PTable::slotManager, the slots whose bit is set
  sem,          \* value of PTable::sem
  pcb,          \* the members of each PCB
  deleted,      \* the processes whose PCB has run its destructor
  at,           \* where a process stands, see Place
  arg,          \* the slot Exec works on, or the argument of Join
  joined,       \* the PCB on whose joinsem a Join waits
  kids,         \* the pids a program got from Exec and did not join yet
  machine,      \* "running", "halted", or "aborted" by an ASSERT or a fault
  client        \* the kind of the programs, which does not change

vars == << pcbs, slotManager, sem, pcb, deleted, at, arg, joined, kids, machine >>

\* The programs join a pid once for each Exec that returned it; others join any
\* pid at any time.
JoinOnce == client = "once"

Place == {"none", "start", "user",
          "exec", "execUpdate", "execFork", "execMutex", "execDone",
          "joinInc", "joinInc2", "joinWait", "joinBlocked", "joinDec", "joinDec2",
          "joinRelease", "joinCode", "lost",
          "exitWait", "remove", "finished"}

\* Mutant: exitsem is made with value 1.
NewPCBReleased ==
  [pid |-> -1, parentID |-> -1, file |-> None, thread |-> None,
   exitcode |-> 0, joinsem |-> 0, exitsem |-> 1, mutex |-> 1, creator |-> None]

\* PCB::PCB; "creator" is not in the code, it is the process that called Exec.
NewPCB == [pid |-> -1, parentID |-> -1, file |-> None, thread |-> None,
           exitcode |-> 0, joinsem |-> 0, exitsem |-> 0, mutex |-> 1, creator |-> None]

\* PTable::PTable and InitFirstProcess; main() has loaded the first program.
Init ==
  /\ pcbs = [i \in Slot |-> IF i = 0 THEN 0 ELSE None]
  /\ slotManager = {0}
  /\ sem = 1
  /\ \E f \in Program :
       pcb = [p \in Process |->
                IF p = 0 THEN [NewPCB EXCEPT !.pid = 0, !.file = f, !.thread = 0]
                         ELSE NewPCB]
  /\ deleted = {}
  /\ at = [p \in Process |-> IF p = 0 THEN "user" ELSE "none"]
  /\ arg = [p \in Process |-> 0]
  /\ joined = [p \in Process |-> None]
  /\ kids = [p \in Process |-> {}]
  /\ machine = "running"
  /\ client \in Client

-----------------------------------------------------------------------------
\* The slots whose PCB names the Thread of p.  A deleted PCB still does, and a
\* later Thread may have got the same address.
Matches(p) == {i \in Slot : pcbs[i] # None /\ pcb[pcbs[i]].thread = pcb[p].thread}

\* PTable::GetCurrentThreadId, when the running thread is the one of p.
GetCurrentThreadId(p) ==
  IF Matches(p) = {} THEN -1 ELSE pcb[pcbs[Min(Matches(p))]].pid

Self(p) == pcbs[GetCurrentThreadId(p)]

IsExist(id) == id \in Slot /\ pcbs[id] # None

\* Bitmap::FindAndSet, which GetFreeSlot calls, finds the lowest clear bit.
GetFreeSlot == IF Slot \subseteq slotManager THEN -1 ELSE Min(Slot \ slotManager)

\* The PCBs that `new PCB` has not made yet.
Unmade == {q \in Process : pcb[q] = NewPCB}

Go(p, from, to) == /\ machine = "running"
                   /\ at[p] = from
                   /\ at' = [at EXCEPT ![p] = to]

Set(p, new) == pcb' = [pcb EXCEPT ![p] = new]

-----------------------------------------------------------------------------
\* Exec of a file that SysExec could open.  Bound: no call is made that could
\* need more PCBs than there are.
SysExec(p) ==
  /\ Go(p, "user", "exec")
  /\ Cardinality({q \in Process : at[q] \in {"exec", "execUpdate"}})
       < Cardinality(Unmade)
  /\ UNCHANGED << pcbs, slotManager, sem, pcb, deleted, arg, joined, kids, machine >>

\* ExecUpdate: sem->P()
ExecP(p) ==
  /\ Go(p, "exec", "execUpdate")
  /\ sem > 0
  /\ sem' = sem - 1
  /\ UNCHANGED << pcbs, slotManager, pcb, deleted, arg, joined, kids, machine >>

\* A program does not execute itself, and the table may be full: -1.
ExecRefused(p, f) ==
  /\ Go(p, "execUpdate", "user")
  /\ f = pcb[Self(p)].file \/ GetFreeSlot = -1
  /\ sem' = sem + 1
  /\ UNCHANGED << pcbs, slotManager, pcb, deleted, arg, joined, kids, machine >>

\* A slot and a new PCB, up to the mutex->P() of PCB::Exec.
ExecAllocate(p, f) ==
  LET q == Min(Unmade)
      slot == GetFreeSlot
  IN /\ Go(p, "execUpdate", "execFork")
     /\ f # pcb[Self(p)].file /\ slot # -1
     /\ slotManager' = slotManager \cup {slot}
     /\ pcbs' = [pcbs EXCEPT ![slot] = q]
     /\ Set(q, [NewPCB EXCEPT !.parentID = GetCurrentThreadId(p), !.file = f,
                              !.mutex = @ - 1, !.creator = p])
     /\ arg' = [arg EXCEPT ![p] = slot]
     /\ UNCHANGED << sem, deleted, joined, kids, machine >>

\* Where a new Thread for q can be: at an address of its own, or at one that a
\* deleted Thread had and no later Thread has got.
Addresses(q) ==
  {q} \cup IF Recycle THEN {pcb[r].thread : r \in deleted}
                             \ {pcb[r].thread : r \in Process \ deleted}
                     ELSE {}

\* PCB::Exec: the pid, a new Thread, and Fork.
ExecFork(p) ==
  LET q == pcbs[arg[p]]
  IN /\ machine = "running" /\ at[p] = "execFork"
     /\ at' = [at EXCEPT ![p] = "execMutex", ![q] = "start"]
     /\ \E a \in Addresses(q) : Set(q, [pcb[q] EXCEPT !.pid = arg[p], !.thread = a])
     /\ UNCHANGED << pcbs, slotManager, sem, deleted, arg, joined, kids,
                     machine >>

\* mutex->V() in PCB::Exec.  The new process may have run to its end by now and
\* have deleted its mutex: a V on freed memory is lost or faults.
ExecMutexV(p) ==
  LET q == pcbs[arg[p]]
  IN /\ \/ /\ q \notin deleted
           /\ Go(p, "execMutex", "execDone")
           /\ Set(q, [pcb[q] EXCEPT !.mutex = @ + 1])
           /\ UNCHANGED machine
        \/ /\ q \in deleted
           /\ \/ Go(p, "execMutex", "execDone") /\ UNCHANGED machine
              \/ Go(p, "execMutex", "execMutex") /\ machine' = "aborted"
           /\ UNCHANGED pcb
     /\ UNCHANGED << pcbs, slotManager, sem, deleted, arg, joined, kids >>

\* sem->V(), and the pid goes to the program.
ExecDone(p) ==
  /\ Go(p, "execDone", "user")
  /\ sem' = sem + 1
  /\ kids' = IF JoinOnce THEN [kids EXCEPT ![p] = @ \cup {arg[p]}] ELSE kids
  /\ arg' = [arg EXCEPT ![p] = 0]
  /\ UNCHANGED << pcbs, slotManager, pcb, deleted, joined, machine >>

\* StartProcess in the new thread: Load may fail (no file, no memory), and then
\* ASSERTNOTREACHED aborts the machine.
StartProcess(p) ==
  /\ \/ Go(p, "start", "user") /\ UNCHANGED machine
     \/ Go(p, "start", "lost") /\ machine' = "aborted"
  /\ UNCHANGED << pcbs, slotManager, sem, pcb, deleted, arg, joined, kids >>

-----------------------------------------------------------------------------
\* JoinUpdate up to IncNumWait: one of the codes -1, -2 and -3, or go on.
JoinUpdate(p, id) ==
  LET me == GetCurrentThreadId(p)
      refused == \/ ~IsExist(id)                     \* -1
                 \/ id = me                          \* -2
                 \/ pcb[pcbs[id]].parentID # me      \* -3
  IN /\ JoinOnce => id \in kids[p]
     /\ kids' = [kids EXCEPT ![p] = @ \ {id}]
     /\ IF refused THEN Go(p, "user", "user") /\ UNCHANGED arg
                   ELSE Go(p, "user", "joinInc") /\ arg' = [arg EXCEPT ![p] = id]
     /\ UNCHANGED << pcbs, slotManager, sem, pcb, deleted, joined, machine >>

\* IncNumWait and DecNumWait: the P and the V of the caller's own mutex.
NumWaitP(p, from, to) ==
  /\ Go(p, from, to)
  /\ pcb[Self(p)].mutex > 0
  /\ Set(Self(p), [pcb[Self(p)] EXCEPT !.mutex = @ - 1])
  /\ UNCHANGED << pcbs, slotManager, sem, deleted, arg, joined, kids, machine >>

\* Mutant: IncNumWait and DecNumWait forget the V.
NumWaitNoV(p, from, to) ==
  /\ Go(p, from, to)
  /\ UNCHANGED << pcbs, slotManager, sem, pcb, deleted, arg, joined, kids, machine >>

NumWaitV(p, from, to) ==
  /\ Go(p, from, to)
  /\ Set(Self(p), [pcb[Self(p)] EXCEPT !.mutex = @ + 1])
  /\ UNCHANGED << pcbs, slotManager, sem, deleted, arg, joined, kids, machine >>

\* Mutant: JoinUpdate does not call JoinWait.
JoinNoWait(p) ==
  /\ Go(p, "joinWait", "joinDec")
  /\ joined' = [joined EXCEPT ![p] = pcbs[arg[p]]]
  /\ UNCHANGED << pcbs, slotManager, sem, pcb, deleted, arg, kids, machine >>

\* pcbs[id]->JoinWait().  On a deleted semaphore, P takes whatever the freed
\* memory holds: it returns, never returns, or faults.
JoinWait(p) ==
  LET q == pcbs[arg[p]]
  IN /\ joined' = [joined EXCEPT ![p] = q]
     /\ \/ /\ q \notin deleted /\ pcb[q].joinsem > 0
           /\ Go(p, "joinWait", "joinDec")
           /\ Set(q, [pcb[q] EXCEPT !.joinsem = @ - 1])
           /\ UNCHANGED machine
        \/ /\ q \notin deleted /\ pcb[q].joinsem = 0
           /\ Go(p, "joinWait", "joinBlocked")
           /\ UNCHANGED << pcb, machine >>
        \/ /\ q \in deleted
           /\ \/ Go(p, "joinWait", "joinDec") /\ UNCHANGED machine
              \/ Go(p, "joinWait", "lost") /\ UNCHANGED machine
              \/ Go(p, "joinWait", "lost") /\ machine' = "aborted"
           /\ UNCHANGED pcb
     /\ UNCHANGED << pcbs, slotManager, sem, deleted, arg, kids >>

\* The P of JoinWait returns after it had to wait.
JoinWake(p) ==
  LET q == joined[p]
  IN /\ Go(p, "joinBlocked", "joinDec")
     /\ q \notin deleted /\ pcb[q].joinsem > 0
     /\ Set(q, [pcb[q] EXCEPT !.joinsem = @ - 1])
     /\ UNCHANGED << pcbs, slotManager, sem, deleted, arg, joined, kids,
                     machine >>

\* Mutant: JoinUpdate does not call ExitRelease.
JoinNoRelease(p) ==
  /\ Go(p, "joinRelease", "joinCode")
  /\ UNCHANGED << pcbs, slotManager, sem, pcb, deleted, arg, joined, kids, machine >>

\* pcbs[id]->ExitRelease().  A V on freed memory is lost or faults.
JoinRelease(p) ==
  LET q == pcbs[arg[p]]
  IN /\ \/ /\ q \notin deleted
           /\ Go(p, "joinRelease", "joinCode")
           /\ Set(q, [pcb[q] EXCEPT !.exitsem = @ + 1])
           /\ UNCHANGED machine
        \/ /\ q \in deleted
           /\ \/ Go(p, "joinRelease", "joinCode") /\ UNCHANGED machine
              \/ Go(p, "joinRelease", "lost") /\ machine' = "aborted"
           /\ UNCHANGED pcb
     /\ UNCHANGED << pcbs, slotManager, sem, deleted, arg, joined, kids >>

\* return pcbs[id]->GetExitCode(): of the PCB that is in the slot by now.
JoinCode(p) == pcb[pcbs[arg[p]]].exitcode

JoinReturn(p) ==
  /\ Go(p, "joinCode", "user")
  /\ arg' = [arg EXCEPT ![p] = 0]
  /\ joined' = [joined EXCEPT ![p] = None]
  /\ UNCHANGED << pcbs, slotManager, sem, pcb, deleted, kids, machine >>

-----------------------------------------------------------------------------
\* ExitUpdate up to JoinRelease.  The exit of the first process halts Nachos.
ExitUpdate(p, code) ==
  /\ \/ /\ GetCurrentThreadId(p) = 0
        /\ Go(p, "user", "finished")
        /\ machine' = "halted"
        /\ UNCHANGED pcb
     \/ /\ GetCurrentThreadId(p) # 0
        /\ Go(p, "user", "exitWait")
        /\ Set(Self(p), [pcb[Self(p)] EXCEPT !.exitcode = code, !.joinsem = @ + 1])
        /\ UNCHANGED machine
  /\ UNCHANGED << pcbs, slotManager, sem, deleted, arg, joined, kids >>

ExitWait(p) ==
  /\ Go(p, "exitWait", "remove")
  /\ pcb[Self(p)].exitsem > 0
  /\ Set(Self(p), [pcb[Self(p)] EXCEPT !.exitsem = @ - 1])
  /\ UNCHANGED << pcbs, slotManager, sem, deleted, arg, joined, kids, machine >>

\* Mutant: Remove does not clear the bit of the slot.
RemoveKeepsBit(p) ==
  /\ Go(p, "remove", "finished")
  /\ deleted' = deleted \cup {Self(p)}
  /\ UNCHANGED << pcbs, slotManager, sem, pcb, arg, joined, kids, machine >>

\* PTable::Remove, ~PCB and Thread::Finish.
Remove(p) ==
  /\ Go(p, "remove", "finished")
  /\ slotManager' = slotManager \ {GetCurrentThreadId(p)}
  /\ deleted' = deleted \cup {Self(p)}
  /\ UNCHANGED << pcbs, sem, pcb, arg, joined, kids, machine >>

-----------------------------------------------------------------------------
\* What a process does inside the kernel, once it made a system call.
KernelStep(p) ==
  \/ \E f \in Program : ExecRefused(p, f) \/ ExecAllocate(p, f)
  \/ ExecFork(p) \/ ExecMutexV(p) \/ ExecDone(p)
  \/ StartProcess(p)
  \/ NumWaitP(p, "joinInc", "joinInc2") \/ NumWaitV(p, "joinInc2", "joinWait")
  \/ JoinWait(p) \/ JoinWake(p)
  \/ NumWaitP(p, "joinDec", "joinDec2") \/ NumWaitV(p, "joinDec2", "joinRelease")
  \/ JoinRelease(p) \/ JoinReturn(p)
  \/ ExitWait(p) \/ Remove(p)

SystemCall(p) ==
  \/ SysExec(p)
  \/ \E id \in -1 .. MaxProcesses : JoinUpdate(p, id)
  \/ \E code \in ExitCode : ExitUpdate(p, code)

Next == \E p \in Process : SystemCall(p) \/ ExecP(p) \/ KernelStep(p)

\* The scheduler is fair to every process inside the kernel, and PTable::sem to
\* some of those that wait for it.  Programs owe nothing.
Fairness == /\ \A p \in Process : WF_vars(KernelStep(p))
            /\ WF_vars(\E p \in Process : ExecP(p))

Spec == Init /\ [][Next /\ UNCHANGED client]_<< vars, client >>
FairSpec == Spec /\ Fairness

-----------------------------------------------------------------------------
PCBType == [pid : Slot \cup {-1}, parentID : Slot \cup {-1},
            file : Program \cup {None}, thread : Process \cup {None},
            exitcode : ExitCode \cup {0},
            joinsem : 0..1, exitsem : Nat, mutex : 0..1,
            creator : Process \cup {None}]

TypeOK ==
  /\ pcbs \in [Slot -> Process \cup {None}]
  /\ slotManager \subseteq Slot
  /\ sem \in 0..1
  /\ pcb \in [Process -> PCBType]
  /\ deleted \subseteq Process
  /\ at \in [Process -> Place]
  /\ arg \in [Process -> Slot]
  /\ joined \in [Process -> Process \cup {None}]
  /\ kids \in [Process -> SUBSET Slot]
  /\ machine \in {"running", "halted", "aborted"}

\* The processes that have a thread.
Alive == {p \in Process : at[p] \notin {"none", "finished"}}

\* The bits of slotManager are set for the slots of the processes that are not
\* removed, zombies and one that is being made included, and for no other: no
\* two processes share a pid, and no slot leaks.
SlotsAreOwned ==
  machine = "running" =>
    /\ slotManager = {i \in Slot : pcbs[i] # None /\ pcbs[i] \notin deleted}
    /\ \A p \in Alive : \E i \in Slot : pcbs[i] = p

\* Exec has the table to itself from GetFreeSlot to its last V.
OneExecAtATime ==
  Cardinality({p \in Process : at[p] \in {"execUpdate", "execFork", "execMutex",
                                         "execDone"}}) = 1 - sem

\* The table stays well typed, every slot that is marked belongs to one process
\* that is not removed, and one Exec at a time works on it (PTable::ExecUpdate,
\* GetFreeSlot, Remove; see SlotsAreOwned and OneExecAtATime).
TableSound == TypeOK /\ SlotsAreOwned /\ OneExecAtATime

\* "Only return once the user program id has finished" (userprog/syscall.h): a
\* Join is past JoinWait only if the process it waited for has called Exit.
JoinWaitsForExit ==
  \A p \in Process :
    at[p] \in {"joinDec", "joinDec2", "joinRelease", "joinCode"}
      => at[joined[p]] \in {"exitWait", "remove", "finished"}

\* A process that called Exit keeps its PCB until a Join of it has come to
\* ExitRelease: Remove never takes the PCB from under the Join.
NotRemovedUnderJoin ==
  \A p \in Process :
    at[p] \in {"joinBlocked", "joinDec", "joinDec2", "joinRelease"}
      => joined[p] \notin deleted /\ pcbs[arg[p]] = joined[p]

\* The processes never wait for each other in a circle: while the machine runs,
\* some process can go on.
NoStandstill == machine = "running" => ENABLED Next

\* A child that is joined once keeps its PCB until its Join has come to
\* ExitRelease (PCB::ExitWait; see NotRemovedUnderJoin).
OnceNotRemovedUnderJoin == JoinOnce => NotRemovedUnderJoin

\* Programs that join each child once never all wait for each other: some
\* process can go on while the machine runs (see NoStandstill).
OnceNoStandstill == JoinOnce => NoStandstill

\* p waits in Join for a process that has called Exit.
Ended(p) == at[p] = "joinBlocked" /\ at[joined[p]] = "exitWait"

\* A Join whose child has called Exit returns.
JoinReturns ==
  \A p \in Process : Ended(p) ~> (at[p] = "user" \/ machine # "running")

\* A process that called Exit and that some Join waits for ends: its slot and
\* its thread are freed.
JoinedIsRemoved ==
  \A q \in Process :
    (\E p \in Process : Ended(p) /\ joined[p] = q)
      ~> (at[q] = "finished" \/ machine # "running")

\* "Return the exit status" (userprog/syscall.h, Join): what Join is about to
\* return is the exit code of the process it waited for.
JoinReturnsExitStatus ==
  \A p \in Process : at[p] = "joinCode" => JoinCode(p) = pcb[joined[p]].exitcode

\* "A unique identifier for the process" (threads/pcb.h, on the process ID): a
\* process in the kernel finds itself.  GetCurrentThreadId returns its own pid,
\* although the table keeps the PCBs of removed processes, with the addresses of
\* their deleted Threads.
FindsItself == \A p \in Alive : GetCurrentThreadId(p) = pcb[p].pid

\* "Parent ID: The identifier of the parent process that created this process"
\* (threads/pcb.h): a Join that was not refused is by the process that called
\* Exec.  The parentID is a slot, and slots are used again (JoinUpdate).
JoinedByCreator ==
  [][\A p \in Process : at[p] = "user" /\ at'[p] = "joinInc" => pcb[pcbs[arg'[p]]].creator = p]_vars

\* "Check a process exist or not" (threads/PTable.h, IsExist).
IsExistTellsTheTruth ==
  \A i \in Slot : IsExist(i) => pcbs[i] \notin deleted

=============================================================================
