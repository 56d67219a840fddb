--------------------------- MODULE JoinOnceProofs ---------------------------
(***************************************************************************)
(* Proofs about ProcessTable.tla for programs that join a pid once for     *)
(* each Exec that returned it (JoinOnce).                                  *)
(*                                                                         *)
(* The pids a program may still join are slots of children of its own that *)
(* no Join has released.  Such a child stays in ExitWait when it has       *)
(* called Exit, so neither its PCB nor its slot is free for another.       *)
(***************************************************************************)
EXTENDS ProcessTableProofs

\* The process in slot i is c's child, and no Join has released it.
Owned(c, i) ==
  /\ pcbs[i] # None
  /\ pcbs[i] \notin deleted
  /\ pcb[pcbs[i]].creator = c
  /\ pcb[pcbs[i]].exitsem = 0
  /\ at[pcbs[i]] # "remove"

OnceOf(c) ==
  /\ \A i \in kids[c] : Owned(c, i)
  /\ at[c] \in {"execFork", "execMutex", "execDone"} \cup (JoinPlace \ {"joinCode"}) =>
       Owned(c, arg[c]) /\ arg[c] \notin kids[c]
  /\ at[c] \in {"joinBlocked", "joinDec", "joinDec2", "joinRelease"} =>
       joined[c] = pcbs[arg[c]]

OnceInv == \A c \in Process : OnceOf(c)

-----------------------------------------------------------------------------
(* Every process keeps its part of OnceInv.                                *)

\* What a process stands for outside itself.
Others(p) ==
  \A r \in Process \ {p} : /\ at'[r] = at[r] \/ at'[r] = "start"
                          /\ arg'[r] = arg[r] /\ kids'[r] = kids[r] /\ joined'[r] = joined[r]

\* The children of c stay children of c.
ChildrenKept(c) == \A i \in Slot : Owned(c, i) => Owned(c, i)' /\ pcbs'[i] = pcbs[i]

LEMMA OnceKept ==
  ASSUME PInv, OnceInv, NEW p \in Process, Others(p),
         \A c \in Process \ {p} : ChildrenKept(c), OnceOf(p)'
  PROVE  OnceInv'
<1> SUFFICES ASSUME NEW c \in Process \ {p} PROVE OnceOf(c)'
  BY Zenon DEF OnceInv
<1>1. OnceOf(c) /\ c \in Process
  BY Zenon DEF OnceInv
<1>2. kids[c] \subseteq Slot /\ arg[c] \in Slot
  BY Zenon DEF PInv, TypeOK
<1>3. /\ at'[c] = at[c] \/ at'[c] = "start"
      /\ arg'[c] = arg[c] /\ kids'[c] = kids[c] /\ joined'[c] = joined[c]
  BY Zenon DEF Others
<1>4. \A i \in kids[c] : Owned(c, i)'
  BY Zenon, <1>1, <1>2 DEF OnceOf, ChildrenKept
<1>5. at'[c] \in {"execFork", "execMutex", "execDone"} \cup (JoinPlace \ {"joinCode"}) =>
        Owned(c, arg[c]) /\ arg[c] \notin kids[c]
  BY Zenon, <1>1, <1>3 DEF OnceOf, JoinPlace
<1>6. ASSUME Owned(c, arg[c])
      PROVE  pcbs'[arg'[c]] = pcbs[arg[c]] /\ Owned(c, arg[c])'
  <2>1. PICK i \in Slot : i = arg[c]
    BY Zenon, <1>2
  <2>2. Owned(c, i)' /\ pcbs'[i] = pcbs[i]
    BY Zenon, <1>6, <2>1 DEF ChildrenKept
  <2>3. arg'[c] = i
    BY Zenon, <1>3, <2>1
  <2> QED
    BY Zenon, <2>1, <2>2, <2>3 DEF Owned
<1>7. at'[c] \in {"joinBlocked", "joinDec", "joinDec2", "joinRelease"} =>
        joined'[c] = pcbs[arg[c]] /\ Owned(c, arg[c])
  BY Zenon, <1>1, <1>3, <1>5 DEF OnceOf, JoinPlace
<1> QED
  BY Zenon, <1>3, <1>4, <1>5, <1>6, <1>7 DEF OnceOf

\* Quiet steps move p only, and delete no PCB but that of a process in Remove.
Moves(p) ==
  /\ Others(p) /\ pcbs' = pcbs
  /\ deleted' = deleted \/ (deleted' = deleted \cup {p} /\ at[p] = "remove")
  /\ \A r \in Process : at'[r] # at[r] => r = p /\ at'[r] # "remove"

LEMMA QuietMoves ==
  ASSUME PInv, FindsItself, NEW p \in Process, Quiet(p)
  PROVE  Moves(p)
<1>1. ASSUME NEW to \in Place \ {"remove"}, at' = [at EXCEPT ![p] = to],
             UNCHANGED << pcbs, deleted >>,
             \A r \in Process \ {p} : /\ arg'[r] = arg[r] /\ kids'[r] = kids[r]
                                     /\ joined'[r] = joined[r]
      PROVE  Moves(p)
  BY Zenon, <1>1 DEF Moves, Others, PInv, TypeOK
<1>2. {"user", "exec", "execUpdate", "execMutex", "execDone", "joinInc", "joinInc2",
       "joinWait", "joinBlocked", "joinDec", "joinDec2", "joinRelease", "joinCode", "lost",
       "exitWait", "finished"} \subseteq Place \ {"remove"}
  BY DEF Place
<1> USE DEF Go
<1>3. CASE Remove(p)
  <2>1. at[p] = "remove"
    BY Zenon, <1>3 DEF Remove
  <2>2. Self(p) = p
    BY Zenon, <2>1, SelfIsP
  <2> QED
    BY ZenonT(40), <1>3, <2>1, <2>2 DEF Remove, Moves, Others, PInv, TypeOK
<1>4. CASE SysExec(p) \/ ExecP(p) \/ \E f \in Program : ExecRefused(p, f)
  BY Zenon, <1>1, <1>2, <1>4 DEF SysExec, ExecP, ExecRefused
<1>5. ASSUME NEW id \in -1 .. MaxProcesses, JoinUpdate(p, id) PROVE Moves(p)
  <2>1. \A r \in Process \ {p} : arg'[r] = arg[r] /\ kids'[r] = kids[r]
    BY Zenon, <1>5 DEF JoinUpdate, PInv, TypeOK
  <2>2. PICK to \in {"user", "joinInc"} : at' = [at EXCEPT ![p] = to]
    BY <1>5, Zenon DEF JoinUpdate
  <2> QED
    BY ZenonT(40), <1>1, <1>2, <1>5, <2>1, <2>2 DEF JoinUpdate
<1>6. ASSUME NEW code \in ExitCode, ExitUpdate(p, code) PROVE Moves(p)
  BY Zenon, <1>1, <1>2, <1>6 DEF ExitUpdate
<1>7. CASE ExecMutexV(p)
  BY Zenon, <1>1, <1>2, <1>7 DEF ExecMutexV
<1>8. CASE ExecDone(p)
  <2>1. \A r \in Process \ {p} : arg'[r] = arg[r] /\ kids'[r] = kids[r]
    BY Zenon, <1>8 DEF ExecDone, PInv, TypeOK
  <2> QED
    BY ZenonT(40), <1>1, <1>2, <1>8, <2>1 DEF ExecDone
<1>9. CASE StartProcess(p)
  BY Zenon, <1>1, <1>2, <1>9 DEF StartProcess
<1>10. ASSUME NEW from, NEW to \in {"joinInc2", "joinWait", "joinDec2", "joinRelease"},
              NumWaitP(p, from, to) \/ NumWaitV(p, from, to)
       PROVE  Moves(p)
  BY Zenon, <1>1, <1>2, <1>10 DEF NumWaitP, NumWaitV
<1>11. CASE JoinWait(p)
  <2>1. \A r \in Process \ {p} : joined'[r] = joined[r]
    BY Zenon, <1>11 DEF JoinWait, PInv, TypeOK
  <2> QED
    BY ZenonT(40), <1>1, <1>2, <1>11, <2>1 DEF JoinWait
<1>12. CASE JoinWake(p)
  BY Zenon, <1>1, <1>2, <1>12 DEF JoinWake
<1>13. CASE JoinReturn(p)
  <2>1. \A r \in Process \ {p} : arg'[r] = arg[r] /\ joined'[r] = joined[r]
    BY Zenon, <1>13 DEF JoinReturn, PInv, TypeOK
  <2> QED
    BY Zenon, <1>1, <1>2, <1>13, <2>1 DEF JoinReturn
<1> QED
  BY ZenonT(40), <1>3, <1>4, <1>5, <1>6, <1>7, <1>8, <1>9, <1>10, <1>11, <1>12, <1>13
  DEF Quiet, SystemCall

LEMMA QuietChildren ==
  ASSUME PInv, FindsItself, NEW p \in Process, Quiet(p), NEW c \in Process
  PROVE  ChildrenKept(c)
<1>1. Moves(p) /\ SameFields
  BY Zenon, QuietMoves, QuietFields
<1>2. ASSUME NEW i \in Slot, Owned(c, i) PROVE Owned(c, i)' /\ pcbs'[i] = pcbs[i]
  <2>1. pcbs[i] \in Process /\ pcbs'[i] = pcbs[i]
    BY Zenon, <1>1, <1>2 DEF Owned, Moves, PInv, TypeOK
  <2>2. pcbs[i] \notin deleted' /\ at'[pcbs[i]] # "remove"
    BY Zenon, <1>1, <1>2, <2>1 DEF Owned, Moves
  <2>3. pcb'[pcbs[i]].creator = c /\ pcb'[pcbs[i]].exitsem = 0
    BY Zenon, <1>1, <1>2, <2>1 DEF Owned, SameFields
  <2> QED
    BY Zenon, <1>2, <2>1, <2>2, <2>3 DEF Owned
<1> QED
  BY Zenon, <1>2 DEF ChildrenKept

\* The caller's own part of OnceInv after a quiet step.
LEMMA QuietOwn ==
  ASSUME PInv, FindsItself, OnceInv, JoinOnce, NEW p \in Process, Quiet(p)
  PROVE  OnceOf(p)'
<1> DEFINE Working == {"execFork", "execMutex", "execDone"} \cup (JoinPlace \ {"joinCode"})
           Waited == {"joinBlocked", "joinDec", "joinDec2", "joinRelease"}
<1>1. OnceOf(p) /\ kids[p] \subseteq Slot /\ arg[p] \in Slot
  BY Zenon DEF OnceInv, PInv, TypeOK
<1>2. ChildrenKept(p) /\ pcbs' = pcbs
  BY Zenon, QuietChildren, QuietMoves DEF Moves
<1>3. \A i \in Slot : Owned(p, i) => Owned(p, i)'
  BY Zenon, <1>2 DEF ChildrenKept
<1>4. \A i \in kids[p] : Owned(p, i)'
  BY Zenon, <1>1, <1>3 DEF OnceOf
<1>5. ASSUME kids'[p] = kids[p], at'[p] \notin Working PROVE OnceOf(p)'
  BY Zenon, <1>4, <1>5 DEF JoinPlace, OnceOf
<1>6. ASSUME kids'[p] = kids[p], arg'[p] = arg[p], at[p] \in Working,
             at'[p] \in Waited => joined'[p] = pcbs[arg[p]]
      PROVE  OnceOf(p)'
  <2>1. Owned(p, arg[p]) /\ arg[p] \notin kids[p]
    BY Zenon, <1>1, <1>6 DEF OnceOf
  <2>2. Owned(p, arg[p])'
    <3>1. pcbs'[arg'[p]] = pcbs[arg[p]]
      BY Zenon, <1>2, <1>6
    <3> QED
      BY Zenon, <1>1, <1>2, <1>6, <2>1, <3>1 DEF ChildrenKept, Owned
  <2> QED
    BY ZenonT(40), <1>2, <1>4, <1>6, <2>1, <2>2 DEF OnceOf
<1>7. ASSUME NEW to \in Place, at' = [at EXCEPT ![p] = to] PROVE at'[p] = to
  BY Zenon, <1>7 DEF PInv, TypeOK
<1>8. CASE SysExec(p) \/ ExecP(p) \/ (\E f \in Program : ExecRefused(p, f)) \/ StartProcess(p)
           \/ Remove(p) \/ (\E code \in ExitCode : ExitUpdate(p, code)) \/ JoinReturn(p)
  <2>1. kids' = kids
    BY Zenon, <1>8 DEF SysExec, ExecP, ExecRefused, StartProcess, Remove, ExitUpdate, JoinReturn
  <2>2. at'[p] \in {"exec", "execUpdate", "user", "lost", "finished", "exitWait"}
    BY Zenon, <1>7, <1>8
    DEF SysExec, ExecP, ExecRefused, StartProcess, Remove, ExitUpdate, JoinReturn, Go, Place
  <2> QED
    BY Zenon, <1>5, <2>1, <2>2 DEF JoinPlace
<1>9. ASSUME NEW id \in -1 .. MaxProcesses, JoinUpdate(p, id) PROVE OnceOf(p)'
  <2>1. id \in kids[p] /\ kids'[p] = kids[p] \ {id}
    BY Zenon, <1>9 DEF JoinUpdate, PInv, TypeOK
  <2>2. \/ at'[p] = "user"
        \/ at'[p] = "joinInc" /\ arg'[p] = id
    BY <1>7, <1>9 DEF JoinUpdate, Go, PInv, TypeOK, Place
  <2>3. Owned(p, id)'
    BY Zenon, <1>4, <2>1
  <2>4. at'[p] = "joinInc" => Owned(p, arg[p])'
    BY Zenon, <2>2, <2>3 DEF Owned
  <2> QED
    BY <1>4, <2>1, <2>2, <2>4 DEF OnceOf, JoinPlace
<1>10. CASE ExecMutexV(p)
  <2>1. kids' = kids /\ arg' = arg /\ at[p] = "execMutex" /\ at'[p] \in {"execMutex", "execDone"}
    BY Zenon, <1>7, <1>10 DEF ExecMutexV, Go, Place
  <2> QED
    BY Zenon, <1>6, <2>1
<1>11. CASE ExecDone(p)
  <2>1. at[p] = "execDone" /\ at'[p] = "user" /\ kids'[p] = kids[p] \cup {arg[p]}
    BY Zenon, <1>7, <1>11 DEF ExecDone, Go, PInv, TypeOK, Place
  <2>2. Owned(p, arg[p])
    BY Zenon, <1>1, <2>1 DEF OnceOf
  <2>3. \A i \in kids'[p] : Owned(p, i)'
    BY ZenonT(40), <1>1, <1>3, <1>4, <2>1, <2>2 DEF OnceOf
  <2> QED
    BY Zenon, <2>1, <2>3 DEF OnceOf, JoinPlace
<1>12. ASSUME NEW from, NEW to, NumWaitP(p, from, to) \/ NumWaitV(p, from, to),
              \/ from = "joinInc" /\ to = "joinInc2"
              \/ from = "joinInc2" /\ to = "joinWait"
              \/ from = "joinDec" /\ to = "joinDec2"
              \/ from = "joinDec2" /\ to = "joinRelease"
       PROVE  OnceOf(p)'
  <2>1. UNCHANGED << kids, arg, joined >> /\ at[p] = from /\ at' = [at EXCEPT ![p] = to]
    BY Zenon, <1>12 DEF NumWaitP, NumWaitV, Go
  <2>2. to \in Place /\ from \in Working
    BY Zenon, <1>12 DEF Place, JoinPlace
  <2>3. at'[p] = to
    BY Zenon, <1>7, <2>1, <2>2
  <2>4. to \in Waited => joined[p] = pcbs[arg[p]]
    BY Zenon, <1>1, <1>12, <2>1 DEF OnceOf
  <2> QED
    BY ZenonT(40), <1>6, <2>1, <2>2, <2>3, <2>4
<1>13. CASE JoinWait(p)
  <2>1. kids' = kids /\ arg' = arg /\ at[p] = "joinWait" /\ joined'[p] = pcbs[arg[p]]
    BY Zenon, <1>13 DEF JoinWait, Go, PInv, TypeOK
  <2> QED
    BY Zenon, <1>6, <2>1 DEF JoinPlace
<1>14. CASE JoinWake(p)
  <2>1. UNCHANGED << kids, arg, joined >> /\ at[p] = "joinBlocked"
    BY Zenon, <1>14 DEF JoinWake, Go
  <2>2. joined[p] = pcbs[arg[p]]
    BY Zenon, <1>1, <2>1 DEF OnceOf
  <2> QED
    BY Zenon, <1>6, <2>1, <2>2 DEF JoinPlace
<1>15. CASE \/ NumWaitP(p, "joinInc", "joinInc2") \/ NumWaitV(p, "joinInc2", "joinWait")
            \/ NumWaitP(p, "joinDec", "joinDec2") \/ NumWaitV(p, "joinDec2", "joinRelease")
  BY <1>12, <1>15, Zenon
<1>16. CASE \E id \in -1 .. MaxProcesses : JoinUpdate(p, id)
  BY Zenon, <1>9, <1>16
<1> QED
  BY ZenonT(40), <1>8, <1>10, <1>11, <1>13, <1>14, <1>15, <1>16 DEF Quiet, SystemCall

LEMMA QuietOnce ==
  ASSUME PInv, FindsItself, OnceInv, JoinOnce, NEW p \in Process, Quiet(p)
  PROVE  OnceInv'
<1>1. Others(p) /\ \A c \in Process : ChildrenKept(c)
  BY Zenon, QuietMoves, QuietChildren DEF Moves
<1> QED
  BY Zenon, <1>1, QuietOwn, OnceKept

\* A child in ExitWait goes on only after its Join has released it.
LEMMA ExitWaitOnce ==
  ASSUME PInv, FindsItself, OnceInv, NEW p \in Process, ExitWait(p)
  PROVE  OnceInv'
<1>1. /\ at' = [at EXCEPT ![p] = "remove"] /\ "remove" \in Place
      /\ UNCHANGED << pcbs, deleted, arg, joined, kids >>
  BY Zenon DEF ExitWait, Go, Place
<1>2. \A r \in Process : at'[r] = IF r = p THEN "remove" ELSE at[r]
  BY Zenon, <1>1 DEF PInv, TypeOK
<1>3. ASSUME NEW c \in Process, NEW i \in Slot, Owned(c, i)
      PROVE  Owned(c, i)' /\ pcbs'[i] = pcbs[i]
  <2>1. pcbs[i] \in Process /\ pcbs[i] # p
    <3>1. pcb[p].exitsem > 0 /\ pcb[pcbs[i]].exitsem = 0 /\ pcbs[i] # None
      BY Zenon, <1>3, ExitWaitFields DEF Owned
    <3>2. pcbs[i] \in Process \cup {None}
      BY Zenon DEF PInv, TypeOK
    <3> QED
      BY <3>1, <3>2
  <2>2. pcb'[pcbs[i]].creator = c /\ pcb'[pcbs[i]].exitsem = 0 /\ at'[pcbs[i]] # "remove"
    BY Zenon, <1>2, <1>3, <2>1, ExitWaitFields DEF Owned
  <2> QED
    BY Zenon, <1>1, <1>3, <2>2 DEF Owned
<1>4. Others(p) /\ \A c \in Process : ChildrenKept(c)
  BY Zenon, <1>1, <1>2, <1>3 DEF Others, ChildrenKept
<1>5. OnceOf(p)'
  <2>1. at'[p] = "remove" /\ kids'[p] = kids[p] /\ kids[p] \subseteq Slot
    BY Zenon, <1>1, <1>2 DEF PInv, TypeOK
  <2>2. \A i \in kids'[p] : Owned(p, i)'
    BY Zenon, <1>3, <2>1 DEF OnceInv, OnceOf
  <2> QED
    BY Zenon, <2>1, <2>2 DEF OnceOf, JoinPlace
<1> QED
  BY Zenon, <1>4, <1>5, OnceKept

\* ExitRelease ends the one claim to the child.
LEMMA JoinReleaseOnce ==
  ASSUME PInv, OnceInv, NEW p \in Process, JoinRelease(p)
  PROVE  OnceInv'
<1>1. /\ at[p] = "joinRelease"
      /\ UNCHANGED << pcbs, deleted, arg, joined, kids >>
  BY Zenon DEF JoinRelease, Go
<1>2. Owned(p, arg[p]) /\ arg[p] \notin kids[p]
  BY Zenon, <1>1 DEF OnceInv, OnceOf, JoinPlace
<1>3. at' = [at EXCEPT ![p] = "joinCode"] /\ "joinCode" \in Place
  BY Zenon, <1>2 DEF JoinRelease, Go, Owned, Place
<1>4. \A r \in Process : at'[r] = IF r = p THEN "joinCode" ELSE at[r]
  BY Zenon, <1>3 DEF PInv, TypeOK
<1>5. ASSUME NEW c \in Process, NEW i \in Slot, Owned(c, i), c # p \/ i # arg[p]
      PROVE  Owned(c, i)' /\ pcbs'[i] = pcbs[i]
  <2>1. pcbs[i] \in Process
    BY Zenon, <1>5 DEF Owned, PInv, TypeOK
  <2>2. pcbs[i] # pcbs[arg[p]]
    BY Zenon, <1>2, <1>5 DEF Owned, PInv, SlotInv, TypeOK
  <2>3. pcb'[pcbs[i]].creator = c /\ pcb'[pcbs[i]].exitsem = 0 /\ at'[pcbs[i]] # "remove"
    BY Zenon, <1>4, <1>5, <2>1, <2>2, JoinReleaseFields DEF Owned
  <2> QED
    BY Zenon, <1>1, <1>5, <2>3 DEF Owned
<1>6. Others(p) /\ \A c \in Process \ {p} : ChildrenKept(c)
  BY Zenon, <1>1, <1>4, <1>5 DEF Others, ChildrenKept
<1>7. OnceOf(p)'
  <2>1. at'[p] = "joinCode" /\ kids'[p] = kids[p] /\ kids[p] \subseteq Slot
    BY Zenon, <1>1, <1>4 DEF PInv, TypeOK
  <2>2. \A i \in kids'[p] : Owned(p, i)'
    BY Zenon, <1>2, <1>5, <2>1 DEF OnceInv, OnceOf
  <2> QED
    BY Zenon, <2>1, <2>2 DEF OnceOf, JoinPlace
<1> QED
  BY Zenon, <1>6, <1>7, OnceKept

LEMMA ExecForkOnce ==
  ASSUME PInv, OnceInv, NEW p \in Process, ExecFork(p)
  PROVE  OnceInv'
<1> DEFINE q == pcbs[arg[p]]
<1>1. /\ at[p] = "execFork" /\ at' = [at EXCEPT ![p] = "execMutex", ![q] = "start"]
      /\ UNCHANGED << pcbs, deleted, arg, joined, kids >>
  BY Zenon DEF ExecFork
<1>2. q \in Process /\ p # q
  BY Zenon, <1>1, ExecForkFields DEF PInv, ExecInv
<1>3. \A r \in Process : at'[r] = IF r = p THEN "execMutex" ELSE IF r = q THEN "start" ELSE at[r]
  BY Zenon, <1>1, <1>2 DEF PInv, TypeOK
<1> HIDE DEF q
<1>4. ASSUME NEW c \in Process, NEW i \in Slot, Owned(c, i)
      PROVE  Owned(c, i)' /\ pcbs'[i] = pcbs[i]
  <2>1. pcbs[i] \in Process
    BY Zenon, <1>4 DEF Owned, PInv, TypeOK
  <2>2. pcb'[pcbs[i]].creator = c /\ pcb'[pcbs[i]].exitsem = 0 /\ at'[pcbs[i]] # "remove"
    BY Zenon, <1>3, <1>4, <2>1, ExecForkFields DEF Owned
  <2> QED
    BY Zenon, <1>1, <1>4, <2>2 DEF Owned
<1>5. Others(p) /\ \A c \in Process : ChildrenKept(c)
  BY Zenon, <1>1, <1>3, <1>4 DEF Others, ChildrenKept
<1>6. OnceOf(p)'
  <2>1. /\ at'[p] = "execMutex" /\ kids'[p] = kids[p] /\ kids[p] \subseteq Slot
        /\ arg' = arg /\ arg[p] \in Slot
    BY Zenon, <1>1, <1>3 DEF PInv, TypeOK
  <2>2. (\A i \in kids[p] : Owned(p, i)) /\ Owned(p, arg[p]) /\ arg[p] \notin kids[p]
    BY Zenon, <1>1 DEF OnceInv, OnceOf
  <2>3. \A i \in kids'[p] : Owned(p, i)'
    BY Zenon, <1>4, <2>1, <2>2
  <2>4. Owned(p, arg[p])'
    BY ZenonT(40), <1>4, <2>1, <2>2 DEF Owned
  <2> QED
    BY ZenonT(40), <2>1, <2>2, <2>3, <2>4 DEF OnceOf
<1> QED
  BY Zenon, <1>5, <1>6, OnceKept

\* A new child is in a slot that no child of the caller is in.
LEMMA ExecAllocateOnce ==
  ASSUME PInv, FindsItself, OnceInv, NEW p \in Process, NEW f \in Program, ExecAllocate(p, f)
  PROVE  OnceInv'
<1> DEFINE q == Min(Unmade)
           slot == GetFreeSlot
<1>1. /\ at[p] = "execUpdate" /\ at' = [at EXCEPT ![p] = "execFork"] /\ "execFork" \in Place
      /\ pcbs' = [pcbs EXCEPT ![slot] = q] /\ arg' = [arg EXCEPT ![p] = slot]
      /\ UNCHANGED << deleted, joined, kids >>
  BY Zenon DEF ExecAllocate, Go, Place
<1>2. /\ q \in Process /\ ~Made(q) /\ slot \in Slot \ slotManager
      /\ pcb'[q].creator = p /\ pcb'[q].exitsem = 0
      /\ \A r \in Process : r # q => pcb'[r] = pcb[r]
  BY Zenon, ExecAllocateFields
<1> HIDE DEF q, slot
<1>3. \A r \in Process : at'[r] = IF r = p THEN "execFork" ELSE at[r]
  BY Zenon, <1>1 DEF PInv, TypeOK
<1>4. \A i \in Slot : pcbs'[i] = IF i = slot THEN q ELSE pcbs[i]
  BY Zenon, <1>1, <1>2 DEF PInv, TypeOK
<1>5. \A r \in Process : arg'[r] = IF r = p THEN slot ELSE arg[r]
  BY Zenon, <1>1 DEF PInv, TypeOK
<1>6. at[q] = "none" /\ q \notin deleted
  BY Zenon, <1>2 DEF PInv, LifeInv, Made
<1>7. ASSUME NEW c \in Process, NEW i \in Slot, Owned(c, i)
      PROVE  Owned(c, i)' /\ pcbs'[i] = pcbs[i] /\ i # slot
  <2>1. i # slot
    BY Zenon, <1>2, <1>7 DEF Owned, PInv, SlotInv
  <2>2. pcbs[i] \in Process /\ pcbs[i] # q /\ pcbs'[i] = pcbs[i]
    BY ZenonT(40), <1>2, <1>4, <1>7, <2>1 DEF Owned, PInv, SlotInv, TypeOK
  <2>3. pcb'[pcbs[i]] = pcb[pcbs[i]] /\ at'[pcbs[i]] # "remove"
    BY Zenon, <1>2, <1>3, <1>7, <2>2 DEF Owned
  <2>4. deleted' = deleted /\ pcbs[i] # None /\ pcbs[i] \notin deleted
        /\ pcb[pcbs[i]].creator = c /\ pcb[pcbs[i]].exitsem = 0
    BY Zenon, <1>1, <1>7 DEF Owned
  <2>5. Owned(c, i)'
    BY Zenon, <2>2, <2>3, <2>4 DEF Owned
  <2> QED
    BY Zenon, <2>1, <2>2, <2>5
<1>8. Others(p) /\ \A c \in Process : ChildrenKept(c)
  BY Zenon, <1>1, <1>3, <1>5, <1>7 DEF Others, ChildrenKept
<1>9. OnceOf(p)'
  <2>1. /\ at'[p] = "execFork" /\ kids'[p] = kids[p] /\ kids[p] \subseteq Slot
        /\ arg'[p] = slot /\ pcbs'[slot] = q
    BY ZenonT(40), <1>1, <1>2, <1>3, <1>4, <1>5 DEF PInv, TypeOK
  <2>2. \A i \in kids[p] : Owned(p, i)
    BY Zenon DEF OnceInv, OnceOf
  <2>3. (\A i \in kids'[p] : Owned(p, i)') /\ slot \notin kids[p]
    BY Zenon, <1>7, <2>1, <2>2
  <2>4. at'[q] # "remove" /\ q # None
    BY Zenon, <1>2, <1>3, <1>6, Constants
  <2>5. Owned(p, arg[p])'
    <3>1. pcbs'[arg'[p]] = q /\ q \notin deleted'
      BY Zenon, <1>1, <1>6, <2>1
    <3> QED
      BY Zenon, <1>2, <2>4, <3>1 DEF Owned
  <2> QED
    BY Zenon, <2>1, <2>3, <2>5 DEF OnceOf
<1> QED
  BY Zenon, <1>8, <1>9, OnceKept

LEMMA OnceStep ==
  ASSUME PInv, FindsItself, OnceInv, JoinOnce, [Next]_vars
  PROVE  OnceInv'
<1>1. CASE UNCHANGED vars
  <2>1. UNCHANGED << pcbs, pcb, deleted, at, arg, joined, kids >>
    BY Zenon, <1>1 DEF vars
  <2>2. \A c, i : Owned(c, i)' <=> Owned(c, i)
    BY Zenon, <2>1 DEF Owned
  <2>3. ASSUME NEW c \in Process PROVE OnceOf(c)'
    <3>1. OnceOf(c)
      BY Zenon DEF OnceInv
    <3>2. Owned(c, arg[c])' <=> Owned(c, arg[c])
      BY Zenon, <2>1 DEF Owned
    <3> QED
      BY Zenon, <2>1, <2>2, <3>1, <3>2 DEF OnceOf
  <2> QED
    BY Zenon, <2>3 DEF OnceInv
<1>2. ASSUME NEW p \in Process, SystemCall(p) \/ ExecP(p) \/ KernelStep(p)
      PROVE  OnceInv'
  <2>1. \/ Quiet(p) \/ ExecFork(p) \/ JoinRelease(p) \/ ExitWait(p)
        \/ \E f \in Program : ExecAllocate(p, f)
    BY Zenon, <1>2, NextIsQuietOr
  <2> QED
    BY Zenon, <2>1, QuietOnce, ExecForkOnce, JoinReleaseOnce, ExitWaitOnce, ExecAllocateOnce
<1> QED
  BY Zenon, <1>1, <1>2 DEF Next

-----------------------------------------------------------------------------
(* The theorems.                                                           *)

LEMMA AlwaysOnce == Spec /\ []FindsItself => [](JoinOnce => OnceInv)
<1>1. Init => PInv /\ OnceInv
  <2>1. ASSUME Init PROVE OnceInv
    BY Zenon, <2>1 DEF Init, OnceInv, OnceOf, JoinPlace
  <2> QED
    BY Zenon, <2>1, InitInv
<1>2. /\ PInv /\ (JoinOnce => OnceInv) /\ FindsItself
      /\ [Next /\ UNCHANGED client]_<< vars, client >>
      => PInv' /\ (JoinOnce' => OnceInv')
  BY Zenon, NextInv, OnceStep, SpecStep
<1> QED
  BY <1>1, <1>2, PTL DEF Spec

\* Programs that join a pid once for each Exec that returned it: as long as
\* every process in the kernel finds itself, Remove takes no PCB from under a
\* Join (PCB::ExitWait, PCB::ExitRelease).
THEOREM JoinedKeepsPCB == Spec /\ []FindsItself => []OnceNotRemovedUnderJoin
<1>1. OnceInv => NotRemovedUnderJoin
  BY Zenon DEF OnceInv, OnceOf, NotRemovedUnderJoin, Owned, JoinPlace
<1>2. (JoinOnce => OnceInv) => OnceNotRemovedUnderJoin
  BY Zenon, <1>1 DEF OnceNotRemovedUnderJoin
<1> QED
  BY <1>2, AlwaysOnce, PTL

\* The same as long as no Thread is made at an address that a PCB of the table
\* still has.
THEOREM FreshKeepsPCB == Spec /\ [][FreshThreads]_vars => []OnceNotRemovedUnderJoin
<1>1. Spec /\ [][FreshThreads]_vars => []FindsItself
  BY FreshFindsItself, PTL
<1> QED
  BY <1>1, JoinedKeepsPCB, PTL

\* For such programs a Join that is not refused is by the process that called
\* Exec, although the parentID that JoinUpdate compares is a slot number.
THEOREM JoinedByCreatorOnce == Spec /\ JoinOnce /\ []FindsItself => JoinedByCreator
<1>1. JoinOnce /\ [Next /\ UNCHANGED client]_<< vars, client >> => JoinOnce'
  BY Zenon, SpecStep
<1>2. PInv /\ OnceInv /\ FindsItself /\ JoinOnce /\ [Next]_vars => PInv' /\ OnceInv'
  BY Zenon, NextInv, OnceStep
<1>3. ASSUME PInv, OnceInv, FindsItself, JoinOnce, [Next]_vars,
             NEW p \in Process, at[p] = "user", at'[p] = "joinInc"
      PROVE  pcb[pcbs[arg'[p]]].creator = p
  <2>1. PICK r \in Process : SystemCall(r) \/ ExecP(r) \/ KernelStep(r)
    BY Zenon, <1>3 DEF Next, vars
  <2>2. ~ExecFork(r) /\ ~JoinRelease(r) /\ ~ExitWait(r) /\ ~\E f \in Program : ExecAllocate(r, f)
    BY Zenon, <1>3 DEF ExecFork, JoinRelease, ExitWait, ExecAllocate, Go, PInv, TypeOK
  <2>3. Quiet(r)
    BY Zenon, <2>1, <2>2, NextIsQuietOr
  <2>4. OnceInv' /\ PInv' /\ SameFields /\ pcbs' = pcbs
    BY Zenon, <1>2, <1>3, <2>3, QuietFields, QuietMoves DEF Moves
  <2>5. Owned(p, arg[p])'
    BY Zenon, <1>3, <2>4 DEF OnceInv, OnceOf, JoinPlace
  <2>6. pcbs[arg'[p]] \in Process /\ pcb'[pcbs[arg'[p]]].creator = p
    BY Zenon, <2>4, <2>5 DEF Owned, PInv, TypeOK
  <2> QED
    BY Zenon, <2>4, <2>6 DEF SameFields
<1>4. /\ PInv /\ (JoinOnce => OnceInv) /\ FindsItself /\ JoinOnce
      /\ [Next /\ UNCHANGED client]_<< vars, client >>
      => [\A p \in Process : at[p] = "user" /\ at'[p] = "joinInc" =>
                              pcb[pcbs[arg'[p]]].creator = p]_vars
  BY Zenon, <1>3, SpecStep
<1> QED
  BY <1>1, <1>4, AlwaysInv, AlwaysOnce, PTL DEF Spec, JoinedByCreator
=============================================================================
