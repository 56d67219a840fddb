-------------------------- MODULE SemaphoresProofs --------------------------
(***************************************************************************)
(* Proofs about Semaphores.tla, for any finite set of threads, any         *)
(* semaphores and initial values, and any bound MaxValue.                  *)
(*                                                                         *)
(* The invariants of the scheduler and of the semaphores hold each other   *)
(* up: a thread is on a list because of its status, its status says where  *)
(* in the code it can be, and from where it is follows whom the registers  *)
(* belong to.  SInv (types, lists and places) is inductive by itself;      *)
(* Contexts and NoLostWakeup are each inductive relative to it.            *)
(***************************************************************************)
EXTENDS Semaphores, TLAPS, FiniteSetTheorems, SequenceTheorems

\* Where a thread can be with each status, who is in P, and what the running
\* thread can rely on.
Places ==
  /\ \A t \in Thread :
       /\ status[t] = "NONE" => where[t] \in {"code", "Finish"}
       /\ status[t] = "READY" => where[t] \in {"Begin", "Yield", "Sleep"}
       /\ status[t] = "BLOCKED" => where[t] \in {"Sleep", "Finish"}
       /\ status[t] = "RUNNING" => where[t] \in {"code", "Begin", "Yield", "Sleep", "P"}
       /\ where[t] \in {"Sleep", "P"} <=> waitingOn[t] # NoSem
  /\ status[currentThread] # "NONE"
  /\ level = "IntOn" => status[currentThread] = "RUNNING" /\ where[currentThread] = "code"
  /\ toBeDestroyed # NoThread =>
       /\ status[toBeDestroyed] = "BLOCKED"
       /\ where[toBeDestroyed] = "Finish"
       /\ status[currentThread] = "RUNNING"
       /\ where[currentThread] \in {"Begin", "Yield", "Sleep"}

\* Whose user context is in the machine, and whose is saved.
ContextOf(t) ==
  /\ status[t] # "NONE" /\ where[t] = "Begin" => ~space[t]
  /\ space[t] =>
       /\ (t = currentThread /\ where[t] \in {"code", "P"}) \/ InSleep(t)
            => registers = t
       /\ where[t] \in {"Yield", "Sleep"} /\ ~InSleep(t) => userRegisters[t] = t

Contexts == \A t \in Thread : ContextOf(t)

-----------------------------------------------------------------------------
\* List::Append adds one thread and keeps a list without duplicates that way.
LEMMA AppendList ==
  ASSUME NEW list \in Seq(Thread), NEW t \in Thread
  PROVE  /\ Append(list, t) \in Seq(Thread)
         /\ Append(list, t) # << >>
         /\ \A u : InList(u, Append(list, t)) <=> InList(u, list) \/ u = t
         /\ NoDuplicates(list) /\ ~InList(t, list) => NoDuplicates(Append(list, t))
<1>1. /\ Append(list, t) \in Seq(Thread)
      /\ Len(Append(list, t)) = Len(list) + 1
      /\ Append(list, t)[Len(list) + 1] = t
      /\ \A i \in 1 .. Len(list) : Append(list, t)[i] = list[i]
  BY AppendProperties
<1>2. /\ DOMAIN list = 1 .. Len(list)
      /\ DOMAIN Append(list, t) = 1 .. Len(list) + 1
      /\ Len(list) \in Nat
  BY Zenon, <1>1, LenProperties
<1>3. Append(list, t) # << >>
  BY <1>1, <1>2, EmptySeq
<1>4. \A u : InList(u, Append(list, t)) <=> InList(u, list) \/ u = t
  BY <1>1, <1>2 DEF InList
<1>5. NoDuplicates(list) /\ ~InList(t, list) => NoDuplicates(Append(list, t))
  BY <1>1, <1>2 DEF InList, NoDuplicates
<1> QED
  BY Zenon, <1>1, <1>3, <1>4, <1>5

\* List::RemoveFront removes the first thread, and only it.
LEMMA TailList ==
  ASSUME NEW list \in Seq(Thread), list # << >>, NoDuplicates(list)
  PROVE  /\ Head(list) \in Thread
         /\ Tail(list) \in Seq(Thread)
         /\ InList(Head(list), list)
         /\ \A u : InList(u, Tail(list)) <=> InList(u, list) /\ u # Head(list)
         /\ NoDuplicates(Tail(list))
<1>1. /\ Head(list) \in Thread
      /\ Tail(list) \in Seq(Thread)
      /\ Len(Tail(list)) = Len(list) - 1
      /\ \A i \in 1 .. Len(Tail(list)) : Tail(list)[i] = list[i + 1]
  BY Zenon, HeadTailProperties
<1>2. /\ DOMAIN list = 1 .. Len(list)
      /\ DOMAIN Tail(list) = 1 .. Len(list) - 1
      /\ Len(list) \in Nat \ {0}
  BY Zenon, <1>1, LenProperties, EmptySeq
<1>3. Head(list) = list[1]
  OBVIOUS
<1>4. InList(Head(list), list)
  BY <1>2, <1>3 DEF InList
<1>5. ASSUME NEW u
      PROVE  InList(u, Tail(list)) <=> InList(u, list) /\ u # Head(list)
  <2>1. ASSUME InList(u, Tail(list)) PROVE InList(u, list) /\ u # Head(list)
    BY <2>1, <1>1, <1>2, <1>3 DEF InList, NoDuplicates
  <2>2. ASSUME InList(u, list), u # Head(list) PROVE InList(u, Tail(list))
    <3>1. PICK i \in 1 .. Len(list) : list[i] = u
      BY Zenon, <2>2, <1>2 DEF InList
    <3>2. i - 1 \in 1 .. Len(list) - 1 /\ list[(i - 1) + 1] = u
      BY <3>1, <2>2, <1>2, <1>3
    <3> QED
      BY <3>2, <1>1, <1>2, Zenon DEF InList
  <2> QED
    BY Zenon, <2>1, <2>2
<1>6. NoDuplicates(Tail(list))
  BY <1>1, <1>2 DEF NoDuplicates
<1> QED
  BY Zenon, <1>1, <1>4, <1>5, <1>6

-----------------------------------------------------------------------------
LEMMA InitTypeOK == Init => TypeOK
  BY ThreadAssumption, SemaphoreAssumption, EmptySeq
  DEF Init, ThreadInit, TypeOK, ThreadStatus, Place

LEMMA PLoopTypeOK ==
  ASSUME TypeOK, NEW t \in Thread, NEW s \in Semaphore \cup {NoSem}, PLoop(t, s)
  PROVE  TypeOK'
<1>1. value' \in [Semaphore -> Nat]
  <2>1. s \in Semaphore /\ value[s] # 0 => value[s] - 1 \in Nat
    BY DEF TypeOK
  <2> QED
    BY <2>1, Zenon DEF PLoop, TypeOK
<1>2. queue' \in [Semaphore -> Seq(Thread)]
  <2>1. s \in Semaphore => Append(queue[s], t) \in Seq(Thread)
    BY Zenon, AppendList DEF TypeOK
  <2> QED
    BY <2>1, ZenonT(40) DEF PLoop, TypeOK
<1>3. status' \in [Thread -> ThreadStatus]
  BY Zenon DEF PLoop, TypeOK, ThreadStatus
<1>4. where' \in [Thread -> Place]
  BY Zenon DEF PLoop, TypeOK, Place
<1>5. waitingOn' \in [Thread -> Semaphore \cup {NoSem}] /\ level' \in {"IntOn", "IntOff"}
  BY ZenonT(40) DEF PLoop, TypeOK
<1> QED
  BY Zenon, <1>1, <1>2, <1>3, <1>4, <1>5 DEF PLoop, TypeOK

LEMMA SignalTypeOK ==
  ASSUME TypeOK, NEW s \in Semaphore, Signal(s)
  PROVE  TypeOK'
<1>1. value' \in [Semaphore -> Nat]
  BY DEF Signal, TypeOK
<1>2. CASE queue[s] = << >>
  BY Zenon, <1>1, <1>2 DEF Signal, TypeOK
<1>3. CASE queue[s] # << >>
  <2>1. /\ Head(queue[s]) \in Thread
        /\ Tail(queue[s]) \in Seq(Thread)
    BY Zenon, <1>3, HeadTailProperties DEF TypeOK
  <2>2. Append(readyList, Head(queue[s])) \in Seq(Thread)
    BY Zenon, <2>1, AppendList DEF TypeOK
  <2> QED
    BY <1>1, <1>3, <2>1, <2>2, Zenon
    DEF Signal, ReadyStatus, ReadyList, TypeOK, ThreadStatus
<1> QED
  BY Zenon, <1>2, <1>3

LEMMA ThreadStepTypeOK ==
  ASSUME TypeOK, NEW t \in Thread, ThreadStep(t)
  PROVE  TypeOK'
<1> USE DEF ThreadStep, semVars, TypeOK, ThreadStatus, Place
<1>1. ASSUME NEW u \in Thread, Fork(t, u) PROVE TypeOK'
  <2>1. Append(readyList, u) \in Seq(Thread)
    BY Zenon, AppendList
  <2> QED
    BY Zenon, <1>1, <2>1, ThreadAssumption DEF Fork, ReadyStatus, ReadyList
<1>2. CASE Execute(t)
  BY Zenon, <1>2 DEF Execute
<1>3. CASE Yield(t)
  <2>1. Head(readyList) \in Thread /\ Tail(readyList) \in Seq(Thread)
    BY Zenon, <1>3, HeadTailProperties DEF Yield
  <2>2. Append(Tail(readyList), t) \in Seq(Thread)
    BY Zenon, <2>1, AppendList
  <2> QED
    BY Zenon, <1>3, <2>1, <2>2 DEF Yield, Run
<1>4. CASE Finish(t)
  BY Zenon, <1>4 DEF Finish
<1>5. CASE Dispatch(t)
  <2>1. Head(readyList) \in Thread /\ Tail(readyList) \in Seq(Thread)
    BY Zenon, <1>5, HeadTailProperties DEF Dispatch
  <2> QED
    BY Zenon, <1>5, <2>1 DEF Dispatch, Run
<1>6. CASE AfterSwitch(t)
  BY Zenon, <1>6 DEF AfterSwitch
<1> QED
  BY Zenon, <1>1, <1>2, <1>3, <1>4, <1>5, <1>6

LEMMA NextTypeOK == TypeOK /\ [Next]_vars => TypeOK'
<1> SUFFICES ASSUME TypeOK, [Next]_vars PROVE TypeOK'
  BY Zenon
<1>1. ASSUME NEW t \in Thread, ThreadStep(t) PROVE TypeOK'
  BY Zenon, <1>1, ThreadStepTypeOK
<1>2. ASSUME NEW t \in Thread, SemaphoreStep(t) PROVE TypeOK'
  <2>1. waitingOn[t] \in Semaphore \cup {NoSem}
    BY Zenon DEF TypeOK
  <2> QED
    BY Zenon, <1>2, <2>1, PLoopTypeOK, SignalTypeOK DEF SemaphoreStep, P, PAgain, V
<1>3. ASSUME NEW s \in Device, HandlerV(s) PROVE TypeOK'
  BY Zenon, <1>3, SignalTypeOK, SemaphoreAssumption DEF HandlerV
<1>4. CASE IdleTick \/ UNCHANGED vars
  BY Zenon, <1>4 DEF IdleTick, vars, threadVars, semVars, TypeOK
<1> QED
  BY Zenon, <1>1, <1>2, <1>3, <1>4 DEF Next

\* Every variable keeps its type; in particular value never becomes negative,
\* whatever P, V and interrupts do ("always >= 0", threads/synch.h).
THEOREM TypeCorrect == Spec => []TypeOK
  BY InitTypeOK, NextTypeOK, PTL DEF Spec

-----------------------------------------------------------------------------
\* The part of IInv about lists and places.  It does not need the rest.
SInv == TypeOK /\ ListsMatchStatus /\ Places

LEMMA InitSInv == Init => SInv
<1> SUFFICES ASSUME Init PROVE SInv
  BY Zenon
<1>1. \A u : ~InList(u, << >>)
  BY DEF InList
<1>2. NoDuplicates(<< >>)
  BY DEF NoDuplicates
<1>3. ListsMatchStatus
  BY Zenon, <1>1, <1>2 DEF Init, ThreadInit, ListsMatchStatus
<1>4. Places
  BY Zenon, ThreadAssumption DEF Init, ThreadInit, Places
<1> QED
  BY Zenon, <1>3, <1>4, InitTypeOK DEF SInv

LEMMA ForkSInv ==
  ASSUME SInv, TypeOK', NEW t \in Thread, NEW u \in Thread,
         Fork(t, u), UNCHANGED semVars
  PROVE  SInv'
<1> USE DEF SInv, TypeOK, ThreadStatus, Fork, Runs, ReadyStatus, ReadyList, semVars
<1>1. ~InList(u, readyList) /\ \A s \in Semaphore : ~InList(u, queue[s])
  BY Zenon DEF ListsMatchStatus
<1>2. /\ NoDuplicates(readyList')
      /\ \A v : InList(v, readyList') <=> InList(v, readyList) \/ v = u
  BY Zenon, <1>1, AppendList DEF ListsMatchStatus
<1>3. ListsMatchStatus'
  BY <1>1, <1>2, SMTT(30) DEF ListsMatchStatus
<1>4. Places'
  BY ThreadAssumption, ZenonT(40) DEF Places
<1> QED
  BY Zenon, <1>3, <1>4

LEMMA ExecuteSInv ==
  ASSUME SInv, TypeOK', NEW t \in Thread, Execute(t), UNCHANGED semVars
  PROVE  SInv'
  BY Zenon DEF SInv, Execute, semVars, ListsMatchStatus, Places

LEMMA YieldSInv ==
  ASSUME SInv, TypeOK', NEW t \in Thread, Yield(t), UNCHANGED semVars
  PROVE  SInv'
<1> USE DEF SInv, TypeOK, ThreadStatus, Yield, Runs, Run, semVars
<1> DEFINE h == Head(readyList)
           rest == Tail(readyList)
<1>1. /\ h \in Thread /\ rest \in Seq(Thread)
      /\ InList(h, readyList)
      /\ \A v : InList(v, rest) <=> InList(v, readyList) /\ v # h
      /\ NoDuplicates(rest)
  BY Zenon, TailList DEF ListsMatchStatus
<1>2. status[t] = "RUNNING" /\ where[t] = "code" /\ status[h] = "READY" /\ h # t
  BY Zenon, <1>1 DEF ListsMatchStatus, Places
<1>3. ~InList(t, rest)
  BY Zenon, <1>1, <1>2 DEF ListsMatchStatus
<1>4. /\ NoDuplicates(readyList')
      /\ \A v : InList(v, readyList') <=> (InList(v, readyList) /\ v # h) \/ v = t
  BY <1>1, <1>3, AppendList, ZenonT(40)
<1>5. ListsMatchStatus'
  BY <1>1, <1>2, <1>4, SMTT(30) DEF ListsMatchStatus
<1>6. Places'
  BY <1>1, <1>2, ThreadAssumption, SMTT(30) DEF Places
<1> QED
  BY Zenon, <1>5, <1>6

LEMMA FinishSInv ==
  ASSUME SInv, TypeOK', NEW t \in Thread, Finish(t), UNCHANGED semVars
  PROVE  SInv'
<1> USE DEF SInv, TypeOK, ThreadStatus, Finish, Runs, semVars
<1>1. status[t] = "RUNNING" /\ where[t] = "code"
  BY Zenon DEF Places
<1>2. ListsMatchStatus'
  BY <1>1 DEF ListsMatchStatus
<1>3. Places'
  BY <1>1, ThreadAssumption, SMTT(30) DEF Places
<1> QED
  BY Zenon, <1>2, <1>3

LEMMA DispatchSInv ==
  ASSUME SInv, TypeOK', NEW t \in Thread, Dispatch(t), UNCHANGED semVars
  PROVE  SInv'
<1> USE DEF SInv, TypeOK, ThreadStatus, Dispatch, InSleep, Run, semVars
<1> DEFINE h == Head(readyList)
<1>1. /\ h \in Thread
      /\ InList(h, readyList)
      /\ \A v : InList(v, readyList') <=> InList(v, readyList) /\ v # h
      /\ NoDuplicates(readyList')
  BY Zenon, TailList DEF ListsMatchStatus
<1>2. status[h] = "READY" /\ where[h] \in {"Begin", "Yield", "Sleep"}
  BY Zenon, <1>1 DEF ListsMatchStatus, Places
<1>3. \A v \in Thread : status[v] # "RUNNING"
  BY Zenon DEF ListsMatchStatus
<1>4. ListsMatchStatus'
  BY <1>1, <1>2, <1>3, SMTT(30) DEF ListsMatchStatus
<1>5. Places'
  <2>1. toBeDestroyed = NoThread
    BY Zenon DEF Places
  <2>2. level = "IntOff"
    BY Zenon DEF Places
  <2>3. where[t] = "Finish" => status[t] = "BLOCKED"
    BY Zenon DEF Places
  <2> QED
    BY SMTT(30), <1>1, <1>2, <2>1, <2>2, <2>3, ThreadAssumption DEF Places
<1> QED
  BY Zenon, <1>4, <1>5

LEMMA AfterSwitchSInv ==
  ASSUME SInv, TypeOK', NEW t \in Thread, AfterSwitch(t), UNCHANGED semVars
  PROVE  SInv'
<1> USE DEF SInv, TypeOK, ThreadStatus, AfterSwitch, semVars
<1>1. ListsMatchStatus'
  BY ThreadAssumption, SMTT(30) DEF ListsMatchStatus, Places
<1>2. Places'
  BY ThreadAssumption, SMTT(30) DEF Places
<1> QED
  BY Zenon, <1>1, <1>2

LEMMA PLoopSInv ==
  ASSUME SInv, TypeOK', NEW t \in Thread, NEW s \in Semaphore,
         t = currentThread, status[t] = "RUNNING", where[t] \in {"code", "P"},
         PLoop(t, s)
  PROVE  SInv'
<1>0. /\ status \in [Thread -> ThreadStatus] /\ where \in [Thread -> Place]
      /\ waitingOn \in [Thread -> Semaphore \cup {NoSem}]
      /\ queue \in [Semaphore -> Seq(Thread)]
      /\ ListsMatchStatus /\ Places
  BY Zenon DEF SInv, TypeOK
<1>1. UNCHANGED << currentThread, readyList, toBeDestroyed >>
  BY Zenon DEF PLoop
<1>2. toBeDestroyed # t
  BY Zenon, <1>0, ThreadAssumption DEF Places
<1>3. ~InList(t, readyList) /\ \A r \in Semaphore : ~InList(t, queue[r])
  BY Zenon, <1>0 DEF ListsMatchStatus
<1>4. CASE value[s] # 0
  <2>1. /\ status' = status /\ queue' = queue /\ level' = "IntOn"
        /\ where'[t] = "code" /\ waitingOn'[t] = NoSem
        /\ \A v \in Thread : v # t => where'[v] = where[v] /\ waitingOn'[v] = waitingOn[v]
    BY Zenon, <1>0, <1>4 DEF PLoop
  <2>2. ListsMatchStatus'
    BY <1>0, <1>1, <1>3, <2>1 DEF ListsMatchStatus
  <2>3. toBeDestroyed = NoThread
    <3>1. toBeDestroyed # NoThread => where[t] \in {"Begin", "Yield", "Sleep"}
      BY Zenon, <1>0 DEF Places
    <3> QED
      BY Zenon, <3>1
  <2>4. Places'
    BY <1>0, <1>1, <2>1, <2>3 DEF Places
  <2> QED
    BY Zenon, <2>2, <2>4 DEF SInv
<1>5. CASE value[s] = 0
  <2>1. /\ queue' = [queue EXCEPT ![s] = Append(queue[s], t)]
        /\ level' = "IntOff"
        /\ status'[t] = "BLOCKED" /\ where'[t] = "Sleep" /\ waitingOn'[t] = s
        /\ \A v \in Thread : v # t => /\ status'[v] = status[v]
                                      /\ where'[v] = where[v]
                                      /\ waitingOn'[v] = waitingOn[v]
    BY Zenon, <1>0, <1>5 DEF PLoop
  <2>2. /\ NoDuplicates(Append(queue[s], t))
        /\ \A v : InList(v, Append(queue[s], t)) <=> InList(v, queue[s]) \/ v = t
    BY Zenon, <1>0, <1>3, AppendList DEF ListsMatchStatus
  <2>3. queue'[s] = Append(queue[s], t) /\ \A r \in Semaphore : r # s => queue'[r] = queue[r]
    BY Zenon, <1>0, <2>1
  <2>4. \A r \in Semaphore : NoDuplicates(queue'[r])
    BY Zenon, <1>0, <2>2, <2>3 DEF ListsMatchStatus
  <2>5. ASSUME NEW v \in Thread, NEW r \in Semaphore
        PROVE  InList(v, queue'[r]) <=> /\ status'[v] = "BLOCKED"
                                        /\ where'[v] = "Sleep"
                                        /\ waitingOn'[v] = r
    <3>1. InList(v, queue'[r]) <=> InList(v, queue[r]) \/ (v = t /\ r = s)
      BY Zenon, <2>2, <2>3
    <3>2. CASE v = t
      BY Zenon, <1>3, <2>1, <3>1, <3>2
    <3>3. CASE v # t
      BY <1>0, <2>1, <3>1, <3>3 DEF ListsMatchStatus
    <3> QED
      BY Zenon, <3>2, <3>3
  <2>6. \A v \in Thread : /\ status'[v] = "RUNNING" => v = currentThread'
                          /\ status'[v] = "READY" <=> InList(v, readyList')
    BY Zenon, <1>0, <1>1, <1>3, <2>1 DEF ListsMatchStatus
  <2>7. ListsMatchStatus'
    BY Zenon, <1>0, <1>1, <2>4, <2>5, <2>6 DEF ListsMatchStatus
  <2>8. toBeDestroyed = NoThread
    <3>1. toBeDestroyed # NoThread => where[t] \in {"Begin", "Yield", "Sleep"}
      BY Zenon, <1>0 DEF Places
    <3> QED
      BY Zenon, <3>1
  <2>9. Places'
    BY ZenonT(40), <1>0, <1>1, <2>1, <2>8, SemaphoreAssumption DEF Places
  <2> QED
    BY Zenon, <2>7, <2>9 DEF SInv
<1> QED
  BY Zenon, <1>4, <1>5

LEMMA SignalSInv ==
  ASSUME SInv, TypeOK', NEW s \in Semaphore, Signal(s)
  PROVE  SInv'
<1>0. /\ status \in [Thread -> ThreadStatus]
      /\ queue \in [Semaphore -> Seq(Thread)] /\ readyList \in Seq(Thread)
      /\ toBeDestroyed \in Thread \cup {NoThread} /\ currentThread \in Thread
      /\ ListsMatchStatus /\ Places
  BY Zenon DEF SInv, TypeOK
<1>1. UNCHANGED << currentThread, where, waitingOn, toBeDestroyed, level >>
  BY Zenon DEF Signal
<1>2. CASE queue[s] = << >>
  <2>1. UNCHANGED << status, readyList, queue >>
    BY Zenon, <1>2 DEF Signal
  <2>2. ListsMatchStatus'
    BY Zenon, <1>0, <1>1, <2>1 DEF ListsMatchStatus
  <2>3. Places'
    BY Zenon, <1>0, <1>1, <2>1 DEF Places
  <2> QED
    BY Zenon, <2>2, <2>3 DEF SInv
<1>3. CASE queue[s] # << >>
  <2> DEFINE h == Head(queue[s])
  <2>1. /\ h \in Thread
        /\ InList(h, queue[s])
        /\ \A v : InList(v, Tail(queue[s])) <=> InList(v, queue[s]) /\ v # h
        /\ NoDuplicates(Tail(queue[s]))
    BY Zenon, <1>0, <1>3, TailList DEF ListsMatchStatus
  <2>2. /\ status[h] = "BLOCKED" /\ where[h] = "Sleep" /\ waitingOn[h] = s
        /\ ~InList(h, readyList)
    BY Zenon, <1>0, <2>1 DEF ListsMatchStatus
  <2>3. /\ status' = [status EXCEPT ![h] = "READY"]
        /\ readyList' = Append(readyList, h)
        /\ queue' = [queue EXCEPT ![s] = Tail(queue[s])]
    BY Zenon, <1>3 DEF Signal, ReadyStatus, ReadyList
  <2>4. /\ status'[h] = "READY" /\ queue'[s] = Tail(queue[s])
        /\ \A v \in Thread : v # h => status'[v] = status[v]
        /\ \A r \in Semaphore : r # s => queue'[r] = queue[r]
    BY Zenon, <1>0, <2>1, <2>3
  <2>5. /\ NoDuplicates(readyList')
        /\ \A v : InList(v, readyList') <=> InList(v, readyList) \/ v = h
    <3>1. NoDuplicates(readyList)
      BY Zenon, <1>0 DEF ListsMatchStatus
    <3> QED
      BY Zenon, <1>0, <2>1, <2>2, <2>3, <3>1, AppendList
  <2>6. \A r \in Semaphore : NoDuplicates(queue'[r])
    BY Zenon, <1>0, <2>1, <2>4 DEF ListsMatchStatus
  <2>7. ASSUME NEW v \in Thread, NEW r \in Semaphore
        PROVE  InList(v, queue'[r]) <=> /\ status'[v] = "BLOCKED"
                                        /\ where'[v] = "Sleep"
                                        /\ waitingOn'[v] = r
    <3>1. InList(v, queue'[r]) <=> InList(v, queue[r]) /\ (r = s => v # h)
      BY Zenon, <2>1, <2>4
    <3>2. InList(v, queue[r]) <=> /\ status[v] = "BLOCKED" /\ where[v] = "Sleep"
                                  /\ waitingOn[v] = r
      BY Zenon, <1>0 DEF ListsMatchStatus
    <3> QED
      BY ZenonT(40), <1>1, <2>2, <2>4, <3>1, <3>2
  <2>8. \A v \in Thread : /\ status'[v] = "RUNNING" => v = currentThread'
                          /\ status'[v] = "READY" <=> InList(v, readyList')
    BY <1>0, <1>1, <2>2, <2>4, <2>5 DEF ListsMatchStatus
  <2>9. ListsMatchStatus'
    BY Zenon, <1>1, <2>5, <2>6, <2>7, <2>8 DEF ListsMatchStatus
  <2>10. Places'
    BY ZenonT(40), <1>0, <1>1, <2>1, <2>2, <2>4 DEF Places
  <2> QED
    BY Zenon, <2>9, <2>10 DEF SInv
<1> QED
  BY Zenon, <1>2, <1>3

\* The thread that P is called by, or that returns to P from Sleep.
LEMMA InP ==
  ASSUME SInv, NEW t \in Thread, t = currentThread
  PROVE  /\ Runs(t) => status[t] = "RUNNING" /\ where[t] = "code"
         /\ where[t] = "P" => status[t] = "RUNNING" /\ waitingOn[t] \in Semaphore
  BY Zenon DEF SInv, TypeOK, ThreadStatus, Places, Runs

LEMMA NextSInv == SInv /\ [Next]_vars => SInv'
<1> SUFFICES ASSUME SInv, [Next]_vars PROVE SInv'
  BY Zenon
<1>1. TypeOK /\ TypeOK'
  BY Zenon, NextTypeOK DEF SInv
<1>2. ASSUME NEW t \in Thread, ThreadStep(t) PROVE SInv'
  BY ZenonT(40), <1>1, <1>2, ForkSInv, ExecuteSInv, YieldSInv, FinishSInv, DispatchSInv,
     AfterSwitchSInv DEF ThreadStep
<1>3. ASSUME NEW t \in Thread, NEW s \in Semaphore, P(t, s) PROVE SInv'
  BY Zenon, <1>1, <1>3, InP, PLoopSInv DEF P, Runs
<1>4. ASSUME NEW t \in Thread, PAgain(t) PROVE SInv'
  BY Zenon, <1>1, <1>4, InP, PLoopSInv DEF PAgain
<1>5. ASSUME NEW s \in Semaphore, Signal(s) PROVE SInv'
  BY Zenon, <1>1, <1>5, SignalSInv
<1>6. CASE IdleTick \/ UNCHANGED vars
  <2>1. UNCHANGED vars
    BY Zenon, <1>6 DEF IdleTick
  <2> QED
    BY Zenon, <1>1, <2>1 DEF vars, threadVars, semVars, SInv, ListsMatchStatus, Places
<1> QED
  BY Zenon, <1>2, <1>3, <1>4, <1>5, <1>6, SemaphoreAssumption
  DEF Next, SemaphoreStep, V, HandlerV

LEMMA AlwaysSInv == Spec => []SInv
  BY InitSInv, NextSInv, PTL DEF Spec

\* Every thread is on exactly the list its status says, once, whatever the
\* interleaving of calls, preemptions and interrupts.
THEOREM ListsCorrect == Spec => []ListsMatchStatus
<1>1. SInv => ListsMatchStatus
  BY Zenon DEF SInv
<1> QED
  BY <1>1, AlwaysSInv, PTL

\* A finished thread is deleted by another thread, off every list, and before
\* the next one finishes: the two ASSERTs of Scheduler::Run and ~Thread hold.
THEOREM DestructionSafe == Spec => []DestroySafely
<1>1. SInv => DestroySafely
  <2> SUFFICES ASSUME SInv PROVE DestroySafely
    BY Zenon
  <2>1. InSleep(currentThread) => toBeDestroyed = NoThread
    BY Zenon DEF SInv, Places, InSleep
  <2>2. ASSUME toBeDestroyed # NoThread
        PROVE  /\ toBeDestroyed \in Thread
               /\ status[toBeDestroyed] = "BLOCKED"
               /\ where[toBeDestroyed] = "Finish"
               /\ status[currentThread] = "RUNNING"
               /\ where[currentThread] \in {"Begin", "Yield", "Sleep"}
    BY Zenon, <2>2 DEF SInv, TypeOK, Places
  <2>3. toBeDestroyed # NoThread =>
          /\ ~InList(toBeDestroyed, readyList)
          /\ \A s \in Semaphore : ~InList(toBeDestroyed, queue[s])
    BY Zenon, <2>2 DEF SInv, ListsMatchStatus
  <2> QED
    BY Zenon, <2>1, <2>2, <2>3 DEF DestroySafely
<1> QED
  BY <1>1, AlwaysSInv, PTL

-----------------------------------------------------------------------------
\* User contexts: SInv says where a thread is, Contexts whose registers are
\* then in the machine and in its Thread.
LEMMA InitContexts == Init => Contexts
  BY Zenon DEF Init, ThreadInit, Contexts, ContextOf

\* A thread's context depends only on its own entries, on whether it is the
\* current thread, and then on the machine's registers.
LEMMA OtherContext ==
  ASSUME NEW u \in Thread, ContextOf(u), u # currentThread, u # currentThread',
         status'[u] \in {status[u], "NONE"}, where'[u] = where[u],
         space'[u] = space[u], userRegisters'[u] = userRegisters[u]
  PROVE  ContextOf(u)'
  BY Zenon DEF ContextOf, InSleep

\* Scheduler::Run from t, which holds the machine's registers if it has any, to
\* h, which is READY and saved its own when it gave the processor up.
LEMMA RunContexts ==
  ASSUME SInv, Contexts, NEW t \in Thread, NEW h \in Thread, NEW finishing,
         t = currentThread, status[h] = "READY", Run(t, h, finishing),
         where[t] \in {"code", "Sleep", "Finish"},
         where[t] = "code" \/ status[t] # "RUNNING",
         where'[h] = where[h], status'[h] = "RUNNING",
         where'[t] \in {"Yield", "Sleep", "Finish"},
         \A u \in Thread \ {t, h} : status'[u] = status[u] /\ where'[u] = where[u]
  PROVE  Contexts'
<1>1. space[t] => registers = t
  BY Zenon DEF Contexts, ContextOf, InSleep
<1>2. where[h] \in {"Begin", "Yield", "Sleep"}
  BY Zenon DEF SInv, Places
<1>3. /\ currentThread' = h /\ space' = space
      /\ space[t] => userRegisters'[t] = t
      /\ \A u \in Thread : u # t => userRegisters'[u] = userRegisters[u]
  BY Zenon, <1>1 DEF Run, SInv, TypeOK
<1>4. ContextOf(h)'
  <2>1. h # t => ~InSleep(h)
    BY Zenon DEF InSleep
  <2>2. space[h] => userRegisters'[h] = h
    BY Zenon, <1>2, <1>3, <2>1 DEF Contexts, ContextOf
  <2>3. where[h] = "Begin" => ~space[h]
    BY Zenon DEF Contexts, ContextOf
  <2> QED
    BY Zenon, <1>2, <1>3, <2>2, <2>3 DEF ContextOf, InSleep
<1>5. h # t => ContextOf(t)'
  BY Zenon, <1>3 DEF ContextOf, InSleep
<1>6. ASSUME NEW u \in Thread \ {t, h} PROVE ContextOf(u)'
  BY Zenon, <1>3, <1>6, OtherContext DEF Contexts
<1> QED
  BY Zenon, <1>4, <1>5, <1>6 DEF Contexts

LEMMA ForkContexts ==
  ASSUME SInv, Contexts, NEW t \in Thread, NEW u \in Thread, Fork(t, u)
  PROVE  Contexts'
<1>1. t = currentThread /\ status[t] = "RUNNING" /\ u # t
  BY Zenon DEF Fork, Runs, SInv, Places
<1>2. ContextOf(u)'
  BY Zenon DEF Fork, ReadyStatus, SInv, TypeOK, ContextOf
<1>3. ASSUME NEW v \in Thread, v # u PROVE ContextOf(v)'
  <2>1. /\ status'[v] = status[v] /\ where'[v] = where[v] /\ space'[v] = space[v]
        /\ userRegisters'[v] = userRegisters[v]
        /\ currentThread' = currentThread /\ registers' = registers
    BY Zenon, <1>3 DEF Fork, ReadyStatus, SInv, TypeOK
  <2> QED
    BY Zenon, <2>1 DEF Contexts, ContextOf, InSleep
<1> QED
  BY Zenon, <1>2, <1>3 DEF Contexts

LEMMA ExecuteContexts ==
  ASSUME SInv, Contexts, NEW t \in Thread, Execute(t)
  PROVE  Contexts'
<1>1. t = currentThread /\ status[t] = "RUNNING" /\ where[t] = "code"
  BY Zenon DEF Execute, Runs, SInv, Places
<1>2. ContextOf(t)'
  BY Zenon, <1>1 DEF Execute, ContextOf, InSleep
<1>3. ASSUME NEW u \in Thread, u # t PROVE ContextOf(u)'
  BY Zenon, <1>1, <1>3, OtherContext DEF Execute, SInv, TypeOK, Contexts
<1> QED
  BY Zenon, <1>2, <1>3 DEF Contexts

LEMMA YieldContexts ==
  ASSUME SInv, Contexts, NEW t \in Thread, Yield(t)
  PROVE  Contexts'
<1> DEFINE h == Head(readyList)
<1>1. t = currentThread /\ status[t] = "RUNNING" /\ where[t] = "code"
  BY Zenon DEF Yield, Runs, SInv, Places
<1>2. h \in Thread /\ status[h] = "READY"
  BY Zenon, TailList DEF Yield, SInv, TypeOK, ListsMatchStatus
<1>3. /\ where'[h] = where[h] /\ status'[h] = "RUNNING" /\ where'[t] = "Yield"
      /\ \A u \in Thread \ {t, h} : status'[u] = status[u] /\ where'[u] = where[u]
  BY Zenon, <1>1, <1>2 DEF Yield, SInv, TypeOK
<1> QED
  BY Zenon, <1>1, <1>2, <1>3, RunContexts DEF Yield

LEMMA DispatchContexts ==
  ASSUME SInv, Contexts, NEW t \in Thread, Dispatch(t)
  PROVE  Contexts'
<1> DEFINE h == Head(readyList)
<1>1. t = currentThread /\ status[t] # "RUNNING" /\ where[t] \in {"Sleep", "Finish"}
  BY Zenon DEF Dispatch, InSleep
<1>2. h \in Thread /\ status[h] = "READY"
  BY Zenon, TailList DEF Dispatch, SInv, TypeOK, ListsMatchStatus
<1>3. /\ where' = where /\ status'[h] = "RUNNING"
      /\ \A u \in Thread \ {t, h} : status'[u] = status[u]
  BY Zenon, <1>2 DEF Dispatch, SInv, TypeOK
<1> QED
  BY Zenon, <1>1, <1>2, <1>3, RunContexts DEF Dispatch

LEMMA FinishContexts ==
  ASSUME SInv, Contexts, NEW t \in Thread, Finish(t)
  PROVE  Contexts'
<1>1. t = currentThread /\ status[t] = "RUNNING" /\ where[t] = "code"
  BY Zenon DEF Finish, Runs, SInv, Places
<1>2. where'[t] = "Finish" /\ space' = space /\ registers' = registers
  BY Zenon DEF Finish, SInv, TypeOK
<1>3. ContextOf(t)'
  BY Zenon, <1>1, <1>2 DEF Contexts, ContextOf
<1>4. ASSUME NEW u \in Thread, u # t PROVE ContextOf(u)'
  BY Zenon, <1>1, <1>4, OtherContext DEF Finish, SInv, TypeOK, Contexts
<1> QED
  BY Zenon, <1>3, <1>4 DEF Contexts

LEMMA AfterSwitchContexts ==
  ASSUME SInv, Contexts, NEW t \in Thread, AfterSwitch(t)
  PROVE  Contexts'
<1>1. /\ t = currentThread /\ currentThread' = t /\ status[t] = "RUNNING"
      /\ where[t] \in {"Begin", "Yield", "Sleep"}
      /\ space' = space /\ userRegisters' = userRegisters
      /\ registers' = IF space[t] /\ where[t] # "Begin" THEN userRegisters[t]
                                                        ELSE registers
  BY Zenon DEF AfterSwitch
<1>2. where'[t] \in {"code", "P"} /\ \A u \in Thread : u # t => where'[u] = where[u]
  BY Zenon DEF AfterSwitch, SInv, TypeOK
<1>3. \A u \in Thread : status'[u] \in {status[u], "NONE"}
  BY Zenon DEF AfterSwitch, SInv, TypeOK
<1>4. status'[t] = "RUNNING"
  <2>1. toBeDestroyed # t
    BY Zenon, <1>1, ThreadAssumption DEF SInv, Places
  <2> QED
    BY Zenon, <1>1, <2>1 DEF AfterSwitch, SInv, TypeOK
<1>5. space[t] => registers' = t
  BY Zenon, <1>1 DEF Contexts, ContextOf, InSleep
<1>6. ContextOf(t)'
  BY Zenon, <1>1, <1>2, <1>4, <1>5 DEF ContextOf, InSleep
<1>7. ASSUME NEW u \in Thread, u # t PROVE ContextOf(u)'
  BY Zenon, <1>1, <1>2, <1>3, <1>7, OtherContext DEF Contexts
<1> QED
  BY Zenon, <1>6, <1>7 DEF Contexts

LEMMA PLoopContexts ==
  ASSUME SInv, Contexts, NEW t \in Thread, NEW s \in Semaphore,
         t = currentThread, status[t] = "RUNNING", where[t] \in {"code", "P"},
         PLoop(t, s)
  PROVE  Contexts'
<1> USE DEF SInv, TypeOK, ThreadStatus, Contexts, ContextOf, InSleep
<1>1. CASE value[s] # 0
  BY <1>1, SMTT(30) DEF PLoop
<1>2. CASE value[s] = 0
  BY <1>2, SMTT(30) DEF PLoop
<1> QED
  BY Zenon, <1>1, <1>2

\* Waking a thread moves no context: a thread that idles in Sleep stays there
\* when an interrupt handler makes it READY.
LEMMA SignalContexts ==
  ASSUME SInv, Contexts, NEW s \in Semaphore, Signal(s)
  PROVE  Contexts'
<1> USE DEF SInv, TypeOK, ThreadStatus, Contexts, ContextOf, InSleep
<1>1. CASE queue[s] = << >>
  BY Zenon, <1>1 DEF Signal
<1>2. CASE queue[s] # << >>
  <2>1. Head(queue[s]) \in Thread /\ status[Head(queue[s])] = "BLOCKED"
    BY <1>2, TailList DEF ListsMatchStatus
  <2>2. where[Head(queue[s])] \in {"Sleep", "Finish"}
    BY Zenon, <2>1 DEF Places
  <2> QED
    BY <1>2, <2>1, <2>2, SMTT(30) DEF Signal, ReadyStatus
<1> QED
  BY Zenon, <1>1, <1>2

LEMMA NextContexts == SInv /\ Contexts /\ [Next]_vars => Contexts'
<1> SUFFICES ASSUME SInv, Contexts, [Next]_vars PROVE Contexts'
  BY Zenon
<1>1. ASSUME NEW t \in Thread, ThreadStep(t) PROVE Contexts'
  BY ZenonT(40), <1>1, ForkContexts, ExecuteContexts, YieldContexts, FinishContexts,
     DispatchContexts, AfterSwitchContexts DEF ThreadStep
<1>2. ASSUME NEW t \in Thread, NEW s \in Semaphore, P(t, s) PROVE Contexts'
  BY Zenon, <1>2, InP, PLoopContexts DEF P, Runs
<1>3. ASSUME NEW t \in Thread, PAgain(t) PROVE Contexts'
  BY Zenon, <1>3, InP, PLoopContexts DEF PAgain
<1>4. ASSUME NEW s \in Semaphore, Signal(s) PROVE Contexts'
  BY Zenon, <1>4, SignalContexts
<1>5. CASE IdleTick \/ UNCHANGED vars
  <2>1. UNCHANGED vars
    BY Zenon, <1>5 DEF IdleTick
  <2> QED
    BY Zenon, <2>1 DEF vars, threadVars, Contexts, ContextOf, InSleep
<1> QED
  BY Zenon, <1>1, <1>2, <1>3, <1>4, <1>5, SemaphoreAssumption
  DEF Next, SemaphoreStep, V, HandlerV

\* A program always finds its own registers and page table in the machine,
\* however often and to whichever threads the processor was given meanwhile.
THEOREM ContextsIntact == Spec => []UserContextIntact
<1>1. SInv /\ Contexts => UserContextIntact
  BY Zenon DEF SInv, Contexts, ContextOf, Places, UserContextIntact, Runs
<1> QED
  BY <1>1, InitSInv, NextSInv, InitContexts, NextContexts, PTL DEF Spec

-----------------------------------------------------------------------------
\* No wakeup is lost.
LEMMA WokenFinite == \A s : IsFiniteSet(Woken(s)) /\ Cardinality(Woken(s)) \in Nat
<1>1. \A s : Woken(s) \subseteq Thread
  BY Zenon DEF Woken
<1> QED
  BY Zenon, <1>1, ThreadAssumption, FS_Subset, FS_CardinalityType

LEMMA InitNoLostWakeup == Init => NoLostWakeup
  BY Zenon DEF Init, NoLostWakeup

\* The scheduler moves threads between READY and RUNNING and creates and ends
\* only threads that are not in P.
LEMMA ThreadStepWoken ==
  ASSUME SInv, NEW t \in Thread, ThreadStep(t), NEW s \in Semaphore
  PROVE  Woken(s)' = Woken(s)
<1> USE DEF SInv, TypeOK, ThreadStatus, Woken, semVars
<1>0. waitingOn' = waitingOn
  BY Zenon DEF ThreadStep
<1>1. ASSUME NEW u \in Thread, Fork(t, u) PROVE Woken(s)' = Woken(s)
  <2>1. waitingOn[u] = NoSem
    BY <1>1, Zenon DEF Fork, Places
  <2> QED
    BY ZenonT(40), <1>0, <1>1, <2>1, SemaphoreAssumption DEF Fork, ReadyStatus
<1>2. CASE Execute(t)
  BY Zenon, <1>0, <1>2 DEF Execute
<1>3. CASE Yield(t)
  <2>1. Head(readyList) \in Thread /\ status[Head(readyList)] = "READY"
    BY Zenon, <1>3, TailList DEF Yield, ListsMatchStatus
  <2>2. status[t] = "RUNNING"
    BY Zenon, <1>3 DEF Yield, Runs, Places
  <2> QED
    BY Zenon, <1>0, <1>3, <2>1, <2>2 DEF Yield
<1>4. CASE Finish(t)
  <2>1. waitingOn[t] = NoSem
    BY <1>4, Zenon DEF Finish, Runs, Places
  <2> QED
    BY Zenon, <1>0, <1>4, <2>1, SemaphoreAssumption DEF Finish
<1>5. CASE Dispatch(t)
  <2>1. Head(readyList) \in Thread /\ status[Head(readyList)] = "READY"
    BY Zenon, <1>5, TailList DEF Dispatch, ListsMatchStatus
  <2> QED
    BY Zenon, <1>0, <1>5, <2>1 DEF Dispatch
<1>6. CASE AfterSwitch(t)
  <2>1. toBeDestroyed # NoThread => waitingOn[toBeDestroyed] = NoSem
    BY Zenon DEF Places
  <2> QED
    BY <1>0, <1>6, <2>1, SemaphoreAssumption DEF AfterSwitch
<1> QED
  BY ZenonT(40), <1>1, <1>2, <1>3, <1>4, <1>5, <1>6 DEF ThreadStep

LEMMA PLoopNoLostWakeup ==
  ASSUME SInv, NoLostWakeup, NEW t \in Thread, NEW s \in Semaphore,
         status[t] = "RUNNING", waitingOn[t] \in {NoSem, s}, PLoop(t, s)
  PROVE  NoLostWakeup'
<1> /\ status \in [Thread -> ThreadStatus] /\ value \in [Semaphore -> Nat]
    /\ waitingOn \in [Thread -> Semaphore \cup {NoSem}]
    /\ queue \in [Semaphore -> Seq(Thread)] /\ ListsMatchStatus
  BY Zenon DEF SInv, TypeOK
<1> SUFFICES ASSUME NEW r \in Semaphore, queue'[r] # << >>
             PROVE  value'[r] <= Cardinality(Woken(r)')
  BY Zenon DEF NoLostWakeup
<1>0. /\ IsFiniteSet(Woken(r)) /\ Cardinality(Woken(r)) \in Nat
      /\ queue[r] # << >> => value[r] <= Cardinality(Woken(r))
      /\ value[r] \in Nat
  BY Zenon, WokenFinite DEF NoLostWakeup
<1>1. CASE value[s] # 0
  <2>1. /\ value' = [value EXCEPT ![s] = value[s] - 1]
        /\ waitingOn' = [waitingOn EXCEPT ![t] = NoSem]
        /\ status' = status /\ queue' = queue
    BY Zenon, <1>1 DEF PLoop
  <2>2. Woken(r)' = Woken(r) \ {t}
    BY Zenon, <2>1, SemaphoreAssumption DEF Woken
  <2>3. CASE r = s
    <3>1. Cardinality(Woken(r)') >= Cardinality(Woken(r)) - 1
      <4>1. CASE t \in Woken(r)
        <5>1. Cardinality(Woken(r) \ {t}) = Cardinality(Woken(r)) - 1
          BY <1>0, <4>1, FS_RemoveElement, Zenon
        <5> QED
          BY <1>0, <2>2, <5>1
      <4>2. CASE t \notin Woken(r)
        <5>1. Woken(r)' = Woken(r)
          BY Zenon, <2>2, <4>2
        <5> QED
          BY <1>0, <5>1
      <4> QED
        BY Zenon, <4>1, <4>2
    <3>2. Cardinality(Woken(r)') \in Nat
      BY <1>0, <2>2, FS_RemoveElement, FS_CardinalityType, Zenon
    <3>3. value'[r] = value[r] - 1
      BY Zenon, <2>1, <2>3
    <3> QED
      BY <1>0, <2>1, <3>1, <3>2, <3>3
  <2>4. CASE r # s
    <3>1. t \notin Woken(r)
      BY Zenon, <2>4, SemaphoreAssumption DEF Woken
    <3>2. Woken(r)' = Woken(r) /\ value'[r] = value[r]
      BY Zenon, <2>1, <2>2, <2>4, <3>1
    <3> QED
      BY Zenon, <1>0, <2>1, <3>2
  <2> QED
    BY Zenon, <2>3, <2>4
<1>2. CASE value[s] = 0
  <2>1. /\ queue' = [queue EXCEPT ![s] = Append(queue[s], t)]
        /\ status' = [status EXCEPT ![t] = "BLOCKED"]
        /\ waitingOn' = [waitingOn EXCEPT ![t] = s]
        /\ value' = value
    BY Zenon, <1>2 DEF PLoop
  <2>2. Woken(r)' = Woken(r) \ {t}
    BY Zenon, <2>1, SemaphoreAssumption DEF Woken
  <2>3. CASE r = s
    <3>1. Cardinality(Woken(r)') \in Nat
      BY <1>0, <2>2, FS_RemoveElement, FS_CardinalityType, Zenon
    <3> QED
      BY <1>2, <2>1, <2>3, <3>1
  <2>4. CASE r # s
    <3>1. t \notin Woken(r)
      BY Zenon, <2>4, SemaphoreAssumption DEF Woken
    <3>2. Woken(r)' = Woken(r) /\ queue'[r] = queue[r]
      BY Zenon, <2>1, <2>2, <2>4, <3>1
    <3> QED
      BY Zenon, <1>0, <2>1, <3>2
  <2> QED
    BY Zenon, <2>3, <2>4
<1> QED
  BY Zenon, <1>1, <1>2

LEMMA SignalNoLostWakeup ==
  ASSUME SInv, NoLostWakeup, NEW s \in Semaphore, Signal(s)
  PROVE  NoLostWakeup'
<1> /\ status \in [Thread -> ThreadStatus] /\ value \in [Semaphore -> Nat]
    /\ waitingOn \in [Thread -> Semaphore \cup {NoSem}]
    /\ queue \in [Semaphore -> Seq(Thread)] /\ ListsMatchStatus
  BY Zenon DEF SInv, TypeOK
<1> SUFFICES ASSUME NEW r \in Semaphore, queue'[r] # << >>
             PROVE  value'[r] <= Cardinality(Woken(r)')
  BY Zenon DEF NoLostWakeup
<1>0. /\ IsFiniteSet(Woken(r)) /\ Cardinality(Woken(r)) \in Nat
      /\ queue[r] # << >> => value[r] <= Cardinality(Woken(r))
      /\ value[r] \in Nat
  BY Zenon, WokenFinite DEF NoLostWakeup
<1>1. value' = [value EXCEPT ![s] = value[s] + 1] /\ waitingOn' = waitingOn
  BY Zenon DEF Signal
<1>2. CASE queue[s] = << >>
  <2>1. status' = status /\ queue' = queue
    BY Zenon, <1>2 DEF Signal
  <2>2. Woken(r)' = Woken(r) /\ r # s
    BY Zenon, <1>1, <1>2, <2>1 DEF Woken
  <2> QED
    BY Zenon, <1>0, <1>1, <2>1, <2>2
<1>3. CASE queue[s] # << >>
  <2> DEFINE h == Head(queue[s])
  <2>1. h \in Thread /\ status[h] = "BLOCKED" /\ waitingOn[h] = s
    <3>1. queue[s] \in Seq(Thread) /\ NoDuplicates(queue[s])
      BY Zenon DEF ListsMatchStatus
    <3>2. h \in Thread /\ InList(h, queue[s])
      BY Zenon, <1>3, <3>1, TailList
    <3> QED
      BY Zenon, <3>2 DEF ListsMatchStatus
  <2>2. /\ status' = [status EXCEPT ![h] = "READY"]
        /\ queue' = [queue EXCEPT ![s] = Tail(queue[s])]
    BY Zenon, <1>3 DEF Signal, ReadyStatus
  <2>3. CASE r = s
    <3>1. Woken(r)' = Woken(r) \cup {h} /\ h \notin Woken(r)
      BY Zenon, <1>1, <2>1, <2>2, <2>3 DEF Woken
    <3>2. Cardinality(Woken(r)') = Cardinality(Woken(r)) + 1
      BY <1>0, <3>1, FS_AddElement, Zenon
    <3>3. value'[r] = value[r] + 1
      BY Zenon, <1>1, <2>3
    <3> QED
      BY <1>0, <1>3, <2>3, <3>2, <3>3
  <2>4. CASE r # s
    <3>1. Woken(r)' = Woken(r)
      BY Zenon, <1>1, <2>1, <2>2, <2>4 DEF Woken
    <3> QED
      BY Zenon, <1>0, <1>1, <2>2, <2>4, <3>1
  <2> QED
    BY Zenon, <2>3, <2>4
<1> QED
  BY Zenon, <1>2, <1>3

LEMMA NextNoLostWakeup == SInv /\ NoLostWakeup /\ [Next]_vars => NoLostWakeup'
<1> SUFFICES ASSUME SInv, NoLostWakeup, [Next]_vars PROVE NoLostWakeup'
  BY Zenon
<1>1. ASSUME NEW t \in Thread, ThreadStep(t) PROVE NoLostWakeup'
  BY Zenon, <1>1, ThreadStepWoken DEF NoLostWakeup, ThreadStep, semVars
<1>2. ASSUME NEW t \in Thread, NEW s \in Semaphore, P(t, s) PROVE NoLostWakeup'
  <2>1. status[t] = "RUNNING" /\ waitingOn[t] = NoSem
    BY Zenon, <1>2, InP DEF P, Runs, SInv, Places
  <2> QED
    BY Zenon, <1>2, <2>1, PLoopNoLostWakeup DEF P
<1>3. ASSUME NEW t \in Thread, PAgain(t) PROVE NoLostWakeup'
  BY Zenon, <1>3, InP, PLoopNoLostWakeup DEF PAgain
<1>4. ASSUME NEW s \in Semaphore, Signal(s) PROVE NoLostWakeup'
  BY Zenon, <1>4, SignalNoLostWakeup
<1>5. CASE IdleTick \/ UNCHANGED vars
  <2>1. UNCHANGED vars
    BY Zenon, <1>5 DEF IdleTick
  <2> QED
    BY Zenon, <2>1 DEF vars, threadVars, semVars, NoLostWakeup, Woken
<1> QED
  BY <1>1, <1>2, <1>3, <1>4, <1>5, SemaphoreAssumption
  DEF Next, SemaphoreStep, V, HandlerV

\* While threads sleep on a semaphore, at least as many threads as its value
\* have been woken for it: a V is never forgotten, for any number of threads
\* and semaphores, whoever overtakes a woken thread.
THEOREM WakeupsNotLost == Spec => []NoLostWakeup
  BY InitSInv, NextSInv, InitNoLostWakeup, NextNoLostWakeup, PTL DEF Spec

-----------------------------------------------------------------------------
\* Refinement: P on the scheduler is Pass, Ask, Take or a stutter (a woken
\* thread that finds the semaphore taken again goes back to sleep).
LEMMA PLoopRefines ==
  ASSUME SInv, NEW t \in Thread, NEW s \in Semaphore,
         waitingOn[t] \in {NoSem, s}, PLoop(t, s)
  PROVE  [Abs!AbsNext]_(Abs!absVars)
<1> USE DEF Abs!AbsNext, Abs!absVars
<1>0. value[s] \in Nat /\ waitingOn \in [Thread -> Semaphore \cup {NoSem}]
  BY Zenon DEF SInv, TypeOK
<1>1. CASE value[s] # 0 /\ waitingOn[t] = s
  <2>1. Abs!Take(t, s)
    BY <1>0, <1>1 DEF PLoop, Abs!Take
  <2> QED
    BY Zenon, <2>1
<1>2. CASE value[s] # 0 /\ waitingOn[t] = NoSem
  <2>1. waitingOn' = waitingOn
    BY Zenon, <1>0, <1>2 DEF PLoop
  <2>2. Abs!Pass(t, s)
    BY <1>0, <1>2, <2>1 DEF PLoop, Abs!Pass
  <2> QED
    BY Zenon, <2>2
<1>3. CASE value[s] = 0 /\ waitingOn[t] = NoSem
  BY Zenon, <1>3 DEF PLoop, Abs!Ask
<1>4. CASE value[s] = 0 /\ waitingOn[t] = s
  BY Zenon, <1>0, <1>4 DEF PLoop
<1> QED
  BY Zenon, <1>1, <1>2, <1>3, <1>4

\* Semaphore::P and V on the scheduler implement the atomic semaphore that the
\* other modules use: the value moves by one at a time, never below zero, and a
\* thread leaves P only by decrementing it.
THEOREM ImplementsAbsSafety == Spec => Abs!AbsSafety
<1>1. Init => Abs!AbsInit
  BY Zenon DEF Init, Abs!AbsInit
<1>2. SInv /\ [Next]_vars => [Abs!AbsNext]_(Abs!absVars)
  <2> SUFFICES ASSUME SInv, [Next]_vars PROVE [Abs!AbsNext]_(Abs!absVars)
    BY Zenon
  <2>1. ASSUME NEW t \in Thread, ThreadStep(t) PROVE [Abs!AbsNext]_(Abs!absVars)
    BY Zenon, <2>1 DEF ThreadStep, semVars, Abs!absVars
  <2>2. ASSUME NEW t \in Thread, NEW s \in Semaphore, P(t, s)
        PROVE  [Abs!AbsNext]_(Abs!absVars)
    <3>1. waitingOn[t] = NoSem
      BY Zenon, <2>2, InP DEF P, Runs, SInv, Places
    <3> QED
      BY Zenon, <2>2, <3>1, PLoopRefines DEF P
  <2>3. ASSUME NEW t \in Thread, PAgain(t) PROVE [Abs!AbsNext]_(Abs!absVars)
    BY Zenon, <2>3, InP, PLoopRefines DEF PAgain
  <2>4. ASSUME NEW s \in Semaphore, Signal(s) PROVE [Abs!AbsNext]_(Abs!absVars)
    BY <2>4, Zenon DEF Signal, Abs!AbsNext, Abs!Release
  <2>5. CASE IdleTick \/ UNCHANGED vars
    BY Zenon, <2>5 DEF IdleTick, vars, semVars, Abs!absVars
  <2> QED
    BY <2>1, <2>2, <2>3, <2>4, <2>5, SemaphoreAssumption
    DEF Next, SemaphoreStep, V, HandlerV
<1> QED
  BY <1>1, <1>2, AlwaysSInv, PTL DEF Spec, Abs!AbsSafety

=============================================================================
