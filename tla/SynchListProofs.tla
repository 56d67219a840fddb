--------------------------- MODULE SynchListProofs ---------------------------
(***************************************************************************)
(* Proofs about Monitor and SynchList, for any threads, condition          *)
(* variables, items and roles: a thread may append, remove and apply.      *)
(*                                                                         *)
(* The lock: semaphore is 1 exactly when nobody is between the P and the V *)
(* of the lock, which makes MutualExclusion inductive; HolderIsInside      *)
(* needs it because SetHolder overwrites lockHolder.  The queues: a        *)
(* semaphore is put on a queue with value 0 and leaves it at its only V.   *)
(*                                                                         *)
(* The lock and the condition keep this invariant, MInv, under the steps   *)
(* of a SynchList.  With OpOK, what a thread's operation says about its    *)
(* place, NoItemStranded is inductive: a signalled thread is a consumer,   *)
(* and only the thread that takes an item stops coming.                    *)
(***************************************************************************)
EXTENDS SynchList, TLAPS, SequenceTheorems, FiniteSetTheorems

\* The lock's counter and the threads inside agree.
LockFree == semaphore = 1 => \A t \in Thread : ~Inside(t)

MInv ==
  /\ MonitorTypeOK
  /\ LockFree
  /\ MutualExclusion
  /\ HolderIsInside
  /\ WaiterOnQueueIsAlive
  /\ WaitingIsReachable

\* lib/list.cc Append and RemoveFront, by position.
LEMMA QueueAppend ==
  ASSUME NEW q \in Seq(Thread), NEW t \in Thread
  PROVE  /\ Append(q, t) \in Seq(Thread)
         /\ DOMAIN Append(q, t) = DOMAIN q \cup {Len(q) + 1}
         /\ Len(q) + 1 \notin DOMAIN q
         /\ Append(q, t)[Len(q) + 1] = t
         /\ \A i \in DOMAIN q : Append(q, t)[i] = q[i]
<1>1. /\ Append(q, t) \in Seq(Thread)
      /\ Len(Append(q, t)) = Len(q) + 1
      /\ Append(q, t)[Len(q) + 1] = t
      /\ \A i \in 1 .. Len(q) : Append(q, t)[i] = q[i]
  BY AppendProperties
<1>2. /\ DOMAIN q = 1 .. Len(q) /\ Len(q) \in Nat
      /\ DOMAIN Append(q, t) = 1 .. Len(q) + 1
  BY Zenon, <1>1, LenProperties
<1> QED
  BY <1>1, <1>2

LEMMA QueueTail ==
  ASSUME NEW q \in Seq(Thread), q # << >>
  PROVE  /\ Head(q) \in Thread
         /\ Tail(q) \in Seq(Thread)
         /\ 1 \in DOMAIN q /\ Head(q) = q[1]
         /\ \A i \in DOMAIN Tail(q) : i \in Nat /\ i + 1 \in DOMAIN q /\ i + 1 # 1
                                      /\ Tail(q)[i] = q[i + 1]
         /\ \A i \in DOMAIN q : i # 1 =>
              i \in Nat /\ i - 1 \in DOMAIN Tail(q) /\ Tail(q)[i - 1] = q[i]
<1>1. /\ Head(q) \in Thread
      /\ Tail(q) \in Seq(Thread)
      /\ Len(Tail(q)) = Len(q) - 1
      /\ \A i \in 1 .. Len(Tail(q)) : Tail(q)[i] = q[i + 1]
  BY Zenon, HeadTailProperties
<1>2. /\ DOMAIN q = 1 .. Len(q) /\ Len(q) \in Nat \ {0}
      /\ DOMAIN Tail(q) = 1 .. Len(q) - 1
  BY Zenon, <1>1, LenProperties, EmptySeq
<1>3. Head(q) = q[1]
  OBVIOUS
<1>4. ASSUME NEW i \in DOMAIN q, i # 1
      PROVE  i \in Nat /\ i - 1 \in DOMAIN Tail(q) /\ Tail(q)[i - 1] = q[i]
  <2>1. i - 1 \in 1 .. Len(Tail(q)) /\ (i - 1) + 1 = i /\ i \in Nat
    BY <1>1, <1>2, <1>4
  <2> QED
    BY Zenon, <1>1, <1>2, <2>1
<1> QED
  BY <1>1, <1>2, <1>3, <1>4

-----------------------------------------------------------------------------
LEMMA InitMInv == MonitorInit => MInv
  BY MonitorAssumption, EmptySeq
  DEF MonitorInit, MInv, MonitorTypeOK, LockFree, MutualExclusion,
      HolderIsInside, WaiterOnQueueIsAlive, WaitingIsReachable, Inside, Place, Freed

\* The steps that change neither a queue nor the place or the semaphore of a
\* waiting thread.
LEMMA QueuesUntouched ==
  ASSUME MInv, NEW t \in Thread, NEW p \in Place,
         at[t] # "waiting", p # "waiting", at' = [at EXCEPT ![t] = p],
         waitQueue' = waitQueue,
         \A u \in Thread : u # t => waiter'[u] = waiter[u]
  PROVE  WaiterOnQueueIsAlive' /\ WaitingIsReachable'
<1> USE DEF MInv, MonitorTypeOK
<1>1. \A c \in Condition : \A i \in DOMAIN waitQueue[c] :
        waitQueue[c][i] \in Thread /\ waitQueue[c][i] # t
  BY ElementOfSeq, LenProperties DEF WaiterOnQueueIsAlive
<1>2. WaiterOnQueueIsAlive'
  BY <1>1 DEF WaiterOnQueueIsAlive
<1>3. WaitingIsReachable'
  BY DEF WaitingIsReachable
<1> QED
  BY Zenon, <1>2, <1>3

LEMMA CallAcquireMInv ==
  ASSUME MInv, NEW t \in Thread, CallAcquire(t)
  PROVE  MInv'
<1> USE DEF MInv, MonitorTypeOK, CallAcquire, Go
<1>1. MonitorTypeOK'
  BY Zenon DEF Place
<1>2. LockFree' /\ MutualExclusion' /\ HolderIsInside'
  BY ZenonT(40) DEF LockFree, MutualExclusion, HolderIsInside, Inside
<1>3. WaiterOnQueueIsAlive' /\ WaitingIsReachable'
  BY Zenon, QueuesUntouched DEF Place
<1> QED
  BY Zenon, <1>1, <1>2, <1>3

LEMMA LockPMInv ==
  ASSUME MInv, NEW t \in Thread, LockP(t)
  PROVE  MInv'
<1> USE DEF MInv, MonitorTypeOK, LockP, Go
<1>1. PICK p \in {"acquired", "reacquired"} : at' = [at EXCEPT ![t] = p]
  BY Zenon
<1>2. at[t] \in {"acquire", "reacquire"} /\ semaphore = 1 /\ semaphore' = 0
  OBVIOUS
<1>3. MonitorTypeOK'
  BY <1>1, <1>2 DEF Place
<1>4. LockFree' /\ MutualExclusion' /\ HolderIsInside'
  BY <1>1, <1>2 DEF LockFree, MutualExclusion, HolderIsInside, Inside
<1>5. WaiterOnQueueIsAlive' /\ WaitingIsReachable'
  BY Zenon, <1>1, <1>2, QueuesUntouched DEF Place
<1> QED
  BY Zenon, <1>3, <1>4, <1>5

LEMMA SetHolderMInv ==
  ASSUME MInv, NEW t \in Thread, SetHolder(t)
  PROVE  MInv'
<1> USE DEF MInv, MonitorTypeOK, SetHolder, Go
<1>1. at' = [at EXCEPT ![t] = "in"] /\ at[t] \in {"acquired", "reacquired"}
  BY Zenon
<1>2. MonitorTypeOK'
  BY <1>1 DEF Place, Freed
<1>3. LockFree' /\ MutualExclusion' /\ HolderIsInside'
  <2>1. \A u \in Thread : Inside(u)' <=> Inside(u)
    BY Zenon, <1>1 DEF Inside
  <2>2. \A u \in Thread : u # t => ~Inside(u)
    BY Zenon, <1>1 DEF MutualExclusion, Inside
  <2>3. HolderIsInside'
    BY Zenon, <1>1, <2>2, MonitorAssumption DEF HolderIsInside, Inside
  <2> QED
    BY Zenon, <2>1, <2>3 DEF LockFree, MutualExclusion
<1>4. WaiterOnQueueIsAlive' /\ WaitingIsReachable'
  BY Zenon, <1>1, QueuesUntouched DEF Place
<1> QED
  BY Zenon, <1>2, <1>3, <1>4

\* Whoever is at "in" is the only one inside, and after it gave the lock up
\* there is nobody.
LEMMA GiveUpLockInv ==
  ASSUME MInv, NEW t \in Thread, NEW p \in {"out", "waiting"},
         Go(t, "in", p), GiveUpLock
  PROVE  /\ semaphore' \in 0..1 /\ lockHolder' \in Thread \cup {NoThread}
         /\ LockFree' /\ MutualExclusion' /\ HolderIsInside'
<1> USE DEF MInv, MonitorTypeOK, GiveUpLock, Go
<1>1. Inside(t) /\ \A u \in Thread : u # t => ~Inside(u)
  BY Zenon DEF MutualExclusion, Inside
<1>2. \A u \in Thread : ~Inside(u)'
  BY Zenon, <1>1 DEF Inside
<1>3. semaphore = 0
  BY <1>1 DEF LockFree
<1>4. HolderIsInside'
  BY Zenon, <1>2, MonitorAssumption DEF HolderIsInside, Inside
<1> QED
  BY <1>2, <1>3, <1>4 DEF LockFree, MutualExclusion

LEMMA ReleaseMInv ==
  ASSUME MInv, NEW t \in Thread, Release(t)
  PROVE  MInv'
<1> USE DEF MInv, MonitorTypeOK, Release
<1>1. /\ semaphore' \in 0..1 /\ lockHolder' \in Thread \cup {NoThread}
      /\ LockFree' /\ MutualExclusion' /\ HolderIsInside'
  BY Zenon, GiveUpLockInv
<1>2. MonitorTypeOK'
  BY Zenon, <1>1 DEF Go, Place
<1>3. WaiterOnQueueIsAlive' /\ WaitingIsReachable'
  BY Zenon, QueuesUntouched DEF Go, Place
<1> QED
  BY Zenon, <1>1, <1>2, <1>3

LEMMA WaitMInv ==
  ASSUME MInv, NEW t \in Thread, NEW c \in Condition, Wait(t, c)
  PROVE  MInv'
<1> USE DEF MInv, MonitorTypeOK
<1>1. /\ semaphore' \in 0..1 /\ lockHolder' \in Thread \cup {NoThread}
      /\ LockFree' /\ MutualExclusion' /\ HolderIsInside'
  BY Zenon, GiveUpLockInv DEF Wait
<1> DEFINE q == waitQueue[c]
           n == Len(waitQueue[c]) + 1
<1>2. /\ at[t] = "in"
      /\ at' = [at EXCEPT ![t] = "waiting"]
      /\ waiter' = [waiter EXCEPT ![t] = 0]
      /\ waitQueue' = [waitQueue EXCEPT ![c] = Append(q, t)]
      /\ casting' = casting
  BY Zenon DEF Wait, Go
<1>3. /\ Append(q, t) \in Seq(Thread)
      /\ DOMAIN Append(q, t) = DOMAIN q \cup {n} /\ n \notin DOMAIN q
      /\ Append(q, t)[n] = t
      /\ \A i \in DOMAIN q : Append(q, t)[i] = q[i]
  BY QueueAppend
<1>4. MonitorTypeOK'
  BY <1>1, <1>2, <1>3 DEF Place, Freed
<1>5. \A d \in Condition : \A i \in DOMAIN waitQueue[d] :
        waitQueue[d][i] \in Thread /\ waitQueue[d][i] # t
  BY <1>2, ElementOfSeq, LenProperties DEF WaiterOnQueueIsAlive
<1>6. \A d \in Condition : \A i :
        /\ i \in DOMAIN waitQueue'[d]
             <=> i \in DOMAIN waitQueue[d] \/ (d = c /\ i = n)
        /\ i \in DOMAIN waitQueue[d] => waitQueue'[d][i] = waitQueue[d][i]
  BY Zenon, <1>2, <1>3
<1>7. waitQueue'[c][n] = t /\ n \notin DOMAIN waitQueue[c]
  BY Zenon, <1>2, <1>3
<1>8. WaiterOnQueueIsAlive'
  <2> SUFFICES ASSUME NEW d \in Condition, NEW i \in DOMAIN waitQueue'[d]
               PROVE  /\ at'[waitQueue'[d][i]] = "waiting"
                      /\ waiter'[waitQueue'[d][i]] = 0
                      /\ \A e \in Condition : \A j \in DOMAIN waitQueue'[e] :
                           waitQueue'[e][j] = waitQueue'[d][i] => e = d /\ j = i
    BY Zenon DEF WaiterOnQueueIsAlive
  <2>1. CASE d = c /\ i = n
    BY <1>2, <1>5, <1>6, <1>7, <2>1
  <2>2. CASE i \in DOMAIN waitQueue[d]
    BY <1>2, <1>5, <1>6, <1>7, <2>2 DEF WaiterOnQueueIsAlive
  <2> QED
    BY Zenon, <1>6, <2>1, <2>2
<1>9. WaitingIsReachable'
  BY <1>2, <1>6, <1>7 DEF WaitingIsReachable
<1> QED
  BY Zenon, <1>1, <1>4, <1>8, <1>9

LEMMA WaiterPMInv ==
  ASSUME MInv, NEW t \in Thread, WaiterP(t)
  PROVE  MInv'
<1> USE DEF MInv, MonitorTypeOK
<1>0. waiter[t] = 1 /\ waiter[t] - 1 = 0
  <2>1. waiter[t] \in -1..1 /\ waiter[t] > 0
    BY Zenon DEF WaiterP, Freed
  <2> QED
    BY <2>1
<1>1. /\ at[t] = "waiting" /\ waiter[t] = 1
      /\ at' = [at EXCEPT ![t] = "reacquire"]
      /\ waiter' = [waiter EXCEPT ![t] = 0]
      /\ UNCHANGED << semaphore, lockHolder, waitQueue, casting >>
  BY Zenon, <1>0 DEF WaiterP, Go
<1>2. MonitorTypeOK'
  BY <1>1 DEF Place, Freed
<1>3. LockFree' /\ MutualExclusion' /\ HolderIsInside'
  BY ZenonT(40), <1>1 DEF LockFree, MutualExclusion, HolderIsInside, Inside
<1>4. \A c \in Condition : \A i \in DOMAIN waitQueue[c] :
        waitQueue[c][i] \in Thread /\ waitQueue[c][i] # t
  BY <1>1, ElementOfSeq, LenProperties DEF WaiterOnQueueIsAlive
<1>5. WaiterOnQueueIsAlive'
  BY <1>1, <1>4 DEF WaiterOnQueueIsAlive
<1>6. WaitingIsReachable'
  BY ZenonT(40), <1>1 DEF WaitingIsReachable
<1> QED
  BY Zenon, <1>2, <1>3, <1>5, <1>6

\* Signal takes the first semaphore off its queue and calls its only V.
LEMMA WakeFirstInv ==
  ASSUME MInv, NEW c \in Condition, WakeFirst(c),
         \A t \in Thread : at'[t] = "waiting" <=> at[t] = "waiting"
  PROVE  /\ waitQueue' \in [Condition -> Seq(Thread)]
         /\ waiter' \in [Thread -> Freed..1]
         /\ WaiterOnQueueIsAlive' /\ WaitingIsReachable'
<1> USE DEF MInv, MonitorTypeOK
<1>0. \A d \in Condition : \A i \in DOMAIN waitQueue[d] : waitQueue[d][i] \in Thread
  BY Zenon, ElementOfSeq, LenProperties
<1>1. CASE waitQueue[c] = << >>
  <2>1. waitQueue' = waitQueue /\ waiter' = waiter
    BY Zenon, <1>1 DEF WakeFirst
  <2> QED
    BY <1>0, <2>1 DEF WaiterOnQueueIsAlive, WaitingIsReachable
<1>2. CASE waitQueue[c] # << >>
  <2> DEFINE q == waitQueue[c]
             h == Head(waitQueue[c])
  <2>1. /\ h \in Thread /\ Tail(q) \in Seq(Thread)
        /\ 1 \in DOMAIN q /\ h = q[1]
        /\ \A i \in DOMAIN Tail(q) : i \in Nat /\ i + 1 \in DOMAIN q /\ i + 1 # 1
                                     /\ Tail(q)[i] = q[i + 1]
        /\ \A i \in DOMAIN q : i # 1 =>
             i \in Nat /\ i - 1 \in DOMAIN Tail(q) /\ Tail(q)[i - 1] = q[i]
    BY Zenon, <1>2, QueueTail
  <2>2. /\ at[h] = "waiting" /\ waiter[h] = 0
        /\ \A d \in Condition : \A j \in DOMAIN waitQueue[d] :
             waitQueue[d][j] = h => d = c /\ j = 1
    BY <2>1 DEF WaiterOnQueueIsAlive
  <2>3. /\ waitQueue' = [waitQueue EXCEPT ![c] = Tail(q)]
        /\ waiter' = [waiter EXCEPT ![h] = 1]
    BY <1>2, <2>1, <2>2 DEF WakeFirst
  <2>4. waitQueue' \in [Condition -> Seq(Thread)] /\ waiter' \in [Thread -> Freed..1]
    BY <2>1, <2>3 DEF Freed
  <2> DEFINE old(d, i) == IF d = c THEN i + 1 ELSE i
  <2>5. \A d \in Condition : \A i \in DOMAIN waitQueue'[d] :
          /\ old(d, i) \in DOMAIN waitQueue[d]
          /\ waitQueue'[d][i] = waitQueue[d][old(d, i)]
          /\ waitQueue'[d][i] # h
          /\ d = c => i \in Nat
    BY <2>1, <2>2, <2>3
  <2>6. WaiterOnQueueIsAlive'
    <3> SUFFICES ASSUME NEW d \in Condition, NEW i \in DOMAIN waitQueue'[d]
                 PROVE  /\ at'[waitQueue'[d][i]] = "waiting"
                        /\ waiter'[waitQueue'[d][i]] = 0
                        /\ \A e \in Condition : \A j \in DOMAIN waitQueue'[e] :
                             waitQueue'[e][j] = waitQueue'[d][i] => e = d /\ j = i
      BY Zenon DEF WaiterOnQueueIsAlive
    <3>1. at'[waitQueue'[d][i]] = "waiting" /\ waiter'[waitQueue'[d][i]] = 0
      BY <1>0, <2>3, <2>5 DEF WaiterOnQueueIsAlive
    <3>2. ASSUME NEW e \in Condition, NEW j \in DOMAIN waitQueue'[e],
                 waitQueue'[e][j] = waitQueue'[d][i]
          PROVE  e = d /\ j = i
      <4>1. e = d /\ old(e, j) = old(d, i)
        <5>1. /\ old(d, i) \in DOMAIN waitQueue[d] /\ old(e, j) \in DOMAIN waitQueue[e]
              /\ waitQueue[e][old(e, j)] = waitQueue[d][old(d, i)]
          BY Zenon, <2>5, <3>2
        <5>2. \A k \in DOMAIN waitQueue[d] : \A l \in DOMAIN waitQueue[e] :
                waitQueue[e][l] = waitQueue[d][k] => e = d /\ l = k
          BY Zenon DEF WaiterOnQueueIsAlive
        <5> HIDE DEF old
        <5> QED
          BY Zenon, <5>1, <5>2
      <4> QED
        BY <2>5, <4>1
    <3> QED
      BY Zenon, <3>1, <3>2
  <2>7. WaitingIsReachable'
    <3> SUFFICES ASSUME NEW t \in Thread, at'[t] = "waiting", waiter'[t] # 1
                 PROVE  \E d \in Condition : \E i \in DOMAIN waitQueue'[d] :
                          waitQueue'[d][i] = t
      BY Zenon DEF WaitingIsReachable
    <3>1. t # h /\ at[t] = "waiting" /\ waiter[t] # 1
      BY Zenon, <2>1, <2>3
    <3>2. PICK d \in Condition : \E i \in DOMAIN waitQueue[d] : waitQueue[d][i] = t
      BY Zenon, <3>1 DEF WaitingIsReachable
    <3> PICK i \in DOMAIN waitQueue[d] : waitQueue[d][i] = t
      BY Zenon, <3>2
    <3>3. CASE d = c
      <4>1. i # 1 /\ i - 1 \in DOMAIN Tail(q) /\ Tail(q)[i - 1] = t
        BY Zenon, <2>1, <3>1, <3>2, <3>3
      <4> QED
        BY Zenon, <2>3, <4>1
    <3>4. CASE d # c
      BY Zenon, <2>3, <3>2, <3>4
    <3> QED
      BY Zenon, <3>3, <3>4
  <2> QED
    BY Zenon, <2>4, <2>6, <2>7
<1> QED
  BY Zenon, <1>1, <1>2

LEMMA SignalMInv ==
  ASSUME MInv, NEW t \in Thread, NEW c \in Condition, Signal(t, c)
  PROVE  MInv'
<1> USE DEF MInv, MonitorTypeOK, Signal
<1>1. /\ waitQueue' \in [Condition -> Seq(Thread)] /\ waiter' \in [Thread -> Freed..1]
      /\ WaiterOnQueueIsAlive' /\ WaitingIsReachable'
  BY Zenon, WakeFirstInv
<1>2. LockFree' /\ MutualExclusion' /\ HolderIsInside'
  BY Zenon DEF WakeFirst, LockFree, MutualExclusion, HolderIsInside, Inside
<1> QED
  BY Zenon, <1>1, <1>2 DEF WakeFirst

LEMMA BroadcastMInv ==
  ASSUME MInv, NEW t \in Thread, NEW c \in Condition, Broadcast(t, c)
  PROVE  MInv'
<1> USE DEF MInv, MonitorTypeOK
<1>1. PICK p \in {"in", "broadcast"} : at' = [at EXCEPT ![t] = p]
  BY Zenon DEF Broadcast, Go
<1>2. /\ at[t] \in {"in", "broadcast"}
      /\ casting' \in Condition \cup {NoCondition}
      /\ UNCHANGED << semaphore, lockHolder >>
  BY Zenon DEF Broadcast, Go, WakeFirst
<1>3. LockFree' /\ MutualExclusion' /\ HolderIsInside'
  BY <1>1, <1>2 DEF LockFree, MutualExclusion, HolderIsInside, Inside
<1>4. /\ waitQueue' \in [Condition -> Seq(Thread)] /\ waiter' \in [Thread -> Freed..1]
      /\ WaiterOnQueueIsAlive' /\ WaitingIsReachable'
  <2>1. CASE waitQueue[c] # << >>
    BY Zenon, <1>1, <1>2, <2>1, WakeFirstInv DEF Broadcast
  <2>2. CASE waitQueue[c] = << >>
    <3>1. waitQueue' = waitQueue /\ waiter' = waiter
      BY Zenon, <2>2 DEF Broadcast
    <3> QED
      BY Zenon, <1>1, <1>2, <3>1, QueuesUntouched DEF Place
  <2> QED
    BY Zenon, <2>1, <2>2
<1>5. at' \in [Thread -> Place]
  BY Zenon, <1>1 DEF Place
<1> QED
  BY Zenon, <1>2, <1>3, <1>4, <1>5

LEMMA NextMInv == MInv /\ [MonitorNext]_monitorVars => MInv'
<1> SUFFICES ASSUME MInv, [MonitorNext]_monitorVars PROVE MInv'
  BY Zenon
<1>1. ASSUME NEW t \in Thread, CallAcquire(t) \/ LockStep(t) \/ Release(t)
      PROVE  MInv'
  BY Zenon, <1>1, CallAcquireMInv, LockPMInv, SetHolderMInv, WaiterPMInv, ReleaseMInv
  DEF LockStep
<1>2. ASSUME NEW t \in Thread, NEW c \in Condition,
             Wait(t, c) \/ Signal(t, c) \/ Broadcast(t, c)
      PROVE  MInv'
  BY Zenon, <1>2, WaitMInv, SignalMInv, BroadcastMInv
<1>3. CASE UNCHANGED monitorVars
  BY <1>3 DEF monitorVars, MInv, MonitorTypeOK, LockFree, MutualExclusion,
     HolderIsInside, WaiterOnQueueIsAlive, WaitingIsReachable, Inside
<1> QED
  BY Zenon, <1>1, <1>2, <1>3 DEF MonitorNext

LEMMA AlwaysMInv == MonitorSpec => []MInv
  BY InitMInv, NextMInv, PTL DEF MonitorSpec

\* The lock excludes: of all threads, at most one is between the P and the V of
\* a Lock, whether it came through Acquire or through Wait.
THEOREM LockExcludes == MonitorSpec => []MutualExclusion
<1>1. MInv => MutualExclusion
  BY Zenon DEF MInv
<1> QED
  BY <1>1, AlwaysMInv, PTL

\* lockHolder names the thread that may use the lock, so the ASSERTs on
\* IsHeldByCurrentThread in Release, Wait and Signal never fail.
THEOREM HolderCorrect == MonitorSpec => []HolderIsInside
<1>1. MInv => HolderIsInside
  BY Zenon DEF MInv
<1> QED
  BY <1>1, AlwaysMInv, PTL

\* Signal never touches the semaphore of a Wait that has returned.
THEOREM WaitersAlive == MonitorSpec => []WaiterOnQueueIsAlive
<1>1. MInv => WaiterOnQueueIsAlive
  BY Zenon DEF MInv
<1> QED
  BY <1>1, AlwaysMInv, PTL

\* Every thread that sleeps in Wait was signalled or is on a queue where Signal
\* and Broadcast find it.
THEOREM WaitersReachable == MonitorSpec => []WaitingIsReachable
<1>1. MInv => WaitingIsReachable
  BY Zenon DEF MInv
<1> QED
  BY <1>1, AlwaysMInv, PTL

-----------------------------------------------------------------------------
(* SynchList.                                                              *)

OpOK ==
  \A t \in Thread :
    /\ op[t] = "none" <=> at[t] = "out"
    /\ op[t] = "RemoveFront" => t \in Consumer
    /\ op[t] = "Append" => item[t] \in Item
    /\ op[t] \in {"Append", "Apply"} => at[t] \in {"acquire", "acquired", "in"}

SInv == TypeOK /\ MInv /\ OpOK /\ NoItemStranded

LEMMA InitSInv == Init => SInv
<1> SUFFICES ASSUME Init PROVE SInv
  BY Zenon
<1>1. MInv
  BY Zenon, InitMInv DEF Init
<1>2. TypeOK
  BY Zenon, <1>1, EmptySeq DEF Init, TypeOK, MInv
<1>3. OpOK
  BY Zenon DEF Init, MonitorInit, OpOK
<1>4. NoItemStranded
  BY Zenon, SynchListAssumption DEF Init, MonitorInit, NoItemStranded
<1> QED
  BY Zenon, <1>1, <1>2, <1>3, <1>4 DEF SInv

\* Each step of a SynchList is a step of its lock and condition, or changes
\* neither.
LEMMA NextIsMonitorNext ==
  ASSUME [Next]_vars
  PROVE  [MonitorNext]_monitorVars
<1>1. ASSUME NEW t \in Thread, NEW x \in Item, CallAppend(t, x) PROVE MonitorNext
  BY Zenon, <1>1 DEF CallAppend, Call, MonitorNext
<1>2. ASSUME NEW t \in Thread, CallRemoveFront(t) \/ CallApply(t) PROVE MonitorNext
  BY Zenon, <1>2 DEF CallRemoveFront, CallApply, Call, MonitorNext
<1>3. ASSUME NEW t \in Thread, LockStep(t) PROVE MonitorNext
  BY Zenon, <1>3 DEF MonitorNext
<1>4. ASSUME NEW t \in Thread, Body(t) PROVE MonitorNext
  <2>1. listEmpty \in Condition
    BY Zenon, SynchListAssumption
  <2>2. AppendAndSignal(t) => Signal(t, listEmpty)
    BY Zenon DEF AppendAndSignal, Signal
  <2>3. RemoveFrontWaits(t) => Wait(t, listEmpty)
    BY Zenon DEF RemoveFrontWaits
  <2>4. AppendReturns(t) \/ RemoveFrontReturns(t) \/ Apply(t) => Release(t)
    BY Zenon DEF AppendReturns, RemoveFrontReturns, Apply, Return
  <2> QED
    BY ZenonT(40), <1>4, <2>1, <2>2, <2>3, <2>4 DEF Body, MonitorNext
<1>5. UNCHANGED vars => UNCHANGED monitorVars
  BY Zenon DEF vars, monitorVars
<1> QED
  BY Zenon, <1>1, <1>2, <1>3, <1>4, <1>5 DEF Next

-----------------------------------------------------------------------------
LEMMA ComingFinite == IsFiniteSet(Coming) /\ IsFiniteSet(Coming')
  BY Zenon, SynchListAssumption, FS_Subset, Coming \subseteq Thread, Coming' \subseteq Thread
  DEF Coming

\* A step after which nobody stopped coming, and which neither adds an item nor
\* puts a thread on the queue, strands no item.
LEMMA StrandsNone ==
  ASSUME SInv, list' = list, Coming \subseteq Coming',
         waitQueue'[listEmpty] # << >> => waitQueue[listEmpty] # << >>
  PROVE  NoItemStranded'
<1>1. /\ Cardinality(Coming) \in Nat /\ Cardinality(Coming') \in Nat
      /\ Cardinality(Coming) <= Cardinality(Coming')
  BY Zenon, ComingFinite, FS_Subset, FS_CardinalityType
<1>2. Len(list) \in Nat
  BY Zenon, LenProperties DEF SInv, TypeOK
<1> QED
  BY <1>1, <1>2 DEF SInv, NoItemStranded

LEMMA CallSInv ==
  ASSUME SInv, NEW t \in Thread,
         (\E x \in Item : CallAppend(t, x)) \/ CallRemoveFront(t) \/ CallApply(t)
  PROVE  TypeOK' /\ OpOK' /\ NoItemStranded'
<1> USE DEF SInv, MInv, MonitorTypeOK, TypeOK
<1>1. PICK o \in {"Append", "RemoveFront", "Apply"} :
        /\ at[t] = "out" /\ at' = [at EXCEPT ![t] = "acquire"]
        /\ op' = [op EXCEPT ![t] = o]
        /\ UNCHANGED << semaphore, lockHolder, waitQueue, waiter, casting, list, done, got >>
        /\ o = "RemoveFront" => t \in Consumer
        /\ o = "Append" => \E x \in Item : item' = [item EXCEPT ![t] = x]
        /\ o # "Append" => item' = item
  BY Zenon DEF CallAppend, CallRemoveFront, CallApply, Call, CallAcquire, Go
<1>2. op[t] = "none"
  BY Zenon, <1>1 DEF OpOK
<1>3. TypeOK'
  BY ZenonT(40), <1>1 DEF Place
<1>4. OpOK'
  BY Zenon, <1>1 DEF OpOK
<1>5. Coming \subseteq Coming'
  BY Zenon, <1>1, <1>2 DEF Coming
<1> QED
  BY Zenon, <1>1, <1>3, <1>4, <1>5, StrandsNone

LEMMA LockStepSInv ==
  ASSUME SInv, MInv', NEW t \in Thread, LockStep(t), UNCHANGED listVars
  PROVE  TypeOK' /\ OpOK' /\ NoItemStranded'
<1> USE DEF SInv, MInv, MonitorTypeOK, TypeOK
<1>1. TypeOK'
  BY Zenon DEF listVars
<1>2. PICK p \in {"acquired", "reacquired", "in", "reacquire"} :
        at' = [at EXCEPT ![t] = p] /\ waitQueue' = waitQueue
        /\ \/ at[t] = "acquire" /\ p = "acquired"
           \/ at[t] = "reacquire" /\ p = "reacquired"
           \/ at[t] = "acquired" /\ p = "in"
           \/ at[t] = "reacquired" /\ p = "in"
           \/ at[t] = "waiting" /\ p = "reacquire"
        /\ \A u \in Thread : u # t => waiter'[u] = waiter[u]
  <2>1. CASE LockP(t)
    BY Zenon, <2>1 DEF LockP, Go
  <2>2. CASE SetHolder(t)
    BY Zenon, <2>2 DEF SetHolder, Go
  <2>3. CASE WaiterP(t)
    BY Zenon, <2>3 DEF WaiterP, Go
  <2> QED
    BY Zenon, <2>1, <2>2, <2>3 DEF LockStep
<1>3. OpOK'
  BY Zenon, <1>2 DEF OpOK, listVars
<1>4. Coming \subseteq Coming'
  BY Zenon, <1>2 DEF Coming, listVars
<1> QED
  BY Zenon, <1>1, <1>2, <1>3, <1>4, StrandsNone DEF listVars

\* The signal of Append and its item go together: the thread it wakes was
\* asleep, so it is one more that is coming.
LEMMA AppendAndSignalSInv ==
  ASSUME SInv, MInv', NEW t \in Thread, AppendAndSignal(t)
  PROVE  TypeOK' /\ OpOK' /\ NoItemStranded'
<1> USE DEF SInv, MInv, MonitorTypeOK, TypeOK
<1>1. /\ list' = Append(list, item[t]) /\ item[t] \in Item
      /\ UNCHANGED << at, casting, op, item, got >>
      /\ done' = [done EXCEPT ![t] = TRUE]
  BY Zenon DEF AppendAndSignal, OpOK
<1>2. list' \in Seq(Item) /\ Len(list') = Len(list) + 1 /\ Len(list) \in Nat
  BY Zenon, <1>1, AppendProperties, LenProperties
<1>3. TypeOK'
  BY Zenon, <1>1, <1>2
<1>4. OpOK'
  BY Zenon, <1>1 DEF OpOK
<1>5. NoItemStranded'
  <2>1. CASE waitQueue[listEmpty] = << >>
    BY Zenon, <2>1 DEF AppendAndSignal, WakeFirst, NoItemStranded
  <2>2. CASE waitQueue[listEmpty] # << >>
    <3> DEFINE q == waitQueue[listEmpty]
               h == Head(waitQueue[listEmpty])
    <3>1. q \in Seq(Thread) /\ h \in Thread /\ 1 \in DOMAIN q /\ h = q[1]
      BY Zenon, <2>2, SynchListAssumption, QueueTail
    <3>2. at[h] = "waiting" /\ waiter[h] = 0
      BY <3>1, SynchListAssumption DEF WaiterOnQueueIsAlive
    <3>3. op[h] = "RemoveFront"
      BY ZenonT(40), <3>1, <3>2 DEF OpOK
    <3>4. waiter' = [waiter EXCEPT ![h] = 1]
      BY <2>2, <3>1, <3>2 DEF AppendAndSignal, WakeFirst
    <3>5. h \notin Coming
      <4>1. ~(at[h] = "waiting" /\ waiter[h] = 1)
            /\ at[h] \notin {"reacquire", "reacquired", "in"}
        BY <3>2
      <4> HIDE DEF h
      <4> QED
        BY Zenon, <4>1 DEF Coming
    <3>6. Coming' = Coming \cup {h}
      BY <1>1, <3>1, <3>2, <3>3, <3>4 DEF Coming
    <3>7. Cardinality(Coming') = Cardinality(Coming) + 1 /\ Cardinality(Coming) \in Nat
      BY Zenon, <3>5, <3>6, ComingFinite, FS_AddElement, FS_CardinalityType
    <3>8. Len(list) <= Cardinality(Coming)
      BY Zenon, <2>2 DEF NoItemStranded
    <3> QED
      BY <1>2, <3>7, <3>8 DEF NoItemStranded
  <2> QED
    BY Zenon, <2>1, <2>2
<1> QED
  BY Zenon, <1>3, <1>4, <1>5

\* Releasing the lock at the end of Append or Apply.
LEMMA ReturnSInv ==
  ASSUME SInv, MInv', NEW t \in Thread, AppendReturns(t) \/ Apply(t)
  PROVE  TypeOK' /\ OpOK' /\ NoItemStranded'
<1> USE DEF SInv, MInv, MonitorTypeOK, TypeOK
<1>1. /\ at[t] = "in" /\ at' = [at EXCEPT ![t] = "out"]
      /\ op[t] \in {"Append", "Apply"} /\ op' = [op EXCEPT ![t] = "none"]
      /\ UNCHANGED << waitQueue, waiter, casting, list, got >>
      /\ item' = item \/ item' = [item EXCEPT ![t] = NoItem]
      /\ done' = done \/ done' = [done EXCEPT ![t] = FALSE]
  BY Zenon DEF AppendReturns, Apply, Return, Release, Go
<1>2. TypeOK'
  BY Zenon, <1>1
<1>3. OpOK'
  BY Zenon, <1>1 DEF OpOK
<1>4. Coming \subseteq Coming'
  BY ZenonT(40), <1>1 DEF Coming
<1> QED
  BY Zenon, <1>1, <1>2, <1>3, <1>4, StrandsNone

\* A thread goes to sleep only on an empty list.
LEMMA RemoveFrontWaitsSInv ==
  ASSUME SInv, MInv', NEW t \in Thread, RemoveFrontWaits(t)
  PROVE  TypeOK' /\ OpOK' /\ NoItemStranded'
<1> USE DEF SInv, MInv, MonitorTypeOK, TypeOK
<1>1. /\ at[t] = "in" /\ at' = [at EXCEPT ![t] = "waiting"]
      /\ op[t] = "RemoveFront" /\ UNCHANGED listVars
      /\ list = << >>
  BY Zenon DEF RemoveFrontWaits, Wait, Go
<1>2. TypeOK'
  BY Zenon, <1>1 DEF listVars
<1>3. OpOK'
  BY Zenon, <1>1 DEF OpOK, listVars
<1>4. Len(list') = 0 /\ Cardinality(Coming') \in Nat
  BY Zenon, <1>1, ComingFinite, FS_CardinalityType DEF listVars
<1>5. \A k \in Nat : 0 <= k
  OBVIOUS
<1> QED
  BY Zenon, <1>2, <1>3, <1>4, <1>5 DEF NoItemStranded

\* The thread that takes an item was coming, so one item and one thread fewer
\* remain.
LEMMA RemoveFrontReturnsSInv ==
  ASSUME SInv, MInv', NEW t \in Thread, RemoveFrontReturns(t)
  PROVE  TypeOK' /\ OpOK' /\ NoItemStranded'
<1> USE DEF SInv, MInv, MonitorTypeOK, TypeOK
<1>1. /\ at[t] = "in" /\ at' = [at EXCEPT ![t] = "out"]
      /\ op[t] = "RemoveFront" /\ op' = [op EXCEPT ![t] = "none"]
      /\ list # << >> /\ list' = Tail(list) /\ got' = [got EXCEPT ![t] = Head(list)]
      /\ UNCHANGED << waitQueue, waiter, casting, item, done >>
  BY Zenon DEF RemoveFrontReturns, Return, Release, Go
<1>2. /\ Head(list) \in Item /\ list' \in Seq(Item)
      /\ Len(list') = Len(list) - 1 /\ Len(list) \in Nat
  BY Zenon, <1>1, HeadTailProperties, LenProperties
<1>3. TypeOK'
  BY Zenon, <1>1, <1>2
<1>4. OpOK'
  BY Zenon, <1>1 DEF OpOK
<1>5. t \in Coming /\ Coming' = Coming \ {t}
  BY Zenon, <1>1 DEF Coming
<1>6. Cardinality(Coming') = Cardinality(Coming) - 1 /\ Cardinality(Coming) \in Nat
  BY Zenon, <1>5, ComingFinite, FS_RemoveElement, FS_CardinalityType
<1>7. NoItemStranded'
  BY <1>1, <1>2, <1>6 DEF NoItemStranded
<1> QED
  BY Zenon, <1>3, <1>4, <1>7

LEMMA NextSInv == SInv /\ [Next]_vars => SInv'
<1> SUFFICES ASSUME SInv, [Next]_vars PROVE SInv'
  BY Zenon
<1>1. MInv'
  BY Zenon, NextIsMonitorNext, NextMInv DEF SInv
<1>2. ASSUME NEW t \in Thread,
             \/ \E x \in Item : CallAppend(t, x)
             \/ CallRemoveFront(t)
             \/ CallApply(t)
      PROVE  SInv'
  BY Zenon, <1>1, <1>2, CallSInv DEF SInv
<1>3. ASSUME NEW t \in Thread, LockStep(t) /\ UNCHANGED listVars PROVE SInv'
  BY Zenon, <1>1, <1>3, LockStepSInv DEF SInv
<1>4. ASSUME NEW t \in Thread, Body(t) PROVE SInv'
  BY Zenon, <1>1, <1>4, AppendAndSignalSInv, ReturnSInv, RemoveFrontWaitsSInv,
     RemoveFrontReturnsSInv DEF SInv, Body
<1>5. CASE UNCHANGED vars
  BY Zenon, <1>1, <1>5 DEF vars, monitorVars, listVars, SInv, TypeOK, MInv, OpOK,
     NoItemStranded, Coming
<1> QED
  BY Zenon, <1>2, <1>3, <1>4, <1>5 DEF Next

LEMMA AlwaysSInv == Spec => []SInv
  BY InitSInv, NextSInv, PTL DEF Spec

-----------------------------------------------------------------------------
\* No item of a SynchList lies in the list while a consumer sleeps that nobody
\* has signalled, unless a consumer that will test the list is on its way for
\* it, for any number of producers and consumers.
THEOREM ItemsNotStranded == Spec => []NoItemStranded
<1>1. SInv => NoItemStranded
  BY Zenon DEF SInv
<1> QED
  BY <1>1, AlwaysSInv, PTL

\* A step of a SynchList is a step of the FIFO or changes nothing of it.
LEMMA StepIsFifoStep ==
  ASSUME SInv, [Next]_vars
  PROVE  [Fifo!FifoNext]_(Fifo!fifoVars)
<1> DEFINE wants == {u \in Consumer : op[u] = "RemoveFront"}
<1> USE DEF SInv, TypeOK
<1>0. Consumer \subseteq Thread
  BY Zenon, SynchListAssumption
<1>1. ASSUME NEW t \in Thread, NEW x \in Item, CallAppend(t, x)
      PROVE  UNCHANGED Fifo!fifoVars
  <2>1. op[t] = "none" /\ op' = [op EXCEPT ![t] = "Append"] /\ UNCHANGED << list, got >>
    BY Zenon, <1>1 DEF CallAppend, Call, CallAcquire, Go, OpOK
  <2> QED
    BY Zenon, <1>0, <2>1 DEF Fifo!fifoVars
<1>2. ASSUME NEW t \in Thread, CallRemoveFront(t)
      PROVE  Fifo!FifoNext
  <2>1. /\ t \in Consumer /\ op[t] = "none" /\ op' = [op EXCEPT ![t] = "RemoveFront"]
        /\ UNCHANGED << list, got >>
    BY Zenon, <1>2 DEF CallRemoveFront, Call, CallAcquire, Go, OpOK
  <2>2. t \notin wants /\ wants' = wants \cup {t}
    BY Zenon, <1>0, <2>1
  <2>3. Fifo!Want(t)
    BY Zenon, <2>1, <2>2 DEF Fifo!Want
  <2> QED
    BY Zenon, <2>1, <2>3 DEF Fifo!FifoNext
<1>3. ASSUME NEW t \in Thread, CallApply(t)
      PROVE  UNCHANGED Fifo!fifoVars
  <2>1. op[t] = "none" /\ op' = [op EXCEPT ![t] = "Apply"] /\ UNCHANGED << list, got >>
    BY Zenon, <1>3 DEF CallApply, Call, CallAcquire, Go, OpOK
  <2> QED
    BY Zenon, <1>0, <2>1 DEF Fifo!fifoVars
<1>4. ASSUME NEW t \in Thread, AppendAndSignal(t)
      PROVE  Fifo!FifoNext
  <2>1. /\ item[t] \in Item /\ list' = Append(list, item[t])
        /\ UNCHANGED << op, got >>
    BY Zenon, <1>4 DEF AppendAndSignal, OpOK
  <2>2. Fifo!Put(item[t])
    BY Zenon, <2>1 DEF Fifo!Put
  <2> QED
    BY Zenon, <2>1, <2>2 DEF Fifo!FifoNext
<1>5. ASSUME NEW t \in Thread, AppendReturns(t) \/ Apply(t)
      PROVE  UNCHANGED Fifo!fifoVars
  <2>1. /\ op[t] \in {"Append", "Apply"} /\ op' = [op EXCEPT ![t] = "none"]
        /\ UNCHANGED << list, got >>
    BY Zenon, <1>5 DEF AppendReturns, Apply, Return
  <2> QED
    BY Zenon, <1>0, <2>1 DEF Fifo!fifoVars
<1>6. ASSUME NEW t \in Thread, RemoveFrontReturns(t)
      PROVE  Fifo!FifoNext
  <2>1. /\ op[t] = "RemoveFront" /\ op' = [op EXCEPT ![t] = "none"]
        /\ list # << >> /\ list' = Tail(list) /\ got' = [got EXCEPT ![t] = Head(list)]
        /\ t \in Consumer
    BY Zenon, <1>6 DEF RemoveFrontReturns, Return, OpOK
  <2>2. t \in wants /\ wants' = wants \ {t}
    BY Zenon, <1>0, <2>1
  <2>3. Fifo!Get(t)
    BY Zenon, <2>1, <2>2 DEF Fifo!Get
  <2> QED
    BY Zenon, <2>1, <2>3 DEF Fifo!FifoNext
<1>7. UNCHANGED listVars => UNCHANGED Fifo!fifoVars
  BY Zenon DEF listVars, Fifo!fifoVars
<1>8. /\ UNCHANGED vars => UNCHANGED listVars
      /\ \A t \in Thread : RemoveFrontWaits(t) => UNCHANGED listVars
  BY Zenon DEF vars, RemoveFrontWaits
<1> QED
  BY ZenonT(40), <1>1, <1>2, <1>3, <1>4, <1>5, <1>6, <1>7, <1>8 DEF Next, Body

\* A SynchList is a FIFO (BlockingFifo without its fairness): items leave in the
\* order in which Append was called under the lock, each to one RemoveFront.
THEOREM SynchListIsFifo == Spec => Fifo!FifoSafety
<1>1. Init => Fifo!FifoInit
  BY Zenon, SynchListAssumption DEF Init, Fifo!FifoInit
<1>2. SInv /\ [Next]_vars => [Fifo!FifoNext]_(Fifo!fifoVars)
  BY Zenon, StepIsFifoStep
<1> QED
  BY <1>1, <1>2, AlwaysSInv, PTL DEF Spec, Fifo!FifoSafety

=============================================================================
