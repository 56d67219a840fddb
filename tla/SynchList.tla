------------------------------ MODULE SynchList ------------------------------
(***************************************************************************)
(* class SynchList of threads/synchlist.cc: a list protected by a lock,    *)
(* with one condition, listEmpty, for the consumers.  It carries the mail  *)
(* of network/post.cc.                                                     *)
(***************************************************************************)
EXTENDS Monitor, FiniteSets

CONSTANTS Producer, Consumer, Observer,  \* who calls Append, RemoveFront, Apply
          Item, NoItem,
          listEmpty                      \* its condition

ASSUME SynchListAssumption ==
  /\ Producer \cup Consumer \cup Observer \subseteq Thread
  /\ listEmpty \in Condition
  /\ NoItem \notin Item
  /\ IsFiniteSet(Thread)

VARIABLES list,   \* SynchList::list
          op,     \* the operation a thread is in, "none" outside
          item,   \* the item a producer appends
          done,   \* the producer has appended it and is about to release
          got     \* what a consumer's last RemoveFront returned

listVars == << list, op, item, done, got >>
vars == << monitorVars, listVars >>

Init ==
  /\ MonitorInit
  /\ list = << >>
  /\ op = [t \in Thread |-> "none"]
  /\ item = [t \in Thread |-> NoItem]
  /\ done = [t \in Thread |-> FALSE]
  /\ got = [t \in Consumer |-> NoItem]

InList(x) == \E i \in DOMAIN list : list[i] = x

-----------------------------------------------------------------------------
Call(t, o) == CallAcquire(t) /\ op' = [op EXCEPT ![t] = o]
Return(t) == Release(t) /\ op' = [op EXCEPT ![t] = "none"]

\* Append is called with an item that is on no list (List::Append asserts it).
CallAppend(t, x) ==
  /\ t \in Producer
  /\ ~InList(x) /\ \A u \in Thread : item[u] # x
  /\ Call(t, "Append")
  /\ item' = [item EXCEPT ![t] = x]
  /\ UNCHANGED << list, done, got >>

CallRemoveFront(t) ==
  t \in Consumer /\ Call(t, "RemoveFront") /\ UNCHANGED << list, item, done, got >>
CallApply(t) ==
  t \in Observer /\ Call(t, "Apply") /\ UNCHANGED << list, item, done, got >>

\* Mutant: Append does not signal.
AppendNoSignal(t) ==
  /\ op[t] = "Append" /\ ~done[t]
  /\ at[t] = "in"
  /\ list' = Append(list, item[t])
  /\ done' = [done EXCEPT ![t] = TRUE]
  /\ UNCHANGED << monitorVars, op, item, got >>

\* Mutant: Append puts the item in front.
PrependAndSignal(t) ==
  /\ op[t] = "Append" /\ ~done[t]
  /\ at[t] = "in"
  /\ list' = << item[t] >> \o list
  /\ done' = [done EXCEPT ![t] = TRUE]
  /\ WakeFirst(listEmpty)
  /\ UNCHANGED << at, casting, op, item, got >>

\* list->Append(item); listEmpty->Signal(lock)
AppendAndSignal(t) ==
  /\ op[t] = "Append" /\ ~done[t]
  /\ at[t] = "in"
  /\ list' = Append(list, item[t])
  /\ done' = [done EXCEPT ![t] = TRUE]
  /\ WakeFirst(listEmpty)
  /\ UNCHANGED << at, casting, op, item, got >>

\* lock->Release() at the end of Append.
AppendReturns(t) ==
  /\ op[t] = "Append" /\ done[t]
  /\ Return(t)
  /\ done' = [done EXCEPT ![t] = FALSE]
  /\ item' = [item EXCEPT ![t] = NoItem]
  /\ UNCHANGED << list, got >>

\* RemoveFront tests the list under the lock: it waits, or takes the first item
\* and releases the lock.
RemoveFrontWaits(t) ==
  /\ op[t] = "RemoveFront"
  /\ list = << >>
  /\ Wait(t, listEmpty)
  /\ UNCHANGED listVars

RemoveFrontReturns(t) ==
  /\ op[t] = "RemoveFront"
  /\ list # << >>
  /\ list' = Tail(list)
  /\ got' = [got EXCEPT ![t] = Head(list)]
  /\ Return(t)
  /\ UNCHANGED << item, done >>

\* list->Apply(func) and the release.
Apply(t) == op[t] = "Apply" /\ Return(t) /\ UNCHANGED << list, item, done, got >>

Body(t) == \/ AppendAndSignal(t) \/ AppendReturns(t)
           \/ RemoveFrontWaits(t) \/ RemoveFrontReturns(t) \/ Apply(t)

Next ==
  \E t \in Thread :
    \/ \E x \in Item : CallAppend(t, x)
    \/ CallRemoveFront(t)
    \/ CallApply(t)
    \/ LockStep(t) /\ UNCHANGED listVars
    \/ Body(t)

\* A thread that is not blocked goes on.  The lock goes to some thread that asks
\* for it (SemaphoreAbs), not to each: a later P may overtake an earlier one.
Fairness ==
  /\ WF_vars(\E t \in Thread : LockP(t) /\ UNCHANGED listVars)
  /\ \A t \in Thread : /\ WF_vars(SetHolder(t) /\ UNCHANGED listVars)
                       /\ WF_vars(WaiterP(t) /\ UNCHANGED listVars)
                       /\ WF_vars(Body(t))

Spec == Init /\ [][Next]_vars
FairSpec == Spec /\ Fairness

-----------------------------------------------------------------------------
TypeOK ==
  /\ MonitorTypeOK
  /\ list \in Seq(Item)
  /\ op \in [Thread -> {"none", "Append", "RemoveFront", "Apply"}]
  /\ item \in [Thread -> Item \cup {NoItem}]
  /\ done \in [Thread -> BOOLEAN]
  /\ got \in [Consumer -> Item \cup {NoItem}]

\* Consumers that were signalled, or are past the lock, and will test the list.
Coming == {t \in Thread : /\ op[t] = "RemoveFront"
                          /\ \/ at[t] = "waiting" /\ waiter[t] = 1
                             \/ at[t] \in {"reacquire", "reacquired", "in"}}

\* No item is stranded: if a consumer sleeps on listEmpty with no signal on its
\* way, each item of the list has a consumer that is coming to test the list,
\* although a consumer that never waited may take the item of one that did.
NoItemStranded ==
  waitQueue[listEmpty] # << >> => Len(list) <= Cardinality(Coming)

Fifo == INSTANCE BlockingFifo
          WITH fifo <- list,
               wants <- {t \in Consumer : op[t] = "RemoveFront"}

\* A SynchList is a blocking FIFO: order, no loss, no duplication, and progress.
ImplementsFifo == Fifo!FifoSpec

=============================================================================
