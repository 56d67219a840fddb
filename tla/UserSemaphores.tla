--------------------------- MODULE UserSemaphores ---------------------------
(***************************************************************************)
(* The semaphores of user programs: class STable (threads/STable.cc), its  *)
(* Sem objects (threads/sem.cc) and the system calls CreateSemaphore, Wait *)
(* and Signal (userprog/exception.cc).                                     *)
(*                                                                         *)
(* Programs share one table and find semaphores by name; nothing removes   *)
(* one.  A call runs with no context switch except inside Semaphore::P, so *)
(* a step is a whole call, or the part of Wait before or after the sleep.  *)
(***************************************************************************)
EXTENDS Integers, Sequences, FiniteSets, FiniteSetsExt

CONSTANTS MAX_SEMAPHORE, \* entries of the table
          Program, Name,
          Value,         \* initial values given to CreateSemaphore
          MaxSignals     \* bound: how often a semaphore is signalled

Slot == 0 .. MAX_SEMAPHORE - 1

VARIABLES
  bm,       \* the slots whose bit is set
  table,    \* slot -> the semaphore there: its name, value and queue
  at,       \* where a program is: "user", or the slot it waits in
  awake,    \* programs that V made ready and that are still inside P
  result,   \* register 2 of each program after its last call
  signals,  \* slot -> number of Signals
  waits     \* slot -> number of Waits that returned

vars == << bm, table, at, awake, result, signals, waits >>

User == -1
\* Sem::Sem
Sem(n, v) == [name |-> n, initial |-> v, value |-> v, queue |-> << >>]
NoSem == Sem("", 0)

\* STable::STable
Init ==
  /\ bm = {} /\ table = [i \in Slot |-> NoSem]
  /\ at = [p \in Program |-> User] /\ awake = {}
  /\ result = [p \in Program |-> 0]
  /\ signals = [i \in Slot |-> 0] /\ waits = [i \in Slot |-> 0]

\* The search by name that Create, Wait and Signal begin with.
Find(n) == LET found == {i \in bm : table[i].name = n}
           IN IF found = {} THEN -1 ELSE Min(found)

\* Bitmap::FindAndSet
FindFreeSlot == IF Slot \subseteq bm THEN -1 ELSE Min(Slot \ bm)

Return(p, r) == result' = [result EXCEPT ![p] = r]

\* STable::Create
Create(n, v) ==
  IF Find(n) # -1 \/ FindFreeSlot = -1 THEN UNCHANGED << bm, table >>
  ELSE /\ bm' = bm \cup {FindFreeSlot}
       /\ table' = [table EXCEPT ![FindFreeSlot] = Sem(n, v)]

Handle_CreateSemaphore(p, n, v) ==
  /\ at[p] = User
  /\ Create(n, v)
  /\ Return(p, IF bm' = bm THEN -1 ELSE 0)
  /\ UNCHANGED << at, awake, signals, waits >>

\* Mutant: the loop of P is an if: a thread that wakes up goes on.
PNoLoop(p, i) ==
  IF table[i].value = 0 /\ at[p] = User
  THEN /\ table' = [table EXCEPT ![i].queue = Append(@, p)]
       /\ at' = [at EXCEPT ![p] = i]
       /\ UNCHANGED << result, waits >>
  ELSE /\ table' = [table EXCEPT ![i].value = @ - 1]
       /\ at' = [at EXCEPT ![p] = User]
       /\ waits' = [waits EXCEPT ![i] = @ + 1]
       /\ Return(p, 0)

\* One turn of the loop of Semaphore::P: sleep while the value is zero, or
\* decrement it and return from Wait with 0.
P(p, i) ==
  IF table[i].value = 0
  THEN /\ table' = [table EXCEPT ![i].queue = Append(@, p)]
       /\ at' = [at EXCEPT ![p] = i]
       /\ UNCHANGED << result, waits >>
  ELSE /\ table' = [table EXCEPT ![i].value = @ - 1]
       /\ at' = [at EXCEPT ![p] = User]
       /\ waits' = [waits EXCEPT ![i] = @ + 1]
       /\ Return(p, 0)

\* STable::Wait
Wait(p, n) ==
  IF Find(n) = -1 THEN Return(p, -1) /\ UNCHANGED << table, at, waits >>
  ELSE P(p, Find(n))

Handle_Wait(p, n) ==
  /\ at[p] = User
  /\ Wait(p, n)
  /\ UNCHANGED << bm, awake, signals >>

\* A program that V made ready goes on in P.
WakeUp(p) ==
  /\ p \in awake
  /\ P(p, at[p])
  /\ awake' = awake \ {p}
  /\ UNCHANGED << bm, signals >>

\* Semaphore::V
V(i) ==
  LET s == table[i] IN
  /\ table' = [table EXCEPT ![i].value = @ + 1, ![i].queue = IF @ = << >> THEN @ ELSE Tail(@)]
  /\ awake' = IF s.queue = << >> THEN awake ELSE awake \cup {Head(s.queue)}

\* STable::Signal
Signal(p, n) ==
  IF Find(n) = -1 THEN Return(p, -1) /\ UNCHANGED << table, awake, signals >>
  ELSE /\ signals[Find(n)] < MaxSignals
       /\ V(Find(n)) /\ Return(p, 0)
       /\ signals' = [signals EXCEPT ![Find(n)] = @ + 1]

Handle_Signal(p, n) ==
  /\ at[p] = User
  /\ Signal(p, n)
  /\ UNCHANGED << bm, at, waits >>

Next ==
  \E p \in Program :
    \/ WakeUp(p)
    \/ \E n \in Name : Handle_Wait(p, n) \/ Handle_Signal(p, n)
    \/ \E n \in Name, v \in Value : Handle_CreateSemaphore(p, n, v)

Spec == Init /\ [][Next]_vars

-----------------------------------------------------------------------------
\* Names are unique (STable::Create refuses a name it finds), so that all
\* programs that use a name use one semaphore, and a table that fills up or is
\* searched by several programs never gives out one that exists.
OneSemaphorePerName ==
  \A i, j \in bm : table[i].name = table[j].name => i = j

\* Waits that returned are paid for by the initial value and by Signals,
\* whatever the order of calls (Semaphore::P looks at the value again after
\* every sleep); nothing is lost either.
WaitsArePaid ==
  \A i \in bm : /\ waits[i] <= table[i].initial + signals[i]
                /\ table[i].value = table[i].initial + signals[i] - waits[i]

\* No lost wakeup (STable::Signal, Semaphore::V): while programs sleep in a
\* semaphore, as many others are on their way out of P as its value lets
\* through.
NoLostSignal ==
  \A i \in bm : table[i].queue # << >> =>
    Cardinality({p \in awake : at[p] = i}) >= table[i].value

\* Programs can rely on the semaphores of STable as on those of the kernel: see
\* the three properties above.
UserSemaphoresSound == OneSemaphorePerName /\ WaitsArePaid /\ NoLostSignal

\* threads/synch.h: the value is "always >= 0".
ValueNeverNegative == \A i \in bm : table[i].value >= 0

=============================================================================
