------------------------ MODULE UserSemaphoresProofs ------------------------
(***************************************************************************)
(* Proofs about UserSemaphores.tla, for any size of the table, any         *)
(* programs and any names, when programs create semaphores with values     *)
(* that are not negative (Sound).                                          *)
(*                                                                         *)
(* A program is in one place: outside, in one queue, or woken and on its   *)
(* way out of P.  So V adds to the woken ones a program that was not among *)
(* them, and NoLostSignal is kept when values and queues change together.  *)
(***************************************************************************)
EXTENDS UserSemaphores, TLAPS, FiniteSetTheorems, SequenceTheorems

\* The constants: values are what synch.h asks for, and programs are finitely
\* many.
Sound ==
  /\ MAX_SEMAPHORE \in Nat
  /\ Value \subseteq Nat /\ IsFiniteSet(Program)

SemType == [name : Name \cup {""}, initial : Nat, value : Nat, queue : Seq(Program)]

TypeInv ==
  /\ bm \subseteq Slot
  /\ table \in [Slot -> SemType]
  /\ at \in [Program -> Slot \cup {User}]
  /\ awake \subseteq Program
  /\ signals \in [Slot -> Nat] /\ waits \in [Slot -> Nat]

\* A slot that is free was never used, and a program stands in a used one.
FreshInv ==
  /\ \A i \in Slot \ bm : signals[i] = 0 /\ waits[i] = 0
  /\ \A p \in Program : at[p] \in bm \cup {User}

\* Programs in a queue are in it once, wait there and are not woken.
QueueOf(i) ==
  /\ \A k \in DOMAIN table[i].queue :
       at[table[i].queue[k]] = i /\ table[i].queue[k] \notin awake
  /\ \A k, l \in DOMAIN table[i].queue : table[i].queue[k] = table[i].queue[l] => k = l

QueueInv ==
  /\ \A i \in bm : QueueOf(i)
  /\ \A p \in awake : at[p] # User

UInv == TypeInv /\ FreshInv /\ QueueInv /\ UserSemaphoresSound

\* The programs that are on their way out of P.
Going(i) == {p \in awake : at[p] = i}

-----------------------------------------------------------------------------
(* Operators of the model.                                                 *)

LEMMA MinOfNaturals ==
  ASSUME NEW T, T \subseteq Nat, T # {}
  PROVE  Min(T) \in T
<1> DEFINE less == OpToRel(<, Nat)
<1>1. IsWellFoundedOn(less, Nat)
  BY Zenon, NatLessThanWellFounded
<1>2. \A x, y \in Nat : <<y, x>> \in less <=> y < x
  BY Zenon DEF OpToRel
<1> HIDE DEF less
<1>3. PICK x \in T : \A y \in T : ~ (<<y, x>> \in less)
  BY Zenon, <1>1, WFMin
<1>4. ASSUME NEW y \in T PROVE x <= y
  <2>1. x \in Nat /\ y \in Nat
    BY Zenon
  <2>2. ~(y < x)
    BY Zenon, <1>2, <1>3, <2>1
  <2> QED
    BY <2>1, <2>2
<1> QED
  BY Zenon, <1>4 DEF Min

LEMMA FindFinds ==
  ASSUME Sound, TypeInv, NEW n
  PROVE  /\ Find(n) # -1 => Find(n) \in bm /\ table[Find(n)].name = n
         /\ Find(n) = -1 => \A i \in bm : table[i].name # n
<1> DEFINE found == {i \in bm : table[i].name = n}
<1>1. found \subseteq Nat
  <2>1. bm \subseteq Nat
    BY DEF Sound, TypeInv, Slot
  <2> QED
    BY Zenon, <2>1
<1>2. CASE found = {}
  <2>1. Find(n) = -1
    BY Zenon, <1>2 DEF Find
  <2>2. \A i \in bm : table[i].name # n
    BY Zenon, <1>2
  <2> QED
    BY Zenon, <2>1, <2>2
<1>3. CASE found # {}
  <2>1. Min(found) \in found
    BY Zenon, <1>1, <1>3, MinOfNaturals
  <2>2. Find(n) = Min(found)
    BY Zenon, <1>3 DEF Find
  <2> HIDE DEF found
  <2>3. Find(n) \in found /\ Find(n) # -1
    BY <1>1, <2>1, <2>2
  <2> QED
    BY Zenon, <2>3 DEF found
<1> QED
  BY Zenon, <1>2, <1>3

LEMMA FreeSlotIsFree ==
  ASSUME Sound, FindFreeSlot # -1
  PROVE  FindFreeSlot \in Slot /\ FindFreeSlot \notin bm
<1>1. Slot \ bm # {} /\ Slot \ bm \subseteq Nat
  BY DEF Sound, Slot, FindFreeSlot
<1>2. Min(Slot \ bm) \in Slot \ bm
  BY Zenon, <1>1, MinOfNaturals
<1> QED
  BY Zenon, <1>1, <1>2 DEF FindFreeSlot

LEMMA UserIsNoSlot == Sound => User \notin Slot
  BY DEF Sound, Slot, User

\* lib/list.cc Append and RemoveFront, by position.
LEMMA QueueAppend ==
  ASSUME NEW q \in Seq(Program), NEW p \in Program
  PROVE  /\ Append(q, p) \in Seq(Program) /\ Append(q, p) # << >>
         /\ DOMAIN Append(q, p) = DOMAIN q \cup {Len(q) + 1}
         /\ Append(q, p)[Len(q) + 1] = p
         /\ \A k \in DOMAIN q : Append(q, p)[k] = q[k] /\ q[k] \in Program
<1>1. /\ Append(q, p) \in Seq(Program)
      /\ Len(Append(q, p)) = Len(q) + 1
      /\ Append(q, p)[Len(q) + 1] = p
      /\ \A k \in 1 .. Len(q) : Append(q, p)[k] = q[k]
  BY AppendProperties
<1>2. /\ DOMAIN q = 1 .. Len(q) /\ Len(q) \in Nat
      /\ DOMAIN Append(q, p) = 1 .. Len(q) + 1
      /\ \A k \in 1 .. Len(q) : q[k] \in Program
  BY Zenon, <1>1, LenProperties, ElementOfSeq
<1> QED
  BY <1>1, <1>2

LEMMA QueueTail ==
  ASSUME NEW q \in Seq(Program), q # << >>
  PROVE  /\ Head(q) \in Program /\ Tail(q) \in Seq(Program)
         /\ 1 \in DOMAIN q /\ Head(q) = q[1]
         /\ \A k \in DOMAIN Tail(q) :
              k \in Nat /\ k + 1 \in DOMAIN q /\ k + 1 # 1 /\ Tail(q)[k] = q[k + 1]
<1>1. /\ Head(q) \in Program /\ Tail(q) \in Seq(Program)
      /\ Len(Tail(q)) = Len(q) - 1
      /\ \A k \in 1 .. Len(Tail(q)) : Tail(q)[k] = q[k + 1]
  BY Zenon, HeadTailProperties
<1>2. /\ DOMAIN q = 1 .. Len(q) /\ Len(q) \in Nat \ {0}
      /\ DOMAIN Tail(q) = 1 .. Len(q) - 1
  BY Zenon, <1>1, LenProperties, EmptySeq
<1> QED
  BY <1>1, <1>2

\* What an assignment to a field of a Sem leaves alone.
LEMMA SetValue ==
  ASSUME NEW s \in SemType, NEW v \in Nat
  PROVE  LET t == [s EXCEPT !.value = v]
         IN /\ t \in SemType
            /\ t.name = s.name /\ t.initial = s.initial /\ t.value = v /\ t.queue = s.queue
  BY Zenon DEF SemType

LEMMA NewSem ==
  ASSUME NEW n \in Name, NEW v \in Nat
  PROVE  /\ Sem(n, v) \in SemType /\ Sem(n, v).name = n /\ Sem(n, v).initial = v
         /\ Sem(n, v).value = v /\ Sem(n, v).queue = << >>
<1>1. << >> \in Seq(Program) /\ n \in Name \cup {""}
  BY Zenon, EmptySeq
<1>2. /\ Sem(n, v).name = n /\ Sem(n, v).initial = v
      /\ Sem(n, v).value = v /\ Sem(n, v).queue = << >>
  BY Zenon DEF Sem
<1>3. Sem(n, v) \in SemType
  BY Zenon, <1>1 DEF Sem, SemType
<1> QED
  BY Zenon, <1>2, <1>3

LEMMA GoingIsFinite ==
  ASSUME Sound, TypeInv
  PROVE  \A i : IsFiniteSet(Going(i)) /\ Cardinality(Going(i)) \in Nat
<1>1. \A i : Going(i) \subseteq Program
  BY Zenon DEF TypeInv, Going
<1> QED
  BY Zenon, <1>1, FS_Subset, FS_CardinalityType DEF Sound

-----------------------------------------------------------------------------
(* One turn of the loop of Semaphore::P.                                   *)

\* The program that makes it is in no queue.
LEMMA NotQueued ==
  ASSUME Sound, UInv, NEW p \in Program, at[p] = User \/ p \in awake
  PROVE  \A j \in bm : \A k \in DOMAIN table[j].queue : table[j].queue[k] # p
<1> SUFFICES ASSUME NEW j \in bm, NEW k \in DOMAIN table[j].queue, table[j].queue[k] = p
             PROVE  FALSE
  BY Zenon
<1>1. at[p] = j /\ p \notin awake
  BY Zenon DEF UInv, QueueInv, QueueOf
<1> QED
  BY Zenon, <1>1, UserIsNoSlot DEF UInv, TypeInv

\* It leaves the woken ones of every other semaphore alone.
LEMMA GoingLeft ==
  ASSUME Sound, UInv, TypeInv', NEW p \in Program, NEW i \in bm, NEW to,
         at[p] \in {User, i}, at' = [at EXCEPT ![p] = to], awake' = awake \ {p}
  PROVE  /\ \A j \in bm : j # i => Going(j)' = Going(j)
         /\ Cardinality(Going(i)') \in Nat
         /\ Cardinality(Going(i)') >= Cardinality(Going(i)) - 1
         /\ at[p] = User => Going(i)' = Going(i)
<1>1. /\ User \notin bm /\ awake \subseteq Program
      /\ \A r \in Program : r # p => at'[r] = at[r]
      /\ at[p] = User => p \notin awake
  BY Zenon, UserIsNoSlot DEF UInv, TypeInv, QueueInv
<1>2. \A j : Going(j)' = Going(j) \ {p}
  BY Zenon, <1>1 DEF Going
<1>3. \A j \in bm : j # i => p \notin Going(j)
  BY Zenon, <1>1 DEF Going
<1>4. at[p] = User => p \notin Going(i)
  BY Zenon, <1>1 DEF Going
<1>5. IsFiniteSet(Going(i)) /\ Cardinality(Going(i)) \in Nat
  BY Zenon, GoingIsFinite DEF UInv
<1> HIDE DEF Going
<1>6. /\ Cardinality(Going(i) \ {p}) \in Nat
      /\ Cardinality(Going(i) \ {p}) >= Cardinality(Going(i)) - 1
  <2>1. IsFiniteSet(Going(i) \ {p})
    BY Zenon, <1>5, FS_Subset
  <2>2. CASE p \in Going(i)
    <3>1. Cardinality(Going(i) \ {p}) = Cardinality(Going(i)) - 1
      BY Zenon, <1>5, <2>2, FS_RemoveElement
    <3>2. Cardinality(Going(i) \ {p}) \in Nat
      BY Zenon, <2>1, FS_CardinalityType
    <3> QED
      BY <1>5, <3>1, <3>2
  <2>3. CASE p \notin Going(i)
    <3>1. Going(i) \ {p} = Going(i)
      BY Zenon, <2>3
    <3> QED
      BY <1>5, <3>1
  <2> QED
    BY Zenon, <2>2, <2>3
<1> QED
  BY Zenon, <1>2, <1>3, <1>4, <1>6

\* What a step on semaphore i leaves of the others.
LEMMA OthersKept ==
  ASSUME Sound, UInv, TypeInv', NEW i \in bm, bm' = bm,
         \A j \in Slot : j # i => table'[j] = table[j] /\ signals'[j] = signals[j]
                                  /\ waits'[j] = waits[j],
         table'[i].name = table[i].name /\ table'[i].initial = table[i].initial,
         table'[i].value = table'[i].initial + signals'[i] - waits'[i],
         \A j \in bm : j # i => Going(j)' = Going(j),
         table'[i].queue # << >> => Cardinality(Going(i)') >= table'[i].value
  PROVE  UserSemaphoresSound'
<1>1. bm \subseteq Slot
  BY Zenon DEF UInv, TypeInv
<1>2. OneSemaphorePerName'
  BY <1>1 DEF UInv, UserSemaphoresSound, OneSemaphorePerName
<1>3. WaitsArePaid'
  <2> SUFFICES ASSUME NEW j \in bm
               PROVE  /\ waits'[j] <= table'[j].initial + signals'[j]
                      /\ table'[j].value = table'[j].initial + signals'[j] - waits'[j]
    BY Zenon DEF WaitsArePaid
  <2>1. CASE j # i
    BY Zenon, <1>1, <2>1 DEF UInv, UserSemaphoresSound, WaitsArePaid
  <2>2. CASE j = i
    <3>1. /\ table'[i].value \in Nat /\ table'[i].initial \in Nat
          /\ signals'[i] \in Nat /\ waits'[i] \in Nat
      BY Zenon, <1>1 DEF TypeInv, SemType
    <3> QED
      BY <2>2, <3>1
  <2> QED
    BY Zenon, <2>1, <2>2
<1>4. NoLostSignal'
  <2> SUFFICES ASSUME NEW j \in bm, table'[j].queue # << >>
               PROVE  Cardinality(Going(j)') >= table'[j].value
    BY Zenon DEF NoLostSignal, Going
  <2>1. CASE j # i
    BY Zenon, <1>1, <2>1 DEF UInv, UserSemaphoresSound, NoLostSignal, Going
  <2> QED
    BY Zenon, <2>1
<1> QED
  BY Zenon, <1>2, <1>3, <1>4 DEF UserSemaphoresSound

LEMMA PKeeps ==
  ASSUME Sound, UInv, NEW p \in Program, NEW i \in bm, P(p, i),
         bm' = bm, signals' = signals, awake' = awake \ {p},
         at[p] = User \/ (p \in awake /\ at[p] = i)
  PROVE  UInv'
<1> DEFINE q == table[i].queue
<1>1. /\ bm \subseteq Slot /\ i \in Slot /\ table \in [Slot -> SemType]
      /\ table[i] \in SemType /\ table[i].value \in Nat /\ q \in Seq(Program)
      /\ awake \subseteq Program /\ waits \in [Slot -> Nat] /\ waits[i] \in Nat
      /\ at \in [Program -> Slot \cup {User}]
  BY Zenon DEF UInv, TypeInv, SemType
<1>2. \A j \in bm : \A k \in DOMAIN table[j].queue : table[j].queue[k] # p
  BY Zenon, NotQueued
<1>3. \A j \in bm : table[j].queue \in Seq(Program)
                  /\ \A k \in DOMAIN table[j].queue : table[j].queue[k] \in Program
  <2>1. \A j \in bm : table[j].queue \in Seq(Program)
    BY Zenon, <1>1 DEF SemType
  <2>2. \A u \in Seq(Program) : \A k \in DOMAIN u : u[k] \in Program
    BY Zenon, ElementOfSeq, LenProperties
  <2> QED
    BY Zenon, <2>1, <2>2
<1>4. User \notin Slot
  BY Zenon, UserIsNoSlot
<1>5. CASE table[i].value = 0
  <2>1. /\ table' = [table EXCEPT ![i].queue = Append(@, p)]
        /\ at' = [at EXCEPT ![p] = i] /\ waits' = waits
    BY Zenon, <1>5 DEF P
  <2>2. /\ Append(q, p) \in Seq(Program)
        /\ DOMAIN Append(q, p) = DOMAIN q \cup {Len(q) + 1}
        /\ Append(q, p)[Len(q) + 1] = p
        /\ \A k \in DOMAIN q : Append(q, p)[k] = q[k] /\ q[k] \in Program
    BY Zenon, <1>1, QueueAppend
  <2>3. /\ table' \in [Slot -> SemType]
        /\ table'[i].queue = Append(q, p) /\ table'[i].value = table[i].value
        /\ table'[i].name = table[i].name /\ table'[i].initial = table[i].initial
        /\ \A j \in Slot : j # i => table'[j] = table[j]
    BY Zenon, <1>1, <2>1, <2>2 DEF SemType
  <2> HIDE DEF q
  <2>4. TypeInv'
    BY Zenon, <1>1, <2>1, <2>3 DEF UInv, TypeInv
  <2>5. FreshInv'
    BY Zenon, <1>1, <2>1 DEF UInv, FreshInv
  <2>6. at'[p] = i /\ \A r \in Program : r # p => at'[r] = at[r]
    BY Zenon, <1>1, <2>1
  <2>7. ASSUME NEW j \in bm PROVE QueueOf(j)'
    <3>1. CASE j # i
      BY <1>1, <1>2, <1>3, <2>3, <2>6, <3>1 DEF UInv, QueueInv, QueueOf
    <3>2. CASE j = i
      <4>1. ASSUME NEW k \in DOMAIN Append(q, p)
            PROVE  at'[Append(q, p)[k]] = i /\ Append(q, p)[k] \notin awake'
        <5>1. CASE k \in DOMAIN q
          BY <1>2, <2>2, <2>6, <5>1 DEF UInv, QueueInv, QueueOf, q
        <5>2. CASE k = Len(q) + 1
          BY Zenon, <2>2, <2>6, <5>2
        <5> QED
          BY Zenon, <2>2, <5>1, <5>2
      <4>2. ASSUME NEW k \in DOMAIN Append(q, p), NEW l \in DOMAIN Append(q, p),
                   Append(q, p)[k] = Append(q, p)[l]
            PROVE  k = l
        <5>1. /\ \A m \in DOMAIN q : q[m] # p
              /\ \A m, o \in DOMAIN q : q[m] = q[o] => m = o
          BY Zenon, <1>2 DEF UInv, QueueInv, QueueOf, q
        <5> QED
          BY Zenon, <2>2, <4>2, <5>1
      <4> HIDE DEF q
      <4>3. table'[i].queue = Append(q, p)
        BY Zenon, <2>3
      <4> QED
        BY ZenonT(40), <3>2, <4>1, <4>2, <4>3 DEF QueueOf
    <3> QED
      BY Zenon, <3>1, <3>2
  <2>8. QueueInv'
    BY Zenon, <1>1, <2>6, <2>7 DEF UInv, QueueInv
  <2>9. UserSemaphoresSound'
    <3>1. /\ \A j \in bm : j # i => Going(j)' = Going(j)
          /\ Cardinality(Going(i)') \in Nat
      BY Zenon, <2>1, <2>4, GoingLeft
    <3>2. table'[i].value = table'[i].initial + signals'[i] - waits'[i]
      BY Zenon, <2>1, <2>3 DEF UInv, UserSemaphoresSound, WaitsArePaid
    <3>3. Cardinality(Going(i)') >= table'[i].value
      BY <1>5, <2>3, <3>1
    <3> QED
      BY Zenon, <2>1, <2>3, <2>4, <3>1, <3>2, <3>3, OthersKept
  <2> QED
    BY Zenon, <2>4, <2>5, <2>8, <2>9 DEF UInv
<1>6. CASE table[i].value # 0
  <2>1. /\ table' = [table EXCEPT ![i].value = @ - 1]
        /\ at' = [at EXCEPT ![p] = User]
        /\ waits' = [waits EXCEPT ![i] = @ + 1]
    BY Zenon, <1>6 DEF P
  <2>2. /\ table' \in [Slot -> SemType]
        /\ table'[i].queue = q /\ table'[i].value = table[i].value - 1
        /\ table'[i].name = table[i].name /\ table'[i].initial = table[i].initial
        /\ \A j \in Slot : j # i => table'[j] = table[j]
    <3> DEFINE t == [table[i] EXCEPT !.value = table[i].value - 1]
    <3>1. table[i].value - 1 \in Nat
      BY <1>1, <1>6
    <3>2. /\ t \in SemType
          /\ t.name = table[i].name /\ t.initial = table[i].initial
          /\ t.value = table[i].value - 1 /\ t.queue = q
      BY Zenon, <1>1, <3>1, SetValue
    <3>3. table' = [table EXCEPT ![i] = t]
      BY Zenon, <2>1
    <3> HIDE DEF t, q
    <3> QED
      BY Zenon, <1>1, <3>2, <3>3
  <2>3. /\ waits' \in [Slot -> Nat] /\ waits'[i] = waits[i] + 1
        /\ \A j \in Slot : j # i => waits'[j] = waits[j]
    BY <1>1, <2>1
  <2> HIDE DEF q
  <2>4. TypeInv'
    BY Zenon, <1>1, <2>1, <2>2, <2>3 DEF UInv, TypeInv
  <2>5. FreshInv'
    BY Zenon, <1>1, <2>1, <2>3 DEF UInv, FreshInv
  <2>6. at'[p] = User /\ \A r \in Program : r # p => at'[r] = at[r]
    BY Zenon, <1>1, <2>1
  <2>7. \A j \in bm : table'[j].queue = table[j].queue
    BY Zenon, <1>1, <2>2 DEF q
  <2>8. QueueInv'
    <3>1. ASSUME NEW j \in bm PROVE QueueOf(j)'
      BY <1>2, <1>3, <2>6, <2>7 DEF UInv, QueueInv, QueueOf
    <3> QED
      BY Zenon, <1>1, <2>6, <3>1 DEF UInv, QueueInv
  <2>9. UserSemaphoresSound'
    <3>1. /\ \A j \in bm : j # i => Going(j)' = Going(j)
          /\ Cardinality(Going(i)') \in Nat
          /\ Cardinality(Going(i)') >= Cardinality(Going(i)) - 1
      BY Zenon, <2>1, <2>4, GoingLeft
    <3>2. table'[i].value = table'[i].initial + signals'[i] - waits'[i]
      <4>1. /\ table[i].value = table[i].initial + signals[i] - waits[i]
            /\ table[i].initial \in Nat /\ signals[i] \in Nat
        BY Zenon, <1>1 DEF UInv, TypeInv, SemType, UserSemaphoresSound, WaitsArePaid
      <4> QED
        BY SMTT(30), <1>1, <2>2, <2>3, <4>1
    <3>3. table'[i].queue # << >> => Cardinality(Going(i)') >= table'[i].value
      <4>1. q # << >> => Cardinality(Going(i)) >= table[i].value
        BY Zenon DEF UInv, UserSemaphoresSound, NoLostSignal, Going, q
      <4>2. Cardinality(Going(i)) \in Nat
        BY Zenon, GoingIsFinite DEF UInv
      <4> QED
        BY <1>1, <2>2, <3>1, <4>1, <4>2
    <3> QED
      BY Zenon, <1>1, <2>2, <2>3, <2>4, <3>1, <3>2, <3>3, OthersKept
  <2> QED
    BY Zenon, <2>4, <2>5, <2>8, <2>9 DEF UInv
<1> QED
  BY Zenon, <1>5, <1>6

-----------------------------------------------------------------------------
(* Semaphore::V, and the count of the Signal that calls it.                *)

LEMMA VKeeps ==
  ASSUME Sound, UInv, NEW i \in bm, V(i),
         bm' = bm, at' = at, waits' = waits,
         signals' = [signals EXCEPT ![i] = @ + 1]
  PROVE  UInv'
<1> DEFINE q == table[i].queue
<1> DEFINE v == table[i].value + 1
<1> DEFINE rest == IF q = << >> THEN q ELSE Tail(q)
<1>1. /\ bm \subseteq Slot /\ i \in Slot /\ table \in [Slot -> SemType]
      /\ table[i] \in SemType /\ table[i].value \in Nat /\ q \in Seq(Program)
      /\ awake \subseteq Program /\ signals \in [Slot -> Nat] /\ signals[i] \in Nat
      /\ waits[i] \in Nat /\ table[i].initial \in Nat
  BY Zenon DEF UInv, TypeInv, SemType
<1>2. v \in Nat /\ v = table[i].value + 1
  BY <1>1
<1>3. q # << >> => /\ Head(q) \in Program /\ Tail(q) \in Seq(Program)
                   /\ 1 \in DOMAIN q /\ Head(q) = q[1]
                   /\ \A k \in DOMAIN Tail(q) :
                        k \in Nat /\ k + 1 \in DOMAIN q /\ k + 1 # 1 /\ Tail(q)[k] = q[k + 1]
  BY Zenon, <1>1, QueueTail
<1>4. /\ table' \in [Slot -> SemType]
      /\ table'[i].queue = rest /\ table'[i].value = v
      /\ table'[i].name = table[i].name /\ table'[i].initial = table[i].initial
      /\ \A j \in Slot : j # i => table'[j] = table[j]
  <2> DEFINE t == [[table[i] EXCEPT !.value = v] EXCEPT !.queue = rest]
  <2>1. rest \in Seq(Program)
    BY Zenon, <1>1, <1>3
  <2>2. table' = [table EXCEPT ![i] = t]
    BY Zenon, <1>1 DEF V
  <2> HIDE DEF rest, v, q
  <2>3. /\ t \in SemType
        /\ t.name = table[i].name /\ t.initial = table[i].initial
        /\ t.value = v /\ t.queue = rest
    <3>1. PICK s \in SemType, w \in Nat, u \in Seq(Program) :
            s = table[i] /\ w = v /\ u = rest
      BY Zenon, <1>1, <1>2, <2>1
    <3>2. t = [[s EXCEPT !.value = w] EXCEPT !.queue = u]
      BY Zenon, <3>1
    <3> HIDE DEF t
    <3> QED
      BY Zenon, <3>1, <3>2 DEF SemType
  <2> HIDE DEF t
  <2> QED
    BY Zenon, <1>1, <2>2, <2>3
<1>5. awake' = IF q = << >> THEN awake ELSE awake \cup {Head(q)}
  BY Zenon DEF V
<1>6. /\ signals' \in [Slot -> Nat] /\ signals'[i] = signals[i] + 1
      /\ \A j \in Slot : j # i => signals'[j] = signals[j]
  BY <1>1
<1>7. q # << >> => /\ at[Head(q)] = i /\ Head(q) \notin awake
                   /\ \A k \in DOMAIN Tail(q) : Tail(q)[k] # Head(q)
  BY <1>3 DEF UInv, QueueInv, QueueOf
<1> HIDE DEF v, q
<1>8. TypeInv'
  BY Zenon, <1>1, <1>3, <1>4, <1>5, <1>6 DEF UInv, TypeInv
<1>9. FreshInv'
  BY Zenon, <1>1, <1>6 DEF UInv, FreshInv
<1>10. ASSUME NEW j \in bm PROVE QueueOf(j)'
  <2>1. /\ \A k \in DOMAIN table[j].queue :
              at[table[j].queue[k]] = j /\ table[j].queue[k] \notin awake
        /\ \A k, l \in DOMAIN table[j].queue : table[j].queue[k] = table[j].queue[l] => k = l
    BY Zenon DEF UInv, QueueInv, QueueOf
  <2>2. CASE j # i
    <3>1. table'[j].queue = table[j].queue
      BY Zenon, <1>1, <1>4, <2>2
    <3> QED
      BY ZenonT(40), <1>5, <1>7, <2>1, <2>2, <3>1 DEF QueueOf
  <2>3. CASE j = i /\ q = << >>
    <3>1. table'[j].queue = table[j].queue
      BY Zenon, <1>4, <2>3 DEF q
    <3> QED
      BY <1>5, <2>1, <2>3, <3>1 DEF QueueOf
  <2>4. CASE j = i /\ q # << >>
    <3>1. table'[j].queue = Tail(q) /\ table[j].queue = q
      BY Zenon, <1>4, <2>4 DEF q
    <3>2. \A k \in DOMAIN Tail(q) : at[Tail(q)[k]] = j /\ Tail(q)[k] \notin awake'
      BY <1>3, <1>5, <1>7, <2>1, <2>4, <3>1
    <3>3. \A k, l \in DOMAIN Tail(q) : Tail(q)[k] = Tail(q)[l] => k = l
      <4> SUFFICES ASSUME NEW k \in DOMAIN Tail(q), NEW l \in DOMAIN Tail(q),
                          Tail(q)[k] = Tail(q)[l]
                   PROVE  k = l
        BY Zenon
      <4>1. /\ k \in Nat /\ k + 1 \in DOMAIN q /\ Tail(q)[k] = q[k + 1]
            /\ l \in Nat /\ l + 1 \in DOMAIN q /\ Tail(q)[l] = q[l + 1]
        BY Zenon, <1>3, <2>4
      <4>2. k + 1 = l + 1
        BY Zenon, <2>1, <3>1, <4>1
      <4> QED
        BY <4>1, <4>2
    <3> QED
      BY Zenon, <3>1, <3>2, <3>3 DEF QueueOf
  <2> QED
    BY Zenon, <2>2, <2>3, <2>4
<1>11. QueueInv'
  <2>1. \A p \in awake' : at[p] # User
    BY Zenon, <1>1, <1>5, <1>7, UserIsNoSlot DEF UInv, QueueInv
  <2> QED
    BY Zenon, <1>10, <2>1 DEF QueueInv
<1>12. UserSemaphoresSound'
  <2>1. \A j \in bm : j # i => Going(j)' = Going(j)
    BY Zenon, <1>5, <1>7 DEF Going
  <2>2. table'[i].value = table'[i].initial + signals'[i] - waits'[i]
    <3>1. table[i].value = table[i].initial + signals[i] - waits[i]
      BY Zenon DEF UInv, UserSemaphoresSound, WaitsArePaid
    <3> QED
      BY <1>1, <1>2, <1>4, <1>6, <3>1
  <2>3. table'[i].queue # << >> => Cardinality(Going(i)') >= table'[i].value
    <3> SUFFICES ASSUME table'[i].queue # << >>
                 PROVE  Cardinality(Going(i)') >= v
      BY Zenon, <1>4
    <3>1. q # << >>
      BY Zenon, <1>4
    <3>2. Going(i)' = Going(i) \cup {Head(q)} /\ Head(q) \notin Going(i)
      BY Zenon, <1>5, <1>7, <3>1 DEF Going
    <3>3. Cardinality(Going(i)) >= table[i].value
      BY Zenon, <3>1 DEF UInv, UserSemaphoresSound, NoLostSignal, Going, q
    <3>4. IsFiniteSet(Going(i)) /\ Cardinality(Going(i)) \in Nat
      BY Zenon, GoingIsFinite DEF UInv
    <3>5. Cardinality(Going(i) \cup {Head(q)}) = Cardinality(Going(i)) + 1
      BY Zenon, <3>2, <3>4, FS_AddElement
    <3> QED
      BY <1>1, <1>2, <3>2, <3>3, <3>4, <3>5
  <2> QED
    BY ZenonT(40), <1>1, <1>4, <1>6, <1>8, <2>1, <2>2, <2>3, OthersKept
<1> QED
  BY Zenon, <1>8, <1>9, <1>11, <1>12 DEF UInv

-----------------------------------------------------------------------------
(* STable::Create, when it finds a free entry and not the name.            *)

LEMMA CreateKeeps ==
  ASSUME Sound, UInv, NEW n \in Name, NEW v \in Value,
         Find(n) = -1, FindFreeSlot # -1, Create(n, v),
         UNCHANGED << at, awake, signals, waits >>
  PROVE  UInv'
<1>1. PICK f \in Slot : f = FindFreeSlot /\ f \notin bm
  BY Zenon, FreeSlotIsFree
<1>2. bm' = bm \cup {f} /\ table' = [table EXCEPT ![f] = Sem(n, v)]
  BY Zenon, <1>1 DEF Create
<1>3. /\ bm \subseteq Slot /\ table \in [Slot -> SemType]
      /\ signals[f] = 0 /\ waits[f] = 0 /\ v \in Nat
  BY Zenon, <1>1 DEF UInv, TypeInv, FreshInv, Sound
<1>4. /\ Sem(n, v) \in SemType /\ Sem(n, v).name = n /\ Sem(n, v).initial = v
      /\ Sem(n, v).value = v /\ Sem(n, v).queue = << >>
  BY Zenon, <1>3, NewSem
<1>5. /\ table' \in [Slot -> SemType] /\ table'[f] = Sem(n, v)
      /\ \A j \in bm : table'[j] = table[j]
  BY Zenon, <1>1, <1>2, <1>3, <1>4
<1>6. \A j \in bm : table[j].name # n
  BY Zenon, FindFinds DEF UInv
<1>7. TypeInv'
  BY Zenon, <1>1, <1>2, <1>3, <1>5 DEF UInv, TypeInv
<1>8. FreshInv'
  BY Zenon, <1>2 DEF UInv, FreshInv
<1>9. QueueInv'
  <2>1. \A j \in bm : QueueOf(j)'
    BY ZenonT(40), <1>5 DEF UInv, QueueInv, QueueOf
  <2>2. DOMAIN << >> = {}
    OBVIOUS
  <2>3. QueueOf(f)'
    BY Zenon, <1>4, <1>5, <2>2 DEF QueueOf
  <2> QED
    BY Zenon, <1>2, <2>1, <2>3 DEF UInv, QueueInv
<1>10. OneSemaphorePerName'
  <2> SUFFICES ASSUME NEW j \in bm', NEW k \in bm', table'[j].name = table'[k].name
               PROVE  j = k
    BY Zenon DEF OneSemaphorePerName
  <2>1. table'[f].name = n /\ \A l \in bm : table'[l].name = table[l].name /\ table[l].name # n
    BY Zenon, <1>4, <1>5, <1>6
  <2>2. (j = f \/ j \in bm) /\ (k = f \/ k \in bm)
    BY Zenon, <1>2
  <2>3. CASE j \in bm /\ k \in bm
    BY Zenon, <2>1, <2>3 DEF UInv, UserSemaphoresSound, OneSemaphorePerName
  <2> QED
    BY Zenon, <2>1, <2>2, <2>3
<1>11. WaitsArePaid'
  <2>1. /\ waits'[f] <= table'[f].initial + signals'[f]
        /\ table'[f].value = table'[f].initial + signals'[f] - waits'[f]
    BY <1>3, <1>4, <1>5
  <2> QED
    BY Zenon, <1>2, <1>5, <2>1 DEF UInv, UserSemaphoresSound, WaitsArePaid
<1>12. NoLostSignal'
  BY Zenon, <1>2, <1>4, <1>5 DEF UInv, UserSemaphoresSound, NoLostSignal
<1> QED
  BY Zenon, <1>7, <1>8, <1>9, <1>10, <1>11, <1>12 DEF UInv, UserSemaphoresSound

-----------------------------------------------------------------------------
(* The specification.                                                      *)

LEMMA InitUInv == Sound /\ Init => UInv
<1> SUFFICES ASSUME Sound, Init PROVE UInv
  BY Zenon
<1>1. NoSem \in SemType
  BY DEF NoSem, Sem, SemType
<1>2. TypeInv
  BY Zenon, <1>1 DEF Init, TypeInv
<1>3. FreshInv
  BY Zenon DEF Init, FreshInv
<1>4. QueueInv
  BY Zenon DEF Init, QueueInv
<1>5. UserSemaphoresSound
  BY Zenon DEF Init, UserSemaphoresSound, OneSemaphorePerName, WaitsArePaid, NoLostSignal
<1> QED
  BY Zenon, <1>2, <1>3, <1>4, <1>5 DEF UInv

\* A call that fails changes nothing but its result.
LEMMA UnchangedUInv ==
  ASSUME UInv, UNCHANGED << bm, table, at, awake, signals, waits >>
  PROVE  UInv'
  BY DEF UInv, TypeInv, FreshInv, QueueInv, QueueOf, UserSemaphoresSound,
         OneSemaphorePerName, WaitsArePaid, NoLostSignal

LEMMA NextUInv == Sound /\ UInv /\ [Next]_vars => UInv'
<1> SUFFICES ASSUME Sound, UInv, [Next]_vars PROVE UInv'
  BY Zenon
<1>1. ASSUME NEW p \in Program, WakeUp(p) PROVE UInv'
  <2>1. p \in awake /\ at[p] \in bm
    BY Zenon, <1>1 DEF WakeUp, UInv, QueueInv, FreshInv
  <2>2. PICK i \in bm : i = at[p]
    BY Zenon, <2>1
  <2>3. P(p, i) /\ bm' = bm /\ signals' = signals /\ awake' = awake \ {p}
    BY Zenon, <1>1, <2>2 DEF WakeUp
  <2> QED
    BY Zenon, <2>1, <2>2, <2>3, PKeeps
<1>2. ASSUME NEW p \in Program, NEW n \in Name, Handle_Wait(p, n) PROVE UInv'
  <2>1. CASE Find(n) = -1
    BY Zenon, <1>2, <2>1, UnchangedUInv DEF Handle_Wait, Wait
  <2>2. CASE Find(n) # -1
    <3>1. PICK i \in bm : i = Find(n)
      BY Zenon, <2>2, FindFinds DEF UInv
    <3>2. at[p] = User /\ P(p, i) /\ bm' = bm /\ signals' = signals /\ awake' = awake
      BY Zenon, <1>2, <2>2, <3>1 DEF Handle_Wait, Wait
    <3>3. awake' = awake \ {p}
      BY Zenon, <3>2 DEF UInv, QueueInv
    <3> QED
      BY Zenon, <3>2, <3>3, PKeeps
  <2> QED
    BY Zenon, <2>1, <2>2
<1>3. ASSUME NEW p \in Program, NEW n \in Name, Handle_Signal(p, n) PROVE UInv'
  <2>1. CASE Find(n) = -1
    BY Zenon, <1>3, <2>1, UnchangedUInv DEF Handle_Signal, Signal
  <2>2. CASE Find(n) # -1
    <3>1. PICK i \in bm : i = Find(n)
      BY Zenon, <2>2, FindFinds DEF UInv
    <3>2. /\ V(i) /\ signals' = [signals EXCEPT ![i] = @ + 1]
          /\ bm' = bm /\ at' = at /\ waits' = waits
      BY Zenon, <1>3, <2>2, <3>1 DEF Handle_Signal, Signal
    <3> QED
      BY Zenon, <3>2, VKeeps
  <2> QED
    BY Zenon, <2>1, <2>2
<1>4. ASSUME NEW p \in Program, NEW n \in Name, NEW v \in Value,
             Handle_CreateSemaphore(p, n, v)
      PROVE  UInv'
  <2>1. Create(n, v) /\ UNCHANGED << at, awake, signals, waits >>
    BY Zenon, <1>4 DEF Handle_CreateSemaphore
  <2>2. CASE Find(n) # -1 \/ FindFreeSlot = -1
    BY Zenon, <2>1, <2>2, UnchangedUInv DEF Create
  <2>3. CASE ~(Find(n) # -1 \/ FindFreeSlot = -1)
    BY Zenon, <2>1, <2>3, CreateKeeps
  <2> QED
    BY Zenon, <2>2, <2>3
<1>5. CASE UNCHANGED vars
  BY Zenon, <1>5, UnchangedUInv DEF vars
<1> QED
  BY Zenon, <1>1, <1>2, <1>3, <1>4, <1>5 DEF Next

\* Names stay unique, Waits that returned are paid for and no Signal is lost
\* (STable::Create, Wait and Signal, and Semaphore::P and V under them), for
\* any table, programs and names, and any initial values >= 0.
THEOREM UserSemaphoresCorrect ==
  ASSUME Sound
  PROVE  Spec => []UserSemaphoresSound
<1>1. UInv => UserSemaphoresSound
  BY Zenon DEF UInv
<1>2. Init => UInv
  BY Zenon, InitUInv
<1>3. UInv /\ [Next]_vars => UInv'
  BY Zenon, NextUInv
<1> QED
  BY <1>1, <1>2, <1>3, PTL DEF Spec

=============================================================================
