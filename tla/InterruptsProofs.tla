-------------------------- MODULE InterruptsProofs --------------------------
(***************************************************************************)
(* Proofs about Interrupts.tla, for any threads and any delays and ticks   *)
(* that InterruptAssumption allows (machine/stats.h has one choice).       *)
(*                                                                         *)
(* pending is sorted and has at most one entry of each type; so an entry   *)
(* at the head that is not due makes all others not due, and each passing  *)
(* of time starts from such a list.  The status saved by OneTick is right  *)
(* for its thread as long as the thread is inside the Yield.               *)
(***************************************************************************)
EXTENDS Interrupts, TLAPS, SequenceTheorems, FiniteSetTheorems

Sorted(q) == \A i, j \in DOMAIN q : i <= j => q[i].due <= q[j].due
OneOfEach(q) == \A i, j \in DOMAIN q : q[i].type = q[j].type => i = j
Has(q, type) == \E i \in DOMAIN q : q[i].type = type
After(q, time) == \A i \in DOMAIN q : q[i].due > time

\* A list as Interrupt::pending has it.
Queue(q) == q \in Seq(Entry) /\ Sorted(q) /\ OneOfEach(q)

-----------------------------------------------------------------------------
(* SortedList::Insert.                                                     *)

LEMMA CardinalityUpTo ==
  ASSUME NEW n \in Nat
  PROVE  IsFiniteSet(1 .. n) /\ Cardinality(1 .. n) = n
<1>1. /\ IsFiniteSet(1 .. n)
      /\ Cardinality(1 .. n) = IF 1 > n THEN 0 ELSE n - 1 + 1
  BY FS_Interval
<1> QED
  BY <1>1

\* The entries due no later than e are the first of a sorted list.
LEMMA BeforeIsPrefix ==
  ASSUME NEW q \in Seq(Entry), Sorted(q), NEW e \in Entry
  PROVE  LET n == Cardinality({i \in DOMAIN q : q[i].due <= e.due})
         IN n \in 0 .. Len(q) /\ \A i \in DOMAIN q : q[i].due <= e.due <=> i <= n
<1> DEFINE before == {i \in DOMAIN q : q[i].due <= e.due}
           n == Cardinality(before)
<1>1. DOMAIN q = 1 .. Len(q) /\ Len(q) \in Nat /\ \A i \in DOMAIN q : q[i].due \in Int
  <2>1. DOMAIN q = 1 .. Len(q) /\ Len(q) \in Nat /\ \A i \in DOMAIN q : q[i] \in Entry
    BY Zenon, LenProperties
  <2> QED
    BY Zenon, <2>1 DEF Entry
<1>2. IsFiniteSet(1 .. Len(q)) /\ Cardinality(1 .. Len(q)) = Len(q)
  BY Zenon, <1>1, CardinalityUpTo
<1>3. IsFiniteSet(before) /\ n \in Nat /\ n <= Len(q)
  BY <1>1, <1>2, FS_Subset, FS_CardinalityType, before \subseteq 1 .. Len(q)
<1>4. ASSUME NEW i \in DOMAIN q, q[i].due <= e.due
      PROVE  i <= n
  <2>1. 1 .. i \subseteq before
    BY <1>1, <1>4 DEF Sorted, Entry
  <2>2. Cardinality(1 .. i) = i
    BY <1>1, CardinalityUpTo
  <2> QED
    BY <1>3, <2>1, <2>2, FS_Subset
<1>5. ASSUME NEW i \in DOMAIN q, ~(q[i].due <= e.due)
      PROVE  ~(i <= n)
  <2>1. before \subseteq 1 .. i - 1
    <3> SUFFICES ASSUME NEW j \in before PROVE j \in 1 .. i - 1
      BY Zenon
    <3>1. j \in DOMAIN q /\ q[j].due <= e.due
      BY Zenon
    <3>2. ~(i <= j)
      BY <1>1, <1>5, <3>1 DEF Sorted, Entry
    <3> QED
      BY <1>1, <3>1, <3>2
  <2>2. IsFiniteSet(1 .. i - 1) /\ Cardinality(1 .. i - 1) = i - 1
    BY <1>1, CardinalityUpTo, i - 1 \in Nat
  <2>3. n <= i - 1
    BY <2>1, <2>2, FS_Subset
  <2> QED
    BY <1>1, <1>3, <2>3
<1> QED
  BY <1>1, <1>3, <1>4, <1>5

\* e stands at n + 1, the entries before it keep their place and the ones behind
\* it move by one.
LEMMA InsertByPosition ==
  ASSUME NEW q \in Seq(Entry), Sorted(q), NEW e \in Entry
  PROVE  \E n \in 0 .. Len(q) :
           /\ Insert(q, e) \in Seq(Entry)
           /\ Len(Insert(q, e)) = Len(q) + 1
           /\ \A i \in DOMAIN q : q[i].due <= e.due <=> i <= n
           /\ Insert(q, e)[n + 1] = e
           /\ \A i \in 1 .. n : Insert(q, e)[i] = q[i]
           /\ \A i \in n + 2 .. Len(q) + 1 : Insert(q, e)[i] = q[i - 1]
<1> DEFINE n == Cardinality({i \in DOMAIN q : q[i].due <= e.due})
           a == SubSeq(q, 1, n)
           b == SubSeq(q, n + 1, Len(q))
<1>1. DOMAIN q = 1 .. Len(q) /\ Len(q) \in Nat /\ \A i \in DOMAIN q : q[i] \in Entry
  BY Zenon, LenProperties
<1>2. n \in 0 .. Len(q) /\ \A i \in DOMAIN q : q[i].due <= e.due <=> i <= n
  BY Zenon, BeforeIsPrefix
<1>3. Insert(q, e) = (a \o << e >>) \o b
  BY Zenon DEF Insert
<1> HIDE DEF n
<1>4. a \in Seq(Entry) /\ Len(a) = n /\ \A i \in 1 .. n : a[i] = q[i]
  <2>1. \A i \in 1 .. n : q[i] \in Entry
    BY <1>1, <1>2
  <2>2. /\ a \in Seq(Entry) /\ Len(a) = IF 1 <= n THEN n - 1 + 1 ELSE 0
        /\ \A i \in 1 .. n - 1 + 1 : a[i] = q[1 + i - 1]
    BY <1>2, <2>1, SubSeqProperties
  <2> QED
    BY <1>2, <2>2
<1>5. /\ b \in Seq(Entry) /\ Len(b) = Len(q) - n
      /\ \A i \in 1 .. Len(q) - n : b[i] = q[n + i]
  <2>1. \A i \in n + 1 .. Len(q) : q[i] \in Entry
    BY <1>1, <1>2
  <2>2. /\ b \in Seq(Entry) /\ Len(b) = IF n + 1 <= Len(q) THEN Len(q) - (n + 1) + 1 ELSE 0
        /\ \A i \in 1 .. Len(q) - (n + 1) + 1 : b[i] = q[n + 1 + i - 1]
    BY <1>1, <1>2, <2>1, SubSeqProperties
  <2> DEFINE l == Len(q)
  <2>3. l \in Int /\ n \in Int /\ n <= l
    BY <1>1, <1>2
  <2> HIDE DEF b, l
  <2>4. l - (n + 1) + 1 = l - n /\ (~(n + 1 <= l) => l - n = 0)
    BY <2>3
  <2>5. \A i \in 1 .. l - n : n + 1 + i - 1 = n + i
    BY <2>3
  <2>6. \A i \in 1 .. l - n : b[i] = q[n + i]
    BY Zenon, <2>2, <2>4, <2>5 DEF l
  <2> QED
    BY Zenon, <2>2, <2>4, <2>6 DEF l
<1> DEFINE ae == a \o << e >>
<1> HIDE DEF a, b
<1>6. /\ ae \in Seq(Entry) /\ Len(ae) = n + 1 /\ ae[n + 1] = e
      /\ \A i \in 1 .. n : ae[i] = q[i]
  <2> DEFINE s == << e >>
  <2>1. s \in Seq(Entry) /\ Len(s) = 1 /\ s[1] = e /\ ae = a \o s
    OBVIOUS
  <2> HIDE DEF s, ae
  <2>2. /\ ae \in Seq(Entry) /\ Len(ae) = Len(a) + Len(s)
        /\ \A i \in 1 .. Len(a) + Len(s) :
             ae[i] = IF i <= Len(a) THEN a[i] ELSE s[i - Len(a)]
    BY Zenon, <1>4, <2>1, ConcatProperties
  <2>3. /\ Len(ae) = n + 1
        /\ \A i \in 1 .. n + 1 : ae[i] = IF i <= n THEN a[i] ELSE s[i - n]
    BY Zenon, <1>4, <2>1, <2>2
  <2>4. /\ n + 1 \in 1 .. n + 1 /\ ~(n + 1 <= n) /\ n + 1 - n = 1
        /\ \A i \in 1 .. n : i \in 1 .. n + 1 /\ i <= n
    BY <1>2
  <2>5. ae[n + 1] = e
    BY <1>2, <2>1, <2>3, <2>4
  <2>6. ASSUME NEW i \in 1 .. n PROVE ae[i] = q[i]
    BY Zenon, <1>4, <2>3, <2>4
  <2> QED
    BY Zenon, <2>2, <2>3, <2>5, <2>6
<1> HIDE DEF ae
<1>7. /\ ae \o b \in Seq(Entry) /\ Len(ae \o b) = Len(q) + 1
      /\ \A i \in 1 .. Len(q) + 1 :
           (ae \o b)[i] = IF i <= n + 1 THEN ae[i] ELSE b[i - (n + 1)]
  <2>1. /\ ae \o b \in Seq(Entry) /\ Len(ae \o b) = Len(ae) + Len(b)
        /\ \A i \in 1 .. Len(ae) + Len(b) :
             (ae \o b)[i] = IF i <= Len(ae) THEN ae[i] ELSE b[i - Len(ae)]
    BY Zenon, <1>5, <1>6, ConcatProperties
  <2>2. Len(ae) + Len(b) = Len(q) + 1
    BY <1>1, <1>2, <1>5, <1>6
  <2> QED
    BY Zenon, <1>6, <2>1, <2>2
<1>8. Insert(q, e) = ae \o b
  BY Zenon, <1>3 DEF ae
<1>9. \A i \in n + 2 .. Len(q) + 1 : (ae \o b)[i] = q[i - 1]
  <2> SUFFICES ASSUME NEW i \in n + 2 .. Len(q) + 1 PROVE (ae \o b)[i] = q[i - 1]
    BY Zenon
  <2>1. i \in 1 .. Len(q) + 1 /\ ~(i <= n + 1) /\ i - (n + 1) \in 1 .. Len(q) - n
        /\ n + (i - (n + 1)) = i - 1
    BY <1>1, <1>2
  <2> QED
    BY Zenon, <1>5, <1>7, <2>1
<1>10. (ae \o b)[n + 1] = e /\ \A i \in 1 .. n : (ae \o b)[i] = q[i]
  <2>1. /\ n + 1 \in 1 .. Len(q) + 1 /\ n + 1 <= n + 1
        /\ \A i \in 1 .. n : i \in 1 .. Len(q) + 1 /\ i <= n + 1
    BY <1>1, <1>2
  <2> QED
    BY Zenon, <1>6, <1>7, <2>1
<1> QED
  BY ZenonT(40), <1>2, <1>7, <1>8, <1>9, <1>10

-----------------------------------------------------------------------------
(* What Schedule, RemoveFront and the passing of time do to such a list.   *)

LEMMA QueueElements ==
  ASSUME NEW q \in Seq(Entry)
  PROVE  /\ DOMAIN q = 1 .. Len(q) /\ Len(q) \in Nat
         /\ \A i \in DOMAIN q : q[i] \in Entry /\ q[i].type \in IntType /\ q[i].due \in Int
<1>1. DOMAIN q = 1 .. Len(q) /\ Len(q) \in Nat /\ \A i \in DOMAIN q : q[i] \in Entry
  BY Zenon, LenProperties
<1> QED
  BY Zenon, <1>1 DEF Entry

LEMMA ScheduleQueue ==
  ASSUME NEW q, Queue(q), NEW type \in IntType, ~Has(q, type), NEW d \in Nat \ {0}
  PROVE  /\ Queue(Schedule(q, type, d))
         /\ Has(Schedule(q, type, d), type)
         /\ \A ty : Has(q, ty) => Has(Schedule(q, type, d), ty)
         /\ \A ty : Has(Schedule(q, type, d), ty) => Has(q, ty) \/ ty = type
         /\ \A time \in Int : After(q, time) /\ time < d => After(Schedule(q, type, d), time)
<1> DEFINE e == [type |-> type, due |-> d]
           r == Schedule(q, type, d)
<1>1. e \in Entry /\ e.type = type /\ e.due = d
  BY DEF Entry
<1>2. q \in Seq(Entry) /\ Sorted(q) /\ OneOfEach(q)
  BY Zenon DEF Queue
<1>3. PICK n \in 0 .. Len(q) :
           /\ Insert(q, e) \in Seq(Entry)
           /\ Len(Insert(q, e)) = Len(q) + 1
           /\ \A i \in DOMAIN q : q[i].due <= e.due <=> i <= n
           /\ Insert(q, e)[n + 1] = e
           /\ \A i \in 1 .. n : Insert(q, e)[i] = q[i]
           /\ \A i \in n + 2 .. Len(q) + 1 : Insert(q, e)[i] = q[i - 1]
  BY Zenon, <1>1, <1>2, InsertByPosition
<1>4. r = Insert(q, e)
  BY Zenon DEF Schedule
<1>5. DOMAIN r = 1 .. Len(q) + 1 /\ r \in Seq(Entry)
  BY Zenon, <1>3, <1>4, QueueElements
<1>6. /\ DOMAIN q = 1 .. Len(q) /\ Len(q) \in Nat
      /\ \A i \in DOMAIN q : q[i] \in Entry /\ q[i].type \in IntType /\ q[i].due \in Int
  BY Zenon, <1>2, QueueElements
<1> DEFINE old(i) == IF i <= n THEN i ELSE i - 1
<1> HIDE DEF r, e
\* Where an entry of the new list came from.
<1>7. ASSUME NEW i \in DOMAIN r
      PROVE  \/ i = n + 1 /\ r[i] = e
             \/ i # n + 1 /\ old(i) \in DOMAIN q /\ r[i] = q[old(i)]
  <2>1. CASE i = n + 1
    BY Zenon, <1>3, <1>4, <2>1
  <2>2. CASE i \in 1 .. n
    BY <1>3, <1>4, <1>6, <2>2
  <2>3. CASE i \in n + 2 .. Len(q) + 1
    BY <1>3, <1>4, <1>6, <2>3
  <2> QED
    BY <1>5, <1>6, <2>1, <2>2, <2>3
\* And where an old one went.
<1>8. ASSUME NEW i \in DOMAIN q
      PROVE  \E j \in DOMAIN r : r[j] = q[i]
  <2>1. CASE i <= n
    BY <1>3, <1>4, <1>5, <1>6, <2>1
  <2>2. CASE ~(i <= n)
    <3>1. i + 1 \in n + 2 .. Len(q) + 1 /\ (i + 1) - 1 = i /\ i + 1 \in DOMAIN r
      BY <1>5, <1>6, <2>2
    <3> QED
      BY Zenon, <1>3, <1>4, <3>1
  <2> QED
    BY Zenon, <2>1, <2>2
<1>9. n + 1 \in DOMAIN r /\ r[n + 1] = e
  BY <1>3, <1>4, <1>5, <1>6
<1>10. Sorted(r)
  <2> SUFFICES ASSUME NEW i \in DOMAIN r, NEW j \in DOMAIN r, i <= j
               PROVE  r[i].due <= r[j].due
    BY Zenon DEF Sorted
  <2>1. CASE i # n + 1 /\ j # n + 1
    <3>1. old(i) <= old(j)
      BY <1>5, <1>6
    <3> QED
      BY Zenon, <1>2, <1>7, <2>1, <3>1 DEF Sorted
  <2>2. CASE i = n + 1 /\ j # n + 1
    <3>1. old(j) \in DOMAIN q /\ r[j] = q[old(j)] /\ ~(old(j) <= n) /\ r[i] = e
      BY <1>5, <1>6, <1>7, <2>2
    <3>2. ~(q[old(j)].due <= e.due)
      BY Zenon, <1>3, <3>1
    <3> QED
      BY <1>1, <1>6, <3>1, <3>2
  <2>3. CASE i # n + 1 /\ j = n + 1
    <3>1. old(i) \in DOMAIN q /\ r[i] = q[old(i)] /\ old(i) <= n /\ r[j] = e
      BY <1>5, <1>6, <1>7, <2>3
    <3> QED
      BY Zenon, <1>3, <3>1
  <2>4. CASE i = n + 1 /\ j = n + 1
    BY <1>1, <1>9, <2>4
  <2> QED
    BY Zenon, <2>1, <2>2, <2>3, <2>4
<1>11. OneOfEach(r)
  <2> SUFFICES ASSUME NEW i \in DOMAIN r, NEW j \in DOMAIN r, r[i].type = r[j].type
               PROVE  i = j
    BY Zenon DEF OneOfEach
  <2>1. CASE i # n + 1 /\ j # n + 1
    <3>1. old(i) = old(j)
      BY <1>2, <1>7, <2>1 DEF OneOfEach
    <3> QED
      BY <1>5, <1>6, <2>1, <3>1
  <2>2. CASE i = n + 1 /\ j # n + 1
    BY Zenon, <1>1, <1>7, <2>2 DEF Has
  <2>3. CASE i # n + 1 /\ j = n + 1
    BY Zenon, <1>1, <1>7, <2>3 DEF Has
  <2> QED
    BY Zenon, <2>1, <2>2, <2>3
<1>12. Has(r, type) /\ \A ty : Has(q, ty) => Has(r, ty)
  BY Zenon, <1>1, <1>8, <1>9 DEF Has
<1>13. \A ty : Has(r, ty) => Has(q, ty) \/ ty = type
  BY Zenon, <1>1, <1>7 DEF Has
<1>14. ASSUME NEW time \in Int, After(q, time), time < d
       PROVE  After(r, time)
  BY Zenon, <1>1, <1>7, <1>14 DEF After
<1> QED
  BY Zenon, <1>5, <1>10, <1>11, <1>12, <1>13, <1>14 DEF Queue, r

LEMMA TailQueue ==
  ASSUME NEW q, Queue(q), q # << >>
  PROVE  /\ Head(q) \in Entry /\ Head(q).type \in IntType /\ Head(q).due \in Int
         /\ Queue(Tail(q))
         /\ ~Has(Tail(q), Head(q).type)
         /\ \A ty : Has(q, ty) => Has(Tail(q), ty) \/ ty = Head(q).type
         /\ \A ty : Has(Tail(q), ty) => Has(q, ty)
         /\ \A time : After(q, time) => After(Tail(q), time)
<1>1. q \in Seq(Entry) /\ Sorted(q) /\ OneOfEach(q)
  BY Zenon DEF Queue
<1>2. /\ Tail(q) \in Seq(Entry) /\ Len(Tail(q)) = Len(q) - 1
      /\ \A i \in 1 .. Len(Tail(q)) : Tail(q)[i] = q[i + 1]
  BY Zenon, <1>1, HeadTailProperties
<1>3. /\ DOMAIN q = 1 .. Len(q) /\ Len(q) \in Nat
      /\ \A i \in DOMAIN q : q[i] \in Entry /\ q[i].type \in IntType /\ q[i].due \in Int
  BY Zenon, <1>1, QueueElements
<1>4. DOMAIN Tail(q) = 1 .. Len(q) - 1
  BY Zenon, <1>2, QueueElements
<1>5. 1 \in DOMAIN q /\ Head(q) = q[1]
  BY <1>1, <1>3, EmptySeq
<1>6. \A i \in DOMAIN Tail(q) : i + 1 \in DOMAIN q /\ i + 1 # 1 /\ Tail(q)[i] = q[i + 1]
                                /\ i \in Int
  BY <1>2, <1>3, <1>4
<1>7. \A i \in DOMAIN q : i # 1 => i - 1 \in DOMAIN Tail(q) /\ Tail(q)[i - 1] = q[i]
  <2> SUFFICES ASSUME NEW i \in DOMAIN q, i # 1
               PROVE  i - 1 \in DOMAIN Tail(q) /\ Tail(q)[i - 1] = q[i]
    BY Zenon
  <2>1. i - 1 \in 1 .. Len(q) - 1 /\ (i - 1) + 1 = i
    BY <1>3
  <2> QED
    BY Zenon, <1>2, <1>4, <2>1
<1>8. Sorted(Tail(q))
  <2> SUFFICES ASSUME NEW i \in DOMAIN Tail(q), NEW j \in DOMAIN Tail(q), i <= j
               PROVE  Tail(q)[i].due <= Tail(q)[j].due
    BY Zenon DEF Sorted
  <2>1. i + 1 <= j + 1
    BY <1>6
  <2> QED
    BY Zenon, <1>1, <1>6, <2>1 DEF Sorted
<1>9. OneOfEach(Tail(q))
  <2> SUFFICES ASSUME NEW i \in DOMAIN Tail(q), NEW j \in DOMAIN Tail(q),
                      Tail(q)[i].type = Tail(q)[j].type
               PROVE  i = j
    BY Zenon DEF OneOfEach
  <2>1. i + 1 = j + 1
    BY <1>1, <1>6 DEF OneOfEach
  <2> QED
    BY <1>6, <2>1
<1>10. ~Has(Tail(q), Head(q).type)
  BY Zenon, <1>1, <1>5, <1>6 DEF OneOfEach, Has
<1>11. /\ \A ty : Has(q, ty) => Has(Tail(q), ty) \/ ty = Head(q).type
       /\ \A ty : Has(Tail(q), ty) => Has(q, ty)
  <2>1. ASSUME NEW ty, Has(q, ty) PROVE Has(Tail(q), ty) \/ ty = Head(q).type
    <3>1. PICK i \in DOMAIN q : q[i].type = ty
      BY Zenon, <2>1 DEF Has
    <3>2. CASE i = 1
      BY Zenon, <1>5, <3>1, <3>2
    <3>3. CASE i # 1
      BY Zenon, <1>7, <3>1, <3>3 DEF Has
    <3> QED
      BY Zenon, <3>2, <3>3
  <2>2. \A ty : Has(Tail(q), ty) => Has(q, ty)
    BY Zenon, <1>6 DEF Has
  <2> QED
    BY Zenon, <2>1, <2>2
<1>12. \A time : After(q, time) => After(Tail(q), time)
  BY Zenon, <1>6 DEF After
<1> QED
  BY Zenon, <1>2, <1>3, <1>5, <1>8, <1>9, <1>10, <1>11, <1>12 DEF Queue

LEMMA LaterQueue ==
  ASSUME NEW q, Queue(q), NEW n \in Int
  PROVE  /\ Queue(Later(q, n))
         /\ \A ty : Has(Later(q, n), ty) <=> Has(q, ty)
         /\ \A time \in Int : After(q, time) => After(Later(q, n), time - n)
<1> DEFINE r == Later(q, n)
<1>1. q \in Seq(Entry) /\ Sorted(q) /\ OneOfEach(q)
  BY Zenon DEF Queue
<1>2. /\ DOMAIN q = 1 .. Len(q) /\ Len(q) \in Nat
      /\ \A i \in DOMAIN q : q[i] \in Entry /\ q[i].type \in IntType /\ q[i].due \in Int
  BY Zenon, <1>1, QueueElements
<1>3. DOMAIN r = DOMAIN q /\ \A i \in DOMAIN q : r[i] = [q[i] EXCEPT !.due = @ - n]
  BY Zenon DEF Later
<1>4. \A i \in DOMAIN q : r[i].type = q[i].type /\ r[i].due = q[i].due - n
                          /\ r[i] \in Entry
  BY <1>2, <1>3 DEF Entry
<1>5. r \in Seq(Entry)
  <2>1. r = [i \in 1 .. Len(q) |-> r[i]]
    BY Zenon, <1>2 DEF Later
  <2>2. r \in [1 .. Len(q) -> Entry]
    BY Zenon, <1>2, <1>4, <2>1
  <2> QED
    BY <1>2, <2>2, SeqDef
<1> HIDE DEF r
<1>6. Sorted(r)
  BY <1>1, <1>2, <1>3, <1>4 DEF Sorted
<1>7. OneOfEach(r)
  BY Zenon, <1>1, <1>3, <1>4 DEF OneOfEach
<1>8. \A ty : Has(r, ty) <=> Has(q, ty)
  BY Zenon, <1>3, <1>4 DEF Has
<1>9. \A time \in Int : After(q, time) => After(r, time - n)
  BY <1>2, <1>3, <1>4 DEF After
<1> QED
  BY Zenon, <1>5, <1>6, <1>7, <1>8, <1>9 DEF r, Queue

\* The first entry is the earliest.
LEMMA HeadIsEarliest ==
  ASSUME NEW q, Queue(q), q # << >>
  PROVE  \A i \in DOMAIN q : Head(q).due <= q[i].due
<1>1. q \in Seq(Entry) /\ Sorted(q)
  BY Zenon DEF Queue
<1>2. 1 \in DOMAIN q /\ Head(q) = q[1] /\ \A i \in DOMAIN q : 1 <= i
  BY <1>1, QueueElements, EmptySeq
<1> QED
  BY Zenon, <1>1, <1>2 DEF Sorted

\* There are three types.
LEMMA AtMostThree ==
  ASSUME NEW q, Queue(q)
  PROVE  Len(q) <= 3
<1>1. q \in Seq(Entry) /\ OneOfEach(q)
  BY Zenon DEF Queue
<1>2. /\ DOMAIN q = 1 .. Len(q) /\ Len(q) \in Nat
      /\ \A i \in DOMAIN q : q[i].type \in IntType
  BY Zenon, <1>1, QueueElements
<1>3. SUFFICES ASSUME Len(q) > 3 PROVE FALSE
  BY <1>2
<1>4. {1, 2, 3, 4} \subseteq DOMAIN q
  BY <1>2, <1>3
<1> QED
  BY <1>1, <1>2, <1>4 DEF OneOfEach, IntType

-----------------------------------------------------------------------------
(* The inductive invariant.                                                *)

\* The status that belongs to what a thread executes.
Own(t) == IF user[t] THEN "UserMode" ELSE "SystemMode"

\* The clock: the list, and what has been settled when.
ClockInv ==
  /\ Queue(pending)
  /\ Has(pending, "TimerInt")
  /\ After(pending, -SystemTick)
  /\ phase = "code" => After(pending, 0) /\ ~inHandler /\ ~yieldOnReturn
  /\ phase = "idle" => ~yieldOnReturn /\ mode = "IdleMode"

\* The status: a thread that is not inside a Yield of OneTick left the processor
\* in kernel code.
StatusInv ==
  /\ phase = "code" => ~nested[current] /\ mode = Own(current)
  /\ phase = "tick" => mode # "IdleMode" /\ (~nested[current] => mode = Own(current))
  /\ phase = "idle" => ~nested[current] /\ ~user[current]
  /\ \A t \in Thread : nested[t] => oldStatus[t] = Own(t)
  /\ \A t \in Thread : t # current /\ ~nested[t] => ~user[t]

IInv == TypeOK /\ ClockInv /\ StatusInv

LEMMA TickTypes == /\ UserTick \in Nat \ {0} /\ SystemTick \in Nat \ {0} /\ PollDelay \in Nat \ {0}
                   /\ UserTick <= SystemTick
                   /\ \A d \in TimerDelays \cup IODelays : d \in Nat \ {0}
  BY Zenon, InterruptAssumption

LEMMA InitIInv == Init => IInv
<1> SUFFICES ASSUME Init PROVE IInv
  BY Zenon
<1>1. PICK d \in TimerDelays :
        pending = Schedule(Schedule(<< >>, "TimerInt", d), "PollInt", PollDelay)
  BY Zenon DEF Init
<1> DEFINE q == Schedule(<< >>, "TimerInt", d)
<1>2. Queue(<< >>) /\ (\A ty : ~Has(<< >>, ty)) /\ After(<< >>, 0)
  BY EmptySeq DEF Queue, Sorted, OneOfEach, Has, After
<1>3. d \in Nat \ {0} /\ "TimerInt" \in IntType /\ "PollInt" \in IntType
      /\ 0 \in Int /\ 0 < d /\ 0 < PollDelay
  BY TickTypes DEF IntType
<1>4. Queue(q) /\ Has(q, "TimerInt") /\ ~Has(q, "PollInt") /\ After(q, 0)
  BY Zenon, <1>2, <1>3, ScheduleQueue
<1> HIDE DEF q
<1>5. Queue(pending) /\ Has(pending, "TimerInt") /\ After(pending, 0)
  BY Zenon, <1>1, <1>3, <1>4, TickTypes, ScheduleQueue DEF q
<1>6. After(pending, -SystemTick)
  <2>1. \A i \in DOMAIN pending : pending[i].due \in Int
    BY Zenon, <1>5, QueueElements DEF Queue
  <2> QED
    BY <1>5, <2>1, TickTypes DEF After
<1>7. ClockInv
  BY Zenon, <1>5, <1>6 DEF Init, ClockInv
<1>8. TypeOK
  BY Zenon, <1>5, AtMostThree DEF Init, TypeOK, Queue
<1>9. StatusInv
  BY Zenon DEF Init, StatusInv, Own
<1> QED
  BY Zenon, <1>7, <1>8, <1>9 DEF IInv

-----------------------------------------------------------------------------
\* An empty list of due interrupts, in the middle of CheckIfDue.
LEMMA NotDue ==
  ASSUME ClockInv, ~Due
  PROVE  pending # << >> /\ After(pending, 0)
<1>1. Queue(pending) /\ pending # << >>
  BY DEF ClockInv, Has
<1>2. \A i \in DOMAIN pending : pending[i].due \in Int
  BY Zenon, <1>1, QueueElements DEF Queue
<1>3. Head(pending).due \in Int /\ ~(Head(pending).due <= 0)
  BY Zenon, <1>1, TailQueue DEF Due
<1> QED
  BY <1>1, <1>2, <1>3, HeadIsEarliest DEF After

\* Time advances only when nothing is due, by at most a system tick.
LEMMA OneTickClock ==
  ASSUME ClockInv, After(pending, 0), NEW m, OneTick(m)
  PROVE  /\ ClockInv'
         /\ pending' \in Seq(Entry) /\ Len(pending') <= 3
<1> DEFINE n == IF m = "UserMode" THEN UserTick ELSE SystemTick
<1>1. n \in Int /\ n <= SystemTick /\ SystemTick \in Int
  BY TickTypes
<1>2. pending' = Later(pending, n) /\ phase' = "tick"
  BY Zenon DEF OneTick
<1> HIDE DEF n
<1>3. Queue(pending) /\ Has(pending, "TimerInt")
  BY Zenon DEF ClockInv
<1>4. Queue(pending') /\ Has(pending', "TimerInt") /\ After(pending', 0 - n)
  BY <1>1, <1>2, <1>3, LaterQueue
<1>5. \A i \in DOMAIN pending' : pending'[i].due \in Int
  BY Zenon, <1>4, QueueElements DEF Queue
<1>6. After(pending', -SystemTick)
  BY <1>1, <1>4, <1>5 DEF After
<1> QED
  BY Zenon, <1>2, <1>4, <1>6, AtMostThree DEF ClockInv, Queue

\* Idle advances to the first interrupt and not past it.
LEMMA IdleClock ==
  ASSUME ClockInv, After(pending, 0), Idle, ~yieldOnReturn'
  PROVE  /\ ClockInv'
         /\ pending' \in Seq(Entry) /\ Len(pending') <= 3
<1> DEFINE h == Head(pending).due
<1>1. Queue(pending) /\ Has(pending, "TimerInt") /\ pending # << >>
  BY DEF ClockInv, Has
<1>2. /\ DOMAIN pending = 1 .. Len(pending) /\ Len(pending) \in Nat
      /\ \A i \in DOMAIN pending : pending[i].due \in Int
  BY Zenon, <1>1, QueueElements DEF Queue
<1>3. h \in Int /\ h > 0
  <2>1. 1 \in DOMAIN pending /\ Head(pending) = pending[1]
    BY <1>1, <1>2, EmptySeq DEF Queue
  <2> QED
    BY Zenon, <1>2, <2>1 DEF After
<1>4. pending' = Later(pending, h) /\ phase' = "idle" /\ mode' = "IdleMode"
  BY Zenon, <1>3 DEF Idle
<1>5. After(pending, h - 1)
  BY <1>1, <1>2, <1>3, HeadIsEarliest DEF After
<1> HIDE DEF h
<1>6. Queue(pending') /\ Has(pending', "TimerInt") /\ After(pending', (h - 1) - h)
  BY <1>1, <1>3, <1>4, <1>5, LaterQueue
<1>7. \A i \in DOMAIN pending' : pending'[i].due \in Int
  BY Zenon, <1>6, QueueElements DEF Queue
<1>8. After(pending', -SystemTick)
  BY <1>3, <1>6, <1>7, TickTypes DEF After
<1> QED
  BY Zenon, <1>4, <1>6, <1>8, AtMostThree DEF ClockInv, Queue

\* A handler takes its entry off the list and may schedule its next one.
LEMMA HandlerClock ==
  ASSUME ClockInv, phase \in {"tick", "idle"}, phase' = phase, mode' = mode, Due,
         TimerHandler \/ PollHandler \/ IOHandler
  PROVE  /\ ClockInv'
         /\ pending' \in Seq(Entry) /\ Len(pending') <= 3
<1> DEFINE q == Tail(pending)
<1>1. Queue(pending) /\ Has(pending, "TimerInt") /\ pending # << >>
      /\ After(pending, -SystemTick)
  BY Zenon DEF ClockInv, Due
<1>2. /\ Queue(q) /\ ~Has(q, Head(pending).type)
      /\ \A ty : Has(pending, ty) => Has(q, ty) \/ ty = Head(pending).type
      /\ After(q, -SystemTick)
  BY Zenon, <1>1, TailQueue
<1> HIDE DEF q
<1>3. -SystemTick \in Int /\ \A d \in Nat \ {0} : -SystemTick < d
  BY TickTypes
<1>4. Queue(pending') /\ Has(pending', "TimerInt") /\ After(pending', -SystemTick)
  <2>1. CASE TimerHandler
    <3>1. PICK d \in TimerDelays : pending' = Schedule(q, "TimerInt", d)
      BY Zenon, <2>1 DEF TimerHandler, q
    <3>2. ~Has(q, "TimerInt") /\ d \in Nat \ {0} /\ "TimerInt" \in IntType
      BY Zenon, <1>2, <2>1, TickTypes DEF TimerHandler, IntType
    <3> QED
      BY Zenon, <1>2, <1>3, <3>1, <3>2, ScheduleQueue
  <2>2. CASE PollHandler
    <3>1. pending' = Schedule(q, "PollInt", PollDelay) /\ Head(pending).type = "PollInt"
      BY Zenon, <2>2 DEF PollHandler, q
    <3>2. ~Has(q, "PollInt") /\ Has(q, "TimerInt") /\ "PollInt" \in IntType
      BY Zenon, <1>1, <1>2, <3>1 DEF IntType
    <3> QED
      BY Zenon, <1>2, <1>3, <3>1, <3>2, TickTypes, ScheduleQueue
  <2>3. CASE IOHandler
    BY Zenon, <1>1, <1>2, <2>3 DEF IOHandler, q
  <2> QED
    BY Zenon, <2>1, <2>2, <2>3
<1>5. phase' = "idle" => ~yieldOnReturn' /\ mode' = "IdleMode"
  BY Zenon DEF ClockInv, TimerHandler, PollHandler, IOHandler
<1> QED
  BY Zenon, <1>4, <1>5, AtMostThree DEF ClockInv, Queue

-----------------------------------------------------------------------------
(* One lemma per kind of step.                                             *)

\* Machine::Run and RaiseException change the status with the thread's state.
LEMMA EnterTrapIInv ==
  ASSUME IInv, EnterUser \/ Trap
  PROVE  IInv'
<1> USE DEF IInv, TypeOK
<1>1. PICK b \in BOOLEAN :
        /\ phase = "code" /\ user' = [user EXCEPT ![current] = b]
        /\ mode' = IF b THEN "UserMode" ELSE "SystemMode"
        /\ UNCHANGED << pending, level, inHandler, yieldOnReturn, phase, current,
                        ready, nested, oldStatus >>
  BY Zenon DEF EnterUser, Trap
<1>2. TypeOK'
  BY Zenon, <1>1
<1>3. ClockInv'
  BY Zenon, <1>1 DEF ClockInv
<1>4. StatusInv'
  BY Zenon, <1>1 DEF StatusInv, Own
<1> QED
  BY Zenon, <1>2, <1>3, <1>4

LEMMA CodeTickIInv ==
  ASSUME IInv, UserInstruction \/ Enable
  PROVE  IInv'
<1> USE DEF IInv, TypeOK
<1>1. /\ phase = "code" /\ OneTick(mode)
      /\ UNCHANGED << inHandler, yieldOnReturn, mode, current, ready, user, nested,
                      oldStatus >>
  BY Zenon DEF UserInstruction, Enable
<1>2. After(pending, 0)
  BY Zenon, <1>1 DEF ClockInv
<1>3. ClockInv' /\ pending' \in Seq(Entry) /\ Len(pending') <= 3
  BY Zenon, <1>1, <1>2, OneTickClock
<1>4. TypeOK'
  BY Zenon, <1>1, <1>3 DEF OneTick
<1>5. StatusInv'
  BY Zenon, <1>1 DEF StatusInv, Own, OneTick
<1> QED
  BY Zenon, <1>3, <1>4, <1>5

LEMMA DisableIInv ==
  ASSUME IInv, Disable
  PROVE  IInv'
  BY Zenon DEF IInv, TypeOK, Disable, ClockInv, StatusInv, Own

LEMMA RequestIInv ==
  ASSUME IInv, Request
  PROVE  IInv'
<1> USE DEF IInv, TypeOK
<1>1. PICK d \in IODelays : pending' = Schedule(pending, "IOInt", d)
  BY Zenon DEF Request
<1>2. /\ phase = "code" /\ ~Has(pending, "IOInt")
      /\ UNCHANGED << level, inHandler, yieldOnReturn, mode, phase, current, ready,
                      user, nested, oldStatus >>
  BY Zenon DEF Request, Has
<1>3. d \in Nat \ {0} /\ "IOInt" \in IntType /\ 0 < d /\ -SystemTick \in Int
      /\ -SystemTick < d
  BY TickTypes DEF IntType
<1>4. Queue(pending) /\ Has(pending, "TimerInt") /\ After(pending, 0)
      /\ After(pending, -SystemTick)
  BY Zenon, <1>2 DEF ClockInv
<1>5. Queue(pending') /\ Has(pending', "TimerInt") /\ After(pending', 0)
      /\ After(pending', -SystemTick)
  BY <1>1, <1>2, <1>3, <1>4, ScheduleQueue
<1>6. ClockInv'
  BY Zenon, <1>2, <1>5 DEF ClockInv
<1>7. TypeOK'
  BY Zenon, <1>2, <1>5, AtMostThree DEF Queue
<1>8. StatusInv'
  BY Zenon, <1>2 DEF StatusInv, Own
<1> QED
  BY Zenon, <1>6, <1>7, <1>8

\* The loop of Sleep, entered from code or from Idle.
LEMMA SleepLoopIInv ==
  ASSUME IInv, After(pending, 0), ~nested[current], ~user[current], ~yieldOnReturn,
         SleepLoop, inHandler' \in BOOLEAN,
         UNCHANGED << yieldOnReturn, user, nested, oldStatus >>
  PROVE  IInv'
<1> USE DEF IInv, TypeOK
<1>1. CASE ready # {}
  <2>1. PICK u \in ready : SwitchTo(u) /\ ready' = ready \ {u}
    BY Zenon, <1>1 DEF SleepLoop
  <2>2. /\ OneTick("SystemMode") /\ current' = u /\ mode' = "SystemMode"
        /\ phase' = "tick" /\ level' = "IntOff"
    BY Zenon, <2>1 DEF SwitchTo, OneTick
  <2>3. ClockInv' /\ pending' \in Seq(Entry) /\ Len(pending') <= 3
    BY Zenon, <2>2, OneTickClock
  <2>4. TypeOK'
    BY Zenon, <2>1, <2>2, <2>3
  <2>5. StatusInv'
    BY Zenon, <2>2 DEF StatusInv, Own
  <2> QED
    BY Zenon, <2>3, <2>4, <2>5
<1>2. CASE ready = {}
  <2>1. Idle /\ UNCHANGED ready
    BY Zenon, <1>2 DEF SleepLoop
  <2>2. ClockInv' /\ pending' \in Seq(Entry) /\ Len(pending') <= 3
    BY Zenon, <2>1, IdleClock
  <2>3. TypeOK'
    BY Zenon, <2>1, <2>2 DEF Idle
  <2>4. StatusInv'
    BY Zenon, <2>1 DEF Idle, StatusInv, Own
  <2> QED
    BY Zenon, <2>2, <2>3, <2>4
<1> QED
  BY Zenon, <1>1, <1>2

LEMMA SleepIInv ==
  ASSUME IInv, Sleep
  PROVE  IInv'
<1>1. /\ After(pending, 0) /\ ~nested[current] /\ ~user[current] /\ ~yieldOnReturn
      /\ SleepLoop /\ inHandler' \in BOOLEAN
      /\ UNCHANGED << yieldOnReturn, user, nested, oldStatus >>
  BY Zenon DEF IInv, TypeOK, ClockInv, StatusInv, Sleep
<1> QED
  BY Zenon, <1>1, SleepLoopIInv

LEMMA IdleReturnsIInv ==
  ASSUME IInv, IdleReturns
  PROVE  IInv'
<1>1. After(pending, 0)
  BY Zenon, NotDue DEF IInv, IdleReturns
<1>2. /\ ~nested[current] /\ ~user[current] /\ ~yieldOnReturn
      /\ SleepLoop /\ inHandler' \in BOOLEAN
      /\ UNCHANGED << yieldOnReturn, user, nested, oldStatus >>
  BY Zenon DEF IInv, ClockInv, StatusInv, IdleReturns
<1> QED
  BY Zenon, <1>1, <1>2, SleepLoopIInv

LEMMA HandlerIInv ==
  ASSUME IInv, Handler
  PROVE  IInv'
<1> USE DEF IInv, TypeOK
<1>1. /\ phase \in {"tick", "idle"} /\ Due /\ inHandler' = TRUE
      /\ TimerHandler \/ PollHandler \/ IOHandler
      /\ UNCHANGED << level, mode, phase, current, user, nested, oldStatus >>
  BY Zenon DEF Handler
<1>2. ClockInv' /\ pending' \in Seq(Entry) /\ Len(pending') <= 3
  BY Zenon, <1>1, HandlerClock
<1>3. ready' \subseteq Thread
  BY Zenon, <1>1 DEF TimerHandler, PollHandler, IOHandler, MayWake, Blocked
<1>4. yieldOnReturn' \in BOOLEAN
  BY Zenon, <1>1 DEF TimerHandler, PollHandler, IOHandler
<1>5. TypeOK'
  BY Zenon, <1>1, <1>2, <1>3, <1>4
<1>6. StatusInv'
  BY Zenon, <1>1 DEF StatusInv, Own
<1> QED
  BY Zenon, <1>2, <1>5, <1>6

LEMMA TickReturnsIInv ==
  ASSUME IInv, TickReturns
  PROVE  IInv'
<1> USE DEF IInv, TypeOK
<1>1. After(pending, 0)
  BY Zenon, NotDue DEF TickReturns
<1>2. /\ phase = "tick" /\ phase' = "code" /\ level' = "IntOn" /\ inHandler' = FALSE
      /\ ~yieldOnReturn /\ mode' = IF nested[current] THEN oldStatus[current] ELSE mode
      /\ nested' = [nested EXCEPT ![current] = FALSE]
      /\ UNCHANGED << pending, yieldOnReturn, current, ready, user, oldStatus >>
  BY Zenon DEF TickReturns
<1>3. ClockInv'
  BY Zenon, <1>1, <1>2 DEF ClockInv
<1>4. TypeOK'
  BY Zenon, <1>2
<1>5. StatusInv'
  BY Zenon, <1>2 DEF StatusInv, Own
<1> QED
  BY Zenon, <1>3, <1>4, <1>5

LEMMA TickYieldsIInv ==
  ASSUME IInv, TickYields
  PROVE  IInv'
<1> USE DEF IInv, TypeOK
<1>1. After(pending, 0)
  BY Zenon, NotDue DEF TickYields
<1>2. PICK u \in Thread : SwitchTo(u)
  BY Zenon DEF TickYields
<1>3. ready' \subseteq Thread
  BY Zenon DEF TickYields
<1>4. /\ phase = "tick" /\ inHandler' = FALSE /\ yieldOnReturn' = FALSE
      /\ nested' = [nested EXCEPT ![current] = TRUE]
      /\ oldStatus' = IF nested[current] THEN oldStatus
                      ELSE [oldStatus EXCEPT ![current] = mode]
      /\ user' = user
  BY Zenon DEF TickYields
<1>5. /\ OneTick("SystemMode") /\ current' = u /\ mode' = "SystemMode"
      /\ phase' = "tick" /\ level' = "IntOff"
  BY Zenon, <1>2 DEF SwitchTo, OneTick
<1>6. ClockInv' /\ pending' \in Seq(Entry) /\ Len(pending') <= 3
  BY Zenon, <1>1, <1>5, OneTickClock
<1>7. mode \in {"SystemMode", "UserMode"}
  BY Zenon, <1>4 DEF StatusInv
<1>8. TypeOK'
  BY Zenon, <1>3, <1>4, <1>5, <1>6, <1>7
<1>9. StatusInv'
  BY Zenon, <1>4, <1>5 DEF StatusInv, Own
<1> QED
  BY Zenon, <1>6, <1>8, <1>9

LEMMA NextIInv == IInv /\ [Next]_vars => IInv'
<1> SUFFICES ASSUME IInv, [Next]_vars PROVE IInv'
  BY Zenon
<1>1. CASE ThreadCode
  BY Zenon, <1>1, EnterTrapIInv, CodeTickIInv, DisableIInv, RequestIInv, SleepIInv
  DEF ThreadCode
<1>2. CASE Simulator
  BY Zenon, <1>2, HandlerIInv, TickReturnsIInv, TickYieldsIInv, IdleReturnsIInv DEF Simulator
<1>3. CASE UNCHANGED vars
  BY Zenon, <1>3 DEF vars, IInv, TypeOK, ClockInv, StatusInv, Own
<1> QED
  BY Zenon, <1>1, <1>2, <1>3 DEF Next

LEMMA AlwaysIInv == Spec => []IInv
  BY InitIInv, NextIInv, PTL DEF Spec

\* Interrupts are taken when they should be, whatever the delays: see
\* InterruptsOnTime for OneTick, CheckIfDue, Idle and the handlers.
THEOREM InterruptsAreOnTime == Spec => []InterruptsOnTime
<1>1. IInv => InterruptsOnTime
  <2> SUFFICES ASSUME IInv PROVE InterruptsOnTime
    BY Zenon
  <2>1. CodeSeesNoInterrupt /\ BoundedLateness /\ NoYieldWhenIdle
    BY Zenon DEF IInv, ClockInv, After, CodeSeesNoInterrupt, BoundedLateness, NoYieldWhenIdle
  <2>2. TimerAlwaysPending
    <3> DEFINE timers == {i \in DOMAIN pending : pending[i].type = "TimerInt"}
    <3>1. \E i : timers = {i}
      BY Zenon DEF IInv, ClockInv, Queue, OneOfEach, Has
    <3> QED
      BY Zenon, <3>1, FS_Singleton DEF TimerAlwaysPending
  <2> QED
    BY Zenon, <2>1, <2>2 DEF IInv, InterruptsOnTime
<1> QED
  BY <1>1, AlwaysIInv, PTL

\* The machine is in UserMode exactly while user code runs, for any threads and
\* any nesting of OneTick and Yield.
THEOREM ModeStaysRight == Spec => []ModeIsRight
<1>1. IInv => ModeIsRight
  BY Zenon DEF IInv, StatusInv, Own, ModeIsRight
<1> QED
  BY <1>1, AlwaysIInv, PTL

=============================================================================
