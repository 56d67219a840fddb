-------------------------------- MODULE Lists --------------------------------
(***************************************************************************)
(* List, SortedList and ListIterator of lib/list.cc and lib/list.h, pointer *)
(* by pointer: "heap" holds the ListElements that are allocated.           *)
(***************************************************************************)
EXTENDS Integers, Sequences, FiniteSets

CONSTANTS Item, Key(_)

NULL == 0
Addr == 1 .. Cardinality(Item) + 1   \* room for every item and the new element

VARIABLES
  heap,                   \* address -> ListElement
  first, last, numInList, \* List
  sorted,                 \* whether it is a SortedList
  called,                 \* the last call, with the item it was given or returned
  current, seen           \* a ListIterator and the items it has shown, or << >>

list == << heap, first, last, numInList >>
vars == << heap, first, last, numInList, sorted, called, current, seen >>

Init ==
  /\ heap = [a \in {} |-> 0] /\ first = NULL /\ last = NULL /\ numInList = 0
  /\ sorted \in BOOLEAN /\ called = << >> /\ current = << >> /\ seen = << >>

\* The addresses from "first" along "next"; an address that is not allocated
\* ends the walk.
Chain ==
  LET at[k \in Addr] == IF k = 1 THEN first
                        ELSE IF at[k - 1] \in DOMAIN heap THEN heap[at[k - 1]].next ELSE NULL
  IN SelectSeq([k \in Addr |-> at[k]], LAMBDA a : a \in DOMAIN heap)
Items == [k \in DOMAIN Chain |-> heap[Chain[k]].item]

IsEmpty == numInList = 0
IsInList(item) == \E k \in DOMAIN Items : Items[k] = item

\* The ListElement for an item, and the heap with it.
Fresh == CHOOSE a \in Addr : a \notin DOMAIN heap
Allocated(item, next) ==
  [a \in DOMAIN heap \cup {Fresh} |-> IF a = Fresh THEN [item |-> item, next |-> next] ELSE heap[a]]
Freed(h, a) == [b \in DOMAIN h \ {a} |-> h[b]]

\* No iterator is at work; callers step through a list without changing it.
Quiet == current = << >> /\ UNCHANGED << sorted, current, seen >>

\* Mutant: an item goes to the front.
AppendAtFront(item) ==
  /\ Quiet /\ ~sorted /\ ~IsInList(item)
  /\ heap' = Allocated(item, first)
  /\ first' = Fresh
  /\ last' = IF IsEmpty THEN Fresh ELSE last
  /\ numInList' = numInList + 1
  /\ called' = << "Append", item >>

\* List::Append; the item must not be in the list.
AppendItem(item) ==
  /\ Quiet /\ ~sorted /\ ~IsInList(item)
  /\ first' = IF IsEmpty THEN Fresh ELSE first
  /\ heap' = IF IsEmpty THEN Allocated(item, NULL)
             ELSE [Allocated(item, NULL) EXCEPT ![last].next = Fresh]
  /\ last' = Fresh
  /\ numInList' = numInList + 1
  /\ called' = << "Append", item >>

\* List::Prepend
Prepend(item) ==
  /\ Quiet /\ ~sorted /\ ~IsInList(item)
  /\ heap' = Allocated(item, first)
  /\ first' = Fresh
  /\ last' = IF IsEmpty THEN Fresh ELSE last
  /\ numInList' = numInList + 1
  /\ called' = << "Prepend", item >>

\* List::RemoveFront, which returns the item.
TakeFront ==
  /\ Quiet /\ ~IsEmpty
  /\ first' = IF first = last THEN NULL ELSE heap[first].next
  /\ last' = IF first = last THEN NULL ELSE last
  /\ heap' = Freed(heap, first)
  /\ numInList' = numInList - 1
RemoveFront == TakeFront /\ called' = << "RemoveFront", heap[first].item >>

\* List::Remove: from the front, or the first match behind it.
Remove(item) ==
  /\ IsInList(item) /\ called' = << "Remove", item >>
  /\ IF heap[first].item = item THEN TakeFront
     ELSE LET k == CHOOSE k \in DOMAIN Items : Items[k] = item /\ \A j \in 1 .. k - 1 : Items[j] # item
              prev == Chain[k - 1]
              ptr == Chain[k]
          IN /\ Quiet
             /\ heap' = Freed([heap EXCEPT ![prev].next = heap[ptr].next], ptr)
             /\ last' = IF heap[ptr].next = NULL THEN prev ELSE last
             /\ numInList' = numInList - 1
             /\ UNCHANGED first

\* SortedList's compare(item, other) < 0
Bigger(item, other) == Key(item) - Key(other) < 0

\* SortedList::Insert, which is also a SortedList's Append and Prepend.
Insert(item) ==
  /\ Quiet /\ sorted /\ ~IsInList(item) /\ called' = << "Insert", item >>
  /\ numInList' = numInList + 1
  /\ LET bigger == {k \in DOMAIN Items : Bigger(item, Items[k])}
     IN IF IsEmpty THEN heap' = Allocated(item, NULL) /\ first' = Fresh /\ last' = Fresh
        ELSE IF 1 \in bigger THEN heap' = Allocated(item, first) /\ first' = Fresh /\ UNCHANGED last
        ELSE IF bigger # {}
        THEN LET k == CHOOSE k \in bigger : \A j \in bigger : k <= j
             IN /\ heap' = [Allocated(item, Chain[k]) EXCEPT ![Chain[k - 1]].next = Fresh]
                /\ UNCHANGED << first, last >>
        ELSE /\ heap' = [Allocated(item, NULL) EXCEPT ![last].next = Fresh]
             /\ last' = Fresh /\ UNCHANGED first

\* ListIterator: the constructor, Item and Next, and the end of the loop.
Iterate == current = << >> /\ current' = << first >> /\ seen' = << >> /\ UNCHANGED << list, sorted, called >>
IterNext ==
  /\ current # << >> /\ current[1] # NULL
  /\ seen' = seen \o << heap[current[1]].item >>
  /\ current' = << heap[current[1]].next >>
  /\ UNCHANGED << list, sorted, called >>
IterDone ==
  /\ current = << NULL >> /\ current' = << >> /\ seen' = << >> /\ UNCHANGED << list, sorted, called >>

Next ==
  \/ \E item \in Item : AppendItem(item) \/ Prepend(item) \/ Remove(item) \/ Insert(item)
  \/ RemoveFront \/ Iterate \/ IterNext \/ IterDone
Spec == Init /\ [][Next]_vars

-----------------------------------------------------------------------------
\* SanityCheck's assertions and more: the walk from "first" meets numInList
\* elements and ends at "last", and there is no other element, so that nothing
\* leaks and nothing freed is linked (List::SanityCheck).
Sane ==
  /\ Len(Chain) = numInList /\ Cardinality(DOMAIN heap) = numInList
  /\ IF numInList = 0 THEN first = NULL /\ last = NULL
     ELSE last = Chain[numInList] /\ heap[last].next = NULL

\* An iterator that has reached the end has shown every item of the list, in
\* order and once (ListIterator).
IteratesOverAll == current = << NULL >> => seen = Items

\* The pointers implement a sequence: every call of List and SortedList has on
\* the items the effect list.h gives it, RemoveFront returns the first one, and
\* items with equal keys leave a sorted list in the order they came.
Sequence == INSTANCE SequenceList WITH items <- Items
IsSequence == Sequence!Spec

=============================================================================
