---------------------------- MODULE SequenceList ----------------------------
(***************************************************************************)
(* What lib/list.h promises: a list is a sequence of distinct items.       *)
(* Append puts an item at its end and Prepend at its beginning, RemoveFront *)
(* takes the first one and returns it, Remove takes the one it is given,   *)
(* and a sorted list keeps its items in order, equal ones as they came.    *)
(***************************************************************************)
EXTENDS Integers, Sequences, SequencesExt

CONSTANTS Item, Key(_)

VARIABLES items,   \* the sequence
          sorted,  \* whether it is a SortedList
          called   \* the last call, with the item it was given or returned

Init == items = << >> /\ sorted \in BOOLEAN /\ called = << >>

Put(op, x, new) ==
  /\ x \notin Range(items)
  /\ items' = new /\ called' = << op, x >> /\ UNCHANGED sorted

AppendItem(x) == ~sorted /\ Put("Append", x, Append(items, x))
Prepend(x) == ~sorted /\ Put("Prepend", x, << x >> \o items)
Insert(x) ==
  /\ sorted
  /\ Put("Insert", x, SelectSeq(items, LAMBDA y : Key(y) <= Key(x)) \o << x >>
                        \o SelectSeq(items, LAMBDA y : Key(y) > Key(x)))

RemoveFront ==
  /\ items # << >>
  /\ items' = Tail(items) /\ called' = << "RemoveFront", Head(items) >> /\ UNCHANGED sorted

RemoveItem(x) ==
  /\ x \in Range(items)
  /\ items' = Remove(items, x) /\ called' = << "Remove", x >> /\ UNCHANGED sorted

Next == RemoveFront \/ \E x \in Item : AppendItem(x) \/ Prepend(x) \/ Insert(x) \/ RemoveItem(x)
Spec == Init /\ [][Next]_<< items, sorted, called >>
=============================================================================
