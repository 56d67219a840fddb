------------------------------- MODULE Stacks -------------------------------
(***************************************************************************)
(* The two stacks of c++example/inheritstack.cc, an array and a List of    *)
(* c++example/list.cc, driven side by side: "Note this code is generic     *)
(* between the two versions -- it doesn't matter whether this is an        *)
(* ArrayStack or a ListStack!"                                             *)
(***************************************************************************)
EXTENDS Integers, Sequences, FiniteSets

CONSTANTS Value, size

NULL == 0
Addr == 1 .. size

VARIABLES
  stack, top,         \* ArrayStack; the array keeps what was popped
  heap, first, last,  \* the List of the ListStack
  popped              \* what the last Pop of each returned, or << >>

vars == << stack, top, heap, first, last, popped >>

\* The array's first contents are not defined.
Init ==
  /\ stack \in [0 .. size - 1 -> Value] /\ top = 0
  /\ heap = [a \in {} |-> 0] /\ first = NULL /\ last = NULL
  /\ popped = << >>

Full == top = size
ArrayEmpty == top = 0
ListEmpty == first = NULL

\* ArrayStack::Push
ArrayPush(value) == ~Full /\ stack' = [stack EXCEPT ![top] = value] /\ top' = top + 1

\* List::Prepend, which is ListStack::Push
Prepend(value) ==
  LET element == CHOOSE a \in Addr : a \notin DOMAIN heap
  IN /\ heap' = [a \in DOMAIN heap \cup {element} |->
                   IF a = element THEN [item |-> value, next |-> first] ELSE heap[a]]
     /\ first' = element
     /\ last' = IF ListEmpty THEN element ELSE last

\* ArrayStack::Pop
ArrayPop == ~ArrayEmpty /\ top' = top - 1 /\ UNCHANGED stack

\* List::Remove, which is ListStack::Pop
ListRemove ==
  /\ ~ListEmpty
  /\ heap' = [a \in DOMAIN heap \ {first} |-> heap[a]]
  /\ first' = IF first = last THEN NULL ELSE heap[first].next
  /\ last' = IF first = last THEN NULL ELSE last

Push(value) == ArrayPush(value) /\ Prepend(value) /\ popped' = << >>
Pop == ArrayPop /\ ListRemove /\ popped' = << stack[top - 1], heap[first].item >>

Next == Pop \/ \E value \in Value : Push(value)
Spec == Init /\ [][Next]_vars

-----------------------------------------------------------------------------
\* It does not matter which of the two stacks a program uses: they are empty at
\* the same time, every Pop returns the same value from both, and the list
\* holds as many elements as the array (ArrayStack, ListStack, List).
SameStack ==
  /\ ArrayEmpty <=> ListEmpty
  /\ popped # << >> => popped[1] = popped[2]
  /\ Cardinality(DOMAIN heap) = top /\ first \in DOMAIN heap \cup {NULL}
=============================================================================
