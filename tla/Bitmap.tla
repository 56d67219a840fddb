------------------------------- MODULE Bitmap -------------------------------
(***************************************************************************)
(* Bitmap of lib/bitmap.cc: bits in words of BitsInWord, the last of which *)
(* may be used in part.                                                    *)
(***************************************************************************)
EXTENDS Integers, Sequences, FiniteSets, Bitwise

CONSTANTS numBits, BitsInWord

numWords == (numBits + BitsInWord - 1) \div BitsInWord
Bits == 0 .. numBits - 1
Complement(w) == 2 ^ BitsInWord - 1 - w

VARIABLES
  map,     \* the words
  last     \* what the last FindAndSet or NumClear returned, -2 before

vars == << map, last >>

Test(m, which) == m[which \div BitsInWord] & 2 ^ (which % BitsInWord) # 0

SetBit(m, which) == [m EXCEPT ![which \div BitsInWord] = @ | 2 ^ (which % BitsInWord)]
ClearBit(m, which) == [m EXCEPT ![which \div BitsInWord] = @ & Complement(2 ^ (which % BitsInWord))]

Init == map = [w \in 0 .. numWords - 1 |-> 0] /\ last = -2

Mark(which) == map' = SetBit(map, which) /\ last' = -2
Clear(which) == map' = ClearBit(map, which) /\ last' = -2

\* Mutant: the search goes through all the bits of the words.
SearchedWords == 0 .. numWords * BitsInWord - 1

Searched == Bits

FindAndSet ==
  LET clear == {i \in Searched : ~Test(map, i)}
  IN IF clear = {} THEN last' = -1 /\ UNCHANGED map
     ELSE LET i == CHOOSE i \in clear : \A j \in clear : i <= j
          IN map' = SetBit(map, i) /\ last' = i

NumClear(m) == Cardinality({i \in Bits : ~Test(m, i)})

Next == FindAndSet \/ \E which \in Bits : Mark(which) \/ Clear(which)
Spec == Init /\ [][Next]_vars

-----------------------------------------------------------------------------
Marked(m) == {i \in Bits : Test(m, i)}

\* The words behave as a set of bits, across the boundary of words: an operation
\* disturbs no bit but its own, and FindAndSet gives out each bit once until it
\* is cleared, never one that does not exist, and gives up only when none is
\* clear (Mark, Clear, Test, FindAndSet, NumClear).
BehavesAsASet ==
  [][/\ \A which \in Bits : /\ Mark(which) => Marked(map') = Marked(map) \cup {which}
                            /\ Clear(which) => Marked(map') = Marked(map) \ {which}
     /\ FindAndSet => IF NumClear(map) = 0 THEN last' = -1
                      ELSE last' \in Bits \ Marked(map) /\ Marked(map') = Marked(map) \cup {last'}]_vars
=============================================================================
