----------------------------- MODULE MCLibrary ------------------------------
(***************************************************************************)
(* The data structures of lib/ for TLC: Lists, HashTable, Bitmap and       *)
(* Stacks.  In a behaviour one of them is used, `part`, and the others     *)
(* stay as they were made.                                                 *)
(***************************************************************************)
EXTENDS Lists

VARIABLES part,
          buckets, numBuckets, numItems, iter, shown, failed,
          map, found,
          stack, top, stackHeap, stackFirst, stackLast, popped

\* Four items, two of which compare equal.
MCItem == 1 .. 4
MCKey(x) == x \div 2

\* The items of the table are their own keys; one is negative.
Same(x) == x
H == INSTANCE HashTable
       WITH Item <- {-1, 0, 1, 2, 3, 4}, getKey <- Same, InitialBuckets <- 1, ResizeRatio <- 2,
            IncreaseSizeBy <- 2, UnsignedRange <- 256, MaxBuckets <- 4, seen <- shown

B == INSTANCE Bitmap WITH numBits <- 7, BitsInWord <- 3, last <- found

K == INSTANCE Stacks
       WITH Value <- {17, 18}, size <- 4, heap <- stackHeap, first <- stackFirst, last <- stackLast

-----------------------------------------------------------------------------
hashVars == << buckets, numBuckets, numItems, iter, shown, failed >>
bitmapVars == << map, found >>
stackVars == << stack, top, stackHeap, stackFirst, stackLast, popped >>

MCInit ==
  /\ part \in {"list", "hash", "bitmap", "stack"}
  /\ Init /\ (part # "list" => sorted = FALSE)
  /\ H!Init /\ B!Init
  /\ K!Init /\ (part # "stack" => \A i \in DOMAIN stack : stack[i] = 17)

MCNext ==
  /\ UNCHANGED part
  /\ \/ part = "list" /\ Next /\ UNCHANGED << hashVars, bitmapVars, stackVars >>
     \/ part = "hash" /\ H!Next /\ UNCHANGED << vars, bitmapVars, stackVars >>
     \/ part = "bitmap" /\ B!Next /\ UNCHANGED << vars, hashVars, stackVars >>
     \/ part = "stack" /\ K!Next /\ UNCHANGED << vars, hashVars, bitmapVars >>

MCSpec == MCInit /\ [][MCNext]_<< part, vars, hashVars, bitmapVars, stackVars >>

-----------------------------------------------------------------------------
\* The properties of the four modules, those that belong together as one.

\* The pointers of a List implement a sequence: Append works on its end, Prepend
\* and RemoveFront on its beginning, RemoveFront returns what it takes off, and a
\* sorted list stays sorted and stable; SanityCheck holds, nothing leaks, and iterators show every item once;
\* and a ListStack gives back what an ArrayStack does (list.cc, stack.cc).
ListIsSequence == IsSequence /\ [](Sane /\ IteratesOverAll /\ K!SameStack)

\* An item is found by its key until it is removed, though the table grows; none
\* of the table's assertions fails, whatever the sign of the keys, and iterators
\* show every item once (hash.cc).
TableFindsAll == H!FoundByKey /\ [](H!AssertionsHold /\ H!IteratesOverTable)

\* The words of a Bitmap behave as a set of bits (Mark, Clear, Test,
\* FindAndSet, NumClear).
BitmapIsSet == B!BehavesAsASet
=============================================================================
