------------------------------ MODULE HashTable ------------------------------
(***************************************************************************)
(* HashTable and HashIterator of lib/hash.cc.  A bucket is a List, here the *)
(* sequence that SequenceList promises.                                    *)
(***************************************************************************)
EXTENDS Integers, Sequences, FiniteSets, SequencesExt

CONSTANTS Item,                \* what is put into the table
          getKey(_),           \* its key, an int
          InitialBuckets, ResizeRatio, IncreaseSizeBy,
          UnsignedRange,       \* the number of unsigned ints
          MaxBuckets           \* bound: the table grows no further

VARIABLES
  buckets, numBuckets, numItems,
  iter,      \* a HashIterator: its bucket and where it is in it, or << >>
  seen,      \* the items it has shown
  failed     \* an assertion failed

table == << buckets, numBuckets, numItems >>
vars == << buckets, numBuckets, numItems, iter, seen, failed >>

Empty(sz) == [i \in 0 .. sz - 1 |-> << >>]

Init ==
  /\ numItems = 0 /\ numBuckets = InitialBuckets /\ buckets = Empty(InitialBuckets)
  /\ iter = << >> /\ seen = << >> /\ failed = FALSE

\* HashTable::HashValue; hash is HashInt, the key as an unsigned int.
HashValue(key, sz) == (key % UnsignedRange) % sz

\* HashTable::FindInBucket and Find: the items with the key, in the one bucket
\* where it may be.
Find(key) ==
  LET b == HashValue(key, numBuckets)
  IN IF b \notin DOMAIN buckets THEN << >>
     ELSE SelectSeq(buckets[b], LAMBDA x : getKey(x) = key)
IsInTable(key) == Find(key) # << >>

\* HashTable::SanityCheck
SanityCheck(bs, sz, n) ==
  /\ n = FoldLeft(LAMBDA sum, k : sum + Len(bs[k - 1]), 0, [k \in 1 .. sz |-> k])
  /\ \A i \in 0 .. sz - 1 : \A k \in DOMAIN bs[i] : HashValue(getKey(bs[i][k]), sz) = i

\* HashTable::ReHash: every item, bucket by bucket, is appended where it
\* belongs in the larger table.
ReHash(bs, sz) ==
  LET all == FoldLeft(LAMBDA s, k : s \o bs[k - 1], << >>, [k \in 1 .. sz |-> k])
      size == sz * IncreaseSizeBy
  IN [i \in 0 .. size - 1 |-> SelectSeq(all, LAMBDA x : HashValue(getKey(x), size) = i)]

\* HashTable::Insert; the caller's key must be new.
Insert(item) ==
  LET grow == (numItems \div numBuckets) >= ResizeRatio
      size == IF grow THEN numBuckets * IncreaseSizeBy ELSE numBuckets
      bs == IF grow THEN ReHash(buckets, numBuckets) ELSE buckets
      b == HashValue(getKey(item), size)
  IN /\ ~failed /\ iter = << >> /\ ~IsInTable(getKey(item)) /\ size <= MaxBuckets
     /\ IF b \in DOMAIN bs /\ (grow => /\ SanityCheck(buckets, numBuckets, numItems)
                                       /\ SanityCheck(bs, size, numItems))
        THEN /\ buckets' = [bs EXCEPT ![b] = Append(@, item)]
             /\ numBuckets' = size /\ numItems' = numItems + 1 /\ UNCHANGED failed
        ELSE failed' = TRUE /\ UNCHANGED table
     /\ UNCHANGED << iter, seen >>

\* Mutant: the first item of the bucket is removed.
RemoveKeyFront(key) ==
  /\ ~failed /\ iter = << >> /\ IsInTable(key)
  /\ buckets' = [buckets EXCEPT ![HashValue(key, numBuckets)] = Tail(@)]
  /\ numItems' = numItems - 1
  /\ UNCHANGED << numBuckets, iter, seen, failed >>

\* HashTable::Remove; the key must be there.
RemoveKey(key) ==
  /\ ~failed /\ iter = << >> /\ IsInTable(key)
  /\ buckets' = [buckets EXCEPT ![HashValue(key, numBuckets)] = SelectSeq(@, LAMBDA x : x # Find(key)[1])]
  /\ numItems' = numItems - 1
  /\ UNCHANGED << numBuckets, iter, seen, failed >>

\* HashTable::FindNextFullBucket
FindNextFullBucket(bucket) ==
  LET full == {b \in 0 .. numBuckets - 1 : b >= bucket /\ buckets[b] # << >>}
  IN IF full = {} THEN numBuckets ELSE CHOOSE b \in full : \A c \in full : b <= c

\* HashIterator::HashIterator
Iterate ==
  /\ ~failed /\ iter = << >> /\ iter' = << FindNextFullBucket(0), 1 >> /\ seen' = << >>
  /\ UNCHANGED << table, failed >>

\* HashIterator::Item and Next
IterNext ==
  /\ iter # << >> /\ iter[1] # numBuckets
  /\ seen' = Append(seen, buckets[iter[1]][iter[2]])
  /\ iter' = IF iter[2] < Len(buckets[iter[1]]) THEN << iter[1], iter[2] + 1 >>
             ELSE << FindNextFullBucket(iter[1] + 1), 1 >>
  /\ UNCHANGED << table, failed >>

\* HashIterator::IsDone
IterDone ==
  /\ iter # << >> /\ iter[1] = numBuckets /\ iter' = << >> /\ seen' = << >>
  /\ UNCHANGED << table, failed >>

Next ==
  \/ \E item \in Item : Insert(item) \/ RemoveKey(getKey(item))
  \/ Iterate \/ IterNext \/ IterDone
Spec == Init /\ [][Next]_vars

-----------------------------------------------------------------------------
InTable == UNION {Range(buckets[i]) : i \in DOMAIN buckets}

\* None of the table's assertions fails, whatever the sign of the keys: the
\* hash names a bucket and SanityCheck holds before and after the table has
\* grown (HashValue, Insert, ReHash, SanityCheck).
AssertionsHold == ~failed

\* An item is found by its key as long as it has not been removed, though the
\* table has grown in between (Find, Insert, Remove, ReHash).
FoundByKey ==
  [][\A x \in Item :
       /\ Find(getKey(x)) = << x >> /\ ~RemoveKey(getKey(x)) => Find(getKey(x))' = << x >>
       /\ Insert(x) /\ ~failed' => Find(getKey(x))' = << x >>
       /\ RemoveKey(getKey(x)) => Find(getKey(x))' = << >>]_vars

\* An iterator that is done has shown every item of the table once
\* (HashIterator, FindNextFullBucket).
IteratesOverTable ==
  iter # << >> /\ iter[1] = numBuckets => Len(seen) = numItems /\ Range(seen) = InTable

=============================================================================
