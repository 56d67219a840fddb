---------------------------- MODULE BlockingFifo ----------------------------
(***************************************************************************)
(* What a SynchList promises: a FIFO whose RemoveFront waits for an item.  *)
(***************************************************************************)
EXTENDS Sequences

CONSTANTS Consumer, Item, NoItem

VARIABLES fifo,  \* the items appended and not yet removed
          got,   \* the item a consumer's last RemoveFront returned
          wants  \* the consumers that are in RemoveFront

fifoVars == << fifo, got, wants >>

FifoInit == fifo = << >> /\ got = [t \in Consumer |-> NoItem] /\ wants = {}

Put(x) == fifo' = Append(fifo, x) /\ UNCHANGED << got, wants >>

Want(t) == /\ t \notin wants
           /\ wants' = wants \cup {t}
           /\ UNCHANGED << fifo, got >>

Get(t) == /\ t \in wants
          /\ fifo # << >>
          /\ fifo' = Tail(fifo)
          /\ got' = [got EXCEPT ![t] = Head(fifo)]
          /\ wants' = wants \ {t}

FifoNext == \/ \E x \in Item : Put(x)
            \/ \E t \in Consumer : Want(t) \/ Get(t)

\* Items come out in the order they went in, each to one consumer.
FifoSafety == FifoInit /\ [][FifoNext]_fifoVars

\* And while there are items and consumers, some consumer gets one.
FifoSpec == FifoSafety /\ WF_fifoVars(\E t \in Consumer : Get(t))

=============================================================================
