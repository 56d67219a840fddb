----------------------------- MODULE MCSynchList -----------------------------
(***************************************************************************)
(* Monitor and SynchList for TLC.  A behaviour has one of three clients:   *)
(* "any" calls the operations of the lock and of both its conditions in    *)
(* every order; "list" is a SynchList with a producer and three consumers, *)
(* one more than there are items, so that one can find the list emptied by *)
(* another after it was signalled; "observed" has an observer besides.     *)
(* An observer may take the lock again and again before a consumer does,   *)
(* so that progress is promised without one.                               *)
(***************************************************************************)
EXTENDS SynchList

CONSTANTS p1, c1, c2, c3, o1

VARIABLE client

mcVars == << vars, client >>

MCInit == Init /\ client \in {"any", "list", "observed"}
MCNext == /\ UNCHANGED client
          /\ \/ client = "any" /\ MonitorNext /\ UNCHANGED listVars
             \/ client = "list" /\ Next /\ \A t \in Observer : at'[t] = "out"
             \/ client = "observed" /\ Next

\* Fairness of SynchList, for its own behaviours.
MCFairness ==
  /\ WF_mcVars(client = "list" /\ (\E t \in Thread : LockP(t)) /\ UNCHANGED << listVars, client >>)
  /\ \A t \in Thread :
       /\ WF_mcVars(client = "list" /\ SetHolder(t) /\ UNCHANGED << listVars, client >>)
       /\ WF_mcVars(client = "list" /\ WaiterP(t) /\ UNCHANGED << listVars, client >>)
       /\ WF_mcVars(client = "list" /\ Body(t) /\ UNCHANGED client)

MCSpec == MCInit /\ [][MCNext]_mcVars /\ MCFairness

ListFifo == INSTANCE BlockingFifo
              WITH fifo <- IF client = "list" THEN list ELSE << >>,
                   wants <- {t \in Consumer : client = "list" /\ op[t] = "RemoveFront"},
                   got <- IF client = "list" THEN got ELSE [t \in Consumer |-> NoItem]

\* A SynchList is a blocking FIFO: order, no loss, no duplication, and progress
\* (threads/synchlist.cc, see ImplementsFifo).
ListIsFifo == ListFifo!FifoSpec
=============================================================================
