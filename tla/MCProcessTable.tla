--------------------------- MODULE MCProcessTable ---------------------------
(***************************************************************************)
(* ProcessTable for TLC: three slots (the first program and two more       *)
(* processes at a time) and more processes over time, so that slots are    *)
(* used again.  The programs of a behaviour join any pid at any time       *)
(* ("any"), or each child at most once ("once").                           *)
(***************************************************************************)
EXTENDS ProcessTable

\* A Join whose child has called Exit returns, and the child ends: its slot
\* and its thread are freed (see JoinReturns and JoinedIsRemoved).
OnceJoinsEnd == JoinOnce => JoinReturns /\ JoinedIsRemoved
=============================================================================
