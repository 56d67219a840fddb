---------------------------- MODULE MCSemaphores ----------------------------
(***************************************************************************)
(* Instance of Semaphores for TLC: three threads, one semaphore that only  *)
(* threads use (initially 1, a mutex) and one that a device signals        *)
(* (initially 0).                                                          *)
(***************************************************************************)
EXTENDS Semaphores

CONSTANTS m, t1, t2, mutex, io

MCThread == {m, t1, t2}
MCSemaphore == {mutex, io}
MCInitialValue == [s \in MCSemaphore |-> IF s = mutex THEN 1 ELSE 0]
=============================================================================
