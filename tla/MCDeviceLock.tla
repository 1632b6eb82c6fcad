---------------------------- MODULE MCDeviceLock ----------------------------
(***************************************************************************)
(* Two programs on one drive, each with a command thread and a window that *)
(* asks for the writer lease.                                              *)
(***************************************************************************)
EXTENDS DeviceLock

CONSTANTS p, q, p1, q1, wp, wq

MCHome == [a \in Actors |-> IF a \in {q1, wq} THEN q ELSE p]
=============================================================================
