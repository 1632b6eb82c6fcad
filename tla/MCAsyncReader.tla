---------------------------- MODULE MCAsyncReader ----------------------------
(***************************************************************************)
(* A file longer than the queue and a shorter one: the queue of the first  *)
(* is refilled while it is consumed, and the second is prepared and taken  *)
(* over or discarded.                                                      *)
(***************************************************************************)
EXTENDS AsyncReader

MCFileLen == <<4, 2>>
=============================================================================
