---------------------------- MODULE MCWriteLoop ----------------------------
(***************************************************************************)
(* A small instance of WriteLoop: a file of one block, one of two blocks,  *)
(* a duplicate of the first and an empty file, through a ring that holds   *)
(* one block.                                                              *)
(***************************************************************************)
EXTENDS WriteLoop

Files == <<1, 3, 1, 0>>
Contents == <<1, 2, 1, 3>>
=============================================================================
