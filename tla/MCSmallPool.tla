----------------------------- MODULE MCSmallPool -----------------------------
(***************************************************************************)
(* A small instance of SmallPool: classes of empty, small, middle and      *)
(* large files, the large one as large as the demand reserve, in a budget  *)
(* in which the large file and a middle one do not fit together: a middle  *)
(* file read ahead of the large one would strand it.                       *)
(***************************************************************************)
EXTENDS SmallPool

MCCapacity == <<0, 1, 2, 3>>
MCClassOf == <<3, 4, 3, 2, 1>>
=============================================================================
