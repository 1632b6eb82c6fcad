--------------------------- MODULE SmallFileState ---------------------------
(***************************************************************************)
(* The two flags of struct SmallFileState that every thread of the         *)
(* small-file pool looks at: the scheduler (SmallPool) and the threads     *)
(* around a call of the kernel (SmallPoolIo).                              *)
(***************************************************************************)
VARIABLES
  shutdown,       (* the pool is being shut down                             *)
  fatal_error     (* fatal_error.is_some(): no file is started any more      *)
=============================================================================
