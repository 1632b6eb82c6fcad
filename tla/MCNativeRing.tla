---------------------------- MODULE MCNativeRing ----------------------------
(***************************************************************************)
(* Small instances of NativeRing: a small file, an empty one and a large   *)
(* one of two chunks, in a ring of two slots (the minimum lfr_create       *)
(* accepts), so that one chunk fills the ring, slots wrap, end-of-file     *)
(* slots meet a full ring and the last slot of a file is short.            *)
(***************************************************************************)
EXTENDS NativeRing

MixedFiles == <<3, 0, 5>>
=============================================================================
