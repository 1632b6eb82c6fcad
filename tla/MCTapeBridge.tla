---------------------------- MODULE MCTapeBridge ----------------------------
(***************************************************************************)
(* A small instance of TapeBridge: two files of one unit in the smallest   *)
(* ring the bridge accepts.  The slot of a file and its end-of-file slot   *)
(* fill the ring below the refill target.                                  *)
(***************************************************************************)
EXTENDS TapeBridge

TwoFiles == <<1, 1>>
=============================================================================
