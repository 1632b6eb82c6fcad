----------------------------- MODULE MCTapeFile -----------------------------
(***************************************************************************)
(* Small instances of TapeFile: blocks of three bytes on a tape of six     *)
(* records, repacked into slots of two.  A file in one extent that starts  *)
(* inside a record and ends inside another; a file of two extents listed   *)
(* out of order; a file in one short record; one whose extent goes on      *)
(* after a short record; an empty file; and lists with a gap, an overlap,  *)
(* a duplicate, an empty extent, an offset outside the block and a wrong   *)
(* length.                                                                 *)
(***************************************************************************)
EXTENDS TapeFile

Tape == [b \in 0..5 |-> CASE b = 2 -> 1 [] b = 4 -> 0 [] OTHER -> 3]

E(offset, block, first, count) ==
  [file_offset |-> offset, start_block |-> block, byte_offset |-> first,
   byte_count |-> count]

File(length, list) == [length |-> length, extents |-> list]

Manifest ==
  {File(5, <<E(0, 0, 1, 5)>>), File(6, <<E(0, 0, 0, 6)>>),
   File(5, <<E(2, 3, 0, 3), E(0, 0, 2, 2)>>),
   File(1, <<E(0, 2, 0, 1)>>), File(0, <<>>), File(2, <<E(0, 2, 0, 2)>>),
   File(3, <<E(0, 2, 0, 1), E(1, 3, 1, 2)>>),
   File(4, <<E(0, 0, 0, 1), E(2, 1, 0, 2)>>),
   File(3, <<E(0, 0, 0, 2), E(1, 1, 0, 2)>>),
   File(4, <<E(0, 0, 0, 2), E(1, 1, 0, 2)>>),
   File(2, <<E(0, 0, 0, 2), E(0, 0, 0, 2)>>),
   File(2, <<E(0, 0, 0, 2), E(2, 1, 0, 0)>>),
   File(2, <<E(0, 0, 3, 2)>>), File(3, <<E(0, 0, 0, 2)>>), File(1, <<>>)}
=============================================================================
