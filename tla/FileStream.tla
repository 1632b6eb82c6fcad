----------------------------- MODULE FileStream -----------------------------
(***************************************************************************)
(* What every reader of this repository promises to the writer of the      *)
(* tape, whatever ring, thread or process stands in between: the items of  *)
(* the selected files arrive in file order, each exactly once, every file  *)
(* as consecutive data items that cover it without a gap followed by one   *)
(* end-of-file item, and the stream is reported complete only when the     *)
(* end-of-file item of the last selected file has been received.           *)
(***************************************************************************)
EXTENDS Naturals, Sequences

CONSTANTS
  FileLen,    (* lengths of the files of the catalogue, in catalogue order  *)
  SlotSize    (* the most payload one item carries                          *)

VARIABLES
  selected,   (* the files of the catalogue that are streamed               *)
  last,       (* the item received last, NoItem before the first            *)
  ending      (* "open", or how the stream ended for its receiver           *)

streamVars == <<selected, last, ending>>

Files == 1..Len(FileLen)

Endings == {"done", "failed", "cancelled"}

-----------------------------------------------------------------------------
(* Items: a piece of a file, or its end-of-file marker.                    *)

Item == [file : Nat, offset : Nat, length : Nat, eof : BOOLEAN]

NoItem == [file |-> 0, offset |-> 0, length |-> 0, eof |-> TRUE]

MinOf(a, b) == IF a <= b THEN a ELSE b

(* The item of file f that starts at offset.                               *)
ItemAt(f, offset) ==
  [file   |-> f,
   offset |-> offset,
   length |-> MinOf(SlotSize, FileLen[f] - offset),
   eof    |-> offset = FileLen[f]]

IsNextFile(sel, f, g) == g > f /\ \A h \in sel : h > f => g <= h

(* The file streamed after file f, Len(FileLen) + 1 when f is the last.    *)
NextFile(sel, f) ==
  IF \E g \in sel : IsNextFile(sel, f, g)
  THEN CHOOSE g \in sel : IsNextFile(sel, f, g)
  ELSE Len(FileLen) + 1

(* it2 is the item that follows it1 in the stream of the files sel.        *)
Follows(sel, it1, it2) ==
  IF it1.eof
  THEN /\ NextFile(sel, it1.file) \in Files
       /\ it2 = ItemAt(NextFile(sel, it1.file), 0)
  ELSE it2 = ItemAt(it1.file, it1.offset + it1.length)

(* it is the last item of the stream of the files sel.                     *)
IsLast(sel, it) == it.eof /\ NextFile(sel, it.file) \notin Files

-----------------------------------------------------------------------------
Init ==
  /\ selected = {}
  /\ last = NoItem
  /\ ending = "open"

(* The files are chosen before the first item is received.                 *)
Choose(f) ==
  /\ last = NoItem /\ ending = "open"
  /\ f \in Files
  /\ selected' = selected \union {f}
  /\ UNCHANGED <<last, ending>>

Receive ==
  /\ ending = "open"
  /\ last' \in Item
  /\ Follows(selected, last, last')
  /\ UNCHANGED <<selected, ending>>

End ==
  /\ ending = "open"
  /\ ending' \in Endings
  /\ ending' = "done" => IsLast(selected, last)
  /\ UNCHANGED <<selected, last>>

Next ==
  \/ \E f \in Files : Choose(f)
  \/ Receive
  \/ End

Spec == Init /\ [][Next]_streamVars
=============================================================================
