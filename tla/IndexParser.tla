---------------------------- MODULE IndexParser ----------------------------
(***************************************************************************)
(* SchemaParser: one LTFS index document becomes a store.  The document is *)
(* the sequence of the events the XML reader delivers:                     *)
(*   [ev |-> "open", el |-> e]  a start tag of "ltfsindex", "directory",   *)
(*                              "contents" (or the older "_file" and       *)
(*                              "_directory") or "other", closed by a      *)
(*                              later [ev |-> "close"]                     *)
(*   [ev |-> "name", value |-> n]     <name>n</name>                       *)
(*   [ev |-> "file", file |-> f]      a whole <file> element               *)
(*   [ev |-> "emptyfile"], [ev |-> "emptydir"]  <file/> and <directory/>   *)
(*   [ev |-> "unsafe"]          a DOCTYPE, an entity reference or a second *)
(*                              declaration                                *)
(* Text, comments and the other scalar elements leave no trace here, and   *)
(* a document that ends early is a prefix of its events.  A root, or a     *)
(* first directory, that is an empty element is left out: what becomes of  *)
(* it depends on how the XML library reads a start tag as an element.      *)
(*                                                                         *)
(* parse() keeps the document as it is.  parse_merge_contents() reads the  *)
(* first directory only and makes its children the children of a root that *)
(* is not written here; it gives every file record the source's barcode.   *)
(*                                                                         *)
(* The recursive descent is a stack of frames.  A frame "top" or           *)
(* "directory" carries the DirectoryState its children are added to;       *)
(* "ltfsindex", "contents" and "flat" (the first directory of a merge      *)
(* source) are containers whose children belong to the frame below; "scan" *)
(* is the search for the first directory; "skip" is skip_element.          *)
(***************************************************************************)
EXTENDS IndexStore

FileLength == 3          (* cells of the record of a <file> element        *)
EmptyFileLength == 1     (* cells of <file/>                               *)

NoBarcode == "none"

Events ==
  [ev : {"open"}, el : STRING] \union [ev : {"name"}, value : STRING]
  \union [ev : {"file"}, file : STRING]
  \union [ev : {"close", "emptyfile", "emptydir", "unsafe"}]

Frame(el, state) == [el |-> el, state |-> state]

StartParse(merge, barcode) ==
  [status |-> "reading", merge |-> merge, barcode |-> barcode,
   store |-> EmptyStore, stack |-> <<Frame("top", NewState)>>]

Push(p, el, state) == [p EXCEPT !.stack = Append(@, Frame(el, state))]
Pop(p) == [p EXCEPT !.stack = Front(@)]
Fail(p) == [p EXCEPT !.status = "error"]
Finish(p) == [p EXCEPT !.status = "done"]

(* The frame whose directory the children at this place belong to.         *)
Owner(p) ==
  CHOOSE k \in DOMAIN p.stack :
    /\ p.stack[k].el \in {"top", "directory"}
    /\ \A j \in DOMAIN p.stack :
         p.stack[j].el \in {"top", "directory"} => j <= k

OwnerState(p) == p.stack[Owner(p)].state

(* append_file_record, allocate_selection and append_file_index for a      *)
(* record of length cells that starts at offset.                           *)
AddFile(p, file, length, offset, written) ==
  LET record == [file |-> file, barcode |-> p.barcode, uid |-> 0]
      owner == OwnerState(p)
      store == AppendRecord(p.store, record, length)
      entry == [next |-> -1, record_offset |-> offset,
                record_length |-> length,
                selection |-> store.selection_count]
  IN  [p EXCEPT
         !.store = [store EXCEPT
            !.file_records_position = written,
            !.selection_count = @ + 1,
            !.file_index = AppendIndex(@, owner.files, entry)],
         !.stack[Owner(p)].state =
            [owner EXCEPT !.files = AppendChain(store.file_index, @),
                          !.total_file_count = @ + 1]]

AppendChildFile(p, file, length) ==
  LET offset == p.store.file_records_position
  IN  AddFile(p, file, length, offset, offset + length)

(* <file/> among the children of ltfsindex: the record goes to the end of  *)
(* the backing file, and the count of the bytes written is left as it was. *)
AppendRootEmptyFile(p) ==
  AddFile(p, "empty", EmptyFileLength, Len(p.store.file_records),
          p.store.file_records_position)

AppendEmptyFile(p) ==
  IF ~p.merge /\ Owner(p) = 1 THEN AppendRootEmptyFile(p)
  ELSE AppendChildFile(p, "empty",
                       IF p.merge THEN EmptyFileLength + 1
                                  ELSE EmptyFileLength)

OpenDirectory(p) ==
  Push([p EXCEPT !.store = BeginDirectory(@)], "directory",
       DirectoryState(p.store))

(* The directory on top of the stack is finished and becomes a child.      *)
CloseDirectory(p) ==
  LET child == Last(p.stack).state
      q == Pop(p)
      owner == OwnerState(q)
      store == FinishDirectory(p.store, child)
      entry == [next |-> -1, record_offset |-> child.offset,
                selection |-> child.selection]
  IN  [q EXCEPT
         !.store = [store EXCEPT
            !.directory_index = AppendIndex(@, owner.directories, entry)],
         !.stack[Owner(q)].state =
            [owner EXCEPT
               !.directories = AppendChain(store.directory_index, @),
               !.total_file_count = @ + child.total_file_count,
               !.total_directory_count = @ + 1 + child.total_directory_count]]

(* When only the outermost frame is left the root element has been closed. *)
Closed(p) == IF Len(p.stack) = 1 THEN Finish(p) ELSE p

AtRoot(p, e) ==
  IF e.ev # "open" THEN Fail(p)
  ELSE CASE e.el = "ltfsindex" ->
              Push(p, IF p.merge THEN "scan" ELSE "ltfsindex", NewState)
         [] e.el = "directory" ->
              IF p.merge THEN Push(p, "flat", NewState) ELSE OpenDirectory(p)
         [] OTHER -> Fail(p)

InSkipped(p, e) ==
  CASE e.ev = "open" -> Push(p, "skip", NewState)
    [] e.ev = "close" -> Pop(p)
    [] OTHER -> p

InScan(p, e) ==
  CASE e.ev = "open" ->
         Push(p, IF e.el = "directory" THEN "flat" ELSE "scan", NewState)
    [] e.ev = "close" -> Closed(Pop(p))
    [] OTHER -> p

(* parse_index_child, parse_root_container, parse_directory,               *)
(* parse_directory_container and parse_directory_contents.                 *)
InContents(p, e) ==
  LET top == Last(p.stack).el
  IN  CASE e.ev = "open" ->
             (CASE e.el = "directory" -> OpenDirectory(p)
                [] e.el = "contents" -> Push(p, "contents", NewState)
                [] OTHER -> Push(p, "skip", NewState))
        [] e.ev = "close" ->
             (CASE top = "directory" -> Closed(CloseDirectory(p))
                [] top = "flat" -> Finish(Pop(p))
                [] OTHER -> Closed(Pop(p)))
        [] e.ev = "name" ->
             IF top = "directory"
             THEN [p EXCEPT !.stack[Len(p.stack)].state.name = e.value] ELSE p
        [] e.ev = "file" -> AppendChildFile(p, e.file, FileLength)
        [] e.ev = "emptyfile" -> AppendEmptyFile(p)
        [] e.ev = "emptydir" -> CloseDirectory(OpenDirectory(p))

ParseEvent(p, e) ==
  LET top == Last(p.stack).el
  IN  CASE p.status # "reading" -> p
        [] p.status = "reading" /\ e.ev = "unsafe" -> Fail(p)
        [] OTHER -> (CASE top = "top" -> AtRoot(p, e)
                       [] top = "skip" -> InSkipped(p, e)
                       [] top = "scan" -> InScan(p, e)
                       [] OTHER -> InContents(p, e))

Parse(merge, barcode, document) ==
  LET after[k \in 0..Len(document)] ==
        IF k = 0 THEN StartParse(merge, barcode)
        ELSE LET before == after[k - 1] IN ParseEvent(before, document[k])
  IN  after[Len(document)]

(* What parse() and parse_merge_contents() return: an error also when the  *)
(* document ended before its root element did.                             *)
Parsed(p) ==
  [ok |-> p.status = "done", store |-> p.store, root |-> p.stack[1].state]
=============================================================================
