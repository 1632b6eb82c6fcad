----------------------------- MODULE IndexStore -----------------------------
(***************************************************************************)
(* The backing store of an index (StoreOutput of the schema crate): a      *)
(* file of file records, a file of directory headers, two files of index   *)
(* entries that link the children of a directory into chains, and the      *)
(* selection flags.  The parser fills a store, a merge appends the stores  *)
(* of its sources to one and rebases their offsets, queries walk it.       *)
(*                                                                         *)
(* An offset is a number from 0; -1 ends a chain.  An index entry has one  *)
(* size, so its offset is its number, and a directory header stands for    *)
(* its fixed part and its scalar record together, so its offset is its     *)
(* number too.  File records have different sizes: a record is so many     *)
(* cells of its backing file, and reading other cells than exactly its own *)
(* gives Damaged.  What a record contains is abstracted to the file it     *)
(* describes, the Barcode attribute and the file uid.                      *)
(***************************************************************************)
EXTENDS Integers, Sequences, SequencesExt

NewChain == [first |-> -1, last |-> -1, count |-> 0]

EmptyStore ==
  [file_records |-> <<>>, file_records_position |-> 0,
   directories |-> <<>>, file_index |-> <<>>, directory_index |-> <<>>,
   selection_count |-> 0, next_file_uid |-> 1]

(***************************************************************************)
(* File records.                                                           *)
(***************************************************************************)
Damaged == [file |-> "damaged", barcode |-> "damaged", uid |-> -1]

Cells(record, length) ==
  [k \in 1..length |-> [record |-> record, at |-> k, of |-> length]]

ReadRecord(store, offset, length) ==
  LET bytes == store.file_records
      Cell(k) == bytes[offset + k]
  IN  IF /\ offset + length <= Len(bytes)
         /\ \A k \in 1..length :
              Cell(k) = [record |-> Cell(1).record, at |-> k, of |-> length]
      THEN Cell(1).record
      ELSE Damaged

(* The writer appends at the end of the backing file and takes the offset  *)
(* of the record from its own count of the bytes written.                  *)
AppendRecord(store, record, length) ==
  [store EXCEPT !.file_records = @ \o Cells(record, length),
                !.file_records_position = @ + length]

(***************************************************************************)
(* Index chains: an entry is appended with no successor and the last entry *)
(* of the chain is pointed at it; two chains are joined by pointing the    *)
(* last entry of the one at the first of the other.                        *)
(***************************************************************************)
Linked(index, chain, target) ==
  IF chain.last >= 0 THEN [index EXCEPT ![chain.last + 1].next = target]
                     ELSE index

AppendIndex(index, chain, entry) ==
  Linked(Append(index, entry), chain, Len(index))

AppendChain(index, chain) ==
  [first |-> IF chain.last >= 0 THEN chain.first ELSE Len(index),
   last |-> Len(index), count |-> chain.count + 1]

JoinIndex(index, target, source) ==
  IF source.count = 0 THEN index ELSE Linked(index, target, source.first)

JoinChain(target, source) ==
  IF source.count = 0 THEN target
  ELSE [first |-> IF target.last >= 0 THEN target.first ELSE source.first,
        last |-> source.last, count |-> target.count + source.count]

(* The offsets of count entries from first on.                             *)
Successor(index, offset) ==
  IF offset \in 0..(Len(index) - 1) THEN index[offset + 1].next ELSE -1

Walk(index, first, count) ==
  LET walk[k \in 0..count] ==
        IF k = 0 THEN <<>>
        ELSE IF k = 1 THEN <<first>>
        ELSE LET before == walk[k - 1]
             IN  Append(before, Successor(index, Last(before)))
  IN  walk[count]

(* A chain reads without an error when it has exactly its count of entries.*)
Readable(index, first, count) ==
  LET walk == Walk(index, first, count)
  IN  IF count = 0 THEN first = -1
      ELSE /\ \A k \in 1..count : walk[k] \in 0..(Len(index) - 1)
           /\ index[walk[count] + 1].next = -1

ReadChain(index, first, count) ==
  [first |-> first, count |-> count,
   last |-> IF count = 0 THEN -1 ELSE Walk(index, first, count)[count]]

(***************************************************************************)
(* Directories.                                                            *)
(***************************************************************************)
NewHeader ==
  [finished |-> FALSE, name |-> "", file_uid |-> 0,
   file_index_offset |-> -1, file_count |-> 0,
   directory_index_offset |-> -1, directory_count |-> 0,
   total_file_count |-> 0, total_directory_count |-> 0]

NewState ==
  [offset |-> -1, selection |-> -1, files |-> NewChain,
   directories |-> NewChain, total_file_count |-> 0,
   total_directory_count |-> 0, name |-> "", file_uid |-> 0]

BeginDirectory(store) ==
  [store EXCEPT !.directories = Append(@, NewHeader),
                !.selection_count = @ + 1]

DirectoryState(store) ==
  [NewState EXCEPT !.offset = Len(store.directories),
                   !.selection = store.selection_count]

HeaderOf(state) ==
  [finished |-> TRUE, name |-> state.name, file_uid |-> state.file_uid,
   file_index_offset |-> state.files.first,
   file_count |-> state.files.count,
   directory_index_offset |-> state.directories.first,
   directory_count |-> state.directories.count,
   total_file_count |-> state.total_file_count,
   total_directory_count |-> state.total_directory_count]

FinishDirectory(store, state) ==
  [store EXCEPT !.directories[state.offset + 1] = HeaderOf(state)]

Header(store, offset) == store.directories[offset + 1]

(* A directory read back through its header.                               *)
FilesOf(store, header) ==
  Walk(store.file_index, header.file_index_offset, header.file_count)

DirectoriesOf(store, header) ==
  Walk(store.directory_index, header.directory_index_offset,
       header.directory_count)

FileAt(store, entry) ==
  LET e == store.file_index[entry + 1]
  IN  ReadRecord(store, e.record_offset, e.record_length)

DirectoryAt(store, entry) == store.directory_index[entry + 1].record_offset

NameAt(store, entry) == Header(store, DirectoryAt(store, entry)).name

(***************************************************************************)
(* append_merge_source: the store of a source is appended to the merged    *)
(* one.  Its file records are copied one by one in the order of the file   *)
(* index, each with a file uid of its own, which changes their sizes and   *)
(* so their offsets; everything else is moved by the length the merged     *)
(* store had.  Directory headers are found through the directory index.    *)
(***************************************************************************)
Rebase(value, base) == IF value = -1 THEN -1 ELSE value + base

RebaseChain(chain, base) ==
  [chain EXCEPT !.first = Rebase(@, base), !.last = Rebase(@, base)]

CanAppend(source) ==
  \A k \in DOMAIN source.file_index :
    LET e == source.file_index[k]
    IN  ReadRecord(source, e.record_offset, e.record_length) # Damaged

NextUid_Same(store) == store.next_file_uid

NextUid(store) == store.next_file_uid + 1

AppendFile(base, selection_base, store, source, e) ==
  LET record == ReadRecord(source, e.record_offset, e.record_length)
      rewritten == [record EXCEPT !.uid = store.next_file_uid]
      length == e.record_length + 1
  IN  [AppendRecord(store, rewritten, length) EXCEPT
         !.next_file_uid = NextUid(store),
         !.file_index = Append(@,
            [next |-> Rebase(e.next, base),
             record_offset |-> store.file_records_position,
             record_length |-> length,
             selection |-> Rebase(e.selection, selection_base)])]

RebaseHeader_FilesOnly(header, file_base, directory_base) ==
  [header EXCEPT !.file_index_offset = Rebase(@, file_base)]

RebaseHeader(header, file_base, directory_base) ==
  [header EXCEPT
     !.file_index_offset = Rebase(@, file_base),
     !.directory_index_offset = Rebase(@, directory_base)]

AppendSource(store, source) ==
  LET file_base == Len(store.file_index)
      directory_base == Len(store.directory_index)
      record_base == Len(store.directories)
      selection_base == store.selection_count
      indexed == {source.directory_index[k].record_offset :
                    k \in DOMAIN source.directory_index}
      copied[k \in 0..Len(source.file_index)] ==
        IF k = 0 THEN store
        ELSE LET before == copied[k - 1]
             IN  AppendFile(file_base, selection_base, before, source,
                            source.file_index[k])
  IN  [copied[Len(source.file_index)] EXCEPT
         !.directories = @ \o
            [d \in DOMAIN source.directories |->
               IF d - 1 \in indexed
               THEN RebaseHeader(source.directories[d], file_base,
                                 directory_base)
               ELSE source.directories[d]],
         !.directory_index = @ \o
            [k \in DOMAIN source.directory_index |->
               LET e == source.directory_index[k]
               IN  [next |-> Rebase(e.next, directory_base),
                    record_offset |-> Rebase(e.record_offset, record_base),
                    selection |-> Rebase(e.selection, selection_base)]],
         !.selection_count = @ + source.selection_count]
=============================================================================
