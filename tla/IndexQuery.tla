----------------------------- MODULE IndexQuery -----------------------------
(***************************************************************************)
(* What the application asks of an index once it is ready, one question at *)
(* a time: the files in tape order (lsc_store_tape_sort), the children of  *)
(* one directory by name (lsc_store_sort_directory_children, and what      *)
(* SortDirectoryChildrenNative then does to the index), and the next entry *)
(* whose name matches (lsc_store_search).                                  *)
(*                                                                         *)
(* The sorts are external: entries are collected into chunks, every chunk  *)
(* is sorted into a run file, and the runs are merged through a heap that  *)
(* holds the first entry of every run.  Walking the tree is a stack of     *)
(* frames, as in the code.  An I/O error may end a sort at any step.       *)
(***************************************************************************)
EXTENDS IndexMerge

CONSTANTS
  Queried,      (* the calls whose index is asked anything                  *)
  Extent,       (* file -> [partition, block], where its data starts        *)
  Rank,         (* name of a file or directory -> its place in the order    *)
  Matches,      (* keyword -> the names that contain it                     *)
  Deselections, (* the sets of selection flags the user may have cleared    *)
  TapeChunk,    (* TAPE_SORT_CHUNK_SIZE                                     *)
  SortChunk,    (* DIRECTORY_SORT_CHUNK_SIZE                                *)
  MaxSorts      (* bound: directory sorts that change the index             *)

ASSUME QueryAssumption ==
  /\ TapeChunk \in Nat \ {0} /\ SortChunk \in Nat \ {0}
  /\ MaxSorts \in Nat
  /\ \A name \in DOMAIN Rank : Rank[name] \in Nat

VARIABLES
  job,        (* the step of the query that runs, or "none"                 *)
  asked,      (* its parameters                                             *)
  trail,      (* the directories being walked                               *)
  entries,    (* the chunk being collected                                  *)
  runs,       (* the run files, in the order they were written              *)
  result,     (* what it has found, or written to its output files          *)
  counts,     (* files per partition                                        *)
  progress,   (* entries processed and their announced total                *)
  resuming,   (* the search has not yet come to the entry to resume after   *)
  wrapped,    (* the search has started again from the root                 *)
  sorts       (* directory sorts that came to change the index              *)

callVars == <<call, phase, workVars, receiveVars, outputs, storeVars, index>>
walkVars == <<trail, entries, runs, result, counts, progress>>
searchVars == <<resuming, wrapped>>
queryVars == <<job, asked, walkVars, searchVars, sorts>>
allVars == <<vars, queryVars>>

NoQuestion == [ask |-> "none"]
NoResult == [tape |-> <<>>, files |-> <<>>, directories |-> <<>>, hit |-> <<>>]

QueryInit ==
  /\ Init
  /\ job = "none" /\ asked = NoQuestion
  /\ trail = <<>> /\ entries = <<>> /\ runs = <<>> /\ result = NoResult
  /\ counts = [a |-> 0, b |-> 0] /\ progress = [processed |-> 0, total |-> 0]
  /\ resuming = FALSE /\ wrapped = FALSE /\ sorts = 0

(***************************************************************************)
(* Walking the tree.  A frame of the stack is a directory with the entries *)
(* of its two chains that are still to come.  The root chains are the      *)
(* bottom frame of a tape sort, whose directory is -1.                     *)
(***************************************************************************)
WalkFrame(directory, h, path) ==
  [directory |-> directory, path |-> path,
   file |-> h.file_index_offset, files |-> h.file_count,
   next |-> h.directory_index_offset, directories |-> h.directory_count]

RootsFrame ==
  [directory |-> -1, path |-> <<>>,
   file |-> index.files.first, files |-> index.files.count,
   next |-> index.directories.first, directories |-> index.directories.count]

Top == trail[Len(trail)]
FileEntry == store.file_index[Top.file + 1]
NextFile ==
  [trail EXCEPT ![Len(trail)] =
     [Top EXCEPT !.file = FileEntry.next, !.files = Top.files - 1]]

ChildEntry == store.directory_index[Top.next + 1]
ChildName == NameAt(store, Top.next)
NextChild ==
  [trail EXCEPT ![Len(trail)] =
     [Top EXCEPT !.next = ChildEntry.next,
                 !.directories = Top.directories - 1]]
Descend(path) ==
  Append(NextChild, WalkFrame(ChildEntry.record_offset,
                              Header(store, ChildEntry.record_offset), path))

FileName(record) == IF record.file = "empty" THEN "" ELSE record.file

(* The directories the application shows: those below the root chains.     *)
Elements(sequence) == {sequence[k] : k \in DOMAIN sequence}

Directories ==
  LET Targets(walk) == {DirectoryAt(store, e) : e \in Elements(walk)}
      below[k \in 0..Len(store.directories)] ==
        IF k = 0
        THEN Targets(Walk(store.directory_index, index.directories.first,
                          index.directories.count))
        ELSE LET above == below[k - 1]
             IN  UNION {Targets(DirectoriesOf(store, Header(store, d))) :
                          d \in above}
  IN  UNION {below[k] : k \in 0..Len(store.directories)}

(***************************************************************************)
(* Orders.  A path is compared name by name, a shorter one first, which is *)
(* the order of the strings when no name is the beginning of another.  A   *)
(* name for which Rank has no place is with the first.                     *)
(***************************************************************************)
PlaceOfName(name) == IF name \in DOMAIN Rank THEN Rank[name] ELSE 0

PathBefore(p, q) ==
  \/ Len(p) < Len(q) /\ \A k \in DOMAIN p : p[k] = q[k]
  \/ \E k \in DOMAIN p \cap DOMAIN q :
       /\ PlaceOfName(p[k]) < PlaceOfName(q[k])
       /\ \A j \in 1..(k - 1) : p[j] = q[j]

(* TapeSortEntry::compare_key                                              *)
TapeBefore(x, y) ==
  \/ x.partition < y.partition
  \/ /\ x.partition = y.partition
     /\ \/ x.block < y.block
        \/ /\ x.block = y.block
           /\ \/ PathBefore(x.path, y.path)
              \/ x.path = y.path /\ x.sequence < y.sequence

(* DirectorySortComparer::compare                                          *)
NameBefore(x, y) ==
  LET p == PlaceOfName(x.name)
      q == PlaceOfName(y.name)
  IN  p < q \/ (p = q /\ x.sequence < y.sequence)

(* The heap holds the first entries of the runs that are not empty.  The   *)
(* run whose entry leaves it next: a run with a smaller number breaks ties.*)
Waiting == {r \in DOMAIN runs : runs[r] # <<>>}

TapeHeap ==
  {p \in Waiting \X Waiting : TapeBefore(runs[p[1]][1], runs[p[2]][1])}
NameHeap ==
  {p \in Waiting \X Waiting : NameBefore(runs[p[1]][1], runs[p[2]][1])}

NextRun(heap) ==
  CHOOSE r \in Waiting :
    \A q \in Waiting :
      <<r, q>> \in heap \/ (<<q, r>> \notin heap /\ r <= q)

HeapEmpty == Waiting = {}

(* An I/O error: the run files and the output are removed.                 *)
QueryFails ==
  /\ job \notin {"none", "search", "done", "failed"}
  /\ job' = "failed" /\ fault' = TRUE
  /\ trail' = <<>> /\ entries' = <<>> /\ runs' = <<>> /\ result' = NoResult
  /\ UNCHANGED <<callVars, asked, counts, progress, searchVars, sorts>>

Answered ==
  /\ job \in {"done", "failed"}
  /\ job' = "none" /\ asked' = NoQuestion /\ fault' = FALSE
  /\ trail' = <<>> /\ entries' = <<>> /\ runs' = <<>> /\ result' = NoResult
  /\ counts' = [a |-> 0, b |-> 0]
  /\ progress' = [processed |-> 0, total |-> 0]
  /\ resuming' = FALSE /\ wrapped' = FALSE
  /\ UNCHANGED <<callVars, sorts>>

(***************************************************************************)
(* Tape order.                                                             *)
(***************************************************************************)
(* tape_sort_total_files                                                   *)
TapeTotal ==
  TotalsOf(store, index.files.count, index.directories).files

StartTapeSort ==
  /\ phase = "ready" /\ call \in Queried /\ job = "none"
  /\ \E cleared \in Deselections :
       asked' = [ask |-> "tape", cleared |-> cleared]
  /\ job' = "collect"
  /\ trail' = <<RootsFrame>>
  /\ progress' = [processed |-> 0, total |-> TapeTotal]
  /\ UNCHANGED <<vars, entries, runs, result, counts, searchVars,
                 sorts>>

(* flush_run sorts the chunk by the whole key; a run file does not keep    *)
(* the sequence number.                                                    *)
TapeRun(chunk) ==
  LET sorted == SortSeq(chunk, TapeBefore)
  IN  [k \in DOMAIN sorted |-> [sorted[k] EXCEPT !.sequence = 0]]

FlushedRuns_Dropped == runs

FlushedRuns ==
  IF entries = <<>> THEN runs ELSE Append(runs, TapeRun(entries))

VisitTapeFile ==
  /\ job = "collect" /\ trail # <<>> /\ Top.files > 0
  /\ LET record == FileAt(store, Top.file)
         extent == Extent[record.file]
         entry == [partition |-> extent.partition, block |-> extent.block,
                   path |-> Append(Top.path, FileName(record)),
                   sequence |-> counts.a + counts.b + 1,
                   record |-> FileEntry.record_offset]
         chunk == Append(entries, entry)
     IN  IF FileEntry.selection \in asked.cleared
         THEN UNCHANGED <<entries, runs, counts>>
         ELSE /\ counts' = IF extent.partition = 0
                           THEN [counts EXCEPT !.a = @ + 1]
                           ELSE [counts EXCEPT !.b = @ + 1]
              /\ IF Len(chunk) >= TapeChunk
                 THEN /\ runs' = Append(runs, TapeRun(chunk))
                      /\ entries' = <<>>
                 ELSE entries' = chunk /\ UNCHANGED runs
  /\ trail' = NextFile
  /\ progress' = [progress EXCEPT !.processed = @ + 1]
  /\ UNCHANGED <<vars, job, asked, result, searchVars, sorts>>

(* The directories of the root chain are containers without a name.        *)
EnterTapeDirectory ==
  /\ job = "collect" /\ trail # <<>>
  /\ Top.files = 0 /\ Top.directories > 0
  /\ trail' = Descend(IF Len(trail) = 1 THEN <<>>
                      ELSE Append(Top.path, ChildName))
  /\ UNCHANGED <<vars, job, asked, entries, runs, result, counts,
                 progress, searchVars, sorts>>

LeaveTapeDirectory ==
  /\ job = "collect" /\ trail # <<>>
  /\ Top.files = 0 /\ Top.directories = 0
  /\ trail' = Front(trail)
  /\ IF Len(trail) > 1 THEN UNCHANGED <<job, entries, runs>>
     ELSE /\ job' = "merge"
          /\ entries' = <<>>
          /\ runs' = FlushedRuns
  /\ UNCHANGED <<vars, asked, result, counts, progress, searchVars,
                 sorts>>

(* merge_tape_sort_runs: one run only is renamed to be the output, unless  *)
(* the rename fails; several are merged.                                   *)
RenameRun ==
  /\ job = "merge" /\ Len(runs) = 1 /\ result.tape = <<>>
  /\ result' = [result EXCEPT !.tape = runs[1]]
  /\ runs' = <<>>
  /\ UNCHANGED <<vars, job, asked, trail, entries, counts, progress,
                 searchVars, sorts>>

MergeTapeRun ==
  /\ job = "merge" /\ ~HeapEmpty
  /\ LET r == NextRun(TapeHeap)
     IN  /\ result' = [result EXCEPT !.tape = Append(@, runs[r][1])]
         /\ runs' = [runs EXCEPT ![r] = Tail(@)]
  /\ UNCHANGED <<vars, job, asked, trail, entries, counts, progress,
                 searchVars, sorts>>

FinishTapeSort ==
  /\ job = "merge" /\ HeapEmpty
  /\ job' = "done"
  /\ runs' = <<>>
  /\ UNCHANGED <<vars, asked, trail, entries, result, counts, progress,
                 searchVars, sorts>>

(***************************************************************************)
(* The children of one directory by name: its files, then its directories. *)
(* The parameters keep the order the children had.                         *)
(***************************************************************************)

StartDirectorySort ==
  /\ phase = "ready" /\ call \in Queried /\ job = "none" /\ sorts < MaxSorts
  /\ \E d \in Directories :
       LET h == Header(store, d)
       IN  /\ asked' = [ask |-> "sort", directory |-> d,
                        files |-> FilesOf(store, h),
                        directories |-> DirectoriesOf(store, h)]
           /\ trail' = <<WalkFrame(d, h, <<>>)>>
           /\ progress' = [processed |-> 0,
                           total |-> h.file_count + h.directory_count]
  /\ job' = "files"
  /\ UNCHANGED <<vars, entries, runs, result, counts, searchVars, sorts>>

(* flush_directory_sort_run: every entry comes after those before it.      *)
NameRun(chunk) ==
  LET Earlier(k) == {j \in DOMAIN chunk : NameBefore(chunk[j], chunk[k])}
  IN  [p \in DOMAIN chunk |->
         chunk[CHOOSE k \in DOMAIN chunk : Cardinality(Earlier(k)) = p - 1]]

(* collect_directory_sort_runs, one entry: the chunk becomes a run when it *)
(* is full and when the chain is at its end.                               *)
Collect(entry, left) ==
  LET chunk == Append(entries, entry)
  IN  /\ progress' = [progress EXCEPT !.processed = @ + 1]
      /\ IF Len(chunk) >= SortChunk \/ left = 0
         THEN /\ runs' = Append(runs, NameRun(chunk))
              /\ entries' = <<>>
         ELSE entries' = chunk /\ UNCHANGED runs
      /\ UNCHANGED <<vars, job, asked, result, counts, searchVars, sorts>>

CollectFile ==
  /\ job = "files" /\ Top.files > 0
  /\ trail' = NextFile
  /\ Collect([record_offset |-> FileEntry.record_offset,
              record_length |-> FileEntry.record_length,
              selection |-> FileEntry.selection,
              name |-> FileName(FileAt(store, Top.file)),
              sequence |-> Len(asked.files) - Top.files], Top.files - 1)

CollectDirectory ==
  /\ job = "directories" /\ Top.directories > 0
  /\ trail' = NextChild
  /\ Collect([record_offset |-> ChildEntry.record_offset,
              selection |-> ChildEntry.selection,
              name |-> ChildName,
              sequence |-> Len(asked.directories) - Top.directories],
             Top.directories - 1)

(* merge_directory_sort_runs: the next entry of its run is in the heap     *)
(* before an entry is written, which tells whether one follows it.         *)
NextOffset_Same(target, written) == target + written

NextOffset(target, written) == target + written + 1

WriteNext(target, kind) ==
  LET r == NextRun(NameHeap)
      rest == [runs EXCEPT ![r] = Tail(@)]
      follows == \E q \in DOMAIN rest : rest[q] # <<>>
  IN  /\ runs' = rest
      /\ result' = [result EXCEPT ![kind] = Append(@,
           [next |-> IF follows THEN NextOffset(target, Len(@)) ELSE -1,
            entry |-> runs[r][1]])]
      /\ UNCHANGED <<vars, job, asked, trail, entries, counts, progress,
                     searchVars, sorts>>

MergeFile ==
  /\ job = "files" /\ Top.files = 0 /\ ~HeapEmpty
  /\ WriteNext(Len(store.file_index), "files")

MergeDirectory ==
  /\ job = "directories" /\ Top.directories = 0 /\ ~HeapEmpty
  /\ WriteNext(Len(store.directory_index), "directories")

(* An output that does not have every entry is an error.                   *)
FinishOutput(from, kind, to) ==
  /\ job = from /\ HeapEmpty
  /\ job' = IF Len(result[kind]) = Len(asked[kind]) THEN to ELSE "failed"
  /\ runs' = <<>>
  /\ UNCHANGED <<vars, asked, trail, entries, result, counts, progress,
                 searchVars, sorts>>

FinishFiles ==
  /\ job = "files" /\ Top.files = 0
  /\ FinishOutput("files", "files", "directories")

FinishDirectories ==
  /\ job = "directories" /\ Top.directories = 0
  /\ FinishOutput("directories", "directories", "appendfiles")

(* SortDirectoryChildrenNative: the sorted entries are appended to the     *)
(* index, then the header of the directory is pointed at them.             *)
Entries(kind) ==
  [k \in DOMAIN result[kind] |->
     LET e == result[kind][k].entry
     IN  IF kind = "files"
         THEN [next |-> result[kind][k].next,
               record_offset |-> e.record_offset,
               record_length |-> e.record_length, selection |-> e.selection]
         ELSE [next |-> result[kind][k].next,
               record_offset |-> e.record_offset, selection |-> e.selection]]

Apply(s) ==
  /\ store' = s
  /\ UNCHANGED <<call, phase, workVars, receiveVars, outputs, root, appended,
                 frames, index, fault, asked, walkVars, searchVars>>

AppendFiles ==
  /\ job = "appendfiles" /\ job' = "patchfiles"
  /\ Apply(IF Len(result.files) > 1
           THEN [store EXCEPT !.file_index = @ \o Entries("files")]
           ELSE store)
  /\ sorts' = sorts + 1

PatchFiles ==
  /\ job = "patchfiles" /\ job' = "appenddirectories"
  /\ Apply(IF Len(result.files) > 1
           THEN [store EXCEPT
                   !.directories[asked.directory + 1].file_index_offset =
                      Len(store.file_index) - Len(result.files)]
           ELSE store)
  /\ UNCHANGED sorts

AppendDirectories ==
  /\ job = "appenddirectories" /\ job' = "patchdirectories"
  /\ Apply(IF Len(result.directories) > 1
           THEN [store EXCEPT !.directory_index = @ \o Entries("directories")]
           ELSE store)
  /\ UNCHANGED sorts

PatchDirectories ==
  /\ job = "patchdirectories" /\ job' = "done"
  /\ Apply(IF Len(result.directories) > 1
           THEN [store EXCEPT
                   !.directories[asked.directory + 1].directory_index_offset =
                      Len(store.directory_index) - Len(result.directories)]
           ELSE store)
  /\ UNCHANGED sorts

(***************************************************************************)
(* Search: the first entry below a directory whose name contains the       *)
(* keyword, after the entry to resume after if there is one.               *)
(***************************************************************************)
Records ==
  {[kind |-> "file", record |-> store.file_index[e + 1].record_offset] :
     e \in UNION {Elements(FilesOf(store, Header(store, d))) :
                    d \in Directories}}
  \cup {[kind |-> "directory", record |-> d] : d \in Directories}

NoResume == [kind |-> "none", record |-> -1]

SearchFrom(directory) == <<WalkFrame(directory, Header(store, directory), <<>>)>>

StartSearch ==
  /\ phase = "ready" /\ call \in Queried /\ job = "none"
  /\ \E d \in Directories, keyword \in DOMAIN Matches,
        resume \in {NoResume} \cup Records :
       LET h == Header(store, d)
           base == 1 + h.total_file_count + h.total_directory_count
       IN  /\ asked' = [ask |-> "search", directory |-> d,
                        keyword |-> keyword, resume |-> resume]
           /\ trail' = SearchFrom(d)
           /\ resuming' = (resume # NoResume)
           /\ progress' = [processed |-> 1,
                           total |-> IF resume = NoResume THEN base
                                     ELSE 2 * base]
  /\ job' = "search"
  /\ UNCHANGED <<vars, entries, runs, result, counts, wrapped, sorts>>

(* append_search_path                                                      *)
SearchPath(path, name) == IF name = "" THEN path ELSE Append(path, name)

IsResume(kind, record) == asked.resume = [kind |-> kind, record |-> record]

Found(kind, record, name) ==
  /\ job' = "done"
  /\ result' = [result EXCEPT !.hit =
       <<[kind |-> kind, record |-> record, parent |-> Top.directory,
          path |-> SearchPath(Top.path, name)]>>]
  /\ trail' = <<>>

SearchFile ==
  /\ job = "search" /\ trail # <<>> /\ Top.files > 0
  /\ LET record == FileEntry.record_offset
         name == FileName(FileAt(store, Top.file))
     IN  /\ resuming' = (resuming /\ ~IsResume("file", record))
         /\ IF ~resuming /\ name \in Matches[asked.keyword]
            THEN Found("file", record, name)
            ELSE trail' = NextFile /\ UNCHANGED <<job, result>>
  /\ progress' = [progress EXCEPT !.processed = @ + 1]
  /\ UNCHANGED <<vars, asked, entries, runs, counts, wrapped, sorts>>

DirectoryMatches_AtResume ==
  /\ resuming => IsResume("directory", ChildEntry.record_offset)
  /\ ChildName \in Matches[asked.keyword]

DirectoryMatches == ~resuming /\ ChildName \in Matches[asked.keyword]

SearchDirectory ==
  /\ job = "search" /\ trail # <<>>
  /\ Top.files = 0 /\ Top.directories > 0
  /\ LET record == ChildEntry.record_offset
     IN  /\ resuming' = (resuming /\ ~IsResume("directory", record))
         /\ IF DirectoryMatches
            THEN Found("directory", record, ChildName)
            ELSE /\ trail' = Descend(SearchPath(Top.path, ChildName))
                 /\ UNCHANGED <<job, result>>
  /\ progress' = [progress EXCEPT !.processed = @ + 1]
  /\ UNCHANGED <<vars, asked, entries, runs, counts, wrapped, sorts>>

LeaveSearched ==
  /\ job = "search" /\ trail # <<>>
  /\ Top.files = 0 /\ Top.directories = 0
  /\ trail' = Front(trail)
  /\ UNCHANGED <<vars, job, asked, entries, runs, result, counts, progress,
                 searchVars, sorts>>

(* Nothing was found: a search that was resumed starts again from the root.*)
WrapAround ==
  /\ job = "search" /\ trail = <<>>
  /\ IF asked.resume # NoResume /\ ~wrapped
     THEN /\ trail' = SearchFrom(asked.directory)
          /\ resuming' = FALSE /\ wrapped' = TRUE
          /\ progress' = [progress EXCEPT !.processed = @ + 1]
          /\ UNCHANGED job
     ELSE /\ job' = "done"
          /\ UNCHANGED <<trail, progress, searchVars>>
  /\ UNCHANGED <<vars, asked, entries, runs, result, counts, sorts>>

TapeSort ==
  \/ StartTapeSort \/ VisitTapeFile \/ EnterTapeDirectory
  \/ LeaveTapeDirectory \/ RenameRun \/ MergeTapeRun \/ FinishTapeSort

DirectorySort ==
  \/ StartDirectorySort \/ CollectFile \/ MergeFile \/ FinishFiles
  \/ CollectDirectory \/ MergeDirectory \/ FinishDirectories
  \/ AppendFiles \/ PatchFiles \/ AppendDirectories \/ PatchDirectories

Search ==
  \/ StartSearch \/ SearchFile \/ SearchDirectory \/ LeaveSearched
  \/ WrapAround

QueryNext ==
  \/ Next /\ job = "none" /\ UNCHANGED queryVars
  \/ TapeSort \/ DirectorySort \/ Search \/ QueryFails \/ Answered

QuerySpec == QueryInit /\ [][QueryNext]_allVars
=============================================================================
