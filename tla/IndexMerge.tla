----------------------------- MODULE IndexMerge -----------------------------
(***************************************************************************)
(* lsc_parse_schema_file and lsc_merge_schema_files: one index document is *)
(* parsed into a store, or several are merged into one store under one     *)
(* root.  The sources of a merge are parsed by worker threads that take    *)
(* them from a shared queue and send the results over a channel; the       *)
(* caller's thread receives them, appends the sources in the order they    *)
(* were given and then merges the directories of the same name.  The       *)
(* recursion of that last part is a stack of frames, one per directory     *)
(* whose chain of children is being normalised.                            *)
(*                                                                         *)
(* A worker or the caller may meet an I/O error anywhere; fault records    *)
(* that one did.  A panic of a worker is caught and is one more error.     *)
(***************************************************************************)
EXTENDS IndexParser, FiniteSets

CONSTANTS
  Calls,        (* the calls: [merge, documents], a document is its events  *)
                (* and the barcode its file name gives                      *)
  Parallelism   (* threads a merge may use                                  *)

ASSUME MergeAssumption ==
  /\ Parallelism \in Nat \ {0}
  /\ \A c \in Calls :
       /\ c.merge \in BOOLEAN
       /\ c.documents \in Seq([barcode : STRING, events : Seq(Events)])
       /\ ~c.merge => Len(c.documents) = 1

VARIABLES
  call, phase,      (* the call and how far it is                           *)
  queue,            (* sources no worker has taken yet, the last one first  *)
  worker,           (* what each worker does, for which source              *)
  channel,          (* results sent and not yet received                    *)
  received,         (* how many results were received                       *)
  sources,          (* the sources received without an error                *)
  first_error,      (* some source was received with an error               *)
  temporary,        (* sources whose temporary files exist                  *)
  outputs,          (* the output files exist                               *)
  store, root,      (* the output store and the DirectoryState of its root  *)
  appended,         (* sources appended so far                              *)
  frames,           (* the directories being normalised                     *)
  index,            (* the root chains handed to the caller                 *)
  fault             (* an I/O error happened                                *)

workVars == <<queue, worker, channel, temporary>>
receiveVars == <<received, sources, first_error>>
storeVars == <<store, root, appended, frames>>
vars == <<call, phase, workVars, receiveVars, outputs, storeVars, index,
          fault>>

N == Len(call.documents)
Workers == 1..(IF Parallelism <= N THEN Parallelism ELSE N)

SourceOf(i) ==
  Parsed(Parse(TRUE, call.documents[i].barcode, call.documents[i].events))

NoRoots == [files |-> NewChain, directories |-> NewChain]

(* The application has created the five output files before the call.      *)
Init ==
  /\ call \in Calls
  /\ phase = "start"
  /\ queue = <<>> /\ worker = <<>> /\ channel = <<>>
  /\ received = 0 /\ sources = {} /\ first_error = FALSE
  /\ temporary = {} /\ outputs = TRUE
  /\ store = EmptyStore /\ root = NewState
  /\ appended = 0 /\ frames = <<>>
  /\ index = NoRoots /\ fault = FALSE

(***************************************************************************)
(* lsc_parse_schema_file.                                                  *)
(***************************************************************************)

(* Of either call: the document or the output files cannot be opened.  The *)
(* call returns at once and leaves the files it was given to the caller.   *)
OpenFails ==
  /\ phase = "start"
  /\ phase' = "failed" /\ fault' = TRUE
  /\ UNCHANGED <<call, workVars, receiveVars, outputs, storeVars, index>>

(* All files are open: a parse that fails now removes the output files.    *)
ParseFile ==
  /\ phase = "start" /\ ~call.merge
  /\ \E io \in BOOLEAN :
       LET p == Parsed(Parse(FALSE, NoBarcode, call.documents[1].events))
       IN  IF p.ok /\ ~io
           THEN /\ phase' = "ready" /\ UNCHANGED outputs
                /\ store' = p.store /\ fault' = fault
                /\ index' = [files |-> p.root.files,
                             directories |-> p.root.directories]
           ELSE /\ phase' = "failed" /\ outputs' = FALSE
                /\ fault' = io /\ UNCHANGED <<store, index>>
  /\ UNCHANGED <<call, workVars, receiveVars, root, appended, frames>>

(***************************************************************************)
(* The sources of a merge.                                                 *)
(***************************************************************************)
StartMerge ==
  /\ phase = "start" /\ call.merge
  /\ phase' = "receive"
  /\ store' = BeginDirectory(EmptyStore)
  /\ root' = DirectoryState(EmptyStore)
  /\ queue' = [k \in 1..N |-> k]
  /\ worker' = [w \in Workers |-> [at |-> "pop", task |-> 0, ok |-> FALSE]]
  /\ UNCHANGED <<call, channel, temporary, receiveVars, outputs, appended,
                 frames, index, fault>>

PopTask(w) ==
  /\ phase = "receive" /\ worker[w].at = "pop"
  /\ IF queue = <<>>
     THEN /\ worker' = [worker EXCEPT ![w].at = "gone"]
          /\ UNCHANGED queue
     ELSE /\ worker' = [worker EXCEPT ![w].at = "open",
                                      ![w].task = Last(queue)]
          /\ queue' = Front(queue)
  /\ UNCHANGED <<call, phase, channel, temporary, receiveVars, outputs,
                 storeVars, index, fault>>

(* StoreOutput::new creates the temporary files of the source.             *)
CreateTemporary(w) ==
  /\ phase = "receive" /\ worker[w].at = "open"
  /\ worker' = [worker EXCEPT ![w].at = "parse"]
  /\ temporary' = temporary \cup {worker[w].task}
  /\ UNCHANGED <<call, phase, queue, channel, receiveVars, outputs,
                 storeVars, index, fault>>

AfterSource_Kept(task, ok) == temporary

AfterSource(task, ok) == IF ok THEN temporary ELSE temporary \ {task}

(* The rest of parse_merge_source: an error or a panic removes the files.  *)
ParseSource(w) ==
  /\ phase = "receive" /\ worker[w].at = "parse"
  /\ \E io \in BOOLEAN :
       LET ok == ~io /\ SourceOf(worker[w].task).ok
       IN  /\ worker' = [worker EXCEPT ![w].at = "send", ![w].ok = ok]
           /\ temporary' = AfterSource(worker[w].task, ok)
           /\ fault' = (fault \/ io)
  /\ UNCHANGED <<call, phase, queue, channel, receiveVars, outputs,
                 storeVars, index>>

SendResult(w) ==
  /\ phase = "receive" /\ worker[w].at = "send"
  /\ worker' = [worker EXCEPT ![w].at = "pop"]
  /\ channel' = Append(channel, [source |-> worker[w].task,
                                 ok |-> worker[w].ok])
  /\ UNCHANGED <<call, phase, queue, temporary, receiveVars, outputs,
                 storeVars, index, fault>>

Receive ==
  /\ phase = "receive" /\ received < N /\ channel # <<>>
  /\ LET result == Head(channel)
     IN  /\ sources' = IF result.ok THEN sources \cup {result.source}
                       ELSE sources
         /\ first_error' = (first_error \/ ~result.ok)
  /\ received' = received + 1
  /\ channel' = Tail(channel)
  /\ UNCHANGED <<call, phase, queue, worker, temporary, outputs, storeVars,
                 index, fault>>

(* The scope has joined its threads: with an error the temporary files of  *)
(* the sources that came through are removed and the merge fails.          *)
Join ==
  /\ phase = "receive" /\ received = N
  /\ \A w \in DOMAIN worker : worker[w].at = "gone"
  /\ IF first_error
     THEN /\ phase' = "failed"
          /\ temporary' = temporary \ sources
     ELSE /\ phase' = "append"
          /\ UNCHANGED temporary
  /\ UNCHANGED <<call, queue, worker, channel, receiveVars, outputs,
                 storeVars, index, fault>>

(***************************************************************************)
(* The caller's thread: append, normalise, finish.  However it ends, the   *)
(* temporary files of all sources are removed; the output files of a merge *)
(* that fails are left to the application.                                 *)
(***************************************************************************)
MergeFails ==
  /\ phase' = "failed"
  /\ temporary' = temporary \ sources
  /\ UNCHANGED <<store, root, appended, frames, index>>

Join2(s, files, directories) ==
  /\ store' = [s EXCEPT
       !.file_index = JoinIndex(@, root.files, files),
       !.directory_index = JoinIndex(@, root.directories, directories)]
  /\ root' = [root EXCEPT
       !.files = JoinChain(@, files),
       !.directories = JoinChain(@, directories)]

AppendNext ==
  /\ phase = "append" /\ appended < N
  /\ LET source == SourceOf(appended + 1)
     IN  IF CanAppend(source.store)
         THEN /\ Join2(AppendSource(store, source.store),
                       RebaseChain(source.root.files, Len(store.file_index)),
                       RebaseChain(source.root.directories,
                                   Len(store.directory_index)))
              /\ appended' = appended + 1
              /\ UNCHANGED <<phase, temporary, frames, index>>
         ELSE MergeFails
  /\ UNCHANGED <<call, queue, worker, channel, receiveVars, outputs, fault>>

(* A frame: the directory (-1 is the root), its chain of children as it is *)
(* being rewritten, the entry looked at, how many are left, the last entry *)
(* kept, and the directories kept, of which done are normalised.           *)
NewFrame(offset, chain) ==
  [directory |-> offset, chain |-> chain, current |-> chain.first,
   left |-> chain.count, previous |-> -1, primaries |-> <<>>, done |-> 0]

StartNormalise ==
  /\ phase = "append" /\ appended = N
  /\ IF Readable(store.file_index, root.files.first, root.files.count)
     THEN /\ phase' = "normalise"
          /\ frames' = <<NewFrame(-1, root.directories)>>
          /\ UNCHANGED <<temporary, store, root, appended, index>>
     ELSE MergeFails
  /\ UNCHANGED <<call, queue, worker, channel, receiveVars, outputs, fault>>

(* merge_directory_records: the children of the duplicate become the last  *)
(* children of the primary.                                                *)
MergeRecords_FilesOnly(s, primary, duplicate) ==
  LET p == Header(s, primary)
      d == Header(s, duplicate)
      pf == ReadChain(s.file_index, p.file_index_offset, p.file_count)
      df == ReadChain(s.file_index, d.file_index_offset, d.file_count)
  IN  [s EXCEPT !.file_index = JoinIndex(@, pf, df),
                !.directories[primary + 1] =
                   [p EXCEPT !.file_index_offset = JoinChain(pf, df).first,
                             !.file_count = JoinChain(pf, df).count]]

MergeRecords(s, primary, duplicate) ==
  LET p == Header(s, primary)
      d == Header(s, duplicate)
      pf == ReadChain(s.file_index, p.file_index_offset, p.file_count)
      df == ReadChain(s.file_index, d.file_index_offset, d.file_count)
      pd == ReadChain(s.directory_index, p.directory_index_offset,
                      p.directory_count)
      dd == ReadChain(s.directory_index, d.directory_index_offset,
                      d.directory_count)
      files == JoinChain(pf, df)
      directories == JoinChain(pd, dd)
  IN  [s EXCEPT
         !.file_index = JoinIndex(@, pf, df),
         !.directory_index = JoinIndex(@, pd, dd),
         !.directories[primary + 1] =
            [p EXCEPT !.file_index_offset = files.first,
                      !.file_count = files.count,
                      !.directory_index_offset = directories.first,
                      !.directory_count = directories.count,
                      !.total_file_count = @ + d.total_file_count,
                      !.total_directory_count = @ + d.total_directory_count]]

ChainsReadable(s, offset) ==
  LET h == Header(s, offset)
  IN  /\ h.finished
      /\ Readable(s.file_index, h.file_index_offset, h.file_count)
      /\ Readable(s.directory_index, h.directory_index_offset,
                  h.directory_count)

SameName(f, name) ==
  {k \in DOMAIN f.primaries : Header(store, f.primaries[k]).name = name}

(* The entry is a duplicate: it is taken out of the chain.                 *)
Unlinked_CountKept(f, next) ==
  [first |-> IF f.previous >= 0 THEN f.chain.first ELSE next,
   last |-> IF f.current = f.chain.last THEN f.previous ELSE f.chain.last,
   count |-> f.chain.count]

Unlinked(f, next) ==
  [first |-> IF f.previous >= 0 THEN f.chain.first ELSE next,
   last |-> IF f.current = f.chain.last THEN f.previous ELSE f.chain.last,
   count |-> f.chain.count - 1]

Unlink(s, f, next) ==
  /\ store' = IF f.previous >= 0
              THEN [s EXCEPT !.directory_index[f.previous + 1].next = next]
              ELSE s
  /\ frames' = [frames EXCEPT ![Len(frames)] =
       [f EXCEPT !.chain = Unlinked(f, next),
                 !.current = next, !.left = @ - 1]]

Keep(f, next, child) ==
  /\ frames' = [frames EXCEPT ![Len(frames)] =
       [f EXCEPT !.primaries = Append(@, child),
                 !.previous = f.current,
                 !.current = next, !.left = @ - 1]]
  /\ UNCHANGED store

NormaliseEntry ==
  /\ phase = "normalise"
  /\ LET f == Last(frames)
         entry == store.directory_index[f.current + 1]
         child == entry.record_offset
         same == SameName(f, Header(store, child).name)
     IN  /\ f.left > 0
         /\ IF same = {} THEN Keep(f, entry.next, child) /\ UNCHANGED temporary
                              /\ phase' = phase
            ELSE LET primary == f.primaries[CHOOSE k \in same : TRUE]
                 IN  IF ChainsReadable(store, primary)
                        /\ ChainsReadable(store, child)
                     THEN /\ Unlink(MergeRecords(store, primary, child), f,
                                    entry.next)
                          /\ UNCHANGED <<phase, temporary>>
                     ELSE /\ phase' = "failed"
                          /\ temporary' = temporary \ sources
                          /\ UNCHANGED <<store, frames>>
  /\ UNCHANGED <<call, queue, worker, channel, receiveVars, outputs, root,
                 appended, index, fault>>

(* normalize_directory of the next directory kept: it gets a file uid of   *)
(* its own and its chain of children is normalised in turn.                *)
EnterDirectory ==
  /\ phase = "normalise"
  /\ LET f == Last(frames)
         child == f.primaries[f.done + 1]
         h == Header(store, child)
     IN  /\ f.left = 0 /\ f.done < Len(f.primaries)
         /\ IF f.current = -1 /\ ChainsReadable(store, child)
            THEN /\ store' =
                      [store EXCEPT
                         !.directories[child + 1].file_uid =
                            store.next_file_uid,
                         !.next_file_uid = NextUid(store)]
                 /\ frames' =
                      Append([frames EXCEPT ![Len(frames)].done = @ + 1],
                             NewFrame(child,
                               ReadChain(store.directory_index,
                                         h.directory_index_offset,
                                         h.directory_count)))
                 /\ UNCHANGED <<phase, temporary, root, appended, index>>
            ELSE MergeFails
  /\ UNCHANGED <<call, queue, worker, channel, receiveVars, outputs, fault>>

(* calculate_directory_totals.                                             *)
TotalsOf(s, file_count, chain) ==
  LET walk == Walk(s.directory_index, chain.first, chain.count)
      sum[k \in 0..chain.count] ==
        IF k = 0 THEN [files |-> file_count, directories |-> 0]
        ELSE LET before == sum[k - 1]
                 h == Header(s, DirectoryAt(s, walk[k]))
             IN  [files |-> before.files + h.total_file_count,
                  directories |-> before.directories + 1
                                    + h.total_directory_count]
  IN  sum[chain.count]

LeaveDirectory ==
  /\ phase = "normalise"
  /\ LET f == Last(frames)
         atRoot == f.directory = -1
         h == Header(store, f.directory)
         totals == TotalsOf(store,
                            IF atRoot THEN root.files.count ELSE h.file_count,
                            f.chain)
     IN  /\ f.left = 0 /\ f.done = Len(f.primaries)
         /\ IF Readable(store.directory_index, f.chain.first, f.chain.count)
            THEN /\ frames' = Front(frames)
                 /\ IF atRoot
                    THEN /\ root' = [root EXCEPT
                              !.directories = f.chain,
                              !.total_file_count = totals.files,
                              !.total_directory_count = totals.directories]
                         /\ UNCHANGED store
                    ELSE /\ store' = [store EXCEPT
                              !.directories[f.directory + 1] =
                                [h EXCEPT
                                   !.directory_index_offset = f.chain.first,
                                   !.directory_count = f.chain.count,
                                   !.total_file_count = totals.files,
                                   !.total_directory_count =
                                      totals.directories]]
                         /\ UNCHANGED root
                 /\ phase' = IF atRoot THEN "finish" ELSE phase
                 /\ UNCHANGED <<temporary, appended, index>>
            ELSE MergeFails
  /\ UNCHANGED <<call, queue, worker, channel, receiveVars, outputs, fault>>

(* The root's header is finished and the root becomes the only entry of    *)
(* the chain the caller is given.                                          *)
FinishMerge ==
  /\ phase = "finish"
  /\ LET s == FinishDirectory(store, [root EXCEPT !.name = "root"])
         entry == [next |-> -1, record_offset |-> root.offset,
                   selection |-> root.selection]
     IN  /\ store' = [s EXCEPT !.directory_index =
                                 AppendIndex(@, NewChain, entry)]
         /\ index' = [files |-> NewChain,
                      directories |-> AppendChain(s.directory_index,
                                                  NewChain)]
  /\ phase' = "ready"
  /\ temporary' = temporary \ sources
  /\ UNCHANGED <<call, queue, worker, channel, receiveVars, outputs, root,
                 appended, frames, fault>>

IoFails ==
  /\ phase \in {"append", "normalise", "finish"}
  /\ MergeFails
  /\ fault' = TRUE
  /\ UNCHANGED <<call, queue, worker, channel, receiveVars, outputs>>

(* highest_file_uid of the merged index.                                   *)
HighestFileUid == store.next_file_uid - 1

WorkerStep(w) ==
  /\ w \in DOMAIN worker
  /\ PopTask(w) \/ CreateTemporary(w) \/ ParseSource(w) \/ SendResult(w)

CallerStep ==
  \/ OpenFails \/ ParseFile \/ StartMerge \/ Receive \/ Join
  \/ AppendNext \/ StartNormalise
  \/ NormaliseEntry \/ EnterDirectory \/ LeaveDirectory \/ FinishMerge
  \/ IoFails

(* The call has returned.                                                  *)
Returned == phase \in {"ready", "failed"} /\ UNCHANGED vars

Next ==
  \/ CallerStep
  \/ \E w \in 1..Parallelism : WorkerStep(w)
  \/ Returned

Spec == Init /\ [][Next]_vars

(***************************************************************************)
(* What the threads of a merge promise; what the index holds is IndexTree's*)
(* subject.                                                                *)
(***************************************************************************)

(* However a call ends, on whatever error of whichever worker or of the    *)
(* caller at whatever moment, no temporary file of a merge's source is     *)
(* left.  Of the output files it says nothing: a call that fails may leave *)
(* them, and the application removes them.                                 *)
NoTemporariesLeft == phase \in {"ready", "failed"} => temporary = {}

(* The merge appends only when every source has come through, whichever    *)
(* workers parsed them and in whatever order they sent them: the error     *)
(* "merge source was not produced" never occurs.                           *)
EverySourceProduced ==
  phase \in {"append", "normalise", "finish"} => sources = 1..N
=============================================================================
