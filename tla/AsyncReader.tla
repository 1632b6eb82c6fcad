----------------------------- MODULE AsyncReader -----------------------------
(***************************************************************************)
(* AsyncSequentialReader and the retry loop around it: how the worker of   *)
(* the native reader reads the large files of a job, each with a queue of  *)
(* overlapped direct reads that complete in any order, the next file       *)
(* prepared while the current one is consumed, and every failure answered  *)
(* by throwing the queue away and reopening the file where it stopped.     *)
(*                                                                         *)
(* Lengths and offsets count chunks of read_chunk_size; how many sectors   *)
(* the last chunk has, and how the device's alignment is found, is left    *)
(* out.  An error is what retryable_file_read_error makes of it.           *)
(***************************************************************************)
EXTENDS Integers, FiniteSets, Sequences

CONSTANTS
  FileLen,        (* chunks of each large file, in job order                 *)
  QueueDepth,     (* requests of one reader                                  *)
  PrimeDepth,     (* requests submitted for the file after the current one   *)
  Batch,          (* completions taken from a port at a time                 *)
  MaxRetries      (* consecutive retries without progress                    *)

ASSUME AsyncAssumption ==
  /\ FileLen \in Seq(Nat \ {0})
  /\ QueueDepth \in Nat \ {0}
  /\ PrimeDepth \in 0..QueueDepth
  /\ Batch \in Nat \ {0} /\ MaxRetries \in Nat

VARIABLES
  worker,         (* where the thread is                                     *)
  file,           (* the file it reads                                       *)
  next_offset,    (* the first chunk the consumer has not had                *)
  attempt_offset, (* next_offset when the attempt began                      *)
  consecutive_retries,
  error,          (* the error being handled                                 *)
  prepared,       (* prepared_large: none, a reader, or its error ...        *)
  prepared_for,   (* ... and its file                                        *)
  reader,         (* the current reader and the one prepared ahead           *)
  kernel,         (* what the kernel does with each request of each reader   *)
  cancelled,      (* the cancel event                                        *)
  last,           (* the item delivered last, as FileStream has them         *)
  outcome,        (* how the job ended                                       *)
  check_fired     (* an internal consistency check has fired                 *)

progress == <<file, next_offset, attempt_offset, consecutive_retries>>
ahead == <<prepared, prepared_for>>
history == <<last, check_fired>>
vars == <<worker, progress, error, ahead, reader, kernel, cancelled,
          outcome, history>>

Stream == INSTANCE FileStream WITH
  SlotSize <- 1, selected <- 1..Len(FileLen), ending <- outcome

Files == Stream!Files
Requests == 1..QueueDepth
Errors == {"retryable", "permanent", "cancelled"}
Completions == {"read", "retryable", "permanent"}

AllIdle == [k \in Requests |-> "idle"]
Closed == [open |-> FALSE, next_submit |-> 0, next_consume |-> 0,
           outstanding |-> 0, state |-> AllIdle,
           offset |-> [k \in Requests |-> 0]]
Opened(start) ==
  [Closed EXCEPT !.open = TRUE, !.next_submit = start, !.next_consume = start]

Unused == [k \in Requests |-> "free"]

Init ==
  /\ worker = "file" /\ file = 1
  /\ next_offset = 0 /\ attempt_offset = 0 /\ consecutive_retries = 0
  /\ error = "none" /\ prepared = "none" /\ prepared_for = 0
  /\ reader = [current |-> Closed, ahead |-> Closed]
  /\ kernel = [current |-> Unused, ahead |-> Unused]
  /\ cancelled = FALSE /\ outcome = "open"
  /\ last = Stream!NoItem
  /\ check_fired = FALSE

Goto(l) == worker' = l

(* Where every failure of the current file goes.                           *)
Fails(e) == error' = e /\ Goto("drop")

CheckFires == check_fired' = TRUE /\ Fails("permanent")

-----------------------------------------------------------------------------
(* The kernel and the user.                                                *)

KernelCompletes(r, k, c) ==
  /\ kernel[r][k] = "busy"
  /\ kernel' = [kernel EXCEPT ![r][k] = c]
  /\ UNCHANGED <<worker, progress, error, ahead, reader, cancelled, outcome,
                 history>>

Cancel ==
  /\ ~cancelled /\ worker # "ended"
  /\ cancelled' = TRUE
  /\ UNCHANGED <<worker, progress, error, ahead, reader, kernel, outcome,
                 history>>

(* Requests whose completion packet is in the port of reader r.            *)
Packets(r) == {k \in Requests : kernel[r][k] \in Completions}

-----------------------------------------------------------------------------
(* Opening and submitting, for either reader.                              *)

MoreToSubmit(r, f) == reader[r].next_submit < FileLen[f]

Idle(r) == {k \in Requests : reader[r].state[k] = "idle"}

Submitted(r, k) ==
  /\ reader' = [reader EXCEPT
       ![r].state[k] = "inflight", ![r].offset[k] = reader[r].next_submit,
       ![r].next_submit = @ + 1, ![r].outstanding = @ + 1]
  /\ kernel' = [kernel EXCEPT ![r][k] = "busy"]

(* submit may fail at once, and does when the job is cancelled.            *)
SubmitErrors == IF cancelled THEN {"cancelled"} ELSE {"retryable", "permanent"}

-----------------------------------------------------------------------------
(* The current file, up to the loop that consumes it.                      *)

TakesPrepared ==
  /\ prepared' = "none" /\ UNCHANGED prepared_for
  /\ IF prepared = "reader"
     THEN /\ reader' = [current |-> reader.ahead, ahead |-> Closed]
          /\ kernel' = [current |-> kernel.ahead, ahead |-> Unused]
          /\ Goto("prime") /\ UNCHANGED error
     ELSE Fails(prepared) /\ UNCHANGED <<reader, kernel>>

StartFile ==
  /\ worker = "file"
  /\ UNCHANGED <<progress, cancelled, last>>
  /\ \/ /\ file \notin Files
        /\ outcome' = "done" /\ Goto("ended")
        /\ UNCHANGED <<error, ahead, reader, kernel, check_fired>>
     \/ /\ file \in Files /\ cancelled /\ Fails("cancelled")
        /\ UNCHANGED <<ahead, reader, kernel, outcome, check_fired>>
     \/ /\ file \in Files /\ ~cancelled /\ prepared # "none"
        /\ IF prepared_for # file
           THEN CheckFires /\ UNCHANGED <<ahead, reader, kernel>>
           ELSE TakesPrepared /\ UNCHANGED check_fired
        /\ UNCHANGED outcome
     \/ /\ file \in Files /\ ~cancelled /\ prepared = "none"
        /\ Goto("open")
        /\ UNCHANGED <<error, ahead, reader, kernel, outcome, check_fired>>

(* Mutant: a retry reads the file from its beginning.                      *)
ResumeAt_Start == 0

ResumeAt == next_offset

Open ==
  /\ worker = "open"
  /\ attempt_offset' = next_offset
  /\ \/ /\ ~cancelled /\ Goto("prime")
        /\ reader' = [reader EXCEPT !.current = Opened(ResumeAt)]
        /\ UNCHANGED error
     \/ /\ \E e \in SubmitErrors : Fails(e)
        /\ UNCHANGED reader
  /\ UNCHANGED <<file, next_offset, consecutive_retries, ahead, kernel,
                 cancelled, outcome, last, check_fired>>

(* Only the first attempt on a file prepares the file after it.            *)
AfterPrime ==
  IF consecutive_retries = 0 /\ file + 1 \in Files THEN "ahead" ELSE "run"

Prime ==
  /\ worker = "prime"
  /\ IF Idle("current") # {} /\ MoreToSubmit("current", file)
     THEN \/ /\ ~cancelled
             /\ \E k \in Idle("current") : Submitted("current", k)
             /\ UNCHANGED <<worker, error>>
          \/ /\ \E e \in SubmitErrors : Fails(e)
             /\ UNCHANGED <<reader, kernel>>
     ELSE Goto(AfterPrime) /\ UNCHANGED <<error, reader, kernel>>
  /\ UNCHANGED <<progress, ahead, cancelled, outcome, history>>

-----------------------------------------------------------------------------
(* prepare_reader_once, for the file after the current one.                *)

PrepareAhead ==
  /\ worker = "ahead"
  /\ prepared_for' = file + 1
  /\ \/ /\ ~cancelled
        /\ reader' = [reader EXCEPT !.ahead = Opened(0)]
        /\ prepared' = "reader" /\ Goto("prime_ahead")
     \/ /\ prepared' \in SubmitErrors
        /\ Goto("run") /\ UNCHANGED reader
  /\ UNCHANGED <<progress, error, kernel, cancelled, outcome, history>>

PrimeAhead ==
  /\ worker = "prime_ahead"
  /\ IF reader.ahead.next_submit < PrimeDepth /\ MoreToSubmit("ahead", file + 1)
     THEN \/ /\ ~cancelled
             /\ \E k \in Idle("ahead") : Submitted("ahead", k)
             /\ UNCHANGED <<worker, prepared>>
          \/ /\ prepared' \in SubmitErrors
             /\ Goto("drop_ahead") /\ UNCHANGED <<reader, kernel>>
     ELSE Goto("run") /\ UNCHANGED <<prepared, reader, kernel>>
  /\ UNCHANGED <<progress, error, prepared_for, cancelled, outcome, history>>

-----------------------------------------------------------------------------
(* AsyncSequentialReader::run: chunks are consumed in file order, whatever *)
(* the order their reads completed in.                                     *)

CompletedAt(offset) ==
  {k \in Requests : /\ reader.current.state[k] \in Completions
                    /\ reader.current.offset[k] = offset}

Awaited == CompletedAt(reader.current.next_consume)

(* Mutant: the file has ended when its last chunk is submitted.            *)
AllConsumed_Submitted == reader.current.next_submit >= FileLen[file]

AllConsumed == reader.current.next_consume >= FileLen[file]

Running == worker = "run" /\ ~AllConsumed

RunEnds ==
  /\ worker = "run" /\ AllConsumed
  /\ error' = "none" /\ Goto("drop")
  /\ UNCHANGED <<progress, ahead, reader, kernel, cancelled, outcome, history>>

RunCancelled ==
  /\ Running /\ cancelled
  /\ Fails("cancelled")
  /\ UNCHANGED <<progress, ahead, reader, kernel, cancelled, outcome, history>>

ReadFailed ==
  /\ Running /\ ~cancelled
  /\ \E k \in Awaited : /\ reader.current.state[k] # "read"
                        /\ Fails(reader.current.state[k])
  /\ UNCHANGED <<progress, ahead, reader, kernel, cancelled, outcome, history>>

(* The consumer hashes the chunk and publishes it, which may fail.         *)
Consume ==
  /\ Running /\ ~cancelled
  /\ UNCHANGED <<file, attempt_offset, consecutive_retries, ahead, kernel,
                 cancelled, outcome>>
  /\ \E k \in Awaited :
       /\ reader.current.state[k] = "read"
       /\ IF reader.current.offset[k] # next_offset
          THEN /\ CheckFires
               /\ UNCHANGED <<next_offset, reader, last>>
          ELSE \/ /\ last' = Stream!ItemAt(file, reader.current.offset[k])
                  /\ next_offset' = next_offset + 1
                  /\ reader' = [reader EXCEPT !.current.next_consume = @ + 1,
                                              !.current.state[k] = "idle"]
                  /\ Goto("submit")
                  /\ UNCHANGED <<error, check_fired>>
               \/ /\ \E e \in {"permanent", "cancelled"} : Fails(e)
                  /\ UNCHANGED <<next_offset, reader, history>>

Resubmit ==
  /\ worker = "submit"
  /\ \/ /\ cancelled /\ Fails("cancelled")
        /\ UNCHANGED <<reader, kernel>>
     \/ /\ ~cancelled /\ ~MoreToSubmit("current", file)
        /\ Goto("run") /\ UNCHANGED <<error, reader, kernel>>
     \/ /\ ~cancelled /\ MoreToSubmit("current", file)
        /\ \/ /\ \E k \in Idle("current") : Submitted("current", k)
              /\ Goto("run") /\ UNCHANGED error
           \/ /\ \E e \in SubmitErrors : Fails(e)
              /\ UNCHANGED <<reader, kernel>>
  /\ UNCHANGED <<progress, ahead, cancelled, outcome, history>>

Receives == Running /\ ~cancelled /\ Awaited = {}

Taken(r, P) ==
  kernel' = [kernel EXCEPT
    ![r] = [k \in Requests |-> IF k \in P THEN "free" ELSE kernel[r][k]]]

Batches(r) ==
  {P \in SUBSET Packets(r) : P # {} /\ Cardinality(P) <= Batch}

CompletedState(P) ==
  [k \in Requests |-> IF k \in P THEN kernel.current[k]
                      ELSE reader.current.state[k]]

Receive ==
  /\ Receives
  /\ \E P \in Batches("current") :
       /\ Taken("current", P)
       /\ IF \E k \in P : reader.current.state[k] # "inflight"
          THEN CheckFires /\ UNCHANGED reader
          ELSE /\ reader' = [reader EXCEPT
                    !.current.state = CompletedState(P),
                    !.current.outstanding = @ - Cardinality(P)]
               /\ UNCHANGED <<worker, error, check_fired>>
  /\ UNCHANGED <<progress, ahead, cancelled, outcome, last>>

(* Mutant: only a full queue can stall.                                    *)
Stalls_WhenFull ==
  /\ Receives /\ Packets("current") = {}
  /\ reader.current.outstanding = QueueDepth
  /\ Fails("retryable")
  /\ UNCHANGED <<progress, ahead, reader, kernel, cancelled, outcome, history>>

(* The poll times out: read_stall_timeout may have passed since a          *)
(* completion was taken.                                                   *)
Stalls ==
  /\ Receives /\ Packets("current") = {}
  /\ reader.current.outstanding > 0
  /\ Fails("retryable")
  /\ UNCHANGED <<progress, ahead, reader, kernel, cancelled, outcome, history>>

PortFails ==
  /\ Receives
  /\ Fails("retryable")
  /\ UNCHANGED <<progress, ahead, reader, kernel, cancelled, outcome, history>>

-----------------------------------------------------------------------------
(* Dropping a reader: cancel_and_drain, or abandon what does not come back.*)

Draining(r) ==
  IF r = "current" THEN worker = "drop"
  ELSE worker = "drop_ahead" \/ (worker = "discard" /\ prepared = "reader")

DrainTakes(r) ==
  /\ Draining(r) /\ reader[r].outstanding > 0
  /\ \E P \in Batches(r) :
       /\ Taken(r, P)
       /\ reader' = [reader EXCEPT ![r].outstanding =
            IF @ >= Cardinality(P) THEN @ - Cardinality(P) ELSE 0]
  /\ UNCHANGED <<worker, progress, error, ahead, cancelled, outcome, history>>

AfterDrop ==
  IF worker = "drop" THEN IF error = "none" THEN "eof" ELSE "discard"
  ELSE IF worker = "drop_ahead" THEN "run" ELSE "decide"

Dropped(r) ==
  /\ reader' = [reader EXCEPT ![r] = Closed]
  /\ Goto(AfterDrop)
  /\ prepared' = IF worker = "discard" THEN "none" ELSE prepared
  /\ UNCHANGED <<progress, error, prepared_for, cancelled, outcome, history>>

(* The buffers and the handles are freed.                                  *)
Frees(r) ==
  /\ Draining(r) /\ reader[r].outstanding = 0
  /\ Dropped(r)
  /\ UNCHANGED kernel

(* Mutant: memory the kernel did not give back is freed.                   *)
Abandons_Frees(r) ==
  /\ Draining(r) /\ reader[r].outstanding > 0
  /\ Dropped(r)
  /\ UNCHANGED kernel

(* io_cancel_grace passed, or the port failed: the requests and the        *)
(* handles are leaked, with whatever the kernel still does to them.        *)
Abandons(r) ==
  /\ Draining(r) /\ reader[r].outstanding > 0
  /\ Dropped(r)
  /\ kernel' = [kernel EXCEPT ![r] = Unused]

(* discard_later_reads, when no reader was prepared.                       *)
Discard ==
  /\ worker = "discard" /\ prepared # "reader"
  /\ prepared' = "none" /\ Goto("decide")
  /\ UNCHANGED <<progress, error, prepared_for, reader, kernel, cancelled,
                 outcome, history>>

-----------------------------------------------------------------------------
(* The end of a file, and what follows a failure.                          *)

FileEnds ==
  /\ worker = "eof"
  /\ last' = Stream!ItemAt(file, FileLen[file])
  /\ file' = file + 1
  /\ next_offset' = 0 /\ attempt_offset' = 0 /\ consecutive_retries' = 0
  /\ Goto("file")
  /\ UNCHANGED <<error, ahead, reader, kernel, cancelled, outcome, check_fired>>

RetriesSoFar == IF next_offset > attempt_offset THEN 0 ELSE consecutive_retries

Decide ==
  /\ worker = "decide"
  /\ IF error = "retryable" /\ RetriesSoFar < MaxRetries
     THEN /\ consecutive_retries' = RetriesSoFar + 1
          /\ Goto("backoff") /\ UNCHANGED outcome
     ELSE /\ outcome' = IF error = "cancelled" THEN "cancelled" ELSE "failed"
          /\ Goto("ended") /\ UNCHANGED consecutive_retries
  /\ UNCHANGED <<file, next_offset, attempt_offset, error, ahead, reader,
                 kernel, cancelled, history>>

(* wait_for_file_retry, which a cancellation ends.                         *)
Backoff ==
  /\ worker = "backoff"
  /\ \/ Goto("open") /\ UNCHANGED outcome
     \/ cancelled /\ outcome' = "cancelled" /\ Goto("ended")
  /\ UNCHANGED <<progress, error, ahead, reader, kernel, cancelled, history>>

-----------------------------------------------------------------------------
WorkerStep ==
  \/ StartFile \/ Open \/ Prime \/ PrepareAhead \/ PrimeAhead
  \/ RunEnds \/ RunCancelled \/ ReadFailed \/ Consume \/ Resubmit
  \/ Receive \/ Stalls
  \/ \E r \in {"current", "ahead"} : DrainTakes(r) \/ Frees(r) \/ Abandons(r)
  \/ Discard \/ FileEnds \/ Decide \/ Backoff

Done == worker = "ended" /\ UNCHANGED vars

Next ==
  \/ WorkerStep \/ PortFails \/ Cancel \/ Done
  \/ \E r \in {"current", "ahead"}, k \in Requests, c \in Completions :
       KernelCompletes(r, k, c)

Spec == Init /\ [][Next]_vars

(* The worker takes its steps, its timeouts included; the kernel need not  *)
(* complete anything, and its calls need not fail.                         *)
FairSpec == Spec /\ WF_vars(WorkerStep)

-----------------------------------------------------------------------------
(* Properties.                                                             *)

Reader == [open : BOOLEAN, next_submit : Nat, next_consume : Nat,
           outstanding : Nat,
           state : [Requests -> {"idle", "inflight"} \union Completions],
           offset : [Requests -> Nat]]

(* Types; a closed reader has nothing outstanding.                         *)
TypeOK ==
  /\ worker \in {"file", "open", "prime", "ahead", "prime_ahead", "run",
                 "submit", "drop", "drop_ahead", "eof", "discard", "decide",
                 "backoff", "ended"}
  /\ file \in 1..(Len(FileLen) + 1)
  /\ next_offset \in Nat /\ attempt_offset \in Nat
  /\ consecutive_retries \in 0..MaxRetries
  /\ error \in Errors \union {"none"}
  /\ prepared \in Errors \union {"none", "reader"} /\ prepared_for \in Nat
  /\ reader \in [{"current", "ahead"} -> Reader]
  /\ kernel \in [{"current", "ahead"} ->
                   [Requests -> {"free", "busy"} \union Completions]]
  /\ cancelled \in BOOLEAN
  /\ last \in Stream!Item
  /\ outcome \in Stream!Endings \union {"open"}
  /\ check_fired \in BOOLEAN

(* The kernel writes only to memory that is alive and that nobody reads:   *)
(* a buffer it has belongs to an open reader, which counts it; a reader is *)
(* freed, or a request submitted again, only when the kernel is done.      *)
KernelBuffersAlive ==
  \A r \in {"current", "ahead"} :
    LET owned == {k \in Requests : kernel[r][k] # "free"} IN
    /\ owned # {} => reader[r].open
    /\ reader[r].outstanding = Cardinality(owned)
    /\ ~Draining(r) =>
         owned = {k \in Requests : reader[r].state[k] = "inflight"}

(* The checks of order, of duplicate completions and of the prepared file  *)
(* are defences: no order of completions, failure or retry makes one fire. *)
ChecksNeverFire == ~check_fired

(* The writer's side gets every chunk of every file once, in order, with   *)
(* the end of the file after its last chunk, whatever is retried; the job  *)
(* is done only when it got the last.                                      *)
DeliversInOrder ==
  [][/\ last' # last => Stream!Follows(Files, last, last')
     /\ outcome' = "done" => Stream!IsLast(Files, last)]_vars

(* Whatever the kernel never completes, the job ends.                      *)
WorkerEnds == <>(worker = "ended")
=============================================================================
