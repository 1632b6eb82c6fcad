----------------------------- MODULE NativeRing -----------------------------
(***************************************************************************)
(* The disk reader of the fastreader crate: a worker thread reads the      *)
(* selected files in order and publishes them into a ring of slots; the    *)
(* writer of the tape acquires and releases slots through the C ABI; other *)
(* threads cancel, hash, watch and destroy.  All share one mutex           *)
(* (NativeState) and one condition variable (changed).  A step of this     *)
(* module is one critical section of that mutex.                           *)
(*                                                                         *)
(* Lengths and offsets are counted in an arbitrary unit; a slot's bytes    *)
(* are abstracted to the piece of the file they are.  What the readers do  *)
(* to obtain a chunk (AsyncSequentialReader, SmallFilePool) is one step    *)
(* that delivers the next chunk or fails.                                  *)
(***************************************************************************)
EXTENDS Naturals, FiniteSets, Sequences

CONSTANTS
  FileLen,         (* lengths of the files added, in the order of addition *)
  SlotSize,        (* LfrConfig.slot_size                                  *)
  ReadChunk,       (* LfrConfig.read_chunk_size                            *)
  SmallThreshold,  (* LfrConfig.small_threshold                            *)
  SlotCount,       (* LfrConfig.capacity_bytes / slot_size                 *)
  RefillTargets    (* targets the consumer passes to wait_until_buffered   *)

(* What lfr_create accepts.                                                *)
ASSUME RingAssumption ==
  /\ FileLen \in Seq(Nat)
  /\ SlotSize \in Nat \ {0}
  /\ ReadChunk \in Nat /\ ReadChunk >= SlotSize /\ ReadChunk % SlotSize = 0
  /\ SmallThreshold \in Nat
  /\ SlotCount \in Nat /\ SlotCount >= 2
  /\ RefillTargets \subseteq 0..(SlotCount * SlotSize)

VARIABLES
  (* struct NativeState, guarded by NativeShared.state *)
  slots, write_index, read_index, buffered_bytes, occupied_slots,
  selected, started, done, cancelled, error, results,
  (* the rest of NativeShared and LfrContext *)
  cancel_event,     (* the manual-reset event the readers poll              *)
  asleep,           (* threads waiting on the condition variable            *)
  (* the worker thread: where it is, the file and the part of the chunk     *)
  (* [offset, chunk_end) it still has to publish, the bytes it hashed       *)
  worker, file, offset, chunk_end, hashed,
  watchdog,         (* the worker watchdog thread                           *)
  (* the thread that consumes slots: where it is, the token it holds, the   *)
  (* refill target it waits for, the item it released last, how it ended    *)
  consumer, held, target, last, ending,
  control           (* the thread that cancels and destroys                 *)

ringVars == <<slots, write_index, read_index, buffered_bytes, occupied_slots>>
flagVars == <<selected, started, done, cancelled, error>>
workerVars == <<worker, file, offset, chunk_end, hashed>>
consumerVars == <<consumer, held, target, last, ending>>
vars == <<ringVars, flagVars, results, cancel_event, asleep,
          workerVars, watchdog, consumerVars, control>>

Stream == INSTANCE FileStream

Files == Stream!Files
Small(f) == FileLen[f] <= SmallThreshold
NextFile(f) == Stream!NextFile(selected, f)
Index == 0..(SlotCount - 1)

Errors == {"none", "pool", "worker", "hash", "stall"}
WorkerStates == {"unstarted", "init", "start", "read", "publish", "finish",
                 "eof", "ok", "interrupted", "failed", "shutdown", "exited"}
ConsumerStates == {"idle", "acquire", "refill", "hold", "ended"}
ControlStates == {"idle", "cancelling", "destroying", "joining", "freed"}
WatchdogStates == {"unstarted", "polling", "fatal", "exited"}

(* The first error text wins; done is set with it (native_set_error).      *)
SetError(e) ==
  /\ error' = IF error = "none" THEN e ELSE error
  /\ done' = TRUE
  /\ UNCHANGED <<selected, started, cancelled>>

NotifyAll_Nobody == UNCHANGED asleep
NotifyAll == asleep' = {}

Init ==
  /\ slots = [k \in Index |-> [full |-> FALSE, token |-> 0, file |-> 0,
                               offset |-> 0, length |-> 0, eof |-> FALSE]]
  /\ write_index = 0 /\ read_index = 0
  /\ buffered_bytes = 0 /\ occupied_slots = 0
  /\ selected = {} /\ started = FALSE /\ done = FALSE
  /\ cancelled = FALSE /\ error = "none"
  /\ results = [f \in {} |-> 0]
  /\ cancel_event = FALSE /\ asleep = {}
  /\ worker = "unstarted" /\ file = 0
  /\ offset = 0 /\ chunk_end = 0 /\ hashed = 0
  /\ watchdog = "unstarted"
  /\ consumer = "idle" /\ held = 0 /\ target = 0
  /\ last = Stream!NoItem /\ ending = "open"
  /\ control = "idle"

-----------------------------------------------------------------------------
(* Setting up: the catalogue is FileLen; the caller picks and starts.      *)

SelectFile(f) ==
  /\ control \in {"idle", "cancelling"} /\ ~started
  /\ f \notin selected
  /\ selected' = selected \union {f}
  /\ UNCHANGED <<ringVars, started, done, cancelled, error, results,
                 cancel_event, asleep, workerVars, watchdog,
                 consumerVars, control>>

StartReader ==
  /\ control \in {"idle", "cancelling"} /\ ~started
  /\ started' = TRUE
  /\ worker' = "init"
  /\ file' = NextFile(0)
  /\ watchdog' = "polling"
  /\ UNCHANGED <<ringVars, selected, done, cancelled, error, results,
                 cancel_event, asleep, offset, chunk_end, hashed,
                 consumerVars, control>>

-----------------------------------------------------------------------------
(* The worker thread.                                                      *)

WorkerGoes(s) ==
  /\ worker' = s
  /\ UNCHANGED <<file, offset, chunk_end, hashed>>

WorkerSide == <<results, cancel_event, watchdog, consumerVars,
                control>>

CreatePool ==
  /\ worker = "init"
  /\ \/ WorkerGoes("start") /\ UNCHANGED <<flagVars, asleep>>
     \/ WorkerGoes("exited") /\ SetError("pool") /\ NotifyAll
  /\ UNCHANGED <<ringVars, WorkerSide>>

StartFile ==
  /\ worker = "start"
  /\ worker' = IF file \notin Files THEN "ok"
               ELSE IF cancel_event THEN "interrupted" ELSE "read"
  /\ offset' = 0 /\ chunk_end' = 0 /\ hashed' = 0
  /\ UNCHANGED <<ringVars, flagVars, asleep, file, WorkerSide>>

HashedAfter_LastChunk(n) == n
HashedAfter(n) == hashed + n

(* A small file arrives whole, a large one in chunks of ReadChunk.         *)
ReadNext ==
  /\ worker = "read"
  /\ LET n == IF Small(file) THEN FileLen[file]
              ELSE Stream!MinOf(ReadChunk, FileLen[file] - offset)
     IN  /\ hashed' = HashedAfter(n)
         /\ chunk_end' = offset + n
         /\ worker' = IF n = 0 THEN "finish" ELSE "publish"
  /\ UNCHANGED <<ringVars, flagVars, results, cancel_event, asleep, file,
                 offset, watchdog, consumerVars, control>>

(* Opening, reading or hashing failed for good, or saw the cancel event.   *)
ReadFails ==
  /\ worker \in {"read", "finish"}
  /\ \/ WorkerGoes("failed")
     \/ worker = "read" /\ cancel_event /\ WorkerGoes("interrupted")
  /\ UNCHANGED <<ringVars, flagVars, asleep, WorkerSide>>

WouldPublish == worker \in {"publish", "eof"} /\ "worker" \notin asleep

RingFull_Never == FALSE
RingFull ==
  IF worker = "eof" THEN slots[write_index % SlotCount].full
  ELSE occupied_slots = SlotCount

MayPublish == ~cancelled /\ error = "none"

PublishStops_ErrorOnly ==
  /\ WouldPublish
  /\ error # "none" /\ WorkerGoes("failed")
  /\ UNCHANGED <<ringVars, flagVars, asleep, WorkerSide>>

PublishStops ==
  /\ WouldPublish
  /\ \/ cancelled /\ WorkerGoes("interrupted")
     \/ ~cancelled /\ error # "none" /\ WorkerGoes("failed")
  /\ UNCHANGED <<ringVars, flagVars, asleep, WorkerSide>>

PublishWaits ==
  /\ WouldPublish
  /\ MayPublish
  /\ RingFull
  /\ asleep' = asleep \union {"worker"}
  /\ UNCHANGED <<ringVars, flagVars, workerVars, WorkerSide>>

CeilDiv(a, b) == (a + b - 1) \div b

BatchSlots ==
  Stream!MinOf(CeilDiv(chunk_end - offset, SlotSize), SlotCount - occupied_slots)

BatchBytes == Stream!MinOf(BatchSlots * SlotSize, chunk_end - offset)

BatchSlot_SameSlice(t) ==
  [full |-> TRUE, token |-> t, file |-> file, offset |-> offset,
   length |-> Stream!MinOf(SlotSize, chunk_end - offset), eof |-> FALSE]

(* The slot with token t of a batch whose first slot is write_index.       *)
BatchSlot(t) ==
  LET start == offset + (t - write_index - 1) * SlotSize
  IN  [full |-> TRUE, token |-> t, file |-> file, offset |-> start,
       length |-> Stream!MinOf(SlotSize, chunk_end - start), eof |-> FALSE]

(* As many slots as are free take the head of the chunk.                   *)
PublishBatch ==
  /\ WouldPublish /\ worker = "publish"
  /\ MayPublish
  /\ ~RingFull
  /\ LET n    == BatchSlots
         rest == offset + BatchBytes
         tokens(k) == {t \in write_index + 1..write_index + n :
                         (t - 1) % SlotCount = k}
     IN  /\ slots' = [k \in Index |->
                        IF tokens(k) = {} THEN slots[k]
                        ELSE BatchSlot(CHOOSE t \in tokens(k) : TRUE)]
         /\ write_index' = write_index + n
         /\ buffered_bytes' = buffered_bytes + BatchBytes
         /\ occupied_slots' = occupied_slots + n
         /\ offset' = rest
         /\ worker' = IF rest < chunk_end THEN "publish"
                      ELSE IF chunk_end < FileLen[file] THEN "read"
                      ELSE "finish"
  /\ NotifyAll
  /\ UNCHANGED <<read_index, flagVars, file, chunk_end, hashed, WorkerSide>>

(* The hashes of the file become visible before its end-of-file slot.      *)
FinishHashes ==
  /\ worker = "finish"
  /\ results' = [f \in DOMAIN results \union {file} |->
                   IF f = file THEN hashed ELSE results[f]]
  /\ WorkerGoes("eof")
  /\ NotifyAll
  /\ UNCHANGED <<ringVars, flagVars, cancel_event, watchdog,
                 consumerVars, control>>

PublishEof ==
  /\ WouldPublish /\ worker = "eof"
  /\ MayPublish
  /\ ~RingFull
  /\ slots' = [slots EXCEPT ![write_index % SlotCount] =
                 [full |-> TRUE, token |-> write_index + 1, file |-> file,
                  offset |-> FileLen[file], length |-> 0, eof |-> TRUE]]
  /\ write_index' = write_index + 1
  /\ occupied_slots' = occupied_slots + 1
  /\ worker' = "start"
  /\ file' = NextFile(file)
  /\ NotifyAll
  /\ UNCHANGED <<read_index, buffered_bytes, flagVars, offset, chunk_end,
                 hashed, WorkerSide>>

(* The result of the run is recorded, then the small-file pool shuts down. *)
WorkerReports ==
  /\ \/ /\ worker = "ok"
        /\ done' = TRUE
        /\ UNCHANGED <<selected, started, cancelled, error>>
     \/ /\ worker = "interrupted"
        /\ cancelled' = TRUE /\ done' = TRUE
        /\ UNCHANGED <<selected, started, error>>
     \/ /\ worker = "failed"
        /\ SetError("worker")
  /\ WorkerGoes("shutdown")
  /\ NotifyAll
  /\ UNCHANGED <<ringVars, WorkerSide>>

WorkerExits ==
  /\ worker = "shutdown"
  /\ WorkerGoes("exited")
  /\ UNCHANGED <<ringVars, flagVars, asleep, WorkerSide>>

-----------------------------------------------------------------------------
(* The worker watchdog, without its clock: any stage it watches may last   *)
(* too long.  Its look at the state and its fatal error are two critical   *)
(* sections.                                                               *)

ExemptStage ==
  file \in Files /\ Small(file) /\ offset = 0 /\ worker \in {"read", "publish"}

WatchdogLooks ==
  /\ watchdog = "polling"
  /\ \/ /\ done \/ error # "none" \/ cancelled
        /\ watchdog' = "exited"
     \/ /\ ~done /\ error = "none" /\ ~cancelled
        /\ occupied_slots < SlotCount
        /\ ~ExemptStage
        /\ watchdog' = "fatal"
  /\ UNCHANGED <<ringVars, flagVars, results, cancel_event,
                 asleep, workerVars, consumerVars, control>>

WatchdogFails ==
  /\ watchdog = "fatal"
  /\ watchdog' = "exited"
  /\ SetError("stall")
  /\ NotifyAll
  /\ UNCHANGED <<ringVars, results, cancel_event, workerVars,
                 consumerVars, control>>

(* lfr_hash_file reads one file on the caller's thread; its failure is an  *)
(* error of the whole context.                                             *)
HashFileFails ==
  /\ control \in {"idle", "cancelling"}
  /\ SetError("hash")
  /\ NotifyAll
  /\ UNCHANGED <<ringVars, results, cancel_event, workerVars,
                 watchdog, consumerVars, control>>

-----------------------------------------------------------------------------
(* The consumer.                                                           *)

ConsumerSide == <<flagVars, results, cancel_event, workerVars,
                  watchdog, control>>

ConsumerGoes(s) == consumer' = s /\ UNCHANGED <<held, target, last, ending>>

ConsumerEnds(how) ==
  /\ consumer' = "ended" /\ ending' = how
  /\ UNCHANGED <<held, target, last>>

(* How a call ends that found neither data nor a reason to wait.           *)
StopReason ==
  IF cancelled THEN "cancelled" ELSE IF error # "none" THEN "failed" ELSE "done"

CallAcquire ==
  /\ consumer = "idle" /\ started
  /\ ConsumerGoes("acquire")
  /\ UNCHANGED <<ringVars, asleep, ConsumerSide>>

CallRefill(t) ==
  /\ consumer = "idle" /\ started
  /\ consumer' = "refill" /\ target' = t
  /\ UNCHANGED <<ringVars, asleep, held, last, ending, ConsumerSide>>

NextSlot == slots[read_index % SlotCount]

(* expected is the file the caller names, 0 when it names none.  A full    *)
(* slot is handed out even after a cancellation or an error.               *)
AcquireSlot(expected) ==
  /\ consumer = "acquire" /\ "consumer" \notin asleep
  /\ NextSlot.full
  /\ \/ /\ expected \in {0, NextSlot.file}
        /\ consumer' = "hold" /\ held' = NextSlot.token
        /\ UNCHANGED <<target, last, ending>>
     \/ /\ expected \notin {0, NextSlot.file}
        /\ ConsumerEnds("failed")
  /\ UNCHANGED <<ringVars, asleep, ConsumerSide>>

AcquireStops ==
  /\ consumer = "acquire" /\ "consumer" \notin asleep
  /\ ~NextSlot.full
  /\ cancelled \/ error # "none" \/ done
  /\ ConsumerEnds(StopReason)
  /\ UNCHANGED <<ringVars, asleep, ConsumerSide>>

AcquireWaits ==
  /\ consumer = "acquire" /\ "consumer" \notin asleep
  /\ ~NextSlot.full
  /\ ~cancelled /\ error = "none" /\ ~done
  /\ asleep' = asleep \union {"consumer"}
  /\ UNCHANGED <<ringVars, consumerVars, ConsumerSide>>

Refilled_BytesOnly == buffered_bytes >= target \/ done
Refilled ==
  buffered_bytes >= target \/ done \/ occupied_slots = SlotCount

RefillReturns ==
  /\ consumer = "refill" /\ "consumer" \notin asleep
  /\ IF cancelled \/ error # "none" THEN ConsumerEnds(StopReason)
     ELSE Refilled /\ ConsumerGoes("idle")
  /\ UNCHANGED <<ringVars, asleep, ConsumerSide>>

RefillWaits ==
  /\ consumer = "refill" /\ "consumer" \notin asleep
  /\ ~cancelled /\ error = "none" /\ ~Refilled
  /\ asleep' = asleep \union {"consumer"}
  /\ UNCHANGED <<ringVars, consumerVars, ConsumerSide>>

(* The deadline of a waiting call passes: the caller starts over.          *)
WaitTimesOut ==
  /\ "consumer" \in asleep
  /\ ConsumerGoes("idle")
  /\ asleep' = asleep \ {"consumer"}
  /\ UNCHANGED <<ringVars, ConsumerSide>>

TokenMatches(token) == NextSlot.full /\ NextSlot.token = token

(* The token names the slot; a token of another slot is refused.           *)
ReleaseSlot(token) ==
  /\ TokenMatches(token)
  /\ slots' = [slots EXCEPT ![read_index % SlotCount] =
                 [@ EXCEPT !.full = FALSE, !.length = 0, !.eof = FALSE]]
  /\ read_index' = read_index + 1
  /\ buffered_bytes' = IF NextSlot.length <= buffered_bytes
                       THEN buffered_bytes - NextSlot.length ELSE 0
  /\ occupied_slots' = IF occupied_slots > 0 THEN occupied_slots - 1 ELSE 0
  /\ last' = [file |-> NextSlot.file, offset |-> NextSlot.offset,
              length |-> NextSlot.length, eof |-> NextSlot.eof]
  /\ consumer' = IF consumer = "hold" THEN "idle" ELSE consumer
  /\ NotifyAll
  /\ UNCHANGED <<write_index, held, target, ending, ConsumerSide>>

(* The consumer releases what it acquired last, perhaps a second time.     *)
ReleaseHeld ==
  /\ consumer \in {"hold", "idle"} /\ held # 0
  /\ ReleaseSlot(held)

-----------------------------------------------------------------------------
(* Cancelling and destroying.  lfr_destroy runs once, from a caller that   *)
(* is in no other call.                                                    *)

ControlSide == <<ringVars, selected, started, done, error, results,
                 workerVars, watchdog, consumerVars>>

CancelBegins ==
  /\ control = "idle"
  /\ cancelled' = TRUE
  /\ NotifyAll
  /\ control' = "cancelling"
  /\ UNCHANGED <<cancel_event, ControlSide>>

CancelEnds ==
  /\ control = "cancelling"
  /\ cancel_event' = TRUE
  /\ control' = "idle"
  /\ UNCHANGED <<cancelled, asleep, ControlSide>>

DestroyBegins ==
  /\ control = "idle" /\ consumer \in {"idle", "ended"}
  /\ cancelled' = TRUE
  /\ NotifyAll
  /\ control' = "destroying"
  /\ consumer' = "ended"
  /\ ending' = IF ending = "open" THEN "cancelled" ELSE ending
  /\ UNCHANGED <<cancel_event, held, target, last, ringVars, selected,
                 started, done, error, results, workerVars,
                 watchdog>>

DestroySignals ==
  /\ control = "destroying"
  /\ cancel_event' = TRUE
  /\ control' = "joining"
  /\ UNCHANGED <<cancelled, asleep, ControlSide>>

DestroyJoins ==
  /\ control = "joining"
  /\ worker \in {"unstarted", "exited"}
  /\ watchdog \in {"unstarted", "exited"}
  /\ control' = "freed"
  /\ UNCHANGED <<cancelled, cancel_event, asleep, ControlSide>>

-----------------------------------------------------------------------------
Worker ==
  \/ CreatePool \/ StartFile \/ ReadNext \/ ReadFails
  \/ PublishStops \/ PublishWaits \/ PublishBatch
  \/ FinishHashes \/ PublishEof
  \/ WorkerReports \/ WorkerExits

Consumer ==
  \/ CallAcquire
  \/ \E t \in RefillTargets : CallRefill(t)
  \/ \E f \in Files \union {0} : AcquireSlot(f)
  \/ AcquireStops \/ AcquireWaits
  \/ RefillReturns \/ RefillWaits
  \/ WaitTimesOut
  \/ ReleaseHeld

Control ==
  \/ CancelBegins \/ CancelEnds
  \/ DestroyBegins \/ DestroySignals \/ DestroyJoins

Next ==
  \/ \E f \in Files : SelectFile(f)
  \/ StartReader
  \/ Worker
  \/ WatchdogLooks \/ WatchdogFails \/ HashFileFails
  \/ Consumer
  \/ Control

Spec == Init /\ [][Next]_vars

(* The threads run and a disk read ends (AsyncReader and SmallPool say     *)
(* why).  Nobody has to cancel, destroy, fail or time out; the consumer    *)
(* finishes its calls and keeps acquiring, though it may refill between.   *)
ConsumerWorks ==
  \/ \E f \in Files \union {0} : AcquireSlot(f)
  \/ AcquireStops \/ AcquireWaits \/ RefillReturns \/ RefillWaits
  \/ consumer = "hold" /\ ReleaseHeld

Fairness ==
  /\ WF_vars(Worker)
  /\ WF_vars(WatchdogLooks) /\ WF_vars(WatchdogFails)
  /\ WF_vars(ConsumerWorks) /\ SF_vars(CallAcquire)
  /\ WF_vars(CancelEnds) /\ WF_vars(DestroySignals) /\ WF_vars(DestroyJoins)

FairSpec == Spec /\ Fairness

-----------------------------------------------------------------------------
(* Properties.                                                             *)

Slot == [full : BOOLEAN, token : Nat, file : Files \union {0}, offset : Nat,
         length : 0..SlotSize, eof : BOOLEAN]

TypeOK ==
  /\ slots \in [Index -> Slot]
  /\ write_index \in Nat /\ read_index \in Nat
  /\ buffered_bytes \in Nat /\ occupied_slots \in 0..SlotCount
  /\ selected \subseteq Files
  /\ started \in BOOLEAN /\ done \in BOOLEAN /\ cancelled \in BOOLEAN
  /\ error \in Errors
  /\ DOMAIN results \subseteq Files
  /\ \A f \in DOMAIN results : results[f] \in Nat
  /\ cancel_event \in BOOLEAN
  /\ asleep \subseteq {"worker", "consumer"}
  /\ worker \in WorkerStates /\ file \in 0..Len(FileLen) + 1
  /\ offset \in Nat /\ chunk_end \in Nat /\ hashed \in Nat
  /\ watchdog \in WatchdogStates
  /\ consumer \in ConsumerStates /\ held \in Nat /\ target \in Nat
  /\ last \in Stream!Item
  /\ ending \in Stream!Endings \union {"open"}
  /\ control \in ControlStates

(* The counters the watchdog and the refill wait rely on describe the      *)
(* slots: the full slots are those of the tokens from read_index + 1 to    *)
(* write_index.                                                            *)
FullSlots == {k \in Index : slots[k].full}

TokensInOrder ==
  /\ occupied_slots = write_index - read_index
  /\ FullSlots = {i % SlotCount : i \in read_index..write_index - 1}
  /\ \A i \in read_index..write_index - 1 :
        slots[i % SlotCount].token = i + 1

(* The consumer reads the bytes of an acquired slot through a raw pointer  *)
(* after the mutex is free again: until it releases the slot, nothing the  *)
(* worker publishes may touch that slot.                                   *)
BorrowedSlotStable ==
  [][consumer = "hold" /\ consumer' = "hold"
       => slots'[read_index % SlotCount] = NextSlot /\ read_index' = read_index]_vars

(* Every release takes out the slot that was acquired and not yet          *)
(* released: releasing twice does not drop a slot nobody has seen.         *)
NoUnseenRelease ==
  [][read_index' # read_index
       => /\ consumer = "hold" /\ held = read_index + 1
          /\ read_index' = read_index + 1]_vars

(* When the consumer can see the end of a file, the hashes of the whole    *)
(* file can already be fetched (GetCompletedFileHashes fails otherwise).   *)
HashesBeforeEof ==
  \A k \in Index :
    slots[k].full /\ slots[k].eof
      => /\ slots[k].file \in DOMAIN results
         /\ results[slots[k].file] = FileLen[slots[k].file]

(* After a cancellation or an error nothing more enters the ring, so a     *)
(* consumer that drains it sees the end of the stream after at most        *)
(* SlotCount slots.                                                        *)
NoPublishAfterStop ==
  [][write_index' # write_index => ~cancelled /\ error = "none"]_vars

(* No wake-up is lost: a thread sleeps on the condition variable only      *)
(* while the condition it waits for is false.                              *)
SleepersMustWait ==
  /\ "worker" \in asleep =>
       /\ worker \in {"publish", "eof"}
       /\ RingFull /\ MayPublish
  /\ "consumer" \in asleep =>
       /\ consumer \in {"acquire", "refill"}
       /\ ~cancelled /\ error = "none" /\ ~done
       /\ consumer = "acquire" => ~NextSlot.full
       /\ consumer = "refill" => ~Refilled

(* The ring delivers the stream FileStream specifies: in order, without    *)
(* loss or repetition, and LFR_DONE only after the last end-of-file item.  *)
ImplementsStream == Stream!Spec

(* A started stream ends for a consumer that keeps acquiring, whatever     *)
(* fails and whoever cancels.                                              *)
StreamEnds == started ~> ending # "open"

(* lfr_destroy returns: the worker and the watchdog leave every wait once  *)
(* the context is cancelled.                                               *)
DestroyReturns == control = "destroying" ~> control = "freed"
=============================================================================
