----------------------------- MODULE TapeBridge -----------------------------
(***************************************************************************)
(* Direct copy from tape to tape.  Two processes share a ring of slots in  *)
(* a named mapping: the source reads files off its tape and publishes      *)
(* slots, the target writes them to its own tape.  There is no lock: the   *)
(* header holds atomic counters and flags, and two semaphores count the    *)
(* empty and the full slots.  A named pipe next to the mapping carries     *)
(* "complete", "error" and "cancel", and breaks when a process dies.       *)
(*                                                                         *)
(* A step is one access to something another thread can see: an atomic, a  *)
(* semaphore, a message.  A slot's bytes are abstracted to the piece of    *)
(* the file they are, and reading a piece from tape is one step (the       *)
(* packing of tape blocks into slots is StreamTapeFile's business).  The   *)
(* flag and the event lfr_bridge_cancel sets are one: every wait polls the *)
(* flag at least once per slice of 100 ms.                                 *)
(***************************************************************************)
EXTENDS Integers, FiniteSets, Sequences

CONSTANTS
  FileLen,         (* lengths of the files of the manifest, by ordinal      *)
  SlotSize,        (* LfrBridgeConfig.slot_size                             *)
  SlotCount,       (* LfrBridgeConfig.capacity_bytes / slot_size            *)
  RefillTargets,   (* targets the writer passes to wait_until_buffered      *)
  Mortal,          (* the sides whose process may die, one at most dies     *)
  Cancellers       (* the sides whose user may cancel                       *)

Sides == {"source", "target"}

ASSUME BridgeAssumption ==
  /\ FileLen \in Seq(Nat \ {0})
  /\ SlotSize \in Nat \ {0}
  /\ SlotCount \in Nat /\ SlotCount >= 2
  /\ RefillTargets \subseteq 0..(SlotCount * SlotSize)
  /\ Mortal \subseteq Sides /\ Cancellers \subseteq Sides

VARIABLES
  (* the shared mapping: BridgeHeader, the slots and the two semaphores     *)
  slots, write_index, read_index, buffered_bytes, occupied_slots,
  empty, full, cancelled, producer_done, error,
  (* the source's thread: where it is, the item it publishes, its outcome   *)
  source, item, outcome,
  token_cancelled,  (* the source offer's CancellationTokenSource           *)
  listener,         (* the source's task that reads the pipe                *)
  (* the target's writer thread: where it is, whether it took a full slot   *)
  (* it has not given back, the item it holds or released last, the refill  *)
  (* target and the occupied_slots it loaded, how its stream ended          *)
  target, taken, last, refill, seen, ending,
  peer_error,       (* DirectTapeCopyBridgeConsumer._peerError is set       *)
  watcher,          (* the target's task that reads the pipe                *)
  (* the pipe: the files of the start request, a message in each direction, *)
  (* the ends still open; and the processes still alive                     *)
  selected, to_target, to_source, open_ends, alive,
  user_cancelled    (* the sides whose user has cancelled                   *)

countVars == <<write_index, read_index, buffered_bytes, occupied_slots>>
semVars == <<empty, full>>
flagVars == <<cancelled, producer_done, error>>
sourceVars == <<source, item, outcome>>
targetVars == <<target, taken, last, refill, seen, ending>>
pipeVars == <<to_target, to_source, open_ends>>
sessionVars == <<token_cancelled, listener, peer_error, watcher, selected,
                 pipeVars, alive, user_cancelled>>
vars == <<slots, countVars, semVars, flagVars, sourceVars, targetVars,
          sessionVars>>

Stream == INSTANCE FileStream WITH
            ending <- IF ending = "starved" THEN "failed" ELSE ending

Files == Stream!Files
Index == 0..(SlotCount - 1)

NextItem_NextOrdinal(it) ==
  IF it.eof THEN Stream!ItemAt(it.file + 1, 0)
  ELSE Stream!ItemAt(it.file, it.offset + it.length)

(* The item the source publishes after it.                                 *)
NextItem(it) ==
  IF it.eof THEN Stream!ItemAt(Stream!NextFile(selected, it.file), 0)
  ELSE Stream!ItemAt(it.file, it.offset + it.length)

Streaming == {"next", "read", "wait", "take", "recheck", "write", "bytes",
              "count", "post", "fail"}
SourceStates == Streaming \union {"idle", "dispose", "reply", "closed"}
(* The producer's Cancel is registered with the offer's token.             *)
Registered == source \in Streaming \union {"dispose"}

TargetStates == {"planning", "ready", "check", "take", "again", "done?", "left?",
                 "slot", "hold", "release", "uncount", "post",
                 "refill", "loaded", "dispose", "hangup", "closed"}

Init ==
  /\ slots = [k \in Index |-> Stream!NoItem]
  /\ write_index = 0 /\ read_index = 0
  /\ buffered_bytes = 0 /\ occupied_slots = 0
  /\ empty = SlotCount /\ full = 0
  /\ cancelled = FALSE /\ producer_done = FALSE /\ error = "none"
  /\ source = "idle" /\ item = Stream!NoItem /\ outcome = "ok"
  /\ token_cancelled = FALSE /\ listener = "idle"
  /\ target = "planning" /\ taken = FALSE /\ last = Stream!NoItem
  /\ refill = 0 /\ seen = 0 /\ ending = "open"
  /\ peer_error = FALSE /\ watcher = "idle"
  /\ selected = {} /\ to_target = "none" /\ to_source = "none"
  /\ open_ends = Sides /\ alive = Sides
  /\ user_cancelled = {}

-----------------------------------------------------------------------------
(* The first error text wins (set_error tests error_len, then writes).     *)
SetError(e) == error' = IF error = "none" THEN e ELSE error

SourceGoes(s) == source' = s /\ UNCHANGED <<item, outcome>>
SourceEnds(s, how) == source' = s /\ outcome' = how /\ UNCHANGED item

SourceRuns(s) == source = s /\ "source" \in alive
TargetRuns(s) == target = s /\ "target" \in alive

(* The target plans, creates the bridge and sends the start request; its   *)
(* watcher task starts reading the pipe.                                   *)
ChooseMaterial(f) ==
  /\ TargetRuns("planning")
  /\ f \notin selected
  /\ selected' = selected \union {f}
  /\ UNCHANGED <<slots, countVars, semVars, flagVars, sourceVars, targetVars,
                 token_cancelled, listener, peer_error, watcher, pipeVars,
                 alive, user_cancelled>>

Start ==
  /\ TargetRuns("planning")
  /\ selected # {}
  /\ target' = "ready" /\ watcher' = "reading"
  /\ UNCHANGED <<slots, countVars, semVars, flagVars, sourceVars, taken, last,
                 refill, seen, ending, token_cancelled, listener, peer_error,
                 selected, pipeVars, alive, user_cancelled>>

-----------------------------------------------------------------------------
(* The source: Serve calls StreamDirectTapeCopySource, which opens the     *)
(* producer, streams one file after the other and marks the end.           *)

SourceSide == <<targetVars, listener, peer_error, watcher, selected,
                alive, user_cancelled>>

(* The start request arrives, the offer is validated a second time, the    *)
(* listener starts, the producer opens the bridge, unless the target has   *)
(* destroyed it by then; or the pipe breaks before the request.            *)
BridgeExists == "target" \in alive /\ target \notin {"hangup", "closed"}

ServeStart ==
  /\ SourceRuns("idle")
  /\ watcher # "idle" \/ open_ends # Sides
  /\ \/ watcher # "idle" /\ "source" \in open_ends /\ BridgeExists
        /\ SourceGoes("next") /\ listener' = "reading"
     \/ SourceEnds("reply", "failed") /\ listener' \in {listener, "reading"}
  /\ UNCHANGED <<slots, countVars, semVars, flagVars, targetVars,
                 token_cancelled, peer_error, watcher, selected, pipeVars,
                 alive, user_cancelled>>

(* Before a file the token is checked, and the tape must still be the one  *)
(* the manifest describes.                                                 *)
NextFile ==
  /\ SourceRuns("next")
  /\ ~Stream!IsLast(selected, item)
  /\ IF token_cancelled THEN SourceEnds("dispose", "cancelled")
     ELSE SourceGoes("read") \/ SourceEnds("dispose", "failed")
  /\ UNCHANGED <<slots, countVars, semVars, flagVars, SourceSide,
                 token_cancelled, pipeVars>>

Complete ==
  /\ SourceRuns("next")
  /\ Stream!IsLast(selected, item)
  /\ producer_done' = TRUE
  /\ SourceGoes("dispose")
  /\ UNCHANGED <<slots, countVars, semVars, cancelled, error, SourceSide,
                 token_cancelled, pipeVars>>

(* The next piece of the file is read, or the reads, their retries and the *)
(* user's answer to the retry prompt end in an error.                      *)
ReadPiece ==
  /\ SourceRuns("read")
  /\ \/ source' = "wait" /\ item' = NextItem(item) /\ UNCHANGED outcome
     \/ SourceGoes("fail")
     \/ cancelled /\ SourceEnds("dispose", "cancelled")
  /\ UNCHANGED <<slots, countVars, semVars, flagVars, SourceSide,
                 token_cancelled, pipeVars>>

(* lfr_bridge_stream_tape_file reports the error of the file.              *)
FileFails ==
  /\ SourceRuns("fail")
  /\ SetError("source")
  /\ SourceEnds("dispose", "failed")
  /\ UNCHANGED <<slots, countVars, semVars, cancelled, producer_done,
                 SourceSide, token_cancelled, pipeVars>>

(* bridge_wait_semaphore on empty, without a deadline: cancellation first, *)
(* then the error, then a slice of waiting.                                *)
PublishWaits ==
  /\ SourceRuns("wait")
  /\ IF cancelled THEN SourceEnds("dispose", "cancelled")
     ELSE IF error # "none" THEN SourceGoes("fail")
     ELSE SourceGoes("take")
  /\ UNCHANGED <<slots, countVars, semVars, flagVars, SourceSide,
                 token_cancelled, pipeVars>>

TakeEmpty ==
  /\ SourceRuns("take")
  /\ IF empty > 0 THEN empty' = empty - 1 /\ SourceGoes("recheck")
     ELSE SourceGoes("wait") /\ UNCHANGED empty
  /\ UNCHANGED <<slots, countVars, full, flagVars, SourceSide,
                 token_cancelled, pipeVars>>

(* A cancellation that arrived while waiting gives the slot back.          *)
GiveBack_Forgets == empty
GiveBack == empty + 1

Recheck ==
  /\ SourceRuns("recheck")
  /\ IF cancelled
     THEN SourceEnds("dispose", "cancelled") /\ empty' = GiveBack
     ELSE SourceGoes("write") /\ UNCHANGED empty
  /\ UNCHANGED <<slots, countVars, full, flagVars, SourceSide,
                 token_cancelled, pipeVars>>

WriteSlot ==
  /\ SourceRuns("write")
  /\ slots' = [slots EXCEPT ![write_index % SlotCount] = item]
  /\ write_index' = write_index + 1
  /\ SourceGoes("bytes")
  /\ UNCHANGED <<read_index, buffered_bytes, occupied_slots, semVars, flagVars,
                 SourceSide, token_cancelled, pipeVars>>

CountBytes ==
  /\ SourceRuns("bytes")
  /\ buffered_bytes' = buffered_bytes + item.length
  /\ SourceGoes("count")
  /\ UNCHANGED <<slots, write_index, read_index, occupied_slots, semVars,
                 flagVars, SourceSide, token_cancelled, pipeVars>>

CountSlot ==
  /\ SourceRuns("count")
  /\ occupied_slots' = occupied_slots + 1
  /\ SourceGoes("post")
  /\ UNCHANGED <<slots, write_index, read_index, buffered_bytes, semVars,
                 flagVars, SourceSide, token_cancelled, pipeVars>>

PostFull ==
  /\ SourceRuns("post")
  /\ full' = full + 1
  /\ SourceGoes(IF item.eof THEN "next" ELSE "read")
  /\ UNCHANGED <<slots, countVars, empty, flagVars, SourceSide,
                 token_cancelled, pipeVars>>

(* The registration ends, the producer is destroyed, the tape is released. *)
DisposeProducer ==
  /\ SourceRuns("dispose")
  /\ SourceGoes("reply")
  /\ UNCHANGED <<slots, countVars, semVars, flagVars, SourceSide,
                 token_cancelled, pipeVars>>

(* Serve answers "complete" or "error", or nothing when it was cancelled,  *)
(* and closes its end of the pipe; what it wrote stays readable.           *)
ServeEnds ==
  /\ SourceRuns("reply")
  /\ to_target' = IF open_ends # Sides \/ outcome = "cancelled" THEN "none"
                  ELSE IF outcome = "ok" THEN "complete" ELSE "error"
  /\ open_ends' = open_ends \ {"source"}
  /\ SourceGoes("closed")
  /\ UNCHANGED <<slots, countVars, semVars, flagVars, SourceSide,
                 token_cancelled, to_source>>

-----------------------------------------------------------------------------
(* Cancellation of the source: by its user, by a "cancel" message, or      *)
(* because the pipe broke.  The token calls the producer's Cancel while it *)
(* is registered.                                                          *)

ListenerHears_MessageOnly ==
  /\ listener = "reading" /\ "source" \in alive
  /\ to_source = "cancel"
  /\ listener' = "exited"
  /\ token_cancelled' = TRUE
  /\ UNCHANGED <<slots, countVars, semVars, flagVars, sourceVars, targetVars,
                 peer_error, watcher, selected, pipeVars, alive,
                 user_cancelled>>

ListenerHears ==
  /\ listener = "reading" /\ "source" \in alive
  /\ to_source = "cancel" \/ open_ends # Sides
  /\ listener' = "exited"
  /\ token_cancelled' = TRUE
  /\ UNCHANGED <<slots, countVars, semVars, flagVars, sourceVars, targetVars,
                 peer_error, watcher, selected, pipeVars, alive,
                 user_cancelled>>

TokenCallback ==
  /\ "source" \in alive
  /\ token_cancelled /\ Registered
  /\ cancelled' = TRUE
  /\ UNCHANGED <<slots, countVars, semVars, producer_done, error, sourceVars,
                 targetVars, sessionVars>>

(* DirectTapeCopySourceOffer.Cancel also closes the pipe.                  *)
SourceUserCancels ==
  /\ "source" \in alive /\ "source" \in Cancellers \ user_cancelled
  /\ user_cancelled' = user_cancelled \union {"source"}
  /\ token_cancelled' = TRUE
  /\ open_ends' = open_ends \ {"source"}
  /\ UNCHANGED <<slots, countVars, semVars, flagVars, sourceVars, targetVars,
                 listener, peer_error, watcher, selected, to_target, to_source,
                 alive>>

-----------------------------------------------------------------------------
(* The target's writer thread.                                             *)

TargetSide == <<sourceVars, sessionVars>>

TargetGoes(s) ==
  target' = s /\ UNCHANGED <<taken, last, refill, seen, ending>>

(* ReadSlot and WaitForStreamFillFraction turn a result into an exception: *)
(* a cancellation with a peer error pending is that error.                 *)
TargetEnds(how) ==
  /\ target' = "dispose"
  /\ ending' = how
  /\ UNCHANGED <<taken, last, refill, seen>>

CancelResult == IF peer_error THEN "failed" ELSE "cancelled"

StopWaiting ==
  IF cancelled THEN TargetEnds(CancelResult) ELSE TargetEnds("failed")

Stopped == cancelled \/ error # "none"

(* WriteFileFromFastReader asks for the rest of the file it writes, then   *)
(* for the next; after the last one it is done.                            *)
CallAcquire ==
  /\ TargetRuns("ready")
  /\ IF Stream!IsLast(selected, last) THEN TargetEnds("done")
     ELSE TargetGoes("check")
  /\ UNCHANGED <<slots, countVars, semVars, flagVars, TargetSide>>

CallRefill(t) ==
  /\ TargetRuns("ready")
  /\ target' = "refill" /\ refill' = t
  /\ UNCHANGED <<taken, last, seen, ending>>
  /\ UNCHANGED <<slots, countVars, semVars, flagVars, TargetSide>>

(* The write to the target's tape fails, or another step of the writer.    *)
WriterFails ==
  /\ TargetRuns("ready")
  /\ TargetEnds("failed")
  /\ UNCHANGED <<slots, countVars, semVars, flagVars, TargetSide>>

(* lfr_bridge_acquire_slot with 100 ms: flags, one slice of waiting, flags *)
(* again, then the timeout.                                                *)
AcquireChecks ==
  /\ TargetRuns("check") \/ TargetRuns("again")
  /\ IF Stopped THEN StopWaiting
     ELSE TargetGoes(IF target = "check" THEN "take" ELSE "done?")
  /\ UNCHANGED <<slots, countVars, semVars, flagVars, TargetSide>>

GotFull == full > 0

TakeFull_FreesSlot ==
  /\ TargetRuns("take")
  /\ IF GotFull
     THEN /\ full' = full - 1 /\ taken' = TRUE /\ target' = "slot"
          /\ empty' = empty + 1
          /\ UNCHANGED <<last, refill, seen, ending>>
     ELSE TargetGoes("again") /\ UNCHANGED <<empty, full>>
  /\ UNCHANGED <<slots, countVars, flagVars, TargetSide>>

TakeFull ==
  /\ TargetRuns("take")
  /\ IF GotFull
     THEN /\ full' = full - 1 /\ taken' = TRUE /\ target' = "slot"
          /\ UNCHANGED <<last, refill, seen, ending>>
     ELSE TargetGoes("again") /\ UNCHANGED full
  /\ UNCHANGED <<slots, countVars, empty, flagVars, TargetSide>>

(* A timeout with nothing left of a complete stream is LFR_DONE; the       *)
(* caller, who expects more, takes it for a failure.                       *)
TimeoutChecksDone ==
  /\ TargetRuns("done?")
  /\ TargetGoes(IF producer_done THEN "left?" ELSE "check")
  /\ UNCHANGED <<slots, countVars, semVars, flagVars, TargetSide>>

NothingLeft_Assumed == TRUE
NothingLeft == occupied_slots = 0

TimeoutChecksLeft ==
  /\ TargetRuns("left?")
  /\ IF NothingLeft THEN TargetEnds("starved") ELSE TargetGoes("check")
  /\ UNCHANGED <<slots, countVars, semVars, flagVars, TargetSide>>

(* The slot at read_index; a slot of a file the caller did not expect is   *)
(* an error of the bridge, and stays taken.                                *)
NextSlot == slots[read_index % SlotCount]

AcquireSlot(expected) ==
  /\ TargetRuns("slot")
  /\ IF NextSlot.file = expected
     THEN TargetGoes("hold") /\ UNCHANGED error
     ELSE TargetEnds("failed") /\ SetError("target")
  /\ UNCHANGED <<slots, countVars, semVars, cancelled, producer_done,
                 TargetSide>>

ReleasedBytes == NextSlot.length

ReleaseBegins ==
  /\ TargetRuns("hold")
  /\ buffered_bytes' = buffered_bytes - ReleasedBytes
  /\ TargetGoes("uncount")
  /\ UNCHANGED <<slots, write_index, read_index, occupied_slots, semVars,
                 flagVars, TargetSide>>

Uncount ==
  /\ TargetRuns("uncount")
  /\ occupied_slots' = occupied_slots - 1
  /\ TargetGoes("release")
  /\ UNCHANGED <<slots, write_index, read_index, buffered_bytes, semVars,
                 flagVars, TargetSide>>

ReleaseIndex ==
  /\ TargetRuns("release")
  /\ read_index' = read_index + 1
  /\ last' = NextSlot
  /\ taken' = FALSE
  /\ target' = "post"
  /\ UNCHANGED <<slots, write_index, buffered_bytes, occupied_slots, semVars,
                 flagVars, refill, seen, ending, TargetSide>>

PostEmpty ==
  /\ TargetRuns("post")
  /\ empty' = empty + 1
  /\ TargetGoes("ready")
  /\ UNCHANGED <<slots, countVars, full, flagVars, TargetSide>>

(* lfr_bridge_wait_until_buffered: the flags and occupied_slots, then the  *)
(* rest of the condition with the value loaded; LFR_OK and LFR_DONE are    *)
(* the same to the writer.                                                 *)
RefillLoads ==
  /\ TargetRuns("refill")
  /\ IF Stopped THEN StopWaiting
     ELSE /\ target' = "loaded" /\ seen' = occupied_slots
          /\ UNCHANGED <<taken, last, refill, ending>>
  /\ UNCHANGED <<slots, countVars, semVars, flagVars, TargetSide>>

FullRing_Ignored == FALSE
FullRing == seen >= SlotCount

Refilled == buffered_bytes >= refill \/ FullRing \/ producer_done

RefillDecides ==
  /\ TargetRuns("loaded")
  /\ TargetGoes(IF Refilled THEN "ready" ELSE "refill")
  /\ UNCHANGED <<slots, countVars, semVars, flagVars, TargetSide>>

-----------------------------------------------------------------------------
(* The end of the target: Dispose of the consumer cancels the bridge and   *)
(* destroys the context, then Dispose of the session says "cancel" and     *)
(* closes the pipe.                                                        *)

DisposeConsumer ==
  /\ TargetRuns("dispose")
  /\ cancelled' = TRUE
  /\ TargetGoes("hangup")
  /\ UNCHANGED <<slots, countVars, semVars, producer_done, error, TargetSide>>

DisposeSession ==
  /\ TargetRuns("hangup")
  /\ to_source' = IF open_ends = Sides THEN "cancel" ELSE to_source
  /\ open_ends' = open_ends \ {"target"}
  /\ TargetGoes("closed")
  /\ UNCHANGED <<slots, countVars, semVars, flagVars, sourceVars,
                 token_cancelled, listener, peer_error, watcher, selected,
                 to_target, alive, user_cancelled>>

(* The user cancels the write: IFastReaderConsumer.Cancel.                 *)
TargetUserCancels ==
  /\ "target" \in alive /\ "target" \in Cancellers
  /\ target \notin {"planning", "hangup", "closed"}
  /\ cancelled' = TRUE
  /\ user_cancelled' = user_cancelled \union {"target"}
  /\ UNCHANGED <<slots, countVars, semVars, producer_done, error, sourceVars,
                 targetVars, token_cancelled, listener, peer_error, watcher,
                 selected, pipeVars, alive>>

(* The target's task hears "error", or that the pipe broke before it was   *)
(* disposed; SetPeerError stores the text and then cancels.                *)
WatcherHears ==
  /\ watcher = "reading" /\ "target" \in alive
  /\ to_target # "none" \/ open_ends # Sides
  /\ LET failed == to_target = "error" \/ (to_target = "none" /\ target # "closed")
     IN  /\ watcher' = IF failed THEN "cancel" ELSE "exited"
         /\ peer_error' = (peer_error \/ failed)
  /\ UNCHANGED <<slots, countVars, semVars, flagVars, sourceVars, targetVars,
                 token_cancelled, listener, selected, pipeVars, alive,
                 user_cancelled>>

WatcherCancels_TextOnly ==
  /\ watcher = "cancel" /\ "target" \in alive
  /\ watcher' = "exited"
  /\ UNCHANGED <<slots, countVars, semVars, flagVars, sourceVars,
                 targetVars, token_cancelled, listener, peer_error, selected,
                 pipeVars, alive, user_cancelled>>

WatcherCancels ==
  /\ watcher = "cancel" /\ "target" \in alive
  /\ watcher' = "exited"
  /\ cancelled' = (cancelled \/ target \notin {"hangup", "closed"})
  /\ UNCHANGED <<slots, countVars, semVars, producer_done, error, sourceVars,
                 targetVars, token_cancelled, listener, peer_error, selected,
                 pipeVars, alive, user_cancelled>>

-----------------------------------------------------------------------------
(* A process dies between any two steps; the system closes its pipe end.   *)
Dies(side) ==
  /\ alive = Sides
  /\ alive' = alive \ {side}
  /\ open_ends' = open_ends \ {side}
  /\ UNCHANGED <<slots, countVars, semVars, flagVars, sourceVars, targetVars,
                 token_cancelled, listener, peer_error, watcher, selected,
                 to_target, to_source, user_cancelled>>

Source ==
  \/ ServeStart \/ NextFile \/ Complete \/ ReadPiece \/ FileFails
  \/ PublishWaits \/ TakeEmpty \/ Recheck
  \/ WriteSlot \/ CountBytes \/ CountSlot \/ PostFull
  \/ DisposeProducer \/ ServeEnds

Release ==
  \/ ReleaseBegins \/ Uncount \/ ReleaseIndex \/ PostEmpty

Target ==
  \/ AcquireChecks \/ TakeFull \/ TimeoutChecksDone \/ TimeoutChecksLeft
  \/ \E f \in Files : AcquireSlot(f)
  \/ Release
  \/ RefillLoads \/ RefillDecides
  \/ DisposeConsumer \/ DisposeSession

Next ==
  \/ \E f \in Files : ChooseMaterial(f)
  \/ Start
  \/ Source
  \/ ListenerHears \/ TokenCallback \/ SourceUserCancels
  \/ CallAcquire \/ WriterFails
  \/ \E t \in RefillTargets : CallRefill(t)
  \/ Target
  \/ TargetUserCancels
  \/ WatcherHears \/ WatcherCancels
  \/ \E side \in Mortal : Dies(side)

Spec == Init /\ [][Next]_vars

(* The threads of a living process run, a tape READ ends (it has a timeout *)
(* of 1800 s) and the retry prompt is answered.  Nobody has to cancel, to  *)
(* fail or to die.  The writer goes on acquiring, however often it refills *)
(* in between.                                                             *)
Fairness ==
  /\ WF_vars(Source) /\ WF_vars(ListenerHears) /\ WF_vars(TokenCallback)
  /\ WF_vars(Target) /\ SF_vars(CallAcquire)
  /\ WF_vars(WatcherHears) /\ WF_vars(WatcherCancels)

FairSpec == Spec /\ Fairness

-----------------------------------------------------------------------------
(* Properties.                                                             *)

TypeOK ==
  /\ slots \in [Index -> Stream!Item]
  /\ write_index \in Nat /\ read_index \in Nat
  /\ buffered_bytes \in Int /\ occupied_slots \in Int
  /\ empty \in Nat /\ full \in Nat
  /\ cancelled \in BOOLEAN /\ producer_done \in BOOLEAN
  /\ error \in {"none", "source", "target"}
  /\ source \in SourceStates /\ item \in Stream!Item
  /\ outcome \in {"ok", "failed", "cancelled"}
  /\ token_cancelled \in BOOLEAN
  /\ listener \in {"idle", "reading", "exited"}
  /\ target \in TargetStates /\ taken \in BOOLEAN /\ last \in Stream!Item
  /\ refill \in Nat /\ seen \in Int
  /\ ending \in Stream!Endings \union {"open", "starved"}
  /\ peer_error \in BOOLEAN
  /\ watcher \in {"idle", "reading", "cancel", "exited"}
  /\ selected \subseteq Files
  /\ to_target \in {"none", "complete", "error"}
  /\ to_source \in {"none", "cancel"}
  /\ open_ends \subseteq Sides /\ alive \subseteq Sides
  /\ user_cancelled \subseteq Sides

(* How far a publication or a release in progress has come.                *)
Flag(b) == IF b THEN 1 ELSE 0

(* Every slot of the ring is in exactly one place: counted by a semaphore, *)
(* or in the hands of the source or the target.  A slot given back twice   *)
(* would let the source overwrite what the target has not read (and        *)
(* ReleaseSemaphore fail at its maximum); one given back never would shrink*)
(* the ring until both sides wait for ever.                                *)
SlotsConserved ==
  /\ full = write_index - read_index
              - Flag(source \in {"bytes", "count", "post"}) - Flag(taken)
  /\ empty = SlotCount - (write_index - read_index)
              - Flag(source \in {"recheck", "write"})
              - Flag(target = "post")

(* The target writes a slot to tape through a pointer into the shared      *)
(* memory: until it gives the slot back, the source does not write there.  *)
BorrowedSlotStable ==
  [][taken => slots'[read_index % SlotCount] = NextSlot]_vars

(* A copy that ends early ends for a cause.  LFR_DONE means that there is  *)
(* nothing left: a target that expects more is never told so, however the  *)
(* publication of the last slots and the end of the source fall between    *)
(* its loads; and the target takes its stream for cancelled only if a user *)
(* has cancelled one of the two sides, never because the peer failed or    *)
(* died.                                                                   *)
EndsForCause ==
  /\ ending # "starved"
  /\ ending = "cancelled" => user_cancelled # {}

(* What the target receives is the stream FileStream specifies.            *)
ImplementsStream == Stream!Spec

(* Whatever becomes of the source, the target's writer comes to an end and *)
(* releases its tape: a source that failed, hung up or died does not leave *)
(* it waiting for slots.                                                   *)
TargetStops == target = "ready" ~> target = "closed" \/ "target" \notin alive

(* Once the target has hung up or died, the source stops reading and       *)
(* releases its tape, wherever it waits.                                   *)
SourceReleases ==
  "target" \notin open_ends ~> source = "closed" \/ "source" \notin alive
=============================================================================
