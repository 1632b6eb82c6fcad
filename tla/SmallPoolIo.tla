----------------------------- MODULE SmallPoolIo -----------------------------
(***************************************************************************)
(* The I/O of SmallFilePool: how an open worker turns one file into a call *)
(* the kernel owns, how the completion thread takes its outcome, and how   *)
(* the watchdog in that thread and shutdown get rid of calls that do not   *)
(* return.  Scheduling is SmallPool's: a file here is one attempt.         *)
(*                                                                         *)
(* Three kinds of memory are told apart: the entry of a file (under the    *)
(* state mutex), the operation it has become (under the operations mutex,  *)
(* which a worker holds while it submits), and what the kernel still owns. *)
(***************************************************************************)
EXTENDS SmallFileState, Integers, FiniteSets

CONSTANTS
  Reads,
  OpenConcurrency,  (* open workers                                          *)
  CompletionBatch,  (* completions taken from the port at a time             *)
  WedgeAt,          (* the calls that may not return by themselves ...       *)
  Wedges            (* ... but when cancelled, "wedged", or never, "dead"    *)

ASSUME PoolIoAssumption ==
  /\ 0 \notin Reads
  /\ OpenConcurrency \in Nat \ {0} /\ CompletionBatch \in Nat \ {0}
  /\ WedgeAt \subseteq {"CreateFileW", "CreateIoCompletionPort", "ReadFile"}
  /\ Wedges \subseteq {"wedged", "dead"}

VARIABLES
  entry,        (* SmallFileEntry.status of each file                        *)
  stage, job,   (* each open worker: what it does, for which file            *)
  call,         (* the synchronous call the worker is in                     *)
  activity,     (* worker_activities                                         *)
  operation,    (* operations                                                *)
  operations_lock,
  memory,       (* OVERLAPPED and buffer of each operation                   *)
  kernel,       (* what the kernel does with it                              *)
  completion,   (* where the completion thread is                            *)
  batch,        (* completions it took from the port                         *)
  seen_shutdown,  (* the shutdown flag its watchdog read                     *)
  owner         (* the thread that owns the pool and shuts it down           *)

stateVars == <<entry, shutdown, fatal_error>>
workerVars == <<stage, job, call, activity>>
operationVars == <<operation, memory, kernel>>
completionVars == <<completion, batch, seen_shutdown>>
ioVars == <<stateVars, workerVars, operationVars, operations_lock,
          completionVars, owner>>

Openers == 1..OpenConcurrency
Free == 0           (* operations_lock: no worker holds it; job: no file *)
Calls == {"CreateFileW", "CreateIoCompletionPort", "ReadFile"}

(* cancel_requested_at, timed_out, and whether read_stall_timeout (before  *)
(* a cancellation) or cancel_grace (after it) has elapsed.                 *)
Watches == [asked : BOOLEAN, timed_out : BOOLEAN, elapsed : BOOLEAN]
None == [asked |-> FALSE, timed_out |-> TRUE, elapsed |-> FALSE]
Started == [asked |-> FALSE, timed_out |-> FALSE, elapsed |-> FALSE]

IoInit ==
  /\ entry = [f \in Reads |-> "pending"]
  /\ shutdown = FALSE /\ fatal_error = FALSE
  /\ stage = [w \in Openers |-> "scan"] /\ job = [w \in Openers |-> Free]
  /\ call = [w \in Openers |-> "none"]
  /\ activity = [w \in Openers |-> None]
  /\ operation = [f \in Reads |-> None] /\ operations_lock = Free
  /\ memory = [f \in Reads |-> "none"] /\ kernel = [f \in Reads |-> "none"]
  /\ completion = "poll" /\ batch = {} /\ seen_shutdown = FALSE
  /\ owner = "uses"

Go(w, s) == stage' = [stage EXCEPT ![w] = s]
Watched(w, a) == activity' = [activity EXCEPT ![w] = a]

-----------------------------------------------------------------------------
(* The open workers.                                                       *)

OpenWorkerExits(w) ==
  /\ stage[w] = "scan" /\ shutdown
  /\ Go(w, "exited")
  /\ UNCHANGED <<stateVars, job, call, activity, operationVars,
                 operations_lock, completionVars, owner>>

Takes(w, f) ==
  /\ stage[w] = "scan" /\ ~shutdown /\ ~fatal_error
  /\ entry[f] = "pending"
  /\ entry' = [entry EXCEPT ![f] = "opening"]
  /\ job' = [job EXCEPT ![w] = f]
  /\ Go(w, "CreateFileW")
  /\ UNCHANGED <<shutdown, fatal_error, call, activity, operationVars,
                 operations_lock, completionVars, owner>>

(* The activity is there before the call is: a cancellation may miss it.   *)
Announces(w) ==
  /\ stage[w] \in Calls /\ activity[w] = None
  /\ Watched(w, Started)
  /\ UNCHANGED <<stateVars, stage, job, call, operationVars, operations_lock,
                 completionVars, owner>>

Enters(w) ==
  /\ stage[w] \in Calls /\ call[w] = "none" /\ activity[w] # None
  /\ \E c \in {"runs"} \union (IF stage[w] \in WedgeAt THEN Wedges ELSE {}) :
       call' = [call EXCEPT ![w] = c]
  /\ kernel' = IF stage[w] = "ReadFile"
               THEN [kernel EXCEPT ![job[w]] = "owned"] ELSE kernel
  /\ UNCHANGED <<stateVars, stage, job, activity, operation, memory,
                 operations_lock, completionVars, owner>>

Returned(w) ==
  /\ call' = [call EXCEPT ![w] = "none"]
  /\ Watched(w, None)

ReadFailure(f) ==
  entry' = [entry EXCEPT ![f] = IF @ = "absent" THEN @ ELSE "failed"]

Opens(w) ==
  /\ stage[w] = "CreateFileW" /\ call[w] \in {"runs", "cancelled"}
  /\ Returned(w)
  /\ \/ call[w] = "runs" /\ Go(w, "opened") /\ UNCHANGED <<entry, job>>
     \/ Go(w, "scan") /\ ReadFailure(job[w]) /\ job' = [job EXCEPT ![w] = Free]
  /\ UNCHANGED <<shutdown, fatal_error, operationVars, operations_lock,
                 completionVars, owner>>

(* A file of length zero is ready without a read.                          *)
Opened(w) ==
  /\ stage[w] = "opened"
  /\ \/ /\ shutdown
        /\ ReadFailure(job[w])
        /\ Go(w, "scan") /\ job' = [job EXCEPT ![w] = Free]
     \/ /\ ~shutdown
        /\ entry' = [entry EXCEPT ![job[w]] = "ready"]
        /\ Go(w, "scan") /\ job' = [job EXCEPT ![w] = Free]
     \/ /\ ~shutdown
        /\ Go(w, "CreateIoCompletionPort")
        /\ UNCHANGED <<entry, job>>
  /\ UNCHANGED <<shutdown, fatal_error, call, activity, operationVars,
                 operations_lock, completionVars, owner>>

(* The operation is allocated, and the entry is in flight before it is.    *)
Associates(w) ==
  /\ stage[w] = "CreateIoCompletionPort" /\ call[w] \in {"runs", "cancelled"}
  /\ Returned(w)
  /\ \/ /\ call[w] = "runs" /\ Go(w, "lock")
        /\ entry' = [entry EXCEPT ![job[w]] = "inflight"]
        /\ memory' = [memory EXCEPT ![job[w]] = "boxed"]
        /\ UNCHANGED job
     \/ /\ Go(w, "scan") /\ ReadFailure(job[w])
        /\ job' = [job EXCEPT ![w] = Free] /\ UNCHANGED memory
  /\ UNCHANGED <<shutdown, fatal_error, operation, kernel, operations_lock,
                 completionVars, owner>>

LocksOperations_NotHeld(w) ==
  /\ stage[w] = "lock" /\ operations_lock = Free
  /\ operation' = [operation EXCEPT ![job[w]] = Started]
  /\ Go(w, "ReadFile")
  /\ UNCHANGED <<stateVars, job, call, activity, memory, kernel,
                 operations_lock, completionVars, owner>>

LocksOperations(w) ==
  /\ stage[w] = "lock" /\ operations_lock = Free
  /\ operations_lock' = w
  /\ operation' = [operation EXCEPT ![job[w]] = Started]
  /\ Go(w, "ReadFile")
  /\ UNCHANGED <<stateVars, job, call, activity, memory, kernel,
                 completionVars, owner>>

(* ReadFile reported an error: nothing will be queued to the port.         *)
ReadFails(f) ==
  /\ operation' = [operation EXCEPT ![f] = None]
  /\ memory' = [memory EXCEPT ![f] = "freed"]
  /\ kernel' = [kernel EXCEPT ![f] = "none"]
  /\ ReadFailure(f)

SubmitsRead(w) ==
  /\ stage[w] = "ReadFile" /\ call[w] \in {"runs", "cancelled"}
  /\ Returned(w)
  /\ operations_lock' = Free
  /\ Go(w, "scan") /\ job' = [job EXCEPT ![w] = Free]
  /\ \/ /\ call[w] = "runs" \/ kernel[job[w]] # "owned"
        /\ UNCHANGED <<entry, operation, memory, kernel>>
     \/ kernel[job[w]] = "owned" /\ ReadFails(job[w])
  /\ UNCHANGED <<shutdown, fatal_error, completionVars, owner>>

OpenWorker(w) ==
  \/ OpenWorkerExits(w) \/ \E f \in Reads : Takes(w, f)
  \/ Announces(w) \/ Enters(w) \/ Opens(w) \/ Opened(w) \/ Associates(w)
  \/ LocksOperations(w) \/ SubmitsRead(w)

-----------------------------------------------------------------------------
(* The kernel and the clock.                                               *)

(* A read whose submission does not return has not been queued yet.        *)
KernelCompletes(f) ==
  /\ kernel[f] = "owned"
  /\ \A w \in Openers : job[w] = f => call[w] \notin {"wedged", "dead"}
  /\ kernel' = [kernel EXCEPT ![f] = "packet"]
  /\ UNCHANGED <<stateVars, workerVars, operation, memory, operations_lock,
                 completionVars, owner>>

CallElapses(w) ==
  /\ activity[w] # None /\ ~activity[w].elapsed
  /\ Watched(w, [activity[w] EXCEPT !.elapsed = TRUE])
  /\ UNCHANGED <<stateVars, stage, job, call, operationVars, operations_lock,
                 completionVars, owner>>

OperationElapses(f) ==
  /\ operation[f] # None /\ ~operation[f].elapsed
  /\ operation' = [operation EXCEPT ![f].elapsed = TRUE]
  /\ UNCHANGED <<stateVars, workerVars, memory, kernel, operations_lock,
                 completionVars, owner>>

-----------------------------------------------------------------------------
(* The completion thread.                                                  *)

Packets == {f \in Reads : kernel[f] = "packet"}

Dequeues ==
  /\ completion = "poll" /\ Packets # {}
  /\ \E B \in SUBSET Packets :
       /\ B # {} /\ Cardinality(B) <= CompletionBatch
       /\ batch' = B
       /\ kernel' = [f \in Reads |-> IF f \in B THEN "none" ELSE kernel[f]]
  /\ completion' = "batch"
  /\ UNCHANGED <<stateVars, workerVars, operation, memory, operations_lock,
                 seen_shutdown, owner>>

(* The wait timed out, or shutdown woke it.                                *)
PollsNothing ==
  /\ completion = "poll" /\ Packets = {}
  /\ completion' = "watch"
  /\ UNCHANGED <<stateVars, workerVars, operationVars, operations_lock, batch,
                 seen_shutdown, owner>>

PortFails ==
  /\ completion = "poll"
  /\ fatal_error' = TRUE
  /\ completion' = IF fatal_error THEN "watch" ELSE "cancel all"
  /\ UNCHANGED <<entry, shutdown, workerVars, operationVars, operations_lock,
                 batch, seen_shutdown, owner>>

Asked(o) == [asked |-> TRUE, timed_out |-> o.elapsed, elapsed |-> FALSE]
AskedOnce(o) ==
  IF o = None \/ o.asked THEN o ELSE [o EXCEPT !.asked = TRUE, !.elapsed = FALSE]

CancelsAll ==
  /\ completion = "cancel all" /\ operations_lock = Free
  /\ operation' = [f \in Reads |-> AskedOnce(operation[f])]
  /\ completion' = "watch"
  /\ UNCHANGED <<stateVars, workerVars, memory, kernel, operations_lock,
                 batch, seen_shutdown, owner>>

(* A whole, short, failed or cancelled read; an operation that was leaked  *)
(* is no longer in the map.                                                *)
ReadCompletes(f) ==
  /\ completion = "batch" /\ f \in batch /\ operations_lock = Free
  /\ batch' = batch \ {f}
  /\ IF operation[f] = None THEN UNCHANGED <<entry, operation, memory>>
     ELSE /\ operation' = [operation EXCEPT ![f] = None]
          /\ memory' = [memory EXCEPT ![f] = "freed"]
          /\ \E s \in {"ready", "failed"} :
               entry' = [entry EXCEPT ![f] =
                           IF shutdown \/ @ = "absent" THEN "absent" ELSE s]
  /\ UNCHANGED <<shutdown, fatal_error, workerVars, kernel, operations_lock,
                 completion, seen_shutdown, owner>>

BatchEnds ==
  /\ completion = "batch" /\ batch = {}
  /\ completion' = "watch"
  /\ UNCHANGED <<stateVars, workerVars, operationVars, operations_lock, batch,
                 seen_shutdown, owner>>

-----------------------------------------------------------------------------
(* The watchdog of the calls.                                              *)

WatchStarts ==
  /\ completion = "watch"
  /\ seen_shutdown' = shutdown /\ completion' = "calls"
  /\ UNCHANGED <<stateVars, workerVars, operationVars, operations_lock, batch,
                 owner>>

LostCalls ==
  {w \in Openers : /\ activity[w].asked /\ activity[w].elapsed
                   /\ activity[w].timed_out /\ ~seen_shutdown}

DueCalls_ShutdownOnly ==
  {w \in Openers : activity[w] # None /\ ~activity[w].asked /\ seen_shutdown}

DueCalls ==
  {w \in Openers : /\ activity[w] # None /\ ~activity[w].asked
                   /\ seen_shutdown \/ activity[w].elapsed}

(* Workers are looked at in order, up to the first lost one.               *)
WatchesCalls ==
  LET now == {w \in DueCalls : \A l \in LostCalls : w < l}
  IN  /\ completion = "calls"
      /\ activity' = [w \in Openers |-> IF w \in now THEN Asked(activity[w])
                                        ELSE activity[w]]
      /\ call' = [w \in Openers |->
                    IF w \in now /\ call[w] = "wedged" THEN "cancelled"
                    ELSE call[w]]
      /\ fatal_error' = (fatal_error \/ LostCalls # {})
      /\ completion' = IF LostCalls # {} THEN "check" ELSE "operations"
      /\ seen_shutdown' = (seen_shutdown /\ LostCalls = {})
      /\ UNCHANGED <<entry, shutdown, stage, job, operationVars,
                     operations_lock, batch, owner>>

LostOperations_TimedOut ==
  {f \in Reads : /\ operation[f].asked /\ operation[f].elapsed
                 /\ operation[f].timed_out /\ ~seen_shutdown}

LostOperations ==
  {f \in Reads : operation[f].asked /\ operation[f].elapsed}

Leak ==
  /\ memory' = [f \in Reads |-> IF operation[f] # None THEN "leaked" ELSE memory[f]]
  /\ operation' = [f \in Reads |-> None]

WatchesOperations ==
  /\ completion = "operations"
  /\ IF operations_lock # Free                     (* try_lock *)
     THEN completion' = "check" /\ UNCHANGED <<fatal_error, operation, memory>>
     ELSE \/ \E f \in LostOperations :
               /\ fatal_error' = (fatal_error \/ (operation[f].timed_out /\ ~seen_shutdown))
               /\ Leak /\ completion' = "exited"
          \/ /\ LostOperations = {}
             /\ operation' = [f \in Reads |->
                  IF /\ operation[f] # None /\ ~operation[f].asked
                     /\ seen_shutdown \/ operation[f].elapsed
                  THEN Asked(operation[f]) ELSE operation[f]]
             /\ completion' = "check"
             /\ UNCHANGED <<fatal_error, memory>>
  /\ seen_shutdown' = FALSE
  /\ UNCHANGED <<entry, shutdown, workerVars, kernel, operations_lock, batch,
                 owner>>

(* small_completion_can_exit takes three locks, one after the other.       *)
ChecksShutdown ==
  /\ completion = "check"
  /\ completion' = IF shutdown THEN "check activities" ELSE "poll"
  /\ UNCHANGED <<stateVars, workerVars, operationVars, operations_lock, batch,
                 seen_shutdown, owner>>

ChecksActivities ==
  /\ completion = "check activities"
  /\ completion' = IF \A w \in Openers : activity[w] = None
                   THEN "check operations" ELSE "poll"
  /\ UNCHANGED <<stateVars, workerVars, operationVars, operations_lock, batch,
                 seen_shutdown, owner>>

ChecksOperations ==
  /\ completion = "check operations" /\ operations_lock = Free
  /\ completion' = IF \A f \in Reads : operation[f] = None THEN "exited" ELSE "poll"
  /\ UNCHANGED <<stateVars, workerVars, operationVars, operations_lock, batch,
                 seen_shutdown, owner>>

Completion ==
  \/ Dequeues \/ PollsNothing \/ CancelsAll
  \/ \E f \in Reads : ReadCompletes(f)
  \/ BatchEnds
  \/ WatchStarts \/ WatchesCalls \/ WatchesOperations
  \/ ChecksShutdown \/ ChecksActivities \/ ChecksOperations

-----------------------------------------------------------------------------
(* SmallFilePool::shutdown.                                                *)

OwnerSide == <<workerVars, kernel, operations_lock, completionVars>>

OwnerBegins ==
  /\ owner = "uses" /\ owner' = "join workers"
  /\ shutdown' = TRUE
  /\ UNCHANGED <<entry, fatal_error, operation, memory, OwnerSide>>

WorkersJoined ==
  /\ owner = "join workers" /\ \A w \in Openers : stage[w] = "exited"
  /\ operations_lock = Free
  /\ operation' = [f \in Reads |-> AskedOnce(operation[f])]
  /\ owner' = "join completion"
  /\ UNCHANGED <<stateVars, memory, OwnerSide>>

CompletionJoined ==
  /\ owner = "join completion" /\ completion = "exited"
  /\ Leak
  /\ owner' = "gone"
  /\ UNCHANGED <<stateVars, OwnerSide>>

Owner == OwnerBegins \/ WorkersJoined \/ CompletionJoined

-----------------------------------------------------------------------------
IoNext ==
  \/ \E w \in Openers : OpenWorker(w) \/ CallElapses(w)
  \/ \E f \in Reads : KernelCompletes(f) \/ OperationElapses(f)
  \/ Completion \/ PortFails
  \/ Owner

IoSpec == IoInit /\ [][IoNext]_ioVars

(* Threads run and time passes; the kernel need not complete anything.     *)
FairIoSpec ==
  /\ IoSpec
  /\ \A w \in Openers : WF_ioVars(OpenWorker(w)) /\ WF_ioVars(CallElapses(w))
  /\ \A f \in Reads : WF_ioVars(OperationElapses(f))
  /\ WF_ioVars(Completion) /\ WF_ioVars(WorkersJoined \/ CompletionJoined)

-----------------------------------------------------------------------------
(* Properties.                                                             *)

IoTypeOK ==
  /\ entry \in [Reads -> {"absent", "pending", "opening", "inflight",
                          "ready", "failed"}]
  /\ shutdown \in BOOLEAN /\ fatal_error \in BOOLEAN
  /\ stage \in [Openers -> Calls \union {"scan", "opened", "lock", "exited"}]
  /\ job \in [Openers -> Reads \union {Free}]
  /\ \A w \in Openers : job[w] = Free <=> stage[w] \in {"scan", "exited"}
  /\ call \in [Openers -> {"none", "runs", "wedged", "dead", "cancelled"}]
  /\ activity \in [Openers -> Watches] /\ operation \in [Reads -> Watches]
  /\ operations_lock \in {w \in Openers : stage[w] = "ReadFile"} \union {Free}
  /\ memory \in [Reads -> {"none", "boxed", "freed", "leaked"}]
  /\ kernel \in [Reads -> {"none", "owned", "packet"}]
  /\ completion \in {"poll", "batch", "cancel all", "watch", "calls",
                     "operations", "check", "check activities",
                     "check operations", "exited"}
  /\ batch \subseteq Reads /\ seen_shutdown \in BOOLEAN
  /\ owner \in {"uses", "join workers", "join completion", "gone"}

(* The OVERLAPPED and the buffer of a read are alive as long as the kernel *)
(* may write to them or a worker is still submitting them, whoever gave    *)
(* the operation up: a completion, the watchdog or shutdown.               *)
OperationAlive ==
  /\ \A f \in Reads : kernel[f] = "owned" => memory[f] \in {"boxed", "leaked"}
  /\ \A w \in Openers : stage[w] = "ReadFile" => memory[job[w]] # "freed"

(* Every read ends, or the pool fails: also if a call does not return, or  *)
(* not even when it is cancelled.  This is what the ordered consumer's     *)
(* untimed wait and the exemption of "wait for small file" from the        *)
(* reader's own watchdog rely on.                                          *)
EveryReadEnds ==
  \A f \in Reads :
    entry[f] \in {"opening", "inflight"} ~>
      entry[f] \notin {"opening", "inflight"} \/ fatal_error \/ shutdown

(* shutdown() returns although the kernel never completes what is pending, *)
(* unless an open worker is stuck in a call.                               *)
ShutdownReturns ==
  shutdown ~> owner = "gone" \/ \E w \in Openers : call[w] \in {"wedged", "dead"}
=============================================================================
