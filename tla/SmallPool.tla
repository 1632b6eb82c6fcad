------------------------------ MODULE SmallPool ------------------------------
(***************************************************************************)
(* The scheduler of SmallFilePool: files up to small_threshold are read    *)
(* ahead of their turn by open workers that draw from one queue per buffer *)
(* class, within a limit on open files and a byte budget; the ordered      *)
(* consumer demands the files in catalogue order (wait_take), retries      *)
(* their failures and releases each after it has been published.           *)
(*                                                                         *)
(* A step is one critical section of SmallShared.state.  The read of one   *)
(* file (open, associate, submit, complete) is abstracted to the places    *)
(* where it takes that mutex; SmallPoolIo models what is between them.     *)
(***************************************************************************)
EXTENDS SmallFileState, Integers, FiniteSets, Sequences

CONSTANTS
  Capacity,       (* of each buffer class, class 1 being that of empty files *)
  ClassOf,        (* buffer class of each file, in the order they are read   *)
  Budget,         (* inflight_byte_limit                                     *)
  DemandReserve,  (* capacity of the class of small_threshold                *)
  ActiveLimit,    (* active_limit                                            *)
  Workers,        (* the open workers                                        *)
  MaxRetries      (* max_consecutive_file_retries                            *)

ASSUME PoolAssumption ==
  /\ Capacity \in Seq(Nat) /\ Len(Capacity) >= 1
  /\ ClassOf \in Seq(1..Len(Capacity))
  /\ DemandReserve \in Nat
  /\ \A f \in 1..Len(ClassOf) : Capacity[ClassOf[f]] <= DemandReserve
  /\ Budget \in Nat /\ Budget >= DemandReserve
  /\ ActiveLimit \in Nat \ {0}
  /\ MaxRetries \in Nat

VARIABLES
  (* struct SmallFileState, with the flags of module SmallFileState *)
  status,         (* SmallFileEntry.status, "absent" without an entry        *)
  attempts, generation,
  retained,       (* retry_buffer.is_some()                                  *)
  queues, next_generation,
  active_files, reserved_bytes,
  (* threads *)
  worker,         (* each open worker: the file it opens, or what it does    *)
  asleep,         (* open workers waiting on the condition variable          *)
  consumer,       (* where the ordered consumer is                           *)
  demand,         (* the file it is at                                       *)
  tries,          (* the attempts it saw before its retry delay              *)
  cancel_event

entryVars == <<status, attempts, generation, retained>>
queueVars == <<queues, next_generation>>
countVars == <<active_files, reserved_bytes>>
consumerVars == <<consumer, demand, tries>>
vars == <<entryVars, queueVars, countVars, shutdown, fatal_error,
          worker, asleep, consumerVars, cancel_event>>

Files == 1..Len(ClassOf)
Classes == 1..Len(Capacity)
Cap(f) == Capacity[ClassOf[f]]

Statuses == {"absent", "pending", "opening", "inflight", "ready", "borrowed",
             "failed", "broken"}   (* broken: failed and not retryable *)
ConsumerStates ==
  {"prefetch", "demand", "wait", "backoff", "hold", "ended", "gone"}
NoFile == 0     (* worker: looks for a file *)
Exited == -1    (* worker: has returned     *)

Init ==
  /\ status = [f \in Files |-> "absent"]
  /\ attempts = [f \in Files |-> 0]
  /\ generation = [f \in Files |-> 0]
  /\ retained = [f \in Files |-> FALSE]
  /\ queues = [c \in Classes |-> <<>>] /\ next_generation = 0
  /\ active_files = 0 /\ reserved_bytes = 0
  /\ shutdown = FALSE /\ fatal_error = FALSE
  /\ worker = [w \in Workers |-> NoFile] /\ asleep = {}
  /\ consumer \in {"prefetch", "demand"}      (* no look-ahead on a hard disk *)
  /\ demand = 1 /\ tries = 0
  /\ cancel_event = FALSE

Wake == asleep' = {}

-----------------------------------------------------------------------------
(* The queues.                                                             *)

QueueItem(f, priority) ==
  [index |-> f, generation |-> next_generation, priority |-> priority]

(* An entry counts its latest item only: older ones are stale.             *)
EnqueueIndex(f, priority) ==
  LET item == QueueItem(f, priority)  q == queues[ClassOf[f]]
  IN  /\ generation' = [generation EXCEPT ![f] = next_generation]
      /\ next_generation' = next_generation + 1
      /\ queues' = [queues EXCEPT ![ClassOf[f]] =
                      IF priority THEN <<item>> \o q ELSE Append(q, item)]

Live(item) ==
  /\ status[item.index] = "pending"
  /\ generation[item.index] = item.generation

LiveAt(q) == {k \in 1..Len(q) : Live(q[k])}

(* A queue without the stale items at its front.                           *)
Cleaned(q) ==
  IF LiveAt(q) = {} THEN <<>>
  ELSE SubSeq(q, CHOOSE k \in LiveAt(q) : \A l \in LiveAt(q) : k <= l, Len(q))

Limit_NoReserve(priority) == Budget
Limit(priority) == IF priority THEN Budget ELSE Budget - DemandReserve

Fits_RetryReserves(item) ==
  reserved_bytes + Cap(item.index) <= Limit(item.priority)

Fits_Unchecked(item) == TRUE

Fits(item) ==
  \/ retained[item.index]
  \/ reserved_bytes + Cap(item.index) <= Limit(item.priority)

Before(i, j) ==
  IF i.priority # j.priority THEN i.priority
  ELSE IF i.priority THEN i.generation > j.generation
  ELSE i.generation < j.generation

Candidates ==
  {q[1] : q \in {q \in {Cleaned(queues[c]) : c \in Classes} :
                   q # <<>> /\ Fits(q[1])}}

Chosen(item) == \A other \in Candidates \ {item} : Before(item, other)

-----------------------------------------------------------------------------
(* The open workers and the completion thread.                             *)

PoolSide == <<shutdown, fatal_error, consumerVars, cancel_event>>

Scans(w) == worker[w] = NoFile /\ w \notin asleep

WorkerExits(w) ==
  /\ Scans(w) /\ shutdown
  /\ worker' = [worker EXCEPT ![w] = Exited]
  /\ UNCHANGED <<entryVars, queueVars, countVars, asleep, PoolSide>>

AllActive == active_files >= ActiveLimit

(* take_next_pending throws stale items away even when it finds nothing.   *)
WorkerWaits(w) ==
  /\ Scans(w) /\ ~shutdown
  /\ \/ (fatal_error \/ AllActive) /\ UNCHANGED queues
     \/ /\ ~fatal_error /\ ~AllActive
        /\ Candidates = {}
        /\ queues' = [c \in Classes |-> Cleaned(queues[c])]
  /\ asleep' = asleep \union {w}
  /\ UNCHANGED <<entryVars, next_generation, countVars, worker, PoolSide>>

WorkerTakes(w, item) ==
  LET f == item.index
  IN
    /\ Scans(w) /\ ~shutdown /\ ~fatal_error
    /\ ~AllActive
    /\ Chosen(item)
    /\ queues' = [c \in Classes |->
                    IF c = ClassOf[f] THEN Tail(Cleaned(queues[c]))
                    ELSE Cleaned(queues[c])]
    /\ status' = [status EXCEPT ![f] = "opening"]
    /\ attempts' = [attempts EXCEPT ![f] = @ + 1]
    /\ retained' = [retained EXCEPT ![f] = FALSE]
    /\ reserved_bytes' = IF retained[f] THEN reserved_bytes
                         ELSE reserved_bytes + Cap(f)
    /\ worker' = [worker EXCEPT ![w] = f]
    /\ active_files' = active_files + 1
    /\ UNCHANGED <<generation, next_generation, asleep, PoolSide>>

Saturating(a, b) == IF b <= a THEN a - b ELSE 0

SmallFailure_StaysActive(f) ==
  /\ \E s \in {"failed", "broken"} : status' = [status EXCEPT ![f] = s]
  /\ retained' = [retained EXCEPT ![f] = TRUE]
  /\ UNCHANGED <<queueVars, attempts, generation, countVars>>
  /\ Wake

(* The reservation stays with the entry across the retry delay.            *)
SmallFailure(f) ==
  /\ active_files' = Saturating(active_files, 1)
  /\ IF status[f] # "absent"
     THEN /\ \E s \in {"failed", "broken"} : status' = [status EXCEPT ![f] = s]
          /\ retained' = [retained EXCEPT ![f] = TRUE]
          /\ UNCHANGED reserved_bytes
     ELSE /\ reserved_bytes' = Saturating(reserved_bytes, Cap(f))
          /\ UNCHANGED <<status, retained>>
  /\ UNCHANGED <<queueVars, attempts, generation>>
  /\ Wake

(* The file could not be opened or associated, or the pool shuts down.     *)
OpenFails(w) ==
  /\ worker[w] \in Files
  /\ SmallFailure(worker[w])
  /\ worker' = [worker EXCEPT ![w] = NoFile]
  /\ UNCHANGED PoolSide

OpensEmpty(w) ==
  /\ worker[w] \in Files
  /\ Cap(worker[w]) = 0
  /\ active_files' = Saturating(active_files, 1)
  /\ status' = [status EXCEPT ![worker[w]] = "ready"]
  /\ worker' = [worker EXCEPT ![w] = NoFile]
  /\ Wake
  /\ UNCHANGED <<attempts, generation, retained, queueVars, reserved_bytes,
                 PoolSide>>

(* The worker found shutdown false earlier, so it may be true by now.      *)
Submits(w) ==
  /\ worker[w] \in Files
  /\ Cap(worker[w]) > 0
  /\ status' = [status EXCEPT ![worker[w]] = "inflight"]
  /\ worker' = [worker EXCEPT ![w] = NoFile]
  /\ UNCHANGED <<attempts, generation, retained, queueVars, countVars, asleep,
                 PoolSide>>

(* The read of f ended: whole, or short, failed, cancelled or timed out.   *)
Completes(f) ==
  /\ status[f] = "inflight"
  /\ IF shutdown
     THEN /\ active_files' = Saturating(active_files, 1)
          /\ reserved_bytes' = Saturating(reserved_bytes, Cap(f))
          /\ status' = [status EXCEPT ![f] = "absent"]
          /\ Wake
          /\ UNCHANGED <<queueVars, attempts, generation, retained>>
     ELSE \/ /\ active_files' = Saturating(active_files, 1)
             /\ status' = [status EXCEPT ![f] = "ready"]
             /\ Wake
             /\ UNCHANGED <<queueVars, attempts, generation, retained,
                            reserved_bytes>>
          \/ SmallFailure(f)
  /\ UNCHANGED <<worker, PoolSide>>

(* The completion port failed, or a call did not come back once cancelled. *)
PoolFails ==
  /\ ~fatal_error /\ consumer # "gone"
  /\ fatal_error' = TRUE
  /\ Wake
  /\ UNCHANGED <<entryVars, queueVars, countVars, shutdown, worker,
                 consumerVars, cancel_event>>

-----------------------------------------------------------------------------
(* The ordered consumer.                                                   *)

ConsumerGoes(s) == consumer' = s /\ UNCHANGED <<demand, tries>>

(* SmallFilePool::enqueue.                                                 *)
Enqueue(f, priority) ==
  IF shutdown \/ fatal_error \/ (status[f] # "absent" /\ ~priority)
     \/ status[f] \notin {"absent", "pending"}
  THEN UNCHANGED <<entryVars, queueVars, asleep>>
  ELSE /\ EnqueueIndex(f, priority)
       /\ status' = [status EXCEPT ![f] = "pending"]
       /\ attempts' = [attempts EXCEPT ![f] = IF status[f] = "absent" THEN 0 ELSE @]
       /\ UNCHANGED retained
       /\ Wake

ConsumerSide == <<countVars, shutdown, fatal_error, worker, cancel_event>>

PrefetchNext ==
  /\ consumer = "prefetch"
  /\ IF demand <= Len(ClassOf)
     THEN /\ Enqueue(demand, FALSE)
          /\ demand' = demand + 1 /\ UNCHANGED <<consumer, tries>>
     ELSE /\ demand' = 1 /\ consumer' = "demand" /\ UNCHANGED tries
          /\ UNCHANGED <<entryVars, queueVars, asleep>>
  /\ UNCHANGED ConsumerSide

Demand ==
  /\ consumer = "demand"
  /\ IF demand <= Len(ClassOf) /\ ~cancel_event
     THEN Enqueue(demand, TRUE) /\ ConsumerGoes("wait")
     ELSE UNCHANGED <<entryVars, queueVars, asleep>> /\ ConsumerGoes("ended")
  /\ UNCHANGED ConsumerSide

WaitEnds ==
  \/ cancel_event \/ fatal_error
  \/ status[demand] = "broken"
  \/ status[demand] = "failed" /\ attempts[demand] > MaxRetries

(* The wait itself is a timed one: the loop looks again every 100 ms.      *)
WaitTake ==
  /\ consumer = "wait"
  /\ \/ WaitEnds /\ ConsumerGoes("ended") /\ UNCHANGED status
     \/ /\ ~WaitEnds /\ status[demand] = "absent"
        /\ ConsumerGoes("demand") /\ UNCHANGED status
     \/ /\ ~WaitEnds /\ status[demand] = "ready"
        /\ status' = [status EXCEPT ![demand] = "borrowed"]
        /\ ConsumerGoes("hold")
     \/ /\ ~WaitEnds /\ status[demand] = "failed"
        /\ consumer' = "backoff" /\ tries' = attempts[demand]
        /\ UNCHANGED <<demand, status>>
  /\ UNCHANGED <<attempts, generation, retained, queueVars, asleep,
                 ConsumerSide>>

RetryOrEnd ==
  /\ consumer = "backoff"
  /\ \/ cancel_event /\ ConsumerGoes("ended")
        /\ UNCHANGED <<entryVars, queueVars, asleep>>
     \/ /\ ~cancel_event /\ ConsumerGoes("wait")
        /\ IF status[demand] = "failed" /\ attempts[demand] = tries
           THEN /\ status' = [status EXCEPT ![demand] = "pending"]
                /\ EnqueueIndex(demand, TRUE)
                /\ UNCHANGED <<attempts, retained>>
                /\ Wake
           ELSE UNCHANGED <<entryVars, queueVars, asleep>>
  /\ UNCHANGED ConsumerSide

(* The slots of the file are published, its buffer goes back.              *)
Release ==
  /\ consumer = "hold"
  /\ status' = [status EXCEPT ![demand] = "absent"]
  /\ reserved_bytes' = Saturating(reserved_bytes, Cap(demand))
  /\ consumer' = "demand" /\ demand' = demand + 1 /\ UNCHANGED tries
  /\ Wake
  /\ UNCHANGED <<attempts, generation, retained, queueVars, active_files,
                 shutdown, fatal_error, worker, cancel_event>>

(* Publishing or hashing the file failed: its cached bytes are dropped.    *)
PublishFails ==
  /\ consumer = "hold"
  /\ ConsumerGoes("ended")
  /\ UNCHANGED <<entryVars, queueVars, asleep, ConsumerSide>>

ShutdownBegins ==
  /\ consumer = "ended" /\ ~shutdown
  /\ shutdown' = TRUE
  /\ Wake
  /\ UNCHANGED <<entryVars, queueVars, countVars, fatal_error, worker,
                 consumerVars, cancel_event>>

ShutdownEnds ==
  /\ consumer = "ended" /\ shutdown
  /\ \A w \in Workers : worker[w] = Exited
  /\ \A f \in Files : status[f] # "inflight"
  /\ ConsumerGoes("gone")
  /\ UNCHANGED <<entryVars, queueVars, asleep, ConsumerSide>>

Cancel ==
  /\ ~cancel_event
  /\ cancel_event' = TRUE
  /\ UNCHANGED <<entryVars, queueVars, countVars, shutdown, fatal_error,
                 worker, asleep, consumerVars>>

-----------------------------------------------------------------------------
Worker(w) ==
  \/ WorkerExits(w) \/ WorkerWaits(w)
  \/ \E item \in Candidates : WorkerTakes(w, item)
  \/ OpenFails(w) \/ OpensEmpty(w) \/ Submits(w)

Consumer ==
  \/ PrefetchNext \/ Demand \/ WaitTake \/ RetryOrEnd
  \/ Release \/ PublishFails \/ ShutdownBegins \/ ShutdownEnds

Next ==
  \/ \E w \in Workers : Worker(w)
  \/ \E f \in Files : Completes(f)
  \/ Consumer
  \/ PoolFails \/ Cancel

Spec == Init /\ [][Next]_vars

(* Threads run, and the kernel or the watchdog ends every call.            *)
FairSpec ==
  /\ Spec
  /\ \A w \in Workers : WF_vars(Worker(w))
  /\ \A f \in Files : WF_vars(Completes(f))
  /\ WF_vars(Consumer)

-----------------------------------------------------------------------------
(* Properties.                                                             *)

Item == [index : Files, generation : Nat, priority : BOOLEAN]

TypeOK ==
  /\ status \in [Files -> Statuses]
  /\ attempts \in [Files -> Nat] /\ generation \in [Files -> Nat]
  /\ retained \in [Files -> BOOLEAN]
  /\ queues \in [Classes -> Seq(Item)] /\ next_generation \in Nat
  /\ active_files \in 0..ActiveLimit /\ reserved_bytes \in Nat
  /\ shutdown \in BOOLEAN /\ fatal_error \in BOOLEAN
  /\ worker \in [Workers -> Files \union {NoFile, Exited}]
  /\ asleep \subseteq Workers
  /\ consumer \in ConsumerStates /\ demand \in 1..Len(ClassOf) + 1
  /\ tries \in Nat /\ cancel_event \in BOOLEAN

(* The buffers of the pool never exceed its byte budget, although retries  *)
(* and demanded files are scheduled past the limit of the look-ahead.      *)
WithinBudget == reserved_bytes <= Budget

(* The file the consumer waits for can always be scheduled: its buffer is  *)
(* kept or fits, whatever was read ahead of it and however often it failed.*)
DemandNeverStranded ==
  consumer \in {"wait", "backoff"} /\ status[demand] = "pending"
    => retained[demand] \/ reserved_bytes + Cap(demand) <= Budget

(* A file is attempted at most once more than it may be retried.           *)
AttemptsBounded == \A f \in Files : attempts[f] <= MaxRetries + 1

(* wait_take returns: with the file, or with an error.                     *)
DemandServed == consumer \in {"wait", "backoff"} ~> consumer \in {"hold", "ended"}
=============================================================================
