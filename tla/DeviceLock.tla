----------------------------- MODULE DeviceLock -----------------------------
(***************************************************************************)
(* SCSIDeviceLockManager, for one device path: the monitor that serialises *)
(* the commands of a process, the two named mutexes that keep processes    *)
(* apart, and the writer lease, held by a thread of its own because a      *)
(* mutex belongs to a thread.                                              *)
(*                                                                         *)
(* A mutex whose owner died, or ended, is free: every wait of the code     *)
(* takes AbandonedMutexException for an acquisition.                       *)
(***************************************************************************)
EXTENDS FiniteSets

CONSTANTS
  Processes,
  Operations,   (* threads that execute SCSI commands                        *)
  Leases,       (* writer leases, each with its lease thread and its owner   *)
  Home,         (* the process of each operation and lease                   *)
  Mortal,       (* processes that may be killed                              *)
  Free          (* the owner of a lock nobody owns                           *)

ASSUME DeviceLockAssumption ==
  /\ Home \in [Operations \union Leases -> Processes]
  /\ Operations \intersect Leases = {}
  /\ Mortal \subseteq Processes
  /\ Free \notin Operations \union Leases

VARIABLES
  local_lock,         (* LocalLock of the device in each process             *)
  process_gate, writer_gate,
  active_writer,      (* ActiveWriter in each process                        *)
  op,                 (* where each operation is                             *)
  lease,              (* where each lease thread is                          *)
  owner,              (* where each thread that acquires a lease is          *)
  release_requested,  (* the event of each lease                             *)
  events_disposed,
  abandoned,          (* a living thread ended as the owner of a mutex       *)
  dead

gates == <<process_gate, writer_gate>>
events == <<release_requested, events_disposed>>
vars == <<local_lock, gates, active_writer, op, lease, owner, events,
          abandoned, dead>>

Actors == Operations \union Leases
Alive(a) == Home[a] \notin dead

Init ==
  /\ local_lock = [p \in Processes |-> Free]
  /\ process_gate = Free /\ writer_gate = Free
  /\ active_writer = [p \in Processes |-> Free]
  /\ op = [a \in Operations |-> "idle"]
  /\ lease = [l \in Leases |-> "none"] /\ owner = [l \in Leases |-> "none"]
  /\ release_requested = [l \in Leases |-> FALSE]
  /\ events_disposed = [l \in Leases |-> FALSE]
  /\ abandoned = FALSE /\ dead = {}

EntersLocal(a) ==
  /\ local_lock[Home[a]] = Free
  /\ local_lock' = [local_lock EXCEPT ![Home[a]] = a]

LeavesLocal(a) == local_lock' = [local_lock EXCEPT ![Home[a]] = Free]

-----------------------------------------------------------------------------
(* TryEnterOperation and OperationScope.                                   *)

OpGoes(a, s) == op' = [op EXCEPT ![a] = s]

OpUnchanged == UNCHANGED <<active_writer, lease, owner, events, abandoned, dead>>

(* EnterOperation waits for the monitor, TryEnterOperation does not.       *)
Call(a) ==
  /\ op[a] = "idle" /\ Alive(a)
  /\ OpGoes(a, "local")
  /\ UNCHANGED <<local_lock, gates>> /\ OpUnchanged

EnterLocal(a) ==
  /\ op[a] = "local"
  /\ EntersLocal(a) /\ OpGoes(a, "entered")
  /\ UNCHANGED gates /\ OpUnchanged

LocalBusy(a) ==
  /\ op[a] = "local" /\ local_lock[Home[a]] # Free
  /\ OpGoes(a, "idle")
  /\ UNCHANGED <<local_lock, gates>> /\ OpUnchanged

HasLocalWriter(a) == active_writer[Home[a]] # Free

ChecksWriter(a) ==
  /\ op[a] = "entered"
  /\ OpGoes(a, IF HasLocalWriter(a) THEN "command" ELSE "gate")
  /\ UNCHANGED <<local_lock, gates>> /\ OpUnchanged

(* The process gate is probed, not waited for.                             *)
EnterGate(a) ==
  /\ op[a] = "gate"
  /\ IF process_gate = Free
     THEN process_gate' = a /\ OpGoes(a, "probe")
     ELSE UNCHANGED process_gate /\ OpGoes(a, "leave")
  /\ UNCHANGED <<local_lock, writer_gate>> /\ OpUnchanged

(* IsWriterGateAvailable takes the writer gate in order to release it.     *)
ProbeWriter(a) ==
  /\ op[a] = "probe"
  /\ IF writer_gate = Free
     THEN writer_gate' = a /\ OpGoes(a, "probed")
     ELSE UNCHANGED writer_gate /\ OpGoes(a, "ungate")
  /\ UNCHANGED <<local_lock, process_gate>> /\ OpUnchanged

Probed(a) ==
  /\ op[a] = "probed"
  /\ writer_gate' = Free /\ OpGoes(a, "command")
  /\ UNCHANGED <<local_lock, process_gate>> /\ OpUnchanged

CommandEnds(a) ==
  /\ op[a] = "command"
  /\ OpGoes(a, IF process_gate = a THEN "ungate" ELSE "leave")
  /\ UNCHANGED <<local_lock, gates>> /\ OpUnchanged

Ungate(a) ==
  /\ op[a] = "ungate"
  /\ process_gate' = Free /\ OpGoes(a, "leave")
  /\ UNCHANGED <<local_lock, writer_gate>> /\ OpUnchanged

Leave(a) ==
  /\ op[a] = "leave"
  /\ LeavesLocal(a) /\ OpGoes(a, "idle")
  /\ UNCHANGED gates /\ OpUnchanged

OperationStep(a) ==
  \/ EnterLocal(a) \/ ChecksWriter(a) \/ EnterGate(a) \/ ProbeWriter(a)
  \/ Probed(a) \/ CommandEnds(a) \/ Ungate(a) \/ Leave(a)

-----------------------------------------------------------------------------
(* LeaseThreadMain.                                                        *)

LeaseGoes(l, s) == lease' = [lease EXCEPT ![l] = s]

LeaseUnchanged == UNCHANGED <<op, owner, release_requested, dead>>

LeaseStarts(l) ==
  /\ lease[l] = "start"
  /\ LeaseGoes(l, IF release_requested[l] THEN "ready" ELSE "gate")
  /\ UNCHANGED <<local_lock, gates, active_writer, events_disposed,
                 abandoned>> /\ LeaseUnchanged

(* Mutant: the reservation does not wait for a command to end.             *)
LeaseTakesGate_Skipped(l) ==
  /\ lease[l] = "gate"
  /\ LeaseGoes(l, "writer")
  /\ UNCHANGED <<local_lock, gates, active_writer, events_disposed, abandoned>>
  /\ LeaseUnchanged

(* WaitForMutex ends without the mutex when it is cancelled or times out.  *)
LeaseTakesGate(l) ==
  /\ lease[l] = "gate"
  /\ \/ process_gate = Free /\ process_gate' = l /\ LeaseGoes(l, "writer")
     \/ /\ process_gate # Free \/ release_requested[l]
        /\ UNCHANGED process_gate /\ LeaseGoes(l, "ready")
  /\ UNCHANGED <<local_lock, writer_gate, active_writer, events_disposed, abandoned>> /\ LeaseUnchanged

(* Mutant: the writer gate is waited for without a timeout.                *)
LeaseTakesWriter_Waits(l) ==
  /\ lease[l] = "writer"
  /\ writer_gate = Free /\ writer_gate' = l /\ LeaseGoes(l, "publish")
  /\ UNCHANGED <<local_lock, process_gate, active_writer, events_disposed,
                 abandoned>> /\ LeaseUnchanged

(* Mutant: ... and the process gate is not released in the Finally.        *)
LeaseTakesWriter_EarlyReturn(l) ==
  /\ lease[l] = "writer"
  /\ \/ writer_gate = Free /\ writer_gate' = l /\ LeaseGoes(l, "publish")
     \/ /\ writer_gate # Free \/ release_requested[l]
        /\ UNCHANGED writer_gate /\ LeaseGoes(l, "ready")
  /\ UNCHANGED <<local_lock, process_gate, active_writer, events_disposed,
                 abandoned>> /\ LeaseUnchanged

LeaseTakesWriter(l) ==
  /\ lease[l] = "writer"
  /\ \/ writer_gate = Free /\ writer_gate' = l /\ LeaseGoes(l, "publish")
     \/ /\ writer_gate # Free \/ release_requested[l]
        /\ UNCHANGED writer_gate /\ LeaseGoes(l, "ungate")
  /\ UNCHANGED <<local_lock, process_gate, active_writer, events_disposed, abandoned>> /\ LeaseUnchanged

Publishes(l) ==
  /\ lease[l] = "publish"
  /\ active_writer' = IF active_writer[Home[l]] = Free
                      THEN [active_writer EXCEPT ![Home[l]] = l]
                      ELSE active_writer
  /\ LeaseGoes(l, "ungate")
  /\ UNCHANGED <<local_lock, gates, events_disposed, abandoned>>
  /\ LeaseUnchanged

LeaseUngates(l) ==
  /\ lease[l] = "ungate"
  /\ process_gate' = Free /\ LeaseGoes(l, "ready")
  /\ UNCHANGED <<local_lock, writer_gate, active_writer, events_disposed, abandoned>> /\ LeaseUnchanged

IsAcquired(l) == active_writer[Home[l]] = l

(* _ready is set; every early Return of the code passes here on its way to *)
(* the end.                                                                *)
Readies(l) ==
  /\ lease[l] = "ready"
  /\ LeaseGoes(l, IF IsAcquired(l) THEN "held" ELSE "end")
  /\ UNCHANGED <<local_lock, gates, active_writer, events_disposed, abandoned>>
  /\ LeaseUnchanged

Asked(l) ==
  /\ lease[l] = "held" /\ release_requested[l]
  /\ LeaseGoes(l, "local")
  /\ UNCHANGED <<local_lock, gates, active_writer, events_disposed,
                 abandoned>> /\ LeaseUnchanged

(* The lease goes when no command of its process is being executed ...     *)
LeaseEntersLocal(l) ==
  /\ lease[l] = "local"
  /\ EntersLocal(l) /\ LeaseGoes(l, "regate")
  /\ UNCHANGED <<gates, active_writer, events_disposed, abandoned>>
  /\ LeaseUnchanged

(* ... and no other process is about to probe or to reserve the device.    *)
Regates(l) ==
  /\ lease[l] = "regate"
  /\ process_gate = Free /\ process_gate' = l
  /\ LeaseGoes(l, "clear")
  /\ UNCHANGED <<local_lock, writer_gate, active_writer, events_disposed, abandoned>> /\ LeaseUnchanged

Clears(l) ==
  /\ lease[l] = "clear"
  /\ active_writer' = [active_writer EXCEPT ![Home[l]] = IF @ = l THEN Free ELSE @]
  /\ LeaseGoes(l, "unwrite")
  /\ UNCHANGED <<local_lock, gates, events_disposed, abandoned>>
  /\ LeaseUnchanged

Unwrites(l) ==
  /\ lease[l] = "unwrite"
  /\ writer_gate' = Free /\ LeaseGoes(l, "regated")
  /\ UNCHANGED <<local_lock, process_gate, active_writer, events_disposed, abandoned>> /\ LeaseUnchanged

LeaseLeavesGate(l) ==
  /\ lease[l] = "regated"
  /\ process_gate' = Free /\ LeaseGoes(l, "leave")
  /\ UNCHANGED <<local_lock, writer_gate, active_writer, events_disposed, abandoned>> /\ LeaseUnchanged

LeaseLeavesLocal(l) ==
  /\ lease[l] = "leave"
  /\ LeavesLocal(l) /\ LeaseGoes(l, "end")
  /\ UNCHANGED <<gates, active_writer, events_disposed, abandoned>>
  /\ LeaseUnchanged

Disposed(l) == owner[l] \in {"signals", "joins", "threw", "done"}

(* The thread ends; what it still owned is abandoned.                      *)
LeaseEnds(l) ==
  /\ lease[l] = "end"
  /\ LeaseGoes(l, "ended")
  /\ events_disposed' = [events_disposed EXCEPT ![l] = @ \/ Disposed(l)]
  /\ abandoned' = (abandoned \/ writer_gate = l \/ process_gate = l)
  /\ writer_gate' = IF writer_gate = l THEN Free ELSE writer_gate
  /\ process_gate' = IF process_gate = l THEN Free ELSE process_gate
  /\ UNCHANGED <<local_lock, active_writer>> /\ LeaseUnchanged

LeaseStep(l) ==
  \/ LeaseStarts(l) \/ LeaseTakesGate(l) \/ LeaseTakesWriter(l)
  \/ Publishes(l) \/ LeaseUngates(l) \/ Readies(l) \/ Asked(l)
  \/ LeaseEntersLocal(l) \/ Regates(l) \/ Clears(l) \/ Unwrites(l)
  \/ LeaseLeavesGate(l) \/ LeaseLeavesLocal(l) \/ LeaseEnds(l)

-----------------------------------------------------------------------------
(* The thread that acquires a lease and disposes of it.                    *)

OwnerGoes(l, s) == owner' = [owner EXCEPT ![l] = s]

OwnerUnchanged == UNCHANGED <<local_lock, gates, active_writer, op, abandoned, dead>>

Acquire(l) ==
  /\ owner[l] = "none" /\ Alive(l)
  /\ active_writer[Home[l]] = Free
  /\ OwnerGoes(l, "waits") /\ LeaseGoes(l, "start")
  /\ UNCHANGED events /\ OwnerUnchanged

(* Start waits for _ready with a timeout of its own, so it may return at   *)
(* any point of the lease thread; a lease that is not acquired by then is  *)
(* disposed of.                                                            *)
Returns(l) ==
  /\ owner[l] = "waits"
  /\ OwnerGoes(l, IF IsAcquired(l) THEN "holds" ELSE "signals")
  /\ UNCHANGED <<lease, events>> /\ OwnerUnchanged

Dispose(l) ==
  /\ owner[l] = "holds"
  /\ OwnerGoes(l, "signals")
  /\ UNCHANGED <<lease, events>> /\ OwnerUnchanged

(* Dispose, after it has set _disposed: an event that the lease thread has *)
(* disposed of meanwhile cannot be set.                                    *)
Signals(l) ==
  /\ owner[l] = "signals"
  /\ release_requested' = [release_requested EXCEPT ![l] = TRUE]
  /\ OwnerGoes(l, IF events_disposed[l] THEN "threw" ELSE "joins")
  /\ UNCHANGED <<lease, events_disposed>> /\ OwnerUnchanged

Joins(l) ==
  /\ owner[l] = "joins"
  /\ events_disposed' =
       [events_disposed EXCEPT ![l] = @ \/ lease[l] = "ended"]
  /\ OwnerGoes(l, "done")
  /\ UNCHANGED <<lease, release_requested>> /\ OwnerUnchanged

(* The next lease of the same window is a new object.                      *)
Forget(l) ==
  /\ owner[l] \in {"done", "threw"} /\ lease[l] = "ended"
  /\ OwnerGoes(l, "none") /\ LeaseGoes(l, "none")
  /\ release_requested' = [release_requested EXCEPT ![l] = FALSE]
  /\ events_disposed' = [events_disposed EXCEPT ![l] = FALSE]
  /\ OwnerUnchanged

OwnerStep(l) == Returns(l) \/ Signals(l) \/ Joins(l)

(* The process dies; its mutexes are abandoned, its monitors gone.         *)
Kill(p) ==
  LET Of(a) == Home[a] = p IN
  /\ p \in Mortal \ dead
  /\ dead' = dead \union {p}
  /\ op' = [a \in Operations |-> IF Of(a) THEN "idle" ELSE op[a]]
  /\ lease' = [l \in Leases |-> IF Of(l) THEN "none" ELSE lease[l]]
  /\ owner' = [l \in Leases |-> IF Of(l) THEN "none" ELSE owner[l]]
  /\ local_lock' = [local_lock EXCEPT ![p] = Free]
  /\ active_writer' = [active_writer EXCEPT ![p] = Free]
  /\ process_gate' =
       IF \E a \in Actors : a = process_gate /\ Of(a) THEN Free ELSE process_gate
  /\ writer_gate' =
       IF \E a \in Actors : a = writer_gate /\ Of(a) THEN Free ELSE writer_gate
  /\ release_requested' =
       [l \in Leases |-> ~Of(l) /\ release_requested[l]]
  /\ events_disposed' = [l \in Leases |-> ~Of(l) /\ events_disposed[l]]
  /\ UNCHANGED abandoned

-----------------------------------------------------------------------------
Next ==
  \/ \E a \in Operations : Call(a) \/ LocalBusy(a) \/ OperationStep(a)
  \/ \E l \in Leases :
       LeaseStep(l) \/ Acquire(l) \/ Dispose(l) \/ OwnerStep(l) \/ Forget(l)
  \/ \E p \in Processes : Kill(p)

Spec == Init /\ [][Next]_vars

(* A command ends, and the operating system hands a monitor or a mutex to  *)
(* a thread that waits for it before others can take it for ever.          *)
FairSpec ==
  /\ Spec
  /\ \A a \in Operations : SF_vars(OperationStep(a))
  /\ \A l \in Leases : SF_vars(LeaseStep(l)) /\ WF_vars(OwnerStep(l))

-----------------------------------------------------------------------------
(* Properties.                                                             *)

OpStates == {"idle", "local", "entered", "gate", "probe", "probed", "command",
             "ungate", "leave"}
LeaseStates == {"none", "start", "gate", "writer", "publish", "ungate", "ready",
                "held", "local", "regate", "clear", "unwrite", "regated",
                "leave", "end", "ended"}
OwnerStates == {"none", "waits", "holds", "signals", "joins", "threw", "done"}

(* Types.                                                                  *)
TypeOK ==
  /\ local_lock \in [Processes -> Actors \union {Free}]
  /\ process_gate \in Actors \union {Free}
  /\ writer_gate \in Actors \union {Free}
  /\ active_writer \in [Processes -> Leases \union {Free}]
  /\ op \in [Operations -> OpStates]
  /\ lease \in [Leases -> LeaseStates] /\ owner \in [Leases -> OwnerStates]
  /\ release_requested \in [Leases -> BOOLEAN]
  /\ events_disposed \in [Leases -> BOOLEAN]
  /\ abandoned \in BOOLEAN /\ dead \subseteq Processes

(* The drive never executes the commands of two threads, whatever          *)
(* processes they belong to.                                               *)
OneCommand ==
  \A a, b \in Operations : op[a] = "command" /\ op[b] = "command" => a = b

(* While a process has reserved the drive, the commands are its own.       *)
WriterAlone ==
  \A p \in Processes, a \in Operations :
    active_writer[p] # Free /\ op[a] = "command" => Home[a] = p

(* A reservation is backed by the mutex the other processes look at.       *)
LeaseOwnsGate ==
  \A p \in Processes : active_writer[p] # Free => writer_gate = active_writer[p]

(* No thread of a living process ends as the owner of a mutex: the early   *)
(* Return of a lease that finds another one active, which would leave the  *)
(* writer gate behind, is never taken.                                     *)
NothingAbandoned == ~abandoned

Device == INSTANCE ExclusiveDevice WITH
  commands <- {a \in Operations : op[a] = "command"},
  writers <- {p \in Processes : active_writer[p] # Free}

(* The manager keeps the promise ExclusiveDevice states.                   *)
ImplementsDevice == Device!Spec

(* A lease that was disposed of is given up, whatever the other processes  *)
(* do to acquire theirs.                                                   *)
LeaseGivenUp ==
  \A l \in Leases : owner[l] = "signals" ~> lease[l] \in {"ended", "none"}
=============================================================================
