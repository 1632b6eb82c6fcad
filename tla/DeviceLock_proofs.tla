-------------------------- MODULE DeviceLock_proofs --------------------------
(***************************************************************************)
(* Proofs about DeviceLock, for any number of processes, command threads   *)
(* and leases: one command at a time, the writer alone while it has the    *)
(* drive, no mutex left behind, and the refinement of ExclusiveDevice.     *)
(*                                                                         *)
(* The inductive invariant says which of the three locks every thread      *)
(* owns at every point of its code, and what the process gate protects:    *)
(* whoever runs a command with it has seen that nobody reserved the drive, *)
(* and nobody can reserve the drive without it.                            *)
(***************************************************************************)
EXTENDS DeviceLock, TLAPS

InMonitor == {"entered", "gate", "probe", "probed", "command", "ungate", "leave"}

LeaseInMonitor == {"regate", "clear", "unwrite", "regated", "leave"}
LeaseHasGate == {"writer", "publish", "ungate", "clear", "unwrite", "regated"}

(* What an operation owns.                                                 *)
OpInv(a) ==
  /\ op[a] \in InMonitor <=> local_lock[Home[a]] = a
  /\ op[a] \in {"probe", "probed", "ungate"} => process_gate = a
  /\ process_gate = a => op[a] \in {"probe", "probed", "command", "ungate"}
  /\ writer_gate = a <=> op[a] = "probed"
  /\ op[a] = "command" /\ process_gate # a => active_writer[Home[a]] # Free
  /\ op[a] \in {"probed", "command"} /\ process_gate = a =>
       \A p \in Processes : active_writer[p] = Free

(* What a lease thread owns.                                               *)
LeaseInv(l) ==
  /\ lease[l] \in LeaseInMonitor <=> local_lock[Home[l]] = l
  /\ lease[l] \in LeaseHasGate <=> process_gate = l
  /\ writer_gate = l <=>
       \/ lease[l] \in {"publish", "held", "local", "regate", "clear", "unwrite"}
       \/ lease[l] \in {"ungate", "ready"} /\ active_writer[Home[l]] = l
  /\ lease[l] \in {"held", "local", "regate", "clear"} =>
       active_writer[Home[l]] = l
  /\ active_writer[Home[l]] = l =>
       lease[l] \in {"ungate", "ready", "held", "local", "regate", "clear"}
  /\ owner[l] = "none" => lease[l] = "none"

(* The writer of a process is a lease of it, and owns the writer gate.     *)
WriterInv ==
  \A p \in Processes : active_writer[p] # Free =>
    /\ active_writer[p] \in Leases
    /\ Home[active_writer[p]] = p
    /\ writer_gate = active_writer[p]

IInv ==
  /\ TypeOK
  /\ \A a \in Operations : OpInv(a)
  /\ \A l \in Leases : LeaseInv(l)
  /\ WriterInv
  /\ NothingAbandoned

-----------------------------------------------------------------------------
(* The threads that execute commands: each step keeps the invariant.        *)

LEMMA CallInductive ==
  ASSUME NEW a \in Operations, IInv, Call(a)
  PROVE  IInv'
<1>. USE DeviceLockAssumption DEF IInv, Actors
<1>1. TypeOK'
  BY DEF TypeOK, Call, OpGoes, gates, events, OpUnchanged, OpStates
<1>2. \A b \in Operations : OpInv(b)'
  BY DEF TypeOK, OpInv, InMonitor, Call, OpGoes, gates, OpUnchanged
<1>3. \A m \in Leases : LeaseInv(m)'
  BY DEF TypeOK, LeaseInv, Call, OpGoes, gates, OpUnchanged
<1>4. WriterInv'
  BY DEF WriterInv, Call, OpGoes, gates, OpUnchanged
<1>5. NothingAbandoned'
  BY DEF NothingAbandoned, Call, OpGoes, OpUnchanged
<1>. QED  BY <1>1, <1>2, <1>3, <1>4, <1>5

LEMMA EnterLocalInductive ==
  ASSUME NEW a \in Operations, IInv, EnterLocal(a)
  PROVE  IInv'
<1>. USE DeviceLockAssumption DEF IInv, Actors
<1>1. TypeOK'
  BY DEF TypeOK, EnterLocal, EntersLocal, OpGoes, gates, events, OpUnchanged,
     OpStates
<1>2. \A b \in Operations : OpInv(b)'
  <2>. SUFFICES ASSUME NEW b \in Operations
                PROVE  OpInv(b)'
    OBVIOUS
  <2>1. Home[a] \in Processes
    OBVIOUS
  <2>2. op'[a] = "entered" /\ local_lock'[Home[a]] = a
    BY <2>1 DEF TypeOK, EnterLocal, EntersLocal, OpGoes
  <2>3. op[a] = "local"
    BY DEF EnterLocal
  <2>4. CASE b = a
    BY <2>1, <2>2, <2>3, <2>4 DEF TypeOK, OpInv, LeaseInv, WriterInv,
       InMonitor, EnterLocal, EntersLocal, OpGoes, gates, events, OpUnchanged
  <2>5. CASE b # a
    BY <2>1, <2>2, <2>3, <2>5 DEF TypeOK, OpInv, LeaseInv, WriterInv,
       InMonitor, EnterLocal, EntersLocal, OpGoes, gates, events, OpUnchanged
  <2>. QED  BY <2>4, <2>5
<1>3. \A m \in Leases : LeaseInv(m)'
  BY DEF TypeOK, LeaseInv, EnterLocal, EntersLocal, OpGoes, gates, OpUnchanged
<1>4. WriterInv'
  BY DEF WriterInv, EnterLocal, EntersLocal, OpGoes, gates, OpUnchanged
<1>5. NothingAbandoned'
  BY DEF NothingAbandoned, EnterLocal, EntersLocal, OpGoes, OpUnchanged
<1>. QED  BY <1>1, <1>2, <1>3, <1>4, <1>5

LEMMA LocalBusyInductive ==
  ASSUME NEW a \in Operations, IInv, LocalBusy(a)
  PROVE  IInv'
<1>. USE DeviceLockAssumption DEF IInv, Actors
<1>1. TypeOK'
  BY DEF TypeOK, LocalBusy, OpGoes, gates, events, OpUnchanged, OpStates
<1>2. \A b \in Operations : OpInv(b)'
  BY DEF TypeOK, OpInv, InMonitor, LocalBusy, OpGoes, gates, OpUnchanged
<1>3. \A m \in Leases : LeaseInv(m)'
  BY DEF TypeOK, LeaseInv, LocalBusy, OpGoes, gates, OpUnchanged
<1>4. WriterInv'
  BY DEF WriterInv, LocalBusy, OpGoes, gates, OpUnchanged
<1>5. NothingAbandoned'
  BY DEF NothingAbandoned, LocalBusy, OpGoes, OpUnchanged
<1>. QED  BY <1>1, <1>2, <1>3, <1>4, <1>5

LEMMA ChecksWriterInductive ==
  ASSUME NEW a \in Operations, IInv, ChecksWriter(a)
  PROVE  IInv'
<1>. USE DeviceLockAssumption DEF IInv, Actors
<1>1. TypeOK'
  BY DEF TypeOK, ChecksWriter, HasLocalWriter, OpGoes, gates, events,
     OpUnchanged, OpStates
<1>2. \A b \in Operations : OpInv(b)'
  BY DEF TypeOK, OpInv, InMonitor, ChecksWriter, HasLocalWriter, OpGoes, gates,
     OpUnchanged
<1>3. \A m \in Leases : LeaseInv(m)'
  BY DEF TypeOK, LeaseInv, ChecksWriter, HasLocalWriter, OpGoes, gates,
     OpUnchanged
<1>4. WriterInv'
  BY DEF WriterInv, ChecksWriter, HasLocalWriter, OpGoes, gates, OpUnchanged
<1>5. NothingAbandoned'
  BY DEF NothingAbandoned, ChecksWriter, HasLocalWriter, OpGoes, OpUnchanged
<1>. QED  BY <1>1, <1>2, <1>3, <1>4, <1>5

LEMMA EnterGateInductive ==
  ASSUME NEW a \in Operations, IInv, EnterGate(a)
  PROVE  IInv'
<1>. USE DeviceLockAssumption DEF IInv, Actors
<1>1. TypeOK'
  BY DEF TypeOK, EnterGate, OpGoes, events, OpUnchanged, OpStates
<1>2. \A b \in Operations : OpInv(b)'
  BY DEF TypeOK, OpInv, InMonitor, EnterGate, OpGoes, OpUnchanged
<1>3. \A m \in Leases : LeaseInv(m)'
  BY DEF TypeOK, LeaseInv, EnterGate, OpGoes, OpUnchanged
<1>4. WriterInv'
  BY DEF WriterInv, EnterGate, OpGoes, OpUnchanged
<1>5. NothingAbandoned'
  BY DEF NothingAbandoned, EnterGate, OpGoes, OpUnchanged
<1>. QED  BY <1>1, <1>2, <1>3, <1>4, <1>5

LEMMA ProbeWriterInductive ==
  ASSUME NEW a \in Operations, IInv, ProbeWriter(a)
  PROVE  IInv'
<1>. USE DeviceLockAssumption DEF IInv, Actors
<1>1. TypeOK'
  BY DEF TypeOK, ProbeWriter, OpGoes, events, OpUnchanged, OpStates
<1>2. \A b \in Operations : OpInv(b)'
  BY DEF TypeOK, OpInv, WriterInv, InMonitor, ProbeWriter, OpGoes, OpUnchanged
<1>3. \A m \in Leases : LeaseInv(m)'
  BY DEF TypeOK, LeaseInv, ProbeWriter, OpGoes, OpUnchanged
<1>4. WriterInv'
  BY DEF WriterInv, ProbeWriter, OpGoes, OpUnchanged
<1>5. NothingAbandoned'
  BY DEF NothingAbandoned, ProbeWriter, OpGoes, OpUnchanged
<1>. QED  BY <1>1, <1>2, <1>3, <1>4, <1>5

LEMMA ProbedInductive ==
  ASSUME NEW a \in Operations, IInv, Probed(a)
  PROVE  IInv'
<1>. USE DeviceLockAssumption DEF IInv, Actors
<1>1. TypeOK'
  BY DEF TypeOK, Probed, OpGoes, events, OpUnchanged, OpStates
<1>2. \A b \in Operations : OpInv(b)'
  BY DEF TypeOK, OpInv, InMonitor, Probed, OpGoes, OpUnchanged
<1>3. \A m \in Leases : LeaseInv(m)'
  BY DEF TypeOK, OpInv, LeaseInv, Probed, OpGoes, OpUnchanged
<1>4. WriterInv'
  BY DEF OpInv, WriterInv, Probed, OpGoes, OpUnchanged
<1>5. NothingAbandoned'
  BY DEF NothingAbandoned, Probed, OpGoes, OpUnchanged
<1>. QED  BY <1>1, <1>2, <1>3, <1>4, <1>5

LEMMA CommandEndsInductive ==
  ASSUME NEW a \in Operations, IInv, CommandEnds(a)
  PROVE  IInv'
<1>. USE DeviceLockAssumption DEF IInv, Actors
<1>1. TypeOK'
  BY DEF TypeOK, CommandEnds, OpGoes, gates, events, OpUnchanged, OpStates
<1>2. \A b \in Operations : OpInv(b)'
  BY DEF TypeOK, OpInv, InMonitor, CommandEnds, OpGoes, gates, OpUnchanged
<1>3. \A m \in Leases : LeaseInv(m)'
  BY DEF TypeOK, LeaseInv, CommandEnds, OpGoes, gates, OpUnchanged
<1>4. WriterInv'
  BY DEF WriterInv, CommandEnds, OpGoes, gates, OpUnchanged
<1>5. NothingAbandoned'
  BY DEF NothingAbandoned, CommandEnds, OpGoes, OpUnchanged
<1>. QED  BY <1>1, <1>2, <1>3, <1>4, <1>5

LEMMA UngateInductive ==
  ASSUME NEW a \in Operations, IInv, Ungate(a)
  PROVE  IInv'
<1>. USE DeviceLockAssumption DEF IInv, Actors
<1>1. TypeOK'
  BY DEF TypeOK, Ungate, OpGoes, events, OpUnchanged, OpStates
<1>2. \A b \in Operations : OpInv(b)'
  BY DEF TypeOK, OpInv, InMonitor, Ungate, OpGoes, OpUnchanged
<1>3. \A m \in Leases : LeaseInv(m)'
  BY DEF TypeOK, OpInv, LeaseInv, Ungate, OpGoes, OpUnchanged
<1>4. WriterInv'
  BY DEF WriterInv, Ungate, OpGoes, OpUnchanged
<1>5. NothingAbandoned'
  BY DEF NothingAbandoned, Ungate, OpGoes, OpUnchanged
<1>. QED  BY <1>1, <1>2, <1>3, <1>4, <1>5

LEMMA LeaveInductive ==
  ASSUME NEW a \in Operations, IInv, Leave(a)
  PROVE  IInv'
<1>. USE DeviceLockAssumption DEF IInv, Actors
<1>1. TypeOK'
  BY DEF TypeOK, Leave, LeavesLocal, OpGoes, gates, events, OpUnchanged,
     OpStates
<1>2. \A b \in Operations : OpInv(b)'
  <2>. SUFFICES ASSUME NEW b \in Operations
                PROVE  OpInv(b)'
    OBVIOUS
  <2>1. local_lock[Home[a]] = a
    BY DEF OpInv, InMonitor, Leave
  <2>2. Home[a] \in Processes
    OBVIOUS
  <2>3. op[a] = "leave" /\ op'[a] = "idle" /\ local_lock'[Home[a]] = Free
    BY <2>2 DEF TypeOK, Leave, LeavesLocal, OpGoes
  <2>4. CASE b = a
    BY <2>1, <2>2, <2>3, <2>4 DEF TypeOK, OpInv, LeaseInv, WriterInv,
       InMonitor, Leave, LeavesLocal, OpGoes, gates, events, OpUnchanged
  <2>5. CASE b # a
    BY <2>1, <2>2, <2>3, <2>5 DEF TypeOK, OpInv, LeaseInv, WriterInv,
       InMonitor, Leave, LeavesLocal, OpGoes, gates, events, OpUnchanged
  <2>. QED  BY <2>4, <2>5
<1>3. \A m \in Leases : LeaseInv(m)'
  <2>. SUFFICES ASSUME NEW m \in Leases
                PROVE  LeaseInv(m)'
    OBVIOUS
  <2>1. local_lock[Home[a]] = a
    BY DEF OpInv, InMonitor, Leave
  <2>2. Home[a] \in Processes
    OBVIOUS
  <2>3. op[a] = "leave" /\ op'[a] = "idle" /\ local_lock'[Home[a]] = Free
    BY <2>2 DEF TypeOK, Leave, LeavesLocal, OpGoes
  <2>4. CASE m = a
    BY <2>1, <2>2, <2>3, <2>4 DEF TypeOK, OpInv, LeaseInv, WriterInv,
       LeaseInMonitor, LeaseHasGate, Leave, LeavesLocal, OpGoes, gates, events,
       OpUnchanged
  <2>5. CASE m # a
    BY <2>1, <2>2, <2>3, <2>5 DEF TypeOK, OpInv, LeaseInv, WriterInv,
       LeaseInMonitor, LeaseHasGate, Leave, LeavesLocal, OpGoes, gates, events,
       OpUnchanged
  <2>. QED  BY <2>4, <2>5
<1>4. WriterInv'
  BY DEF WriterInv, Leave, LeavesLocal, OpGoes, gates, OpUnchanged
<1>5. NothingAbandoned'
  BY DEF NothingAbandoned, Leave, LeavesLocal, OpGoes, OpUnchanged
<1>. QED  BY <1>1, <1>2, <1>3, <1>4, <1>5

-----------------------------------------------------------------------------
(* The lease threads.                                                      *)

LEMMA LeaseStartsInductive ==
  ASSUME NEW l \in Leases, IInv, LeaseStarts(l)
  PROVE  IInv'
<1>. USE DeviceLockAssumption DEF IInv, Actors
<1>1. TypeOK'
  BY DEF TypeOK, LeaseStarts, LeaseGoes, gates, LeaseUnchanged, LeaseStates
<1>2. \A b \in Operations : OpInv(b)'
  BY DEF TypeOK, OpInv, LeaseStarts, LeaseGoes, gates, LeaseUnchanged
<1>3. \A m \in Leases : LeaseInv(m)'
  BY DEF TypeOK, LeaseInv, LeaseInMonitor, LeaseHasGate, LeaseStarts,
     LeaseGoes, gates, LeaseUnchanged
<1>4. WriterInv'
  BY DEF WriterInv, LeaseStarts, LeaseGoes, gates, LeaseUnchanged
<1>5. NothingAbandoned'
  BY DEF NothingAbandoned, LeaseStarts, LeaseGoes, LeaseUnchanged
<1>. QED  BY <1>1, <1>2, <1>3, <1>4, <1>5

LEMMA LeaseTakesGateInductive ==
  ASSUME NEW l \in Leases, IInv, LeaseTakesGate(l)
  PROVE  IInv'
<1>. USE DeviceLockAssumption DEF IInv, Actors
<1>1. TypeOK'
  BY DEF TypeOK, LeaseTakesGate, LeaseGoes, LeaseUnchanged, LeaseStates
<1>2. \A b \in Operations : OpInv(b)'
  BY DEF TypeOK, OpInv, LeaseTakesGate, LeaseGoes, LeaseUnchanged
<1>3. \A m \in Leases : LeaseInv(m)'
  BY DEF TypeOK, LeaseInv, LeaseInMonitor, LeaseHasGate, LeaseTakesGate,
     LeaseGoes, LeaseUnchanged
<1>4. WriterInv'
  BY DEF WriterInv, LeaseTakesGate, LeaseGoes, LeaseUnchanged
<1>5. NothingAbandoned'
  BY DEF NothingAbandoned, LeaseTakesGate, LeaseGoes, LeaseUnchanged
<1>. QED  BY <1>1, <1>2, <1>3, <1>4, <1>5

LEMMA LeaseTakesWriterInductive ==
  ASSUME NEW l \in Leases, IInv, LeaseTakesWriter(l)
  PROVE  IInv'
<1>. USE DeviceLockAssumption DEF IInv, Actors
<1>1. TypeOK'
  BY DEF TypeOK, LeaseTakesWriter, LeaseGoes, LeaseUnchanged, LeaseStates
<1>2. \A b \in Operations : OpInv(b)'
  BY DEF TypeOK, OpInv, LeaseTakesWriter, LeaseGoes, LeaseUnchanged
<1>3. \A m \in Leases : LeaseInv(m)'
  BY DEF TypeOK, LeaseInv, LeaseInMonitor, LeaseHasGate, LeaseTakesWriter,
     LeaseGoes, LeaseUnchanged
<1>4. WriterInv'
  BY DEF WriterInv, LeaseTakesWriter, LeaseGoes, LeaseUnchanged
<1>5. NothingAbandoned'
  BY DEF NothingAbandoned, LeaseTakesWriter, LeaseGoes, LeaseUnchanged
<1>. QED  BY <1>1, <1>2, <1>3, <1>4, <1>5

LEMMA PublishesInductive ==
  ASSUME NEW l \in Leases, IInv, Publishes(l)
  PROVE  IInv'
<1>. USE DeviceLockAssumption DEF IInv, Actors
<1>1. TypeOK'
  BY DEF TypeOK, Publishes, LeaseGoes, gates, LeaseUnchanged, LeaseStates
<1>2. \A b \in Operations : OpInv(b)'
  <2>. SUFFICES ASSUME NEW b \in Operations
                PROVE  OpInv(b)'
    OBVIOUS
  <2>1. process_gate = l /\ writer_gate = l
    BY DEF LeaseInv, LeaseHasGate, LeaseInMonitor, Publishes
  <2>2. active_writer[Home[l]] = Free
    BY <2>1 DEF TypeOK, LeaseInv, WriterInv, Publishes
  <2>3. \A p \in Processes : active_writer[p] # Free => active_writer[p] = l
    BY <2>1 DEF WriterInv
  <2>4. Home[l] \in Processes
    OBVIOUS
  <2>5. active_writer'[Home[l]] = l /\ lease'[l] = "ungate" /\ lease[l] = "publish"
    BY <2>2, <2>4 DEF TypeOK, Publishes, LeaseGoes
  <2>6. CASE b = l
    BY <2>1, <2>2, <2>3, <2>4, <2>5, <2>6 DEF TypeOK, OpInv, LeaseInv,
       WriterInv, InMonitor, Publishes, LeaseGoes, gates, LeaseUnchanged
  <2>7. CASE b # l
    BY <2>1, <2>2, <2>3, <2>4, <2>5, <2>7 DEF TypeOK, OpInv, LeaseInv,
       WriterInv, InMonitor, Publishes, LeaseGoes, gates, LeaseUnchanged
  <2>. QED  BY <2>6, <2>7
<1>3. \A m \in Leases : LeaseInv(m)'
  <2>. SUFFICES ASSUME NEW m \in Leases
                PROVE  LeaseInv(m)'
    OBVIOUS
  <2>1. process_gate = l /\ writer_gate = l
    BY DEF LeaseInv, LeaseHasGate, LeaseInMonitor, Publishes
  <2>2. active_writer[Home[l]] = Free
    BY <2>1 DEF TypeOK, LeaseInv, WriterInv, Publishes
  <2>3. \A p \in Processes : active_writer[p] # Free => active_writer[p] = l
    BY <2>1 DEF WriterInv
  <2>4. Home[l] \in Processes
    OBVIOUS
  <2>5. active_writer'[Home[l]] = l /\ lease'[l] = "ungate" /\ lease[l] = "publish"
    BY <2>2, <2>4 DEF TypeOK, Publishes, LeaseGoes
  <2>6. CASE m = l
    BY <2>1, <2>2, <2>3, <2>4, <2>5, <2>6 DEF TypeOK, OpInv, LeaseInv,
       WriterInv, LeaseInMonitor, LeaseHasGate, Publishes, LeaseGoes, gates,
       LeaseUnchanged
  <2>7. CASE m # l
    BY <2>1, <2>2, <2>3, <2>4, <2>5, <2>7 DEF TypeOK, OpInv, LeaseInv,
       WriterInv, LeaseInMonitor, LeaseHasGate, Publishes, LeaseGoes, gates,
       LeaseUnchanged
  <2>. QED  BY <2>6, <2>7
<1>4. WriterInv'
  BY DEF LeaseInv, WriterInv, Publishes, LeaseGoes, gates, LeaseUnchanged
<1>5. NothingAbandoned'
  BY DEF NothingAbandoned, Publishes, LeaseGoes, LeaseUnchanged
<1>. QED  BY <1>1, <1>2, <1>3, <1>4, <1>5

LEMMA LeaseUngatesInductive ==
  ASSUME NEW l \in Leases, IInv, LeaseUngates(l)
  PROVE  IInv'
<1>. USE DeviceLockAssumption DEF IInv, Actors
<1>1. TypeOK'
  BY DEF TypeOK, LeaseUngates, LeaseGoes, LeaseUnchanged, LeaseStates
<1>2. \A b \in Operations : OpInv(b)'
  <2>. SUFFICES ASSUME NEW b \in Operations
                PROVE  OpInv(b)'
    OBVIOUS
  <2>1. process_gate = l
    BY DEF LeaseInv, LeaseHasGate, LeaseInMonitor, LeaseUngates
  <2>2. CASE b = l
    BY <2>1, <2>2 DEF TypeOK, OpInv, LeaseInv, WriterInv, InMonitor,
       LeaseUngates, LeaseGoes, gates, LeaseUnchanged
  <2>3. CASE b # l
    BY <2>1, <2>3 DEF TypeOK, OpInv, LeaseInv, WriterInv, InMonitor,
       LeaseUngates, LeaseGoes, gates, LeaseUnchanged
  <2>. QED  BY <2>2, <2>3
<1>3. \A m \in Leases : LeaseInv(m)'
  BY DEF TypeOK, LeaseInv, LeaseInMonitor, LeaseHasGate, LeaseUngates,
     LeaseGoes, LeaseUnchanged
<1>4. WriterInv'
  BY DEF WriterInv, LeaseUngates, LeaseGoes, LeaseUnchanged
<1>5. NothingAbandoned'
  BY DEF NothingAbandoned, LeaseUngates, LeaseGoes, LeaseUnchanged
<1>. QED  BY <1>1, <1>2, <1>3, <1>4, <1>5

LEMMA ReadiesInductive ==
  ASSUME NEW l \in Leases, IInv, Readies(l)
  PROVE  IInv'
<1>. USE DeviceLockAssumption DEF IInv, Actors
<1>1. TypeOK'
  BY DEF TypeOK, Readies, IsAcquired, LeaseGoes, gates, LeaseUnchanged,
     LeaseStates
<1>2. \A b \in Operations : OpInv(b)'
  BY DEF TypeOK, OpInv, Readies, IsAcquired, LeaseGoes, gates, LeaseUnchanged
<1>3. \A m \in Leases : LeaseInv(m)'
  BY DEF TypeOK, LeaseInv, LeaseInMonitor, LeaseHasGate, Readies, IsAcquired,
     LeaseGoes, gates, LeaseUnchanged
<1>4. WriterInv'
  BY DEF WriterInv, Readies, IsAcquired, LeaseGoes, gates, LeaseUnchanged
<1>5. NothingAbandoned'
  BY DEF NothingAbandoned, Readies, IsAcquired, LeaseGoes, LeaseUnchanged
<1>. QED  BY <1>1, <1>2, <1>3, <1>4, <1>5

LEMMA AskedInductive ==
  ASSUME NEW l \in Leases, IInv, Asked(l)
  PROVE  IInv'
<1>. USE DeviceLockAssumption DEF IInv, Actors
<1>1. TypeOK'
  BY DEF TypeOK, Asked, LeaseGoes, gates, LeaseUnchanged, LeaseStates
<1>2. \A b \in Operations : OpInv(b)'
  BY DEF TypeOK, OpInv, Asked, LeaseGoes, gates, LeaseUnchanged
<1>3. \A m \in Leases : LeaseInv(m)'
  BY DEF TypeOK, LeaseInv, LeaseInMonitor, LeaseHasGate, Asked, LeaseGoes,
     gates, LeaseUnchanged
<1>4. WriterInv'
  BY DEF WriterInv, Asked, LeaseGoes, gates, LeaseUnchanged
<1>5. NothingAbandoned'
  BY DEF NothingAbandoned, Asked, LeaseGoes, LeaseUnchanged
<1>. QED  BY <1>1, <1>2, <1>3, <1>4, <1>5

LEMMA LeaseEntersLocalInductive ==
  ASSUME NEW l \in Leases, IInv, LeaseEntersLocal(l)
  PROVE  IInv'
<1>. USE DeviceLockAssumption DEF IInv, Actors
<1>1. TypeOK'
  BY DEF TypeOK, LeaseEntersLocal, EntersLocal, LeaseGoes, gates,
     LeaseUnchanged, LeaseStates
<1>2. \A b \in Operations : OpInv(b)'
  BY DEF TypeOK, OpInv, LeaseEntersLocal, EntersLocal, LeaseGoes, gates,
     LeaseUnchanged
<1>3. \A m \in Leases : LeaseInv(m)'
  <2>. SUFFICES ASSUME NEW m \in Leases
                PROVE  LeaseInv(m)'
    OBVIOUS
  <2>1. Home[l] \in Processes
    OBVIOUS
  <2>2. local_lock'[Home[l]] = l /\ lease'[l] = "regate" /\ lease[l] = "local"
    BY <2>1 DEF TypeOK, LeaseEntersLocal, EntersLocal, LeaseGoes
  <2>3. CASE m = l
    BY <2>1, <2>2, <2>3 DEF TypeOK, OpInv, LeaseInv, WriterInv, LeaseInMonitor,
       LeaseHasGate, LeaseEntersLocal, EntersLocal, LeaseGoes, gates,
       LeaseUnchanged
  <2>4. CASE m # l
    BY <2>1, <2>2, <2>4 DEF TypeOK, OpInv, LeaseInv, WriterInv, LeaseInMonitor,
       LeaseHasGate, LeaseEntersLocal, EntersLocal, LeaseGoes, gates,
       LeaseUnchanged
  <2>. QED  BY <2>3, <2>4
<1>4. WriterInv'
  BY DEF WriterInv, LeaseEntersLocal, EntersLocal, LeaseGoes, gates,
     LeaseUnchanged
<1>5. NothingAbandoned'
  BY DEF NothingAbandoned, LeaseEntersLocal, EntersLocal, LeaseGoes,
     LeaseUnchanged
<1>. QED  BY <1>1, <1>2, <1>3, <1>4, <1>5

LEMMA RegatesInductive ==
  ASSUME NEW l \in Leases, IInv, Regates(l)
  PROVE  IInv'
<1>. USE DeviceLockAssumption DEF IInv, Actors
<1>1. TypeOK'
  BY DEF TypeOK, Regates, LeaseGoes, LeaseUnchanged, LeaseStates
<1>2. \A b \in Operations : OpInv(b)'
  BY DEF TypeOK, OpInv, Regates, LeaseGoes, LeaseUnchanged
<1>3. \A m \in Leases : LeaseInv(m)'
  BY DEF TypeOK, LeaseInv, LeaseInMonitor, LeaseHasGate, Regates, LeaseGoes,
     LeaseUnchanged
<1>4. WriterInv'
  BY DEF WriterInv, Regates, LeaseGoes, LeaseUnchanged
<1>5. NothingAbandoned'
  BY DEF NothingAbandoned, Regates, LeaseGoes, LeaseUnchanged
<1>. QED  BY <1>1, <1>2, <1>3, <1>4, <1>5

LEMMA ClearsInductive ==
  ASSUME NEW l \in Leases, IInv, Clears(l)
  PROVE  IInv'
<1>. USE DeviceLockAssumption DEF IInv, Actors
<1>1. TypeOK'
  BY DEF TypeOK, Clears, LeaseGoes, gates, LeaseUnchanged, LeaseStates
<1>2. \A b \in Operations : OpInv(b)'
  <2>. SUFFICES ASSUME NEW b \in Operations
                PROVE  OpInv(b)'
    OBVIOUS
  <2>1. process_gate = l /\ local_lock[Home[l]] = l /\ active_writer[Home[l]] = l
    BY DEF LeaseInv, LeaseHasGate, LeaseInMonitor, Clears
  <2>2. Home[l] \in Processes
    OBVIOUS
  <2>3. active_writer'[Home[l]] = Free /\ lease'[l] = "unwrite" /\ lease[l] = "clear"
    BY <2>1, <2>2 DEF TypeOK, Clears, LeaseGoes
  <2>4. CASE b = l
    BY <2>1, <2>2, <2>3, <2>4 DEF TypeOK, OpInv, LeaseInv, WriterInv,
       InMonitor, Clears, LeaseGoes, gates, LeaseUnchanged
  <2>5. CASE b # l
    BY <2>1, <2>2, <2>3, <2>5 DEF TypeOK, OpInv, LeaseInv, WriterInv,
       InMonitor, Clears, LeaseGoes, gates, LeaseUnchanged
  <2>. QED  BY <2>4, <2>5
<1>3. \A m \in Leases : LeaseInv(m)'
  <2>. SUFFICES ASSUME NEW m \in Leases
                PROVE  LeaseInv(m)'
    OBVIOUS
  <2>1. process_gate = l /\ local_lock[Home[l]] = l /\ active_writer[Home[l]] = l
    BY DEF LeaseInv, LeaseHasGate, LeaseInMonitor, Clears
  <2>2. Home[l] \in Processes
    OBVIOUS
  <2>3. active_writer'[Home[l]] = Free /\ lease'[l] = "unwrite" /\ lease[l] = "clear"
    BY <2>1, <2>2 DEF TypeOK, Clears, LeaseGoes
  <2>4. CASE m = l
    BY <2>1, <2>2, <2>3, <2>4 DEF TypeOK, OpInv, LeaseInv, WriterInv,
       LeaseInMonitor, LeaseHasGate, Clears, LeaseGoes, gates, LeaseUnchanged
  <2>5. CASE m # l
    BY <2>1, <2>2, <2>3, <2>5 DEF TypeOK, OpInv, LeaseInv, WriterInv,
       LeaseInMonitor, LeaseHasGate, Clears, LeaseGoes, gates, LeaseUnchanged
  <2>. QED  BY <2>4, <2>5
<1>4. WriterInv'
  BY DEF WriterInv, Clears, LeaseGoes, gates, LeaseUnchanged
<1>5. NothingAbandoned'
  BY DEF NothingAbandoned, Clears, LeaseGoes, LeaseUnchanged
<1>. QED  BY <1>1, <1>2, <1>3, <1>4, <1>5

LEMMA UnwritesInductive ==
  ASSUME NEW l \in Leases, IInv, Unwrites(l)
  PROVE  IInv'
<1>. USE DeviceLockAssumption DEF IInv, Actors
<1>1. TypeOK'
  BY DEF TypeOK, Unwrites, LeaseGoes, LeaseUnchanged, LeaseStates
<1>2. \A b \in Operations : OpInv(b)'
  BY DEF TypeOK, OpInv, LeaseInv, Unwrites, LeaseGoes, LeaseUnchanged
<1>3. \A m \in Leases : LeaseInv(m)'
  BY DEF TypeOK, LeaseInv, LeaseInMonitor, LeaseHasGate, Unwrites, LeaseGoes,
     LeaseUnchanged
<1>4. WriterInv'
  BY DEF LeaseInv, WriterInv, Unwrites, LeaseGoes, LeaseUnchanged
<1>5. NothingAbandoned'
  BY DEF NothingAbandoned, Unwrites, LeaseGoes, LeaseUnchanged
<1>. QED  BY <1>1, <1>2, <1>3, <1>4, <1>5

LEMMA LeaseLeavesGateInductive ==
  ASSUME NEW l \in Leases, IInv, LeaseLeavesGate(l)
  PROVE  IInv'
<1>. USE DeviceLockAssumption DEF IInv, Actors
<1>1. TypeOK'
  BY DEF TypeOK, LeaseLeavesGate, LeaseGoes, LeaseUnchanged, LeaseStates
<1>2. \A b \in Operations : OpInv(b)'
  <2>. SUFFICES ASSUME NEW b \in Operations
                PROVE  OpInv(b)'
    OBVIOUS
  <2>1. process_gate = l
    BY DEF LeaseInv, LeaseHasGate, LeaseInMonitor, LeaseLeavesGate
  <2>2. CASE b = l
    BY <2>1, <2>2 DEF TypeOK, OpInv, LeaseInv, WriterInv, InMonitor,
       LeaseLeavesGate, LeaseGoes, gates, LeaseUnchanged
  <2>3. CASE b # l
    BY <2>1, <2>3 DEF TypeOK, OpInv, LeaseInv, WriterInv, InMonitor,
       LeaseLeavesGate, LeaseGoes, gates, LeaseUnchanged
  <2>. QED  BY <2>2, <2>3
<1>3. \A m \in Leases : LeaseInv(m)'
  BY DEF TypeOK, LeaseInv, LeaseInMonitor, LeaseHasGate, LeaseLeavesGate,
     LeaseGoes, LeaseUnchanged
<1>4. WriterInv'
  BY DEF WriterInv, LeaseLeavesGate, LeaseGoes, LeaseUnchanged
<1>5. NothingAbandoned'
  BY DEF NothingAbandoned, LeaseLeavesGate, LeaseGoes, LeaseUnchanged
<1>. QED  BY <1>1, <1>2, <1>3, <1>4, <1>5

LEMMA LeaseLeavesLocalInductive ==
  ASSUME NEW l \in Leases, IInv, LeaseLeavesLocal(l)
  PROVE  IInv'
<1>. USE DeviceLockAssumption DEF IInv, Actors
<1>1. TypeOK'
  BY DEF TypeOK, LeaseLeavesLocal, LeavesLocal, LeaseGoes, gates,
     LeaseUnchanged, LeaseStates
<1>2. \A b \in Operations : OpInv(b)'
  <2>. SUFFICES ASSUME NEW b \in Operations
                PROVE  OpInv(b)'
    OBVIOUS
  <2>1. local_lock[Home[l]] = l
    BY DEF LeaseInv, LeaseHasGate, LeaseInMonitor, LeaseLeavesLocal
  <2>2. Home[l] \in Processes
    OBVIOUS
  <2>3. local_lock'[Home[l]] = Free /\ lease'[l] = "end" /\ lease[l] = "leave"
    BY <2>1, <2>2 DEF TypeOK, LeaseLeavesLocal, LeavesLocal, LeaseGoes
  <2>4. CASE b = l
    BY <2>1, <2>2, <2>3, <2>4 DEF TypeOK, OpInv, LeaseInv, WriterInv,
       InMonitor, LeaseLeavesLocal, LeavesLocal, LeaseGoes, gates,
       LeaseUnchanged
  <2>5. CASE b # l
    BY <2>1, <2>2, <2>3, <2>5 DEF TypeOK, OpInv, LeaseInv, WriterInv,
       InMonitor, LeaseLeavesLocal, LeavesLocal, LeaseGoes, gates,
       LeaseUnchanged
  <2>. QED  BY <2>4, <2>5
<1>3. \A m \in Leases : LeaseInv(m)'
  <2>. SUFFICES ASSUME NEW m \in Leases
                PROVE  LeaseInv(m)'
    OBVIOUS
  <2>1. local_lock[Home[l]] = l
    BY DEF LeaseInv, LeaseHasGate, LeaseInMonitor, LeaseLeavesLocal
  <2>2. Home[l] \in Processes
    OBVIOUS
  <2>3. local_lock'[Home[l]] = Free /\ lease'[l] = "end" /\ lease[l] = "leave"
    BY <2>1, <2>2 DEF TypeOK, LeaseLeavesLocal, LeavesLocal, LeaseGoes
  <2>4. CASE m = l
    BY <2>1, <2>2, <2>3, <2>4 DEF TypeOK, OpInv, LeaseInv, WriterInv,
       LeaseInMonitor, LeaseHasGate, LeaseLeavesLocal, LeavesLocal, LeaseGoes,
       gates, LeaseUnchanged
  <2>5. CASE m # l
    BY <2>1, <2>2, <2>3, <2>5 DEF TypeOK, OpInv, LeaseInv, WriterInv,
       LeaseInMonitor, LeaseHasGate, LeaseLeavesLocal, LeavesLocal, LeaseGoes,
       gates, LeaseUnchanged
  <2>. QED  BY <2>4, <2>5
<1>4. WriterInv'
  BY DEF WriterInv, LeaseLeavesLocal, LeavesLocal, LeaseGoes, gates,
     LeaseUnchanged
<1>5. NothingAbandoned'
  BY DEF NothingAbandoned, LeaseLeavesLocal, LeavesLocal, LeaseGoes,
     LeaseUnchanged
<1>. QED  BY <1>1, <1>2, <1>3, <1>4, <1>5

LEMMA LeaseEndsInductive ==
  ASSUME NEW l \in Leases, IInv, LeaseEnds(l)
  PROVE  IInv'
<1>. USE DeviceLockAssumption DEF IInv, Actors
<1>1. TypeOK'
  BY DEF TypeOK, LeaseEnds, Disposed, LeaseGoes, LeaseUnchanged, LeaseStates
<1>2. \A b \in Operations : OpInv(b)'
  BY DEF TypeOK, OpInv, LeaseEnds, Disposed, LeaseGoes, LeaseUnchanged
<1>3. \A m \in Leases : LeaseInv(m)'
  BY DEF TypeOK, LeaseInv, LeaseInMonitor, LeaseHasGate, LeaseEnds, Disposed,
     LeaseGoes, LeaseUnchanged
<1>4. WriterInv'
  BY DEF LeaseInv, WriterInv, LeaseEnds, Disposed, LeaseGoes, LeaseUnchanged
<1>5. NothingAbandoned'
  BY DEF NothingAbandoned, LeaseInv, LeaseHasGate, LeaseEnds, Disposed,
     LeaseGoes, LeaseUnchanged
<1>. QED  BY <1>1, <1>2, <1>3, <1>4, <1>5

-----------------------------------------------------------------------------
(* The threads that acquire leases and dispose of them, and the death of a *)
(* process.                                                                *)

LEMMA AcquireInductive ==
  ASSUME NEW l \in Leases, IInv, Acquire(l)
  PROVE  IInv'
<1>. USE DeviceLockAssumption DEF IInv, Actors
<1>1. TypeOK'
  BY DEF TypeOK, Acquire, LeaseGoes, Alive, OwnerGoes, gates, events,
     OwnerUnchanged, LeaseStates, OwnerStates
<1>2. \A b \in Operations : OpInv(b)'
  BY DEF TypeOK, OpInv, Acquire, LeaseGoes, Alive, OwnerGoes, gates,
     OwnerUnchanged
<1>3. \A m \in Leases : LeaseInv(m)'
  <2>. SUFFICES ASSUME NEW m \in Leases
                PROVE  LeaseInv(m)'
    OBVIOUS
  <2>1. active_writer[Home[l]] # l /\ lease'[l] = "start"
    BY DEF TypeOK, Acquire, LeaseGoes
  <2>2. lease[l] = "none"
    BY DEF LeaseInv, Acquire
  <2>3. CASE m = l
    BY <2>1, <2>2, <2>3 DEF TypeOK, OpInv, LeaseInv, WriterInv, LeaseInMonitor,
       LeaseHasGate, Acquire, LeaseGoes, Alive, OwnerGoes, gates, events,
       OwnerUnchanged
  <2>4. CASE m # l
    BY <2>1, <2>2, <2>4 DEF TypeOK, OpInv, LeaseInv, WriterInv, LeaseInMonitor,
       LeaseHasGate, Acquire, LeaseGoes, Alive, OwnerGoes, gates, events,
       OwnerUnchanged
  <2>. QED  BY <2>3, <2>4
<1>4. WriterInv'
  BY DEF WriterInv, Acquire, LeaseGoes, Alive, OwnerGoes, gates, OwnerUnchanged
<1>5. NothingAbandoned'
  BY DEF NothingAbandoned, Acquire, LeaseGoes, Alive, OwnerGoes, OwnerUnchanged
<1>. QED  BY <1>1, <1>2, <1>3, <1>4, <1>5

LEMMA ReturnsInductive ==
  ASSUME NEW l \in Leases, IInv, Returns(l)
  PROVE  IInv'
<1>. USE DeviceLockAssumption DEF IInv, Actors
<1>1. TypeOK'
  BY DEF TypeOK, Returns, IsAcquired, OwnerGoes, gates, events, OwnerUnchanged,
     OwnerStates
<1>2. \A b \in Operations : OpInv(b)'
  BY DEF TypeOK, OpInv, Returns, IsAcquired, OwnerGoes, gates, OwnerUnchanged
<1>3. \A m \in Leases : LeaseInv(m)'
  BY DEF TypeOK, LeaseInv, Returns, IsAcquired, OwnerGoes, gates,
     OwnerUnchanged
<1>4. WriterInv'
  BY DEF WriterInv, Returns, IsAcquired, OwnerGoes, gates, OwnerUnchanged
<1>5. NothingAbandoned'
  BY DEF NothingAbandoned, Returns, IsAcquired, OwnerGoes, OwnerUnchanged
<1>. QED  BY <1>1, <1>2, <1>3, <1>4, <1>5

LEMMA DisposeInductive ==
  ASSUME NEW l \in Leases, IInv, Dispose(l)
  PROVE  IInv'
<1>. USE DeviceLockAssumption DEF IInv, Actors
<1>1. TypeOK'
  BY DEF TypeOK, Dispose, OwnerGoes, gates, events, OwnerUnchanged, OwnerStates
<1>2. \A b \in Operations : OpInv(b)'
  BY DEF TypeOK, OpInv, Dispose, OwnerGoes, gates, OwnerUnchanged
<1>3. \A m \in Leases : LeaseInv(m)'
  BY DEF TypeOK, LeaseInv, Dispose, OwnerGoes, gates, OwnerUnchanged
<1>4. WriterInv'
  BY DEF WriterInv, Dispose, OwnerGoes, gates, OwnerUnchanged
<1>5. NothingAbandoned'
  BY DEF NothingAbandoned, Dispose, OwnerGoes, OwnerUnchanged
<1>. QED  BY <1>1, <1>2, <1>3, <1>4, <1>5

LEMMA SignalsInductive ==
  ASSUME NEW l \in Leases, IInv, Signals(l)
  PROVE  IInv'
<1>. USE DeviceLockAssumption DEF IInv, Actors
<1>1. TypeOK'
  BY DEF TypeOK, Signals, OwnerGoes, gates, OwnerUnchanged, OwnerStates
<1>2. \A b \in Operations : OpInv(b)'
  BY DEF TypeOK, OpInv, Signals, OwnerGoes, gates, OwnerUnchanged
<1>3. \A m \in Leases : LeaseInv(m)'
  BY DEF TypeOK, LeaseInv, Signals, OwnerGoes, gates, OwnerUnchanged
<1>4. WriterInv'
  BY DEF WriterInv, Signals, OwnerGoes, gates, OwnerUnchanged
<1>5. NothingAbandoned'
  BY DEF NothingAbandoned, Signals, OwnerGoes, OwnerUnchanged
<1>. QED  BY <1>1, <1>2, <1>3, <1>4, <1>5

LEMMA JoinsInductive ==
  ASSUME NEW l \in Leases, IInv, Joins(l)
  PROVE  IInv'
<1>. USE DeviceLockAssumption DEF IInv, Actors
<1>1. TypeOK'
  BY DEF TypeOK, Joins, OwnerGoes, gates, OwnerUnchanged, OwnerStates
<1>2. \A b \in Operations : OpInv(b)'
  BY DEF TypeOK, OpInv, Joins, OwnerGoes, gates, OwnerUnchanged
<1>3. \A m \in Leases : LeaseInv(m)'
  BY DEF TypeOK, LeaseInv, Joins, OwnerGoes, gates, OwnerUnchanged
<1>4. WriterInv'
  BY DEF WriterInv, Joins, OwnerGoes, gates, OwnerUnchanged
<1>5. NothingAbandoned'
  BY DEF NothingAbandoned, Joins, OwnerGoes, OwnerUnchanged
<1>. QED  BY <1>1, <1>2, <1>3, <1>4, <1>5

LEMMA ForgetInductive ==
  ASSUME NEW l \in Leases, IInv, Forget(l)
  PROVE  IInv'
<1>. USE DeviceLockAssumption DEF IInv, Actors
<1>1. TypeOK'
  BY DEF TypeOK, Forget, LeaseGoes, OwnerGoes, gates, OwnerUnchanged,
     LeaseStates, OwnerStates
<1>2. \A b \in Operations : OpInv(b)'
  BY DEF TypeOK, OpInv, Forget, LeaseGoes, OwnerGoes, gates, OwnerUnchanged
<1>3. \A m \in Leases : LeaseInv(m)'
  BY DEF TypeOK, LeaseInv, LeaseInMonitor, LeaseHasGate, Forget, LeaseGoes,
     OwnerGoes, gates, OwnerUnchanged
<1>4. WriterInv'
  BY DEF WriterInv, Forget, LeaseGoes, OwnerGoes, gates, OwnerUnchanged
<1>5. NothingAbandoned'
  BY DEF NothingAbandoned, Forget, LeaseGoes, OwnerGoes, OwnerUnchanged
<1>. QED  BY <1>1, <1>2, <1>3, <1>4, <1>5

LEMMA KillInductive ==
  ASSUME NEW p \in Processes, IInv, Kill(p)
  PROVE  IInv'
<1>. USE DeviceLockAssumption DEF IInv, Actors
<1>1. TypeOK'
  BY DEF TypeOK, Kill, OpStates, LeaseStates, OwnerStates
<1>2. \A b \in Operations : OpInv(b)'
  BY DEF TypeOK, OpInv, InMonitor, Kill
<1>3. \A m \in Leases : LeaseInv(m)'
  BY DEF TypeOK, LeaseInv, LeaseInMonitor, LeaseHasGate, Kill
<1>4. WriterInv'
  BY DEF TypeOK, WriterInv, Kill
<1>5. NothingAbandoned'
  BY DEF NothingAbandoned, Kill
<1>. QED  BY <1>1, <1>2, <1>3, <1>4, <1>5

-----------------------------------------------------------------------------
(* The initial state, the steps, and what the invariant implies.           *)

LEMMA InitInv == Init => IInv
<1>. SUFFICES ASSUME Init PROVE IInv
  OBVIOUS
<1>. USE DeviceLockAssumption DEF Init, Actors
<1>1. TypeOK
  <2>1. abandoned \in BOOLEAN /\ dead \subseteq Processes
    OBVIOUS
  <2>. QED  BY <2>1 DEF TypeOK, OpStates, LeaseStates, OwnerStates
<1>2. \A a \in Operations : OpInv(a)
  BY DEF OpInv, InMonitor
<1>3. \A l \in Leases : LeaseInv(l)
  BY DEF LeaseInv, LeaseInMonitor, LeaseHasGate
<1>4. WriterInv /\ NothingAbandoned
  BY DEF WriterInv, NothingAbandoned
<1>. QED  BY <1>1, <1>2, <1>3, <1>4 DEF IInv

LEMMA StutterInductive == IInv /\ UNCHANGED vars => IInv'
  BY DEF IInv, TypeOK, OpInv, LeaseInv, WriterInv, NothingAbandoned, vars,
         gates, events

LEMMA NextInductive == IInv /\ [Next]_vars => IInv'
<1>. SUFFICES ASSUME IInv, [Next]_vars PROVE IInv'
  OBVIOUS
<1>1. ASSUME NEW a \in Operations,
             Call(a) \/ LocalBusy(a) \/ OperationStep(a)
      PROVE  IInv'
  BY <1>1, CallInductive, LocalBusyInductive, EnterLocalInductive,
     ChecksWriterInductive, EnterGateInductive, ProbeWriterInductive,
     ProbedInductive, CommandEndsInductive, UngateInductive, LeaveInductive
     DEF OperationStep
<1>2. ASSUME NEW l \in Leases, LeaseStep(l)
      PROVE  IInv'
  BY <1>2, LeaseStartsInductive, LeaseTakesGateInductive,
     LeaseTakesWriterInductive, PublishesInductive, LeaseUngatesInductive,
     ReadiesInductive, AskedInductive, LeaseEntersLocalInductive,
     RegatesInductive, ClearsInductive, UnwritesInductive,
     LeaseLeavesGateInductive, LeaseLeavesLocalInductive, LeaseEndsInductive
     DEF LeaseStep
<1>3. ASSUME NEW l \in Leases,
             Acquire(l) \/ Dispose(l) \/ OwnerStep(l) \/ Forget(l)
      PROVE  IInv'
  BY <1>3, AcquireInductive, DisposeInductive, ReturnsInductive,
     SignalsInductive, JoinsInductive, ForgetInductive DEF OwnerStep
<1>4. ASSUME NEW p \in Processes, Kill(p)
      PROVE  IInv'
  BY <1>4, KillInductive
<1>5. CASE UNCHANGED vars
  BY <1>5, StutterInductive
<1>. QED  BY <1>1, <1>2, <1>3, <1>4, <1>5 DEF Next

(* A thread that is in the monitor keeps the others of its process out, a  *)
(* writer is alone, and a command that has no gate has a writer.           *)
LEMMA CommandAlone ==
  ASSUME IInv, NEW a \in Operations, op[a] = "command"
  PROVE  /\ \A b \in Operations : op[b] = "command" => b = a
         /\ \A p \in Processes : active_writer[p] # Free => Home[a] = p
<1>. USE DeviceLockAssumption DEF IInv
<1>1. \A b \in Operations : op[b] = "command" => local_lock[Home[b]] = b
  BY DEF OpInv, InMonitor
<1>2. \A p \in Processes : active_writer[p] # Free => Home[a] = p
  <2>1. CASE process_gate = a
    BY <2>1 DEF OpInv
  <2>2. CASE process_gate # a
    BY <2>2 DEF OpInv, WriterInv
  <2>. QED  BY <2>1, <2>2
<1>3. \A b \in Operations : op[b] = "command" => Home[b] = Home[a]
  <2>. SUFFICES ASSUME NEW b \in Operations, op[b] = "command", b # a
                PROVE  Home[b] = Home[a]
    OBVIOUS
  <2>1. active_writer[Home[a]] # Free \/ active_writer[Home[b]] # Free
    BY DEF OpInv
  <2>2. \A p \in Processes : active_writer[p] # Free => Home[b] = p
    <3>1. CASE process_gate = b
      BY <3>1 DEF OpInv
    <3>2. CASE process_gate # b
      BY <3>2 DEF OpInv, WriterInv
    <3>. QED  BY <3>1, <3>2
  <2>. QED  BY <1>2, <2>1, <2>2
<1>. QED  BY <1>1, <1>2, <1>3

LEMMA SafetyFromInv == IInv => OneCommand /\ WriterAlone /\ LeaseOwnsGate
<1>1. IInv => OneCommand
  BY CommandAlone DEF OneCommand
<1>2. IInv => WriterAlone
  BY CommandAlone DEF WriterAlone
<1>3. IInv => LeaseOwnsGate
  BY DEF IInv, WriterInv, LeaseOwnsGate
<1>. QED  BY <1>1, <1>2, <1>3

LEMMA SafetyAfter == IInv' => OneCommand' /\ WriterAlone'
  BY SafetyFromInv, PTL

-----------------------------------------------------------------------------
(* The theorems.                                                           *)

(* Which lock every thread owns at every point of TryEnterOperation,       *)
(* OperationScope.Dispose and LeaseThreadMain.                             *)
THEOREM Invariant == Spec => []IInv
  BY InitInv, NextInductive, PTL DEF Spec

(* The locks name threads, and the writer of a process is a lease.         *)
THEOREM TypeCorrect == Spec => []TypeOK
<1>1. IInv => TypeOK
  BY DEF IInv
<1>. QED  BY <1>1, Invariant, PTL

(* Two threads never execute a SCSI command on the drive at once, be they  *)
(* of one process or of two, with a writer lease or without.               *)
THEOREM DriveExclusive == Spec => []OneCommand
  BY SafetyFromInv, Invariant, PTL

(* Nobody's command reaches a drive another process has reserved.          *)
THEOREM WriterExclusive == Spec => []WriterAlone
  BY SafetyFromInv, Invariant, PTL

(* A published writer owns the mutex the other processes probe.            *)
THEOREM LeaseBacked == Spec => []LeaseOwnsGate
  BY SafetyFromInv, Invariant, PTL

(* The early Return of LeaseThreadMain that would skip the release of the  *)
(* writer gate is never taken.                                             *)
THEOREM NoMutexLeft == Spec => []NothingAbandoned
<1>1. IInv => NothingAbandoned
  BY DEF IInv
<1>. QED  BY <1>1, Invariant, PTL

-----------------------------------------------------------------------------
(* The refinement.                                                         *)

Commands == {a \in Operations : op[a] = "command"}
Writers == {p \in Processes : active_writer[p] # Free}

DeviceSame == Commands' = Commands /\ Writers' = Writers

(* A command begins when the thread has found its process to be the writer,*)
(* or has seen both gates free.                                            *)
LEMMA CommandBegins ==
  ASSUME IInv, NEW a \in Operations, op[a] # "command", op'[a] = "command",
         op' = [op EXCEPT ![a] = "command"], UNCHANGED active_writer, IInv'
  PROVE  Commands = {} /\ Commands' = {a} /\ Writers \subseteq {Home[a]}
<1>. USE DeviceLockAssumption
<1>1. op \in [Operations -> OpStates]
  BY DEF IInv, TypeOK
<1>2. \A b \in Operations : op'[b] = "command" => b = a
  <2>1. OneCommand'
    BY SafetyAfter
  <2>. QED  BY <2>1 DEF OneCommand
<1>3. Commands = {} /\ Commands' = {a}
  BY <1>1, <1>2 DEF Commands
<1>4. WriterAlone'
  BY SafetyAfter
<1>5. Writers \subseteq {Home[a]}
  BY <1>4 DEF WriterAlone, Writers
<1>. QED  BY <1>3, <1>5

LEMMA OperationRefines ==
  ASSUME IInv, IInv', NEW a \in Operations,
         Call(a) \/ LocalBusy(a) \/ OperationStep(a)
  PROVE  Device!Next \/ DeviceSame
<1>. USE DEF OpGoes, OpUnchanged
<1>1. op \in [Operations -> OpStates]
  BY DEF IInv, TypeOK
<1>2. UNCHANGED active_writer /\ Writers' = Writers
  BY DEF Call, LocalBusy, OperationStep, EnterLocal, ChecksWriter, EnterGate,
         ProbeWriter, Probed, CommandEnds, Ungate, Leave, Writers
<1>3. CASE op[a] # "command" /\ op' = [op EXCEPT ![a] = "command"]
  <2>1. Commands = {} /\ Commands' = {a} /\ Writers \subseteq {Home[a]}
    BY <1>1, <1>2, <1>3, CommandBegins
  <2>2. Device!Begin(a)
    BY <1>2, <2>1 DEF Device!Begin, Commands, Writers
  <2>. QED  BY <2>2 DEF Device!Next
<1>4. CASE CommandEnds(a)
  <2>1. Commands' = Commands \ {a}
    BY <1>1, <1>4 DEF CommandEnds, Commands
  <2>2. Device!End(a)
    BY <1>2, <2>1 DEF Device!End, Commands, Writers
  <2>. QED  BY <2>2 DEF Device!Next
<1>5. CASE \E s \in OpStates \ {"command"} :
             op[a] # "command" /\ op' = [op EXCEPT ![a] = s]
  <2>1. Commands' = Commands
    BY <1>1, <1>5 DEF Commands
  <2>. QED  BY <1>2, <2>1 DEF DeviceSame
<1>6. \/ op[a] # "command" /\ op' = [op EXCEPT ![a] = "command"]
      \/ CommandEnds(a)
      \/ \E s \in OpStates \ {"command"} :
           op[a] # "command" /\ op' = [op EXCEPT ![a] = s]
  BY DEF Call, LocalBusy, OperationStep, EnterLocal, ChecksWriter, EnterGate,
         ProbeWriter, Probed, Ungate, Leave, OpStates
<1>. QED  BY <1>3, <1>4, <1>5, <1>6

(* The drive is reserved, and given up, while no command is executed.      *)
LEMMA LeaseRefines ==
  ASSUME IInv, IInv', NEW l \in Leases, LeaseStep(l)
  PROVE  Device!Next \/ DeviceSame
<1>. USE DeviceLockAssumption DEF LeaseGoes, LeaseUnchanged
<1>1. Commands' = Commands
  BY DEF LeaseStep, LeaseStarts, LeaseTakesGate, LeaseTakesWriter, Publishes,
         LeaseUngates, Readies, Asked, LeaseEntersLocal, Regates, Clears,
         Unwrites, LeaseLeavesGate, LeaseLeavesLocal, LeaseEnds, Commands
<1>2. active_writer \in [Processes -> Leases \union {Free}]
  BY DEF IInv, TypeOK
<1>3. Home[l] \in Processes
  OBVIOUS
<1>4. CASE Publishes(l)
  <2>1. process_gate = l /\ writer_gate = l /\ active_writer[Home[l]] # l
    BY <1>4 DEF Publishes, IInv, LeaseInv, LeaseHasGate
  <2>2. Writers = {}
    BY <2>1 DEF IInv, WriterInv, Writers
  <2>3. Commands = {}
    BY <2>1, <2>2 DEF IInv, OpInv, Commands, Writers
  <2>4. Writers' = {Home[l]}
    BY <1>2, <1>3, <1>4, <2>2 DEF Publishes, Writers
  <2>5. Device!Reserve(Home[l])
    BY <1>1, <2>2, <2>3, <2>4 DEF Device!Reserve, Commands, Writers
  <2>. QED  BY <1>3, <2>5 DEF Device!Next
<1>5. CASE Clears(l)
  <2>1. /\ process_gate = l /\ writer_gate = l
        /\ local_lock[Home[l]] = l /\ active_writer[Home[l]] = l
    BY <1>5 DEF Clears, IInv, LeaseInv, LeaseHasGate, LeaseInMonitor
  <2>2. Commands = {}
    <3>. SUFFICES ASSUME NEW b \in Operations, op[b] = "command"
                  PROVE  FALSE
      BY DEF Commands
    <3>1. Home[b] = Home[l]
      BY <1>3, <2>1, CommandAlone
    <3>2. local_lock[Home[b]] = b
      BY DEF IInv, OpInv, InMonitor
    <3>. QED  BY <2>1, <3>1, <3>2
  <2>3. Writers' = Writers \ {Home[l]}
    BY <1>2, <1>3, <1>5, <2>1 DEF Clears, Writers
  <2>4. Device!Release(Home[l])
    BY <1>1, <2>2, <2>3 DEF Device!Release, Commands, Writers
  <2>. QED  BY <1>3, <2>4 DEF Device!Next
<1>6. CASE UNCHANGED active_writer
  BY <1>1, <1>6 DEF DeviceSame, Writers
<1>7. Publishes(l) \/ Clears(l) \/ UNCHANGED active_writer
  BY DEF LeaseStep, LeaseStarts, LeaseTakesGate, LeaseTakesWriter,
         LeaseUngates, Readies, Asked, LeaseEntersLocal, Regates, Unwrites,
         LeaseLeavesGate, LeaseLeavesLocal, LeaseEnds
<1>. QED  BY <1>4, <1>5, <1>6, <1>7

LEMMA KillRefines ==
  ASSUME IInv, NEW p \in Processes, Kill(p)
  PROVE  Device!Next
<1>1. op \in [Operations -> OpStates]
      /\ active_writer \in [Processes -> Leases \union {Free}]
  BY DEF IInv, TypeOK
<1>2. Commands' = {a \in Commands : Home[a] # p}
  BY <1>1 DEF Kill, Commands
<1>3. Writers' = Writers \ {p}
  BY <1>1 DEF Kill, Writers
<1>4. Device!Die(p)
  BY <1>2, <1>3 DEF Device!Die, Commands, Writers
<1>. QED  BY <1>4 DEF Device!Next

LEMMA NextRefines ==
  IInv /\ IInv' /\ [Next]_vars => [Device!Next]_Device!deviceVars
<1>. SUFFICES ASSUME IInv, IInv', [Next]_vars
              PROVE  Device!Next \/ DeviceSame
  BY DEF Device!deviceVars, DeviceSame, Commands, Writers
<1>1. ASSUME NEW a \in Operations,
             Call(a) \/ LocalBusy(a) \/ OperationStep(a)
      PROVE  Device!Next \/ DeviceSame
  BY <1>1, OperationRefines
<1>2. ASSUME NEW l \in Leases, LeaseStep(l)
      PROVE  Device!Next \/ DeviceSame
  BY <1>2, LeaseRefines
<1>3. ASSUME NEW l \in Leases,
             Acquire(l) \/ Dispose(l) \/ OwnerStep(l) \/ Forget(l)
      PROVE  DeviceSame
  BY <1>3 DEF Acquire, Dispose, OwnerStep, Returns, Signals, Joins, Forget,
     OwnerUnchanged, DeviceSame, Commands, Writers
<1>4. ASSUME NEW p \in Processes, Kill(p)
      PROVE  Device!Next
  BY <1>4, KillRefines
<1>5. CASE UNCHANGED vars
  BY <1>5 DEF vars, DeviceSame, Commands, Writers
<1>. QED  BY <1>1, <1>2, <1>3, <1>4, <1>5 DEF Next

(* SCSIDeviceLockManager implements ExclusiveDevice: its monitor, its two  *)
(* named mutexes and its lease threads let every process see a drive that  *)
(* executes one command at a time and can be reserved, whichever of them   *)
(* is killed.                                                              *)
THEOREM Refinement == Spec => ImplementsDevice
<1>1. Init => Device!Init
  BY DEF Init, Device!Init
<1>. QED
  BY <1>1, NextRefines, Invariant, PTL DEF Spec, ImplementsDevice, Device!Spec
=============================================================================
