--------------------------- MODULE ExclusiveDevice ---------------------------
(***************************************************************************)
(* What SCSIDeviceLockManager promises about one tape drive that several   *)
(* programs share: SCSI commands are executed one at a time, and while a   *)
(* writer has reserved the drive only the commands of its own process are. *)
(***************************************************************************)
EXTENDS FiniteSets

CONSTANTS
  Operations,   (* threads that send commands to the drive                   *)
  Processes,    (* the programs they belong to                               *)
  Home          (* [Operations -> Processes], or of more than Operations     *)

VARIABLES
  commands,     (* the threads whose command the drive is executing          *)
  writers       (* the processes that have reserved it                       *)

deviceVars == <<commands, writers>>

Init == commands = {} /\ writers = {}

Begin(a) ==
  /\ commands = {} /\ writers \subseteq {Home[a]}
  /\ commands' = {a} /\ UNCHANGED writers

End(a) == commands' = commands \ {a} /\ UNCHANGED writers

Reserve(p) ==
  /\ commands = {} /\ writers = {}
  /\ writers' = {p} /\ UNCHANGED commands

Release(p) ==
  /\ commands = {}
  /\ writers' = writers \ {p} /\ UNCHANGED commands

(* A process that dies takes its command and its reservation with it.      *)
Die(p) ==
  /\ commands' = {a \in commands : Home[a] # p}
  /\ writers' = writers \ {p}

Next ==
  \/ \E a \in Operations : Begin(a) \/ End(a)
  \/ \E p \in Processes : Reserve(p) \/ Release(p) \/ Die(p)

Spec == Init /\ [][Next]_deviceVars
=============================================================================
