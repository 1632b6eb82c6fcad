------------------------------ MODULE TapeFile ------------------------------
(***************************************************************************)
(* lfr_bridge_stream_tape_file: the bytes of one LTFS file, given as       *)
(* extents of a tape, become slots of the bridge.  The extents are sorted  *)
(* and validated, the tape is read block by block with retries, and the    *)
(* blocks are repacked into slots of another size.  TapeBridge reads a     *)
(* piece of a file in one step; this module is that step, and says which   *)
(* bytes the piece is made of.                                             *)
(*                                                                         *)
(* The drive keeps a head position: a READ returns the record under the    *)
(* head and moves past it, a command that fails leaves the head anywhere.  *)
(* A byte is the record it was read from and its index there; a block      *)
(* number stands for a partition and a block number in it.                 *)
(***************************************************************************)
EXTENDS Naturals, Sequences, FiniteSets

CONSTANTS
  BlockSize,         (* source_block_size                                   *)
  TargetSlotSize,    (* the slot size of the target's bridge                *)
  Record,            (* length of each record on the tape, 0 for a filemark *)
  Inputs,            (* file lengths and extent lists a manifest may give   *)
  AutomaticRetries   (* retries before the user is asked                    *)

Blocks == DOMAIN Record
(* The head is on a block or past one.                                     *)
Heads == Blocks \union {b + 1 : b \in Blocks}

Extents == [file_offset : Nat, start_block : Blocks, byte_offset : Nat,
            byte_count : Nat]

ASSUME TapeAssumption ==
  /\ BlockSize \in Nat \ {0} /\ TargetSlotSize \in Nat \ {0}
  /\ Record \in [Blocks -> 0..BlockSize] /\ Blocks \subseteq Nat
  /\ \A in \in Inputs : in.length \in Nat /\ in.extents \in Seq(Extents)
  /\ AutomaticRetries \in 0..10

VARIABLES
  input,            (* the file that is streamed                            *)
  pc, result,       (* where the call is and how it ended                   *)
  extents,          (* the extents not yet read completely                  *)
  remaining, byte_offset, physical_block, (* of the first of extents        *)
  locate,           (* need_locate: the head may not be where it should     *)
  attempt,          (* automatic retries made for this block                *)
  head,             (* the drive's position                                 *)
  record,           (* the record READ returned: its block, the part        *)
                    (* [from, to) of it still to copy                       *)
  buffer,           (* target_buffer: bytes that do not fill a slot yet     *)
  logical_offset,   (* the file's bytes published                           *)
  published,        (* the slots published                                  *)
  cancel_event

extentVars == <<extents, remaining, byte_offset, physical_block>>
driveVars == <<locate, attempt, head, record>>
outVars == <<buffer, logical_offset, published>>
fileVars == <<input, pc, result, extentVars, driveVars, outVars, cancel_event>>

MinOf(a, b) == IF a <= b THEN a ELSE b

States == {"validate", "extent", "attempt", "locate", "read", "failed",
           "prompt", "check", "copy", "advance", "tail", "eof", "ended"}
Results == {"none", "ok", "invalid", "cancelled", "error"}

FileInit ==
  /\ input \in Inputs
  /\ pc = "validate" /\ result = "none"
  /\ extents = <<>> /\ remaining = 0 /\ byte_offset = 0 /\ physical_block = 0
  /\ locate = FALSE /\ attempt = 0 /\ head \in Heads
  /\ record = [block |-> 0, from |-> 0, to |-> 0]
  /\ buffer = <<>> /\ logical_offset = 0 /\ published = <<>>
  /\ cancel_event = FALSE

Goes(s) == pc' = s /\ UNCHANGED result
Ends(how) == pc' = "ended" /\ result' = how

-----------------------------------------------------------------------------
(* The extents, sorted, must cover the file without gap or overlap.        *)

(* The ways to list extents in the order of their offsets.                *)
Orders(list) ==
  {order \in [DOMAIN list -> DOMAIN list] :
     \A i, j \in DOMAIN list :
       i < j => /\ order[i] # order[j]
                /\ list[order[i]].file_offset <= list[order[j]].file_offset}

Sorted(list) ==
  LET order == CHOOSE order \in Orders(list) : TRUE
  IN  [n \in DOMAIN list |-> list[order[n]]]

CoveredUpTo(list) ==
  LET end[n \in 0..Len(list)] ==
        IF n = 0 THEN 0 ELSE end[n - 1] + list[n].byte_count
  IN  end

Valid_LengthOnly(list, length) == CoveredUpTo(list)[Len(list)] = length

Valid(list, length) ==
  /\ \A n \in DOMAIN list :
       /\ list[n].file_offset = CoveredUpTo(list)[n - 1]
       /\ list[n].byte_count # 0
       /\ list[n].byte_offset < BlockSize
  /\ CoveredUpTo(list)[Len(list)] = length

Validate ==
  /\ pc = "validate"
  /\ LET values == Sorted(input.extents)
     IN  IF Valid(values, input.length)
         THEN extents' = values /\ Goes("extent")
         ELSE Ends("invalid") /\ UNCHANGED extents
  /\ UNCHANGED <<input, remaining, byte_offset, physical_block, driveVars,
                 outVars, cancel_event>>

StartExtent ==
  /\ pc = "extent"
  /\ IF extents = <<>>
     THEN /\ Goes("tail")
          /\ UNCHANGED <<extentVars, driveVars>>
     ELSE /\ remaining' = Head(extents).byte_count
          /\ byte_offset' = Head(extents).byte_offset
          /\ physical_block' = Head(extents).start_block
          /\ extents' = Tail(extents)
          /\ locate' = TRUE /\ attempt' = 0
          /\ UNCHANGED <<head, record>>
          /\ Goes("attempt")
  /\ UNCHANGED <<input, outVars, cancel_event>>

-----------------------------------------------------------------------------
(* One block, with retries.                                                *)

BlockSide == <<input, extentVars, outVars, cancel_event>>

AfterCancel_Ignored == FALSE
AfterCancel == cancel_event

Attempt ==
  /\ pc = "attempt"
  /\ IF AfterCancel THEN Ends("cancelled")
     ELSE Goes(IF locate \/ attempt > 0 THEN "locate" ELSE "read")
  /\ UNCHANGED <<BlockSide, driveVars>>

(* LOCATE puts the head on the block or fails and leaves it anywhere.      *)
Locate ==
  /\ pc = "locate"
  /\ \/ head' \in {physical_block} \intersect Blocks /\ Goes("read")
     \/ head' \in Heads /\ Goes("failed")
  /\ UNCHANGED <<BlockSide, locate, attempt, record>>

Required == MinOf(remaining + byte_offset, BlockSize)

(* READ returns the record under the head, or as much of it as was asked   *)
(* for; a filemark, an empty record or any other sense is an error.        *)
Read ==
  /\ pc = "read"
  /\ \/ /\ head \in Blocks /\ Record[head] > 0
        /\ record' = [block |-> head, from |-> byte_offset,
                      to |-> MinOf(Required, Record[head])]
        /\ head' = head + 1
        /\ Goes("check")
     \/ head' \in Heads /\ Goes("failed") /\ UNCHANGED record
  /\ UNCHANGED <<BlockSide, locate, attempt>>

RetriesLeft == attempt < AutomaticRetries

(* A pause before the next attempt, which a cancellation ends; after the   *)
(* last one the user is asked.                                             *)
AttemptFails ==
  /\ pc = "failed"
  /\ locate' = TRUE
  /\ \/ /\ RetriesLeft
        /\ attempt' = attempt + 1
        /\ \/ Goes("attempt")
           \/ cancel_event /\ Ends("cancelled")
     \/ /\ ~RetriesLeft
        /\ UNCHANGED attempt
        /\ Goes("prompt")
  /\ UNCHANGED <<BlockSide, head, record>>

Prompt ==
  /\ pc = "prompt"
  /\ \/ attempt' = 0 /\ Goes("attempt")
     \/ Ends("error") /\ UNCHANGED attempt
  /\ UNCHANGED <<BlockSide, locate, head, record>>

(* A record that does not reach the extent's first byte is an error; of a  *)
(* longer one only what the extent still needs is taken.                   *)
CheckRecord ==
  /\ pc = "check"
  /\ IF record.to <= byte_offset
     THEN Ends("error") /\ UNCHANGED record
     ELSE /\ record' = [record EXCEPT !.to =
                          byte_offset + MinOf(record.to - byte_offset, remaining)]
          /\ Goes("copy")
  /\ locate' = FALSE
  /\ UNCHANGED <<BlockSide, attempt, head>>

-----------------------------------------------------------------------------
(* Repacking.                                                              *)

BytesOf(r, n) == [i \in 1..n |-> <<r.block, r.from + i - 1>>]

(* bridge_publish: waits for an empty slot, and fails if the bridge is     *)
(* cancelled or has an error.                                              *)
Publish(bytes, eof) ==
  /\ published' = Append(published, [offset |-> logical_offset,
                                    bytes |-> bytes, eof |-> eof])
  /\ logical_offset' = logical_offset + Len(bytes)

PublishFails ==
  /\ Ends(IF cancel_event THEN "cancelled" ELSE "error")
  /\ UNCHANGED <<published, logical_offset>>

(* The slot is filled from the record, and published when it is full.      *)
Copy ==
  /\ pc = "copy"
  /\ LET n    == MinOf(TargetSlotSize - Len(buffer), record.to - record.from)
         full == buffer \o BytesOf(record, n)
     IN  \/ /\ record' = [record EXCEPT !.from = @ + n]
            /\ remaining' = remaining - n
            /\ IF Len(full) = TargetSlotSize
               THEN Publish(full, FALSE) /\ buffer' = <<>>
               ELSE buffer' = full /\ UNCHANGED <<published, logical_offset>>
            /\ Goes(IF record.from + n < record.to THEN "copy" ELSE "advance")
         \/ /\ Len(full) = TargetSlotSize
            /\ PublishFails
            /\ UNCHANGED <<record, buffer, remaining>>
  /\ UNCHANGED <<input, extents, byte_offset, physical_block, locate, attempt,
                 head, cancel_event>>

OffsetInNextBlock_Kept == byte_offset
OffsetInNextBlock == 0

Advance ==
  /\ pc = "advance"
  /\ byte_offset' = OffsetInNextBlock
  /\ attempt' = 0
  /\ physical_block' = IF remaining > 0 THEN physical_block + 1 ELSE physical_block
  /\ Goes(IF remaining > 0 THEN "attempt" ELSE "extent")
  /\ UNCHANGED <<input, extents, remaining, locate, head, record, outVars,
                 cancel_event>>

PublishTail ==
  /\ pc = "tail"
  /\ \/ /\ buffer = <<>> /\ Goes("eof")
        /\ UNCHANGED <<published, logical_offset>>
     \/ /\ buffer # <<>>
        /\ \/ Publish(buffer, FALSE) /\ Goes("eof")
           \/ PublishFails
  /\ buffer' = <<>>
  /\ UNCHANGED <<input, extentVars, driveVars, cancel_event>>

PublishEof ==
  /\ pc = "eof"
  /\ IF logical_offset # input.length
     THEN Ends("error") /\ UNCHANGED <<published, logical_offset>>
     ELSE \/ Publish(<<>>, TRUE) /\ Ends("ok")
          \/ PublishFails
  /\ UNCHANGED <<input, extentVars, driveVars, buffer, cancel_event>>

Cancel ==
  /\ cancel_event' = TRUE
  /\ UNCHANGED <<input, pc, result, extentVars, driveVars, outVars>>

StreamFile ==
  \/ Validate \/ StartExtent
  \/ Attempt \/ Locate \/ Read \/ AttemptFails \/ Prompt \/ CheckRecord
  \/ Copy \/ Advance \/ PublishTail \/ PublishEof

FileNext == StreamFile \/ Cancel

FileSpec == FileInit /\ [][FileNext]_fileVars

(* Every command of the drive ends and the prompt is answered.             *)
FairFileSpec == FileSpec /\ WF_fileVars(StreamFile)

-----------------------------------------------------------------------------
(* Properties.                                                             *)

Byte == Nat \X (0..BlockSize - 1)

FileTypeOK ==
  /\ input \in Inputs
  /\ pc \in States /\ result \in Results
  /\ extents \in Seq(Extents)
  /\ remaining \in Nat /\ byte_offset \in Nat /\ physical_block \in Nat
  /\ locate \in BOOLEAN /\ attempt \in 0..AutomaticRetries
  /\ head \in Heads
  /\ record \in [block : Nat, from : Nat, to : 0..BlockSize]
  /\ buffer \in Seq(Byte) /\ Len(buffer) < TargetSlotSize
  /\ logical_offset \in Nat
  /\ published \in Seq([offset : Nat, bytes : Seq(Byte), eof : BOOLEAN])
  /\ cancel_event \in BOOLEAN

(* What the extents say the file is: the byte at offset o lies in the one  *)
(* extent that contains o, as many bytes after the extent's first byte,    *)
(* which is byte byte_offset of block start_block.                         *)
Containing(in, o) ==
  {n \in DOMAIN in.extents :
     /\ in.extents[n].file_offset <= o
     /\ o < in.extents[n].file_offset + in.extents[n].byte_count}

FileByte(in, o) ==
  LET e == in.extents[CHOOSE n \in Containing(in, o) : TRUE]
      i == e.byte_offset + o - e.file_offset
  IN  <<e.start_block + i \div BlockSize, i % BlockSize>>

Covers(in) ==
  /\ \A o \in 0..in.length - 1 : Cardinality(Containing(in, o)) = 1
  /\ \A n \in DOMAIN in.extents :
       /\ in.extents[n].byte_count > 0
       /\ in.extents[n].file_offset + in.extents[n].byte_count <= in.length
       /\ in.extents[n].byte_offset < BlockSize

(* Exactly the extent lists that cover every byte of the file once, in     *)
(* whatever order the index lists them, are accepted.                      *)
AcceptsExactly ==
  pc # "validate" => (result = "invalid" <=> ~Covers(input))

(* The index tells the truth about the tape: every byte it names exists.   *)
(* So only an extent's last record may be shorter than a block.            *)
OnTape(in) ==
  \A o \in 0..in.length - 1 :
    LET byte == FileByte(in, o)
    IN  byte[1] \in Blocks /\ byte[2] < Record[byte[1]]

(* The slots are the file cut into full slots but for the last, and hold   *)
(* its bytes in order, whatever the block size, the extents and the        *)
(* retries: the pieces TapeBridge publishes.                               *)
SlotsExact ==
  /\ \A n \in DOMAIN published :
       /\ published[n].offset = MinOf((n - 1) * TargetSlotSize, input.length)
       /\ Len(published[n].bytes) =
            MinOf(TargetSlotSize, input.length - published[n].offset)
       /\ published[n].eof <=> published[n].offset = input.length
       /\ OnTape(input) =>
            \A i \in DOMAIN published[n].bytes :
              published[n].bytes[i] = FileByte(input, published[n].offset + i - 1)
  /\ result = "ok" => /\ published # <<>>
                      /\ published[Len(published)].eof

(* A cancellation ends the call, also while the user keeps retrying a      *)
(* block that cannot be read.                                              *)
CancelEnds == cancel_event ~> pc = "ended"
=============================================================================
