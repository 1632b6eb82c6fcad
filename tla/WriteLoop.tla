------------------------------ MODULE WriteLoop ------------------------------
(***************************************************************************)
(* The write command of LTFSWriter over the managed provider: the writer   *)
(* thread takes the files of its list from the ring one after the other,   *)
(* writes them to the tape in blocks, commits the finished ones to the     *)
(* index in memory and now and then writes that index to the tape.  The    *)
(* blocks of a large file are written by a task each, one at a time, while *)
(* the thread already reads the next one.  The user may stop the command   *)
(* at any moment, the drive may fail a block or come to its end.           *)
(*                                                                         *)
(* The tape is the sequence of what was written to it: data blocks with    *)
(* their bytes, and indexes with the files they list.  A file's hash and   *)
(* the data of the index partition are left out.                           *)
(***************************************************************************)
EXTENDS FileProvider

CONSTANTS
  Content,      \* what is in each file: equal contents have equal hashes
  BlockSize,    \* plabel.blocksize
  TapeBlocks,   \* blocks the tape holds at most
  DriveErrors   \* bound on the blocks the drive fails

ASSUME WriteAssumption ==
  /\ Content \in [File -> Nat]
  /\ BlockSize \in Nat \ {0}
  /\ TapeBlocks \in Nat
  /\ DriveErrors \in Nat

VARIABLES
  writer,       \* step of the writer thread
  index,        \* i: the file it is at
  left,         \* remainingInFile
  block,        \* bytes of the block being read
  segment,      \* bytes of the ring segment being copied
  task,         \* LastWriteTask: none, writing, asked, closing, done, faulted
  taskBlock,    \* the block that task writes
  stopFlag,     \* StopFlag
  extent,       \* where a file's extent starts on the tape, 0 without one
  uses,         \* dedupeReferenceUseCount
  released,     \* entries of WriteList set to Nothing
  finished,     \* completedWriteRecords
  committed,    \* files in the index in memory
  tape,         \* what the data partition holds
  room,         \* blocks the tape still takes
  errors,       \* blocks the drive failed so far
  accepted      \* files with a block the user chose not to write again

fileVars == <<left, block, segment>>
taskVars == <<task, taskBlock>>
planVars == <<extent, uses, released>>
indexVars == <<finished, committed>>
tapeVars == <<tape, room, errors, accepted>>
writeVars == <<writer, index, fileVars, taskVars, stopFlag, planVars,
               indexVars, tapeVars>>
vars == <<providerVars, writeVars>>

\* BuildWritePlan: the first file of the same length and hash.
Canonical(f) ==
  CHOOSE g \in 1..f :
    /\ Length[g] = Length[f] /\ Content[g] = Content[f]
    /\ \A h \in 1..(g - 1) : Length[h] # Length[f] \/ Content[h] # Content[f]

Duplicate(f) == Length[f] > 0 /\ Canonical(f) # f
Material(f) == Length[f] > 0 /\ Canonical(f) = f
OneBlock(f) == Length[f] <= BlockSize

Init ==
  /\ ProviderInit
  /\ writer = "next"
  /\ index = 0
  /\ left = 0 /\ block = << >> /\ segment = 0
  /\ task = "none" /\ taskBlock = << >>
  /\ stopFlag = FALSE
  /\ extent = [f \in File |-> 0]
  /\ uses = [f \in File |->
               Cardinality({g \in File : Duplicate(g) /\ Canonical(g) = f})]
  /\ released = {}
  /\ finished = {} /\ committed = {}
  /\ tape = << >> /\ room = TapeBlocks /\ errors = 0 /\ accepted = {}

-----------------------------------------------------------------------------
\* Going through the list.

\* Catch of the loop: StopFlag is set and the loop left.
Fail ==
  /\ stopFlag' = TRUE
  /\ writer' = "commit"

\* A duplicate takes the extent of the record it refers to, which fails when
\* that record is gone; its bytes are still to be drained from the ring.
BeginDuplicate(f) ==
  IF Canonical(f) \in released
    THEN Fail /\ UNCHANGED <<extent, uses, released>>
    ELSE /\ writer' = "drain"
         /\ extent' = [extent EXCEPT ![f] = extent[Canonical(f)]]
         /\ uses' = [uses EXCEPT ![Canonical(f)] = @ - 1]
         /\ released' = IF uses[Canonical(f)] <= 1
                          THEN released \cup {Canonical(f)} ELSE released
         /\ UNCHANGED stopFlag

BeginFile ==
  /\ writer = "next"
  /\ index < Last
  /\ index' = index + 1
  /\ block' = << >>
  /\ LET f == index + 1
     IN  /\ left' = Length[f]
         /\ IF Duplicate(f) THEN BeginDuplicate(f)
            ELSE /\ writer' = IF Length[f] = 0 THEN "finish" ELSE "opening"
                 /\ extent' = [extent EXCEPT ![f] =
                                 IF Length[f] = 0 THEN 0 ELSE Len(tape) + 1]
                 /\ UNCHANGED <<stopFlag, uses, released>>
  /\ UNCHANGED <<providerVars, segment, taskVars, indexVars, tapeVars>>

EndOfList ==
  /\ writer = "next"
  /\ index = Last
  /\ writer' = "commit"
  /\ UNCHANGED <<providerVars, index, fileVars, taskVars, stopFlag, planVars,
                 indexVars, tapeVars>>

\* The wait for IsOpened looks at the producer after it looked at the file.
AwaitOpened ==
  /\ writer = "opening"
  /\ writer' = IF stopFlag THEN "commit"
               ELSE IF index \in opened THEN "read" ELSE "doubt"
  /\ UNCHANGED <<providerVars, index, fileVars, taskVars, stopFlag, planVars,
                 indexVars, tapeVars>>

ProducerCompleted_Never == FALSE

ProducerCompleted == producer = "done"

AskProducer ==
  /\ writer = "doubt"
  /\ IF ProducerCompleted THEN Fail
     ELSE writer' = "opening" /\ UNCHANGED stopFlag
  /\ UNCHANGED <<providerVars, index, fileVars, taskVars, planVars, indexVars,
                 tapeVars>>

-----------------------------------------------------------------------------
\* Reading from the ring: PipeReadExactly and PipeDrain.

\* The loop over a large file's blocks ends at a stop.
StopsReading == stopFlag /\ ~OneBlock(index)

TakesSegment(wanted) ==
  /\ ~disposed
  /\ AvailableToRead > 0
  /\ segment' = Smaller(ReadSegment, wanted)

ReadSome ==
  /\ writer = "read"
  /\ left > 0
  /\ block # << >> \/ ~StopsReading
  /\ TakesSegment(Smaller(BlockSize, left) - Len(block))
  /\ writer' = "fetch"
  /\ UNCHANGED <<providerVars, index, left, block, taskVars, stopFlag,
                 planVars, indexVars, tapeVars>>

\* BlockCopy and AdvanceRead.
FetchSegment ==
  /\ writer = "fetch"
  /\ segment' = 0
  /\ IF disposed
       THEN /\ writer' = "asked"
            /\ block' = << >>
            /\ UNCHANGED head
       ELSE /\ head' = head + segment
            /\ block' = block \o Fetch(segment)
            /\ writer' = IF Len(block) + segment < Smaller(BlockSize, left)
                           THEN "read"
                         ELSE IF OneBlock(index) THEN "write" ELSE "hand"
  /\ UNCHANGED <<buffer, tail, completed, disposed, producerVars,
                 preloaderVars, cacheVars, opened, cancelled, index, left,
                 taskVars, stopFlag, planVars, indexVars, tapeVars>>

ReadFails ==
  /\ writer = "read"
  /\ left > 0
  /\ block # << >> \/ ~StopsReading
  /\ disposed \/ Drained
  /\ writer' = "asked"
  /\ block' = << >>
  /\ UNCHANGED <<providerVars, index, left, segment, taskVars, stopFlag,
                 planVars, indexVars, tapeVars>>

\* The dialog over a failed read: again, or give the command up.
RetryRead ==
  /\ writer = "asked"
  /\ writer' = "read"
  /\ UNCHANGED <<providerVars, index, fileVars, taskVars, stopFlag, planVars,
                 indexVars, tapeVars>>

AbortRead ==
  /\ writer = "asked"
  /\ Fail
  /\ UNCHANGED <<providerVars, index, fileVars, taskVars, planVars, indexVars,
                 tapeVars>>

DrainSome ==
  /\ writer = "drain"
  /\ left > 0
  /\ ~disposed
  /\ AvailableToRead > 0
  /\ LET n == Smaller(ReadSegment, left)
     IN  /\ head' = head + n
         /\ left' = left - n
  /\ UNCHANGED <<buffer, tail, completed, disposed, producerVars,
                 preloaderVars, cacheVars, opened, cancelled, writer, index,
                 block, segment, taskVars, stopFlag, planVars, indexVars,
                 tapeVars>>

DrainEnds ==
  /\ writer = "drain"
  /\ IF left = 0 THEN writer' = "finish" /\ UNCHANGED stopFlag
     ELSE (disposed \/ Drained) /\ Fail
  /\ UNCHANGED <<providerVars, index, fileVars, taskVars, planVars, indexVars,
                 tapeVars>>

-----------------------------------------------------------------------------
\* Writing to the tape.

DataBlock(bytes) == [bytes |-> bytes, lists |-> {}]
IndexBlock(files) == [bytes |-> << >>, lists |-> files]

PutOnTape(record) ==
  /\ room > 0
  /\ room' = room - 1
  /\ tape' = Append(tape, record)

Writes(bytes) ==
  /\ PutOnTape(DataBlock(bytes))
  /\ UNCHANGED <<errors, accepted>>

\* The drive may report a volume overflow at any block, and from then on does:
\* what fits on a tape is not known before.
Overflows ==
  /\ room' = 0
  /\ UNCHANGED <<tape, errors, accepted>>

DriveFails ==
  /\ room > 0
  /\ errors < DriveErrors
  /\ errors' = errors + 1
  /\ UNCHANGED <<tape, room, accepted>>

\* A file of one block is written by the thread itself, stop or no stop; a
\* volume overflow leaves the loop.
WriteBlock ==
  /\ writer = "write"
  /\ \/ Writes(block) /\ writer' = "finish" /\ UNCHANGED stopFlag
     \/ Overflows /\ Fail
     \/ DriveFails /\ writer' = "writeAsked" /\ UNCHANGED stopFlag
  /\ UNCHANGED <<providerVars, index, fileVars, taskVars, planVars, indexVars>>

\* Abort, Retry or Ignore a block the drive has failed.
AnswerWrite ==
  /\ writer = "writeAsked"
  /\ \/ Fail /\ UNCHANGED accepted
     \/ writer' = "write" /\ UNCHANGED <<stopFlag, accepted>>
     \/ /\ writer' = "finish"
        /\ accepted' = accepted \cup {index}
        /\ UNCHANGED stopFlag
  /\ UNCHANGED <<providerVars, index, fileVars, taskVars, planVars, indexVars,
                 tape, room, errors>>

TaskRuns_Ignored == FALSE

TaskRuns == task \in {"writing", "asked", "closing"}

\* The task before is over before the next is started.
HandOver ==
  /\ writer = "hand"
  /\ ~TaskRuns
  /\ block' = << >>
  /\ IF task = "faulted"
       THEN /\ Fail
            /\ UNCHANGED <<taskVars, left>>
       ELSE /\ task' = "writing"
            /\ taskBlock' = block
            /\ left' = left - Len(block)
            /\ writer' = "read"
            /\ UNCHANGED stopFlag
  /\ UNCHANGED <<providerVars, index, segment, planVars, indexVars, tapeVars>>

\* After the loop: the last task is waited for, and StopFlag is not asked.
JoinTask ==
  /\ writer = "read"
  /\ block = << >>
  /\ left = 0 \/ StopsReading
  /\ ~TaskRuns
  /\ IF task = "faulted" THEN Fail
     ELSE writer' = "finish" /\ UNCHANGED stopFlag
  /\ task' = "none"
  /\ UNCHANGED <<providerVars, index, fileVars, taskBlock, planVars, indexVars,
                 tapeVars>>

TaskWrites ==
  /\ task = "writing"
  /\ \/ Writes(taskBlock) /\ task' = "done"
     \/ DriveFails /\ task' = "asked"
  /\ UNCHANGED <<providerVars, writer, index, fileVars, taskBlock, stopFlag,
                 planVars, indexVars>>

\* A volume overflow stops the command and closes the provider; the task
\* itself ends without an error.
TaskOverflows ==
  /\ task = "writing"
  /\ Overflows
  /\ stopFlag' = TRUE
  /\ BeginCompletion
  /\ task' = "closing"
  /\ UNCHANGED <<buffer, head, tail, disposed, producerVars, preloaderVars,
                 cacheVars, opened, writer, index, fileVars, taskBlock,
                 planVars, indexVars>>

TaskCloses ==
  /\ task = "closing"
  /\ disposed
  /\ task' = "done"
  /\ UNCHANGED <<providerVars, writer, index, fileVars, taskBlock, stopFlag,
                 planVars, indexVars, tapeVars>>

AnswerTask ==
  /\ task = "asked"
  /\ \/ task' = "faulted" /\ stopFlag' = TRUE /\ UNCHANGED accepted
     \/ task' = "writing" /\ UNCHANGED <<stopFlag, accepted>>
     \/ /\ task' = "done"
        /\ accepted' = accepted \cup {index}
        /\ UNCHANGED stopFlag
  /\ UNCHANGED <<providerVars, writer, index, fileVars, taskBlock, planVars,
                 indexVars, tape, room, errors>>

-----------------------------------------------------------------------------
\* Finishing a file, and the command.

StillReferenced(f) == uses[f] > 0

\* MarkWriteFileCompleted, and ReleaseManagedWriteRecord.
FinishFile ==
  /\ writer = "finish"
  /\ finished' = finished \cup {index}
  /\ released' = IF StillReferenced(index) THEN released
                 ELSE released \cup {index}
  /\ writer' = "checkpoint"
  /\ UNCHANGED <<providerVars, index, fileVars, taskVars, stopFlag, extent,
                 uses, committed, tapeVars>>

CommittedFirst_Later == committed

CommittedFirst == committed \cup finished

AfterFile == writer' = IF stopFlag THEN "commit" ELSE "next"

\* The limit of unindexed data is reached: commit, and write the index.
Checkpoint ==
  /\ writer = "checkpoint"
  /\ committed' = CommittedFirst
  /\ finished' = {}
  /\ PutOnTape(IndexBlock(committed'))
  /\ AfterFile
  /\ UNCHANGED <<providerVars, index, fileVars, taskVars, stopFlag, planVars,
                 errors, accepted>>

NoCheckpoint ==
  /\ writer = "checkpoint"
  /\ AfterFile
  /\ UNCHANGED <<providerVars, index, fileVars, taskVars, stopFlag, planVars,
                 indexVars, tapeVars>>

\* CommitWrittenFiles after the loop, however it was left.
CommitAll ==
  /\ writer = "commit"
  /\ committed' = committed \cup finished
  /\ writer' = "cleanup"
  /\ UNCHANGED <<providerVars, index, fileVars, taskVars, stopFlag, planVars,
                 finished, tapeVars>>

\* Finally: the tasks are waited for, the provider is closed.
CleanUp ==
  /\ writer = "cleanup"
  /\ ~TaskRuns
  /\ BeginCompletion
  /\ writer' = "closing"
  /\ UNCHANGED <<buffer, head, tail, disposed, producerVars, preloaderVars,
                 cacheVars, opened, index, fileVars, taskVars, stopFlag,
                 planVars, indexVars, tapeVars>>

End ==
  /\ writer = "closing"
  /\ disposed
  /\ writer' = "ended"
  /\ UNCHANGED <<providerVars, index, fileVars, taskVars, stopFlag, planVars,
                 indexVars, tapeVars>>

UserStops ==
  /\ writer # "ended"
  /\ ~stopFlag
  /\ stopFlag' = TRUE
  /\ UNCHANGED <<providerVars, writer, index, fileVars, taskVars, planVars,
                 indexVars, tapeVars>>

-----------------------------------------------------------------------------
Writer ==
  \/ BeginFile \/ EndOfList \/ AwaitOpened \/ AskProducer
  \/ ReadSome \/ FetchSegment \/ ReadFails \/ DrainSome \/ DrainEnds
  \/ WriteBlock \/ HandOver \/ JoinTask
  \/ FinishFile \/ Checkpoint \/ NoCheckpoint
  \/ CommitAll \/ CleanUp \/ End

WriteTask == TaskWrites \/ TaskOverflows \/ TaskCloses

User == UserStops \/ RetryRead \/ AbortRead \/ AnswerWrite \/ AnswerTask

Next ==
  \/ Provider /\ UNCHANGED writeVars
  \/ Writer
  \/ WriteTask
  \/ User

Spec == Init /\ [][Next]_vars

\* Threads and tasks run; a dialog is answered, and not by Retry forever.
FairSpec ==
  /\ Spec
  /\ WF_vars(Producer /\ UNCHANGED writeVars)
  /\ WF_vars(Preloader /\ UNCHANGED writeVars)
  /\ WF_vars(EndCompletion /\ UNCHANGED writeVars)
  /\ WF_vars(Writer)
  /\ WF_vars(WriteTask)
  /\ WF_vars(AnswerWrite)
  /\ WF_vars(AnswerTask)
  /\ SF_vars(AbortRead)

-----------------------------------------------------------------------------
\* Properties.

\* The values the variables may take; a block is a sequence of bytes.
TypeOK ==
  /\ ProviderTypeOK
  /\ writer \in {"next", "opening", "doubt", "read", "fetch", "asked", "drain",
                 "write", "writeAsked", "hand", "finish", "checkpoint",
                 "commit", "cleanup", "closing", "ended"}
  /\ index \in 0..Last
  /\ left \in Nat /\ block \in Seq(Byte) /\ segment \in Nat
  /\ task \in {"none", "writing", "asked", "closing", "done", "faulted"}
  /\ taskBlock \in Seq(Byte)
  /\ stopFlag \in BOOLEAN
  /\ extent \in [File -> Nat] /\ uses \in [File -> Int]
  /\ released \subseteq File
  /\ finished \subseteq File /\ committed \subseteq File
  /\ tape \in Seq([bytes : Seq(Byte), lists : SUBSET File])
  /\ room \in Nat /\ errors \in Nat /\ accepted \subseteq File

\* The k-th block of a file.
FileBlock(f, k) ==
  [n \in 1..Smaller(BlockSize, Length[f] - k * BlockSize) |->
     <<f, k * BlockSize + n>>]

Blocks(f) == (Length[f] + BlockSize - 1) \div BlockSize

\* What the index promises of a file: its bytes stand at its extent.
OnTape(f) ==
  \A k \in 0..(Blocks(f) - 1) :
    /\ extent[f] + k \in DOMAIN tape
    /\ tape[extent[f] + k].bytes = FileBlock(Canonical(f), k)

\* A file in the index is on the tape, except where the user chose to go on
\* after an error: an unfinished file is not in the index.
CommittedOnTape ==
  \A f \in committed : Canonical(f) \in accepted \/ OnTape(f)

\* Every file the writer has left behind is whole on the tape; a stop cuts
\* no file but the one it falls in.
CutOnlyByStop ==
  \A f \in finished \cup committed :
    \/ OnTape(f)
    \/ Canonical(f) \in accepted
    \/ f = index /\ stopFlag

\* Every data block on the tape is where its file's extent says: bytes of two
\* files never meet in a block, none is written twice or left out.
BlocksInPlace ==
  \A q \in DOMAIN tape :
    tape[q].bytes # << >> =>
      \E f \in File : \E k \in 0..(Blocks(f) - 1) :
        /\ Material(f)
        /\ tape[q].bytes = FileBlock(f, k)
        /\ q = extent[f] + k \/ f \in accepted

\* An index on the tape lists every file before it and leaves none out: what
\* is on the tape at a crash can be found.
CheckpointsComplete ==
  \A q \in DOMAIN tape :
    tape[q].bytes = << >> =>
      \A f \in File :
        \/ f \in tape[q].lists
        \/ /\ \A g \in tape[q].lists : g < f
           /\ Material(f) => extent[f] \notin 1..(q - 1)

\* The command comes to its end, whatever is stopped, full or unreadable.
WriterEnds == <>(writer = "ended")
=============================================================================
