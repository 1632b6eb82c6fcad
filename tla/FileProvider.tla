---------------------------- MODULE FileProvider ----------------------------
(***************************************************************************)
(* FileDataProvider: the managed reader of the writer's files.  A producer *)
(* task copies every file of the list into the ring, in list order; a      *)
(* preloader task reads small files ahead into a cache.                    *)
(*                                                                         *)
(* A byte is the pair of its file and its place in it.  Files in Faulty    *)
(* cannot be read: a small one never, a large one as far as it happens to  *)
(* go.  List(Of T) gives a new version to a list an element of which is    *)
(* set, and an enumerator of the old version fails at its next step: the   *)
(* producer sets one element for every file it leaves.                     *)
(***************************************************************************)
EXTENDS SpscRing, FiniteSets

CONSTANTS
  Length,          \* the files' lengths, in list order
  SmallThreshold,  \* files below are cached: smallThresholdBytes
  CacheCapacity,   \* _smallCacheCapacity
  MinChunk,        \* room a large file waits for: 1 MiB in the code
  Faulty           \* files that cannot be read

File == DOMAIN Length
Last == Len(Length)

ASSUME FilesAssumption ==
  /\ Length \in Seq(Nat) \ {<< >>}
  /\ SmallThreshold \in Nat
  /\ CacheCapacity \in Nat \ {0}
  /\ MinChunk \in Nat \ {0}
  /\ MinChunk <= Capacity
  /\ Faulty \subseteq File

VARIABLES
  producer,     \* step of ProducerLoopAsync
  current,      \* _currentIndex, from 1
  offset,       \* bytes of the current file committed to the ring
  filled,       \* bytes stored and not yet committed
  opened,       \* files whose record says IsOpened
  preloader,    \* step of PreloadSmallFilesAsync
  at,           \* position of its enumerator
  version,      \* version of the list its enumerator was made for
  cache,        \* _smallCacheMap: files whose content is cached
  queue,        \* _smallCacheQueue
  cancelled     \* _cts

producerVars == <<producer, current, offset, filled>>
preloaderVars == <<preloader, at, version>>
cacheVars == <<cache, queue>>
providerVars == <<ringVars, producerVars, preloaderVars, cacheVars, opened,
                  cancelled>>

Small(f) == Length[f] < SmallThreshold

\* Writes to the list so far: one for each file after the first.
ListVersion == IF current = 0 THEN 0 ELSE Smaller(current, Last) - 1

ProviderInit ==
  /\ RingInit
  /\ producer = "next"
  /\ current = 0
  /\ offset = 0
  /\ filled = 0
  /\ opened = {}
  /\ preloader = "start"
  /\ at = 0
  /\ version = 0
  /\ cache = {}
  /\ queue = << >>
  /\ cancelled = FALSE

-----------------------------------------------------------------------------
\* The producer.

\* The task ends, however it does: Finally, CompleteOutput.
ProducerEnds ==
  /\ producer' = "done"
  /\ completed' = TRUE

NextFile ==
  /\ producer = "next"
  /\ \/ /\ cancelled
        /\ ProducerEnds
        /\ UNCHANGED <<current, offset>>
     \/ /\ ~cancelled
        /\ current' = current + 1
        /\ offset' = 0
        /\ IF current = Last THEN ProducerEnds
           ELSE /\ producer' = IF Small(current + 1) THEN "look" ELSE "open"
                /\ UNCHANGED completed
  /\ UNCHANGED <<buffer, head, tail, disposed, filled, opened, preloaderVars,
                 cacheVars, cancelled>>

\* TryRemove; a hit drops the queue up to the file, all of it if the
\* preloader has not entered the file yet.
QueueAfter(f) ==
  IF \E k \in DOMAIN queue : queue[k] = f
    THEN SubSeq(queue, 1 + CHOOSE k \in DOMAIN queue : queue[k] = f, Len(queue))
    ELSE << >>

LookInCache ==
  /\ producer = "look"
  /\ IF current \in cache
       THEN /\ cache' = cache \ {current}
            /\ queue' = QueueAfter(current)
            /\ producer' = "copy"
       ELSE /\ producer' = "load"
            /\ UNCHANGED cacheVars
  /\ UNCHANGED <<ringVars, current, offset, filled, opened, preloaderVars,
                 cancelled>>

\* ReadAllBytesSafe by the producer.
LoadSmall ==
  /\ producer = "load"
  /\ IF current \in Faulty
       THEN /\ opened' = opened \ {current}
            /\ ProducerEnds
       ELSE /\ opened' = opened \cup {current}
            /\ producer' = "copy"
            /\ UNCHANGED completed
  /\ UNCHANGED <<buffer, head, tail, disposed, current, offset, filled,
                 preloaderVars, cacheVars, cancelled>>

OpenLarge ==
  /\ producer = "open"
  /\ \/ /\ opened' = opened \cup {current}
        /\ producer' = "copy"
        /\ UNCHANGED completed
     \/ /\ current \in Faulty
        /\ opened' = opened \ {current}
        /\ ProducerEnds
  /\ UNCHANGED <<buffer, head, tail, disposed, current, offset, filled,
                 preloaderVars, cacheVars, cancelled>>

\* The room GetWriteSegment is asked for.
RoomWanted ==
  IF Small(current) THEN 1 ELSE Smaller(MinChunk, Length[current] - offset)

\* GetWriteSegment refuses a completed ring, but only on entry.
AskForRoom ==
  /\ producer = "copy"
  /\ offset < Length[current]
  /\ ~completed
  /\ producer' = "room"
  /\ UNCHANGED <<ringVars, current, offset, filled, opened, preloaderVars,
                 cacheVars, cancelled>>

\* WriteAllToRing copies what fits; a large file's ReadAsync may return less.
CopyBytes ==
  /\ producer = "room"
  /\ AvailableToWrite >= RoomWanted
  /\ LET room == Smaller(WriteSegment, Length[current] - offset)
     IN  \E n \in (IF Small(current) THEN {room} ELSE 1..room) :
           /\ Store([k \in 1..n |-> <<current, offset + k>>])
           /\ filled' = n
  /\ producer' = "advance"
  /\ UNCHANGED <<head, tail, completed, disposed, current, offset, opened,
                 preloaderVars, cacheVars, cancelled>>

AdvanceWrite ==
  /\ producer = "advance"
  /\ tail' = tail + filled
  /\ offset' = offset + filled
  /\ filled' = 0
  /\ producer' = "copy"
  /\ UNCHANGED <<buffer, head, completed, disposed, current, opened,
                 preloaderVars, cacheVars, cancelled>>

FileCopied ==
  /\ producer = "copy"
  /\ offset = Length[current]
  /\ producer' = "next"
  /\ UNCHANGED <<ringVars, current, offset, filled, opened, preloaderVars,
                 cacheVars, cancelled>>

\* The copy is cancelled (which is when the ring is completed before its
\* time), or the stream ends early.
CopyFails ==
  /\ producer \in {"copy", "room"}
  /\ offset < Length[current]
  /\ cancelled \/ (current \in Faulty /\ ~Small(current))
  /\ ProducerEnds
  /\ UNCHANGED <<buffer, head, tail, disposed, current, offset, filled,
                 opened, preloaderVars, cacheVars, cancelled>>

-----------------------------------------------------------------------------
\* The preloader.

StartPreload ==
  /\ preloader = "start"
  /\ version' = ListVersion
  /\ preloader' = "next"
  /\ UNCHANGED <<ringVars, producerVars, at, cacheVars, opened, cancelled>>

\* An element the producer has left is Nothing.
PreloadNext ==
  /\ preloader = "next"
  /\ IF version # ListVersion \/ cancelled \/ at = Last
       THEN /\ preloader' = "done"
            /\ UNCHANGED at
       ELSE /\ at' = at + 1
            /\ preloader' = IF at + 1 >= current /\ Small(at + 1)
                              THEN "room" ELSE "next"
  /\ UNCHANGED <<ringVars, producerVars, version, cacheVars, opened, cancelled>>

AwaitRoom ==
  /\ preloader = "room"
  /\ \/ /\ Len(queue) < CacheCapacity \/ cancelled
        /\ preloader' = "read"
     \/ /\ Len(queue) >= CacheCapacity /\ cancelled
        /\ preloader' = "done"
  /\ UNCHANGED <<ringVars, producerVars, at, version, cacheVars, opened,
                 cancelled>>

PreloadFile ==
  /\ preloader = "read"
  /\ IF at \in Faulty
       THEN /\ opened' = opened \ {at}
            /\ preloader' = "next"
            /\ UNCHANGED cache
       ELSE /\ opened' = opened \cup {at}
            /\ cache' = cache \cup {at}
            /\ preloader' = "enqueue"
  /\ UNCHANGED <<ringVars, producerVars, at, version, queue, cancelled>>

Enqueue ==
  /\ preloader = "enqueue"
  /\ queue' = Append(queue, at)
  /\ preloader' = "next"
  /\ UNCHANGED <<ringVars, producerVars, at, version, cache, opened, cancelled>>

-----------------------------------------------------------------------------
\* Cancel and CompleteAsync up to their first wait.
BeginCompletion ==
  /\ cancelled' = TRUE
  /\ completed' = TRUE

\* CompleteAsync has joined both tasks.
Joined == producer = "done" /\ preloader = "done"

\* CompleteAsync disposes of the ring.
EndCompletion ==
  /\ cancelled
  /\ Joined
  /\ ~disposed
  /\ disposed' = TRUE
  /\ UNCHANGED <<buffer, head, tail, completed, producerVars, preloaderVars,
                 cacheVars, opened, cancelled>>

Producer ==
  \/ NextFile \/ LookInCache \/ LoadSmall \/ OpenLarge \/ AskForRoom
  \/ CopyBytes \/ AdvanceWrite \/ FileCopied \/ CopyFails

Preloader ==
  \/ StartPreload \/ PreloadNext \/ AwaitRoom \/ PreloadFile \/ Enqueue

Provider == Producer \/ Preloader \/ EndCompletion

\* A byte of a file; the array holds others until it is first filled.
Byte == File \X Nat

\* The values the variables may take; between head and tail is at most a turn.
ProviderTypeOK ==
  /\ buffer \in [Index -> Byte \cup {<< >>}]
  /\ head \in Nat /\ tail \in Nat
  /\ head <= tail /\ tail - head <= Capacity
  /\ completed \in BOOLEAN /\ disposed \in BOOLEAN /\ cancelled \in BOOLEAN
  /\ producer \in {"next", "look", "load", "open", "copy", "room", "advance",
                   "done"}
  /\ current \in 0..(Last + 1)
  /\ offset \in Nat /\ filled \in Nat
  /\ opened \subseteq File
  /\ preloader \in {"start", "next", "room", "read", "enqueue", "done"}
  /\ at \in 0..Last /\ version \in Nat
  /\ preloader \in {"room", "read", "enqueue"} => at \in File
  /\ cache \subseteq File /\ queue \in Seq(File)
=============================================================================
