-------------------------- MODULE TapeBridge_proofs --------------------------
(***************************************************************************)
(* Proofs about TapeBridge for every list of files, every slot size and    *)
(* every number of slots the bridge accepts, for any step at which either  *)
(* process fails, is cancelled or dies.                                    *)
(*                                                                         *)
(* There is no lock, so the inductive invariant says for every program     *)
(* point of the two threads what its steps so far have done to the         *)
(* semaphores and counters, and which item of the stream every position of *)
(* the ring holds.                                                         *)
(*                                                                         *)
(* The second part is about TapeFile, what the source's step "read" stands *)
(* for: exactly the extent lists that cover a file are accepted, and what  *)
(* is published is the file, byte by byte, for every tape, block size and  *)
(* slot size.  Its invariant is FileIInv: the next byte of the extent is   *)
(* the next byte of the block the head is on (PlaceInv, HeadInv).          *)
(***************************************************************************)
EXTENDS TapeBridge, TapeFile, SequenceTheorems, FiniteSetTheorems,
        WellFoundedInduction, TLAPS

(* Division: what every ring of slots rests on.                            *)

(* Division with remainder.                                                *)
LEMMA DivMod ==
  ASSUME NEW n \in Nat \ {0}, NEW i \in Nat
  PROVE  /\ i % n \in 0..n-1
         /\ i = n * (i \div n) + (i % n)
         /\ i \div n \in Nat
OBVIOUS

LEMMA MulMono ==
  ASSUME NEW n \in Nat, NEW a \in Nat, NEW b \in Nat, a <= b
  PROVE  n * a <= n * b
OBVIOUS

(* Different multiples of n are at least n apart.                          *)
LEMMA MulGap ==
  ASSUME NEW n \in Nat \ {0}, NEW a \in Nat, NEW b \in Nat, a < b
  PROVE  n * b - n * a >= n
<1>1. b >= a + 1 OBVIOUS
<1>2. n * b >= n * (a + 1) BY <1>1, MulMono
<1>3. n * (a + 1) = n * a + n OBVIOUS
<1> QED BY <1>2, <1>3

(* Positions less than one turn apart use different slots of a ring.       *)
LEMMA ModUnique ==
  ASSUME NEW n \in Nat \ {0}, NEW i \in Nat, NEW j \in Nat,
         i - j < n, j - i < n, i % n = j % n
  PROVE  i = j
<1>1. PICK a \in Nat : i = n * a + (i % n) /\ (i % n) \in Nat
  <2>1. i % n \in 0..n-1 /\ 0..n-1 \subseteq Nat BY DivMod
  <2>2. i = n * (i \div n) + (i % n) /\ i \div n \in Nat BY DivMod
  <2> QED BY <2>1, <2>2, Zenon
<1>2. PICK b \in Nat : j = n * b + (j % n) /\ (j % n) \in Nat
  <2>1. j % n \in 0..n-1 /\ 0..n-1 \subseteq Nat BY DivMod
  <2>2. j = n * (j \div n) + (j % n) /\ j \div n \in Nat BY DivMod
  <2> QED BY <2>1, <2>2, Zenon
<1>3. n * a \in Nat /\ n * b \in Nat BY <1>1, <1>2
<1>4. j - i = n * b - n * a BY <1>1, <1>2, <1>3
<1>5. CASE a < b
  <2>1. n * b - n * a >= n BY <1>5, <1>1, <1>2, MulGap
  <2> QED BY <2>1, <1>4
<1>6. CASE b < a
  <2>1. n * a - n * b >= n BY <1>6, <1>1, <1>2, MulGap
  <2> QED BY <2>1, <1>4, <1>3
<1>7. CASE a = b BY <1>7, <1>1, <1>2
<1> QED BY <1>5, <1>6, <1>7, <1>1, <1>2

(* A position is in one block, at one place.                              *)
LEMMA DivUnique ==
  ASSUME NEW n \in Nat \ {0}, NEW q \in Nat, NEW r \in 0..(n - 1)
  PROVE  (n * q + r) \div n = q /\ (n * q + r) % n = r
<1> DEFINE i == n * q + r
           a == i \div n
           b == i % n
<1>1. r \in Nat /\ r < n /\ n * q \in Nat OBVIOUS
<1>2. i \in Nat BY <1>1
<1>3. b \in 0..(n - 1) /\ i = n * a + b /\ a \in Nat BY <1>2, DivMod
<1>4. i = n * q + r OBVIOUS
<1> HIDE DEF i, a, b
<1>5. b \in Nat /\ b < n /\ n * a \in Nat BY <1>3
<1>6. ~ (a < q)
  <2> SUFFICES ASSUME a < q PROVE FALSE OBVIOUS
  <2>1. n * q - n * a >= n BY <1>3, MulGap
  <2> QED BY <2>1, <1>1, <1>3, <1>4, <1>5
<1>7. ~ (q < a)
  <2> SUFFICES ASSUME q < a PROVE FALSE OBVIOUS
  <2>1. n * a - n * q >= n BY <1>3, MulGap
  <2> QED BY <2>1, <1>1, <1>3, <1>4, <1>5
<1>8. a = q BY <1>6, <1>7, <1>3
<1>9. b = r BY <1>8, <1>1, <1>3, <1>4, <1>5
<1> QED BY <1>8, <1>9 DEF i, a, b

-----------------------------------------------------------------------------
(* An item that is not an end-of-file item has a successor in its file.    *)
ItemInv ==
  ~item.eof => /\ item.file \in Files
               /\ item.offset + item.length <= FileLen[item.file]

(* The item before position k of the ring.                                 *)
Before(k) == IF k = read_index THEN last ELSE slots[(k - 1) % SlotCount]

(* The ring continues the stream the target has received, and the source's *)
(* item continues the ring or is its last.                                 *)
ChainInv ==
  /\ \A k \in read_index..(write_index - 1) :
       Stream!Follows(selected, Before(k), slots[k % SlotCount])
  /\ source \in {"wait", "take", "recheck", "write"}
       => Stream!Follows(selected, Before(write_index), item)
  /\ source \in {"idle", "next", "read", "bytes", "count", "post"} \/ producer_done
       => item = Before(write_index)

SourceInv ==
  /\ producer_done => /\ source \in {"dispose", "reply", "closed"}
                      /\ Stream!IsLast(selected, item)
  /\ source = "read" => ~Stream!IsLast(selected, item)

Ended == {"dispose", "hangup", "closed"}
Acquiring == {"check", "take", "again", "done?", "left?"}
Releasing == {"slot", "hold", "uncount", "release"}

TargetInv ==
  /\ target \in Releasing => taken
  /\ taken => target \in Releasing \union Ended
  /\ ending = "open" <=> target \notin Ended
  /\ target \in Acquiring => ~Stream!IsLast(selected, last)
  /\ target = "left?" => producer_done
  /\ target = "planning" =>
       /\ watcher = "idle" /\ source \in {"idle", "reply", "closed"}
       /\ item = Stream!NoItem /\ last = Stream!NoItem
       /\ write_index = 0 /\ read_index = 0 /\ ~producer_done

(* As long as nobody has cancelled and the target is at work, nothing the  *)
(* source does or suffers cancels the bridge without telling the target    *)
(* that its peer failed.                                                   *)
Undisturbed ==
  "target" \in alive /\ ending = "open" /\ user_cancelled = {}

CauseInv ==
  /\ watcher = "cancel" => peer_error
  /\ Undisturbed =>
       /\ to_source = "none" /\ "target" \in open_ends
       /\ "source" \in alive /\ source # "closed"
            => open_ends = Sides /\ ~token_cancelled
       /\ cancelled => peer_error

(* The slot counter is exact up to the steps in progress.                  *)
OccupiedExact ==
  /\ occupied_slots = write_index - read_index
       - Flag(source \in {"bytes", "count"}) - Flag(target = "release")
  /\ occupied_slots \in 0..SlotCount

RingInv == SlotsConserved /\ OccupiedExact

IInv ==
  /\ TypeOK /\ ItemInv /\ RingInv /\ ChainInv /\ SourceInv /\ TargetInv
  /\ CauseInv /\ EndsForCause

-----------------------------------------------------------------------------
LEMMA ConstFacts ==
  /\ SlotSize \in Nat \ {0} /\ SlotCount \in Nat \ {0} /\ SlotCount >= 2
  /\ Len(FileLen) \in Nat /\ Files = 1..Len(FileLen)
  /\ \A f \in Files : FileLen[f] \in Nat \ {0}
  /\ RefillTargets \subseteq Nat
<1>1. FileLen \in Seq(Nat \ {0}) BY BridgeAssumption
<1>2. SlotCount * SlotSize \in Nat BY BridgeAssumption
<1> QED BY <1>1, <1>2, BridgeAssumption DEF Files, Stream!Files

(* Items of the stream.                                                    *)
LEMMA ItemAtType ==
  ASSUME NEW f \in Files, NEW o \in Nat, o <= FileLen[f]
  PROVE  LET it == Stream!ItemAt(f, o)
         IN  /\ it \in Stream!Item
             /\ it.file = f /\ it.offset = o
             /\ ~it.eof => it.offset + it.length <= FileLen[f]
<1>1. FileLen[f] \in Nat /\ SlotSize \in Nat /\ f \in Nat BY ConstFacts
<1> QED BY <1>1 DEF Stream!ItemAt, Stream!Item, Stream!MinOf

LEMMA NextItemFollows ==
  ASSUME selected \subseteq Files, NEW it \in Stream!Item,
         ~it.eof => /\ it.file \in Files
                    /\ it.offset + it.length <= FileLen[it.file],
         ~Stream!IsLast(selected, it)
  PROVE  /\ NextItem(it) \in Stream!Item
         /\ Stream!Follows(selected, it, NextItem(it))
         /\ ~NextItem(it).eof
              => /\ NextItem(it).file \in Files
                 /\ NextItem(it).offset + NextItem(it).length
                      <= FileLen[NextItem(it).file]
<1>1. CASE it.eof
  <2> DEFINE g == Stream!NextFile(selected, it.file)
  <2>1. g \in Files BY <1>1 DEF Stream!IsLast, Files
  <2>2. NextItem(it) = Stream!ItemAt(g, 0) BY <1>1 DEF NextItem
  <2>3. 0 \in Nat /\ 0 <= FileLen[g] BY <2>1, ConstFacts
  <2> HIDE DEF g
  <2>4. /\ NextItem(it) \in Stream!Item
        /\ NextItem(it).file = g
        /\ ~NextItem(it).eof
             => NextItem(it).offset + NextItem(it).length <= FileLen[g]
    BY <2>1, <2>2, <2>3, ItemAtType
  <2>5. Stream!Follows(selected, it, NextItem(it))
    BY <1>1, <2>1, <2>2 DEF Stream!Follows, g, Files
  <2> QED BY <2>1, <2>4, <2>5
<1>2. CASE ~it.eof
  <2> DEFINE f == it.file
             o == it.offset + it.length
  <2>1. f \in Files /\ o \in Nat /\ o <= FileLen[f]
    BY <1>2 DEF Stream!Item
  <2>2. NextItem(it) = Stream!ItemAt(f, o) BY <1>2 DEF NextItem
  <2>3. Stream!Follows(selected, it, NextItem(it))
    BY <1>2, <2>2 DEF Stream!Follows
  <2> HIDE DEF f, o
  <2>4. /\ NextItem(it) \in Stream!Item
        /\ NextItem(it).file = f
        /\ ~NextItem(it).eof
             => NextItem(it).offset + NextItem(it).length <= FileLen[f]
    BY <2>1, <2>2, ItemAtType
  <2> QED BY <2>1, <2>3, <2>4
<1> QED BY <1>1, <1>2

(* The ring never holds more than its slots, and while the target uses one *)
(* the source's next slot is another.                                      *)
LEMMA RingBounds ==
  ASSUME TypeOK, RingInv
  PROVE  /\ read_index <= write_index
         /\ write_index - read_index <= SlotCount
         /\ source \in {"bytes", "count", "post"} => read_index < write_index
         /\ taken => read_index < write_index
         /\ source = "write" => write_index - read_index < SlotCount
<1>1. /\ read_index \in Nat /\ write_index \in Nat
      /\ empty \in Nat /\ full \in Nat /\ SlotCount \in Nat
  BY ConstFacts DEF TypeOK
<1> QED BY <1>1 DEF RingInv, SlotsConserved, Flag

LEMMA OtherSlot ==
  ASSUME TypeOK, RingInv, source = "write",
         NEW k \in read_index..(write_index - 1)
  PROVE  k % SlotCount # write_index % SlotCount
<1>1. /\ read_index \in Nat /\ write_index \in Nat
      /\ k \in Nat /\ read_index <= k /\ k < write_index
  BY DEF TypeOK
<1>2. write_index - read_index < SlotCount BY RingBounds
<1>3. SlotCount \in Nat \ {0} BY ConstFacts
<1>4. write_index - k < SlotCount /\ k - write_index < SlotCount
  BY <1>1, <1>2, <1>3
<1>5. ASSUME k % SlotCount = write_index % SlotCount PROVE k = write_index
  BY <1>1, <1>3, <1>4, <1>5, ModUnique
<1> QED BY <1>1, <1>5

LEMMA SlotIndex ==
  ASSUME TypeOK
  PROVE  /\ read_index % SlotCount \in Index
         /\ write_index % SlotCount \in Index
         /\ NextSlot \in Stream!Item
<1>1. SlotCount \in Nat \ {0} /\ read_index \in Nat /\ write_index \in Nat
  BY ConstFacts DEF TypeOK
<1>2. read_index % SlotCount \in Index /\ write_index % SlotCount \in Index
  BY <1>1, DivMod DEF Index
<1> QED BY <1>2 DEF TypeOK, NextSlot

(* The chain of items is kept by a step that moves no item.                *)
LEMMA ChainSame ==
  ASSUME ChainInv,
         UNCHANGED <<slots, write_index, read_index, last, selected, item>>,
         source' \in {"wait", "take", "recheck", "write"}
           => source \in {"wait", "take", "recheck", "write"},
         source' \in {"idle", "next", "read", "bytes", "count", "post"}
             \/ producer_done'
           => source \in {"idle", "next", "read", "bytes", "count", "post"}
                \/ producer_done
  PROVE  ChainInv'
<1>1. \A k : Before(k)' = Before(k) BY DEF Before
<1> QED BY <1>1 DEF ChainInv

-----------------------------------------------------------------------------
(* The source's thread.                                                    *)
LEMMA SourceType ==
  ASSUME IInv, Source
  PROVE  TypeOK' /\ ItemInv'
<1> USE DEF IInv
<1>1. ASSUME ServeStart \/ NextFile \/ Complete \/ FileFails \/ PublishWaits
      PROVE TypeOK' /\ ItemInv'
  BY <1>1 DEF TypeOK, ItemInv, ServeStart, NextFile, Complete, FileFails,
     PublishWaits, SourceGoes, SourceEnds, SourceRuns, SetError, SourceStates,
     Streaming, SourceSide, countVars, semVars, flagVars, targetVars, pipeVars
<1>2. ASSUME ReadPiece PROVE TypeOK' /\ ItemInv'
  <2>1. source = "read" /\ item \in Stream!Item /\ selected \subseteq Files
    BY <1>2 DEF TypeOK, ReadPiece, SourceRuns
  <2>2. /\ NextItem(item) \in Stream!Item
        /\ ~NextItem(item).eof
              => /\ NextItem(item).file \in Files
                 /\ NextItem(item).offset + NextItem(item).length
                      <= FileLen[NextItem(item).file]
    BY <2>1, NextItemFollows DEF SourceInv, ItemInv
  <2> QED
    BY <1>2, <2>2 DEF TypeOK, ItemInv, ReadPiece,
     SourceGoes, SourceEnds, SourceRuns, SourceStates,
     Streaming, SourceSide, countVars, semVars, flagVars, targetVars, pipeVars
<1>3. ASSUME TakeEmpty \/ Recheck PROVE TypeOK' /\ ItemInv'
  BY <1>3 DEF TypeOK, ItemInv, TakeEmpty, Recheck, GiveBack,
     SourceGoes, SourceEnds, SourceRuns, SourceStates,
     Streaming, SourceSide, countVars, semVars, flagVars, targetVars, pipeVars
<1>4. ASSUME WriteSlot PROVE TypeOK' /\ ItemInv'
  <2>1. slots' \in [Index -> Stream!Item] /\ write_index' \in Nat
    BY <1>4, SlotIndex DEF TypeOK, WriteSlot
  <2> QED
    BY <1>4, <2>1 DEF TypeOK, ItemInv, WriteSlot,
     SourceGoes, SourceRuns, SourceStates,
     Streaming, SourceSide, semVars, flagVars, targetVars, pipeVars
<1>5. ASSUME CountBytes \/ CountSlot \/ PostFull PROVE TypeOK' /\ ItemInv'
  <2>1. item.length \in Int BY DEF TypeOK, Stream!Item
  <2> QED
    BY <1>5, <2>1 DEF TypeOK, ItemInv, CountBytes, CountSlot, PostFull,
     SourceGoes, SourceRuns, SourceStates,
     Streaming, SourceSide, countVars, semVars, flagVars, targetVars, pipeVars
<1>6. ASSUME DisposeProducer \/ ServeEnds PROVE TypeOK' /\ ItemInv'
  BY <1>6 DEF TypeOK, ItemInv, DisposeProducer, ServeEnds,
     SourceGoes, SourceRuns, SourceStates,
     Streaming, SourceSide, countVars, semVars, flagVars, targetVars, pipeVars
<1> QED BY <1>1, <1>2, <1>3, <1>4, <1>5, <1>6 DEF Source

LEMMA SourceRing ==
  ASSUME IInv, Source
  PROVE  RingInv'
<1> USE DEF IInv
<1>0. /\ empty \in Nat /\ full \in Nat /\ write_index \in Nat
      /\ read_index \in Nat /\ SlotCount \in Nat /\ occupied_slots \in Int
  BY ConstFacts DEF TypeOK
<1>1. ASSUME ServeStart \/ NextFile \/ Complete \/ ReadPiece \/ FileFails
               \/ PublishWaits \/ DisposeProducer \/ ServeEnds
      PROVE RingInv'
  <2>1. /\ source \notin {"recheck", "write", "bytes", "count", "post"}
        /\ source' \notin {"recheck", "write", "bytes", "count", "post"}
    BY <1>1 DEF ServeStart, NextFile, Complete, ReadPiece, FileFails,
       PublishWaits, DisposeProducer, ServeEnds, SourceGoes, SourceEnds,
       SourceRuns
  <2>2. UNCHANGED <<countVars, semVars, targetVars>>
    BY <1>1 DEF ServeStart, NextFile, Complete, ReadPiece, FileFails,
       PublishWaits, DisposeProducer, ServeEnds, SourceSide
  <2> QED
    BY <2>1, <2>2 DEF RingInv, SlotsConserved, OccupiedExact, Flag, countVars,
       semVars, targetVars
<1>2. ASSUME TakeEmpty \/ Recheck PROVE RingInv'
  BY <1>0, <1>2 DEF RingInv, SlotsConserved, OccupiedExact, Flag, TakeEmpty,
     Recheck, GiveBack, SourceGoes, SourceEnds, SourceRuns, SourceSide,
     countVars, semVars, targetVars
<1>3. ASSUME WriteSlot \/ CountBytes PROVE RingInv'
  BY <1>0, <1>3 DEF RingInv, SlotsConserved, OccupiedExact, Flag, WriteSlot,
     CountBytes, SourceGoes, SourceRuns, SourceSide, semVars, targetVars
<1>4. ASSUME CountSlot \/ PostFull PROVE RingInv'
  <2>1. read_index < write_index /\ write_index - read_index <= SlotCount
    BY <1>4, RingBounds DEF CountSlot, PostFull, SourceRuns
  <2>2. target = "release" => taken BY DEF TargetInv, Releasing
  <2> QED
  BY <1>0, <1>4, <2>1, <2>2 DEF RingInv, SlotsConserved, OccupiedExact, Flag,
     CountSlot,
     PostFull, SourceGoes, SourceRuns, SourceSide, countVars, semVars, targetVars
<1> QED BY <1>1, <1>2, <1>3, <1>4 DEF Source

LEMMA SourceChain ==
  ASSUME IInv, Source
  PROVE  ChainInv'
<1> USE DEF IInv
<1>1. ASSUME ReadPiece PROVE ChainInv'
  <2>1. /\ source = "read" /\ ~producer_done
        /\ UNCHANGED <<slots, write_index, read_index, last, selected,
                       producer_done>>
    BY <1>1 DEF ReadPiece, SourceRuns, SourceInv, SourceSide, countVars,
       flagVars, targetVars
  <2>2. CASE source' = "wait" /\ item' = NextItem(item)
    <3>1. /\ item \in Stream!Item /\ selected \subseteq Files
          /\ ~Stream!IsLast(selected, item) /\ item = Before(write_index)
      BY <2>1 DEF TypeOK, SourceInv, ChainInv
    <3>2. Stream!Follows(selected, item, NextItem(item))
      BY <3>1, NextItemFollows DEF ItemInv
    <3>3. \A k : Before(k)' = Before(k) BY <2>1 DEF Before
    <3> QED BY <2>1, <2>2, <3>1, <3>2, <3>3 DEF ChainInv
  <2>3. CASE source' \in {"fail", "dispose"} /\ item' = item
    BY <2>1, <2>3, ChainSame
  <2> QED BY <1>1, <2>2, <2>3 DEF ReadPiece, SourceGoes, SourceEnds
<1>2. ASSUME WriteSlot PROVE ChainInv'
  <2> DEFINE n == SlotCount
             w == write_index
             r == read_index
  <2>1. /\ w \in Nat /\ r \in Nat /\ r <= w
        /\ w % n \in Index /\ slots \in [Index -> Stream!Item]
    BY RingBounds, SlotIndex DEF TypeOK
  <2>2. /\ source = "write" /\ source' = "bytes" /\ ~producer_done
        /\ slots' = [slots EXCEPT ![w % n] = item] /\ w' = w + 1
        /\ UNCHANGED <<read_index, last, selected, item, producer_done>>
    BY <1>2 DEF WriteSlot, SourceRuns, SourceGoes, SourceInv, SourceSide,
       flagVars, targetVars
  <2>3. ASSUME NEW k \in r..(w - 1) PROVE slots'[k % n] = slots[k % n]
    <3>1. k % n # w % n BY <2>2, OtherSlot
    <3> QED BY <2>1, <2>2, <3>1
  <2>4. ASSUME NEW k \in r..w PROVE Before(k)' = Before(k)
    <3>1. CASE k = r BY <3>1, <2>2 DEF Before
    <3>2. CASE k # r
      <4>1. k - 1 \in r..(w - 1) BY <2>1, <3>2
      <4>2. slots'[(k - 1) % n] = slots[(k - 1) % n] BY <4>1, <2>3
      <4> QED BY <4>2, <3>2, <2>2 DEF Before
    <3> QED BY <3>1, <3>2
  <2>5. slots'[w % n] = item BY <2>1, <2>2
  <2>6. Stream!Follows(selected, Before(w), item) BY <2>2 DEF ChainInv
  <2>7. ASSUME NEW k \in r..w
        PROVE  Stream!Follows(selected, Before(k)', slots'[k % n])
    <3>1. CASE k = w BY <3>1, <2>1, <2>4, <2>5, <2>6
    <3>2. CASE k # w
      <4>1. k \in r..(w - 1) BY <3>2, <2>1
      <4>2. Stream!Follows(selected, Before(k), slots[k % n])
        BY <4>1 DEF ChainInv
      <4> QED BY <4>1, <4>2, <2>3, <2>4
    <3> QED BY <3>1, <3>2
  <2>8. Before(write_index)' = item
    <3>1. w + 1 # r /\ (w + 1) - 1 = w BY <2>1
    <3> QED BY <3>1, <2>2, <2>5 DEF Before
  <2>9. read_index'..(write_index' - 1) = r..w BY <2>1, <2>2
  <2> QED BY <2>2, <2>7, <2>8, <2>9 DEF ChainInv
<1>3. ASSUME ServeStart \/ NextFile \/ Complete \/ FileFails \/ PublishWaits
               \/ TakeEmpty \/ Recheck \/ CountBytes \/ CountSlot \/ PostFull
               \/ DisposeProducer \/ ServeEnds
      PROVE ChainInv'
  <2>1. /\ UNCHANGED <<slots, write_index, read_index, last, selected, item>>
        /\ source' \in {"wait", "take", "recheck", "write"}
             => source \in {"wait", "take", "recheck"}
        /\ source' \in {"idle", "next", "read", "bytes", "count", "post"}
             \/ producer_done'
             => source \in {"idle", "next", "read", "bytes", "count", "post"}
                  \/ producer_done
    BY <1>3 DEF ServeStart, NextFile, Complete, FileFails, PublishWaits,
       TakeEmpty, Recheck, CountBytes, CountSlot, PostFull, DisposeProducer,
       ServeEnds, SourceGoes, SourceEnds, SourceRuns, SourceSide, countVars,
       flagVars, targetVars
  <2> QED BY <2>1, ChainSame
<1> QED BY <1>1, <1>2, <1>3 DEF Source

LEMMA SourcePoints ==
  ASSUME IInv, Source
  PROVE  SourceInv' /\ TargetInv'
<1> USE DEF IInv
<1>0. UNCHANGED <<target, taken, last, ending, selected, watcher>>
  BY DEF Source, ServeStart, NextFile, Complete, FileFails, PublishWaits,
       ReadPiece, TakeEmpty, Recheck, WriteSlot, CountBytes, CountSlot,
       PostFull, DisposeProducer, ServeEnds, SourceSide, targetVars
<1>1. SourceInv'
  <2>1. CASE ReadPiece
    BY <2>1, <1>0 DEF SourceInv, ReadPiece, SourceGoes, SourceEnds, SourceRuns,
       flagVars
  <2>2. CASE PostFull
    BY <2>2, <1>0 DEF SourceInv, PostFull, SourceGoes, SourceRuns, flagVars,
       Stream!IsLast
  <2>3. CASE NextFile \/ Complete
    BY <2>3, <1>0 DEF SourceInv, NextFile, Complete, SourceGoes, SourceEnds,
       SourceRuns, flagVars
  <2>4. CASE ServeStart \/ FileFails \/ PublishWaits \/ TakeEmpty \/ Recheck
    BY <2>4, <1>0 DEF SourceInv, ServeStart, FileFails, PublishWaits,
       TakeEmpty,
       Recheck, SourceGoes, SourceEnds, SourceRuns, flagVars
  <2>5. CASE WriteSlot \/ CountBytes \/ CountSlot \/ DisposeProducer \/ ServeEnds
    BY <2>5, <1>0 DEF SourceInv, WriteSlot, CountBytes, CountSlot,
       DisposeProducer, ServeEnds, SourceGoes, SourceRuns, flagVars
  <2> QED BY <2>1, <2>2, <2>3, <2>4, <2>5 DEF Source
<1>2. producer_done => producer_done'
  BY DEF Source, ServeStart, NextFile, Complete, FileFails, PublishWaits,
       ReadPiece, TakeEmpty, Recheck, WriteSlot, CountBytes, CountSlot,
       PostFull, DisposeProducer, ServeEnds, flagVars
<1>3. target = "planning"
        => /\ source' \in {"reply", "closed"} /\ ~producer_done'
           /\ UNCHANGED <<item, write_index, read_index>>
  <2> SUFFICES ASSUME target = "planning"
               PROVE  /\ source' \in {"reply", "closed"} /\ ~producer_done'
                      /\ UNCHANGED <<item, write_index, read_index>>
    OBVIOUS
  <2>1. /\ watcher = "idle" /\ source \in {"idle", "reply", "closed"}
        /\ ~producer_done
    BY DEF TargetInv
  <2>2. ServeStart \/ ServeEnds
    BY <2>1 DEF Source, NextFile, Complete, FileFails, PublishWaits,
       ReadPiece, TakeEmpty, Recheck, WriteSlot, CountBytes, CountSlot,
       PostFull, DisposeProducer, SourceRuns
  <2> QED
    BY <2>1, <2>2 DEF ServeStart, ServeEnds, SourceGoes, SourceEnds,
       SourceRuns,
       countVars, flagVars
<1>4. TargetInv'
  BY <1>0, <1>2, <1>3 DEF TargetInv
<1> QED BY <1>1, <1>4

LEMMA SourceCause ==
  ASSUME IInv, Source
  PROVE  CauseInv' /\ EndsForCause'
<1> USE DEF IInv
<1>1. /\ UNCHANGED <<ending, alive, user_cancelled, watcher, peer_error>>
      /\ cancelled' = cancelled /\ token_cancelled' = token_cancelled
      /\ to_source' = to_source
  BY DEF Source, ServeStart, NextFile, Complete, FileFails, PublishWaits,
       ReadPiece, TakeEmpty, Recheck, WriteSlot, CountBytes, CountSlot,
       PostFull, DisposeProducer, ServeEnds, SourceSide, targetVars, flagVars,
       pipeVars
<1>2. /\ open_ends' = open_ends
         \/ (source' = "closed" /\ open_ends' = open_ends \ {"source"})
      /\ source' # "closed" => source # "closed"
  BY DEF Source, ServeStart, NextFile, Complete, FileFails, PublishWaits,
       ReadPiece, TakeEmpty, Recheck, WriteSlot, CountBytes, CountSlot,
       PostFull, DisposeProducer, ServeEnds, pipeVars, SourceGoes, SourceEnds,
       SourceRuns
<1> QED
  BY <1>1, <1>2 DEF CauseInv, Undisturbed, EndsForCause

-----------------------------------------------------------------------------
(* The target's writer thread.                                             *)
Writer ==
  \/ CallAcquire \/ WriterFails
  \/ \E t \in RefillTargets : CallRefill(t)
  \/ Target

LEMMA TargetType ==
  ASSUME IInv, Writer
  PROVE  TypeOK' /\ ItemInv'
<1> USE DEF IInv
<1>0. ASSUME UNCHANGED <<slots, countVars, empty, producer_done, sourceVars,
                         sessionVars, taken, last, refill, seen>>,
             full' \in Nat, cancelled' \in BOOLEAN,
             error' \in {"none", "source", "target"},
             target' \in TargetStates,
             ending' \in Stream!Endings \union {"open", "starved"}
      PROVE  TypeOK' /\ ItemInv'
  BY <1>0 DEF TypeOK, ItemInv, countVars, sourceVars, sessionVars, pipeVars
<1>1. ASSUME CallAcquire \/ WriterFails \/ AcquireChecks \/ TimeoutChecksDone
               \/ TimeoutChecksLeft
      PROVE TypeOK' /\ ItemInv'
  <2>1. target' \in TargetStates
    BY <1>1 DEF CallAcquire, WriterFails, AcquireChecks, TimeoutChecksDone,
       TimeoutChecksLeft, TargetGoes, TargetEnds, StopWaiting, TargetStates
  <2>2. ending' \in Stream!Endings \union {"open", "starved"}
    BY <1>1 DEF CallAcquire, WriterFails, AcquireChecks, TimeoutChecksDone,
       TimeoutChecksLeft, TargetGoes, TargetEnds, StopWaiting, CancelResult,
       TypeOK, Stream!Endings
  <2>3. UNCHANGED <<slots, countVars, semVars, flagVars, sourceVars,
                    sessionVars, taken, last, refill, seen>>
    BY <1>1 DEF CallAcquire, WriterFails, AcquireChecks, TimeoutChecksDone,
       TimeoutChecksLeft, TargetGoes, TargetEnds, StopWaiting, TargetSide
  <2> QED BY <1>0, <2>1, <2>2, <2>3 DEF TypeOK, semVars, flagVars
<1>7. ASSUME TakeFull PROVE TypeOK' /\ ItemInv'
  <2>0. full \in Nat /\ taken \in BOOLEAN BY DEF TypeOK
  <2>1. full' \in Nat /\ target' \in TargetStates /\ taken' \in BOOLEAN
    <3>1. CASE GotFull
      <4>1. full > 0 /\ full' = full - 1 /\ taken' = TRUE /\ target' = "slot"
        BY <1>7, <3>1 DEF TakeFull, GotFull
      <4> QED BY <2>0, <4>1 DEF TargetStates
    <3>2. CASE ~GotFull
      BY <1>7, <2>0, <3>2 DEF TakeFull, TargetGoes, TargetStates
    <3> QED BY <3>1, <3>2
  <2>2. UNCHANGED <<slots, countVars, empty, flagVars, sourceVars,
                    sessionVars, last, refill, seen, ending>>
    BY <1>7 DEF TakeFull, TargetGoes, TargetSide
  <2> QED
    BY <2>1, <2>2 DEF TypeOK, ItemInv, countVars, flagVars, sourceVars,
       sessionVars, pipeVars
<1>2. ASSUME NEW t \in RefillTargets, CallRefill(t) PROVE TypeOK' /\ ItemInv'
  <2>1. t \in Nat BY ConstFacts
  <2> QED
  BY <1>2, <2>1 DEF TypeOK, ItemInv, CallRefill, TargetRuns, TargetStates,
     TargetSide, sourceVars, sessionVars, pipeVars, countVars, semVars,
     flagVars
<1>3. ASSUME NEW f \in Files, AcquireSlot(f) PROVE TypeOK' /\ ItemInv'
  <2>1. /\ target' \in TargetStates
        /\ ending' \in Stream!Endings \union {"open", "starved"}
        /\ error' \in {"none", "source", "target"}
    BY <1>3 DEF AcquireSlot, TargetGoes, TargetEnds, SetError, TypeOK,
       TargetStates, Stream!Endings
  <2>2. UNCHANGED <<slots, countVars, semVars, cancelled, producer_done,
                    sourceVars, sessionVars, taken, last, refill, seen>>
    BY <1>3 DEF AcquireSlot, TargetGoes, TargetEnds, TargetSide
  <2> QED BY <1>0, <2>1, <2>2 DEF TypeOK, semVars
<1>4. ASSUME ReleaseBegins \/ Uncount \/ ReleaseIndex \/ PostEmpty
      PROVE TypeOK' /\ ItemInv'
  <2>1. NextSlot \in Stream!Item /\ NextSlot.length \in Int
    BY SlotIndex DEF Stream!Item
  <2>2. /\ target' \in TargetStates /\ buffered_bytes' \in Int
        /\ occupied_slots' \in Int /\ empty' \in Nat
    BY <1>4, <2>1 DEF TypeOK, ReleaseBegins, Uncount, ReleaseIndex,
       PostEmpty, ReleasedBytes, TargetGoes, TargetStates, countVars, semVars
  <2>3. read_index' \in Nat /\ last' \in Stream!Item /\ taken' \in BOOLEAN
    <3>1. CASE ReleaseIndex
      <4>1. read_index' = read_index + 1 /\ last' = NextSlot /\ taken' = FALSE
        BY <3>1 DEF ReleaseIndex
      <4>2. read_index' \in Nat BY <4>1 DEF TypeOK
      <4> QED BY <2>1, <4>1, <4>2, Zenon
    <3>2. CASE ~ReleaseIndex
      <4>1. UNCHANGED <<read_index, last, taken>>
        BY <1>4, <3>2 DEF ReleaseBegins, Uncount, PostEmpty, TargetGoes,
           countVars
      <4> QED BY <4>1 DEF TypeOK
    <3> QED BY <3>1, <3>2
  <2>4. UNCHANGED <<slots, write_index, full, flagVars, sourceVars, sessionVars,
                    refill, seen, ending>>
    BY <1>4 DEF ReleaseBegins, Uncount, ReleaseIndex, PostEmpty, TargetGoes,
       TargetSide, countVars, semVars
  <2> QED
    BY <2>2, <2>3, <2>4 DEF TypeOK, ItemInv, flagVars, sourceVars, sessionVars,
       pipeVars
<1>5. ASSUME RefillLoads \/ RefillDecides \/ DisposeConsumer
      PROVE TypeOK' /\ ItemInv'
  <2>1. /\ target' \in TargetStates /\ seen' \in Int /\ cancelled' \in BOOLEAN
        /\ ending' \in Stream!Endings \union {"open", "starved"}
    BY <1>5 DEF RefillLoads, RefillDecides, DisposeConsumer, TargetGoes,
       TargetEnds, StopWaiting, CancelResult, TypeOK, TargetStates, flagVars,
       Stream!Endings
  <2>2. UNCHANGED <<slots, countVars, semVars, producer_done, error, sourceVars,
                    sessionVars, taken, last, refill>>
    BY <1>5 DEF RefillLoads, RefillDecides, DisposeConsumer, TargetGoes,
       TargetEnds, StopWaiting, TargetSide, flagVars
  <2> QED
    BY <2>1, <2>2 DEF TypeOK, ItemInv, countVars, semVars, sourceVars,
       sessionVars, pipeVars
<1>6. ASSUME DisposeSession PROVE TypeOK' /\ ItemInv'
  BY <1>6 DEF TypeOK, ItemInv, DisposeSession, TargetGoes, TargetRuns,
     TargetStates, sourceVars, countVars, semVars, flagVars
<1> QED
  BY <1>1, <1>2, <1>3, <1>4, <1>5, <1>6, <1>7 DEF Writer, Target, Release

LEMMA TargetRing ==
  ASSUME IInv, Writer
  PROVE  RingInv'
<1> USE DEF IInv
<1>0. /\ empty \in Nat /\ full \in Nat /\ write_index \in Nat
      /\ read_index \in Nat /\ SlotCount \in Nat /\ occupied_slots \in Int
  BY ConstFacts DEF TypeOK
<1>1. ASSUME CallAcquire \/ WriterFails \/ (\E t \in RefillTargets : CallRefill(t))
               \/ AcquireChecks \/ TimeoutChecksDone \/ TimeoutChecksLeft
               \/ (\E f \in Files : AcquireSlot(f)) \/ ReleaseBegins
               \/ RefillLoads \/ RefillDecides \/ DisposeConsumer
               \/ DisposeSession
      PROVE RingInv'
  <2>1. /\ target \notin {"release", "post"} /\ target' \notin {"release", "post"}
        /\ UNCHANGED <<write_index, read_index, occupied_slots, empty, full,
                       source, taken>>
    BY <1>1 DEF CallAcquire, WriterFails, CallRefill, AcquireChecks,
       TimeoutChecksDone, TimeoutChecksLeft, AcquireSlot, ReleaseBegins,
       RefillLoads, RefillDecides, DisposeConsumer, DisposeSession,
       TargetGoes, TargetEnds, StopWaiting, TargetRuns, TargetSide,
       sourceVars, countVars, semVars
  <2> QED BY <2>1 DEF RingInv, SlotsConserved, OccupiedExact, Flag
<1>2. ASSUME TakeFull PROVE RingInv'
  <2>1. ~taken
    BY <1>2 DEF TakeFull, TargetRuns, TargetInv, Releasing, Ended
  <2> QED
    BY <1>0, <1>2, <2>1 DEF RingInv, SlotsConserved, OccupiedExact, Flag,
       TakeFull, GotFull, TargetGoes, TargetRuns, TargetSide, sourceVars,
       countVars
<1>3. ASSUME Uncount PROVE RingInv'
  <2>1. taken BY <1>3 DEF Uncount, TargetRuns, TargetInv, Releasing
  <2>2. full >= 0 /\ full = write_index - read_index
                       - Flag(source \in {"bytes", "count", "post"}) - 1
    BY <1>0, <2>1 DEF RingInv, SlotsConserved, Flag
  <2> QED
    BY <1>0, <1>3, <2>1, <2>2 DEF RingInv, SlotsConserved, OccupiedExact, Flag,
       Uncount, TargetGoes, TargetRuns, TargetSide, sourceVars, semVars
<1>4. ASSUME ReleaseIndex PROVE RingInv'
  <2>1. taken BY <1>4 DEF ReleaseIndex, TargetRuns, TargetInv, Releasing
  <2>2. /\ target = "release" /\ target' = "post" /\ ~taken'
        /\ read_index' = read_index + 1
        /\ UNCHANGED <<write_index, occupied_slots, empty, full, source>>
    BY <1>4 DEF ReleaseIndex, TargetRuns, TargetSide, sourceVars, semVars
  <2> QED
    BY <1>0, <2>1, <2>2 DEF RingInv, SlotsConserved, OccupiedExact, Flag
<1>5. ASSUME PostEmpty PROVE RingInv'
  BY <1>0, <1>5 DEF RingInv, SlotsConserved, OccupiedExact, Flag,
     PostEmpty, TargetGoes, TargetRuns, TargetSide, sourceVars, countVars
<1> QED BY <1>1, <1>2, <1>3, <1>4, <1>5 DEF Writer, Target, Release

LEMMA TargetChain ==
  ASSUME IInv, Writer
  PROVE  ChainInv'
<1> USE DEF IInv
<1>1. ASSUME ReleaseIndex PROVE ChainInv'
  <2>1. /\ read_index' = read_index + 1 /\ last' = NextSlot
        /\ UNCHANGED <<slots, write_index, source, item, selected,
                       producer_done>>
    BY <1>1 DEF ReleaseIndex, TargetSide, sourceVars, sessionVars, flagVars
  <2>2. taken BY <1>1 DEF ReleaseIndex, TargetRuns, TargetInv, Releasing
  <2>3. read_index \in Nat /\ write_index \in Nat /\ read_index < write_index
    BY <2>2, RingBounds DEF TypeOK
  <2>4. ASSUME NEW k \in (read_index + 1)..write_index
        PROVE  Before(k)' = Before(k)
    <3>1. k # read_index BY <2>3
    <3>2. CASE k = read_index + 1
      <4>1. k - 1 = read_index BY <2>3, <3>2
      <4> QED BY <2>1, <3>1, <3>2, <4>1 DEF Before, NextSlot
    <3>3. CASE k # read_index + 1
      BY <2>1, <3>1, <3>3 DEF Before
    <3> QED BY <3>2, <3>3
  <2>5. ASSUME NEW k \in (read_index + 1)..(write_index - 1)
        PROVE  Stream!Follows(selected, Before(k)', slots[k % SlotCount])
    <3>1. k \in read_index..(write_index - 1)
          /\ k \in (read_index + 1)..write_index
      BY <2>3
    <3>2. Stream!Follows(selected, Before(k), slots[k % SlotCount])
      BY <3>1 DEF ChainInv
    <3> QED BY <3>1, <3>2, <2>4
  <2>6. Before(write_index)' = Before(write_index)
    <3>1. write_index # read_index BY <2>3
    <3>2. CASE write_index = read_index + 1
      <4>1. write_index - 1 = read_index BY <2>3, <3>2
      <4> QED BY <2>1, <3>1, <3>2, <4>1 DEF Before, NextSlot
    <3>3. CASE write_index # read_index + 1
      BY <2>1, <3>1, <3>3 DEF Before
    <3> QED BY <3>2, <3>3
  <2> QED BY <2>1, <2>5, <2>6 DEF ChainInv
<1>2. ASSUME ~ReleaseIndex PROVE ChainInv'
  <2>1. UNCHANGED <<slots, write_index, read_index, last, selected, item, source,
                    producer_done>>
    BY <1>2 DEF Writer, Target, Release, CallAcquire, WriterFails, CallRefill,
       AcquireChecks, TakeFull, TimeoutChecksDone, TimeoutChecksLeft,
       AcquireSlot, ReleaseBegins, Uncount, PostEmpty, RefillLoads,
       RefillDecides, DisposeConsumer, DisposeSession, TargetGoes, TargetEnds,
       StopWaiting, TargetSide, sourceVars, sessionVars, countVars, flagVars
  <2> QED BY <2>1, ChainSame
<1> QED BY <1>1, <1>2

LEMMA TargetPoints ==
  ASSUME IInv, Writer
  PROVE  SourceInv' /\ TargetInv'
<1> USE DEF IInv
<1>1. UNCHANGED <<source, item, selected, producer_done, watcher, write_index>>
  BY DEF Writer, Target, Release, CallAcquire, WriterFails, CallRefill,
       AcquireChecks, TakeFull, TimeoutChecksDone, TimeoutChecksLeft,
       AcquireSlot, ReleaseBegins, Uncount, ReleaseIndex, PostEmpty,
       RefillLoads, RefillDecides, DisposeConsumer, DisposeSession, TargetSide,
       sourceVars, sessionVars, countVars, flagVars
<1>2. SourceInv' BY <1>1 DEF SourceInv
<1>3. ASSUME CallAcquire \/ WriterFails \/ (\E t \in RefillTargets : CallRefill(t))
      PROVE TargetInv'
  BY <1>1, <1>3 DEF TargetInv, CallAcquire, WriterFails, CallRefill,
     TargetGoes,
     TargetEnds, TargetRuns, Acquiring, Releasing, Ended
<1>4. ASSUME AcquireChecks \/ TimeoutChecksDone \/ TimeoutChecksLeft
      PROVE TargetInv'
  <2>1. /\ target \in Acquiring /\ target' \in Acquiring \union {"dispose"}
        /\ target' = "left?" => producer_done
        /\ ending' = "open" <=> target' # "dispose"
        /\ UNCHANGED <<taken, last>>
    BY <1>4 DEF AcquireChecks, TimeoutChecksDone, TimeoutChecksLeft,
       TargetGoes,
       TargetEnds, StopWaiting, CancelResult, TargetRuns, TargetInv, Acquiring,
       Ended
  <2> QED
    BY <1>1, <2>1 DEF TargetInv, Acquiring, Releasing, Ended
<1>7. ASSUME TakeFull PROVE TargetInv'
  <2>1. CASE GotFull
    BY <1>1, <1>7, <2>1 DEF TargetInv, TakeFull, TargetRuns, Acquiring,
       Releasing, Ended
  <2>2. CASE ~GotFull
    BY <1>1, <1>7, <2>2 DEF TargetInv, TakeFull, TargetGoes, TargetRuns,
       Acquiring, Releasing, Ended
  <2> QED BY <2>1, <2>2
<1>5. ASSUME (\E f \in Files : AcquireSlot(f)) \/ Release
      PROVE TargetInv'
  <2>1. CASE \E f \in Files : AcquireSlot(f)
    BY <1>1, <2>1 DEF TargetInv, AcquireSlot, TargetGoes, TargetEnds,
       TargetRuns, Acquiring, Releasing, Ended
  <2>2. CASE ReleaseBegins \/ Uncount
    BY <1>1, <2>2 DEF TargetInv, ReleaseBegins, Uncount, TargetGoes,
       TargetRuns,
       Acquiring, Releasing, Ended
  <2>3. CASE ReleaseIndex \/ PostEmpty
    BY <1>1, <2>3 DEF TargetInv, ReleaseIndex, PostEmpty, TargetGoes,
       TargetRuns, Acquiring, Releasing, Ended
  <2> QED BY <1>5, <2>1, <2>2, <2>3 DEF Release
<1>6. ASSUME RefillLoads \/ RefillDecides \/ DisposeConsumer \/ DisposeSession
      PROVE TargetInv'
  <2>1. CASE RefillLoads \/ RefillDecides
    <3>1. /\ target \in {"refill", "loaded"}
          /\ target' \in {"ready", "refill", "loaded", "dispose"}
          /\ ending' = "open" <=> target' # "dispose"
          /\ UNCHANGED <<taken, last>>
      BY <2>1 DEF RefillLoads, RefillDecides, TargetGoes, TargetEnds,
         StopWaiting, CancelResult, TargetRuns, TargetInv, Ended
    <3> QED BY <1>1, <3>1 DEF TargetInv, Acquiring, Releasing, Ended
  <2>2. CASE DisposeConsumer \/ DisposeSession
    BY <1>1, <2>2 DEF TargetInv, DisposeConsumer, DisposeSession, TargetGoes,
       TargetRuns, Acquiring, Releasing, Ended
  <2> QED BY <1>6, <2>1, <2>2
<1> QED BY <1>2, <1>3, <1>4, <1>5, <1>6, <1>7 DEF Writer, Target

(* LFR_DONE is never returned to a target that expects more: what the      *)
(* source published before it marked the end is either in the ring, where  *)
(* occupied_slots counts it, or received.                                  *)
LEMMA NeverStarved ==
  ASSUME IInv, target = "left?"
  PROVE  ~NothingLeft
<1> SUFFICES ASSUME NothingLeft PROVE FALSE OBVIOUS
<1> USE DEF IInv
<1>1. producer_done /\ ~Stream!IsLast(selected, last)
  BY DEF TargetInv, Acquiring
<1>2. /\ source \in {"dispose", "reply", "closed"}
      /\ Stream!IsLast(selected, item) /\ item = Before(write_index)
  BY <1>1 DEF SourceInv, ChainInv
<1>3. read_index = write_index
  <2>1. read_index \in Nat /\ write_index \in Nat BY DEF TypeOK
  <2> QED
    BY <2>1, <1>2 DEF RingInv, OccupiedExact, Flag, NothingLeft
<1> QED BY <1>1, <1>2, <1>3 DEF Before

LEMMA TargetCause ==
  ASSUME IInv, Writer
  PROVE  CauseInv' /\ EndsForCause'
<1> USE DEF IInv
<1>1. UNCHANGED <<alive, user_cancelled, watcher, peer_error, source,
                  token_cancelled>>
  BY DEF Writer, Target, Release, CallAcquire, WriterFails, CallRefill,
       AcquireChecks, TakeFull, TimeoutChecksDone, TimeoutChecksLeft,
       AcquireSlot, ReleaseBegins, Uncount, ReleaseIndex, PostEmpty,
       RefillLoads, RefillDecides, DisposeConsumer, DisposeSession, TargetSide,
       sourceVars, sessionVars
<1>2. ending' \in {ending, "done", "failed"}
        \/ (ending' = "cancelled" /\ cancelled /\ ~peer_error
              /\ "target" \in alive /\ ending = "open")
  <2>1. CASE TimeoutChecksLeft
    <3>1. target = "left?" BY <2>1 DEF TimeoutChecksLeft, TargetRuns
    <3>2. ~NothingLeft BY <3>1, NeverStarved
    <3> QED BY <2>1, <3>2 DEF TimeoutChecksLeft, TargetGoes
  <2>2. CASE AcquireChecks \/ RefillLoads
    BY <2>2 DEF AcquireChecks, RefillLoads, TargetGoes, TargetEnds,
       StopWaiting,
       CancelResult, TargetRuns, TargetInv, Ended
  <2>3. CASE CallAcquire \/ WriterFails \/ (\E t \in RefillTargets : CallRefill(t))
               \/ TakeFull \/ TimeoutChecksDone \/ (\E f \in Files : AcquireSlot(f))
    BY <2>3 DEF CallAcquire, WriterFails, CallRefill, TakeFull,
       TimeoutChecksDone, AcquireSlot, TargetGoes, TargetEnds
  <2>4. CASE Release \/ RefillDecides \/ DisposeConsumer \/ DisposeSession
    BY <2>4 DEF Release, ReleaseBegins, Uncount, ReleaseIndex, PostEmpty,
       RefillDecides, DisposeConsumer, DisposeSession, TargetGoes
  <2> QED BY <2>1, <2>2, <2>3, <2>4 DEF Writer, Target
<1>3. EndsForCause'
  <2>1. ending' # "starved" BY <1>2 DEF EndsForCause
  <2>2. ending' = "cancelled" => user_cancelled' # {}
    BY <1>1, <1>2 DEF EndsForCause, CauseInv, Undisturbed
  <2> QED BY <2>1, <2>2 DEF EndsForCause
<1>4. ending' = "open"
        => /\ ending = "open"
           /\ UNCHANGED <<cancelled, to_source, open_ends>>
  <2>1. CASE DisposeConsumer \/ DisposeSession
    BY <2>1 DEF DisposeConsumer, DisposeSession, TargetGoes, TargetRuns,
       TargetInv, Ended
  <2>2. CASE ~(DisposeConsumer \/ DisposeSession)
    <3>1. UNCHANGED <<cancelled, to_source, open_ends>>
      BY <2>2 DEF Writer, Target, Release, CallAcquire, WriterFails,
         CallRefill,
       AcquireChecks, TakeFull, TimeoutChecksDone, TimeoutChecksLeft,
       AcquireSlot, ReleaseBegins, Uncount, ReleaseIndex, PostEmpty,
       RefillLoads, RefillDecides, TargetSide, sessionVars, pipeVars, flagVars
    <3>2. ending' = "open" => ending = "open"
      <4>1. target' \notin Ended => target \notin Ended
        BY <2>2 DEF Writer, Target, Release, CallAcquire, WriterFails,
           CallRefill, AcquireChecks, TakeFull, TimeoutChecksDone,
           TimeoutChecksLeft, AcquireSlot, ReleaseBegins, Uncount,
           ReleaseIndex, PostEmpty, RefillLoads, RefillDecides, TargetRuns,
           Ended
      <4> QED BY <4>1, TargetPoints DEF TargetInv
    <3> QED BY <3>1, <3>2
  <2> QED BY <2>1, <2>2
<1> QED BY <1>1, <1>3, <1>4 DEF CauseInv, Undisturbed

-----------------------------------------------------------------------------
(* Planning, cancellation, the tasks at the pipe, the death of a process.  *)
Session ==
  \/ ListenerHears \/ TokenCallback \/ SourceUserCancels
  \/ TargetUserCancels \/ WatcherHears \/ WatcherCancels
  \/ \E side \in Mortal : Dies(side)

LEMMA PlanningStep ==
  ASSUME IInv, (\E f \in Files : ChooseMaterial(f)) \/ Start
  PROVE  IInv'
<1> USE DEF IInv
<1>1. ASSUME NEW f \in Files, ChooseMaterial(f) PROVE IInv'
  <2>1. /\ target = "planning" /\ selected' = selected \union {f}
        /\ UNCHANGED <<slots, countVars, semVars, flagVars, sourceVars,
                       targetVars, token_cancelled, listener, peer_error,
                       watcher, pipeVars, alive, user_cancelled>>
    BY <1>1 DEF ChooseMaterial, TargetRuns
  <2>2. /\ source \in {"idle", "reply", "closed"} /\ ~producer_done
        /\ item = Stream!NoItem /\ last = Stream!NoItem
        /\ write_index = 0 /\ read_index = 0
    BY <2>1 DEF TargetInv
  <2>3. TypeOK' /\ ItemInv'
    BY <2>1 DEF TypeOK, ItemInv, countVars, semVars, flagVars, sourceVars,
       targetVars, pipeVars
  <2>4. RingInv'
    BY <2>1 DEF RingInv, SlotsConserved, OccupiedExact, Flag, countVars,
       semVars,
       sourceVars, targetVars
  <2>5. ChainInv'
    <3>1. /\ write_index' = 0 /\ read_index' = 0 /\ source' = source
          /\ item' = last' /\ ~producer_done'
      BY <2>1, <2>2 DEF countVars, sourceVars, targetVars, flagVars
    <3>2. read_index'..(write_index' - 1) = {} BY <3>1
    <3>3. Before(write_index)' = last' BY <3>1 DEF Before
    <3> QED BY <2>2, <3>1, <3>2, <3>3 DEF ChainInv
  <2>6. SourceInv' /\ TargetInv'
    BY <2>1, <2>2 DEF SourceInv, TargetInv, countVars, flagVars, sourceVars,
       targetVars, Acquiring
  <2>7. CauseInv' /\ EndsForCause'
    BY <2>1 DEF CauseInv, Undisturbed, EndsForCause, flagVars, sourceVars,
       targetVars, pipeVars
  <2> QED BY <2>3, <2>4, <2>5, <2>6, <2>7
<1>2. ASSUME Start PROVE IInv'
  <2>1. /\ target = "planning" /\ target' = "ready" /\ watcher' = "reading"
        /\ UNCHANGED <<slots, countVars, semVars, flagVars, sourceVars, taken,
                       last, refill, seen, ending, token_cancelled, listener,
                       peer_error, selected, pipeVars, alive, user_cancelled>>
    BY <1>2 DEF Start, TargetRuns
  <2>2. TypeOK' /\ ItemInv'
    BY <2>1 DEF TypeOK, ItemInv, TargetStates, countVars, semVars, flagVars,
       sourceVars, pipeVars
  <2>3. RingInv'
    BY <2>1 DEF RingInv, SlotsConserved, OccupiedExact, Flag, countVars,
       semVars,
       sourceVars
  <2>4. ChainInv'
    BY <2>1, ChainSame DEF countVars, sourceVars, flagVars
  <2>5. SourceInv' /\ TargetInv'
    BY <2>1 DEF SourceInv, TargetInv, flagVars, sourceVars, Acquiring,
       Releasing,
       Ended
  <2>6. CauseInv' /\ EndsForCause'
    BY <2>1 DEF CauseInv, Undisturbed, EndsForCause, flagVars, sourceVars,
       pipeVars
  <2> QED BY <2>2, <2>3, <2>4, <2>5, <2>6
<1> QED BY <1>1, <1>2

(* A step that leaves the ring and both threads where they are.            *)
LEMMA RingSame ==
  ASSUME IInv,
         UNCHANGED <<slots, countVars, semVars, producer_done, sourceVars,
                     targetVars, selected>>,
         target = "planning" => watcher' = "idle"
  PROVE  ItemInv' /\ RingInv' /\ ChainInv' /\ SourceInv' /\ TargetInv'
<1> USE DEF IInv
<1>1. ItemInv' /\ SourceInv' BY DEF ItemInv, SourceInv, sourceVars
<1>2. RingInv'
  BY DEF RingInv, SlotsConserved, OccupiedExact, Flag, countVars, semVars,
     sourceVars, targetVars
<1>3. ChainInv' BY ChainSame DEF countVars, sourceVars, targetVars
<1>4. TargetInv' BY DEF TargetInv, countVars, sourceVars, targetVars
<1> QED BY <1>1, <1>2, <1>3, <1>4

LEMMA SessionStep ==
  ASSUME IInv, Session
  PROVE  IInv'
<1> USE DEF IInv
<1>1. /\ UNCHANGED <<slots, countVars, semVars, producer_done, error,
                     sourceVars, targetVars, selected>>
      /\ watcher = "idle" => watcher' = "idle"
  BY DEF Session, ListenerHears, TokenCallback, SourceUserCancels,
     TargetUserCancels, WatcherHears, WatcherCancels, Dies, flagVars, sessionVars
<1>2. ItemInv' /\ RingInv' /\ ChainInv' /\ SourceInv' /\ TargetInv'
  BY <1>1, RingSame DEF TargetInv
<1>3. TypeOK'
  <2>1. /\ cancelled \in BOOLEAN /\ token_cancelled \in BOOLEAN
        /\ peer_error \in BOOLEAN
        /\ open_ends \subseteq Sides /\ alive \subseteq Sides
        /\ user_cancelled \subseteq Sides
        /\ listener \in {"idle", "reading", "exited"}
        /\ watcher \in {"idle", "reading", "cancel", "exited"}
    BY DEF TypeOK
  <2>2. /\ cancelled' \in BOOLEAN /\ token_cancelled' \in BOOLEAN
        /\ peer_error' \in BOOLEAN
    BY <2>1, Zenon DEF Session, ListenerHears, TokenCallback,
       SourceUserCancels,
     TargetUserCancels, WatcherHears, WatcherCancels, Dies, flagVars, sessionVars
  <2>3. /\ open_ends' \subseteq Sides /\ alive' \subseteq Sides
        /\ user_cancelled' \subseteq Sides
    BY <2>1 DEF Session, ListenerHears, TokenCallback, SourceUserCancels,
     TargetUserCancels, WatcherHears, WatcherCancels, Dies, sessionVars, pipeVars,
     Sides
  <2>4. /\ listener' \in {"idle", "reading", "exited"}
        /\ watcher' \in {"idle", "reading", "cancel", "exited"}
        /\ UNCHANGED <<to_target, to_source>>
    BY <2>1 DEF Session, ListenerHears, TokenCallback, SourceUserCancels,
     TargetUserCancels, WatcherHears, WatcherCancels, Dies, sessionVars, pipeVars
  <2> QED
    BY <1>1, <2>2, <2>3, <2>4 DEF TypeOK, countVars, semVars, sourceVars,
       targetVars
<1>4. EndsForCause'
  <2>1. ending' = ending /\ user_cancelled \subseteq user_cancelled'
    BY <1>1 DEF Session, ListenerHears, TokenCallback, SourceUserCancels,
     TargetUserCancels, WatcherHears, WatcherCancels, Dies, sessionVars,
     targetVars
  <2> QED BY <2>1 DEF EndsForCause
<1>5. CauseInv'
  <2>1. CASE ListenerHears
    BY <1>1, <2>1 DEF CauseInv, Undisturbed, ListenerHears, flagVars, pipeVars,
       sourceVars, targetVars
  <2>2. CASE TokenCallback
    <3>1. "source" \in alive /\ token_cancelled /\ source # "closed"
      BY <2>2 DEF TokenCallback, Registered, Streaming
    <3> QED
      BY <1>1, <2>2, <3>1 DEF CauseInv, Undisturbed, TokenCallback,
         sessionVars,
         pipeVars, sourceVars, targetVars
  <2>3. CASE SourceUserCancels \/ TargetUserCancels
    BY <1>1, <2>3 DEF CauseInv, Undisturbed, SourceUserCancels,
       TargetUserCancels
  <2>4. CASE WatcherHears
    BY <1>1, <2>4 DEF CauseInv, Undisturbed, WatcherHears, flagVars, pipeVars,
       sourceVars, targetVars
  <2>5. CASE WatcherCancels
    BY <1>1, <2>5 DEF CauseInv, Undisturbed, WatcherCancels, pipeVars,
       sourceVars, targetVars
  <2>6. CASE \E side \in Mortal : Dies(side)
    <3>1. PICK side \in Sides : Dies(side) BY <2>6, BridgeAssumption
    <3> QED
      BY <1>1, <3>1 DEF CauseInv, Undisturbed, Dies, flagVars, sourceVars,
       targetVars, Sides
  <2> QED BY <2>1, <2>2, <2>3, <2>4, <2>5, <2>6 DEF Session
<1> QED BY <1>2, <1>3, <1>4, <1>5

-----------------------------------------------------------------------------
(* The theorems.                                                           *)
LEMMA InitIInv == Init => IInv
<1> SUFFICES ASSUME Init PROVE IInv OBVIOUS
<1>1. Stream!NoItem \in Stream!Item BY DEF Stream!NoItem, Stream!Item
<1>2. SlotCount \in Nat BY ConstFacts
<1>3. TypeOK
  <2>1. /\ slots \in [Index -> Stream!Item] /\ item \in Stream!Item
        /\ last \in Stream!Item
    BY <1>1 DEF Init
  <2>2. /\ write_index \in Nat /\ read_index \in Nat
        /\ buffered_bytes \in Int /\ occupied_slots \in Int
        /\ empty \in Nat /\ full \in Nat /\ refill \in Nat /\ seen \in Int
    BY <1>2 DEF Init
  <2>3. /\ cancelled \in BOOLEAN /\ producer_done \in BOOLEAN
        /\ error \in {"none", "source", "target"}
        /\ token_cancelled \in BOOLEAN /\ taken \in BOOLEAN
        /\ peer_error \in BOOLEAN
    BY DEF Init
  <2>4. /\ source \in SourceStates /\ outcome \in {"ok", "failed", "cancelled"}
        /\ listener \in {"idle", "reading", "exited"}
        /\ target \in TargetStates
        /\ ending \in Stream!Endings \union {"open", "starved"}
        /\ watcher \in {"idle", "reading", "cancel", "exited"}
    BY DEF Init, SourceStates, TargetStates
  <2>5. /\ selected \subseteq Files
        /\ to_target \in {"none", "complete", "error"}
        /\ to_source \in {"none", "cancel"}
        /\ open_ends \subseteq Sides /\ alive \subseteq Sides
        /\ user_cancelled \subseteq Sides
    BY DEF Init
  <2> QED BY <2>1, <2>2, <2>3, <2>4, <2>5 DEF TypeOK
<1>4. ItemInv BY DEF Init, ItemInv, Stream!NoItem
<1>5. RingInv
  <2>1. /\ full = 0 /\ empty = SlotCount /\ write_index = 0 /\ read_index = 0
        /\ occupied_slots = 0 /\ source = "idle" /\ target = "planning"
        /\ ~taken
    BY DEF Init
  <2>2. /\ Flag(source \in {"bytes", "count", "post"}) = 0 /\ Flag(taken) = 0
        /\ Flag(source \in {"recheck", "write"}) = 0
        /\ Flag(target = "post") = 0
        /\ Flag(source \in {"bytes", "count"}) = 0
        /\ Flag(target = "release") = 0
    BY <2>1, Zenon DEF Flag
  <2> QED BY <1>2, <2>1, <2>2 DEF RingInv, SlotsConserved, OccupiedExact
<1>6. ChainInv
  <2>1. /\ write_index = 0 /\ read_index = 0 /\ source = "idle"
        /\ item = last
    BY DEF Init
  <2>2. read_index..(write_index - 1) = {} BY <2>1
  <2>3. Before(write_index) = last BY <2>1 DEF Before
  <2> QED BY <2>1, <2>2, <2>3 DEF ChainInv
<1>7. SourceInv /\ TargetInv
  BY DEF Init, SourceInv, TargetInv, Acquiring, Releasing, Ended
<1>8. CauseInv /\ EndsForCause
  BY DEF Init, CauseInv, EndsForCause, Undisturbed, Sides
<1> QED BY <1>3, <1>4, <1>5, <1>6, <1>7, <1>8 DEF IInv

LEMMA NextIInv == IInv /\ [Next]_vars => IInv'
<1> SUFFICES ASSUME IInv, [Next]_vars PROVE IInv' OBVIOUS
<1>1. CASE Source
  BY <1>1, SourceType, SourceRing, SourceChain, SourcePoints, SourceCause
  DEF IInv
<1>2. CASE Writer
  BY <1>2, TargetType, TargetRing, TargetChain, TargetPoints, TargetCause
  DEF IInv
<1>3. CASE (\E f \in Files : ChooseMaterial(f)) \/ Start
  BY <1>3, PlanningStep
<1>4. CASE Session BY <1>4, SessionStep
<1>5. CASE UNCHANGED vars
  <2>1. UNCHANGED <<slots, countVars, semVars, flagVars, sourceVars, targetVars,
                    sessionVars>>
    BY <1>5 DEF vars
  <2>2. ItemInv' /\ RingInv' /\ ChainInv' /\ SourceInv' /\ TargetInv'
    BY <2>1, RingSame DEF IInv, TargetInv, flagVars, sessionVars
  <2>3. TypeOK'
    BY <2>1 DEF IInv, TypeOK, countVars, semVars, flagVars, sourceVars,
       targetVars, sessionVars, pipeVars
  <2>4. CauseInv' /\ EndsForCause'
    BY <2>1 DEF IInv, CauseInv, Undisturbed, EndsForCause, flagVars,
       sourceVars,
       targetVars, sessionVars, pipeVars
  <2> QED BY <2>2, <2>3, <2>4 DEF IInv
<1> QED BY <1>1, <1>2, <1>3, <1>4, <1>5 DEF Next, Writer, Session

THEOREM Invariant == Spec => []IInv
BY InitIInv, NextIInv, PTL DEF Spec

(* The variables of TapeBridge stay in their types.                        *)
THEOREM TypeCorrect == Spec => []TypeOK
<1>1. IInv => TypeOK BY DEF IInv
<1> QED BY <1>1, Invariant, PTL

(* Every slot is counted by one semaphore or held by one process, whichever*)
(* of them is cancelled, fails or dies, and at whatever step.              *)
THEOREM PermitsConserved == Spec => []SlotsConserved
<1>1. IInv => SlotsConserved BY DEF IInv, RingInv
<1> QED BY <1>1, Invariant, PTL

(* occupied_slots, which both processes change without a lock, is exact up *)
(* to the publication and the release in progress, and never wraps.        *)
THEOREM OccupiedCorrect == Spec => []OccupiedExact
<1>1. IInv => OccupiedExact BY DEF IInv, RingInv
<1> QED BY <1>1, Invariant, PTL

(* A copy that ends early ends for a cause: LFR_DONE is never returned to a*)
(* target that expects more, and a failure or the death of the peer is     *)
(* never taken for a cancellation.                                         *)
THEOREM CausesKnown == Spec => []EndsForCause
<1>1. IInv => EndsForCause BY DEF IInv
<1> QED BY <1>1, Invariant, PTL

(* The source never writes the slot the target is using.                   *)
THEOREM SlotStable == Spec => BorrowedSlotStable
<1>1. IInv /\ [Next]_vars
        => [taken => slots'[read_index % SlotCount] = NextSlot]_vars
  <2> SUFFICES ASSUME IInv, Next, taken
               PROVE  slots'[read_index % SlotCount] = NextSlot
    OBVIOUS
  <2>1. CASE WriteSlot
    <3>1. source = "write" /\ slots' = [slots EXCEPT ![write_index % SlotCount] = item]
      BY <2>1 DEF WriteSlot, SourceRuns
    <3>2. read_index \in read_index..(write_index - 1)
      BY RingBounds DEF IInv, TypeOK
    <3>3. read_index % SlotCount # write_index % SlotCount
      BY <3>1, <3>2, OtherSlot DEF IInv
    <3>4. /\ read_index % SlotCount \in Index
          /\ slots \in [Index -> Stream!Item]
      BY SlotIndex DEF IInv, TypeOK
    <3> QED BY <3>1, <3>3, <3>4 DEF NextSlot
  <2>2. CASE ~WriteSlot
    <3>1. slots' = slots
      BY <2>2 DEF Next, ChooseMaterial, Start, Source, ServeStart, NextFile,
       Complete, FileFails, PublishWaits, ReadPiece, TakeEmpty, Recheck,
       CountBytes, CountSlot, PostFull, DisposeProducer, ServeEnds,
       Target, Release, CallAcquire, WriterFails, CallRefill, AcquireChecks,
       TakeFull, TimeoutChecksDone, TimeoutChecksLeft, AcquireSlot,
       ReleaseBegins, Uncount, ReleaseIndex, PostEmpty, RefillLoads,
       RefillDecides, DisposeConsumer, DisposeSession, ListenerHears,
       TokenCallback, SourceUserCancels, TargetUserCancels, WatcherHears,
       WatcherCancels, Dies
    <3> QED BY <3>1 DEF NextSlot
  <2> QED BY <2>1, <2>2
<1> QED BY <1>1, Invariant, PTL DEF Spec, BorrowedSlotStable

-----------------------------------------------------------------------------
(* Refinement.                                                             *)
LEMMA NextRefines ==
  IInv /\ IInv' /\ [Next]_vars => [Stream!Next]_Stream!streamVars
<1> SUFFICES ASSUME IInv, IInv', [Next]_vars
             PROVE  Stream!Next \/ UNCHANGED <<selected, last, ending>>
  BY DEF Stream!streamVars, IInv, EndsForCause
<1>0. ending # "starved" /\ ending' # "starved" BY DEF IInv, EndsForCause
<1> DEFINE Goal == Stream!Next \/ UNCHANGED <<selected, last, ending>>
<1>1. ASSUME NEW f \in Files, ChooseMaterial(f) PROVE Goal
  <2>1. last = Stream!NoItem /\ ending = "open"
    BY <1>1 DEF IInv, TargetInv, ChooseMaterial, TargetRuns, Ended
  <2>2. Stream!Choose(f)
    BY <1>0, <1>1, <2>1 DEF Stream!Choose, ChooseMaterial, targetVars, Files
  <2> QED BY <2>2 DEF Stream!Next, Files
<1>2. CASE ReleaseIndex
  <2>1. /\ target = "release" /\ taken /\ ending = "open" /\ ending' = ending
        /\ last' = NextSlot /\ selected' = selected
    BY <1>2 DEF IInv, TargetInv, Releasing, Ended, ReleaseIndex, TargetRuns,
       TargetSide, sessionVars
  <2>2. read_index \in read_index..(write_index - 1)
    BY <2>1, RingBounds DEF IInv, TypeOK
  <2>3. Stream!Follows(selected, last, NextSlot)
    BY <2>2 DEF IInv, ChainInv, Before, NextSlot
  <2>4. NextSlot \in Stream!Item BY SlotIndex DEF IInv
  <2>5. Stream!Receive BY <2>1, <2>3, <2>4 DEF Stream!Receive
  <2> QED BY <2>5 DEF Stream!Next
<1>3. ASSUME Writer, ~ReleaseIndex PROVE Goal
  <2>1. UNCHANGED <<selected, last>>
    BY <1>3 DEF Writer, Target, Release, CallAcquire, WriterFails, CallRefill,
       AcquireChecks, TakeFull, TimeoutChecksDone, TimeoutChecksLeft,
       AcquireSlot, ReleaseBegins, Uncount, PostEmpty, RefillLoads,
       RefillDecides, DisposeConsumer, DisposeSession, TargetGoes, TargetEnds,
       StopWaiting, TargetSide, sessionVars
  <2>2. ending' # ending
          => /\ target \notin Ended
             /\ ending' = "done" => Stream!IsLast(selected, last)
    BY <1>3 DEF Writer, Target, Release, CallAcquire, WriterFails, CallRefill,
       AcquireChecks, TakeFull, TimeoutChecksDone, TimeoutChecksLeft,
       AcquireSlot, ReleaseBegins, Uncount, PostEmpty, RefillLoads,
       RefillDecides, DisposeConsumer, DisposeSession, TargetGoes, TargetEnds,
       StopWaiting, CancelResult, TargetRuns, Ended
  <2>3. ASSUME ending' # ending PROVE Stream!End
    <3>1. ending = "open" BY <2>2, <2>3 DEF IInv, TargetInv
    <3>2. ending' \in Stream!Endings
      BY <1>0, <2>3, <3>1 DEF IInv, TypeOK
    <3> QED
      BY <1>0, <2>1, <2>2, <2>3, <3>1, <3>2 DEF Stream!End
  <2> QED BY <2>1, <2>3 DEF Stream!Next
<1>4. ASSUME Source \/ Start \/ Session \/ UNCHANGED vars PROVE Goal
  <2>1. CASE Source
    BY <2>1 DEF Source, ServeStart, NextFile, Complete, FileFails,
       PublishWaits,
       ReadPiece, TakeEmpty, Recheck, WriteSlot, CountBytes, CountSlot,
       PostFull, DisposeProducer, ServeEnds, SourceSide, targetVars
  <2>2. CASE Start BY <2>2 DEF Start
  <2>3. CASE Session
    BY <2>3 DEF Session, ListenerHears, TokenCallback, SourceUserCancels,
     TargetUserCancels, WatcherHears, WatcherCancels, Dies, targetVars,
     sessionVars
  <2>4. CASE UNCHANGED vars BY <2>4 DEF vars, targetVars, sessionVars
  <2> QED BY <1>4, <2>1, <2>2, <2>3, <2>4
<1> QED BY <1>1, <1>2, <1>3, <1>4 DEF Next, Writer, Session

(* What the target receives from the other process is the stream           *)
(* FileStream specifies, however the copy is disturbed: no slot is lost,   *)
(* repeated or taken for another, and a complete copy is complete.         *)
THEOREM Refinement == Spec => ImplementsStream
<1>1. Init => Stream!Init BY DEF Init, Stream!Init
<1> QED
  BY <1>1, NextRefines, Invariant, PTL DEF Spec, ImplementsStream, Stream!Spec

-----------------------------------------------------------------------------
(* TapeFile: the file that is streamed.                                    *)


\* A set of naturals has a least element.
Below == {ss \in Nat \X Nat : ss[1] < ss[2]}

LEMMA BelowWellFounded == IsWellFoundedOn(Below, Nat)
BY NatLessThanWellFounded DEF OpToRel, Below

LEMMA LeastNat ==
  ASSUME NEW T, T \subseteq Nat, T # {}
  PROVE  \E x \in T : \A y \in T : x <= y
<1>1. PICK x \in T : \A y \in T : ~ (<<y, x>> \in Below)
  BY BelowWellFounded, WFMin
<1>2. ASSUME NEW y \in T PROVE x <= y
  <2>1. x \in Nat /\ y \in Nat OBVIOUS
  <2>2. ~ (y < x)
    <3> SUFFICES ASSUME y < x PROVE FALSE OBVIOUS
    <3>1. <<y, x>> \in Nat \X Nat BY <2>1
    <3>2. <<y, x>>[1] < <<y, x>>[2] OBVIOUS
    <3>3. <<y, x>> \in Below BY <3>1, <3>2 DEF Below
    <3> QED BY <3>3, <1>1
  <2> QED BY <2>1, <2>2
<1> QED BY <1>2

-----------------------------------------------------------------------------
(* The extents of a file.                                                  *)

(* Any list of extents can be sorted: the last is inserted into the rest.  *)
LEMMA OrdersExist ==
  ASSUME NEW list \in Seq(Extents)
  PROVE  Orders(list) # {}
<1> DEFINE Key(j) == list[j].file_offset
           Sorts(n) == {p \in [1..n -> 1..n] :
                          \A i, j \in 1..n :
                            i < j => p[i] # p[j] /\ Key(p[i]) <= Key(p[j])}
           T == {n \in 0..Len(list) : Sorts(n) = {}}
<1>1. Len(list) \in Nat /\ DOMAIN list = 1..Len(list)
  BY LenProperties
<1>2. \A j \in 1..Len(list) : Key(j) \in Nat
  <2> SUFFICES ASSUME NEW j \in 1..Len(list) PROVE list[j].file_offset \in Nat
    OBVIOUS
  <2>1. list[j] \in Extents BY ElementOfSeq
  <2> QED BY <2>1 DEF Extents
<1>3. Sorts(Len(list)) = Orders(list) BY <1>1 DEF Orders
<1> HIDE DEF Key, Sorts
<1> SUFFICES ASSUME T # {} PROVE FALSE
  BY <1>1, <1>3
<1>4. PICK m \in T : \A n \in T : m <= n
  <2>1. T \subseteq Nat OBVIOUS
  <2> HIDE DEF T
  <2> QED BY <2>1, LeastNat
<1>5. m # 0
  <2> SUFFICES ASSUME m = 0 PROVE FALSE OBVIOUS
  <2>1. [i \in 1..0 |-> 0] \in [1..0 -> 1..0] OBVIOUS
  <2>2. [i \in 1..0 |-> 0] \in Sorts(0) BY <2>1 DEF Sorts
  <2> QED BY <2>2, <1>4
<1>6. m \in 1..Len(list) /\ m - 1 \in 0..Len(list) /\ m - 1 \notin T
  BY <1>1, <1>4, <1>5
<1>7. PICK p : p \in Sorts(m - 1) BY <1>6
<1>8. p \in [1..(m - 1) -> 1..(m - 1)] BY <1>7 DEF Sorts
<1>9. ASSUME NEW i \in 1..(m - 1), NEW j \in 1..(m - 1), i < j
      PROVE  p[i] # p[j] /\ Key(p[i]) <= Key(p[j])
  BY <1>7, <1>9 DEF Sorts
<1>10. \A i \in 1..(m - 1) : p[i] \in 1..(m - 1) /\ Key(p[i]) \in Nat
  <2> SUFFICES ASSUME NEW i \in 1..(m - 1)
               PROVE  p[i] \in 1..(m - 1) /\ Key(p[i]) \in Nat
    OBVIOUS
  <2>1. p[i] \in 1..(m - 1) BY <1>8
  <2>2. p[i] \in 1..Len(list) BY <2>1, <1>6, <1>1
  <2> QED BY <2>1, <2>2, <1>2
<1>11. Key(m) \in Nat BY <1>6, <1>2
(* k is where m goes: after what is not greater, before what is.           *)
<1>12. PICK k \in 1..m : /\ \A i \in 1..(k - 1) : Key(p[i]) <= Key(m)
                         /\ \A i \in k..(m - 1) : Key(m) <= Key(p[i])
  <2> DEFINE U == {i \in 1..(m - 1) : Key(m) < Key(p[i])}
  <2>1. CASE U = {}
    <3>1. ASSUME NEW i \in 1..(m - 1) PROVE Key(p[i]) <= Key(m)
      <4>1. ~ (Key(m) < Key(p[i])) BY <2>1
      <4>2. Key(p[i]) \in Nat BY <1>10
      <4> HIDE DEF U
      <4> QED BY <4>1, <4>2, <1>11
    <3>2. m \in 1..m BY <1>6
    <3>3. \A i \in m..(m - 1) : FALSE BY <1>6
    <3> QED BY <3>1, <3>2, <3>3
  <2>2. CASE U # {}
    <3>1. PICK k \in U : \A i \in U : k <= i
      <4>1. U \subseteq Nat BY <1>6
      <4> HIDE DEF U
      <4> QED BY <4>1, <2>2, LeastNat
    <3>2. k \in 1..(m - 1) /\ k \in 1..m BY <3>1, <1>6
    <3>3. ASSUME NEW i \in 1..(k - 1) PROVE Key(p[i]) <= Key(m)
      <4>1. i \in 1..(m - 1) /\ i \notin U BY <3>1, <3>2, <1>6
      <4> QED BY <4>1, <1>10, <1>11
    <3>4. ASSUME NEW i \in k..(m - 1) PROVE Key(m) <= Key(p[i])
      <4>1. CASE i = k BY <4>1, <3>1, <1>10, <1>11, <3>2
      <4>2. CASE i # k
        <5>1. i \in 1..(m - 1) /\ k < i BY <4>2, <3>2, <1>6
        <5>2. Key(p[k]) <= Key(p[i]) /\ Key(m) < Key(p[k])
          BY <5>1, <3>2, <1>9, <3>1
        <5> QED BY <5>1, <5>2, <3>2, <1>10, <1>11
      <4> QED BY <4>1, <4>2
    <3> QED BY <3>2, <3>3, <3>4
  <2> QED BY <2>1, <2>2
<1> DEFINE q == [i \in 1..m |-> IF i < k THEN p[i]
                                ELSE IF i = k THEN m ELSE p[i - 1]]
<1>13. /\ \A i \in 1..(k - 1) : i \in 1..(m - 1) /\ q[i] = p[i]
       /\ q[k] = m
       /\ \A i \in (k + 1)..m : i - 1 \in 1..(m - 1) /\ q[i] = p[i - 1]
  BY <1>12, <1>6
<1>14. q \in [1..m -> 1..m]
  <2> SUFFICES ASSUME NEW i \in 1..m PROVE q[i] \in 1..m
    OBVIOUS
  <2> HIDE DEF q
  <2>1. CASE i < k
    <3>1. i \in 1..(k - 1) BY <2>1, <1>12, <1>6
    <3>2. p[i] \in 1..(m - 1) BY <3>1, <1>13, <1>10
    <3> QED BY <3>1, <3>2, <1>13, <1>6
  <2>2. CASE i = k BY <2>2, <1>13, <1>6
  <2>3. CASE k < i
    <3>1. i \in (k + 1)..m BY <2>3, <1>12, <1>6
    <3>2. p[i - 1] \in 1..(m - 1) BY <3>1, <1>13, <1>10
    <3> QED BY <3>1, <3>2, <1>13, <1>6
  <2> QED BY <2>1, <2>2, <2>3, <1>12, <1>6
<1> HIDE DEF q
<1>15. ASSUME NEW i \in 1..m, NEW j \in 1..m, i < j
       PROVE  q[i] # q[j] /\ Key(q[i]) <= Key(q[j])
  <2>1. CASE j < k
    <3>1. i \in 1..(k - 1) /\ j \in 1..(k - 1)
      BY <2>1, <1>15, <1>12, <1>6
    <3> QED BY <3>1, <1>15, <1>13, <1>9
  <2>2. CASE j = k
    <3>1. i \in 1..(k - 1) BY <2>2, <1>15, <1>12, <1>6
    <3>2. q[i] = p[i] /\ q[j] = m /\ i \in 1..(m - 1)
      BY <3>1, <2>2, <1>13
    <3>3. p[i] \in 1..(m - 1) BY <3>2, <1>10
    <3>4. p[i] # m BY <3>3, <1>6
    <3>5. Key(p[i]) <= Key(m) BY <3>1, <1>12
    <3> QED BY <3>2, <3>4, <3>5
  <2>3. CASE k < j /\ i < k
    <3>1. i \in 1..(k - 1) /\ j \in (k + 1)..m
      BY <2>3, <1>12, <1>6
    <3>2. q[i] = p[i] /\ q[j] = p[j - 1] /\ i \in 1..(m - 1)
          /\ j - 1 \in 1..(m - 1) /\ i < j - 1
      BY <3>1, <1>13, <1>12, <1>6
    <3> QED BY <3>2, <1>9
  <2>4. CASE k < j /\ i = k
    <3>1. j \in (k + 1)..m BY <2>4, <1>12, <1>6
    <3>2. q[i] = m /\ q[j] = p[j - 1] /\ j - 1 \in 1..(m - 1)
          /\ j - 1 \in k..(m - 1)
      BY <3>1, <2>4, <1>13, <1>12, <1>6
    <3>3. p[j - 1] \in 1..(m - 1) BY <3>2, <1>10
    <3>4. p[j - 1] # m BY <3>3, <1>6
    <3>5. Key(m) <= Key(p[j - 1]) BY <3>2, <1>12
    <3> QED BY <3>2, <3>4, <3>5
  <2>5. CASE k < i
    <3>1. i \in (k + 1)..m /\ j \in (k + 1)..m
      BY <2>5, <1>15, <1>12, <1>6
    <3>2. q[i] = p[i - 1] /\ q[j] = p[j - 1] /\ i - 1 \in 1..(m - 1)
          /\ j - 1 \in 1..(m - 1) /\ i - 1 < j - 1
      BY <3>1, <1>13, <1>15, <1>6
    <3> QED BY <3>2, <1>9
  <2> QED BY <2>1, <2>2, <2>3, <2>4, <2>5, <1>15, <1>12, <1>6
<1>16. q \in Sorts(m)
  <2>1. \A i, j \in 1..m : i < j => q[i] # q[j] /\ Key(q[i]) <= Key(q[j])
    BY <1>15
  <2> QED BY <2>1, <1>14 DEF Sorts
<1> QED BY <1>16, <1>4

(* The bytes the first n extents of a list cover.                          *)
LEMMA CoveredFacts ==
  ASSUME NEW list \in Seq(Extents)
  PROVE  /\ CoveredUpTo(list) \in [0..Len(list) -> Nat]
         /\ CoveredUpTo(list)[0] = 0
         /\ \A n \in 1..Len(list) :
              CoveredUpTo(list)[n] = CoveredUpTo(list)[n - 1] + list[n].byte_count
<1> DEFINE count(n) == list[n].byte_count
           Totals(n) == {f \in [0..n -> Nat] :
                           /\ f[0] = 0
                           /\ \A i \in 1..n : f[i] = f[i - 1] + count(i)}
           T == {n \in 0..Len(list) : Totals(n) = {}}
<1>1. Len(list) \in Nat /\ DOMAIN list = 1..Len(list)
  BY LenProperties
<1>2. \A n \in 1..Len(list) : count(n) \in Nat
  <2> SUFFICES ASSUME NEW n \in 1..Len(list) PROVE list[n].byte_count \in Nat
    OBVIOUS
  <2>1. list[n] \in Extents BY ElementOfSeq
  <2> QED BY <2>1 DEF Extents
<1> HIDE DEF Totals
<1>3. T = {}
  <2> SUFFICES ASSUME T # {} PROVE FALSE OBVIOUS
  <2>1. PICK m \in T : \A n \in T : m <= n
    <3>1. T \subseteq Nat OBVIOUS
    <3> HIDE DEF T
    <3> QED BY <3>1, LeastNat
  <2>2. m # 0
    <3> SUFFICES ASSUME m = 0 PROVE FALSE OBVIOUS
    <3>1. [i \in 0..0 |-> 0] \in Totals(0) BY DEF Totals
    <3> QED BY <3>1, <2>1
  <2>3. m \in 1..Len(list) /\ m - 1 \in 0..Len(list) /\ m - 1 \notin T
    BY <1>1, <2>1, <2>2
  <2>4. PICK f : f \in Totals(m - 1) BY <2>3
  <2>5. f \in [0..(m - 1) -> Nat] /\ f[0] = 0
        /\ \A i \in 1..(m - 1) : f[i] = f[i - 1] + count(i)
    BY <2>4 DEF Totals
  <2> DEFINE g == [i \in 0..m |-> IF i < m THEN f[i] ELSE f[m - 1] + count(m)]
  <2>6. f[m - 1] \in Nat /\ count(m) \in Nat BY <2>5, <2>3, <1>2
  <2> HIDE DEF count
  <2>7. g \in [0..m -> Nat] BY <2>5, <2>6, <2>3
  <2>8. g[0] = 0 BY <2>5, <2>3
  <2>9. ASSUME NEW i \in 1..m PROVE g[i] = g[i - 1] + count(i)
    <3>1. CASE i = m BY <3>1, <2>3
    <3>2. CASE i # m
      <4>1. i \in 1..(m - 1) /\ i < m /\ i - 1 < m /\ i - 1 \in 0..m
            /\ i \in 0..m
        BY <3>2, <2>3
      <4> QED BY <4>1, <2>5
    <3> QED BY <3>1, <3>2
  <2> HIDE DEF g
  <2>10. g \in Totals(m) BY <2>7, <2>8, <2>9 DEF Totals
  <2> QED BY <2>10, <2>1
<1>4. PICK f : f \in Totals(Len(list)) BY <1>3, <1>1
<1> DEFINE IsSum(h) == h = [n \in 0..Len(list) |->
                              IF n = 0 THEN 0 ELSE h[n - 1] + list[n].byte_count]
<1>5. IsSum(f)
  <2>1. f \in [0..Len(list) -> Nat] /\ f[0] = 0
        /\ \A i \in 1..Len(list) : f[i] = f[i - 1] + count(i)
    BY <1>4 DEF Totals
  <2>2. ASSUME NEW n \in 0..Len(list)
        PROVE  f[n] = IF n = 0 THEN 0 ELSE f[n - 1] + list[n].byte_count
    <3>1. CASE n = 0 BY <3>1, <2>1
    <3>2. CASE n # 0
      <4>1. n \in 1..Len(list) BY <3>2, <1>1
      <4> QED BY <4>1, <2>1, <3>2
    <3> QED BY <3>1, <3>2
  <2> QED BY <2>1, <2>2
<1> DEFINE end == CoveredUpTo(list)
<1>6. IsSum(end)
  <2>1. end = CHOOSE h : IsSum(h) BY DEF CoveredUpTo
  <2> HIDE DEF IsSum, end
  <2> QED BY <2>1, <1>5
<1>7. end[0] = 0 /\ \A n \in 1..Len(list) : end[n] = end[n - 1] + count(n)
  <2> HIDE DEF end
  <2>1. 0 \in 0..Len(list) /\ \A n \in 1..Len(list) : n \in 0..Len(list) /\ n # 0
    BY <1>1
  <2> QED BY <1>6, <2>1
<1>8. ASSUME NEW n \in 0..Len(list) PROVE end[n] \in Nat
  <2> DEFINE U == {i \in 0..Len(list) : end[i] \notin Nat}
  <2> SUFFICES ASSUME U # {} PROVE FALSE OBVIOUS
  <2> HIDE DEF end, count
  <2>1. PICK m \in U : \A i \in U : m <= i
    <3>1. U \subseteq Nat OBVIOUS
    <3> HIDE DEF U
    <3> QED BY <3>1, LeastNat
  <2>2. m # 0 BY <2>1, <1>7
  <2>3. m \in 1..Len(list) /\ m - 1 \in 0..Len(list) /\ m - 1 \notin U
    BY <2>1, <2>2, <1>1
  <2>4. end[m - 1] \in Nat /\ count(m) \in Nat BY <2>3, <1>2
  <2> QED BY <2>4, <1>7, <2>3, <2>1
<1>9. end = [n \in 0..Len(list) |-> end[n]]
  <2> HIDE DEF end
  <2> QED BY <1>6
<1> HIDE DEF end
<1>10. end \in [0..Len(list) -> Nat] BY <1>8, <1>9
<1> QED BY <1>7, <1>10 DEF end

LEMMA CoveredMonotone ==
  ASSUME NEW list \in Seq(Extents),
         NEW m \in 0..Len(list), NEW n \in 0..Len(list), m <= n
  PROVE  CoveredUpTo(list)[m] <= CoveredUpTo(list)[n]
<1> DEFINE end == CoveredUpTo(list)
           T == {i \in m..Len(list) : end[i] < end[m]}
<1>1. Len(list) \in Nat BY LenProperties
<1>2. \A i \in 0..Len(list) : end[i] \in Nat BY CoveredFacts
<1>3. \A i \in 1..Len(list) :
        list[i].byte_count \in Nat /\ end[i] = end[i - 1] + list[i].byte_count
  <2> SUFFICES ASSUME NEW i \in 1..Len(list)
               PROVE  list[i].byte_count \in Nat
                      /\ end[i] = end[i - 1] + list[i].byte_count
    OBVIOUS
  <2>1. list[i] \in Extents BY ElementOfSeq
  <2> QED BY <2>1, CoveredFacts DEF Extents
<1> HIDE DEF end
<1>4. T = {}
  <2> SUFFICES ASSUME T # {} PROVE FALSE OBVIOUS
  <2>1. PICK i \in T : \A j \in T : i <= j
    <3>1. T \subseteq Nat BY <1>1
    <3> HIDE DEF T
    <3> QED BY <3>1, LeastNat
  <2>2. i # m BY <2>1, <1>2
  <2>3. i \in 1..Len(list) /\ i - 1 \in m..Len(list) /\ i - 1 \in 0..Len(list)
        /\ i \in 0..Len(list) /\ i - 1 \notin T
    BY <2>1, <2>2, <1>1
  <2>4. ~ (end[i - 1] < end[m]) /\ end[i] < end[m] BY <2>1, <2>3
  <2>5. /\ list[i].byte_count \in Nat /\ end[i] = end[i - 1] + list[i].byte_count
        /\ end[i - 1] \in Nat /\ end[i] \in Nat /\ end[m] \in Nat
    BY <2>3, <1>2, <1>3
  <2> HIDE DEF T
  <2> QED BY <2>4, <2>5
<1>5. n \in m..Len(list) /\ ~ (end[n] < end[m]) BY <1>4, <1>1
<1> QED BY <1>5, <1>2 DEF end

(* What sorting does to the extents of an input.                           *)
LEMMA SortedFacts ==
  ASSUME NEW in \in Inputs
  PROVE  /\ Sorted(in.extents) \in Seq(Extents)
         /\ \E order \in [DOMAIN in.extents -> DOMAIN in.extents] :
              /\ Sorted(in.extents) = [n \in DOMAIN in.extents |->
                                         in.extents[order[n]]]
              /\ \A m \in DOMAIN in.extents :
                   \E n \in DOMAIN in.extents : order[n] = m
              /\ \A i, j \in DOMAIN in.extents :
                   i < j => /\ order[i] # order[j]
                            /\ in.extents[order[i]].file_offset
                                 <= in.extents[order[j]].file_offset
<1> DEFINE list == in.extents
           order == CHOOSE o \in Orders(list) : TRUE
<1>1. list \in Seq(Extents) BY TapeAssumption
<1>2. Len(list) \in Nat /\ DOMAIN list = 1..Len(list) BY <1>1, LenProperties
<1> HIDE DEF list
<1>3. order \in Orders(list) BY <1>1, OrdersExist
<1>4. Sorted(list) = [n \in DOMAIN list |-> list[order[n]]] BY DEF Sorted
<1> HIDE DEF order
<1>5. /\ order \in [DOMAIN list -> DOMAIN list]
      /\ \A i, j \in DOMAIN list :
           i < j => /\ order[i] # order[j]
                    /\ list[order[i]].file_offset <= list[order[j]].file_offset
  BY <1>3 DEF Orders
<1>6. \A m \in DOMAIN list : \E n \in DOMAIN list : order[n] = m
  <2>1. IsFiniteSet(DOMAIN list) BY <1>2, FS_Interval
  <2>2. order \in Injection(DOMAIN list, DOMAIN list)
    <3>1. ASSUME NEW i \in DOMAIN list, NEW j \in DOMAIN list, order[i] = order[j]
          PROVE  i = j
      <4>1. ~ (i < j) /\ ~ (j < i) BY <3>1, <1>5
      <4> QED BY <4>1, <1>2
    <3> QED BY <3>1, <1>5, <1>2 DEF Injection, IsInjective
  <2>3. order \in Surjection(DOMAIN list, DOMAIN list)
    BY <2>1, <2>2, FS_Injection
  <2> QED BY <2>3 DEF Surjection
<1>7. Sorted(list) \in Seq(Extents)
  <2>1. \A n \in 1..Len(list) : list[order[n]] \in Extents
    <3> SUFFICES ASSUME NEW n \in 1..Len(list) PROVE list[order[n]] \in Extents
      OBVIOUS
    <3>1. order[n] \in 1..Len(list) BY <1>5, <1>2
    <3> QED BY <3>1, <1>1, ElementOfSeq
  <2>2. [n \in 1..Len(list) |-> list[order[n]]] \in Seq(Extents)
    BY <2>1, <1>2
  <2> QED BY <2>2, <1>4, <1>2
<1> QED BY <1>4, <1>5, <1>6, <1>7 DEF list

(* Sorting keeps each extent: by offset, with where it was listed.         *)
LEMMA ExtentTypes ==
  ASSUME NEW list \in Seq(Extents), NEW n \in DOMAIN list
  PROVE  /\ list[n].file_offset \in Nat /\ list[n].start_block \in Nat
         /\ list[n].byte_offset \in Nat /\ list[n].byte_count \in Nat
         /\ list[n] \in Extents /\ n \in 1..Len(list) /\ n - 1 \in 0..Len(list)
         /\ n \in 0..Len(list) /\ Len(list) \in Nat
<1>1. n \in 1..Len(list) /\ Len(list) \in Nat BY LenProperties
<1>2. list[n] \in Extents BY <1>1, ElementOfSeq
<1>3. Blocks \subseteq Nat BY TapeAssumption
<1>4. /\ list[n].file_offset \in Nat /\ list[n].start_block \in Blocks
      /\ list[n].byte_offset \in Nat /\ list[n].byte_count \in Nat
  BY <1>2 DEF Extents
<1>5. n - 1 \in 0..Len(list) /\ n \in 0..Len(list) BY <1>1
<1> QED BY <1>1, <1>2, <1>3, <1>4, <1>5

(* In a valid list each byte belongs to one extent.                        *)
LEMMA ByteInOneExtent ==
  ASSUME NEW list \in Seq(Extents), NEW length \in Nat, Valid(list, length),
         NEW o \in 0..(length - 1)
  PROVE  \E n \in DOMAIN list :
           /\ CoveredUpTo(list)[n - 1] <= o /\ o < CoveredUpTo(list)[n]
           /\ \A m \in DOMAIN list :
                /\ list[m].file_offset <= o
                /\ o < list[m].file_offset + list[m].byte_count
                => m = n
<1> DEFINE end == CoveredUpTo(list)
           T == {n \in 0..Len(list) : o < end[n]}
<1>1. Len(list) \in Nat /\ DOMAIN list = 1..Len(list) BY LenProperties
<1>2. end \in [0..Len(list) -> Nat] /\ end[0] = 0 BY CoveredFacts
<1>3. end[Len(list)] = length BY DEF Valid
<1>4. ASSUME NEW m \in DOMAIN list
      PROVE  /\ list[m].file_offset = end[m - 1]
             /\ end[m] = list[m].file_offset + list[m].byte_count
  BY <1>1, CoveredFacts DEF Valid
<1>5. ASSUME NEW m \in 0..Len(list), NEW n \in 0..Len(list), m <= n
      PROVE  end[m] <= end[n]
  BY <1>5, CoveredMonotone
<1> HIDE DEF end
<1>6. PICK n \in T : \A i \in T : n <= i
  <2>1. T \subseteq Nat OBVIOUS
  <2>2. Len(list) \in T BY <1>1, <1>3
  <2> HIDE DEF T
  <2> QED BY <2>1, <2>2, LeastNat
<1>7. n # 0 BY <1>2, <1>6
<1>8. n \in DOMAIN list /\ n - 1 \in 0..Len(list) /\ n - 1 \notin T
  BY <1>1, <1>6, <1>7
<1>9. end[n - 1] <= o /\ o < end[n] /\ end[n] \in Nat /\ end[n - 1] \in Nat
  BY <1>2, <1>6, <1>8
<1>10. ASSUME NEW m \in DOMAIN list, list[m].file_offset <= o,
              o < list[m].file_offset + list[m].byte_count
       PROVE  m = n
  <2>1. end[m - 1] <= o /\ o < end[m] BY <1>4, <1>10
  <2>2. m \in 1..Len(list) /\ n \in 1..Len(list) /\ m - 1 \in 0..Len(list)
        /\ m \in 0..Len(list) /\ n \in 0..Len(list)
    BY <1>1, <1>8
  <2>3. end[m] \in Nat /\ end[m - 1] \in Nat BY <2>2, <1>2
  <2>4. CASE m < n
    <3>1. m <= n - 1 BY <2>4, <2>2
    <3>2. end[m] <= end[n - 1] BY <3>1, <2>2, <1>8, <1>5
    <3> QED BY <3>2, <2>1, <1>9, <2>3
  <2>5. CASE n < m
    <3>1. n <= m - 1 BY <2>5, <2>2
    <3>2. end[n] <= end[m - 1] BY <3>1, <2>2, <1>5
    <3> QED BY <3>2, <2>1, <1>9, <2>3
  <2> QED BY <2>4, <2>5, <2>2
<1> QED BY <1>8, <1>9, <1>10 DEF end

(* What a file's byte is, by the valid extent it is in.                    *)
LEMMA FileByteIs ==
  ASSUME NEW in \in Inputs, Valid(Sorted(in.extents), in.length),
         NEW n \in DOMAIN Sorted(in.extents), NEW o \in Nat,
         CoveredUpTo(Sorted(in.extents))[n - 1] <= o,
         o < CoveredUpTo(Sorted(in.extents))[n]
  PROVE  LET e == Sorted(in.extents)[n]
             i == e.byte_offset + (o - CoveredUpTo(Sorted(in.extents))[n - 1])
         IN  /\ o \in 0..(in.length - 1)
             /\ Cardinality(Containing(in, o)) = 1
             /\ FileByte(in, o) =
                  <<e.start_block + i \div BlockSize, i % BlockSize>>
<1> DEFINE list == Sorted(in.extents)
           end == CoveredUpTo(list)
<1>1. in.length \in Nat /\ list \in Seq(Extents) BY SortedFacts, TapeAssumption
<1>2. PICK order \in [DOMAIN in.extents -> DOMAIN in.extents] :
        /\ list = [k \in DOMAIN in.extents |-> in.extents[order[k]]]
        /\ \A m \in DOMAIN in.extents : \E k \in DOMAIN in.extents : order[k] = m
  BY SortedFacts
<1>3. /\ Len(list) \in Nat /\ DOMAIN list = 1..Len(list)
      /\ DOMAIN in.extents = DOMAIN list
      /\ end \in [0..Len(list) -> Nat]
  BY <1>1, <1>2, LenProperties, CoveredFacts
<1>4. n \in 1..Len(list) /\ n \in 0..Len(list) /\ n - 1 \in 0..Len(list)
      /\ end[n] \in Nat /\ end[n - 1] \in Nat
      /\ end[n - 1] <= o /\ o < end[n]
  BY <1>3
<1>5. o \in 0..(in.length - 1)
  <2>1. end[n] <= end[Len(list)] BY <1>1, <1>3, <1>4, CoveredMonotone
  <2>2. end[Len(list)] = in.length BY DEF Valid
  <2> HIDE DEF end, list
  <2> QED BY <1>1, <2>1, <2>2, <1>4
<1>6. list[n].file_offset = end[n - 1]
      /\ end[n] = list[n].file_offset + list[n].byte_count
  BY <1>1, <1>3, <1>4, CoveredFacts DEF Valid
<1>7. \A m \in DOMAIN list :
        /\ list[m].file_offset <= o
        /\ o < list[m].file_offset + list[m].byte_count
        => m = n
  <2>1. PICK k \in DOMAIN list : \A m \in DOMAIN list :
          /\ list[m].file_offset <= o
          /\ o < list[m].file_offset + list[m].byte_count
          => m = k
    BY <1>1, <1>5, ByteInOneExtent
  <2>2. n = k BY <2>1, <1>6
  <2> QED BY <2>1, <2>2
<1> HIDE DEF list, end
<1>8. Containing(in, o) = {order[n]}
  <2>1. order[n] \in DOMAIN in.extents /\ list[n] = in.extents[order[n]]
    BY <1>2, <1>3, <1>4
  <2>2. order[n] \in Containing(in, o) BY <2>1, <1>6, <1>4 DEF Containing
  <2>3. ASSUME NEW m \in Containing(in, o) PROVE m = order[n]
    <3>1. m \in DOMAIN in.extents BY DEF Containing
    <3>2. PICK k \in DOMAIN in.extents : order[k] = m BY <3>1, <1>2
    <3>3. list[k] = in.extents[m] BY <3>2, <1>2
    <3>4. k = n BY <3>2, <3>3, <1>3, <1>7 DEF Containing
    <3> QED BY <3>2, <3>4
  <2> QED BY <2>2, <2>3
<1>9. Cardinality(Containing(in, o)) = 1 BY <1>8, FS_Singleton
<1>10. FileByte(in, o) =
         <<list[n].start_block + (list[n].byte_offset + o - end[n - 1]) \div BlockSize,
           (list[n].byte_offset + o - end[n - 1]) % BlockSize>>
  <2>1. (CHOOSE k \in Containing(in, o) : TRUE) = order[n] BY <1>8
  <2>2. in.extents[order[n]] = list[n] BY <1>2, <1>3, <1>4
  <2> QED BY <2>1, <2>2, <1>6 DEF FileByte
<1>11. list[n].byte_offset + o - end[n - 1] = list[n].byte_offset + (o - end[n - 1])
  BY <1>1, <1>4, ExtentTypes
<1> QED BY <1>5, <1>9, <1>10, <1>11 DEF list, end

(* The extents are valid exactly if they cover every byte once.            *)
LEMMA ValidCovers ==
  ASSUME NEW in \in Inputs, Valid(Sorted(in.extents), in.length)
  PROVE  Covers(in)
<1> DEFINE list == Sorted(in.extents)
           end == CoveredUpTo(list)
<1>1. in.length \in Nat /\ list \in Seq(Extents) BY SortedFacts, TapeAssumption
<1>2. PICK order \in [DOMAIN in.extents -> DOMAIN in.extents] :
        /\ list = [k \in DOMAIN in.extents |-> in.extents[order[k]]]
        /\ \A m \in DOMAIN in.extents : \E k \in DOMAIN in.extents : order[k] = m
  BY SortedFacts
<1>3. DOMAIN in.extents = DOMAIN list /\ DOMAIN list = 1..Len(list)
      /\ Len(list) \in Nat
  BY <1>1, <1>2, LenProperties
<1>4. ASSUME NEW o \in 0..(in.length - 1)
      PROVE  Cardinality(Containing(in, o)) = 1
  <2>1. PICK n \in DOMAIN list : end[n - 1] <= o /\ o < end[n]
    BY <1>1, ByteInOneExtent
  <2>2. o \in Nat BY <1>1
  <2> QED BY <2>1, <2>2, FileByteIs
<1>5. ASSUME NEW m \in DOMAIN in.extents
      PROVE  /\ in.extents[m].byte_count > 0
             /\ in.extents[m].file_offset + in.extents[m].byte_count <= in.length
             /\ in.extents[m].byte_offset < BlockSize
  <2>1. PICK k \in DOMAIN list : in.extents[m] = list[k] BY <1>2, <1>3
  <2>2. k \in 1..Len(list) /\ k \in 0..Len(list) /\ list[k].byte_count \in Nat
    BY <1>1, <2>1, ExtentTypes
  <2>3. /\ list[k].byte_count # 0 /\ list[k].byte_offset < BlockSize
        /\ list[k].file_offset + list[k].byte_count = end[k]
        /\ end[Len(list)] = in.length
    BY <1>1, <2>1, <2>2, CoveredFacts DEF Valid
  <2>4. end[k] <= end[Len(list)] BY <1>1, <1>3, <2>2, CoveredMonotone
  <2> HIDE DEF list, end
  <2> QED BY <2>1, <2>2, <2>3, <2>4
<1> HIDE DEF list, end
<1> QED BY <1>4, <1>5 DEF Covers

LEMMA CoversValid ==
  ASSUME NEW in \in Inputs, Covers(in)
  PROVE  Valid(Sorted(in.extents), in.length)
<1> DEFINE list == Sorted(in.extents)
           end == CoveredUpTo(list)
           In(n, o) == /\ list[n].file_offset <= o
                       /\ o < list[n].file_offset + list[n].byte_count
<1>1. in.length \in Nat /\ list \in Seq(Extents) BY SortedFacts, TapeAssumption
<1>2. PICK order \in [DOMAIN in.extents -> DOMAIN in.extents] :
        /\ list = [k \in DOMAIN in.extents |-> in.extents[order[k]]]
        /\ \A m \in DOMAIN in.extents : \E k \in DOMAIN in.extents : order[k] = m
        /\ \A i, j \in DOMAIN in.extents :
             i < j => /\ order[i] # order[j]
                      /\ in.extents[order[i]].file_offset
                           <= in.extents[order[j]].file_offset
  BY SortedFacts
<1>3. DOMAIN in.extents = DOMAIN list /\ DOMAIN list = 1..Len(list)
      /\ Len(list) \in Nat
  BY <1>1, <1>2, LenProperties
<1>4. \A n \in DOMAIN list :
        /\ list[n].file_offset \in Nat /\ list[n].byte_count \in Nat
        /\ end[n] \in Nat /\ end[n - 1] \in Nat
        /\ end[n] = end[n - 1] + list[n].byte_count
  BY <1>1, <1>3, ExtentTypes, CoveredFacts
<1>5. end[0] = 0 /\ end[Len(list)] \in Nat BY <1>1, <1>3, CoveredFacts
<1>6. ASSUME NEW i \in DOMAIN list, NEW j \in DOMAIN list, i < j
      PROVE  list[i].file_offset <= list[j].file_offset
  BY <1>2, <1>3, <1>6
<1>7. ASSUME NEW n \in DOMAIN list
      PROVE  /\ list[n].byte_count > 0 /\ list[n].byte_offset < BlockSize
             /\ list[n].file_offset + list[n].byte_count <= in.length
  <2>1. order[n] \in DOMAIN in.extents /\ list[n] = in.extents[order[n]]
    BY <1>2, <1>3
  <2> HIDE DEF list
  <2> QED BY <2>1 DEF Covers
<1> HIDE DEF list, end
(* Every byte is in one extent of the sorted list.                         *)
<1>8. ASSUME NEW o \in 0..(in.length - 1)
      PROVE  \E n \in DOMAIN list :
               /\ In(n, o)
               /\ \A m \in DOMAIN list : In(m, o) => m = n
  <2>1. PICK x : Containing(in, o) = {x}
    <3>1. Cardinality(Containing(in, o)) = 1 BY DEF Covers
    <3>2. IsFiniteSet(Containing(in, o))
      <4>1. IsFiniteSet(DOMAIN in.extents) BY <1>3, FS_Interval
      <4>2. Containing(in, o) \subseteq DOMAIN in.extents BY DEF Containing
      <4> QED BY <4>1, <4>2, FS_Subset
    <3> QED BY <3>1, <3>2, FS_Singleton
  <2>2. x \in DOMAIN in.extents BY <2>1 DEF Containing
  <2>3. PICK n \in DOMAIN list : order[n] = x BY <2>2, <1>2, <1>3
  <2>4. \A m \in DOMAIN list : In(m, o) <=> order[m] \in Containing(in, o)
    BY <1>2, <1>3 DEF Containing
  <2>5. In(n, o) BY <2>1, <2>3, <2>4
  <2>6. ASSUME NEW m \in DOMAIN list, In(m, o) PROVE m = n
    <3>1. order[m] = x BY <2>6, <2>4, <2>1
    <3>2. ~ (m < n) /\ ~ (n < m) BY <3>1, <2>3, <1>2, <1>3
    <3> QED BY <3>2, <1>3
  <2> QED BY <2>5, <2>6
<1> DEFINE T == {n \in DOMAIN list : list[n].file_offset # end[n - 1]}
<1>9. T = {}
  <2> SUFFICES ASSUME T # {} PROVE FALSE OBVIOUS
  <2>1. PICK n \in T : \A i \in T : n <= i
    <3>1. T \subseteq Nat BY <1>3
    <3> HIDE DEF T
    <3> QED BY <3>1, LeastNat
  <2>2. n \in DOMAIN list /\ n \in 1..Len(list) /\ list[n].file_offset # end[n - 1]
    BY <2>1, <1>3
  <2>3. ASSUME NEW i \in 1..(n - 1)
        PROVE  i \in DOMAIN list /\ list[i].file_offset = end[i - 1]
    BY <2>1, <2>2, <1>3
  <2> HIDE DEF T
  (* What the extents before n cover has no gap.                           *)
  <2>4. ASSUME NEW o \in Nat, o < end[n - 1]
        PROVE  \E i \in 1..(n - 1) : In(i, o)
    <3> DEFINE U == {i \in 0..(n - 1) : o < end[i]}
    <3>1. n - 1 \in U BY <2>4, <2>2
    <3>2. PICK i \in U : \A j \in U : i <= j
      <4>1. U \subseteq Nat BY <2>2
      <4> HIDE DEF U
      <4> QED BY <4>1, <3>1, LeastNat
    <3>3. i # 0 BY <3>2, <1>5
    <3>4. i \in 1..(n - 1) /\ i - 1 \in 0..(n - 1) /\ i - 1 \notin U
      BY <3>2, <3>3, <2>2
    <3>5. o < end[i] /\ ~ (o < end[i - 1]) BY <3>2, <3>4
    <3>6. i \in DOMAIN list /\ list[i].file_offset = end[i - 1] BY <3>4, <2>3
    <3>7. end[i] = end[i - 1] + list[i].byte_count /\ end[i - 1] \in Nat
      BY <3>6, <1>4
    <3> QED BY <3>4, <3>5, <3>6, <3>7
  <2>5. /\ end[n - 1] \in Nat /\ list[n].file_offset \in Nat
        /\ in.length \in Nat /\ list[n].file_offset < in.length
    <3>1. /\ list[n].byte_count > 0
          /\ list[n].file_offset + list[n].byte_count <= in.length
      BY <2>2, <1>7
    <3>2. /\ end[n - 1] \in Nat /\ list[n].file_offset \in Nat
          /\ list[n].byte_count \in Nat
      BY <2>2, <1>4
    <3> QED BY <3>1, <3>2, <1>1
  <2>6. CASE list[n].file_offset < end[n - 1]
    <3> DEFINE o == list[n].file_offset
    <3>1. PICK i \in 1..(n - 1) : In(i, o) BY <2>4, <2>5, <2>6
    <3>2. In(n, o) BY <2>2, <2>5, <1>7, <1>4
    <3>3. o \in 0..(in.length - 1) BY <2>5
    <3>4. i \in DOMAIN list BY <2>3
    <3>5. i = n BY <3>1, <3>2, <3>3, <3>4, <2>2, <1>8
    <3> QED BY <3>5, <2>2
  <2>7. CASE list[n].file_offset > end[n - 1]
    <3> DEFINE o == end[n - 1]
    <3>1. o \in 0..(in.length - 1) BY <2>5, <2>7
    <3>2. PICK m \in DOMAIN list : In(m, o) BY <3>1, <1>8
    <3>3. CASE m < n
      <4>1. m \in 1..(n - 1) /\ m \in 1..Len(list) BY <3>2, <3>3, <2>2, <1>3
      <4>2. list[m].file_offset + list[m].byte_count = end[m]
        BY <4>1, <2>3, <1>4
      <4>3. end[m] <= end[n - 1]
        <5>1. m \in 0..Len(list) /\ n - 1 \in 0..Len(list) /\ m <= n - 1
          BY <4>1, <2>2
        <5> QED BY <5>1, <1>1, CoveredMonotone DEF end
      <4> QED BY <3>2, <4>2, <4>3, <2>5, <1>4
    <3>4. CASE n <= m
      <4>1. list[n].file_offset <= list[m].file_offset
        <5>1. CASE n = m BY <5>1, <2>5
        <5>2. CASE n < m BY <5>2, <2>2, <3>2, <1>6
        <5> QED BY <5>1, <5>2, <3>4, <3>2, <2>2, <1>3
      <4> QED BY <4>1, <3>2, <2>7, <2>5, <1>4
    <3> QED BY <3>3, <3>4, <3>2, <2>2, <1>3
  <2> QED BY <2>2, <2>5, <2>6, <2>7
<1>10. \A n \in DOMAIN list : /\ list[n].file_offset = end[n - 1]
                             /\ list[n].byte_count # 0
                             /\ list[n].byte_offset < BlockSize
  <2> SUFFICES ASSUME NEW n \in DOMAIN list
               PROVE  /\ list[n].file_offset = end[n - 1]
                      /\ list[n].byte_count # 0
                      /\ list[n].byte_offset < BlockSize
    OBVIOUS
  <2>1. list[n].byte_count > 0 /\ list[n].byte_count \in Nat
        /\ list[n].byte_offset < BlockSize
    BY <1>4, <1>7
  <2> QED BY <1>9, <2>1
<1>11. end[Len(list)] = in.length
  <2>1. end[Len(list)] <= in.length
    <3>1. CASE Len(list) = 0 BY <3>1, <1>5, <1>1
    <3>2. CASE Len(list) # 0
      <4>1. Len(list) \in DOMAIN list BY <3>2, <1>3
      <4> QED BY <4>1, <1>4, <1>7, <1>10
    <3> QED BY <3>1, <3>2
  <2>2. CASE end[Len(list)] < in.length
    <3> DEFINE o == end[Len(list)]
    <3>1. o \in 0..(in.length - 1) BY <2>2, <1>1, <1>5
    <3>2. PICK m \in DOMAIN list : In(m, o) BY <3>1, <1>8
    <3>3. list[m].file_offset + list[m].byte_count = end[m]
      BY <3>2, <1>4, <1>10
    <3>4. end[m] <= end[Len(list)]
      <4>1. m \in 0..Len(list) /\ Len(list) \in 0..Len(list) /\ m <= Len(list)
        BY <3>2, <1>3
      <4> QED BY <4>1, <1>1, CoveredMonotone DEF end
    <3> QED BY <3>2, <3>3, <3>4, <1>4, <1>5
  <2> QED BY <2>1, <2>2, <1>1, <1>5
<1> QED BY <1>10, <1>11 DEF Valid, list, end

-----------------------------------------------------------------------------
(* The extents as validated, where each ends, how many are begun, and the  *)
(* bytes taken from them so far.                                           *)
Order == Sorted(input.extents)
EndOf(n) == CoveredUpTo(Order)[n]
Begun == Len(Order) - Len(extents)
Taken == logical_offset + Len(buffer)

InExtent == {"attempt", "locate", "read", "failed", "prompt", "check", "copy",
             "advance"}
Taking == {"copy", "advance"}
InFile == InExtent \union {"extent", "tail"}

AcceptedInv ==
  /\ pc # "ended" => result = "none"
  /\ pc # "validate" => (result = "invalid" <=> ~Valid(Order, input.length))
  /\ pc = "validate" => /\ published = <<>> /\ buffer = <<>>
                        /\ logical_offset = 0

(* Where the call is in the list of extents.                               *)
ExtentsInv ==
  pc \in InFile =>
    /\ Begun \in 0..Len(Order)
    /\ \A j \in 1..Len(extents) : extents[j] = Order[Begun + j]
    /\ pc \notin InExtent => Taken = EndOf(Begun)
    /\ pc = "tail" => extents = <<>>
    /\ pc \in InExtent =>
         /\ Begun > 0
         /\ Taken + remaining = EndOf(Begun)
         /\ Taken >= EndOf(Begun - 1)
    /\ pc \in InExtent \ Taking => remaining > 0 /\ byte_offset < BlockSize

(* The head is on the block to read unless the next attempt locates it;    *)
(* then the record is that block's.                                        *)
HeadInv ==
  /\ pc = "attempt" /\ ~locate /\ attempt = 0 => head = physical_block
  /\ pc = "read" => head = physical_block
  /\ pc = "prompt" => locate
  /\ pc \in Taking => ~locate
  /\ pc \in Taking \union {"check"} =>
       /\ physical_block \in Blocks /\ record.block = physical_block
       /\ head = physical_block + 1

RecordInv ==
  /\ pc = "check" =>
       /\ record.from = byte_offset
       /\ record.to = MinOf(Required, Record[physical_block])
  /\ pc \in Taking =>
       /\ record.from <= record.to /\ record.to <= Record[physical_block]
       /\ record.to - record.from <= remaining
       /\ \/ record.to = BlockSize \/ record.to = record.from + remaining
          \/ record.to = Record[physical_block]
  /\ pc = "copy" => record.from < record.to
  /\ pc = "advance" => record.from = record.to

(* The next byte of the extent is the next one of the block.               *)
InBlock == IF pc \in Taking THEN record.from ELSE byte_offset

PlaceInv ==
  pc \in InExtent /\ remaining > 0 /\ OnTape(input) =>
    /\ physical_block >= Order[Begun].start_block
    /\ Order[Begun].byte_offset + (Taken - EndOf(Begun - 1)) =
         BlockSize * (physical_block - Order[Begun].start_block) + InBlock

BufferInv ==
  /\ pc \in InFile =>
       /\ logical_offset = TargetSlotSize * Len(published)
       /\ Taken <= input.length
       /\ OnTape(input) =>
            \A i \in DOMAIN buffer :
              buffer[i] = FileByte(input, logical_offset + i - 1)
  /\ pc = "eof" => /\ logical_offset = input.length
                   /\ TargetSlotSize * Len(published) >= input.length

FileIInv ==
  /\ FileTypeOK /\ AcceptedInv /\ ExtentsInv /\ HeadInv /\ RecordInv
  /\ PlaceInv /\ BufferInv /\ SlotsExact

LEMMA TapeFacts ==
  /\ BlockSize \in Nat /\ BlockSize > 0
  /\ TargetSlotSize \in Nat /\ TargetSlotSize > 0
  /\ AutomaticRetries \in Nat
  /\ Blocks \subseteq Nat /\ Heads \subseteq Nat
  /\ \A b \in Blocks : b \in Nat /\ b + 1 \in Heads /\ b \in Heads
                       /\ Record[b] \in 0..BlockSize /\ Record[b] \in Nat
<1>1. Record \in [Blocks -> 0..BlockSize] BY TapeAssumption
<1>2. /\ BlockSize \in Nat /\ BlockSize > 0
      /\ TargetSlotSize \in Nat /\ TargetSlotSize > 0
      /\ AutomaticRetries \in Nat /\ Blocks \subseteq Nat
  BY TapeAssumption
<1>3. Heads \subseteq Nat
  <2> SUFFICES ASSUME NEW h \in Heads PROVE h \in Nat OBVIOUS
  <2> QED BY <1>2 DEF Heads
<1>4. ASSUME NEW b \in Blocks
      PROVE  b \in Nat /\ b + 1 \in Heads /\ b \in Heads
             /\ Record[b] \in 0..BlockSize /\ Record[b] \in Nat
  BY <1>1, <1>2 DEF Heads
<1> QED BY <1>2, <1>3, <1>4

LEMMA OrderFacts ==
  ASSUME input \in Inputs
  PROVE  /\ Order \in Seq(Extents) /\ input.length \in Nat
         /\ Len(Order) \in Nat /\ DOMAIN Order = 1..Len(Order)
         /\ EndOf(0) = 0
         /\ \A n \in 0..Len(Order) : EndOf(n) \in Nat
         /\ \A n \in 1..Len(Order) :
              /\ Order[n].start_block \in Nat /\ Order[n].byte_offset \in Nat
              /\ Order[n].byte_count \in Nat
              /\ EndOf(n) = EndOf(n - 1) + Order[n].byte_count
<1>1. Order \in Seq(Extents) /\ input.length \in Nat
  BY SortedFacts, TapeAssumption DEF Order
<1>2. Len(Order) \in Nat /\ DOMAIN Order = 1..Len(Order)
  BY <1>1, LenProperties
<1>3. EndOf(0) = 0 /\ \A n \in 0..Len(Order) : EndOf(n) \in Nat
  BY <1>1, CoveredFacts DEF EndOf
<1>4. \A n \in 1..Len(Order) : EndOf(n) = EndOf(n - 1) + Order[n].byte_count
  BY <1>1, CoveredFacts DEF EndOf
<1>5. \A n \in 1..Len(Order) :
        /\ Order[n].start_block \in Nat /\ Order[n].byte_offset \in Nat
        /\ Order[n].byte_count \in Nat
  BY <1>1, <1>2, ExtentTypes
<1> QED BY <1>1, <1>2, <1>3, <1>4, <1>5

LEMMA ValidOrder ==
  ASSUME input \in Inputs, Valid(Order, input.length)
  PROVE  /\ EndOf(Len(Order)) = input.length
         /\ \A n \in 0..Len(Order) : EndOf(n) <= input.length
         /\ \A n \in 1..Len(Order) :
              Order[n].byte_count > 0 /\ Order[n].byte_offset < BlockSize
<1>1. Order \in Seq(Extents) /\ Len(Order) \in Nat /\ DOMAIN Order = 1..Len(Order)
  BY OrderFacts
<1>2. EndOf(Len(Order)) = input.length BY DEF Valid, EndOf
<1>3. ASSUME NEW n \in 0..Len(Order) PROVE EndOf(n) <= input.length
  <2>1. CoveredUpTo(Order)[n] <= CoveredUpTo(Order)[Len(Order)]
    BY <1>1, CoveredMonotone
  <2> QED BY <2>1, <1>2 DEF EndOf
<1>4. ASSUME NEW n \in 1..Len(Order)
      PROVE  Order[n].byte_count > 0 /\ Order[n].byte_offset < BlockSize
  <2>1. Order[n].byte_count \in Nat BY OrderFacts
  <2>2. Order[n].byte_count # 0 /\ Order[n].byte_offset < BlockSize
    BY <1>1 DEF Valid
  <2> QED BY <2>1, <2>2
<1> QED BY <1>2, <1>3, <1>4

(* The input never changes, nor what is said of it alone.                  *)
LEMMA InputStays ==
  ASSUME input' = input
  PROVE  /\ Order' = Order /\ OnTape(input)' = OnTape(input)
         /\ \A n : EndOf(n)' = EndOf(n)
BY DEF Order, EndOf

(* Slots already published stay as they must be.                           *)
LEMMA SlotsStay ==
  ASSUME SlotsExact, UNCHANGED <<input, published>>, result' # "ok"
  PROVE  SlotsExact'
BY DEF SlotsExact

LEMMA EndedKeeps ==
  ASSUME FileTypeOK', pc' = "ended", input' = input,
         Valid(Order, input.length), result' \in {"ok", "cancelled", "error"},
         SlotsExact'
  PROVE  FileIInv'
<1>1. Order' = Order BY InputStays
<1>2. AcceptedInv' BY <1>1 DEF AcceptedInv
<1>3. ExtentsInv' BY DEF ExtentsInv, InFile, InExtent
<1>4. HeadInv' /\ RecordInv' BY DEF HeadInv, RecordInv, Taking
<1>5. PlaceInv' BY DEF PlaceInv, InExtent
<1>6. BufferInv' BY DEF BufferInv, InFile, InExtent
<1> QED BY <1>2, <1>3, <1>4, <1>5, <1>6 DEF FileIInv

(* While a block is read nothing else moves.                               *)
LEMMA BlockKeeps ==
  ASSUME FileIInv, UNCHANGED BlockSide, UNCHANGED result,
         pc \in InExtent \ Taking, pc' \in InExtent, pc' # "advance",
         pc' = "copy" => record'.from = byte_offset,
         FileTypeOK', HeadInv', RecordInv'
  PROVE  FileIInv'
<1>1. /\ input' = input /\ extents' = extents /\ remaining' = remaining
      /\ byte_offset' = byte_offset /\ physical_block' = physical_block
      /\ buffer' = buffer /\ logical_offset' = logical_offset
      /\ published' = published /\ result' = result
  BY DEF BlockSide, extentVars, outVars
<1>2. /\ Order' = Order /\ OnTape(input)' = OnTape(input)
      /\ \A n : EndOf(n)' = EndOf(n)
  BY <1>1, InputStays
<1>3. Begun' = Begun /\ Taken' = Taken BY <1>1, <1>2 DEF Begun, Taken
<1>4. pc \in InFile /\ pc' \in InFile /\ pc # "ended" /\ pc' # "ended"
      /\ pc # "validate" /\ pc' # "validate" /\ pc' # "tail" /\ pc' # "eof"
  BY DEF InFile, InExtent, Taking
<1>5. AcceptedInv'
  <2>1. AcceptedInv BY DEF FileIInv
  <2> QED BY <2>1, <1>1, <1>2, <1>4 DEF AcceptedInv
<1>6. ExtentsInv'
  <2>1. ExtentsInv BY DEF FileIInv
  <2> QED BY <2>1, <1>1, <1>2, <1>3, <1>4 DEF ExtentsInv
<1>7. PlaceInv'
  <2>1. PlaceInv BY DEF FileIInv
  <2>2. InBlock' = InBlock
    BY <1>1 DEF InBlock, Taking, InExtent
  <2> QED BY <2>1, <2>2, <1>1, <1>2, <1>3, <1>4 DEF PlaceInv
<1>8. BufferInv'
  <2>1. BufferInv BY DEF FileIInv
  <2> QED BY <2>1, <1>1, <1>2, <1>3, <1>4 DEF BufferInv
<1>9. SlotsExact'
  <2>1. SlotsExact /\ AcceptedInv BY DEF FileIInv
  <2>2. result' # "ok" BY <2>1, <1>1, <1>4 DEF AcceptedInv
  <2> QED BY <2>1, <2>2, <1>1, SlotsStay
<1> QED BY <1>5, <1>6, <1>7, <1>8, <1>9 DEF FileIInv

LEMMA FileInitHolds == FileInit => FileIInv
<1> SUFFICES ASSUME FileInit PROVE FileIInv OBVIOUS
<1>1. FileTypeOK
  <2>1. <<>> \in Seq(Extents) /\ <<>> \in Seq(Byte) /\ Len(<<>>) = 0
        /\ <<>> \in Seq([offset : Nat, bytes : Seq(Byte), eof : BOOLEAN])
    BY EmptySeq
  <2>2. record \in [block : Nat, from : Nat, to : 0..BlockSize]
    BY TapeFacts DEF FileInit
  <2>3. locate \in BOOLEAN /\ attempt \in 0..AutomaticRetries
        /\ cancel_event \in BOOLEAN
    <3>1. 0 \in 0..AutomaticRetries BY TapeFacts
    <3> QED BY <3>1 DEF FileInit
  <2> QED BY <2>1, <2>2, <2>3, TapeFacts
             DEF FileInit, FileTypeOK, States, Results
<1>2. AcceptedInv BY DEF FileInit, AcceptedInv
<1>3. ExtentsInv BY DEF FileInit, ExtentsInv, InFile, InExtent
<1>4. HeadInv /\ RecordInv BY DEF FileInit, HeadInv, RecordInv, Taking
<1>5. PlaceInv BY DEF FileInit, PlaceInv, InExtent
<1>6. BufferInv BY DEF FileInit, BufferInv, InFile, InExtent
<1>7. SlotsExact
  <2>1. DOMAIN published = {}
    <3>1. published = <<>> BY DEF FileInit
    <3> QED BY <3>1
  <2> QED BY <2>1 DEF FileInit, SlotsExact
<1> QED BY <1>1, <1>2, <1>3, <1>4, <1>5, <1>6, <1>7 DEF FileIInv

LEMMA AttemptKeeps == ASSUME FileIInv, Attempt PROVE FileIInv'
<1>1. FileTypeOK /\ HeadInv /\ RecordInv /\ AcceptedInv /\ SlotsExact
  BY DEF FileIInv
<1>2. pc = "attempt" /\ UNCHANGED <<BlockSide, driveVars>> BY DEF Attempt
<1>3. /\ UNCHANGED <<input, extents, remaining, byte_offset, physical_block,
                     locate, attempt, head, record, buffer, logical_offset,
                     published, cancel_event>>
  BY <1>2 DEF BlockSide, extentVars, outVars, driveVars
<1>4. CASE AfterCancel
  <2>1. pc' = "ended" /\ result' = "cancelled" BY <1>4 DEF Attempt, Ends
  <2>2. FileTypeOK' BY <1>1, <1>3, <2>1 DEF FileTypeOK, States, Results
  <2>3. Valid(Order, input.length) BY <1>1, <1>2 DEF AcceptedInv
  <2>4. SlotsExact' BY <1>1, <1>3, <2>1, SlotsStay
  <2> QED BY <1>3, <2>1, <2>2, <2>3, <2>4, EndedKeeps
<1>5. CASE ~AfterCancel
  <2>1. /\ pc' = IF locate \/ attempt > 0 THEN "locate" ELSE "read"
        /\ result' = result
    BY <1>5 DEF Attempt, Goes
  <2>2. FileTypeOK' BY <1>1, <1>3, <2>1 DEF FileTypeOK, States
  <2>3. HeadInv'
    <3>1. attempt \in Nat BY <1>1, TapeFacts DEF FileTypeOK
    <3>2. pc' = "read" => head = physical_block
      BY <1>1, <1>2, <2>1, <3>1 DEF HeadInv
    <3> QED BY <3>2, <1>3, <2>1 DEF HeadInv, Taking
  <2>4. RecordInv' BY <2>1 DEF RecordInv, Taking
  <2> QED BY <1>2, <2>1, <2>2, <2>3, <2>4, BlockKeeps DEF InExtent, Taking
<1> QED BY <1>4, <1>5

LEMMA LocateKeeps == ASSUME FileIInv, Locate PROVE FileIInv'
<1>1. FileTypeOK BY DEF FileIInv
<1>2. /\ pc = "locate" /\ pc' \in {"read", "failed"} /\ result' = result
      /\ head' \in Heads /\ (pc' = "read" => head' = physical_block)
      /\ UNCHANGED BlockSide /\ UNCHANGED <<locate, attempt, record>>
  BY TapeFacts DEF Locate, Goes
<1>3. UNCHANGED <<input, extents, remaining, byte_offset, physical_block,
                  buffer, logical_offset, published, cancel_event>>
  BY <1>2 DEF BlockSide, extentVars, outVars
<1>4. FileTypeOK' BY <1>1, <1>2, <1>3 DEF FileTypeOK, States
<1>5. HeadInv' /\ RecordInv' BY <1>2, <1>3 DEF HeadInv, RecordInv, Taking
<1> QED BY <1>2, <1>4, <1>5, BlockKeeps DEF InExtent, Taking

LEMMA RequiredBounds ==
  ASSUME FileTypeOK, ExtentsInv, pc \in InExtent \ Taking
  PROVE  /\ Required \in Nat /\ Required <= BlockSize
         /\ byte_offset < Required /\ Required <= remaining + byte_offset
         /\ Required = BlockSize \/ Required = remaining + byte_offset
<1>1. remaining > 0 /\ byte_offset < BlockSize
  BY DEF ExtentsInv, InFile
<1>2. remaining \in Nat /\ byte_offset \in Nat /\ BlockSize \in Nat
  BY TapeFacts DEF FileTypeOK
<1> QED BY <1>1, <1>2 DEF Required, MinOf

LEMMA ReadKeeps == ASSUME FileIInv, Read PROVE FileIInv'
<1>1. FileTypeOK /\ ExtentsInv /\ HeadInv BY DEF FileIInv
<1>2. pc = "read" /\ UNCHANGED BlockSide /\ UNCHANGED <<locate, attempt>>
  BY DEF Read
<1>3. UNCHANGED <<input, extents, remaining, byte_offset, physical_block,
                  buffer, logical_offset, published, cancel_event>>
  BY <1>2 DEF BlockSide, extentVars, outVars
<1>4. head = physical_block BY <1>1, <1>2 DEF HeadInv
<1>5. CASE /\ head \in Blocks
           /\ record' = [block |-> head, from |-> byte_offset,
                         to |-> MinOf(Required, Record[head])]
           /\ head' = head + 1 /\ pc' = "check" /\ result' = result
  <2>1. Required' = Required BY <1>3 DEF Required
  <2>2. MinOf(Required, Record[head]) \in 0..BlockSize
    <3>1. Required \in Nat /\ Required <= BlockSize
      BY <1>1, <1>2, RequiredBounds DEF InExtent, Taking
    <3>2. Record[head] \in 0..BlockSize BY <1>5, TapeFacts
    <3> QED BY <3>1, <3>2, TapeFacts DEF MinOf
  <2>3. FileTypeOK'
    <3>1. record' \in [block : Nat, from : Nat, to : 0..BlockSize]
      BY <1>1, <1>5, <2>2, TapeFacts DEF FileTypeOK
    <3>2. head' \in Heads BY <1>5, TapeFacts
    <3> QED BY <3>1, <3>2, <1>1, <1>2, <1>3, <1>5 DEF FileTypeOK, States
  <2>4. HeadInv' BY <1>3, <1>4, <1>5 DEF HeadInv, Taking
  <2>5. RecordInv'
    <3>1. record'.from = byte_offset' BY <1>3, <1>5
    <3>2. record'.to = MinOf(Required', Record[physical_block'])
      BY <1>3, <1>4, <1>5, <2>1
    <3> QED BY <3>1, <3>2, <1>5 DEF RecordInv, Taking
  <2> QED BY <1>2, <1>5, <2>3, <2>4, <2>5, BlockKeeps DEF InExtent, Taking
<1>6. CASE /\ head' \in Heads /\ record' = record
           /\ pc' = "failed" /\ result' = result
  <2>1. FileTypeOK' BY <1>1, <1>2, <1>3, <1>6 DEF FileTypeOK, States
  <2>2. HeadInv' /\ RecordInv' BY <1>6 DEF HeadInv, RecordInv, Taking
  <2> QED BY <1>2, <1>6, <2>1, <2>2, BlockKeeps DEF InExtent, Taking
<1> QED BY <1>5, <1>6 DEF Read, Goes

LEMMA AttemptFailsKeeps == ASSUME FileIInv, AttemptFails PROVE FileIInv'
<1>1. FileTypeOK /\ AcceptedInv /\ SlotsExact BY DEF FileIInv
<1>2. /\ pc = "failed" /\ locate' = TRUE
      /\ UNCHANGED BlockSide /\ UNCHANGED <<head, record>>
  BY DEF AttemptFails
<1>3. UNCHANGED <<input, extents, remaining, byte_offset, physical_block,
                  buffer, logical_offset, published, cancel_event>>
  BY <1>2 DEF BlockSide, extentVars, outVars
<1>4. attempt' \in 0..AutomaticRetries
  <2>1. attempt \in 0..AutomaticRetries BY <1>1 DEF FileTypeOK
  <2>2. attempt' = attempt \/ (attempt < AutomaticRetries /\ attempt' = attempt + 1)
    BY DEF AttemptFails, RetriesLeft
  <2> QED BY <2>1, <2>2, TapeFacts
<1>5. CASE pc' = "ended" /\ result' = "cancelled"
  <2>1. FileTypeOK'
    BY <1>1, <1>2, <1>3, <1>4, <1>5 DEF FileTypeOK, States, Results
  <2>2. Valid(Order, input.length) BY <1>1, <1>2 DEF AcceptedInv
  <2>3. SlotsExact' BY <1>1, <1>3, <1>5, SlotsStay
  <2> QED BY <1>3, <1>5, <2>1, <2>2, <2>3, EndedKeeps
<1>6. CASE pc' \in {"attempt", "prompt"} /\ result' = result
  <2>1. FileTypeOK' BY <1>1, <1>2, <1>3, <1>4, <1>6 DEF FileTypeOK, States
  <2>2. HeadInv' /\ RecordInv' BY <1>2, <1>6 DEF HeadInv, RecordInv, Taking
  <2> QED BY <1>2, <1>6, <2>1, <2>2, BlockKeeps DEF InExtent, Taking
<1> QED BY <1>5, <1>6 DEF AttemptFails, Goes, Ends

LEMMA PromptKeeps == ASSUME FileIInv, Prompt PROVE FileIInv'
<1>1. FileTypeOK /\ AcceptedInv /\ SlotsExact /\ HeadInv BY DEF FileIInv
<1>2. /\ pc = "prompt" /\ locate = TRUE
      /\ UNCHANGED BlockSide /\ UNCHANGED <<locate, head, record>>
  BY <1>1 DEF Prompt, HeadInv, FileTypeOK
<1>3. UNCHANGED <<input, extents, remaining, byte_offset, physical_block,
                  buffer, logical_offset, published, cancel_event>>
  BY <1>2 DEF BlockSide, extentVars, outVars
<1>4. attempt' \in 0..AutomaticRetries
  <2>1. attempt \in 0..AutomaticRetries BY <1>1 DEF FileTypeOK
  <2>2. attempt' = attempt \/ attempt' = 0 BY DEF Prompt
  <2> QED BY <2>1, <2>2, TapeFacts
<1>5. CASE pc' = "ended" /\ result' = "error"
  <2>1. FileTypeOK'
    BY <1>1, <1>2, <1>3, <1>4, <1>5 DEF FileTypeOK, States, Results
  <2>2. Valid(Order, input.length) BY <1>1, <1>2 DEF AcceptedInv
  <2>3. SlotsExact' BY <1>1, <1>3, <1>5, SlotsStay
  <2> QED BY <1>3, <1>5, <2>1, <2>2, <2>3, EndedKeeps
<1>6. CASE pc' = "attempt" /\ result' = result
  <2>1. FileTypeOK' BY <1>1, <1>2, <1>3, <1>4, <1>6 DEF FileTypeOK, States
  <2>2. HeadInv' /\ RecordInv' BY <1>2, <1>6 DEF HeadInv, RecordInv, Taking
  <2> QED BY <1>2, <1>6, <2>1, <2>2, BlockKeeps DEF InExtent, Taking
<1> QED BY <1>5, <1>6 DEF Prompt, Goes, Ends

LEMMA CheckRecordKeeps == ASSUME FileIInv, CheckRecord PROVE FileIInv'
<1>1. FileTypeOK /\ AcceptedInv /\ SlotsExact /\ HeadInv /\ RecordInv /\ ExtentsInv
  BY DEF FileIInv
<1>2. /\ pc = "check" /\ locate' = FALSE
      /\ UNCHANGED BlockSide /\ UNCHANGED <<attempt, head>>
  BY DEF CheckRecord
<1>3. UNCHANGED <<input, extents, remaining, byte_offset, physical_block,
                  buffer, logical_offset, published, cancel_event>>
  BY <1>2 DEF BlockSide, extentVars, outVars
<1>4. /\ record.from = byte_offset
      /\ record.to = MinOf(Required, Record[physical_block])
      /\ physical_block \in Blocks /\ record.block = physical_block
      /\ head = physical_block + 1
  BY <1>1, <1>2 DEF HeadInv, RecordInv
<1>5. CASE record.to <= byte_offset
  <2>1. pc' = "ended" /\ result' = "error" /\ record' = record
    BY <1>5 DEF CheckRecord, Ends
  <2>2. FileTypeOK' BY <1>1, <1>2, <1>3, <2>1 DEF FileTypeOK, States, Results
  <2>3. Valid(Order, input.length) BY <1>1, <1>2 DEF AcceptedInv
  <2>4. SlotsExact' BY <1>1, <1>3, <2>1, SlotsStay
  <2> QED BY <1>3, <2>1, <2>2, <2>3, <2>4, EndedKeeps
<1>6. CASE ~ (record.to <= byte_offset)
  <2> DEFINE to == byte_offset + MinOf(record.to - byte_offset, remaining)
  <2>1. pc' = "copy" /\ result' = result /\ record' = [record EXCEPT !.to = to]
    BY <1>6 DEF CheckRecord, Goes
  <2>2. record \in [block : Nat, from : Nat, to : 0..BlockSize]
    BY <1>1 DEF FileTypeOK
  <2>3. /\ record'.block = physical_block /\ record'.from = byte_offset
        /\ record'.to = to
    BY <2>1, <2>2, <1>4
  <2>4. /\ remaining \in Nat /\ byte_offset \in Nat /\ record.to \in Nat
        /\ record.to <= BlockSize /\ remaining > 0
        /\ Record[physical_block] \in Nat
    <3>1. remaining > 0 BY <1>1, <1>2 DEF ExtentsInv, InFile, InExtent, Taking
    <3> QED BY <3>1, <2>2, <1>1, <1>4, TapeFacts DEF FileTypeOK
  <2>5. to \in Nat /\ byte_offset < to /\ to <= record.to
        /\ to - byte_offset <= remaining
        /\ (to = record.to \/ to = byte_offset + remaining)
    BY <2>4, <1>6 DEF MinOf
  <2>6. /\ Required \in Nat /\ Required <= BlockSize
        /\ Required = BlockSize \/ Required = remaining + byte_offset
    BY <1>1, <1>2, RequiredBounds DEF InExtent, Taking
  <2> HIDE DEF to
  <2>7. to <= Record[physical_block]
        /\ (to = BlockSize \/ to = byte_offset + remaining \/ to = Record[physical_block])
    BY <2>4, <2>5, <2>6, <1>4 DEF MinOf
  <2>8. FileTypeOK'
    <3>1. to \in 0..BlockSize BY <2>4, <2>5, TapeFacts
    <3>2. record' \in [block : Nat, from : Nat, to : 0..BlockSize]
      BY <3>1, <2>1, <2>2
    <3> QED BY <3>2, <1>1, <1>2, <1>3, <2>1 DEF FileTypeOK, States
  <2>9. HeadInv' BY <1>2, <1>3, <1>4, <2>1, <2>3 DEF HeadInv, Taking
  <2>10. RecordInv'
    <3>1. record'.from <= record'.to /\ record'.from < record'.to
      BY <2>3, <2>4, <2>5
    <3> QED BY <3>1, <1>3, <2>1, <2>3, <2>5, <2>7 DEF RecordInv, Taking
  <2> QED BY <1>2, <2>1, <2>3, <2>8, <2>9, <2>10, BlockKeeps
             DEF InExtent, Taking
<1> QED BY <1>5, <1>6

LEMMA ValidateKeeps == ASSUME FileIInv, Validate PROVE FileIInv'
<1>1. FileTypeOK /\ AcceptedInv /\ SlotsExact BY DEF FileIInv
<1>2. /\ pc = "validate" /\ result = "none"
      /\ published = <<>> /\ buffer = <<>> /\ logical_offset = 0
      /\ UNCHANGED <<input, remaining, byte_offset, physical_block, locate,
                     attempt, head, record, buffer, logical_offset, published,
                     cancel_event>>
  BY <1>1 DEF Validate, AcceptedInv, driveVars, outVars
<1>3. input \in Inputs BY <1>1 DEF FileTypeOK
<1>4. /\ Order' = Order /\ OnTape(input)' = OnTape(input)
      /\ \A n : EndOf(n)' = EndOf(n)
  BY <1>2, InputStays
<1>5. CASE ~Valid(Order, input.length)
  <2>1. pc' = "ended" /\ result' = "invalid" /\ extents' = extents
    BY <1>5 DEF Validate, Ends, Order
  <2>2. FileTypeOK' BY <1>1, <1>2, <2>1 DEF FileTypeOK, States, Results
  <2>3. AcceptedInv' BY <1>2, <1>4, <1>5, <2>1 DEF AcceptedInv
  <2>4. ExtentsInv' BY <2>1 DEF ExtentsInv, InFile, InExtent
  <2>5. HeadInv' /\ RecordInv' BY <2>1 DEF HeadInv, RecordInv, Taking
  <2>6. PlaceInv' BY <2>1 DEF PlaceInv, InExtent
  <2>7. BufferInv' BY <2>1 DEF BufferInv, InFile, InExtent
  <2>8. SlotsExact' BY <1>1, <1>2, <2>1, SlotsStay
  <2> QED BY <2>2, <2>3, <2>4, <2>5, <2>6, <2>7, <2>8 DEF FileIInv
<1>6. CASE Valid(Order, input.length)
  <2>1. pc' = "extent" /\ result' = result /\ extents' = Order
    BY <1>6 DEF Validate, Goes, Order
  <2>2. Order \in Seq(Extents) /\ Len(Order) \in Nat /\ EndOf(0) = 0
        /\ input.length \in Nat
    BY <1>3, OrderFacts
  <2>3. FileTypeOK' BY <1>1, <1>2, <2>1, <2>2 DEF FileTypeOK, States
  <2>4. AcceptedInv' BY <1>2, <1>4, <1>6, <2>1 DEF AcceptedInv
  <2>5. Begun' = 0 /\ Taken' = 0
    <3>1. Len(buffer) = 0 BY <1>2
    <3> QED BY <3>1, <1>2, <1>4, <2>1, <2>2 DEF Begun, Taken
  <2>6. ExtentsInv'
    <3>1. \A j \in 1..Len(extents') : extents'[j] = Order'[Begun' + j]
      BY <1>4, <2>1, <2>2, <2>5
    <3>2. EndOf(Begun)' = 0 BY <1>4, <2>2, <2>5 DEF EndOf
    <3> QED BY <3>1, <3>2, <1>4, <2>1, <2>2, <2>5
               DEF ExtentsInv, InExtent, Taking
  <2>7. HeadInv' /\ RecordInv' BY <2>1 DEF HeadInv, RecordInv, Taking
  <2>8. PlaceInv' BY <2>1 DEF PlaceInv, InExtent
  <2>9. BufferInv'
    <3>1. Len(published) = 0 /\ DOMAIN buffer = {} BY <1>2
    <3> QED BY <3>1, <1>2, <2>1, <2>2, <2>5, TapeFacts DEF BufferInv
  <2>10. SlotsExact' BY <1>1, <1>2, <2>1, SlotsStay
  <2> QED BY <2>3, <2>4, <2>6, <2>7, <2>8, <2>9, <2>10 DEF FileIInv
<1> QED BY <1>5, <1>6

LEMMA StartExtentKeeps == ASSUME FileIInv, StartExtent PROVE FileIInv'
<1>1. /\ FileTypeOK /\ AcceptedInv /\ SlotsExact /\ ExtentsInv /\ HeadInv
      /\ RecordInv /\ BufferInv
  BY DEF FileIInv
<1>2. /\ pc = "extent" /\ result = "none"
      /\ UNCHANGED <<input, buffer, logical_offset, published, cancel_event>>
  BY <1>1 DEF StartExtent, AcceptedInv, outVars
<1>3. input \in Inputs /\ Valid(Order, input.length)
  BY <1>1, <1>2 DEF FileTypeOK, AcceptedInv
<1>4. /\ Order' = Order /\ OnTape(input)' = OnTape(input)
      /\ \A n : EndOf(n)' = EndOf(n)
  BY <1>2, InputStays
<1>5. Taken' = Taken BY <1>2 DEF Taken
<1>6. /\ Begun \in 0..Len(Order) /\ Taken = EndOf(Begun)
      /\ \A j \in 1..Len(extents) : extents[j] = Order[Begun + j]
  BY <1>1, <1>2 DEF ExtentsInv, InFile, InExtent
<1>7. /\ Len(Order) \in Nat /\ extents \in Seq(Extents) /\ Len(extents) \in Nat
  BY <1>1, <1>3, OrderFacts, LenProperties DEF FileTypeOK
<1>8. result' = result /\ pc' \in {"tail", "attempt"}
  BY DEF StartExtent, Goes
<1>9. AcceptedInv' BY <1>1, <1>2, <1>4, <1>8 DEF AcceptedInv
<1>10. BufferInv'
  <2>1. /\ logical_offset = TargetSlotSize * Len(published)
        /\ Taken <= input.length
        /\ OnTape(input) =>
             \A i \in DOMAIN buffer :
               buffer[i] = FileByte(input, logical_offset + i - 1)
    BY <1>1, <1>2 DEF BufferInv, InFile
  <2> QED BY <2>1, <1>2, <1>4, <1>5, <1>8 DEF BufferInv, InFile, InExtent
<1>11. SlotsExact' BY <1>1, <1>2, <1>8, SlotsStay
<1>12. CASE extents = <<>>
  <2>1. pc' = "tail" /\ UNCHANGED <<extents, remaining, byte_offset,
          physical_block, locate, attempt, head, record>>
    BY <1>12 DEF StartExtent, Goes, extentVars, driveVars
  <2>2. FileTypeOK' BY <1>1, <1>2, <1>8, <2>1 DEF FileTypeOK, States
  <2>3. Begun' = Begun BY <1>4, <2>1 DEF Begun
  <2>4. ExtentsInv'
    BY <1>4, <1>5, <1>6, <1>12, <2>1, <2>3 DEF ExtentsInv, InExtent, Taking
  <2>5. HeadInv' /\ RecordInv' BY <2>1 DEF HeadInv, RecordInv, Taking
  <2>6. PlaceInv' BY <2>1 DEF PlaceInv, InExtent
  <2> QED BY <1>9, <1>10, <1>11, <2>2, <2>4, <2>5, <2>6 DEF FileIInv
<1>13. CASE extents # <<>>
  <2>1. /\ pc' = "attempt" /\ locate' = TRUE /\ attempt' = 0
        /\ remaining' = Head(extents).byte_count
        /\ byte_offset' = Head(extents).byte_offset
        /\ physical_block' = Head(extents).start_block
        /\ extents' = Tail(extents) /\ UNCHANGED <<head, record>>
    BY <1>13 DEF StartExtent, Goes
  <2> DEFINE k == Begun + 1
  <2>2. Len(extents) > 0 BY <1>7, <1>13, EmptySeq
  <2>3. Head(extents) = extents[1] /\ extents[1] = Order[k]
    BY <1>6, <1>7, <1>13, <2>2, HeadTailProperties
  <2>4. /\ Tail(extents) \in Seq(Extents) /\ Len(Tail(extents)) = Len(extents) - 1
        /\ \A j \in 1..(Len(extents) - 1) : Tail(extents)[j] = extents[j + 1]
    BY <1>7, <1>13, HeadTailProperties
  <2>5. Begun' = k
    BY <1>4, <1>7, <2>1, <2>4 DEF Begun
  <2>6. k \in 1..Len(Order) /\ k - 1 = Begun
    BY <1>6, <1>7, <2>2 DEF Begun
  <2>7. /\ Order[k].start_block \in Nat /\ Order[k].byte_offset \in Nat
        /\ Order[k].byte_count \in Nat
        /\ EndOf(k) = EndOf(k - 1) + Order[k].byte_count /\ EndOf(k - 1) \in Nat
    BY <1>3, <2>6, OrderFacts
  <2>8. Order[k].byte_count > 0 /\ Order[k].byte_offset < BlockSize
    BY <1>3, <2>6, ValidOrder
  <2>9. FileTypeOK'
    <3>1. attempt' \in 0..AutomaticRetries BY <2>1, TapeFacts
    <3>2. remaining' \in Nat /\ byte_offset' \in Nat /\ physical_block' \in Nat
      BY <2>1, <2>3, <2>7
    <3>3. extents' \in Seq(Extents) BY <2>1, <2>4
    <3> QED BY <3>1, <3>2, <3>3, <1>1, <1>2, <1>8, <2>1 DEF FileTypeOK, States
  <2>10. ExtentsInv'
    <3>1. ASSUME NEW j \in 1..Len(extents') PROVE extents'[j] = Order'[Begun' + j]
      <4>1. j \in 1..(Len(extents) - 1) /\ j + 1 \in 1..Len(extents)
            /\ Begun + (j + 1) = Begun' + j
        BY <1>6, <1>7, <2>1, <2>4, <2>5
      <4> QED BY <4>1, <1>4, <1>6, <2>1, <2>4
    <3>2. EndOf(Begun)' = EndOf(k) /\ EndOf(Begun - 1)' = EndOf(k - 1)
      BY <1>4, <2>5 DEF EndOf
    <3>3. Taken' = EndOf(k - 1) BY <1>5, <1>6, <2>6
    <3>4. remaining' = Order[k].byte_count /\ byte_offset' = Order[k].byte_offset
      BY <2>1, <2>3
    <3> HIDE DEF k
    <3>5. Begun' \in 0..Len(Order') /\ Begun' > 0 BY <1>4, <1>7, <2>5, <2>6
    <3>6. Taken' + remaining' = EndOf(Begun)' /\ Taken' >= EndOf(Begun - 1)'
          /\ remaining' > 0 /\ byte_offset' < BlockSize
      BY <3>2, <3>3, <3>4, <2>7, <2>8
    <3> QED BY <3>1, <3>5, <3>6, <2>1 DEF ExtentsInv, InExtent, Taking
  <2>11. HeadInv' /\ RecordInv' BY <2>1 DEF HeadInv, RecordInv, Taking
  <2>12. PlaceInv'
    <3>1. InBlock' = Order[k].byte_offset BY <2>1, <2>3 DEF InBlock, Taking
    <3>2. physical_block' = Order[k].start_block BY <2>1, <2>3
    <3>3. Taken' = EndOf(k - 1) BY <1>5, <1>6, <2>6
    <3>4. EndOf(Begun - 1)' = EndOf(k - 1) /\ Order'[Begun'] = Order[k]
      BY <1>4, <2>5 DEF EndOf
    <3> HIDE DEF k
    <3>5. BlockSize * (Order[k].start_block - Order[k].start_block) = 0
      BY <2>7, TapeFacts
    <3>6. EndOf(k - 1) - EndOf(k - 1) = 0 BY <2>7
    <3> QED BY <3>1, <3>2, <3>3, <3>4, <3>5, <3>6, <2>7 DEF PlaceInv
  <2> QED BY <1>9, <1>10, <1>11, <2>9, <2>10, <2>11, <2>12 DEF FileIInv
<1> QED BY <1>12, <1>13

LEMMA AdvanceKeeps == ASSUME FileIInv, Advance PROVE FileIInv'
<1>1. /\ FileTypeOK /\ AcceptedInv /\ SlotsExact /\ ExtentsInv /\ HeadInv
      /\ RecordInv /\ BufferInv /\ PlaceInv
  BY DEF FileIInv
<1>2. /\ pc = "advance" /\ result = "none" /\ result' = result
      /\ byte_offset' = 0 /\ attempt' = 0
      /\ physical_block' = IF remaining > 0 THEN physical_block + 1
                           ELSE physical_block
      /\ pc' = IF remaining > 0 THEN "attempt" ELSE "extent"
      /\ UNCHANGED <<input, extents, remaining, locate, head, record, buffer,
                     logical_offset, published, cancel_event>>
  BY <1>1 DEF Advance, AcceptedInv, outVars, Goes, OffsetInNextBlock
<1>3. input \in Inputs /\ Valid(Order, input.length)
  BY <1>1, <1>2 DEF FileTypeOK, AcceptedInv
<1>4. /\ Order' = Order /\ OnTape(input)' = OnTape(input)
      /\ \A n : EndOf(n)' = EndOf(n)
  BY <1>2, InputStays
<1>5. Taken' = Taken /\ Begun' = Begun BY <1>2, <1>4 DEF Taken, Begun
<1>6. /\ Begun \in 0..Len(Order) /\ Begun > 0
      /\ Taken + remaining = EndOf(Begun) /\ Taken >= EndOf(Begun - 1)
      /\ \A j \in 1..Len(extents) : extents[j] = Order[Begun + j]
  BY <1>1, <1>2 DEF ExtentsInv, InFile, InExtent
<1>7. /\ record.from = record.to /\ record.to <= Record[physical_block]
      /\ \/ record.to = BlockSize \/ record.to = record.from + remaining
         \/ record.to = Record[physical_block]
      /\ physical_block \in Blocks /\ ~locate /\ head = physical_block + 1
  BY <1>1, <1>2 DEF RecordInv, HeadInv, Taking
<1>8. /\ remaining \in Nat /\ physical_block \in Nat /\ record.to \in Nat
      /\ record.to <= BlockSize /\ Taken \in Nat
      /\ BlockSize \in Nat /\ BlockSize > 0
  <2>1. Len(buffer) \in Nat BY <1>1, LenProperties DEF FileTypeOK
  <2>2. record.to \in 0..BlockSize BY <1>1 DEF FileTypeOK
  <2> QED BY <2>1, <2>2, <1>1, TapeFacts DEF FileTypeOK, Taken
<1>9. FileTypeOK'
  <2>1. 0 \in 0..AutomaticRetries /\ 0 \in Nat BY TapeFacts
  <2> QED BY <2>1, <1>1, <1>2, <1>8 DEF FileTypeOK, States
<1>10. AcceptedInv' BY <1>1, <1>2, <1>4 DEF AcceptedInv
<1>11. ExtentsInv'
  <2>1. \A j \in 1..Len(extents') : extents'[j] = Order'[Begun' + j]
    BY <1>2, <1>4, <1>5, <1>6
  <2>2. EndOf(Begun)' = EndOf(Begun) /\ EndOf(Begun - 1)' = EndOf(Begun - 1)
    BY <1>4, <1>5 DEF EndOf
  <2>3. EndOf(Begun) \in Nat /\ EndOf(Begun - 1) \in Nat
    <3>1. Begun - 1 \in 0..Len(Order) BY <1>6
    <3> QED BY <3>1, <1>3, <1>6, OrderFacts
  <2>4. ~ (remaining > 0) => Taken = EndOf(Begun)
    BY <1>6, <1>8, <2>3
  <2> QED BY <2>1, <2>2, <2>4, <1>2, <1>4, <1>5, <1>6, <1>8
          DEF ExtentsInv, InExtent, Taking
<1>12. HeadInv' BY <1>2, <1>7 DEF HeadInv, Taking
<1>13. RecordInv' BY <1>2 DEF RecordInv, Taking
<1>14. PlaceInv'
  <2> SUFFICES ASSUME remaining > 0, OnTape(input)
               PROVE  /\ physical_block' >= Order[Begun].start_block
                      /\ Order[Begun].byte_offset + (Taken - EndOf(Begun - 1)) =
                           BlockSize * (physical_block' - Order[Begun].start_block)
    <3>1. InBlock' = 0 \/ pc' = "extent" BY <1>2 DEF InBlock, Taking
    <3>2. EndOf(Begun - 1)' = EndOf(Begun - 1) /\ Order'[Begun'] = Order[Begun]
      BY <1>4, <1>5 DEF EndOf
    <3>3. physical_block' \in Nat BY <1>2, <1>8
    <3>4. Order[Begun].start_block \in Nat
      BY <1>3, <1>6, OrderFacts
    <3> DEFINE d == physical_block' - Order[Begun].start_block
    <3>5. d \in Int BY <3>3, <3>4
    <3> HIDE DEF d
    <3>6. BlockSize * d + 0 = BlockSize * d BY <3>5, <1>8
    <3> QED BY <3>1, <3>2, <3>6, <1>2, <1>4, <1>5 DEF PlaceInv, InExtent, d
  <2> DEFINE start == Order[Begun].start_block
             q == physical_block - start
             x == Order[Begun].byte_offset + (Taken - EndOf(Begun - 1))
  <2>1. /\ Begun \in 1..Len(Order) /\ Begun - 1 \in 0..Len(Order)
        /\ Begun \in DOMAIN Order
    BY <1>3, <1>6, OrderFacts
  <2>2. /\ start \in Nat /\ Order[Begun].byte_offset \in Nat
        /\ EndOf(Begun) \in Nat /\ EndOf(Begun - 1) \in Nat
    BY <1>3, <1>6, <2>1, OrderFacts
  <2>3. physical_block >= start /\ x = BlockSize * q + record.from
    BY <1>1, <1>2 DEF PlaceInv, InExtent, InBlock, Taking
  <2>4. q \in Nat BY <1>8, <2>2, <2>3
  <2>5. Taken < EndOf(Begun) /\ EndOf(Begun - 1) <= Taken BY <1>6, <1>8, <2>2
  <2>6. FileByte(input, Taken) = <<start + x \div BlockSize, x % BlockSize>>
        /\ Taken \in 0..(input.length - 1)
    BY <1>3, <1>8, <2>1, <2>5, FileByteIs DEF Order, EndOf
  <2> HIDE DEF start, x, q
  (* A record shorter than a block would not hold the next byte.           *)
  <2>7. record.to = BlockSize
    <3> SUFFICES ASSUME record.to < BlockSize, record.to = Record[physical_block]
                 PROVE  FALSE
      BY <1>7, <1>8
    <3>1. record.from \in 0..(BlockSize - 1) BY <1>7, <1>8
    <3>2. x \div BlockSize = q /\ x % BlockSize = record.from
      <4>1. BlockSize \in Nat \ {0} BY <1>8
      <4>2. /\ (BlockSize * q + record.from) \div BlockSize = q
            /\ (BlockSize * q + record.from) % BlockSize = record.from
        BY <3>1, <2>4, <4>1, DivUnique
      <4> QED BY <4>2, <2>3
    <3>3. start + q = physical_block BY <2>2, <1>8 DEF q
    <3>4. FileByte(input, Taken) = <<physical_block, record.from>>
      BY <2>6, <3>2, <3>3
    <3>5. record.from < Record[physical_block]
      BY <2>6, <3>4 DEF OnTape
    <3> QED BY <3>5, <1>7, <1>8
  <2>8. x = BlockSize * (q + 1)
    <3>1. BlockSize * (q + 1) = BlockSize * q + BlockSize BY <2>4, <1>8
    <3> QED BY <3>1, <2>3, <2>7, <1>7
  <2>9. physical_block' - start = q + 1 /\ physical_block' >= start
    BY <1>2, <1>8, <2>2, <2>3 DEF q
  <2> QED BY <2>8, <2>9 DEF x, start
<1>15. BufferInv'
  <2>1. /\ logical_offset = TargetSlotSize * Len(published)
        /\ Taken <= input.length
        /\ OnTape(input) =>
             \A i \in DOMAIN buffer :
               buffer[i] = FileByte(input, logical_offset + i - 1)
    BY <1>1, <1>2 DEF BufferInv, InFile, InExtent
  <2> QED BY <2>1, <1>2, <1>4, <1>5 DEF BufferInv, InFile, InExtent
<1>16. SlotsExact' BY <1>1, <1>2, SlotsStay
<1> QED BY <1>9, <1>10, <1>11, <1>12, <1>13, <1>14, <1>15, <1>16 DEF FileIInv

(* The bytes a copy takes from the record are the next ones of the file.   *)
LEMMA CopiedBytes ==
  ASSUME FileIInv, pc = "copy", OnTape(input),
         NEW j \in Nat, 1 <= j, j <= record.to - record.from
  PROVE  FileByte(input, Taken + j - 1) = <<record.block, record.from + j - 1>>
<1>1. FileTypeOK /\ AcceptedInv /\ ExtentsInv /\ HeadInv /\ RecordInv /\ PlaceInv
  BY DEF FileIInv
<1>2. input \in Inputs /\ Valid(Order, input.length)
  BY <1>1 DEF FileTypeOK, AcceptedInv
<1>3. /\ Begun \in 0..Len(Order) /\ Begun > 0
      /\ Taken + remaining = EndOf(Begun) /\ Taken >= EndOf(Begun - 1)
  BY <1>1 DEF ExtentsInv, InFile, InExtent
<1>4. /\ record.to - record.from <= remaining /\ record.block = physical_block
  BY <1>1 DEF RecordInv, HeadInv, Taking
<1>5. /\ remaining \in Nat /\ physical_block \in Nat /\ record.to \in Nat
      /\ record.from \in Nat /\ record.to <= BlockSize /\ Taken \in Nat
      /\ BlockSize \in Nat /\ BlockSize > 0
  <2>1. Len(buffer) \in Nat BY <1>1, LenProperties DEF FileTypeOK
  <2>2. record.to \in 0..BlockSize /\ record.from \in Nat
    BY <1>1 DEF FileTypeOK
  <2> QED BY <2>1, <2>2, <1>1, TapeFacts DEF FileTypeOK, Taken
<1> DEFINE start == Order[Begun].start_block
           q == physical_block - start
           o == Taken + j - 1
           x == Order[Begun].byte_offset + (Taken - EndOf(Begun - 1))
           y == Order[Begun].byte_offset + (o - EndOf(Begun - 1))
           r == record.from + j - 1
<1>6. /\ Begun \in 1..Len(Order) /\ Begun - 1 \in 0..Len(Order)
      /\ Begun \in DOMAIN Order
  BY <1>2, <1>3, OrderFacts
<1>7. /\ start \in Nat /\ Order[Begun].byte_offset \in Nat
      /\ EndOf(Begun) \in Nat /\ EndOf(Begun - 1) \in Nat
  BY <1>2, <1>3, <1>6, OrderFacts
<1>8. o \in Nat /\ EndOf(Begun - 1) <= o /\ o < EndOf(Begun)
      /\ r \in 0..(BlockSize - 1) /\ remaining > 0
  <2>1. j <= remaining /\ remaining > 0 BY <1>4, <1>5
  <2>2. o \in Nat /\ Taken <= o /\ o < Taken + remaining BY <2>1, <1>5
  <2>3. r \in 0..(BlockSize - 1) BY <1>5
  <2>4. EndOf(Begun - 1) <= Taken /\ Taken + remaining = EndOf(Begun) BY <1>3
  <2> HIDE DEF o, r
  <2> QED BY <2>1, <2>2, <2>3, <2>4, <1>5, <1>7
<1>9. physical_block >= start /\ x = BlockSize * q + record.from
  BY <1>1, <1>8 DEF PlaceInv, InExtent, InBlock, Taking
<1>10. q \in Nat /\ start + q = physical_block BY <1>5, <1>7, <1>9
<1>11. FileByte(input, o) = <<start + y \div BlockSize, y % BlockSize>>
  BY <1>2, <1>6, <1>8, FileByteIs DEF Order, EndOf
<1>12. y = x + (j - 1) BY <1>5, <1>7
<1> HIDE DEF start, q, x, y, o
<1>13. y = BlockSize * q + r
  <2>1. BlockSize * q \in Nat BY <1>5, <1>10
  <2> HIDE DEF r
  <2>2. r = record.from + j - 1 BY DEF r
  <2> QED BY <2>1, <2>2, <1>5, <1>9, <1>12
<1> HIDE DEF r
<1>14. y \div BlockSize = q /\ y % BlockSize = r
  <2>1. BlockSize \in Nat \ {0} BY <1>5
  <2>2. (BlockSize * q + r) \div BlockSize = q /\ (BlockSize * q + r) % BlockSize = r
    BY <2>1, <1>8, <1>10, DivUnique
  <2> QED BY <2>2, <1>13
<1> QED BY <1>4, <1>10, <1>11, <1>14 DEF o, r

(* A slot appended to those published is as it must be if its length is    *)
(* right and its bytes are the file's.                                     *)
LEMMA PublishExact ==
  ASSUME FileTypeOK, SlotsExact, NEW bytes \in Seq(Byte), NEW eof \in BOOLEAN,
         Publish(bytes, eof), input' = input, input.length \in Nat,
         logical_offset = MinOf(TargetSlotSize * Len(published), input.length),
         Len(bytes) = MinOf(TargetSlotSize, input.length - logical_offset),
         eof <=> logical_offset = input.length,
         OnTape(input) => \A i \in DOMAIN bytes :
                            bytes[i] = FileByte(input, logical_offset + i - 1),
         result' = "ok" => eof
  PROVE  /\ SlotsExact' /\ logical_offset' = logical_offset + Len(bytes)
         /\ published' \in Seq([offset : Nat, bytes : Seq(Byte), eof : BOOLEAN])
         /\ Len(published') = Len(published) + 1
<1> DEFINE slot == [offset |-> logical_offset, bytes |-> bytes, eof |-> eof]
           S == [offset : Nat, bytes : Seq(Byte), eof : BOOLEAN]
           N == Len(published) + 1
<1>1. published' = Append(published, slot)
      /\ logical_offset' = logical_offset + Len(bytes)
  BY DEF Publish
<1>2. published \in Seq(S) /\ slot \in S BY DEF FileTypeOK
<1>3. slot.offset = logical_offset /\ slot.bytes = bytes /\ slot.eof = eof
  OBVIOUS
<1> HIDE DEF slot, S
<1>4. /\ published' \in Seq(S) /\ Len(published) \in Nat
      /\ Len(published') = N /\ DOMAIN published' = 1..N
      /\ DOMAIN published = 1..Len(published)
      /\ published'[N] = slot
      /\ \A n \in 1..Len(published) : published'[n] = published[n]
  <2>1. published' \in Seq(S) BY <1>1, <1>2, AppendProperties
  <2> QED BY <2>1, <1>1, <1>2, AppendProperties, LenProperties
<1>5. ASSUME NEW n \in 1..N
      PROVE  /\ published'[n].offset = MinOf((n - 1) * TargetSlotSize, input.length)
             /\ Len(published'[n].bytes) =
                  MinOf(TargetSlotSize, input.length - published'[n].offset)
             /\ published'[n].eof <=> published'[n].offset = input.length
             /\ OnTape(input) =>
                  \A i \in DOMAIN published'[n].bytes :
                    published'[n].bytes[i] =
                      FileByte(input, published'[n].offset + i - 1)
  <2>1. CASE n \in 1..Len(published)
    <3>1. published'[n] = published[n] /\ n \in DOMAIN published
      BY <2>1, <1>4
    <3> QED BY <3>1 DEF SlotsExact
  <2>2. CASE n = N
    <3>1. published'[n] = slot BY <2>2, <1>4
    <3>2. (n - 1) * TargetSlotSize = TargetSlotSize * Len(published)
      BY <2>2, <1>4, TapeFacts
    <3> QED BY <3>1, <3>2, <1>3
  <2> QED BY <2>1, <2>2, <1>4
<1>6. result' = "ok" => published' # <<>> /\ published'[Len(published')].eof
  <2> SUFFICES ASSUME result' = "ok"
               PROVE  published' # <<>> /\ published'[Len(published')].eof
    OBVIOUS
  <2>1. published'[Len(published')].eof BY <1>3, <1>4
  <2>2. published' # <<>>
    <3>1. Len(published') # 0 BY <1>4
    <3> QED BY <3>1, EmptySeq
  <2> QED BY <2>1, <2>2
<1>7. SlotsExact'
  <2>1. input'.length = input.length /\ OnTape(input)' = OnTape(input)
    BY InputStays
  <2> QED BY <1>4, <1>5, <1>6, <2>1 DEF SlotsExact
<1> QED BY <1>1, <1>4, <1>7 DEF S

LEMMA PublishFailsKeeps ==
  ASSUME FileIInv, pc \notin {"validate", "ended"}, PublishFails,
         UNCHANGED input, FileTypeOK'
  PROVE  FileIInv'
<1>1. AcceptedInv /\ SlotsExact BY DEF FileIInv
<1>2. /\ pc' = "ended" /\ result' \in {"cancelled", "error"}
      /\ published' = published
  BY DEF PublishFails, Ends
<1>3. Valid(Order, input.length) BY <1>1 DEF AcceptedInv
<1>4. SlotsExact' BY <1>1, <1>2, SlotsStay
<1> QED BY <1>2, <1>3, <1>4, EndedKeeps

LEMMA CopyKeeps == ASSUME FileIInv, Copy PROVE FileIInv'
<1>1. /\ FileTypeOK /\ AcceptedInv /\ SlotsExact /\ ExtentsInv /\ HeadInv
      /\ RecordInv /\ BufferInv /\ PlaceInv
  BY DEF FileIInv
<1>2. /\ pc = "copy" /\ result = "none"
      /\ UNCHANGED <<input, extents, byte_offset, physical_block, locate,
                     attempt, head, cancel_event>>
  BY <1>1 DEF Copy, AcceptedInv
<1>3. input \in Inputs /\ Valid(Order, input.length) /\ input.length \in Nat
  BY <1>1, <1>2, OrderFacts DEF FileTypeOK, AcceptedInv
<1>4. /\ Order' = Order /\ OnTape(input)' = OnTape(input)
      /\ \A n : EndOf(n)' = EndOf(n)
  BY <1>2, InputStays
<1>5. /\ Begun \in 0..Len(Order) /\ Begun > 0
      /\ Taken + remaining = EndOf(Begun) /\ Taken >= EndOf(Begun - 1)
      /\ \A j \in 1..Len(extents) : extents[j] = Order[Begun + j]
  BY <1>1, <1>2 DEF ExtentsInv, InFile, InExtent
<1>6. /\ record.from < record.to /\ record.to <= Record[physical_block]
      /\ record.to - record.from <= remaining
      /\ \/ record.to = BlockSize \/ record.to = record.from + remaining
         \/ record.to = Record[physical_block]
      /\ physical_block \in Blocks /\ record.block = physical_block
      /\ ~locate /\ head = physical_block + 1
  BY <1>1, <1>2 DEF RecordInv, HeadInv, Taking
<1>7. /\ record \in [block : Nat, from : Nat, to : 0..BlockSize]
      /\ record.from \in Nat /\ record.to \in Nat /\ record.to <= BlockSize
      /\ record.block \in Nat /\ remaining \in Nat
      /\ buffer \in Seq(Byte) /\ Len(buffer) \in Nat /\ DOMAIN buffer = 1..Len(buffer)
      /\ Len(buffer) < TargetSlotSize
      /\ logical_offset \in Nat /\ Taken \in Nat
      /\ BlockSize \in Nat /\ TargetSlotSize \in Nat
  <2>1. record \in [block : Nat, from : Nat, to : 0..BlockSize]
        /\ buffer \in Seq(Byte)
    BY <1>1 DEF FileTypeOK
  <2>2. Len(buffer) \in Nat /\ DOMAIN buffer = 1..Len(buffer)
    BY <2>1, LenProperties
  <2>3. record.from \in Nat /\ record.to \in 0..BlockSize /\ record.block \in Nat
    BY <2>1
  <2> QED BY <2>1, <2>2, <2>3, <1>1, TapeFacts DEF FileTypeOK, Taken
<1>8. /\ logical_offset = TargetSlotSize * Len(published)
      /\ Taken <= input.length
      /\ OnTape(input) =>
           \A i \in DOMAIN buffer :
             buffer[i] = FileByte(input, logical_offset + i - 1)
  BY <1>1, <1>2 DEF BufferInv, InFile, InExtent
<1> DEFINE n == MinOf(TargetSlotSize - Len(buffer), record.to - record.from)
           filled == buffer \o BytesOf(record, n)
<1>9. /\ n \in Nat /\ n > 0 /\ n <= record.to - record.from
      /\ n <= TargetSlotSize - Len(buffer) /\ n <= remaining
  BY <1>6, <1>7 DEF MinOf
<1>12. /\ record.from \in Nat /\ record.to \in Nat /\ remaining \in Nat
       /\ Len(buffer) \in Nat /\ Len(buffer) < TargetSlotSize
       /\ logical_offset \in Nat /\ Taken \in Nat
       /\ BlockSize \in Nat /\ TargetSlotSize \in Nat
  BY <1>7
<1>10. CASE /\ pc' = "ended" /\ result' = IF cancel_event THEN "cancelled" ELSE "error"
            /\ PublishFails /\ UNCHANGED <<record, buffer, remaining>>
  <2>1. UNCHANGED <<published, logical_offset>> BY <1>10 DEF PublishFails
  <2>2. FileTypeOK' BY <1>1, <1>2, <1>10, <2>1 DEF FileTypeOK, States, Results
  <2> QED BY <1>2, <1>10, <2>2, PublishFailsKeeps
<1>11. CASE /\ record' = [record EXCEPT !.from = @ + n]
            /\ remaining' = remaining - n
            /\ IF Len(filled) = TargetSlotSize
               THEN Publish(filled, FALSE) /\ buffer' = <<>>
               ELSE buffer' = filled /\ UNCHANGED <<published, logical_offset>>
            /\ pc' = IF record.from + n < record.to THEN "copy" ELSE "advance"
            /\ result' = result
  <2> HIDE DEF n
  <2>1. /\ BytesOf(record, n) \in Seq(Byte) /\ Len(BytesOf(record, n)) = n
        /\ \A i \in 1..n : BytesOf(record, n)[i] = <<record.block, record.from + i - 1>>
    <3>1. BytesOf(record, n) = [i \in 1..n |-> <<record.block, record.from + i - 1>>]
      BY DEF BytesOf
    <3>2. ASSUME NEW i \in 1..n PROVE <<record.block, record.from + i - 1>> \in Byte
      <4>1. record.from + i - 1 \in 0..(BlockSize - 1) BY <1>7, <1>9
      <4> QED BY <4>1, <1>7 DEF Byte
    <3>3. [i \in 1..n |-> <<record.block, record.from + i - 1>>] \in Seq(Byte)
      BY <3>2, <1>9
    <3> QED BY <3>1, <3>3, <1>9
  <2>2. /\ filled \in Seq(Byte) /\ Len(filled) = Len(buffer) + n
        /\ \A i \in 1..Len(filled) :
             filled[i] = IF i <= Len(buffer) THEN buffer[i]
                       ELSE BytesOf(record, n)[i - Len(buffer)]
    BY <2>1, <1>7, ConcatProperties
  <2>3. OnTape(input) => \A i \in 1..Len(filled) :
                           filled[i] = FileByte(input, logical_offset + i - 1)
    <3> SUFFICES ASSUME OnTape(input), NEW i \in 1..Len(filled)
                 PROVE  filled[i] = FileByte(input, logical_offset + i - 1)
      OBVIOUS
    <3>1. CASE i <= Len(buffer)
      <4>1. i \in DOMAIN buffer BY <3>1, <1>7, <2>2, <1>9
      <4> QED BY <3>1, <4>1, <2>2, <1>8
    <3>2. CASE i > Len(buffer)
      <4> DEFINE j == i - Len(buffer)
      <4>1. j \in 1..n /\ j \in Nat /\ 1 <= j /\ j <= record.to - record.from
        BY <3>2, <1>7, <1>9, <2>2
      <4>2. filled[i] = <<record.block, record.from + j - 1>>
        BY <3>2, <4>1, <2>1, <2>2, <1>7
      <4>3. logical_offset + i - 1 = Taken + j - 1
        BY <1>7, <2>2, <1>9 DEF Taken
      <4> HIDE DEF j
      <4>4. FileByte(input, Taken + j - 1) = <<record.block, record.from + j - 1>>
        BY <1>2, <4>1, CopiedBytes
      <4> QED BY <4>2, <4>3, <4>4
    <3> QED BY <3>1, <3>2, <2>2, <1>7, <1>9
  <2> HIDE DEF filled
  <2>4. /\ Taken + n <= input.length
    <3>1. EndOf(Begun) <= input.length BY <1>3, <1>5, ValidOrder
    <3>2. EndOf(Begun) \in Nat BY <1>3, <1>5, OrderFacts
    <3> QED BY <3>1, <3>2, <1>5, <1>7, <1>9, <1>3
  <2>5. /\ record'.from = record.from + n /\ record'.to = record.to
        /\ record'.block = record.block
        /\ record' \in [block : Nat, from : Nat, to : 0..BlockSize]
    <3>1. record' = [record EXCEPT !.from = record.from + n] BY <1>11
    <3>2. record \in [block : Nat, from : Nat, to : 0..BlockSize] BY <1>7
    <3>3. record.from + n \in Nat BY <1>9, <1>12
    <3> QED BY <3>1, <3>2, <3>3
  <2>6. DOMAIN filled = 1..Len(filled) BY <2>2, LenProperties
  (* What is published, and what is left in the buffer.                    *)
  <2>7. /\ SlotsExact' /\ Taken' = Taken + n
        /\ logical_offset' \in Nat /\ Len(published') \in Nat
        /\ logical_offset' = TargetSlotSize * Len(published')
        /\ published' \in Seq([offset : Nat, bytes : Seq(Byte), eof : BOOLEAN])
        /\ buffer' \in Seq(Byte) /\ Len(buffer') < TargetSlotSize
        /\ OnTape(input) =>
             \A i \in DOMAIN buffer' :
               buffer'[i] = FileByte(input, logical_offset' + i - 1)
    <3>0. Len(published) \in Nat
          /\ published \in Seq([offset : Nat, bytes : Seq(Byte), eof : BOOLEAN])
      BY <1>1, LenProperties DEF FileTypeOK
    <3>1. CASE Len(filled) = TargetSlotSize
      <4>1. Publish(filled, FALSE) /\ buffer' = <<>> BY <1>11, <3>1
      <4>2. logical_offset + TargetSlotSize <= input.length
        BY <2>4, <2>2, <3>1, <1>7, <1>9 DEF Taken
      <4>3. /\ logical_offset =
                 MinOf(TargetSlotSize * Len(published), input.length)
            /\ Len(filled) = MinOf(TargetSlotSize, input.length - logical_offset)
            /\ FALSE <=> logical_offset = input.length
        BY <4>2, <3>1, <1>3, <1>7, <1>8, TapeFacts DEF MinOf
      <4>4. result' # "ok" BY <1>2, <1>11
      <4>5. /\ SlotsExact' /\ logical_offset' = logical_offset + Len(filled)
            /\ published' \in Seq([offset : Nat, bytes : Seq(Byte), eof : BOOLEAN])
            /\ Len(published') = Len(published) + 1
        BY <1>1, <1>2, <1>3, <2>2, <2>3, <2>6, <4>1, <4>3, <4>4, PublishExact
      <4>6. Len(buffer') = 0 /\ DOMAIN buffer' = {} /\ buffer' \in Seq(Byte)
        BY <4>1, EmptySeq
      <4>7. logical_offset' = TargetSlotSize * Len(published')
        <5>1. TargetSlotSize * (Len(published) + 1) =
                TargetSlotSize * Len(published) + TargetSlotSize
          BY <1>7, <3>0
        <5> QED BY <5>1, <4>5, <3>1, <1>8
      <4>8. Taken' = Taken + n
        BY <4>5, <4>6, <2>2, <1>7, <1>9 DEF Taken
      <4>9. Len(published') \in Nat /\ logical_offset' \in Nat
        BY <4>5, <3>0, <3>1, <1>7
      <4> QED BY <4>5, <4>6, <4>7, <4>8, <4>9, TapeFacts
    <3>2. CASE Len(filled) # TargetSlotSize
      <4>1. buffer' = filled /\ UNCHANGED <<published, logical_offset>>
        BY <1>11, <3>2
      <4>2. SlotsExact' BY <1>1, <1>2, <1>11, <4>1, SlotsStay
      <4>3. Taken' = Taken + n BY <4>1, <2>2, <1>7, <1>9 DEF Taken
      <4>4. Len(buffer') < TargetSlotSize
        <5>1. Len(buffer') = Len(buffer) + n /\ Len(buffer) + n # TargetSlotSize
          BY <4>1, <2>2, <3>2
        <5> QED BY <5>1, <1>9, <1>12
      <4> QED BY <4>1, <4>2, <4>3, <4>4, <2>2, <2>3, <2>6, <1>7, <1>8, <3>0
    <3> QED BY <3>1, <3>2
  <2>8. pc' \in {"copy", "advance"} BY <1>11
  <2>9. remaining' = remaining - n /\ remaining' \in Nat BY <1>9, <1>11, <1>12
  <2>10. FileTypeOK'
    BY <1>1, <1>2, <1>11, <2>5, <2>7, <2>8, <2>9 DEF FileTypeOK, States
  <2>11. AcceptedInv' BY <1>1, <1>2, <1>4, <1>11, <2>8 DEF AcceptedInv
  <2>12. Begun' = Begun BY <1>2, <1>4 DEF Begun
  <2>13. EndOf(Begun)' = EndOf(Begun) /\ EndOf(Begun - 1)' = EndOf(Begun - 1)
    BY <1>4, <2>12 DEF EndOf
  <2>14. /\ EndOf(Begun) \in Nat /\ EndOf(Begun - 1) \in Nat
         /\ Begun \in 1..Len(Order)
    <3>1. Begun - 1 \in 0..Len(Order) BY <1>5
    <3> QED BY <3>1, <1>3, <1>5, OrderFacts
  <2>15. ExtentsInv'
    <3>1. \A j \in 1..Len(extents') : extents'[j] = Order'[Begun' + j]
      BY <1>2, <1>4, <1>5, <2>12
    <3>2. Taken' + remaining' = EndOf(Begun)' /\ Taken' >= EndOf(Begun - 1)'
      <4>1. Taken' = Taken + n /\ remaining' = remaining - n BY <2>7, <2>9
      <4>2. Taken + remaining = EndOf(Begun) /\ Taken >= EndOf(Begun - 1)
        BY <1>5
      <4>3. EndOf(Begun) \in Nat /\ EndOf(Begun - 1) \in Nat BY <2>14
      <4> QED BY <4>1, <4>2, <4>3, <1>9, <1>12, <2>13
    <3> QED BY <3>1, <3>2, <1>4, <1>5, <2>8, <2>12
            DEF ExtentsInv, InExtent, Taking
  <2>16. HeadInv' BY <1>2, <1>6, <2>5, <2>8 DEF HeadInv, Taking
  <2>17. RecordInv'
    <3>1. /\ record'.from <= record'.to
          /\ record'.to - record'.from <= remaining'
          /\ record.from + remaining = record'.from + remaining'
          /\ pc' = "copy" => record'.from < record'.to
          /\ pc' = "advance" => record'.from = record'.to
      <4>1. /\ record'.from = record.from + n /\ record'.to = record.to
            /\ remaining' = remaining - n
        BY <2>5, <2>9
      <4>2. record.to - record.from <= remaining BY <1>6
      <4>3. pc' = IF record.from + n < record.to THEN "copy" ELSE "advance"
        BY <1>11
      <4>4. /\ record.from + n <= record.to
            /\ pc' = "copy" => record.from + n < record.to
            /\ pc' = "advance" => record.from + n = record.to
        BY <4>3, <1>9, <1>12
      <4> QED BY <4>1, <4>2, <4>4, <1>9, <1>12
    <3> QED BY <3>1, <1>2, <1>6, <2>5, <2>8 DEF RecordInv, Taking
  <2>18. PlaceInv'
    <3> SUFFICES ASSUME OnTape(input), remaining' > 0
                 PROVE  /\ physical_block >= Order[Begun].start_block
                        /\ Order[Begun].byte_offset
                             + (Taken + n - EndOf(Begun - 1)) =
                             BlockSize * (physical_block - Order[Begun].start_block)
                               + (record.from + n)
      <4>1. InBlock' = record.from + n BY <2>5, <2>8 DEF InBlock, Taking
      <4>2. Order'[Begun'] = Order[Begun] BY <1>4, <2>12
      <4>3. /\ Taken' = Taken + n /\ EndOf(Begun - 1)' = EndOf(Begun - 1)
            /\ physical_block' = physical_block
            /\ OnTape(input)' = OnTape(input)
        BY <2>7, <2>13, <1>2, <1>4
      <4>4. PlaceInv' <=>
              (pc' \in InExtent /\ remaining' > 0 /\ OnTape(input)' =>
                 /\ physical_block' >= Order'[Begun'].start_block
                 /\ Order'[Begun'].byte_offset + (Taken' - EndOf(Begun - 1)') =
                      BlockSize * (physical_block' - Order'[Begun'].start_block)
                        + InBlock')
        BY DEF PlaceInv
      <4>5. Order'[Begun'].byte_offset + (Taken' - EndOf(Begun - 1)') =
              Order[Begun].byte_offset + (Taken + n - EndOf(Begun - 1))
        <5>1. Taken' - EndOf(Begun - 1)' = Taken + n - EndOf(Begun - 1)
          BY <4>3, <1>9, <1>12, <2>14
        <5>2. Order'[Begun'].byte_offset = Order[Begun].byte_offset BY <4>2
        <5> QED BY <5>1, <5>2
      <4>6. BlockSize * (physical_block' - Order'[Begun'].start_block) + InBlock' =
              BlockSize * (physical_block - Order[Begun].start_block)
                + (record.from + n)
        BY <4>1, <4>2, <4>3
      <4> QED BY <4>2, <4>3, <4>4, <4>5, <4>6
    <3>1. remaining > 0 BY <2>9, <1>7, <1>9
    <3>2. /\ physical_block >= Order[Begun].start_block
          /\ Order[Begun].byte_offset + (Taken - EndOf(Begun - 1)) =
               BlockSize * (physical_block - Order[Begun].start_block)
                 + record.from
      BY <3>1, <1>1, <1>2 DEF PlaceInv, InExtent, InBlock, Taking
    <3> DEFINE d == BlockSize * (physical_block - Order[Begun].start_block)
               first == Order[Begun].byte_offset
               begin == EndOf(Begun - 1)
    <3>3. first \in Nat /\ begin \in Nat /\ d \in Int
      <4>1. Order[Begun].byte_offset \in Nat /\ Order[Begun].start_block \in Nat
        BY <1>3, <2>14, OrderFacts
      <4>2. physical_block \in Nat BY <1>6, TapeFacts
      <4> QED BY <4>1, <4>2, <1>12, <2>14
    <3>4. first + (Taken - begin) = d + record.from BY <3>2
    <3> HIDE DEF d, first, begin
    <3>5. first + (Taken + n - begin) = d + (record.from + n)
      BY <3>3, <3>4, <1>9, <1>12
    <3> QED BY <3>2, <3>5 DEF d, first, begin
  <2>19. BufferInv'
    BY <1>2, <1>4, <2>4, <2>7, <2>8 DEF BufferInv, InFile, InExtent
  <2> QED BY <2>7, <2>10, <2>11, <2>15, <2>16, <2>17, <2>18, <2>19 DEF FileIInv
<1> QED BY <1>10, <1>11 DEF Copy, Goes, PublishFails, Ends

LEMMA PublishTailKeeps == ASSUME FileIInv, PublishTail PROVE FileIInv'
<1>1. /\ FileTypeOK /\ AcceptedInv /\ SlotsExact /\ ExtentsInv /\ BufferInv
  BY DEF FileIInv
<1>2. /\ pc = "tail" /\ result = "none" /\ buffer' = <<>>
      /\ UNCHANGED <<input, extents, remaining, byte_offset, physical_block,
                     locate, attempt, head, record, cancel_event>>
  BY <1>1 DEF PublishTail, AcceptedInv, extentVars, driveVars
<1>3. input \in Inputs /\ Valid(Order, input.length) /\ input.length \in Nat
  BY <1>1, <1>2, OrderFacts DEF FileTypeOK, AcceptedInv
<1>4. /\ Order' = Order /\ OnTape(input)' = OnTape(input)
  BY <1>2, InputStays
(* All the extents are taken, so the buffer ends with the file.            *)
<1>5. Taken = input.length
  <2>1. /\ extents = <<>> /\ Begun \in 0..Len(Order) /\ Taken = EndOf(Begun)
    BY <1>1, <1>2 DEF ExtentsInv, InFile, InExtent
  <2>2. Len(Order) \in Nat /\ EndOf(Len(Order)) = input.length
    BY <1>3, OrderFacts, ValidOrder
  <2>3. Begun = Len(Order) BY <2>1, <2>2 DEF Begun
  <2> QED BY <2>1, <2>2, <2>3
<1>6. /\ buffer \in Seq(Byte) /\ Len(buffer) \in Nat
      /\ Len(buffer) < TargetSlotSize /\ DOMAIN buffer = 1..Len(buffer)
      /\ logical_offset \in Nat /\ Len(published) \in Nat
      /\ TargetSlotSize \in Nat /\ TargetSlotSize > 0
  BY <1>1, TapeFacts, LenProperties DEF FileTypeOK
<1>7. /\ logical_offset = TargetSlotSize * Len(published)
      /\ OnTape(input) =>
           \A i \in DOMAIN buffer :
             buffer[i] = FileByte(input, logical_offset + i - 1)
      /\ logical_offset + Len(buffer) = input.length
  BY <1>1, <1>2, <1>5 DEF BufferInv, InFile, Taken
<1>8. buffer' \in Seq(Byte) /\ Len(buffer') < TargetSlotSize
  BY <1>2, <1>6, EmptySeq
<1>9. CASE /\ pc' = "eof" /\ result' = result
           /\ SlotsExact' /\ logical_offset' = input.length
           /\ published' \in Seq([offset : Nat, bytes : Seq(Byte), eof : BOOLEAN])
           /\ TargetSlotSize * Len(published') >= input.length
  <2>1. FileTypeOK' BY <1>1, <1>2, <1>3, <1>8, <1>9 DEF FileTypeOK, States
  <2>2. AcceptedInv' BY <1>1, <1>2, <1>4, <1>9 DEF AcceptedInv
  <2>3. ExtentsInv' BY <1>9 DEF ExtentsInv, InFile, InExtent
  <2>4. HeadInv' /\ RecordInv' BY <1>9 DEF HeadInv, RecordInv, Taking
  <2>5. PlaceInv' BY <1>9 DEF PlaceInv, InExtent
  <2>6. BufferInv' BY <1>2, <1>9 DEF BufferInv, InFile, InExtent
  <2> QED BY <1>9, <2>1, <2>2, <2>3, <2>4, <2>5, <2>6 DEF FileIInv
<1>10. CASE /\ buffer = <<>> /\ pc' = "eof" /\ result' = result
            /\ UNCHANGED <<published, logical_offset>>
  <2>1. logical_offset = input.length BY <1>6, <1>7, <1>10, EmptySeq
  <2>2. SlotsExact' BY <1>1, <1>2, <1>10, SlotsStay
  <2>3. TargetSlotSize * Len(published') >= input.length
        /\ logical_offset' = input.length
    BY <1>6, <1>7, <1>10, <2>1
  <2>4. published' \in Seq([offset : Nat, bytes : Seq(Byte), eof : BOOLEAN])
    BY <1>1, <1>10 DEF FileTypeOK
  <2> QED BY <1>9, <1>10, <2>2, <2>3, <2>4
<1>11. CASE /\ buffer # <<>> /\ pc' = "eof" /\ result' = result
            /\ Publish(buffer, FALSE)
  <2>1. Len(buffer) > 0 BY <1>6, <1>11, EmptySeq
  <2>2. /\ logical_offset = MinOf(TargetSlotSize * Len(published), input.length)
        /\ Len(buffer) = MinOf(TargetSlotSize, input.length - logical_offset)
        /\ FALSE <=> logical_offset = input.length
    <3>1. /\ logical_offset < input.length
          /\ input.length - logical_offset = Len(buffer)
          /\ TargetSlotSize * Len(published) = logical_offset
      BY <1>3, <1>6, <1>7, <2>1
    <3>2. logical_offset = MinOf(logical_offset, input.length)
      BY <3>1, <1>3, <1>6 DEF MinOf
    <3>3. Len(buffer) = MinOf(TargetSlotSize, input.length - logical_offset)
      <4>1. MinOf(TargetSlotSize, Len(buffer)) = Len(buffer)
        <5>1. /\ Len(buffer) \in Nat /\ TargetSlotSize \in Nat
              /\ ~ (TargetSlotSize <= Len(buffer))
          BY <1>6
        <5> QED BY <5>1 DEF MinOf
      <4> QED BY <3>1, <4>1
    <3>4. logical_offset # input.length BY <3>1, <1>3, <1>6
    <3> QED BY <3>1, <3>2, <3>3, <3>4
  <2>3. /\ SlotsExact' /\ logical_offset' = logical_offset + Len(buffer)
        /\ published' \in Seq([offset : Nat, bytes : Seq(Byte), eof : BOOLEAN])
        /\ Len(published') = Len(published) + 1
    BY <1>1, <1>2, <1>3, <1>6, <1>7, <1>11, <2>2, PublishExact
  <2>4. TargetSlotSize * Len(published') >= input.length
    <3>1. TargetSlotSize * (Len(published) + 1) =
            TargetSlotSize * Len(published) + TargetSlotSize
      BY <1>6
    <3> QED BY <3>1, <1>3, <1>6, <1>7, <2>3
  <2> QED BY <1>7, <1>9, <1>11, <2>3, <2>4
<1>12. CASE PublishFails
  <2>1. /\ UNCHANGED <<published, logical_offset>> /\ pc' = "ended"
        /\ result' \in {"cancelled", "error"}
    BY <1>12 DEF PublishFails, Ends
  <2>2. FileTypeOK' BY <1>1, <1>2, <1>8, <2>1 DEF FileTypeOK, States, Results
  <2> QED BY <1>2, <1>12, <2>2, PublishFailsKeeps
<1> QED BY <1>10, <1>11, <1>12 DEF PublishTail, Goes

LEMMA PublishEofKeeps == ASSUME FileIInv, PublishEof PROVE FileIInv'
<1>1. /\ FileTypeOK /\ AcceptedInv /\ SlotsExact /\ BufferInv
  BY DEF FileIInv
<1>2. /\ pc = "eof"
      /\ UNCHANGED <<input, extents, remaining, byte_offset, physical_block,
                     locate, attempt, head, record, buffer, cancel_event>>
  BY DEF PublishEof, extentVars, driveVars
<1>3. input \in Inputs /\ Valid(Order, input.length) /\ input.length \in Nat
  BY <1>1, <1>2, OrderFacts DEF FileTypeOK, AcceptedInv
<1>4. /\ logical_offset = input.length
      /\ TargetSlotSize * Len(published) >= input.length
  BY <1>1, <1>2 DEF BufferInv
<1>5. CASE Publish(<<>>, TRUE) /\ pc' = "ended" /\ result' = "ok"
  <2>1. <<>> \in Seq(Byte) /\ Len(<<>>) = 0 /\ DOMAIN <<>> = {}
    BY EmptySeq
  <2>2. /\ Len(published) \in Nat /\ TargetSlotSize \in Nat /\ TargetSlotSize > 0
        /\ TargetSlotSize * Len(published) \in Nat
    BY <1>1, TapeFacts, LenProperties DEF FileTypeOK
  <2>3. /\ logical_offset = MinOf(TargetSlotSize * Len(published), input.length)
        /\ Len(<<>>) = MinOf(TargetSlotSize, input.length - logical_offset)
    BY <1>3, <1>4, <2>1, <2>2 DEF MinOf
  <2>4. /\ SlotsExact' /\ logical_offset' = logical_offset + Len(<<>>)
        /\ published' \in Seq([offset : Nat, bytes : Seq(Byte), eof : BOOLEAN])
    BY <1>1, <1>2, <1>3, <1>4, <1>5, <2>1, <2>3, PublishExact
  <2>5. FileTypeOK'
    BY <1>1, <1>2, <1>3, <1>4, <1>5, <2>1, <2>4 DEF FileTypeOK, States, Results
  <2> QED BY <1>2, <1>3, <1>5, <2>4, <2>5, EndedKeeps
<1>6. CASE PublishFails
  <2>1. /\ UNCHANGED <<published, logical_offset>> /\ pc' = "ended"
        /\ result' \in {"cancelled", "error"}
    BY <1>6 DEF PublishFails, Ends
  <2>2. FileTypeOK' BY <1>1, <1>2, <2>1 DEF FileTypeOK, States, Results
  <2> QED BY <1>2, <1>6, <2>2, PublishFailsKeeps
<1> QED BY <1>4, <1>5, <1>6 DEF PublishEof, Ends

(* A step that leaves everything but the cancellation alone.               *)
LEMMA CancelKeeps ==
  ASSUME FileIInv, cancel_event' \in BOOLEAN,
         UNCHANGED <<input, pc, result, extentVars, driveVars, outVars>>
  PROVE  FileIInv'
<1>1. UNCHANGED <<input, pc, result, extents, remaining, byte_offset,
                  physical_block, locate, attempt, head, record, buffer,
                  logical_offset, published>>
  BY DEF extentVars, driveVars, outVars
<1>2. /\ Order' = Order /\ OnTape(input)' = OnTape(input)
      /\ \A n : EndOf(n)' = EndOf(n)
  BY <1>1, InputStays
<1>3. Begun' = Begun /\ Taken' = Taken /\ InBlock' = InBlock /\ Required' = Required
  BY <1>1, <1>2 DEF Begun, Taken, InBlock, Required
<1>4. FileTypeOK' BY <1>1 DEF FileIInv, FileTypeOK
<1>5. AcceptedInv' BY <1>1, <1>2 DEF FileIInv, AcceptedInv
<1>6. ExtentsInv' BY <1>1, <1>2, <1>3 DEF FileIInv, ExtentsInv
<1>7. HeadInv' BY <1>1 DEF FileIInv, HeadInv
<1>8. RecordInv' BY <1>1, <1>3 DEF FileIInv, RecordInv
<1>9. PlaceInv' BY <1>1, <1>2, <1>3 DEF FileIInv, PlaceInv
<1>10. BufferInv' BY <1>1, <1>2, <1>3 DEF FileIInv, BufferInv
<1>11. SlotsExact' BY <1>1, <1>2 DEF FileIInv, SlotsExact
<1> QED BY <1>4, <1>5, <1>6, <1>7, <1>8, <1>9, <1>10, <1>11 DEF FileIInv

LEMMA FileInvariant == FileSpec => []FileIInv
<1>1. FileInit => FileIInv BY FileInitHolds
<1>2. FileIInv /\ [FileNext]_fileVars => FileIInv'
  <2> SUFFICES ASSUME FileIInv, [FileNext]_fileVars PROVE FileIInv' OBVIOUS
  <2>1. CASE Validate BY <2>1, ValidateKeeps
  <2>2. CASE StartExtent BY <2>2, StartExtentKeeps
  <2>3. CASE Attempt BY <2>3, AttemptKeeps
  <2>4. CASE Locate BY <2>4, LocateKeeps
  <2>5. CASE Read BY <2>5, ReadKeeps
  <2>6. CASE AttemptFails BY <2>6, AttemptFailsKeeps
  <2>7. CASE Prompt BY <2>7, PromptKeeps
  <2>8. CASE CheckRecord BY <2>8, CheckRecordKeeps
  <2>9. CASE Copy BY <2>9, CopyKeeps
  <2>10. CASE Advance BY <2>10, AdvanceKeeps
  <2>11. CASE PublishTail BY <2>11, PublishTailKeeps
  <2>12. CASE PublishEof BY <2>12, PublishEofKeeps
  <2>13. CASE Cancel BY <2>13, CancelKeeps DEF Cancel
  <2>14. CASE UNCHANGED fileVars
    BY <2>14, CancelKeeps DEF fileVars, FileIInv, FileTypeOK
  <2> QED
    BY <2>1, <2>2, <2>3, <2>4, <2>5, <2>6, <2>7, <2>8, <2>9, <2>10, <2>11,
       <2>12, <2>13, <2>14 DEF FileNext, StreamFile
<1> QED BY <1>1, <1>2, PTL DEF FileSpec

(* lfr_bridge_stream_tape_file keeps its variables in their types.         *)
THEOREM FileTypeCorrect == FileSpec => []FileTypeOK
<1>1. FileIInv => FileTypeOK BY DEF FileIInv
<1> QED BY <1>1, FileInvariant, PTL

(* Whatever extents a manifest lists, in whatever order, a file is refused *)
(* as invalid exactly if they do not cover every byte of it once.          *)
THEOREM AcceptsCovering == FileSpec => []AcceptsExactly
<1>1. FileIInv => AcceptsExactly
  <2> SUFFICES ASSUME FileIInv, pc # "validate"
               PROVE  result = "invalid" <=> ~Covers(input)
    BY DEF AcceptsExactly
  <2>1. input \in Inputs BY DEF FileIInv, FileTypeOK
  <2>2. result = "invalid" <=> ~Valid(Order, input.length)
    BY DEF FileIInv, AcceptedInv
  <2>3. Valid(Order, input.length) <=> Covers(input)
    BY <2>1, ValidCovers, CoversValid DEF Order
  <2> QED BY <2>2, <2>3
<1> QED BY <1>1, FileInvariant, PTL

(* For every block size, slot size, tape and list of extents, however the  *)
(* head moves and whatever is retried, the slots are the file's bytes in   *)
(* order, cut at multiples of the slot size.                               *)
THEOREM SlotsAreTheFile == FileSpec => []SlotsExact
<1>1. FileIInv => SlotsExact BY DEF FileIInv
<1> QED BY <1>1, FileInvariant, PTL
=============================================================================
