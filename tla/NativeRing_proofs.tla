-------------------------- MODULE NativeRing_proofs --------------------------
(***************************************************************************)
(* Proofs about NativeRing for every catalogue of files, every slot size,  *)
(* chunk size and number of slots that lfr_create accepts.                 *)
(*                                                                         *)
(* The inductive invariant IInv joins the ring accounting (which slot each *)
(* position between read_index and write_index occupies), the part of the  *)
(* file the worker still has to publish, the token the consumer holds and  *)
(* the sleep conditions.  It says which slot each position occupies.  In   *)
(* the second part SInv adds which item of the stream the slot holds, how  *)
(* the worker's place in its file continues the ring, and what the worker  *)
(* has hashed there: with it NativeRing implements FileStream, and the     *)
(* hashes of a file are there before its end.                              *)
(***************************************************************************)
EXTENDS NativeRing, TLAPS

(* Division: what every ring of slots rests on.                            *)

(* Division with remainder.                                                *)
LEMMA DivMod ==
  ASSUME NEW n \in Nat \ {0}, NEW i \in Nat
  PROVE  /\ i % n \in 0..n-1
         /\ i = n * (i \div n) + (i % n)
         /\ i \div n \in Nat
OBVIOUS

LEMMA MulMono ==
  ASSUME NEW n \in Nat, NEW a \in Nat, NEW b \in Nat, a <= b
  PROVE  n * a <= n * b
OBVIOUS

(* Different multiples of n are at least n apart.                          *)
LEMMA MulGap ==
  ASSUME NEW n \in Nat \ {0}, NEW a \in Nat, NEW b \in Nat, a < b
  PROVE  n * b - n * a >= n
<1>1. b >= a + 1 OBVIOUS
<1>2. n * b >= n * (a + 1) BY <1>1, MulMono
<1>3. n * (a + 1) = n * a + n OBVIOUS
<1> QED BY <1>2, <1>3

(* Positions less than one turn apart use different slots of a ring.       *)
LEMMA ModUnique ==
  ASSUME NEW n \in Nat \ {0}, NEW i \in Nat, NEW j \in Nat,
         i - j < n, j - i < n, i % n = j % n
  PROVE  i = j
<1>1. PICK a \in Nat : i = n * a + (i % n) /\ (i % n) \in Nat
  <2>1. i % n \in 0..n-1 /\ 0..n-1 \subseteq Nat BY DivMod
  <2>2. i = n * (i \div n) + (i % n) /\ i \div n \in Nat BY DivMod
  <2> QED BY <2>1, <2>2, Zenon
<1>2. PICK b \in Nat : j = n * b + (j % n) /\ (j % n) \in Nat
  <2>1. j % n \in 0..n-1 /\ 0..n-1 \subseteq Nat BY DivMod
  <2>2. j = n * (j \div n) + (j % n) /\ j \div n \in Nat BY DivMod
  <2> QED BY <2>1, <2>2, Zenon
<1>3. n * a \in Nat /\ n * b \in Nat BY <1>1, <1>2
<1>4. j - i = n * b - n * a BY <1>1, <1>2, <1>3
<1>5. CASE a < b
  <2>1. n * b - n * a >= n BY <1>5, <1>1, <1>2, MulGap
  <2> QED BY <2>1, <1>4
<1>6. CASE b < a
  <2>1. n * a - n * b >= n BY <1>6, <1>1, <1>2, MulGap
  <2> QED BY <2>1, <1>4, <1>3
<1>7. CASE a = b BY <1>7, <1>1, <1>2
<1> QED BY <1>5, <1>6, <1>7, <1>1, <1>2

(* The remainder is unique, so a whole turn leads back to the same slot.   *)
LEMMA ModTurn ==
  ASSUME NEW n \in Nat \ {0}, NEW i \in Nat
  PROVE  (i + n) % n = i % n
<1>1. PICK a \in Nat, r \in 0..n-1 : i = n * a + r /\ r = i % n
  BY DivMod
<1>2. i + n \in Nat OBVIOUS
<1>3. PICK b \in Nat, s \in 0..n-1 : i + n = n * b + s /\ s = (i + n) % n
  BY <1>2, DivMod
<1>4. n * a \in Nat /\ n * b \in Nat /\ n * (a + 1) = n * a + n OBVIOUS
<1>5. n * b + s = n * (a + 1) + r BY <1>1, <1>3, <1>4
<1>6. CASE b < a + 1
  <2>1. n * (a + 1) - n * b >= n BY <1>6, MulGap
  <2> QED BY <2>1, <1>5, <1>4
<1>7. CASE a + 1 < b
  <2>1. n * b - n * (a + 1) >= n BY <1>7, MulGap
  <2> QED BY <2>1, <1>5, <1>4
<1>8. CASE b = a + 1
  <2>1. s = r BY <1>8, <1>5, <1>4
  <2> QED BY <2>1, <1>1, <1>3
<1> QED BY <1>6, <1>7, <1>8

(* One piece less than a division by b rounded up does not cover a.        *)
LEMMA CeilDivBound ==
  ASSUME NEW a \in Nat \ {0}, NEW b \in Nat \ {0}
  PROVE  /\ (a + b - 1) \div b \in Nat \ {0}
         /\ b * ((a + b - 1) \div b) < a + b
<1>1. a + b - 1 \in Nat OBVIOUS
<1>2. PICK q \in Nat, r \in 0..b-1 :
        a + b - 1 = b * q + r /\ q = (a + b - 1) \div b
  BY <1>1, DivMod
<1>3. b * q \in Nat BY <1>2
<1>4. b * q < a + b BY <1>2, <1>3
<1>5. q # 0
  <2> SUFFICES ASSUME q = 0 PROVE FALSE OBVIOUS
  <2>1. b * q = 0 OBVIOUS
  <2> QED BY <2>1, <1>2
<1> QED BY <1>2, <1>4, <1>5

-----------------------------------------------------------------------------
(* TypeOK without the bound of occupied_slots, which follows from RingInv. *)
Positions == read_index..write_index - 1

RingInv ==
  /\ read_index <= write_index
  /\ occupied_slots = write_index - read_index
  /\ \A k \in Index : slots[k].full => \E i \in Positions : i % SlotCount = k
  /\ \A i \in Positions :
        slots[i % SlotCount].full /\ slots[i % SlotCount].token = i + 1

WorkerInv ==
  /\ ~started => worker = "unstarted"
  /\ worker \in {"read", "publish", "finish", "eof"}
       => /\ file \in Files
          /\ offset <= chunk_end /\ chunk_end <= FileLen[file]
  /\ worker = "read" => offset = chunk_end /\ (Small(file) => offset = 0)
  /\ worker = "publish"
       => offset < chunk_end /\ (Small(file) => chunk_end = FileLen[file])

HoldInv ==
  /\ consumer = "hold" => held = read_index + 1 /\ read_index < write_index
  /\ consumer # "hold" => held <= read_index

IInv == TypeOK /\ RingInv /\ WorkerInv /\ HoldInv /\ SleepersMustWait

-----------------------------------------------------------------------------
LEMMA ConstFacts ==
  /\ SlotSize \in Nat \ {0} /\ SlotCount \in Nat \ {0} /\ SlotCount >= 2
  /\ ReadChunk \in Nat
  /\ Len(FileLen) \in Nat /\ Files = 1..Len(FileLen)
  /\ \A f \in Files : FileLen[f] \in Nat
  /\ RefillTargets \subseteq Nat
  /\ Index = 0..(SlotCount - 1)
<1>1. FileLen \in Seq(Nat) BY RingAssumption
<1>2. SlotCount * SlotSize \in Nat BY RingAssumption
<1> QED BY <1>1, <1>2, RingAssumption DEF Files, Stream!Files, Index

(* The next selected file is a file of the catalogue or just past it.      *)
LEMMA NextFileType ==
  ASSUME NEW sel, sel \subseteq Files, NEW f
  PROVE  Stream!NextFile(sel, f) \in 1..Len(FileLen) + 1
<1>1. CASE \E g \in sel : Stream!IsNextFile(sel, f, g)
  <2>1. Stream!NextFile(sel, f) \in sel BY <1>1 DEF Stream!NextFile
  <2>2. Stream!NextFile(sel, f) \in Files BY <2>1
  <2>3. Files = 1..Len(FileLen) /\ Len(FileLen) \in Nat BY ConstFacts
  <2> HIDE DEF Files
  <2> QED BY <2>2, <2>3
<1>2. CASE ~ \E g \in sel : Stream!IsNextFile(sel, f, g)
  BY <1>2, ConstFacts DEF Stream!NextFile
<1> QED BY <1>1, <1>2

(* The ring has one slot per position: a full slot of the ring belongs to  *)
(* a position between read_index and write_index, and the next position    *)
(* falls on a free slot exactly when the ring is not full.                 *)
LEMMA NextSlotFull ==
  ASSUME TypeOK, RingInv
  PROVE  /\ read_index % SlotCount \in Index
         /\ NextSlot.full => read_index < write_index
         /\ read_index < write_index
              => NextSlot.full /\ NextSlot.token = read_index + 1
<1>1. read_index \in Nat /\ write_index \in Nat BY DEF TypeOK
<1>2. read_index % SlotCount \in Index BY <1>1, DivMod, ConstFacts
<1>3. ASSUME NextSlot.full PROVE read_index < write_index
  <2>1. \E i \in Positions : i % SlotCount = read_index % SlotCount
    BY <1>2, <1>3 DEF RingInv, NextSlot
  <2> QED BY <2>1, <1>1 DEF Positions, RingInv
<1>4. ASSUME read_index < write_index
      PROVE NextSlot.full /\ NextSlot.token = read_index + 1
  <2>1. read_index \in Positions BY <1>1, <1>4 DEF Positions
  <2> QED BY <2>1 DEF RingInv, NextSlot
<1> QED BY <1>2, <1>3, <1>4

LEMMA WriteSlotFull ==
  ASSUME TypeOK, RingInv
  PROVE  /\ write_index % SlotCount \in Index
         /\ slots[write_index % SlotCount].full <=> occupied_slots = SlotCount
<1>1. /\ read_index \in Nat /\ write_index \in Nat /\ read_index <= write_index
      /\ occupied_slots = write_index - read_index
      /\ occupied_slots \in 0..SlotCount
  BY DEF TypeOK, RingInv
<1>2. write_index % SlotCount \in Index BY <1>1, DivMod, ConstFacts
<1>3. ASSUME slots[write_index % SlotCount].full
      PROVE  occupied_slots = SlotCount
  <2>1. PICK i \in Positions : i % SlotCount = write_index % SlotCount
    BY <1>2, <1>3 DEF RingInv
  <2>2. i \in Nat /\ i < write_index /\ read_index <= i
    BY <1>1 DEF Positions
  <2>3. ~(write_index - i < SlotCount)
    <3> SUFFICES ASSUME write_index - i < SlotCount PROVE FALSE OBVIOUS
    <3>1. i - write_index < SlotCount BY <2>2, <1>1, ConstFacts
    <3>2. SlotCount \in Nat \ {0} BY ConstFacts
    <3> HIDE DEF Positions
    <3>3. i = write_index BY <2>1, <2>2, <1>1, <3>1, <3>2, ModUnique
    <3> QED BY <3>3, <2>2
  <2> QED BY <2>2, <2>3, <1>1, ConstFacts
<1>4. ASSUME occupied_slots = SlotCount
      PROVE  slots[write_index % SlotCount].full
  <2>1. read_index \in Positions /\ write_index = read_index + SlotCount
    BY <1>1, <1>4, ConstFacts DEF Positions
  <2>2. write_index % SlotCount = read_index % SlotCount
    BY <2>1, <1>1, ConstFacts, ModTurn
  <2> QED BY <2>1, <2>2 DEF RingInv
<1> QED BY <1>2, <1>3, <1>4

-----------------------------------------------------------------------------
(* Publishing.  A batch uses no more slots than are free.                  *)
LEMMA BatchFits ==
  ASSUME IInv, worker = "publish", occupied_slots # SlotCount
  PROVE  /\ BatchSlots \in Nat \ {0}
         /\ BatchSlots <= SlotCount - occupied_slots
         /\ BatchBytes \in Nat
         /\ offset + BatchBytes <= chunk_end
         /\ \A t \in write_index + 1..write_index + BatchSlots :
              BatchSlot(t) \in Slot /\ BatchSlot(t).full /\ BatchSlot(t).token = t
<1> DEFINE left == chunk_end - offset
           pieces == CeilDiv(left, SlotSize)
<1>1. /\ offset \in Nat /\ chunk_end \in Nat /\ offset < chunk_end
      /\ file \in Files /\ write_index \in Nat
      /\ occupied_slots \in 0..SlotCount
  BY DEF IInv, TypeOK, WorkerInv
<1>2. SlotSize \in Nat \ {0} /\ SlotCount \in Nat BY ConstFacts
<1>3. left \in Nat \ {0} BY <1>1
<1>4. pieces \in Nat \ {0} /\ SlotSize * pieces < left + SlotSize
  <2> HIDE DEF left
  <2> QED BY <1>2, <1>3, CeilDivBound DEF CeilDiv
<1> HIDE DEF pieces
<1>5. BatchSlots = IF pieces <= SlotCount - occupied_slots
                   THEN pieces ELSE SlotCount - occupied_slots
  BY DEF BatchSlots, Stream!MinOf, pieces
<1>6. BatchSlots \in Nat \ {0} /\ BatchSlots <= SlotCount - occupied_slots
      /\ BatchSlots <= pieces
  BY <1>1, <1>2, <1>4, <1>5
<1>7. BatchBytes \in Nat /\ offset + BatchBytes <= chunk_end
  <2>1. BatchSlots * SlotSize \in Nat BY <1>6, <1>2
  <2> QED BY <2>1, <1>1 DEF BatchBytes, Stream!MinOf
<1>8. ASSUME NEW t \in write_index + 1..write_index + BatchSlots
      PROVE  BatchSlot(t) \in Slot /\ BatchSlot(t).full /\ BatchSlot(t).token = t
  <2> DEFINE b == t - write_index - 1
             start == offset + b * SlotSize
  <2>1. b \in Nat /\ b + 1 <= pieces /\ t \in Nat
    BY <1>1, <1>6, <1>4
  <2> HIDE DEF b
  <2>2. SlotSize * (b + 1) <= SlotSize * pieces
    BY <2>1, <1>2, <1>4, MulMono
  <2>3. SlotSize * (b + 1) = SlotSize * b + SlotSize /\ SlotSize * b \in Nat
        /\ SlotSize * b = b * SlotSize
    BY <2>1, <1>2
  <2>4. SlotSize * pieces \in Nat BY <1>2, <1>4
  <2>5. b * SlotSize < left /\ b * SlotSize \in Nat
    BY <2>2, <2>3, <2>4, <1>4, <1>3, <1>2
  <2>6. start \in Nat /\ start < chunk_end BY <2>5, <1>1
  <2> HIDE DEF start
  <2>7. Stream!MinOf(SlotSize, chunk_end - start) \in 0..SlotSize
    BY <2>6, <1>1, <1>2 DEF Stream!MinOf
  <2>8. BatchSlot(t) = [full |-> TRUE, token |-> t, file |-> file,
           offset |-> start, length |-> Stream!MinOf(SlotSize, chunk_end - start),
           eof |-> FALSE]
    BY DEF BatchSlot, start, b
  <2> QED BY <2>8, <2>7, <2>6, <2>1, <1>1 DEF Slot
<1> QED BY <1>6, <1>7, <1>8

LEMMA PublishBatchStep ==
  ASSUME IInv, PublishBatch
  PROVE  IInv'
<1> DEFINE n == BatchSlots
           tokens(k) == {t \in write_index + 1..write_index + n :
                           (t - 1) % SlotCount = k}
<1>1. /\ worker = "publish" /\ MayPublish /\ "worker" \notin asleep
      /\ occupied_slots # SlotCount
      /\ write_index' = write_index + n
      /\ buffered_bytes' = buffered_bytes + BatchBytes
      /\ occupied_slots' = occupied_slots + n
      /\ offset' = offset + BatchBytes
      /\ worker' = IF offset + BatchBytes < chunk_end THEN "publish"
                   ELSE IF chunk_end < FileLen[file] THEN "read" ELSE "finish"
      /\ asleep' = {}
      /\ UNCHANGED <<read_index, flagVars, file, chunk_end, hashed, WorkerSide>>
  BY DEF PublishBatch, WouldPublish, RingFull, NotifyAll, MayPublish
<1>2. slots' = [k \in Index |->
                  IF tokens(k) = {} THEN slots[k]
                  ELSE BatchSlot(CHOOSE t \in tokens(k) : TRUE)]
  BY DEF PublishBatch
<1>3. /\ n \in Nat \ {0} /\ n <= SlotCount - occupied_slots
      /\ BatchBytes \in Nat /\ offset + BatchBytes <= chunk_end
      /\ \A t \in write_index + 1..write_index + n :
           BatchSlot(t) \in Slot /\ BatchSlot(t).full /\ BatchSlot(t).token = t
  BY <1>1, BatchFits
<1> HIDE DEF n
<1>4. /\ read_index \in Nat /\ write_index \in Nat
      /\ occupied_slots \in 0..SlotCount /\ slots \in [Index -> Slot]
      /\ offset \in Nat /\ chunk_end \in Nat /\ buffered_bytes \in Nat
      /\ read_index <= write_index
      /\ occupied_slots = write_index - read_index
      /\ file \in Files /\ offset < chunk_end /\ chunk_end <= FileLen[file]
  BY <1>1 DEF IInv, TypeOK, RingInv, WorkerInv
<1>5. SlotCount \in Nat \ {0} /\ Index = 0..(SlotCount - 1)
      /\ FileLen[file] \in Nat
  BY <1>4, ConstFacts
<1>6. \A k \in Index : slots'[k] \in Slot
  <2> SUFFICES ASSUME NEW k \in Index PROVE slots'[k] \in Slot OBVIOUS
  <2>1. CASE tokens(k) = {} BY <2>1, <1>2, <1>4
  <2>2. CASE tokens(k) # {}
    <3>1. (CHOOSE t \in tokens(k) : TRUE) \in tokens(k) BY <2>2
    <3>2. slots'[k] = BatchSlot(CHOOSE t \in tokens(k) : TRUE) BY <2>2, <1>2
    <3> QED BY <3>1, <3>2, <1>3
  <2> QED BY <2>1, <2>2
<1>7. TypeOK'
  <2>1. slots' \in [Index -> Slot]
    <3> HIDE DEF tokens
    <3> QED BY <1>2, <1>6
  <2>2. /\ write_index' \in Nat /\ occupied_slots' \in 0..SlotCount
        /\ buffered_bytes' \in Nat /\ offset' \in Nat
    BY <1>1, <1>3, <1>4, <1>5
  <2> QED
    BY <2>1, <2>2, <1>1
    DEF IInv, TypeOK, flagVars, WorkerSide, consumerVars, WorkerStates
<1>8. RingInv'
  <2>1. read_index' <= write_index' /\ occupied_slots' = write_index' - read_index'
    BY <1>1, <1>3, <1>4
  <2>2. Positions' = read_index..write_index + n - 1
    BY <1>1, <1>3, <1>4 DEF Positions, consumerVars
  <2>3. ASSUME NEW k \in Index, slots'[k].full
        PROVE  \E i \in read_index..write_index + n - 1 : i % SlotCount = k
    <3>1. CASE tokens(k) = {}
      <4>1. slots[k].full BY <3>1, <2>3, <1>2
      <4>2. PICK i \in Positions : i % SlotCount = k
        BY <4>1 DEF IInv, RingInv
      <4>3. i \in read_index..write_index + n - 1
        BY <4>2, <1>3, <1>4 DEF Positions
      <4> QED BY <4>2, <4>3
    <3>2. CASE tokens(k) # {}
      <4>1. PICK t \in write_index + 1..write_index + n : (t - 1) % SlotCount = k
        BY <3>2
      <4>2. t - 1 \in read_index..write_index + n - 1
        BY <4>1, <1>3, <1>4
      <4> QED BY <4>1, <4>2
    <3> QED BY <3>1, <3>2
  <2>4. ASSUME NEW i \in read_index..write_index + n - 1
        PROVE  slots'[i % SlotCount].full /\ slots'[i % SlotCount].token = i + 1
    <3> DEFINE k == i % SlotCount
    <3>0. i \in Nat /\ read_index <= i /\ i < write_index + n
      BY <2>4, <1>3, <1>4
    <3>1. i \in Nat /\ k \in Index /\ read_index <= i /\ i < write_index + n
      BY <3>0, <1>5, DivMod
    <3>2. ASSUME NEW t \in tokens(k) PROVE t = i + 1
      <4>1. t \in Nat /\ t - 1 \in Nat /\ write_index <= t - 1
            /\ t - 1 < write_index + n /\ (t - 1) % SlotCount = i % SlotCount
        BY <3>2, <1>3, <1>4
      <4>2. i - (t - 1) < SlotCount /\ (t - 1) - i < SlotCount
        BY <4>1, <3>1, <1>3, <1>4, <1>5
      <4> HIDE DEF tokens, k
      <4>3. i = t - 1 BY <4>1, <4>2, <3>1, <1>5, ModUnique
      <4> QED BY <4>3, <4>1
    <3>3. CASE tokens(k) = {}
      <4>1. i < write_index
        <5> SUFFICES ASSUME write_index <= i PROVE FALSE BY <3>1, <1>4
        <5>1. i + 1 \in write_index + 1..write_index + n /\ (i + 1) - 1 = i
          BY <3>1, <1>3, <1>4
        <5>2. i + 1 \in tokens(k) BY <5>1
        <5> QED BY <5>2, <3>3
      <4>2. i \in Positions BY <4>1, <3>1, <1>4 DEF Positions
      <4>3. slots[k].full /\ slots[k].token = i + 1
        BY <4>2 DEF IInv, RingInv
      <4> QED BY <4>3, <3>3, <3>1, <1>2
    <3>4. CASE tokens(k) # {}
      <4>1. (CHOOSE t \in tokens(k) : TRUE) \in tokens(k) BY <3>4
      <4>2. slots'[k] = BatchSlot(CHOOSE t \in tokens(k) : TRUE)
        BY <3>4, <3>1, <1>2
      <4>3. (CHOOSE t \in tokens(k) : TRUE) = i + 1 BY <4>1, <3>2
      <4>4. i + 1 \in write_index + 1..write_index + n BY <4>1, <4>3
      <4> HIDE DEF tokens, k
      <4>5. slots'[k] = BatchSlot(i + 1) BY <4>2, <4>3
      <4> QED BY <4>5, <4>4, <1>3 DEF k
    <3> QED BY <3>3, <3>4
  <2> QED BY <2>1, <2>2, <2>3, <2>4, <1>1 DEF RingInv
<1>9. WorkerInv'
  BY <1>1, <1>3, <1>4, <1>5
  DEF IInv, WorkerInv, flagVars, WorkerSide, Small, Files, Stream!Files
<1>10. HoldInv'
  BY <1>1, <1>3, <1>4 DEF IInv, HoldInv, WorkerSide, consumerVars
<1>11. SleepersMustWait' BY <1>1 DEF SleepersMustWait
<1> QED BY <1>7, <1>8, <1>9, <1>10, <1>11 DEF IInv

LEMMA PublishEofStep ==
  ASSUME IInv, PublishEof
  PROVE  IInv'
<1> DEFINE w == write_index % SlotCount
           eof == [full |-> TRUE, token |-> write_index + 1, file |-> file,
                   offset |-> FileLen[file], length |-> 0, eof |-> TRUE]
<1>1. /\ worker = "eof" /\ ~slots[w].full
      /\ slots' = [slots EXCEPT ![w] = eof]
      /\ write_index' = write_index + 1 /\ occupied_slots' = occupied_slots + 1
      /\ worker' = "start" /\ file' = NextFile(file) /\ asleep' = {}
      /\ UNCHANGED <<read_index, buffered_bytes, flagVars, offset, chunk_end,
                     hashed, WorkerSide>>
  BY DEF PublishEof, WouldPublish, RingFull, NotifyAll
<1>2. /\ read_index \in Nat /\ write_index \in Nat
      /\ occupied_slots \in 0..SlotCount /\ slots \in [Index -> Slot]
      /\ read_index <= write_index
      /\ occupied_slots = write_index - read_index
      /\ file \in Files /\ selected \subseteq Files
  BY <1>1 DEF IInv, TypeOK, RingInv, WorkerInv
<1>3. SlotCount \in Nat \ {0} /\ SlotSize \in Nat /\ FileLen[file] \in Nat
      /\ Len(FileLen) \in Nat
  BY <1>2, ConstFacts
<1>4. w \in Index /\ occupied_slots # SlotCount
  BY <1>1, WriteSlotFull DEF IInv
<1>5. eof \in Slot BY <1>2, <1>3 DEF Slot
<1>6. NextFile(file) \in 0..Len(FileLen) + 1
  <2>1. NextFile(file) \in 1..Len(FileLen) + 1
    BY <1>2, NextFileType DEF NextFile
  <2> QED BY <2>1, <1>3
<1> HIDE DEF w
<1>7. TypeOK'
  <2>1. slots' \in [Index -> Slot]
    <3> HIDE DEF eof
    <3> QED BY <1>1, <1>2, <1>5
  <2>2. write_index' \in Nat /\ occupied_slots' \in 0..SlotCount
    BY <1>1, <1>2, <1>3, <1>4
  <2> QED
    BY <2>1, <2>2, <1>1, <1>6
    DEF IInv, TypeOK, flagVars, WorkerSide, consumerVars, WorkerStates
<1>8. RingInv'
  <2>1. read_index' <= write_index' /\ occupied_slots' = write_index' - read_index'
    BY <1>1, <1>2
  <2>2. Positions' = read_index..write_index BY <1>1, <1>2 DEF Positions
  <2>3. ASSUME NEW k \in Index, slots'[k].full
        PROVE  \E i \in read_index..write_index : i % SlotCount = k
    <3>1. CASE k = w BY <3>1, <1>2 DEF w
    <3>2. CASE k # w
      <4>1. slots[k].full BY <3>2, <2>3, <1>1, <1>2
      <4>2. PICK i \in Positions : i % SlotCount = k
        BY <4>1 DEF IInv, RingInv
      <4> QED BY <4>2, <1>2 DEF Positions
    <3> QED BY <3>1, <3>2
  <2>4. ASSUME NEW i \in read_index..write_index
        PROVE  slots'[i % SlotCount].full /\ slots'[i % SlotCount].token = i + 1
    <3>1. CASE i = write_index
      <4>1. slots'[w] = eof BY <1>1, <1>2, <1>4
      <4> QED BY <4>1, <3>1 DEF w
    <3>2. CASE i # write_index
      <4>1. i \in Positions /\ i \in Nat BY <3>2, <1>2 DEF Positions
      <4>2. slots[i % SlotCount].full /\ slots[i % SlotCount].token = i + 1
        BY <4>1 DEF IInv, RingInv
      <4>3. i % SlotCount # w BY <4>2, <1>1
      <4>4. i % SlotCount \in Index BY <4>1, <1>3, DivMod, ConstFacts
      <4> QED BY <4>2, <4>3, <4>4, <1>1, <1>2
    <3> QED BY <3>1, <3>2
  <2> QED BY <2>1, <2>2, <2>3, <2>4, <1>1 DEF RingInv
<1>9. WorkerInv'
  BY <1>1 DEF IInv, WorkerInv, flagVars, WorkerSide
<1>10. HoldInv'
  BY <1>1, <1>2 DEF IInv, HoldInv, WorkerSide, consumerVars
<1>11. SleepersMustWait' BY <1>1 DEF SleepersMustWait
<1> QED BY <1>7, <1>8, <1>9, <1>10, <1>11 DEF IInv

-----------------------------------------------------------------------------
(* Consuming.  Only the slot the consumer holds can be released.           *)

LEMMA ReleaseOnlyHeld ==
  ASSUME IInv, ReleaseHeld
  PROVE  /\ consumer = "hold" /\ held = read_index + 1
         /\ read_index < write_index
<1>1. /\ NextSlot.full /\ NextSlot.token = held
      /\ consumer \in {"hold", "idle"}
  BY DEF ReleaseHeld, ReleaseSlot, TokenMatches
<1>2. read_index \in Nat /\ held \in Nat BY DEF IInv, TypeOK
<1>3. read_index < write_index /\ held = read_index + 1
  BY <1>1, NextSlotFull DEF IInv
<1> QED BY <1>1, <1>2, <1>3 DEF IInv, HoldInv

LEMMA ReleaseHeldStep ==
  ASSUME IInv, ReleaseHeld
  PROVE  IInv'
<1> DEFINE r == read_index % SlotCount
<1>1. consumer = "hold" /\ held = read_index + 1 /\ read_index < write_index
  BY ReleaseOnlyHeld
<1>2. /\ slots' = [slots EXCEPT ![r] =
                     [@ EXCEPT !.full = FALSE, !.length = 0, !.eof = FALSE]]
      /\ read_index' = read_index + 1
      /\ buffered_bytes' = IF slots[r].length <= buffered_bytes
                           THEN buffered_bytes - slots[r].length ELSE 0
      /\ occupied_slots' = IF occupied_slots > 0 THEN occupied_slots - 1 ELSE 0
      /\ last' = [file |-> slots[r].file, offset |-> slots[r].offset,
                  length |-> slots[r].length, eof |-> slots[r].eof]
      /\ consumer' = "idle" /\ asleep' = {}
      /\ UNCHANGED <<write_index, held, target, ending, ConsumerSide>>
  BY <1>1 DEF ReleaseHeld, ReleaseSlot, NotifyAll, NextSlot
<1>3. /\ read_index \in Nat /\ write_index \in Nat
      /\ occupied_slots \in 0..SlotCount /\ slots \in [Index -> Slot]
      /\ buffered_bytes \in Nat
      /\ occupied_slots = write_index - read_index
  BY DEF IInv, TypeOK, RingInv
<1>4. SlotCount \in Nat \ {0} /\ SlotSize \in Nat /\ Len(FileLen) \in Nat
      /\ Files = 1..Len(FileLen)
  BY ConstFacts
<1>5. r \in Index BY NextSlotFull DEF IInv
<1>6. slots[r] \in Slot BY <1>3, <1>5
<1> HIDE DEF r
<1>7. TypeOK'
  <2>1. slots' \in [Index -> Slot]
    <3>1. [slots[r] EXCEPT !.full = FALSE, !.length = 0, !.eof = FALSE] \in Slot
      <4>1. 0 \in 0..SlotSize BY <1>4
      <4>2. ASSUME NEW s \in Slot
            PROVE  [s EXCEPT !.full = FALSE, !.length = 0, !.eof = FALSE] \in Slot
        <5>1. [s EXCEPT !.full = FALSE] \in Slot BY DEF Slot
        <5>2. [s EXCEPT !.full = FALSE, !.length = 0] \in Slot
          BY <4>1, <5>1 DEF Slot
        <5> QED BY <5>2 DEF Slot
      <4> QED BY <4>2, <1>6
    <3> QED BY <3>1, <1>2, <1>3
  <2>2. last' \in Stream!Item
    <3>1. slots[r].file \in Nat /\ slots[r].offset \in Nat
          /\ slots[r].length \in Nat /\ slots[r].eof \in BOOLEAN
      BY <1>6, <1>4 DEF Slot
    <3> QED BY <3>1, <1>2 DEF Stream!Item
  <2>3. read_index' \in Nat /\ occupied_slots' \in 0..SlotCount
    BY <1>2, <1>3, <1>4
  <2>4. buffered_bytes' \in Nat
    <3>1. slots[r].length \in Nat BY <1>6, <1>4 DEF Slot
    <3> QED BY <3>1, <1>2, <1>3
  <2>5. IInv BY DEF IInv
  <2> QED
    BY <2>1, <2>2, <2>3, <2>4, <2>5, <1>2
    DEF IInv, TypeOK, flagVars, ConsumerSide, workerVars, ConsumerStates
<1>8. RingInv'
  <2>1. read_index' <= write_index' /\ occupied_slots' = write_index' - read_index'
    BY <1>1, <1>2, <1>3
  <2>2. Positions' = read_index + 1..write_index - 1 BY <1>2 DEF Positions
  <2>3. ASSUME NEW k \in Index, slots'[k].full
        PROVE  \E i \in read_index + 1..write_index - 1 : i % SlotCount = k
    <3>1. k # r BY <2>3, <1>2, <1>3, <1>6 DEF Slot
    <3>2. slots[k].full BY <3>1, <2>3, <1>2, <1>3
    <3>3. PICK i \in Positions : i % SlotCount = k
      BY <3>2 DEF IInv, RingInv
    <3>4. i # read_index BY <3>1, <3>3 DEF r
    <3>5. i \in read_index + 1..write_index - 1
      BY <3>3, <3>4, <1>3 DEF Positions
    <3> QED BY <3>3, <3>5
  <2>4. ASSUME NEW i \in read_index + 1..write_index - 1
        PROVE  slots'[i % SlotCount].full /\ slots'[i % SlotCount].token = i + 1
    <3>1. i \in Positions /\ i \in Nat /\ i # read_index
          /\ i - read_index < SlotCount /\ read_index - i < SlotCount
      BY <1>3, <1>4 DEF Positions
    <3>2. slots[i % SlotCount].full /\ slots[i % SlotCount].token = i + 1
      BY <3>1 DEF IInv, RingInv
    <3>3. i % SlotCount # r
      BY <3>1, <1>3, <1>4, ModUnique DEF r
    <3>4. i % SlotCount \in Index BY <3>1, <1>4, DivMod, ConstFacts
    <3> QED BY <3>2, <3>3, <3>4, <1>2, <1>3
  <2> QED BY <2>1, <2>2, <2>3, <2>4, <1>2 DEF RingInv
<1>9. WorkerInv'
  BY <1>2 DEF IInv, WorkerInv, flagVars, ConsumerSide, workerVars
<1>10. HoldInv' BY <1>1, <1>2, <1>3 DEF HoldInv
<1>11. SleepersMustWait' BY <1>2 DEF SleepersMustWait
<1> QED BY <1>7, <1>8, <1>9, <1>10, <1>11 DEF IInv

(* The other steps leave the ring alone.                                   *)

LEMMA RingUnchanged ==
  ASSUME IInv, UNCHANGED ringVars
  PROVE  RingInv'
BY DEF IInv, RingInv, ringVars, Positions

LEMMA WorkerStep ==
  ASSUME IInv, Worker, ~PublishBatch, ~PublishEof
  PROVE  IInv'
<1>0. UNCHANGED ringVars
  BY DEF Worker, CreatePool, StartFile, ReadNext, ReadFails, PublishStops,
         PublishWaits, FinishHashes, WorkerReports, WorkerExits
<1>1. RingInv' BY <1>0, RingUnchanged
<1>2. HoldInv'
  BY <1>0 DEF IInv, HoldInv, ringVars, Worker, CreatePool, StartFile, ReadNext,
     ReadFails, PublishStops, PublishWaits, FinishHashes, WorkerReports,
     WorkerExits, WorkerSide, consumerVars
<1>3. ASSUME CreatePool PROVE TypeOK' /\ WorkerInv' /\ SleepersMustWait'
  <2>1. TypeOK'
    BY <1>3
    DEF IInv, TypeOK, CreatePool, WorkerGoes, SetError, NotifyAll, WorkerSide, consumerVars, ringVars,
        flagVars, WorkerStates, Errors
  <2>2. WorkerInv'
    BY <1>3 DEF IInv, WorkerInv, CreatePool, WorkerGoes, SetError, NotifyAll, WorkerSide, flagVars
  <2>3. SleepersMustWait'
    BY <1>3
    DEF IInv, SleepersMustWait, CreatePool, WorkerGoes, SetError, NotifyAll, WorkerSide, consumerVars,
        ringVars, flagVars, NextSlot, Refilled
  <2> QED BY <2>1, <2>2, <2>3
<1>9. ASSUME ReadFails PROVE TypeOK' /\ WorkerInv' /\ SleepersMustWait'
  <2>1. TypeOK'
    BY <1>9
    DEF IInv, TypeOK, ReadFails, WorkerGoes, WorkerSide, consumerVars, ringVars,
        flagVars, WorkerStates, Errors
  <2>2. WorkerInv'
    BY <1>9 DEF IInv, WorkerInv, ReadFails, WorkerGoes, WorkerSide, flagVars
  <2>3. SleepersMustWait'
    BY <1>9
    DEF IInv, SleepersMustWait, ReadFails, WorkerGoes, WorkerSide, consumerVars,
        ringVars, flagVars, NextSlot, Refilled
  <2> QED BY <2>1, <2>2, <2>3
<1>10. ASSUME PublishStops PROVE TypeOK' /\ WorkerInv' /\ SleepersMustWait'
  <2>1. TypeOK'
    BY <1>10
    DEF IInv, TypeOK, PublishStops, WorkerGoes, WouldPublish, WorkerSide, consumerVars, ringVars,
        flagVars, WorkerStates, Errors
  <2>2. WorkerInv'
    BY <1>10 DEF IInv, WorkerInv, PublishStops, WorkerGoes, WouldPublish, WorkerSide, flagVars
  <2>3. SleepersMustWait'
    BY <1>10
    DEF IInv, SleepersMustWait, PublishStops, WorkerGoes, WouldPublish, WorkerSide, consumerVars,
        ringVars, flagVars, NextSlot, Refilled
  <2> QED BY <2>1, <2>2, <2>3
<1>11. ASSUME WorkerExits PROVE TypeOK' /\ WorkerInv' /\ SleepersMustWait'
  <2>1. TypeOK'
    BY <1>11
    DEF IInv, TypeOK, WorkerExits, WorkerGoes, WorkerSide, consumerVars, ringVars,
        flagVars, WorkerStates, Errors
  <2>2. WorkerInv'
    BY <1>11 DEF IInv, WorkerInv, WorkerExits, WorkerGoes, WorkerSide, flagVars
  <2>3. SleepersMustWait'
    BY <1>11
    DEF IInv, SleepersMustWait, WorkerExits, WorkerGoes, WorkerSide, consumerVars,
        ringVars, flagVars, NextSlot, Refilled
  <2> QED BY <2>1, <2>2, <2>3
<1>4. ASSUME StartFile PROVE TypeOK' /\ WorkerInv' /\ SleepersMustWait'
  <2>1. file \in Files => FileLen[file] \in Nat BY ConstFacts
  <2> QED
    BY <1>4, <2>1
    DEF IInv, TypeOK, WorkerInv, SleepersMustWait, StartFile, WorkerSide,
        consumerVars, ringVars, flagVars, WorkerStates, NextSlot, Refilled,
        RingFull, MayPublish
<1>5. ASSUME ReadNext PROVE TypeOK' /\ WorkerInv' /\ SleepersMustWait'
  <2>1. /\ file \in Files /\ offset = chunk_end /\ chunk_end <= FileLen[file]
        /\ Small(file) => offset = 0
        /\ offset \in Nat /\ hashed \in Nat /\ worker = "read"
    BY <1>5 DEF IInv, TypeOK, WorkerInv, ReadNext
  <2>2. FileLen[file] \in Nat /\ ReadChunk \in Nat BY <2>1, ConstFacts
  <2> DEFINE n == IF Small(file) THEN FileLen[file]
                  ELSE Stream!MinOf(ReadChunk, FileLen[file] - offset)
  <2>3. n \in Nat /\ offset + n <= FileLen[file]
        /\ (Small(file) => n = FileLen[file])
    BY <2>1, <2>2 DEF Stream!MinOf
  <2>4. /\ hashed' = hashed + n /\ chunk_end' = offset + n
        /\ worker' = IF n = 0 THEN "finish" ELSE "publish"
        /\ UNCHANGED <<ringVars, flagVars, results, cancel_event, asleep, file,
                       offset, watchdog, consumerVars, control>>
    BY <1>5 DEF ReadNext, HashedAfter
  <2> HIDE DEF n
  <2>5. TypeOK'
    BY <2>1, <2>3, <2>4
    DEF IInv, TypeOK, ringVars, flagVars, consumerVars, WorkerStates
  <2>6. WorkerInv'
    BY <2>1, <2>2, <2>3, <2>4 DEF IInv, TypeOK, WorkerInv, flagVars, Small
  <2>7. SleepersMustWait'
    BY <2>1, <2>4
    DEF IInv, SleepersMustWait, ringVars, flagVars, consumerVars, NextSlot,
        Refilled
  <2> QED BY <2>5, <2>6, <2>7
<1>6. ASSUME PublishWaits PROVE TypeOK' /\ WorkerInv' /\ SleepersMustWait'
  BY <1>6
  DEF IInv, TypeOK, WorkerInv, SleepersMustWait, PublishWaits, WouldPublish,
      WorkerSide, consumerVars, ringVars, flagVars, workerVars, NextSlot,
      Refilled, RingFull, MayPublish
<1>7. ASSUME FinishHashes PROVE TypeOK' /\ WorkerInv' /\ SleepersMustWait'
  <2>1. file \in Files /\ hashed \in Nat
    BY <1>7 DEF IInv, TypeOK, WorkerInv, FinishHashes
  <2>2. DOMAIN results' \subseteq Files
        /\ \A f \in DOMAIN results' : results'[f] \in Nat
    BY <1>7, <2>1 DEF IInv, TypeOK, FinishHashes
  <2> QED
    BY <1>7, <2>2
    DEF IInv, TypeOK, WorkerInv, SleepersMustWait, FinishHashes, WorkerGoes,
        NotifyAll, consumerVars, ringVars, flagVars, WorkerStates
<1>8. ASSUME WorkerReports PROVE TypeOK' /\ WorkerInv' /\ SleepersMustWait'
  BY <1>8
  DEF IInv, TypeOK, WorkerInv, SleepersMustWait, WorkerReports, WorkerGoes,
      SetError, NotifyAll, WorkerSide, consumerVars, ringVars, WorkerStates,
      Errors
<1> QED
  BY <1>1, <1>2, <1>3, <1>4, <1>5, <1>6, <1>7, <1>8, <1>9, <1>10, <1>11
  DEF Worker, IInv

LEMMA ConsumerStep ==
  ASSUME IInv, Consumer, ~ReleaseHeld
  PROVE  IInv'
<1>0. UNCHANGED ringVars
  BY DEF Consumer, CallAcquire, CallRefill, AcquireSlot, AcquireStops,
         AcquireWaits, RefillReturns, RefillWaits, WaitTimesOut
<1>1. RingInv' BY <1>0, RingUnchanged
<1>2. UNCHANGED <<flagVars, results, cancel_event, workerVars, watchdog, control>>
  BY DEF Consumer, CallAcquire, CallRefill, AcquireSlot, AcquireStops,
         AcquireWaits, RefillReturns, RefillWaits, WaitTimesOut, ConsumerSide
<1>3. WorkerInv' BY <1>2 DEF IInv, WorkerInv, flagVars, workerVars
<1>4. IInv /\ asleep \subseteq {"worker", "consumer"} BY DEF IInv, TypeOK
<1> DEFINE Goal == /\ TypeOK' /\ HoldInv'
                   /\ asleep' \subseteq {"worker", "consumer"}
                   /\ "worker" \in asleep' => "worker" \in asleep
                   /\ "consumer" \in asleep' =>
                        /\ consumer' \in {"acquire", "refill"}
                        /\ ~cancelled /\ error = "none" /\ ~done
                        /\ consumer' = "acquire" => ~NextSlot.full
                        /\ consumer' = "refill"
                             => ~Refilled /\ target' = target
<1>5. ASSUME CallAcquire PROVE Goal
  BY <1>5, <1>2, <1>4
  DEF CallAcquire, ConsumerGoes, IInv, TypeOK, HoldInv, SleepersMustWait,
      ringVars, flagVars, workerVars, ConsumerStates
<1>6. ASSUME NEW t \in RefillTargets, CallRefill(t) PROVE Goal
  <2>1. t \in Nat BY ConstFacts
  <2> QED
    BY <2>1, <1>6, <1>2, <1>4
    DEF CallRefill, IInv, TypeOK, HoldInv, SleepersMustWait,
        ringVars, flagVars, workerVars, ConsumerStates
<1>7. ASSUME NEW f \in Files \union {0}, AcquireSlot(f) PROVE Goal
  <2>1. read_index < write_index /\ NextSlot.token = read_index + 1
    BY <1>7, NextSlotFull DEF IInv, AcquireSlot
  <2>2. read_index \in Nat BY DEF IInv, TypeOK
  <2> QED
    BY <2>1, <2>2, <1>7, <1>2, <1>4
    DEF AcquireSlot, ConsumerEnds, IInv, TypeOK, HoldInv, SleepersMustWait,
        ringVars, flagVars, workerVars, ConsumerStates, Stream!Endings
<1>8. ASSUME AcquireStops PROVE Goal
  BY <1>8, <1>2, <1>4
  DEF AcquireStops, ConsumerEnds, StopReason, IInv, TypeOK, HoldInv,
      SleepersMustWait, ringVars, flagVars, workerVars, ConsumerStates,
      Stream!Endings
<1>9. ASSUME AcquireWaits PROVE Goal
  BY <1>9, <1>2, <1>4
  DEF AcquireWaits, IInv, TypeOK, HoldInv, ringVars, flagVars, workerVars,
      consumerVars
<1>10. ASSUME RefillReturns PROVE Goal
  BY <1>10, <1>2, <1>4
  DEF RefillReturns, ConsumerEnds, ConsumerGoes, StopReason, IInv, TypeOK,
      HoldInv, SleepersMustWait, ringVars, flagVars, workerVars,
      ConsumerStates, Stream!Endings
<1>11. ASSUME RefillWaits PROVE Goal
  <2>1. /\ consumer = "refill" /\ ~Refilled
        /\ ~cancelled /\ error = "none" /\ ~done
        /\ asleep' = asleep \union {"consumer"}
        /\ UNCHANGED consumerVars
    BY <1>11, Zenon DEF RefillWaits, Refilled
  <2>2. TypeOK'
    BY <2>1, <1>0, <1>2
    DEF IInv, TypeOK, ringVars, flagVars, workerVars, consumerVars
  <2>3. HoldInv'
    BY <2>1, <1>0 DEF IInv, HoldInv, ringVars, consumerVars
  <2>4. asleep' \subseteq {"worker", "consumer"}
    BY <2>1, <1>4
  <2>5. "worker" \in asleep' => "worker" \in asleep
    BY <2>1
  <2> QED
    BY <2>1, <2>2, <2>3, <2>4, <2>5 DEF consumerVars
<1>12. ASSUME WaitTimesOut PROVE Goal
  BY <1>12, <1>2, <1>4
  DEF WaitTimesOut, ConsumerGoes, IInv, TypeOK, HoldInv, SleepersMustWait,
      ringVars, flagVars, workerVars, ConsumerStates
<1>13. Goal
  BY <1>5, <1>6, <1>7, <1>8, <1>9, <1>10, <1>11, <1>12 DEF Consumer
<1>14. SleepersMustWait'
  BY <1>13, <1>0, <1>2, <1>4
  DEF IInv, SleepersMustWait, ringVars, flagVars, workerVars, RingFull,
      MayPublish, NextSlot, Refilled
<1> QED BY <1>1, <1>3, <1>13, <1>14 DEF IInv

LEMMA SetupStep ==
  ASSUME IInv, (\E f \in Files : SelectFile(f)) \/ StartReader
  PROVE  IInv'
<1>0. UNCHANGED ringVars BY DEF SelectFile, StartReader
<1>1. RingInv' BY <1>0, RingUnchanged
<1>2. ASSUME NEW f \in Files, SelectFile(f) PROVE IInv'
  <2>1. TypeOK'
    BY <1>2
    DEF SelectFile, IInv, TypeOK, ringVars, workerVars, consumerVars
  <2>2. WorkerInv' /\ HoldInv'
    BY <1>2
    DEF SelectFile, IInv, WorkerInv, HoldInv, ringVars, workerVars, consumerVars
  <2>3. SleepersMustWait'
    BY <1>2
    DEF SelectFile, IInv, SleepersMustWait, ringVars, workerVars, consumerVars,
        NextSlot, Refilled, RingFull, MayPublish
  <2> QED BY <1>1, <2>1, <2>2, <2>3 DEF IInv
<1>3. ASSUME StartReader PROVE IInv'
  <2>1. NextFile(0) \in 0..Len(FileLen) + 1
    <3>1. selected \subseteq Files BY DEF IInv, TypeOK
    <3>2. NextFile(0) \in 1..Len(FileLen) + 1
      BY <3>1, NextFileType DEF NextFile
    <3> QED BY <3>2, ConstFacts
  <2>2. TypeOK'
    BY <1>3, <2>1
    DEF StartReader, IInv, TypeOK, ringVars, consumerVars, WorkerStates,
        WatchdogStates
  <2>3. WorkerInv' /\ HoldInv'
    BY <1>3 DEF StartReader, IInv, WorkerInv, HoldInv, ringVars, consumerVars
  <2>4. worker = "unstarted" BY <1>3 DEF IInv, WorkerInv, StartReader
  <2>5. SleepersMustWait'
    BY <1>3, <2>4
    DEF StartReader, IInv, SleepersMustWait, ringVars, consumerVars,
        NextSlot, Refilled
  <2> QED BY <1>1, <2>2, <2>3, <2>5 DEF IInv
<1> QED BY <1>2, <1>3

LEMMA OtherStep ==
  ASSUME IInv, WatchdogLooks \/ WatchdogFails \/ HashFileFails \/ Control
  PROVE  IInv'
<1>0. UNCHANGED <<ringVars, workerVars, started>>
  BY DEF WatchdogLooks, WatchdogFails, HashFileFails, Control, CancelBegins,
         CancelEnds, DestroyBegins, DestroySignals, DestroyJoins, ControlSide,
         SetError, flagVars, workerVars
<1>1. RingInv' BY <1>0, RingUnchanged
<1>2. WorkerInv' BY <1>0 DEF IInv, WorkerInv, workerVars
<1>3. HoldInv'
  BY <1>0
  DEF IInv, HoldInv, ringVars, consumerVars, WatchdogLooks, WatchdogFails,
      HashFileFails, Control, CancelBegins, CancelEnds, DestroyBegins,
      DestroySignals, DestroyJoins, ControlSide
<1>4. TypeOK'
  <2>1. CASE WatchdogLooks \/ WatchdogFails \/ HashFileFails
    BY <2>1
    DEF IInv, TypeOK, ringVars, workerVars, consumerVars, flagVars,
        WatchdogLooks, WatchdogFails, HashFileFails, SetError, NotifyAll,
        WatchdogStates, Errors
  <2>2. CASE CancelBegins \/ CancelEnds
    BY <2>2
    DEF IInv, TypeOK, ringVars, workerVars, consumerVars, CancelBegins,
        CancelEnds, ControlSide, NotifyAll, ControlStates
  <2>3. CASE DestroyBegins \/ DestroySignals
    BY <2>3
    DEF IInv, TypeOK, ringVars, workerVars, consumerVars, DestroyBegins,
        DestroySignals, ControlSide, NotifyAll, ControlStates,
        ConsumerStates, Stream!Endings
  <2>4. CASE DestroyJoins
    BY <2>4
    DEF IInv, TypeOK, ringVars, workerVars, consumerVars, DestroyJoins,
        ControlSide, NotifyAll, ControlStates
  <2> QED BY <2>1, <2>2, <2>3, <2>4 DEF Control
<1>5. SleepersMustWait'
  <2>1. CASE WatchdogFails \/ HashFileFails \/ CancelBegins \/ DestroyBegins
    BY <2>1
    DEF SleepersMustWait, WatchdogFails, HashFileFails, CancelBegins,
        DestroyBegins, NotifyAll
  <2>2. CASE WatchdogLooks \/ CancelEnds \/ DestroySignals \/ DestroyJoins
    BY <2>2, <1>0
    DEF IInv, SleepersMustWait, ringVars, workerVars, consumerVars, flagVars,
        WatchdogLooks, CancelEnds, DestroySignals, DestroyJoins, ControlSide,
        NextSlot, Refilled, RingFull, MayPublish
  <2> QED BY <2>1, <2>2 DEF Control
<1> QED BY <1>1, <1>2, <1>3, <1>4, <1>5 DEF IInv

-----------------------------------------------------------------------------
(* The theorems.                                                           *)

LEMMA InitIInv == Init => IInv
<1> SUFFICES ASSUME Init PROVE IInv OBVIOUS
<1>1. /\ SlotCount \in Nat \ {0} /\ SlotSize \in Nat \ {0}
      /\ Len(FileLen) \in Nat
  BY ConstFacts
<1>2. slots \in [Index -> Slot] BY <1>1 DEF Init, Slot
<1>3. TypeOK
  <2>1. results = [f \in {} |-> 0] BY DEF Init
  <2>2. DOMAIN results = {} BY <2>1
  <2>3. DOMAIN results \subseteq Files
        /\ \A f \in DOMAIN results : results[f] \in Nat
    BY <2>2
  <2>4. last \in Stream!Item BY DEF Init, Stream!Item, Stream!NoItem
  <2>5. /\ write_index \in Nat /\ read_index \in Nat
        /\ buffered_bytes \in Nat /\ occupied_slots \in 0..SlotCount
        /\ file \in 0..Len(FileLen) + 1
        /\ offset \in Nat /\ chunk_end \in Nat /\ hashed \in Nat
        /\ held \in Nat /\ target \in Nat
    BY <1>1 DEF Init
  <2>6. /\ selected \subseteq Files /\ started \in BOOLEAN
        /\ done \in BOOLEAN /\ cancelled \in BOOLEAN
        /\ error \in Errors /\ cancel_event \in BOOLEAN
        /\ asleep \subseteq {"worker", "consumer"}
    BY DEF Init, Errors
  <2>7. /\ worker \in WorkerStates /\ watchdog \in WatchdogStates
        /\ consumer \in ConsumerStates /\ control \in ControlStates
        /\ ending \in Stream!Endings \union {"open"}
    BY DEF Init, WorkerStates, WatchdogStates, ConsumerStates, ControlStates
  <2> QED BY <1>2, <2>3, <2>4, <2>5, <2>6, <2>7 DEF TypeOK
<1>4. RingInv BY <1>1 DEF Init, RingInv, Positions
<1>5. WorkerInv /\ HoldInv /\ SleepersMustWait
  BY DEF Init, WorkerInv, HoldInv, SleepersMustWait
<1> QED BY <1>3, <1>4, <1>5 DEF IInv

LEMMA NextIInv == IInv /\ [Next]_vars => IInv'
<1> SUFFICES ASSUME IInv, [Next]_vars PROVE IInv' OBVIOUS
<1>1. CASE UNCHANGED vars
  <2>1. UNCHANGED <<ringVars, flagVars, results, cancel_event, asleep,
                    workerVars, watchdog, consumerVars, control>>
    BY <1>1 DEF vars
  <2>2. RingInv' BY <2>1, RingUnchanged
  <2>3. TypeOK'
    BY <2>1 DEF IInv, TypeOK, ringVars, flagVars, workerVars, consumerVars
  <2>4. WorkerInv' /\ HoldInv'
    BY <2>1
    DEF IInv, WorkerInv, HoldInv, ringVars, flagVars, workerVars, consumerVars
  <2>5. SleepersMustWait'
    BY <2>1
    DEF IInv, SleepersMustWait, ringVars, flagVars, workerVars, consumerVars,
        NextSlot, Refilled, RingFull, MayPublish
  <2> QED BY <2>2, <2>3, <2>4, <2>5 DEF IInv
<1>2. CASE Next
  BY <1>2, SetupStep, WorkerStep, PublishBatchStep, PublishEofStep,
     ConsumerStep, ReleaseHeldStep, OtherStep
  DEF Next
<1> QED BY <1>1, <1>2

THEOREM Invariant == Spec => []IInv
BY InitIInv, NextIInv, PTL DEF Spec

(* The state of the context is well typed; in particular occupied_slots    *)
(* never exceeds the number of slots, whatever the interleaving.           *)
THEOREM TypeCorrect == Spec => []TypeOK
<1>1. IInv => TypeOK BY DEF IInv
<1> QED BY <1>1, Invariant, PTL

(* No wake-up of the condition variable is lost.                           *)
THEOREM NoLostWakeup == Spec => []SleepersMustWait
<1>1. IInv => SleepersMustWait BY DEF IInv
<1> QED BY <1>1, Invariant, PTL

(* The ring's counters describe its slots.                                 *)
THEOREM RingAccounting == Spec => []TokensInOrder
<1>1. IInv => TokensInOrder
  <2> SUFFICES ASSUME IInv PROVE TokensInOrder OBVIOUS
  <2>1. /\ read_index \in Nat /\ write_index \in Nat
        /\ SlotCount \in Nat \ {0}
    BY ConstFacts DEF IInv, TypeOK
  <2>2. ASSUME NEW i \in Positions PROVE i % SlotCount \in Index
    <3>1. i \in Nat BY <2>1 DEF Positions
    <3> QED BY <3>1, <2>1, DivMod, ConstFacts
  <2>3. FullSlots = {i % SlotCount : i \in Positions}
    BY <2>2 DEF IInv, RingInv, FullSlots
  <2> QED BY <2>3 DEF TokensInOrder, IInv, RingInv, Positions
<1> QED BY <1>1, Invariant, PTL

(* A release takes out exactly the slot that was acquired last.            *)
THEOREM ReleasesHeldSlot == Spec => NoUnseenRelease
<1>1. IInv /\ [Next]_vars
        => [read_index' # read_index
              => /\ consumer = "hold" /\ held = read_index + 1
                 /\ read_index' = read_index + 1]_vars
  <2> SUFFICES ASSUME IInv, Next, read_index' # read_index
               PROVE  /\ consumer = "hold" /\ held = read_index + 1
                      /\ read_index' = read_index + 1
    OBVIOUS
  <2>1. ReleaseHeld
    BY DEF Next, SelectFile, StartReader, Worker, CreatePool, StartFile,
       ReadNext, ReadFails, PublishStops, PublishWaits, PublishBatch,
       FinishHashes, PublishEof, WorkerReports, WorkerExits, WatchdogLooks,
       WatchdogFails, HashFileFails, Consumer, CallAcquire, CallRefill,
       AcquireSlot, AcquireStops, AcquireWaits, RefillReturns, RefillWaits,
       WaitTimesOut, Control, CancelBegins, CancelEnds, DestroyBegins,
       DestroySignals, DestroyJoins, ControlSide, ringVars
  <2>2. read_index' = read_index + 1 BY <2>1 DEF ReleaseHeld, ReleaseSlot
  <2> QED BY <2>1, <2>2, ReleaseOnlyHeld
<1> QED BY <1>1, Invariant, PTL DEF Spec, NoUnseenRelease

(* Nothing enters the ring after a cancellation or an error.               *)
THEOREM StopsPublishing == Spec => NoPublishAfterStop
<1>1. [Next]_vars
        => [write_index' # write_index => ~cancelled /\ error = "none"]_vars
  BY DEF Next, vars, SelectFile, StartReader, Worker, CreatePool, StartFile,
     ReadNext, ReadFails, PublishStops, PublishWaits, PublishBatch,
     FinishHashes, PublishEof, WorkerReports, WorkerExits, WatchdogLooks,
     WatchdogFails, HashFileFails, Consumer, CallAcquire, CallRefill,
     AcquireSlot, AcquireStops, AcquireWaits, RefillReturns, RefillWaits,
     WaitTimesOut, ReleaseHeld, ReleaseSlot, Control, CancelBegins, CancelEnds,
     DestroyBegins, DestroySignals, DestroyJoins, ControlSide, ringVars,
     MayPublish
<1> QED BY <1>1, PTL DEF Spec, NoPublishAfterStop

-----------------------------------------------------------------------------
\* What the slots hold: the stream, and the hashes of a file before its end.


ItemOf(slot) ==
  [file |-> slot.file, offset |-> slot.offset, length |-> slot.length,
   eof |-> slot.eof]

(* The item before position k of the ring.                                 *)
Before(k) ==
  IF k = read_index THEN last ELSE ItemOf(slots[(k - 1) % SlotCount])

Reading == {"read", "publish", "finish", "eof"}

(* The ring continues the stream the consumer has received, and the        *)
(* worker's place continues the ring.                                      *)
ChainInv ==
  /\ \A k \in Positions :
       Stream!Follows(selected, Before(k), ItemOf(slots[k % SlotCount]))
  /\ worker \in {"init", "start"}
       => Before(write_index).eof
          /\ file = NextFile(Before(write_index).file)
  /\ worker \in Reading
       => Stream!Follows(selected, Before(write_index),
                         Stream!ItemAt(file, offset))
  /\ worker = "ok" \/ (done /\ ~cancelled /\ error = "none")
       => Stream!IsLast(selected, Before(write_index))

(* What is left of a chunk is whole slots, unless the chunk ends the file. *)
Aligned ==
  \/ chunk_end = FileLen[file]
  \/ \E m \in 0..chunk_end : chunk_end - offset = m * SlotSize

PlaceInv ==
  /\ worker \in Reading => hashed = chunk_end
  /\ worker = "publish" => Aligned
  /\ worker \in {"finish", "eof"}
       => offset = chunk_end /\ chunk_end = FileLen[file]
  /\ worker = "eof"
       => file \in DOMAIN results /\ results[file] = FileLen[file]

(* Before the start nothing has been received, and the stream has ended    *)
(* for its consumer only if the context is being destroyed.                *)
EndInv ==
  /\ consumer = "ended" <=> ending # "open"
  /\ ~started =>
       /\ read_index = 0 /\ write_index = 0 /\ last = Stream!NoItem
       /\ done => error # "none"
       /\ consumer \in {"idle", "ended"}
       /\ consumer = "ended" => control \in {"destroying", "joining", "freed"}

SInv == IInv /\ ChainInv /\ PlaceInv /\ EndInv /\ HashesBeforeEof

-----------------------------------------------------------------------------
(* A multiple of n that is smaller is smaller by at least n.               *)
LEMMA Multiples ==
  ASSUME NEW n \in Nat \ {0}, NEW a \in Nat, NEW b \in Nat, a * n < b * n
  PROVE  a < b /\ b * n - a * n >= n
<1>1. a < b
  <2> SUFFICES ASSUME b <= a PROVE FALSE OBVIOUS
  <2>1. n * b <= n * a BY MulMono
  <2>2. n * b = b * n /\ n * a = a * n OBVIOUS
  <2>3. a * n \in Nat /\ b * n \in Nat OBVIOUS
  <2> QED BY <2>1, <2>2, <2>3
<1>2. n * b - n * a >= n BY <1>1, MulGap
<1>3. n * b = b * n /\ n * a = a * n OBVIOUS
<1> QED BY <1>1, <1>2, <1>3

(* The j-th slot of a batch holds the item at the j-th piece of the chunk, *)
(* each piece continues the one before, and the rest of the chunk the last.*)
LEMMA BatchPieces ==
  ASSUME IInv, PlaceInv, worker = "publish", occupied_slots # SlotCount,
         NEW j \in Nat, j < BatchSlots
  PROVE  LET start == offset + j * SlotSize
             piece == Stream!ItemAt(file, start)
         IN  /\ start \in Nat /\ start < chunk_end
             /\ ItemOf(BatchSlot(write_index + j + 1)) = piece
             /\ ~piece.eof /\ piece.file = file /\ piece.offset = start
             /\ j + 1 < BatchSlots
                  => start + piece.length = offset + (j + 1) * SlotSize
             /\ j + 1 = BatchSlots
                  => start + piece.length = offset + BatchBytes
<1> DEFINE left == chunk_end - offset
           pieces == CeilDiv(left, SlotSize)
           start == offset + j * SlotSize
           piece == Stream!ItemAt(file, start)
<1>1. /\ offset \in Nat /\ chunk_end \in Nat /\ offset < chunk_end
      /\ file \in Files /\ write_index \in Nat /\ chunk_end <= FileLen[file]
      /\ occupied_slots \in 0..SlotCount
  BY DEF IInv, TypeOK, WorkerInv
<1>2. SlotSize \in Nat \ {0} /\ SlotCount \in Nat /\ FileLen[file] \in Nat
  BY <1>1, ConstFacts
<1>3. left \in Nat \ {0} BY <1>1
<1>4. pieces \in Nat \ {0} /\ SlotSize * pieces < left + SlotSize
  <2> HIDE DEF left
  <2> QED BY <1>2, <1>3, CeilDivBound DEF CeilDiv
<1> HIDE DEF pieces
<1>5. BatchSlots \in Nat \ {0} /\ BatchSlots <= pieces
  <2>1. BatchSlots = IF pieces <= SlotCount - occupied_slots
                     THEN pieces ELSE SlotCount - occupied_slots
    BY DEF BatchSlots, Stream!MinOf, pieces
  <2> QED BY <2>1, <1>1, <1>2, <1>4
<1>6. ASSUME NEW i \in Nat, i < BatchSlots PROVE i * SlotSize < left
  <2>1. i + 1 <= pieces BY <1>4, <1>5, <1>6
  <2>2. SlotSize * (i + 1) <= SlotSize * pieces BY <2>1, <1>2, <1>4, MulMono
  <2>3. SlotSize * (i + 1) = i * SlotSize + SlotSize BY <1>2
  <2>4. SlotSize * pieces \in Nat /\ i * SlotSize \in Nat BY <1>2, <1>4
  <2> QED BY <2>2, <2>3, <2>4, <1>2, <1>3, <1>4
<1>7. j * SlotSize \in Nat /\ j * SlotSize < left BY <1>2, <1>6
<1>8. start \in Nat /\ start < chunk_end BY <1>1, <1>7
<1>9. (j + 1) * SlotSize = j * SlotSize + SlotSize BY <1>2
<1>10. Stream!MinOf(SlotSize, chunk_end - start)
         = Stream!MinOf(SlotSize, FileLen[file] - start)
  <2>1. CASE chunk_end = FileLen[file] BY <2>1
  <2>2. CASE chunk_end # FileLen[file]
    <3>1. PICK m \in 0..chunk_end : chunk_end - offset = m * SlotSize
      BY <2>2 DEF PlaceInv, Aligned
    <3>2. m \in Nat BY <3>1, <1>1
    <3>3. j * SlotSize < m * SlotSize BY <3>1, <1>7
    <3>4. m * SlotSize - j * SlotSize >= SlotSize
      BY <3>2, <3>3, <1>2, Multiples
    <3>5. chunk_end - start >= SlotSize BY <3>1, <3>4, <1>1, <1>7
    <3> HIDE DEF start
    <3> QED BY <3>5, <1>1, <1>2, <1>8 DEF Stream!MinOf
  <2> QED BY <2>1, <2>2
<1>11. /\ piece = [file |-> file, offset |-> start,
                   length |-> Stream!MinOf(SlotSize, chunk_end - start),
                   eof |-> FALSE]
  <2>1. start # FileLen[file]
    <3> HIDE DEF start
    <3> QED BY <1>1, <1>2, <1>8
  <2> HIDE DEF start
  <2> QED BY <2>1, <1>10 DEF Stream!ItemAt
<1>12. ItemOf(BatchSlot(write_index + j + 1)) = piece
  <2> DEFINE t == write_index + j + 1
             size == Stream!MinOf(SlotSize, chunk_end - start)
             slot == [full |-> TRUE, token |-> t, file |-> file,
                      offset |-> start, length |-> size, eof |-> FALSE]
  <2>1. t - write_index - 1 = j BY <1>1
  <2>2. BatchSlot(t) = slot BY <2>1 DEF BatchSlot
  <2>3. /\ slot.file = file /\ slot.offset = start /\ slot.length = size
        /\ slot.eof = FALSE
    <3> HIDE DEF start, size, t
    <3> QED OBVIOUS
  <2>4. piece = [file |-> file, offset |-> start, length |-> size,
                 eof |-> FALSE]
    BY <1>11
  <2> HIDE DEF slot, piece, t, size, start
  <2> QED BY <2>2, <2>3, <2>4 DEF t, ItemOf
<1>13. ASSUME j + 1 < BatchSlots
       PROVE  start + piece.length = offset + (j + 1) * SlotSize
  <2>1. (j + 1) * SlotSize < left BY <1>6, <1>13
  <2>2. SlotSize <= chunk_end - start BY <2>1, <1>9, <1>7, <1>1, <1>2
  <2>3. piece.length = SlotSize BY <2>2, <1>11 DEF Stream!MinOf
  <2> QED BY <2>3, <1>9, <1>7, <1>1, <1>2
<1>14. ASSUME j + 1 = BatchSlots
       PROVE  start + piece.length = offset + BatchBytes
  <2>1. BatchBytes = Stream!MinOf((j + 1) * SlotSize, left)
    BY <1>14 DEF BatchBytes
  <2>2. piece.length = IF SlotSize <= chunk_end - start THEN SlotSize
                       ELSE chunk_end - start
    BY <1>11 DEF Stream!MinOf
  <2> QED
    BY <2>1, <2>2, <1>9, <1>7, <1>1, <1>2 DEF Stream!MinOf
<1> QED BY <1>8, <1>11, <1>12, <1>13, <1>14

-----------------------------------------------------------------------------
(* A batch leaves the slots of the ring alone and fills the next ones.     *)
LEMMA BatchRing ==
  ASSUME IInv, PublishBatch
  PROVE  /\ BatchSlots \in Nat \ {0}
         /\ \A i \in Positions :
              slots'[i % SlotCount] = slots[i % SlotCount]
         /\ \A i \in write_index..write_index + BatchSlots - 1 :
              slots'[i % SlotCount] = BatchSlot(i + 1)
<1> DEFINE n == BatchSlots
           tokens(k) == {t \in write_index + 1..write_index + n :
                           (t - 1) % SlotCount = k}
<1>1. /\ worker = "publish" /\ occupied_slots # SlotCount
      /\ slots' = [k \in Index |->
                     IF tokens(k) = {} THEN slots[k]
                     ELSE BatchSlot(CHOOSE t \in tokens(k) : TRUE)]
  BY DEF PublishBatch, WouldPublish, RingFull
<1>2. n \in Nat \ {0} /\ n <= SlotCount - occupied_slots
  BY <1>1, BatchFits
<1> HIDE DEF n
<1>3. /\ read_index \in Nat /\ write_index \in Nat
      /\ read_index <= write_index
      /\ occupied_slots = write_index - read_index
      /\ SlotCount \in Nat \ {0}
  BY ConstFacts DEF IInv, TypeOK, RingInv
<1>4. ASSUME NEW i \in Nat, read_index <= i, i < write_index + n,
             NEW t \in tokens(i % SlotCount)
      PROVE  t = i + 1 /\ write_index <= i
  <2>1. t \in Nat /\ t - 1 \in Nat /\ write_index <= t - 1
        /\ t - 1 < write_index + n /\ (t - 1) % SlotCount = i % SlotCount
    BY <1>2, <1>3
  <2>2. i - (t - 1) < SlotCount /\ (t - 1) - i < SlotCount
    BY <2>1, <1>2, <1>3, <1>4
  <2> HIDE DEF tokens
  <2>3. i = t - 1 BY <2>1, <2>2, <1>3, ModUnique
  <2> QED BY <2>1, <2>3
<1>5. ASSUME NEW i \in Nat PROVE i % SlotCount \in Index
  BY <1>3, DivMod, ConstFacts
<1>6. ASSUME NEW i \in Positions
      PROVE  slots'[i % SlotCount] = slots[i % SlotCount]
  <2>1. i \in Nat /\ read_index <= i /\ i < write_index + n /\ i < write_index
    BY <1>2, <1>3 DEF Positions
  <2>2. tokens(i % SlotCount) = {}
    <3> SUFFICES ASSUME NEW t \in tokens(i % SlotCount) PROVE FALSE
      OBVIOUS
    <3>1. write_index <= i BY <1>4, <2>1
    <3> QED BY <3>1, <2>1, <1>3
  <2> HIDE DEF tokens
  <2> QED BY <2>1, <2>2, <1>1, <1>5
<1>7. ASSUME NEW i \in write_index..write_index + n - 1
      PROVE  slots'[i % SlotCount] = BatchSlot(i + 1)
  <2>1. i \in Nat /\ read_index <= i /\ i < write_index + n
    BY <1>2, <1>3
  <2>2. i + 1 \in tokens(i % SlotCount)
    <3>1. i + 1 \in write_index + 1..write_index + n /\ (i + 1) - 1 = i
      BY <1>2, <1>3
    <3> QED BY <3>1
  <2>3. (CHOOSE t \in tokens(i % SlotCount) : TRUE) = i + 1
    <3> DEFINE c == CHOOSE t \in tokens(i % SlotCount) : TRUE
    <3>1. c \in tokens(i % SlotCount) BY <2>2
    <3> HIDE DEF c, tokens
    <3>2. c = i + 1 BY <3>1, <2>1, <1>4
    <3> QED BY <3>2 DEF c
  <2> HIDE DEF tokens
  <2> QED BY <2>1, <2>2, <2>3, <1>1, <1>5
<1> QED BY <1>2, <1>6, <1>7 DEF n

LEMMA BatchChain ==
  ASSUME SInv, PublishBatch
  PROVE  ChainInv'
<1> DEFINE n == BatchSlots
           At(j) == Stream!ItemAt(file, offset + j * SlotSize)
<1>1. /\ worker = "publish" /\ occupied_slots # SlotCount
      /\ write_index' = write_index + n
      /\ offset' = offset + BatchBytes
      /\ worker' \in {"publish", "read", "finish"}
      /\ UNCHANGED <<read_index, file, last, selected, done, cancelled, error>>
  BY DEF PublishBatch, WouldPublish, RingFull, flagVars, WorkerSide,
         consumerVars
<1>2. /\ n \in Nat \ {0}
      /\ \A i \in Positions : slots'[i % SlotCount] = slots[i % SlotCount]
      /\ \A i \in write_index..write_index + n - 1 :
           slots'[i % SlotCount] = BatchSlot(i + 1)
  BY BatchRing DEF SInv
<1>3. /\ read_index \in Nat /\ write_index \in Nat
      /\ read_index <= write_index /\ offset \in Nat
      /\ file \in Files /\ SlotSize \in Nat
  BY <1>1, ConstFacts DEF SInv, IInv, TypeOK, RingInv, WorkerInv
<1>4. ASSUME NEW j \in Nat, j < n
      PROVE  /\ ItemOf(slots'[(write_index + j) % SlotCount]) = At(j)
             /\ ~At(j).eof /\ At(j).file = file
             /\ At(j).offset = offset + j * SlotSize
             /\ j + 1 < n => At(j).offset + At(j).length
                               = offset + (j + 1) * SlotSize
             /\ j + 1 = n => At(j).offset + At(j).length = offset + BatchBytes
  <2>1. write_index + j \in write_index..write_index + n - 1
    BY <1>2, <1>3, <1>4
  <2>2. slots'[(write_index + j) % SlotCount] = BatchSlot(write_index + j + 1)
    BY <2>1, <1>2
  <2>3. /\ ItemOf(BatchSlot(write_index + j + 1)) = At(j)
        /\ ~At(j).eof /\ At(j).file = file
        /\ At(j).offset = offset + j * SlotSize
        /\ j + 1 < n => (offset + j * SlotSize) + At(j).length
                          = offset + (j + 1) * SlotSize
        /\ j + 1 = n => (offset + j * SlotSize) + At(j).length
                          = offset + BatchBytes
    BY <1>1, <1>4, BatchPieces DEF SInv
  <2> HIDE DEF At
  <2> QED BY <2>2, <2>3
<1> HIDE DEF n, At
<1>5. Stream!Follows(selected, Before(write_index), At(0))
  <2>1. offset + 0 * SlotSize = offset BY <1>3
  <2>2. At(0) = Stream!ItemAt(file, offset) BY <2>1 DEF At
  <2> QED BY <2>2, <1>1 DEF SInv, ChainInv, Reading
<1>6. ASSUME NEW k \in Nat, read_index <= k, k <= write_index
      PROVE  Before(k)' = Before(k)
  <2>1. CASE k = read_index BY <2>1, <1>1 DEF Before
  <2>2. CASE k # read_index
    <3>1. k - 1 \in Positions BY <2>2, <1>6, <1>3 DEF Positions
    <3>2. slots'[(k - 1) % SlotCount] = slots[(k - 1) % SlotCount]
      BY <3>1, <1>2
    <3> QED BY <2>2, <3>2, <1>1 DEF Before
  <2> QED BY <2>1, <2>2
<1>7. ASSUME NEW k \in Nat, NEW j \in Nat, j < n, k = write_index + j + 1
      PROVE  Before(k)' = At(j)
  <2>1. k # read_index /\ k - 1 = write_index + j
    BY <1>3, <1>7
  <2>2. Before(k)' = ItemOf(slots'[(k - 1) % SlotCount])
    BY <2>1, <1>1 DEF Before
  <2> QED BY <2>1, <2>2, <1>4, <1>7
<1>8. ASSUME NEW k \in read_index..write_index + n - 1
      PROVE  Stream!Follows(selected, Before(k)', ItemOf(slots'[k % SlotCount]))
  <2>0. k \in Nat /\ read_index <= k /\ k < write_index + n
    BY <1>2, <1>3
  <2>1. CASE k < write_index
    <3>1. k \in Positions BY <2>0, <2>1, <1>3 DEF Positions
    <3>2. Before(k)' = Before(k) BY <2>0, <2>1, <1>3, <1>6
    <3>3. slots'[k % SlotCount] = slots[k % SlotCount] BY <3>1, <1>2
    <3> QED BY <3>1, <3>2, <3>3 DEF SInv, ChainInv
  <2>2. CASE k = write_index
    <3>1. Before(k)' = Before(write_index) BY <2>0, <2>2, <1>6
    <3>2. 0 \in Nat /\ 0 < n /\ k = write_index + 0 BY <2>2, <1>2, <1>3
    <3>3. ItemOf(slots'[k % SlotCount]) = At(0) BY <3>2, <1>4
    <3> QED BY <3>1, <3>3, <1>5
  <2>3. CASE k > write_index
    <3>1. PICK j \in Nat : k = write_index + j + 1 BY <2>0, <2>3, <1>3
    <3>2. j < n /\ j + 1 \in Nat /\ j + 1 < n /\ k = write_index + (j + 1)
      BY <3>1, <2>0, <1>2, <1>3
    <3>3. Before(k)' = At(j) BY <2>0, <3>1, <3>2, <1>7
    <3>4. ItemOf(slots'[k % SlotCount]) = At(j + 1) BY <3>2, <1>4
    <3>5. /\ ~At(j).eof /\ At(j).file = file
          /\ At(j).offset + At(j).length = offset + (j + 1) * SlotSize
      BY <3>2, <1>4
    <3>6. At(j + 1) = Stream!ItemAt(file, offset + (j + 1) * SlotSize)
      BY DEF At
    <3>7. Stream!Follows(selected, At(j), At(j + 1))
      BY <3>5, <3>6 DEF Stream!Follows
    <3> QED BY <3>3, <3>4, <3>7
  <2> QED BY <2>0, <2>1, <2>2, <2>3, <1>3
<1>9. Stream!Follows(selected, Before(write_index)',
                     Stream!ItemAt(file, offset + BatchBytes))
  <2>1. PICK w \in Nat : w = write_index + n BY <1>2, <1>3
  <2>2. PICK j \in Nat : j + 1 = n BY <1>2
  <2>3. j < n /\ w = write_index + j + 1 BY <2>1, <2>2, <1>2, <1>3
  <2>4. Before(w)' = At(j) BY <2>3, <1>7
  <2>5. write_index' = w BY <2>1, <1>1
  <2>6. Before(write_index)' = Before(w)' BY <2>5 DEF Before
  <2>7. /\ ~At(j).eof /\ At(j).file = file
        /\ At(j).offset + At(j).length = offset + BatchBytes
    BY <2>2, <2>3, <1>4
  <2>8. Stream!Follows(selected, At(j),
                       Stream!ItemAt(file, offset + BatchBytes))
    BY <2>7 DEF Stream!Follows
  <2> QED BY <2>4, <2>6, <2>8
<1>10. ~(done /\ ~cancelled /\ error = "none")
  <2>1. ~Stream!IsLast(selected, Before(write_index))
    BY <1>5 DEF Stream!Follows, Stream!IsLast
  <2> QED BY <2>1 DEF SInv, ChainInv
<1>11. Positions' = read_index..write_index + n - 1
  BY <1>1, <1>2, <1>3 DEF Positions
<1>12. \A k \in Positions' :
         Stream!Follows(selected, Before(k), ItemOf(slots[k % SlotCount]))'
  BY <1>8, <1>11, <1>1
<1> QED BY <1>1, <1>9, <1>10, <1>12 DEF ChainInv, Reading

LEMMA EofChain ==
  ASSUME SInv, PublishEof
  PROVE  ChainInv'
<1> DEFINE w == write_index % SlotCount
           eof == [full |-> TRUE, token |-> write_index + 1, file |-> file,
                   offset |-> FileLen[file], length |-> 0, eof |-> TRUE]
<1>1. /\ worker = "eof" /\ ~slots[w].full
      /\ slots' = [slots EXCEPT ![w] = eof]
      /\ write_index' = write_index + 1
      /\ worker' = "start" /\ file' = NextFile(file)
      /\ UNCHANGED <<read_index, last, selected, done, cancelled, error>>
  BY DEF PublishEof, WouldPublish, RingFull, flagVars, WorkerSide,
         consumerVars
<1>2. /\ read_index \in Nat /\ write_index \in Nat
      /\ slots \in [Index -> Slot] /\ read_index <= write_index
      /\ file \in Files /\ offset = FileLen[file]
      /\ \A i \in Positions : slots[i % SlotCount].full
  BY <1>1 DEF SInv, IInv, TypeOK, RingInv, WorkerInv, PlaceInv
<1>3. /\ SlotCount \in Nat \ {0} /\ SlotSize \in Nat \ {0}
      /\ FileLen[file] \in Nat
  BY <1>2, ConstFacts
<1>4. w \in Index BY WriteSlotFull DEF SInv, IInv
<1>5. slots'[w] = eof BY <1>1, <1>2, <1>4
<1>6. /\ ItemOf(slots'[w]) = Stream!ItemAt(file, offset)
      /\ ItemOf(slots'[w]).eof /\ ItemOf(slots'[w]).file = file
  <2>1. ItemOf(eof) = [file |-> file, offset |-> FileLen[file], length |-> 0,
                       eof |-> TRUE]
    BY DEF ItemOf
  <2>2. Stream!MinOf(SlotSize, FileLen[file] - FileLen[file]) = 0
    BY <1>3 DEF Stream!MinOf
  <2>3. Stream!ItemAt(file, offset)
          = [file |-> file, offset |-> FileLen[file], length |-> 0,
             eof |-> TRUE]
    BY <1>2, <2>2 DEF Stream!ItemAt
  <2> HIDE DEF eof, w
  <2> QED BY <2>1, <2>3, <1>5
<1>7. ASSUME NEW i \in Positions
      PROVE  slots'[i % SlotCount] = slots[i % SlotCount]
  <2>1. i % SlotCount # w BY <1>1, <1>2
  <2>2. i \in Nat BY <1>2 DEF Positions
  <2>3. i % SlotCount \in Index BY <2>2, <1>3, DivMod, ConstFacts
  <2> QED BY <2>1, <2>3, <1>1, <1>2
<1> HIDE DEF eof
<1>8. ASSUME NEW k \in Nat, read_index <= k, k <= write_index
      PROVE  Before(k)' = Before(k)
  <2>1. CASE k = read_index BY <2>1, <1>1 DEF Before
  <2>2. CASE k # read_index
    <3>1. k - 1 \in Positions BY <2>2, <1>8, <1>2 DEF Positions
    <3> QED BY <2>2, <3>1, <1>7, <1>1 DEF Before
  <2> QED BY <2>1, <2>2
<1>9. Stream!Follows(selected, Before(write_index),
                     Stream!ItemAt(file, offset))
  BY <1>1 DEF SInv, ChainInv, Reading
<1>10. ASSUME NEW k \in read_index..write_index
       PROVE  Stream!Follows(selected, Before(k)', ItemOf(slots'[k % SlotCount]))
  <2>0. k \in Nat /\ read_index <= k /\ k <= write_index
    BY <1>2
  <2>1. Before(k)' = Before(k) BY <2>0, <1>8
  <2>2. CASE k = write_index
    BY <2>1, <2>2, <1>6, <1>9
  <2>3. CASE k # write_index
    <3>1. k \in Positions BY <2>0, <2>3, <1>2 DEF Positions
    <3> QED BY <3>1, <2>1, <1>7 DEF SInv, ChainInv
  <2> QED BY <2>2, <2>3
<1>11. Before(write_index)' = ItemOf(slots'[w])
  <2>1. write_index + 1 # read_index /\ (write_index + 1) - 1 = write_index
    BY <1>2
  <2>2. Before(write_index)'
          = ItemOf(slots'[((write_index + 1) - 1) % SlotCount])
    BY <2>1, <1>1 DEF Before
  <2> QED BY <2>1, <2>2
<1>12. ~(done /\ ~cancelled /\ error = "none")
  <2>1. ~Stream!IsLast(selected, Before(write_index))
    BY <1>9 DEF Stream!Follows, Stream!IsLast
  <2> QED BY <2>1 DEF SInv, ChainInv
<1>13. Positions' = read_index..write_index
  BY <1>1, <1>2 DEF Positions
<1>14. \A k \in Positions' :
         Stream!Follows(selected, Before(k), ItemOf(slots[k % SlotCount]))'
  BY <1>10, <1>13, <1>1
<1> HIDE DEF w
<1>15. /\ Before(write_index)'.eof
       /\ file' = Stream!NextFile(selected, Before(write_index)'.file)
  BY <1>1, <1>6, <1>11 DEF NextFile
<1> QED BY <1>1, <1>12, <1>14, <1>15 DEF ChainInv, Reading, NextFile

(* What the consumer releases becomes the item before the ring.            *)
LEMMA ReleaseChain ==
  ASSUME SInv, ReleaseHeld
  PROVE  ChainInv'
<1> DEFINE r == read_index % SlotCount
<1>1. read_index < write_index BY ReleaseOnlyHeld DEF SInv
<1>2. /\ slots' = [slots EXCEPT ![r] =
                     [@ EXCEPT !.full = FALSE, !.length = 0, !.eof = FALSE]]
      /\ read_index' = read_index + 1
      /\ last' = ItemOf(slots[r])
      /\ UNCHANGED <<write_index, selected, done, cancelled, error, worker,
                     file, offset>>
  BY DEF ReleaseHeld, ReleaseSlot, NextSlot, ItemOf, ConsumerSide, flagVars,
         workerVars
<1>3. /\ read_index \in Nat /\ write_index \in Nat
      /\ slots \in [Index -> Slot]
      /\ write_index - read_index <= SlotCount
      /\ SlotCount \in Nat \ {0}
  BY ConstFacts DEF SInv, IInv, TypeOK, RingInv
<1> HIDE DEF r
<1>4. ASSUME NEW i \in Positions, i # read_index
      PROVE  slots'[i % SlotCount] = slots[i % SlotCount]
  <2>1. i \in Nat /\ i - read_index < SlotCount /\ read_index - i < SlotCount
    BY <1>3 DEF Positions
  <2>2. i % SlotCount # r BY <2>1, <1>3, <1>4, ModUnique DEF r
  <2>3. i % SlotCount \in Index BY <2>1, <1>3, DivMod, ConstFacts
  <2> QED BY <2>2, <2>3, <1>2, <1>3
<1>5. ASSUME NEW k \in Nat, read_index < k, k <= write_index
      PROVE  Before(k)' = Before(k)
  <2>1. Before(k) = ItemOf(slots[(k - 1) % SlotCount])
    BY <1>5, <1>3 DEF Before
  <2>2. CASE k = read_index + 1
    <3>1. Before(k)' = last' BY <2>2, <1>2 DEF Before
    <3>2. k - 1 = read_index BY <2>2, <1>3
    <3> QED BY <3>1, <3>2, <2>1, <1>2 DEF r
  <2>3. CASE k # read_index + 1
    <3>1. k - 1 \in Positions /\ k - 1 # read_index
      BY <2>3, <1>5, <1>3 DEF Positions
    <3>2. Before(k)' = ItemOf(slots'[(k - 1) % SlotCount])
      BY <2>3, <1>2 DEF Before
    <3> QED BY <3>1, <3>2, <2>1, <1>4
  <2> QED BY <2>2, <2>3
<1>6. Before(write_index)' = Before(write_index)
  <2>1. PICK w \in Nat : w = write_index BY <1>3
  <2>2. Before(w)' = Before(w) BY <2>1, <1>1, <1>5
  <2>3. Before(write_index)' = Before(w)' BY <2>1, <1>2 DEF Before
  <2>4. Before(write_index) = Before(w) BY <2>1
  <2> QED BY <2>2, <2>3, <2>4
<1>7. ASSUME NEW k \in read_index + 1..write_index - 1
      PROVE  Stream!Follows(selected, Before(k)', ItemOf(slots'[k % SlotCount]))
  <2>1. k \in Nat /\ read_index < k /\ k < write_index /\ k \in Positions
    BY <1>3 DEF Positions
  <2>2. Before(k)' = Before(k) BY <2>1, <1>5, <1>3
  <2>3. slots'[k % SlotCount] = slots[k % SlotCount] BY <2>1, <1>4, <1>3
  <2> QED BY <2>1, <2>2, <2>3 DEF SInv, ChainInv
<1>8. Positions' = read_index + 1..write_index - 1
  BY <1>2, <1>3 DEF Positions
<1>9. \A k \in Positions' :
        Stream!Follows(selected, Before(k), ItemOf(slots[k % SlotCount]))'
  BY <1>7, <1>8, <1>2
<1> QED BY <1>2, <1>6, <1>9 DEF SInv, ChainInv, NextFile

(* The other steps leave ring and received item alone.                     *)
LEMMA ChainSame ==
  ASSUME SInv, UNCHANGED <<slots, write_index, read_index, last, selected>>
  PROVE  /\ Before(write_index)' = Before(write_index)
         /\ \A k \in Positions' :
              Stream!Follows(selected, Before(k), ItemOf(slots[k % SlotCount]))'
<1>1. Positions' = Positions BY DEF Positions
<1>2. ASSUME NEW k PROVE Before(k)' = Before(k) BY DEF Before
<1>3. Before(write_index)' = Before(write_index) BY DEF Before
<1>4. ASSUME NEW k \in Positions
      PROVE  Stream!Follows(selected, Before(k)', ItemOf(slots[k % SlotCount]))
  BY <1>2, <1>4 DEF SInv, ChainInv
<1>5. \A k \in Positions' :
        Stream!Follows(selected, Before(k), ItemOf(slots[k % SlotCount]))'
  BY <1>1, <1>4
<1> QED BY <1>3, <1>5

LEMMA WorkerChain ==
  ASSUME SInv, Worker, ~PublishBatch, ~PublishEof
  PROVE  ChainInv'
<1>1. UNCHANGED <<slots, write_index, read_index, last, selected>>
  BY DEF Worker, CreatePool, StartFile, ReadNext, ReadFails, PublishStops,
         PublishWaits, FinishHashes, WorkerReports, WorkerExits, ringVars,
         WorkerSide, consumerVars, flagVars, SetError
<1>2. /\ Before(write_index)' = Before(write_index)
      /\ \A k \in Positions' :
           Stream!Follows(selected, Before(k), ItemOf(slots[k % SlotCount]))'
  BY <1>1, ChainSame
<1> DEFINE b == Before(write_index)
<1>3. /\ worker \in {"init", "start"}
           => b.eof /\ file = Stream!NextFile(selected, b.file)
      /\ worker \in Reading
           => Stream!Follows(selected, b, Stream!ItemAt(file, offset))
      /\ worker = "ok" \/ (done /\ ~cancelled /\ error = "none")
           => Stream!IsLast(selected, b)
  BY DEF SInv, ChainInv, NextFile
<1> SUFFICES
      /\ worker' \in {"init", "start"}
           => b.eof /\ file' = Stream!NextFile(selected, b.file)
      /\ worker' \in Reading
           => Stream!Follows(selected, b, Stream!ItemAt(file', offset'))
      /\ worker' = "ok" \/ (done' /\ ~cancelled' /\ error' = "none")
           => Stream!IsLast(selected, b)
  BY <1>1, <1>2 DEF ChainInv, NextFile
<1> HIDE DEF b
<1>4. CASE StartFile
  <2>1. /\ worker = "start" /\ offset' = 0
        /\ worker' = IF file \notin Files THEN "ok"
                     ELSE IF cancel_event THEN "interrupted" ELSE "read"
        /\ UNCHANGED <<file, done, cancelled, error>>
    BY <1>4 DEF StartFile, flagVars
  <2>2. b.eof /\ file = Stream!NextFile(selected, b.file) BY <1>3, <2>1
  <2>3. CASE file \in Files
    <3>1. Stream!Follows(selected, b, Stream!ItemAt(file, 0))
      BY <2>2, <2>3 DEF Stream!Follows, Files
    <3> QED BY <3>1, <2>1, <2>3, <1>3 DEF Reading
  <2>4. CASE file \notin Files
    <3>1. Stream!IsLast(selected, b)
      BY <2>2, <2>4 DEF Stream!IsLast, Files
    <3> QED BY <3>1, <2>1, <2>4 DEF Reading
  <2> QED BY <2>3, <2>4
<1>5. CASE CreatePool
  BY <1>3, <1>5 DEF CreatePool, WorkerGoes, SetError, flagVars, Reading
<1>6. CASE ReadNext
  BY <1>3, <1>6 DEF ReadNext, flagVars, Reading
<1>7. CASE ReadFails \/ PublishStops \/ WorkerExits
  BY <1>3, <1>7
  DEF ReadFails, PublishStops, WorkerExits, WorkerGoes, flagVars, Reading
<1>8. CASE PublishWaits
  BY <1>3, <1>8 DEF PublishWaits, workerVars, flagVars, Reading
<1>9. CASE FinishHashes
  BY <1>3, <1>9 DEF FinishHashes, WorkerGoes, flagVars, Reading
<1>10. CASE WorkerReports
  BY <1>3, <1>10 DEF WorkerReports, WorkerGoes, SetError, flagVars, Reading
<1> QED
  BY <1>4, <1>5, <1>6, <1>7, <1>8, <1>9, <1>10 DEF Worker

LEMMA OtherChain ==
  ASSUME SInv,
         \/ \E f \in Files : SelectFile(f)
         \/ StartReader \/ WatchdogLooks \/ WatchdogFails \/ HashFileFails
         \/ Consumer /\ ~ReleaseHeld
         \/ Control \/ UNCHANGED vars
  PROVE  ChainInv'
<1>1. ASSUME NEW f \in Files, SelectFile(f) PROVE ChainInv'
  <2>1. /\ ~started /\ worker = "unstarted" /\ read_index = 0 /\ write_index = 0
        /\ done => error # "none"
    BY <1>1 DEF SelectFile, SInv, EndInv, IInv, WorkerInv
  <2>2. UNCHANGED <<read_index, write_index, worker, done, error>>
    BY <1>1 DEF SelectFile, ringVars, workerVars
  <2>3. Positions' = {} BY <2>1, <2>2 DEF Positions
  <2> QED BY <2>1, <2>2, <2>3 DEF ChainInv, Reading
<1>2. ASSUME StartReader PROVE ChainInv'
  <2>1. /\ ~started /\ read_index = 0 /\ write_index = 0
        /\ last = Stream!NoItem /\ (done => error # "none")
    BY <1>2 DEF StartReader, SInv, EndInv
  <2>2. /\ worker' = "init" /\ file' = Stream!NextFile(selected, 0)
        /\ UNCHANGED <<slots, read_index, write_index, done, error, last,
                       selected>>
    BY <1>2 DEF StartReader, NextFile, ringVars, consumerVars
  <2>3. Positions' = {} BY <2>1, <2>2 DEF Positions
  <2>4. Before(write_index)' = Stream!NoItem BY <2>1, <2>2 DEF Before
  <2>5. Stream!NoItem.eof /\ Stream!NoItem.file = 0 BY DEF Stream!NoItem
  <2> QED
    BY <2>1, <2>2, <2>3, <2>4, <2>5 DEF ChainInv, NextFile, Reading
<1>3. ASSUME \/ WatchdogLooks \/ WatchdogFails \/ HashFileFails
             \/ Consumer /\ ~ReleaseHeld
             \/ Control \/ UNCHANGED vars
      PROVE  ChainInv'
  <2>1. /\ UNCHANGED <<ringVars, workerVars, last, selected>>
        /\ done' /\ ~cancelled' /\ error' = "none"
             => done /\ ~cancelled /\ error = "none"
    <3>1. CASE WatchdogLooks \/ WatchdogFails \/ HashFileFails
      BY <3>1 DEF WatchdogLooks, WatchdogFails, HashFileFails, SetError,
        consumerVars, flagVars
    <3>2. CASE Consumer /\ ~ReleaseHeld
      BY <3>2 DEF Consumer, CallAcquire, CallRefill, AcquireSlot,
        AcquireStops, AcquireWaits, RefillReturns, RefillWaits, WaitTimesOut,
        ConsumerSide, ConsumerGoes, ConsumerEnds, consumerVars, flagVars
    <3>3. CASE Control
      BY <3>3 DEF Control, CancelBegins, CancelEnds, DestroyBegins,
        DestroySignals, DestroyJoins, ControlSide, consumerVars, flagVars
    <3>4. CASE UNCHANGED vars
      BY <3>4 DEF vars, consumerVars, flagVars
    <3> QED BY <1>3, <3>1, <3>2, <3>3, <3>4
  <2>2. UNCHANGED <<slots, write_index, read_index, last, selected, worker,
                    file, offset>>
    BY <2>1 DEF ringVars, workerVars
  <2>3. /\ Before(write_index)' = Before(write_index)
        /\ \A k \in Positions' :
             Stream!Follows(selected, Before(k), ItemOf(slots[k % SlotCount]))'
    BY <2>2, ChainSame
  <2> QED BY <2>1, <2>2, <2>3 DEF SInv, ChainInv, NextFile
<1> QED BY <1>1, <1>2, <1>3

-----------------------------------------------------------------------------
(* The worker's place in its file.                                         *)
LEMMA BatchPlace ==
  ASSUME SInv, PublishBatch
  PROVE  PlaceInv'
<1> DEFINE n == BatchSlots
<1>1. /\ worker = "publish" /\ occupied_slots # SlotCount
      /\ offset' = offset + BatchBytes
      /\ worker' = IF offset + BatchBytes < chunk_end THEN "publish"
                   ELSE IF chunk_end < FileLen[file] THEN "read" ELSE "finish"
      /\ UNCHANGED <<file, chunk_end, hashed>>
  BY DEF PublishBatch, WouldPublish, RingFull
<1>2. /\ n \in Nat \ {0} /\ BatchBytes \in Nat
      /\ offset + BatchBytes <= chunk_end
      /\ BatchBytes = Stream!MinOf(n * SlotSize, chunk_end - offset)
  BY <1>1, BatchFits DEF SInv, BatchBytes
<1> HIDE DEF n
<1>3. /\ file \in Files /\ offset \in Nat /\ chunk_end \in Nat
      /\ offset < chunk_end /\ chunk_end <= FileLen[file]
      /\ hashed = chunk_end
      /\ SlotSize \in Nat \ {0} /\ FileLen[file] \in Nat
  BY <1>1, ConstFacts DEF SInv, IInv, TypeOK, WorkerInv, PlaceInv, Reading
<1>4. Aligned BY <1>1 DEF SInv, PlaceInv
<1>5. ASSUME worker' = "publish" PROVE Aligned'
  <2>1. CASE chunk_end = FileLen[file] BY <2>1, <1>1 DEF Aligned
  <2>2. CASE chunk_end # FileLen[file]
    <3>1. PICK m \in 0..chunk_end : chunk_end - offset = m * SlotSize
      BY <2>2, <1>4 DEF Aligned
    <3>2. offset + BatchBytes < chunk_end BY <1>1, <1>5
    <3>3. m \in Nat /\ n * SlotSize \in Nat /\ m * SlotSize \in Nat
      BY <3>1, <1>2, <1>3
    <3>4. BatchBytes = n * SlotSize /\ n * SlotSize < m * SlotSize
      BY <3>1, <3>2, <3>3, <1>2, <1>3 DEF Stream!MinOf
    <3>5. n < m BY <3>3, <3>4, <1>2, <1>3, Multiples
    <3>6. m - n \in 0..chunk_end BY <3>1, <3>5, <1>2, <1>3
    <3>7. (m - n) * SlotSize = m * SlotSize - n * SlotSize
      BY <3>3, <1>2, <1>3
    <3>8. chunk_end - (offset + BatchBytes) = (m - n) * SlotSize
      BY <3>1, <3>3, <3>4, <3>7, <1>3
    <3>9. chunk_end' - offset' = (m - n) * SlotSize /\ m - n \in 0..chunk_end'
      BY <3>6, <3>8, <1>1
    <3> QED BY <3>9 DEF Aligned
  <2> QED BY <2>1, <2>2
<1>6. worker' = "finish" => offset' = chunk_end' /\ chunk_end' = FileLen[file']
  BY <1>1, <1>2, <1>3
<1>7. worker' \in Reading /\ worker' # "eof" /\ hashed' = chunk_end'
  BY <1>1, <1>3 DEF Reading
<1> QED BY <1>5, <1>6, <1>7 DEF PlaceInv

LEMMA ReadPlace ==
  ASSUME SInv, ReadNext
  PROVE  PlaceInv'
<1> DEFINE n == IF Small(file) THEN FileLen[file]
                ELSE Stream!MinOf(ReadChunk, FileLen[file] - offset)
<1>1. /\ worker = "read" /\ hashed' = hashed + n /\ chunk_end' = offset + n
      /\ worker' = IF n = 0 THEN "finish" ELSE "publish"
      /\ UNCHANGED <<file, offset>>
  BY DEF ReadNext, HashedAfter
<1>2. /\ file \in Files /\ offset \in Nat /\ offset = chunk_end
      /\ chunk_end <= FileLen[file] /\ hashed = chunk_end
      /\ Small(file) => offset = 0
  BY <1>1 DEF SInv, IInv, TypeOK, WorkerInv, PlaceInv, Reading
<1>3. /\ FileLen[file] \in Nat /\ ReadChunk \in Nat /\ SlotSize \in Nat \ {0}
      /\ ReadChunk >= SlotSize /\ ReadChunk % SlotSize = 0
  BY <1>2, ConstFacts, RingAssumption
<1>4. \/ offset + n = FileLen[file]
      \/ n = ReadChunk
  BY <1>2, <1>3 DEF Stream!MinOf
<1>5. n \in Nat BY <1>2, <1>3 DEF Stream!MinOf
<1> HIDE DEF n
<1>6. hashed' = chunk_end' BY <1>1, <1>2
<1>7. ASSUME n = 0 PROVE offset' = chunk_end' /\ chunk_end' = FileLen[file']
  BY <1>7, <1>1, <1>2, <1>3, <1>4
<1>8. Aligned'
  <2>1. CASE offset + n = FileLen[file] BY <2>1, <1>1 DEF Aligned
  <2>2. CASE n = ReadChunk
    <3>1. PICK m \in Nat : ReadChunk = SlotSize * m
      <4>1. /\ ReadChunk = SlotSize * (ReadChunk \div SlotSize)
                             + (ReadChunk % SlotSize)
            /\ ReadChunk \div SlotSize \in Nat
        BY <1>3, DivMod
      <4> DEFINE q == ReadChunk \div SlotSize
      <4>2. q \in Nat /\ ReadChunk = SlotSize * q + (ReadChunk % SlotSize)
        BY <4>1
      <4> HIDE DEF q
      <4>3. SlotSize * q \in Nat BY <4>2, <1>3
      <4>4. ReadChunk = SlotSize * q BY <4>2, <4>3, <1>3
      <4> QED BY <4>2, <4>4
    <3>2. SlotSize * m = m * SlotSize BY <3>1, <1>3
    <3>3. m <= m * SlotSize
      <4>1. PICK c \in Nat : SlotSize = c + 1 BY <1>3
      <4>2. m * SlotSize = m * c + m /\ m * c \in Nat BY <4>1, <3>1
      <4> QED BY <4>2, <3>1
    <3>4. chunk_end' - offset' = m * SlotSize BY <2>2, <3>1, <3>2, <1>1, <1>2, <1>3
    <3>5. m \in 0..chunk_end'
      BY <2>2, <3>1, <3>2, <3>3, <1>1, <1>2, <1>3
    <3> QED BY <3>4, <3>5 DEF Aligned
  <2> QED BY <2>1, <2>2, <1>4
<1> QED BY <1>1, <1>6, <1>7, <1>8 DEF PlaceInv

LEMMA OtherPlace ==
  ASSUME SInv, [Next]_vars, ~PublishBatch, ~ReadNext
  PROVE  PlaceInv'
<1>1. CASE StartFile
  BY <1>1 DEF StartFile, PlaceInv, Reading
<1>2. CASE FinishHashes
  <2>1. /\ worker = "finish" /\ worker' = "eof"
        /\ results' = [f \in DOMAIN results \union {file} |->
                         IF f = file THEN hashed ELSE results[f]]
        /\ UNCHANGED <<file, offset, chunk_end, hashed>>
    BY <1>2 DEF FinishHashes, WorkerGoes
  <2>2. hashed = chunk_end /\ offset = chunk_end /\ chunk_end = FileLen[file]
    BY <2>1 DEF SInv, PlaceInv, Reading
  <2>3. file \in DOMAIN results' /\ results'[file] = hashed BY <2>1
  <2> QED BY <2>1, <2>2, <2>3 DEF PlaceInv
<1>3. CASE \/ CreatePool \/ ReadFails \/ PublishStops \/ PublishEof
           \/ WorkerReports \/ WorkerExits \/ StartReader
  <2>1. worker' \notin Reading
    BY <1>3
    DEF CreatePool, ReadFails, PublishStops, PublishEof, WorkerReports,
        WorkerExits, StartReader, WorkerGoes, Reading
  <2> QED BY <2>1 DEF PlaceInv, Reading
<1>4. CASE \/ PublishWaits \/ \E f \in Files : SelectFile(f)
           \/ WatchdogLooks \/ WatchdogFails \/ HashFileFails
           \/ Consumer \/ Control \/ UNCHANGED vars
  <2>1. UNCHANGED <<worker, file, offset, chunk_end, hashed, results>>
    BY <1>4
    DEF PublishWaits, SelectFile, WatchdogLooks, WatchdogFails, HashFileFails,
        Consumer, CallAcquire, CallRefill, AcquireSlot, AcquireStops,
        AcquireWaits, RefillReturns, RefillWaits, WaitTimesOut, ReleaseHeld,
        ReleaseSlot, Control, CancelBegins, CancelEnds, DestroyBegins,
        DestroySignals, DestroyJoins, ControlSide, ConsumerSide, WorkerSide,
        workerVars, vars
  <2> QED BY <2>1 DEF SInv, PlaceInv, Aligned
<1> QED BY <1>1, <1>2, <1>3, <1>4 DEF Next, Worker

-----------------------------------------------------------------------------
(* The hashes of a file are there before its end-of-file slot.             *)
LEMMA HashStep ==
  ASSUME SInv, [Next]_vars
  PROVE  HashesBeforeEof'
<1>0. slots \in [Index -> Slot] BY DEF SInv, IInv, TypeOK
<1>1. CASE PublishBatch
  <2> DEFINE tokens(k) == {t \in write_index + 1..write_index + BatchSlots :
                             (t - 1) % SlotCount = k}
  <2>1. /\ slots' = [k \in Index |->
                       IF tokens(k) = {} THEN slots[k]
                       ELSE BatchSlot(CHOOSE t \in tokens(k) : TRUE)]
        /\ results' = results
    BY <1>1 DEF PublishBatch, WorkerSide
  <2>2. ASSUME NEW t PROVE ~BatchSlot(t).eof BY DEF BatchSlot
  <2> HIDE DEF tokens
  <2>3. \A k \in Index : slots'[k].eof => slots'[k] = slots[k]
    BY <2>1, <2>2
  <2> QED BY <2>1, <2>3 DEF SInv, HashesBeforeEof
<1>2. CASE PublishEof
  <2> DEFINE w == write_index % SlotCount
  <2>1. /\ slots' = [slots EXCEPT ![w] =
              [full |-> TRUE, token |-> write_index + 1, file |-> file,
               offset |-> FileLen[file], length |-> 0, eof |-> TRUE]]
        /\ results' = results /\ worker = "eof"
    BY <1>2 DEF PublishEof, WorkerSide
  <2>2. file \in DOMAIN results /\ results[file] = FileLen[file]
    BY <2>1 DEF SInv, PlaceInv
  <2> HIDE DEF w
  <2>3. ASSUME NEW k \in Index, slots'[k].full, slots'[k].eof
        PROVE  /\ slots'[k].file \in DOMAIN results
               /\ results[slots'[k].file] = FileLen[slots'[k].file]
    <3>1. CASE k = w
      <4>1. slots'[k].file = file BY <3>1, <2>1, <1>0
      <4> QED BY <4>1, <2>2
    <3>2. CASE k # w
      <4>1. slots'[k] = slots[k] BY <3>2, <2>1, <1>0
      <4> QED BY <4>1, <2>3 DEF SInv, HashesBeforeEof
    <3> QED BY <3>1, <3>2
  <2> QED BY <2>1, <2>3 DEF HashesBeforeEof
<1>3. CASE ReleaseHeld
  <2> DEFINE r == read_index % SlotCount
  <2>1. /\ slots' = [slots EXCEPT ![r] =
              [@ EXCEPT !.full = FALSE, !.length = 0, !.eof = FALSE]]
        /\ results' = results
    BY <1>3 DEF ReleaseHeld, ReleaseSlot, ConsumerSide
  <2>2. r \in Index BY NextSlotFull DEF SInv, IInv
  <2> HIDE DEF r
  <2>3. ~slots'[r].full BY <2>1, <2>2, <1>0 DEF Slot
  <2>4. \A k \in Index : k # r => slots'[k] = slots[k] BY <2>1, <1>0
  <2> QED BY <2>1, <2>3, <2>4 DEF SInv, HashesBeforeEof
<1>4. CASE FinishHashes
  <2>1. /\ worker = "finish" /\ slots' = slots
        /\ results' = [f \in DOMAIN results \union {file} |->
                         IF f = file THEN hashed ELSE results[f]]
    BY <1>4 DEF FinishHashes, ringVars
  <2>2. hashed = FileLen[file] BY <2>1 DEF SInv, PlaceInv, Reading
  <2>3. ASSUME NEW f \in DOMAIN results, results[f] = FileLen[f]
        PROVE  f \in DOMAIN results' /\ results'[f] = FileLen[f]
    BY <2>1, <2>2, <2>3
  <2> QED BY <2>1, <2>3 DEF SInv, HashesBeforeEof
<1>5. CASE ~PublishBatch /\ ~PublishEof /\ ~ReleaseHeld /\ ~FinishHashes
  <2>1. UNCHANGED <<slots, results>>
    BY <1>5
    DEF Next, SelectFile, StartReader, Worker, CreatePool, StartFile,
        ReadNext, ReadFails, PublishStops, PublishWaits, WorkerReports,
        WorkerExits, WatchdogLooks, WatchdogFails, HashFileFails, Consumer,
        CallAcquire, CallRefill, AcquireSlot, AcquireStops, AcquireWaits,
        RefillReturns, RefillWaits, WaitTimesOut, Control, CancelBegins,
        CancelEnds, DestroyBegins, DestroySignals, DestroyJoins, ControlSide,
        ConsumerSide, WorkerSide, ringVars, vars
  <2> QED BY <2>1 DEF SInv, HashesBeforeEof
<1> QED BY <1>1, <1>2, <1>3, <1>4, <1>5

-----------------------------------------------------------------------------
(* Before the start, and at the end.                                       *)
LEMMA EndStep ==
  ASSUME SInv, [Next]_vars
  PROVE  EndInv'
<1>0. /\ consumer = "ended" <=> ending # "open"
      /\ ~started =>
           /\ read_index = 0 /\ write_index = 0 /\ last = Stream!NoItem
           /\ done => error # "none"
           /\ consumer \in {"idle", "ended"}
           /\ consumer = "ended"
                => control \in {"destroying", "joining", "freed"}
      /\ ~started => worker = "unstarted"
      /\ "consumer" \in asleep => consumer \in {"acquire", "refill"}
  BY DEF SInv, EndInv, IInv, WorkerInv, SleepersMustWait
<1>1. CASE Worker
  <2>1. worker # "unstarted"
    BY <1>1
    DEF Worker, CreatePool, StartFile, ReadNext, ReadFails, PublishStops,
        PublishWaits, PublishBatch, FinishHashes, PublishEof, WorkerReports,
        WorkerExits, WouldPublish
  <2>2. UNCHANGED <<consumer, ending, started>>
    BY <1>1
    DEF Worker, CreatePool, StartFile, ReadNext, ReadFails, PublishStops,
        PublishWaits, PublishBatch, FinishHashes, PublishEof, WorkerReports,
        WorkerExits, WorkerSide, consumerVars, flagVars, SetError
  <2> QED BY <1>0, <2>1, <2>2 DEF EndInv
<1>2. CASE \/ \E f \in Files : SelectFile(f)
           \/ StartReader \/ WatchdogLooks \/ WatchdogFails \/ HashFileFails
           \/ UNCHANGED vars
  BY <1>0, <1>2
  DEF SelectFile, StartReader, WatchdogLooks, WatchdogFails, HashFileFails,
      SetError, vars, consumerVars, flagVars, ringVars, EndInv
<1>3. CASE Consumer
  <2>1. started
    <3>1. CASE ReleaseHeld
      <4>1. consumer = "hold" BY <3>1, ReleaseOnlyHeld DEF SInv
      <4> QED BY <4>1, <1>0
    <3>2. CASE ~ReleaseHeld
      BY <1>0, <1>3, <3>2
      DEF Consumer, CallAcquire, CallRefill, AcquireSlot, AcquireStops,
          AcquireWaits, RefillReturns, RefillWaits, WaitTimesOut
    <3> QED BY <3>1, <3>2
  <2>2. started' = started
    BY <1>3
    DEF Consumer, CallAcquire, CallRefill, AcquireSlot, AcquireStops,
        AcquireWaits, RefillReturns, RefillWaits, WaitTimesOut, ReleaseHeld,
        ReleaseSlot, ConsumerSide, flagVars
  <2>3. \/ consumer' = "ended" /\ ending' \in {"cancelled", "failed", "done"}
        \/ consumer' # "ended" /\ consumer # "ended" /\ ending' = ending
    BY <1>0, <1>3
    DEF Consumer, CallAcquire, CallRefill, AcquireSlot, AcquireStops,
        AcquireWaits, RefillReturns, RefillWaits, WaitTimesOut, ReleaseHeld,
        ReleaseSlot, ConsumerGoes, ConsumerEnds, StopReason, consumerVars
  <2> QED BY <1>0, <2>1, <2>2, <2>3 DEF EndInv
<1>4. CASE Control
  BY <1>0, <1>4
  DEF Control, CancelBegins, CancelEnds, DestroyBegins, DestroySignals,
      DestroyJoins, ControlSide, consumerVars, ringVars, EndInv
<1> QED BY <1>1, <1>2, <1>3, <1>4 DEF Next

-----------------------------------------------------------------------------
(* The theorems.                                                           *)
LEMMA InitSInv == Init => SInv
<1> SUFFICES ASSUME Init PROVE SInv OBVIOUS
<1>1. SlotCount \in Nat \ {0} BY ConstFacts
<1>2. ChainInv BY DEF Init, ChainInv, Positions, Reading
<1>3. PlaceInv /\ EndInv BY DEF Init, PlaceInv, EndInv, Reading
<1>4. HashesBeforeEof BY DEF Init, HashesBeforeEof
<1> QED BY <1>2, <1>3, <1>4, InitIInv DEF SInv

LEMMA NextSInv == SInv /\ [Next]_vars => SInv'
<1> SUFFICES ASSUME SInv, [Next]_vars PROVE SInv' OBVIOUS
<1>1. IInv' BY NextIInv DEF SInv
<1>2. ChainInv'
  BY BatchChain, EofChain, ReleaseChain, WorkerChain, OtherChain DEF Next
<1>3. PlaceInv' BY BatchPlace, ReadPlace, OtherPlace
<1> QED BY <1>1, <1>2, <1>3, EndStep, HashStep DEF SInv

THEOREM StreamInvariant == Spec => []SInv
BY InitSInv, NextSInv, PTL DEF Spec

(* Whoever sees the end of a file in the ring can fetch its hashes.        *)
THEOREM HashesComplete == Spec => []HashesBeforeEof
<1>1. SInv => HashesBeforeEof BY DEF SInv
<1> QED BY <1>1, StreamInvariant, PTL

(* What the worker publishes never touches the slot the consumer reads     *)
(* without the lock.                                                       *)
THEOREM SlotStable == Spec => BorrowedSlotStable
<1>1. IInv /\ [Next]_vars
        => [consumer = "hold" /\ consumer' = "hold"
              => /\ slots'[read_index % SlotCount] = NextSlot
                 /\ read_index' = read_index]_vars
  <2> SUFFICES ASSUME IInv, Next, consumer = "hold", consumer' = "hold"
               PROVE  /\ slots'[read_index % SlotCount] = NextSlot
                      /\ read_index' = read_index
    OBVIOUS
  <2>1. /\ read_index < write_index
        /\ read_index \in Nat /\ write_index \in Nat
        /\ slots \in [Index -> Slot]
    BY DEF IInv, HoldInv, TypeOK
  <2>2. CASE PublishBatch
    <3>1. read_index \in Positions BY <2>1 DEF Positions
    <3>2. read_index' = read_index BY <2>2 DEF PublishBatch
    <3> QED BY <3>1, <3>2, <2>2, BatchRing DEF NextSlot
  <2>3. CASE PublishEof
    <3>1. NextSlot.full BY <2>1, NextSlotFull DEF IInv
    <3>2. ~slots[write_index % SlotCount].full
      BY <2>3 DEF PublishEof, WouldPublish, RingFull
    <3>3. read_index % SlotCount # write_index % SlotCount
      BY <3>1, <3>2 DEF NextSlot
    <3>4. read_index % SlotCount \in Index BY NextSlotFull DEF IInv
    <3> QED BY <3>3, <3>4, <2>1, <2>3 DEF PublishEof, NextSlot
  <2>4. CASE ~PublishBatch /\ ~PublishEof
    <3>1. ~ReleaseHeld BY DEF ReleaseHeld, ReleaseSlot
    <3>2. UNCHANGED <<slots, read_index>>
      BY <2>4, <3>1
      DEF Next, SelectFile, StartReader, Worker, CreatePool, StartFile,
          ReadNext, ReadFails, PublishStops, PublishWaits, FinishHashes,
          WorkerReports, WorkerExits, WatchdogLooks, WatchdogFails,
          HashFileFails, Consumer, CallAcquire, CallRefill, AcquireSlot,
          AcquireStops, AcquireWaits, RefillReturns, RefillWaits,
          WaitTimesOut, Control, CancelBegins, CancelEnds, DestroyBegins,
          DestroySignals, DestroyJoins, ControlSide, ringVars
    <3> QED BY <3>2 DEF NextSlot
  <2> QED BY <2>2, <2>3, <2>4
<1> QED BY <1>1, Invariant, PTL DEF Spec, BorrowedSlotStable

LEMMA NextRefines ==
  SInv /\ SInv' /\ [Next]_vars => [Stream!Next]_Stream!streamVars
<1> SUFFICES ASSUME SInv, SInv', [Next]_vars
             PROVE  Stream!Next \/ UNCHANGED <<selected, last, ending>>
  BY DEF Stream!streamVars
<1> DEFINE Goal == Stream!Next \/ UNCHANGED <<selected, last, ending>>
<1>0. /\ consumer = "ended" <=> ending # "open"
      /\ ending' \in Stream!Endings \union {"open"}
      /\ last' \in Stream!Item
  BY DEF SInv, EndInv, IInv, TypeOK
<1>1. ASSUME NEW f \in Files, SelectFile(f) PROVE Goal
  <2>1. last = Stream!NoItem /\ ending = "open"
    BY <1>1 DEF SInv, EndInv, SelectFile
  <2>2. Stream!Choose(f)
    BY <1>1, <2>1 DEF Stream!Choose, SelectFile, consumerVars, Files
  <2> QED BY <2>2 DEF Stream!Next, Files
<1>2. CASE ReleaseHeld
  <2>1. consumer = "hold" /\ read_index < write_index
    BY <1>2, ReleaseOnlyHeld DEF SInv
  <2>2. /\ ending = "open" /\ ending' = ending /\ selected' = selected
        /\ last' = ItemOf(NextSlot)
    BY <1>0, <1>2, <2>1
    DEF ReleaseHeld, ReleaseSlot, ItemOf, ConsumerSide, flagVars
  <2>3. read_index \in Positions
    BY <2>1 DEF Positions, SInv, IInv, TypeOK
  <2>4. Stream!Follows(selected, last, ItemOf(NextSlot))
    BY <2>3 DEF SInv, ChainInv, Before, NextSlot
  <2>5. Stream!Receive BY <1>0, <2>2, <2>4 DEF Stream!Receive
  <2> QED BY <2>5 DEF Stream!Next
<1>3. CASE AcquireStops
  <2>1. /\ consumer = "acquire" /\ ~NextSlot.full
        /\ ending' = StopReason /\ UNCHANGED <<selected, last>>
        /\ cancelled \/ error # "none" \/ done
    BY <1>3 DEF AcquireStops, ConsumerEnds, ConsumerSide, flagVars
  <2>2. ending = "open" BY <1>0, <2>1
  <2>3. ending' = "done" => Stream!IsLast(selected, last)
    <3> SUFFICES ASSUME ending' = "done" PROVE Stream!IsLast(selected, last)
      OBVIOUS
    <3>1. done /\ ~cancelled /\ error = "none" BY <2>1 DEF StopReason
    <3>2. Stream!IsLast(selected, Before(write_index))
      BY <3>1 DEF SInv, ChainInv
    <3>3. read_index = write_index
      <4>1. /\ ~(read_index < write_index) /\ read_index <= write_index
            /\ read_index \in Nat /\ write_index \in Nat
        BY <2>1, NextSlotFull DEF SInv, IInv, RingInv, TypeOK
      <4> QED BY <4>1
    <3> QED BY <3>2, <3>3 DEF Before
  <2>4. ending' \in Stream!Endings
    BY <2>1 DEF StopReason, Stream!Endings
  <2>5. Stream!End BY <2>1, <2>2, <2>3, <2>4 DEF Stream!End
  <2> QED BY <2>5 DEF Stream!Next
<1>4. CASE \/ \E f \in Files \union {0} : AcquireSlot(f)
           \/ RefillReturns \/ DestroyBegins
  <2>1. /\ UNCHANGED <<selected, last>>
        /\ ending' # ending
             => ending = "open" /\ ending' \in {"failed", "cancelled"}
    BY <1>0, <1>4
    DEF AcquireSlot, RefillReturns, DestroyBegins, ConsumerGoes, ConsumerEnds,
        ConsumerSide, StopReason, flagVars
  <2>2. ASSUME ending' # ending PROVE Stream!End
    BY <2>1, <2>2 DEF Stream!End, Stream!Endings
  <2> QED BY <2>1, <2>2 DEF Stream!Next
<1>5. CASE \/ StartReader \/ Worker
           \/ WatchdogLooks \/ WatchdogFails \/ HashFileFails
           \/ CallAcquire \/ \E t \in RefillTargets : CallRefill(t)
           \/ AcquireWaits \/ RefillWaits \/ WaitTimesOut
           \/ CancelBegins \/ CancelEnds \/ DestroySignals \/ DestroyJoins
           \/ UNCHANGED vars
  BY <1>5
  DEF StartReader, Worker, CreatePool, StartFile, ReadNext, ReadFails,
      PublishStops, PublishWaits, PublishBatch, FinishHashes, PublishEof,
      WorkerReports, WorkerExits, WatchdogLooks, WatchdogFails, HashFileFails,
      CallAcquire, CallRefill, AcquireWaits, RefillWaits, WaitTimesOut,
      CancelBegins, CancelEnds, DestroySignals, DestroyJoins, ControlSide,
      ConsumerSide, WorkerSide, ConsumerGoes, SetError, consumerVars,
      flagVars, vars
<1> QED
  BY <1>1, <1>2, <1>3, <1>4, <1>5 DEF Next, Consumer, Control

(* What the consumer receives is the stream FileStream specifies, however  *)
(* chunks are split over slots and whoever cancels, fails or destroys.     *)
THEOREM Refinement == Spec => ImplementsStream
<1>1. Init => Stream!Init BY DEF Init, Stream!Init
<1> QED
  BY <1>1, NextRefines, StreamInvariant, PTL
  DEF Spec, ImplementsStream, Stream!Spec
=============================================================================
