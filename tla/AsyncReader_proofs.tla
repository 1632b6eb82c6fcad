------------------------- MODULE AsyncReader_proofs -------------------------
(***************************************************************************)
(* Proofs about AsyncReader for any files, queue and look-ahead: the       *)
(* kernel never has a buffer that was freed or given out again, the        *)
(* internal checks cannot fire, and the chunks are delivered in order over *)
(* any number of retries.                                                  *)
(*                                                                         *)
(* The invariant counts the requests the kernel owns: while a reader is    *)
(* open they are those it takes for in flight, and while it is dropped     *)
(* their number is what it still waits for.  Beside that it says which     *)
(* phase has which reader open and which chunk comes next.                 *)
(***************************************************************************)
EXTENDS AsyncReader, FiniteSetTheorems, TLAPS

Readers == {"current", "ahead"}
Owned(r) == {k \in Requests : kernel[r][k] # "free"}
Inflight(r) == {k \in Requests : reader[r].state[k] = "inflight"}

\* The phases in which the current file has an open reader.
Reading == {"prime", "ahead", "prime_ahead", "run", "submit", "drop_ahead"}

\* The current reader exists while the file is read, and it hands out the
\* chunk the consumer waits for.
CurrentInv ==
  /\ worker \in Reading =>
       reader.current.open /\ reader.current.next_consume = next_offset
  /\ worker \notin Reading \cup {"drop"} => ~reader.current.open

\* A reader is prepared for the file after the current one, or not at all.
AheadInv ==
  /\ reader.ahead.open <=> prepared = "reader" \/ worker = "drop_ahead"
  /\ worker = "drop_ahead" => prepared # "reader"
  /\ worker = "prime_ahead" => prepared = "reader"
  /\ worker \in {"open", "prime", "ahead", "decide", "backoff"} =>
       prepared = "none"
  /\ reader.ahead.open => reader.ahead.next_consume = 0
  /\ prepared # "none" =>
       /\ worker = "file" => prepared_for = file
       /\ \/ worker \in {"prime_ahead", "run", "submit", "drop_ahead", "eof"}
          \/ worker = "drop" /\ error = "none"
          => prepared_for = file + 1

\* The item delivered last is the one before the next chunk.
Delivered ==
  IF next_offset > 0 THEN Stream!ItemAt(file, next_offset - 1)
  ELSE IF file = 1 THEN Stream!NoItem
       ELSE Stream!ItemAt(file - 1, FileLen[file - 1])

StreamInv ==
  /\ worker \notin {"file", "ended"} => file \in Files
  /\ worker \in {"ahead", "prime_ahead"} => file + 1 \in Files
  /\ worker = "file" \/ file \notin Files => next_offset = 0
  /\ file \in Files => next_offset <= FileLen[file]
  /\ worker = "eof" \/ (worker = "drop" /\ error = "none") =>
       next_offset = FileLen[file]
  /\ last = Delivered
  /\ outcome = "done" => worker = "ended" /\ Stream!IsLast(Files, last)

IInv ==
  /\ TypeOK /\ CurrentInv /\ AheadInv /\ StreamInv
  /\ KernelBuffersAlive /\ ChecksNeverFire

-----------------------------------------------------------------------------
\* Facts about the constants and the items.

LEMMA ConstFacts ==
  /\ Len(FileLen) \in Nat /\ Files = 1..Len(FileLen)
  /\ \A f \in Files : FileLen[f] \in Nat \ {0}
  /\ QueueDepth \in Nat \ {0} /\ MaxRetries \in Nat
BY AsyncAssumption DEF AsyncAssumption, Files, Stream!Files

\* A set of requests is finite.
LEMMA RequestSets ==
  ASSUME NEW S \in SUBSET Requests
  PROVE  IsFiniteSet(S) /\ Cardinality(S) \in Nat
<1>1. IsFiniteSet(Requests)
  BY ConstFacts, FS_Interval DEF Requests
<1> QED BY <1>1, FS_Subset, FS_CardinalityType

\* An item starts within its file; it is the last when nothing is left.
LEMMA ItemFacts ==
  ASSUME NEW f \in Files, NEW o \in 0..FileLen[f]
  PROVE  LET item == Stream!ItemAt(f, o)
         IN  /\ item \in Stream!Item
             /\ item.file = f /\ item.offset = o
             /\ item.eof <=> o = FileLen[f]
             /\ o < FileLen[f] => item.length = 1
<1> DEFINE n == FileLen[f] - o
<1>1. FileLen[f] \in Nat /\ o \in Nat /\ o <= FileLen[f] /\ f \in Nat
  BY ConstFacts
<1>2. Stream!MinOf(1, n) \in Nat /\ (o < FileLen[f] => Stream!MinOf(1, n) = 1)
  BY <1>1 DEF Stream!MinOf
<1> QED BY <1>1, <1>2 DEF Stream!ItemAt, Stream!Item

LEMMA NoItemFacts ==
  /\ Stream!NoItem \in Stream!Item
  /\ Stream!NoItem.file = 0 /\ Stream!NoItem.eof
BY DEF Stream!NoItem, Stream!Item

\* All files are streamed, so each is followed by the next.
LEMMA NextOfAll ==
  ASSUME NEW f \in 0..Len(FileLen)
  PROVE  Stream!NextFile(Files, f) = f + 1
<1>1. CASE f + 1 \in Files
  <2>1. Stream!IsNextFile(Files, f, f + 1)
    BY <1>1, ConstFacts DEF Stream!IsNextFile
  <2>2. \A g \in Files : Stream!IsNextFile(Files, f, g) => g = f + 1
    BY <1>1, ConstFacts DEF Stream!IsNextFile
  <2> QED BY <1>1, <2>1, <2>2 DEF Stream!NextFile
<1>2. CASE f + 1 \notin Files
  <2>1. f = Len(FileLen) BY <1>2, ConstFacts
  <2>2. \A g \in Files : ~Stream!IsNextFile(Files, f, g)
    BY <2>1, ConstFacts DEF Stream!IsNextFile
  <2> QED BY <2>1, <2>2 DEF Stream!NextFile
<1> QED BY <1>1, <1>2

-----------------------------------------------------------------------------
\* Submitting a request and taking completions.

\* One reader's part of KernelBuffersAlive.
Alive(r) ==
  /\ Owned(r) # {} => reader[r].open
  /\ reader[r].outstanding = Cardinality(Owned(r))
  /\ ~Draining(r) => Owned(r) = Inflight(r)

LEMMA AliveEach == KernelBuffersAlive <=> \A r \in Readers : Alive(r)
BY DEF KernelBuffersAlive, Alive, Owned, Inflight, Readers

LEMMA AliveNext ==
  ASSUME \A r \in Readers : Alive(r)'
  PROVE  KernelBuffersAlive'
BY DEF KernelBuffersAlive, Alive, Owned, Inflight, Readers

\* Other readers and other phases leave the memory of a reader alone.
LEMMA AliveStays ==
  ASSUME NEW r \in Readers, Alive(r), reader'[r] = reader[r],
         kernel'[r] = kernel[r], Draining(r) => Draining(r)'
  PROVE  Alive(r)'
<1>1. Owned(r)' = Owned(r) /\ Inflight(r)' = Inflight(r)
  BY DEF Owned, Inflight
<1> QED BY <1>1 DEF Alive

LEMMA SubmitFacts ==
  ASSUME TypeOK, NEW r \in Readers, NEW k \in Requests, Submitted(r, k)
  PROVE  /\ reader' \in [Readers -> Reader]
         /\ \A q \in Readers \ {r} :
              reader'[q] = reader[q] /\ kernel'[q] = kernel[q]
         /\ reader'[r].open = reader[r].open
         /\ reader'[r].next_consume = reader[r].next_consume
         /\ reader'[r].outstanding = reader[r].outstanding + 1
         /\ reader'[r].state = [reader[r].state EXCEPT ![k] = "inflight"]
         /\ kernel' \in
              [Readers -> [Requests -> {"free", "busy"} \cup Completions]]
         /\ kernel'[r] = [kernel[r] EXCEPT ![k] = "busy"]
<1> DEFINE R == reader[r]
           N == [open |-> R.open, next_submit |-> R.next_submit + 1,
                 next_consume |-> R.next_consume,
                 outstanding |-> R.outstanding + 1,
                 state |-> [R.state EXCEPT ![k] = "inflight"],
                 offset |-> [R.offset EXCEPT ![k] = R.next_submit]]
<1>0. reader \in [Readers -> Reader] BY DEF TypeOK, Readers
<1>1. R \in Reader BY <1>0
<1>2. reader' = [reader EXCEPT ![r] = N]
  BY <1>0, <1>1 DEF Submitted, Reader
<1>3. N \in Reader BY <1>1 DEF Reader
<1>4. /\ kernel' \in
           [Readers -> [Requests -> {"free", "busy"} \cup Completions]]
      /\ kernel'[r] = [kernel[r] EXCEPT ![k] = "busy"]
      /\ \A q \in Readers \ {r} : kernel'[q] = kernel[q]
  BY DEF Submitted, TypeOK, Readers
<1> HIDE DEF N
<1>5. /\ reader'[r] = N /\ reader' \in [Readers -> Reader]
      /\ \A q \in Readers \ {r} : reader'[q] = reader[q]
  BY <1>2, <1>3 DEF TypeOK, Readers
<1> QED BY <1>4, <1>5 DEF N

\* A request is submitted only into memory the kernel does not have.
LEMMA SubmitKeeps ==
  ASSUME TypeOK, KernelBuffersAlive, NEW r \in Readers, NEW k \in Idle(r),
         Submitted(r, k), reader[r].open, ~Draining(r),
         \A q \in Readers \ {r} : Draining(q) => Draining(q)'
  PROVE  KernelBuffersAlive'
<1>1. k \in Requests /\ reader[r].state[k] = "idle" BY DEF Idle
<1>2. Alive(r) BY AliveEach
<1>3. k \notin Owned(r) BY <1>1, <1>2 DEF Alive, Inflight
<1>4. Owned(r)' = Owned(r) \cup {k} /\ Inflight(r)' = Inflight(r) \cup {k}
  <2>1. reader[r].state \in [Requests -> {"idle", "inflight"} \cup Completions]
        /\ kernel[r] \in [Requests -> {"free", "busy"} \cup Completions]
    BY DEF TypeOK, Reader, Readers
  <2>2. /\ reader'[r].state = [reader[r].state EXCEPT ![k] = "inflight"]
        /\ kernel'[r] = [kernel[r] EXCEPT ![k] = "busy"]
    BY <1>1, SubmitFacts
  <2>3. Inflight(r)' = Inflight(r) \cup {k}
    BY <1>1, <2>1, <2>2 DEF Inflight
  <2>4. Owned(r)' = Owned(r) \cup {k} BY <1>1, <2>1, <2>2 DEF Owned
  <2> QED BY <2>3, <2>4
<1>5. Cardinality(Owned(r)') = Cardinality(Owned(r)) + 1
  <2>1. IsFiniteSet(Owned(r)) BY RequestSets DEF Owned
  <2> QED BY <1>3, <1>4, <2>1, FS_AddElement
<1>6. Alive(r)' BY <1>1, <1>2, <1>4, <1>5, SubmitFacts DEF Alive
<1>7. \A q \in Readers \ {r} : Alive(q)'
  BY <1>1, AliveEach, AliveStays, SubmitFacts
<1> QED BY <1>6, <1>7, AliveNext

\* The packets taken are requests of that reader the kernel is done with.
LEMMA TakenFacts ==
  ASSUME TypeOK, KernelBuffersAlive, NEW r \in Readers, NEW P \in Batches(r),
         Taken(r, P)
  PROVE  /\ P \subseteq Owned(r) /\ P \subseteq Requests
         /\ Owned(r)' = Owned(r) \ P
         /\ Cardinality(P) \in Nat
         /\ Cardinality(P) <= reader[r].outstanding
         /\ Cardinality(Owned(r)') = reader[r].outstanding - Cardinality(P)
         /\ kernel' \in
              [Readers -> [Requests -> {"free", "busy"} \cup Completions]]
         /\ \A q \in Readers \ {r} : kernel'[q] = kernel[q]
<1>1. P \subseteq Owned(r) /\ P \subseteq Requests
  BY DEF Batches, Packets, Owned, Completions
<1>2. /\ kernel' \in
           [Readers -> [Requests -> {"free", "busy"} \cup Completions]]
      /\ \A q \in Readers \ {r} : kernel'[q] = kernel[q]
      /\ \A k \in Requests :
           kernel'[r][k] = IF k \in P THEN "free" ELSE kernel[r][k]
  BY DEF Taken, TypeOK, Readers
<1>3. Owned(r)' = Owned(r) \ P BY <1>2 DEF Owned
<1>4. Alive(r) BY AliveEach
<1>5. IsFiniteSet(Owned(r)) /\ IsFiniteSet(P) /\ Cardinality(P) \in Nat
  BY <1>1, RequestSets DEF Owned
<1>6. Cardinality(Owned(r) \ P) = Cardinality(Owned(r)) - Cardinality(P)
  <2>1. Owned(r) = (Owned(r) \ P) \cup P /\ (Owned(r) \ P) \cap P = {}
    BY <1>1
  <2>2. Cardinality(Owned(r) \ P) \in Nat /\ IsFiniteSet(Owned(r) \ P)
    BY RequestSets DEF Owned
  <2>3. Cardinality(Owned(r))
          = Cardinality(Owned(r) \ P) + Cardinality(P) - Cardinality({})
    BY <1>5, <2>1, <2>2, FS_Union
  <2> QED BY <1>5, <2>2, <2>3, FS_EmptySet
<1>7. Cardinality(P) <= Cardinality(Owned(r)) BY <1>1, <1>5, FS_Subset
<1> QED BY <1>1, <1>2, <1>3, <1>4, <1>5, <1>6, <1>7 DEF Alive

-----------------------------------------------------------------------------
\* The invariant holds in the beginning.

LEMMA ClosedFacts ==
  /\ Closed \in Reader /\ ~Closed.open /\ Closed.outstanding = 0
  /\ \A k \in Requests : Closed.state[k] = "idle"
BY DEF Closed, Reader, AllIdle

LEMMA OpenedFacts ==
  ASSUME NEW n \in Nat
  PROVE  /\ Opened(n) \in Reader /\ Opened(n).open
         /\ Opened(n).next_consume = n /\ Opened(n).outstanding = 0
         /\ \A k \in Requests : Opened(n).state[k] = "idle"
BY DEF Opened, Closed, Reader, AllIdle

LEMMA UnusedFacts ==
  /\ Unused \in [Requests -> {"free", "busy"} \cup Completions]
  /\ \A k \in Requests : Unused[k] = "free"
BY DEF Unused

\* A reader without requests has no memory to keep.
LEMMA AliveFresh ==
  ASSUME NEW r \in Readers, reader'[r].outstanding = 0,
         \A k \in Requests : reader'[r].state[k] = "idle",
         \A k \in Requests : kernel'[r][k] = "free"
  PROVE  Alive(r)'
<1>1. Owned(r)' = {} /\ Inflight(r)' = {} BY DEF Owned, Inflight
<1> QED BY <1>1, FS_EmptySet DEF Alive

\* The parts of the type invariant that concern the readers.
ReaderTypeOK ==
  /\ reader \in [Readers -> Reader]
  /\ kernel \in [Readers -> [Requests -> {"free", "busy"} \cup Completions]]

LEMMA InitHolds == Init => IInv
<1> SUFFICES ASSUME Init PROVE IInv OBVIOUS
<1>1. /\ reader \in [Readers -> Reader] /\ \A r \in Readers : reader[r] = Closed
      /\ kernel \in [Readers -> [Requests -> {"free", "busy"} \cup Completions]]
      /\ \A r \in Readers : kernel[r] = Unused
  BY ClosedFacts, UnusedFacts DEF Init, Readers
<1>2. TypeOK
  <2>1. ReaderTypeOK BY <1>1 DEF ReaderTypeOK
  <2>2. /\ file \in 1..(Len(FileLen) + 1) /\ next_offset \in Nat
        /\ attempt_offset \in Nat /\ consecutive_retries \in 0..MaxRetries
        /\ last \in Stream!Item
    BY ConstFacts, NoItemFacts DEF Init
  <2> QED BY <2>1, <2>2 DEF Init, TypeOK, ReaderTypeOK, Readers, Errors
<1>3. KernelBuffersAlive
  <2>1. ASSUME NEW r \in Readers PROVE Alive(r)
    <3>1. Owned(r) = {} /\ Inflight(r) = {}
      BY <1>1, ClosedFacts, UnusedFacts DEF Owned, Inflight
    <3> QED BY <1>1, <3>1, ClosedFacts, FS_EmptySet DEF Alive
  <2> QED BY <2>1, AliveEach
<1>4. CurrentInv /\ AheadInv
  BY <1>1, ClosedFacts DEF Init, CurrentInv, AheadInv, Reading, Readers
<1>5. StreamInv BY ConstFacts DEF Init, StreamInv, Delivered
<1> QED BY <1>2, <1>3, <1>4, <1>5 DEF Init, IInv, ChecksNeverFire

-----------------------------------------------------------------------------
\* Every step keeps it.

\* What a step that touches no reader has to show of the memory.
LEMMA MemoryStays ==
  ASSUME KernelBuffersAlive, UNCHANGED <<reader, kernel>>,
         \A r \in Readers : Draining(r) => Draining(r)'
  PROVE  KernelBuffersAlive'
BY AliveEach, AliveStays, AliveNext

LEMMA StartFileKeeps == ASSUME IInv, StartFile PROVE IInv'
<1> USE DEF StartFile, Fails, Goto, progress, ahead
<1>1. /\ worker = "file" /\ prepared # "none" => prepared_for = file
      /\ ~reader.current.open /\ next_offset = 0
      /\ reader.ahead.open <=> prepared = "reader"
      /\ reader.ahead.open => reader.ahead.next_consume = 0
  BY DEF IInv, CurrentInv, AheadInv, StreamInv, Reading
<1>2. CASE TakesPrepared /\ prepared = "reader" /\ file \in Files
           /\ ~cancelled /\ UNCHANGED <<check_fired, outcome>>
  <2> USE <1>2 DEF TakesPrepared
  <2>1. /\ ReaderTypeOK'
        /\ reader'["current"] = reader["ahead"] /\ reader'["ahead"] = Closed
        /\ kernel'["current"] = kernel["ahead"] /\ kernel'["ahead"] = Unused
    BY ClosedFacts, UnusedFacts DEF IInv, TypeOK, ReaderTypeOK, Readers
  <2>2. TypeOK' BY <2>1 DEF IInv, TypeOK, ReaderTypeOK, Readers
  <2>3. Alive("ahead") /\ ~Draining("ahead")
    BY <1>1, AliveEach DEF IInv, Readers, Draining
  <2>4. Owned("current")' = Owned("ahead")
        /\ Inflight("current")' = Inflight("ahead")
    BY <2>1 DEF Owned, Inflight
  <2>5. Alive("current")' BY <2>1, <2>3, <2>4 DEF Alive
  <2>6. Alive("ahead")'
    BY <2>1, ClosedFacts, UnusedFacts, AliveFresh DEF Readers
  <2>7. KernelBuffersAlive' BY <2>5, <2>6, AliveNext DEF Readers
  <2>8. CurrentInv' BY <1>1, <2>1 DEF CurrentInv, Reading
  <2>9. AheadInv' BY <2>1, ClosedFacts DEF AheadInv
  <2>10. StreamInv' BY DEF IInv, StreamInv, Delivered
  <2> QED BY <2>2, <2>7, <2>8, <2>9, <2>10 DEF IInv, ChecksNeverFire
<1>3. CASE ~(TakesPrepared /\ prepared = "reader" /\ file \in Files
             /\ ~cancelled /\ UNCHANGED <<check_fired, outcome>>)
  <2>1. /\ UNCHANGED <<reader, kernel, check_fired>>
        /\ \/ file \notin Files /\ worker' = "ended" /\ outcome' = "done"
              /\ UNCHANGED <<error, prepared>>
           \/ file \in Files /\ worker' = "drop" /\ error' = "cancelled"
              /\ UNCHANGED <<outcome, prepared>>
           \/ file \in Files /\ worker' = "drop" /\ prepared' = "none"
              /\ prepared # "none" /\ prepared # "reader"
              /\ error' = prepared /\ UNCHANGED outcome
           \/ file \in Files /\ worker' = "open" /\ prepared = "none"
              /\ UNCHANGED <<error, outcome, prepared>>
    BY <1>1, <1>3 DEF CheckFires, TakesPrepared
  <2>2. TypeOK'
    BY <2>1 DEF IInv, TypeOK, Errors, TakesPrepared, Stream!Endings
  <2>3. \A r \in Readers : Draining(r) => Draining(r)'
    BY <1>1 DEF Draining, Readers
  <2>4. KernelBuffersAlive' BY <2>1, <2>3, MemoryStays DEF IInv
  <2>5. CurrentInv' BY <1>1, <2>1 DEF CurrentInv, Reading
  <2>6. AheadInv' BY <1>1, <2>1 DEF IInv, AheadInv, TypeOK, Errors
  <2>7. StreamInv'
    <3>1. Delivered' = Delivered /\ UNCHANGED last BY DEF Delivered
    <3>2. CASE file \in Files
      BY <1>1, <2>1, <3>1, <3>2 DEF IInv, StreamInv, TypeOK, Errors
    <3>3. CASE file \notin Files
      <4>1. file = Len(FileLen) + 1 /\ Len(FileLen) \in Nat
        BY <3>3, ConstFacts DEF IInv, TypeOK
      <4>2. last = Delivered /\ next_offset = 0 BY <1>1 DEF IInv, StreamInv
      <4>3. Stream!IsLast(Files, last)
        <5>1. CASE file = 1
          BY <4>1, <4>2, <5>1, NoItemFacts, NextOfAll, ConstFacts
          DEF Delivered, Stream!IsLast, Files
        <5>2. CASE file # 1
          <6>1. file - 1 \in Files /\ FileLen[file - 1] \in 0..FileLen[file - 1]
            BY <4>1, <5>2, ConstFacts
          <6>2. last.eof /\ last.file = Len(FileLen)
            BY <4>1, <4>2, <5>2, <6>1, ItemFacts DEF Delivered
          <6> QED BY <4>1, <6>2, NextOfAll, ConstFacts DEF Stream!IsLast, Files
        <5> QED BY <5>1, <5>2
      <4> QED BY <1>1, <2>1, <3>1, <3>3, <4>3 DEF IInv, StreamInv
    <3> QED BY <3>2, <3>3
  <2> QED BY <2>1, <2>2, <2>4, <2>5, <2>6, <2>7 DEF IInv, ChecksNeverFire
<1> QED BY <1>2, <1>3

LEMMA OpenKeeps == ASSUME IInv, Open PROVE IInv'
<1> USE DEF Open, Fails, Goto, ahead
<1>1. /\ worker = "open" /\ ~reader.current.open /\ prepared = "none"
      /\ ~reader.ahead.open /\ file \in Files
  BY DEF IInv, CurrentInv, AheadInv, StreamInv, Reading
<1>2. Delivered' = Delivered BY DEF Delivered
<1>3. StreamInv' BY <1>1, <1>2, ConstFacts
      DEF IInv, StreamInv, TypeOK, SubmitErrors
<1>4. CASE worker' = "prime" /\ UNCHANGED error
           /\ reader' = [reader EXCEPT !.current = Opened(ResumeAt)]
  <2>1. /\ ReaderTypeOK' /\ UNCHANGED kernel
        /\ reader'["current"] = Opened(next_offset)
        /\ reader'["ahead"] = reader["ahead"]
    BY <1>4, OpenedFacts DEF IInv, TypeOK, ReaderTypeOK, Readers, ResumeAt
  <2>2. TypeOK' BY <1>4, <2>1 DEF IInv, TypeOK, ReaderTypeOK, Readers
  <2>3. Alive("current") /\ Alive("ahead") BY AliveEach DEF IInv, Readers
  <2>4. Alive("ahead")'
    BY <1>1, <2>1, <2>3, AliveStays DEF Draining, Readers
  <2>5. \A k \in Requests : kernel'["current"][k] = "free"
    BY <1>1, <2>1, <2>3 DEF Alive, Owned
  <2>6. Alive("current")'
    BY <2>1, <2>5, OpenedFacts, AliveFresh DEF IInv, TypeOK, Readers
  <2>7. KernelBuffersAlive' BY <2>4, <2>6, AliveNext DEF Readers
  <2>8. CurrentInv'
    BY <1>4, <2>1, OpenedFacts DEF IInv, TypeOK, CurrentInv, Reading
  <2>9. AheadInv' BY <1>1, <1>4, <2>1 DEF AheadInv
  <2> QED BY <1>3, <2>2, <2>7, <2>8, <2>9 DEF IInv, ChecksNeverFire
<1>5. CASE worker' = "drop" /\ error' \in Errors /\ UNCHANGED reader
  <2>1. TypeOK' BY <1>5 DEF IInv, TypeOK
  <2>2. KernelBuffersAlive'
    <3>1. \A r \in Readers : Draining(r) => Draining(r)'
      BY <1>1, <1>5 DEF Draining, Readers
    <3> QED BY <1>5, <3>1, MemoryStays DEF IInv
  <2>3. CurrentInv' /\ AheadInv'
    BY <1>1, <1>5 DEF CurrentInv, AheadInv, Reading, Errors
  <2> QED BY <1>3, <2>1, <2>2, <2>3 DEF IInv, ChecksNeverFire
<1> QED BY <1>1, <1>4, <1>5 DEF SubmitErrors, Errors

\* Steps of a file that is being read, or is set aside, but leave the
\* memory, the prepared reader and the stream as they are.
LEMMA PhaseKeeps ==
  ASSUME IInv, UNCHANGED <<progress, ahead, reader, kernel, outcome, history>>,
         worker \in Reading,
         worker' \in Reading \cup {"drop"}, worker' # "drop_ahead",
         worker = "drop_ahead" => worker' = worker,
         worker' \in {"ahead", "prime_ahead"} =>
           file + 1 \in Files /\ (worker' = "prime_ahead" => worker = "prime_ahead"),
         worker' = "prime" => worker = "prime",
         worker' = "ahead" => prepared = "none",
         error' \in Errors \cup {"none"}, cancelled' \in BOOLEAN,
         worker' = "drop" /\ error' = "none" => next_offset = FileLen[file]
  PROVE  IInv'
<1> USE DEF progress, ahead, history
<1>1. TypeOK' BY DEF IInv, TypeOK, Reading
<1>2. KernelBuffersAlive'
  <2>1. \A r \in Readers : Draining(r) => Draining(r)'
    BY DEF Draining, Readers, Reading
  <2> QED BY <2>1, MemoryStays DEF IInv
<1>3. CurrentInv' BY DEF IInv, CurrentInv, Reading
<1>4. AheadInv' BY DEF IInv, AheadInv, Reading
<1>5. StreamInv'
  <2>1. Delivered' = Delivered BY DEF Delivered
  <2> QED BY <2>1 DEF IInv, StreamInv, Reading
<1> QED BY <1>1, <1>2, <1>3, <1>4, <1>5 DEF IInv, ChecksNeverFire

\* Submitting the next chunk of the current or the prepared file.
LEMMA SubmittedKeeps ==
  ASSUME IInv, NEW r \in Readers, NEW k \in Idle(r), Submitted(r, k),
         UNCHANGED <<progress, ahead, error, cancelled, outcome, history>>,
         reader[r].open, worker \in {"prime", "prime_ahead", "submit"},
         worker' = IF worker = "submit" THEN "run" ELSE worker
  PROVE  IInv'
<1> USE DEF progress, ahead, history
<1>1. k \in Requests BY DEF Idle
<1>2. /\ ReaderTypeOK'
      /\ \A q \in Readers : reader'[q].open = reader[q].open
                            /\ reader'[q].next_consume = reader[q].next_consume
  BY <1>1, SubmitFacts DEF IInv, ReaderTypeOK
<1>3. TypeOK' BY <1>2 DEF IInv, TypeOK, ReaderTypeOK, Readers
<1>4. KernelBuffersAlive'
  <2>1. ~Draining(r) /\ \A q \in Readers : Draining(q) => Draining(q)'
    BY DEF Draining, Readers
  <2> QED BY <1>1, <2>1, SubmitKeeps DEF IInv
<1>5. CurrentInv' BY <1>2 DEF IInv, CurrentInv, Reading, Readers
<1>6. AheadInv' BY <1>2 DEF IInv, AheadInv, Readers
<1>7. StreamInv'
  <2>1. Delivered' = Delivered BY DEF Delivered
  <2> QED BY <2>1 DEF IInv, StreamInv
<1> QED BY <1>3, <1>4, <1>5, <1>6, <1>7 DEF IInv, ChecksNeverFire

LEMMA PrimeKeeps == ASSUME IInv, Prime PROVE IInv'
<1> USE DEF Prime, Fails, Goto
<1>1. worker = "prime" /\ prepared = "none" /\ reader["current"].open
  BY DEF IInv, CurrentInv, AheadInv, Reading
<1>2. ASSUME NEW k \in Idle("current"), Submitted("current", k),
             UNCHANGED <<worker, error>>
      PROVE  IInv'
  BY <1>1, <1>2, SubmittedKeeps DEF Readers
<1>3. CASE worker' = "drop" /\ error' \in SubmitErrors
           /\ UNCHANGED <<reader, kernel>>
  <2>1. error' \in Errors BY <1>3 DEF SubmitErrors, Errors
  <2> QED BY <1>1, <1>3, <2>1, PhaseKeeps
      DEF Reading, Errors, IInv, TypeOK
<1>4. CASE worker' = AfterPrime /\ UNCHANGED <<error, reader, kernel>>
  BY <1>1, <1>4, PhaseKeeps DEF AfterPrime, Reading, IInv, TypeOK
<1> QED BY <1>1, <1>2, <1>3, <1>4

LEMMA PrepareAheadKeeps == ASSUME IInv, PrepareAhead PROVE IInv'
<1> USE DEF PrepareAhead, Goto, progress, history
<1>1. /\ worker = "ahead" /\ prepared = "none" /\ ~reader.ahead.open
      /\ reader.current.open /\ file \in Files /\ file + 1 \in Files
      /\ reader.current.next_consume = next_offset
  BY DEF IInv, CurrentInv, AheadInv, StreamInv, Reading
<1>2. StreamInv'
  <2>1. Delivered' = Delivered BY DEF Delivered
  <2> QED BY <1>1, <2>1 DEF IInv, StreamInv
<1>3. prepared_for' = file + 1 /\ file + 1 \in Nat
  BY <1>1, ConstFacts
<1>4. CASE reader' = [reader EXCEPT !.ahead = Opened(0)]
           /\ prepared' = "reader" /\ worker' = "prime_ahead"
  <2>1. /\ ReaderTypeOK' /\ UNCHANGED kernel
        /\ reader'["ahead"] = Opened(0) /\ reader'["current"] = reader["current"]
    BY <1>4, OpenedFacts DEF IInv, TypeOK, ReaderTypeOK, Readers
  <2>2. TypeOK' BY <1>3, <1>4, <2>1 DEF IInv, TypeOK, ReaderTypeOK, Readers
  <2>3. Alive("current") /\ Alive("ahead") BY AliveEach DEF IInv, Readers
  <2>4. Alive("current")'
    BY <1>1, <2>1, <2>3, AliveStays DEF Draining, Readers
  <2>5. \A k \in Requests : kernel'["ahead"][k] = "free"
    BY <1>1, <2>1, <2>3 DEF Alive, Owned
  <2>6. Alive("ahead")' BY <2>1, <2>5, OpenedFacts, AliveFresh DEF Readers
  <2>7. KernelBuffersAlive' BY <2>4, <2>6, AliveNext DEF Readers
  <2>8. CurrentInv' BY <1>1, <1>4, <2>1 DEF CurrentInv, Reading
  <2>9. AheadInv' BY <1>3, <1>4, <2>1, OpenedFacts DEF AheadInv
  <2> QED BY <1>2, <2>2, <2>7, <2>8, <2>9 DEF IInv, ChecksNeverFire
<1>5. CASE prepared' \in SubmitErrors /\ worker' = "run" /\ UNCHANGED reader
  <2>1. prepared' \in Errors BY <1>5 DEF SubmitErrors, Errors
  <2>2. TypeOK' BY <1>3, <1>5, <2>1 DEF IInv, TypeOK
  <2>3. KernelBuffersAlive'
    <3>1. \A r \in Readers : Draining(r) => Draining(r)'
      BY <1>1 DEF Draining, Readers
    <3> QED BY <1>5, <3>1, MemoryStays DEF IInv
  <2>4. CurrentInv' BY <1>1, <1>5 DEF CurrentInv, Reading
  <2>5. AheadInv' BY <1>1, <1>3, <1>5, <2>1 DEF AheadInv, Errors
  <2> QED BY <1>2, <2>2, <2>3, <2>4, <2>5 DEF IInv, ChecksNeverFire
<1> QED BY <1>4, <1>5

LEMMA PrimeAheadKeeps == ASSUME IInv, PrimeAhead PROVE IInv'
<1> USE DEF PrimeAhead, Goto
<1>1. /\ worker = "prime_ahead" /\ prepared = "reader" /\ reader["ahead"].open
  BY DEF IInv, CurrentInv, AheadInv, Reading
<1>2. ASSUME NEW k \in Idle("ahead"), Submitted("ahead", k),
             UNCHANGED <<worker, prepared>>
      PROVE  IInv'
  BY <1>1, <1>2, SubmittedKeeps DEF Readers, ahead
<1>3. CASE prepared' \in SubmitErrors /\ worker' = "drop_ahead"
           /\ UNCHANGED <<reader, kernel>>
  <2> USE DEF progress, history
  <2>1. prepared' \in Errors BY <1>3 DEF SubmitErrors, Errors
  <2>2. TypeOK' BY <1>3, <2>1 DEF IInv, TypeOK
  <2>3. KernelBuffersAlive'
    <3>1. \A r \in Readers : Draining(r) => Draining(r)'
      BY <1>1 DEF Draining, Readers
    <3> QED BY <1>3, <3>1, MemoryStays DEF IInv
  <2>4. CurrentInv' BY <1>1, <1>3 DEF IInv, CurrentInv, Reading
  <2>5. AheadInv' BY <1>1, <1>3, <2>1 DEF IInv, AheadInv, Errors
  <2>6. StreamInv'
    <3>1. Delivered' = Delivered BY DEF Delivered
    <3> QED BY <1>1, <1>3, <3>1 DEF IInv, StreamInv
  <2> QED BY <2>2, <2>3, <2>4, <2>5, <2>6 DEF IInv, ChecksNeverFire
<1>4. CASE worker' = "run" /\ UNCHANGED <<prepared, reader, kernel>>
  BY <1>1, <1>4, PhaseKeeps DEF Reading, IInv, TypeOK, ahead
<1> QED BY <1>1, <1>2, <1>3, <1>4

\* The ways a read of the current file ends.
LEMMA RunFailsKeeps ==
  ASSUME IInv, RunCancelled \/ ReadFailed \/ Stalls \/ PortFails
  PROVE  IInv'
<1> USE DEF RunCancelled, ReadFailed, Stalls, PortFails, Fails, Goto, Running,
            Receives
<1>1. worker = "run" OBVIOUS
<1>2. worker' = "drop" /\ error' \in Errors
  <2>1. ASSUME NEW k \in Awaited, reader.current.state[k] # "read"
        PROVE  reader.current.state[k] \in Errors
    BY <2>1 DEF Awaited, CompletedAt, Completions, Errors
  <2> QED BY <2>1 DEF Errors
<1> QED BY <1>1, <1>2, PhaseKeeps DEF Reading, Errors, IInv, TypeOK

LEMMA RunEndsKeeps == ASSUME IInv, RunEnds PROVE IInv'
<1>1. worker = "run" /\ worker' = "drop" /\ error' = "none"
  BY DEF RunEnds, Goto
<1>2. next_offset = FileLen[file]
  <2>1. /\ file \in Files /\ next_offset <= FileLen[file] /\ next_offset \in Nat
        /\ next_offset >= FileLen[file]
    BY <1>1 DEF IInv, TypeOK, CurrentInv, StreamInv, Reading, RunEnds, AllConsumed
  <2> QED BY <2>1, ConstFacts
<1> QED BY <1>1, <1>2, PhaseKeeps DEF RunEnds, Reading, IInv, TypeOK

LEMMA ResubmitKeeps == ASSUME IInv, Resubmit PROVE IInv'
<1> USE DEF Resubmit, Fails, Goto
<1>1. worker = "submit" /\ reader["current"].open
  BY DEF IInv, CurrentInv, Reading
<1>2. ASSUME NEW k \in Idle("current"), Submitted("current", k),
             worker' = "run", UNCHANGED error
      PROVE  IInv'
  BY <1>1, <1>2, SubmittedKeeps DEF Readers
<1>3. CASE worker' = "drop" /\ error' \in Errors /\ UNCHANGED <<reader, kernel>>
  BY <1>1, <1>3, PhaseKeeps DEF Reading, Errors, IInv, TypeOK
<1>4. CASE worker' = "run" /\ UNCHANGED <<error, reader, kernel>>
  BY <1>1, <1>4, PhaseKeeps DEF Reading, IInv, TypeOK
<1> QED BY <1>1, <1>2, <1>3, <1>4 DEF SubmitErrors, Errors

LEMMA ConsumeKeeps == ASSUME IInv, Consume PROVE IInv'
<1> USE DEF Fails, Goto, Running
<1>1. /\ worker = "run" /\ reader.current.open
      /\ reader.current.next_consume = next_offset /\ file \in Files
      /\ next_offset \in Nat /\ FileLen[file] \in Nat
      /\ next_offset < FileLen[file]
  <2>1. worker = "run" /\ ~(reader.current.next_consume >= FileLen[file])
    BY DEF Consume, AllConsumed
  <2>2. /\ reader.current.open /\ reader.current.next_consume = next_offset
        /\ file \in Files /\ next_offset \in Nat
    BY <2>1 DEF IInv, TypeOK, CurrentInv, StreamInv, Reading
  <2> QED BY <2>1, <2>2, ConstFacts
<1>2. PICK k \in Awaited :
        \/ /\ last' = Stream!ItemAt(file, next_offset)
           /\ next_offset' = next_offset + 1
           /\ reader' = [reader EXCEPT !.current.next_consume = @ + 1,
                                       !.current.state[k] = "idle"]
           /\ worker' = "submit" /\ reader.current.state[k] = "read"
           /\ UNCHANGED <<error, check_fired>>
        \/ /\ worker' = "drop" /\ error' \in {"permanent", "cancelled"}
           /\ UNCHANGED <<next_offset, reader, history>>
  <2>1. PICK k \in Awaited :
        /\ reader.current.state[k] = "read"
        /\ IF reader.current.offset[k] # next_offset
           THEN CheckFires /\ UNCHANGED <<next_offset, reader, last>>
           ELSE \/ /\ last' = Stream!ItemAt(file, reader.current.offset[k])
                   /\ next_offset' = next_offset + 1
                   /\ reader' = [reader EXCEPT !.current.next_consume = @ + 1,
                                               !.current.state[k] = "idle"]
                   /\ worker' = "submit"
                   /\ UNCHANGED <<error, check_fired>>
                \/ /\ \E e \in {"permanent", "cancelled"} :
                        error' = e /\ worker' = "drop"
                   /\ UNCHANGED <<next_offset, reader, history>>
    BY DEF Consume
  <2>2. reader.current.offset[k] = next_offset
    BY <1>1 DEF Awaited, CompletedAt
  <2> QED BY <2>1, <2>2
<1>3. CASE worker' = "drop" /\ error' \in {"permanent", "cancelled"}
           /\ UNCHANGED <<next_offset, reader, history>>
  BY <1>1, <1>3, PhaseKeeps
  DEF Consume, Reading, Errors, IInv, TypeOK, progress
<1>4. CASE /\ last' = Stream!ItemAt(file, next_offset)
           /\ next_offset' = next_offset + 1
           /\ reader' = [reader EXCEPT !.current.next_consume = @ + 1,
                                       !.current.state[k] = "idle"]
           /\ worker' = "submit" /\ reader.current.state[k] = "read"
           /\ UNCHANGED <<error, check_fired>>
  <2> USE DEF Consume, ahead
  <2> DEFINE R == reader["current"]
             S == [R.state EXCEPT ![k] = "idle"]
             N == [R EXCEPT !.next_consume = R.next_consume + 1, !.state = S]
  <2>0. reader \in [Readers -> Reader] BY DEF IInv, TypeOK, Readers
  <2>1. R \in Reader /\ k \in Requests
    BY <2>0 DEF Awaited, CompletedAt, Readers
  <2>2. reader' = [reader EXCEPT !["current"] = N]
    BY <1>4, <2>0, <2>1 DEF Reader, Readers
  <2>3. /\ N \in Reader /\ N.open = R.open /\ N.outstanding = R.outstanding
        /\ N.next_consume = R.next_consume + 1
        /\ N.state = [R.state EXCEPT ![k] = "idle"]
    <3>1. S \in [Requests -> {"idle", "inflight"} \cup Completions]
          /\ R.next_consume + 1 \in Nat
      BY <2>1 DEF Reader
    <3> HIDE DEF S
    <3>2. N \in Reader BY <2>1, <3>1 DEF Reader
    <3>3. /\ N.open = R.open /\ N.outstanding = R.outstanding
          /\ N.next_consume = R.next_consume + 1 /\ N.state = S
      BY <2>1 DEF Reader
    <3> QED BY <3>2, <3>3 DEF S
  <2> HIDE DEF N
  <2>4. /\ ReaderTypeOK' /\ reader'["current"] = N
        /\ reader'["ahead"] = reader["ahead"] /\ UNCHANGED kernel
    BY <2>0, <2>2, <2>3 DEF Consume, IInv, TypeOK, ReaderTypeOK, Readers
  <2>5. Stream!ItemAt(file, next_offset) \in Stream!Item
    BY <1>1, ItemFacts
  <2>6. TypeOK'
    BY <1>1, <1>4, <2>4, <2>5 DEF IInv, TypeOK, ReaderTypeOK, Readers
  <2>7. Alive("current") /\ Alive("ahead") BY AliveEach DEF IInv, Readers
  <2>8. Alive("ahead")'
    BY <1>1, <2>4, <2>7, AliveStays DEF Draining, Readers
  <2>9. Owned("current")' = Owned("current") BY <2>4 DEF Owned
  <2>10. Inflight("current")' = Inflight("current")
    BY <1>4, <2>1, <2>3, <2>4 DEF Inflight, Reader
  <2>11. Alive("current")'
    BY <1>1, <2>3, <2>4, <2>7, <2>9, <2>10 DEF Alive, Draining
  <2>12. KernelBuffersAlive' BY <2>8, <2>11, AliveNext DEF Readers
  <2>13. CurrentInv' BY <1>1, <1>4, <2>3, <2>4 DEF CurrentInv, Reading
  <2>14. AheadInv' BY <1>1, <1>4, <2>4 DEF IInv, AheadInv
  <2>15. StreamInv'
    <3>1. Delivered' = Stream!ItemAt(file, next_offset)
      BY <1>1, <1>4 DEF Delivered
    <3> QED BY <1>1, <1>4, <3>1 DEF IInv, StreamInv
  <2> QED BY <1>4, <2>6, <2>12, <2>13, <2>14, <2>15 DEF IInv, ChecksNeverFire
<1> QED BY <1>2, <1>3, <1>4

LEMMA ReceiveKeeps == ASSUME IInv, Receive PROVE IInv'
<1> USE DEF Receives, Running
<1>1. /\ worker = "run" /\ reader.current.open /\ ~Draining("current")
      /\ Alive("current") /\ Alive("ahead") /\ "current" \in Readers
  BY AliveEach DEF IInv, Receive, CurrentInv, Reading, Draining, Readers
<1>2. PICK P \in Batches("current") :
        /\ Taken("current", P)
        /\ IF \E k \in P : reader.current.state[k] # "inflight"
           THEN CheckFires /\ UNCHANGED reader
           ELSE /\ reader' = [reader EXCEPT
                     !.current.state = CompletedState(P),
                     !.current.outstanding = @ - Cardinality(P)]
                /\ UNCHANGED <<worker, error, check_fired>>
  BY DEF Receive
<1>3. /\ P \subseteq Owned("current") /\ P \subseteq Requests
      /\ Owned("current")' = Owned("current") \ P
      /\ Cardinality(P) \in Nat
      /\ Cardinality(P) <= reader["current"].outstanding
      /\ Cardinality(Owned("current")')
           = reader["current"].outstanding - Cardinality(P)
      /\ kernel' \in [Readers -> [Requests -> {"free", "busy"} \cup Completions]]
      /\ kernel'["ahead"] = kernel["ahead"]
  BY <1>1, <1>2, TakenFacts DEF IInv, Readers
<1>4. /\ reader' = [reader EXCEPT
                      !.current.state = CompletedState(P),
                      !.current.outstanding = @ - Cardinality(P)]
      /\ UNCHANGED <<worker, error, check_fired>>
  BY <1>1, <1>2, <1>3 DEF Alive, Inflight
<1> DEFINE R == reader["current"]
           N == [open |-> R.open, next_submit |-> R.next_submit,
                 next_consume |-> R.next_consume,
                 outstanding |-> R.outstanding - Cardinality(P),
                 state |-> CompletedState(P), offset |-> R.offset]
<1>5. reader \in [Readers -> Reader] /\ R \in Reader
  BY DEF IInv, TypeOK, Readers
<1>6. /\ reader'["current"] = N /\ reader'["ahead"] = reader["ahead"]
      /\ \E x : reader' = [reader EXCEPT !["current"] = x]
  BY <1>4, <1>5 DEF Reader, Readers
<1>7. CompletedState(P) \in [Requests -> {"idle", "inflight"} \cup Completions]
  BY <1>5 DEF CompletedState, Reader, Batches, Packets
<1>8. /\ N \in Reader /\ N.open = R.open /\ N.next_consume = R.next_consume
      /\ N.outstanding = R.outstanding - Cardinality(P)
      /\ N.state = CompletedState(P)
  BY <1>3, <1>5, <1>7 DEF Reader
<1> HIDE DEF N
<1>9. /\ ReaderTypeOK' /\ reader'["current"] = N
      /\ reader'["ahead"] = reader["ahead"]
  BY <1>3, <1>6, <1>8 DEF IInv, TypeOK, ReaderTypeOK, Readers
<1>10. Inflight("current")' = Inflight("current") \ P
  <2>1. \A k \in P : CompletedState(P)[k] # "inflight"
    BY DEF CompletedState, Batches, Packets, Completions
  <2>2. \A k \in Requests \ P : CompletedState(P)[k] = R.state[k]
    BY DEF CompletedState
  <2> QED BY <1>8, <1>9, <2>1, <2>2 DEF Inflight
<1> USE DEF Receive, progress, ahead
<1>11. TypeOK' BY <1>4, <1>9 DEF IInv, TypeOK, ReaderTypeOK, Readers
<1>12. Alive("current")'
  BY <1>1, <1>3, <1>8, <1>9, <1>10 DEF Alive
<1>13. Alive("ahead")'
  BY <1>1, <1>3, <1>4, <1>9, AliveStays DEF Draining, Readers
<1>14. KernelBuffersAlive' BY <1>12, <1>13, AliveNext DEF Readers
<1>15. CurrentInv' BY <1>4, <1>8, <1>9 DEF IInv, CurrentInv
<1>16. AheadInv' BY <1>4, <1>9 DEF IInv, AheadInv
<1>17. StreamInv'
  <2>1. Delivered' = Delivered BY DEF Delivered
  <2> QED BY <1>4, <2>1 DEF IInv, StreamInv
<1> QED BY <1>4, <1>11, <1>14, <1>15, <1>16, <1>17 DEF IInv, ChecksNeverFire

\* A reader that is dropped takes back what the kernel returns.
LEMMA DrainTakesKeeps ==
  ASSUME IInv, NEW r \in Readers, DrainTakes(r) PROVE IInv'
<1> USE DEF DrainTakes, progress, ahead, history
<1>1. Draining(r) /\ Alive(r) BY AliveEach DEF IInv
<1>2. PICK P \in Batches(r) :
        /\ Taken(r, P)
        /\ reader' = [reader EXCEPT ![r].outstanding =
             IF @ >= Cardinality(P) THEN @ - Cardinality(P) ELSE 0]
  OBVIOUS
<1>3. /\ Cardinality(P) \in Nat /\ Cardinality(P) <= reader[r].outstanding
      /\ Owned(r)' = Owned(r) \ P
      /\ Cardinality(Owned(r)') = reader[r].outstanding - Cardinality(P)
      /\ kernel' \in [Readers -> [Requests -> {"free", "busy"} \cup Completions]]
      /\ \A q \in Readers \ {r} : kernel'[q] = kernel[q]
  BY <1>2, TakenFacts DEF IInv
<1> DEFINE R == reader[r]
           N == [open |-> R.open, next_submit |-> R.next_submit,
                 next_consume |-> R.next_consume,
                 outstanding |-> R.outstanding - Cardinality(P),
                 state |-> R.state, offset |-> R.offset]
<1>4. reader \in [Readers -> Reader] /\ R \in Reader
  BY DEF IInv, TypeOK, Readers
<1>5. reader' = [reader EXCEPT ![r] = N]
  <2>1. R.outstanding \in Nat BY <1>4 DEF Reader
  <2>2. R.outstanding >= Cardinality(P) BY <1>3, <2>1
  <2> QED BY <1>2, <1>4, <2>2 DEF Reader
<1>6. /\ N \in Reader /\ N.open = R.open /\ N.next_consume = R.next_consume
      /\ N.outstanding = R.outstanding - Cardinality(P)
  BY <1>3, <1>4 DEF Reader
<1> HIDE DEF N
<1>7. /\ ReaderTypeOK' /\ reader'[r] = N
      /\ \A q \in Readers \ {r} : reader'[q] = reader[q]
  BY <1>3, <1>4, <1>5, <1>6 DEF ReaderTypeOK
<1>8. TypeOK' BY <1>7 DEF IInv, TypeOK, ReaderTypeOK, Readers
<1>9. \A q \in Readers : Draining(q)' = Draining(q) BY DEF Draining
<1>10. Alive(r)' BY <1>1, <1>3, <1>6, <1>7, <1>9 DEF Alive
<1>11. \A q \in Readers \ {r} : Alive(q)'
  BY <1>3, <1>7, <1>9, AliveEach, AliveStays DEF IInv
<1>12. KernelBuffersAlive' BY <1>10, <1>11, AliveNext
<1>13. \A q \in Readers : reader'[q].open = reader[q].open
                         /\ reader'[q].next_consume = reader[q].next_consume
  BY <1>6, <1>7
<1>14. CurrentInv' BY <1>13 DEF IInv, CurrentInv, Readers
<1>15. AheadInv' BY <1>13 DEF IInv, AheadInv, Readers
<1>16. StreamInv'
  <2>1. Delivered' = Delivered BY DEF Delivered
  <2> QED BY <2>1 DEF IInv, StreamInv
<1> QED BY <1>8, <1>12, <1>14, <1>15, <1>16 DEF IInv, ChecksNeverFire

\* It is freed when the kernel has returned all, or it is abandoned: either
\* way nothing freed is the kernel's.
LEMMA DroppedKeeps ==
  ASSUME IInv, NEW r \in Readers, Frees(r) \/ Abandons(r) PROVE IInv'
<1> USE DEF Frees, Abandons, Dropped, Goto, progress, history
<1>1. Draining(r) /\ Alive(r) BY AliveEach DEF IInv
<1>2. /\ ReaderTypeOK' /\ reader'[r] = Closed
      /\ \A q \in Readers \ {r} :
           reader'[q] = reader[q] /\ kernel'[q] = kernel[q]
  <2>1. reader \in [Readers -> Reader]
        /\ kernel \in [Readers -> [Requests -> {"free", "busy"} \cup Completions]]
    BY DEF IInv, TypeOK, Readers
  <2> QED BY <2>1, ClosedFacts, UnusedFacts DEF ReaderTypeOK
<1>3. \A k \in Requests : kernel'[r][k] = "free"
  <2>1. CASE Frees(r)
    <3>1. IsFiniteSet(Owned(r)) BY RequestSets DEF Owned
    <3>2. Owned(r) = {} BY <1>1, <2>1, <3>1, FS_EmptySet DEF Alive
    <3> QED BY <2>1, <3>2 DEF Owned
  <2>2. CASE Abandons(r) BY <2>2, UnusedFacts DEF IInv, TypeOK, Readers
  <2> QED BY <2>1, <2>2
<1>4. Alive(r)' BY <1>2, <1>3, ClosedFacts, AliveFresh
<1>5. \/ /\ r = "current" /\ worker = "drop"
         /\ worker' = (IF error = "none" THEN "eof" ELSE "discard")
         /\ prepared' = prepared
      \/ /\ r = "ahead" /\ worker = "drop_ahead" /\ worker' = "run"
         /\ prepared' = prepared
      \/ /\ r = "ahead" /\ worker = "discard" /\ prepared = "reader"
         /\ worker' = "decide" /\ prepared' = "none"
  BY <1>1 DEF Draining, AfterDrop, Readers
<1>6. \A q \in Readers \ {r} : Alive(q)'
  <2>1. \A q \in Readers \ {r} : Draining(q) => Draining(q)'
    BY <1>5 DEF Draining, Readers
  <2> QED BY <1>2, <2>1, AliveEach, AliveStays DEF IInv
<1>7. KernelBuffersAlive' BY <1>4, <1>6, AliveNext
<1>8. TypeOK'
  BY <1>2, <1>5 DEF IInv, TypeOK, ReaderTypeOK, Readers
<1>9. CurrentInv'
  BY <1>2, <1>5, ClosedFacts DEF IInv, CurrentInv, Reading, Readers
<1>10. AheadInv'
  BY <1>2, <1>5, ClosedFacts DEF IInv, AheadInv, Readers
<1>11. StreamInv'
  <2>1. Delivered' = Delivered BY DEF Delivered
  <2> QED BY <1>5, <2>1 DEF IInv, StreamInv
<1> QED BY <1>7, <1>8, <1>9, <1>10, <1>11 DEF IInv, ChecksNeverFire

\* The steps between two attempts and two files, which touch no reader.
LEMMA BetweenKeeps ==
  ASSUME IInv, Discard \/ Decide \/ Backoff PROVE IInv'
<1> USE DEF Discard, Decide, Backoff, Goto, progress, ahead, history
<1>1. \/ worker = "discard" /\ prepared # "reader" /\ prepared' = "none"
         /\ worker' = "decide" /\ UNCHANGED <<outcome, consecutive_retries>>
      \/ /\ worker \in {"decide", "backoff"} /\ UNCHANGED prepared
         /\ worker' \in {"backoff", "open", "ended"}
         /\ outcome' \in {outcome, "cancelled", "failed"}
  OBVIOUS
<1>2. TypeOK'
  <2>1. consecutive_retries' \in 0..MaxRetries
    BY ConstFacts DEF IInv, TypeOK, RetriesSoFar
  <2> QED BY <1>1, <2>1 DEF IInv, TypeOK, Stream!Endings
<1>3. KernelBuffersAlive'
  <2>1. \A r \in Readers : Draining(r) => Draining(r)'
    BY <1>1 DEF Draining, Readers
  <2> QED BY <2>1, MemoryStays DEF IInv
<1>4. CurrentInv' BY <1>1 DEF IInv, CurrentInv, Reading
<1>5. AheadInv' BY <1>1 DEF IInv, AheadInv
<1>6. StreamInv'
  <2>1. Delivered' = Delivered BY DEF Delivered
  <2> QED BY <1>1, <2>1 DEF IInv, StreamInv
<1> QED BY <1>2, <1>3, <1>4, <1>5, <1>6 DEF IInv, ChecksNeverFire

LEMMA FileEndsKeeps == ASSUME IInv, FileEnds PROVE IInv'
<1> USE DEF FileEnds, Goto, ahead
<1>1. /\ worker = "eof" /\ file \in Files /\ next_offset = FileLen[file]
      /\ last' = Stream!ItemAt(file, FileLen[file])
  BY DEF IInv, StreamInv
<1>2. /\ file \in Nat /\ file # 0 /\ file + 1 \in 1..(Len(FileLen) + 1)
      /\ FileLen[file] \in 0..FileLen[file] /\ (file + 1) - 1 = file
      /\ file + 1 # 1
  BY <1>1, ConstFacts
<1>3. last' \in Stream!Item BY <1>1, <1>2, ItemFacts
<1>4. TypeOK' BY <1>2, <1>3, ConstFacts DEF IInv, TypeOK
<1>5. KernelBuffersAlive'
  <2>1. \A r \in Readers : Draining(r) => Draining(r)'
    BY <1>1 DEF Draining, Readers
  <2> QED BY <2>1, MemoryStays DEF IInv
<1>6. CurrentInv' BY <1>1 DEF IInv, CurrentInv, Reading
<1>7. AheadInv' BY <1>1 DEF IInv, AheadInv
<1>8. StreamInv'
  <2>1. Delivered' = Stream!ItemAt(file, FileLen[file])
    BY <1>2 DEF Delivered
  <2>2. file' \in Files => FileLen[file'] \in Nat BY ConstFacts
  <2> QED BY <1>1, <1>2, <2>1, <2>2 DEF IInv, StreamInv
<1> QED BY <1>4, <1>5, <1>6, <1>7, <1>8 DEF IInv, ChecksNeverFire

\* What the kernel and the user do, and what happens after the end.
LEMMA KernelCompletesKeeps ==
  ASSUME IInv, NEW r \in Readers, NEW k \in Requests, NEW c \in Completions,
         KernelCompletes(r, k, c)
  PROVE  IInv'
<1> USE DEF KernelCompletes, progress, ahead, history
<1>1. /\ ReaderTypeOK' /\ UNCHANGED reader
      /\ kernel'[r] = [kernel[r] EXCEPT ![k] = c]
      /\ \A q \in Readers \ {r} : kernel'[q] = kernel[q]
      /\ kernel[r] \in [Requests -> {"free", "busy"} \cup Completions]
  BY DEF IInv, TypeOK, ReaderTypeOK, Readers
<1>2. Owned(r)' = Owned(r) BY <1>1 DEF Owned, Completions
<1>3. \A q \in Readers : Draining(q)' = Draining(q) BY DEF Draining
<1>4. Alive(r)'
  <2>1. Alive(r) BY AliveEach DEF IInv
  <2>2. Inflight(r)' = Inflight(r) BY <1>1 DEF Inflight
  <2> QED BY <1>1, <1>2, <1>3, <2>1, <2>2 DEF Alive
<1>5. \A q \in Readers \ {r} : Alive(q)'
  BY <1>1, <1>3, AliveEach, AliveStays DEF IInv
<1>6. KernelBuffersAlive' BY <1>4, <1>5, AliveNext
<1>7. TypeOK' BY <1>1 DEF IInv, TypeOK, ReaderTypeOK, Readers
<1>8. CurrentInv' /\ AheadInv' BY DEF IInv, CurrentInv, AheadInv
<1>9. StreamInv'
  <2>1. Delivered' = Delivered BY DEF Delivered
  <2> QED BY <2>1 DEF IInv, StreamInv
<1> QED BY <1>6, <1>7, <1>8, <1>9 DEF IInv, ChecksNeverFire

LEMMA OthersKeep == ASSUME IInv, Cancel \/ UNCHANGED vars PROVE IInv'
<1> USE DEF Cancel, vars, progress, ahead, history
<1>1. /\ UNCHANGED <<worker, progress, error, ahead, reader, kernel, outcome,
                     history>>
      /\ cancelled' \in BOOLEAN
  BY DEF IInv, TypeOK
<1>2. TypeOK' BY <1>1 DEF IInv, TypeOK
<1>3. KernelBuffersAlive'
  <2>1. \A r \in Readers : Draining(r) => Draining(r)' BY <1>1 DEF Draining
  <2> QED BY <1>1, <2>1, MemoryStays DEF IInv
<1>4. CurrentInv' /\ AheadInv' BY <1>1 DEF IInv, CurrentInv, AheadInv
<1>5. StreamInv'
  <2>1. Delivered' = Delivered BY <1>1 DEF Delivered
  <2> QED BY <1>1, <2>1 DEF IInv, StreamInv
<1> QED BY <1>1, <1>2, <1>3, <1>4, <1>5 DEF IInv, ChecksNeverFire

LEMMA StepHolds == IInv /\ [Next]_vars => IInv'
<1> SUFFICES ASSUME IInv, [Next]_vars PROVE IInv' OBVIOUS
<1>1. CASE WorkerStep
  BY <1>1, StartFileKeeps, OpenKeeps, PrimeKeeps, PrepareAheadKeeps,
     PrimeAheadKeeps, RunEndsKeeps, RunFailsKeeps, ConsumeKeeps, ResubmitKeeps,
     ReceiveKeeps, DrainTakesKeeps, DroppedKeeps, BetweenKeeps, FileEndsKeeps
  DEF WorkerStep, Readers
<1>2. CASE PortFails BY <1>2, RunFailsKeeps
<1>3. CASE Cancel \/ Done \/ UNCHANGED vars BY <1>3, OthersKeep DEF Done
<1>4. CASE \E r \in Readers, k \in Requests, c \in Completions :
             KernelCompletes(r, k, c)
  BY <1>4, KernelCompletesKeeps
<1> QED BY <1>1, <1>2, <1>3, <1>4 DEF Next, Readers

LEMMA Invariance == Spec => []IInv
BY InitHolds, StepHolds, PTL DEF Spec

-----------------------------------------------------------------------------
\* What is proved of the reader holds in every reachable state.

(* The variables keep their types, so no counter underflows: not even that  *)
(* of a reader whose completions come while it is dropped.                  *)
THEOREM TypeCorrect == Spec => []TypeOK
<1>1. IInv => TypeOK BY DEF IInv
<1> QED BY <1>1, Invariance, PTL

(* Drop for AsyncSequentialReader frees or leaks: memory the kernel still   *)
(* has is never freed, and a request is submitted again only when its last  *)
(* read was taken from the port.                                            *)
THEOREM BuffersAlive == Spec => []KernelBuffersAlive
<1>1. IInv => KernelBuffersAlive BY DEF IInv
<1> QED BY <1>1, Invariance, PTL

(* None of the internal consistency errors of receive_completions, run and  *)
(* native_run_worker can be raised.                                         *)
THEOREM ChecksAreDefences == Spec => []ChecksNeverFire
<1>1. IInv => ChecksNeverFire BY DEF IInv
<1> QED BY <1>1, Invariance, PTL

\* A step that delivers an item delivers the next one.
LEMMA NextDelivered ==
  ASSUME IInv, [Next]_vars, last' # last
  PROVE  Stream!Follows(Files, last, last') /\ outcome # "done"
<1>1. Consume \/ FileEnds
  BY DEF Next, vars, history, WorkerStep, StartFile, Open, Prime, PrepareAhead,
     PrimeAhead, RunEnds, RunCancelled, ReadFailed, Resubmit, Receive, Stalls,
     DrainTakes, Frees, Abandons, Dropped, Discard, Decide, Backoff, Done,
     PortFails, Cancel, KernelCompletes
<1>2. file \in Files /\ outcome # "done" /\ last = Delivered
  BY <1>1 DEF IInv, StreamInv, Consume, Running, FileEnds
<1>3. next_offset \in Nat /\ next_offset <= FileLen[file]
      /\ FileLen[file] \in Nat \ {0}
  BY <1>2, ConstFacts DEF IInv, TypeOK, StreamInv
<1>4. last' = Stream!ItemAt(file, next_offset)
  <2>1. CASE Consume
    <3>1. reader.current.next_consume = next_offset
      BY <2>1 DEF Consume, Running, IInv, CurrentInv, Reading
    <3> QED BY <2>1, <3>1 DEF Consume, Awaited, CompletedAt, history
  <2>2. CASE FileEnds BY <2>2 DEF FileEnds, IInv, StreamInv
  <2> QED BY <1>1, <2>1, <2>2
<1>5. CASE next_offset > 0
  <2>1. /\ last = Stream!ItemAt(file, next_offset - 1)
        /\ next_offset - 1 \in 0..FileLen[file]
        /\ next_offset - 1 # FileLen[file] /\ next_offset - 1 < FileLen[file]
        /\ (next_offset - 1) + 1 = next_offset
    BY <1>2, <1>3, <1>5 DEF Delivered
  <2>2. ~last.eof /\ last.file = file /\ last.offset = next_offset - 1
        /\ last.length = 1
    BY <1>2, <2>1, ItemFacts
  <2> QED BY <1>2, <1>4, <2>1, <2>2 DEF Stream!Follows
<1>6. CASE next_offset = 0
  <2>1. last.eof /\ last.file = file - 1
    <3>1. CASE file = 1 BY <1>2, <1>6, <3>1, NoItemFacts DEF Delivered
    <3>2. CASE file # 1
      <4>1. file - 1 \in Files /\ FileLen[file - 1] \in 0..FileLen[file - 1]
        BY <1>2, <3>2, ConstFacts
      <4> QED BY <1>2, <1>6, <3>2, <4>1, ItemFacts DEF Delivered
    <3> QED BY <3>1, <3>2
  <2>2. file - 1 \in 0..Len(FileLen) /\ (file - 1) + 1 = file
    BY <1>2, ConstFacts
  <2>3. Stream!NextFile(Files, last.file) = file BY <2>1, <2>2, NextOfAll
  <2> QED BY <1>2, <1>4, <1>6, <2>1, <2>3 DEF Stream!Follows, Files
<1> QED BY <1>3, <1>5, <1>6

(* The writer gets each chunk of each file once and in order, its end after *)
(* the last, over any number of retries and whatever was prepared, dropped  *)
(* or abandoned; the job is done only when it got the last.                 *)
THEOREM DeliveryInOrder == Spec => DeliversInOrder
<1> DEFINE A == /\ last' # last => Stream!Follows(Files, last, last')
                /\ outcome' = "done" => Stream!IsLast(Files, last)
<1>1. IInv /\ [Next]_vars => [A]_vars
  <2> SUFFICES ASSUME IInv, [Next]_vars PROVE A OBVIOUS
  <2>1. last' # last => Stream!Follows(Files, last, last') /\ outcome # "done"
    BY NextDelivered
  <2>2. ASSUME outcome' = "done" PROVE Stream!IsLast(Files, last)
    <3>1. Stream!IsLast(Files, last')
      <4>1. IInv' BY StepHolds
      <4> QED BY <2>2, <4>1 DEF IInv, StreamInv, Files, Stream!Files
    <3>2. last' = last
      <4>1. CASE Consume \/ FileEnds
        BY <2>1, <2>2, <4>1 DEF Consume, FileEnds
      <4>2. CASE ~(Consume \/ FileEnds)
        BY <4>2
        DEF Next, vars, history, WorkerStep, StartFile, Open, Prime,
            PrepareAhead, PrimeAhead, RunEnds, RunCancelled, ReadFailed,
            Resubmit, Receive, Stalls, DrainTakes, Frees, Abandons, Dropped,
            Discard, Decide, Backoff, Done, PortFails, Cancel, KernelCompletes
      <4> QED BY <4>1, <4>2
    <3> QED BY <3>1, <3>2
  <2> QED BY <2>1, <2>2
<1> QED BY <1>1, Invariance, PTL DEF Spec, DeliversInOrder
=============================================================================
