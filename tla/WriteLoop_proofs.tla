-------------------------- MODULE WriteLoop_proofs --------------------------
(***************************************************************************)
(* Proofs about the write command over the managed provider, for any files,*)
(* ring and drive: every block on the tape is where its file's extent      *)
(* says, only the file a stop falls in is cut, and an index on the tape    *)
(* knows all that precedes it.                                             *)
(*                                                                         *)
(* Nothing in the ring says which file a byte is of.  The invariant gives  *)
(* each byte its position in the stream of all files: the ring holds the   *)
(* bytes from head to tail of that stream (RingHolds), the producer is at  *)
(* its tail (ProducerInv), and the writer is where its head is, or will    *)
(* read no more (ReadInv).  TaskInv follows the blocks of the file at hand *)
(* from there to the end of the tape.                                      *)
(***************************************************************************)
EXTENDS WriteLoop, SequenceTheorems, FiniteSetTheorems,
        WellFoundedInduction, TLAPS

(* Division: what every ring of slots rests on.                            *)

(* Division with remainder.                                                *)
LEMMA DivMod ==
  ASSUME NEW n \in Nat \ {0}, NEW i \in Nat
  PROVE  /\ i % n \in 0..n-1
         /\ i = n * (i \div n) + (i % n)
         /\ i \div n \in Nat
OBVIOUS

LEMMA MulMono ==
  ASSUME NEW n \in Nat, NEW a \in Nat, NEW b \in Nat, a <= b
  PROVE  n * a <= n * b
OBVIOUS

(* Different multiples of n are at least n apart.                          *)
LEMMA MulGap ==
  ASSUME NEW n \in Nat \ {0}, NEW a \in Nat, NEW b \in Nat, a < b
  PROVE  n * b - n * a >= n
<1>1. b >= a + 1 OBVIOUS
<1>2. n * b >= n * (a + 1) BY <1>1, MulMono
<1>3. n * (a + 1) = n * a + n OBVIOUS
<1> QED BY <1>2, <1>3

(* Positions less than one turn apart use different slots of a ring.       *)
LEMMA ModUnique ==
  ASSUME NEW n \in Nat \ {0}, NEW i \in Nat, NEW j \in Nat,
         i - j < n, j - i < n, i % n = j % n
  PROVE  i = j
<1>1. PICK a \in Nat : i = n * a + (i % n) /\ (i % n) \in Nat
  <2>1. i % n \in 0..n-1 /\ 0..n-1 \subseteq Nat BY DivMod
  <2>2. i = n * (i \div n) + (i % n) /\ i \div n \in Nat BY DivMod
  <2> QED BY <2>1, <2>2, Zenon
<1>2. PICK b \in Nat : j = n * b + (j % n) /\ (j % n) \in Nat
  <2>1. j % n \in 0..n-1 /\ 0..n-1 \subseteq Nat BY DivMod
  <2>2. j = n * (j \div n) + (j % n) /\ j \div n \in Nat BY DivMod
  <2> QED BY <2>1, <2>2, Zenon
<1>3. n * a \in Nat /\ n * b \in Nat BY <1>1, <1>2
<1>4. j - i = n * b - n * a BY <1>1, <1>2, <1>3
<1>5. CASE a < b
  <2>1. n * b - n * a >= n BY <1>5, <1>1, <1>2, MulGap
  <2> QED BY <2>1, <1>4
<1>6. CASE b < a
  <2>1. n * a - n * b >= n BY <1>6, <1>1, <1>2, MulGap
  <2> QED BY <2>1, <1>4, <1>3
<1>7. CASE a = b BY <1>7, <1>1, <1>2
<1> QED BY <1>5, <1>6, <1>7, <1>1, <1>2

-----------------------------------------------------------------------------
\* Where the files begin in the stream.
Starts(n) ==
  {s \in [1..(n + 1) -> Nat] :
     s[1] = 0 /\ \A f \in 1..n : s[f + 1] = s[f] + Length[f]}

Start == CHOOSE s \in Starts(Last) : TRUE

-----------------------------------------------------------------------------
\* The provider: what the ring holds, and where the producer stands.

\* The byte at a position of the stream, from the head to what is stored.
RingHolds ==
  \A f \in File : \A k \in 1..Length[f] :
    LET p == Start[f] + k - 1
    IN  head <= p /\ p < tail + filled
          => buffer[p % Capacity] = <<f, k>>

InCopy == {"copy", "room", "advance"}

ProducerInv ==
  /\ producer \in {"look", "load", "open"} \cup InCopy => current \in File
  /\ current \in File => offset <= Length[current]
  /\ current = 0 => producer \in {"next", "done"} /\ tail = 0
  /\ current = Last + 1 => producer = "done" /\ offset = 0
  /\ current > 0 => tail = Start[current] + offset
  /\ producer = "next" /\ current > 0 => offset = Length[current]
  /\ producer # "advance" => filled = 0
  /\ producer = "advance" =>
       /\ offset + filled <= Length[current]
       /\ tail + filled - head <= Capacity

CompletionInv ==
  /\ completed => cancelled \/ producer = "done"
  /\ disposed => cancelled /\ producer = "done"

-----------------------------------------------------------------------------
\* The writer: what it has taken from the ring.

Reading == {"opening", "doubt", "read", "fetch", "asked", "hand", "write",
            "writeAsked"}

\* The head is where the writer thinks it is.
Aligned == head = Start[index] + (Length[index] - left) + Len(block)

\* Nothing can be read any more for this file.
Dead ==
  \/ disposed
  \/ producer = "done" /\ head = tail
  \/ stopFlag /\ ~OneBlock(index)

FileInv ==
  /\ writer \in Reading \cup {"drain", "finish", "checkpoint"} => index \in File
  /\ writer \in Reading => Material(index)
  /\ writer = "drain" => Duplicate(index)
  /\ writer \in Reading \cup {"drain"} =>
       /\ left <= Length[index]
       /\ \A n \in 1..Len(block) :
            block[n] = <<index, (Length[index] - left) + n>>
  /\ writer \in {"opening", "doubt", "write", "writeAsked"} =>
       left = Length[index]
  /\ writer \in {"opening", "doubt", "drain", "asked"} => block = << >>
  /\ writer \in Reading /\ OneBlock(index) => left = Length[index]
  /\ writer \in {"fetch", "asked", "hand", "write", "writeAsked"} => left > 0
  /\ writer = "read" =>
       IF left = 0 THEN block = << >> ELSE Len(block) < Smaller(BlockSize, left)
  /\ writer = "fetch" =>
       /\ segment > 0
       /\ Len(block) + segment <= Smaller(BlockSize, left)
       /\ head + segment <= tail
  /\ writer \in {"hand", "write", "writeAsked"} =>
       Len(block) = Smaller(BlockSize, left)
  /\ writer \in {"write", "writeAsked"} => OneBlock(index)
  /\ writer = "hand" => ~OneBlock(index)

ReadInv ==
  /\ writer \in {"opening", "doubt", "fetch", "hand", "write", "writeAsked",
                 "drain"} => Aligned
  /\ writer = "asked" => Dead
  /\ writer = "read" => Aligned \/ (Dead /\ block = << >> /\ left > 0)
  /\ writer \in {"finish", "checkpoint"} => head = Start[index + 1] \/ stopFlag
  /\ writer = "next" => head = Start[index + 1]

StopInv ==
  cancelled => \/ stopFlag /\ index \in File /\ ~OneBlock(index)
                  /\ writer # "next"
               \/ writer \in {"closing", "ended"}

-----------------------------------------------------------------------------
\* The tape.

\* k blocks of the file have been handed to the drive.
Handed(k) ==
  IF left > 0 THEN Length[index] - left = k * BlockSize
  ELSE Length[index] <= k * BlockSize

\* The first k blocks of the file are at the end of the tape.
Placed(k) ==
  /\ extent[index] > 0
  /\ Len(tape) + 1 = extent[index] + k
  /\ \A j \in 0..(k - 1) : tape[extent[index] + j].bytes = FileBlock(index, j)

\* Or a block is missing and the user knows, or none is written any more.
Excused ==
  \/ index \in accepted
  \/ stopFlag /\ (room = 0 \/ task = "faulted")

Writing == {"writing", "asked"}

TaskInv ==
  /\ task # "none" =>
       /\ writer \in {"read", "fetch", "asked", "hand", "commit", "cleanup",
                      "closing", "ended"}
       /\ index \in File /\ Material(index) /\ ~OneBlock(index)
  /\ TaskRuns => writer \notin {"closing", "ended"}
  /\ task = "faulted" => stopFlag
  /\ task \in Writing =>
       \E k \in Nat :
         /\ k * BlockSize < Length[index]
         /\ taskBlock = FileBlock(index, k)
         /\ writer \in Reading => Handed(k + 1)
         /\ Excused \/ Placed(k)
  /\ writer \in Reading /\ task \notin Writing =>
       \E k \in Nat : Handed(k) /\ (Excused \/ Placed(k))

\* The files left behind, and the one at hand when it is done.
Whole(f) == OnTape(f) \/ Canonical(f) \in accepted

WholeInv ==
  /\ \A f \in finished \cup committed :
       \/ Whole(f)
       \/ f = index /\ stopFlag /\ writer # "next"
  /\ writer = "drain" => Whole(index)
  /\ writer = "finish" => Whole(index) \/ stopFlag

ListInv ==
  /\ finished \cup committed \subseteq 1..index
  /\ writer \in {"next", "checkpoint"} => finished \cup committed = 1..index
  /\ writer \in Reading \cup {"drain", "finish"} =>
       finished \cup committed = 1..(index - 1)

BlocksInv ==
  \A q \in DOMAIN tape :
    tape[q].bytes # << >> =>
      \E f \in 1..index : \E k \in 0..(Blocks(f) - 1) :
        /\ Material(f)
        /\ tape[q].bytes = FileBlock(f, k)
        /\ q = extent[f] + k \/ f \in accepted

IndexesInv ==
  /\ \A f \in File : f > index => extent[f] = 0
  /\ \A q \in DOMAIN tape :
       tape[q].bytes = << >> =>
         \E n \in 0..index :
           /\ tape[q].lists = 1..n
           /\ \A f \in File : f > n /\ Material(f) =>
                extent[f] = 0 \/ extent[f] > q

IInv ==
  /\ TypeOK /\ RingHolds /\ ProducerInv /\ CompletionInv
  /\ FileInv /\ ReadInv /\ StopInv
  /\ TaskInv /\ WholeInv /\ ListInv /\ BlocksInv /\ IndexesInv

-----------------------------------------------------------------------------
\* Facts about the constants.

LEMMA ConstFacts ==
  /\ Last \in Nat \ {0} /\ File = 1..Last
  /\ \A f \in File : Length[f] \in Nat
  /\ Length \in Seq(Nat)
  /\ Capacity \in Nat \ {0} /\ BlockSize \in Nat \ {0}
  /\ MinChunk \in Nat \ {0} /\ MinChunk <= Capacity
<1>1. Length \in Seq(Nat) /\ Length # << >> BY FilesAssumption
<1>2. Last \in Nat /\ Last # 0 /\ File = 1..Last
  BY <1>1, LenProperties, EmptySeq DEF Last, File
<1>3. \A f \in File : Length[f] \in Nat
  BY <1>1, <1>2, ElementOfSeq DEF Last
<1> QED
  BY <1>1, <1>2, <1>3, FilesAssumption, CapacityAssumption, WriteAssumption

\* A set of naturals has a least element.
Below == {ss \in Nat \X Nat : ss[1] < ss[2]}

LEMMA BelowWellFounded == IsWellFoundedOn(Below, Nat)
BY NatLessThanWellFounded DEF OpToRel, Below

LEMMA LeastNat ==
  ASSUME NEW T, T \subseteq Nat, T # {}
  PROVE  \E x \in T : \A y \in T : x <= y
<1>1. PICK x \in T : \A y \in T : ~ (<<y, x>> \in Below)
  BY BelowWellFounded, WFMin
<1>2. ASSUME NEW y \in T PROVE x <= y
  <2>1. x \in Nat /\ y \in Nat OBVIOUS
  <2>2. ~ (y < x)
    <3> SUFFICES ASSUME y < x PROVE FALSE OBVIOUS
    <3>1. <<y, x>> \in Nat \X Nat BY <2>1
    <3>2. <<y, x>>[1] < <<y, x>>[2] OBVIOUS
    <3>3. <<y, x>> \in Below BY <3>1, <3>2 DEF Below
    <3> QED BY <3>3, <1>1
  <2> QED BY <2>1, <2>2
<1> QED BY <1>2

LEMMA StartExists == Starts(Last) # {}
<1> DEFINE T == {n \in 0..Last : Starts(n) = {}}
<1> SUFFICES ASSUME T # {} PROVE FALSE
  BY ConstFacts
<1>1. T \subseteq Nat OBVIOUS
<1>2. PICK m \in T : \A n \in T : m <= n
  <2> HIDE DEF T
  <2> QED BY <1>1, LeastNat
<1>3. m # 0
  <2> SUFFICES ASSUME m = 0 PROVE FALSE OBVIOUS
  <2>1. [f \in 1..1 |-> 0] \in Starts(0) BY DEF Starts
  <2> QED BY <2>1, <1>2
<1>4. m \in Nat /\ m - 1 \in 0..Last /\ m \in File /\ m - 1 \notin T
  BY <1>2, <1>3, ConstFacts
<1>5. PICK s : s \in Starts(m - 1) BY <1>4
<1>6. s \in [1..m -> Nat] /\ s[1] = 0 /\ m - 1 + 1 = m
      /\ \A f \in 1..(m - 1) : s[f + 1] = s[f] + Length[f]
  BY <1>5, <1>4 DEF Starts
<1> DEFINE t == [f \in 1..(m + 1) |->
                   IF f <= m THEN s[f] ELSE s[m] + Length[m]]
<1>7. t \in [1..(m + 1) -> Nat]
  <2>1. s[m] \in Nat /\ Length[m] \in Nat BY <1>6, <1>4, <1>3, ConstFacts
  <2> QED BY <2>1, <1>6, <1>4
<1>8. t[1] = 0 BY <1>6, <1>4, <1>3
<1>9. ASSUME NEW f \in 1..m PROVE t[f + 1] = t[f] + Length[f]
  <2>1. CASE f = m BY <2>1, <1>4, <1>3
  <2>2. CASE f # m
    <3>1. f \in 1..(m - 1) /\ f + 1 \in 1..m BY <2>2, <1>4
    <3> QED BY <3>1, <1>6, <1>4
  <2> QED BY <2>1, <2>2
<1> HIDE DEF t
<1>10. t \in Starts(m) BY <1>7, <1>8, <1>9 DEF Starts
<1> QED BY <1>10, <1>2

LEMMA StartFacts ==
  /\ Start \in [1..(Last + 1) -> Nat]
  /\ Start[1] = 0
  /\ \A f \in File : Start[f + 1] = Start[f] + Length[f]
<1>1. Start \in Starts(Last) BY StartExists DEF Start
<1> QED BY <1>1, ConstFacts DEF Starts

LEMMA StartMonotone ==
  ASSUME NEW f \in 1..(Last + 1), NEW g \in 1..(Last + 1), f <= g
  PROVE  Start[f] <= Start[g]
<1> DEFINE T == {h \in f..(Last + 1) : Start[h] < Start[f]}
<1>0. Last \in Nat BY ConstFacts
<1> SUFFICES ASSUME T # {} PROVE FALSE
  <2>1. g \notin T /\ g \in f..(Last + 1) BY <1>0
  <2>2. Start[f] \in Nat /\ Start[g] \in Nat BY StartFacts
  <2> QED BY <2>1, <2>2
<1>1. T \subseteq Nat BY <1>0
<1>2. PICK m \in T : \A n \in T : m <= n
  <2> HIDE DEF T
  <2> QED BY <1>1, LeastNat
<1>3. m # f BY <1>2, StartFacts
<1>4. /\ m - 1 \in f..(Last + 1) /\ m - 1 \in 1..(Last + 1) /\ m - 1 \in 1..Last
      /\ m - 1 \notin T /\ m - 1 + 1 = m
  BY <1>2, <1>3, <1>0
<1>5. Start[m] = Start[m - 1] + Length[m - 1] /\ Length[m - 1] \in Nat
  BY <1>4, StartFacts, ConstFacts
<1>6. Start[m] \in Nat /\ Start[m - 1] \in Nat /\ Start[f] \in Nat
      /\ Start[m] < Start[f] /\ ~ (Start[m - 1] < Start[f])
  BY <1>2, <1>4, <1>0, StartFacts
<1> QED BY <1>5, <1>6

\* A position of the stream belongs to one byte of one file.
LEMMA PlaceUnique ==
  ASSUME NEW f \in File, NEW g \in File,
         NEW k \in 1..Length[f], NEW l \in 1..Length[g],
         Start[f] + k = Start[g] + l
  PROVE  f = g /\ k = l
<1>0. /\ f \in 1..(Last + 1) /\ g \in 1..(Last + 1)
      /\ f + 1 \in 1..(Last + 1) /\ g + 1 \in 1..(Last + 1)
      /\ f \in Nat /\ g \in Nat
      /\ Length[f] \in Nat /\ Length[g] \in Nat
  BY ConstFacts
<1>1. /\ Start[f] \in Nat /\ Start[g] \in Nat
      /\ Start[f + 1] = Start[f] + Length[f]
      /\ Start[g + 1] = Start[g] + Length[g]
  BY <1>0, StartFacts
<1>2. CASE f < g
  <2>1. Start[f + 1] <= Start[g] BY <1>2, <1>0, StartMonotone
  <2> QED BY <2>1, <1>0, <1>1
<1>3. CASE g < f
  <2>1. Start[g + 1] <= Start[f] BY <1>3, <1>0, StartMonotone
  <2> QED BY <2>1, <1>0, <1>1
<1> QED BY <1>0, <1>1, <1>2, <1>3

\* A file and its canonical one.
LEMMA CanonicalFacts ==
  ASSUME NEW f \in File
  PROVE  /\ Canonical(f) \in File /\ Canonical(f) \in 1..f
         /\ Length[Canonical(f)] = Length[f]
         /\ Canonical(Canonical(f)) = Canonical(f)
<1> DEFINE Same(e, g) == Length[g] = Length[e] /\ Content[g] = Content[e]
           First(e, g) == /\ Same(e, g)
                          /\ \A h \in 1..(g - 1) :
                               Length[h] # Length[e] \/ Content[h] # Content[e]
<1>0. f \in Nat /\ File = 1..Last /\ Last \in Nat BY ConstFacts
<1>1. ASSUME NEW e \in File
      PROVE  Canonical(e) \in 1..e /\ First(e, Canonical(e))
  <2> DEFINE T == {g \in 1..e : Same(e, g)}
  <2>1. e \in T /\ T \subseteq Nat BY <1>0
  <2>2. PICK g \in T : \A h \in T : g <= h
    <3> HIDE DEF T
    <3> QED BY <2>1, LeastNat
  <2>3. \A h \in 1..(g - 1) : h \in 1..e /\ ~ (g <= h) BY <2>2, <1>0
  <2>4. First(e, g) BY <2>2, <2>3
  <2>5. g \in 1..e BY <2>2
  <2> QED BY <2>4, <2>5 DEF Canonical
<1>2. Canonical(f) \in 1..f /\ First(f, Canonical(f)) BY <1>1
<1>3. Canonical(f) \in File BY <1>0, <1>2
<1>4. /\ Canonical(Canonical(f)) \in 1..Canonical(f)
      /\ First(Canonical(f), Canonical(Canonical(f)))
  BY <1>1, <1>3
<1>5. Canonical(Canonical(f)) = Canonical(f)
  <2> DEFINE c == Canonical(f)
             d == Canonical(c)
  <2>1. /\ c \in 1..f /\ d \in 1..c /\ First(f, c) /\ First(c, d)
    BY <1>2, <1>4
  <2> HIDE DEF c, d
  <2>2. c \in Nat /\ d \in Nat /\ d <= c BY <2>1, <1>0
  <2>3. Length[d] = Length[f] /\ Content[d] = Content[f] BY <2>1
  <2>4. ~ (d \in 1..(c - 1)) BY <2>1, <2>3
  <2>5. d \in 1..c BY <2>1
  <2>6. d = c BY <2>2, <2>4, <2>5
  <2> QED BY <2>6 DEF c, d
<1> QED BY <1>2, <1>3, <1>5

\* Within one turn the remainder goes up with the position.
LEMMA ModShift ==
  ASSUME NEW n \in Nat \ {0}, NEW i \in Nat, NEW j \in Nat, (i % n) + j < n
  PROVE  (i + j) % n = (i % n) + j
<1>1. PICK a \in Nat, r \in 0..n-1 : i = n * a + r /\ r = i % n
  BY DivMod
<1>2. i + j \in Nat OBVIOUS
<1>3. PICK b \in Nat, s \in 0..n-1 : i + j = n * b + s /\ s = (i + j) % n
  BY <1>2, DivMod
<1>4. n * a \in Nat /\ n * b \in Nat OBVIOUS
<1>5. n * b + s = n * a + (r + j) /\ r + j \in 0..n-1
  BY <1>1, <1>3, <1>4
<1>6. CASE a < b
  <2>1. n * b - n * a >= n BY <1>6, MulGap
  <2> QED BY <2>1, <1>5, <1>4
<1>7. CASE b < a
  <2>1. n * a - n * b >= n BY <1>7, MulGap
  <2> QED BY <2>1, <1>5, <1>4
<1>8. CASE a = b
  <2>1. s = r + j BY <1>8, <1>5, <1>4
  <2> QED BY <2>1, <1>1, <1>3
<1> QED BY <1>6, <1>7, <1>8

-----------------------------------------------------------------------------
\* Steps of the provider.

\* The bytes it stores are the next of the stream, in places that are free.
LEMMA CopyBytesRing ==
  ASSUME TypeOK, RingHolds, ProducerInv, CopyBytes
  PROVE  /\ filled' \in Nat /\ offset + filled' <= Length[current]
         /\ tail + filled' - head <= Capacity
         /\ buffer' \in [Index -> Byte \cup {<< >>}]
         /\ RingHolds'
<1> DEFINE room_ == Smaller(WriteSegment, Length[current] - offset)
           t == tail % Capacity
<1>1. /\ producer = "room" /\ filled = 0 /\ current \in File
      /\ offset <= Length[current] /\ tail = Start[current] + offset
      /\ AvailableToWrite >= RoomWanted
      /\ UNCHANGED <<head, tail, offset, current>>
  BY ConstFacts DEF CopyBytes, ProducerInv, InCopy
<1>2. /\ head \in Nat /\ tail \in Nat /\ head <= tail /\ offset \in Nat
      /\ tail - head <= Capacity /\ Capacity \in Nat \ {0}
      /\ Length[current] \in Nat /\ current \in Nat
      /\ Start[current] \in Nat
  BY <1>1, ConstFacts, StartFacts DEF TypeOK, ProviderTypeOK
<1>2a. buffer \in [Index -> Byte \cup {<< >>}]
  BY DEF TypeOK, ProviderTypeOK
<1>3. t \in 0..(Capacity - 1) BY <1>2, DivMod
<1>3a. WriteSegment = Smaller(Capacity - (tail - head), Capacity - t)
  BY DEF WriteSegment, Contiguous, AvailableToWrite
<1>3b. tail % Capacity = t OBVIOUS
<1> HIDE DEF t
<1>4. /\ room_ \in Nat /\ room_ <= Capacity - (tail - head)
      /\ room_ <= Capacity - t /\ room_ <= Length[current] - offset
  <2>1. /\ Capacity - (tail - head) \in Nat /\ Capacity - t \in Nat
        /\ Length[current] - offset \in Nat
    BY <1>1, <1>2, <1>3
  <2>2. /\ WriteSegment \in Nat /\ WriteSegment <= Capacity - (tail - head)
        /\ WriteSegment <= Capacity - t
    BY <2>1, <1>3a DEF Smaller
  <2> QED BY <2>1, <2>2 DEF Smaller
<1>5. PICK n \in Nat :
        /\ n <= room_ /\ filled' = n
        /\ Store([k \in 1..n |-> <<current, offset + k>>])
  <2>1. PICK n \in (IF Small(current) THEN {room_} ELSE 1..room_) :
          /\ Store([k \in 1..n |-> <<current, offset + k>>])
          /\ filled' = n
    BY DEF CopyBytes
  <2> HIDE DEF room_
  <2>2. n \in Nat /\ n <= room_ BY <1>4
  <2> QED BY <2>1, <2>2
<1> HIDE DEF room_
<1>6. /\ n <= Capacity - (tail - head) /\ n <= Capacity - t
      /\ offset + n <= Length[current] /\ tail + n - head <= Capacity
  BY <1>2, <1>3, <1>4, <1>5
<1>7. buffer' = [i \in Index |-> IF i - t + 1 \in 1..n
                                   THEN <<current, offset + (i - t + 1)>>
                                   ELSE buffer[i]]
  <2>1. DOMAIN [k \in 1..n |-> <<current, offset + k>>] = 1..n OBVIOUS
  <2>2. ASSUME NEW j \in 1..n
        PROVE  [k \in 1..n |-> <<current, offset + k>>][j]
                 = <<current, offset + j>>
    OBVIOUS
  <2> QED BY <1>5, <2>1, <2>2 DEF Store, t
<1>8. buffer' \in [Index -> Byte \cup {<< >>}]
  <2>1. ASSUME NEW i \in Index, i - t + 1 \in 1..n
        PROVE  <<current, offset + (i - t + 1)>> \in Byte
    <3>1. offset + (i - t + 1) \in Nat BY <2>1, <1>2
    <3> QED BY <3>1, <1>1 DEF Byte
  <2> QED BY <1>2a, <1>7, <2>1
<1>9. RingHolds'
  <2> SUFFICES ASSUME NEW f \in File, NEW k \in 1..Length[f],
                      head <= Start[f] + k - 1,
                      Start[f] + k - 1 < tail + n
               PROVE  buffer'[(Start[f] + k - 1) % Capacity] = <<f, k>>
    BY <1>1, <1>5 DEF RingHolds
  <2> DEFINE p == Start[f] + k - 1
  <2>1. Start[f] \in Nat /\ k \in Nat /\ k >= 1 /\ p \in Nat
        /\ head <= p /\ p < tail + n /\ p = Start[f] + k - 1
    <3>1. f \in 1..(Last + 1) /\ Length[f] \in Nat BY ConstFacts
    <3>2. Start[f] \in Nat /\ k \in Nat /\ k >= 1 BY <3>1, StartFacts
    <3>3. p \in Nat BY <3>2
    <3> QED BY <3>2, <3>3
  <2> SUFFICES buffer'[p % Capacity] = <<f, k>> OBVIOUS
  <2> HIDE DEF p
  <2>2. p % Capacity \in 0..(Capacity - 1)
    BY <2>1, <1>2, DivMod
  <2> DEFINE r == p % Capacity
  <2>2a. p % Capacity = r OBVIOUS
  <2> HIDE DEF r
  <2>2b. r \in Nat /\ r < Capacity BY <2>2, <2>2a, <1>2
  <2>2c. r \in Index BY <2>2, <2>2a DEF Index
  <2>3. CASE p < tail
    <3>1. buffer[p % Capacity] = <<f, k>>
      <4>1. p < tail + filled BY <2>3, <1>1, <1>2, <2>1
      <4>2. head <= p /\ p < tail + filled => buffer[p % Capacity] = <<f, k>>
        BY <2>1 DEF RingHolds
      <4> QED BY <4>1, <4>2, <2>1
    <3>2. ~ (r - t + 1 \in 1..n)
      <4> SUFFICES ASSUME r - t + 1 \in 1..n PROVE FALSE
        OBVIOUS
      <4>1. PICK j \in Nat : j = r - t /\ j < n /\ t + j < Capacity
        BY <2>2b, <1>2, <1>3, <1>6
      <4>2. (tail + j) % Capacity = t + j
        BY <4>1, <1>2, <1>3b, ModShift
      <4>3. t + j = r BY <4>1, <2>2b, <1>3
      <4>4. (tail + j) % Capacity = p % Capacity BY <4>2, <4>3, <2>2a
      <4>5. tail + j - p < Capacity /\ p - (tail + j) < Capacity
            /\ tail + j \in Nat
        BY <4>1, <2>1, <2>3, <1>2, <1>6
      <4>6. tail + j = p
        <5>1. p \in Nat /\ Capacity \in Nat \ {0} BY <2>1, <1>2
        <5>2. PICK x \in Nat : x = tail + j BY <4>5
        <5>3. x - p < Capacity /\ p - x < Capacity BY <4>5, <5>2, <5>1, <1>2
        <5>4. x % Capacity = p % Capacity BY <4>4, <5>2
        <5>5. x = p BY <5>1, <5>3, <5>4, ModUnique
        <5> QED BY <5>2, <5>5
      <4> QED BY <4>6, <4>1, <2>3, <1>2, <2>1
    <3>3. buffer'[r] = buffer[r] BY <3>2, <2>2c, <1>7
    <3> QED BY <3>1, <3>3, <2>2a
  <2>4. CASE tail <= p
    <3>1. PICK j \in Nat : j < n /\ t + j < Capacity /\ p = tail + j
      <4>1. p - tail \in Nat /\ p - tail < n /\ p = tail + (p - tail)
        BY <2>1, <2>4, <1>2
      <4>2. t + (p - tail) < Capacity
        BY <4>1, <2>1, <1>2, <1>3, <1>6
      <4> QED BY <4>1, <4>2
    <3>2. r = t + j BY <3>1, <1>2, <1>3b, <2>2a, ModShift
    <3>3. r - t + 1 = j + 1 /\ j + 1 \in 1..n
      BY <3>1, <3>2, <1>3, <2>2b
    <3>4. f = current /\ k = offset + (j + 1)
      <4>1. offset + (j + 1) \in 1..Length[current]
        BY <3>1, <1>2, <1>6
      <4>2. Start[f] + k = Start[current] + (offset + (j + 1))
        BY <2>1, <3>1, <1>1, <1>2
      <4> QED BY <4>1, <4>2, <1>1, PlaceUnique
    <3>5. buffer'[r] = <<f, k>>
      BY <3>3, <3>4, <2>2c, <1>7
    <3> QED BY <3>5, <2>2a
  <2> QED BY <2>1, <2>3, <2>4, <1>2
<1> QED BY <1>5, <1>6, <1>8, <1>9

LEMMA QueueAfterType ==
  ASSUME queue \in Seq(File), NEW f \in File
  PROVE  QueueAfter(f) \in Seq(File)
<1>1. CASE \E k \in DOMAIN queue : queue[k] = f
  <2> DEFINE c == CHOOSE k \in DOMAIN queue : queue[k] = f
  <2>1. c \in DOMAIN queue BY <1>1
  <2>2. DOMAIN queue = 1..Len(queue) /\ Len(queue) \in Nat
    BY LenProperties
  <2>3. QueueAfter(f) = SubSeq(queue, 1 + c, Len(queue))
    BY <1>1 DEF QueueAfter
  <2> HIDE DEF c
  <2>4. 1 + c \in 1..(Len(queue) + 1) BY <2>1, <2>2
  <2>5. SubSeq(queue, 1 + c, Len(queue)) \in Seq(File)
    BY <2>2, <2>4, SubSeqProperties
  <2> QED BY <2>3, <2>5
<1>2. CASE ~ \E k \in DOMAIN queue : queue[k] = f
  BY <1>2, EmptySeq DEF QueueAfter
<1> QED BY <1>1, <1>2

\* What a step of the provider can do to what the writer sees of it.
LEMMA ProviderMoves ==
  ASSUME TypeOK, ProducerInv, Provider
  PROVE  /\ head' = head /\ tail' \in Nat /\ tail <= tail'
         /\ cancelled' = cancelled
         /\ disposed => disposed'
         /\ producer = "done" => producer' = "done" /\ tail' = tail
<1> USE DEF ringVars, producerVars, preloaderVars, cacheVars, ProducerEnds
<1>1. head \in Nat /\ tail \in Nat /\ filled \in Nat
  BY DEF TypeOK, ProviderTypeOK
<1>2. CASE AdvanceWrite BY <1>2, <1>1 DEF AdvanceWrite
<1>3. CASE NextFile \/ LookInCache \/ LoadSmall \/ OpenLarge \/ AskForRoom
           \/ CopyBytes \/ FileCopied \/ CopyFails
  BY <1>3, <1>1 DEF NextFile, LookInCache, LoadSmall, OpenLarge, AskForRoom,
     CopyBytes, FileCopied, CopyFails
<1>4. CASE Preloader
  BY <1>4, <1>1 DEF Preloader, StartPreload, PreloadNext, AwaitRoom,
     PreloadFile, Enqueue
<1>5. CASE EndCompletion BY <1>5, <1>1 DEF EndCompletion
<1> QED BY <1>2, <1>3, <1>4, <1>5 DEF Provider, Producer

LEMMA ProviderType ==
  ASSUME TypeOK, RingHolds, ProducerInv, Provider
  PROVE  ProviderTypeOK'
<1> USE DEF ringVars, producerVars, preloaderVars, cacheVars, ProducerEnds,
            ProviderTypeOK
<1>1. ProviderTypeOK BY DEF TypeOK
<1>2. /\ Last \in Nat \ {0} /\ File = 1..Last /\ Capacity \in Nat
      /\ \A f \in File : Length[f] \in Nat
  BY ConstFacts
<1>3. /\ producer \in {"look", "load", "open"} \cup InCopy => current \in File
      /\ producer = "next" => current \in 0..Last
  BY <1>1, <1>2 DEF ProducerInv, InCopy
<1>4. CASE NextFile
  <2>1. /\ producer' \in {"look", "open", "done"}
        /\ current' = current \/ current' = current + 1
        /\ offset' = offset \/ offset' = 0
        /\ completed' \in {completed, TRUE}
        /\ UNCHANGED <<buffer, head, tail, disposed, filled, opened,
                       preloaderVars, cacheVars, cancelled>>
    BY <1>4 DEF NextFile
  <2>2. current' \in 0..(Last + 1)
    BY <1>4, <2>1, <1>2, <1>3 DEF NextFile
  <2>3. offset' \in Nat BY <2>1, <1>1
  <2>6. completed' \in BOOLEAN
    <3>1. completed \in BOOLEAN BY <1>1
    <3>2. completed' \in {completed, TRUE} BY <2>1
    <3> QED BY <3>1, <3>2, Zenon
  <2>4. /\ buffer' = buffer /\ head' = head /\ tail' = tail
        /\ disposed' = disposed /\ filled' = filled /\ opened' = opened
        /\ preloader' = preloader /\ at' = at /\ version' = version
        /\ cache' = cache /\ queue' = queue /\ cancelled' = cancelled
    BY <2>1
  <2>5. producer' \in {"look", "open", "done"} BY <2>1
  <2> QED BY <2>2, <2>3, <2>4, <2>5, <2>6, <1>1
<1>5. CASE LookInCache
  <2>1. QueueAfter(current) \in Seq(File)
    BY <1>5, <1>1, <1>3, QueueAfterType DEF LookInCache
  <2> QED BY <2>1, <1>5, <1>1 DEF LookInCache
<1>6. CASE LoadSmall \/ OpenLarge
  BY <1>6, <1>1, <1>3 DEF LoadSmall, OpenLarge
<1>7. CASE AskForRoom \/ FileCopied \/ CopyFails
  BY <1>7, <1>1 DEF AskForRoom, FileCopied, CopyFails
<1>8. CASE CopyBytes
  <2>1. filled' \in Nat /\ buffer' \in [Index -> Byte \cup {<< >>}]
    BY <1>8, CopyBytesRing
  <2>2. /\ producer' = "advance"
        /\ UNCHANGED <<head, tail, completed, disposed, current, offset, opened,
                       preloaderVars, cacheVars, cancelled>>
    BY <1>8 DEF CopyBytes
  <2> QED BY <2>1, <2>2, <1>1
<1>9. CASE AdvanceWrite
  <2>1. tail + filled - head <= Capacity
    BY <1>9 DEF AdvanceWrite, ProducerInv
  <2>2. /\ tail' = tail + filled /\ offset' = offset + filled /\ filled' = 0
        /\ producer' = "copy"
        /\ UNCHANGED <<buffer, head, completed, disposed, current, opened,
                       preloaderVars, cacheVars, cancelled>>
    BY <1>9 DEF AdvanceWrite
  <2>3. tail' \in Nat /\ offset' \in Nat /\ head <= tail'
        /\ tail' - head <= Capacity
    BY <2>1, <2>2, <1>1, <1>2
  <2> QED BY <2>2, <2>3, <1>1
<1>10. CASE StartPreload
  <2>1. ListVersion \in Nat
    <3>1. current \in Nat BY <1>1, <1>2
    <3> QED BY <3>1, <1>2 DEF ListVersion, Smaller
  <2> QED BY <2>1, <1>10, <1>1 DEF StartPreload
<1>11. CASE PreloadNext
  <2>1. /\ \/ preloader' = "done" /\ at' = at
           \/ preloader' \in {"next", "room"} /\ at' = at + 1 /\ at # Last
        /\ UNCHANGED <<ringVars, producerVars, version, cacheVars, opened,
                       cancelled>>
    BY <1>11 DEF PreloadNext
  <2>2. at' \in 0..Last /\ (preloader' = "room" => at' \in File)
    BY <2>1, <1>1, <1>2
  <2>3. preloader' \in {"next", "room", "done"} BY <2>1
  <2>4. /\ buffer' = buffer /\ head' = head /\ tail' = tail
        /\ completed' = completed /\ disposed' = disposed
        /\ producer' = producer /\ current' = current /\ offset' = offset
        /\ filled' = filled /\ opened' = opened /\ version' = version
        /\ cache' = cache /\ queue' = queue /\ cancelled' = cancelled
    BY <2>1
  <2> QED BY <2>2, <2>3, <2>4, <1>1
<1>12. CASE AwaitRoom BY <1>12, <1>1 DEF AwaitRoom
<1>13. preloader \in {"read", "enqueue"} => at \in File BY <1>1
<1>14. CASE PreloadFile BY <1>13, <1>14, <1>1 DEF PreloadFile
<1>15. CASE Enqueue BY <1>13, <1>15, <1>1 DEF Enqueue
<1>16. CASE EndCompletion BY <1>16, <1>1 DEF EndCompletion
<1> QED
  BY <1>4, <1>5, <1>6, <1>7, <1>8, <1>9, <1>10, <1>11, <1>12, <1>14, <1>15,
     <1>16 DEF Provider, Producer, Preloader

LEMMA ProviderRing ==
  ASSUME TypeOK, RingHolds, ProducerInv, CompletionInv, Provider
  PROVE  RingHolds' /\ ProducerInv' /\ CompletionInv'
<1> USE DEF ringVars, producerVars, preloaderVars, cacheVars, ProducerEnds
<1>1. /\ head \in Nat /\ tail \in Nat /\ filled \in Nat /\ offset \in Nat
      /\ current \in 0..(Last + 1)
  BY DEF TypeOK, ProviderTypeOK
<1>2. /\ Last \in Nat \ {0} /\ File = 1..Last
      /\ \A f \in File : Length[f] \in Nat
  BY ConstFacts
<1>3. \A n \in 1..(Last + 1) : Start[n] \in Nat BY StartFacts
<1>4. \/ EndCompletion
      \/ disposed' = disposed /\ completed' = completed
      \/ disposed' = disposed /\ producer' = "done"
  BY DEF Provider, Producer, Preloader, NextFile, LookInCache, LoadSmall,
     OpenLarge, AskForRoom, CopyBytes, AdvanceWrite, FileCopied, CopyFails,
     StartPreload, PreloadNext, AwaitRoom, PreloadFile, Enqueue
<1>5. cancelled' = cancelled /\ (producer = "done" => producer' = "done")
  BY ProviderMoves
<1>6. CompletionInv'
  BY <1>4, <1>5 DEF EndCompletion, Joined, CompletionInv
<1>7. CASE UNCHANGED <<buffer, head, tail, filled, producer, current, offset>>
  BY <1>6, <1>7 DEF RingHolds, ProducerInv
<1>8. CASE Preloader \/ EndCompletion
  BY <1>7, <1>8 DEF Preloader, StartPreload, PreloadNext, AwaitRoom,
     PreloadFile, Enqueue, EndCompletion
<1>9. UNCHANGED <<buffer, head, tail, filled>> => RingHolds'
  BY DEF RingHolds
<1>10. CASE NextFile
  <2>1. UNCHANGED <<buffer, head, tail, filled>> /\ filled = 0
    BY <1>10 DEF NextFile, ProducerInv
  <2>2. CASE cancelled
    <3>1. producer = "next" /\ producer' = "done" /\ UNCHANGED <<current, offset>>
      BY <1>10, <2>2 DEF NextFile
    <3> QED BY <3>1, <2>1, <1>6, <1>9 DEF ProducerInv, InCopy
  <2>3. CASE ~cancelled
    <3>1. /\ producer = "next" /\ producer' \in {"look", "open", "done"}
          /\ current = Last <=> producer' = "done"
          /\ current' = current + 1 /\ offset' = 0
      BY <1>10, <2>3 DEF NextFile
    <3>2. current \in 0..Last
      BY <3>1, <1>1, <1>2 DEF ProducerInv
    <3>3. current' \in 1..(Last + 1) BY <3>1, <3>2, <1>2
    <3>4. tail = Start[current']
      <4>1. CASE current = 0
        BY <4>1, <3>1, StartFacts DEF ProducerInv
      <4>2. CASE current > 0
        <5>1. current \in File BY <3>2, <1>2, <4>2
        <5>2. tail = Start[current] + Length[current]
          BY <3>1, <4>2 DEF ProducerInv
        <5> QED BY <5>1, <5>2, <3>1, StartFacts
      <4> QED BY <4>1, <4>2, <3>2, <1>2
    <3>5. tail' = Start[current'] + offset'
      BY <3>1, <3>3, <3>4, <2>1, <1>3
    <3>6. current' \in File => offset' <= Length[current'] BY <3>1, <1>2
    <3>7. current' # 0 /\ (producer' # "done" => current' \in File)
      BY <3>1, <3>2, <1>2
    <3>8. current' = Last + 1 => producer' = "done"
      BY <3>1, <3>2, <1>2
    <3>9. filled' = 0 BY <2>1
    <3> QED
      BY <3>1, <3>5, <3>6, <3>7, <3>8, <3>9, <2>1, <1>6, <1>9 DEF ProducerInv, InCopy
  <2> QED BY <2>2, <2>3
<1>11. CASE LookInCache \/ LoadSmall \/ OpenLarge \/ AskForRoom \/ FileCopied
            \/ CopyFails
  <2>1. /\ UNCHANGED <<buffer, head, tail, filled, current, offset>>
        /\ producer \in {"look", "load", "open", "copy", "room"}
        /\ \/ producer' \in {"load", "copy", "room", "done"}
           \/ producer' = "next" /\ offset = Length[current]
    BY <1>11 DEF LookInCache, LoadSmall, OpenLarge, AskForRoom, FileCopied,
       CopyFails
  <2> QED BY <2>1, <1>2, <1>6, <1>9 DEF ProducerInv, InCopy
<1>12. CASE CopyBytes
  <2>1. /\ filled' \in Nat /\ offset + filled' <= Length[current]
        /\ tail + filled' - head <= Capacity /\ RingHolds'
    BY <1>12, CopyBytesRing
  <2>2. /\ producer = "room" /\ producer' = "advance"
        /\ UNCHANGED <<head, tail, current, offset>>
    BY <1>12 DEF CopyBytes
  <2> QED BY <2>1, <2>2, <1>6 DEF ProducerInv, InCopy
<1>13. CASE AdvanceWrite
  <2>1. /\ producer = "advance" /\ producer' = "copy"
        /\ tail' = tail + filled /\ offset' = offset + filled /\ filled' = 0
        /\ UNCHANGED <<buffer, head, current>>
    BY <1>13 DEF AdvanceWrite
  <2>2. /\ current \in File /\ current > 0 /\ current # Last + 1
        /\ offset + filled <= Length[current]
        /\ tail = Start[current] + offset
    BY <2>1, <1>2 DEF ProducerInv, InCopy
  <2>3. tail' + filled' = tail + filled BY <2>1, <1>1
  <2>4. RingHolds'
    BY <2>1, <2>3 DEF RingHolds
  <2>5. tail' = Start[current] + offset'
    <3>1. Start[current] \in Nat BY <2>2, <1>2, <1>3
    <3> QED BY <2>1, <2>2, <3>1, <1>1
  <2> QED BY <2>1, <2>2, <2>4, <2>5, <1>6 DEF ProducerInv, InCopy
<1> QED
  BY <1>8, <1>10, <1>11, <1>12, <1>13 DEF Provider, Producer

\* The writer is as far behind as before, and what is over stays over.
LEMMA ProviderReads ==
  ASSUME TypeOK, ProducerInv, CompletionInv, FileInv, ReadInv, StopInv,
         Provider, UNCHANGED writeVars
  PROVE  FileInv' /\ ReadInv' /\ StopInv'
<1> USE DEF writeVars, fileVars, taskVars, planVars, indexVars, tapeVars
<1>1. /\ head' = head /\ tail' \in Nat /\ tail <= tail'
      /\ cancelled' = cancelled
      /\ disposed => disposed'
      /\ producer = "done" => producer' = "done" /\ tail' = tail
  BY ProviderMoves
<1>2. head \in Nat /\ tail \in Nat /\ segment \in Nat
  BY DEF TypeOK, ProviderTypeOK
<1>3. /\ writer' = writer /\ index' = index /\ left' = left /\ block' = block
      /\ segment' = segment /\ stopFlag' = stopFlag
  OBVIOUS
<1>4. Dead => Dead' BY <1>1, <1>3 DEF Dead
<1>5. Aligned => Aligned' BY <1>1, <1>3 DEF Aligned
<1>6. ReadInv' BY <1>1, <1>3, <1>4, <1>5 DEF ReadInv
<1>7. StopInv' BY <1>1, <1>3 DEF StopInv
<1>8. head + segment <= tail => head' + segment' <= tail'
  BY <1>1, <1>2, <1>3
<1>9. FileInv' BY <1>3, <1>8 DEF FileInv
<1> QED BY <1>6, <1>7, <1>9

LEMMA ProviderStep ==
  ASSUME IInv, Provider, UNCHANGED writeVars
  PROVE  IInv'
<1> USE DEF writeVars, fileVars, taskVars, planVars, indexVars, tapeVars
<1>1. RingHolds' /\ ProducerInv' /\ CompletionInv'
  BY ProviderRing DEF IInv
<1>2. FileInv' /\ ReadInv' /\ StopInv' BY ProviderReads DEF IInv
<1>3. ProviderTypeOK' BY ProviderType DEF IInv
<1>4. TypeOK' BY <1>3 DEF IInv, TypeOK
<1>5. TaskInv' BY DEF IInv, TaskInv, TaskRuns, Handed, Excused, Placed
<1>6. WholeInv' BY DEF IInv, WholeInv, Whole, OnTape
<1>7. ListInv' /\ BlocksInv' /\ IndexesInv'
  BY DEF IInv, ListInv, BlocksInv, IndexesInv
<1> QED BY <1>1, <1>2, <1>4, <1>5, <1>6, <1>7 DEF IInv

-----------------------------------------------------------------------------
\* Blocks of a file.

\* Block k exists if the file goes beyond its beginning.
LEMMA BlocksFacts ==
  ASSUME NEW f \in File
  PROVE  /\ Blocks(f) \in Nat
         /\ Length[f] = 0 => Blocks(f) = 0
         /\ \A k \in Nat : k * BlockSize < Length[f] <=> k < Blocks(f)
<1>1. Length[f] \in Nat /\ BlockSize \in Nat \ {0} BY ConstFacts
<1> DEFINE l == Length[f]
           b == BlockSize
           q == (l + b - 1) \div b
           r == (l + b - 1) % b
<1>2. l \in Nat /\ b \in Nat \ {0} /\ l + b - 1 \in Nat BY <1>1
<1> HIDE DEF l, b
<1>3. r \in 0..(b - 1) /\ l + b - 1 = b * q + r /\ q \in Nat
  BY <1>2, DivMod
<1> HIDE DEF q, r
<1>4. ASSUME l = 0 PROVE q = 0
  <2> SUFFICES ASSUME q >= 1 PROVE FALSE BY <1>3
  <2>1. b * 1 <= b * q BY <1>2, <1>3, MulMono
  <2>2. b * q \in Nat /\ b * 1 = b BY <1>2, <1>3
  <2> QED BY <2>1, <2>2, <1>2, <1>3, <1>4
<1>5. ASSUME NEW k \in Nat PROVE k * b < l <=> k < q
  <2>1. b * k \in Nat /\ b * q \in Nat /\ k * b = b * k BY <1>2, <1>3
  <2>2. ASSUME k < q PROVE k * b < l
    <3>1. b * (k + 1) <= b * q BY <2>2, <1>2, <1>3, MulMono
    <3>2. b * (k + 1) = b * k + b BY <1>2
    <3> QED BY <3>1, <3>2, <2>1, <1>2, <1>3
  <2>3. ASSUME q <= k PROVE ~ (k * b < l)
    <3>1. b * q <= b * k BY <2>3, <1>2, <1>3, MulMono
    <3> QED BY <3>1, <2>1, <1>2, <1>3
  <2> QED BY <2>2, <2>3, <1>3
<1>6. Blocks(f) = q BY DEF Blocks, q, l, b
<1> QED BY <1>3, <1>4, <1>5, <1>6 DEF l, b

LEMMA FileBlockFacts ==
  ASSUME NEW f \in File, NEW k \in Nat, k * BlockSize < Length[f]
  PROVE  /\ FileBlock(f, k) \in Seq(Byte)
         /\ FileBlock(f, k) # << >>
<1> DEFINE m == Smaller(BlockSize, Length[f] - k * BlockSize)
           b == k * BlockSize
<1>1. b \in Nat /\ m \in Nat \ {0}
  BY ConstFacts DEF Smaller
<1>2. FileBlock(f, k) = [n \in 1..m |-> <<f, b + n>>] BY DEF FileBlock
<1> HIDE DEF m, b
<1>3. ASSUME NEW n \in 1..m PROVE <<f, b + n>> \in Byte
  BY <1>1 DEF Byte
<1> DEFINE s == [n \in 1..m |-> <<f, b + n>>]
<1>4. s \in [1..m -> Byte] BY <1>3
<1>5. s \in Seq(Byte) BY <1>1, <1>4, SeqDef
<1>6. Len(s) = m
  <2>1. DOMAIN s = 1..m OBVIOUS
  <2> HIDE DEF s
  <2> QED BY <2>1, <1>1, <1>5, LenProperties
<1> HIDE DEF s
<1>7. s # << >> BY <1>1, <1>5, <1>6
<1> QED BY <1>2, <1>5, <1>7 DEF s

\* Bytes of a file in order, from where a block begins to where it ends.
LEMMA BlockIs ==
  ASSUME NEW f \in File, NEW k \in Nat, NEW s \in Seq(Byte),
         Len(s) = Smaller(BlockSize, Length[f] - k * BlockSize),
         \A n \in 1..Len(s) : s[n] = <<f, k * BlockSize + n>>
  PROVE  s = FileBlock(f, k)
<1> DEFINE b == k * BlockSize
<1>1. s = [n \in 1..Len(s) |-> s[n]]
  <2>1. DOMAIN s = 1..Len(s) BY LenProperties
  <2>2. s \in [1..Len(s) -> Byte] BY LenProperties
  <2> QED BY <2>2
<1>2. [n \in 1..Len(s) |-> s[n]] = [n \in 1..Len(s) |-> <<f, b + n>>]
  OBVIOUS
<1>3. FileBlock(f, k) = [n \in 1..Len(s) |-> <<f, b + n>>] BY DEF FileBlock
<1> QED BY <1>1, <1>2, <1>3

-----------------------------------------------------------------------------
\* The tape grows at its end: what stands on it stays.

Record == [bytes : Seq(Byte), lists : SUBSET File]

LEMMA Grows ==
  ASSUME TypeOK, NEW x \in Record, tape' = Append(tape, x),
         UNCHANGED extent
  PROVE  /\ tape' \in Seq(Record)
         /\ Len(tape') = Len(tape) + 1 /\ Len(tape) \in Nat
         /\ DOMAIN tape = 1..Len(tape)
         /\ DOMAIN tape' = 1..(Len(tape) + 1)
         /\ \A q \in DOMAIN tape : q \in DOMAIN tape' /\ tape'[q] = tape[q]
         /\ tape'[Len(tape) + 1] = x
         /\ \A f \in File : OnTape(f) => OnTape(f)'
<1>1. tape \in Seq(Record) BY DEF TypeOK, Record
<1>2. /\ tape' \in Seq(Record) /\ Len(tape') = Len(tape) + 1
      /\ tape'[Len(tape) + 1] = x
      /\ \A q \in 1..Len(tape) : tape'[q] = tape[q]
  BY <1>1, AppendProperties
<1>3. /\ Len(tape) \in Nat /\ DOMAIN tape = 1..Len(tape)
      /\ DOMAIN tape' = 1..(Len(tape) + 1)
  BY <1>1, <1>2, LenProperties
<1>4. \A q \in DOMAIN tape : q \in DOMAIN tape' /\ tape'[q] = tape[q]
  BY <1>2, <1>3
<1>5. \A f \in File : OnTape(f) => OnTape(f)'
  BY <1>4 DEF OnTape
<1> QED BY <1>2, <1>3, <1>4, <1>5

\* A step that leaves the provider alone.
LEMMA ProviderStays ==
  ASSUME IInv, UNCHANGED providerVars
  PROVE  /\ ProviderTypeOK' /\ RingHolds' /\ ProducerInv' /\ CompletionInv'
         /\ head' = head /\ tail' = tail /\ cancelled' = cancelled
         /\ disposed' = disposed /\ producer' = producer
<1> USE DEF providerVars, ringVars, producerVars, preloaderVars, cacheVars
<1>1. ProviderTypeOK' BY DEF IInv, TypeOK, ProviderTypeOK
<1>2. RingHolds' /\ ProducerInv' /\ CompletionInv'
  BY DEF IInv, RingHolds, ProducerInv, CompletionInv
<1> QED BY <1>1, <1>2

\* The head goes on over bytes that are there.
LEMMA HeadMoves ==
  ASSUME IInv, NEW n \in Nat, head' = head + n, head + n <= tail,
         UNCHANGED <<buffer, tail, completed, disposed, producerVars,
                     preloaderVars, cacheVars, opened, cancelled>>
  PROVE  ProviderTypeOK' /\ RingHolds' /\ ProducerInv' /\ CompletionInv'
<1> USE DEF producerVars, preloaderVars, cacheVars
<1>1. /\ head \in Nat /\ tail \in Nat /\ filled \in Nat /\ Capacity \in Nat
      /\ head <= tail /\ tail - head <= Capacity
  BY ConstFacts DEF IInv, TypeOK, ProviderTypeOK
<1>2. head' \in Nat /\ head' <= tail' /\ tail' - head' <= Capacity
  BY <1>1
<1>3. ProviderTypeOK'
  BY <1>2 DEF IInv, TypeOK, ProviderTypeOK
<1>4. RingHolds'
  <2> SUFFICES ASSUME NEW f \in File, NEW k \in 1..Length[f],
                      head' <= Start[f] + k - 1,
                      Start[f] + k - 1 < tail + filled
               PROVE  buffer[(Start[f] + k - 1) % Capacity] = <<f, k>>
    BY DEF RingHolds
  <2>1. Start[f] \in Nat /\ k \in Nat /\ Length[f] \in Nat
    BY ConstFacts, StartFacts
  <2>2. head <= Start[f] + k - 1 BY <2>1, <1>1
  <2> QED BY <2>2 DEF IInv, RingHolds
<1>5. producer = "advance" => tail + filled - head' <= Capacity
  BY <1>1 DEF IInv, ProducerInv
<1>6. ProducerInv' BY <1>5 DEF IInv, ProducerInv
<1>7. CompletionInv' BY DEF IInv, CompletionInv
<1> QED BY <1>3, <1>4, <1>6, <1>7

-----------------------------------------------------------------------------
\* Steps that move only the writer, and perhaps set StopFlag.

StepOnly ==
  UNCHANGED <<providerVars, index, fileVars, taskVars, planVars, tapeVars>>

LEMMA StepOnlyKeeps ==
  ASSUME IInv, StepOnly, stopFlag' \in BOOLEAN, stopFlag => stopFlag',
         UNCHANGED indexVars,
         writer' \in {"next", "opening", "doubt", "read", "fetch", "asked",
                      "drain", "write", "writeAsked", "hand", "finish",
                      "checkpoint", "commit", "cleanup", "closing", "ended"}
  PROVE  /\ TypeOK' /\ RingHolds' /\ ProducerInv' /\ CompletionInv'
         /\ BlocksInv' /\ IndexesInv'
         /\ writer' # "next" /\ writer \notin {"closing", "ended"} => StopInv'
         /\ Aligned => Aligned'
         /\ Dead => Dead'
         /\ head' = head /\ cancelled' = cancelled
         /\ disposed' = disposed /\ producer' = producer
         /\ \A f \in File : Whole(f) => Whole(f)'
<1> USE DEF StepOnly, fileVars, taskVars, planVars, tapeVars, indexVars
<1>1. /\ ProviderTypeOK' /\ RingHolds' /\ ProducerInv' /\ CompletionInv'
      /\ head' = head /\ tail' = tail /\ cancelled' = cancelled
      /\ disposed' = disposed /\ producer' = producer
  BY ProviderStays
<1>2. TypeOK' BY <1>1 DEF IInv, TypeOK
<1>3. BlocksInv' /\ IndexesInv' BY DEF IInv, BlocksInv, IndexesInv
<1>4. Aligned => Aligned' BY <1>1 DEF Aligned
<1>5. Dead => Dead' BY <1>1 DEF Dead
<1>6. \A f \in File : Whole(f) => Whole(f)' BY DEF Whole, OnTape
<1>7. ASSUME writer' # "next", writer \notin {"closing", "ended"}
      PROVE  StopInv'
  <2>1. cancelled => stopFlag /\ index \in File /\ ~OneBlock(index)
    BY <1>7 DEF IInv, StopInv
  <2>2. index' = index OBVIOUS
  <2> QED BY <2>1, <2>2, <1>1, <1>7 DEF StopInv
<1> QED BY <1>1, <1>2, <1>3, <1>4, <1>5, <1>6, <1>7

\* The blocks of the file at hand are where they were.
LEMMA TaskKeeps ==
  ASSUME IInv, UNCHANGED <<index, left, taskVars, extent, tape, room>>,
         stopFlag => stopFlag', accepted \subseteq accepted',
         task # "none" =>
           writer' \in {"read", "fetch", "asked", "hand", "commit", "cleanup",
                        "closing", "ended"},
         TaskRuns => writer' \notin {"closing", "ended"},
         writer' \in Reading => writer \in Reading
  PROVE  TaskInv'
<1> USE DEF taskVars
<1>1. Excused => Excused' BY DEF Excused
<1>2. \A k \in Nat : Placed(k) <=> Placed(k)' BY DEF Placed
<1>3. \A k \in Nat : Handed(k) <=> Handed(k)' BY DEF Handed
<1>4. ASSUME task \in Writing
      PROVE  \E k \in Nat :
               /\ k * BlockSize < Length[index']
               /\ taskBlock' = FileBlock(index', k)
               /\ writer' \in Reading => Handed(k + 1)'
               /\ Excused' \/ Placed(k)'
  <2>1. PICK k \in Nat :
          /\ k * BlockSize < Length[index]
          /\ taskBlock = FileBlock(index, k)
          /\ writer \in Reading => Handed(k + 1)
          /\ Excused \/ Placed(k)
    BY <1>4 DEF IInv, TaskInv
  <2>2. k + 1 \in Nat OBVIOUS
  <2>3. writer' \in Reading => Handed(k + 1)' BY <2>1, <2>2, <1>3
  <2>4. Excused' \/ Placed(k)' BY <2>1, <1>1, <1>2
  <2> QED BY <2>1, <2>3, <2>4
<1>5. ASSUME writer' \in Reading, task \notin Writing
      PROVE  \E k \in Nat : Handed(k)' /\ (Excused' \/ Placed(k)')
  <2>1. PICK k \in Nat : Handed(k) /\ (Excused \/ Placed(k))
    BY <1>5 DEF IInv, TaskInv
  <2> QED BY <2>1, <1>1, <1>2, <1>3
<1>6. task' = task /\ (TaskRuns' <=> TaskRuns) /\ index' = index
  BY DEF TaskRuns
<1>7. task = "faulted" => stopFlag' BY DEF IInv, TaskInv
<1>8. task # "none" => index \in File /\ Material(index) /\ ~OneBlock(index)
  BY DEF IInv, TaskInv
<1> QED BY <1>4, <1>5, <1>6, <1>7, <1>8 DEF TaskInv

\* The writer gives up, in the middle of a file or between two.
LEMMA Leaves ==
  ASSUME IInv, StepOnly, UNCHANGED indexVars, writer' = "commit",
         stopFlag' \in BOOLEAN, stopFlag => stopFlag',
         writer \notin {"closing", "ended", "commit", "cleanup"},
         task # "none" => writer \in {"read", "asked"}
  PROVE  IInv'
<1> USE DEF StepOnly, fileVars, taskVars, planVars, tapeVars, indexVars
<1>1. /\ TypeOK' /\ RingHolds' /\ ProducerInv' /\ CompletionInv'
      /\ BlocksInv' /\ IndexesInv'
      /\ cancelled' = cancelled
      /\ \A f \in File : Whole(f) => Whole(f)'
  BY StepOnlyKeeps
<1>2. FileInv' /\ ReadInv' BY DEF FileInv, ReadInv, Reading
<1>3. StopInv' BY <1>1 DEF IInv, StopInv
<1>4. TaskInv'
  <2>1. task # "none" => writer' \in {"commit"} OBVIOUS
  <2> QED BY <2>1, TaskKeeps DEF Reading
<1>5. WholeInv' BY <1>1 DEF IInv, WholeInv, TypeOK
<1>6. ListInv'
  BY ConstFacts DEF IInv, ListInv, Reading, TypeOK, FileInv
<1> QED BY <1>1, <1>2, <1>3, <1>4, <1>5, <1>6 DEF IInv

LEMMA EndOfListKeeps == ASSUME IInv, EndOfList PROVE IInv'
<1>1. /\ StepOnly /\ UNCHANGED indexVars /\ UNCHANGED stopFlag
      /\ writer = "next" /\ writer' = "commit"
  BY DEF EndOfList, StepOnly
<1>2. stopFlag' \in BOOLEAN /\ (stopFlag => stopFlag')
  BY <1>1 DEF IInv, TypeOK
<1>3. task = "none" BY <1>1 DEF IInv, TaskInv
<1> QED BY <1>1, <1>2, <1>3, Leaves

LEMMA AwaitOpenedKeeps == ASSUME IInv, AwaitOpened PROVE IInv'
<1>1. /\ StepOnly /\ UNCHANGED indexVars /\ stopFlag' = stopFlag
      /\ writer = "opening" /\ writer' \in {"commit", "read", "doubt"}
  BY DEF AwaitOpened, StepOnly
<1>2. stopFlag' \in BOOLEAN /\ (stopFlag => stopFlag')
  BY <1>1 DEF IInv, TypeOK
<1>3. task = "none" BY <1>1 DEF IInv, TaskInv
<1>4. CASE writer' = "commit" BY <1>1, <1>2, <1>3, <1>4, Leaves
<1>5. CASE writer' \in {"read", "doubt"}
  <2> USE DEF StepOnly, fileVars, taskVars, planVars, tapeVars, indexVars
  <2>1. /\ TypeOK' /\ RingHolds' /\ ProducerInv' /\ CompletionInv'
        /\ BlocksInv' /\ IndexesInv' /\ StopInv'
        /\ Aligned => Aligned'
        /\ cancelled' = cancelled
        /\ \A f \in File : Whole(f) => Whole(f)'
    BY <1>1, <1>2, <1>5, StepOnlyKeeps
  <2>2. /\ Material(index) /\ index \in File /\ left = Length[index]
        /\ block = << >> /\ Len(block) = 0 /\ left > 0
        /\ Len(block) < Smaller(BlockSize, left)
    <3>1. Material(index) /\ index \in File /\ left = Length[index]
          /\ block = << >>
      BY <1>1 DEF IInv, FileInv, Reading
    <3>2. Len(block) = 0 BY <3>1, EmptySeq
    <3>3. left > 0 BY <3>1 DEF Material
    <3> QED BY <3>1, <3>2, <3>3, ConstFacts DEF Smaller
  <2>3. FileInv'
    BY <2>2, <1>1, <1>5 DEF IInv, FileInv, Reading
  <2>4. ReadInv' BY <2>1, <1>1, <1>5 DEF IInv, ReadInv
  <2>6. TaskInv'
    BY <1>1, <1>2, <1>3, <1>5, TaskKeeps DEF Reading, TaskRuns
  <2>7. WholeInv' BY <2>1, <1>1, <1>5 DEF IInv, WholeInv, TypeOK
  <2>8. ListInv' BY <1>1, <1>5 DEF IInv, ListInv, Reading
  <2> QED BY <2>1, <2>3, <2>4, <2>6, <2>7, <2>8 DEF IInv
<1> QED BY <1>1, <1>4, <1>5

LEMMA AskProducerKeeps == ASSUME IInv, AskProducer PROVE IInv'
<1>1. /\ StepOnly /\ UNCHANGED indexVars /\ writer = "doubt"
      /\ \/ writer' = "commit" /\ stopFlag' = TRUE
         \/ writer' = "opening" /\ stopFlag' = stopFlag
  BY DEF AskProducer, Fail, StepOnly
<1>2. stopFlag' \in BOOLEAN /\ (stopFlag => stopFlag')
  <2>1. stopFlag \in BOOLEAN BY DEF IInv, TypeOK
  <2>2. stopFlag' = TRUE \/ stopFlag' = stopFlag BY <1>1
  <2> QED BY <2>1, <2>2, Zenon
<1>3. task = "none" BY <1>1 DEF IInv, TaskInv
<1>4. CASE writer' = "commit" BY <1>1, <1>2, <1>3, <1>4, Leaves
<1>5. CASE writer' = "opening"
  <2> USE DEF StepOnly, fileVars, taskVars, planVars, tapeVars, indexVars
  <2>1. /\ TypeOK' /\ RingHolds' /\ ProducerInv' /\ CompletionInv'
        /\ BlocksInv' /\ IndexesInv' /\ StopInv'
        /\ Aligned => Aligned'
        /\ cancelled' = cancelled
        /\ \A f \in File : Whole(f) => Whole(f)'
    BY <1>1, <1>2, <1>5, StepOnlyKeeps
  <2>3. FileInv' BY <1>1, <1>5 DEF IInv, FileInv, Reading
  <2>4. ReadInv' BY <2>1, <1>1, <1>5 DEF IInv, ReadInv
  <2>6. TaskInv'
    BY <1>1, <1>2, <1>3, <1>5, TaskKeeps DEF Reading, TaskRuns
  <2>7. WholeInv' BY <2>1, <1>1, <1>5 DEF IInv, WholeInv, TypeOK
  <2>8. ListInv' BY <1>1, <1>5 DEF IInv, ListInv, Reading
  <2> QED BY <2>1, <2>3, <2>4, <2>6, <2>7, <2>8 DEF IInv
<1> QED BY <1>1, <1>4, <1>5

LEMMA RetryReadKeeps == ASSUME IInv, RetryRead PROVE IInv'
<1> USE DEF StepOnly, fileVars, taskVars, planVars, tapeVars, indexVars
<1>1. /\ StepOnly /\ UNCHANGED indexVars /\ stopFlag' = stopFlag
      /\ writer = "asked" /\ writer' = "read"
  BY DEF RetryRead
<1>2. stopFlag' \in BOOLEAN /\ (stopFlag => stopFlag')
  BY <1>1 DEF IInv, TypeOK
<1>3. /\ TypeOK' /\ RingHolds' /\ ProducerInv' /\ CompletionInv'
      /\ BlocksInv' /\ IndexesInv' /\ StopInv'
      /\ Dead => Dead'
      /\ cancelled' = cancelled
      /\ \A f \in File : Whole(f) => Whole(f)'
  BY <1>1, <1>2, StepOnlyKeeps
<1>4. /\ block = << >> /\ Len(block) = 0 /\ left > 0
      /\ Len(block) < Smaller(BlockSize, left)
  <2>1. block = << >> /\ left > 0 /\ left \in Nat
    BY <1>1 DEF IInv, FileInv, Reading, TypeOK
  <2>2. Len(block) = 0 BY <2>1, EmptySeq
  <2> QED BY <2>1, <2>2, ConstFacts DEF Smaller
<1>5. FileInv' BY <1>1, <1>4 DEF IInv, FileInv, Reading
<1>6. ReadInv' BY <1>1, <1>3, <1>4 DEF IInv, ReadInv
<1>8. TaskInv' BY <1>1, <1>2, TaskKeeps DEF Reading, TaskRuns, IInv, TaskInv
<1>9. WholeInv' BY <1>1, <1>3 DEF IInv, WholeInv, TypeOK
<1>10. ListInv' BY <1>1 DEF IInv, ListInv, Reading
<1> QED BY <1>3, <1>5, <1>6, <1>8, <1>9, <1>10 DEF IInv

LEMMA AbortReadKeeps == ASSUME IInv, AbortRead PROVE IInv'
<1>1. /\ StepOnly /\ UNCHANGED indexVars /\ writer = "asked"
      /\ writer' = "commit" /\ stopFlag' = TRUE
  BY DEF AbortRead, Fail, StepOnly
<1> QED BY <1>1, Leaves

LEMMA DrainEndsKeeps == ASSUME IInv, DrainEnds PROVE IInv'
<1>1. /\ StepOnly /\ UNCHANGED indexVars /\ writer = "drain"
      /\ \/ writer' = "commit" /\ stopFlag' = TRUE
         \/ writer' = "finish" /\ stopFlag' = stopFlag /\ left = 0
  BY DEF DrainEnds, Fail, StepOnly
<1>2. stopFlag' \in BOOLEAN /\ (stopFlag => stopFlag')
  <2>1. stopFlag \in BOOLEAN BY DEF IInv, TypeOK
  <2>2. stopFlag' = TRUE \/ stopFlag' = stopFlag BY <1>1
  <2> QED BY <2>1, <2>2, Zenon
<1>3. task = "none" BY <1>1 DEF IInv, TaskInv
<1>4. CASE writer' = "commit" BY <1>1, <1>2, <1>3, <1>4, Leaves
<1>5. CASE writer' = "finish"
  <2> USE DEF StepOnly, fileVars, taskVars, planVars, tapeVars, indexVars
  <2>1. /\ TypeOK' /\ RingHolds' /\ ProducerInv' /\ CompletionInv'
        /\ BlocksInv' /\ IndexesInv' /\ StopInv'
        /\ head' = head /\ cancelled' = cancelled
        /\ \A f \in File : Whole(f) => Whole(f)'
    BY <1>1, <1>2, <1>5, StepOnlyKeeps
  <2>2. index \in File /\ block = << >> /\ Whole(index) /\ Aligned
    BY <1>1 DEF IInv, FileInv, WholeInv, ReadInv
  <2>3. head = Start[index + 1]
    <3>1. Len(block) = 0 BY <2>2, EmptySeq
    <3>2. Start[index] \in Nat /\ Length[index] \in Nat
          /\ Start[index + 1] = Start[index] + Length[index]
      BY <2>2, ConstFacts, StartFacts
    <3>3. left = 0 BY <1>1, <1>5
    <3> QED BY <2>2, <3>1, <3>2, <3>3 DEF Aligned
  <2>4. FileInv' BY <1>1, <1>5, <2>2 DEF IInv, FileInv, Reading
  <2>5. ReadInv' BY <2>1, <2>3, <1>1, <1>5 DEF IInv, ReadInv
  <2>7. TaskInv' BY <1>1, <1>3, <1>5 DEF TaskInv, TaskRuns, Reading, Writing
  <2>8. WholeInv' BY <2>1, <2>2, <1>1, <1>5 DEF IInv, WholeInv, TypeOK
  <2>9. ListInv' BY <1>1, <1>5 DEF IInv, ListInv, Reading
  <2> QED BY <2>1, <2>4, <2>5, <2>7, <2>8, <2>9 DEF IInv
<1> QED BY <1>1, <1>4, <1>5

LEMMA NoCheckpointKeeps == ASSUME IInv, NoCheckpoint PROVE IInv'
<1>1. /\ StepOnly /\ UNCHANGED indexVars /\ stopFlag' = stopFlag
      /\ writer = "checkpoint"
      /\ \/ writer' = "commit"
         \/ writer' = "next" /\ ~stopFlag
  BY DEF NoCheckpoint, AfterFile, StepOnly
<1>2. stopFlag' \in BOOLEAN /\ (stopFlag => stopFlag')
  BY <1>1 DEF IInv, TypeOK
<1>3. task = "none" BY <1>1 DEF IInv, TaskInv
<1>4. CASE writer' = "commit" BY <1>1, <1>2, <1>3, <1>4, Leaves
<1>5. CASE writer' = "next"
  <2> USE DEF StepOnly, fileVars, taskVars, planVars, tapeVars, indexVars
  <2>1. /\ TypeOK' /\ RingHolds' /\ ProducerInv' /\ CompletionInv'
        /\ BlocksInv' /\ IndexesInv'
        /\ head' = head /\ cancelled' = cancelled
        /\ \A f \in File : Whole(f) => Whole(f)'
    BY <1>1, <1>2, <1>5, StepOnlyKeeps
  <2>2. ~stopFlag BY <1>1, <1>5
  <2>4. FileInv' BY <1>5 DEF FileInv, Reading
  <2>5. ReadInv' BY <2>1, <2>2, <1>1, <1>5 DEF IInv, ReadInv
  <2>6. StopInv' BY <2>1, <2>2, <1>1, <1>5 DEF IInv, StopInv
  <2>7. TaskInv' BY <1>1, <1>3, <1>5 DEF TaskInv, TaskRuns, Reading, Writing
  <2>8. WholeInv' BY <2>1, <2>2, <1>1, <1>5 DEF IInv, WholeInv, TypeOK
  <2>9. ListInv' BY <1>1, <1>5 DEF IInv, ListInv, Reading
  <2> QED BY <2>1, <2>4, <2>5, <2>6, <2>7, <2>8, <2>9 DEF IInv
<1> QED BY <1>1, <1>4, <1>5


LEMMA EndKeeps == ASSUME IInv, End PROVE IInv'
<1> USE DEF StepOnly, fileVars, taskVars, planVars, tapeVars, indexVars
<1>1. /\ StepOnly /\ UNCHANGED indexVars /\ stopFlag' = stopFlag
      /\ writer = "closing" /\ writer' = "ended"
  BY DEF End
<1>2. stopFlag' \in BOOLEAN /\ (stopFlag => stopFlag')
  BY <1>1 DEF IInv, TypeOK
<1>3. /\ TypeOK' /\ RingHolds' /\ ProducerInv' /\ CompletionInv'
      /\ BlocksInv' /\ IndexesInv'
      /\ cancelled' = cancelled
      /\ \A f \in File : Whole(f) => Whole(f)'
  BY <1>1, <1>2, StepOnlyKeeps
<1>4. FileInv' /\ ReadInv' /\ StopInv'
  BY <1>1 DEF FileInv, ReadInv, StopInv, Reading
<1>5. TaskInv' BY <1>1, <1>2, TaskKeeps DEF Reading, TaskRuns, IInv, TaskInv
<1>6. WholeInv' BY <1>1, <1>3 DEF IInv, WholeInv, TypeOK
<1>7. ListInv' BY <1>1 DEF IInv, ListInv, Reading
<1> QED BY <1>3, <1>4, <1>5, <1>6, <1>7 DEF IInv

LEMMA UserStopsKeeps == ASSUME IInv, UserStops PROVE IInv'
<1> USE DEF StepOnly, fileVars, taskVars, planVars, tapeVars, indexVars
<1>1. /\ StepOnly /\ UNCHANGED indexVars /\ stopFlag' = TRUE
      /\ writer' = writer
  BY DEF UserStops
<1>3. /\ TypeOK' /\ RingHolds' /\ ProducerInv' /\ CompletionInv'
      /\ BlocksInv' /\ IndexesInv'
      /\ Aligned => Aligned'
      /\ Dead => Dead'
      /\ cancelled' = cancelled /\ head' = head
      /\ \A f \in File : Whole(f) => Whole(f)'
  BY <1>1, StepOnlyKeeps DEF IInv, TypeOK
<1>4. tail' = tail
  BY <1>1, ProviderStays
<1>5. FileInv' BY <1>1, <1>3, <1>4 DEF IInv, FileInv
<1>6. ReadInv'
  <2>1. /\ stopFlag' /\ writer' = writer /\ index' = index
        /\ block' = block /\ left' = left
    BY <1>1
  <2> QED BY <2>1, <1>3 DEF IInv, ReadInv
<1>7. StopInv' BY <1>1, <1>3 DEF IInv, StopInv
<1>8. TaskInv' BY <1>1, TaskKeeps DEF TaskRuns, IInv, TaskInv
<1>9. WholeInv'
  <2>1. /\ stopFlag' /\ writer' = writer /\ index' = index
        /\ finished' = finished /\ committed' = committed
    BY <1>1
  <2>2. /\ finished \cup committed \subseteq File
        /\ writer = "drain" => index \in File
    BY DEF IInv, TypeOK, FileInv
  <2> QED BY <2>1, <2>2, <1>3 DEF IInv, WholeInv
<1>10. ListInv' BY <1>1 DEF IInv, ListInv
<1> QED BY <1>3, <1>5, <1>6, <1>7, <1>8, <1>9, <1>10 DEF IInv

LEMMA CommitAllKeeps == ASSUME IInv, CommitAll PROVE IInv'
<1> USE DEF StepOnly, fileVars, taskVars, planVars, tapeVars
<1>1. /\ StepOnly /\ stopFlag' = stopFlag /\ finished' = finished
      /\ committed' = committed \cup finished
      /\ writer = "commit" /\ writer' = "cleanup"
  BY DEF CommitAll
<1>2. /\ ProviderTypeOK' /\ RingHolds' /\ ProducerInv' /\ CompletionInv'
      /\ cancelled' = cancelled
  BY <1>1, ProviderStays
<1>3. TypeOK' BY <1>1, <1>2 DEF IInv, TypeOK
<1>4. FileInv' /\ ReadInv' BY <1>1 DEF FileInv, ReadInv, Reading
<1>5. StopInv' BY <1>1, <1>2 DEF IInv, StopInv
<1>6. TaskInv'
  BY <1>1, TaskKeeps DEF Reading, TaskRuns
<1>7. finished' \cup committed' = finished \cup committed BY <1>1
<1>8. WholeInv' BY <1>1, <1>7 DEF IInv, WholeInv, Whole, OnTape
<1>9. ListInv' BY <1>1, <1>7 DEF IInv, ListInv, Reading
<1>10. BlocksInv' /\ IndexesInv' BY <1>1 DEF IInv, BlocksInv, IndexesInv
<1> QED BY <1>2, <1>3, <1>4, <1>5, <1>6, <1>8, <1>9, <1>10 DEF IInv

-----------------------------------------------------------------------------
\* Reading.

LEMMA ReadSomeKeeps == ASSUME IInv, ReadSome PROVE IInv'
<1> USE DEF fileVars, taskVars, planVars, tapeVars, indexVars
<1>1. /\ UNCHANGED <<providerVars, index, left, block, taskVars, stopFlag,
                     planVars, indexVars, tapeVars>>
      /\ writer = "read" /\ writer' = "fetch" /\ left > 0
      /\ block # << >> \/ ~StopsReading
      /\ TakesSegment(Smaller(BlockSize, left) - Len(block))
  BY DEF ReadSome
<1>2. /\ ProviderTypeOK' /\ RingHolds' /\ ProducerInv' /\ CompletionInv'
      /\ head' = head /\ tail' = tail /\ cancelled' = cancelled
      /\ disposed' = disposed /\ producer' = producer
  BY <1>1, ProviderStays
<1>3. /\ ~disposed /\ tail - head > 0
      /\ segment' = Smaller(Smaller(tail - head, Capacity - (head % Capacity)),
                            Smaller(BlockSize, left) - Len(block))
  BY <1>1 DEF TakesSegment, ReadSegment, Contiguous, AvailableToRead
<1>4. /\ head \in Nat /\ tail \in Nat /\ left \in Nat /\ Len(block) \in Nat
      /\ BlockSize \in Nat \ {0} /\ Capacity \in Nat \ {0}
  BY ConstFacts, LenProperties DEF IInv, TypeOK, ProviderTypeOK
<1>5. Len(block) < Smaller(BlockSize, left)
  BY <1>1, <1>4 DEF IInv, FileInv
<1>6. /\ segment' \in Nat /\ segment' > 0 /\ head + segment' <= tail
      /\ Len(block) + segment' <= Smaller(BlockSize, left)
  <2>1. Capacity - (head % Capacity) \in Nat \ {0}
    BY <1>4, DivMod
  <2> DEFINE c == Capacity - (head % Capacity)
             m == Smaller(BlockSize, left)
             n == Len(block)
  <2>2. c \in Nat \ {0} BY <2>1
  <2>3. m \in Nat /\ n \in Nat /\ n < m
    <3>1. Smaller(BlockSize, left) \in Nat BY <1>4 DEF Smaller
    <3> QED BY <3>1, <1>4, <1>5
  <2>4. segment' = Smaller(Smaller(tail - head, c), m - n) BY <1>3
  <2> HIDE DEF c, m, n
  <2>5. /\ segment' \in Nat /\ segment' > 0 /\ head + segment' <= tail
        /\ n + segment' <= m
    BY <2>2, <2>3, <2>4, <1>3, <1>4 DEF Smaller
  <2> QED BY <2>5 DEF m, n
<1>7. Aligned
  <2>1. CASE block # << >> BY <2>1, <1>1 DEF IInv, ReadInv
  <2>2. CASE ~StopsReading
    <3>1. ~Dead BY <2>2, <1>3, <1>4 DEF Dead, StopsReading
    <3> QED BY <3>1, <1>1 DEF IInv, ReadInv
  <2> QED BY <2>1, <2>2, <1>1
<1>8. TypeOK' BY <1>1, <1>2, <1>6 DEF IInv, TypeOK
<1>9. FileInv'
  BY <1>1, <1>2, <1>6 DEF IInv, FileInv, Reading
<1>10. Aligned' BY <1>1, <1>2, <1>7 DEF Aligned
<1>11. ReadInv' BY <1>1, <1>10 DEF ReadInv
<1>12. StopInv'
  <2>1. cancelled => stopFlag /\ index \in File /\ ~OneBlock(index)
    BY <1>1 DEF IInv, StopInv
  <2>2. index' = index /\ stopFlag' = stopFlag BY <1>1
  <2> QED BY <2>1, <2>2, <1>1, <1>2 DEF StopInv
<1>13. TaskInv'
  BY <1>1, TaskKeeps DEF Reading, TaskRuns, IInv, TypeOK
<1>14. WholeInv'
  BY <1>1 DEF IInv, WholeInv, Whole, OnTape
<1>15. ListInv' /\ BlocksInv' /\ IndexesInv'
  BY <1>1 DEF IInv, ListInv, BlocksInv, IndexesInv, Reading
<1> QED
  BY <1>2, <1>8, <1>9, <1>11, <1>12, <1>13, <1>14, <1>15 DEF IInv

\* What is fetched at the head are the next bytes of the file.
LEMMA FetchedBytes ==
  ASSUME IInv, writer = "fetch"
  PROVE  /\ Fetch(segment) \in Seq(Byte)
         /\ Len(Fetch(segment)) = segment
         /\ \A k \in 1..segment :
              Fetch(segment)[k]
                = <<index, (Length[index] - left) + (Len(block) + k)>>
<1> DEFINE n == (Length[index] - left) + Len(block)
           b == segment
<1>1. /\ index \in File /\ head \in Nat /\ tail \in Nat /\ left \in Nat
      /\ segment \in Nat /\ filled \in Nat /\ Len(block) \in Nat
      /\ Length[index] \in Nat /\ Start[index] \in Nat
      /\ left <= Length[index] /\ BlockSize \in Nat
  BY ConstFacts, StartFacts, LenProperties
  DEF IInv, TypeOK, ProviderTypeOK, FileInv, Reading
<1>2. /\ Len(block) + segment <= Smaller(BlockSize, left)
      /\ head + segment <= tail /\ Aligned
  BY DEF IInv, FileInv, ReadInv
<1>3. /\ n \in Nat /\ head = Start[index] + n
      /\ n + segment <= Length[index]
  <2>1. Smaller(BlockSize, left) <= left BY <1>1 DEF Smaller
  <2>2. Smaller(BlockSize, left) \in Nat BY <1>1 DEF Smaller
  <2>3. Len(block) + segment <= left BY <2>1, <2>2, <1>1, <1>2
  <2>4. n \in Nat BY <1>1
  <2>5. n + segment <= Length[index] BY <2>3, <1>1
  <2>6. head = Start[index] + n BY <1>1, <1>2 DEF Aligned
  <2> QED BY <2>4, <2>5, <2>6
<1> HIDE DEF n
<1>4. ASSUME NEW k \in 1..segment
      PROVE  buffer[(head + k - 1) % Capacity] = <<index, n + k>>
  <2>1. n + k \in 1..Length[index] BY <1>1, <1>3
  <2>2. /\ Start[index] + (n + k) - 1 = head + k - 1
        /\ head <= head + k - 1 /\ head + k - 1 < tail + filled
    <3>1. k \in Nat /\ k >= 1 /\ k <= segment BY <1>1
    <3>2. Start[index] + (n + k) - 1 = head + k - 1 BY <3>1, <1>1, <1>3
    <3>3. head <= head + k - 1 BY <3>1, <1>1
    <3>4. head + k - 1 < head + segment BY <3>1, <1>1
    <3>5. head + segment <= tail + filled BY <1>1, <1>2
    <3> QED BY <3>1, <3>2, <3>3, <3>4, <3>5, <1>1
  <2>3. RingHolds BY DEF IInv
  <2>4. head <= Start[index] + (n + k) - 1
          /\ Start[index] + (n + k) - 1 < tail + filled
        => buffer[(Start[index] + (n + k) - 1) % Capacity] = <<index, n + k>>
    BY <2>1, <2>3, <1>1 DEF RingHolds
  <2> QED BY <2>2, <2>4
<1>5. Fetch(segment) = [k \in 1..segment |-> <<index, n + k>>]
  BY <1>4 DEF Fetch
<1>6. ASSUME NEW k \in 1..segment PROVE <<index, n + k>> \in Byte
  BY <1>1, <1>3 DEF Byte
<1> DEFINE s == [k \in 1..b |-> <<index, n + k>>]
<1>7. s \in [1..b -> Byte] BY <1>6
<1>8. s \in Seq(Byte) BY <1>1, <1>7, SeqDef
<1>9. Len(s) = b
  <2>1. DOMAIN s = 1..b OBVIOUS
  <2>2. b \in Nat BY <1>1
  <2> HIDE DEF s, b
  <2> QED BY <2>1, <2>2, <1>8, LenProperties
<1>10. ASSUME NEW k \in 1..segment
       PROVE  n + k = (Length[index] - left) + (Len(block) + k)
  BY <1>1 DEF n
<1> QED BY <1>5, <1>8, <1>9, <1>10

LEMMA FetchSegmentKeeps == ASSUME IInv, FetchSegment PROVE IInv'
<1> USE DEF taskVars, planVars, tapeVars, indexVars
<1>1. /\ UNCHANGED <<buffer, tail, completed, disposed, producerVars,
                     preloaderVars, cacheVars, opened, cancelled, index, left,
                     taskVars, stopFlag, planVars, indexVars, tapeVars>>
      /\ writer = "fetch" /\ segment' = 0
  BY DEF FetchSegment
<1>2. /\ index \in File /\ head \in Nat /\ tail \in Nat /\ left \in Nat
      /\ segment \in Nat /\ block \in Seq(Byte) /\ Len(block) \in Nat
      /\ Length[index] \in Nat /\ Start[index] \in Nat
      /\ left > 0 /\ left <= Length[index] /\ BlockSize \in Nat \ {0}
      /\ head + segment <= tail
  BY <1>1, ConstFacts, StartFacts, LenProperties
  DEF IInv, TypeOK, ProviderTypeOK, FileInv, Reading
<1>3. /\ Len(block) + segment <= Smaller(BlockSize, left) /\ Aligned
      /\ segment > 0
      /\ OneBlock(index) => left = Length[index]
      /\ Material(index)
      /\ \A n \in 1..Len(block) :
           block[n] = <<index, (Length[index] - left) + n>>
  BY <1>1 DEF IInv, FileInv, ReadInv, Reading
<1>4. /\ writer' \in {"asked", "read", "write", "hand"}
      /\ block' \in Seq(Byte)
      /\ ProviderTypeOK' /\ RingHolds' /\ ProducerInv' /\ CompletionInv'
      /\ FileInv' /\ ReadInv'
  <2>1. CASE disposed
    <3>1. writer' = "asked" /\ block' = << >> /\ head' = head
      BY <2>1 DEF FetchSegment
    <3>2. /\ ProviderTypeOK' /\ RingHolds' /\ ProducerInv' /\ CompletionInv'
      BY <1>1, <3>1, ProviderStays DEF providerVars, ringVars
    <3>3. block' \in Seq(Byte) /\ Len(block') = 0 BY <3>1, EmptySeq
    <3>4. FileInv'
      <4>1. \A n \in 1..Len(block') :
              block'[n] = <<index', (Length[index'] - left') + n>>
        BY <3>3
      <4>2. /\ index' = index /\ left' = left
        BY <1>1
      <4> QED BY <3>1, <4>1, <4>2, <1>2, <1>3 DEF FileInv, Reading
    <3>5. ReadInv'
      <4>1. disposed' BY <2>1, <1>1
      <4> QED BY <3>1, <4>1 DEF ReadInv, Dead
    <3> QED BY <3>1, <3>2, <3>3, <3>4, <3>5
  <2>2. CASE ~disposed
    <3> DEFINE m == Smaller(BlockSize, left)
    <3>1. /\ head' = head + segment
          /\ block' = block \o Fetch(segment)
          /\ writer' = IF Len(block) + segment < m THEN "read"
                       ELSE IF OneBlock(index) THEN "write" ELSE "hand"
      BY <2>2 DEF FetchSegment
    <3>2. /\ ProviderTypeOK' /\ RingHolds' /\ ProducerInv' /\ CompletionInv'
      BY <1>1, <1>2, <3>1, HeadMoves
    <3>3. /\ Fetch(segment) \in Seq(Byte) /\ Len(Fetch(segment)) = segment
          /\ \A k \in 1..segment :
               Fetch(segment)[k]
                 = <<index, (Length[index] - left) + (Len(block) + k)>>
      BY <1>1, FetchedBytes
    <3>4. /\ block' \in Seq(Byte) /\ Len(block') = Len(block) + segment
          /\ \A n \in 1..(Len(block) + segment) :
               block'[n] = IF n <= Len(block) THEN block[n]
                           ELSE Fetch(segment)[n - Len(block)]
      BY <1>2, <3>1, <3>3, ConcatProperties
    <3>5. ASSUME NEW n \in 1..(Len(block) + segment)
          PROVE  block'[n] = <<index, (Length[index] - left) + n>>
      <4>1. CASE n <= Len(block)
        <5>1. n \in 1..Len(block) BY <4>1, <1>2
        <5> QED BY <5>1, <4>1, <3>4, <1>3
      <4>2. CASE ~(n <= Len(block))
        <5>1. n - Len(block) \in 1..segment /\ Len(block) + (n - Len(block)) = n
          BY <4>2, <1>2
        <5>2. block'[n] = Fetch(segment)[n - Len(block)] BY <4>2, <3>4
        <5> QED BY <5>1, <5>2, <3>3
      <4> QED BY <4>1, <4>2
    <3>6. m \in Nat BY <1>2 DEF Smaller
    <3>7. /\ writer' \in {"read", "write", "hand"}
          /\ writer' = "read" => Len(block') < m
          /\ writer' \in {"write", "hand"} => Len(block') = m
          /\ writer' = "write" => OneBlock(index)
          /\ writer' = "hand" => ~OneBlock(index)
      <4>1. Len(block) + segment <= m BY <1>3
      <4>2. Len(block) + segment \in Nat BY <1>2
      <4> HIDE DEF m
      <4> QED BY <3>1, <3>4, <3>6, <4>1, <4>2
    <3>8. /\ index' = index /\ left' = left /\ segment' = 0 BY <1>1
    <3>9. Aligned'
      BY <1>2, <1>3, <3>1, <3>4, <3>8 DEF Aligned
    <3>10. FileInv'
      <4>1. \A n \in 1..Len(block') :
              block'[n] = <<index', (Length[index'] - left') + n>>
        BY <3>4, <3>5, <3>8
      <4>2. OneBlock(index') => left' = Length[index'] BY <3>8, <1>3
      <4>3. Material(index') /\ index' \in File /\ left' <= Length[index']
            /\ left' > 0 /\ left' # 0
        BY <3>8, <1>2, <1>3
      <4> QED BY <3>7, <3>8, <4>1, <4>2, <4>3 DEF FileInv, Reading
    <3>11. ReadInv' BY <3>7, <3>9 DEF ReadInv
    <3> QED BY <3>2, <3>4, <3>7, <3>10, <3>11
  <2> QED BY <2>1, <2>2
<1>5. TypeOK' BY <1>1, <1>4 DEF IInv, TypeOK
<1>6. StopInv'
  <2>1. cancelled => stopFlag /\ index \in File /\ ~OneBlock(index)
    BY <1>1 DEF IInv, StopInv
  <2>2. index' = index /\ stopFlag' = stopFlag /\ cancelled' = cancelled
    BY <1>1
  <2> QED BY <2>1, <2>2, <1>4 DEF StopInv
<1>7. TaskInv'
  <2>1. task # "none" => ~OneBlock(index) BY DEF IInv, TaskInv
  <2>2. writer' # "write" \/ OneBlock(index)
    BY <1>1, <1>4 DEF FileInv
  <2>3. task # "none" => writer' \in {"asked", "read", "hand"}
    BY <1>4, <2>1, <2>2
  <2>4. stopFlag => stopFlag' BY <1>1
  <2> QED BY <1>1, <1>4, <2>3, <2>4, TaskKeeps DEF Reading
<1>8. WholeInv'
  <2>1. writer' \notin {"drain", "finish", "next"} BY <1>4
  <2> QED BY <1>1, <2>1 DEF IInv, WholeInv, Whole, OnTape
<1>9. ListInv' /\ BlocksInv' /\ IndexesInv'
  BY <1>1, <1>4 DEF IInv, ListInv, BlocksInv, IndexesInv, Reading
<1> QED BY <1>4, <1>5, <1>6, <1>7, <1>8, <1>9 DEF IInv

\* The producer is over, or the command is stopped: no more bytes will come.
LEMMA ReadFailsKeeps == ASSUME IInv, ReadFails PROVE IInv'
<1> USE DEF taskVars, planVars, tapeVars, indexVars
<1>1. /\ UNCHANGED <<providerVars, index, left, segment, taskVars, stopFlag,
                     planVars, indexVars, tapeVars>>
      /\ writer = "read" /\ writer' = "asked" /\ left > 0 /\ block' = << >>
      /\ disposed \/ Drained
  BY DEF ReadFails
<1>2. /\ ProviderTypeOK' /\ RingHolds' /\ ProducerInv' /\ CompletionInv'
      /\ head' = head /\ tail' = tail /\ cancelled' = cancelled
      /\ disposed' = disposed /\ producer' = producer
  BY <1>1, ProviderStays
<1>3. block' \in Seq(Byte) /\ Len(block') = 0 BY <1>1, EmptySeq
<1>4. TypeOK' BY <1>1, <1>2, <1>3 DEF IInv, TypeOK
<1>5. /\ index' = index /\ left' = left BY <1>1
<1>6. /\ index \in File /\ Material(index) /\ left <= Length[index]
      /\ OneBlock(index) => left = Length[index]
  BY <1>1 DEF IInv, FileInv, Reading
<1>7. FileInv'
  <2>1. \A n \in 1..Len(block') :
          block'[n] = <<index', (Length[index'] - left') + n>>
    BY <1>3
  <2> QED BY <2>1, <1>1, <1>5, <1>6 DEF FileInv, Reading
<1>8. Dead
  <2>1. CASE disposed BY <2>1 DEF Dead
  <2>2. CASE Drained
    <3>1. head = tail
      BY <2>2 DEF Drained, AvailableToRead, IInv, TypeOK, ProviderTypeOK
    <3>2. cancelled \/ producer = "done"
      BY <2>2 DEF Drained, IInv, CompletionInv
    <3>3. CASE cancelled
      BY <3>3, <1>1 DEF IInv, StopInv, Dead
    <3> QED BY <3>1, <3>2, <3>3 DEF Dead
  <2> QED BY <2>1, <2>2, <1>1
<1>9. ReadInv'
  <2>1. Dead' BY <1>8, <1>1, <1>2 DEF Dead
  <2> QED BY <2>1, <1>1 DEF ReadInv
<1>10. StopInv'
  <2>1. cancelled => stopFlag /\ index \in File /\ ~OneBlock(index)
    BY <1>1 DEF IInv, StopInv
  <2>2. index' = index /\ stopFlag' = stopFlag BY <1>1
  <2> QED BY <2>1, <2>2, <1>1, <1>2 DEF StopInv
<1>11. TaskInv'
  <2>1. stopFlag => stopFlag' BY <1>1
  <2> QED BY <1>1, <2>1, TaskKeeps DEF Reading
<1>12. WholeInv'
  BY <1>1 DEF IInv, WholeInv, Whole, OnTape
<1>13. ListInv' /\ BlocksInv' /\ IndexesInv'
  BY <1>1 DEF IInv, ListInv, BlocksInv, IndexesInv, Reading
<1> QED
  BY <1>2, <1>4, <1>7, <1>9, <1>10, <1>11, <1>12, <1>13 DEF IInv

LEMMA DrainSomeKeeps == ASSUME IInv, DrainSome PROVE IInv'
<1> USE DEF taskVars, planVars, tapeVars, indexVars
<1> DEFINE n == Smaller(ReadSegment, left)
<1>1. /\ UNCHANGED <<buffer, tail, completed, disposed, producerVars,
                     preloaderVars, cacheVars, opened, cancelled, writer,
                     index, block, segment, taskVars, stopFlag, planVars,
                     indexVars, tapeVars>>
      /\ writer = "drain" /\ left > 0 /\ AvailableToRead > 0
      /\ head' = head + n /\ left' = left - n
  BY DEF DrainSome
<1>2. /\ head \in Nat /\ tail \in Nat /\ left \in Nat /\ Capacity \in Nat \ {0}
      /\ index \in File /\ left <= Length[index] /\ block = << >>
      /\ Length[index] \in Nat /\ Start[index] \in Nat
      /\ Duplicate(index) /\ Aligned
  BY <1>1, ConstFacts, StartFacts
  DEF IInv, TypeOK, ProviderTypeOK, FileInv, ReadInv, Reading
<1>3. n \in Nat /\ n <= left /\ head + n <= tail
  <2> DEFINE c == Capacity - (head % Capacity)
  <2>1. c \in Nat \ {0} BY <1>2, DivMod
  <2>2. ReadSegment = Smaller(tail - head, c)
    BY DEF ReadSegment, Contiguous, AvailableToRead
  <2>3. tail - head > 0 BY <1>1 DEF AvailableToRead
  <2> HIDE DEF c
  <2>4. ReadSegment \in Nat /\ ReadSegment <= tail - head
    BY <2>1, <2>2, <2>3, <1>2 DEF Smaller
  <2> QED BY <2>3, <2>4, <1>2 DEF Smaller
<1> HIDE DEF n
<1>4. ProviderTypeOK' /\ RingHolds' /\ ProducerInv' /\ CompletionInv'
  BY <1>1, <1>3, HeadMoves
<1>5. left' \in Nat /\ left' <= Length[index] BY <1>1, <1>2, <1>3
<1>6. TypeOK' BY <1>1, <1>4, <1>5 DEF IInv, TypeOK
<1>7. /\ writer' = "drain" /\ index' = index /\ block' = << >>
  BY <1>1, <1>2
<1>8. Len(block) = 0 /\ Len(block') = 0 BY <1>2, <1>7, EmptySeq
<1>9. FileInv'
  <2>1. \A k \in 1..Len(block') :
          block'[k] = <<index', (Length[index'] - left') + k>>
    BY <1>8
  <2> QED BY <2>1, <1>2, <1>5, <1>7 DEF FileInv, Reading
<1>10. Aligned'
  BY <1>1, <1>2, <1>3, <1>7, <1>8 DEF Aligned
<1>11. ReadInv' BY <1>7, <1>10 DEF ReadInv
<1>12. StopInv'
  <2>1. cancelled => stopFlag /\ index \in File /\ ~OneBlock(index)
    BY <1>1 DEF IInv, StopInv
  <2>2. index' = index /\ stopFlag' = stopFlag /\ cancelled' = cancelled
    BY <1>1
  <2> QED BY <2>1, <2>2, <1>7 DEF StopInv
<1>13. TaskInv'
  <2>1. task = "none" BY <1>1 DEF IInv, TaskInv
  <2>2. task' = "none" BY <2>1, <1>1
  <2> QED BY <2>2, <1>7 DEF TaskInv, TaskRuns, Reading, Writing
<1>14. WholeInv'
  BY <1>1 DEF IInv, WholeInv, Whole, OnTape
<1>15. ListInv' /\ BlocksInv' /\ IndexesInv'
  BY <1>1 DEF IInv, ListInv, BlocksInv, IndexesInv, Reading
<1> QED
  BY <1>4, <1>6, <1>9, <1>11, <1>12, <1>13, <1>14, <1>15 DEF IInv

-----------------------------------------------------------------------------
\* Writing.

LEMMA TapeStays ==
  ASSUME IInv, UNCHANGED <<tape, index, extent>>, accepted \subseteq accepted'
  PROVE  /\ BlocksInv' /\ IndexesInv'
         /\ \A f \in File : Whole(f) => Whole(f)'
<1>1. BlocksInv' BY DEF IInv, BlocksInv
<1>2. IndexesInv' BY DEF IInv, IndexesInv
<1>3. \A f \in File : Whole(f) => Whole(f)' BY DEF Whole, OnTape
<1> QED BY <1>1, <1>2, <1>3

\* A block of the file at hand goes to the end of the tape.
LEMMA BlockAppended ==
  ASSUME IInv, NEW k \in Nat, index \in File, Material(index),
         k * BlockSize < Length[index],
         tape' = Append(tape, DataBlock(FileBlock(index, k))),
         UNCHANGED <<index, extent, accepted>>,
         index \in accepted \/ Placed(k)
  PROVE  /\ tape' \in Seq(Record)
         /\ BlocksInv' /\ IndexesInv'
         /\ \A f \in File : Whole(f) => Whole(f)'
         /\ Placed(k) => Placed(k + 1)'
<1> DEFINE x == DataBlock(FileBlock(index, k))
           l == Len(tape)
<1>1. FileBlock(index, k) \in Seq(Byte) /\ FileBlock(index, k) # << >>
  BY FileBlockFacts
<1>2. x \in Record /\ x.bytes = FileBlock(index, k)
  BY <1>1 DEF DataBlock, Record
<1> HIDE DEF x
<1>3. TypeOK BY DEF IInv
<1>4. tape' = Append(tape, x) BY DEF x
<1>5. /\ tape' \in Seq(Record)
      /\ l \in Nat
      /\ DOMAIN tape = 1..l
      /\ DOMAIN tape' = 1..(l + 1)
      /\ \A q \in DOMAIN tape : q \in DOMAIN tape' /\ tape'[q] = tape[q]
      /\ tape'[l + 1] = x
      /\ \A f \in File : OnTape(f) => OnTape(f)'
  BY <1>2, <1>3, <1>4, Grows
<1>6. extent[index] \in Nat /\ index \in Nat /\ index \in 1..index
  BY <1>3, ConstFacts DEF TypeOK
<1>7. BlocksInv'
  <2> SUFFICES ASSUME NEW q \in DOMAIN tape', tape'[q].bytes # << >>
               PROVE  \E f \in 1..index : \E j \in 0..(Blocks(f) - 1) :
                        /\ Material(f)
                        /\ tape'[q].bytes = FileBlock(f, j)
                        /\ q = extent[f] + j \/ f \in accepted
    BY DEF BlocksInv
  <2>1. CASE q \in DOMAIN tape
    <3>1. tape'[q] = tape[q] BY <2>1, <1>5
    <3> QED BY <2>1, <3>1 DEF IInv, BlocksInv
  <2>2. CASE q = l + 1
    <3>1. tape'[q].bytes = FileBlock(index, k) BY <2>2, <1>2, <1>5
    <3>2. k \in 0..(Blocks(index) - 1)
      <4>1. k < Blocks(index) /\ Blocks(index) \in Nat BY BlocksFacts
      <4> QED BY <4>1
    <3>3. q = extent[index] + k \/ index \in accepted
      BY <2>2 DEF Placed
    <3> QED BY <3>1, <3>2, <3>3, <1>6
  <2> QED BY <2>1, <2>2, <1>5
<1>8. IndexesInv'
  <2>1. \A f \in File : f > index' => extent'[f] = 0
    BY DEF IInv, IndexesInv
  <2>2. ASSUME NEW q \in DOMAIN tape', tape'[q].bytes = << >>
        PROVE  q \in DOMAIN tape /\ tape'[q] = tape[q]
    <3>1. q # l + 1 BY <2>2, <1>1, <1>2, <1>5
    <3> QED BY <3>1, <1>5
  <2> QED BY <2>1, <2>2 DEF IInv, IndexesInv
<1>9. \A f \in File : Whole(f) => Whole(f)' BY <1>5 DEF Whole
<1>10. ASSUME Placed(k) PROVE Placed(k + 1)'
  <2>1. extent[index] > 0 /\ l + 1 = extent[index] + k
    BY <1>10 DEF Placed
  <2>2. Len(tape') = l + 1 BY <1>2, <1>3, <1>4, Grows
  <2>3. ASSUME NEW j \in 0..((k + 1) - 1)
        PROVE  tape'[extent[index] + j].bytes = FileBlock(index, j)
    <3>1. CASE j = k BY <3>1, <2>1, <1>2, <1>5
    <3>2. CASE j # k
      <4>1. j \in 0..(k - 1) BY <3>2
      <4>2. extent[index] + j \in 1..l BY <4>1, <2>1, <1>5, <1>6
      <4>3. tape'[extent[index] + j] = tape[extent[index] + j]
        BY <4>2, <1>5
      <4> QED BY <4>1, <4>3, <1>10 DEF Placed
    <3> QED BY <3>1, <3>2
  <2>4. Len(tape') + 1 = extent[index] + (k + 1)
    BY <2>1, <2>2, <1>5, <1>6
  <2>5. index' = index /\ extent' = extent OBVIOUS
  <2> QED BY <2>1, <2>3, <2>4, <2>5 DEF Placed
<1> QED BY <1>5, <1>7, <1>8, <1>9, <1>10

\* With all its blocks at the end of the tape the file is there.
LEMMA AllPlaced ==
  ASSUME NEW f \in File, Material(f), NEW k \in Nat,
         Length[f] <= k * BlockSize,
         NEW s \in Seq(Record), NEW e \in Nat, e > 0, Len(s) + 1 = e + k,
         \A j \in 0..(k - 1) : s[e + j].bytes = FileBlock(f, j)
  PROVE  \A j \in 0..(Blocks(f) - 1) :
           e + j \in DOMAIN s /\ s[e + j].bytes = FileBlock(Canonical(f), j)
<1>1. Len(s) \in Nat /\ DOMAIN s = 1..Len(s) BY LenProperties
<1>2. Blocks(f) \in Nat /\ Blocks(f) <= k
  <2>1. Length[f] \in Nat /\ k * BlockSize \in Nat BY ConstFacts
  <2>2. ~ (k * BlockSize < Length[f]) BY <2>1
  <2> QED BY <2>2, BlocksFacts
<1>3. Canonical(f) = f BY DEF Material
<1>4. ASSUME NEW j \in 0..(Blocks(f) - 1)
      PROVE  e + j \in DOMAIN s /\ s[e + j].bytes = FileBlock(f, j)
  <2>1. j \in 0..(k - 1) BY <1>2
  <2>2. e + j \in 1..Len(s) BY <2>1, <1>1
  <2> QED BY <2>1, <2>2, <1>1
<1> QED BY <1>3, <1>4

\* A file of one block has been read whole, and is the block.
LEMMA BlockRead ==
  ASSUME IInv, writer \in {"write", "writeAsked"}
  PROVE  /\ index \in File /\ Material(index) /\ OneBlock(index)
         /\ task = "none" /\ Len(block) = left /\ left > 0
         /\ head = Start[index + 1]
         /\ block = FileBlock(index, 0)
         /\ Excused \/ Placed(0)
<1>1. /\ index \in File /\ Material(index) /\ OneBlock(index)
      /\ left = Length[index] /\ Len(block) = Smaller(BlockSize, left)
      /\ left > 0 /\ Aligned /\ block \in Seq(Byte)
      /\ \A n \in 1..Len(block) :
           block[n] = <<index, (Length[index] - left) + n>>
  BY DEF IInv, FileInv, ReadInv, Reading, TypeOK
<1>2. /\ Length[index] \in Nat /\ BlockSize \in Nat \ {0}
      /\ Start[index] \in Nat /\ Start[index + 1] = Start[index] + Length[index]
  BY <1>1, ConstFacts, StartFacts
<1>3. Len(block) = left
  BY <1>1, <1>2 DEF OneBlock, Smaller
<1>4. head = Start[index + 1]
  BY <1>1, <1>2, <1>3 DEF Aligned
<1>5. task = "none" BY <1>1 DEF IInv, TaskInv
<1>6. block = FileBlock(index, 0)
  <2>1. 0 * BlockSize = 0 /\ Length[index] - 0 = Length[index] BY <1>2
  <2>2. Len(block) = Smaller(BlockSize, Length[index] - 0 * BlockSize)
    BY <2>1, <1>1
  <2>3. ASSUME NEW n \in 1..Len(block)
        PROVE  block[n] = <<index, 0 * BlockSize + n>>
    <3>1. (Length[index] - left) + n = 0 * BlockSize + n
      BY <2>1, <1>1, <1>2
    <3> QED BY <3>1, <1>1
  <2> QED BY <2>2, <2>3, <1>1, BlockIs
<1>7. Excused \/ Placed(0)
  <2>1. PICK k \in Nat : Handed(k) /\ (Excused \/ Placed(k))
    BY <1>5 DEF IInv, TaskInv, Reading, Writing
  <2>2. k = 0
    <3> SUFFICES ASSUME k >= 1 PROVE FALSE BY <2>1
    <3>1. BlockSize * 1 <= BlockSize * k /\ BlockSize * k \in Nat
      BY <1>2, MulMono
    <3>2. Length[index] - left = k * BlockSize
      BY <2>1, <1>1 DEF Handed
    <3>3. k * BlockSize = BlockSize * k /\ BlockSize * 1 = BlockSize BY <1>2
    <3> QED BY <3>1, <3>2, <3>3, <1>1, <1>2
  <2> QED BY <2>1, <2>2
<1> QED BY <1>1, <1>3, <1>4, <1>5, <1>6, <1>7

LEMMA WriteBlockKeeps == ASSUME IInv, WriteBlock PROVE IInv'
<1> USE DEF fileVars, taskVars, planVars, indexVars
<1>1. /\ UNCHANGED <<providerVars, index, fileVars, taskVars, planVars,
                     indexVars>>
      /\ writer = "write"
      /\ \/ Writes(block) /\ writer' = "finish" /\ UNCHANGED stopFlag
         \/ Overflows /\ writer' = "commit" /\ stopFlag' = TRUE
         \/ DriveFails /\ writer' = "writeAsked" /\ UNCHANGED stopFlag
  BY DEF WriteBlock, Fail
<1>2. /\ ProviderTypeOK' /\ RingHolds' /\ ProducerInv' /\ CompletionInv'
      /\ head' = head /\ tail' = tail /\ cancelled' = cancelled
      /\ disposed' = disposed /\ producer' = producer
  BY <1>1, ProviderStays
<1>3. /\ index \in File /\ Material(index) /\ OneBlock(index)
      /\ task = "none" /\ Len(block) = left /\ left > 0
      /\ head = Start[index + 1]
      /\ block = FileBlock(index, 0)
      /\ Excused \/ Placed(0)
  BY <1>1, BlockRead
<1>4. Length[index] \in Nat /\ BlockSize \in Nat \ {0}
      /\ 0 * BlockSize < Length[index] /\ Length[index] <= 1 * BlockSize
  BY <1>3, ConstFacts DEF Material, OneBlock
<1>5. StopInv'
  <2>1. cancelled => stopFlag /\ index \in File /\ ~OneBlock(index)
    BY <1>1 DEF IInv, StopInv
  <2> QED BY <2>1, <1>2, <1>3 DEF StopInv
<1>6. task' = "none" BY <1>1, <1>3
<1>7. CASE Writes(block) /\ writer' = "finish" /\ UNCHANGED stopFlag
  <2>1. /\ room > 0 /\ room' = room - 1
        /\ tape' = Append(tape, DataBlock(block))
        /\ UNCHANGED <<errors, accepted>>
    BY <1>7 DEF Writes, PutOnTape
  <2>2. index \in accepted \/ Placed(0)
    BY <2>1, <1>3 DEF Excused
  <2>3. /\ tape' \in Seq(Record)
        /\ BlocksInv' /\ IndexesInv'
        /\ \A f \in File : Whole(f) => Whole(f)'
        /\ Placed(0) => Placed(0 + 1)'
    BY <1>1, <1>3, <1>4, <2>1, <2>2, BlockAppended
  <2>4. room' \in Nat BY <2>1 DEF IInv, TypeOK
  <2>5. TypeOK' BY <1>1, <1>2, <1>7, <2>1, <2>3, <2>4 DEF IInv, TypeOK, Record
  <2>6. Whole(index)'
    <3>1. CASE index \in accepted
      BY <3>1, <2>1, <1>1, <1>3 DEF Whole, Material
    <3>2. CASE Placed(0)
      <4>1. Placed(1)' BY <3>2, <2>3
      <4>2. OnTape(index)'
        <5>1. index' = index /\ extent' = extent BY <1>1
        <5>2. /\ extent[index] > 0 /\ extent[index] \in Nat
              /\ Len(tape') + 1 = extent[index] + 1
              /\ \A j \in 0..(1 - 1) :
                   tape'[extent[index] + j].bytes = FileBlock(index, j)
          BY <4>1, <5>1, <1>3 DEF Placed, IInv, TypeOK
        <5>3. \A j \in 0..(Blocks(index) - 1) :
                /\ extent[index] + j \in DOMAIN tape'
                /\ tape'[extent[index] + j].bytes
                     = FileBlock(Canonical(index), j)
          <6> DEFINE e == extent[index]
          <6>1. PICK k \in Nat : k = 1 OBVIOUS
          <6>2. e \in Nat /\ e > 0 /\ Len(tape') + 1 = e + k
                /\ \A j \in 0..(k - 1) :
                     tape'[e + j].bytes = FileBlock(index, j)
            BY <5>2, <6>1
          <6>3. tape' \in Seq(Record) /\ Length[index] <= k * BlockSize
            BY <2>3, <1>4, <6>1
          <6> HIDE DEF e
          <6>4. \A j \in 0..(Blocks(index) - 1) :
                  /\ e + j \in DOMAIN tape'
                  /\ tape'[e + j].bytes = FileBlock(Canonical(index), j)
            BY <6>2, <6>3, <1>3, AllPlaced
          <6> QED BY <6>4 DEF e
        <5> QED BY <5>1, <5>3 DEF OnTape
      <4> QED BY <4>2 DEF Whole
    <3> QED BY <3>1, <3>2, <2>2
  <2>7. FileInv' BY <1>1, <1>3, <1>7 DEF FileInv, Reading
  <2>8. ReadInv' BY <1>1, <1>2, <1>3, <1>7 DEF ReadInv
  <2>9. TaskInv' BY <1>6, <1>7 DEF TaskInv, TaskRuns, Reading, Writing
  <2>10. WholeInv'
    BY <1>1, <1>3, <1>7, <2>3, <2>6 DEF IInv, WholeInv, TypeOK
  <2>11. ListInv' BY <1>1, <1>7 DEF IInv, ListInv, Reading
  <2> QED
    BY <1>2, <1>5, <2>3, <2>5, <2>7, <2>8, <2>9, <2>10, <2>11 DEF IInv
<1>8. CASE \/ Overflows /\ writer' = "commit" /\ stopFlag' = TRUE
           \/ DriveFails /\ writer' = "writeAsked" /\ UNCHANGED stopFlag
  <2>1. UNCHANGED <<tape, accepted>> /\ room' \in Nat /\ errors' \in Nat
    BY <1>8 DEF Overflows, DriveFails, IInv, TypeOK
  <2>2. /\ stopFlag' \in BOOLEAN /\ (stopFlag => stopFlag')
        /\ writer' \in {"commit", "writeAsked"}
    <3>1. stopFlag \in BOOLEAN BY DEF IInv, TypeOK
    <3>2. stopFlag' = TRUE \/ stopFlag' = stopFlag BY <1>8
    <3>3. stopFlag' \in BOOLEAN /\ (stopFlag => stopFlag')
      BY <3>1, <3>2, Zenon
    <3> QED BY <3>3, <1>8
  <2>3. TypeOK' BY <1>1, <1>2, <2>1, <2>2 DEF IInv, TypeOK
  <2>4. /\ BlocksInv' /\ IndexesInv'
        /\ \A f \in File : Whole(f) => Whole(f)'
    BY <1>1, <2>1, TapeStays
  <2>5. FileInv'
    BY <1>1, <2>2 DEF IInv, FileInv, Reading
  <2>6. ReadInv'
    <3>1. Aligned' BY <1>1, <1>2 DEF IInv, ReadInv, Aligned
    <3> QED BY <2>2, <3>1 DEF ReadInv
  <2>7. TaskInv'
    <3>1. CASE writer' = "commit"
      BY <3>1, <1>6 DEF TaskInv, TaskRuns, Reading, Writing
    <3>2. CASE writer' = "writeAsked"
      <4>1. room' = room /\ UNCHANGED stopFlag
        BY <3>2, <1>8 DEF DriveFails
      <4> QED BY <3>2, <4>1, <1>1, <1>3, <2>1, TaskKeeps DEF Reading, TaskRuns
    <3> QED BY <2>2, <3>1, <3>2
  <2>8. WholeInv'
    <3>1. \A f \in finished \cup committed :
            Whole(f)' \/ (f = index' /\ stopFlag' /\ writer' # "next")
      <4>1. \A f \in finished \cup committed :
              Whole(f) \/ (f = index /\ stopFlag)
        BY DEF IInv, WholeInv
      <4>3. finished \cup committed \subseteq File BY DEF IInv, TypeOK
      <4>2. index' = index /\ (stopFlag => stopFlag') /\ writer' # "next"
        BY <1>1, <2>2
      <4> QED BY <4>1, <4>2, <4>3, <2>4, Zenon
    <3> QED BY <1>1, <2>2, <3>1 DEF WholeInv
  <2>9. ListInv'
    BY <1>1, <1>3, <2>2, ConstFacts DEF IInv, ListInv, Reading
  <2> QED
    BY <1>2, <1>5, <2>3, <2>4, <2>5, <2>6, <2>7, <2>8, <2>9 DEF IInv
<1> QED BY <1>1, <1>7, <1>8

LEMMA AnswerWriteKeeps == ASSUME IInv, AnswerWrite PROVE IInv'
<1> USE DEF fileVars, taskVars, planVars, indexVars
<1>1. /\ UNCHANGED <<providerVars, index, fileVars, taskVars, planVars,
                     indexVars, tape, room, errors>>
      /\ writer = "writeAsked"
      /\ \/ writer' = "commit" /\ stopFlag' = TRUE /\ UNCHANGED accepted
         \/ writer' = "write" /\ UNCHANGED <<stopFlag, accepted>>
         \/ /\ writer' = "finish" /\ accepted' = accepted \cup {index}
            /\ UNCHANGED stopFlag
  BY DEF AnswerWrite, Fail
<1>2. /\ ProviderTypeOK' /\ RingHolds' /\ ProducerInv' /\ CompletionInv'
      /\ head' = head /\ tail' = tail /\ cancelled' = cancelled
      /\ disposed' = disposed /\ producer' = producer
  BY <1>1, ProviderStays
<1>3. /\ index \in File /\ Material(index) /\ OneBlock(index)
      /\ task = "none" /\ left > 0
      /\ head = Start[index + 1]
  BY <1>1, BlockRead
<1>4. /\ stopFlag' \in BOOLEAN /\ (stopFlag => stopFlag')
      /\ writer' \in {"commit", "write", "finish"}
  <2>1. stopFlag \in BOOLEAN BY DEF IInv, TypeOK
  <2>2. stopFlag' = TRUE \/ stopFlag' = stopFlag BY <1>1
  <2>3. stopFlag' \in BOOLEAN /\ (stopFlag => stopFlag')
    BY <2>1, <2>2, Zenon
  <2> QED BY <2>3, <1>1
<1>5. /\ accepted \subseteq accepted' /\ accepted' \subseteq File
      /\ writer' = "finish" => index \in accepted'
  BY <1>1, <1>3 DEF IInv, TypeOK
<1>6. TypeOK' BY <1>1, <1>2, <1>4, <1>5 DEF IInv, TypeOK
<1>7. /\ BlocksInv' /\ IndexesInv'
      /\ \A f \in File : Whole(f) => Whole(f)'
  BY <1>1, <1>5, TapeStays
<1>8. FileInv'
  BY <1>1, <1>3, <1>4 DEF IInv, FileInv, Reading
<1>9. ReadInv'
  <2>1. Aligned' BY <1>1, <1>2 DEF IInv, ReadInv, Aligned
  <2>2. index' = index BY <1>1
  <2> QED BY <1>2, <1>3, <1>4, <2>1, <2>2 DEF ReadInv
<1>10. StopInv'
  <2>1. cancelled => stopFlag /\ index \in File /\ ~OneBlock(index)
    BY <1>1 DEF IInv, StopInv
  <2> QED BY <2>1, <1>2, <1>3 DEF StopInv
<1>11. TaskInv'
  <2>1. task # "none" => FALSE BY <1>3
  <2> QED BY <1>1, <1>3, <1>4, <1>5, <2>1, TaskKeeps DEF Reading, TaskRuns
<1>12. WholeInv'
  <2>1. \A f \in finished \cup committed :
          Whole(f)' \/ (f = index' /\ stopFlag' /\ writer' # "next")
    <3>1. \A f \in finished \cup committed :
            Whole(f) \/ (f = index /\ stopFlag)
      BY DEF IInv, WholeInv
    <3>3. finished \cup committed \subseteq File BY DEF IInv, TypeOK
    <3>2. index' = index /\ (stopFlag => stopFlag') /\ writer' # "next"
      BY <1>1, <1>4
    <3> QED BY <3>1, <3>2, <3>3, <1>7, Zenon
  <2>2. writer' = "finish" => Whole(index)'
    <3>1. Canonical(index) = index BY <1>3 DEF Material
    <3>2. writer' = "finish" => index \in accepted' BY <1>5
    <3>3. index' = index BY <1>1
    <3> QED BY <3>1, <3>2, <3>3 DEF Whole
  <2> QED BY <1>1, <1>4, <2>1, <2>2 DEF WholeInv
<1>13. ListInv'
  BY <1>1, <1>3, <1>4, ConstFacts DEF IInv, ListInv, Reading
<1> QED
  BY <1>2, <1>6, <1>7, <1>8, <1>9, <1>10, <1>11, <1>12, <1>13 DEF IInv

\* A block handed over is the next of its file.
LEMMA HandedBlock ==
  ASSUME IInv, writer = "hand", task \notin Writing
  PROVE  \E k \in Nat :
           /\ k * BlockSize < Length[index]
           /\ block = FileBlock(index, k)
           /\ Excused \/ Placed(k)
           /\ IF left - Len(block) > 0
                THEN Length[index] - (left - Len(block)) = (k + 1) * BlockSize
                ELSE Length[index] <= (k + 1) * BlockSize
<1>1. /\ index \in File /\ left > 0 /\ left <= Length[index]
      /\ left \in Nat /\ block \in Seq(Byte)
      /\ Len(block) = Smaller(BlockSize, left)
      /\ \A n \in 1..Len(block) :
           block[n] = <<index, (Length[index] - left) + n>>
  BY DEF IInv, FileInv, Reading, TypeOK
<1>2. Length[index] \in Nat /\ BlockSize \in Nat \ {0}
  BY <1>1, ConstFacts
<1>3. PICK k \in Nat : Handed(k) /\ (Excused \/ Placed(k))
  BY DEF IInv, TaskInv, Reading
<1> DEFINE b == k * BlockSize
<1>4. b \in Nat /\ Length[index] - left = b /\ (k + 1) * BlockSize = b + BlockSize
  BY <1>1, <1>2, <1>3 DEF Handed
<1>5. k * BlockSize < Length[index] BY <1>1, <1>2, <1>4
<1>6. block = FileBlock(index, k)
  <2>1. Length[index] - k * BlockSize = left BY <1>1, <1>2, <1>4
  <2>2. Len(block) = Smaller(BlockSize, Length[index] - k * BlockSize)
    BY <2>1, <1>1
  <2>3. \A n \in 1..Len(block) : block[n] = <<index, k * BlockSize + n>>
    BY <1>1, <1>4
  <2> QED BY <2>2, <2>3, <1>1, BlockIs
<1>7. IF left - Len(block) > 0
        THEN Length[index] - (left - Len(block)) = b + BlockSize
        ELSE Length[index] <= b + BlockSize
  <2> HIDE DEF b
  <2>1. CASE BlockSize <= left
    <3>1. Len(block) = BlockSize BY <2>1, <1>1 DEF Smaller
    <3> QED BY <3>1, <1>1, <1>2, <1>4
  <2>2. CASE ~(BlockSize <= left)
    <3>1. Len(block) = left BY <2>2, <1>1 DEF Smaller
    <3> QED BY <3>1, <2>2, <1>1, <1>2, <1>4
  <2> QED BY <2>1, <2>2
<1> QED BY <1>3, <1>4, <1>5, <1>6, <1>7

LEMMA HandOverKeeps == ASSUME IInv, HandOver PROVE IInv'
<1> USE DEF planVars, indexVars, tapeVars
<1>1. /\ UNCHANGED <<providerVars, index, segment, planVars, indexVars,
                     tapeVars>>
      /\ writer = "hand" /\ block' = << >> /\ ~TaskRuns
      /\ \/ /\ task = "faulted" /\ writer' = "commit" /\ stopFlag' = TRUE
            /\ UNCHANGED <<task, taskBlock, left>>
         \/ /\ task # "faulted" /\ writer' = "read" /\ task' = "writing"
            /\ taskBlock' = block /\ left' = left - Len(block)
            /\ stopFlag' = stopFlag
  BY DEF HandOver, Fail, taskVars
<1>2. /\ ProviderTypeOK' /\ RingHolds' /\ ProducerInv' /\ CompletionInv'
      /\ head' = head /\ tail' = tail /\ cancelled' = cancelled
      /\ disposed' = disposed /\ producer' = producer
  BY <1>1, ProviderStays
<1>3. task \notin Writing BY <1>1 DEF TaskRuns, Writing
<1>4. PICK k \in Nat :
        /\ k * BlockSize < Length[index]
        /\ block = FileBlock(index, k)
        /\ Excused \/ Placed(k)
        /\ IF left - Len(block) > 0
             THEN Length[index] - (left - Len(block)) = (k + 1) * BlockSize
             ELSE Length[index] <= (k + 1) * BlockSize
  BY <1>1, <1>3, HandedBlock
<1>5. /\ index \in File /\ Material(index) /\ ~OneBlock(index)
      /\ left > 0 /\ left \in Nat /\ left <= Length[index]
      /\ Len(block) = Smaller(BlockSize, left) /\ Aligned
      /\ block \in Seq(Byte)
  BY <1>1 DEF IInv, FileInv, ReadInv, Reading, TypeOK
<1>6. /\ Length[index] \in Nat /\ BlockSize \in Nat \ {0}
      /\ Start[index] \in Nat /\ head \in Nat
  BY <1>5, ConstFacts, StartFacts DEF IInv, TypeOK, ProviderTypeOK
<1>7. Len(block) \in Nat /\ Len(block) <= left
  BY <1>5, <1>6 DEF Smaller
<1>8. block' \in Seq(Byte) /\ Len(block') = 0 BY <1>1, EmptySeq
<1>9. /\ stopFlag' \in BOOLEAN /\ (stopFlag => stopFlag')
      /\ writer' \in {"commit", "read"} /\ index' = index
  <2>1. stopFlag \in BOOLEAN BY DEF IInv, TypeOK
  <2>2. stopFlag' = TRUE \/ stopFlag' = stopFlag BY <1>1
  <2>3. stopFlag' \in BOOLEAN /\ (stopFlag => stopFlag')
    BY <2>1, <2>2, Zenon
  <2> QED BY <2>3, <1>1
<1>10. /\ left' \in Nat
       /\ task' \in {"writing", "faulted"} /\ taskBlock' \in Seq(Byte)
  BY <1>1, <1>5, <1>7 DEF IInv, TypeOK
<1>11. TypeOK' BY <1>1, <1>2, <1>8, <1>9, <1>10 DEF IInv, TypeOK
<1>12. /\ BlocksInv' /\ IndexesInv'
       /\ \A f \in File : Whole(f) => Whole(f)'
  BY <1>1, TapeStays
<1>13. FileInv'
  <2>1. CASE writer' = "commit" BY <2>1 DEF FileInv, Reading
  <2>2. CASE writer' = "read"
    <3>1. left' \in Nat /\ left' <= Length[index]
      BY <2>2, <1>1, <1>5, <1>6, <1>7
    <3>2. left' # 0 => Len(block') < Smaller(BlockSize, left')
      BY <3>1, <1>6, <1>8 DEF Smaller
    <3>3. \A n \in 1..Len(block') :
            block'[n] = <<index', (Length[index'] - left') + n>>
      BY <1>8
    <3> QED
      BY <2>2, <3>1, <3>2, <3>3, <1>1, <1>5, <1>9 DEF FileInv, Reading
  <2> QED BY <2>1, <2>2, <1>9
<1>14. ReadInv'
  <2>1. CASE writer' = "commit" BY <2>1 DEF ReadInv
  <2>2. CASE writer' = "read"
    <3>1. head = Start[index] + (Length[index] - left') + 0
      BY <2>2, <1>1, <1>5, <1>6, <1>7 DEF Aligned
    <3>2. Aligned' BY <3>1, <1>2, <1>8, <1>9 DEF Aligned
    <3> QED BY <2>2, <3>2 DEF ReadInv
  <2> QED BY <2>1, <2>2, <1>9
<1>15. StopInv'
  <2>1. cancelled => stopFlag /\ index \in File /\ ~OneBlock(index)
    BY <1>1 DEF IInv, StopInv
  <2> QED BY <2>1, <1>2, <1>9 DEF StopInv
<1>16. TaskInv'
  <2>1. CASE task = "faulted"
    <3>1. /\ task' = "faulted" /\ writer' = "commit" /\ stopFlag'
      BY <2>1, <1>1
    <3> QED BY <3>1, <1>5, <1>9 DEF TaskInv, TaskRuns, Reading, Writing
  <2>2. CASE task # "faulted"
    <3>1. /\ task' = "writing" /\ writer' = "read" /\ taskBlock' = block
          /\ left' = left - Len(block) /\ stopFlag' = stopFlag
      BY <2>2, <1>1
    <3>2. Handed(k + 1)'
      BY <3>1, <1>4, <1>9 DEF Handed
    <3>3. Excused' \/ Placed(k)'
      BY <3>1, <2>2, <1>1, <1>4 DEF Excused, Placed
    <3>4. /\ k * BlockSize < Length[index']
          /\ taskBlock' = FileBlock(index', k)
      BY <3>1, <1>4, <1>9
    <3>5. /\ task' # "faulted" /\ task' \in Writing /\ ~(task' \notin Writing)
          /\ writer' \notin {"closing", "ended"}
      BY <3>1 DEF Writing
    <3>6. \E j \in Nat :
            /\ j * BlockSize < Length[index']
            /\ taskBlock' = FileBlock(index', j)
            /\ writer' \in Reading => Handed(j + 1)'
            /\ Excused' \/ Placed(j)'
      BY <3>2, <3>3, <3>4
    <3>7. index' \in File /\ Material(index') /\ ~OneBlock(index')
      BY <1>5, <1>9
    <3> QED BY <3>1, <3>5, <3>6, <3>7 DEF TaskInv
  <2> QED BY <2>1, <2>2
<1>17. WholeInv'
  <2>1. \A f \in finished \cup committed :
          Whole(f) \/ (f = index /\ stopFlag)
    BY DEF IInv, WholeInv
  <2>2. finished \cup committed \subseteq File BY DEF IInv, TypeOK
  <2>3. \A f \in finished \cup committed :
          Whole(f)' \/ (f = index' /\ stopFlag' /\ writer' # "next")
    BY <2>1, <2>2, <1>9, <1>12
  <2> QED BY <2>3, <1>1, <1>9 DEF WholeInv
<1>18. ListInv'
  BY <1>1, <1>5, <1>9, ConstFacts DEF IInv, ListInv, Reading
<1> QED
  BY <1>2, <1>11, <1>12, <1>13, <1>14, <1>15, <1>16, <1>17, <1>18 DEF IInv

\* The loop over a file's blocks is over; with the last of them the file is
\* whole, unless it was cut.
LEMMA JoinTaskKeeps == ASSUME IInv, JoinTask PROVE IInv'
<1> USE DEF fileVars, planVars, indexVars, tapeVars
<1>1. /\ UNCHANGED <<providerVars, index, fileVars, taskBlock, planVars,
                     indexVars, tapeVars>>
      /\ writer = "read" /\ block = << >> /\ ~TaskRuns /\ task' = "none"
      /\ left = 0 \/ StopsReading
      /\ \/ /\ task = "faulted" /\ writer' = "commit" /\ stopFlag' = TRUE
         \/ /\ task # "faulted" /\ writer' = "finish" /\ stopFlag' = stopFlag
  BY DEF JoinTask, Fail
<1>2. /\ ProviderTypeOK' /\ RingHolds' /\ ProducerInv' /\ CompletionInv'
      /\ head' = head /\ tail' = tail /\ cancelled' = cancelled
      /\ disposed' = disposed /\ producer' = producer
  BY <1>1, ProviderStays
<1>3. /\ stopFlag' \in BOOLEAN /\ (stopFlag => stopFlag')
      /\ writer' \in {"commit", "finish"} /\ index' = index
  <2>1. stopFlag \in BOOLEAN BY DEF IInv, TypeOK
  <2>2. stopFlag' = TRUE \/ stopFlag' = stopFlag BY <1>1
  <2>3. stopFlag' \in BOOLEAN /\ (stopFlag => stopFlag')
    BY <2>1, <2>2, Zenon
  <2> QED BY <2>3, <1>1
<1>4. /\ index \in File /\ Material(index) /\ TypeOK
  BY <1>1 DEF IInv, FileInv, Reading
<1>5. TypeOK' BY <1>1, <1>2, <1>3 DEF IInv, TypeOK
<1>6. /\ BlocksInv' /\ IndexesInv'
      /\ \A f \in File : Whole(f) => Whole(f)'
  BY <1>1, TapeStays
<1>7. FileInv' BY <1>3, <1>4 DEF FileInv, Reading
<1>8. StopsReading => stopFlag' BY <1>3 DEF StopsReading
<1>9. ReadInv'
  <2>1. CASE StopsReading BY <2>1, <1>3, <1>8 DEF ReadInv
  <2>2. CASE left = 0
    <3>1. Aligned BY <2>2, <1>1 DEF IInv, ReadInv
    <3>2. Len(block) = 0 BY <1>1, EmptySeq
    <3>3. /\ Start[index] \in Nat /\ Length[index] \in Nat
          /\ Start[index + 1] = Start[index] + Length[index]
      BY <1>4, ConstFacts, StartFacts
    <3>4. head = Start[index + 1] BY <2>2, <3>1, <3>2, <3>3 DEF Aligned
    <3>5. head' = Start[index' + 1] BY <3>4, <1>2, <1>3
    <3> QED BY <3>5, <1>3 DEF ReadInv
  <2> QED BY <2>1, <2>2, <1>1
<1>10. StopInv'
  <2>1. cancelled => stopFlag /\ index \in File /\ ~OneBlock(index)
    BY <1>1 DEF IInv, StopInv
  <2> QED BY <2>1, <1>2, <1>3 DEF StopInv
<1>11. TaskInv'
  BY <1>1, <1>3 DEF TaskInv, TaskRuns, Reading, Writing
<1>12. Whole(index) \/ stopFlag
  <2>1. CASE StopsReading BY <2>1 DEF StopsReading
  <2>2. CASE left = 0
    <3>1. task \notin Writing BY <1>1 DEF TaskRuns, Writing
    <3>2. PICK k \in Nat : Handed(k) /\ (Excused \/ Placed(k))
      BY <3>1, <1>1 DEF IInv, TaskInv, Reading
    <3>3. CASE Excused BY <3>3, <1>4 DEF Excused, Whole, Material
    <3>4. CASE Placed(k)
      <4>1. Length[index] <= k * BlockSize BY <3>2, <2>2 DEF Handed
      <4> DEFINE e == extent[index]
      <4>2. /\ e \in Nat /\ e > 0 /\ Len(tape) + 1 = e + k
            /\ \A j \in 0..(k - 1) : tape[e + j].bytes = FileBlock(index, j)
        BY <3>4, <1>4 DEF Placed, TypeOK
      <4>3. tape \in Seq(Record) BY <1>4 DEF TypeOK, Record
      <4> HIDE DEF e
      <4>4. \A j \in 0..(Blocks(index) - 1) :
              /\ e + j \in DOMAIN tape
              /\ tape[e + j].bytes = FileBlock(Canonical(index), j)
        BY <4>1, <4>2, <4>3, <1>4, AllPlaced
      <4> QED BY <4>4 DEF e, OnTape, Whole
    <3> QED BY <3>2, <3>3, <3>4
  <2> QED BY <2>1, <2>2, <1>1
<1>13. WholeInv'
  <2>1. \A f \in finished \cup committed :
          Whole(f) \/ (f = index /\ stopFlag)
    BY DEF IInv, WholeInv
  <2>2. finished \cup committed \subseteq File BY DEF IInv, TypeOK
  <2>3. \A f \in finished \cup committed :
          Whole(f)' \/ (f = index' /\ stopFlag' /\ writer' # "next")
    BY <2>1, <2>2, <1>3, <1>6
  <2>4. Whole(index)' \/ stopFlag' BY <1>3, <1>4, <1>6, <1>12
  <2> QED BY <2>3, <2>4, <1>1, <1>3 DEF WholeInv
<1>14. ListInv'
  BY <1>1, <1>3, <1>4, ConstFacts DEF IInv, ListInv, Reading
<1> QED
  BY <1>2, <1>5, <1>6, <1>7, <1>9, <1>10, <1>11, <1>13, <1>14 DEF IInv

\* A step of the block task that neither stops the command nor ends the
\* provider leaves what the writer has read.
LEMMA TaskAlone ==
  ASSUME IInv,
         UNCHANGED <<providerVars, writer, index, fileVars, taskBlock,
                     planVars, indexVars>>,
         stopFlag' \in BOOLEAN, stopFlag => stopFlag',
         task' \in {"writing", "asked", "done", "faulted"},
         tape' \in Seq(Record), room' \in Nat, errors' \in Nat,
         accepted' \subseteq File,
         \A f \in File : Whole(f) => Whole(f)'
  PROVE  /\ TypeOK' /\ RingHolds' /\ ProducerInv' /\ CompletionInv'
         /\ FileInv' /\ ReadInv' /\ StopInv' /\ WholeInv' /\ ListInv'
<1> USE DEF fileVars, planVars, indexVars
<1>1. /\ ProviderTypeOK' /\ RingHolds' /\ ProducerInv' /\ CompletionInv'
      /\ head' = head /\ tail' = tail /\ cancelled' = cancelled
      /\ disposed' = disposed /\ producer' = producer
  BY ProviderStays
<1>2. TypeOK' BY <1>1 DEF IInv, TypeOK, Record
<1>3. FileInv' BY <1>1 DEF IInv, FileInv
<1>4. Aligned => Aligned' BY <1>1 DEF Aligned
<1>5. Dead => Dead' BY <1>1 DEF Dead
<1>6. /\ writer' = writer /\ index' = index /\ left' = left /\ block' = block
      /\ finished' = finished /\ committed' = committed
  OBVIOUS
<1>7. ReadInv'
  <2>1. writer \in {"finish", "checkpoint"} =>
          head' = Start[index' + 1] \/ stopFlag'
    BY <1>1, <1>6 DEF IInv, ReadInv
  <2>2. writer = "next" => head' = Start[index' + 1]
    BY <1>1, <1>6 DEF IInv, ReadInv
  <2> QED BY <1>4, <1>5, <1>6, <2>1, <2>2 DEF IInv, ReadInv
<1>8. StopInv'
  <2>1. \/ ~cancelled
        \/ stopFlag /\ index \in File /\ ~OneBlock(index) /\ writer # "next"
        \/ writer \in {"closing", "ended"}
    BY DEF IInv, StopInv
  <2>2. cancelled' = cancelled BY <1>1
  <2> QED BY <1>6, <2>1, <2>2 DEF StopInv
<1>9. WholeInv'
  <2>1. /\ \A f \in finished \cup committed :
             \/ Whole(f)
             \/ f = index /\ stopFlag /\ writer # "next"
        /\ writer = "drain" => Whole(index)
        /\ writer = "finish" => Whole(index) \/ stopFlag
    BY DEF IInv, WholeInv
  <2>2. /\ finished \cup committed \subseteq File
        /\ writer \in {"drain", "finish"} => index \in File
    BY DEF IInv, TypeOK, FileInv
  <2>3. \A f \in finished' \cup committed' :
          \/ Whole(f)'
          \/ f = index' /\ stopFlag' /\ writer' # "next"
    BY <1>6, <2>1, <2>2
  <2>4. writer' = "drain" => Whole(index)' BY <1>6, <2>1, <2>2
  <2>5. writer' = "finish" => Whole(index)' \/ stopFlag'
    BY <1>6, <2>1, <2>2
  <2> QED BY <1>6, <2>3, <2>4, <2>5 DEF WholeInv
<1>10. ListInv' BY <1>6 DEF IInv, ListInv
<1> QED BY <1>1, <1>2, <1>3, <1>7, <1>8, <1>9, <1>10

LEMMA TaskPlaces ==
  ASSUME IInv, task \in Writing
  PROVE  /\ writer \in {"read", "fetch", "asked", "hand", "commit", "cleanup"}
         /\ index \in File /\ Material(index) /\ ~OneBlock(index)
         /\ \E k \in Nat :
              /\ k * BlockSize < Length[index]
              /\ taskBlock = FileBlock(index, k)
              /\ writer \in Reading => Handed(k + 1)
              /\ Excused \/ Placed(k)
BY DEF IInv, TaskInv, Writing, TaskRuns

LEMMA TaskWritesKeeps == ASSUME IInv, TaskWrites PROVE IInv'
<1>1. /\ UNCHANGED <<providerVars, writer, index, fileVars, taskBlock,
                     stopFlag, planVars, indexVars>>
      /\ task = "writing"
      /\ \/ Writes(taskBlock) /\ task' = "done"
         \/ DriveFails /\ task' = "asked"
  BY DEF TaskWrites
<1>2. /\ task \in Writing
      /\ stopFlag' = stopFlag /\ stopFlag \in BOOLEAN
      /\ index' = index /\ extent' = extent /\ writer' = writer /\ left' = left
      /\ taskBlock' = taskBlock
  BY <1>1 DEF Writing, IInv, TypeOK, planVars, fileVars
<1>3. /\ writer \in {"read", "fetch", "asked", "hand", "commit", "cleanup"}
      /\ index \in File /\ Material(index) /\ ~OneBlock(index)
  BY <1>2, TaskPlaces
<1>4. PICK k \in Nat :
        /\ k * BlockSize < Length[index]
        /\ taskBlock = FileBlock(index, k)
        /\ writer \in Reading => Handed(k + 1)
        /\ Excused \/ Placed(k)
  BY <1>2, TaskPlaces
<1>5. CASE Writes(taskBlock) /\ task' = "done"
  <2>1. /\ room > 0 /\ room' = room - 1
        /\ tape' = Append(tape, DataBlock(taskBlock))
        /\ errors' = errors /\ accepted' = accepted
    BY <1>5 DEF Writes, PutOnTape
  <2>2. index \in accepted \/ Placed(k)
    BY <2>1, <1>1, <1>4 DEF Excused
  <2>3. /\ tape' \in Seq(Record)
        /\ BlocksInv' /\ IndexesInv'
        /\ \A f \in File : Whole(f) => Whole(f)'
        /\ Placed(k) => Placed(k + 1)'
    BY <1>2, <1>3, <1>4, <2>1, <2>2, BlockAppended
  <2>4. /\ room' \in Nat /\ errors' \in Nat /\ accepted' \subseteq File
    BY <2>1 DEF IInv, TypeOK
  <2>5. /\ TypeOK' /\ RingHolds' /\ ProducerInv' /\ CompletionInv'
        /\ FileInv' /\ ReadInv' /\ StopInv' /\ WholeInv' /\ ListInv'
    BY <1>1, <1>2, <1>5, <2>3, <2>4, TaskAlone
  <2>6. writer' \in Reading => Handed(k + 1)' /\ (Excused' \/ Placed(k + 1)')
    <3>1. writer \in Reading => Handed(k + 1)'
      BY <1>2, <1>4 DEF Handed
    <3>2. Excused' \/ Placed(k + 1)'
      BY <1>2, <2>1, <2>2, <2>3 DEF Excused
    <3> QED BY <1>2, <3>1, <3>2
  <2>7. TaskInv'
    <3>1. k + 1 \in Nat OBVIOUS
    <3>2. writer' \in Reading =>
            \E j \in Nat : Handed(j)' /\ (Excused' \/ Placed(j)')
      BY <3>1, <2>6
    <3> QED BY <1>2, <1>3, <1>5, <3>2 DEF TaskInv, TaskRuns, Writing
  <2> QED BY <2>3, <2>5, <2>7 DEF IInv
<1>6. CASE DriveFails /\ task' = "asked"
  <2>1. tape' = tape /\ room' = room /\ accepted' = accepted
        /\ errors' \in Nat
    BY <1>6 DEF DriveFails, IInv, TypeOK
  <2>2. /\ BlocksInv' /\ IndexesInv'
        /\ \A f \in File : Whole(f) => Whole(f)'
    BY <1>2, <2>1, TapeStays
  <2>3. /\ tape' \in Seq(Record) /\ room' \in Nat /\ accepted' \subseteq File
    BY <2>1 DEF IInv, TypeOK, Record
  <2>4. /\ TypeOK' /\ RingHolds' /\ ProducerInv' /\ CompletionInv'
        /\ FileInv' /\ ReadInv' /\ StopInv' /\ WholeInv' /\ ListInv'
    BY <1>1, <1>2, <1>6, <2>1, <2>2, <2>3, TaskAlone
  <2>5. /\ k * BlockSize < Length[index']
        /\ taskBlock' = FileBlock(index', k)
        /\ writer' \in Reading => Handed(k + 1)'
        /\ Excused' \/ Placed(k)'
    <3>1. writer' \in Reading => Handed(k + 1)'
      BY <1>2, <1>4 DEF Handed
    <3>2. Placed(k) => Placed(k)' BY <1>2, <2>1 DEF Placed
    <3>3. Excused => Excused'
      BY <1>1, <1>2, <2>1 DEF Excused
    <3> QED BY <1>2, <1>4, <3>1, <3>2, <3>3
  <2>6. task' \in Writing BY <1>6 DEF Writing
  <2>7. \E j \in Nat :
          /\ j * BlockSize < Length[index']
          /\ taskBlock' = FileBlock(index', j)
          /\ writer' \in Reading => Handed(j + 1)'
          /\ Excused' \/ Placed(j)'
    BY <2>5
  <2>8. TaskInv'
    BY <1>2, <1>3, <1>6, <2>6, <2>7 DEF TaskInv
  <2> QED BY <2>2, <2>4, <2>8 DEF IInv
<1> QED BY <1>1, <1>5, <1>6

LEMMA TaskClosesKeeps == ASSUME IInv, TaskCloses PROVE IInv'
<1>1. /\ UNCHANGED <<providerVars, writer, index, fileVars, taskBlock,
                     stopFlag, planVars, indexVars, tapeVars>>
      /\ task = "closing" /\ task' = "done"
  BY DEF TaskCloses
<1>2. /\ stopFlag' = stopFlag /\ stopFlag \in BOOLEAN
      /\ index' = index /\ extent' = extent /\ writer' = writer /\ left' = left
      /\ tape' = tape /\ room' = room /\ errors' = errors
      /\ accepted' = accepted
  BY <1>1 DEF Writing, IInv, TypeOK, planVars, fileVars, tapeVars
<1>3. /\ BlocksInv' /\ IndexesInv'
      /\ \A f \in File : Whole(f) => Whole(f)'
  BY <1>2, TapeStays
<1>4. /\ tape' \in Seq(Record) /\ room' \in Nat /\ errors' \in Nat
      /\ accepted' \subseteq File
  BY <1>2 DEF IInv, TypeOK, Record
<1>5. /\ TypeOK' /\ RingHolds' /\ ProducerInv' /\ CompletionInv'
      /\ FileInv' /\ ReadInv' /\ StopInv' /\ WholeInv' /\ ListInv'
  BY <1>1, <1>2, <1>3, <1>4, TaskAlone
<1>6. writer' \in Reading =>
        \E k \in Nat : Handed(k)' /\ (Excused' \/ Placed(k)')
  <2> SUFFICES ASSUME writer' \in Reading
               PROVE  \E k \in Nat : Handed(k)' /\ (Excused' \/ Placed(k)')
    OBVIOUS
  <2>1. PICK k \in Nat : Handed(k) /\ (Excused \/ Placed(k))
    BY <1>1, <1>2 DEF IInv, TaskInv, Writing
  <2>2. Handed(k)' BY <2>1, <1>2 DEF Handed
  <2>3. Excused => Excused' BY <1>1, <1>2 DEF Excused
  <2>4. Placed(k) => Placed(k)' BY <1>2 DEF Placed
  <2> QED BY <2>1, <2>2, <2>3, <2>4
<1>7. TaskInv'
  BY <1>1, <1>2, <1>6 DEF IInv, TaskInv, TaskRuns, Writing
<1> QED BY <1>3, <1>5, <1>7 DEF IInv

LEMMA AnswerTaskKeeps == ASSUME IInv, AnswerTask PROVE IInv'
<1>1. /\ UNCHANGED <<providerVars, writer, index, fileVars, taskBlock,
                     planVars, indexVars, tape, room, errors>>
      /\ task = "asked"
      /\ \/ task' = "faulted" /\ stopFlag' = TRUE /\ accepted' = accepted
         \/ task' = "writing" /\ stopFlag' = stopFlag /\ accepted' = accepted
         \/ /\ task' = "done" /\ stopFlag' = stopFlag
            /\ accepted' = accepted \cup {index}
  BY DEF AnswerTask
<1>2. /\ task \in Writing
      /\ index' = index /\ extent' = extent /\ writer' = writer /\ left' = left
      /\ taskBlock' = taskBlock
      /\ tape' = tape /\ room' = room /\ errors' = errors
  BY <1>1 DEF Writing, planVars, fileVars
<1>3. /\ writer \in {"read", "fetch", "asked", "hand", "commit", "cleanup"}
      /\ index \in File /\ Material(index) /\ ~OneBlock(index)
  BY <1>2, TaskPlaces
<1>4. PICK k \in Nat :
        /\ k * BlockSize < Length[index]
        /\ taskBlock = FileBlock(index, k)
        /\ writer \in Reading => Handed(k + 1)
        /\ Excused \/ Placed(k)
  BY <1>2, TaskPlaces
<1>5. /\ stopFlag' \in BOOLEAN /\ (stopFlag => stopFlag')
  <2>1. stopFlag \in BOOLEAN BY DEF IInv, TypeOK
  <2>2. stopFlag' = TRUE \/ stopFlag' = stopFlag BY <1>1
  <2> QED BY <2>1, <2>2, Zenon
<1>6. accepted \subseteq accepted' /\ accepted' \subseteq File
  BY <1>1, <1>3 DEF IInv, TypeOK
<1>7. /\ BlocksInv' /\ IndexesInv'
      /\ \A f \in File : Whole(f) => Whole(f)'
  BY <1>2, <1>6, TapeStays
<1>8. /\ tape' \in Seq(Record) /\ room' \in Nat /\ errors' \in Nat
  BY <1>2 DEF IInv, TypeOK, Record
<1>9. /\ TypeOK' /\ RingHolds' /\ ProducerInv' /\ CompletionInv'
      /\ FileInv' /\ ReadInv' /\ StopInv' /\ WholeInv' /\ ListInv'
  BY <1>1, <1>2, <1>5, <1>6, <1>7, <1>8, TaskAlone
<1>10. Placed(k) => Placed(k)' BY <1>2 DEF Placed
<1>11. writer' \in Reading => Handed(k + 1)'
  BY <1>2, <1>4 DEF Handed
<1>12. Excused => Excused'
  BY <1>1, <1>2, <1>5, <1>6 DEF Excused
<1>13. CASE task' = "writing"
  <2>1. \E j \in Nat :
          /\ j * BlockSize < Length[index']
          /\ taskBlock' = FileBlock(index', j)
          /\ writer' \in Reading => Handed(j + 1)'
          /\ Excused' \/ Placed(j)'
    BY <1>2, <1>4, <1>10, <1>11, <1>12
  <2>2. task' \in Writing BY <1>13 DEF Writing
  <2>3. TaskInv' BY <1>2, <1>3, <1>13, <2>1, <2>2 DEF TaskInv
  <2> QED BY <1>7, <1>9, <2>3 DEF IInv
<1>14. CASE task' \in {"faulted", "done"}
  <2>1. Excused'
    <3>1. CASE task' = "faulted"
      BY <3>1, <1>1 DEF Excused
    <3>2. CASE task' = "done"
      BY <3>2, <1>1, <1>2 DEF Excused
    <3> QED BY <3>1, <3>2, <1>14
  <2>2. writer' \in Reading =>
          \E j \in Nat : Handed(j)' /\ (Excused' \/ Placed(j)')
    <3>1. k + 1 \in Nat OBVIOUS
    <3> QED BY <2>1, <3>1, <1>11
  <2>3. task' = "faulted" => stopFlag' BY <1>1
  <2>4. task' \notin Writing BY <1>14 DEF Writing
  <2>5. TaskInv' BY <1>2, <1>3, <2>2, <2>3, <2>4 DEF TaskInv
  <2> QED BY <1>7, <1>9, <2>5 DEF IInv
<1> QED BY <1>1, <1>13, <1>14

LEMMA TaskOverflowsKeeps == ASSUME IInv, TaskOverflows PROVE IInv'
<1> USE DEF fileVars, planVars, indexVars, producerVars, preloaderVars,
            cacheVars
<1>1. /\ UNCHANGED <<buffer, head, tail, disposed, producerVars,
                     preloaderVars, cacheVars, opened, writer, index,
                     fileVars, taskBlock, planVars, indexVars>>
      /\ task = "writing" /\ task' = "closing" /\ stopFlag' = TRUE
      /\ cancelled' = TRUE /\ completed' = TRUE
      /\ room' = 0 /\ UNCHANGED <<tape, errors, accepted>>
  BY DEF TaskOverflows, Overflows, BeginCompletion
<1>2. task \in Writing BY <1>1 DEF Writing
<1>3. /\ writer \in {"read", "fetch", "asked", "hand", "commit", "cleanup"}
      /\ index \in File /\ Material(index) /\ ~OneBlock(index)
  BY <1>2, TaskPlaces
<1>4. PICK k \in Nat :
        /\ k * BlockSize < Length[index]
        /\ taskBlock = FileBlock(index, k)
        /\ writer \in Reading => Handed(k + 1)
        /\ Excused \/ Placed(k)
  BY <1>2, TaskPlaces
<1>5. TypeOK'
  <2>1. completed' \in BOOLEAN /\ cancelled' \in BOOLEAN /\ stopFlag' \in BOOLEAN
    BY <1>1
  <2>2. ProviderTypeOK' BY <1>1, <2>1 DEF IInv, TypeOK, ProviderTypeOK
  <2> QED BY <1>1, <2>1, <2>2 DEF IInv, TypeOK
<1>6. RingHolds' /\ ProducerInv' BY <1>1 DEF IInv, RingHolds, ProducerInv
<1>7. CompletionInv' BY <1>1 DEF IInv, CompletionInv
<1>8. /\ writer' = writer /\ index' = index /\ left' = left /\ block' = block
      /\ stopFlag'
  BY <1>1
<1>9. FileInv' BY <1>1 DEF IInv, FileInv
<1>10. ReadInv'
  <2>1. Aligned => Aligned' BY <1>1 DEF Aligned
  <2>2. Dead => Dead' BY <1>1 DEF Dead
  <2> QED BY <1>3, <1>8, <2>1, <2>2 DEF IInv, ReadInv
<1>11. StopInv' BY <1>3, <1>8 DEF StopInv
<1>12. /\ BlocksInv' /\ IndexesInv'
       /\ \A f \in File : Whole(f) => Whole(f)'
  BY <1>1, TapeStays
<1>13. TaskInv'
  <2>1. Excused' BY <1>1 DEF Excused
  <2>2. writer' \in Reading => Handed(k + 1)'
    BY <1>4, <1>8 DEF Handed
  <2>3. writer' \in Reading =>
          \E j \in Nat : Handed(j)' /\ (Excused' \/ Placed(j)')
    <3>1. k + 1 \in Nat OBVIOUS
    <3> QED BY <2>1, <2>2, <3>1
  <2>4. task' = "closing" /\ task' \notin Writing BY <1>1 DEF Writing
  <2> QED BY <1>3, <1>8, <2>3, <2>4 DEF TaskInv
<1>14. WholeInv'
  <2>1. \A f \in finished \cup committed :
          Whole(f) \/ (f = index /\ stopFlag)
    BY DEF IInv, WholeInv
  <2>2. finished \cup committed \subseteq File BY DEF IInv, TypeOK
  <2>3. \A f \in finished \cup committed :
          Whole(f)' \/ (f = index' /\ stopFlag' /\ writer' # "next")
    BY <2>1, <2>2, <1>3, <1>8, <1>12
  <2> QED BY <2>3, <1>1, <1>3 DEF WholeInv
<1>15. ListInv' BY <1>1 DEF IInv, ListInv
<1> QED
  BY <1>5, <1>6, <1>7, <1>9, <1>10, <1>11, <1>12, <1>13, <1>14, <1>15
  DEF IInv

-----------------------------------------------------------------------------
\* Finishing a file.

LEMMA FinishFileKeeps == ASSUME IInv, FinishFile PROVE IInv'
<1> USE DEF fileVars, taskVars, tapeVars
<1>1. /\ UNCHANGED <<providerVars, index, fileVars, taskVars, stopFlag,
                     extent, uses, committed, tapeVars>>
      /\ writer = "finish" /\ writer' = "checkpoint"
      /\ finished' = finished \cup {index}
      /\ released' \in {released, released \cup {index}}
  BY DEF FinishFile
<1>2. /\ ProviderTypeOK' /\ RingHolds' /\ ProducerInv' /\ CompletionInv'
      /\ head' = head /\ tail' = tail /\ cancelled' = cancelled
      /\ disposed' = disposed /\ producer' = producer
  BY <1>1, ProviderStays
<1>3. /\ index \in File /\ index' = index /\ stopFlag' = stopFlag
      /\ Whole(index) \/ stopFlag
  BY <1>1 DEF IInv, FileInv, WholeInv
<1>4. TypeOK' BY <1>1, <1>2, <1>3 DEF IInv, TypeOK
<1>5. /\ BlocksInv' /\ IndexesInv'
      /\ \A f \in File : Whole(f) => Whole(f)'
  BY <1>1, TapeStays
<1>6. FileInv' BY <1>1, <1>3 DEF FileInv, Reading
<1>7. ReadInv' BY <1>1, <1>2, <1>3 DEF IInv, ReadInv
<1>8. StopInv'
  <2>1. cancelled => stopFlag /\ index \in File /\ ~OneBlock(index)
    BY <1>1 DEF IInv, StopInv
  <2> QED BY <2>1, <1>1, <1>2, <1>3 DEF StopInv
<1>9. TaskInv'
  <2>1. task = "none" BY <1>1 DEF IInv, TaskInv
  <2>2. task' = "none" BY <2>1, <1>1
  <2> QED BY <1>1, <2>2 DEF TaskInv, TaskRuns, Reading, Writing
<1>10. finished' \cup committed' = (finished \cup committed) \cup {index}
  BY <1>1
<1>11. WholeInv'
  <2>1. \A f \in finished \cup committed :
          Whole(f) \/ (f = index /\ stopFlag)
    BY DEF IInv, WholeInv
  <2>2. finished \cup committed \subseteq File BY DEF IInv, TypeOK
  <2>3. \A f \in (finished \cup committed) \cup {index} :
          Whole(f)' \/ (f = index' /\ stopFlag' /\ writer' # "next")
    BY <2>1, <2>2, <1>1, <1>3, <1>5
  <2> QED BY <2>3, <1>1, <1>10 DEF WholeInv
<1>12. ListInv'
  <2>1. finished \cup committed = 1..(index - 1)
    BY <1>1 DEF IInv, ListInv
  <2>2. (1..(index - 1)) \cup {index} = 1..index
    BY <1>3, ConstFacts
  <2> QED BY <2>1, <2>2, <1>1, <1>3, <1>10 DEF ListInv, Reading
<1> QED
  BY <1>2, <1>4, <1>5, <1>6, <1>7, <1>8, <1>9, <1>11, <1>12 DEF IInv

\* The index that is written knows the files up to this one.
LEMMA CheckpointKeeps == ASSUME IInv, Checkpoint PROVE IInv'
<1> USE DEF fileVars, taskVars, planVars
<1> DEFINE c == committed \cup finished
           x == IndexBlock(c)
           l == Len(tape)
<1>1. /\ UNCHANGED <<providerVars, index, fileVars, taskVars, stopFlag,
                     planVars, errors, accepted>>
      /\ writer = "checkpoint" /\ committed' = c /\ finished' = {}
      /\ room > 0 /\ room' = room - 1 /\ tape' = Append(tape, x)
      /\ writer' = IF stopFlag THEN "commit" ELSE "next"
  BY DEF Checkpoint, CommittedFirst, PutOnTape, AfterFile
<1>2. /\ ProviderTypeOK' /\ RingHolds' /\ ProducerInv' /\ CompletionInv'
      /\ head' = head /\ tail' = tail /\ cancelled' = cancelled
      /\ disposed' = disposed /\ producer' = producer
  BY <1>1, ProviderStays
<1>3. /\ index \in File /\ index' = index /\ stopFlag' = stopFlag
      /\ extent' = extent /\ accepted' = accepted /\ TypeOK
  BY <1>1 DEF IInv, FileInv
<1>4. c = 1..index /\ c \subseteq File
  BY <1>1, <1>3 DEF IInv, ListInv, TypeOK
<1>5. writer' \in {"commit", "next"} /\ (writer' = "next" => ~stopFlag)
  BY <1>1
<1>6. x \in Record /\ x.bytes = << >> /\ x.lists = 1..index
  <2>1. << >> \in Seq(Byte) BY EmptySeq
  <2> QED BY <2>1, <1>4 DEF IndexBlock, Record
<1> HIDE DEF x
<1>7. /\ tape' \in Seq(Record)
      /\ l \in Nat
      /\ DOMAIN tape = 1..l
      /\ DOMAIN tape' = 1..(l + 1)
      /\ \A q \in DOMAIN tape : q \in DOMAIN tape' /\ tape'[q] = tape[q]
      /\ tape'[l + 1] = x
      /\ \A f \in File : OnTape(f) => OnTape(f)'
  BY <1>1, <1>3, <1>6, Grows
<1>8. TypeOK'
  <2>1. room' \in Nat BY <1>1, <1>3 DEF TypeOK
  <2> QED BY <2>1, <1>1, <1>2, <1>3, <1>4, <1>5, <1>7 DEF TypeOK, Record
<1>9. FileInv' BY <1>5 DEF FileInv, Reading
<1>10. ReadInv'
  <2>1. head = Start[index + 1] \/ stopFlag BY <1>1 DEF IInv, ReadInv
  <2> QED BY <2>1, <1>2, <1>3, <1>5 DEF ReadInv
<1>11. StopInv'
  <2>1. cancelled => stopFlag /\ index \in File /\ ~OneBlock(index)
    BY <1>1 DEF IInv, StopInv
  <2> QED BY <2>1, <1>2, <1>3, <1>5 DEF StopInv
<1>12. TaskInv'
  <2>1. task = "none" BY <1>1 DEF IInv, TaskInv
  <2>2. task' = "none" BY <2>1, <1>1
  <2> QED BY <1>5, <2>2 DEF TaskInv, TaskRuns, Reading, Writing
<1>13. finished' \cup committed' = c BY <1>1
<1>14. WholeInv'
  <2>1. \A f \in c : Whole(f) \/ (f = index /\ stopFlag)
    BY DEF IInv, WholeInv
  <2>2. \A f \in File : Whole(f) => Whole(f)'
    BY <1>3, <1>7 DEF Whole
  <2>3. \A f \in c : Whole(f)' \/ (f = index' /\ stopFlag' /\ writer' # "next")
    BY <2>1, <2>2, <1>3, <1>4, <1>5
  <2> QED BY <2>3, <1>5, <1>13 DEF WholeInv
<1>15. ListInv'
  BY <1>3, <1>4, <1>5, <1>13 DEF ListInv, Reading
<1>16. BlocksInv'
  <2> SUFFICES ASSUME NEW q \in DOMAIN tape', tape'[q].bytes # << >>
               PROVE  \E f \in 1..index : \E k \in 0..(Blocks(f) - 1) :
                        /\ Material(f)
                        /\ tape'[q].bytes = FileBlock(f, k)
                        /\ q = extent[f] + k \/ f \in accepted
    BY <1>3 DEF BlocksInv
  <2>1. q # l + 1 BY <1>6, <1>7
  <2>2. q \in DOMAIN tape /\ tape'[q] = tape[q] BY <2>1, <1>7
  <2> QED BY <2>2 DEF IInv, BlocksInv
<1>17. IndexesInv'
  <2>1. \A f \in File : f > index' => extent'[f] = 0
    BY <1>3 DEF IInv, IndexesInv
  <2>2. ASSUME NEW q \in DOMAIN tape', tape'[q].bytes = << >>
        PROVE  \E n \in 0..index :
                 /\ tape'[q].lists = 1..n
                 /\ \A f \in File : f > n /\ Material(f) =>
                      extent[f] = 0 \/ extent[f] > q
    <3>1. CASE q = l + 1
      <4>1. tape'[q].lists = 1..index BY <3>1, <1>6, <1>7
      <4>2. \A f \in File : f > index => extent[f] = 0
        BY DEF IInv, IndexesInv
      <4>3. index \in 0..index BY <1>3, ConstFacts
      <4> QED BY <4>1, <4>2, <4>3
    <3>2. CASE q # l + 1
      <4>1. q \in DOMAIN tape /\ tape'[q] = tape[q] BY <3>2, <1>7
      <4> QED BY <4>1, <2>2 DEF IInv, IndexesInv
    <3> QED BY <3>1, <3>2
  <2> QED BY <2>1, <2>2, <1>3 DEF IndexesInv
<1> QED
  BY <1>2, <1>8, <1>9, <1>10, <1>11, <1>12, <1>14, <1>15, <1>16, <1>17
  DEF IInv

LEMMA CleanUpKeeps == ASSUME IInv, CleanUp PROVE IInv'
<1> USE DEF fileVars, taskVars, planVars, indexVars, tapeVars, producerVars,
            preloaderVars, cacheVars
<1>1. /\ UNCHANGED <<buffer, head, tail, disposed, producerVars,
                     preloaderVars, cacheVars, opened, index, fileVars,
                     taskVars, stopFlag, planVars, indexVars, tapeVars>>
      /\ writer = "cleanup" /\ writer' = "closing" /\ ~TaskRuns
      /\ cancelled' = TRUE /\ completed' = TRUE
  BY DEF CleanUp, BeginCompletion
<1>2. TypeOK'
  <2>1. completed' \in BOOLEAN /\ cancelled' \in BOOLEAN BY <1>1
  <2>2. ProviderTypeOK' BY <1>1, <2>1 DEF IInv, TypeOK, ProviderTypeOK
  <2> QED BY <1>1, <2>2 DEF IInv, TypeOK
<1>3. RingHolds' /\ ProducerInv' BY <1>1 DEF IInv, RingHolds, ProducerInv
<1>4. CompletionInv' BY <1>1 DEF IInv, CompletionInv
<1>5. FileInv' /\ ReadInv' /\ StopInv'
  BY <1>1 DEF FileInv, ReadInv, StopInv, Reading
<1>6. /\ BlocksInv' /\ IndexesInv'
      /\ \A f \in File : Whole(f) => Whole(f)'
  BY <1>1, TapeStays
<1>7. TaskInv'
  <2>1. UNCHANGED <<index, left, taskVars, extent, tape, room>>
        /\ accepted' = accepted /\ stopFlag' = stopFlag
    BY <1>1
  <2> QED BY <2>1, <1>1, TaskKeeps DEF Reading, TaskRuns
<1>8. WholeInv'
  <2>1. \A f \in finished \cup committed :
          Whole(f) \/ (f = index /\ stopFlag)
    BY DEF IInv, WholeInv
  <2>2. finished \cup committed \subseteq File BY DEF IInv, TypeOK
  <2>3. \A f \in finished \cup committed :
          Whole(f)' \/ (f = index' /\ stopFlag' /\ writer' # "next")
    BY <2>1, <2>2, <1>1, <1>6
  <2> QED BY <2>3, <1>1 DEF WholeInv
<1>9. ListInv' BY <1>1 DEF IInv, ListInv, Reading
<1> QED BY <1>2, <1>3, <1>4, <1>5, <1>6, <1>7, <1>8, <1>9 DEF IInv

-----------------------------------------------------------------------------
\* The next file.

\* How BeginFile goes on: it fails, or finds the file at an extent.
LEMMA BeginFileCases ==
  ASSUME IInv, BeginFile
  PROVE  /\ index + 1 \in File
         /\ UNCHANGED <<providerVars, segment, taskVars, indexVars, tapeVars>>
         /\ writer = "next" /\ index' = index + 1 /\ block' = << >>
         /\ left' = Length[index + 1]
         /\ extent' \in [File -> Nat] /\ uses' \in [File -> Int]
         /\ released' \subseteq File
         /\ \A g \in File : g # index + 1 => extent'[g] = extent[g]
         /\ \/ /\ writer' = "commit" /\ stopFlag' = TRUE /\ extent' = extent
            \/ /\ writer' = "drain" /\ stopFlag' = stopFlag
               /\ Duplicate(index + 1)
               /\ extent'[index + 1] = extent[Canonical(index + 1)]
            \/ /\ writer' = "finish" /\ stopFlag' = stopFlag
               /\ Length[index + 1] = 0 /\ extent'[index + 1] = 0
            \/ /\ writer' = "opening" /\ stopFlag' = stopFlag
               /\ Material(index + 1) /\ extent'[index + 1] = Len(tape) + 1
<1> DEFINE f == index + 1
<1>1. /\ writer = "next" /\ index < Last /\ index' = f /\ block' = << >>
      /\ left' = Length[f]
      /\ IF Duplicate(f) THEN BeginDuplicate(f)
         ELSE /\ writer' = IF Length[f] = 0 THEN "finish" ELSE "opening"
              /\ extent' = [extent EXCEPT ![f] =
                              IF Length[f] = 0 THEN 0 ELSE Len(tape) + 1]
              /\ UNCHANGED <<stopFlag, uses, released>>
      /\ UNCHANGED <<providerVars, segment, taskVars, indexVars, tapeVars>>
  BY DEF BeginFile
<1>2. /\ extent \in [File -> Nat] /\ uses \in [File -> Int]
      /\ released \subseteq File /\ index \in 0..Last
      /\ Len(tape) \in Nat
  BY LenProperties DEF IInv, TypeOK
<1>3. f \in File /\ f \in Nat /\ Length[f] \in Nat
  BY <1>1, <1>2, ConstFacts
<1> HIDE DEF f
<1>4. Canonical(f) \in File BY <1>3, CanonicalFacts
<1>5. CASE Duplicate(f) /\ Canonical(f) \in released
  <2>1. /\ writer' = "commit" /\ stopFlag' = TRUE
        /\ UNCHANGED <<extent, uses, released>>
    BY <1>1, <1>5 DEF BeginDuplicate, Fail
  <2> QED BY <2>1, <1>1, <1>2, <1>3 DEF f
<1>6. CASE Duplicate(f) /\ Canonical(f) \notin released
  <2>1. /\ writer' = "drain" /\ stopFlag' = stopFlag
        /\ extent' = [extent EXCEPT ![f] = extent[Canonical(f)]]
        /\ uses' = [uses EXCEPT ![Canonical(f)] = @ - 1]
        /\ released' \in {released, released \cup {Canonical(f)}}
    BY <1>1, <1>6 DEF BeginDuplicate
  <2>2. extent' \in [File -> Nat] /\ extent'[f] = extent[Canonical(f)]
        /\ \A g \in File : g # f => extent'[g] = extent[g]
    BY <2>1, <1>2, <1>3, <1>4
  <2>3. uses' \in [File -> Int] BY <2>1, <1>2, <1>4
  <2>4. released' \subseteq File BY <2>1, <1>2, <1>4
  <2> QED BY <2>1, <2>2, <2>3, <2>4, <1>1, <1>3, <1>6 DEF f
<1>7. CASE ~Duplicate(f)
  <2>1. /\ writer' = IF Length[f] = 0 THEN "finish" ELSE "opening"
        /\ extent' = [extent EXCEPT ![f] =
                        IF Length[f] = 0 THEN 0 ELSE Len(tape) + 1]
        /\ UNCHANGED <<stopFlag, uses, released>>
    BY <1>1, <1>7
  <2>2. /\ extent' \in [File -> Nat]
        /\ extent'[f] = IF Length[f] = 0 THEN 0 ELSE Len(tape) + 1
        /\ \A g \in File : g # f => extent'[g] = extent[g]
    BY <2>1, <1>2, <1>3
  <2>3. Length[f] # 0 => Material(f)
    BY <1>3, <1>7 DEF Duplicate, Material
  <2> QED BY <2>1, <2>2, <2>3, <1>1, <1>2, <1>3 DEF f
<1> QED BY <1>5, <1>6, <1>7

LEMMA BeginFileKeeps == ASSUME IInv, BeginFile PROVE IInv'
<1>0. PICK f \in File : f = index + 1 BY BeginFileCases
<1>1. /\ f \in File
      /\ UNCHANGED <<providerVars, segment, taskVars, indexVars, tapeVars>>
      /\ writer = "next" /\ index' = f /\ block' = << >>
      /\ left' = Length[f]
      /\ extent' \in [File -> Nat] /\ uses' \in [File -> Int]
      /\ released' \subseteq File
      /\ \A g \in File : g # f => extent'[g] = extent[g]
      /\ \/ /\ writer' = "commit" /\ stopFlag' = TRUE /\ extent' = extent
         \/ /\ writer' = "drain" /\ stopFlag' = stopFlag
            /\ Duplicate(f)
            /\ extent'[f] = extent[Canonical(f)]
         \/ /\ writer' = "finish" /\ stopFlag' = stopFlag
            /\ Length[f] = 0 /\ extent'[f] = 0
         \/ /\ writer' = "opening" /\ stopFlag' = stopFlag
            /\ Material(f) /\ extent'[f] = Len(tape) + 1
  BY <1>0, BeginFileCases
<1>2. /\ index \in Nat /\ File = 1..Last /\ Last \in Nat /\ f = index + 1
      /\ extent[f] \in Nat /\ Len(tape) \in Nat
      /\ DOMAIN tape = 1..Len(tape)
  BY <1>0, <1>1, ConstFacts, LenProperties DEF IInv, TypeOK
<1>3. /\ f \in Nat /\ index = f - 1 /\ Length[f] \in Nat
  BY <1>1, <1>2, ConstFacts
<1>4. /\ ProviderTypeOK' /\ RingHolds' /\ ProducerInv' /\ CompletionInv'
      /\ head' = head /\ tail' = tail /\ cancelled' = cancelled
      /\ disposed' = disposed /\ producer' = producer
  BY <1>1, ProviderStays
<1>5. /\ stopFlag' \in BOOLEAN /\ (stopFlag => stopFlag')
      /\ writer' \in {"commit", "drain", "finish", "opening"}
  <2>1. stopFlag \in BOOLEAN BY DEF IInv, TypeOK
  <2>2. stopFlag' = TRUE \/ stopFlag' = stopFlag BY <1>1
  <2>3. stopFlag' \in BOOLEAN /\ (stopFlag => stopFlag')
    BY <2>1, <2>2, Zenon
  <2> QED BY <2>3, <1>1
<1>6. block' \in Seq(Byte) /\ Len(block') = 0 BY <1>1, EmptySeq
<1>7. /\ tape' = tape /\ room' = room /\ errors' = errors
      /\ accepted' = accepted /\ finished' = finished
      /\ committed' = committed /\ task' = task /\ taskBlock' = taskBlock
      /\ segment' = segment
  BY <1>1 DEF tapeVars, indexVars, taskVars
<1>8. TypeOK'
  <2>1. /\ index' \in 0..Last /\ left' \in Nat BY <1>1, <1>2, <1>3
  <2>2. /\ extent' \in [File -> Nat] /\ uses' \in [File -> Int]
        /\ released' \subseteq File
    BY <1>1
  <2> QED BY <2>1, <2>2, <1>4, <1>5, <1>6, <1>7 DEF IInv, TypeOK
<1>9. /\ finished \cup committed = 1..index /\ head = Start[f]
      /\ task = "none" /\ ~cancelled
      /\ \A g \in 1..index : Whole(g)
  <2>1. finished \cup committed = 1..index BY <1>1 DEF IInv, ListInv
  <2>2. head = Start[f] BY <1>1, <1>2 DEF IInv, ReadInv
  <2>3. task = "none" BY <1>1 DEF IInv, TaskInv
  <2>4. ~cancelled BY <1>1 DEF IInv, StopInv
  <2>5. \A g \in 1..index : Whole(g) BY <2>1, <1>1 DEF IInv, WholeInv
  <2> QED BY <2>1, <2>2, <2>3, <2>4, <2>5
<1>10. ASSUME NEW g \in 1..index PROVE g \in File /\ extent'[g] = extent[g]
  BY <1>1, <1>2
<1>11. \A g \in 1..index : Whole(g)'
  BY <1>7, <1>9, <1>10 DEF Whole, OnTape
<1>12. FileInv'
  <2>1. \A n \in 1..Len(block') :
          block'[n] = <<index', (Length[index'] - left') + n>>
    BY <1>6
  <2>2. left' <= Length[index'] /\ left' = Length[index'] /\ index' \in File
    BY <1>1, <1>3
  <2>3. writer' = "opening" => Material(index') BY <1>1
  <2>4. writer' = "drain" => Duplicate(index') BY <1>1
  <2> QED BY <1>1, <1>5, <2>1, <2>2, <2>3, <2>4 DEF FileInv, Reading
<1>13. ReadInv'
  <2>1. /\ Start[f] \in Nat /\ Start[f + 1] = Start[f] + Length[f]
    BY <1>1, <1>2, <1>3, StartFacts
  <2>2. Aligned'
    BY <2>1, <1>1, <1>3, <1>4, <1>6, <1>9 DEF Aligned
  <2>3. writer' = "finish" => head' = Start[index' + 1]
    BY <2>1, <1>1, <1>4, <1>9
  <2> QED BY <1>5, <2>2, <2>3 DEF ReadInv
<1>14. StopInv' BY <1>4, <1>9 DEF StopInv
<1>15. TaskInv'
  <2>1. task' = "none" BY <1>7, <1>9
  <2>2. ASSUME writer' = "opening"
        PROVE  Handed(0)' /\ Placed(0)'
    <3>1. /\ Material(f) /\ extent'[f] = Len(tape) + 1
      BY <2>2, <1>1
    <3>2. Length[f] > 0 /\ left' = Length[f] /\ Length[f] - Length[f] = 0
          /\ 0 * BlockSize = 0
      BY <3>1, <1>1, <1>3, ConstFacts DEF Material
    <3>3. Handed(0)' BY <3>2, <1>1 DEF Handed
    <3>4. extent'[f] > 0 /\ Len(tape') + 1 = extent'[f] + 0
      BY <3>1, <1>2, <1>7
    <3>5. 0..(0 - 1) = {} OBVIOUS
    <3>6. Placed(0)' BY <3>4, <3>5, <1>1 DEF Placed
    <3> QED BY <3>3, <3>6
  <2>3. writer' \in Reading => writer' = "opening" BY <1>5 DEF Reading
  <2>4. writer' \in Reading =>
          \E k \in Nat : Handed(k)' /\ (Excused' \/ Placed(k)')
    BY <2>2, <2>3
  <2> QED BY <2>1, <2>4 DEF TaskInv, TaskRuns, Writing
<1>16. WholeInv'
  <2>1. \A g \in finished' \cup committed' : Whole(g)'
    BY <1>7, <1>9, <1>11
  <2>2. ASSUME writer' = "drain" PROVE Whole(f)'
    <3> DEFINE c == Canonical(f)
    <3>1. Duplicate(f) /\ extent'[f] = extent[c] BY <2>2, <1>1
    <3>2. /\ c \in File /\ c \in 1..f /\ Length[c] = Length[f]
          /\ Canonical(c) = c
      BY <1>1, CanonicalFacts
    <3>3. c # f BY <3>1 DEF Duplicate
    <3> HIDE DEF c
    <3>4. c \in 1..index BY <3>2, <3>3, <1>2, <1>3
    <3>5. Whole(c) BY <3>4, <1>9
    <3>6. CASE c \in accepted
      <4>1. Canonical(f) \in accepted' BY <3>6, <1>7 DEF c
      <4> QED BY <4>1 DEF Whole
    <3>7. CASE OnTape(c)
      <4>1. Blocks(f) = Blocks(c) BY <3>2 DEF Blocks
      <4>2. Canonical(f) = c BY DEF c
      <4>3. OnTape(f)'
        BY <3>1, <3>2, <3>7, <4>1, <4>2, <1>7 DEF OnTape
      <4> QED BY <4>3 DEF Whole
    <3> QED BY <3>2, <3>5, <3>6, <3>7 DEF Whole
  <2>3. ASSUME writer' = "finish" PROVE Whole(f)'
    <3>1. Length[f] = 0 BY <2>3, <1>1
    <3>2. 0..(Blocks(f) - 1) = {} BY <3>1, <1>1, BlocksFacts
    <3> QED BY <3>2 DEF Whole, OnTape
  <2> QED BY <1>1, <2>1, <2>2, <2>3 DEF WholeInv
<1>17. ListInv'
  <2>1. finished' \cup committed' = 1..(f - 1) BY <1>3, <1>7, <1>9
  <2>2. 1..(f - 1) \subseteq 1..f BY <1>3
  <2> QED BY <2>1, <2>2, <1>1, <1>5 DEF ListInv
<1>18. BlocksInv'
  <2> SUFFICES ASSUME NEW q \in DOMAIN tape, tape[q].bytes # << >>
               PROVE  \E g \in 1..f : \E k \in 0..(Blocks(g) - 1) :
                        /\ Material(g)
                        /\ tape[q].bytes = FileBlock(g, k)
                        /\ q = extent'[g] + k \/ g \in accepted
    BY <1>1, <1>7 DEF BlocksInv
  <2>1. PICK g \in 1..index : \E k \in 0..(Blocks(g) - 1) :
          /\ Material(g)
          /\ tape[q].bytes = FileBlock(g, k)
          /\ q = extent[g] + k \/ g \in accepted
    BY DEF IInv, BlocksInv
  <2>2. g \in 1..f /\ extent'[g] = extent[g] BY <1>2, <1>3, <1>10
  <2> QED BY <2>1, <2>2
<1>19. IndexesInv'
  <2>1. \A g \in File : g > f => extent'[g] = 0
    <3>1. ASSUME NEW g \in File, g > f PROVE extent'[g] = 0
      <4>1. g # f /\ g > index BY <3>1, <1>2, <1>3
      <4> QED BY <4>1, <1>1 DEF IInv, IndexesInv
    <3> QED BY <3>1
  <2>2. ASSUME NEW q \in DOMAIN tape, tape[q].bytes = << >>
        PROVE  \E n \in 0..f :
                 /\ tape[q].lists = 1..n
                 /\ \A g \in File : g > n /\ Material(g) =>
                      extent'[g] = 0 \/ extent'[g] > q
    <3>1. PICK n \in 0..index :
            /\ tape[q].lists = 1..n
            /\ \A g \in File : g > n /\ Material(g) =>
                 extent[g] = 0 \/ extent[g] > q
      BY <2>2 DEF IInv, IndexesInv
    <3>2. n \in 0..f BY <1>2, <1>3
    <3>3. ASSUME NEW g \in File, g > n, Material(g)
          PROVE  extent'[g] = 0 \/ extent'[g] > q
      <4>1. CASE g # f
        BY <4>1, <3>1, <3>3, <1>1
      <4>2. CASE g = f
        <5>1. \/ extent' = extent
              \/ extent'[f] = Len(tape) + 1
          BY <3>3, <4>2, <1>1 DEF Material, Duplicate
        <5>2. CASE extent' = extent BY <5>2, <3>1, <3>3
        <5>3. CASE extent'[f] = Len(tape) + 1
          <6>1. q \in 1..Len(tape) BY <1>2
          <6> QED BY <5>3, <6>1, <4>2, <1>2
        <5> QED BY <5>1, <5>2, <5>3
      <4> QED BY <4>1, <4>2
    <3> QED BY <3>1, <3>2, <3>3
  <2> QED BY <2>1, <2>2, <1>1, <1>7 DEF IndexesInv
<1> QED
  BY <1>4, <1>8, <1>12, <1>13, <1>14, <1>15, <1>16, <1>17, <1>18, <1>19
  DEF IInv

-----------------------------------------------------------------------------
\* The specification.

LEMMA InitHolds == Init => IInv
<1> SUFFICES ASSUME Init PROVE IInv OBVIOUS
<1> USE DEF Init, ProviderInit, RingInit
<1>1. /\ Last \in Nat \ {0} /\ File = 1..Last /\ Capacity \in Nat \ {0}
      /\ \A f \in File : Length[f] \in Nat
      /\ TapeBlocks \in Nat
  BY ConstFacts, WriteAssumption
<1>2. /\ << >> \in Seq(File) /\ << >> \in Seq(Byte)
      /\ << >> \in Seq([bytes : Seq(Byte), lists : SUBSET File])
      /\ DOMAIN << >> = {} /\ Len(<< >>) = 0
  BY EmptySeq
<1>3. ProviderTypeOK
  <2>1. buffer \in [Index -> Byte \cup {<< >>}] OBVIOUS
  <2>2. /\ completed \in BOOLEAN /\ disposed \in BOOLEAN
        /\ cancelled \in BOOLEAN
    OBVIOUS
  <2>3. /\ head = 0 /\ tail = 0 /\ current = 0 /\ offset = 0 /\ filled = 0
        /\ producer = "next" /\ opened = {} /\ preloader = "start"
        /\ at = 0 /\ version = 0 /\ cache = {} /\ queue = << >>
    OBVIOUS
  <2> HIDE DEF Init, ProviderInit, RingInit
  <2> QED BY <2>1, <2>2, <2>3, <1>1, <1>2 DEF ProviderTypeOK
<1>4. uses \in [File -> Int]
  <2>1. ASSUME NEW f \in File
        PROVE Cardinality({g \in File : Duplicate(g) /\ Canonical(g) = f}) \in Int
    <3>1. IsFiniteSet(File) BY <1>1, FS_Interval
    <3>2. IsFiniteSet({g \in File : Duplicate(g) /\ Canonical(g) = f})
      BY <3>1, FS_Subset
    <3>3. Cardinality({g \in File : Duplicate(g) /\ Canonical(g) = f}) \in Nat
      BY <3>2, FS_CardinalityType
    <3> QED BY <3>3
  <2> QED BY <2>1
<1>5. extent \in [File -> Nat] /\ \A f \in File : extent[f] = 0 OBVIOUS
<1>6. TypeOK
  <2>1. stopFlag \in BOOLEAN OBVIOUS
  <2>2. /\ writer = "next" /\ index = 0 /\ left = 0 /\ block = << >>
        /\ segment = 0 /\ task = "none" /\ taskBlock = << >>
        /\ released = {} /\ finished = {} /\ committed = {}
        /\ tape = << >> /\ room = TapeBlocks /\ errors = 0 /\ accepted = {}
    OBVIOUS
  <2> HIDE DEF Init, ProviderInit, RingInit
  <2> QED BY <2>1, <2>2, <1>1, <1>2, <1>3, <1>4, <1>5 DEF TypeOK
<1>7. RingHolds
  <2> SUFFICES ASSUME NEW f \in File, NEW k \in 1..Length[f],
                      Start[f] + k - 1 < 0
               PROVE  FALSE
    BY DEF RingHolds
  <2>1. Start[f] \in Nat /\ k \in Nat /\ k >= 1
    BY <1>1, StartFacts
  <2> QED BY <2>1
<1>8. ProducerInv BY <1>1 DEF ProducerInv, InCopy
<1>9. CompletionInv BY DEF CompletionInv
<1>10. FileInv BY DEF FileInv, Reading
<1>11. ReadInv BY StartFacts DEF ReadInv
<1>12. StopInv BY DEF StopInv
<1>13. TaskInv BY DEF TaskInv, TaskRuns, Reading, Writing
<1>14. WholeInv BY DEF WholeInv
<1>15. ListInv
  <2>1. 1..0 = {} OBVIOUS
  <2> QED BY <2>1 DEF ListInv, Reading
<1>16. BlocksInv BY <1>2 DEF BlocksInv
<1>17. IndexesInv BY <1>2, <1>5 DEF IndexesInv
<1> HIDE DEF Init, ProviderInit, RingInit
<1> QED
  BY <1>6, <1>7, <1>8, <1>9, <1>10, <1>11, <1>12, <1>13, <1>14, <1>15, <1>16,
     <1>17 DEF IInv

\* The writer's own variables are all a step of nobody leaves.
LEMMA StutterKeeps == ASSUME IInv, UNCHANGED vars PROVE IInv'
<1> USE DEF vars, writeVars, fileVars, taskVars, planVars, indexVars, tapeVars
<1>1. /\ ProviderTypeOK' /\ RingHolds' /\ ProducerInv' /\ CompletionInv'
      /\ head' = head /\ tail' = tail /\ cancelled' = cancelled
      /\ disposed' = disposed /\ producer' = producer
  BY ProviderStays
<1>2. TypeOK' BY <1>1 DEF IInv, TypeOK
<1>3. FileInv' BY <1>1 DEF IInv, FileInv
<1>4. ReadInv' BY <1>1 DEF IInv, ReadInv, Aligned, Dead
<1>5. StopInv' BY <1>1 DEF IInv, StopInv
<1>6. TaskInv' BY DEF IInv, TaskInv, TaskRuns, Handed, Placed, Excused
<1>7. WholeInv' BY DEF IInv, WholeInv, Whole, OnTape
<1>8. ListInv' /\ BlocksInv' /\ IndexesInv'
  BY DEF IInv, ListInv, BlocksInv, IndexesInv
<1> QED BY <1>1, <1>2, <1>3, <1>4, <1>5, <1>6, <1>7, <1>8 DEF IInv

LEMMA StepHolds == IInv /\ [Next]_vars => IInv'
<1> SUFFICES ASSUME IInv, [Next]_vars PROVE IInv' OBVIOUS
<1>1. CASE Provider /\ UNCHANGED writeVars BY <1>1, ProviderStep
<1>2. CASE Writer
  BY <1>2, BeginFileKeeps, EndOfListKeeps, AwaitOpenedKeeps, AskProducerKeeps,
     ReadSomeKeeps, FetchSegmentKeeps, ReadFailsKeeps, DrainSomeKeeps,
     DrainEndsKeeps, WriteBlockKeeps, HandOverKeeps, JoinTaskKeeps,
     FinishFileKeeps, CheckpointKeeps, NoCheckpointKeeps, CommitAllKeeps,
     CleanUpKeeps, EndKeeps
  DEF Writer
<1>3. CASE WriteTask
  BY <1>3, TaskWritesKeeps, TaskOverflowsKeeps, TaskClosesKeeps DEF WriteTask
<1>4. CASE User
  BY <1>4, UserStopsKeeps, RetryReadKeeps, AbortReadKeeps, AnswerWriteKeeps,
     AnswerTaskKeeps
  DEF User
<1>5. CASE UNCHANGED vars BY <1>5, StutterKeeps
<1> QED BY <1>1, <1>2, <1>3, <1>4, <1>5 DEF Next

LEMMA Invariance == Spec => []IInv
BY InitHolds, StepHolds, PTL DEF Spec

\* What is proved of the write command holds in every reachable state.

(* The variables keep their types; what the ring holds fits into it, and    *)
(* every block of the tape is a sequence of bytes.                          *)
THEOREM TypeCorrect == Spec => []TypeOK
<1>1. IInv => TypeOK BY DEF IInv
<1> QED BY <1>1, Invariance, PTL

(* Between head and tail the ring holds the bytes of the listed files, in   *)
(* order and without a gap, through every wrap: what GetReadSegment gives   *)
(* the writer is what its file has at that place.                           *)
THEOREM RingHoldsTheFiles == Spec => []RingHolds
<1>1. IInv => RingHolds BY DEF IInv
<1> QED BY <1>1, Invariance, PTL

(* Every data block on the tape is a whole block of one file, at the place  *)
(* the file's extent gives it, whatever was stopped, failed or cut: only    *)
(* past a block the user chose to go on without are the places off.         *)
THEOREM BlocksStayInPlace == Spec => []BlocksInPlace
<1>1. ASSUME IInv PROVE BlocksInPlace
  <2>1. 1..index \subseteq File
    BY <1>1, ConstFacts DEF IInv, TypeOK
  <2> QED BY <1>1, <2>1 DEF IInv, BlocksInv, BlocksInPlace
<1> QED BY <1>1, Invariance, PTL

(* A file the writer has marked as written is whole on the tape, unless the *)
(* user went on without a block or it is the one file a stop fell in.       *)
THEOREM OnlyAStopCuts == Spec => []CutOnlyByStop
<1>1. ASSUME IInv PROVE CutOnlyByStop
  BY <1>1 DEF IInv, WholeInv, Whole, CutOnlyByStop
<1> QED BY <1>1, Invariance, PTL

(* An index on the tape lists the files from the first to one of the list,  *)
(* and every block before it belongs to one of these.                       *)
THEOREM IndexesComplete == Spec => []CheckpointsComplete
<1>1. ASSUME IInv PROVE CheckpointsComplete
  <2> SUFFICES ASSUME NEW q \in DOMAIN tape, tape[q].bytes = << >>,
                      NEW f \in File
               PROVE  \/ f \in tape[q].lists
                      \/ /\ \A g \in tape[q].lists : g < f
                         /\ Material(f) => extent[f] \notin 1..(q - 1)
    BY DEF CheckpointsComplete
  <2>1. PICK n \in 0..index :
          /\ tape[q].lists = 1..n
          /\ \A g \in File : g > n /\ Material(g) =>
               extent[g] = 0 \/ extent[g] > q
    BY <1>1 DEF IInv, IndexesInv
  <2>2. n \in Nat /\ f \in Nat /\ f >= 1 /\ extent[f] \in Nat /\ q \in Nat
    <3>1. DOMAIN tape = 1..Len(tape) /\ Len(tape) \in Nat
      BY <1>1, LenProperties DEF IInv, TypeOK
    <3>2. index \in 0..Last BY <1>1 DEF IInv, TypeOK
    <3>3. extent \in [File -> Nat] BY <1>1 DEF IInv, TypeOK
    <3>4. Last \in Nat /\ File = 1..Last BY ConstFacts
    <3>5. n \in Nat /\ q \in Nat BY <3>1, <3>2, <3>4
    <3> QED BY <3>3, <3>4, <3>5
  <2>3. CASE f <= n BY <2>1, <2>2, <2>3
  <2>4. CASE f > n
    <3>1. \A g \in tape[q].lists : g < f BY <2>1, <2>2, <2>4
    <3>2. Material(f) => extent[f] = 0 \/ extent[f] > q BY <2>1, <2>4
    <3>3. Material(f) => extent[f] \notin 1..(q - 1) BY <3>2, <2>2
    <3> QED BY <3>1, <3>3
  <2> QED BY <2>2, <2>3, <2>4
<1> QED BY <1>1, Invariance, PTL
=============================================================================
