------------------------------ MODULE SpscRing ------------------------------
(***************************************************************************)
(* SpscRingBuffer: the byte ring between the managed file provider, which  *)
(* alone writes, and the tape writer, which alone reads.                   *)
(*                                                                         *)
(* There is no lock: each side advances its own position and reads the     *)
(* other's.  A wait looks at its condition again every 50 ms whatever      *)
(* happens to the events, so a wait is a guard of the step it delays.      *)
(***************************************************************************)
EXTENDS Integers, Sequences

CONSTANTS
  Capacity     \* bytes of the ring: _capacity, a power of two in the code

ASSUME CapacityAssumption == Capacity \in Nat \ {0}

VARIABLES
  buffer,      \* the array: a byte at every index
  head,        \* _headPos: bytes the reader has consumed
  tail,        \* _tailPos: bytes the writer has committed
  completed,   \* _completed: no more bytes will come
  disposed     \* _disposed

ringVars == <<buffer, head, tail, completed, disposed>>

Index == 0..(Capacity - 1)

Smaller(a, b) == IF a <= b THEN a ELSE b

RingInit ==
  /\ buffer = [i \in Index |-> << >>]
  /\ head = 0
  /\ tail = 0
  /\ completed = FALSE
  /\ disposed = FALSE

AvailableToRead == tail - head

AvailableToWrite_OneTooMany == Capacity - (tail - head) + 1

AvailableToWrite == Capacity - (tail - head)

\* The part of n bytes from a position on that lies before the wrap.
Contiguous(n, position) == Smaller(n, Capacity - (position % Capacity))

\* What GetWriteSegment and GetReadSegment return once their wait is over.
WriteSegment == Contiguous(AvailableToWrite, tail)
ReadSegment == Contiguous(AvailableToRead, head)

\* The writer's copy into its segment; AdvanceWrite makes it visible.
Store(bytes) ==
  buffer' = [i \in Index |->
               LET k == i - (tail % Capacity) + 1
               IN  IF k \in DOMAIN bytes THEN bytes[k] ELSE buffer[i]]

\* The reader's copy out of its segment, before AdvanceRead.
Fetch(n) == [k \in 1..n |-> buffer[(head + k - 1) % Capacity]]

\* GetReadSegment has nothing to give and never will.
Drained == completed /\ AvailableToRead = 0
=============================================================================
