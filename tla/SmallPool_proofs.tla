-------------------------- MODULE SmallPool_proofs --------------------------
(***************************************************************************)
(* What is proved of SmallPool for every catalogue, set of buffer classes, *)
(* budget, limit and number of workers.                                    *)
(*                                                                         *)
(* The budget argument: files read ahead keep reserved_bytes within        *)
(* Budget - DemandReserve, and only the file the consumer is at may exceed *)
(* that, by its own capacity.  So the reservation is bounded by            *)
(* Budget - DemandReserve + OwnReserve, where OwnReserve is the capacity   *)
(* of the demanded file while it holds a buffer and 0 otherwise.  That the *)
(* exception is made for the demanded file only needs the queues: a live   *)
(* item with priority names it (PriorityIsDemand), and this is stable      *)
(* because generations are never reused (ItemsOld).                        *)
(***************************************************************************)
EXTENDS SmallPool, SmallPoolIo, SequenceTheorems, WellFoundedInduction,
        TLAPS

Held(f) ==
  retained[f] \/ status[f] \in {"opening", "inflight", "ready", "borrowed"}

OwnReserve ==
  IF consumer # "prefetch" /\ demand \in Files /\ Held(demand)
  THEN Cap(demand) ELSE 0

(* The reservations made for files other than the demanded one.            *)
AheadWithinLimit == reserved_bytes <= (Budget - DemandReserve) + OwnReserve

Queued(c) == 1..Len(queues[c])

ItemsOld ==
  \A c \in Classes : \A k \in Queued(c) :
    queues[c][k].generation < next_generation

PriorityIsDemand ==
  \A c \in Classes : \A k \in Queued(c) :
    queues[c][k].priority /\ Live(queues[c][k])
      => consumer # "prefetch" /\ queues[c][k].index = demand

AttemptsLeft ==
  /\ \A f \in Files : status[f] = "pending" => attempts[f] <= MaxRetries
  /\ consumer = "backoff" => tries <= MaxRetries

DemandIsFile == consumer \in {"wait", "backoff", "hold"} => demand \in Files

IInv == /\ TypeOK /\ ItemsOld /\ PriorityIsDemand
        /\ AheadWithinLimit
        /\ AttemptsLeft /\ AttemptsBounded /\ DemandIsFile

-----------------------------------------------------------------------------
(* Facts about the constants and the operators.                            *)

LEMMA ConstFacts ==
  /\ Len(Capacity) \in Nat /\ Len(ClassOf) \in Nat
  /\ \A f \in Files : /\ f \in Nat /\ ClassOf[f] \in Classes
                      /\ Cap(f) \in Nat /\ Cap(f) <= DemandReserve
  /\ DemandReserve \in Nat /\ Budget \in Nat /\ DemandReserve <= Budget
  /\ ActiveLimit \in Nat \ {0} /\ MaxRetries \in Nat
<1>1. Len(Capacity) \in Nat /\ Len(ClassOf) \in Nat
  BY PoolAssumption, LenProperties
<1>2. \A f \in Files : f \in Nat /\ ClassOf[f] \in Classes
  BY PoolAssumption, LenProperties DEF Files, Classes
<1>3. \A c \in Classes : Capacity[c] \in Nat
  BY PoolAssumption, LenProperties DEF Classes
<1> QED BY <1>1, <1>2, <1>3, PoolAssumption DEF Cap, Files

(* A non-empty set of naturals has a least element.                        *)
LEMMA LeastExists ==
  ASSUME NEW T \in SUBSET Nat, T # {}
  PROVE  \E x \in T : \A y \in T : x <= y
<1> DEFINE R == OpToRel(<, Nat)
<1>1. IsWellFoundedOn(R, Nat) BY NatLessThanWellFounded
<1>2. \E x \in T : \A y \in T : <<y, x>> \notin R
  <2> HIDE DEF R
  <2> QED BY <1>1, WFMin
<1>3. \A x, y \in T : <<y, x>> \notin R => x <= y
  BY DEF OpToRel
<1> QED BY <1>2, <1>3

From(s, q) == \A k \in 1..Len(s) : \E l \in 1..Len(q) : s[k] = q[l]

(* Cleaning a queue leaves a suffix of it that starts with a live item.    *)
LEMMA CleanedFacts ==
  ASSUME NEW q \in Seq(Item)
  PROVE  /\ Cleaned(q) \in Seq(Item)
         /\ From(Cleaned(q), q)
         /\ Cleaned(q) # <<>> => Live(Cleaned(q)[1]) /\ Cleaned(q)[1] \in Item
<1>1. CASE LiveAt(q) = {}
  <2>1. Cleaned(q) = <<>> BY <1>1 DEF Cleaned
  <2> QED BY <2>1, EmptySeq DEF From
<1>2. CASE LiveAt(q) # {}
  <2> DEFINE m == CHOOSE k \in LiveAt(q) : \A l \in LiveAt(q) : k <= l
             s == SubSeq(q, m, Len(q))
  <2>1. Len(q) \in Nat BY LenProperties
  <2>2. LiveAt(q) \subseteq Nat BY <2>1 DEF LiveAt
  <2>3. m \in LiveAt(q) BY <1>2, <2>2, LeastExists
  <2>4. m \in 1..Len(q) /\ Live(q[m]) BY <2>3 DEF LiveAt
  <2>5. Cleaned(q) = s BY <1>2 DEF Cleaned
  <2> HIDE DEF m
  <2>6. \A i \in m..Len(q) : q[i] \in Item BY <2>1, <2>4, ElementOfSeq
  <2>7. /\ s \in Seq(Item) /\ Len(s) = Len(q) - m + 1
        /\ \A i \in 1..Len(q) - m + 1 : s[i] = q[m + i - 1]
    <3>1. m \in Int /\ Len(q) \in Int /\ m <= Len(q) BY <2>1, <2>4
    <3> QED BY <3>1, <2>6, SubSeqProperties
  <2>8. s[1] = q[m] BY <2>1, <2>4, <2>7
  <2>9. From(s, q)
    <3> SUFFICES ASSUME NEW k \in 1..Len(s)
                 PROVE  \E l \in 1..Len(q) : s[k] = q[l]
      BY DEF From
    <3>1. s[k] = q[m + k - 1] /\ m + k - 1 \in 1..Len(q)
      BY <2>1, <2>4, <2>7
    <3> QED BY <3>1
  <2> HIDE DEF s
  <2> QED BY <2>4, <2>5, <2>6, <2>7, <2>8, <2>9, <2>1
<1> QED BY <1>1, <1>2

LEMMA TailFacts ==
  ASSUME NEW q \in Seq(Item), NEW s \in Seq(Item), From(s, q), s # <<>>
  PROVE  Tail(s) \in Seq(Item) /\ From(Tail(s), q)
<1>1. /\ Tail(s) \in Seq(Item) /\ Len(Tail(s)) = Len(s) - 1
      /\ \A i \in 1..Len(Tail(s)) : Tail(s)[i] = s[i + 1]
  BY HeadTailProperties
<1>2. Len(s) \in Nat BY LenProperties
<1> QED BY <1>1, <1>2 DEF From

(* What a candidate is: a live item of some queue that fits the budget.    *)
LEMMA CandidateFacts ==
  ASSUME TypeOK, NEW item \in Candidates
  PROVE  /\ item \in Item /\ Live(item) /\ Fits(item)
         /\ \E c \in Classes : /\ Cleaned(queues[c]) # <<>>
                               /\ item = Cleaned(queues[c])[1]
                               /\ \E k \in Queued(c) : item = queues[c][k]
<1>1. PICK c \in Classes : /\ Cleaned(queues[c]) # <<>>
                           /\ item = Cleaned(queues[c])[1]
                           /\ Fits(item)
  BY DEF Candidates
<1>2. queues[c] \in Seq(Item) BY DEF TypeOK
<1>3. Cleaned(queues[c]) \in Seq(Item) /\ From(Cleaned(queues[c]), queues[c])
      /\ Live(item) /\ item \in Item
  BY <1>1, <1>2, CleanedFacts
<1>4. Len(Cleaned(queues[c])) \in Nat \ {0} BY <1>1, <1>3, EmptySeq
<1>5. \E k \in Queued(c) : item = queues[c][k]
  BY <1>1, <1>3, <1>4 DEF From, Queued
<1> QED BY <1>1, <1>3, <1>5

-----------------------------------------------------------------------------
(* How the queue invariants survive.                                       *)

QueueTypes == queues \in [Classes -> Seq(Item)] /\ next_generation \in Nat

QueueInv == QueueTypes /\ ItemsOld /\ PriorityIsDemand

(* Queues that only lose items keep the invariants, as long as no file     *)
(* becomes pending and a demanded file is left only when it is not pending.*)
LEMMA QueuesShrink ==
  ASSUME TypeOK, QueueInv,
         queues' \in [Classes -> Seq(Item)],
         \A c \in Classes : From(queues'[c], queues[c]),
         UNCHANGED <<generation, next_generation>>,
         \A f \in Files : status'[f] = "pending" =>
           /\ status[f] = "pending"
           /\ f = demand /\ consumer # "prefetch"
                => demand' = demand /\ consumer' # "prefetch"
  PROVE  QueueInv'
<1>1. QueueTypes' BY DEF QueueInv, QueueTypes
<1>2. ASSUME NEW c \in Classes, NEW k \in Queued(c)'
      PROVE  \E l \in Queued(c) : queues'[c][k] = queues[c][l]
  BY <1>2 DEF Queued, From
<1>3. ItemsOld' BY <1>2 DEF ItemsOld, QueueInv
<1>4. ASSUME NEW c \in Classes, NEW k \in Queued(c)',
             queues'[c][k].priority, Live(queues[c][k])'
      PROVE  consumer' # "prefetch" /\ queues'[c][k].index = demand'
  <2>1. PICK l \in Queued(c) : queues'[c][k] = queues[c][l] BY <1>2
  <2>2. queues[c] \in Seq(Item) BY DEF QueueInv, QueueTypes
  <2>3. queues[c][l] \in Item BY <2>2, ElementOfSeq DEF Queued
  <2>4. queues[c][l].index \in Files BY <2>3 DEF Item
  <2>5. status'[queues[c][l].index] = "pending"
        /\ generation[queues[c][l].index] = queues[c][l].generation
    BY <1>4, <2>1 DEF Live
  <2>6. Live(queues[c][l]) BY <2>4, <2>5 DEF Live
  <2>7. consumer # "prefetch" /\ queues[c][l].index = demand
    BY <1>4, <2>1, <2>6 DEF QueueInv, PriorityIsDemand
  <2> QED BY <2>1, <2>4, <2>5, <2>7
<1>5. PriorityIsDemand' BY <1>4 DEF PriorityIsDemand
<1> QED BY <1>1, <1>3, <1>5 DEF QueueInv

(* So do queues that gain the latest item of f.                            *)
LEMMA QueueGrows ==
  ASSUME TypeOK, QueueInv, NEW f \in Files, NEW priority \in BOOLEAN,
         EnqueueIndex(f, priority),
         priority => consumer' # "prefetch" /\ demand' = f,
         \A g \in Files \ {f} : status'[g] = "pending" =>
           /\ status[g] = "pending"
           /\ g = demand /\ consumer # "prefetch"
                => demand' = demand /\ consumer' # "prefetch"
  PROVE  QueueInv' /\ generation' \in [Files -> Nat]
<1> DEFINE item == QueueItem(f, priority)
           d == ClassOf[f]
<1>1. next_generation \in Nat /\ next_generation' = next_generation + 1
      /\ generation' = [generation EXCEPT ![f] = next_generation]
      /\ generation \in [Files -> Nat]
  BY DEF EnqueueIndex, QueueInv, QueueTypes, TypeOK
<1>2. item \in Item /\ item.generation = next_generation /\ item.index = f
      /\ item.priority = priority
  BY <1>1 DEF QueueItem, Item
<1>3. d \in Classes /\ queues \in [Classes -> Seq(Item)]
  BY ConstFacts DEF QueueInv, QueueTypes
<1>4. queues[d] \in Seq(Item) BY <1>3
<1>5. \A c \in Classes : c # d => queues'[c] = queues[c]
  BY <1>3 DEF EnqueueIndex
<1>6. /\ queues'[d] \in Seq(Item)
      /\ \A k \in 1..Len(queues'[d]) :
           queues'[d][k] = item \/ \E l \in 1..Len(queues[d]) :
                                     queues'[d][k] = queues[d][l]
  <2>0. Len(queues[d]) \in Nat BY <1>4, LenProperties
  <2>1. CASE priority
    <3>1. queues'[d] = <<item>> \o queues[d] BY <2>1, <1>3 DEF EnqueueIndex
    <3>2. <<item>> \in Seq(Item) /\ Len(<<item>>) = 1 /\ <<item>>[1] = item
      BY <1>2
    <3> HIDE DEF item
    <3>3. /\ queues'[d] \in Seq(Item)
          /\ Len(queues'[d]) = 1 + Len(queues[d])
          /\ \A k \in 1..1 + Len(queues[d]) :
               queues'[d][k] = IF k <= 1 THEN <<item>>[k]
                               ELSE queues[d][k - 1]
      BY <3>1, <3>2, <1>4, ConcatProperties
    <3>4. ASSUME NEW k \in 1..Len(queues'[d])
          PROVE  queues'[d][k] = item \/ \E l \in 1..Len(queues[d]) :
                                           queues'[d][k] = queues[d][l]
      <4>1. CASE k = 1 BY <4>1, <3>2, <3>3
      <4>2. CASE k # 1
        <5>1. k - 1 \in 1..Len(queues[d]) /\ queues'[d][k] = queues[d][k - 1]
          BY <4>2, <3>3, <2>0
        <5> QED BY <5>1
      <4> QED BY <4>1, <4>2
    <3> QED BY <3>3, <3>4
  <2>2. CASE ~priority
    <3>1. queues'[d] = Append(queues[d], item)
      BY <2>2, <1>3 DEF EnqueueIndex
    <3> HIDE DEF item
    <3>2. /\ queues'[d] \in Seq(Item)
          /\ Len(queues'[d]) = Len(queues[d]) + 1
          /\ \A k \in 1..Len(queues[d]) : queues'[d][k] = queues[d][k]
          /\ queues'[d][Len(queues[d]) + 1] = item
      BY <3>1, <1>2, <1>4, AppendProperties
    <3> QED BY <3>2, <2>0
  <2> QED BY <2>1, <2>2
<1>7. queues' \in [Classes -> Seq(Item)]
  <2>1. \A c \in Classes : queues'[c] \in Seq(Item)
    BY <1>3, <1>5, <1>6
  <2>2. queues' = [c \in Classes |-> queues'[c]]
    BY <1>3 DEF EnqueueIndex
  <2> QED BY <2>1, <2>2
<1>8. ASSUME NEW c \in Classes, NEW k \in Queued(c)'
      PROVE  \/ queues'[c][k] = item
             \/ \E l \in Queued(c) : queues'[c][k] = queues[c][l]
  BY <1>5, <1>6, <1>8 DEF Queued
<1> HIDE DEF item, d
<1>9. ItemsOld'
  <2> SUFFICES ASSUME NEW c \in Classes, NEW k \in Queued(c)'
               PROVE  queues'[c][k].generation < next_generation'
    BY DEF ItemsOld
  <2>1. CASE queues'[c][k] = item BY <2>1, <1>1, <1>2
  <2>2. CASE \E l \in Queued(c) : queues'[c][k] = queues[c][l]
    <3>1. PICK l \in Queued(c) : queues'[c][k] = queues[c][l] BY <2>2
    <3>2. queues[c] \in Seq(Item) BY <1>3
    <3>3. queues[c][l] \in Item BY <3>2, ElementOfSeq DEF Queued
    <3>4. queues[c][l].generation < next_generation
      BY DEF QueueInv, ItemsOld
    <3>5. queues[c][l].generation \in Nat BY <3>3 DEF Item
    <3> QED BY <1>1, <3>1, <3>4, <3>5
  <2> QED BY <1>8, <2>1, <2>2
<1>10. PriorityIsDemand'
  <2> SUFFICES ASSUME NEW c \in Classes, NEW k \in Queued(c)',
                      queues'[c][k].priority, Live(queues[c][k])'
               PROVE  consumer' # "prefetch" /\ queues'[c][k].index = demand'
    BY DEF PriorityIsDemand
  <2>1. CASE queues'[c][k] = item BY <2>1, <1>2
  <2>2. CASE \E l \in Queued(c) : queues'[c][k] = queues[c][l]
    <3>1. PICK l \in Queued(c) : queues'[c][k] = queues[c][l] BY <2>2
    <3>2. queues[c] \in Seq(Item) BY <1>3
    <3>3. queues[c][l] \in Item BY <3>2, ElementOfSeq DEF Queued
    <3>4. queues[c][l].generation < next_generation
      BY DEF QueueInv, ItemsOld
    <3>5. queues[c][l].index \in Files /\ queues[c][l].generation \in Nat
      BY <3>3 DEF Item
    <3>6. /\ status'[queues[c][l].index] = "pending"
          /\ generation'[queues[c][l].index] = queues[c][l].generation
      BY <3>1 DEF Live
    <3>7. queues[c][l].index # f BY <1>1, <3>4, <3>5, <3>6
    <3>8. Live(queues[c][l]) BY <1>1, <3>5, <3>6, <3>7 DEF Live
    <3>9. consumer # "prefetch" /\ queues[c][l].index = demand
      BY <3>1, <3>8 DEF QueueInv, PriorityIsDemand
    <3> QED BY <3>1, <3>5, <3>6, <3>7, <3>9
  <2> QED BY <1>8, <2>1, <2>2
<1> QED BY <1>1, <1>7, <1>9, <1>10 DEF QueueInv, QueueTypes

LEMMA FromItself == \A q : From(q, q) BY DEF From

(* The common case: queues and generations are left alone.                 *)
LEMMA QueuesKept ==
  ASSUME TypeOK, QueueInv, UNCHANGED <<queueVars, generation>>,
         \A f \in Files : status'[f] = "pending" =>
           /\ status[f] = "pending"
           /\ f = demand /\ consumer # "prefetch"
                => demand' = demand /\ consumer' # "prefetch"
  PROVE  QueueInv'
<1>1. queues' = queues /\ next_generation' = next_generation BY DEF queueVars
<1>2. queues' \in [Classes -> Seq(Item)] BY <1>1 DEF QueueInv, QueueTypes
<1>3. \A c \in Classes : From(queues'[c], queues[c]) BY <1>1, FromItself
<1> QED BY <1>1, <1>2, <1>3, QueuesShrink

-----------------------------------------------------------------------------
(* The steps of the open workers and of the completion thread.             *)

Counted == /\ AheadWithinLimit /\ AttemptsLeft /\ AttemptsBounded
           /\ DemandIsFile

LEMMA Parts == IInv <=> TypeOK /\ QueueInv /\ Counted
BY DEF IInv, QueueInv, QueueTypes, TypeOK, Counted

LEMMA SatFacts ==
  ASSUME NEW a \in Nat, NEW b \in Nat
  PROVE  /\ Saturating(a, b) \in Nat /\ Saturating(a, b) <= a
         /\ \A x \in Nat : a <= x + b => Saturating(a, b) <= x
BY DEF Saturating

LEMMA LessReserved ==
  ASSUME NEW a \in Nat, NEW b \in Nat, NEW d \in Int,
         NEW x \in Nat, NEW y \in Nat, a <= d + x, b <= a, x <= y
  PROVE  b <= d + y
OBVIOUS

(* A step that changes only the status of file f, not to pending, keeps    *)
(* f's hold on its buffer, and does not reserve more.                      *)
LEMMA StatusStep ==
  ASSUME IInv, NEW f \in Files, NEW s \in Statuses \ {"pending"},
         status' = [status EXCEPT ![f] = s],
         retained' \in [Files -> BOOLEAN],
         \A g \in Files : Held(g) => Held(g)',
         reserved_bytes' \in Nat, reserved_bytes' <= reserved_bytes,
         active_files' \in 0..ActiveLimit,
         worker' \in [Workers -> Files \union {NoFile, Exited}],
         asleep' \subseteq Workers,
         UNCHANGED <<queueVars, attempts, generation, PoolSide>>
  PROVE  IInv'
<1>1. TypeOK /\ QueueInv /\ Counted BY Parts
<1>2. status' \in [Files -> Statuses] BY <1>1 DEF TypeOK
<1>3. TypeOK'
  BY <1>1, <1>2 DEF TypeOK, queueVars, PoolSide, consumerVars
<1>4. \A g \in Files : status'[g] = "pending" => status[g] = "pending"
  BY <1>1 DEF TypeOK
<1>5. QueueInv'
  BY <1>1, <1>4, QueuesKept DEF PoolSide, consumerVars
<1>6. AheadWithinLimit'
  <2>1. consumer' = consumer /\ demand' = demand
    BY DEF PoolSide, consumerVars
  <2>2. OwnReserve \in Nat /\ OwnReserve' \in Nat /\ OwnReserve <= OwnReserve'
    BY <2>1, ConstFacts DEF OwnReserve
  <2>3. reserved_bytes \in Nat /\ Budget - DemandReserve \in Int
    BY <1>1, ConstFacts DEF TypeOK
  <2>4. reserved_bytes <= (Budget - DemandReserve) + OwnReserve
    BY <1>1 DEF Counted, AheadWithinLimit
  <2>5. reserved_bytes' <= (Budget - DemandReserve) + OwnReserve'
    BY <2>2, <2>3, <2>4, LessReserved
  <2> QED BY <2>5 DEF AheadWithinLimit
<1>7. AttemptsLeft' /\ AttemptsBounded' /\ DemandIsFile'
  BY <1>1, <1>4
  DEF Counted, AttemptsLeft, AttemptsBounded, DemandIsFile, PoolSide,
      consumerVars
<1> QED BY <1>3, <1>5, <1>6, <1>7 DEF IInv, QueueInv

LEMMA SmallFailureStep ==
  ASSUME IInv, NEW f \in Files, SmallFailure(f),
         worker' \in [Workers -> Files \union {NoFile, Exited}],
         UNCHANGED PoolSide
  PROVE  IInv'
<1>1. TypeOK /\ reserved_bytes \in Nat /\ Cap(f) \in Nat
  BY ConstFacts DEF IInv, TypeOK
<1>2. /\ asleep' = {} /\ active_files' = Saturating(active_files, 1)
      /\ UNCHANGED <<queueVars, attempts, generation>>
  BY DEF SmallFailure, Wake
<1>3. active_files' \in 0..ActiveLimit
  BY <1>1, <1>2, ConstFacts DEF TypeOK, Saturating
<1>4. CASE status[f] # "absent"
  <2>1. PICK s \in {"failed", "broken"} : status' = [status EXCEPT ![f] = s]
    BY <1>4 DEF SmallFailure
  <2>2. s \in Statuses \ {"pending"} BY DEF Statuses
  <2>3. /\ retained' = [retained EXCEPT ![f] = TRUE]
        /\ reserved_bytes' = reserved_bytes
    BY <1>4 DEF SmallFailure
  <2>4. retained' \in [Files -> BOOLEAN] BY <1>1, <2>3 DEF TypeOK
  <2>5. \A g \in Files : Held(g) => Held(g)'
    BY <1>1, <2>1, <2>3 DEF Held, TypeOK
  <2>6. reserved_bytes' \in Nat /\ reserved_bytes' <= reserved_bytes
    BY <1>1, <2>3
  <2>7. asleep' \subseteq Workers BY <1>2
  <2> QED
    BY <1>2, <1>3, <2>1, <2>2, <2>4, <2>5, <2>6, <2>7, StatusStep
<1>5. CASE status[f] = "absent"
  <2>1. /\ reserved_bytes' = Saturating(reserved_bytes, Cap(f))
        /\ status' = status /\ retained' = retained
    BY <1>5 DEF SmallFailure
  <2>2. status' = [status EXCEPT ![f] = "absent"]
    BY <1>1, <1>5, <2>1 DEF TypeOK
  <2>3. "absent" \in Statuses \ {"pending"} BY DEF Statuses
  <2>4. retained' \in [Files -> BOOLEAN] BY <1>1, <2>1 DEF TypeOK
  <2>5. \A g \in Files : Held(g) => Held(g)' BY <2>1 DEF Held
  <2>6. reserved_bytes' \in Nat /\ reserved_bytes' <= reserved_bytes
    BY <1>1, <2>1, SatFacts
  <2>7. asleep' \subseteq Workers BY <1>2
  <2> QED
    BY <1>2, <1>3, <2>2, <2>3, <2>4, <2>5, <2>6, <2>7, StatusStep
<1> QED BY <1>4, <1>5

LEMMA WorkerTakesStep ==
  ASSUME IInv, NEW w \in Workers, NEW item \in Candidates,
         WorkerTakes(w, item)
  PROVE  IInv'
<1> DEFINE f == item.index
<1>1. TypeOK /\ QueueInv /\ Counted BY Parts
<1>2. item \in Item /\ Live(item) /\ Fits(item) BY <1>1, CandidateFacts
<1>3. f \in Files /\ item.priority \in BOOLEAN BY <1>2 DEF Item
<1>4. status[f] = "pending" BY <1>2 DEF Live
<1> HIDE DEF f
<1>5. /\ status' = [status EXCEPT ![f] = "opening"]
      /\ attempts' = [attempts EXCEPT ![f] = @ + 1]
      /\ retained' = [retained EXCEPT ![f] = FALSE]
      /\ reserved_bytes' = IF retained[f] THEN reserved_bytes
                           ELSE reserved_bytes + Cap(f)
      /\ worker' = [worker EXCEPT ![w] = f]
      /\ active_files' = active_files + 1 /\ active_files < ActiveLimit
      /\ UNCHANGED <<generation, next_generation, asleep, PoolSide>>
      /\ queues' = [c \in Classes |->
                      IF c = ClassOf[f] THEN Tail(Cleaned(queues[c]))
                      ELSE Cleaned(queues[c])]
  BY <1>1, ConstFacts DEF WorkerTakes, AllActive, TypeOK, f
<1>6. /\ reserved_bytes \in Nat /\ Cap(f) \in Nat /\ Cap(f) <= DemandReserve
      /\ Budget \in Nat /\ DemandReserve \in Nat /\ DemandReserve <= Budget
  BY <1>1, <1>3, ConstFacts DEF TypeOK
<1>7. ASSUME NEW c \in Classes
      PROVE  queues'[c] \in Seq(Item) /\ From(queues'[c], queues[c])
  <2>1. queues[c] \in Seq(Item) BY <1>1 DEF TypeOK
  <2>2. Cleaned(queues[c]) \in Seq(Item) /\ From(Cleaned(queues[c]), queues[c])
    BY <2>1, CleanedFacts
  <2>3. CASE c = ClassOf[f] /\ Cleaned(queues[c]) # <<>>
    BY <2>1, <2>2, <2>3, <1>5, TailFacts
  <2>4. CASE c = ClassOf[f] /\ Cleaned(queues[c]) = <<>>
    <3>1. queues'[c] = <<>> BY <2>4, <1>5
    <3> QED BY <3>1, EmptySeq DEF From
  <2>5. CASE c # ClassOf[f] BY <2>2, <2>5, <1>5
  <2> QED BY <2>3, <2>4, <2>5
<1>8. queues' \in [Classes -> Seq(Item)]
  <2>1. queues' = [c \in Classes |-> queues'[c]] BY <1>5
  <2> QED BY <2>1, <1>7
<1>9. \A g \in Files : status'[g] = "pending" => status[g] = "pending"
  BY <1>1, <1>5 DEF TypeOK
<1>10. QueueInv'
  BY <1>1, <1>5, <1>7, <1>8, <1>9, QueuesShrink DEF PoolSide, consumerVars
<1>11. \A g \in Files : Held(g) => Held(g)'
  BY <1>1, <1>4, <1>5 DEF Held, TypeOK
<1>12. Held(f)' BY <1>1, <1>3, <1>5 DEF Held, TypeOK
<1>13. consumer' = consumer /\ demand' = demand
  BY <1>5 DEF PoolSide, consumerVars
<1>14. AheadWithinLimit'
  <2>1. OwnReserve \in Nat /\ OwnReserve' \in Nat /\ OwnReserve <= OwnReserve'
    BY <1>11, <1>13, ConstFacts DEF OwnReserve
  <2>2. reserved_bytes <= (Budget - DemandReserve) + OwnReserve
    BY <1>1 DEF Counted, AheadWithinLimit
  <2>3. CASE retained[f]
    <3>1. reserved_bytes' <= (Budget - DemandReserve) + OwnReserve'
      BY <1>5, <1>6, <2>1, <2>2, <2>3
    <3> QED BY <3>1 DEF AheadWithinLimit
  <2>4. CASE ~retained[f] /\ ~item.priority
    <3>1. reserved_bytes + Cap(f) <= Budget - DemandReserve
      BY <1>2, <2>4 DEF Fits, Limit, f
    <3>2. reserved_bytes' <= (Budget - DemandReserve) + OwnReserve'
      BY <1>5, <1>6, <2>1, <2>4, <3>1
    <3> QED BY <3>2 DEF AheadWithinLimit
  <2>5. CASE ~retained[f] /\ item.priority
    <3>1. PICK c \in Classes : \E k \in Queued(c) : item = queues[c][k]
      BY <1>1, CandidateFacts
    <3>2. consumer # "prefetch" /\ f = demand
      BY <3>1, <1>1, <1>2, <2>5 DEF QueueInv, PriorityIsDemand, f
    <3>3. ~Held(f) BY <1>4, <2>5 DEF Held
    <3>4. OwnReserve = 0 BY <3>2, <3>3 DEF OwnReserve
    <3>5. OwnReserve' = Cap(f)
      BY <1>3, <1>12, <1>13, <3>2 DEF OwnReserve
    <3>6. reserved_bytes' <= (Budget - DemandReserve) + OwnReserve'
      BY <1>5, <1>6, <2>2, <2>5, <3>4, <3>5
    <3> QED BY <3>6 DEF AheadWithinLimit
  <2> QED BY <1>3, <2>3, <2>4, <2>5
<1>15. AttemptsBounded'
  <2>1. attempts[f] <= MaxRetries BY <1>1, <1>3, <1>4 DEF Counted, AttemptsLeft
  <2> QED
    BY <1>1, <1>3, <1>5, <2>1, ConstFacts DEF Counted, AttemptsBounded, TypeOK
<1>16. AttemptsLeft'
  BY <1>1, <1>3, <1>5, <1>9
  DEF Counted, AttemptsLeft, TypeOK, PoolSide, consumerVars
<1>17. DemandIsFile'
  BY <1>1, <1>5 DEF Counted, DemandIsFile, PoolSide, consumerVars
<1>18. TypeOK'
  <2>1. status' \in [Files -> Statuses] BY <1>1, <1>5 DEF TypeOK, Statuses
  <2>2. attempts' \in [Files -> Nat] /\ retained' \in [Files -> BOOLEAN]
    BY <1>1, <1>3, <1>5 DEF TypeOK
  <2>3. active_files' \in 0..ActiveLimit BY <1>1, <1>5, ConstFacts DEF TypeOK
  <2>4. reserved_bytes' \in Nat BY <1>5, <1>6
  <2>5. worker' \in [Workers -> Files \union {NoFile, Exited}]
    BY <1>1, <1>3, <1>5 DEF TypeOK
  <2> QED
    BY <1>1, <1>5, <1>8, <2>1, <2>2, <2>3, <2>4, <2>5
    DEF TypeOK, PoolSide, consumerVars
<1> QED BY <1>10, <1>14, <1>15, <1>16, <1>17, <1>18 DEF IInv, QueueInv

LEMMA WorkerStep ==
  ASSUME IInv, NEW w \in Workers, Worker(w)
  PROVE  IInv'
<1>0. TypeOK /\ QueueInv /\ Counted BY Parts
<1>1. CASE WorkerExits(w)
  <2>1. TypeOK' BY <1>0, <1>1 DEF WorkerExits, TypeOK, entryVars, queueVars,
                                  countVars, PoolSide, consumerVars
  <2>2. QueueInv'
    BY <1>0, <1>1, QueuesKept
    DEF WorkerExits, entryVars, queueVars, PoolSide, consumerVars
  <2>3. Counted'
    BY <1>0, <1>1
    DEF WorkerExits, Counted, AheadWithinLimit, OwnReserve, Held, AttemptsLeft,
        AttemptsBounded, DemandIsFile, entryVars, countVars, PoolSide,
        consumerVars
  <2> QED BY <2>1, <2>2, <2>3, Parts DEF IInv, QueueInv, Counted
<1>2. CASE WorkerWaits(w)
  <2>0. /\ queues' = queues \/ queues' = [c \in Classes |-> Cleaned(queues[c])]
        /\ asleep' = asleep \union {w}
        /\ UNCHANGED <<entryVars, next_generation, countVars, worker, PoolSide>>
    BY <1>2 DEF WorkerWaits
  <2>1. \A c \in Classes : queues'[c] \in Seq(Item)
                           /\ From(queues'[c], queues[c])
    <3>1. CASE queues' = queues BY <3>1, <1>0, FromItself DEF TypeOK
    <3>2. CASE queues' = [c \in Classes |-> Cleaned(queues[c])]
      BY <3>2, <1>0, CleanedFacts DEF TypeOK
    <3> QED BY <2>0, <3>1, <3>2
  <2>2. queues' \in [Classes -> Seq(Item)]
    <3>1. CASE queues' = queues BY <3>1, <1>0 DEF TypeOK
    <3>2. CASE queues' = [c \in Classes |-> Cleaned(queues[c])]
      BY <3>2, <2>1
    <3> QED BY <2>0, <3>1, <3>2
  <2>3. TypeOK'
    BY <1>0, <2>0, <2>2
    DEF TypeOK, entryVars, countVars, PoolSide, consumerVars
  <2>4. QueueInv'
    BY <1>0, <2>0, <2>1, <2>2, QueuesShrink
    DEF entryVars, PoolSide, consumerVars
  <2>5. Counted'
    BY <1>0, <2>0
    DEF Counted, AheadWithinLimit, OwnReserve, Held, AttemptsLeft,
        AttemptsBounded, DemandIsFile, entryVars, countVars, PoolSide,
        consumerVars
  <2> QED BY <2>3, <2>4, <2>5 DEF IInv, QueueInv, Counted
<1>3. CASE \E item \in Candidates : WorkerTakes(w, item)
  BY <1>3, WorkerTakesStep
<1>4. CASE OpenFails(w)
  <2>1. worker' \in [Workers -> Files \union {NoFile, Exited}]
    BY <1>0, <1>4 DEF OpenFails, TypeOK
  <2> QED BY <1>4, <2>1, SmallFailureStep DEF OpenFails
<1>5. CASE OpensEmpty(w) \/ Submits(w)
  <2> DEFINE f == worker[w]
  <2>0. f \in Files BY <1>5 DEF OpensEmpty, Submits
  <2>1. /\ \E s \in {"ready", "inflight"} : status' = [status EXCEPT ![f] = s]
        /\ worker' = [worker EXCEPT ![w] = NoFile]
        /\ retained' = retained /\ reserved_bytes' = reserved_bytes
        /\ active_files' = active_files
             \/ active_files' = Saturating(active_files, 1)
        /\ asleep' = asleep \/ asleep' = {}
        /\ UNCHANGED <<queueVars, attempts, generation, PoolSide>>
    BY <1>5 DEF OpensEmpty, Submits, countVars, Wake
  <2> HIDE DEF f
  <2>2. PICK s \in {"ready", "inflight"} : status' = [status EXCEPT ![f] = s]
    BY <2>1
  <2>3. s \in Statuses \ {"pending"} BY DEF Statuses
  <2>4. retained' \in [Files -> BOOLEAN] BY <1>0, <2>1 DEF TypeOK
  <2>5. \A g \in Files : Held(g) => Held(g)'
    BY <1>0, <2>1, <2>2 DEF Held, TypeOK
  <2>6. reserved_bytes' \in Nat /\ reserved_bytes' <= reserved_bytes
    BY <1>0, <2>1 DEF TypeOK
  <2>7. active_files' \in 0..ActiveLimit
    BY <1>0, <2>1, ConstFacts DEF TypeOK, Saturating
  <2>8. worker' \in [Workers -> Files \union {NoFile, Exited}]
    BY <1>0, <2>1 DEF TypeOK
  <2>9. asleep' \subseteq Workers BY <1>0, <2>1 DEF TypeOK
  <2> QED
    BY <2>0, <2>1, <2>2, <2>3, <2>4, <2>5, <2>6, <2>7, <2>8, <2>9, StatusStep
<1> QED BY <1>1, <1>2, <1>3, <1>4, <1>5 DEF Worker

LEMMA CompletesStep ==
  ASSUME IInv, NEW f \in Files, Completes(f)
  PROVE  IInv'
<1>0. TypeOK /\ QueueInv /\ Counted BY Parts
<1>1. worker' \in [Workers -> Files \union {NoFile, Exited}]
      /\ UNCHANGED PoolSide
  BY <1>0 DEF Completes, TypeOK
<1>2. CASE SmallFailure(f) BY <1>1, <1>2, SmallFailureStep
<1>3. CASE ~shutdown /\ ~SmallFailure(f)
  <2>1. /\ status' = [status EXCEPT ![f] = "ready"]
        /\ active_files' = Saturating(active_files, 1) /\ asleep' = {}
        /\ UNCHANGED <<queueVars, attempts, generation, retained,
                       reserved_bytes>>
    BY <1>3 DEF Completes, Wake
  <2>2. "ready" \in Statuses \ {"pending"} BY DEF Statuses
  <2>3. retained' \in [Files -> BOOLEAN] BY <1>0, <2>1 DEF TypeOK
  <2>4. \A g \in Files : Held(g) => Held(g)'
    BY <1>0, <2>1 DEF Held, TypeOK
  <2>5. reserved_bytes' \in Nat /\ reserved_bytes' <= reserved_bytes
        /\ active_files' \in 0..ActiveLimit
    BY <1>0, <2>1, ConstFacts DEF TypeOK, Saturating
  <2>6. asleep' \subseteq Workers BY <2>1
  <2> QED BY <1>1, <2>1, <2>2, <2>3, <2>4, <2>5, <2>6, StatusStep
<1>4. CASE shutdown
  <2>1. /\ status' = [status EXCEPT ![f] = "absent"]
        /\ active_files' = Saturating(active_files, 1)
        /\ reserved_bytes' = Saturating(reserved_bytes, Cap(f))
        /\ asleep' = {}
        /\ UNCHANGED <<queueVars, attempts, generation, retained>>
    BY <1>4 DEF Completes, Wake
  <2>2. consumer' = consumer /\ demand' = demand
    BY <1>1 DEF PoolSide, consumerVars
  <2>3. reserved_bytes \in Nat /\ Cap(f) \in Nat
    BY <1>0, ConstFacts DEF TypeOK
  <2>4. reserved_bytes' \in Nat /\ reserved_bytes' <= reserved_bytes
        /\ active_files' \in 0..ActiveLimit
    BY <1>0, <2>1, <2>3, SatFacts, ConstFacts DEF TypeOK, Saturating
  <2>5. \A g \in Files : status'[g] = "pending" => status[g] = "pending"
    BY <1>0, <2>1 DEF TypeOK
  <2>6. QueueInv' BY <1>0, <2>1, <2>2, <2>5, QueuesKept
  <2>7. TypeOK'
    <3>1. status' \in [Files -> Statuses] BY <1>0, <2>1 DEF TypeOK, Statuses
    <3> QED
      BY <1>0, <1>1, <2>1, <2>4, <3>1
      DEF TypeOK, queueVars, PoolSide, consumerVars
  <2>8. AheadWithinLimit'
    <3>0. Budget - DemandReserve \in Nat BY ConstFacts
    <3>1. reserved_bytes <= (Budget - DemandReserve) + OwnReserve
      BY <1>0 DEF Counted, AheadWithinLimit
    <3>2. OwnReserve \in Nat /\ OwnReserve' \in Nat
      BY <2>2, ConstFacts DEF OwnReserve
    <3>3. CASE OwnReserve <= OwnReserve'
      BY <2>3, <2>4, <3>0, <3>1, <3>2, <3>3, LessReserved DEF AheadWithinLimit
    <3>4. CASE OwnReserve # OwnReserve'
      <4>1. demand = f /\ OwnReserve <= Cap(f)
        BY <1>0, <2>1, <2>2, <3>4, ConstFacts
        DEF OwnReserve, Held, TypeOK
      <4>2. reserved_bytes <= (Budget - DemandReserve) + Cap(f)
        BY <2>3, <3>0, <3>1, <3>2, <4>1
      <4>3. reserved_bytes' <= Budget - DemandReserve
        BY <2>1, <2>3, <3>0, <4>2 DEF Saturating
      <4>4. reserved_bytes' <= (Budget - DemandReserve) + OwnReserve'
        BY <2>4, <3>0, <3>2, <4>3
      <4> QED BY <4>4 DEF AheadWithinLimit
    <3> QED BY <3>2, <3>3, <3>4
  <2>9. AttemptsLeft' /\ AttemptsBounded' /\ DemandIsFile'
    BY <1>0, <1>1, <2>1, <2>5
    DEF Counted, AttemptsLeft, AttemptsBounded, DemandIsFile, PoolSide,
        consumerVars
  <2> QED BY <2>6, <2>7, <2>8, <2>9 DEF IInv, QueueInv
<1> QED BY <1>2, <1>3, <1>4

-----------------------------------------------------------------------------
(* The steps of the consumer.                                              *)

(* Enqueueing changes no reservation: a pending file holds a buffer only   *)
(* if it is retained.                                                      *)
LEMMA EnqueueStep ==
  ASSUME IInv, NEW f \in Files, NEW priority \in BOOLEAN,
         Enqueue(f, priority),
         priority => consumer' # "prefetch" /\ demand' = f,
         consumer # "prefetch" => consumer' # "prefetch",
         consumer' = "prefetch" \/ demand' = demand,
         consumer' \in ConsumerStates, demand' \in 1..Len(ClassOf) + 1,
         consumer' \in {"prefetch", "wait"},
         consumer' = "wait" => demand' \in Files,
         tries' = tries, UNCHANGED ConsumerSide
  PROVE  IInv'
<1>0. TypeOK /\ QueueInv /\ Counted BY Parts
<1>1. CASE UNCHANGED <<entryVars, queueVars, asleep>>
  <2>1. TypeOK'
    BY <1>0, <1>1
    DEF TypeOK, entryVars, queueVars, ConsumerSide, countVars
  <2>2. QueueInv' BY <1>0, <1>1, QueuesKept DEF entryVars
  <2>3. OwnReserve <= OwnReserve' /\ OwnReserve \in Nat /\ OwnReserve' \in Nat
    BY <1>1, ConstFacts DEF OwnReserve, Held, entryVars
  <2>4. AheadWithinLimit'
    <3>0. Budget - DemandReserve \in Nat BY ConstFacts
    <3> QED
      BY <1>0, <1>1, <2>3, <3>0, LessReserved
      DEF Counted, AheadWithinLimit, TypeOK, ConsumerSide, countVars
  <2>5. AttemptsLeft' /\ AttemptsBounded' /\ DemandIsFile'
    BY <1>0, <1>1
    DEF Counted, AttemptsLeft, AttemptsBounded, DemandIsFile, entryVars
  <2> QED BY <2>1, <2>2, <2>4, <2>5 DEF IInv, QueueInv
<1>2. CASE /\ EnqueueIndex(f, priority)
           /\ status[f] \in {"absent", "pending"}
           /\ status' = [status EXCEPT ![f] = "pending"]
           /\ attempts' = [attempts EXCEPT ![f] =
                             IF status[f] = "absent" THEN 0 ELSE @]
           /\ UNCHANGED retained
           /\ Wake
  <2>1. \A g \in Files \ {f} : status'[g] = "pending" => status[g] = "pending"
    BY <1>0, <1>2 DEF TypeOK
  <2>2. QueueInv' /\ generation' \in [Files -> Nat]
    BY <1>0, <1>2, <2>1, QueueGrows
  <2>3. status' \in [Files -> Statuses] BY <1>0, <1>2 DEF TypeOK, Statuses
  <2>4. attempts' \in [Files -> Nat] BY <1>0, <1>2 DEF TypeOK
  <2>5. TypeOK'
    BY <1>0, <1>2, <2>2, <2>3, <2>4
    DEF TypeOK, QueueInv, QueueTypes, ConsumerSide, countVars, Wake
  <2>6. \A g \in Files : Held(g) <=> Held(g)'
    BY <1>0, <1>2 DEF Held, TypeOK
  <2>7. OwnReserve <= OwnReserve' /\ OwnReserve \in Nat /\ OwnReserve' \in Nat
    BY <2>6, ConstFacts DEF OwnReserve
  <2>8. AheadWithinLimit'
    <3>0. Budget - DemandReserve \in Nat BY ConstFacts
    <3> QED
      BY <1>0, <2>7, <3>0, LessReserved
      DEF Counted, AheadWithinLimit, TypeOK, ConsumerSide, countVars
  <2>9. AttemptsLeft' /\ AttemptsBounded'
    <3>1. /\ attempts'[f] = IF status[f] = "absent" THEN 0 ELSE attempts[f]
          /\ \A g \in Files \ {f} : attempts'[g] = attempts[g]
      BY <1>0, <1>2 DEF TypeOK
    <3>2. MaxRetries \in Nat /\ attempts[f] \in Nat
      BY <1>0, ConstFacts DEF TypeOK
    <3>3. status[f] = "pending" => attempts[f] <= MaxRetries
      BY <1>0 DEF Counted, AttemptsLeft
    <3>4. attempts'[f] <= MaxRetries /\ attempts'[f] <= MaxRetries + 1
      BY <1>2, <3>1, <3>2, <3>3
    <3>5. \A g \in Files \ {f} : attempts'[g] <= MaxRetries + 1
      BY <1>0, <3>1 DEF Counted, AttemptsBounded
    <3>6. \A g \in Files \ {f} :
            status'[g] = "pending" => attempts'[g] <= MaxRetries
      BY <1>0, <2>1, <3>1 DEF Counted, AttemptsLeft
    <3> QED
      BY <3>4, <3>5, <3>6 DEF AttemptsLeft, AttemptsBounded
  <2>10. DemandIsFile' BY DEF DemandIsFile
  <2> QED BY <2>2, <2>5, <2>8, <2>9, <2>10 DEF IInv, QueueInv
<1> QED BY <1>1, <1>2 DEF Enqueue

(* Steps of the consumer that enqueue nothing and release nothing.         *)
LEMMA ConsumerMoves ==
  ASSUME IInv, UNCHANGED <<queueVars, attempts, generation, retained>>,
         UNCHANGED <<active_files, reserved_bytes, worker, fatal_error>>,
         \/ status' = status
         \/ /\ demand \in Files /\ status[demand] = "ready"
            /\ status' = [status EXCEPT ![demand] = "borrowed"],
         \/ demand' = demand /\ (consumer = "prefetch" => consumer' = "prefetch")
         \/ consumer = "prefetch",
         consumer # "prefetch" => consumer' # "prefetch",
         consumer' \in ConsumerStates, demand' \in 1..Len(ClassOf) + 1,
         tries' \in Nat, consumer' = "backoff" => tries' <= MaxRetries,
         consumer' \in {"wait", "backoff", "hold"} => demand' \in Files,
         shutdown' \in BOOLEAN, cancel_event' \in BOOLEAN,
         asleep' \subseteq Workers
  PROVE  IInv'
<1>0. TypeOK /\ QueueInv /\ Counted BY Parts
<1>1. status' \in [Files -> Statuses]
  BY <1>0 DEF TypeOK, Statuses
<1>2. \A g \in Files : status'[g] = "pending" => status[g] = "pending"
  BY <1>0 DEF TypeOK
<1>3. TypeOK' BY <1>0, <1>1 DEF TypeOK, queueVars
<1>4. QueueInv' BY <1>0, <1>2, QueuesKept
<1>5. \A g \in Files : Held(g) <=> Held(g)' BY <1>0 DEF Held, TypeOK
<1>6. OwnReserve <= OwnReserve' /\ OwnReserve \in Nat /\ OwnReserve' \in Nat
  BY <1>5, ConstFacts DEF OwnReserve
<1>7. AheadWithinLimit'
  <2>0. Budget - DemandReserve \in Nat BY ConstFacts
  <2> QED
    BY <1>0, <1>6, <2>0, LessReserved
    DEF Counted, AheadWithinLimit, TypeOK
<1>8. AttemptsLeft' /\ AttemptsBounded' /\ DemandIsFile'
  BY <1>0, <1>2
  DEF Counted, AttemptsLeft, AttemptsBounded, DemandIsFile
<1> QED BY <1>3, <1>4, <1>7, <1>8 DEF IInv, QueueInv

LEMMA ConsumerStep ==
  ASSUME IInv, Consumer
  PROVE  IInv'
<1>0. TypeOK /\ QueueInv /\ Counted /\ Len(ClassOf) \in Nat
  BY Parts, ConstFacts
<1>1. CASE PrefetchNext /\ demand <= Len(ClassOf)
  <2>1. demand \in Files BY <1>0, <1>1 DEF TypeOK, Files
  <2>2. /\ Enqueue(demand, FALSE) /\ demand' = demand + 1
        /\ consumer = "prefetch" /\ consumer' = "prefetch"
        /\ tries' = tries /\ UNCHANGED ConsumerSide
    BY <1>1 DEF PrefetchNext
  <2>3. demand' \in 1..Len(ClassOf) + 1 BY <1>0, <2>1, <2>2 DEF Files
  <2>4. consumer' \in ConsumerStates BY <2>2 DEF ConsumerStates
  <2>5. /\ consumer # "prefetch" => consumer' # "prefetch"
        /\ consumer' = "prefetch" \/ demand' = demand
        /\ consumer' \in {"prefetch", "wait"} /\ consumer' # "wait"
        /\ FALSE \in BOOLEAN
    BY <2>2
  <2> QED BY <2>1, <2>2, <2>3, <2>4, <2>5, EnqueueStep, Zenon
<1>2. CASE PrefetchNext /\ ~(demand <= Len(ClassOf))
  BY <1>0, <1>2, ConsumerMoves
  DEF PrefetchNext, ConsumerSide, countVars, entryVars, TypeOK, ConsumerStates
<1>3. CASE Demand /\ demand <= Len(ClassOf) /\ ~cancel_event
  <2>1. demand \in Files BY <1>0, <1>3 DEF TypeOK, Files
  <2>2. /\ Enqueue(demand, TRUE) /\ demand' = demand
        /\ consumer = "demand" /\ consumer' = "wait"
        /\ tries' = tries /\ UNCHANGED ConsumerSide
    BY <1>3 DEF Demand, ConsumerGoes
  <2>3. demand' \in 1..Len(ClassOf) + 1 /\ consumer' \in ConsumerStates
    BY <1>0, <2>2 DEF TypeOK, ConsumerStates
  <2> QED BY <2>1, <2>2, <2>3, EnqueueStep
<1>4. CASE Demand /\ ~(demand <= Len(ClassOf) /\ ~cancel_event)
  BY <1>0, <1>4, ConsumerMoves
  DEF Demand, ConsumerGoes, ConsumerSide, countVars, entryVars, TypeOK,
      ConsumerStates
<1>5. CASE WaitTake
  <2>1. demand \in Files BY <1>0, <1>5 DEF WaitTake, Counted, DemandIsFile
  <2>2. attempts[demand] \in Nat /\ MaxRetries \in Nat
    BY <1>0, <2>1, ConstFacts DEF TypeOK
  <2>3. consumer' = "backoff" => tries' <= MaxRetries
    BY <1>5, <2>2 DEF WaitTake, WaitEnds, ConsumerGoes
  <2>4. consumer' \in ConsumerStates /\ demand' = demand /\ tries' \in Nat
        /\ consumer = "wait"
        /\ consumer' \in {"ended", "demand", "hold", "backoff"}
    BY <1>0, <1>5, <2>2 DEF WaitTake, ConsumerGoes, ConsumerStates, TypeOK
  <2>5. \/ status' = status
        \/ /\ status[demand] = "ready"
           /\ status' = [status EXCEPT ![demand] = "borrowed"]
    BY <1>5 DEF WaitTake
  <2>6. UNCHANGED <<attempts, generation, retained, queueVars, asleep,
                    ConsumerSide>>
    BY <1>5 DEF WaitTake
  <2> QED
    BY <1>0, <2>1, <2>3, <2>4, <2>5, <2>6, ConsumerMoves
    DEF ConsumerSide, countVars, TypeOK
<1>6. CASE RetryOrEnd /\ UNCHANGED <<entryVars, queueVars, asleep>>
  <2>1. /\ consumer = "backoff" /\ consumer' \in {"ended", "wait"}
        /\ demand' = demand /\ tries' = tries /\ UNCHANGED ConsumerSide
    BY <1>6 DEF RetryOrEnd, ConsumerGoes
  <2>2. demand \in Files BY <1>0, <2>1 DEF Counted, DemandIsFile
  <2> QED
    BY <1>0, <1>6, <2>1, <2>2, ConsumerMoves
    DEF ConsumerSide, countVars, entryVars, TypeOK, ConsumerStates
<1>7. CASE RetryOrEnd /\ ~UNCHANGED <<entryVars, queueVars, asleep>>
  <2>1. /\ consumer = "backoff" /\ consumer' = "wait"
        /\ demand' = demand /\ tries' = tries /\ UNCHANGED ConsumerSide
        /\ status[demand] = "failed" /\ attempts[demand] = tries
        /\ status' = [status EXCEPT ![demand] = "pending"]
        /\ EnqueueIndex(demand, TRUE)
        /\ UNCHANGED <<attempts, retained>> /\ asleep' = {}
    BY <1>7 DEF RetryOrEnd, ConsumerGoes, Wake
  <2>2. demand \in Files BY <1>0, <2>1 DEF Counted, DemandIsFile
  <2>3. attempts[demand] <= MaxRetries
    BY <1>0, <2>1 DEF Counted, AttemptsLeft
  <2>4. \A g \in Files \ {demand} :
          status'[g] = "pending" => status[g] = "pending"
    BY <1>0, <2>1 DEF TypeOK
  <2>5. QueueInv' /\ generation' \in [Files -> Nat]
    BY <1>0, <2>1, <2>2, <2>4, QueueGrows
  <2>6. status' \in [Files -> Statuses] BY <1>0, <2>1 DEF TypeOK, Statuses
  <2>7. TypeOK'
    BY <1>0, <2>1, <2>5, <2>6
    DEF TypeOK, QueueInv, QueueTypes, ConsumerSide, countVars, ConsumerStates
  <2>8. OwnReserve' = OwnReserve
    BY <1>0, <2>1, <2>2 DEF OwnReserve, Held, TypeOK
  <2>9. AheadWithinLimit'
    BY <1>0, <2>1, <2>8
    DEF Counted, AheadWithinLimit, ConsumerSide, countVars
  <2>10. AttemptsLeft' /\ AttemptsBounded' /\ DemandIsFile'
    BY <1>0, <2>1, <2>2, <2>3, <2>4
    DEF Counted, AttemptsLeft, AttemptsBounded, DemandIsFile, TypeOK
  <2> QED BY <2>5, <2>7, <2>9, <2>10 DEF IInv, QueueInv
<1>8. CASE Release
  <2>1. /\ consumer = "hold" /\ consumer' = "demand" /\ demand' = demand + 1
        /\ status' = [status EXCEPT ![demand] = "absent"]
        /\ reserved_bytes' = Saturating(reserved_bytes, Cap(demand))
        /\ tries' = tries /\ asleep' = {}
        /\ UNCHANGED <<attempts, generation, retained, queueVars, active_files,
                       shutdown, fatal_error, worker, cancel_event>>
    BY <1>8 DEF Release, Wake
  <2>2. demand \in Files BY <1>0, <2>1 DEF Counted, DemandIsFile
  <2>3. reserved_bytes \in Nat /\ Cap(demand) \in Nat
        /\ Budget - DemandReserve \in Nat
    BY <1>0, <2>2, ConstFacts DEF TypeOK
  <2>4. \A g \in Files : status'[g] = "pending" =>
          status[g] = "pending" /\ g # demand
    BY <1>0, <2>1 DEF TypeOK
  <2>5. QueueInv' BY <1>0, <2>1, <2>4, QueuesKept
  <2>6. TypeOK'
    <3>1. status' \in [Files -> Statuses] BY <1>0, <2>1 DEF TypeOK, Statuses
    <3>2. demand' \in 1..Len(ClassOf) + 1 BY <1>0, <2>1, <2>2 DEF Files
    <3>3. reserved_bytes' \in Nat BY <2>1, <2>3, SatFacts
    <3> QED
      BY <1>0, <2>1, <3>1, <3>2, <3>3 DEF TypeOK, queueVars, ConsumerStates
  <2>7. AheadWithinLimit'
    <3>1. OwnReserve \in Nat /\ OwnReserve <= Cap(demand)
          /\ OwnReserve' \in Nat
      BY <2>2, ConstFacts DEF OwnReserve
    <3>2. reserved_bytes <= (Budget - DemandReserve) + OwnReserve
      BY <1>0 DEF Counted, AheadWithinLimit
    <3>3. reserved_bytes <= (Budget - DemandReserve) + Cap(demand)
      BY <2>3, <3>1, <3>2
    <3>4. reserved_bytes' <= Budget - DemandReserve
      BY <2>1, <2>3, <3>3 DEF Saturating
    <3>5. reserved_bytes' \in Nat BY <2>1, <2>3, SatFacts
    <3>6. reserved_bytes' <= (Budget - DemandReserve) + OwnReserve'
      BY <2>3, <3>1, <3>4, <3>5
    <3> QED BY <3>6 DEF AheadWithinLimit
  <2>8. AttemptsLeft' /\ AttemptsBounded' /\ DemandIsFile'
    BY <1>0, <2>1, <2>4
    DEF Counted, AttemptsLeft, AttemptsBounded, DemandIsFile
  <2> QED BY <2>5, <2>6, <2>7, <2>8 DEF IInv, QueueInv
<1>9. CASE PublishFails \/ ShutdownBegins \/ ShutdownEnds
  <2>1. /\ consumer' \in {"ended", "gone"} /\ consumer # "prefetch"
        /\ demand' = demand /\ tries' = tries
        /\ asleep' \subseteq asleep /\ shutdown' \in BOOLEAN
        /\ UNCHANGED <<entryVars, queueVars, countVars, fatal_error, worker,
                       cancel_event>>
    BY <1>0, <1>9
    DEF PublishFails, ShutdownBegins, ShutdownEnds, ConsumerGoes, ConsumerSide,
        consumerVars, Wake, TypeOK
  <2> QED
    BY <1>0, <2>1, ConsumerMoves
    DEF countVars, entryVars, TypeOK, ConsumerStates
<1> QED
  BY <1>1, <1>2, <1>3, <1>4, <1>5, <1>6, <1>7, <1>8, <1>9 DEF Consumer

-----------------------------------------------------------------------------
(* The theorems.                                                           *)

LEMMA InitIInv == Init => IInv
<1> SUFFICES ASSUME Init PROVE IInv OBVIOUS
<1>1. Len(ClassOf) \in Nat /\ MaxRetries \in Nat
      /\ Budget - DemandReserve \in Nat /\ ActiveLimit \in Nat
  BY ConstFacts
<1>2. queues \in [Classes -> Seq(Item)] BY DEF Init
<1>3. TypeOK
  <2>1. /\ status \in [Files -> Statuses] /\ attempts \in [Files -> Nat]
        /\ generation \in [Files -> Nat] /\ retained \in [Files -> BOOLEAN]
        /\ worker \in [Workers -> Files \union {NoFile, Exited}]
    BY DEF Init, Statuses
  <2>2. /\ next_generation \in Nat /\ reserved_bytes \in Nat /\ tries \in Nat
    BY DEF Init
  <2>3. active_files \in 0..ActiveLimit /\ demand \in 1..Len(ClassOf) + 1
    BY <1>1 DEF Init
  <2>4. shutdown \in BOOLEAN /\ fatal_error \in BOOLEAN /\ cancel_event \in BOOLEAN
    BY DEF Init
  <2>5. asleep \subseteq Workers /\ consumer \in ConsumerStates
    BY DEF Init, ConsumerStates
  <2> QED BY <1>2, <2>1, <2>2, <2>3, <2>4, <2>5 DEF TypeOK
<1>4. \A c \in Classes : Queued(c) = {} BY DEF Init, Queued
<1>5. ItemsOld /\ PriorityIsDemand BY <1>4 DEF ItemsOld, PriorityIsDemand
<1>6. OwnReserve = 0
  BY DEF Init, OwnReserve, Held
<1>7. AheadWithinLimit BY <1>1, <1>6 DEF Init, AheadWithinLimit
<1>8. AttemptsLeft /\ AttemptsBounded /\ DemandIsFile
  BY <1>1 DEF Init, AttemptsLeft, AttemptsBounded, DemandIsFile
<1> QED BY <1>3, <1>5, <1>7, <1>8 DEF IInv

LEMMA NextIInv == IInv /\ [Next]_vars => IInv'
<1> SUFFICES ASSUME IInv, [Next]_vars PROVE IInv' OBVIOUS
<1>0. TypeOK BY DEF IInv
<1>1. CASE UNCHANGED vars \/ PoolFails \/ Cancel
  <2>1. /\ UNCHANGED <<entryVars, queueVars, countVars, shutdown, worker,
                       consumerVars>>
        /\ asleep' \subseteq asleep
        /\ fatal_error' \in BOOLEAN /\ cancel_event' \in BOOLEAN
    BY <1>0, <1>1 DEF vars, PoolFails, Cancel, Wake, TypeOK
  <2>2. TypeOK'
    BY <1>0, <2>1 DEF TypeOK, entryVars, queueVars, countVars, consumerVars
  <2>3. QueueInv'
    BY <1>0, <2>1, Parts, QueuesKept DEF entryVars, queueVars, consumerVars
  <2>4. Counted'
    BY <2>1, Parts
    DEF Counted, AheadWithinLimit, OwnReserve, Held, AttemptsLeft,
        AttemptsBounded, DemandIsFile, entryVars, countVars, consumerVars
  <2> QED BY <2>2, <2>3, <2>4 DEF IInv, QueueInv, Counted
<1>2. CASE \E w \in Workers : Worker(w) BY <1>2, WorkerStep
<1>3. CASE \E f \in Files : Completes(f) BY <1>3, CompletesStep
<1>4. CASE Consumer BY <1>4, ConsumerStep
<1> QED BY <1>1, <1>2, <1>3, <1>4 DEF Next

(* The inductive invariant of the scheduler.                               *)
THEOREM Invariant == Spec => []IInv
BY InitIInv, NextIInv, PTL DEF Spec

(* Every variable keeps its type; no more than ActiveLimit files are open, *)
(* whatever the number of workers (small_open_worker).                     *)
THEOREM TypeCorrect == Spec => []TypeOK
<1>1. IInv => TypeOK BY DEF IInv
<1> QED BY <1>1, Invariant, PTL

(* The pool never holds more buffer bytes than its budget, although the    *)
(* demanded file is scheduled past the look-ahead limit and retries keep   *)
(* their buffers (take_next_pending, small_failure).                       *)
THEOREM BudgetHolds == Spec => []WithinBudget
<1>1. IInv => WithinBudget
  <2> SUFFICES ASSUME IInv PROVE WithinBudget OBVIOUS
  <2>1. /\ reserved_bytes \in Nat /\ Budget \in Nat /\ DemandReserve \in Nat
        /\ reserved_bytes <= (Budget - DemandReserve) + OwnReserve
    BY ConstFacts DEF IInv, TypeOK, AheadWithinLimit
  <2>2. OwnReserve \in Nat /\ OwnReserve <= DemandReserve
    BY ConstFacts DEF OwnReserve
  <2> QED BY <2>1, <2>2 DEF WithinBudget
<1> QED BY <1>1, Invariant, PTL

(* The file the consumer waits for always fits the budget: look-ahead      *)
(* cannot strand it behind later files that are only released after it.    *)
THEOREM DemandSchedulable == Spec => []DemandNeverStranded
<1>1. IInv => DemandNeverStranded
  <2> SUFFICES ASSUME IInv, consumer \in {"wait", "backoff"},
                      status[demand] = "pending", ~retained[demand]
               PROVE  reserved_bytes + Cap(demand) <= Budget
    BY DEF DemandNeverStranded
  <2>1. demand \in Files BY DEF IInv, DemandIsFile
  <2>2. OwnReserve = 0 BY DEF OwnReserve, Held
  <2>3. /\ reserved_bytes \in Nat /\ Budget \in Nat /\ DemandReserve \in Nat
        /\ Cap(demand) \in Nat /\ Cap(demand) <= DemandReserve
        /\ reserved_bytes <= (Budget - DemandReserve) + OwnReserve
    BY <2>1, ConstFacts DEF IInv, TypeOK, AheadWithinLimit
  <2> QED BY <2>2, <2>3
<1> QED BY <1>1, Invariant, PTL

(* No file is opened more often than one first attempt and MaxRetries      *)
(* retries, however demand, failure and stale queue items interleave.      *)
THEOREM RetriesBounded == Spec => []AttemptsBounded
<1>1. IInv => AttemptsBounded BY DEF IInv
<1> QED BY <1>1, Invariant, PTL

(***************************************************************************)
(* SmallPoolIo: the memory of a read outlives the kernel's use of it, for  *)
(* any number of files and workers, whichever calls wedge and whoever      *)
(* gives the read up.                                                      *)
(*                                                                         *)
(* OperationAlive is not inductive: that a completion frees nothing the    *)
(* kernel still owns, or a worker still submits, rests on who may hold a   *)
(* file when.  Ownership says that: a file is one worker's from the step   *)
(* that takes its entry to the one that gives it up, its operation exists  *)
(* from the moment the operations mutex is taken for it, and that mutex is *)
(* held until ReadFile has returned.                                       *)
(***************************************************************************)


(* Nothing has been done with the file yet.                                *)
Untouched(f) ==
  /\ operation[f] = None /\ memory[f] = "none"
  /\ kernel[f] = "none" /\ f \notin batch

(* The parts of the invariant: no two workers have one file; what the      *)
(* stage of a worker says of its file; what an operation says of the       *)
(* memory; what the kernel has is of an operation, or was leaked; what is  *)
(* in the completion thread's hands the kernel has done with; and shutdown *)
(* gives operations up only when the workers are gone.                     *)
OneWorkerPerFile ==
  \A v, w \in Openers : job[v] = job[w] /\ job[v] # Free => v = w

PendingUntouched ==
  \A f \in Reads : entry[f] = "pending" =>
    Untouched(f) /\ \A w \in Openers : job[w] # f

OpeningUntouched ==
  \A w \in Openers :
    stage[w] \in {"CreateFileW", "opened", "CreateIoCompletionPort"} =>
      Untouched(job[w])

LockingBoxed ==
  \A w \in Openers : stage[w] = "lock" =>
    /\ operation[job[w]] = None /\ memory[job[w]] = "boxed"
    /\ kernel[job[w]] = "none" /\ job[w] \notin batch

SubmittingLocked ==
  \A w \in Openers : stage[w] = "ReadFile" =>
    /\ operations_lock = w
    /\ operation[job[w]] # None
    /\ call[w] = "none" => kernel[job[w]] = "none" /\ job[w] \notin batch

OperationBoxed ==
  \A f \in Reads : operation[f] # None => memory[f] = "boxed"

OwnedHeld ==
  \A f \in Reads :
    kernel[f] = "owned" => operation[f] # None \/ memory[f] = "leaked"

BatchTaken == \A f \in batch : kernel[f] = "none"

JoinedAfterExit ==
  owner \in {"join completion", "gone"} =>
    \A w \in Openers : stage[w] = "exited"

Ownership ==
  /\ OneWorkerPerFile /\ PendingUntouched
  /\ OpeningUntouched /\ LockingBoxed /\ SubmittingLocked
  /\ OperationBoxed /\ OwnedHeld /\ BatchTaken /\ JoinedAfterExit

LEMMA WatchesKept ==
  /\ None \in Watches /\ Started \in Watches /\ Started # None
  /\ \A o \in Watches :
       /\ Asked(o) \in Watches /\ Asked(o) # None
       /\ AskedOnce(o) \in Watches /\ (AskedOnce(o) = None <=> o = None)
BY DEF Watches, None, Started, Asked, AskedOnce

LEMMA ElapsedKept ==
  ASSUME NEW o \in Watches
  PROVE  /\ [o EXCEPT !.elapsed = TRUE] \in Watches
         /\ [o EXCEPT !.elapsed = TRUE] # None
BY DEF Watches, None

LEMMA FreeIsNeither == Free \notin Reads /\ Free \notin Openers
BY PoolIoAssumption DEF Free, Openers

Stages == Calls \union {"scan", "opened", "lock", "exited"}
EntryStatuses == {"absent", "pending", "opening", "inflight", "ready", "failed"}

(* The parts of IoTypeOK an action of a worker changes.                    *)
Placed ==
  /\ stage \in [Openers -> Stages]
  /\ job \in [Openers -> Reads \union {Free}]
  /\ \A v \in Openers : job[v] = Free <=> stage[v] \in {"scan", "exited"}

EntryTyped == entry \in [Reads -> EntryStatuses]

MutexTyped ==
  operations_lock \in {v \in Openers : stage[v] = "ReadFile"} \union {Free}

CallTyped ==
  /\ call \in [Openers -> {"none", "runs", "wedged", "dead", "cancelled"}]
  /\ activity \in [Openers -> Watches]

LEMMA StageMoves ==
  ASSUME IoTypeOK, NEW w \in Openers, NEW s \in Stages,
         NEW j \in Reads \union {Free}, j = Free <=> s \in {"scan", "exited"},
         stage' = [stage EXCEPT ![w] = s], job' = [job EXCEPT ![w] = j]
  PROVE  Placed'
<1>1. stage \in [Openers -> Stages] /\ job \in [Openers -> Reads \union {Free}]
      /\ \A v \in Openers : job[v] = Free <=> stage[v] \in {"scan", "exited"}
  BY DEF IoTypeOK, Stages
<1>2. stage' \in [Openers -> Stages] BY <1>1
<1>3. job' \in [Openers -> Reads \union {Free}] BY <1>1
<1>4. ASSUME NEW v \in Openers
      PROVE  job'[v] = Free <=> stage'[v] \in {"scan", "exited"}
  <2>1. CASE v = w BY <1>1, <2>1
  <2>2. CASE v # w BY <1>1, <2>2
  <2> QED BY <2>1, <2>2
<1> QED BY <1>2, <1>3, <1>4 DEF Placed

LEMMA StatusKept ==
  ASSUME IoTypeOK, NEW f \in Reads,
         NEW s \in {"opening", "inflight", "ready", "failed", "absent"}
  PROVE  /\ [entry EXCEPT ![f] = s] \in [Reads -> EntryStatuses]
         /\ [entry EXCEPT ![f] = IF @ = "absent" THEN @ ELSE s]
              \in [Reads -> EntryStatuses]
         /\ [entry EXCEPT ![f] = IF shutdown \/ @ = "absent" THEN "absent"
                                 ELSE s]
              \in [Reads -> EntryStatuses]
BY DEF IoTypeOK, EntryStatuses

LEMMA WorkerTypes ==
  ASSUME IoTypeOK, NEW w \in Openers, OpenWorker(w)
  PROVE  IoTypeOK'
<1>0. SUFFICES ASSUME \/ OpenWorkerExits(w) \/ \E f \in Reads : Takes(w, f)
                      \/ Announces(w) \/ Enters(w) \/ Opens(w) \/ Opened(w)
                      \/ Associates(w) \/ LocksOperations(w) \/ SubmitsRead(w)
               PROVE  IoTypeOK'
  BY DEF OpenWorker
<1> USE DEF Go, Watched, Returned, ReadFailure, EntryStatuses, EntryTyped,
            MutexTyped, CallTyped
<1>f. /\ stage[w] \notin {"scan", "exited"} => job[w] \in Reads
      /\ Free \notin Reads /\ Free \notin Openers
  BY FreeIsNeither DEF IoTypeOK
<1>s. {"scan", "opened", "lock", "exited", "CreateFileW", "ReadFile",
       "CreateIoCompletionPort"} = Stages
  BY DEF Stages, Calls
<1>1. CASE OpenWorkerExits(w)
  <2> USE <1>1 DEF OpenWorkerExits
  <2>1. /\ job[w] = Free /\ job' = [job EXCEPT ![w] = Free]
        /\ stage' = [stage EXCEPT ![w] = "exited"]
    BY DEF IoTypeOK
  <2>2. Placed'
    BY <2>1, <1>s, StageMoves
  <2>3. MutexTyped'
    BY <2>1 DEF IoTypeOK
  <2> QED BY <2>2, <2>3
      DEF IoTypeOK, Stages, Placed, stateVars, operationVars, completionVars
<1>2. ASSUME NEW f \in Reads, Takes(w, f) PROVE IoTypeOK'
  <2> USE <1>2 DEF Takes
  <2>2. Placed'
    <3>1. f # Free BY FreeIsNeither
    <3> QED BY <1>s, <3>1, StageMoves
  <2>3. MutexTyped'
    BY DEF IoTypeOK
  <2>4. EntryTyped'
    BY StatusKept
  <2> QED BY <2>2, <2>3, <2>4
      DEF IoTypeOK, Stages, Placed, operationVars, completionVars
<1>3. CASE Announces(w)
  <2>1. activity' \in [Openers -> Watches]
    BY <1>3, WatchesKept DEF Announces, IoTypeOK
  <2> QED BY <2>1, <1>3
      DEF Announces, IoTypeOK, stateVars, operationVars, completionVars
<1>4. CASE Enters(w)
  <2> USE <1>4 DEF Enters
  <2>1. PICK c \in {"runs"} \union (IF stage[w] \in WedgeAt THEN Wedges ELSE {}) :
          call' = [call EXCEPT ![w] = c]
    OBVIOUS
  <2>2. c \in {"runs", "wedged", "dead"} BY <2>1, PoolIoAssumption
  <2>3. call' \in [Openers -> {"none", "runs", "wedged", "dead", "cancelled"}]
    BY <2>1, <2>2 DEF IoTypeOK
  <2>4. kernel' \in [Reads -> {"none", "owned", "packet"}]
    BY DEF IoTypeOK
  <2> QED BY <2>3, <2>4 DEF IoTypeOK, stateVars, completionVars
<1>5. CASE Opens(w)
  <2> USE <1>5 DEF Opens
  <2>1. PICK s \in {"opened", "scan"} :
          /\ stage' = [stage EXCEPT ![w] = s]
          /\ job' = [job EXCEPT ![w] = IF s = "scan" THEN Free ELSE job[w]]
          /\ entry' \in {entry, [entry EXCEPT ![job[w]] =
                                   IF @ = "absent" THEN @ ELSE "failed"]}
    BY DEF IoTypeOK
  <2>2. EntryTyped'
    BY <2>1 DEF IoTypeOK
  <2>3. Placed'
    BY <1>f, <1>s, <2>1, StageMoves
  <2>4. MutexTyped'
    BY <2>1 DEF IoTypeOK
  <2>5. CallTyped'
    BY WatchesKept DEF IoTypeOK
  <2> QED BY <2>2, <2>3, <2>4, <2>5
      DEF IoTypeOK, Stages, Placed, operationVars, completionVars
<1>6. CASE Opened(w)
  <2> USE <1>6 DEF Opened
  <2>1. PICK s \in {"CreateIoCompletionPort", "scan"} :
          /\ stage' = [stage EXCEPT ![w] = s]
          /\ job' = [job EXCEPT ![w] = IF s = "scan" THEN Free ELSE job[w]]
          /\ entry' \in {entry, [entry EXCEPT ![job[w]] = "ready"],
                         [entry EXCEPT ![job[w]] =
                                   IF @ = "absent" THEN @ ELSE "failed"]}
    BY DEF IoTypeOK
  <2>2. EntryTyped'
    BY <1>f, <2>1, StatusKept DEF IoTypeOK
  <2>3. Placed'
    BY <1>f, <1>s, <2>1, StageMoves
  <2>4. MutexTyped'
    BY <2>1 DEF IoTypeOK
  <2> QED BY <2>2, <2>3, <2>4
      DEF IoTypeOK, Stages, Placed, operationVars, completionVars
<1>7. CASE Associates(w)
  <2> USE <1>7 DEF Associates
  <2>1. PICK s \in {"lock", "scan"} :
          /\ stage' = [stage EXCEPT ![w] = s]
          /\ job' = [job EXCEPT ![w] = IF s = "scan" THEN Free ELSE job[w]]
          /\ entry' \in {[entry EXCEPT ![job[w]] = "inflight"],
                         [entry EXCEPT ![job[w]] =
                                   IF @ = "absent" THEN @ ELSE "failed"]}
          /\ memory' \in {memory, [memory EXCEPT ![job[w]] = "boxed"]}
    <3>1. CASE stage' = [stage EXCEPT ![w] = "lock"] /\ UNCHANGED job
               /\ entry' = [entry EXCEPT ![job[w]] = "inflight"]
               /\ memory' = [memory EXCEPT ![job[w]] = "boxed"]
      <4>1. job' = [job EXCEPT ![w] = job[w]] BY <3>1 DEF IoTypeOK
      <4> QED BY <3>1, <4>1
    <3>2. CASE /\ stage' = [stage EXCEPT ![w] = "scan"] /\ ReadFailure(job[w])
               /\ job' = [job EXCEPT ![w] = Free] /\ UNCHANGED memory
      BY <3>2
    <3> QED BY <3>1, <3>2
  <2>2. EntryTyped'
    BY <1>f, <2>1, StatusKept DEF IoTypeOK
  <2>6. memory' \in [Reads -> {"none", "boxed", "freed", "leaked"}]
    BY <2>1 DEF IoTypeOK
  <2>3. Placed'
    BY <1>f, <1>s, <2>1, StageMoves
  <2>4. MutexTyped'
    BY <2>1 DEF IoTypeOK
  <2>5. CallTyped'
    BY WatchesKept DEF IoTypeOK
  <2> QED BY <2>2, <2>3, <2>4, <2>5, <2>6
      DEF IoTypeOK, Stages, Placed, completionVars
<1>8. CASE LocksOperations(w)
  <2> USE <1>8 DEF LocksOperations
  <2>1. job' = [job EXCEPT ![w] = job[w]] BY DEF IoTypeOK
  <2>3. Placed'
    BY <1>f, <1>s, <2>1, StageMoves
  <2>4. MutexTyped'
    BY DEF IoTypeOK
  <2>5. operation' \in [Reads -> Watches]
    BY WatchesKept DEF IoTypeOK
  <2> QED BY <2>3, <2>4, <2>5
      DEF IoTypeOK, Stages, Placed, stateVars, completionVars
<1>9. CASE SubmitsRead(w)
  <2> USE <1>9 DEF SubmitsRead
  <2>2. /\ EntryTyped'
        /\ memory' \in [Reads -> {"none", "boxed", "freed", "leaked"}]
        /\ kernel' \in [Reads -> {"none", "owned", "packet"}]
        /\ operation' \in [Reads -> Watches]
    <3>1. CASE ReadFails(job[w])
      BY <3>1, <1>f, StatusKept, WatchesKept DEF IoTypeOK, ReadFails
    <3>2. CASE UNCHANGED <<entry, operation, memory, kernel>>
      BY <3>2 DEF IoTypeOK
    <3> QED BY <3>1, <3>2
  <2>3. Placed'
    BY <1>f, <1>s, StageMoves
  <2>5. CallTyped'
    BY WatchesKept DEF IoTypeOK
  <2> QED BY <2>2, <2>3, <2>5 DEF IoTypeOK, Stages, Placed, completionVars
<1> QED BY <1>0, <1>1, <1>2, <1>3, <1>4, <1>5, <1>6, <1>7, <1>8, <1>9

LEMMA KernelAndClockTypes ==
  ASSUME IoTypeOK,
         \/ \E w \in Openers : CallElapses(w)
         \/ \E f \in Reads : KernelCompletes(f) \/ OperationElapses(f)
  PROVE  IoTypeOK'
<1>1. ASSUME NEW w \in Openers, CallElapses(w) PROVE IoTypeOK'
  <2>1. activity' \in [Openers -> Watches]
    BY <1>1, ElapsedKept DEF CallElapses, Watched, IoTypeOK
  <2> QED BY <1>1, <2>1
      DEF CallElapses, IoTypeOK, stateVars, operationVars, completionVars
<1>2. ASSUME NEW f \in Reads, KernelCompletes(f) PROVE IoTypeOK'
  BY <1>2 DEF KernelCompletes, IoTypeOK, stateVars, workerVars, completionVars
<1>3. ASSUME NEW f \in Reads, OperationElapses(f) PROVE IoTypeOK'
  <2>1. operation' \in [Reads -> Watches]
    BY <1>3, ElapsedKept DEF OperationElapses, IoTypeOK
  <2> QED BY <1>3, <2>1
          DEF OperationElapses, IoTypeOK, stateVars, workerVars, completionVars
<1> QED BY <1>1, <1>2, <1>3

LEMMA CompletionTypes ==
  ASSUME IoTypeOK, Completion \/ PortFails
  PROVE  IoTypeOK'
<1> USE DEF stateVars, workerVars, operationVars, completionVars, EntryStatuses,
            EntryTyped
<1>1. CASE Dequeues
  <2>1. PICK B \in SUBSET Reads :
          /\ batch' = B
          /\ kernel' = [f \in Reads |-> IF f \in B THEN "none" ELSE kernel[f]]
    BY <1>1 DEF Dequeues, Packets
  <2>2. kernel' \in [Reads -> {"none", "owned", "packet"}]
    BY <2>1 DEF IoTypeOK
  <2> QED BY <1>1, <2>1, <2>2 DEF Dequeues, IoTypeOK
<1>2. CASE CancelsAll
  <2>1. operation' \in [Reads -> Watches]
    BY <1>2, WatchesKept DEF CancelsAll, IoTypeOK
  <2> QED BY <1>2, <2>1 DEF CancelsAll, IoTypeOK
<1>3. ASSUME NEW f \in Reads, ReadCompletes(f) PROVE IoTypeOK'
  <2> USE <1>3 DEF ReadCompletes
  <2>1. /\ EntryTyped'
        /\ operation' \in [Reads -> Watches]
        /\ memory' \in [Reads -> {"none", "boxed", "freed", "leaked"}]
    <3>1. CASE operation[f] = None
      BY <3>1 DEF IoTypeOK
    <3>2. CASE operation[f] # None
      <4>1. PICK s \in {"ready", "failed"} :
              entry' = [entry EXCEPT ![f] =
                          IF shutdown \/ @ = "absent" THEN "absent" ELSE s]
        BY <3>2
      <4>2. EntryTyped'
        BY <4>1, StatusKept
      <4>3. /\ operation' = [operation EXCEPT ![f] = None]
            /\ memory' = [memory EXCEPT ![f] = "freed"]
        BY <3>2
      <4>4. operation' \in [Reads -> Watches]
        BY <4>3, WatchesKept DEF IoTypeOK
      <4>5. memory' \in [Reads -> {"none", "boxed", "freed", "leaked"}]
        BY <4>3 DEF IoTypeOK
      <4> QED BY <4>2, <4>4, <4>5
    <3> QED BY <3>1, <3>2
  <2> QED BY <2>1 DEF IoTypeOK
<1>4. CASE WatchesCalls
  <2> USE <1>4 DEF WatchesCalls
  <2>1. activity' \in [Openers -> Watches]
    BY WatchesKept DEF IoTypeOK
  <2>2. call' \in [Openers -> {"none", "runs", "wedged", "dead", "cancelled"}]
    BY DEF IoTypeOK
  <2>3. fatal_error' \in BOOLEAN /\ seen_shutdown' \in BOOLEAN
    BY Zenon DEF IoTypeOK
  <2> QED BY <2>1, <2>2, <2>3 DEF IoTypeOK
<1>5. CASE WatchesOperations
  <2> USE <1>5 DEF WatchesOperations, Leak
  <2>1. CASE UNCHANGED <<fatal_error, operation, memory>>
    BY <2>1 DEF IoTypeOK
  <2>2. CASE \E f \in LostOperations :
               /\ fatal_error' = (fatal_error
                                    \/ (operation[f].timed_out /\ ~seen_shutdown))
               /\ Leak /\ completion' = "exited"
    <3>1. operation' \in [Reads -> Watches]
      BY <2>2, WatchesKept
    <3>0. memory' = [f \in Reads |-> IF operation[f] # None THEN "leaked"
                                     ELSE memory[f]]
      BY <2>2
    <3>2. memory' \in [Reads -> {"none", "boxed", "freed", "leaked"}]
      BY <3>0 DEF IoTypeOK
    <3>3. fatal_error' \in BOOLEAN /\ completion' = "exited"
      BY <2>2, Zenon DEF IoTypeOK
    <3> QED BY <3>1, <3>2, <3>3 DEF IoTypeOK
  <2>3. CASE /\ UNCHANGED <<fatal_error, memory>> /\ completion' = "check"
             /\ operation' = [f \in Reads |->
                  IF /\ operation[f] # None /\ ~operation[f].asked
                     /\ seen_shutdown \/ operation[f].elapsed
                  THEN Asked(operation[f]) ELSE operation[f]]
    <3>1. operation' \in [Reads -> Watches]
      BY <2>3, WatchesKept DEF IoTypeOK
    <3> QED BY <2>3, <3>1 DEF IoTypeOK
  <2> QED BY <2>1, <2>2, <2>3
<1>6. CASE PollsNothing \/ BatchEnds \/ WatchStarts \/ ChecksShutdown
           \/ ChecksActivities \/ ChecksOperations \/ PortFails
  BY <1>6 DEF PollsNothing, BatchEnds, WatchStarts, ChecksShutdown,
     ChecksActivities, ChecksOperations, PortFails, IoTypeOK
<1> QED BY <1>1, <1>2, <1>3, <1>4, <1>5, <1>6 DEF Completion

LEMMA OwnerTypes ==
  ASSUME IoTypeOK, Owner
  PROVE  IoTypeOK'
<1> USE DEF OwnerSide, stateVars, workerVars, completionVars
<1>1. CASE OwnerBegins BY <1>1 DEF OwnerBegins, IoTypeOK
<1>2. CASE WorkersJoined
  <2>1. operation' \in [Reads -> Watches]
    BY <1>2, WatchesKept DEF WorkersJoined, IoTypeOK
  <2> QED BY <1>2, <2>1 DEF WorkersJoined, IoTypeOK
<1>3. CASE CompletionJoined
  <2>1. /\ operation' \in [Reads -> Watches]
        /\ memory' \in [Reads -> {"none", "boxed", "freed", "leaked"}]
    BY <1>3, WatchesKept DEF CompletionJoined, Leak, IoTypeOK
  <2> QED BY <1>3, <2>1 DEF CompletionJoined, IoTypeOK
<1> QED BY <1>1, <1>2, <1>3 DEF Owner

LEMMA InitTypes == IoInit => IoTypeOK
<1> SUFFICES ASSUME IoInit PROVE IoTypeOK
  OBVIOUS
<1>1. activity \in [Openers -> Watches] /\ operation \in [Reads -> Watches]
  BY WatchesKept DEF IoInit
<1>2. /\ stage \in [Openers -> Calls \union {"scan", "opened", "lock", "exited"}]
      /\ job \in [Openers -> Reads \union {Free}]
      /\ \A w \in Openers : job[w] = Free <=> stage[w] \in {"scan", "exited"}
  BY DEF IoInit
<1> QED BY <1>1, <1>2 DEF IoInit, IoTypeOK

(* Every variable holds a value of its type; the operations mutex is only  *)
(* held by a worker in ReadFile, and a worker has a file exactly while it  *)
(* works on one.                                                           *)
THEOREM IoTypeCorrect == IoSpec => []IoTypeOK
<1>1. ASSUME IoTypeOK, [IoNext]_ioVars PROVE IoTypeOK'
  <2>1. CASE IoNext
    BY <1>1, <2>1, WorkerTypes, KernelAndClockTypes, CompletionTypes,
        OwnerTypes DEF IoNext
  <2>2. CASE UNCHANGED ioVars
    BY <1>1, <2>2
        DEF ioVars, stateVars, workerVars, operationVars, completionVars, IoTypeOK
  <2> QED BY <1>1, <2>1, <2>2
<1> QED BY <1>1, InitTypes, PTL DEF IoSpec

-----------------------------------------------------------------------------
(* Ownership.                                                              *)

ownershipVars == <<entry, stage, job, call, operation, memory, kernel,
                   operations_lock, batch, owner>>

LEMMA Undisturbed ==
  ASSUME Ownership, UNCHANGED ownershipVars
  PROVE  Ownership'
<1> USE DEF ownershipVars, Ownership
<1>1. OneWorkerPerFile' BY DEF OneWorkerPerFile
<1>2. PendingUntouched' BY DEF PendingUntouched, Untouched
<1>3. OpeningUntouched' BY DEF OpeningUntouched, Untouched
<1>4. LockingBoxed' BY DEF LockingBoxed
<1>5. SubmittingLocked' BY DEF SubmittingLocked
<1>6. OperationBoxed' BY DEF OperationBoxed
<1>7. OwnedHeld' BY DEF OwnedHeld
<1>8. BatchTaken' BY DEF BatchTaken
<1>9. JoinedAfterExit' BY DEF JoinedAfterExit
<1> QED BY <1>1, <1>2, <1>3, <1>4, <1>5, <1>6, <1>7, <1>8, <1>9

(* What each stage of a worker says of the file it works on.               *)
OpenerKept(w) ==
  /\ stage[w] \in {"CreateFileW", "opened", "CreateIoCompletionPort"} =>
       Untouched(job[w])
  /\ stage[w] = "lock" =>
       /\ operation[job[w]] = None /\ memory[job[w]] = "boxed"
       /\ kernel[job[w]] = "none" /\ job[w] \notin batch
  /\ stage[w] = "ReadFile" =>
       /\ operations_lock = w
       /\ operation[job[w]] # None
       /\ call[w] = "none" => kernel[job[w]] = "none" /\ job[w] \notin batch

LEMMA HeldByStage ==
  (\A w \in Openers : OpenerKept(w)) <=>
    OpeningUntouched /\ LockingBoxed /\ SubmittingLocked
BY DEF OpenerKept, OpeningUntouched, LockingBoxed, SubmittingLocked

LEMMA HeldByStageNext ==
  ASSUME \A w \in Openers : OpenerKept(w)'
  PROVE  (OpeningUntouched /\ LockingBoxed /\ SubmittingLocked)'
BY DEF OpenerKept, OpeningUntouched, LockingBoxed, SubmittingLocked

(* What holds of a file whoever works on it.                               *)
Kept(f) ==
  /\ operation[f] # None => memory[f] = "boxed"
  /\ kernel[f] = "owned" => operation[f] # None \/ memory[f] = "leaked"
  /\ f \in batch => kernel[f] = "none"

LEMMA KeptNext ==
  ASSUME \A f \in Reads : Kept(f)', batch' \subseteq Reads
  PROVE  (OperationBoxed /\ OwnedHeld /\ BatchTaken)'
BY DEF Kept, OperationBoxed, OwnedHeld, BatchTaken

(* A worker takes, or gives up, a file, or moves on with it.               *)
LEMMA JobMoves ==
  ASSUME IoTypeOK, Ownership, NEW w \in Openers,
         NEW j \in Reads \union {Free}, job' = [job EXCEPT ![w] = j],
         j # Free => \A v \in Openers : v # w => job[v] # j
  PROVE  OneWorkerPerFile'
<1> SUFFICES ASSUME NEW u \in Openers, NEW v \in Openers,
                    job'[u] = job'[v], job'[u] # Free
             PROVE  u = v
  BY DEF OneWorkerPerFile
<1>1. CASE u = w /\ v # w BY <1>1 DEF IoTypeOK
<1>2. CASE v = w /\ u # w BY <1>2 DEF IoTypeOK
<1>3. CASE u # w /\ v # w
  <2>1. job[u] = job[v] /\ job[u] # Free BY <1>3 DEF IoTypeOK
  <2> QED BY <2>1 DEF Ownership, OneWorkerPerFile
<1> QED BY <1>1, <1>2, <1>3

(* The domains and ranges the steps below rest on.                         *)
Functions ==
  /\ stage \in [Openers -> Stages] /\ job \in [Openers -> Reads \union {Free}]
  /\ call \in [Openers -> {"none", "runs", "wedged", "dead", "cancelled"}]
  /\ entry \in [Reads -> EntryStatuses]
  /\ operation \in [Reads -> Watches]
  /\ memory \in [Reads -> {"none", "boxed", "freed", "leaked"}]
  /\ kernel \in [Reads -> {"none", "owned", "packet"}]

LEMMA TypeOKFunctions == IoTypeOK => Functions
BY DEF IoTypeOK, Functions, Stages, EntryStatuses

(* What a worker works on is its own and taken, and is as its stage says.  *)
LEMMA FileOfWorker ==
  ASSUME IoTypeOK, Ownership, NEW w \in Openers,
         stage[w] \notin {"scan", "exited"}
  PROVE  /\ job[w] \in Reads /\ entry[job[w]] # "pending"
         /\ \A v \in Openers : v # w => job[v] # job[w]
         /\ OpenerKept(w) /\ Kept(job[w])
         /\ job' = job => job' = [job EXCEPT ![w] = job[w]]
<1>1. job[w] # Free /\ job[w] \in Reads BY DEF IoTypeOK
<1>2. entry[job[w]] # "pending"
  BY <1>1 DEF Ownership, PendingUntouched
<1>3. \A v \in Openers : v # w => job[v] # job[w]
  BY <1>1 DEF Ownership, OneWorkerPerFile
<1>4. OpenerKept(w) BY HeldByStage DEF Ownership
<1>5. Kept(job[w])
  BY <1>1 DEF Ownership, Kept, OperationBoxed, OwnedHeld, BatchTaken
<1>6. job' = job => job' = [job EXCEPT ![w] = job[w]] BY DEF IoTypeOK
<1> QED BY <1>1, <1>2, <1>3, <1>4, <1>5, <1>6

(* The other workers hold what they held.                                  *)
LEMMA OthersHold ==
  ASSUME IoTypeOK, Ownership, NEW w \in Openers, NEW v \in Openers, v # w,
         NEW f, job[v] # f \/ stage[v] \in {"scan", "exited"},
         stage'[v] = stage[v], job'[v] = job[v], call'[v] = call[v],
         \A g \in Reads : g # f => /\ operation'[g] = operation[g]
                                   /\ memory'[g] = memory[g]
                                   /\ kernel'[g] = kernel[g],
         batch' = batch, stage[v] = "ReadFile" => operations_lock' = v
  PROVE  OpenerKept(v)'
<1>1. OpenerKept(v) BY HeldByStage DEF Ownership
<1>2. CASE stage[v] \in {"scan", "exited"}
  BY <1>2 DEF OpenerKept
<1>3. CASE stage[v] \notin {"scan", "exited"}
  <2>1. job[v] \in Reads BY <1>3, FileOfWorker
  <2> QED BY <2>1, <1>1, <1>3 DEF OpenerKept, Untouched
<1> QED BY <1>2, <1>3

(* One step of worker w with file f, which it works on afterwards, or no   *)
(* longer.                                                                 *)
LEMMA WorkerOwns ==
  ASSUME IoTypeOK, IoTypeOK', Ownership, NEW w \in Openers, NEW f \in Reads,
         NEW j \in {f, Free}, job' = [job EXCEPT ![w] = j],
         \A v \in Openers : v # w => job[v] # f,
         NEW s, stage' = [stage EXCEPT ![w] = s], stage[w] # "exited",
         \A v \in Openers : v # w => call'[v] = call[v],
         \A g \in Reads : g # f => /\ entry'[g] = entry[g]
                                   /\ operation'[g] = operation[g]
                                   /\ memory'[g] = memory[g]
                                   /\ kernel'[g] = kernel[g],
         entry'[f] # "pending", batch' = batch, owner' = owner,
         \A v \in Openers :
           v # w /\ stage[v] = "ReadFile" => operations_lock' = v,
         OpenerKept(w)', Kept(f)'
  PROVE  Ownership'
<1>1. OneWorkerPerFile'
  BY JobMoves
<1>2. PendingUntouched'
  <2> SUFFICES ASSUME NEW g \in Reads, entry'[g] = "pending"
               PROVE  Untouched(g)' /\ \A v \in Openers : job'[v] # g
    BY DEF PendingUntouched
  <2>1. g # f /\ entry[g] = "pending" OBVIOUS
  <2>2. Untouched(g) /\ \A v \in Openers : job[v] # g
    BY <2>1 DEF Ownership, PendingUntouched
  <2>3. Untouched(g)' BY <2>1, <2>2 DEF Untouched
  <2>4. ASSUME NEW v \in Openers PROVE job'[v] # g
    <3>1. g # f /\ g # Free /\ job[v] # g BY <2>1, <2>2, FreeIsNeither
    <3> QED BY <3>1, TypeOKFunctions DEF Functions
  <2> QED BY <2>3, <2>4
<1>3. (OpeningUntouched /\ LockingBoxed /\ SubmittingLocked)'
  <2>1. ASSUME NEW v \in Openers, v # w PROVE OpenerKept(v)'
    <3>1. stage'[v] = stage[v] /\ job'[v] = job[v]
      BY <2>1, TypeOKFunctions DEF Functions
    <3> QED BY <3>1, <2>1, OthersHold
  <2> QED BY <2>1, HeldByStageNext
<1>4. (OperationBoxed /\ OwnedHeld /\ BatchTaken)'
  <2>1. ASSUME NEW g \in Reads, g # f PROVE Kept(g)'
    <3>1. Kept(g)
      BY DEF Ownership, Kept, OperationBoxed, OwnedHeld, BatchTaken
    <3> QED BY <3>1, <2>1 DEF Kept
  <2>2. batch' \subseteq Reads BY DEF IoTypeOK
  <2> QED BY <2>1, <2>2, KeptNext
<1>5. JoinedAfterExit'
  BY DEF Ownership, JoinedAfterExit
<1> QED BY <1>1, <1>2, <1>3, <1>4, <1>5 DEF Ownership

LEMMA WorkerOwnership ==
  ASSUME IoTypeOK, IoTypeOK', Ownership, NEW w \in Openers, OpenWorker(w)
  PROVE  Ownership'
<1>0. SUFFICES ASSUME \/ OpenWorkerExits(w) \/ \E f \in Reads : Takes(w, f)
                      \/ Announces(w) \/ Enters(w) \/ Opens(w) \/ Opened(w)
                      \/ Associates(w) \/ LocksOperations(w) \/ SubmitsRead(w)
               PROVE  Ownership'
  BY DEF OpenWorker
<1> USE DEF Go, Watched, Returned, ReadFailure, stateVars, workerVars,
            operationVars, completionVars
<1>l. \A v \in Openers : v # w /\ stage[v] = "ReadFile" => operations_lock = v
  BY DEF Ownership, SubmittingLocked
<1>h. \A f \in Reads : Kept(f) /\ UNCHANGED <<operation, memory, kernel, batch>>
                       => Kept(f)'
  BY DEF Kept
<1>t. Functions BY TypeOKFunctions
<1> USE DEF Functions
<1>1. CASE OpenWorkerExits(w)
  <2> USE <1>1 DEF OpenWorkerExits
  <2>1. OneWorkerPerFile' BY DEF Ownership, OneWorkerPerFile
  <2>2. PendingUntouched' BY DEF Ownership, PendingUntouched, Untouched
  <2>3. ASSUME NEW v \in Openers PROVE OpenerKept(v)'
    <3>1. OpenerKept(v) BY HeldByStage DEF Ownership
    <3>2. CASE v = w BY <3>2, <1>t DEF OpenerKept
    <3>3. CASE v # w BY <3>1, <3>3, <1>t DEF OpenerKept, Untouched
    <3> QED BY <3>2, <3>3
  <2>4. (OperationBoxed /\ OwnedHeld /\ BatchTaken)'
    BY DEF Ownership, OperationBoxed, OwnedHeld, BatchTaken
  <2>5. JoinedAfterExit' BY DEF Ownership, JoinedAfterExit
  <2> QED BY <2>1, <2>2, <2>3, <2>4, <2>5, HeldByStageNext DEF Ownership
<1>2. ASSUME NEW f \in Reads, Takes(w, f) PROVE Ownership'
  <2> USE <1>2 DEF Takes
  <2>1. Untouched(f) /\ \A v \in Openers : job[v] # f
    BY DEF Ownership, PendingUntouched
  <2>2. OpenerKept(w)' BY <2>1, <1>t DEF OpenerKept, Untouched
  <2>3. Kept(f)' BY <2>1 DEF Kept, Untouched
  <2>4. entry'[f] # "pending" BY <1>t
  <2>5. \A g \in Reads : g # f => entry'[g] = entry[g] BY <1>t
  <2> QED BY <1>l, <2>1, <2>2, <2>3, <2>4, <2>5, WorkerOwns
<1>3. CASE Announces(w)
  BY <1>3, Undisturbed DEF Announces, ownershipVars
<1>4. CASE Enters(w)
  <2> USE <1>4 DEF Enters
  <2>1. PICK f \in Reads :
          /\ f = job[w] /\ entry[f] # "pending"
          /\ \A v \in Openers : v # w => job[v] # f
          /\ OpenerKept(w) /\ Kept(f) /\ job' = [job EXCEPT ![w] = f]
    BY FileOfWorker DEF Calls
  <2>2. stage' = [stage EXCEPT ![w] = stage[w]] BY <1>t
  <2>3. PICK c \in {"runs"} \union (IF stage[w] \in WedgeAt THEN Wedges ELSE {}) :
          call' = [call EXCEPT ![w] = c]
    OBVIOUS
  <2>4. c # "none" /\ call'[w] = c /\ \A v \in Openers : v # w => call'[v] = call[v]
    BY <2>3, PoolIoAssumption, <1>t
  <2>5. \A g \in Reads : g # f => kernel'[g] = kernel[g]
    BY <2>1, <1>t
  <2>6. OpenerKept(w)'
    <3>1. CASE stage[w] = "ReadFile" BY <2>1, <2>4, <3>1, <1>t DEF OpenerKept
    <3>2. CASE stage[w] # "ReadFile" BY <2>1, <3>2 DEF OpenerKept, Untouched
    <3> QED BY <3>1, <3>2
  <2>7. Kept(f)'
    <3>1. CASE stage[w] = "ReadFile" BY <2>1, <3>1, <1>t DEF OpenerKept, Kept
    <3>2. CASE stage[w] # "ReadFile" BY <2>1, <3>2, <1>h
    <3> QED BY <3>1, <3>2
  <2> QED BY <1>l, <2>1, <2>2, <2>4, <2>5, <2>6, <2>7, WorkerOwns DEF Calls
<1>5. CASE Opens(w)
  <2> USE <1>5 DEF Opens
  <2>1. PICK f \in Reads :
          /\ f = job[w] /\ entry[f] # "pending"
          /\ \A v \in Openers : v # w => job[v] # f
          /\ OpenerKept(w) /\ Kept(f)
          /\ job' = job => job' = [job EXCEPT ![w] = f]
    BY FileOfWorker
  <2>2. \A v \in Openers : v # w => call'[v] = call[v] BY <1>t
  <2>3. PICK s \in {"opened", "scan"} :
          /\ stage' = [stage EXCEPT ![w] = s]
          /\ job' = [job EXCEPT ![w] = IF s = "scan" THEN Free ELSE f]
          /\ entry'[f] # "pending"
          /\ \A g \in Reads : g # f => entry'[g] = entry[g]
    BY <2>1, <1>t
  <2>4. OpenerKept(w)'
    BY <2>1, <2>3, <1>t DEF OpenerKept, Untouched
  <2>5. Kept(f)' BY <2>1, <1>h
  <2> QED BY <1>l, <2>1, <2>2, <2>3, <2>4, <2>5, WorkerOwns
<1>6. CASE Opened(w)
  <2> USE <1>6 DEF Opened
  <2>1. PICK f \in Reads :
          /\ f = job[w] /\ entry[f] # "pending"
          /\ \A v \in Openers : v # w => job[v] # f
          /\ OpenerKept(w) /\ Kept(f)
          /\ job' = job => job' = [job EXCEPT ![w] = f]
    BY FileOfWorker
  <2>3. PICK s \in {"CreateIoCompletionPort", "scan"} :
          /\ stage' = [stage EXCEPT ![w] = s]
          /\ job' = [job EXCEPT ![w] = IF s = "scan" THEN Free ELSE f]
          /\ entry'[f] # "pending"
          /\ \A g \in Reads : g # f => entry'[g] = entry[g]
    BY <2>1, <1>t
  <2>4. OpenerKept(w)'
    BY <2>1, <2>3, <1>t DEF OpenerKept, Untouched
  <2>5. Kept(f)' BY <2>1, <1>h
  <2> QED BY <1>l, <2>1, <2>3, <2>4, <2>5, WorkerOwns
<1>7. CASE Associates(w)
  <2> USE <1>7 DEF Associates
  <2>1. PICK f \in Reads :
          /\ f = job[w] /\ entry[f] # "pending"
          /\ \A v \in Openers : v # w => job[v] # f
          /\ OpenerKept(w) /\ Kept(f)
          /\ job' = job => job' = [job EXCEPT ![w] = f]
    BY FileOfWorker
  <2>2. \A v \in Openers : v # w => call'[v] = call[v] BY <1>t
  <2>3. PICK s \in {"lock", "scan"} :
          /\ stage' = [stage EXCEPT ![w] = s]
          /\ job' = [job EXCEPT ![w] = IF s = "scan" THEN Free ELSE f]
          /\ entry'[f] # "pending"
          /\ \A g \in Reads : g # f => entry'[g] = entry[g] /\ memory'[g] = memory[g]
          /\ s = "lock" => memory'[f] = "boxed"
          /\ s = "scan" => memory'[f] = memory[f]
    BY <2>1, <1>t
  <2>4. OpenerKept(w)'
    BY <2>1, <2>3, <1>t DEF OpenerKept, Untouched
  <2>5. Kept(f)' BY <2>1, <2>3 DEF Kept, OpenerKept, Untouched
  <2> QED BY <1>l, <2>1, <2>2, <2>3, <2>4, <2>5, WorkerOwns
<1>8. CASE LocksOperations(w)
  <2> USE <1>8 DEF LocksOperations
  <2>1. PICK f \in Reads :
          /\ f = job[w] /\ entry[f] # "pending"
          /\ \A v \in Openers : v # w => job[v] # f
          /\ OpenerKept(w) /\ Kept(f) /\ job' = [job EXCEPT ![w] = f]
    BY FileOfWorker
  <2>2. \A v \in Openers : stage[v] # "ReadFile"
    BY FreeIsNeither DEF Ownership, SubmittingLocked
  <2>3. /\ operation'[f] # None
        /\ \A g \in Reads : g # f => operation'[g] = operation[g]
    BY <2>1, WatchesKept, <1>t
  <2>4. OpenerKept(w)'
    BY <2>1, <2>3, <1>t DEF OpenerKept
  <2>5. Kept(f)' BY <2>1, <2>3 DEF Kept, OpenerKept
  <2> QED BY <2>1, <2>2, <2>3, <2>4, <2>5, WorkerOwns
<1>9. CASE SubmitsRead(w)
  <2> USE <1>9 DEF SubmitsRead
  <2>1. PICK f \in Reads :
          /\ f = job[w] /\ entry[f] # "pending"
          /\ \A v \in Openers : v # w => job[v] # f
          /\ OpenerKept(w) /\ Kept(f)
    BY FileOfWorker
  <2>2. \A v \in Openers : v # w => stage[v] # "ReadFile"
    BY DEF Ownership, SubmittingLocked
  <2>3. \A v \in Openers : v # w => call'[v] = call[v] BY <1>t
  <2>4. OpenerKept(w)' BY <1>t DEF OpenerKept
  <2>5. /\ \A g \in Reads : g # f => /\ entry'[g] = entry[g]
                                          /\ operation'[g] = operation[g]
                                          /\ memory'[g] = memory[g]
                                          /\ kernel'[g] = kernel[g]
        /\ entry'[f] # "pending"
        /\ Kept(f)'
    <3>1. CASE ReadFails(f) /\ kernel[f] = "owned"
      <4>1. /\ operation'[f] = None /\ kernel'[f] = "none"
            /\ entry'[f] # "pending"
        BY <2>1, <3>1, <1>t DEF ReadFails
      <4> QED BY <2>1, <3>1, <4>1, <1>t DEF ReadFails, Kept
    <3>2. CASE UNCHANGED <<entry, operation, memory, kernel>>
      BY <2>1, <3>2, <1>h
    <3> QED BY <2>1, <3>1, <3>2
  <2> QED BY <2>1, <2>2, <2>3, <2>4, <2>5, WorkerOwns
<1> QED BY <1>0, <1>1, <1>2, <1>3, <1>4, <1>5, <1>6, <1>7, <1>8, <1>9

(* A step that leaves the workers and the entries alone.                   *)
LEMMA OthersOwn ==
  ASSUME IoTypeOK, IoTypeOK', Ownership,
         UNCHANGED <<stage, job>>,
         \A w \in Openers : call'[w] = "none" => call[w] = "none",
         \A w \in Openers : stage[w] = "ReadFile" => operations_lock' = w,
         \A f \in Reads : entry'[f] = "pending" => entry[f] = "pending",
         \A f \in Reads : Untouched(f) => Untouched(f)',
         \A f \in Reads : Kept(f)',
         \A w \in Openers :
           /\ stage[w] = "lock" =>
                /\ operation'[job[w]] = None /\ memory'[job[w]] = "boxed"
                /\ kernel'[job[w]] = "none" /\ job[w] \notin batch'
           /\ stage[w] = "ReadFile" =>
                /\ operation'[job[w]] # None
                /\ kernel[job[w]] = "none" /\ job[w] \notin batch
                     => kernel'[job[w]] = "none" /\ job[w] \notin batch',
         JoinedAfterExit'
  PROVE  Ownership'
<1>1. OneWorkerPerFile' BY DEF Ownership, OneWorkerPerFile
<1>2. PendingUntouched'
  BY DEF Ownership, PendingUntouched
<1>3. ASSUME NEW w \in Openers PROVE OpenerKept(w)'
  <2>1. OpenerKept(w) BY HeldByStage DEF Ownership
  <2>2. CASE stage[w] \in {"CreateFileW", "opened", "CreateIoCompletionPort"}
    <3>1. PICK f \in Reads : f = job[w] BY <2>2, FileOfWorker
    <3>2. Untouched(f)' BY <2>1, <2>2, <3>1 DEF OpenerKept
    <3> QED BY <2>2, <3>1, <3>2 DEF OpenerKept
  <2>3. CASE stage[w] \notin {"CreateFileW", "opened", "CreateIoCompletionPort"}
    BY <2>1, <2>3 DEF OpenerKept
  <2> QED BY <2>2, <2>3
<1>4. batch' \subseteq Reads BY DEF IoTypeOK
<1> QED BY <1>1, <1>2, <1>3, <1>4, HeldByStageNext, KeptNext DEF Ownership

LEMMA KernelAndClockOwnership ==
  ASSUME IoTypeOK, IoTypeOK', Ownership,
         \/ \E w \in Openers : CallElapses(w)
         \/ \E f \in Reads : KernelCompletes(f) \/ OperationElapses(f)
  PROVE  Ownership'
<1> USE DEF stateVars, workerVars, operationVars, completionVars
<1>t. Functions BY TypeOKFunctions
<1>k. \A f \in Reads : Kept(f)
  BY DEF Ownership, Kept, OperationBoxed, OwnedHeld, BatchTaken
<1>h. \A w \in Openers : OpenerKept(w) BY HeldByStage DEF Ownership
<1>f. \A w \in Openers : stage[w] \in {"lock", "ReadFile"} => job[w] \in Reads
  BY FileOfWorker
<1>1. ASSUME NEW w \in Openers, CallElapses(w) PROVE Ownership'
  BY <1>1, Undisturbed DEF CallElapses, ownershipVars
<1>2. ASSUME NEW f \in Reads, KernelCompletes(f) PROVE Ownership'
  <2> USE <1>2 DEF KernelCompletes
  <2>1. kernel'[f] = "packet" /\ \A g \in Reads : g # f => kernel'[g] = kernel[g]
    BY <1>t DEF Functions
  <2>2. \A g \in Reads : Untouched(g) => Untouched(g)'
    BY <2>1 DEF Untouched
  <2>3. \A g \in Reads : Kept(g)'
    BY <1>k, <2>1 DEF Kept
  <2>4. JoinedAfterExit' BY DEF Ownership, JoinedAfterExit
  <2> QED BY <1>h, <1>f, <2>1, <2>2, <2>3, <2>4, OthersOwn DEF OpenerKept
<1>3. ASSUME NEW f \in Reads, OperationElapses(f) PROVE Ownership'
  <2> USE <1>3 DEF OperationElapses
  <2>1. /\ operation'[f] # None
        /\ \A g \in Reads : g # f => operation'[g] = operation[g]
    <3>1. operation' = [operation EXCEPT ![f] = [@ EXCEPT !.elapsed = TRUE]]
      OBVIOUS
    <3> DEFINE o == [operation[f] EXCEPT !.elapsed = TRUE]
    <3>2. o # None BY <1>t, ElapsedKept DEF Functions
    <3>3. operation' = [operation EXCEPT ![f] = o] BY <3>1
    <3> HIDE DEF o
    <3> QED BY <1>t, <3>2, <3>3 DEF Functions
  <2>2. \A g \in Reads : Untouched(g) => Untouched(g)'
    BY <2>1 DEF Untouched
  <2>3. \A g \in Reads : Kept(g)'
    BY <1>k, <2>1 DEF Kept
  <2>4. JoinedAfterExit' BY DEF Ownership, JoinedAfterExit
  <2> QED BY <1>h, <1>f, <2>1, <2>2, <2>3, <2>4, OthersOwn DEF OpenerKept
<1> QED BY <1>1, <1>2, <1>3

(* Operations change hands only while no worker submits one.               *)
LEMMA NobodySubmits ==
  ASSUME Ownership, operations_lock = Free
  PROVE  \A w \in Openers : stage[w] # "ReadFile"
BY FreeIsNeither DEF Ownership, SubmittingLocked

LEMMA CompletionOwnership ==
  ASSUME IoTypeOK, IoTypeOK', Ownership, Completion \/ PortFails
  PROVE  Ownership'
<1> USE DEF stateVars, workerVars, operationVars, completionVars
<1>t. Functions BY TypeOKFunctions
<1>k. \A f \in Reads : Kept(f)
  BY DEF Ownership, Kept, OperationBoxed, OwnedHeld, BatchTaken
<1>h. \A w \in Openers : OpenerKept(w) BY HeldByStage DEF Ownership
<1>f. \A w \in Openers : stage[w] \in {"lock", "ReadFile"} => job[w] \in Reads
  BY FileOfWorker
<1>1. CASE Dequeues
  <2> USE <1>1 DEF Dequeues
  <2>1. PICK B \in SUBSET Packets :
          /\ batch' = B
          /\ kernel' = [f \in Reads |-> IF f \in B THEN "none" ELSE kernel[f]]
    OBVIOUS
  <2>2. \A f \in Reads : /\ f \in batch' => kernel[f] = "packet" /\ kernel'[f] = "none"
                         /\ f \notin batch' => kernel'[f] = kernel[f]
    BY <2>1 DEF Packets
  <2>3. \A f \in Reads : Untouched(f) => Untouched(f)'
    BY <2>2 DEF Untouched
  <2>4. \A f \in Reads : Kept(f)'
    BY <1>k, <2>2 DEF Kept
  <2>5. \A w \in Openers : stage[w] = "ReadFile" => operations_lock' = w
    BY DEF Ownership, SubmittingLocked
  <2>6. JoinedAfterExit' BY DEF Ownership, JoinedAfterExit
  <2> QED BY <1>h, <1>f, <2>2, <2>3, <2>4, <2>5, <2>6, OthersOwn DEF OpenerKept
<1>2. CASE CancelsAll
  <2> USE <1>2 DEF CancelsAll
  <2>1. \A f \in Reads : operation'[f] = None <=> operation[f] = None
    BY <1>t, WatchesKept DEF Functions
  <2>2. \A f \in Reads : Untouched(f) => Untouched(f)'
    BY <2>1 DEF Untouched
  <2>3. \A f \in Reads : Kept(f)'
    BY <1>k, <2>1 DEF Kept
  <2>4. JoinedAfterExit' BY DEF Ownership, JoinedAfterExit
  <2> QED BY <1>h, <1>f, <2>1, <2>2, <2>3, <2>4, NobodySubmits, OthersOwn
      DEF OpenerKept
<1>3. ASSUME NEW f \in Reads, ReadCompletes(f) PROVE Ownership'
  <2> USE <1>3 DEF ReadCompletes
  <2>1. /\ \A g \in Reads : g # f => /\ entry'[g] = entry[g]
                                     /\ operation'[g] = operation[g]
                                     /\ memory'[g] = memory[g]
        /\ entry'[f] = "pending" => entry[f] = "pending"
        /\ operation'[f] = None
        /\ memory'[f] \in {memory[f], "freed"}
    <3>1. CASE operation[f] = None BY <3>1
    <3>2. CASE operation[f] # None
      <4>1. PICK s \in {"ready", "failed"} :
              entry' = [entry EXCEPT ![f] =
                          IF shutdown \/ @ = "absent" THEN "absent" ELSE s]
        BY <3>2
      <4> QED BY <1>t, <3>2, <4>1 DEF Functions
    <3> QED BY <3>1, <3>2
  <2>2. kernel[f] = "none" BY <1>k DEF Kept
  <2>3. \A g \in Reads : Untouched(g) => Untouched(g)'
    BY <2>1 DEF Untouched
  <2>4. \A g \in Reads : Kept(g)'
    BY <1>k, <2>1, <2>2 DEF Kept
  <2>5. JoinedAfterExit' BY DEF Ownership, JoinedAfterExit
  <2>6. \A w \in Openers : stage[w] = "lock" => job[w] # f
    BY <1>h DEF OpenerKept
  <2> QED BY <1>h, <1>f, <2>1, <2>3, <2>4, <2>5, <2>6, NobodySubmits, OthersOwn
          DEF OpenerKept
<1>4. CASE WatchesCalls
  <2> USE <1>4 DEF WatchesCalls
  <2>1. \A w \in Openers : call'[w] = "none" => call[w] = "none"
    BY <1>t DEF Functions
  <2>2. \A f \in Reads : Untouched(f) => Untouched(f)'
    BY DEF Untouched
  <2>3. \A f \in Reads : Kept(f)'
    BY <1>k DEF Kept
  <2>4. \A w \in Openers : stage[w] = "ReadFile" => operations_lock' = w
    BY DEF Ownership, SubmittingLocked
  <2>5. JoinedAfterExit' BY DEF Ownership, JoinedAfterExit
  <2>6. UNCHANGED <<stage, job, entry>>
    OBVIOUS
  <2> QED BY <1>h, <1>f, <2>1, <2>2, <2>3, <2>4, <2>5, <2>6, OthersOwn
             DEF OpenerKept
<1>5. CASE WatchesOperations
  <2> USE <1>5 DEF WatchesOperations
  <2>1. CASE UNCHANGED <<operation, memory>>
    BY <2>1, Undisturbed DEF ownershipVars
  <2>2. CASE operations_lock = Free /\ Leak
    <3>1. \A f \in Reads :
            /\ operation'[f] = None
            /\ memory'[f] = IF operation[f] # None THEN "leaked" ELSE memory[f]
      BY <2>2 DEF Leak
    <3>2. \A f \in Reads : Untouched(f) => Untouched(f)'
      BY <3>1 DEF Untouched
    <3>3. \A f \in Reads : Kept(f)'
      BY <1>k, <3>1 DEF Kept
    <3>4. JoinedAfterExit' BY DEF Ownership, JoinedAfterExit
    <3>5. UNCHANGED <<stage, job, call, entry, kernel, batch>> OBVIOUS
    <3> QED BY <1>h, <1>f, <2>2, <3>1, <3>2, <3>3, <3>4, <3>5, NobodySubmits,
               OthersOwn DEF OpenerKept
  <2>3. CASE /\ operations_lock = Free /\ UNCHANGED memory
             /\ operation' = [f \in Reads |->
                  IF /\ operation[f] # None /\ ~operation[f].asked
                     /\ seen_shutdown \/ operation[f].elapsed
                  THEN Asked(operation[f]) ELSE operation[f]]
    <3>1. \A f \in Reads : operation'[f] = None <=> operation[f] = None
      BY <1>t, <2>3, WatchesKept DEF Functions
    <3>2. \A f \in Reads : Untouched(f) => Untouched(f)'
      BY <2>3, <3>1 DEF Untouched
    <3>3. \A f \in Reads : Kept(f)'
      BY <1>k, <2>3, <3>1 DEF Kept
    <3>4. JoinedAfterExit' BY DEF Ownership, JoinedAfterExit
    <3>5. UNCHANGED <<stage, job, call, entry, kernel, batch>> OBVIOUS
    <3> QED BY <1>h, <1>f, <2>3, <3>1, <3>2, <3>3, <3>4, <3>5, NobodySubmits,
               OthersOwn DEF OpenerKept
  <2> QED BY <2>1, <2>2, <2>3
<1>6. CASE PollsNothing \/ BatchEnds \/ WatchStarts \/ ChecksShutdown
           \/ ChecksActivities \/ ChecksOperations \/ PortFails
  BY <1>6, Undisturbed
      DEF PollsNothing, BatchEnds, WatchStarts, ChecksShutdown,
     ChecksActivities, ChecksOperations, PortFails, ownershipVars
<1> QED BY <1>1, <1>2, <1>3, <1>4, <1>5, <1>6 DEF Completion

LEMMA OwnerOwnership ==
  ASSUME IoTypeOK, IoTypeOK', Ownership, Owner
  PROVE  Ownership'
<1> USE DEF OwnerSide, stateVars, workerVars, completionVars
<1>t. Functions BY TypeOKFunctions
<1>k. \A f \in Reads : Kept(f)
  BY DEF Ownership, Kept, OperationBoxed, OwnedHeld, BatchTaken
<1>1. CASE OwnerBegins
  <2> USE <1>1 DEF OwnerBegins
  <2>1. JoinedAfterExit' BY DEF JoinedAfterExit
  <2> QED BY <2>1 DEF Ownership, OneWorkerPerFile, PendingUntouched, Untouched,
          OpeningUntouched, LockingBoxed, SubmittingLocked, OperationBoxed,
          OwnedHeld, BatchTaken
<1>2. CASE WorkersJoined
  <2> USE <1>2 DEF WorkersJoined
  <2>1. \A f \in Reads : operation'[f] = None <=> operation[f] = None
    BY <1>t, WatchesKept DEF Functions
  <2>2. \A f \in Reads : Untouched(f) => Untouched(f)'
    BY <2>1 DEF Untouched
  <2>3. \A f \in Reads : Kept(f)'
    BY <1>k, <2>1 DEF Kept
  <2>4. JoinedAfterExit' BY DEF JoinedAfterExit
  <2> QED BY <2>2, <2>3, <2>4, OthersOwn
<1>3. CASE CompletionJoined
  <2> USE <1>3 DEF CompletionJoined
  <2>1. \A w \in Openers : stage[w] = "exited"
    BY DEF Ownership, JoinedAfterExit
  <2>2. \A f \in Reads :
          /\ operation'[f] = None
          /\ memory'[f] = IF operation[f] # None THEN "leaked" ELSE memory[f]
    BY DEF Leak
  <2>3. \A f \in Reads : Untouched(f) => Untouched(f)'
    BY <2>2 DEF Untouched
  <2>4. \A f \in Reads : Kept(f)'
    BY <1>k, <2>2 DEF Kept
  <2>5. JoinedAfterExit' BY <2>1 DEF JoinedAfterExit
  <2> QED BY <2>1, <2>3, <2>4, <2>5, OthersOwn
<1> QED BY <1>1, <1>2, <1>3 DEF Owner

LEMMA InitOwnership == IoInit => Ownership
BY FreeIsNeither
    DEF IoInit, Ownership, OneWorkerPerFile, PendingUntouched, Untouched,
   OpeningUntouched, LockingBoxed, SubmittingLocked, OperationBoxed,
   OwnedHeld, BatchTaken, JoinedAfterExit

(* A file belongs to one worker at a time, and its operation, its memory   *)
(* and what the kernel does with it agree with the stage that worker is in.*)
THEOREM OwnershipKept == IoSpec => []Ownership
<1>1. ASSUME IoTypeOK, IoTypeOK', Ownership, [IoNext]_ioVars PROVE Ownership'
  <2>1. CASE IoNext
    BY <1>1, <2>1, WorkerOwnership, KernelAndClockOwnership,
       CompletionOwnership, OwnerOwnership DEF IoNext
  <2>2. CASE UNCHANGED ioVars
    BY <1>1, <2>2, Undisturbed
       DEF ioVars, stateVars, workerVars, operationVars,
       completionVars, ownershipVars
  <2> QED BY <1>1, <2>1, <2>2
<1> QED BY <1>1, InitOwnership, IoTypeCorrect, PTL DEF IoSpec

(* Whoever gives a read up - its completion, the watchdog that leaks it or *)
(* shutdown - its OVERLAPPED and its buffer are not freed while the kernel *)
(* may write to them or a worker is still in ReadFile with them.           *)
THEOREM ReadsStayAlive == IoSpec => []OperationAlive
<1>1. ASSUME IoTypeOK, Ownership PROVE OperationAlive
  <2>1. ASSUME NEW f \in Reads, kernel[f] = "owned"
        PROVE  memory[f] \in {"boxed", "leaked"}
    BY <1>1, <2>1 DEF Ownership, OperationBoxed, OwnedHeld
  <2>2. ASSUME NEW w \in Openers, stage[w] = "ReadFile"
        PROVE  memory[job[w]] # "freed"
    <3>1. job[w] \in Reads BY <1>1, <2>2, FileOfWorker
    <3> QED BY <1>1, <2>2, <3>1 DEF Ownership, OperationBoxed, SubmittingLocked
  <2> QED BY <2>1, <2>2 DEF OperationAlive
<1> QED BY <1>1, OwnershipKept, IoTypeCorrect, PTL
=============================================================================
