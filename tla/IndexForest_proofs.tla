------------------------- MODULE IndexForest_proofs -------------------------
(***************************************************************************)
(* The chains of an index under construction, for documents and stores of  *)
(* any size.  The chains are followed by two ghosts: F[d] and G[d] are the *)
(* offsets, in order, of the file and the directory entries that hang in   *)
(* the chains of directory d, -1 being the root.  Forest(s, F, G, dep,     *)
(* open, stale) says that every entry of the file index hangs in exactly   *)
(* one of them, that every directory is a child once, one level (dep)      *)
(* below its parent, and that headers state what hangs, but for the        *)
(* directories that are open or whose header is stale.                     *)
(*                                                                         *)
(* From that follow NothingLost (ForestLosesNothing) and that every chain  *)
(* reads back whole.  A parse keeps it event by event (Parsing,            *)
(* SourceParses), and a store appended to another gives the forest of      *)
(* both, side by side. The induction over a document is by the least event *)
(* at which the fact would fail.                                           *)
(*                                                                         *)
(* Which documents parse at all is said last (CompleteParses), of the      *)
(* kinds of the frames on the stack alone: as many are above the one an    *)
(* element opened as elements are open in it (Descended, Depth).           *)
(*                                                                         *)
(* Then what the sort of a directory needs: its order, as the number of    *)
(* entries ahead of one; chunks, sorted runs and the heap that merges them; *)
(* and chains that can be followed although more hangs behind their end,   *)
(* which is what an index is after one of its directories was sorted.      *)
(***************************************************************************)
EXTENDS IndexSort, FiniteSetTheorems, SequenceTheorems, TLAPS

(***************************************************************************)
(* Chains.                                                                 *)
(***************************************************************************)

Linkable(list) ==
  /\ Len(list) \in Nat /\ DOMAIN list = 1..Len(list)
  /\ \A k \in 1..Len(list) : list[k].next \in Int

SmallerNat == {p \in Nat \X Nat : p[1] < p[2]}

LEMMA SmallerWellFounded == IsWellFoundedOn(SmallerNat, Nat)
BY NatLessThanWellFounded DEF SmallerNat, OpToRel

LEMMA LeastNat ==
  ASSUME NEW T, T \subseteq Nat, T # {}
  PROVE  \E x \in T : \A y \in T : x <= y
<1>1. PICK x \in T : \A y \in T : ~ (<<y, x>> \in SmallerNat)
  BY SmallerWellFounded, WFMin
<1>2. ASSUME NEW y \in T PROVE x <= y
  <2>1. x \in Nat /\ y \in Nat OBVIOUS
  <2>2. ~ (y < x)
    <3> SUFFICES ASSUME y < x PROVE FALSE OBVIOUS
    <3>1. <<y, x>> \in Nat \X Nat BY <2>1
    <3>2. <<y, x>>[1] < <<y, x>>[2] OBVIOUS
    <3>3. <<y, x>> \in SmallerNat BY <3>1, <3>2 DEF SmallerNat
    <3> QED BY <3>3, <1>1
  <2> QED BY <2>1, <2>2
<1> QED BY <1>2

(* f is the function Walk is defined by.                                   *)
IsWalk(list, first, n, f) ==
  f = [k \in 0..n |->
           IF k = 0 THEN <<>>
           ELSE IF k = 1 THEN <<first>>
           ELSE Append(f[k - 1], Successor(list, Last(f[k - 1])))]

LEMMA WalkExists ==
  ASSUME NEW list, NEW first, NEW n \in Nat
  PROVE  \E f : IsWalk(list, first, n, f)
<1> DEFINE Step(s, k) == IF k = 1 THEN <<first>>
                         ELSE Append(s, Successor(list, Last(s)))
           Rec(m, f) == f = [k \in 0..m |-> IF k = 0 THEN <<>>
                                            ELSE Step(f[k - 1], k)]
           T == {m \in 0..n : ~ \E f : Rec(m, f)}
<1>1. T = {}
  <2> SUFFICES ASSUME T # {} PROVE FALSE OBVIOUS
  <2> HIDE DEF Step
  <2>1. PICK m \in T : \A j \in T : m <= j
    <3>1. T \subseteq Nat OBVIOUS
    <3> HIDE DEF T
    <3> QED BY <3>1, LeastNat
  <2>2. m # 0
    <3> SUFFICES ASSUME m = 0 PROVE FALSE OBVIOUS
    <3>1. Rec(0, [k \in 0..0 |-> <<>>]) OBVIOUS
    <3> HIDE DEF Rec
    <3> QED BY <3>1, <2>1
  <2>3. m \in 1..n /\ m - 1 \in 0..n /\ m - 1 \notin T BY <2>1, <2>2
  <2>4. PICK f : Rec(m - 1, f) BY <2>3
  <2> DEFINE g == [k \in 0..m |-> IF k = 0 THEN <<>> ELSE Step(f[k - 1], k)]
  <2>5. ASSUME NEW k \in 1..m PROVE g[k - 1] = f[k - 1]
    <3>1. k - 1 \in 0..m /\ k - 1 \in 0..(m - 1) BY <2>3
    <3> QED BY <3>1, <2>4
  <2>6. ASSUME NEW k \in 0..m
        PROVE  g[k] = IF k = 0 THEN <<>> ELSE Step(g[k - 1], k)
    <3>1. CASE k = 0 BY <3>1
    <3>2. CASE k # 0
      <4>1. k \in 1..m BY <3>2, <2>3
      <4>2. g[k] = Step(f[k - 1], k) BY <3>2
      <4> HIDE DEF g
      <4> QED BY <4>1, <4>2, <3>2, <2>5
    <3> QED BY <3>1, <3>2
  <2>7. g = [k \in 0..m |-> g[k]] OBVIOUS
  <2>8. Rec(m, g)
    <3> HIDE DEF g
    <3> QED BY <2>6, <2>7
  <2> HIDE DEF Rec, g
  <2> QED BY <2>8, <2>1
<1>2. PICK f : Rec(n, f)
  <2> HIDE DEF Rec
  <2> QED BY <1>1
<1>3. Rec(n, f) <=> IsWalk(list, first, n, f) BY DEF IsWalk
<1> QED BY <1>2, <1>3

LEMMA WalkSteps ==
  ASSUME NEW list, Linkable(list), NEW first \in Int, NEW n \in Nat
  PROVE  /\ Walk(list, first, n) \in Seq(Int)
         /\ Len(Walk(list, first, n)) = n
         /\ n > 0 => Walk(list, first, n)[1] = first
         /\ \A k \in 1..(n - 1) :
              Walk(list, first, n)[k + 1] =
                Successor(list, Walk(list, first, n)[k])
<1> DEFINE walk == CHOOSE f : IsWalk(list, first, n, f)
           Good(k) == /\ walk[k] \in Seq(Int) /\ Len(walk[k]) = k
                      /\ k > 0 => walk[k][1] = first
                      /\ \A j \in 1..(k - 1) :
                           walk[k][j + 1] = Successor(list, walk[k][j])
           T == {k \in 0..n : ~Good(k)}
<1>1. IsWalk(list, first, n, walk) BY WalkExists
<1>2. Walk(list, first, n) = walk[n] BY DEF Walk, IsWalk
<1>3. /\ walk[0] = <<>>
      /\ n >= 1 => walk[1] = <<first>>
      /\ \A k \in 2..n : walk[k] =
           Append(walk[k - 1], Successor(list, Last(walk[k - 1])))
  <2> HIDE DEF walk
  <2>1. ASSUME NEW k \in 0..n
        PROVE  walk[k] = IF k = 0 THEN <<>>
                         ELSE IF k = 1 THEN <<first>>
                         ELSE Append(walk[k - 1], Successor(list, Last(walk[k - 1])))
    BY <1>1, Zenon DEF IsWalk
  <2>2. 0 \in 0..n /\ (n >= 1 => 1 \in 0..n)
        /\ \A k \in 2..n : k \in 0..n /\ k # 0 /\ k # 1
    OBVIOUS
  <2>3. walk[0] = <<>> BY <2>1, <2>2, Zenon
  <2>4. n >= 1 => walk[1] = <<first>>
    <3> SUFFICES ASSUME n >= 1 PROVE walk[1] = <<first>> OBVIOUS
    <3>1. 1 \in 0..n /\ 1 # 0 BY <2>2
    <3> QED BY <2>1, <3>1, Zenon
  <2>5. ASSUME NEW k \in 2..n
        PROVE  walk[k] = Append(walk[k - 1], Successor(list, Last(walk[k - 1])))
    <3>1. k \in 0..n /\ k # 0 /\ k # 1 BY <2>2
    <3> QED BY <2>1, <3>1, Zenon
  <2> QED BY <2>3, <2>4, <2>5
<1>4. \A x \in Int : Successor(list, x) \in Int
  <2> SUFFICES ASSUME NEW x \in Int PROVE Successor(list, x) \in Int OBVIOUS
  <2>1. CASE x \in 0..(Len(list) - 1)
    <3>1. x + 1 \in 1..Len(list) BY <2>1 DEF Linkable
    <3> QED BY <3>1, <2>1 DEF Linkable, Successor
  <2>2. CASE x \notin 0..(Len(list) - 1) BY <2>2 DEF Successor
  <2> QED BY <2>1, <2>2
<1> HIDE DEF walk
<1>5. T = {}
  <2> SUFFICES ASSUME T # {} PROVE FALSE OBVIOUS
  <2>1. PICK m \in T : \A j \in T : m <= j
    <3>1. T \subseteq Nat OBVIOUS
    <3> HIDE DEF T
    <3> QED BY <3>1, LeastNat
  <2>2. CASE m = 0
    <3>1. walk[0] = <<>> BY <1>3
    <3>2. Good(0) BY <3>1
    <3> QED BY <3>2, <2>2, <2>1
  <2>3. CASE m = 1
    <3>1. walk[1] = <<first>> BY <1>3, <2>3, <2>1
    <3>2. Good(1) BY <3>1
    <3> QED BY <3>2, <2>3, <2>1
  <2>4. CASE m > 1
    <3>1. m \in 2..n /\ m - 1 \in 0..n /\ m - 1 \notin T BY <2>1, <2>4
    <3> DEFINE s == walk[m - 1]  next == Successor(list, Last(s))
    <3>2. Good(m - 1) BY <3>1
    <3>3. s \in Seq(Int) /\ Len(s) = m - 1 /\ s[1] = first
          /\ \A j \in 1..(m - 2) : s[j + 1] = Successor(list, s[j])
      BY <3>2, <3>1
    <3>4. walk[m] = Append(s, next) BY <1>3, <3>1
    <3> HIDE DEF s
    <3>5. Last(s) = s[m - 1] /\ s[m - 1] \in Int
      BY <3>3, <3>1, ElementOfSeq DEF Last
    <3>6. next \in Int BY <3>5, <1>4
    <3>7. /\ walk[m] \in Seq(Int) /\ Len(walk[m]) = m
          /\ \A j \in 1..(m - 1) : walk[m][j] = s[j]
          /\ walk[m][m] = next
      <4> HIDE DEF next
      <4> QED BY <3>3, <3>4, <3>6, <3>1, AppendProperties
    <3>8. ASSUME NEW j \in 1..(m - 1)
          PROVE  walk[m][j + 1] = Successor(list, walk[m][j])
      <4>1. CASE j = m - 1 BY <4>1, <3>7, <3>5, <3>1
      <4>2. CASE j # m - 1
        <5>1. j \in 1..(m - 2) /\ j + 1 \in 1..(m - 1) BY <4>2, <3>1
        <5> QED BY <5>1, <3>7, <3>3
      <4> QED BY <4>1, <4>2
    <3>9. walk[m][1] = first BY <3>7, <3>3, <3>1
    <3>10. Good(m) BY <3>7, <3>8, <3>9
    <3> QED BY <3>10, <2>1
  <2> QED BY <2>1, <2>2, <2>3, <2>4
<1>6. Good(n)
  <2> HIDE DEF Good
  <2> QED BY <1>5
<1> QED BY <1>2, <1>6

FirstOf(s) == IF s = <<>> THEN -1 ELSE s[1]
LastOf(s) == IF s = <<>> THEN -1 ELSE s[Len(s)]
ChainOf(s) == [first |-> FirstOf(s), last |-> LastOf(s), count |-> Len(s)]

(* The entries s are linked one to the next, the last one to none.         *)
Path(list, s) ==
  /\ s \in Seq(0..(Len(list) - 1))
  /\ \A k \in 1..Len(s) :
       list[s[k] + 1].next = IF k < Len(s) THEN s[k + 1] ELSE -1

(* F gives every owner its chain; no entry is in two places.               *)
Lists(list, F) ==
  /\ \A d \in DOMAIN F : Path(list, F[d])
  /\ \A d, e \in DOMAIN F : \A j \in 1..Len(F[d]), k \in 1..Len(F[e]) :
       F[d][j] = F[e][k] => d = e /\ j = k

(* Entries of a kind: only their link changes.                             *)
LinkSet(E) ==
  \A x \in E :
    /\ x.next \in Int /\ x = [x EXCEPT !.next = x.next]
    /\ \A v \in Int : /\ [x EXCEPT !.next = v] \in E
                      /\ [x EXCEPT !.next = v].next = v

Relinked(list, new) ==
  /\ Len(new) = Len(list)
  /\ \A k \in 1..Len(list) : new[k] = [list[k] EXCEPT !.next = new[k].next]

LEMMA LinkableSeq ==
  ASSUME NEW E, LinkSet(E), NEW list \in Seq(E)
  PROVE  Linkable(list)
<1>1. Len(list) \in Nat /\ DOMAIN list = 1..Len(list)
  BY LenProperties
<1>2. \A k \in 1..Len(list) : list[k] \in E
  BY ElementOfSeq
<1> QED BY <1>1, <1>2 DEF LinkSet, Linkable

LEMMA PathEntry ==
  ASSUME NEW list, Linkable(list), NEW s, Path(list, s)
  PROVE  /\ Len(s) \in Nat /\ DOMAIN s = 1..Len(s)
         /\ s \in Seq(Nat) /\ s \in Seq(Int)
         /\ \A k \in 1..Len(s) : /\ s[k] \in Nat /\ s[k] < Len(list)
                                 /\ s[k] \in 0..(Len(list) - 1)
                                 /\ s[k] + 1 \in 1..Len(list)
         /\ (s = <<>>) <=> (Len(s) = 0)
         /\ FirstOf(s) \in Int /\ LastOf(s) \in Int
         /\ FirstOf(s) = IF Len(s) = 0 THEN -1 ELSE s[1]
         /\ LastOf(s) = IF Len(s) = 0 THEN -1 ELSE s[Len(s)]
<1>1. s \in Seq(0..(Len(list) - 1)) /\ Len(list) \in Nat
  BY DEF Path, Linkable
<1>2. Len(s) \in Nat /\ DOMAIN s = 1..Len(s)
  BY <1>1, LenProperties
<1>3. \A k \in 1..Len(s) : s[k] \in 0..(Len(list) - 1)
  BY <1>1, ElementOfSeq
<1>4. \A k \in 1..Len(s) : /\ s[k] \in Nat /\ s[k] < Len(list)
                           /\ s[k] + 1 \in 1..Len(list)
  BY <1>3, <1>1
<1>5. (s = <<>>) <=> (Len(s) = 0)
  BY <1>1, EmptySeq
<1>6. s \in Seq(Nat) /\ s \in Seq(Int)
  <2>1. 0..(Len(list) - 1) \subseteq Nat BY <1>1
  <2> QED BY <1>1, <2>1
<1>7. Len(s) # 0 => 1 \in 1..Len(s) /\ Len(s) \in 1..Len(s)
  BY <1>2
<1>8. /\ FirstOf(s) = IF Len(s) = 0 THEN -1 ELSE s[1]
      /\ LastOf(s) = IF Len(s) = 0 THEN -1 ELSE s[Len(s)]
  BY <1>5 DEF FirstOf, LastOf
<1>9. FirstOf(s) \in Int /\ LastOf(s) \in Int
  <2>1. CASE Len(s) = 0 BY <2>1, <1>8
  <2>2. CASE Len(s) # 0 
    <3>1. s[1] \in Nat /\ s[Len(s)] \in Nat BY <2>2, <1>7, <1>4
    <3> QED BY <2>2, <1>8, <3>1
  <2> QED BY <2>1, <2>2
<1> QED BY <1>2, <1>3, <1>4, <1>5, <1>6, <1>8, <1>9

(* A walk along a chain, and past its end.                                 *)
LEMMA PathWalk ==
  ASSUME NEW list, Linkable(list), NEW s, Path(list, s), NEW n \in Nat
  PROVE  \A k \in 1..n : Walk(list, FirstOf(s), n)[k]
                           = IF k <= Len(s) THEN s[k] ELSE -1
<1> DEFINE walk == Walk(list, FirstOf(s), n)
           Good(k) == walk[k] = IF k <= Len(s) THEN s[k] ELSE -1
           T == {k \in 1..n : ~Good(k)}
<1>1. /\ Len(s) \in Nat
      /\ \A k \in 1..Len(s) : s[k] \in 0..(Len(list) - 1)
      /\ FirstOf(s) = IF Len(s) = 0 THEN -1 ELSE s[1]
      /\ FirstOf(s) \in Int
  BY PathEntry
<1>2. /\ n > 0 => walk[1] = FirstOf(s)
      /\ \A k \in 1..(n - 1) : walk[k + 1] = Successor(list, walk[k])
  BY <1>1, WalkSteps
<1>3. Successor(list, -1) = -1
  <2>1. -1 \notin 0..(Len(list) - 1) BY DEF Linkable
  <2> QED BY <2>1 DEF Successor
<1>4. \A k \in 1..Len(s) : Successor(list, s[k])
                             = IF k < Len(s) THEN s[k + 1] ELSE -1
  BY <1>1 DEF Path, Successor
<1> HIDE DEF walk
<1>5. T = {}
  <2> SUFFICES ASSUME T # {} PROVE FALSE OBVIOUS
  <2>1. PICK m \in T : \A j \in T : m <= j
    <3>1. T \subseteq Nat OBVIOUS
    <3> HIDE DEF T
    <3> QED BY <3>1, LeastNat
  <2>2. CASE m = 1
    <3>1. Good(1) BY <2>2, <2>1, <1>1, <1>2
    <3> QED BY <3>1, <2>2, <2>1
  <2>3. CASE m # 1
    <3>1. m - 1 \in 1..(n - 1) /\ m - 1 \notin T /\ m - 1 \in 1..n
      BY <2>1, <2>3
    <3>2. Good(m - 1) BY <3>1
    <3>3. walk[m] = Successor(list, walk[m - 1])
      <4>1. walk[(m - 1) + 1] = Successor(list, walk[m - 1]) BY <3>1, <1>2
      <4> QED BY <4>1, <2>1
    <3>4. CASE m - 1 <= Len(s)
      <4>1. m - 1 \in 1..Len(s) BY <3>4, <3>1, <1>1
      <4>2. walk[m] = IF m - 1 < Len(s) THEN s[(m - 1) + 1] ELSE -1
        BY <4>1, <3>2, <3>3, <3>4, <1>4
      <4>3. (m - 1) + 1 = m /\ (m - 1 < Len(s) <=> m <= Len(s))
        BY <1>1, <2>1
      <4>4. Good(m) BY <4>2, <4>3
      <4> QED BY <4>4, <2>1
    <3>5. CASE ~ (m - 1 <= Len(s))
      <4>1. walk[m] = -1 BY <3>5, <3>2, <3>3, <1>3
      <4>2. ~ (m <= Len(s)) BY <3>5, <1>1, <2>1
      <4>3. Good(m) BY <4>1, <4>2
      <4> QED BY <4>3, <2>1
    <3> QED BY <3>4, <3>5
  <2> QED BY <2>2, <2>3
<1> QED BY <1>5 DEF walk

LEMMA PathReads ==
  ASSUME NEW list, Linkable(list), NEW s, Path(list, s)
  PROVE  /\ Readable(list, FirstOf(s), Len(s))
         /\ ReadChain(list, FirstOf(s), Len(s)) = ChainOf(s)
<1> DEFINE walk == Walk(list, FirstOf(s), Len(s))
<1>1. /\ Len(s) \in Nat
      /\ \A k \in 1..Len(s) : s[k] \in 0..(Len(list) - 1)
      /\ FirstOf(s) = IF Len(s) = 0 THEN -1 ELSE s[1]
      /\ LastOf(s) = IF Len(s) = 0 THEN -1 ELSE s[Len(s)]
  BY PathEntry
<1>2. \A k \in 1..Len(s) : walk[k] = s[k]
  BY <1>1, PathWalk
<1>3. Len(s) # 0 => Len(s) \in 1..Len(s)
  BY <1>1
<1>4. Len(s) # 0 => list[walk[Len(s)] + 1].next = -1
  BY <1>1, <1>2, <1>3 DEF Path
<1> HIDE DEF walk
<1>5. Readable(list, FirstOf(s), Len(s))
  <2>1. Readable(list, FirstOf(s), Len(s)) <=>
          IF Len(s) = 0 THEN FirstOf(s) = -1
          ELSE /\ \A k \in 1..Len(s) : walk[k] \in 0..(Len(list) - 1)
               /\ list[walk[Len(s)] + 1].next = -1
    BY DEF Readable, walk
  <2> QED BY <2>1, <1>1, <1>2, <1>4
<1>6. ReadChain(list, FirstOf(s), Len(s)) = ChainOf(s)
  <2>1. (IF Len(s) = 0 THEN -1 ELSE walk[Len(s)]) = LastOf(s)
    BY <1>1, <1>2, <1>3
  <2> QED BY <2>1 DEF ReadChain, ChainOf, walk
<1> QED BY <1>5, <1>6

Among(s) == {s[k] : k \in 1..Len(s)}

LEMMA PathFollow ==
  ASSUME NEW list, Linkable(list), NEW s, Path(list, s),
         \A j, k \in 1..Len(s) : s[j] = s[k] => j = k
  PROVE  Follow(list, FirstOf(s)) = Among(s)
<1> DEFINE n == Len(list)
           walk == Walk(list, FirstOf(s), n)
<1>1. /\ Len(s) \in Nat /\ DOMAIN s = 1..Len(s)
      /\ \A k \in 1..Len(s) : s[k] \in 0..(Len(list) - 1) /\ s[k] \in Nat
  BY PathEntry
<1>2. n \in Nat BY DEF Linkable
<1>3. Len(s) <= n
  <2>1. /\ IsFiniteSet(1..Len(s)) /\ Cardinality(1..Len(s)) = Len(s)
        /\ IsFiniteSet(0..(n - 1)) /\ Cardinality(0..(n - 1)) = n
    <3>1. /\ IsFiniteSet(1..Len(s))
          /\ Cardinality(1..Len(s)) = IF 1 > Len(s) THEN 0 ELSE Len(s) - 1 + 1
      BY <1>1, FS_Interval
    <3>2. /\ IsFiniteSet(0..(n - 1))
          /\ Cardinality(0..(n - 1))
               = IF 0 > n - 1 THEN 0 ELSE (n - 1) - 0 + 1
      BY <1>2, FS_Interval
    <3> HIDE DEF n
    <3> QED BY <3>1, <3>2, <1>1, <1>2
  <2>2. SUFFICES ASSUME Cardinality(0..(n - 1)) < Cardinality(1..Len(s))
                 PROVE  FALSE
    BY <2>1, <1>1, <1>2
  <2>3. s \in [1..Len(s) -> 0..(n - 1)]
    BY <1>1 DEF Path
  <2>4. PICK j, k \in 1..Len(s) : j # k /\ s[j] = s[k]
    <3> HIDE DEF n
    <3> DEFINE A == 1..Len(s)  B == 0..(n - 1)
    <3>1. /\ IsFiniteSet(A) /\ IsFiniteSet(B)
          /\ Cardinality(B) < Cardinality(A) /\ s \in [A -> B]
      BY <2>1, <2>2, <2>3
    <3> HIDE DEF A, B
    <3>2. \E x, y \in A : x # y /\ s[x] = s[y]
      BY <3>1, FS_PigeonHole
    <3> QED BY <3>2 DEF A
  <2> QED BY <2>4
<1>4. \A k \in 1..n : walk[k] = IF k <= Len(s) THEN s[k] ELSE -1
  BY <1>2, PathWalk
<1>5. Follow(list, FirstOf(s)) = {walk[k] : k \in {j \in 1..n : walk[j] >= 0}}
  BY DEF Follow
<1> HIDE DEF n, walk
<1>6. ASSUME NEW k \in 1..n
      PROVE  walk[k] >= 0 <=> k <= Len(s)
  <2>1. CASE k <= Len(s)
    <3>1. k \in 1..Len(s) BY <2>1, <1>1
    <3> QED BY <3>1, <1>1, <1>4
  <2>2. CASE ~ (k <= Len(s))
    <3>1. walk[k] = -1 BY <2>2, <1>4
    <3> QED BY <2>2, <3>1
  <2> QED BY <2>1, <2>2
<1>7. {j \in 1..n : walk[j] >= 0} = 1..Len(s)
  BY <1>6, <1>1, <1>2, <1>3
<1>8. \A k \in 1..Len(s) : walk[k] = s[k]
  BY <1>1, <1>2, <1>3, <1>4
<1> QED BY <1>5, <1>7, <1>8 DEF Among

(* A link is set: nothing else changes.                                    *)
SetNext(list, i, v) == [list EXCEPT ![i].next = v]

IsSetNext(E, list, i, v, new) ==
  /\ new \in Seq(E)
  /\ Relinked(list, new)
  /\ \A k \in 1..Len(list) :
       new[k].next = IF k = i THEN v ELSE list[k].next

LEMMA LinkedSeq ==
  ASSUME NEW E, LinkSet(E), NEW list \in Seq(E), NEW i \in 1..Len(list),
         NEW v \in Int
  PROVE  IsSetNext(E, list, i, v, SetNext(list, i, v))
<1> DEFINE new == SetNext(list, i, v)
<1> DEFINE e == [list[i] EXCEPT !.next = v]
<1>1. list[i] \in E /\ e \in E
  BY ElementOfSeq DEF LinkSet
<1>2. /\ new \in Seq(E) /\ Len(new) = Len(list)
      /\ \A j \in 1..Len(list) : new[j] = IF j = i THEN e ELSE list[j]
  <2>1. new = [list EXCEPT ![i] = e] BY DEF SetNext
  <2> HIDE DEF e
  <2> QED BY <1>1, <2>1, ExceptSeq
<1>4. \A k \in 1..Len(list) : list[k] \in E
  BY ElementOfSeq
<1> HIDE DEF new
<1>5. ASSUME NEW k \in 1..Len(list)
      PROVE  /\ new[k] = [list[k] EXCEPT !.next = new[k].next]
             /\ new[k].next = IF k = i THEN v ELSE list[k].next
  <2>1. CASE k = i
    <3>1. new[k] = [list[k] EXCEPT !.next = v] BY <1>2, <2>1
    <3>2. [list[k] EXCEPT !.next = v].next = v BY <1>4 DEF LinkSet
    <3> QED BY <3>1, <3>2, <2>1
  <2>2. CASE k # i
    <3>1. new[k] = list[k] BY <1>2, <2>2
    <3>2. list[k] = [list[k] EXCEPT !.next = list[k].next]
      BY <1>4 DEF LinkSet
    <3> QED BY <3>1, <3>2, <2>2
  <2> QED BY <2>1, <2>2
<1>6. IsSetNext(E, list, i, v, new) BY <1>2, <1>5 DEF Relinked, IsSetNext
<1> QED BY <1>6 DEF new

LEMMA AppendSeq ==
  ASSUME NEW E, LinkSet(E), NEW list \in Seq(E), NEW entry \in E
  PROVE  /\ Append(list, entry) \in Seq(E)
         /\ Len(Append(list, entry)) = Len(list) + 1
         /\ Append(list, entry)[Len(list) + 1] = entry
         /\ \A k \in 1..Len(list) : Append(list, entry)[k] = list[k]
BY AppendProperties

(* A chain grows by one entry.                                             *)
Grown(F, d, x) == [F EXCEPT ![d] = Append(@, x)]

IsAppended(E, list, F, d, entry, new) ==
  /\ new \in Seq(E)
  /\ Len(new) = Len(list) + 1
  /\ new[Len(list) + 1] = entry
  /\ \A k \in 1..Len(list) :
       new[k] = [list[k] EXCEPT !.next = new[k].next]
  /\ Lists(new, Grown(F, d, Len(list)))

LEMMA AppendToList ==
  ASSUME NEW E, LinkSet(E), NEW list \in Seq(E), NEW F, Lists(list, F),
         NEW d \in DOMAIN F, NEW entry \in E, entry.next = -1
  PROVE  IsAppended(E, list, F, d, entry,
                    AppendIndex(list, ChainOf(F[d]), entry))
<1> DEFINE n == Len(list)
           long == Append(list, entry)
           s == F[d]
           G == Grown(F, d, n)
           new == AppendIndex(list, ChainOf(s), entry)
<1>1. Linkable(list) /\ n \in Nat
  BY LinkableSeq DEF Linkable
<1>2. /\ long \in Seq(E) /\ Len(long) = n + 1 /\ long[n + 1] = entry
      /\ \A k \in 1..n : long[k] = list[k]
  BY AppendSeq
<1>3. Path(list, s)
  BY DEF Lists
<1>4. /\ Len(s) \in Nat
      /\ \A k \in 1..Len(s) : /\ s[k] \in Nat /\ s[k] < n
                              /\ s[k] + 1 \in 1..n
      /\ LastOf(s) = IF Len(s) = 0 THEN -1 ELSE s[Len(s)]
  BY <1>1, <1>3, PathEntry
<1>5. new = IF Len(s) = 0 THEN long
            ELSE [long EXCEPT ![s[Len(s)] + 1].next = n]
  <2>1. CASE Len(s) = 0
    BY <2>1, <1>4 DEF AppendIndex, Linked, ChainOf
  <2>2. CASE Len(s) # 0
    <3>1. Len(s) \in 1..Len(s) BY <2>2, <1>4
    <3>2. LastOf(s) >= 0 BY <3>1, <2>2, <1>4
    <3> QED BY <3>2, <2>2, <1>4 DEF AppendIndex, Linked, ChainOf
  <2> QED BY <2>1, <2>2
<1> HIDE DEF new, long, n
<1>6. /\ new \in Seq(E) /\ Len(new) = n + 1
      /\ new[n + 1] = entry
      /\ \A k \in 1..n : /\ new[k] = [list[k] EXCEPT !.next = new[k].next]
                         /\ new[k].next =
                              IF Len(s) # 0 /\ k = s[Len(s)] + 1 THEN n
                              ELSE list[k].next
  <2>0. \A k \in 1..n : list[k] \in E /\ list[k].next \in Int
    BY ElementOfSeq DEF LinkSet, n
  <2>1. CASE Len(s) = 0
    <3>1. ASSUME NEW k \in 1..n
          PROVE  list[k] = [list[k] EXCEPT !.next = list[k].next]
      BY <2>0 DEF LinkSet
    <3> QED BY <2>1, <1>5, <1>2, <3>1
  <2>2. CASE Len(s) # 0
    <3> DEFINE i == s[Len(s)] + 1
    <3>1. Len(s) \in 1..Len(s) BY <2>2, <1>4
    <3>2. i \in 1..n /\ i \in 1..(n + 1) /\ i # n + 1
      BY <3>1, <1>4, <1>1
    <3>3. new = SetNext(long, i, n) BY <2>2, <1>5 DEF SetNext
    <3>4. /\ new \in Seq(E) /\ Relinked(long, new)
          /\ \A k \in 1..(n + 1) :
               new[k].next = IF k = i THEN n ELSE long[k].next
      <4>1. i \in 1..Len(long) /\ n \in Int BY <3>2, <1>2, <1>1
      <4> HIDE DEF i
      <4>2. long \in Seq(E) BY <1>2
      <4>3. IsSetNext(E, long, i, n, SetNext(long, i, n))
        BY <4>1, <4>2, LinkedSeq, Zenon
      <4> QED BY <3>3, <4>3, <1>2 DEF IsSetNext
    <3>5. n + 1 \in 1..(n + 1) /\ \A k \in 1..n : k \in 1..(n + 1)
      BY <1>1
    <3>6. new[n + 1] = [entry EXCEPT !.next = -1]
      BY <3>2, <3>4, <3>5, <1>2 DEF Relinked
    <3>7. [entry EXCEPT !.next = -1] = entry
      <4>1. entry = [entry EXCEPT !.next = entry.next] BY DEF LinkSet
      <4> QED BY <4>1
    <3> HIDE DEF i
    <3>8. \A k \in 1..n : /\ new[k] = [list[k] EXCEPT !.next = new[k].next]
                          /\ new[k].next = IF k = i THEN n ELSE list[k].next
      BY <3>4, <3>5, <1>2 DEF Relinked
    <3> QED BY <2>2, <3>4, <3>6, <3>7, <3>8, <1>2 DEF Relinked, i
  <2> QED BY <2>1, <2>2
<1>7. /\ DOMAIN G = DOMAIN F
      /\ \A e \in DOMAIN F : G[e] = IF e = d THEN Append(s, n) ELSE F[e]
  BY DEF Grown
<1> HIDE DEF G
<1>8. ASSUME NEW e \in DOMAIN F
      PROVE  /\ Path(list, F[e])
             /\ Len(F[e]) \in Nat
             /\ \A k \in 1..Len(F[e]) : /\ F[e][k] \in Nat /\ F[e][k] < n
                                        /\ F[e][k] + 1 \in 1..n
                                        /\ F[e][k] \in 0..n
  <2>1. Path(list, F[e]) BY DEF Lists
  <2>2. /\ Len(F[e]) \in Nat
        /\ \A k \in 1..Len(F[e]) : /\ F[e][k] \in Nat /\ F[e][k] < n
                                   /\ F[e][k] + 1 \in 1..n
    BY <2>1, <1>1, PathEntry DEF n
  <2> QED BY <2>1, <2>2, <1>1
<1>9. /\ Append(s, n) \in Seq(0..n)
      /\ Len(Append(s, n)) = Len(s) + 1
      /\ \A k \in 1..Len(s) : Append(s, n)[k] = s[k]
      /\ Append(s, n)[Len(s) + 1] = n
  <2>1. s \in Seq(0..(n - 1)) BY <1>3 DEF Path, n
  <2>2. 0..(n - 1) \subseteq 0..n /\ n \in 0..n BY <1>1
  <2>3. s \in Seq(0..n) BY <2>1, <2>2
  <2> QED BY <2>2, <2>3, AppendProperties
<1>10. ASSUME NEW e \in DOMAIN F PROVE Path(new, G[e])
  <2>1. CASE e = d
    <3> DEFINE t == Append(s, n)
    <3>1. G[e] = t BY <2>1, <1>7
    <3>2. t \in Seq(0..(Len(new) - 1))
      <4>1. Len(new) - 1 = n BY <1>6, <1>1
      <4> QED BY <4>1, <1>9
    <3> HIDE DEF t
    <3>3. ASSUME NEW k \in 1..Len(t)
          PROVE  new[t[k] + 1].next = IF k < Len(t) THEN t[k + 1] ELSE -1
      <4>1. CASE k = Len(s) + 1
        <5>1. t[k] = n /\ ~ (k < Len(t)) BY <4>1, <1>9, <1>4 DEF t
        <5> QED BY <5>1, <1>6
      <4>2. CASE k # Len(s) + 1
        <5>1. k \in 1..Len(s) /\ Len(t) = Len(s) + 1 /\ k < Len(t)
          BY <4>2, <1>9, <1>4 DEF t
        <5>2. t[k] = s[k] BY <5>1, <1>9 DEF t
        <5>3. s[k] + 1 \in 1..n BY <5>1, <1>4
        <5>4. CASE k = Len(s)
          <6>1. new[s[k] + 1].next = n
            <7>1. Len(s) # 0 /\ s[k] + 1 = s[Len(s)] + 1 BY <5>4, <5>1, <1>4
            <7> QED BY <7>1, <5>3, <1>6
          <6>2. t[k + 1] = n BY <5>4, <1>9 DEF t
          <6> QED BY <6>1, <6>2, <5>1, <5>2
        <5>5. CASE k # Len(s)
          <6>1. Len(s) \in 1..Len(s) /\ k < Len(s) /\ k + 1 \in 1..Len(s)
            BY <5>1, <5>5, <1>4
          <6>2. s[k] # s[Len(s)]
            BY <5>1, <5>5, <6>1 DEF Lists
          <6>3. s[k] + 1 # s[Len(s)] + 1
            BY <6>2, <6>1, <5>1, <1>4
          <6>4. new[s[k] + 1].next = list[s[k] + 1].next
            BY <6>3, <5>3, <1>6
          <6>5. list[s[k] + 1].next = s[k + 1]
            BY <1>3, <5>1, <6>1 DEF Path
          <6>6. t[k + 1] = s[k + 1] BY <6>1, <1>9 DEF t
          <6> QED BY <6>4, <6>5, <6>6, <5>1, <5>2
        <5> QED BY <5>4, <5>5
      <4> QED BY <4>1, <4>2
    <3> QED BY <3>1, <3>2, <3>3 DEF Path
  <2>2. CASE e # d
    <3>1. G[e] = F[e] BY <2>2, <1>7
    <3>2. F[e] \in Seq(0..(Len(new) - 1))
      <4>1. Len(new) - 1 = n /\ 0..(n - 1) \subseteq 0..n BY <1>6, <1>1
      <4>2. F[e] \in Seq(0..(n - 1)) BY <1>8 DEF Path, n
      <4> QED BY <4>1, <4>2
    <3>3. ASSUME NEW k \in 1..Len(F[e])
          PROVE  new[F[e][k] + 1].next
                   = IF k < Len(F[e]) THEN F[e][k + 1] ELSE -1
      <4>1. F[e][k] + 1 \in 1..n BY <1>8
      <4>2. Len(s) # 0 => F[e][k] + 1 # s[Len(s)] + 1
        <5> SUFFICES ASSUME Len(s) # 0 PROVE F[e][k] + 1 # s[Len(s)] + 1
          OBVIOUS
        <5>1. Len(s) \in 1..Len(s) BY <1>4
        <5>2. F[e][k] # s[Len(s)] BY <5>1, <2>2 DEF Lists
        <5> QED BY <5>1, <5>2, <1>4, <1>8
      <4>3. new[F[e][k] + 1].next = list[F[e][k] + 1].next
        BY <4>1, <4>2, <1>6
      <4> QED BY <4>3, <1>8 DEF Path
    <3> QED BY <3>1, <3>2, <3>3 DEF Path
  <2> QED BY <2>1, <2>2
<1>11. ASSUME NEW a \in DOMAIN F, NEW b \in DOMAIN F,
              NEW j \in 1..Len(G[a]), NEW k \in 1..Len(G[b]),
              G[a][j] = G[b][k]
       PROVE  a = b /\ j = k
  <2>1. \A e \in DOMAIN F : \A i \in 1..Len(G[e]) :
          \/ i \in 1..Len(F[e]) /\ G[e][i] = F[e][i] /\ G[e][i] # n
          \/ e = d /\ i = Len(s) + 1 /\ G[e][i] = n
    <3> SUFFICES ASSUME NEW e \in DOMAIN F, NEW i \in 1..Len(G[e])
                 PROVE  \/ i \in 1..Len(F[e]) /\ G[e][i] = F[e][i]
                           /\ G[e][i] # n
                        \/ e = d /\ i = Len(s) + 1 /\ G[e][i] = n
      OBVIOUS
    <3>1. CASE e = d
      <4>1. G[e] = Append(s, n) /\ F[e] = s BY <3>1, <1>7
      <4>2. i \in 1..Len(s) \/ i = Len(s) + 1 BY <4>1, <1>9, <1>4
      <4>3. i \in 1..Len(s) => s[i] # n BY <1>4, <1>1
      <4> HIDE DEF s
      <4> QED BY <3>1, <4>1, <4>2, <4>3, <1>9
    <3>2. CASE e # d
      <4>1. G[e] = F[e] BY <3>2, <1>7
      <4>2. F[e][i] # n BY <4>1, <1>8, <1>1
      <4> QED BY <4>1, <4>2
    <3> QED BY <3>1, <3>2
  <2>2. \/ /\ j \in 1..Len(F[a]) /\ G[a][j] = F[a][j]
           /\ k \in 1..Len(F[b]) /\ G[b][k] = F[b][k]
        \/ a = d /\ b = d /\ j = Len(s) + 1 /\ k = Len(s) + 1
    BY <2>1, <1>11
  <2> QED BY <2>2, <1>11 DEF Lists
<1>12. Lists(new, G)
  BY <1>7, <1>10, <1>11 DEF Lists
<1>13. IsAppended(E, list, F, d, entry, new)
  BY <1>6, <1>12 DEF IsAppended, n, G
<1> QED BY <1>13 DEF new

LEMMA ChainGrown ==
  ASSUME NEW s \in Seq(Nat), NEW list, Len(list) \in Nat
  PROVE  AppendChain(list, ChainOf(s)) = ChainOf(Append(s, Len(list)))
<1> DEFINE n == Len(list)  t == Append(s, n)
<1>1. Len(s) \in Nat /\ ((s = <<>>) <=> Len(s) = 0)
  BY LenProperties, EmptySeq
<1>2. /\ t # <<>> /\ Len(t) = Len(s) + 1 /\ t[Len(s) + 1] = n
      /\ \A k \in 1..Len(s) : t[k] = s[k]
  BY AppendProperties
<1> HIDE DEF t, n
<1>3. FirstOf(t) = IF LastOf(s) >= 0 THEN FirstOf(s) ELSE n
  <2>1. CASE Len(s) = 0 BY <2>1, <1>1, <1>2 DEF FirstOf, LastOf
  <2>2. CASE Len(s) # 0
    <3>1. 1 \in 1..Len(s) /\ Len(s) \in 1..Len(s) BY <2>2, <1>1
    <3>2. s[Len(s)] \in Nat BY <3>1, ElementOfSeq
    <3> QED BY <2>2, <3>1, <3>2, <1>1, <1>2 DEF FirstOf, LastOf
  <2> QED BY <2>1, <2>2
<1>4. LastOf(t) = n BY <1>2 DEF LastOf
<1> QED BY <1>2, <1>3, <1>4 DEF AppendChain, ChainOf, t, n

LEMMA ListEntry ==
  ASSUME NEW list, Linkable(list), NEW F, Lists(list, F), NEW d \in DOMAIN F
  PROVE  /\ Path(list, F[d])
         /\ Len(F[d]) \in Nat /\ DOMAIN F[d] = 1..Len(F[d])
         /\ F[d] \in Seq(0..(Len(list) - 1)) /\ F[d] \in Seq(Nat)
         /\ \A k \in 1..Len(F[d]) :
              /\ F[d][k] \in Nat /\ F[d][k] < Len(list)
              /\ F[d][k] + 1 \in 1..Len(list)
              /\ list[F[d][k] + 1].next
                   = IF k < Len(F[d]) THEN F[d][k + 1] ELSE -1
         /\ FirstOf(F[d]) = IF Len(F[d]) = 0 THEN -1 ELSE F[d][1]
         /\ LastOf(F[d]) = IF Len(F[d]) = 0 THEN -1 ELSE F[d][Len(F[d])]
<1>1. Path(list, F[d]) BY DEF Lists
<1>2. /\ F[d] \in Seq(0..(Len(list) - 1))
      /\ \A k \in 1..Len(F[d]) : list[F[d][k] + 1].next
                   = IF k < Len(F[d]) THEN F[d][k + 1] ELSE -1
  BY <1>1 DEF Path
<1> QED BY <1>1, <1>2, PathEntry

(* Two chains become one.                                                  *)
Joined(F, d, e) ==
  [x \in DOMAIN F \ {e} |-> IF x = d THEN F[d] \o F[e] ELSE F[x]]

IsJoined(E, list, F, d, e, new) ==
  /\ new \in Seq(E)
  /\ Relinked(list, new)
  /\ Lists(new, Joined(F, d, e))

(* Nothing but the link of the last entry of d may have changed.           *)
LEMMA JoinedLists ==
  ASSUME NEW list, Linkable(list), NEW F, Lists(list, F),
         NEW d \in DOMAIN F, NEW e \in DOMAIN F, d # e,
         NEW new, Len(new) = Len(list),
         \A k \in 1..Len(list) :
           new[k].next = IF Len(F[d]) # 0 /\ Len(F[e]) # 0
                            /\ k = F[d][Len(F[d])] + 1
                         THEN F[e][1] ELSE list[k].next
  PROVE  Lists(new, Joined(F, d, e))
<1> DEFINE n == Len(list)  s == F[d]  t == F[e]  u == s \o t
           G == Joined(F, d, e)
<1>1. n \in Nat BY DEF Linkable
<1>2. ASSUME NEW x \in DOMAIN F
      PROVE  /\ Len(F[x]) \in Nat
             /\ F[x] \in Seq(0..(n - 1))
             /\ \A k \in 1..Len(F[x]) :
                  /\ F[x][k] \in Nat
                  /\ F[x][k] + 1 \in 1..n
                  /\ list[F[x][k] + 1].next
                       = IF k < Len(F[x]) THEN F[x][k + 1] ELSE -1
  BY ListEntry
<1>3. \A x, y \in DOMAIN F : \A j \in 1..Len(F[x]), k \in 1..Len(F[y]) :
        F[x][j] = F[y][k] => x = y /\ j = k
  BY DEF Lists
<1>4. /\ u \in Seq(0..(n - 1))
      /\ Len(u) = Len(s) + Len(t)
      /\ \A i \in 1..(Len(s) + Len(t)) :
           u[i] = IF i <= Len(s) THEN s[i] ELSE t[i - Len(s)]
  <2>1. s \in Seq(0..(n - 1)) /\ t \in Seq(0..(n - 1)) BY <1>2
  <2> HIDE DEF s, t, n
  <2> QED BY <2>1, ConcatProperties
<1>5. /\ DOMAIN G = DOMAIN F \ {e}
      /\ \A x \in DOMAIN F \ {e} : G[x] = IF x = d THEN u ELSE F[x]
  BY DEF Joined
<1> HIDE DEF u, G
<1>6. ASSUME NEW x \in DOMAIN F, NEW k \in 1..Len(F[x]),
             ~ (x = d /\ k = Len(s))
      PROVE  new[F[x][k] + 1].next = list[F[x][k] + 1].next
  <2>1. F[x][k] + 1 \in 1..n /\ F[x][k] \in Nat BY <1>2
  <2>2. Len(s) # 0 => F[x][k] + 1 # s[Len(s)] + 1
    <3> SUFFICES ASSUME Len(s) # 0 PROVE F[x][k] + 1 # s[Len(s)] + 1
      OBVIOUS
    <3>1. Len(s) \in 1..Len(s) BY <1>2
    <3>2. F[x][k] # s[Len(s)] /\ s[Len(s)] \in Nat BY <3>1, <1>2, <1>3, <1>6
    <3> QED BY <3>2, <2>1
  <2> QED BY <2>1, <2>2
<1>7. ASSUME NEW x \in DOMAIN F \ {e}
      PROVE  Path(new, G[x])
  <2>1. CASE x # d
    <3>1. G[x] = F[x] BY <2>1, <1>5
    <3>2. \A k \in 1..Len(F[x]) : new[F[x][k] + 1].next
             = IF k < Len(F[x]) THEN F[x][k + 1] ELSE -1
      BY <2>1, <1>6, <1>2
    <3> QED BY <3>1, <3>2, <1>2 DEF Path
  <2>2. CASE x = d
    <3>1. G[x] = u BY <2>2, <1>5
    <3>2. ASSUME NEW k \in 1..Len(u)
          PROVE  new[u[k] + 1].next = IF k < Len(u) THEN u[k + 1] ELSE -1
      <4>0. Len(s) \in Nat /\ Len(t) \in Nat BY <1>2
      <4>1. CASE k < Len(s)
        <5>1. /\ k \in 1..Len(s) /\ k + 1 \in 1..(Len(s) + Len(t))
              /\ k \in 1..(Len(s) + Len(t)) /\ k + 1 <= Len(s)
              /\ k <= Len(s) /\ k < Len(s) + Len(t) /\ k # Len(s)
          BY <4>0, <4>1
        <5>2. u[k] = s[k] /\ u[k + 1] = s[k + 1] BY <5>1, <1>4
        <5>3. new[s[k] + 1].next = list[s[k] + 1].next BY <5>1, <1>6
        <5>4. list[s[k] + 1].next = s[k + 1] BY <5>1, <4>1, <1>2
        <5> QED BY <5>1, <5>2, <5>3, <5>4, <1>4
      <4>2. CASE k = Len(s)
        <5>1. k \in 1..Len(s) /\ k \in 1..(Len(s) + Len(t)) /\ Len(s) # 0
          BY <4>0, <4>2
        <5>2. u[k] = s[k] /\ s[k] + 1 \in 1..n BY <5>1, <4>2, <1>4, <1>2
        <5>3. CASE Len(t) = 0
          <6>1. new[s[k] + 1].next = list[s[k] + 1].next BY <5>2, <5>3
          <6>2. list[s[k] + 1].next = -1 BY <5>1, <4>2, <1>2
          <6>3. ~ (k < Len(u)) BY <4>2, <5>3, <1>4, <4>0
          <6> QED BY <6>1, <6>2, <6>3, <5>2
        <5>4. CASE Len(t) # 0
          <6>1. new[s[k] + 1].next = t[1]
            <7>1. s[k] + 1 = s[Len(s)] + 1 BY <4>2
            <7> QED BY <7>1, <5>1, <5>2, <5>4
          <6>2. k + 1 \in 1..(Len(s) + Len(t)) /\ ~ (k + 1 <= Len(s))
                /\ (k + 1) - Len(s) = 1 /\ k < Len(s) + Len(t)
            BY <4>0, <4>2, <5>4
          <6>3. u[k + 1] = t[1] BY <6>2, <1>4
          <6> QED BY <6>1, <6>2, <6>3, <5>2, <1>4
        <5> QED BY <5>3, <5>4
      <4>3. CASE k > Len(s)
        <5> DEFINE i == k - Len(s)
        <5>1. /\ i \in 1..Len(t) /\ k \in 1..(Len(s) + Len(t))
              /\ ~ (k <= Len(s))
          BY <4>0, <4>3, <1>4
        <5>2. u[k] = t[i] BY <5>1, <1>4
        <5>3. new[t[i] + 1].next = list[t[i] + 1].next
          BY <5>1, <1>6
        <5>4. list[t[i] + 1].next = IF i < Len(t) THEN t[i + 1] ELSE -1
          BY <5>1, <1>2
        <5>5. i < Len(t) <=> k < Len(u) BY <4>0, <1>4
        <5>6. k < Len(u) => u[k + 1] = t[i + 1]
          <6> SUFFICES ASSUME k < Len(u) PROVE u[k + 1] = t[i + 1]
            OBVIOUS
          <6>1. k + 1 \in 1..(Len(s) + Len(t)) /\ ~ (k + 1 <= Len(s))
                /\ (k + 1) - Len(s) = i + 1
            BY <4>0, <4>3, <1>4
          <6> QED BY <6>1, <1>4
        <5> HIDE DEF i
        <5> QED BY <5>2, <5>3, <5>4, <5>5, <5>6
      <4> QED BY <4>0, <4>1, <4>2, <4>3
    <3>3. u \in Seq(0..(Len(new) - 1)) BY <1>4
    <3> QED BY <3>1, <3>2, <3>3 DEF Path
  <2> QED BY <2>1, <2>2
(* Where a place of the new lists was before.                              *)
<1> DEFINE Was(x, k, y, j) ==
             /\ y \in DOMAIN F /\ j \in 1..Len(F[y]) /\ G[x][k] = F[y][j]
             /\ \/ x = y /\ j = k
                \/ x = d /\ y = e /\ k = Len(s) + j
<1>8. ASSUME NEW x \in DOMAIN F \ {e}, NEW k \in 1..Len(G[x])
      PROVE  \E y, j : Was(x, k, y, j)
  <2>1. CASE x # d BY <2>1, <1>5
  <2>2. CASE x = d
    <3>0. Len(s) \in Nat /\ Len(t) \in Nat BY <1>2
    <3>1. G[x] = u /\ k \in 1..(Len(s) + Len(t)) BY <2>2, <1>5, <1>4
    <3>2. CASE k <= Len(s)
      <4>1. k \in 1..Len(s) /\ u[k] = s[k] BY <3>0, <3>1, <3>2, <1>4
      <4>2. Was(x, k, d, k) BY <4>1, <3>1, <2>2
      <4> QED BY <4>2
    <3>3. CASE ~ (k <= Len(s))
      <4> DEFINE i == k - Len(s)
      <4>1. i \in 1..Len(t) /\ k = Len(s) + i /\ u[k] = t[i]
        BY <3>0, <3>1, <3>3, <1>4
      <4>2. Was(x, k, e, i) BY <4>1, <3>1, <2>2
      <4> HIDE DEF Was, i
      <4> QED BY <4>2
    <3> QED BY <3>2, <3>3
  <2> QED BY <2>1, <2>2
<1>9. ASSUME NEW x \in DOMAIN F \ {e}, NEW y \in DOMAIN F \ {e},
             NEW j \in 1..Len(G[x]), NEW k \in 1..Len(G[y]),
             G[x][j] = G[y][k]
      PROVE  x = y /\ j = k
  <2>1. PICK a, i : Was(x, j, a, i) BY <1>8
  <2>2. PICK b, l : Was(y, k, b, l) BY <1>8
  <2>3. a = b /\ i = l
    <3>1. F[a][i] = F[b][l] BY <2>1, <2>2, <1>9
    <3> QED BY <3>1, <2>1, <2>2, <1>3
  <2> QED BY <2>1, <2>2, <2>3
<1>10. Lists(new, G)
  BY <1>5, <1>7, <1>9 DEF Lists
<1> QED BY <1>10 DEF G

LEMMA JoinLists ==
  ASSUME NEW E, LinkSet(E), NEW list \in Seq(E), NEW F, Lists(list, F),
         NEW d \in DOMAIN F, NEW e \in DOMAIN F, d # e
  PROVE  IsJoined(E, list, F, d, e,
                  JoinIndex(list, ChainOf(F[d]), ChainOf(F[e])))
<1> DEFINE n == Len(list)  s == F[d]  t == F[e]
           new == JoinIndex(list, ChainOf(s), ChainOf(t))
<1>1. Linkable(list) /\ n \in Nat
  BY LinkableSeq DEF Linkable
<1>2. /\ Len(s) \in Nat /\ Len(t) \in Nat
      /\ \A k \in 1..Len(s) : s[k] \in Nat /\ s[k] + 1 \in 1..n
      /\ \A k \in 1..Len(t) : t[k] \in Nat
      /\ LastOf(s) = IF Len(s) = 0 THEN -1 ELSE s[Len(s)]
      /\ FirstOf(t) = IF Len(t) = 0 THEN -1 ELSE t[1]
  BY <1>1, ListEntry
<1>3. \A k \in 1..n : list[k] \in E
  BY ElementOfSeq
<1>4. CASE Len(s) # 0 /\ Len(t) # 0
  <2>1. Len(s) \in 1..Len(s) /\ 1 \in 1..Len(t) BY <1>4, <1>2
  <2>2. new = SetNext(list, s[Len(s)] + 1, t[1])
    <3>1. s[Len(s)] >= 0 BY <2>1, <1>2
    <3> QED BY <3>1, <1>4, <1>2 DEF JoinIndex, Linked, ChainOf, SetNext
  <2>3. IsSetNext(E, list, s[Len(s)] + 1, t[1],
                  SetNext(list, s[Len(s)] + 1, t[1]))
    <3>1. s[Len(s)] + 1 \in 1..Len(list) /\ t[1] \in Int BY <2>1, <1>2
    <3> QED BY <3>1, LinkedSeq, Zenon
  <2>4. /\ new \in Seq(E) /\ Relinked(list, new)
        /\ \A k \in 1..n : new[k].next = IF k = s[Len(s)] + 1 THEN t[1]
                                         ELSE list[k].next
    BY <2>2, <2>3 DEF IsSetNext
  <2>5. Len(new) = n BY <2>4 DEF Relinked
  <2> HIDE DEF new
  <2>6. Lists(new, Joined(F, d, e))
    BY <2>4, <2>5, <1>1, <1>4, JoinedLists
  <2>7. IsJoined(E, list, F, d, e, new) BY <2>4, <2>6 DEF IsJoined
  <2> QED BY <2>7 DEF new
<1>5. CASE Len(s) = 0 \/ Len(t) = 0
  <2>1. new = list
    BY <1>5, <1>2 DEF JoinIndex, Linked, ChainOf
  <2>2. Lists(list, Joined(F, d, e))
    BY <1>1, <1>5, JoinedLists
  <2>3. Relinked(list, list)
    BY <1>3 DEF Relinked, LinkSet
  <2>4. IsJoined(E, list, F, d, e, list) BY <2>2, <2>3 DEF IsJoined
  <2> QED BY <2>1, <2>4
<1> QED BY <1>4, <1>5, <1>2

LEMMA ChainJoined ==
  ASSUME NEW s \in Seq(Nat), NEW t \in Seq(Nat)
  PROVE  JoinChain(ChainOf(s), ChainOf(t)) = ChainOf(s \o t)
<1> DEFINE u == s \o t
<1>1. /\ Len(s) \in Nat /\ ((s = <<>>) <=> Len(s) = 0)
      /\ Len(t) \in Nat /\ ((t = <<>>) <=> Len(t) = 0)
  BY LenProperties, EmptySeq
<1>2. /\ u \in Seq(Nat) /\ Len(u) = Len(s) + Len(t)
      /\ \A i \in 1..(Len(s) + Len(t)) :
           u[i] = IF i <= Len(s) THEN s[i] ELSE t[i - Len(s)]
  BY ConcatProperties
<1> HIDE DEF u
<1>3. (u = <<>>) <=> Len(u) = 0 BY <1>2, EmptySeq
<1>4. CASE Len(t) = 0
  <2>1. u = s BY <1>4, <1>1, ConcatEmptySeq DEF u
  <2> QED BY <2>1, <1>4 DEF JoinChain, ChainOf, u
<1>5. CASE Len(t) # 0
  <2>1. LastOf(u) = LastOf(t)
    <3>1. Len(s) + Len(t) \in 1..(Len(s) + Len(t))
          /\ ~ (Len(s) + Len(t) <= Len(s))
          /\ (Len(s) + Len(t)) - Len(s) = Len(t)
          /\ Len(s) + Len(t) # 0
      BY <1>1, <1>5
    <3>2. u[Len(u)] = t[Len(t)] BY <3>1, <1>2
    <3> QED BY <3>1, <3>2, <1>1, <1>2, <1>3, <1>5 DEF LastOf
  <2>2. FirstOf(u) = IF LastOf(s) >= 0 THEN FirstOf(s) ELSE FirstOf(t)
    <3>0. Len(u) # 0 /\ 1 \in 1..(Len(s) + Len(t)) BY <1>1, <1>2, <1>5
    <3>1. CASE Len(s) = 0
      <4>1. u[1] = t[1 - Len(s)] /\ 1 - Len(s) = 1 BY <3>0, <3>1, <1>2
      <4> QED BY <4>1, <3>0, <3>1, <1>1, <1>3, <1>5 DEF FirstOf, LastOf
    <3>2. CASE Len(s) # 0
      <4>1. Len(s) \in 1..Len(s) /\ 1 <= Len(s) BY <1>1, <3>2
      <4>2. s[Len(s)] \in Nat BY <4>1, ElementOfSeq
      <4>3. u[1] = s[1] BY <4>1, <3>0, <1>2
      <4> QED BY <4>2, <4>3, <3>0, <3>2, <1>1, <1>3 DEF FirstOf, LastOf
    <3> QED BY <3>1, <3>2
  <2> QED BY <2>1, <2>2, <1>2, <1>5 DEF JoinChain, ChainOf, u
<1> QED BY <1>4, <1>5

LEMMA SeqSubset ==
  ASSUME NEW S, NEW T, S \subseteq T, NEW s \in Seq(S)
  PROVE  s \in Seq(T)
<1>1. Len(s) \in Nat /\ s \in [1..Len(s) -> S] BY LenProperties
<1>2. s \in [1..Len(s) -> T] BY <1>1
<1> QED BY <1>1, <1>2

(* The entry at one place of a chain is taken out of it.                   *)
Without(s, q) == [k \in 1..(Len(s) - 1) |-> IF k < q THEN s[k] ELSE s[k + 1]]
Cut(F, d, q) == [F EXCEPT ![d] = Without(@, q)]

IsUnlinked(E, list, F, d, q, new) ==
  /\ new \in Seq(E)
  /\ Relinked(list, new)
  /\ Lists(new, Cut(F, d, q))

LEMMA WithoutSeq ==
  ASSUME NEW S, NEW s \in Seq(S), NEW q \in 1..Len(s)
  PROVE  /\ Without(s, q) \in Seq(S)
         /\ Len(Without(s, q)) = Len(s) - 1
         /\ \A k \in 1..(Len(s) - 1) :
              Without(s, q)[k] = IF k < q THEN s[k] ELSE s[k + 1]
<1>1. Len(s) \in Nat BY LenProperties
<1>2. ASSUME NEW k \in 1..(Len(s) - 1)
      PROVE  (IF k < q THEN s[k] ELSE s[k + 1]) \in S
  <2>1. k \in 1..Len(s) /\ k + 1 \in 1..Len(s) BY <1>1
  <2> QED BY <2>1, ElementOfSeq
<1>3. Len(s) - 1 \in Nat BY <1>1
<1>4. Without(s, q) \in [1..(Len(s) - 1) -> S] BY <1>2 DEF Without
<1>5. Without(s, q) \in Seq(S) BY <1>3, <1>4
<1> QED BY <1>3, <1>4, <1>5 DEF Without

LEMMA UnlinkLists ==
  ASSUME NEW E, LinkSet(E), NEW list \in Seq(E), NEW F, Lists(list, F),
         NEW d \in DOMAIN F, NEW m \in 1..(Len(F[d]) - 1)
  PROVE  IsUnlinked(E, list, F, d, m + 1,
                    SetNext(list, F[d][m] + 1, list[F[d][m + 1] + 1].next))
<1> DEFINE n == Len(list)  s == F[d]  u == Without(s, m + 1)
           v == list[s[m + 1] + 1].next
           G == Cut(F, d, m + 1)
           new == SetNext(list, s[m] + 1, v)
<1>1. Linkable(list) /\ n \in Nat
  BY LinkableSeq DEF Linkable
<1>2. ASSUME NEW x \in DOMAIN F
      PROVE  /\ Len(F[x]) \in Nat
             /\ F[x] \in Seq(0..(n - 1))
             /\ \A k \in 1..Len(F[x]) :
                  /\ F[x][k] \in Nat
                  /\ F[x][k] + 1 \in 1..n
                  /\ list[F[x][k] + 1].next
                       = IF k < Len(F[x]) THEN F[x][k + 1] ELSE -1
  BY <1>1, ListEntry
<1>3. \A x, y \in DOMAIN F : \A j \in 1..Len(F[x]), k \in 1..Len(F[y]) :
        F[x][j] = F[y][k] => x = y /\ j = k
  BY DEF Lists
<1>4. /\ Len(s) \in Nat /\ m \in 1..Len(s) /\ m + 1 \in 1..Len(s)
      /\ s[m] + 1 \in 1..n /\ s[m] \in Nat
      /\ v = IF m + 1 < Len(s) THEN s[m + 2] ELSE -1
  <2>1. Len(s) \in Nat BY <1>2
  <2>2. m \in 1..Len(s) /\ m + 1 \in 1..Len(s) /\ (m + 1) + 1 = m + 2
    BY <2>1
  <2> QED BY <2>1, <2>2, <1>2
<1>5. /\ u \in Seq(0..(n - 1)) /\ Len(u) = Len(s) - 1
      /\ \A k \in 1..(Len(s) - 1) :
           u[k] = IF k < m + 1 THEN s[k] ELSE s[k + 1]
  BY <1>2, <1>4, WithoutSeq
<1>6. /\ DOMAIN G = DOMAIN F
      /\ \A x \in DOMAIN F : G[x] = IF x = d THEN u ELSE F[x]
  BY DEF Cut
<1>7. IsSetNext(E, list, s[m] + 1, v, new)
  <2>1. v \in Int
    <3>1. s[m + 1] + 1 \in 1..n BY <1>2, <1>4
    <3> QED BY <3>1, <1>1 DEF Linkable
  <2>2. s[m] + 1 \in 1..Len(list) BY <1>4
  <2> HIDE DEF v, s
  <2> QED BY <2>1, <2>2, LinkedSeq, Zenon
<1>8. /\ new \in Seq(E) /\ Relinked(list, new)
      /\ \A k \in 1..n : new[k].next = IF k = s[m] + 1 THEN v
                                       ELSE list[k].next
  BY <1>7 DEF IsSetNext
<1>9. Len(new) = n BY <1>8 DEF Relinked
<1> HIDE DEF new, u, G, v
<1>10. ASSUME NEW x \in DOMAIN F, NEW k \in 1..Len(F[x]),
              ~ (x = d /\ k = m)
       PROVE  new[F[x][k] + 1].next = list[F[x][k] + 1].next
  <2>1. F[x][k] + 1 \in 1..n /\ F[x][k] \in Nat BY <1>2
  <2>2. F[x][k] # s[m] BY <1>3, <1>4, <1>10
  <2>3. F[x][k] + 1 # s[m] + 1 BY <2>1, <2>2, <1>4
  <2> QED BY <2>1, <2>3, <1>8
<1>11. ASSUME NEW x \in DOMAIN F
       PROVE  Path(new, G[x])
  <2>1. CASE x # d
    <3>1. G[x] = F[x] BY <2>1, <1>6
    <3>2. \A k \in 1..Len(F[x]) : new[F[x][k] + 1].next
             = IF k < Len(F[x]) THEN F[x][k + 1] ELSE -1
      BY <2>1, <1>10, <1>2
    <3> QED BY <3>1, <3>2, <1>2, <1>9 DEF Path
  <2>2. CASE x = d
    <3>1. G[x] = u BY <2>2, <1>6
    <3>2. ASSUME NEW k \in 1..Len(u)
          PROVE  new[u[k] + 1].next = IF k < Len(u) THEN u[k + 1] ELSE -1
      <4>0. k \in 1..(Len(s) - 1) BY <1>5
      <4>1. CASE k < m
        <5>1. /\ k \in 1..Len(s) /\ k + 1 \in 1..(Len(s) - 1) /\ k < Len(u)
              /\ k < m + 1 /\ k + 1 < m + 1 /\ k # m /\ k < Len(s)
          BY <4>0, <4>1, <1>4, <1>5
        <5>2. u[k] = s[k] /\ u[k + 1] = s[k + 1] BY <5>1, <4>0, <1>5
        <5>3. new[s[k] + 1].next = list[s[k] + 1].next BY <5>1, <1>10
        <5>4. list[s[k] + 1].next = s[k + 1] BY <5>1, <1>2
        <5> QED BY <5>1, <5>2, <5>3, <5>4
      <4>2. CASE k = m
        <5>1. u[k] = s[m] BY <4>0, <4>2, <1>4, <1>5
        <5>2. new[s[m] + 1].next = v BY <1>4, <1>8
        <5>3. m < Len(u) <=> m + 1 < Len(s) BY <1>4, <1>5
        <5>4. m + 1 < Len(s) => u[m + 1] = s[m + 2]
          <6> SUFFICES ASSUME m + 1 < Len(s) PROVE u[m + 1] = s[m + 2]
            OBVIOUS
          <6>1. m + 1 \in 1..(Len(s) - 1) /\ ~ (m + 1 < m + 1)
                /\ (m + 1) + 1 = m + 2
            BY <1>4
          <6> QED BY <6>1, <1>5
        <5> QED BY <4>2, <5>1, <5>2, <5>3, <5>4, <1>4
      <4>3. CASE k > m
        <5>0. Len(s) \in Nat /\ m \in Nat /\ k \in Nat
              /\ k <= Len(s) - 1 /\ Len(u) = Len(s) - 1
          <6>1. Len(s) \in Nat /\ m \in 1..Len(s) BY <1>4
          <6>2. Len(u) = Len(s) - 1 BY <1>5
          <6> HIDE DEF s, u
          <6> QED BY <4>0, <6>1, <6>2
        <5>1. /\ k + 1 \in 1..Len(s) /\ ~ (k < m + 1) /\ k + 1 # m
              /\ (k < Len(u) <=> k + 1 < Len(s))
          <6> HIDE DEF s, u
          <6>1. k + 1 <= Len(s) /\ k + 1 \in Nat /\ ~ (k < m + 1) /\ k + 1 # m
            BY <5>0, <4>3
          <6>2. k < Len(u) <=> k + 1 < Len(s) BY <5>0
          <6> QED BY <6>1, <6>2, <5>0
        <5>2. u[k] = s[k + 1] BY <4>0, <5>1, <1>5
        <5>3. new[s[k + 1] + 1].next = list[s[k + 1] + 1].next
          BY <5>1, <1>10
        <5>4. list[s[k + 1] + 1].next
                = IF k + 1 < Len(s) THEN s[(k + 1) + 1] ELSE -1
          BY <5>1, <1>2
        <5>5. k < Len(u) => u[k + 1] = s[(k + 1) + 1]
          <6> SUFFICES ASSUME k < Len(u) PROVE u[k + 1] = s[(k + 1) + 1]
            OBVIOUS
          <6>1. k + 1 \in 1..(Len(s) - 1) /\ ~ (k + 1 < m + 1)
            BY <4>0, <4>3, <1>4, <1>5
          <6> QED BY <6>1, <1>5
        <5> QED BY <5>1, <5>2, <5>3, <5>4, <5>5
      <4> QED BY <4>0, <4>1, <4>2, <4>3, <1>4
    <3> QED BY <3>1, <3>2, <1>5, <1>9 DEF Path
  <2> QED BY <2>1, <2>2
<1> DEFINE Was(x, k, j) ==
             /\ j \in 1..Len(F[x]) /\ G[x][k] = F[x][j]
             /\ x # d => j = k
             /\ x = d => j = IF k < m + 1 THEN k ELSE k + 1
<1>12. ASSUME NEW x \in DOMAIN F, NEW k \in 1..Len(G[x])
       PROVE  \E j : Was(x, k, j)
  <2>1. CASE x # d
    <3>1. Was(x, k, k) BY <2>1, <1>6
    <3> HIDE DEF Was
    <3> QED BY <3>1
  <2>2. CASE x = d
    <3> DEFINE j == IF k < m + 1 THEN k ELSE k + 1
    <3>1. k \in 1..(Len(s) - 1) /\ G[x] = u BY <2>2, <1>5, <1>6
    <3>2. j \in 1..Len(s) BY <3>1, <1>4
    <3>3. u[k] = s[j] BY <3>1, <1>5
    <3>4. Was(x, k, j) BY <2>2, <3>1, <3>2, <3>3
    <3> HIDE DEF Was, j
    <3> QED BY <3>4
  <2> QED BY <2>1, <2>2
<1>13. ASSUME NEW x \in DOMAIN F, NEW y \in DOMAIN F,
              NEW j \in 1..Len(G[x]), NEW k \in 1..Len(G[y]),
              G[x][j] = G[y][k]
       PROVE  x = y /\ j = k
  <2>1. PICK i : Was(x, j, i) BY <1>12
  <2>2. PICK l : Was(y, k, l) BY <1>12
  <2>3. x = y /\ i = l
    <3>1. i \in 1..Len(F[x]) /\ l \in 1..Len(F[y]) /\ F[x][i] = F[y][l]
      BY <2>1, <2>2, <1>13
    <3> HIDE DEF Was
    <3> QED BY <3>1, <1>3
  <2>4. CASE x # d BY <2>1, <2>2, <2>3, <2>4
  <2>5. CASE x = d
    <3>1. j \in 1..(Len(s) - 1) /\ k \in 1..(Len(s) - 1)
      BY <2>3, <2>5, <1>5, <1>6
    <3> QED BY <2>1, <2>2, <2>3, <2>5, <3>1, <1>4
  <2> QED BY <2>4, <2>5
<1>14. Lists(new, G)
  BY <1>6, <1>11, <1>13 DEF Lists
<1>15. IsUnlinked(E, list, F, d, m + 1, new)
  BY <1>8, <1>14 DEF IsUnlinked, G
<1> QED BY <1>15 DEF new, v

LEMMA ChainWithout ==
  ASSUME NEW s \in Seq(Nat), NEW m \in 1..(Len(s) - 1),
         \A j, k \in 1..Len(s) : s[j] = s[k] => j = k
  PROVE  ChainOf(Without(s, m + 1)) =
           [first |-> FirstOf(s),
            last |-> IF s[m + 1] = LastOf(s) THEN s[m] ELSE LastOf(s),
            count |-> Len(s) - 1]
<1> DEFINE u == Without(s, m + 1)
<1>1. /\ Len(s) \in Nat /\ s # <<>> /\ m + 1 \in 1..Len(s)
      /\ m \in 1..(Len(s) - 1) /\ 1 \in 1..(Len(s) - 1)
      /\ Len(s) \in 1..Len(s) /\ Len(s) - 1 \in 1..(Len(s) - 1)
  <2>1. Len(s) \in Nat BY LenProperties
  <2>2. Len(s) # 0 BY <2>1
  <2> QED BY <2>1, <2>2, EmptySeq
<1>2. /\ u \in Seq(Nat) /\ Len(u) = Len(s) - 1
      /\ \A k \in 1..(Len(s) - 1) :
           u[k] = IF k < m + 1 THEN s[k] ELSE s[k + 1]
  BY <1>1, WithoutSeq
<1> HIDE DEF u
<1>3. u # <<>> BY <1>1, <1>2, EmptySeq
<1>4. u[1] = s[1] BY <1>1, <1>2
<1>5. u[Len(u)] = IF s[m + 1] = s[Len(s)] THEN s[m] ELSE s[Len(s)]
  <2>1. CASE m + 1 = Len(s)
    <3>1. Len(s) - 1 = m /\ m < m + 1 BY <2>1, <1>1
    <3>2. u[Len(u)] = s[m] BY <3>1, <1>1, <1>2
    <3> QED BY <3>2, <2>1
  <2>2. CASE m + 1 # Len(s)
    <3>1. ~ (Len(s) - 1 < m + 1) /\ (Len(s) - 1) + 1 = Len(s)
      BY <2>2, <1>1
    <3>2. u[Len(u)] = s[Len(s)] BY <3>1, <1>1, <1>2
    <3>3. s[m + 1] # s[Len(s)] BY <2>2, <1>1
    <3> QED BY <3>2, <3>3
  <2> QED BY <2>1, <2>2
<1> QED BY <1>1, <1>2, <1>3, <1>4, <1>5 DEF ChainOf, FirstOf, LastOf, u

(* An owner with nothing in its chain.                                     *)
Adjoin(F, d) == [x \in DOMAIN F \cup {d} |-> IF x = d THEN <<>> ELSE F[x]]

LEMMA AdjoinLists ==
  ASSUME NEW list, Linkable(list), NEW F, Lists(list, F), NEW d
  PROVE  Lists(list, Adjoin(F, d))
<1>1. Path(list, <<>>)
  <2>1. <<>> \in Seq(0..(Len(list) - 1)) /\ Len(<<>>) = 0 BY EmptySeq
  <2> QED BY <2>1 DEF Path
<1> QED BY <1>1 DEF Lists, Adjoin

(* The chains of one list after those of another.                          *)
Up(s, n) == [k \in 1..Len(s) |-> s[k] + n]
Shifted(d, base) == IF d = -1 THEN -2 ELSE d + base
Unshifted(x, base) == IF x = -2 THEN -1 ELSE x - base
Both(F, H, base, n) ==
  [x \in DOMAIN F \cup {Shifted(d, base) : d \in DOMAIN H} |->
     IF x \in DOMAIN F THEN F[x] ELSE Up(H[Unshifted(x, base)], n)]

LEMMA RebasedChain ==
  ASSUME NEW a, NEW b, NEW c, NEW n
  PROVE  RebaseChain([first |-> a, last |-> b, count |-> c], n) =
           [first |-> Rebase(a, n), last |-> Rebase(b, n), count |-> c]
<1> DEFINE r == [first |-> a, last |-> b, count |-> c]
           q == [r EXCEPT !.first = Rebase(@, n)]
<1>1. q = [first |-> Rebase(a, n), last |-> b, count |-> c] OBVIOUS
<1>2. [q EXCEPT !.last = Rebase(@, n)] =
        [first |-> Rebase(a, n), last |-> Rebase(b, n), count |-> c]
  <2> HIDE DEF q
  <2> QED BY <1>1
<1>3. RebaseChain(r, n) = [q EXCEPT !.last = Rebase(@, n)] BY DEF RebaseChain
<1> QED BY <1>2, <1>3

LEMMA UpSeq ==
  ASSUME NEW s \in Seq(Nat), NEW n \in Nat
  PROVE  /\ Up(s, n) \in Seq(Nat) /\ Len(Up(s, n)) = Len(s)
         /\ \A k \in 1..Len(s) : Up(s, n)[k] = s[k] + n
         /\ ChainOf(Up(s, n)) = RebaseChain(ChainOf(s), n)
<1> DEFINE u == Up(s, n)
<1>1. Len(s) \in Nat /\ ((s = <<>>) <=> Len(s) = 0)
  BY LenProperties, EmptySeq
<1>2. \A k \in 1..Len(s) : s[k] \in Nat /\ s[k] + n \in Nat
  <2>1. \A k \in 1..Len(s) : s[k] \in Nat BY ElementOfSeq
  <2> QED BY <2>1
<1>3. u \in [1..Len(s) -> Nat] BY <1>2 DEF Up
<1>4. /\ u \in Seq(Nat) /\ Len(u) = Len(s)
      /\ \A k \in 1..Len(s) : u[k] = s[k] + n
  BY <1>1, <1>3 DEF Up
<1> HIDE DEF u
<1>5. (u = <<>>) <=> Len(s) = 0 BY <1>4, EmptySeq
<1>7. RebaseChain(ChainOf(s), n) =
        [first |-> Rebase(FirstOf(s), n), last |-> Rebase(LastOf(s), n),
         count |-> Len(s)]
  BY RebasedChain DEF ChainOf
<1>6. ChainOf(u) = RebaseChain(ChainOf(s), n)
  <2>1. CASE Len(s) = 0
    <3>1. /\ ChainOf(s) = [first |-> -1, last |-> -1, count |-> 0]
          /\ ChainOf(u) = [first |-> -1, last |-> -1, count |-> 0]
      BY <2>1, <1>1, <1>4, <1>5 DEF ChainOf, FirstOf, LastOf
    <3>2. FirstOf(s) = -1 /\ LastOf(s) = -1
      BY <2>1, <1>1 DEF FirstOf, LastOf
    <3> QED BY <3>1, <3>2, <1>7, <2>1 DEF Rebase
  <2>2. CASE Len(s) # 0
    <3>1. 1 \in 1..Len(s) /\ Len(s) \in 1..Len(s) BY <2>2, <1>1
    <3>2. /\ s[1] \in Nat /\ s[Len(s)] \in Nat
          /\ u[1] = s[1] + n /\ u[Len(s)] = s[Len(s)] + n
      BY <3>1, <1>2, <1>4
    <3>3. /\ FirstOf(s) = s[1] /\ LastOf(s) = s[Len(s)]
          /\ FirstOf(u) = u[1] /\ LastOf(u) = u[Len(s)]
      BY <2>2, <1>1, <1>4, <1>5 DEF FirstOf, LastOf
    <3>4. s[1] # -1 /\ s[Len(s)] # -1 BY <3>2
    <3> QED BY <3>2, <3>3, <3>4, <1>4, <1>7 DEF ChainOf, Rebase
  <2> QED BY <2>1, <2>2
<1> QED BY <1>4, <1>6 DEF u

LEMMA BothLists ==
  ASSUME NEW list, Linkable(list), NEW F, Lists(list, F),
         NEW more, Linkable(more), NEW H, Lists(more, H),
         NEW base \in Nat,
         DOMAIN F \subseteq {-1} \cup 0..(base - 1),
         DOMAIN H \subseteq {-1} \cup Nat,
         NEW long, Len(long) = Len(list) + Len(more),
         \A k \in 1..Len(list) : long[k].next = list[k].next,
         \A k \in 1..Len(more) :
           long[Len(list) + k].next = Rebase(more[k].next, Len(list))
  PROVE  Lists(long, Both(F, H, base, Len(list)))
<1> DEFINE n == Len(list)  B == Both(F, H, base, n)
<1>1. n \in Nat /\ Len(more) \in Nat BY DEF Linkable
<1>2. ASSUME NEW x \in DOMAIN F
      PROVE  /\ Len(F[x]) \in Nat
             /\ F[x] \in Seq(0..(n - 1))
             /\ \A k \in 1..Len(F[x]) :
                  /\ F[x][k] \in Nat /\ F[x][k] < n
                  /\ F[x][k] + 1 \in 1..n
                  /\ list[F[x][k] + 1].next
                       = IF k < Len(F[x]) THEN F[x][k + 1] ELSE -1
  BY ListEntry
<1>3. ASSUME NEW x \in DOMAIN H
      PROVE  /\ Len(H[x]) \in Nat
             /\ H[x] \in Seq(Nat)
             /\ \A k \in 1..Len(H[x]) :
                  /\ H[x][k] \in Nat
                  /\ H[x][k] + 1 \in 1..Len(more)
                  /\ more[H[x][k] + 1].next
                       = IF k < Len(H[x]) THEN H[x][k + 1] ELSE -1
  <2>1. Path(more, H[x]) BY DEF Lists
  <2>2. /\ Len(H[x]) \in Nat /\ H[x] \in Seq(Nat)
        /\ \A k \in 1..Len(H[x]) : /\ H[x][k] \in Nat
                                   /\ H[x][k] + 1 \in 1..Len(more)
    BY <2>1, PathEntry
  <2> QED BY <2>1, <2>2 DEF Path
<1>4. ASSUME NEW x \in DOMAIN H
      PROVE  /\ Shifted(x, base) \notin DOMAIN F
             /\ Unshifted(Shifted(x, base), base) = x
  <2>1. x = -1 \/ x \in Nat OBVIOUS
  <2>2. \A y \in DOMAIN F : y = -1 \/ y \in 0..(base - 1) OBVIOUS
  <2>3. CASE x = -1
    <3>1. Shifted(x, base) = -2 BY <2>3 DEF Shifted
    <3> QED BY <3>1, <2>2, <2>3 DEF Unshifted
  <2>4. CASE x \in Nat
    <3>1. Shifted(x, base) = x + base /\ x + base # -2
      BY <2>4 DEF Shifted
    <3> QED BY <3>1, <2>2, <2>4 DEF Unshifted
  <2> QED BY <2>1, <2>3, <2>4
<1>5. /\ DOMAIN B = DOMAIN F \cup {Shifted(d, base) : d \in DOMAIN H}
      /\ \A x \in DOMAIN F : B[x] = F[x]
      /\ \A d \in DOMAIN H : B[Shifted(d, base)] = Up(H[d], n)
  <2>1. /\ DOMAIN B = DOMAIN F \cup {Shifted(d, base) : d \in DOMAIN H}
        /\ \A x \in DOMAIN B :
             B[x] = IF x \in DOMAIN F THEN F[x]
                    ELSE Up(H[Unshifted(x, base)], n)
    BY DEF Both
  <2> HIDE DEF B
  <2> QED BY <2>1, <1>4
<1> HIDE DEF B, n
<1>6. ASSUME NEW x \in DOMAIN F
      PROVE  Path(long, B[x])
  <2>1. F[x] \in Seq(0..(Len(long) - 1))
    <3>1. 0..(n - 1) \subseteq 0..(Len(long) - 1) BY <1>1 DEF n
    <3> QED BY <3>1, <1>2, SeqSubset
  <2>2. \A k \in 1..Len(F[x]) : long[F[x][k] + 1].next
                                  = list[F[x][k] + 1].next
    BY <1>2 DEF n
  <2> QED BY <2>1, <2>2, <1>2, <1>5 DEF Path
<1>7. ASSUME NEW d \in DOMAIN H
      PROVE  Path(long, B[Shifted(d, base)])
  <2> DEFINE h == H[d]  u == Up(h, n)
  <2>1. /\ Len(u) = Len(h) /\ \A k \in 1..Len(h) : u[k] = h[k] + n
        /\ u \in Seq(Nat)
    BY <1>3, <1>1, UpSeq DEF n
  <2>2. B[Shifted(d, base)] = u BY <1>5
  <2> HIDE DEF u
  <2>3. ASSUME NEW k \in 1..Len(h)
        PROVE  long[u[k] + 1].next = IF k < Len(h) THEN u[k + 1] ELSE -1
    <3>1. h[k] \in Nat /\ h[k] + 1 \in 1..Len(more) BY <1>3
    <3>2. u[k] + 1 = n + (h[k] + 1) BY <3>1, <2>1, <1>1 DEF n
    <3>3. long[n + (h[k] + 1)].next = Rebase(more[h[k] + 1].next, n)
      BY <3>1 DEF n
    <3>4. more[h[k] + 1].next = IF k < Len(h) THEN h[k + 1] ELSE -1
      BY <1>3
    <3>5. CASE k < Len(h)
      <4>1. k + 1 \in 1..Len(h) BY <3>5, <1>3
      <4>2. h[k + 1] \in Nat /\ u[k + 1] = h[k + 1] + n
        BY <4>1, <1>3, <2>1
      <4>3. Rebase(h[k + 1], n) = h[k + 1] + n BY <4>2 DEF Rebase
      <4> QED BY <3>5, <4>2, <4>3, <3>2, <3>3, <3>4
    <3>6. CASE ~ (k < Len(h))
      <4>1. Rebase(-1, n) = -1 BY DEF Rebase
      <4> QED BY <3>6, <4>1, <3>2, <3>3, <3>4
    <3> QED BY <3>5, <3>6
  <2>4. u \in Seq(0..(Len(long) - 1))
    <3>1. \A k \in 1..Len(h) : u[k] \in 0..(Len(long) - 1)
      <4> SUFFICES ASSUME NEW k \in 1..Len(h)
                   PROVE  u[k] \in 0..(Len(long) - 1)
        OBVIOUS
      <4>1. h[k] \in Nat /\ h[k] + 1 \in 1..Len(more) /\ u[k] = h[k] + n
        BY <1>3, <2>1
      <4>2. Len(long) = n + Len(more) /\ n \in Nat BY <1>1 DEF n
      <4> QED BY <4>1, <4>2, <1>1
    <3>2. Len(h) \in Nat /\ DOMAIN u = 1..Len(h)
      BY <2>1, <1>3, LenProperties
    <3>3. u = [k \in 1..Len(h) |-> u[k]] BY <3>2, <2>1
    <3>4. u \in [1..Len(h) -> 0..(Len(long) - 1)] BY <3>1, <3>3
    <3> QED BY <3>2, <3>4
  <2> QED BY <2>1, <2>2, <2>3, <2>4 DEF Path
(* An entry of the first list is below n, one of the second is not.        *)
<1>8. ASSUME NEW x \in DOMAIN B, NEW k \in 1..Len(B[x])
      PROVE  \/ /\ x \in DOMAIN F /\ k \in 1..Len(F[x])
                /\ B[x][k] = F[x][k] /\ F[x][k] < n /\ F[x][k] \in Nat
             \/ \E d \in DOMAIN H :
                  /\ x = Shifted(d, base) /\ k \in 1..Len(H[d])
                  /\ B[x][k] = H[d][k] + n /\ H[d][k] \in Nat
  <2>1. CASE x \in DOMAIN F
    BY <2>1, <1>5, <1>2
  <2>2. CASE x \notin DOMAIN F
    <3>1. PICK d \in DOMAIN H : x = Shifted(d, base) BY <2>2, <1>5
    <3>2. B[x] = Up(H[d], n) BY <3>1, <1>5
    <3>3. /\ Len(Up(H[d], n)) = Len(H[d])
          /\ \A i \in 1..Len(H[d]) : Up(H[d], n)[i] = H[d][i] + n
      BY <1>3, <1>1, UpSeq DEF n
    <3>4. k \in 1..Len(H[d]) BY <3>2, <3>3
    <3> QED BY <3>1, <3>2, <3>3, <3>4, <1>3
  <2> QED BY <2>1, <2>2
<1>9. ASSUME NEW x \in DOMAIN B, NEW y \in DOMAIN B,
             NEW j \in 1..Len(B[x]), NEW k \in 1..Len(B[y]),
             B[x][j] = B[y][k]
      PROVE  x = y /\ j = k
  <2>0. n \in Nat BY <1>1 DEF n
  <2>1. CASE x \in DOMAIN F
    <3>1. /\ j \in 1..Len(F[x]) /\ B[x][j] = F[x][j]
          /\ F[x][j] < n /\ F[x][j] \in Nat
      BY <2>1, <1>8, <1>4
    <3>2. y \in DOMAIN F /\ k \in 1..Len(F[y]) /\ B[y][k] = F[y][k]
      <4>1. ASSUME NEW d \in DOMAIN H, B[y][k] = H[d][k] + n,
                   H[d][k] \in Nat
            PROVE  FALSE
        BY <4>1, <3>1, <1>9, <2>0
      <4> QED BY <4>1, <1>8
    <3>3. F[x][j] = F[y][k] BY <3>1, <3>2, <1>9
    <3> QED BY <3>1, <3>2, <3>3, <2>1 DEF Lists
  <2>2. CASE x \notin DOMAIN F
    <3>1. PICK d \in DOMAIN H :
            /\ x = Shifted(d, base) /\ j \in 1..Len(H[d])
            /\ B[x][j] = H[d][j] + n /\ H[d][j] \in Nat
      BY <2>2, <1>8
    <3>2. CASE y \in DOMAIN F
      <4>1. B[y][k] = F[y][k] /\ F[y][k] < n /\ F[y][k] \in Nat
        BY <3>2, <1>8, <1>4
      <4> QED BY <4>1, <3>1, <1>9, <2>0
    <3>3. CASE y \notin DOMAIN F
      <4>1. PICK e \in DOMAIN H :
              /\ y = Shifted(e, base) /\ k \in 1..Len(H[e])
              /\ B[y][k] = H[e][k] + n /\ H[e][k] \in Nat
        BY <3>3, <1>8
      <4>2. H[d][j] = H[e][k] BY <4>1, <3>1, <1>9, <2>0
      <4>3. d = e /\ j = k BY <4>1, <4>2, <3>1 DEF Lists
      <4> QED BY <4>1, <4>3, <3>1
    <3> QED BY <3>2, <3>3
  <2> QED BY <2>1, <2>2
<1>10. \A x \in DOMAIN B : Path(long, B[x])
  BY <1>5, <1>6, <1>7
<1>11. Lists(long, B)
  BY <1>9, <1>10 DEF Lists
<1> QED BY <1>11 DEF B, n

(***************************************************************************)
(* A store and what hangs in it.                                           *)
(***************************************************************************)
Sequential(s) == \E S : s \in Seq(S)

FileNames == STRING \cup {"empty"}
Barcodes == STRING \cup {NoBarcode}
FileRecords == [file : FileNames, barcode : Barcodes, uid : Nat]
Bytes == [record : FileRecords, at : Nat, of : Nat]
FileEntries ==
  [next : Int, record_offset : Nat, record_length : Nat, selection : Int]
DirectoryEntries == [next : Int, record_offset : Nat, selection : Int]

Whole(bytes, e) ==
  /\ e.record_length >= 1
  /\ e.record_offset + e.record_length <= Len(bytes)
  /\ \A k \in 1..e.record_length :
       bytes[e.record_offset + k] =
         [record |-> bytes[e.record_offset + 1].record, at |-> k,
          of |-> e.record_length]

IsStore(s) ==
  s = [file_records |-> s.file_records,
       file_records_position |-> s.file_records_position,
       directories |-> s.directories, file_index |-> s.file_index,
       directory_index |-> s.directory_index,
       selection_count |-> s.selection_count,
       next_file_uid |-> s.next_file_uid]

StoreForm(s) ==
  /\ IsStore(s)
  /\ s.file_records \in Seq(Bytes)
  /\ s.file_records_position \in Nat
  /\ Sequential(s.directories)
  /\ s.file_index \in Seq(FileEntries)
  /\ s.directory_index \in Seq(DirectoryEntries)
  /\ s.selection_count \in Nat /\ s.next_file_uid \in Nat

StoreOK(s) ==
  /\ StoreForm(s)
  /\ s.file_records_position = Len(s.file_records)
  /\ \A k \in 1..Len(s.file_index) : Whole(s.file_records, s.file_index[k])

IsHeader(h) ==
  h = [finished |-> h.finished, name |-> h.name, file_uid |-> h.file_uid,
       file_index_offset |-> h.file_index_offset,
       file_count |-> h.file_count,
       directory_index_offset |-> h.directory_index_offset,
       directory_count |-> h.directory_count,
       total_file_count |-> h.total_file_count,
       total_directory_count |-> h.total_directory_count]

(* The owners of chains are the directories and, as -1, the root.          *)
Owners(s, F, G, open) ==
  /\ -1 \in DOMAIN F /\ DOMAIN G = DOMAIN F
  /\ DOMAIN F \subseteq {-1} \cup 0..(Len(s.directories) - 1)
  /\ open \subseteq DOMAIN F \ {-1}

Covered(list, F) ==
  \A x \in 0..(Len(list) - 1) :
    \E d \in DOMAIN F : \E k \in 1..Len(F[d]) : F[d][k] = x

Deep(F, dep) ==
  /\ dep \in [DOMAIN F -> Nat]
  /\ dep[-1] = 0
  /\ \A d \in DOMAIN F : dep[d] <= d + 1

(* A directory hangs one step below the owner of the chain it is in.       *)
Hung(s, G, dep, open) ==
  \A d \in DOMAIN G : \A k \in 1..Len(G[d]) :
    /\ DirectoryAt(s, G[d][k]) \in DOMAIN G \ ({-1} \cup open)
    /\ dep[DirectoryAt(s, G[d][k])] = dep[d] + 1

Once(s, G) ==
  \A d, e \in DOMAIN G : \A j \in 1..Len(G[d]), k \in 1..Len(G[e]) :
    DirectoryAt(s, G[d][j]) = DirectoryAt(s, G[e][k]) => d = e /\ j = k

Reached(s, G, open) ==
  \A x \in DOMAIN G \ ({-1} \cup open) :
    \E d \in DOMAIN G : \E k \in 1..Len(G[d]) : DirectoryAt(s, G[d][k]) = x

HeadOf(h, files, directories) ==
  /\ IsHeader(h)
  /\ h.finished
  /\ h.file_index_offset = FirstOf(files)
  /\ h.file_count = Len(files)
  /\ h.directory_index_offset = FirstOf(directories)

Heads(s, F, G, open, stale) ==
  \A d \in DOMAIN F \ ({-1} \cup open) :
    /\ HeadOf(Header(s, d), F[d], G[d])
    /\ d \notin stale => Header(s, d).directory_count = Len(G[d])

Forest(s, F, G, dep, open, stale) ==
  /\ Owners(s, F, G, open)
  /\ Lists(s.file_index, F) /\ Lists(s.directory_index, G)
  /\ Covered(s.file_index, F)
  /\ Deep(F, dep)
  /\ Hung(s, G, dep, open)
  /\ Once(s, G)
  /\ Reached(s, G, open)
  /\ Heads(s, F, G, open, stale)

LEMMA FileLinks == LinkSet(FileEntries)
BY DEF LinkSet, FileEntries

LEMMA DirectoryLinks == LinkSet(DirectoryEntries)
BY DEF LinkSet, DirectoryEntries

LEMMA FormLinks ==
  ASSUME NEW s, StoreForm(s)
  PROVE  /\ Linkable(s.file_index) /\ Linkable(s.directory_index)
         /\ s.file_index \in Seq(FileEntries)
         /\ s.directory_index \in Seq(DirectoryEntries)
         /\ Len(s.file_index) \in Nat /\ Len(s.directory_index) \in Nat
         /\ Len(s.directories) \in Nat
<1>1. s.file_index \in Seq(FileEntries)
      /\ s.directory_index \in Seq(DirectoryEntries)
  BY DEF StoreForm
<1>2. Linkable(s.file_index) /\ Linkable(s.directory_index)
  BY <1>1, FileLinks, DirectoryLinks, LinkableSeq
<1>3. Len(s.directories) \in Nat
  <2>1. PICK S : s.directories \in Seq(S) BY DEF StoreForm, Sequential
  <2> QED BY <2>1, LenProperties
<1> QED BY <1>1, <1>2, <1>3 DEF Linkable

LEMMA StoreLinks ==
  ASSUME NEW s, StoreOK(s)
  PROVE  /\ Linkable(s.file_index) /\ Linkable(s.directory_index)
         /\ s.file_index \in Seq(FileEntries)
         /\ s.directory_index \in Seq(DirectoryEntries)
         /\ Len(s.file_index) \in Nat /\ Len(s.directory_index) \in Nat
         /\ Len(s.directories) \in Nat
BY FormLinks DEF StoreOK

LEMMA SequentialFacts ==
  ASSUME NEW s, Sequential(s)
  PROVE  Len(s) \in Nat /\ DOMAIN s = 1..Len(s)
<1>1. PICK S : s \in Seq(S) BY DEF Sequential
<1> QED BY <1>1, LenProperties

IsReplaced(s, i, e, t) ==
  /\ Sequential(t) /\ Len(t) = Len(s)
  /\ \A k \in 1..Len(s) : t[k] = IF k = i THEN e ELSE s[k]

LEMMA SequentialExcept ==
  ASSUME NEW s, Sequential(s), NEW i \in 1..Len(s), NEW e
  PROVE  IsReplaced(s, i, e, [s EXCEPT ![i] = e])
<1>1. PICK S : s \in Seq(S) BY DEF Sequential
<1> DEFINE T == S \cup {e}  t == [s EXCEPT ![i] = e]
<1>2. s \in Seq(T) BY <1>1, SeqSubset
<1>3. e \in T OBVIOUS
<1> HIDE DEF T
<1>4. /\ t \in Seq(T) /\ Len(t) = Len(s)
      /\ \A j \in 1..Len(s) : t[j] = IF j = i THEN e ELSE s[j]
  BY <1>2, <1>3, ExceptSeq
<1> HIDE DEF t
<1>5. IsReplaced(s, i, e, t) BY <1>4 DEF IsReplaced, Sequential
<1> QED BY <1>5 DEF t

IsLonger(s, e, t) ==
  /\ Sequential(t) /\ Len(t) = Len(s) + 1 /\ t # <<>>
  /\ t[Len(s) + 1] = e
  /\ \A k \in 1..Len(s) : t[k] = s[k]

LEMMA SequentialAppend ==
  ASSUME NEW s, Sequential(s), NEW e
  PROVE  IsLonger(s, e, Append(s, e))
<1>1. PICK S : s \in Seq(S) BY DEF Sequential
<1> DEFINE T == S \cup {e}  t == Append(s, e)
<1>2. s \in Seq(T) BY <1>1, SeqSubset
<1>3. e \in T OBVIOUS
<1> HIDE DEF T
<1>4. /\ t \in Seq(T) /\ Len(t) = Len(s) + 1 /\ t # <<>>
      /\ \A j \in 1..Len(s) : t[j] = s[j]
      /\ t[Len(s) + 1] = e
  BY <1>2, <1>3, AppendProperties
<1> HIDE DEF t
<1>5. IsLonger(s, e, t) BY <1>4 DEF IsLonger, Sequential
<1> QED BY <1>5 DEF t

IsShorter(s, t) ==
  /\ Sequential(t) /\ Len(t) = Len(s) - 1 /\ Len(s) \in Nat \ {0}
  /\ \A k \in 1..(Len(s) - 1) : t[k] = s[k]

LEMMA SequentialFront ==
  ASSUME NEW s, Sequential(s), s # <<>>
  PROVE  IsShorter(s, Front(s)) /\ Last(s) = s[Len(s)]
<1>1. PICK S : s \in Seq(S) BY DEF Sequential
<1> DEFINE t == Front(s)
<1>2. /\ Len(s) \in Nat \ {0}
      /\ \A i \in 1..Len(s) : s[i] \in S
  BY <1>1, EmptySeq, LenProperties, ElementOfSeq
<1>3. /\ t \in Seq(S)
      /\ Len(t) = IF 1 <= Len(s) - 1 THEN Len(s) - 1 ELSE 0
      /\ \A k \in 1..(Len(s) - 1) : t[k] = s[k]
  BY <1>2, SubSeqProperties DEF Front
<1>4. Len(t) = Len(s) - 1
  <2>1. \A n \in Nat \ {0} : (IF 1 <= n - 1 THEN n - 1 ELSE 0) = n - 1
    OBVIOUS
  <2> QED BY <1>2, <1>3, <2>1
<1> HIDE DEF t
<1>5. IsShorter(s, t) BY <1>2, <1>3, <1>4 DEF IsShorter, Sequential
<1> QED BY <1>5 DEF t, Last

(***************************************************************************)
(* Everything that hangs in a forest is reached from its root.             *)
(***************************************************************************)
ChildrenOf(s, d) ==
  {DirectoryAt(s, e) : e \in
     Follow(s.directory_index, Header(s, d).directory_index_offset)}

TopsOf(s, r) ==
  {DirectoryAt(s, e) : e \in Follow(s.directory_index, r.directories.first)}

IsLevels(s, r, n, f) ==
  f = [k \in 0..n |-> IF k = 0 THEN TopsOf(s, r)
                      ELSE UNION {ChildrenOf(s, d) : d \in f[k - 1]}]

LEMMA ListFollow ==
  ASSUME NEW list, Linkable(list), NEW F, Lists(list, F), NEW d \in DOMAIN F
  PROVE  Follow(list, FirstOf(F[d])) = Among(F[d])
<1>1. Path(list, F[d]) BY DEF Lists
<1>2. \A j, k \in 1..Len(F[d]) : F[d][j] = F[d][k] => j = k
  BY DEF Lists
<1> QED BY <1>1, <1>2, PathFollow

LEMMA ForestChains ==
  ASSUME NEW s, StoreOK(s), NEW F, NEW G, NEW dep, NEW stale,
         Forest(s, F, G, dep, {}, stale),
         NEW r, r.directories.first = FirstOf(G[-1])
  PROVE  Chains(s, r) = DOMAIN F \ {-1}
<1> DEFINE n == Len(s.directories)
           L == DOMAIN F \ {-1}
           Level(k) == {d \in L : dep[d] = k}
           Recs(d) == {DirectoryAt(s, G[d][k]) : k \in 1..Len(G[d])}
<1>1. n \in Nat /\ Linkable(s.directory_index) BY StoreLinks
<1>2. /\ -1 \in DOMAIN F /\ DOMAIN G = DOMAIN F
      /\ DOMAIN F \subseteq {-1} \cup 0..(n - 1)
  BY DEF Forest, Owners
<1>3. /\ \A d \in DOMAIN F : dep[d] \in Nat /\ dep[d] <= d + 1
      /\ dep[-1] = 0
  BY DEF Forest, Deep
<1>4. \A d \in DOMAIN G : \A k \in 1..Len(G[d]) :
        /\ DirectoryAt(s, G[d][k]) \in L
        /\ dep[DirectoryAt(s, G[d][k])] = dep[d] + 1
  BY <1>2 DEF Forest, Hung
<1>5. \A x \in L : \E d \in DOMAIN G : \E k \in 1..Len(G[d]) :
        DirectoryAt(s, G[d][k]) = x
  BY <1>2 DEF Forest, Reached
<1>6. ASSUME NEW d \in DOMAIN F, NEW first, first = FirstOf(G[d])
      PROVE  {DirectoryAt(s, e) : e \in Follow(s.directory_index, first)}
               = Recs(d)
  <2>1. Follow(s.directory_index, first) = Among(G[d])
    BY <1>1, <1>2, <1>6, ListFollow DEF Forest
  <2> QED BY <2>1 DEF Among
<1>7. \A d \in L : ChildrenOf(s, d) = Recs(d)
  <2> SUFFICES ASSUME NEW d \in L PROVE ChildrenOf(s, d) = Recs(d)
    OBVIOUS
  <2>1. Header(s, d).directory_index_offset = FirstOf(G[d])
    BY DEF Forest, Heads, HeadOf
  <2> QED BY <2>1, <1>6 DEF ChildrenOf
<1>8. TopsOf(s, r) = Recs(-1) BY <1>2, <1>6 DEF TopsOf
<1>9. Recs(-1) = Level(1)
  <2>1. ASSUME NEW x \in Recs(-1) PROVE x \in Level(1)
    BY <1>2, <1>3, <1>4
  <2>2. ASSUME NEW x \in Level(1) PROVE x \in Recs(-1)
    <3>1. PICK d \in DOMAIN G : \E k \in 1..Len(G[d]) :
            DirectoryAt(s, G[d][k]) = x
      BY <1>5
    <3>2. dep[x] = dep[d] + 1 BY <3>1, <1>4
    <3>3. dep[d] = 0 BY <3>2, <1>2, <1>3
    <3>4. d = -1
      <4> SUFFICES ASSUME d # -1 PROVE FALSE OBVIOUS
      <4>1. d \in L BY <1>2
      <4>2. PICK e \in DOMAIN G : \E k \in 1..Len(G[e]) :
              DirectoryAt(s, G[e][k]) = d
        BY <4>1, <1>5
      <4>3. dep[d] = dep[e] + 1 BY <4>2, <1>4
      <4> QED BY <4>3, <3>3, <1>2, <1>3
    <3> QED BY <3>1, <3>4
  <2> QED BY <2>1, <2>2
<1>10. ASSUME NEW k \in Nat
       PROVE  UNION {ChildrenOf(s, d) : d \in Level(k + 1)} = Level(k + 2)
  <2>1. ASSUME NEW d \in Level(k + 1), NEW x \in Recs(d)
        PROVE  x \in Level(k + 2)
    <3>1. x \in L /\ dep[x] = dep[d] + 1 BY <1>2, <1>4
    <3> QED BY <3>1
  <2>2. ASSUME NEW x \in Level(k + 2)
        PROVE  \E d \in Level(k + 1) : x \in Recs(d)
    <3>1. PICK d \in DOMAIN G : \E j \in 1..Len(G[d]) :
            DirectoryAt(s, G[d][j]) = x
      BY <1>5
    <3>2. dep[x] = dep[d] + 1 BY <3>1, <1>4
    <3>3. dep[d] = k + 1 BY <3>2, <1>2, <1>3
    <3>4. d \in Level(k + 1) BY <3>3, <1>2, <1>3
    <3> QED BY <3>1, <3>4
  <2>3. \A d \in Level(k + 1) : ChildrenOf(s, d) = Recs(d) BY <1>7
  <2> HIDE DEF Level, Recs
  <2> QED BY <2>1, <2>2, <2>3
<1> DEFINE g == [k \in 0..n |-> Level(k + 1)]
           below == CHOOSE f : IsLevels(s, r, n, f)
<1>11. IsLevels(s, r, n, g)
  <2>1. ASSUME NEW k \in 0..n
        PROVE  g[k] = IF k = 0 THEN TopsOf(s, r)
                      ELSE UNION {ChildrenOf(s, d) : d \in g[k - 1]}
    <3>1. CASE k = 0 BY <3>1, <1>8, <1>9
    <3>2. CASE k # 0
      <4>1. k - 1 \in Nat /\ k - 1 \in 0..n /\ (k - 1) + 1 = k
            /\ (k - 1) + 2 = k + 1
        BY <3>2
      <4>2. g[k - 1] = Level((k - 1) + 1) /\ g[k] = Level(k + 1)
        BY <4>1
      <4> HIDE DEF g, Level
      <4>3. UNION {ChildrenOf(s, d) : d \in Level((k - 1) + 1)}
              = Level((k - 1) + 2)
        BY <4>1, <1>10
      <4> QED BY <3>2, <4>1, <4>2, <4>3
    <3> QED BY <3>1, <3>2
  <2>2. g = [k \in 0..n |-> g[k]] OBVIOUS
  <2> HIDE DEF g
  <2> QED BY <2>1, <2>2 DEF IsLevels
<1>12. IsLevels(s, r, n, below)
  <2> HIDE DEF g
  <2> QED BY <1>11
<1>13. Chains(s, r) = UNION {below[k] : k \in 0..n}
  BY DEF Chains, IsLevels, TopsOf, ChildrenOf
<1> HIDE DEF below
<1>14. \A k \in 0..n : below[k] = Level(k + 1)
  <2> DEFINE T == {k \in 0..n : below[k] # Level(k + 1)}
  <2>1. SUFFICES ASSUME T # {} PROVE FALSE OBVIOUS
  <2>2. PICK m \in T : \A j \in T : m <= j
    <3>1. T \subseteq Nat OBVIOUS
    <3> HIDE DEF T
    <3> QED BY <2>1, <3>1, LeastNat
  <2>3. below[m] = IF m = 0 THEN TopsOf(s, r)
                   ELSE UNION {ChildrenOf(s, d) : d \in below[m - 1]}
    <3>1. m \in 0..n OBVIOUS
    <3> HIDE DEF T, n, Level
    <3> QED BY <3>1, <1>12, Zenon DEF IsLevels
  <2>4. CASE m = 0 BY <2>4, <2>3, <1>8, <1>9
  <2>5. CASE m # 0
    <3>1. m - 1 \in Nat /\ m - 1 \in 0..n /\ m - 1 \notin T
          /\ (m - 1) + 1 = m /\ (m - 1) + 2 = m + 1
      BY <2>2, <2>5
    <3>2. below[m - 1] = Level((m - 1) + 1) BY <3>1
    <3>3. below[m] # Level(m + 1) OBVIOUS
    <3> HIDE DEF Level, T
    <3>4. UNION {ChildrenOf(s, d) : d \in Level((m - 1) + 1)}
            = Level((m - 1) + 2)
      BY <3>1, <1>10
    <3> QED BY <3>1, <3>2, <3>3, <3>4, <2>3, <2>5
  <2> QED BY <2>4, <2>5
<1>15. UNION {Level(k + 1) : k \in 0..n} = L
  <2>1. ASSUME NEW x \in L PROVE \E k \in 0..n : x \in Level(k + 1)
    <3>1. x \in 0..(n - 1) /\ dep[x] \in Nat /\ dep[x] <= x + 1
      BY <1>2, <1>3
    <3>2. PICK d \in DOMAIN G : \E j \in 1..Len(G[d]) :
            DirectoryAt(s, G[d][j]) = x
      BY <1>5
    <3>3. dep[x] = dep[d] + 1 /\ dep[d] \in Nat BY <3>2, <1>2, <1>3, <1>4
    <3>4. dep[x] - 1 \in 0..n /\ (dep[x] - 1) + 1 = dep[x]
      BY <3>1, <3>3, <1>1
    <3> QED BY <3>4
  <2> QED BY <2>1
<1> HIDE DEF n, L, Level
<1>16. {below[k] : k \in 0..n} = {Level(k + 1) : k \in 0..n} BY <1>14
<1>17. Chains(s, r) = L BY <1>13, <1>15, <1>16
<1> QED BY <1>17 DEF L

LEMMA AmongApart ==
  ASSUME NEW list, NEW F, Lists(list, F), NEW d \in DOMAIN F,
         NEW e \in DOMAIN F, d # e
  PROVE  Among(F[d]) \cap Among(F[e]) = {}
BY DEF Lists, Among

LEMMA ForestLosesNothing ==
  ASSUME NEW F, NEW G, NEW dep, NEW stale,
         StoreOK(store), Forest(store, F, G, dep, {}, stale),
         root.files.first = FirstOf(F[-1]),
         root.directories.first = FirstOf(G[-1])
  PROVE  NothingLost
<1> DEFINE live == Chains(store, root)
           FileChain(d) == Follow(store.file_index,
                                  Header(store, d).file_index_offset)
           ChildChain(d) == Follow(store.directory_index,
                                   Header(store, d).directory_index_offset)
           ofRoot == Follow(store.file_index, root.files.first)
           childrenOfRoot == Follow(store.directory_index,
                                    root.directories.first)
<1>1. live = DOMAIN F \ {-1} BY ForestChains
<1>2. /\ -1 \in DOMAIN F /\ DOMAIN G = DOMAIN F
      /\ Lists(store.file_index, F) /\ Lists(store.directory_index, G)
  BY DEF Forest, Owners
<1>3. Linkable(store.file_index) /\ Linkable(store.directory_index)
  BY StoreLinks
<1>4. ofRoot = Among(F[-1]) /\ childrenOfRoot = Among(G[-1])
  BY <1>2, <1>3, ListFollow
<1>5. ASSUME NEW d \in DOMAIN F \ {-1}
      PROVE  FileChain(d) = Among(F[d]) /\ ChildChain(d) = Among(G[d])
  <2>1. /\ Header(store, d).file_index_offset = FirstOf(F[d])
        /\ Header(store, d).directory_index_offset = FirstOf(G[d])
    BY DEF Forest, Heads, HeadOf
  <2>2. Follow(store.file_index, FirstOf(F[d])) = Among(F[d])
    BY <1>2, <1>3, ListFollow
  <2>3. Follow(store.directory_index, FirstOf(G[d])) = Among(G[d])
    BY <1>2, <1>3, ListFollow
  <2> QED BY <2>1, <2>2, <2>3
<1>6. \A d, e \in DOMAIN F :
        d # e => /\ Among(F[d]) \cap Among(F[e]) = {}
                 /\ Among(G[d]) \cap Among(G[e]) = {}
  BY <1>2, AmongApart
<1>7. Among(F[-1]) \cup UNION {Among(F[d]) : d \in DOMAIN F \ {-1}}
        = 0..(Len(store.file_index) - 1)
  <2>1. ASSUME NEW d \in DOMAIN F, NEW x \in Among(F[d])
        PROVE  x \in 0..(Len(store.file_index) - 1)
    <3>1. PICK k \in 1..Len(F[d]) : F[d][k] = x BY DEF Among
    <3>2. x \in Nat /\ x < Len(store.file_index)
      BY <3>1, <1>2, <1>3, ListEntry
    <3> QED BY <3>2, <1>3 DEF Linkable
  <2>2. ASSUME NEW x \in 0..(Len(store.file_index) - 1)
        PROVE  \E d \in DOMAIN F : x \in Among(F[d])
    BY DEF Forest, Covered, Among
  <2> QED BY <2>1, <2>2, <1>2
<1> HIDE DEF FileChain, ChildChain, live, ofRoot, childrenOfRoot
<1>8. {FileChain(d) : d \in live} = {Among(F[d]) : d \in DOMAIN F \ {-1}}
  BY <1>1, <1>5
<1>9. ofRoot \cup UNION {FileChain(d) : d \in live}
        = 0..(Len(store.file_index) - 1)
  BY <1>4, <1>7, <1>8
<1>10. \A d \in live : FileChain(d) \cap ofRoot = {}
                       /\ ChildChain(d) \cap childrenOfRoot = {}
  BY <1>1, <1>2, <1>4, <1>5, <1>6
<1>11. \A d, e \in live : d # e =>
         /\ FileChain(d) \cap FileChain(e) = {}
         /\ ChildChain(d) \cap ChildChain(e) = {}
  BY <1>1, <1>5, <1>6
<1> QED BY <1>9, <1>10, <1>11
        DEF NothingLost, FileChain, ChildChain, live, ofRoot, childrenOfRoot

(***************************************************************************)
(* Steps of a forest.                                                      *)
(***************************************************************************)

(* The directory entries and the headers are what they were.               *)
SameRecords(s, t) ==
  /\ Len(t.directory_index) = Len(s.directory_index)
  /\ \A k \in 1..Len(s.directory_index) :
       t.directory_index[k].record_offset = s.directory_index[k].record_offset

(* A file is added to the chain of an open directory or of the root.       *)
LEMMA ForestFile ==
  ASSUME NEW s, StoreForm(s), NEW F, NEW G, NEW dep, NEW open, NEW stale,
         Forest(s, F, G, dep, open, stale),
         NEW d \in {-1} \cup open, NEW t,
         t.directories = s.directories,
         t.directory_index = s.directory_index,
         Len(t.file_index) = Len(s.file_index) + 1,
         Lists(t.file_index, Grown(F, d, Len(s.file_index)))
  PROVE  Forest(t, Grown(F, d, Len(s.file_index)), G, dep, open, stale)
<1> DEFINE n == Len(s.file_index)  H == Grown(F, d, n)
<1>1. /\ -1 \in DOMAIN F /\ DOMAIN G = DOMAIN F /\ d \in DOMAIN F
      /\ DOMAIN F \subseteq {-1} \cup 0..(Len(s.directories) - 1)
      /\ open \subseteq DOMAIN F \ {-1}
  BY DEF Forest, Owners
<1>2. n \in Nat /\ Linkable(s.file_index) BY FormLinks
<1>3. DOMAIN H = DOMAIN F
      /\ \A x \in DOMAIN F : H[x] = IF x = d THEN Append(F[d], n) ELSE F[x]
  BY DEF Grown
<1> HIDE DEF H
<1>4. F[d] \in Seq(Nat)
  <2>1. Lists(s.file_index, F) BY DEF Forest
  <2> QED BY <2>1, <1>1, <1>2, ListEntry
<1>5. /\ Len(Append(F[d], n)) = Len(F[d]) + 1
      /\ \A k \in 1..Len(F[d]) : Append(F[d], n)[k] = F[d][k]
      /\ Append(F[d], n)[Len(F[d]) + 1] = n
      /\ Len(F[d]) \in Nat
  BY <1>2, <1>4, AppendProperties, LenProperties
<1>6. Covered(t.file_index, H)
  <2> SUFFICES ASSUME NEW x \in 0..(Len(t.file_index) - 1)
               PROVE  \E e \in DOMAIN H : \E k \in 1..Len(H[e]) : H[e][k] = x
    BY DEF Covered
  <2>1. CASE x = n
    <3>1. H[d][Len(F[d]) + 1] = n /\ Len(F[d]) + 1 \in 1..Len(H[d])
      BY <1>1, <1>3, <1>5
    <3> QED BY <3>1, <2>1, <1>1, <1>3
  <2>2. CASE x # n
    <3>1. x \in 0..(n - 1) BY <2>2, <1>2
    <3>2. PICK e \in DOMAIN F : \E k \in 1..Len(F[e]) : F[e][k] = x
      BY <3>1 DEF Forest, Covered
    <3>3. PICK k \in 1..Len(F[e]) : F[e][k] = x BY <3>2
    <3>4. k \in 1..Len(H[e]) /\ H[e][k] = x
      <4>1. CASE e = d
        <5>1. k \in 1..(Len(F[d]) + 1) BY <4>1, <1>5
        <5> QED BY <5>1, <4>1, <3>3, <1>1, <1>3, <1>5
      <4>2. CASE e # d BY <4>2, <3>3, <1>3
      <4> QED BY <4>1, <4>2
    <3> QED BY <3>4, <1>3
  <2> QED BY <2>1, <2>2
<1>7. Heads(t, H, G, open, stale)
  BY <1>1, <1>3 DEF Forest, Heads, Header
<1>8. Deep(H, dep) BY <1>3 DEF Forest, Deep
<1>9. Owners(t, H, G, open) BY <1>1, <1>3 DEF Owners
<1>10. /\ Hung(t, G, dep, open) /\ Once(t, G) /\ Reached(t, G, open)
       /\ Lists(t.directory_index, G)
  BY DEF Forest, Hung, Once, Reached, DirectoryAt
<1> QED BY <1>6, <1>7, <1>8, <1>9, <1>10 DEF Forest, H

Deeper(dep, n, v) ==
  [x \in DOMAIN dep \cup {n} |-> IF x = n THEN v ELSE dep[x]]

(* A directory is opened.                                                  *)
LEMMA ForestOpen ==
  ASSUME NEW s, StoreForm(s), NEW F, NEW G, NEW dep, NEW open, NEW stale,
         Forest(s, F, G, dep, open, stale), NEW t,
         t.file_index = s.file_index,
         t.directory_index = s.directory_index,
         NEW n, n = Len(s.directories), n \notin DOMAIN F,
         Len(t.directories) = n + 1,
         \A k \in 1..n : t.directories[k] = s.directories[k],
         NEW v \in Nat, v <= n + 1
  PROVE  Forest(t, Adjoin(F, n), Adjoin(G, n), Deeper(dep, n, v),
                open \cup {n}, stale)
<1> DEFINE dep2 == Deeper(dep, n, v)
<1>0. dep2 = [x \in DOMAIN F \cup {n} |-> IF x = n THEN v ELSE dep[x]]
  BY DEF Deeper, Forest, Deep
<1> HIDE DEF dep2
<1> DEFINE F2 == Adjoin(F, n)  G2 == Adjoin(G, n)  open2 == open \cup {n}
<1>1. /\ -1 \in DOMAIN F /\ DOMAIN G = DOMAIN F
      /\ DOMAIN F \subseteq {-1} \cup 0..(n - 1)
      /\ open \subseteq DOMAIN F \ {-1}
  BY DEF Forest, Owners
<1>2. n \in Nat /\ Linkable(s.file_index) /\ Linkable(s.directory_index)
  BY FormLinks
<1>3. /\ DOMAIN F2 = DOMAIN F \cup {n} /\ DOMAIN G2 = DOMAIN F \cup {n}
      /\ \A x \in DOMAIN F : F2[x] = F[x] /\ G2[x] = G[x]
      /\ F2[n] = <<>> /\ G2[n] = <<>> /\ Len(<<>>) = 0
  BY <1>1 DEF Adjoin
<1>4. Lists(t.file_index, F2) /\ Lists(t.directory_index, G2)
  BY <1>2, AdjoinLists DEF Forest
<1> HIDE DEF F2, G2
<1>5. Owners(t, F2, G2, open2)
  BY <1>1, <1>2, <1>3 DEF Owners
<1>6. Covered(t.file_index, F2)
  <2> SUFFICES ASSUME NEW x \in 0..(Len(s.file_index) - 1)
               PROVE  \E d \in DOMAIN F2 : \E k \in 1..Len(F2[d]) :
                        F2[d][k] = x
    BY DEF Covered
  <2>1. PICK d \in DOMAIN F : \E k \in 1..Len(F[d]) : F[d][k] = x
    BY DEF Forest, Covered
  <2> QED BY <2>1, <1>3
<1>7. Deep(F2, dep2)
  <2>1. dep \in [DOMAIN F -> Nat] /\ dep[-1] = 0
        /\ \A x \in DOMAIN F : dep[x] <= x + 1
    BY DEF Forest, Deep
  <2>2. dep2 \in [DOMAIN F2 -> Nat] BY <2>1, <1>0, <1>3
  <2>3. dep2[-1] = 0 BY <2>1, <1>0, <1>1, <1>2
  <2>4. \A x \in DOMAIN F2 : dep2[x] <= x + 1 BY <2>1, <1>0, <1>3
  <2> QED BY <2>2, <2>3, <2>4 DEF Deep
<1>8. Hung(t, G2, dep2, open2)
  <2> SUFFICES ASSUME NEW x \in DOMAIN G2, NEW k \in 1..Len(G2[x])
               PROVE  /\ DirectoryAt(t, G2[x][k])
                           \in DOMAIN G2 \ ({-1} \cup open2)
                      /\ dep2[DirectoryAt(t, G2[x][k])] = dep2[x] + 1
    BY DEF Hung
  <2>1. x \in DOMAIN F /\ k \in 1..Len(G[x]) /\ G2[x] = G[x] BY <1>3
  <2>2. /\ DirectoryAt(s, G[x][k]) \in DOMAIN G \ ({-1} \cup open)
        /\ dep[DirectoryAt(s, G[x][k])] = dep[x] + 1
    BY <2>1, <1>1 DEF Forest, Hung
  <2>3. DirectoryAt(t, G2[x][k]) = DirectoryAt(s, G[x][k])
    BY <2>1 DEF DirectoryAt
  <2> QED BY <2>1, <2>2, <2>3, <1>0, <1>1, <1>3
<1>9. Once(t, G2)
  <2> SUFFICES ASSUME NEW x \in DOMAIN G2, NEW y \in DOMAIN G2,
                      NEW j \in 1..Len(G2[x]), NEW k \in 1..Len(G2[y]),
                      DirectoryAt(t, G2[x][j]) = DirectoryAt(t, G2[y][k])
               PROVE  x = y /\ j = k
    BY DEF Once
  <2>1. /\ x \in DOMAIN G /\ j \in 1..Len(G[x]) /\ G2[x] = G[x]
        /\ y \in DOMAIN G /\ k \in 1..Len(G[y]) /\ G2[y] = G[y]
    BY <1>1, <1>3
  <2>2. DirectoryAt(s, G[x][j]) = DirectoryAt(s, G[y][k])
    BY <2>1 DEF DirectoryAt
  <2> QED BY <2>1, <2>2 DEF Forest, Once
<1>10. Reached(t, G2, open2)
  <2> SUFFICES ASSUME NEW x \in DOMAIN G2 \ ({-1} \cup open2)
               PROVE  \E d \in DOMAIN G2 : \E k \in 1..Len(G2[d]) :
                        DirectoryAt(t, G2[d][k]) = x
    BY DEF Reached
  <2>1. x \in DOMAIN G \ ({-1} \cup open) BY <1>1, <1>3
  <2>2. PICK d \in DOMAIN G : \E k \in 1..Len(G[d]) :
          DirectoryAt(s, G[d][k]) = x
    BY <2>1 DEF Forest, Reached
  <2> QED BY <2>2, <1>1, <1>3 DEF DirectoryAt
<1>11. Heads(t, F2, G2, open2, stale)
  <2> SUFFICES ASSUME NEW x \in DOMAIN F2 \ ({-1} \cup open2)
               PROVE  /\ HeadOf(Header(t, x), F2[x], G2[x])
                      /\ x \notin stale =>
                           Header(t, x).directory_count = Len(G2[x])
    BY DEF Heads
  <2>1. x \in DOMAIN F \ ({-1} \cup open) BY <1>3
  <2>2. Header(t, x) = Header(s, x)
    <3>1. x + 1 \in 1..n BY <2>1, <1>1, <1>2
    <3> QED BY <3>1 DEF Header
  <2> QED BY <2>1, <2>2, <1>3 DEF Forest, Heads
<1> QED BY <1>4, <1>5, <1>6, <1>7, <1>8, <1>9, <1>10, <1>11
        DEF Forest, F2, G2, dep2

(* An open directory gets its header and hangs in the chain of another.    *)
ClosesIn(s, t, F, G, c, d) ==
  /\ t.file_index = s.file_index
  /\ Len(t.directories) = Len(s.directories)
  /\ \A k \in 1..Len(s.directories) :
       k # c + 1 => t.directories[k] = s.directories[k]
  /\ HeadOf(Header(t, c), F[c], G[c])
  /\ Header(t, c).directory_count = Len(G[c])
  /\ Len(t.directory_index) = Len(s.directory_index) + 1
  /\ Lists(t.directory_index, Grown(G, d, Len(s.directory_index)))
  /\ t.directory_index[Len(s.directory_index) + 1].record_offset = c
  /\ \A k \in 1..Len(s.directory_index) :
       t.directory_index[k].record_offset
         = s.directory_index[k].record_offset

LEMMA ForestClose ==
  ASSUME NEW s, StoreForm(s), NEW F, NEW G, NEW dep, NEW open, NEW stale,
         Forest(s, F, G, dep, open, stale), NEW t,
         NEW c \in open, NEW d \in {-1} \cup open, c # d,
         dep[c] = dep[d] + 1, ClosesIn(s, t, F, G, c, d)
  PROVE  Forest(t, F, Grown(G, d, Len(s.directory_index)), dep,
                open \ {c}, stale)
<1> DEFINE n == Len(s.directory_index)
<1>0. /\ t.file_index = s.file_index
      /\ Len(t.directories) = Len(s.directories)
      /\ \A k \in 1..Len(s.directories) :
           k # c + 1 => t.directories[k] = s.directories[k]
      /\ HeadOf(Header(t, c), F[c], G[c])
      /\ Header(t, c).directory_count = Len(G[c])
      /\ n = Len(s.directory_index)
      /\ Len(t.directory_index) = n + 1
      /\ Lists(t.directory_index, Grown(G, d, n))
      /\ t.directory_index[n + 1].record_offset = c
      /\ \A k \in 1..n : t.directory_index[k].record_offset
                           = s.directory_index[k].record_offset
  BY DEF ClosesIn
<1> USE <1>0
<1> HIDE DEF n
<1> DEFINE H == Grown(G, d, n)  open2 == open \ {c}
<1>1. /\ -1 \in DOMAIN F /\ DOMAIN G = DOMAIN F
      /\ DOMAIN F \subseteq {-1} \cup 0..(Len(s.directories) - 1)
      /\ open \subseteq DOMAIN F \ {-1}
      /\ c \in DOMAIN F /\ d \in DOMAIN F
  BY DEF Forest, Owners
<1>2. /\ n \in Nat /\ Linkable(s.directory_index)
      /\ Len(s.directories) \in Nat
  BY FormLinks
<1>3. DOMAIN H = DOMAIN F
      /\ \A x \in DOMAIN F : H[x] = IF x = d THEN Append(G[d], n) ELSE G[x]
  BY <1>1 DEF Grown
<1> HIDE DEF H
<1>4. Lists(s.directory_index, G) BY DEF Forest
<1>5. G[d] \in Seq(Nat) BY <1>1, <1>2, <1>4, ListEntry
<1>6. /\ Len(Append(G[d], n)) = Len(G[d]) + 1
      /\ \A k \in 1..Len(G[d]) : Append(G[d], n)[k] = G[d][k]
      /\ Append(G[d], n)[Len(G[d]) + 1] = n
      /\ Len(G[d]) \in Nat
  BY <1>2, <1>5, AppendProperties, LenProperties
<1>7. DirectoryAt(t, n) = c BY DEF DirectoryAt
<1>8. ASSUME NEW x \in DOMAIN F, NEW k \in 1..Len(G[x])
      PROVE  DirectoryAt(t, G[x][k]) = DirectoryAt(s, G[x][k])
  <2>1. G[x][k] + 1 \in 1..n BY <1>1, <1>2, <1>4, ListEntry
  <2> QED BY <2>1 DEF DirectoryAt
<1> DEFINE Old(x, k) == k \in 1..Len(G[x]) /\ H[x][k] = G[x][k]
           New(x, k) == x = d /\ k = Len(G[d]) + 1 /\ H[x][k] = n
<1>9. ASSUME NEW x \in DOMAIN F, NEW k \in 1..Len(H[x])
      PROVE  Old(x, k) \/ New(x, k)
  <2>1. CASE x # d BY <2>1, <1>3
  <2>2. CASE x = d
    <3>1. H[x] = Append(G[d], n) BY <2>2, <1>3
    <3>2. k \in 1..Len(G[d]) \/ k = Len(G[d]) + 1 BY <3>1, <1>6
    <3> QED BY <2>2, <3>1, <3>2, <1>6
  <2> QED BY <2>1, <2>2
<1>10. ASSUME NEW x \in DOMAIN F, NEW k \in 1..Len(G[x])
       PROVE  k \in 1..Len(H[x]) /\ H[x][k] = G[x][k]
  <2>1. CASE x # d BY <2>1, <1>3
  <2>2. CASE x = d
    <3>1. H[x] = Append(G[d], n) BY <2>2, <1>3
    <3>2. k \in 1..(Len(G[d]) + 1) BY <2>2, <1>6
    <3> QED BY <2>2, <3>1, <3>2, <1>6
  <2> QED BY <2>1, <2>2
<1>11. /\ Len(G[d]) + 1 \in 1..Len(H[d])
       /\ DirectoryAt(t, H[d][Len(G[d]) + 1]) = c
  BY <1>1, <1>3, <1>6, <1>7
<1>12. \A x \in DOMAIN F : \A k \in 1..Len(G[x]) :
         /\ DirectoryAt(s, G[x][k]) \in DOMAIN F \ ({-1} \cup open)
         /\ dep[DirectoryAt(s, G[x][k])] = dep[x] + 1
  BY <1>1 DEF Forest, Hung
<1>13. Hung(t, H, dep, open2)
  <2> SUFFICES ASSUME NEW x \in DOMAIN F, NEW k \in 1..Len(H[x])
               PROVE  /\ DirectoryAt(t, H[x][k])
                           \in DOMAIN F \ ({-1} \cup open2)
                      /\ dep[DirectoryAt(t, H[x][k])] = dep[x] + 1
    BY <1>3 DEF Hung
  <2>1. CASE Old(x, k) BY <2>1, <1>8, <1>12
  <2>2. CASE New(x, k) BY <2>2, <1>1, <1>7
  <2> QED BY <2>1, <2>2, <1>9
<1>14. Once(t, H)
  <2> SUFFICES ASSUME NEW x \in DOMAIN F, NEW y \in DOMAIN F,
                      NEW j \in 1..Len(H[x]), NEW k \in 1..Len(H[y]),
                      DirectoryAt(t, H[x][j]) = DirectoryAt(t, H[y][k])
               PROVE  x = y /\ j = k
    BY <1>3 DEF Once
  <2>1. ASSUME NEW a \in DOMAIN F, NEW i, Old(a, i)
        PROVE  DirectoryAt(t, H[a][i]) # c
               /\ DirectoryAt(t, H[a][i]) = DirectoryAt(s, G[a][i])
    BY <2>1, <1>8, <1>12
  <2>2. ASSUME NEW a, NEW i, New(a, i)
        PROVE  DirectoryAt(t, H[a][i]) = c
    BY <2>2, <1>7
  <2>3. \/ Old(x, j) /\ Old(y, k)
        \/ New(x, j) /\ New(y, k)
    <3> HIDE DEF Old, New
    <3> QED BY <2>1, <2>2, <1>9
  <2>4. CASE Old(x, j) /\ Old(y, k)
    <3>1. DirectoryAt(s, G[x][j]) = DirectoryAt(s, G[y][k])
      <4> HIDE DEF Old
      <4> QED BY <2>4, <2>1
    <3> QED BY <3>1, <2>4, <1>1 DEF Forest, Once
  <2> QED BY <2>3, <2>4
<1>15. Reached(t, H, open2)
  <2> SUFFICES ASSUME NEW x \in DOMAIN F \ ({-1} \cup open2)
               PROVE  \E y \in DOMAIN F : \E k \in 1..Len(H[y]) :
                        DirectoryAt(t, H[y][k]) = x
    BY <1>3 DEF Reached
  <2>1. CASE x = c BY <2>1, <1>1, <1>11
  <2>2. CASE x # c
    <3>1. x \in DOMAIN G \ ({-1} \cup open) BY <2>2, <1>1
    <3>2. PICK y \in DOMAIN G : \E k \in 1..Len(G[y]) :
            DirectoryAt(s, G[y][k]) = x
      BY <3>1 DEF Forest, Reached
    <3>3. PICK k \in 1..Len(G[y]) : DirectoryAt(s, G[y][k]) = x BY <3>2
    <3> QED BY <3>3, <1>1, <1>8, <1>10
  <2> QED BY <2>1, <2>2
<1>16. Heads(t, F, H, open2, stale)
  <2> SUFFICES ASSUME NEW x \in DOMAIN F \ ({-1} \cup open2)
               PROVE  /\ HeadOf(Header(t, x), F[x], H[x])
                      /\ x \notin stale =>
                           Header(t, x).directory_count = Len(H[x])
    BY DEF Heads
  <2>1. CASE x = c BY <2>1, <1>1, <1>3
  <2>2. CASE x # c
    <3>1. x \in DOMAIN F \ ({-1} \cup open) /\ x # d BY <2>2
    <3>2. Header(t, x) = Header(s, x)
      <4>1. x \in Nat /\ c \in Nat /\ x + 1 \in 1..Len(s.directories)
        BY <3>1, <1>1, <1>2
      <4>2. x + 1 # c + 1 BY <4>1, <2>2
      <4> QED BY <4>1, <4>2 DEF Header
    <3> QED BY <3>1, <3>2, <1>3 DEF Forest, Heads
  <2> QED BY <2>1, <2>2
<1>17. Owners(t, F, H, open2) BY <1>1, <1>3 DEF Owners
<1>18. Covered(t.file_index, F) /\ Deep(F, dep) /\ Lists(t.file_index, F)
  BY DEF Forest
<1> QED BY <1>13, <1>14, <1>15, <1>16, <1>17, <1>18 DEF Forest, H, n

(***************************************************************************)
(* A record at the end of the backing file.                                *)
(***************************************************************************)
RecordAt(s, k) == s.file_records[s.file_index[k].record_offset + 1].record

LEMMA CellsSeq ==
  ASSUME NEW record \in FileRecords, NEW length \in Nat
  PROVE  /\ Cells(record, length) \in Seq(Bytes)
         /\ Len(Cells(record, length)) = length
         /\ \A k \in 1..length : Cells(record, length)[k] =
              [record |-> record, at |-> k, of |-> length]
<1>1. Cells(record, length) \in [1..length -> Bytes]
  BY DEF Cells, Bytes
<1>2. Cells(record, length) \in Seq(Bytes) BY <1>1
<1>3. DOMAIN Cells(record, length) = 1..length BY DEF Cells
<1>4. Len(Cells(record, length)) = length
  BY <1>1, <1>2, <1>3, LenProperties
<1> QED BY <1>2, <1>4 DEF Cells

IsConcat(S, s, u, t) ==
  /\ t \in Seq(S) /\ Len(t) = Len(s) + Len(u)
  /\ \A k \in 1..(Len(s) + Len(u)) :
       t[k] = IF k <= Len(s) THEN s[k] ELSE u[k - Len(s)]

LEMMA ConcatFacts ==
  ASSUME NEW S, NEW s \in Seq(S), NEW u \in Seq(S)
  PROVE  IsConcat(S, s, u, s \o u)
BY ConcatProperties DEF IsConcat

LEMMA WholeReads ==
  ASSUME NEW s, StoreOK(s), NEW k \in 1..Len(s.file_index)
  PROVE  /\ RecordAt(s, k) \in FileRecords
         /\ ReadRecord(s, s.file_index[k].record_offset,
                       s.file_index[k].record_length) = RecordAt(s, k)
         /\ RecordAt(s, k) # Damaged
<1> DEFINE e == s.file_index[k]  bytes == s.file_records
<1>1. e \in FileEntries BY ElementOfSeq DEF StoreOK, StoreForm
<1>2. e.record_offset \in Nat /\ e.record_length \in Nat
  BY <1>1 DEF FileEntries
<1>3. Whole(bytes, e) BY DEF StoreOK, StoreForm
<1>4. bytes \in Seq(Bytes) /\ Len(bytes) \in Nat
  BY LenProperties DEF StoreOK, StoreForm
<1> HIDE DEF e, bytes
<1>5. e.record_offset + 1 \in 1..Len(bytes) /\ 1 \in 1..e.record_length
  BY <1>2, <1>3, <1>4 DEF Whole
<1>6. bytes[e.record_offset + 1] \in Bytes BY <1>4, <1>5, ElementOfSeq
<1>7. bytes[e.record_offset + 1].record \in FileRecords
  BY <1>6 DEF Bytes
<1>8. ReadRecord(s, e.record_offset, e.record_length)
        = bytes[e.record_offset + 1].record
  BY <1>3 DEF ReadRecord, Whole, bytes
<1>9. bytes[e.record_offset + 1].record # Damaged
  <2>1. bytes[e.record_offset + 1].record.uid \in Nat
    BY <1>7 DEF FileRecords
  <2>2. Damaged.uid = -1 BY DEF Damaged
  <2> QED BY <2>1, <2>2
<1> QED BY <1>7, <1>8, <1>9 DEF RecordAt, e, bytes

IsRecorded(s, t, record) ==
  /\ StoreOK(t)
  /\ \A k \in 1..Len(s.file_index) : RecordAt(t, k) = RecordAt(s, k)
  /\ RecordAt(t, Len(s.file_index) + 1) = record

LEMMA StoreAddsRecord ==
  ASSUME NEW s, StoreOK(s), NEW record \in FileRecords,
         NEW length \in Nat, length >= 1, NEW t, IsStore(t),
         t.file_records = s.file_records \o Cells(record, length),
         t.file_records_position = s.file_records_position + length,
         t.directories = s.directories,
         t.directory_index = s.directory_index,
         t.selection_count \in Nat, t.next_file_uid \in Nat,
         t.file_index \in Seq(FileEntries),
         NEW n, n = Len(s.file_index), Len(t.file_index) = n + 1,
         t.file_index[n + 1].record_offset = Len(s.file_records),
         t.file_index[n + 1].record_length = length,
         \A k \in 1..n :
           /\ t.file_index[k].record_offset = s.file_index[k].record_offset
           /\ t.file_index[k].record_length = s.file_index[k].record_length
  PROVE  IsRecorded(s, t, record)
<1> DEFINE old == s.file_records  cells == Cells(record, length)
           new == t.file_records
<1>1. /\ old \in Seq(Bytes) /\ Len(old) \in Nat /\ n \in Nat
      /\ s.file_records_position = Len(old)
      /\ s.file_index \in Seq(FileEntries)
  BY StoreLinks, LenProperties DEF StoreOK, StoreForm
<1>2. /\ cells \in Seq(Bytes) /\ Len(cells) = length
      /\ \A k \in 1..length : cells[k] =
              [record |-> record, at |-> k, of |-> length]
  BY CellsSeq
<1>3. /\ new \in Seq(Bytes) /\ Len(new) = Len(old) + length
      /\ \A k \in 1..(Len(old) + length) :
           new[k] = IF k <= Len(old) THEN old[k] ELSE cells[k - Len(old)]
  <2>1. new = old \o cells OBVIOUS
  <2> HIDE DEF old, cells, new
  <2>2. IsConcat(Bytes, old, cells, old \o cells)
    BY <1>1, <1>2, ConcatFacts, Zenon
  <2>3. IsConcat(Bytes, old, cells, new) BY <2>1, <2>2, Zenon
  <2> QED BY <2>3, <1>2 DEF IsConcat
<1> HIDE DEF cells, old, new
<1>4. ASSUME NEW k \in 1..n
      PROVE  Whole(new, t.file_index[k]) /\ RecordAt(t, k) = RecordAt(s, k)
  <2> DEFINE e == s.file_index[k]  f == t.file_index[k]
             o == e.record_offset  l == e.record_length
  <2>1. o \in Nat /\ l \in Nat
    <3>1. e \in FileEntries BY <1>1, ElementOfSeq
    <3> QED BY <3>1 DEF FileEntries
  <2>2. f.record_offset = o /\ f.record_length = l OBVIOUS
  <2>3. Whole(old, e) BY DEF StoreOK, StoreForm, old
  <2>4. l >= 1 /\ o + l <= Len(old) BY <2>3 DEF Whole
  <2>5. \A j \in 1..l : new[o + j] = old[o + j]
    <3> SUFFICES ASSUME NEW j \in 1..l PROVE new[o + j] = old[o + j]
      OBVIOUS
    <3>1. o + j \in 1..(Len(old) + length) /\ o + j <= Len(old)
      <4> HIDE DEF o, l
      <4> QED BY <2>1, <2>4, <1>1
    <3> QED BY <3>1, <1>3
  <2>6. 1 \in 1..l BY <2>1, <2>4
  <2>7. new[o + 1] = old[o + 1] BY <2>5, <2>6
  <2>8. Whole(new, f)
    <3>1. o + l <= Len(new)
      <4> HIDE DEF o, l
      <4> QED BY <2>1, <2>4, <1>1, <1>3
    <3>2. \A j \in 1..l : old[o + j] =
            [record |-> old[o + 1].record, at |-> j, of |-> l]
      BY <2>3 DEF Whole
    <3>3. \A j \in 1..l : new[o + j] =
            [record |-> new[o + 1].record, at |-> j, of |-> l]
      <4> HIDE DEF o, l
      <4> QED BY <3>2, <2>5, <2>7
    <3> HIDE DEF o, l, f
    <3> QED BY <2>2, <2>4, <3>1, <3>3 DEF Whole
  <2>9. RecordAt(t, k) = RecordAt(s, k)
    BY <2>2, <2>7 DEF RecordAt, old, new
  <2> QED BY <2>8, <2>9
<1>5. /\ Whole(new, t.file_index[n + 1])
      /\ new[Len(old) + 1].record = record
  <2>1. \A j \in 1..length : new[Len(old) + j] = cells[j]
    <3> SUFFICES ASSUME NEW j \in 1..length
                 PROVE  new[Len(old) + j] = cells[j]
      OBVIOUS
    <3>1. /\ Len(old) + j \in 1..(Len(old) + length)
          /\ ~ (Len(old) + j <= Len(old))
          /\ (Len(old) + j) - Len(old) = j
      BY <1>1
    <3> QED BY <3>1, <1>3
  <2>2. 1 \in 1..length OBVIOUS
  <2>3. new[Len(old) + 1].record = record
    <3>1. new[Len(old) + 1] = [record |-> record, at |-> 1, of |-> length]
      BY <2>1, <2>2, <1>2
    <3> QED BY <3>1
  <2>4. \A j \in 1..length : new[Len(old) + j] =
          [record |-> record, at |-> j, of |-> length]
    BY <2>1, <1>2
  <2>5. /\ t.file_index[n + 1].record_offset = Len(old)
        /\ t.file_index[n + 1].record_length = length
    BY DEF old
  <2>6. Len(old) + length <= Len(new) BY <1>1, <1>3
  <2> DEFINE f == t.file_index[n + 1]
  <2>7. f.record_offset = Len(old) /\ f.record_length = length BY <2>5
  <2>8. \A j \in 1..length : new[Len(old) + j] =
          [record |-> new[Len(old) + 1].record, at |-> j, of |-> length]
    BY <2>3, <2>4
  <2> HIDE DEF f
  <2>9. Whole(new, f) BY <2>6, <2>7, <2>8 DEF Whole
  <2> QED BY <2>3, <2>9 DEF f
<1>6. RecordAt(t, n + 1) = record
  BY <1>5 DEF RecordAt, new, old
<1>7. \A k \in 1..(n + 1) : Whole(new, t.file_index[k])
  <2> SUFFICES ASSUME NEW k \in 1..(n + 1)
               PROVE  Whole(new, t.file_index[k])
    OBVIOUS
  <2>1. k \in 1..n \/ k = n + 1 BY <1>1
  <2> QED BY <2>1, <1>4, <1>5
<1>8. StoreOK(t)
  <2>1. t.file_records_position = Len(new) BY <1>1, <1>3
  <2>2. Sequential(t.directories)
        /\ t.directory_index \in Seq(DirectoryEntries)
    BY DEF StoreOK, StoreForm
  <2> QED BY <1>3, <1>7, <2>1, <2>2 DEF StoreOK, StoreForm, new
<1> QED BY <1>4, <1>6, <1>8 DEF IsRecorded

(***************************************************************************)
(* The stack of the parser.                                                *)
(***************************************************************************)
IsFrame(f) == f = [el |-> f.el, state |-> f.state]

IsState(st) ==
  st = [offset |-> st.offset, selection |-> st.selection,
        files |-> st.files, directories |-> st.directories,
        total_file_count |-> st.total_file_count,
        total_directory_count |-> st.total_directory_count,
        name |-> st.name, file_uid |-> st.file_uid]

Holds(stack, k) == stack[k].el \in {"top", "directory"}
OffsetAt(stack, k) == stack[k].state.offset

OpenOf(stack) ==
  {OffsetAt(stack, k) :
     k \in {j \in 1..Len(stack) : stack[j].el = "directory"}}

StateOK(st, F, G) ==
  /\ IsState(st)
  /\ st.selection \in Int
  /\ st.file_uid = 0
  /\ st.offset \in DOMAIN F
  /\ st.files = ChainOf(F[st.offset])
  /\ st.directories = ChainOf(G[st.offset])

StackOK(stack, F, G, dep) ==
  /\ Sequential(stack) /\ Len(stack) >= 1
  /\ \A k \in 1..Len(stack) :
       /\ IsFrame(stack[k])
       /\ stack[k].el = "top" <=> k = 1
       /\ Holds(stack, k) => StateOK(stack[k].state, F, G)
       /\ stack[k].el = "directory" => OffsetAt(stack, k) # -1
       /\ stack[k].el \in {"flat", "scan"} =>
            \A j \in 1..(k - 1) : stack[j].el # "directory"
  /\ OffsetAt(stack, 1) = -1
  /\ \A j, k \in 1..Len(stack) :
       j < k /\ Holds(stack, j) /\ Holds(stack, k) =>
         /\ dep[OffsetAt(stack, j)] < dep[OffsetAt(stack, k)]
         /\ (\A i \in (j + 1)..(k - 1) : ~Holds(stack, i)) =>
              dep[OffsetAt(stack, k)] = dep[OffsetAt(stack, j)] + 1

LEMMA LargestNat ==
  ASSUME NEW n \in Nat, NEW T, T \subseteq 1..n, T # {}
  PROVE  \E x \in T : \A y \in T : y <= x
<1> DEFINE U == {j \in Nat : n - j \in T}
<1>1. U # {}
  <2>1. PICK x \in T : TRUE OBVIOUS
  <2>2. n - x \in Nat /\ n - (n - x) = x BY <2>1
  <2> QED BY <2>1, <2>2
<1>2. PICK j \in U : \A i \in U : j <= i
  <2>1. U \subseteq Nat OBVIOUS
  <2> HIDE DEF U
  <2> QED BY <1>1, <2>1, LeastNat
<1>3. n - j \in T OBVIOUS
<1>4. ASSUME NEW y \in T PROVE y <= n - j
  <2>1. y \in 1..n /\ n - y \in Nat /\ n - (n - y) = y BY <1>4
  <2>2. n - y \in U BY <2>1
  <2>3. j <= n - y BY <1>2, <2>2
  <2> QED BY <2>1, <2>3
<1> QED BY <1>3, <1>4

LEMMA OwnerFacts ==
  ASSUME NEW p, NEW F, NEW G, NEW dep, StackOK(p.stack, F, G, dep)
  PROVE  /\ Owner(p) \in 1..Len(p.stack)
         /\ Holds(p.stack, Owner(p))
         /\ \A j \in 1..Len(p.stack) : Holds(p.stack, j) => j <= Owner(p)
<1> DEFINE stack == p.stack
           T == {k \in 1..Len(stack) : Holds(stack, k)}
<1>1. Len(stack) \in Nat /\ DOMAIN stack = 1..Len(stack)
  BY SequentialFacts DEF StackOK
<1>2. 1 \in T BY <1>1 DEF StackOK, Holds
<1>3. \E x \in T : \A y \in T : y <= x
  <2>1. T \subseteq 1..Len(stack) /\ T # {} BY <1>2
  <2> HIDE DEF T, stack
  <2> QED BY <1>1, <2>1, LargestNat
<1>4. \E k \in DOMAIN stack :
        /\ stack[k].el \in {"top", "directory"}
        /\ \A j \in DOMAIN stack :
             stack[j].el \in {"top", "directory"} => j <= k
  BY <1>1, <1>3 DEF Holds
<1>5. /\ Owner(p) \in DOMAIN stack
      /\ stack[Owner(p)].el \in {"top", "directory"}
      /\ \A j \in DOMAIN stack :
           stack[j].el \in {"top", "directory"} => j <= Owner(p)
  BY <1>4 DEF Owner
<1> QED BY <1>1, <1>5 DEF Holds

IsKept(stack, new, F, G, dep) ==
  StackOK(new, F, G, dep) /\ OpenOf(new) = OpenOf(stack)

IsPopped(stack, new, F, G, dep) ==
  /\ StackOK(new, F, G, dep)
  /\ Len(stack) \in Nat /\ Len(stack) >= 2
  /\ Last(stack) = stack[Len(stack)]
  /\ Len(new) = Len(stack) - 1
  /\ \A k \in 1..(Len(stack) - 1) : new[k] = stack[k]
  /\ OpenOf(new) = {OffsetAt(stack, k) :
       k \in {j \in 1..(Len(stack) - 1) : stack[j].el = "directory"}}

(* A frame that owns nothing comes or goes.                                *)
LEMMA StackPush ==
  ASSUME NEW stack, NEW F, NEW G, NEW dep, StackOK(stack, F, G, dep),
         NEW el \in {"skip", "contents", "flat", "scan", "ltfsindex"}, NEW st,
         el \in {"flat", "scan"} => OpenOf(stack) = {}
  PROVE  IsKept(stack, Append(stack, Frame(el, st)), F, G, dep)
<1> DEFINE new == Append(stack, Frame(el, st))
<1>1. Sequential(stack) /\ Len(stack) \in Nat /\ Len(stack) >= 1
  BY SequentialFacts DEF StackOK
<1>2. /\ Sequential(new) /\ Len(new) = Len(stack) + 1
      /\ new[Len(stack) + 1] = Frame(el, st)
      /\ \A k \in 1..Len(stack) : new[k] = stack[k]
  BY <1>1, SequentialAppend DEF IsLonger
<1> HIDE DEF new
<1>3. /\ new[Len(stack) + 1].el = el
      /\ IsFrame(new[Len(stack) + 1])
      /\ ~Holds(new, Len(stack) + 1)
  BY <1>2 DEF Frame, IsFrame, Holds
<1>4. \A k \in 1..Len(new) : k \in 1..Len(stack) \/ k = Len(stack) + 1
  BY <1>1, <1>2
<1>5. \A k \in 1..Len(stack) : Holds(new, k) <=> Holds(stack, k)
  BY <1>2 DEF Holds
<1>6. ASSUME NEW k \in 1..Len(new)
      PROVE  /\ IsFrame(new[k])
             /\ new[k].el = "top" <=> k = 1
             /\ Holds(new, k) => StateOK(new[k].state, F, G)
             /\ new[k].el = "directory" => OffsetAt(new, k) # -1
             /\ new[k].el \in {"flat", "scan"} =>
                  \A j \in 1..(k - 1) : new[j].el # "directory"
  <2>1. CASE k \in 1..Len(stack)
    <3>1. \A j \in 1..(k - 1) : j \in 1..Len(stack) BY <2>1, <1>1
    <3>2. new[k] = stack[k] /\ \A j \in 1..(k - 1) : new[j] = stack[j]
      BY <2>1, <3>1, <1>2
    <3> QED BY <2>1, <3>2, <1>5 DEF StackOK, OffsetAt
  <2>2. CASE k = Len(stack) + 1
    <3>1. k # 1 BY <2>2, <1>1
    <3>2. el \in {"flat", "scan"} =>
            \A j \in 1..(k - 1) : new[j].el # "directory"
      <4> SUFFICES ASSUME el \in {"flat", "scan"}, NEW j \in 1..(k - 1)
                   PROVE  new[j].el # "directory"
        OBVIOUS
      <4>1. j \in 1..Len(stack) BY <2>2, <1>1
      <4> QED BY <4>1, <1>2 DEF OpenOf
    <3> QED BY <2>2, <3>1, <3>2, <1>3
  <2> QED BY <2>1, <2>2, <1>4
<1>7. OffsetAt(new, 1) = -1
  <2>1. 1 \in 1..Len(stack) BY <1>1
  <2> QED BY <2>1, <1>2 DEF StackOK, OffsetAt
<1>8. ASSUME NEW j \in 1..Len(new), NEW k \in 1..Len(new),
             j < k, Holds(new, j), Holds(new, k)
      PROVE  /\ dep[OffsetAt(new, j)] < dep[OffsetAt(new, k)]
             /\ (\A i \in (j + 1)..(k - 1) : ~Holds(new, i)) =>
                  dep[OffsetAt(new, k)] = dep[OffsetAt(new, j)] + 1
  <2>1. j \in 1..Len(stack) /\ k \in 1..Len(stack) BY <1>3, <1>4, <1>8
  <2>2. \A i \in (j + 1)..(k - 1) : i \in 1..Len(stack) BY <2>1, <1>1
  <2>3. /\ OffsetAt(new, j) = OffsetAt(stack, j)
        /\ OffsetAt(new, k) = OffsetAt(stack, k)
    BY <2>1, <1>2 DEF OffsetAt
  <2>4. Holds(stack, j) /\ Holds(stack, k)
        /\ \A i \in (j + 1)..(k - 1) : Holds(new, i) <=> Holds(stack, i)
    BY <2>1, <2>2, <1>5, <1>8
  <2> QED BY <2>1, <2>3, <2>4, <1>8 DEF StackOK
<1>9. OpenOf(new) = OpenOf(stack)
  BY <1>2, <1>3, <1>4 DEF OpenOf, OffsetAt
<1>10. StackOK(new, F, G, dep)
  BY <1>1, <1>2, <1>6, <1>7, <1>8 DEF StackOK
<1> QED BY <1>9, <1>10 DEF IsKept, new

LEMMA StackPop ==
  ASSUME NEW stack, NEW F, NEW G, NEW dep, StackOK(stack, F, G, dep),
         Last(stack).el # "top"
  PROVE  IsPopped(stack, Front(stack), F, G, dep)
<1> DEFINE new == Front(stack)
<1>1. Sequential(stack) /\ Len(stack) \in Nat /\ Len(stack) >= 1
  BY SequentialFacts DEF StackOK
<1>2. stack # <<>>
  <2>1. PICK S : stack \in Seq(S) BY <1>1 DEF Sequential
  <2> QED BY <2>1, <1>1, EmptySeq
<1>3. /\ Sequential(new) /\ Len(new) = Len(stack) - 1
      /\ \A k \in 1..(Len(stack) - 1) : new[k] = stack[k]
      /\ Last(stack) = stack[Len(stack)]
  BY <1>1, <1>2, SequentialFront DEF IsShorter
<1> HIDE DEF new
<1>4. Len(stack) >= 2
  <2>1. stack[1].el = "top"
    <3>1. 1 \in 1..Len(stack) BY <1>1
    <3> QED BY <3>1 DEF StackOK
  <2>2. stack[Len(stack)].el # "top" BY <1>3
  <2>3. Len(stack) # 1 BY <2>1, <2>2
  <2>4. \A m \in Nat : m >= 1 /\ m # 1 => m >= 2 OBVIOUS
  <2> QED BY <2>3, <2>4, <1>1
<1>5. \A k \in 1..Len(new) :
        /\ k \in 1..Len(stack) /\ new[k] = stack[k]
        /\ \A j \in 1..(k - 1) : j \in 1..Len(stack) /\ new[j] = stack[j]
  BY <1>1, <1>3
<1>6. ASSUME NEW k \in 1..Len(new)
      PROVE  /\ IsFrame(new[k])
             /\ new[k].el = "top" <=> k = 1
             /\ Holds(new, k) => StateOK(new[k].state, F, G)
             /\ new[k].el = "directory" => OffsetAt(new, k) # -1
             /\ new[k].el \in {"flat", "scan"} =>
                  \A j \in 1..(k - 1) : new[j].el # "directory"
  BY <1>5 DEF StackOK, OffsetAt, Holds
<1>7. OffsetAt(new, 1) = -1
  <2>1. 1 \in 1..Len(new) BY <1>1, <1>3, <1>4
  <2> QED BY <2>1, <1>5 DEF StackOK, OffsetAt
<1>8. ASSUME NEW j \in 1..Len(new), NEW k \in 1..Len(new),
             j < k, Holds(new, j), Holds(new, k)
      PROVE  /\ dep[OffsetAt(new, j)] < dep[OffsetAt(new, k)]
             /\ (\A i \in (j + 1)..(k - 1) : ~Holds(new, i)) =>
                  dep[OffsetAt(new, k)] = dep[OffsetAt(new, j)] + 1
  <2>1. j \in 1..Len(stack) /\ k \in 1..Len(stack) BY <1>5
  <2>2. \A i \in (j + 1)..(k - 1) : i \in 1..Len(new) BY <1>1, <1>3
  <2>3. /\ OffsetAt(new, j) = OffsetAt(stack, j)
        /\ OffsetAt(new, k) = OffsetAt(stack, k)
    BY <1>5 DEF OffsetAt
  <2>4. \A i \in 1..Len(new) : Holds(new, i) <=> Holds(stack, i)
    BY <1>5 DEF Holds
  <2>5. Holds(stack, j) /\ Holds(stack, k)
        /\ \A i \in (j + 1)..(k - 1) : Holds(new, i) <=> Holds(stack, i)
    BY <2>2, <2>4, <1>8
  <2> QED BY <2>1, <2>3, <2>5, <1>8 DEF StackOK
<1>9. Len(new) >= 1 BY <1>1, <1>3, <1>4
<1>10. StackOK(new, F, G, dep)
  BY <1>3, <1>6, <1>7, <1>8, <1>9 DEF StackOK
<1>11. OpenOf(new) = {OffsetAt(stack, k) :
          k \in {j \in 1..(Len(stack) - 1) : stack[j].el = "directory"}}
  <2>1. 1..Len(new) = 1..(Len(stack) - 1) BY <1>3
  <2> QED BY <2>1, <1>3 DEF OpenOf, OffsetAt
<1> QED BY <1>1, <1>3, <1>4, <1>10, <1>11 DEF IsPopped, new

(* The owner of the chains that grow: its state changes, and its lists.    *)
LEMMA StackReplace ==
  ASSUME NEW stack, NEW F, NEW G, NEW dep, StackOK(stack, F, G, dep),
         NEW o \in 1..Len(stack), Holds(stack, o), NEW st,
         NEW F2, NEW G2, DOMAIN F2 = DOMAIN F,
         \A x \in DOMAIN F :
           x # OffsetAt(stack, o) => F2[x] = F[x] /\ G2[x] = G[x],
         StateOK(st, F2, G2), st.offset = OffsetAt(stack, o),
         dep \in [DOMAIN F -> Nat]
  PROVE  IsKept(stack, [stack EXCEPT ![o] = Frame(stack[o].el, st)],
                F2, G2, dep)
<1> DEFINE new == [stack EXCEPT ![o] = Frame(stack[o].el, st)]
<1>1. Sequential(stack) /\ Len(stack) \in Nat /\ Len(stack) >= 1
  BY SequentialFacts DEF StackOK
<1>2. /\ Sequential(new) /\ Len(new) = Len(stack)
      /\ \A k \in 1..Len(stack) :
           new[k] = IF k = o THEN Frame(stack[o].el, st) ELSE stack[k]
  <2>1. IsReplaced(stack, o, Frame(stack[o].el, st),
                   [stack EXCEPT ![o] = Frame(stack[o].el, st)])
    BY <1>1, SequentialExcept, Zenon
  <2>2. IsReplaced(stack, o, Frame(stack[o].el, st), new) BY <2>1, Zenon
  <2> HIDE DEF new
  <2> QED BY <2>2, Zenon DEF IsReplaced
<1> HIDE DEF new
<1>3. \A k \in 1..Len(stack) :
        /\ new[k].el = stack[k].el /\ OffsetAt(new, k) = OffsetAt(stack, k)
        /\ Holds(new, k) <=> Holds(stack, k)
        /\ IsFrame(new[k])
  BY <1>2 DEF Frame, OffsetAt, Holds, IsFrame, StackOK
<1>4. ASSUME NEW k \in 1..Len(stack), Holds(stack, k), k # o
      PROVE  OffsetAt(stack, k) # OffsetAt(stack, o)
  <2>1. k < o \/ o < k BY <1>4
  <2>2. /\ OffsetAt(stack, k) \in DOMAIN F /\ OffsetAt(stack, o) \in DOMAIN F
    BY <1>4 DEF StackOK, StateOK, OffsetAt
  <2>3. dep[OffsetAt(stack, k)] \in Nat /\ dep[OffsetAt(stack, o)] \in Nat
    BY <2>2
  <2>4. \/ dep[OffsetAt(stack, k)] < dep[OffsetAt(stack, o)]
        \/ dep[OffsetAt(stack, o)] < dep[OffsetAt(stack, k)]
    BY <2>1, <1>4 DEF StackOK
  <2> QED BY <2>3, <2>4
<1>5. ASSUME NEW k \in 1..Len(stack), Holds(new, k)
      PROVE  StateOK(new[k].state, F2, G2)
  <2>1. CASE k = o BY <2>1, <1>2 DEF Frame
  <2>2. CASE k # o
    <3>1. new[k] = stack[k] /\ Holds(stack, k) BY <2>2, <1>2, <1>3, <1>5
    <3>2. StateOK(stack[k].state, F, G) BY <3>1 DEF StackOK
    <3>3. stack[k].state.offset # OffsetAt(stack, o)
      BY <3>1, <2>2, <1>4 DEF OffsetAt
    <3> QED BY <3>1, <3>2, <3>3 DEF StateOK
  <2> QED BY <2>1, <2>2
<1>6. ASSUME NEW k \in 1..Len(stack)
      PROVE  /\ IsFrame(new[k])
             /\ new[k].el = "top" <=> k = 1
             /\ Holds(new, k) => StateOK(new[k].state, F2, G2)
             /\ new[k].el = "directory" => OffsetAt(new, k) # -1
             /\ new[k].el \in {"flat", "scan"} =>
                  \A j \in 1..(k - 1) : new[j].el # "directory"
  <2>1. \A j \in 1..(k - 1) : j \in 1..Len(stack) BY <1>1
  <2> QED BY <2>1, <1>3, <1>5 DEF StackOK
<1>7. OffsetAt(new, 1) = -1
  <2>1. 1 \in 1..Len(stack) BY <1>1
  <2> QED BY <2>1, <1>3 DEF StackOK
<1>8. ASSUME NEW j \in 1..Len(stack), NEW k \in 1..Len(stack),
             j < k, Holds(new, j), Holds(new, k)
      PROVE  /\ dep[OffsetAt(new, j)] < dep[OffsetAt(new, k)]
             /\ (\A i \in (j + 1)..(k - 1) : ~Holds(new, i)) =>
                  dep[OffsetAt(new, k)] = dep[OffsetAt(new, j)] + 1
  <2>1. \A i \in (j + 1)..(k - 1) : i \in 1..Len(stack) BY <1>1
  <2>2. \A i \in (j + 1)..(k - 1) : Holds(new, i) <=> Holds(stack, i)
    BY <2>1, <1>3
  <2>3. Holds(stack, j) /\ Holds(stack, k) BY <1>3, <1>8
  <2>4. /\ OffsetAt(new, j) = OffsetAt(stack, j)
        /\ OffsetAt(new, k) = OffsetAt(stack, k)
    BY <1>3
  <2>5. /\ dep[OffsetAt(stack, j)] < dep[OffsetAt(stack, k)]
        /\ (\A i \in (j + 1)..(k - 1) : ~Holds(stack, i)) =>
             dep[OffsetAt(stack, k)] = dep[OffsetAt(stack, j)] + 1
    BY <2>3, <1>8 DEF StackOK
  <2> QED BY <2>2, <2>4, <2>5
<1>9. OpenOf(new) = OpenOf(stack)
  BY <1>2, <1>3 DEF OpenOf
<1>10. StackOK(new, F2, G2, dep)
  BY <1>1, <1>2, <1>6, <1>7, <1>8 DEF StackOK
<1> QED BY <1>9, <1>10 DEF IsKept, new

(***************************************************************************)
(* The parser: of a file, or of a source of a merge.                       *)
(***************************************************************************)
IsParser(p) ==
  p = [status |-> p.status, merge |-> p.merge, barcode |-> p.barcode,
       store |-> p.store, stack |-> p.stack]

Closedown(s) == \A k \in 1..Len(s.directories) : s.directories[k].file_uid = 0

Parsing(p, merge, F, G, dep) ==
  /\ IsParser(p) /\ p.merge = merge /\ p.barcode \in Barcodes
  /\ StoreForm(p.store) /\ (merge => StoreOK(p.store))
  /\ StackOK(p.stack, F, G, dep)
  /\ Forest(p.store, F, G, dep, OpenOf(p.stack), {})
  /\ DOMAIN F = {-1} \cup 0..(Len(p.store.directories) - 1)
  /\ Closedown(p.store)
  /\ p.status = "done" => OpenOf(p.stack) = {}

Parseable(p, merge) == \E F, G, dep : Parsing(p, merge, F, G, dep)

With(p, status, s, stack) ==
  [status |-> status, merge |-> p.merge, barcode |-> p.barcode,
   store |-> s, stack |-> stack]

IsWith(q, p, status, s, stack) ==
  /\ IsParser(q) /\ q.merge = p.merge /\ q.barcode = p.barcode
  /\ q.status = status /\ q.store = s /\ q.stack = stack

LEMMA WithFields ==
  ASSUME NEW p, NEW status, NEW A, NEW stack
  PROVE  IsWith(With(p, status, A, stack), p, status, A, stack)
BY DEF With, IsParser, IsWith

LEMMA ParserPush ==
  ASSUME NEW p, IsParser(p), NEW el, NEW st
  PROVE  Push(p, el, st)
           = With(p, p.status, p.store, Append(p.stack, Frame(el, st)))
BY DEF IsParser, With, Push

LEMMA ParserSteps ==
  ASSUME NEW p, IsParser(p)
  PROVE  /\ \A el, st : Push(p, el, st)
              = With(p, p.status, p.store, Append(p.stack, Frame(el, st)))
         /\ Pop(p) = With(p, p.status, p.store, Front(p.stack))
         /\ Fail(p) = With(p, "error", p.store, p.stack)
         /\ Finish(p) = With(p, "done", p.store, p.stack)
         /\ p = With(p, p.status, p.store, p.stack)
BY DEF IsParser, With, Push, Pop, Fail, Finish

LEMMA ParserExcept ==
  ASSUME NEW p, IsParser(p), NEW A, NEW B, NEW q,
         q = [p EXCEPT !.store = A, !.stack = B]
  PROVE  q = With(p, p.status, A, B)
<1>1. /\ IsParser(q) /\ q.store = A /\ q.stack = B
      /\ q.status = p.status /\ q.merge = p.merge /\ q.barcode = p.barcode
  BY DEF IsParser
<1> QED BY <1>1 DEF With, IsParser

LEMMA FrameState ==
  ASSUME NEW f, IsFrame(f), NEW B, NEW g, g = [f EXCEPT !.state = B]
  PROVE  g = Frame(f.el, B)
<1>1. g = [el |-> g.el, state |-> g.state] /\ g.el = f.el /\ g.state = B
  BY DEF IsFrame
<1> QED BY <1>1 DEF Frame

Replace(p, o, A, B) == [p EXCEPT !.store = A, !.stack[o].state = B]

LEMMA ParserReplace ==
  ASSUME NEW p, IsParser(p), NEW o, IsFrame(p.stack[o]), NEW A, NEW B
  PROVE  Replace(p, o, A, B) = With(p, p.status, A,
                  [p.stack EXCEPT ![o] = Frame(p.stack[o].el, B)])
<1> DEFINE f == p.stack[o]  g == [f EXCEPT !.state = B]
           new == [p.stack EXCEPT ![o] = g]
           q == [p EXCEPT !.store = A, !.stack = new]
<1>1. g = Frame(f.el, B)
  <2> HIDE DEF f
  <2> QED BY FrameState, Zenon DEF f
<1>2. q = With(p, p.status, A, new)
  <2> HIDE DEF new
  <2> QED BY ParserExcept, Zenon DEF q
<1>3. Replace(p, o, A, B) = q BY DEF Replace
<1> HIDE DEF q
<1>4. new = [p.stack EXCEPT ![o] = Frame(f.el, B)] BY <1>1, Zenon
<1> HIDE DEF g, new
<1> QED BY <1>2, <1>3, <1>4, Zenon DEF f

(* A frame that owns nothing comes or goes, or the parser stops.           *)
LEMMA ParsePush ==
  ASSUME NEW p, NEW merge, NEW F, NEW G, NEW dep,
         Parsing(p, merge, F, G, dep),
         p.status = "reading",
         NEW el \in {"skip", "contents", "flat", "scan", "ltfsindex"}, NEW st,
         el \in {"flat", "scan"} => OpenOf(p.stack) = {}
  PROVE  Parsing(Push(p, el, st), merge, F, G, dep)
<1> DEFINE new == Append(p.stack, Frame(el, st))
<1>1. Push(p, el, st) = With(p, p.status, p.store, new)
  BY ParserSteps DEF Parsing
<1>2. StackOK(new, F, G, dep) /\ OpenOf(new) = OpenOf(p.stack)
  <2>1. IsKept(p.stack, new, F, G, dep) BY StackPush, Zenon DEF Parsing
  <2> QED BY <2>1 DEF IsKept
<1> HIDE DEF new
<1>3. Parsing(With(p, p.status, p.store, new), merge, F, G, dep)
  BY <1>2, WithFields DEF Parsing, IsWith
<1> QED BY <1>1, <1>3

LEMMA ParseFail ==
  ASSUME NEW p, NEW merge, NEW F, NEW G, NEW dep,
         Parsing(p, merge, F, G, dep)
  PROVE  Parsing(Fail(p), merge, F, G, dep)
<1>1. Fail(p) = With(p, "error", p.store, p.stack)
  BY ParserSteps DEF Parsing
<1>2. Parsing(With(p, "error", p.store, p.stack), merge, F, G, dep)
  BY WithFields DEF Parsing, IsWith
<1> QED BY <1>1, <1>2

LEMMA ParseFinish ==
  ASSUME NEW p, NEW merge, NEW F, NEW G, NEW dep,
         Parsing(p, merge, F, G, dep),
         OpenOf(p.stack) = {}
  PROVE  Parsing(Finish(p), merge, F, G, dep)
<1>1. Finish(p) = With(p, "done", p.store, p.stack)
  BY ParserSteps DEF Parsing
<1> DEFINE q == With(p, "done", p.store, p.stack)
<1>2. IsWith(q, p, "done", p.store, p.stack) BY WithFields, Zenon
<1> HIDE DEF q
<1>3. Parsing(q, merge, F, G, dep) BY <1>2 DEF Parsing, IsWith
<1> QED BY <1>1, <1>3 DEF q

LEMMA OpenOfOne ==
  ASSUME NEW stack, NEW F, NEW G, NEW dep, StackOK(stack, F, G, dep),
         Len(stack) = 1
  PROVE  OpenOf(stack) = {}
<1>1. \A k \in 1..Len(stack) : k = 1 OBVIOUS
<1>2. stack[1].el = "top" BY DEF StackOK
<1> QED BY <1>1, <1>2 DEF OpenOf

LEMMA ParseClosed ==
  ASSUME NEW p, NEW merge, NEW F, NEW G, NEW dep,
         Parsing(p, merge, F, G, dep)
  PROVE  Parsing(Closed(p), merge, F, G, dep)
<1>1. CASE Len(p.stack) = 1
  <2>1. StackOK(p.stack, F, G, dep) BY DEF Parsing
  <2>2. OpenOf(p.stack) = {} BY <1>1, <2>1, OpenOfOne
  <2>3. Parsing(Finish(p), merge, F, G, dep) BY <2>2, ParseFinish
  <2> QED BY <1>1, <2>3 DEF Closed
<1>2. CASE Len(p.stack) # 1 BY <1>2 DEF Closed
<1> QED BY <1>1, <1>2

LEMMA ParsePop ==
  ASSUME NEW p, NEW merge, NEW F, NEW G, NEW dep,
         Parsing(p, merge, F, G, dep),
         p.status = "reading",
         Last(p.stack).el \notin {"top", "directory"}
  PROVE  /\ Parsing(Pop(p), merge, F, G, dep)
         /\ Last(p.stack).el \in {"flat", "scan"} => OpenOf(Pop(p).stack) = {}
<1> DEFINE stack == p.stack  new == Front(p.stack)
<1>1. StackOK(stack, F, G, dep) BY DEF Parsing
<1>2. /\ StackOK(new, F, G, dep)
      /\ Len(stack) \in Nat /\ Len(stack) >= 2
      /\ Last(stack) = stack[Len(stack)]
      /\ OpenOf(new) = {OffsetAt(stack, k) :
           k \in {j \in 1..(Len(stack) - 1) : stack[j].el = "directory"}}
  <2>1. Last(stack).el # "top" OBVIOUS
  <2>2. IsPopped(stack, new, F, G, dep) BY <1>1, <2>1, StackPop, Zenon
  <2> QED BY <2>2 DEF IsPopped
<1>3. Pop(p) = With(p, p.status, p.store, new) BY ParserSteps DEF Parsing
<1> HIDE DEF new
<1>4. OpenOf(new) = OpenOf(stack)
  <2>1. \A j \in 1..Len(stack) : stack[j].el = "directory"
                                   <=> j \in 1..(Len(stack) - 1)
                                       /\ stack[j].el = "directory"
    <3> SUFFICES ASSUME NEW j \in 1..Len(stack), stack[j].el = "directory"
                 PROVE  j \in 1..(Len(stack) - 1)
      BY <1>2
    <3>1. j # Len(stack) BY <1>2
    <3> QED BY <3>1, <1>2
  <2>2. {j \in 1..Len(stack) : stack[j].el = "directory"}
          = {j \in 1..(Len(stack) - 1) : stack[j].el = "directory"}
    BY <2>1, <1>2
  <2> QED BY <2>2, <1>2 DEF OpenOf
<1>5. Parsing(With(p, p.status, p.store, new), merge, F, G, dep)
  BY <1>2, <1>4, WithFields DEF Parsing, IsWith
<1>6. Last(stack).el \in {"flat", "scan"} => OpenOf(new) = {}
  <2>1. Len(stack) \in 1..Len(stack) BY <1>2
  <2>2. stack[Len(stack)].el \in {"flat", "scan"} =>
          \A j \in 1..(Len(stack) - 1) : stack[j].el # "directory"
    BY <2>1, <1>1 DEF StackOK
  <2> QED BY <2>2, <1>2
<1> QED BY <1>3, <1>5, <1>6, WithFields DEF IsWith

(* A directory is named.                                                   *)
LEMMA ParseName ==
  ASSUME NEW p, NEW merge, NEW F, NEW G, NEW dep,
         Parsing(p, merge, F, G, dep),
         Last(p.stack).el = "directory", NEW value
  PROVE  Parsing([p EXCEPT !.stack[Len(p.stack)].state.name = value], merge,
                 F, G, dep)
<1> DEFINE stack == p.stack  o == Len(p.stack)  old == stack[o].state
           st == [old EXCEPT !.name = value]
           new == [stack EXCEPT ![o] = Frame(stack[o].el, st)]
<1>1. StackOK(stack, F, G, dep) BY DEF Parsing
<1>2. o \in Nat /\ o >= 1 /\ o \in 1..Len(stack)
  BY <1>1, SequentialFacts DEF StackOK
<1>3. IsFrame(stack[o]) /\ stack[o].el = "directory"
  <2>1. Last(stack) = stack[Len(stack)] BY DEF Last
  <2> QED BY <2>1, <1>1, <1>2 DEF StackOK
<1>4. Holds(stack, o) /\ StateOK(old, F, G)
  <2>1. Holds(stack, o) BY <1>3 DEF Holds
  <2> QED BY <2>1, <1>1, <1>2 DEF StackOK
<1>5. StateOK(st, F, G) /\ st.offset = OffsetAt(stack, o)
  <2>1. IsState(old) BY <1>4 DEF StateOK
  <2> HIDE DEF old
  <2>2. /\ IsState(st) /\ st.selection = old.selection
        /\ st.file_uid = old.file_uid /\ st.offset = old.offset
        /\ st.files = old.files /\ st.directories = old.directories
    BY <2>1 DEF IsState
  <2> HIDE DEF st
  <2> QED BY <2>2, <1>4 DEF StateOK, OffsetAt, old
<1>6. dep \in [DOMAIN F -> Nat] BY DEF Parsing, Forest, Deep
<1> HIDE DEF st
<1>7. StackOK(new, F, G, dep) /\ OpenOf(new) = OpenOf(stack)
  <2>1. IsKept(stack, new, F, G, dep)
    BY <1>1, <1>2, <1>4, <1>5, <1>6, StackReplace, Zenon
  <2> QED BY <2>1 DEF IsKept
<1>8. [p EXCEPT !.stack[Len(p.stack)].state.name = value]
        = With(p, p.status, p.store, new)
  <2>1. [p EXCEPT !.stack[o].state.name = value]
          = Replace(p, o, p.store, st)
    BY DEF Parsing, IsParser, st, old, Replace
  <2>2. Replace(p, o, p.store, st) = With(p, p.status, p.store, new)
    <3>1. IsParser(p) BY DEF Parsing
    <3>2. IsFrame(p.stack[o]) BY <1>3
    <3> QED BY <3>1, <3>2, ParserReplace, Zenon
  <2> QED BY <2>1, <2>2
<1> HIDE DEF new
<1>9. Parsing(With(p, p.status, p.store, new), merge, F, G, dep)
  BY <1>7, WithFields DEF Parsing, IsWith
<1> QED BY <1>8, <1>9

(* A file is added to the chain of the innermost open directory.           *)
Filed(s, chain, record, length, offset, written) ==
  LET more == AppendRecord(s, record, length)
      entry == [next |-> -1, record_offset |-> offset,
                record_length |-> length,
                selection |-> more.selection_count]
  IN  [more EXCEPT
         !.file_records_position = written,
         !.selection_count = @ + 1,
         !.file_index = AppendIndex(@, chain, entry)]

(* The record is where the entry says, and the count of the bytes is right.*)
InPlace(s, length, offset, written) ==
  /\ StoreOK(s) /\ offset = s.file_records_position
  /\ written = offset + length

IsFiled(s, t, F, d, placed) ==
  /\ StoreForm(t) /\ (placed => StoreOK(t))
  /\ t.directories = s.directories
  /\ t.directory_index = s.directory_index
  /\ t.next_file_uid = s.next_file_uid
  /\ Len(t.file_index) = Len(s.file_index) + 1
  /\ Lists(t.file_index, Grown(F, d, Len(s.file_index)))

IsMore(s, q, record, length) ==
  /\ IsStore(q)
  /\ q.file_records = s.file_records \o Cells(record, length)
  /\ q.file_records_position = s.file_records_position + length
  /\ q.directories = s.directories
  /\ q.directory_index = s.directory_index
  /\ q.file_index = s.file_index
  /\ q.selection_count = s.selection_count
  /\ q.next_file_uid = s.next_file_uid

LEMMA MoreRecords ==
  ASSUME NEW s, IsStore(s), NEW record, NEW length
  PROVE  IsMore(s, AppendRecord(s, record, length), record, length)
<1> DEFINE bytes == s.file_records \o Cells(record, length)
           position == s.file_records_position + length
           q == AppendRecord(s, record, length)
<1>1. q = [s EXCEPT !.file_records = bytes,
                    !.file_records_position = position]
  BY DEF AppendRecord
<1> HIDE DEF bytes, position, q
<1>2. /\ IsStore(q) /\ q.file_records = bytes
      /\ q.file_records_position = position
      /\ q.directories = s.directories
      /\ q.directory_index = s.directory_index
      /\ q.file_index = s.file_index
      /\ q.selection_count = s.selection_count
      /\ q.next_file_uid = s.next_file_uid
  BY <1>1 DEF IsStore
<1> QED BY <1>2 DEF IsMore, bytes, position, q

LEMMA StoreFiled ==
  ASSUME NEW s, StoreForm(s), NEW F, Lists(s.file_index, F),
         NEW d \in DOMAIN F, NEW record \in FileRecords,
         NEW length \in Nat, length >= 1,
         NEW offset \in Nat, NEW written \in Nat
  PROVE  IsFiled(s, Filed(s, ChainOf(F[d]), record, length, offset, written),
                 F, d, InPlace(s, length, offset, written))
<1> DEFINE n == Len(s.file_index)
           more == AppendRecord(s, record, length)
           entry == [next |-> -1, record_offset |-> offset,
                     record_length |-> length,
                     selection |-> more.selection_count]
           list == AppendIndex(s.file_index, ChainOf(F[d]), entry)
           t == Filed(s, ChainOf(F[d]), record, length, offset, written)
<1>1. /\ IsStore(s) /\ s.file_records \in Seq(Bytes)
      /\ Sequential(s.directories)
      /\ s.directory_index \in Seq(DirectoryEntries)
      /\ s.file_index \in Seq(FileEntries)
      /\ s.selection_count \in Nat /\ s.next_file_uid \in Nat
  BY DEF StoreForm
<1>2. Len(s.file_records) \in Nat /\ n \in Nat BY <1>1, LenProperties
<1>3. /\ IsStore(more)
      /\ more.file_records = s.file_records \o Cells(record, length)
      /\ more.directories = s.directories
      /\ more.directory_index = s.directory_index
      /\ more.file_index = s.file_index
      /\ more.selection_count = s.selection_count
      /\ more.next_file_uid = s.next_file_uid
  BY <1>1, MoreRecords DEF IsMore
<1>4. t = [more EXCEPT
             !.file_records_position = written,
             !.selection_count = more.selection_count + 1,
             !.file_index = AppendIndex(more.file_index, ChainOf(F[d]), entry)]
  BY DEF Filed
<1>5. entry \in FileEntries /\ entry.next = -1
      /\ entry.record_offset = offset
      /\ entry.record_length = length
  BY <1>1, <1>2, <1>3 DEF FileEntries
<1> HIDE DEF entry, more, t
<1>6. /\ IsStore(t)
      /\ t.file_records = s.file_records \o Cells(record, length)
      /\ t.file_records_position = written
      /\ t.directories = s.directories
      /\ t.directory_index = s.directory_index
      /\ t.file_index = list
      /\ t.selection_count = s.selection_count + 1
      /\ t.next_file_uid = s.next_file_uid
  BY <1>3, <1>4 DEF IsStore
<1>7. IsAppended(FileEntries, s.file_index, F, d, entry, list)
  BY <1>1, <1>5, FileLinks, AppendToList, Zenon
<1> HIDE DEF list
<1>8. /\ list \in Seq(FileEntries) /\ Len(list) = n + 1
      /\ list[n + 1] = entry
      /\ \A k \in 1..n : list[k] = [s.file_index[k] EXCEPT !.next = list[k].next]
      /\ Lists(list, Grown(F, d, n))
  BY <1>7 DEF IsAppended
<1>9. ASSUME NEW k \in 1..n
      PROVE  /\ list[k].record_offset = s.file_index[k].record_offset
             /\ list[k].record_length = s.file_index[k].record_length
  <2>1. s.file_index[k] \in FileEntries BY <1>1, ElementOfSeq
  <2> DEFINE e == s.file_index[k]  v == list[k].next
  <2>2. list[k] = [e EXCEPT !.next = v] BY <1>8
  <2> HIDE DEF e, v
  <2>3. e \in FileEntries BY <2>1 DEF e
  <2>4. list[k].record_offset = e.record_offset
        /\ list[k].record_length = e.record_length
    BY <2>2, <2>3 DEF FileEntries
  <2> QED BY <2>4 DEF e
<1>10. ASSUME InPlace(s, length, offset, written)
       PROVE  StoreOK(t)
  <2>1. t.selection_count \in Nat /\ t.next_file_uid \in Nat BY <1>1, <1>6
  <2>2. t.file_index \in Seq(FileEntries) /\ Len(t.file_index) = n + 1
    BY <1>6, <1>8
  <2>3. /\ StoreOK(s) /\ offset = Len(s.file_records)
        /\ written = s.file_records_position + length
    BY <1>10 DEF InPlace, StoreOK
  <2>4. /\ t.file_index[n + 1].record_offset = Len(s.file_records)
        /\ t.file_index[n + 1].record_length = length
    BY <2>3, <1>5, <1>6, <1>8
  <2>5. \A k \in 1..n :
          /\ t.file_index[k].record_offset = s.file_index[k].record_offset
          /\ t.file_index[k].record_length = s.file_index[k].record_length
    BY <1>6, <1>9
  <2>6. t.file_records_position = s.file_records_position + length
    BY <2>3, <1>6
  <2>7. IsRecorded(s, t, record)
    BY <1>6, <2>1, <2>2, <2>3, <2>4, <2>5, <2>6, StoreAddsRecord
  <2> QED BY <2>7 DEF IsRecorded
<1>11. StoreForm(t)
  <2>1. t.file_records \in Seq(Bytes)
    <3>1. Cells(record, length) \in Seq(Bytes) BY CellsSeq
    <3>2. \A u, v \in Seq(Bytes) : u \o v \in Seq(Bytes)
      BY ConcatFacts DEF IsConcat
    <3> QED BY <3>1, <3>2, <1>1, <1>6
  <2>2. t.selection_count \in Nat /\ t.next_file_uid \in Nat BY <1>1, <1>6
  <2> QED BY <2>1, <2>2, <1>1, <1>6, <1>8 DEF StoreForm
<1> QED BY <1>6, <1>8, <1>10, <1>11 DEF IsFiled, t

IsGrown(new, st, F, G, list) ==
  /\ StateOK(new, Grown(F, st.offset, Len(list)), G)
  /\ new.offset = st.offset

LEMMA FileState ==
  ASSUME NEW st, NEW F, NEW G, StateOK(st, F, G), NEW list, Linkable(list),
         Lists(list, F), NEW new,
         new = [st EXCEPT !.files = AppendChain(list, st.files),
                          !.total_file_count = st.total_file_count + 1]
  PROVE  IsGrown(new, st, F, G, list)
<1> DEFINE d == st.offset  n == Len(list)
<1>1. /\ IsState(new) /\ new.selection = st.selection
      /\ new.file_uid = st.file_uid /\ new.offset = st.offset
      /\ new.files = AppendChain(list, st.files)
      /\ new.directories = st.directories
  BY DEF StateOK, IsState
<1>2. /\ d \in DOMAIN F /\ st.files = ChainOf(F[d])
      /\ st.directories = ChainOf(G[d])
      /\ st.selection \in Int /\ st.file_uid = 0
  BY DEF StateOK
<1>3. F[d] \in Seq(Nat) /\ n \in Nat BY <1>2, ListEntry DEF Linkable
<1>4. AppendChain(list, ChainOf(F[d])) = ChainOf(Append(F[d], n))
  BY <1>3, ChainGrown
<1>5. Grown(F, d, n)[d] = Append(F[d], n) /\ DOMAIN Grown(F, d, n) = DOMAIN F
  BY <1>2 DEF Grown
<1> QED BY <1>1, <1>2, <1>4, <1>5 DEF StateOK, IsGrown

LEMMA ParseAddsFile ==
  ASSUME NEW p, NEW merge, NEW F, NEW G, NEW dep,
         Parsing(p, merge, F, G, dep),
         p.status = "reading",
         NEW file \in FileNames, NEW length \in Nat, length >= 1,
         NEW offset \in Nat, NEW written \in Nat,
         merge => /\ offset = p.store.file_records_position
                  /\ written = offset + length
  PROVE  Parseable(AddFile(p, file, length, offset, written), merge)
<1> DEFINE s == p.store  stack == p.stack  o == Owner(p)
           owner == stack[o].state  d == owner.offset  n == Len(s.file_index)
           record == [file |-> file, barcode |-> p.barcode, uid |-> 0]
           t == Filed(s, owner.files, record, length, offset, written)
           more == AppendRecord(s, record, length)
           st == [owner EXCEPT
                    !.files = AppendChain(more.file_index, owner.files),
                    !.total_file_count = owner.total_file_count + 1]
           F2 == Grown(F, d, n)
           new == [stack EXCEPT ![o] = Frame(stack[o].el, st)]
<1>1. /\ IsParser(p) /\ p.barcode \in Barcodes /\ p.merge = merge
      /\ StoreForm(s) /\ (merge => StoreOK(s))
      /\ StackOK(stack, F, G, dep)
      /\ Forest(s, F, G, dep, OpenOf(stack), {})
      /\ DOMAIN F = {-1} \cup 0..(Len(s.directories) - 1)
      /\ Closedown(s)
  BY DEF Parsing
<1>2. /\ o \in 1..Len(stack) /\ Holds(stack, o)
      /\ \A j \in 1..Len(stack) : Holds(stack, j) => j <= o
  BY <1>1, OwnerFacts
<1>3. StateOK(owner, F, G) /\ IsFrame(stack[o]) /\ OffsetAt(stack, o) = d
  BY <1>1, <1>2 DEF StackOK, OffsetAt
<1>4. d \in DOMAIN F /\ owner.files = ChainOf(F[d]) BY <1>3 DEF StateOK
<1>5. record \in FileRecords BY <1>1 DEF FileRecords
<1>6. IsFiled(s, t, F, d, InPlace(s, length, offset, written))
  <2>1. Lists(s.file_index, F) BY <1>1 DEF Forest
  <2> HIDE DEF record
  <2>2. IsFiled(s, Filed(s, ChainOf(F[d]), record, length, offset, written),
                F, d, InPlace(s, length, offset, written))
    BY <1>1, <1>4, <1>5, <2>1, StoreFiled, Zenon
  <2> QED BY <2>2, <1>4
<1>7. AddFile(p, file, length, offset, written) = Replace(p, o, t, st)
  BY DEF AddFile, Replace, Filed, OwnerState
<1>8. Replace(p, o, t, st) = With(p, p.status, t, new)
  <2>1. IsParser(p) BY <1>1
  <2>2. IsFrame(p.stack[o]) BY <1>3
  <2> HIDE DEF o, t, st
  <2> QED BY <2>1, <2>2, ParserReplace, Zenon
<1>9. d \in {-1} \cup OpenOf(stack)
  <2>1. CASE stack[o].el = "directory"
    BY <2>1, <1>2, <1>3 DEF OpenOf
  <2>2. CASE stack[o].el = "top"
    BY <2>2, <1>1, <1>2, <1>3 DEF StackOK
  <2> QED BY <2>1, <2>2, <1>2 DEF Holds
<1>10. StoreForm(t) /\ (merge => StoreOK(t))
  <2>1. merge => InPlace(s, length, offset, written) BY <1>1 DEF InPlace
  <2> QED BY <2>1, <1>6 DEF IsFiled
<1>11. Forest(t, F2, G, dep, OpenOf(stack), {})
  <2> HIDE DEF F2, t, st
  <2>1. /\ t.directories = s.directories
        /\ t.directory_index = s.directory_index
        /\ Len(t.file_index) = Len(s.file_index) + 1
        /\ Lists(t.file_index, Grown(F, d, Len(s.file_index)))
    BY <1>6 DEF IsFiled
  <2>2. Forest(t, Grown(F, d, Len(s.file_index)), G, dep, OpenOf(stack), {})
    BY <1>1, <1>9, <2>1, ForestFile
  <2> QED BY <2>2 DEF F2
<1>12. StateOK(st, F2, G) /\ st.offset = d
  <2>1. Lists(s.file_index, F) /\ Linkable(s.file_index)
    BY <1>1, FormLinks DEF Forest
  <2>2. more.file_index = s.file_index
    BY <1>1 DEF AppendRecord, StoreForm, IsStore
  <2>3. st = [owner EXCEPT
                !.files = AppendChain(s.file_index, owner.files),
                !.total_file_count = owner.total_file_count + 1]
    BY <2>2
  <2> HIDE DEF st, owner, s
  <2>4. IsGrown(st, owner, F, G, s.file_index)
    BY <1>3, <2>1, <2>3, FileState, Zenon
  <2> QED BY <2>4 DEF IsGrown
<1>13. StackOK(new, F2, G, dep) /\ OpenOf(new) = OpenOf(stack)
  <2>1. /\ DOMAIN F2 = DOMAIN F
        /\ \A x \in DOMAIN F : x # OffsetAt(stack, o) =>
             F2[x] = F[x] /\ G[x] = G[x]
    BY <1>3 DEF Grown
  <2>2. dep \in [DOMAIN F -> Nat] BY <1>1 DEF Forest, Deep
  <2> HIDE DEF st, F2
  <2>3. st.offset = OffsetAt(stack, o) BY <1>3, <1>12
  <2>4. IsKept(stack, new, F2, G, dep)
    BY <1>1, <1>2, <1>12, <2>1, <2>2, <2>3, StackReplace, Zenon
  <2> QED BY <2>4 DEF IsKept
<1> HIDE DEF new, t, st, F2
<1>14. DOMAIN F2 = DOMAIN F /\ t.directories = s.directories
       /\ Closedown(t)
  BY <1>1, <1>6 DEF F2, Grown, IsFiled, Closedown
<1>15. Parsing(With(p, p.status, t, new), merge, F2, G, dep)
  BY <1>1, <1>10, <1>11, <1>13, <1>14, WithFields DEF Parsing, IsWith
<1>16. AddFile(p, file, length, offset, written) = With(p, p.status, t, new)
  <2> HIDE DEF n
  <2> QED BY <1>7, <1>8 DEF t, st, new
<1>17. Parseable(With(p, p.status, t, new), merge) BY <1>15 DEF Parseable
<1> QED BY <1>16, <1>17

(* A directory is opened below the innermost one.                          *)
IsOpened(stack, new, F, G, dep, n) ==
  /\ StackOK(new, F, G, dep)
  /\ OpenOf(new) = OpenOf(stack) \cup {n}

LEMMA StackOpen ==
  ASSUME NEW stack, NEW F, NEW G, NEW dep, StackOK(stack, F, G, dep),
         NEW o \in 1..Len(stack), Holds(stack, o),
         \A j \in 1..Len(stack) : Holds(stack, j) => j <= o,
         dep \in [DOMAIN F -> Nat], DOMAIN G = DOMAIN F,
         NEW n \in Nat, n \notin DOMAIN F, NEW v, v = dep[OffsetAt(stack, o)] + 1,
         NEW st, IsState(st), st.offset = n, st.selection \in Int,
         st.file_uid = 0, st.files = NewChain, st.directories = NewChain
  PROVE  IsOpened(stack, Append(stack, Frame("directory", st)),
                  Adjoin(F, n), Adjoin(G, n), Deeper(dep, n, v), n)
<1> DEFINE new == Append(stack, Frame("directory", st))
           F2 == Adjoin(F, n)  G2 == Adjoin(G, n)
           dep2 == Deeper(dep, n, v)  m == Len(stack)
<1>1. Sequential(stack) /\ m \in Nat /\ m >= 1
  BY SequentialFacts DEF StackOK
<1>2. /\ Sequential(new) /\ Len(new) = m + 1
      /\ new[m + 1] = Frame("directory", st)
      /\ \A k \in 1..m : new[k] = stack[k]
  BY <1>1, SequentialAppend DEF IsLonger
<1>3. /\ DOMAIN F2 = DOMAIN F \cup {n} /\ DOMAIN G2 = DOMAIN F \cup {n}
      /\ \A x \in DOMAIN F : F2[x] = F[x] /\ G2[x] = G[x]
      /\ F2[n] = <<>> /\ G2[n] = <<>>
  BY DEF Adjoin
<1>4. /\ \A x \in DOMAIN F : dep2[x] = dep[x] /\ dep[x] \in Nat
      /\ dep2[n] = v
  BY DEF Deeper
<1> HIDE DEF new, F2, G2, dep2
<1>5. /\ new[m + 1].el = "directory" /\ new[m + 1].state = st
      /\ IsFrame(new[m + 1]) /\ Holds(new, m + 1)
      /\ OffsetAt(new, m + 1) = n
  BY <1>2 DEF Frame, IsFrame, Holds, OffsetAt
<1>6. \A k \in 1..Len(new) : k \in 1..m \/ k = m + 1
  BY <1>1, <1>2
<1>7. \A k \in 1..m : /\ Holds(new, k) <=> Holds(stack, k)
                      /\ OffsetAt(new, k) = OffsetAt(stack, k)
  BY <1>2 DEF Holds, OffsetAt
<1>8. StateOK(st, F2, G2)
  <2>1. ChainOf(<<>>) = NewChain
    BY DEF ChainOf, FirstOf, LastOf, NewChain
  <2> QED BY <2>1, <1>3 DEF StateOK
<1>9. \A k \in 1..m : Holds(stack, k) => OffsetAt(stack, k) \in DOMAIN F
  BY DEF StackOK, StateOK, OffsetAt
<1>10. ASSUME NEW k \in 1..Len(new)
       PROVE  /\ IsFrame(new[k])
              /\ new[k].el = "top" <=> k = 1
              /\ Holds(new, k) => StateOK(new[k].state, F2, G2)
              /\ new[k].el = "directory" => OffsetAt(new, k) # -1
              /\ new[k].el \in {"flat", "scan"} =>
                   \A j \in 1..(k - 1) : new[j].el # "directory"
  <2>1. CASE k \in 1..m
    <3>1. \A j \in 1..(k - 1) : j \in 1..m BY <2>1, <1>1
    <3>2. new[k] = stack[k] /\ \A j \in 1..(k - 1) : new[j] = stack[j]
      BY <2>1, <3>1, <1>2
    <3>3. Holds(stack, k) => StateOK(stack[k].state, F2, G2)
      BY <2>1, <1>3 DEF StackOK, StateOK
    <3> QED BY <2>1, <3>2, <3>3, <1>7 DEF StackOK, OffsetAt
  <2>2. CASE k = m + 1
    <3>1. k # 1 BY <2>2, <1>1
    <3> QED BY <2>2, <3>1, <1>5, <1>8
  <2> QED BY <2>1, <2>2, <1>6
<1>11. OffsetAt(new, 1) = -1
  <2>1. 1 \in 1..m BY <1>1
  <2> QED BY <2>1, <1>7 DEF StackOK
<1>12. ASSUME NEW j \in 1..Len(new), NEW k \in 1..Len(new),
              j < k, Holds(new, j), Holds(new, k)
       PROVE  /\ dep2[OffsetAt(new, j)] < dep2[OffsetAt(new, k)]
              /\ (\A i \in (j + 1)..(k - 1) : ~Holds(new, i)) =>
                   dep2[OffsetAt(new, k)] = dep2[OffsetAt(new, j)] + 1
  <2>1. j \in 1..m BY <1>1, <1>6, <1>12
  <2>2. /\ Holds(stack, j) /\ OffsetAt(new, j) = OffsetAt(stack, j)
        /\ dep2[OffsetAt(new, j)] = dep[OffsetAt(stack, j)]
        /\ dep[OffsetAt(stack, j)] \in Nat
    BY <2>1, <1>4, <1>7, <1>9, <1>12
  <2>3. CASE k \in 1..m
    <3>1. \A i \in (j + 1)..(k - 1) : i \in 1..m BY <2>1, <2>3, <1>1
    <3>2. \A i \in (j + 1)..(k - 1) : Holds(new, i) <=> Holds(stack, i)
      BY <3>1, <1>7
    <3>3. /\ Holds(stack, k) /\ OffsetAt(new, k) = OffsetAt(stack, k)
          /\ dep2[OffsetAt(new, k)] = dep[OffsetAt(stack, k)]
      BY <2>3, <1>4, <1>7, <1>9, <1>12
    <3>4. /\ dep[OffsetAt(stack, j)] < dep[OffsetAt(stack, k)]
          /\ (\A i \in (j + 1)..(k - 1) : ~Holds(stack, i)) =>
               dep[OffsetAt(stack, k)] = dep[OffsetAt(stack, j)] + 1
      BY <2>1, <2>2, <2>3, <3>3, <1>12 DEF StackOK
    <3> QED BY <2>2, <3>2, <3>3, <3>4
  <2>4. CASE k = m + 1
    <3>1. dep2[OffsetAt(new, k)] = dep[OffsetAt(stack, o)] + 1
      BY <2>4, <1>4, <1>5
    <3>2. dep[OffsetAt(stack, o)] \in Nat BY <1>4, <1>9
    <3>3. CASE j = o BY <3>1, <3>2, <3>3, <2>2
    <3>4. CASE j # o
      <4>1. j < o BY <3>4, <2>1, <2>2
      <4>2. dep[OffsetAt(stack, j)] < dep[OffsetAt(stack, o)]
        BY <4>1, <2>1, <2>2 DEF StackOK
      <4>3. o \in (j + 1)..(k - 1) /\ Holds(new, o)
        BY <4>1, <2>1, <2>4, <1>1, <1>7
      <4> QED BY <3>1, <3>2, <4>2, <4>3, <2>2
    <3> QED BY <3>3, <3>4
  <2> QED BY <2>3, <2>4, <1>6
<1>13. OpenOf(new) = OpenOf(stack) \cup {n}
  <2>1. ASSUME NEW x \in OpenOf(new) PROVE x \in OpenOf(stack) \cup {n}
    <3>1. PICK k \in 1..Len(new) : new[k].el = "directory"
                                   /\ x = OffsetAt(new, k)
      BY DEF OpenOf
    <3> QED BY <3>1, <1>2, <1>5, <1>6, <1>7 DEF OpenOf
  <2>2. ASSUME NEW x \in OpenOf(stack) PROVE x \in OpenOf(new)
    <3>1. PICK k \in 1..m : stack[k].el = "directory"
                            /\ x = OffsetAt(stack, k)
      BY DEF OpenOf
    <3>2. k \in 1..Len(new) BY <1>1, <1>2
    <3> QED BY <3>1, <3>2, <1>2, <1>7 DEF OpenOf
  <2>3. n \in OpenOf(new)
    <3>1. m + 1 \in 1..Len(new) BY <1>1, <1>2
    <3> QED BY <3>1, <1>5 DEF OpenOf
  <2> QED BY <2>1, <2>2, <2>3
<1>14. StackOK(new, F2, G2, dep2)
  <2>1. Len(new) >= 1 BY <1>1, <1>2
  <2> QED BY <2>1, <1>2, <1>10, <1>11, <1>12 DEF StackOK
<1> QED BY <1>13, <1>14 DEF IsOpened, new, F2, G2, dep2

IsBegun(s, t) ==
  /\ StoreForm(t) /\ (StoreOK(s) => StoreOK(t))
  /\ t.file_index = s.file_index /\ t.file_records = s.file_records
  /\ t.directory_index = s.directory_index
  /\ t.next_file_uid = s.next_file_uid
  /\ Len(t.directories) = Len(s.directories) + 1
  /\ \A k \in 1..Len(s.directories) : t.directories[k] = s.directories[k]
  /\ t.directories[Len(s.directories) + 1] = NewHeader

LEMMA StoreBegun ==
  ASSUME NEW s, StoreForm(s)
  PROVE  IsBegun(s, BeginDirectory(s))
<1> DEFINE t == BeginDirectory(s)  list == Append(s.directories, NewHeader)
           count == s.selection_count + 1
<1>1. t = [s EXCEPT !.directories = list, !.selection_count = count]
  BY DEF BeginDirectory
<1>2. Sequential(s.directories) /\ IsStore(s) /\ count \in Nat
  BY DEF StoreForm
<1>3. IsLonger(s.directories, NewHeader, list)
  BY <1>2, SequentialAppend, Zenon
<1> HIDE DEF t, list, count
<1>4. /\ IsStore(t) /\ t.directories = list
      /\ t.file_index = s.file_index /\ t.file_records = s.file_records
      /\ t.file_records_position = s.file_records_position
      /\ t.directory_index = s.directory_index
      /\ t.next_file_uid = s.next_file_uid
      /\ t.selection_count = count
  BY <1>1, <1>2 DEF IsStore
<1>5. Sequential(list) BY <1>3 DEF IsLonger
<1>6. StoreForm(t)
  BY <1>2, <1>4, <1>5 DEF StoreForm
<1>7. IsBegun(s, t)
  BY <1>3, <1>4, <1>6 DEF IsBegun, IsLonger, StoreOK
<1> QED BY <1>7 DEF t

LEMMA BegunState ==
  ASSUME NEW s, StoreForm(s)
  PROVE  /\ IsState(DirectoryState(s))
         /\ DirectoryState(s).offset = Len(s.directories)
         /\ DirectoryState(s).selection \in Int
         /\ DirectoryState(s).file_uid = 0
         /\ DirectoryState(s).files = NewChain
         /\ DirectoryState(s).directories = NewChain
<1>1. s.selection_count \in Int BY DEF StoreForm
<1> DEFINE a == Len(s.directories)  b == s.selection_count
           old == NewState  new == DirectoryState(s)
<1>2. new = [old EXCEPT !.offset = a, !.selection = b]
  BY DEF DirectoryState
<1>3. /\ IsState(old) /\ old.file_uid = 0
      /\ old.files = NewChain /\ old.directories = NewChain
  BY DEF NewState, IsState
<1> HIDE DEF a, b, old, new
<1>4. /\ IsState(new) /\ new.offset = a /\ new.selection = b
      /\ new.file_uid = 0
      /\ new.files = NewChain /\ new.directories = NewChain
  BY <1>2, <1>3 DEF IsState
<1> QED BY <1>1, <1>4 DEF new, a, b

LEMMA ParseOpens ==
  ASSUME NEW p, NEW merge, NEW F, NEW G, NEW dep,
         Parsing(p, merge, F, G, dep),
         p.status = "reading"
  PROVE  /\ Parseable(OpenDirectory(p), merge)
         /\ Last(OpenDirectory(p).stack).el = "directory"
         /\ OpenDirectory(p).status = "reading"
<1> DEFINE s == p.store  stack == p.stack  o == Owner(p)
           n == Len(s.directories)
           t == BeginDirectory(s)  st == DirectoryState(s)
           v == dep[OffsetAt(stack, o)] + 1
           new == Append(stack, Frame("directory", st))
           F2 == Adjoin(F, n)  G2 == Adjoin(G, n)  dep2 == Deeper(dep, n, v)
           q == With(p, p.status, t, new)
<1>1. /\ IsParser(p) /\ p.barcode \in Barcodes /\ p.merge = merge
      /\ StoreForm(s) /\ (merge => StoreOK(s))
      /\ StackOK(stack, F, G, dep)
      /\ Forest(s, F, G, dep, OpenOf(stack), {})
      /\ DOMAIN F = {-1} \cup 0..(n - 1)
      /\ Closedown(s)
  BY DEF Parsing
<1>2. /\ o \in 1..Len(stack) /\ Holds(stack, o)
      /\ \A j \in 1..Len(stack) : Holds(stack, j) => j <= o
  BY <1>1, OwnerFacts
<1>3. n \in Nat BY <1>1, FormLinks
<1>4. n \notin DOMAIN F BY <1>1, <1>3
<1>5. /\ dep \in [DOMAIN F -> Nat] /\ DOMAIN G = DOMAIN F /\ dep[-1] = 0
      /\ \A x \in DOMAIN F : dep[x] <= x + 1
  BY <1>1 DEF Forest, Deep, Owners
<1>6. v \in Nat /\ v <= n + 1
  <2> DEFINE x == OffsetAt(stack, o)
  <2>1. x \in DOMAIN F BY <1>1, <1>2 DEF StackOK, StateOK, OffsetAt
  <2> HIDE DEF x, n
  <2>2. dep[x] \in Nat /\ dep[x] <= x + 1 BY <2>1, <1>5
  <2>3. x = -1 \/ x \in 0..(n - 1) BY <2>1, <1>1 DEF n
  <2>4. v = dep[x] + 1 BY DEF x
  <2> HIDE DEF v
  <2> QED BY <2>2, <2>3, <2>4, <1>3
<1>7. IsBegun(s, t) BY <1>1, StoreBegun, Zenon
<1>8. IsOpened(stack, new, F2, G2, dep2, n)
  <2>1. /\ IsState(st) /\ st.offset = n /\ st.selection \in Int
        /\ st.file_uid = 0 /\ st.files = NewChain
        /\ st.directories = NewChain
    BY <1>1, BegunState
  <2>2. v = dep[OffsetAt(stack, o)] + 1 OBVIOUS
  <2> HIDE DEF st, v, n, o
  <2> QED BY <1>1, <1>2, <1>3, <1>4, <1>5, <2>1, <2>2, StackOpen, Zenon
<1>9. OpenDirectory(p) = q
  <2> DEFINE r == [p EXCEPT !.store = BeginDirectory(p.store)]
  <2>1. /\ IsParser(r) /\ r.store = t /\ r.stack = p.stack
        /\ r.status = p.status /\ r.merge = p.merge
        /\ r.barcode = p.barcode
    <3> HIDE DEF t
    <3>1. r = [p EXCEPT !.store = t] BY DEF t
    <3> HIDE DEF r
    <3> QED BY <3>1, <1>1 DEF IsParser
  <2>2. OpenDirectory(p) = Push(r, "directory", st)
    BY DEF OpenDirectory
  <2> HIDE DEF r, st, t
  <2>3. Push(r, "directory", st)
          = With(r, r.status, r.store, Append(r.stack, Frame("directory", st)))
    BY <2>1, ParserPush, Zenon
  <2> QED BY <2>1, <2>2, <2>3 DEF With
<1>10. Forest(t, F2, G2, dep2, OpenOf(stack) \cup {n}, {})
  <2>1. /\ t.file_index = s.file_index
        /\ t.directory_index = s.directory_index
        /\ Len(t.directories) = n + 1
        /\ \A k \in 1..n : t.directories[k] = s.directories[k]
    BY <1>7 DEF IsBegun
  <2>3. n = Len(s.directories) OBVIOUS
  <2>2. StoreForm(s) /\ Forest(s, F, G, dep, OpenOf(stack), {}) BY <1>1
  <2> HIDE DEF n, v, t, s, stack
  <2> QED BY <1>4, <1>6, <2>1, <2>2, <2>3, ForestOpen, Zenon
<1>11. Closedown(t)
  <2> SUFFICES ASSUME NEW k \in 1..Len(t.directories)
               PROVE  t.directories[k].file_uid = 0
    BY DEF Closedown
  <2>1. k \in 1..n \/ k = n + 1 BY <1>3, <1>7 DEF IsBegun
  <2>2. NewHeader.file_uid = 0 BY DEF NewHeader
  <2> QED BY <2>1, <2>2, <1>1, <1>7 DEF IsBegun, Closedown
<1>12. DOMAIN F2 = {-1} \cup 0..(Len(t.directories) - 1)
  <2>1. Len(t.directories) = n + 1 BY <1>7 DEF IsBegun
  <2>2. DOMAIN F2 = DOMAIN F \cup {n} BY DEF Adjoin
  <2> HIDE DEF n, F2
  <2>3. {-1} \cup 0..((n + 1) - 1) = ({-1} \cup 0..(n - 1)) \cup {n}
    BY <1>3
  <2> QED BY <1>1, <2>1, <2>2, <2>3 DEF n
<1>13. StackOK(new, F2, G2, dep2) /\ OpenOf(new) = OpenOf(stack) \cup {n}
  BY <1>8 DEF IsOpened
<1>14. StoreForm(t) /\ (merge => StoreOK(t)) BY <1>1, <1>7 DEF IsBegun
<1>15. IsWith(q, p, p.status, t, new) BY WithFields, Zenon
<1>16. Last(new).el = "directory"
  <2>1. Sequential(stack) BY <1>1 DEF StackOK
  <2>2. IsLonger(stack, Frame("directory", st), new)
    BY <2>1, SequentialAppend, Zenon
  <2> HIDE DEF new
  <2>3. Last(new) = Frame("directory", st) BY <2>2 DEF IsLonger, Last
  <2> QED BY <2>3 DEF Frame
<1> HIDE DEF new, t, F2, G2, dep2, q, st, n
<1>17. Parsing(q, merge, F2, G2, dep2)
  BY <1>1, <1>10, <1>11, <1>12, <1>13, <1>14, <1>15 DEF Parsing, IsWith
<1>18. Parseable(q, merge) BY <1>17 DEF Parseable
<1> QED BY <1>9, <1>15, <1>16, <1>18 DEF IsWith

(* The innermost directory is closed and hangs in the one around it.       *)
IsInner(stack, o, dep, c, d) ==
  /\ dep[c] = dep[d] + 1 /\ c # d
  /\ c \in OpenOf(stack) /\ d \in {-1} \cup OpenOf(stack)
  /\ OpenOf(Front(stack)) = OpenOf(stack) \ {c}

LEMMA StackInner ==
  ASSUME NEW stack, NEW F, NEW G, NEW dep, StackOK(stack, F, G, dep),
         dep \in [DOMAIN F -> Nat], Last(stack).el = "directory",
         NEW o \in 1..Len(Front(stack)), Holds(Front(stack), o),
         \A j \in 1..Len(Front(stack)) : Holds(Front(stack), j) => j <= o
  PROVE  IsInner(stack, o, dep, OffsetAt(stack, Len(stack)),
                 OffsetAt(Front(stack), o))
<1> DEFINE front == Front(stack)  m == Len(stack)
           c == OffsetAt(stack, m)  d == OffsetAt(front, o)
<1>1. IsPopped(stack, front, F, G, dep)
  <2>1. Last(stack).el # "top" OBVIOUS
  <2> QED BY <2>1, StackPop, Zenon
<1> HIDE DEF front
<1>2. /\ m \in Nat /\ m >= 2 /\ Last(stack) = stack[m]
      /\ Len(front) = m - 1
      /\ \A k \in 1..(m - 1) : front[k] = stack[k]
      /\ OpenOf(front) = {OffsetAt(stack, k) :
           k \in {j \in 1..(m - 1) : stack[j].el = "directory"}}
  BY <1>1 DEF IsPopped
<1>3. o \in 1..(m - 1) /\ m \in 1..Len(stack) /\ o \in 1..Len(stack) /\ o < m
  BY <1>2 DEF front
<1>4. d = OffsetAt(stack, o) /\ Holds(stack, o) /\ Holds(stack, m)
      /\ stack[m].el = "directory"
  BY <1>2, <1>3 DEF OffsetAt, Holds, front
<1>5. \A i \in (o + 1)..(m - 1) : ~Holds(stack, i)
  <2> SUFFICES ASSUME NEW i \in (o + 1)..(m - 1), Holds(stack, i)
               PROVE  FALSE
    OBVIOUS
  <2>1. i \in 1..(m - 1) /\ ~(i <= o) BY <1>2, <1>3
  <2>2. Holds(front, i) BY <2>1, <1>2 DEF Holds
  <2>3. i \in 1..Len(front) BY <2>1, <1>2
  <2> QED BY <2>1, <2>2, <2>3 DEF front
<1>6. dep[c] = dep[d] + 1
  BY <1>3, <1>4, <1>5 DEF StackOK
<1>7. \A k \in 1..Len(stack) : Holds(stack, k) =>
        /\ OffsetAt(stack, k) \in DOMAIN F
        /\ dep[OffsetAt(stack, k)] \in Nat
  BY DEF StackOK, StateOK, OffsetAt
<1>8. ASSUME NEW k \in 1..(m - 1), Holds(stack, k)
      PROVE  OffsetAt(stack, k) # c
  <2>1. k \in 1..Len(stack) /\ k < m BY <1>2
  <2>2. dep[OffsetAt(stack, k)] < dep[c]
    BY <2>1, <1>3, <1>4, <1>8 DEF StackOK
  <2>3. dep[c] \in Nat BY <1>3, <1>4, <1>7
  <2> QED BY <2>2, <2>3
<1>9. c # d BY <1>3, <1>4, <1>8
<1>10. c \in OpenOf(stack) BY <1>3, <1>4 DEF OpenOf
<1>11. d \in {-1} \cup OpenOf(stack)
  <2>1. CASE stack[o].el = "directory"
    BY <2>1, <1>3, <1>4 DEF OpenOf
  <2>2. CASE stack[o].el = "top"
    <3>1. o = 1 BY <2>2, <1>3 DEF StackOK
    <3> QED BY <3>1, <1>4 DEF StackOK
  <2> QED BY <2>1, <2>2, <1>4 DEF Holds
<1>12. OpenOf(front) = OpenOf(stack) \ {c}
  <2>1. ASSUME NEW x \in OpenOf(front) PROVE x \in OpenOf(stack) \ {c}
    <3>1. PICK k \in 1..(m - 1) : stack[k].el = "directory"
                                  /\ x = OffsetAt(stack, k)
      BY <1>2
    <3>2. Holds(stack, k) /\ k \in 1..Len(stack) BY <3>1, <1>2 DEF Holds
    <3> QED BY <3>1, <3>2, <1>8 DEF OpenOf
  <2>2. ASSUME NEW x \in OpenOf(stack) \ {c} PROVE x \in OpenOf(front)
    <3>1. PICK k \in 1..m : stack[k].el = "directory"
                            /\ x = OffsetAt(stack, k)
      BY DEF OpenOf
    <3>2. k # m BY <3>1
    <3>3. k \in 1..(m - 1) BY <3>2, <1>2
    <3> QED BY <3>1, <3>3, <1>2
  <2> QED BY <2>1, <2>2
<1> QED BY <1>6, <1>9, <1>10, <1>11, <1>12 DEF IsInner, front

HungIn(s, child, chain) ==
  LET done == FinishDirectory(s, child)
      entry == [next |-> -1, record_offset |-> child.offset,
                selection |-> child.selection]
  IN  [done EXCEPT !.directory_index = AppendIndex(@, chain, entry)]

IsHung(s, t, F, G, c, d, header) ==
  /\ StoreForm(t) /\ (StoreOK(s) => StoreOK(t))
  /\ t.file_index = s.file_index /\ t.file_records = s.file_records
  /\ t.next_file_uid = s.next_file_uid
  /\ Len(t.directories) = Len(s.directories)
  /\ \A k \in 1..Len(s.directories) :
       t.directories[k] = IF k = c + 1 THEN header ELSE s.directories[k]
  /\ Len(t.directory_index) = Len(s.directory_index) + 1
  /\ Lists(t.directory_index, Grown(G, d, Len(s.directory_index)))
  /\ t.directory_index[Len(s.directory_index) + 1].record_offset = c
  /\ \A k \in 1..Len(s.directory_index) :
       t.directory_index[k].record_offset
         = s.directory_index[k].record_offset

LEMMA StoreHung ==
  ASSUME NEW s, StoreForm(s), NEW F, NEW G, Lists(s.directory_index, G),
         NEW d \in DOMAIN G, NEW child, child.offset \in Nat,
         child.selection \in Int, child.offset + 1 \in 1..Len(s.directories)
  PROVE  IsHung(s, HungIn(s, child, ChainOf(G[d])), F, G, child.offset, d,
                HeaderOf(child))
<1> DEFINE done == FinishDirectory(s, child)
           entry == [next |-> -1, record_offset |-> child.offset,
                     selection |-> child.selection]
           c == child.offset  header == HeaderOf(child)
           headers == [s.directories EXCEPT ![c + 1] = header]
           old == s.directory_index  chain == ChainOf(G[d])
           list == AppendIndex(old, chain, entry)
           t == HungIn(s, child, chain)  n == Len(old)
<1>1. IsStore(s) /\ Sequential(s.directories) /\ old \in Seq(DirectoryEntries)
  BY DEF StoreForm
<1>2. IsReplaced(s.directories, c + 1, header, headers)
  <2> HIDE DEF header
  <2> QED BY <1>1, SequentialExcept, Zenon
<1>3. done = [s EXCEPT !.directories = headers]
  BY DEF FinishDirectory
<1>4. t = [done EXCEPT !.directory_index =
                          AppendIndex(done.directory_index, chain, entry)]
  BY DEF HungIn
<1>5. entry \in DirectoryEntries /\ entry.next = -1 /\ entry.record_offset = c
  BY DEF DirectoryEntries
<1> HIDE DEF headers, done, t
<1>6. /\ IsStore(done) /\ done.directories = headers
      /\ done.directory_index = old
      /\ done.file_index = s.file_index
      /\ done.file_records = s.file_records
      /\ done.file_records_position = s.file_records_position
      /\ done.selection_count = s.selection_count
      /\ done.next_file_uid = s.next_file_uid
  BY <1>1, <1>3 DEF IsStore
<1> HIDE DEF entry, chain
<1>7. t = [done EXCEPT !.directory_index = list] BY <1>4, <1>6
<1> HIDE DEF list
<1>8. /\ IsStore(t) /\ t.directories = headers /\ t.directory_index = list
      /\ t.file_index = s.file_index
      /\ t.file_records = s.file_records
      /\ t.file_records_position = s.file_records_position
      /\ t.selection_count = s.selection_count
      /\ t.next_file_uid = s.next_file_uid
  BY <1>6, <1>7 DEF IsStore
<1>9. IsAppended(DirectoryEntries, old, G, d, entry, list)
  <2> HIDE DEF old
  <2> QED BY <1>1, <1>5, DirectoryLinks, AppendToList, Zenon
          DEF list, chain, old
<1>10. /\ list \in Seq(DirectoryEntries) /\ Len(list) = n + 1
       /\ list[n + 1] = entry
       /\ \A k \in 1..n : list[k] = [old[k] EXCEPT !.next = list[k].next]
       /\ Lists(list, Grown(G, d, n))
  BY <1>9 DEF IsAppended
<1>11. ASSUME NEW k \in 1..n
       PROVE  list[k].record_offset = old[k].record_offset
  <2>1. old[k] \in DirectoryEntries BY <1>1, ElementOfSeq
  <2> DEFINE e == old[k]  v == list[k].next
  <2>2. list[k] = [e EXCEPT !.next = v] BY <1>10
  <2> HIDE DEF e, v
  <2>3. e \in DirectoryEntries BY <2>1 DEF e
  <2>4. list[k].record_offset = e.record_offset
    BY <2>2, <2>3 DEF DirectoryEntries
  <2> QED BY <2>4 DEF e
<1>12. StoreForm(t)
  <2>1. Sequential(headers) BY <1>2 DEF IsReplaced
  <2> QED BY <1>8, <1>10, <2>1 DEF StoreForm
<1>14. StoreOK(s) => StoreOK(t) BY <1>8, <1>12 DEF StoreOK
<1> HIDE DEF old, header
<1>13. IsHung(s, t, F, G, c, d, header)
  BY <1>2, <1>5, <1>8, <1>10, <1>11, <1>12, <1>14
     DEF IsHung, IsReplaced, old
<1> QED BY <1>13 DEF t, header, chain

IsChild(st, new, F, G, list) ==
  /\ StateOK(new, F, Grown(G, st.offset, Len(list)))
  /\ new.offset = st.offset

LEMMA ChildState ==
  ASSUME NEW st, NEW F, NEW G, StateOK(st, F, G), DOMAIN G = DOMAIN F,
         NEW list, Linkable(list), Lists(list, G), NEW x, NEW y, NEW new,
         new = [st EXCEPT !.directories = AppendChain(list, st.directories),
                          !.total_file_count = x,
                          !.total_directory_count = y]
  PROVE  IsChild(st, new, F, G, list)
<1> DEFINE d == st.offset  n == Len(list)
<1>1. /\ IsState(new) /\ new.selection = st.selection
      /\ new.file_uid = st.file_uid /\ new.offset = st.offset
      /\ new.files = st.files
      /\ new.directories = AppendChain(list, st.directories)
  BY DEF StateOK, IsState
<1>2. /\ d \in DOMAIN F /\ st.files = ChainOf(F[d])
      /\ st.directories = ChainOf(G[d])
      /\ st.selection \in Int /\ st.file_uid = 0
  BY DEF StateOK
<1>3. G[d] \in Seq(Nat) /\ n \in Nat BY <1>2, ListEntry DEF Linkable
<1>4. AppendChain(list, ChainOf(G[d])) = ChainOf(Append(G[d], n))
  BY <1>3, ChainGrown
<1>5. Grown(G, d, n)[d] = Append(G[d], n)
  BY <1>2 DEF Grown
<1> QED BY <1>1, <1>2, <1>4, <1>5 DEF StateOK, IsChild

LEMMA ClosedHeader ==
  ASSUME NEW st, NEW F, NEW G, StateOK(st, F, G)
  PROVE  /\ HeadOf(HeaderOf(st), F[st.offset], G[st.offset])
         /\ HeaderOf(st).directory_count = Len(G[st.offset])
         /\ HeaderOf(st).file_uid = 0
<1>1. /\ st.files = ChainOf(F[st.offset])
      /\ st.directories = ChainOf(G[st.offset]) /\ st.file_uid = 0
  BY DEF StateOK
<1>2. /\ st.files.first = FirstOf(F[st.offset])
      /\ st.files.count = Len(F[st.offset])
      /\ st.directories.first = FirstOf(G[st.offset])
      /\ st.directories.count = Len(G[st.offset])
  BY <1>1 DEF ChainOf
<1> QED BY <1>1, <1>2 DEF HeaderOf, HeadOf, IsHeader

LEMMA ParseCloses ==
  ASSUME NEW p, NEW merge, NEW F, NEW G, NEW dep,
         Parsing(p, merge, F, G, dep),
         p.status = "reading", Last(p.stack).el = "directory"
  PROVE  Parseable(CloseDirectory(p), merge)
<1> DEFINE s == p.store  stack == p.stack  front == Front(stack)
           m == Len(stack)  n == Len(s.directory_index)
           q == With(p, p.status, s, front)  o == Owner(q)
           child == Last(stack).state  owner == front[o].state
           c == child.offset  d == owner.offset
           t == HungIn(s, child, owner.directories)
           done == FinishDirectory(s, child)
           st == [owner EXCEPT
                    !.directories = AppendChain(done.directory_index,
                                                owner.directories),
                    !.total_file_count = owner.total_file_count
                                           + child.total_file_count,
                    !.total_directory_count = owner.total_directory_count
                                           + 1 + child.total_directory_count]
           G2 == Grown(G, d, n)
           new == [front EXCEPT ![o] = Frame(front[o].el, st)]
<1>1. /\ IsParser(p) /\ p.barcode \in Barcodes /\ p.merge = merge
      /\ StoreForm(s) /\ (merge => StoreOK(s))
      /\ StackOK(stack, F, G, dep)
      /\ Forest(s, F, G, dep, OpenOf(stack), {})
      /\ DOMAIN F = {-1} \cup 0..(Len(s.directories) - 1)
      /\ Closedown(s)
  BY DEF Parsing
<1>2. /\ StackOK(front, F, G, dep) /\ Last(stack) = stack[m]
      /\ m \in Nat /\ m >= 2
  <2>1. Last(stack).el # "top" OBVIOUS
  <2>2. IsPopped(stack, front, F, G, dep) BY <1>1, <2>1, StackPop, Zenon
  <2> QED BY <2>2 DEF IsPopped
<1>3. IsWith(q, p, p.status, s, front) BY WithFields, Zenon
<1>4. /\ IsParser(q) /\ q.stack = front /\ q.store = s /\ q.merge = merge
      /\ q.status = p.status /\ q.barcode = p.barcode
  BY <1>1, <1>3 DEF IsWith
<1>5. /\ o \in 1..Len(front) /\ Holds(front, o)
      /\ \A j \in 1..Len(front) : Holds(front, j) => j <= o
  <2> HIDE DEF q, front
  <2>1. StackOK(q.stack, F, G, dep) BY <1>2, <1>4
  <2> QED BY <2>1, <1>4, OwnerFacts
<1>6. /\ dep \in [DOMAIN F -> Nat] /\ DOMAIN G = DOMAIN F
      /\ Lists(s.directory_index, G)
      /\ DOMAIN F \subseteq {-1} \cup 0..(Len(s.directories) - 1)
  BY <1>1 DEF Forest, Deep, Owners
<1>7. OffsetAt(stack, m) = c /\ OffsetAt(front, o) = d
  BY <1>2 DEF OffsetAt
<1>8. IsInner(stack, o, dep, c, d)
  <2> HIDE DEF o, c, d
  <2> QED BY <1>1, <1>5, <1>6, <1>7, StackInner
<1>9. StateOK(child, F, G) /\ c # -1
  <2>1. m \in 1..Len(stack) BY <1>2
  <2>2. Holds(stack, m) /\ stack[m].el = "directory" BY <1>2 DEF Holds
  <2> QED BY <2>1, <2>2, <1>1, <1>2, <1>7 DEF StackOK
<1>10. StateOK(owner, F, G) /\ IsFrame(front[o])
  BY <1>2, <1>5 DEF StackOK
<1>11. /\ c \in DOMAIN F /\ c \in Nat /\ c + 1 \in 1..Len(s.directories)
       /\ d \in DOMAIN F /\ owner.directories = ChainOf(G[d])
       /\ child.selection \in Int
  <2>1. Len(s.directories) \in Nat BY <1>1, FormLinks
  <2>2. c \in DOMAIN F /\ child.selection \in Int BY <1>9 DEF StateOK
  <2>3. c \in 0..(Len(s.directories) - 1) BY <2>2, <1>6, <1>9
  <2>4. d \in DOMAIN F /\ owner.directories = ChainOf(G[d])
    BY <1>10 DEF StateOK
  <2> HIDE DEF c, d
  <2> QED BY <2>1, <2>2, <2>3, <2>4
<1>12. IsHung(s, t, F, G, c, d, HeaderOf(child))
  <2> HIDE DEF c, d, child, owner, s
  <2>1. d \in DOMAIN G /\ child.offset = c BY <1>6, <1>11 DEF c
  <2>2. IsHung(s, HungIn(s, child, ChainOf(G[d])), F, G, child.offset, d,
               HeaderOf(child))
    BY <2>1, <1>1, <1>6, <1>11, StoreHung, Zenon
  <2> QED BY <2>1, <2>2, <1>11
<1>13. CloseDirectory(p) = Replace(q, o, t, st)
  <2>1. Pop(p) = q BY <1>1, ParserSteps
  <2> HIDE DEF q
  <2> QED BY <2>1, <1>4
          DEF CloseDirectory, OwnerState, Replace, HungIn, o
<1>14. Replace(q, o, t, st) = With(q, q.status, t, new)
  <2>1. IsFrame(q.stack[o]) BY <1>4, <1>10
  <2>2. new = [q.stack EXCEPT ![o] = Frame(q.stack[o].el, st)] BY <1>4
  <2>3. IsParser(q) BY <1>4
  <2> HIDE DEF q, o, t, st, new
  <2>4. Replace(q, o, t, st)
          = With(q, q.status, t,
                 [q.stack EXCEPT ![o] = Frame(q.stack[o].el, st)])
    BY <2>1, <2>3, ParserReplace, Zenon
  <2> QED BY <2>2, <2>4
<1>15. StateOK(st, F, G2) /\ st.offset = d
  <2>1. Linkable(s.directory_index) BY <1>1, FormLinks
  <2>2. done.directory_index = s.directory_index
    BY <1>1 DEF FinishDirectory, StoreForm, IsStore
  <2> DEFINE x == owner.total_file_count + child.total_file_count
             y == owner.total_directory_count + 1
                    + child.total_directory_count
  <2>3. st = [owner EXCEPT
                !.directories = AppendChain(s.directory_index,
                                            owner.directories),
                !.total_file_count = x,
                !.total_directory_count = y]
    BY <2>2
  <2> HIDE DEF st, owner, s, x, y
  <2>4. IsChild(owner, st, F, G, s.directory_index)
    BY <1>6, <1>10, <2>1, <2>3, ChildState, Zenon
  <2> QED BY <2>4 DEF d, IsChild
<1>16. StackOK(new, F, G2, dep) /\ OpenOf(new) = OpenOf(front)
  <2>1. \A x \in DOMAIN F : x # OffsetAt(front, o) =>
          F[x] = F[x] /\ G2[x] = G[x]
    BY <1>6, <1>7 DEF Grown
  <2> HIDE DEF st, G2, o, d
  <2>2. st.offset = OffsetAt(front, o) BY <1>7, <1>15
  <2> HIDE DEF front
  <2>3. IsKept(front, new, F, G2, dep)
    BY <1>2, <1>5, <1>6, <1>15, <2>1, <2>2, StackReplace, Zenon
  <2> QED BY <2>3 DEF IsKept
<1>17. Forest(t, F, G2, dep, OpenOf(stack) \ {c}, {})
  <2> HIDE DEF t, c, d, s
  <2>1. Header(t, c) = HeaderOf(child)
    BY <1>11, <1>12 DEF IsHung, Header
  <2>2. /\ HeadOf(Header(t, c), F[c], G[c])
        /\ Header(t, c).directory_count = Len(G[c])
    BY <2>1, <1>9, ClosedHeader DEF c
  <2>4. /\ t.file_index = s.file_index
        /\ Len(t.directories) = Len(s.directories)
        /\ \A k \in 1..Len(s.directories) :
             k # c + 1 => t.directories[k] = s.directories[k]
        /\ Len(t.directory_index) = n + 1
        /\ Lists(t.directory_index, Grown(G, d, n))
        /\ t.directory_index[n + 1].record_offset = c
        /\ \A k \in 1..n : t.directory_index[k].record_offset
                             = s.directory_index[k].record_offset
    BY <1>12 DEF IsHung
  <2>3. ClosesIn(s, t, F, G, c, d) BY <2>2, <2>4 DEF ClosesIn
  <2>5. /\ c \in OpenOf(stack) /\ d \in {-1} \cup OpenOf(stack)
        /\ c # d /\ dep[c] = dep[d] + 1
    BY <1>8 DEF IsInner
  <2>6. StoreForm(s) /\ Forest(s, F, G, dep, OpenOf(stack), {}) BY <1>1
  <2> HIDE DEF stack
  <2>7. Forest(t, F, Grown(G, d, n), dep, OpenOf(stack) \ {c}, {})
    BY <2>3, <2>5, <2>6, ForestClose, Zenon
  <2> QED BY <2>7
<1>18. OpenOf(new) = OpenOf(stack) \ {c} BY <1>8, <1>16 DEF IsInner
<1>19. /\ StoreForm(t) /\ (merge => StoreOK(t))
       /\ Len(t.directories) = Len(s.directories)
  BY <1>1, <1>12 DEF IsHung
<1>20. Closedown(t)
  <2> HIDE DEF t, s, child
  <2>1. HeaderOf(child).file_uid = 0 BY <1>9, ClosedHeader
  <2> QED BY <2>1, <1>1, <1>12 DEF IsHung, Closedown
<1> HIDE DEF q, new, t, st, G2, c, o
<1>21. IsWith(With(q, q.status, t, new), q, q.status, t, new)
  BY WithFields, Zenon
<1>22. Parsing(With(q, q.status, t, new), merge, F, G2, dep)
  BY <1>1, <1>4, <1>16, <1>17, <1>18, <1>19, <1>20, <1>21
     DEF Parsing, IsWith
<1>23. Parseable(With(q, q.status, t, new), merge) BY <1>22 DEF Parseable
<1>24. CloseDirectory(p) = With(q, q.status, t, new)
  <2> HIDE DEF n, d, owner, child, front, s
  <2> QED BY <1>13, <1>14 DEF t, st, new
<1> QED BY <1>23, <1>24

LEMMA ParseTop ==
  ASSUME NEW stack, NEW F, NEW G, NEW dep, StackOK(stack, F, G, dep),
         Last(stack).el \in {"top", "flat", "scan"}
  PROVE  OpenOf(stack) = {}
<1> DEFINE m == Len(stack)
<1>1. m \in Nat /\ m >= 1 /\ Last(stack) = stack[m]
  BY SequentialFacts DEF StackOK, Last
<1>2. m \in 1..Len(stack) BY <1>1
<1>3. \A j \in 1..(m - 1) : stack[j].el # "directory"
  <2>1. CASE stack[m].el = "top"
    <3>1. m = 1 BY <2>1, <1>2 DEF StackOK
    <3> QED BY <3>1
  <2>2. CASE stack[m].el # "top"
    BY <2>2, <1>1, <1>2 DEF StackOK
  <2> QED BY <2>1, <2>2
<1>4. \A j \in 1..m : j \in 1..(m - 1) \/ j = m BY <1>1
<1>5. stack[m].el # "directory" BY <1>1
<1> QED BY <1>3, <1>4, <1>5 DEF OpenOf

LEMMA ParseMakes ==
  ASSUME NEW p, NEW merge, NEW F, NEW G, NEW dep,
         Parsing(p, merge, F, G, dep)
  PROVE  Parseable(p, merge)
BY DEF Parseable

LEMMA ParseRoot ==
  ASSUME NEW p, NEW merge, NEW F, NEW G, NEW dep,
         Parsing(p, merge, F, G, dep),
         p.status = "reading", Last(p.stack).el = "top", NEW e
  PROVE  Parseable(AtRoot(p, e), merge)
<1>1. OpenOf(p.stack) = {} BY ParseTop DEF Parsing
<1>2. Parseable(OpenDirectory(p), merge) BY ParseOpens
<1>7. Parseable(Push(p, "ltfsindex", NewState), merge)
  BY <1>1, ParsePush, ParseMakes
<1>3. Parseable(Push(p, "scan", NewState), merge)
  BY <1>1, ParsePush, ParseMakes
<1>4. Parseable(Push(p, "flat", NewState), merge)
  BY <1>1, ParsePush, ParseMakes
<1>5. Parseable(Fail(p), merge) BY ParseFail, ParseMakes
<1>6. \/ AtRoot(p, e) = Fail(p)
      \/ AtRoot(p, e) = Push(p, "scan", NewState)
      \/ AtRoot(p, e) = Push(p, "flat", NewState)
      \/ AtRoot(p, e) = Push(p, "ltfsindex", NewState)
      \/ AtRoot(p, e) = OpenDirectory(p)
  BY DEF AtRoot
<1> QED BY <1>2, <1>3, <1>4, <1>5, <1>6, <1>7

LEMMA ParseSkip ==
  ASSUME NEW p, NEW merge, NEW F, NEW G, NEW dep,
         Parsing(p, merge, F, G, dep),
         p.status = "reading", Last(p.stack).el = "skip", NEW e
  PROVE  Parseable(InSkipped(p, e), merge)
<1>1. Parseable(Push(p, "skip", NewState), merge) BY ParsePush, ParseMakes
<1>2. Parseable(Pop(p), merge) BY ParsePop, ParseMakes
<1>3. Parseable(p, merge) BY ParseMakes
<1>4. \/ InSkipped(p, e) = Push(p, "skip", NewState)
      \/ InSkipped(p, e) = Pop(p)
      \/ InSkipped(p, e) = p
  BY DEF InSkipped
<1> QED BY <1>1, <1>2, <1>3, <1>4

LEMMA ParseScan ==
  ASSUME NEW p, NEW merge, NEW F, NEW G, NEW dep,
         Parsing(p, merge, F, G, dep),
         p.status = "reading", Last(p.stack).el = "scan", NEW e
  PROVE  Parseable(InScan(p, e), merge)
<1>1. OpenOf(p.stack) = {} BY ParseTop DEF Parsing
<1>2. Parseable(Push(p, "scan", NewState), merge)
  BY <1>1, ParsePush, ParseMakes
<1>3. Parseable(Push(p, "flat", NewState), merge)
  BY <1>1, ParsePush, ParseMakes
<1>4. Parseable(Closed(Pop(p)), merge) BY ParsePop, ParseClosed, ParseMakes
<1>5. Parseable(p, merge) BY ParseMakes
<1>6. \/ InScan(p, e) = Push(p, "scan", NewState)
      \/ InScan(p, e) = Push(p, "flat", NewState)
      \/ InScan(p, e) = Closed(Pop(p))
      \/ InScan(p, e) = p
  BY DEF InScan
<1> QED BY <1>2, <1>3, <1>4, <1>5, <1>6

LEMMA ParseAddsChild ==
  ASSUME NEW p, NEW merge, NEW F, NEW G, NEW dep,
         Parsing(p, merge, F, G, dep), p.status = "reading",
         NEW file \in FileNames, NEW length \in Nat, length >= 1
  PROVE  Parseable(AppendChildFile(p, file, length), merge)
<1> DEFINE offset == p.store.file_records_position
           written == offset + length
<1>1. offset \in Nat /\ written \in Nat BY DEF Parsing, StoreForm
<1>2. AppendChildFile(p, file, length)
        = AddFile(p, file, length, offset, written)
  BY DEF AppendChildFile
<1>3. merge => /\ offset = p.store.file_records_position
               /\ written = offset + length
  OBVIOUS
<1> HIDE DEF offset, written
<1>4. Parseable(AddFile(p, file, length, offset, written), merge)
  BY <1>1, <1>3, ParseAddsFile, Zenon
<1> QED BY <1>2, <1>4

LEMMA ParseContents ==
  ASSUME NEW p, NEW merge, NEW F, NEW G, NEW dep,
         Parsing(p, merge, F, G, dep),
         p.status = "reading", Last(p.stack).el # "top",
         NEW e \in Events, e.ev # "unsafe"
  PROVE  Parseable(InContents(p, e), merge)
<1> DEFINE top == Last(p.stack).el
<1>1. CASE e.ev = "open"
  <2>1. Parseable(OpenDirectory(p), merge) BY ParseOpens
  <2>2. Parseable(Push(p, "contents", NewState), merge)
    BY ParsePush, ParseMakes
  <2>3. Parseable(Push(p, "skip", NewState), merge) BY ParsePush, ParseMakes
  <2>4. \/ InContents(p, e) = OpenDirectory(p)
        \/ InContents(p, e) = Push(p, "contents", NewState)
        \/ InContents(p, e) = Push(p, "skip", NewState)
    BY <1>1 DEF InContents
  <2> QED BY <2>1, <2>2, <2>3, <2>4
<1>2. CASE e.ev = "close"
  <2>1. CASE top = "directory"
    <3>1. Parseable(CloseDirectory(p), merge) BY <2>1, ParseCloses
    <3>2. Parseable(Closed(CloseDirectory(p)), merge)
      <4>1. PICK F2, G2, dep2 : Parsing(CloseDirectory(p), merge, F2, G2, dep2)
        BY <3>1 DEF Parseable
      <4> QED BY <4>1, ParseClosed, ParseMakes
    <3>3. InContents(p, e) = Closed(CloseDirectory(p))
      BY <1>2, <2>1 DEF InContents
    <3> QED BY <3>2, <3>3
  <2>2. CASE top = "flat"
    <3>1. Parsing(Pop(p), merge, F, G, dep) /\ OpenOf(Pop(p).stack) = {}
      BY <2>2, ParsePop
    <3>2. Parseable(Finish(Pop(p)), merge) BY <3>1, ParseFinish, ParseMakes
    <3>3. InContents(p, e) = Finish(Pop(p))
      BY <1>2, <2>2 DEF InContents
    <3> QED BY <3>2, <3>3
  <2>3. CASE top \notin {"directory", "flat"}
    <3>1. Parsing(Pop(p), merge, F, G, dep) BY <2>3, ParsePop
    <3>2. Parseable(Closed(Pop(p)), merge) BY <3>1, ParseClosed, ParseMakes
    <3>3. InContents(p, e) = Closed(Pop(p))
      BY <1>2, <2>3 DEF InContents
    <3> QED BY <3>2, <3>3
  <2> QED BY <2>1, <2>2, <2>3
<1>3. CASE e.ev = "name"
  <2>1. CASE top = "directory"
    <3> DEFINE q == [p EXCEPT !.stack[Len(p.stack)].state.name = e.value]
    <3>1. Parsing(q, merge, F, G, dep) BY <2>1, ParseName
    <3>2. InContents(p, e) = q BY <1>3, <2>1 DEF InContents
    <3> HIDE DEF q
    <3> QED BY <3>1, <3>2, ParseMakes
  <2>2. CASE top # "directory"
    <3>1. InContents(p, e) = p BY <1>3, <2>2 DEF InContents
    <3> QED BY <3>1, ParseMakes
  <2> QED BY <2>1, <2>2
<1>4. CASE e.ev = "file"
  <2>1. e.file \in STRING BY <1>4 DEF Events
  <2>2. Parseable(AppendChildFile(p, e.file, FileLength), merge)
    <3>1. FileLength \in Nat /\ FileLength >= 1 BY DEF FileLength
    <3> DEFINE f == e.file
    <3>2. f \in FileNames BY <2>1 DEF FileNames
    <3> HIDE DEF f
    <3>3. Parseable(AppendChildFile(p, f, FileLength), merge)
      BY <3>1, <3>2, ParseAddsChild, Zenon
    <3> QED BY <3>3 DEF f
  <2>3. InContents(p, e) = AppendChildFile(p, e.file, FileLength)
    BY <1>4 DEF InContents
  <2> QED BY <2>2, <2>3
<1>5. CASE e.ev = "emptyfile"
  <2>1. "empty" \in FileNames BY DEF FileNames
  <2>2. ASSUME NEW n \in Nat, n >= 1
        PROVE  Parseable(AppendChildFile(p, "empty", n), merge)
    BY <2>1, <2>2, ParseAddsChild, Zenon
  <2>3. /\ Parseable(AppendChildFile(p, "empty", EmptyFileLength + 1), merge)
        /\ Parseable(AppendChildFile(p, "empty", EmptyFileLength), merge)
    <3>1. /\ EmptyFileLength + 1 \in Nat /\ EmptyFileLength + 1 >= 1
          /\ EmptyFileLength \in Nat /\ EmptyFileLength >= 1
      BY DEF EmptyFileLength
    <3> QED BY <3>1, <2>2
  <2>4. ~merge => Parseable(AppendRootEmptyFile(p), merge)
    <3> SUFFICES ASSUME ~merge
                 PROVE  Parseable(AppendRootEmptyFile(p), merge)
      OBVIOUS
    <3> DEFINE offset == Len(p.store.file_records)
               written == p.store.file_records_position
               length == EmptyFileLength
    <3>1. offset \in Nat /\ written \in Nat
      BY LenProperties DEF Parsing, StoreForm
    <3>2. length \in Nat /\ length >= 1 BY DEF EmptyFileLength
    <3>3. AppendRootEmptyFile(p)
            = AddFile(p, "empty", length, offset, written)
      BY DEF AppendRootEmptyFile
    <3> HIDE DEF offset, written, length
    <3>4. merge => /\ offset = p.store.file_records_position
                   /\ written = offset + length
      OBVIOUS
    <3>5. Parseable(AddFile(p, "empty", length, offset, written), merge)
      BY <2>1, <3>1, <3>2, <3>4, ParseAddsFile, SMTT(40)
    <3> QED BY <3>3, <3>5
  <2>5. p.merge = merge BY DEF Parsing
  <2>6. \/ AppendEmptyFile(p)
             = AppendChildFile(p, "empty", EmptyFileLength + 1)
        \/ AppendEmptyFile(p) = AppendChildFile(p, "empty", EmptyFileLength)
        \/ ~merge /\ AppendEmptyFile(p) = AppendRootEmptyFile(p)
    BY <2>5 DEF AppendEmptyFile
  <2>7. InContents(p, e) = AppendEmptyFile(p) BY <1>5 DEF InContents
  <2> QED BY <2>3, <2>4, <2>6, <2>7
<1>6. CASE e.ev = "emptydir"
  <2> DEFINE q == OpenDirectory(p)
  <2>1. /\ Parseable(q, merge) /\ Last(q.stack).el = "directory"
        /\ q.status = "reading"
    BY ParseOpens
  <2>2. PICK F2, G2, dep2 : Parsing(q, merge, F2, G2, dep2)
    BY <2>1 DEF Parseable
  <2> HIDE DEF q
  <2>3. Parseable(CloseDirectory(q), merge) BY <2>1, <2>2, ParseCloses
  <2>4. InContents(p, e) = CloseDirectory(q)
    BY <1>6 DEF InContents, q
  <2> QED BY <2>3, <2>4
<1>7. e.ev \in {"open", "close", "name", "file", "emptyfile", "emptydir"}
  BY DEF Events
<1> QED BY <1>1, <1>2, <1>3, <1>4, <1>5, <1>6, <1>7

LEMMA ParseStep ==
  ASSUME NEW p, NEW merge, Parseable(p, merge), NEW e \in Events
  PROVE  Parseable(ParseEvent(p, e), merge)
<1>1. PICK F, G, dep : Parsing(p, merge, F, G, dep) BY DEF Parseable
<1>2. CASE p.status # "reading"
  <2>1. ParseEvent(p, e) = p BY <1>2 DEF ParseEvent
  <2> QED BY <2>1
<1>3. CASE p.status = "reading" /\ e.ev = "unsafe"
  <2>1. ParseEvent(p, e) = Fail(p) BY <1>3 DEF ParseEvent
  <2> QED BY <2>1, <1>1, ParseFail, ParseMakes
<1>4. CASE p.status = "reading" /\ e.ev # "unsafe"
  <2> DEFINE top == Last(p.stack).el
  <2>1. CASE top = "top"
    <3>1. ParseEvent(p, e) = AtRoot(p, e) BY <1>4, <2>1 DEF ParseEvent
    <3> QED BY <3>1, <2>1, <1>1, <1>4, ParseRoot
  <2>2. CASE top = "skip"
    <3>1. ParseEvent(p, e) = InSkipped(p, e) BY <1>4, <2>2 DEF ParseEvent
    <3> QED BY <3>1, <2>2, <1>1, <1>4, ParseSkip
  <2>3. CASE top = "scan"
    <3>1. ParseEvent(p, e) = InScan(p, e) BY <1>4, <2>3 DEF ParseEvent
    <3> QED BY <3>1, <2>3, <1>1, <1>4, ParseScan
  <2>4. CASE top \notin {"top", "skip", "scan"}
    <3>1. ParseEvent(p, e) = InContents(p, e) BY <1>4, <2>4 DEF ParseEvent
    <3>2. Parseable(InContents(p, e), merge) BY <2>4, <1>1, <1>4, ParseContents
    <3> QED BY <3>1, <3>2
  <2> QED BY <2>1, <2>2, <2>3, <2>4
<1> QED BY <1>2, <1>3, <1>4

LEMMA ParseStart ==
  ASSUME NEW merge \in BOOLEAN, NEW barcode \in Barcodes
  PROVE  Parseable(StartParse(merge, barcode), merge)
<1> DEFINE p == StartParse(merge, barcode)  s == EmptyStore
           F == [x \in {-1} |-> <<>>]  dep == [x \in {-1} |-> 0]
           stack == <<Frame("top", NewState)>>
<1>1. /\ IsParser(p) /\ p.merge = merge /\ p.barcode = barcode
      /\ p.store = s /\ p.stack = stack /\ p.status = "reading"
  BY DEF StartParse, IsParser
<1>2. /\ s.file_records = <<>> /\ s.directories = <<>>
      /\ s.file_index = <<>> /\ s.directory_index = <<>>
      /\ s.file_records_position = 0 /\ s.selection_count = 0
      /\ s.next_file_uid = 1 /\ IsStore(s)
  BY DEF EmptyStore, IsStore
<1>3. StoreForm(s) /\ StoreOK(s)
  <2>1. Sequential(<<>>)
    <3>1. <<>> \in Seq({}) OBVIOUS
    <3> QED BY <3>1 DEF Sequential
  <2>2. Len(<<>>) = 0 /\ \A S : <<>> \in Seq(S) OBVIOUS
  <2> HIDE DEF s
  <2> QED BY <1>2, <2>1, <2>2 DEF StoreOK, StoreForm
<1>4. /\ DOMAIN F = {-1} /\ F[-1] = <<>> /\ Len(<<>>) = 0
      /\ \A d \in DOMAIN F : d = -1 /\ F[d] = <<>> /\ Len(F[d]) = 0
  OBVIOUS
<1>5. ChainOf(<<>>) = NewChain
  BY DEF ChainOf, FirstOf, LastOf, NewChain
<1>6. /\ Len(stack) = 1 /\ stack[1] = Frame("top", NewState)
      /\ Sequential(stack)
  <2>1. stack \in Seq({Frame("top", NewState)}) OBVIOUS
  <2> QED BY <2>1 DEF Sequential
<1>7. /\ IsState(NewState) /\ NewState.selection \in Int
      /\ NewState.file_uid = 0 /\ NewState.offset = -1
      /\ NewState.files = NewChain /\ NewState.directories = NewChain
  BY DEF NewState, IsState
<1> HIDE DEF F, stack, s, p
<1>8. StateOK(NewState, F, F) BY <1>4, <1>5, <1>7 DEF StateOK
<1>9. /\ IsFrame(stack[1]) /\ stack[1].el = "top"
      /\ stack[1].state = NewState
  BY <1>6 DEF IsFrame, Frame
<1>10. \A k \in 1..Len(stack) : k = 1 BY <1>6
<1>11. StackOK(stack, F, F, dep)
  <2>1. \A j \in 1..(1 - 1) : FALSE OBVIOUS
  <2>2. OffsetAt(stack, 1) = -1 BY <1>7, <1>9 DEF OffsetAt
  <2>3. Len(stack) >= 1 BY <1>6
  <2> QED BY <1>6, <1>8, <1>9, <1>10, <2>1, <2>2, <2>3 DEF StackOK
<1>12. OpenOf(stack) = {} BY <1>9, <1>10 DEF OpenOf
<1>13. Forest(s, F, F, dep, {}, {})
  <2>1. Path(s.file_index, F[-1]) /\ Path(s.directory_index, F[-1])
    BY <1>2, <1>4 DEF Path
  <2>2. Lists(s.file_index, F) /\ Lists(s.directory_index, F)
    BY <2>1, <1>4 DEF Lists
  <2>3. Owners(s, F, F, {}) BY <1>4 DEF Owners
  <2>4. Covered(s.file_index, F)
    <3>1. \A x \in 0..(0 - 1) : FALSE OBVIOUS
    <3>2. Len(s.file_index) = 0 BY <1>2
    <3> QED BY <3>1, <3>2 DEF Covered
  <2>5. Deep(F, dep) BY <1>4 DEF Deep
  <2>6. Hung(s, F, dep, {}) /\ Once(s, F) BY <1>4 DEF Hung, Once
  <2>7. Reached(s, F, {}) /\ Heads(s, F, F, {}, {})
    BY <1>4 DEF Reached, Heads
  <2> QED BY <2>2, <2>3, <2>4, <2>5, <2>6, <2>7 DEF Forest
<1>14. DOMAIN F = {-1} \cup 0..(Len(s.directories) - 1)
  <2>1. Len(s.directories) = 0 BY <1>2
  <2>2. 0..(0 - 1) = {} OBVIOUS
  <2> QED BY <2>1, <2>2, <1>4
<1>15. Closedown(s) BY <1>2 DEF Closedown
<1>16. Parsing(p, merge, F, F, dep)
  BY <1>1, <1>3, <1>11, <1>12, <1>13, <1>14, <1>15 DEF Parsing
<1> QED BY <1>16 DEF Parseable, p

IsParse(merge, barcode, document, f) ==
  f = [k \in 0..Len(document) |->
         IF k = 0 THEN StartParse(merge, barcode)
         ELSE ParseEvent(f[k - 1], document[k])]

LEMMA ParseExists ==
  ASSUME NEW merge, NEW barcode, NEW document, Len(document) \in Nat
  PROVE  \E f : IsParse(merge, barcode, document, f)
<1> DEFINE n == Len(document)  start == StartParse(merge, barcode)
           Rec(m, f) == f = [k \in 0..m |->
                               IF k = 0 THEN start
                               ELSE ParseEvent(f[k - 1], document[k])]
           T == {m \in 0..n : ~ \E f : Rec(m, f)}
<1>0. n \in Nat OBVIOUS
<1> HIDE DEF n
<1>1. T = {}
  <2> SUFFICES ASSUME T # {} PROVE FALSE OBVIOUS
  <2> HIDE DEF start
  <2>1. PICK m \in T : \A j \in T : m <= j
    <3>1. T \subseteq Nat OBVIOUS
    <3> HIDE DEF T
    <3> QED BY <3>1, LeastNat
  <2>2. m # 0
    <3> SUFFICES ASSUME m = 0 PROVE FALSE OBVIOUS
    <3>1. Rec(0, [k \in 0..0 |-> start]) OBVIOUS
    <3> HIDE DEF Rec
    <3> QED BY <3>1, <2>1
  <2>3. m \in 1..n /\ m - 1 \in 0..n /\ m - 1 \notin T
    BY <1>0, <2>1, <2>2
  <2>4. PICK f : Rec(m - 1, f) BY <2>3
  <2> DEFINE g == [k \in 0..m |-> IF k = 0 THEN start
                                  ELSE ParseEvent(f[k - 1], document[k])]
  <2>5. ASSUME NEW k \in 1..m PROVE g[k - 1] = f[k - 1]
    <3>1. k - 1 \in 0..m /\ k - 1 \in 0..(m - 1) BY <2>3
    <3> QED BY <3>1, <2>4
  <2>6. ASSUME NEW k \in 0..m
        PROVE  g[k] = IF k = 0 THEN start
                      ELSE ParseEvent(g[k - 1], document[k])
    <3>1. CASE k = 0 BY <3>1
    <3>2. CASE k # 0
      <4>1. k \in 1..m BY <3>2, <2>3
      <4>2. g[k] = ParseEvent(f[k - 1], document[k]) BY <3>2
      <4> HIDE DEF g
      <4> QED BY <4>1, <4>2, <3>2, <2>5
    <3> QED BY <3>1, <3>2
  <2>7. g = [k \in 0..m |-> g[k]] OBVIOUS
  <2>8. Rec(m, g)
    <3> HIDE DEF g
    <3> QED BY <2>6, <2>7
  <2> HIDE DEF Rec, g
  <2> QED BY <2>8, <2>1
<1>2. PICK f : Rec(n, f)
  <2> HIDE DEF Rec
  <2> QED BY <1>0, <1>1
<1>3. Rec(n, f) <=> IsParse(merge, barcode, document, f) BY DEF IsParse, n
<1> QED BY <1>2, <1>3

LEMMA ParseSteps ==
  ASSUME NEW merge, NEW barcode, NEW document, Len(document) \in Nat
  PROVE  \E f : /\ IsParse(merge, barcode, document, f)
                /\ Parse(merge, barcode, document) = f[Len(document)]
<1> DEFINE f == CHOOSE g : IsParse(merge, barcode, document, g)
<1>1. IsParse(merge, barcode, document, f) BY ParseExists
<1>2. Parse(merge, barcode, document) = f[Len(document)]
  BY DEF Parse, IsParse
<1> HIDE DEF f
<1> QED BY <1>1, <1>2

(* Parsing any document for a merge, whole, cut off or malformed, builds a *)
(* store in which every file hangs in exactly one chain, headers state the *)
(* chains of the directories closed and every record reads back whole.     *)
THEOREM SourceParses ==
  ASSUME NEW merge \in BOOLEAN, NEW barcode \in Barcodes,
         NEW document \in Seq(Events)
  PROVE  Parseable(Parse(merge, barcode, document), merge)
<1> DEFINE n == Len(document)
<1>1. n \in Nat /\ \A k \in 1..n : document[k] \in Events
  BY LenProperties, ElementOfSeq
<1>2. PICK f : /\ IsParse(merge, barcode, document, f)
               /\ Parse(merge, barcode, document) = f[n]
  BY <1>1, ParseSteps
<1>3. ASSUME NEW k \in 0..n
      PROVE  f[k] = IF k = 0 THEN StartParse(merge, barcode)
                    ELSE ParseEvent(f[k - 1], document[k])
  BY <1>2, Zenon DEF IsParse
<1> DEFINE T == {k \in 0..n : ~Parseable(f[k], merge)}
<1>4. T = {}
  <2> SUFFICES ASSUME T # {} PROVE FALSE OBVIOUS
  <2> HIDE DEF n
  <2>1. PICK m \in T : \A j \in T : m <= j
    <3>1. T \subseteq Nat OBVIOUS
    <3> HIDE DEF T
    <3> QED BY <3>1, LeastNat
  <2>2. CASE m = 0
    <3>1. f[m] = StartParse(merge, barcode) BY <1>3, <2>2 DEF n
    <3> QED BY <3>1, <2>1, <2>2, ParseStart
  <2>3. CASE m # 0
    <3>1. m - 1 \in 0..n /\ m - 1 \notin T /\ m \in 1..n /\ m \in 0..n
      BY <1>1, <2>1, <2>3
    <3>2. Parseable(f[m - 1], merge) BY <3>1
    <3>3. f[m] = ParseEvent(f[m - 1], document[m])
      BY <1>3, <2>3, <3>1 DEF n
    <3>4. document[m] \in Events BY <1>1, <3>1
    <3>5. Parseable(ParseEvent(f[m - 1], document[m]), merge)
      BY <3>2, <3>4, ParseStep
    <3>6. ~Parseable(f[m], merge) OBVIOUS
    <3> QED BY <3>3, <3>5, <3>6
  <2> QED BY <2>2, <2>3
<1>5. Parseable(f[n], merge)
  <2>1. n \in 0..n BY <1>1
  <2> QED BY <2>1, <1>4
<1> QED BY <1>2, <1>5

(***************************************************************************)
(* A store appended to another: two forests under one root.                *)
(***************************************************************************)
Over(d, base) == IF d = -1 THEN -1 ELSE d + base

Joint(F, H, base, n) ==
  [x \in DOMAIN F \cup {Over(d, base) : d \in DOMAIN H} |->
     IF x = -1 THEN F[-1] \o Up(H[-1], n)
     ELSE IF x \in DOMAIN F THEN F[x] ELSE Up(H[x - base], n)]

PlaceOf(F, e, j) == IF e = -1 THEN Len(F[-1]) + j ELSE j

IsJoint(F, H, base, n, J) ==
  /\ DOMAIN J = DOMAIN F \cup {Over(d, base) : d \in DOMAIN H}
  /\ J[-1] = F[-1] \o Up(H[-1], n)
  /\ \A x \in DOMAIN F \ {-1} : J[x] = F[x]
  /\ \A d \in DOMAIN H \ {-1} : J[d + base] = Up(H[d], n)

(* Where each place comes from, and where it goes.                         *)
HasPlaces(F, H, base, n, J) ==
  /\ \A x \in DOMAIN J : \A k \in 1..Len(J[x]) :
       \/ x \in DOMAIN F /\ k \in 1..Len(F[x]) /\ J[x][k] = F[x][k]
       \/ \E e \in DOMAIN H : \E j \in 1..Len(H[e]) :
            /\ x = Over(e, base) /\ k = PlaceOf(F, e, j)
            /\ J[x][k] = H[e][j] + n
  /\ \A x \in DOMAIN F : \A k \in 1..Len(F[x]) :
       k \in 1..Len(J[x]) /\ J[x][k] = F[x][k]
  /\ \A e \in DOMAIN H : \A j \in 1..Len(H[e]) :
       /\ PlaceOf(F, e, j) \in 1..Len(J[Over(e, base)])
       /\ J[Over(e, base)][PlaceOf(F, e, j)] = H[e][j] + n

TwoOwners(F, H, base) ==
  /\ base \in Nat
  /\ -1 \in DOMAIN F /\ DOMAIN F \subseteq {-1} \cup 0..(base - 1)
  /\ -1 \in DOMAIN H /\ DOMAIN H \subseteq {-1} \cup Nat
  /\ \A x \in DOMAIN F : F[x] \in Seq(Nat)
  /\ \A d \in DOMAIN H : H[d] \in Seq(Nat)

LEMMA JointIs ==
  ASSUME NEW F, NEW H, NEW base, NEW n \in Nat, TwoOwners(F, H, base)
  PROVE  IsJoint(F, H, base, n, Joint(F, H, base, n))
<1> DEFINE J == Joint(F, H, base, n)
           D == DOMAIN F \cup {Over(d, base) : d \in DOMAIN H}
<1>1. /\ base \in Nat
      /\ -1 \in DOMAIN F /\ DOMAIN F \subseteq {-1} \cup 0..(base - 1)
      /\ -1 \in DOMAIN H /\ DOMAIN H \subseteq {-1} \cup Nat
  BY DEF TwoOwners
<1>2. DOMAIN J = D BY DEF Joint
<1>3. ASSUME NEW x \in D
      PROVE  J[x] = IF x = -1 THEN F[-1] \o Up(H[-1], n)
                    ELSE IF x \in DOMAIN F THEN F[x] ELSE Up(H[x - base], n)
  BY DEF Joint
<1>4. J[-1] = F[-1] \o Up(H[-1], n) BY <1>1, <1>3
<1>5. \A x \in DOMAIN F \ {-1} : J[x] = F[x] BY <1>3
<1>6. ASSUME NEW d \in DOMAIN H \ {-1}
      PROVE  J[d + base] = Up(H[d], n)
  <2>1. d \in Nat BY <1>1
  <2>2. d + base = Over(d, base) BY DEF Over
  <2>3. d + base \in D BY <2>2
  <2>4. d + base # -1 /\ d + base \notin DOMAIN F /\ (d + base) - base = d
    BY <2>1, <1>1
  <2> HIDE DEF J, D
  <2> QED BY <2>3, <2>4, <1>3
<1> QED BY <1>2, <1>4, <1>5, <1>6 DEF IsJoint, J, D

LEMMA JointPlaces ==
  ASSUME NEW F, NEW H, NEW base, NEW n \in Nat, TwoOwners(F, H, base),
         NEW J, IsJoint(F, H, base, n, J)
  PROVE  HasPlaces(F, H, base, n, J)
<1>1. /\ base \in Nat
      /\ -1 \in DOMAIN F /\ DOMAIN F \subseteq {-1} \cup 0..(base - 1)
      /\ -1 \in DOMAIN H /\ DOMAIN H \subseteq {-1} \cup Nat
      /\ \A x \in DOMAIN F : F[x] \in Seq(Nat)
      /\ \A d \in DOMAIN H : H[d] \in Seq(Nat)
  BY DEF TwoOwners
<1>2. /\ DOMAIN J = DOMAIN F \cup {Over(d, base) : d \in DOMAIN H}
      /\ J[-1] = F[-1] \o Up(H[-1], n)
      /\ \A x \in DOMAIN F \ {-1} : J[x] = F[x]
      /\ \A d \in DOMAIN H \ {-1} : J[d + base] = Up(H[d], n)
  BY DEF IsJoint
<1>3. ASSUME NEW d \in DOMAIN H
      PROVE  /\ Up(H[d], n) \in Seq(Nat) /\ Len(Up(H[d], n)) = Len(H[d])
             /\ Len(H[d]) \in Nat
             /\ \A k \in 1..Len(H[d]) : Up(H[d], n)[k] = H[d][k] + n
  <2>1. H[d] \in Seq(Nat) BY <1>1
  <2> QED BY <2>1, UpSeq, LenProperties
<1>4. ASSUME NEW x \in DOMAIN F PROVE Len(F[x]) \in Nat
  BY <1>1, LenProperties
<1>5. /\ Len(J[-1]) = Len(F[-1]) + Len(H[-1])
      /\ \A k \in 1..Len(F[-1]) : J[-1][k] = F[-1][k]
      /\ \A k \in 1..Len(H[-1]) : J[-1][Len(F[-1]) + k] = H[-1][k] + n
  <2> DEFINE a == F[-1]  b == Up(H[-1], n)
  <2>1. a \in Seq(Nat) /\ b \in Seq(Nat) BY <1>1, <1>3
  <2>2. Len(b) = Len(H[-1]) /\ J[-1] = a \o b
        /\ \A k \in 1..Len(H[-1]) : b[k] = H[-1][k] + n
    BY <1>1, <1>2, <1>3
  <2> HIDE DEF a, b
  <2>3. IsConcat(Nat, a, b, a \o b) BY <2>1, ConcatFacts
  <2>4. /\ Len(J[-1]) = Len(a) + Len(b)
        /\ \A k \in 1..(Len(a) + Len(b)) :
             J[-1][k] = IF k <= Len(a) THEN a[k] ELSE b[k - Len(a)]
    BY <2>2, <2>3 DEF IsConcat
  <2>5. Len(a) \in Nat /\ Len(b) \in Nat BY <2>1, LenProperties
  <2>6. \A k \in 1..Len(a) : J[-1][k] = a[k] BY <2>4, <2>5
  <2>7. ASSUME NEW k \in 1..Len(b) PROVE J[-1][Len(a) + k] = b[k]
    <3>1. Len(a) + k \in 1..(Len(a) + Len(b)) /\ ~(Len(a) + k <= Len(a))
          /\ (Len(a) + k) - Len(a) = k
      BY <2>5
    <3> QED BY <3>1, <2>4
  <2> QED BY <2>2, <2>4, <2>6, <2>7 DEF a
<1>6. Over(-1, base) = -1 /\ \A d \in DOMAIN H \ {-1} : Over(d, base) = d + base
  BY DEF Over
<1>7. ASSUME NEW x \in DOMAIN J, NEW k \in 1..Len(J[x])
      PROVE  \/ x \in DOMAIN F /\ k \in 1..Len(F[x]) /\ J[x][k] = F[x][k]
             \/ \E e \in DOMAIN H : \E j \in 1..Len(H[e]) :
                  /\ x = Over(e, base) /\ k = PlaceOf(F, e, j)
                  /\ J[x][k] = H[e][j] + n
  <2>1. CASE x = -1
    <3>1. CASE k <= Len(F[-1]) BY <3>1, <2>1, <1>1, <1>4, <1>5
    <3>2. CASE ~(k <= Len(F[-1]))
      <4> DEFINE j == k - Len(F[-1])
      <4>1. j \in 1..Len(H[-1]) /\ k = Len(F[-1]) + j
        BY <3>2, <2>1, <1>1, <1>3, <1>4, <1>5
      <4>2. PlaceOf(F, -1, j) = k BY <4>1 DEF PlaceOf
      <4> HIDE DEF j
      <4> QED BY <4>1, <4>2, <2>1, <1>1, <1>5, <1>6
    <3> QED BY <3>1, <3>2
  <2>2. CASE x # -1 /\ x \in DOMAIN F BY <2>2, <1>2
  <2>3. CASE x # -1 /\ x \notin DOMAIN F
    <3>1. PICK e \in DOMAIN H : x = Over(e, base) BY <2>3, <1>2
    <3>2. e # -1 BY <3>1, <2>3, <1>6
    <3>3. J[x] = Up(H[e], n) BY <3>1, <3>2, <1>2, <1>6
    <3>4. k \in 1..Len(H[e]) /\ J[x][k] = H[e][k] + n BY <3>3, <1>3
    <3>5. PlaceOf(F, e, k) = k BY <3>2 DEF PlaceOf
    <3> QED BY <3>1, <3>4, <3>5
  <2> QED BY <2>1, <2>2, <2>3
<1>8. ASSUME NEW x \in DOMAIN F, NEW k \in 1..Len(F[x])
      PROVE  k \in 1..Len(J[x]) /\ J[x][k] = F[x][k]
  <2>1. CASE x = -1 BY <2>1, <1>1, <1>3, <1>4, <1>5
  <2>2. CASE x # -1 BY <2>2, <1>2
  <2> QED BY <2>1, <2>2
<1>9. ASSUME NEW e \in DOMAIN H, NEW j \in 1..Len(H[e])
      PROVE  /\ PlaceOf(F, e, j) \in 1..Len(J[Over(e, base)])
             /\ J[Over(e, base)][PlaceOf(F, e, j)] = H[e][j] + n
  <2>1. CASE e = -1
    <3>1. PlaceOf(F, e, j) = Len(F[-1]) + j BY <2>1 DEF PlaceOf
    <3>2. Len(F[-1]) + j \in 1..Len(J[-1])
          /\ J[-1][Len(F[-1]) + j] = H[-1][j] + n
      <4>1. Len(F[-1]) \in Nat /\ Len(H[-1]) \in Nat /\ j \in 1..Len(H[-1])
        BY <2>1, <1>1, <1>3, <1>4
      <4>2. Len(F[-1]) + j \in 1..(Len(F[-1]) + Len(H[-1]))
        <5> DEFINE a == Len(F[-1])  b == Len(H[-1])
        <5>1. a \in Nat /\ b \in Nat /\ j \in 1..b BY <4>1
        <5> HIDE DEF a, b
        <5>2. a + j \in 1..(a + b) BY <5>1
        <5> QED BY <5>2 DEF a, b
      <4> QED BY <4>1, <4>2, <1>5
    <3> QED BY <3>1, <3>2, <2>1, <1>6
  <2>2. CASE e # -1
    <3>1. PlaceOf(F, e, j) = j /\ Over(e, base) = e + base
      BY <2>2, <1>6 DEF PlaceOf
    <3> QED BY <3>1, <2>2, <1>2, <1>3
  <2> QED BY <2>1, <2>2
<1> QED BY <1>7, <1>8, <1>9 DEF HasPlaces

(* One list after another, the links of the second rebased, then the roots *)
(* joined.                                                                 *)
LEMMA JointLists ==
  ASSUME NEW E, LinkSet(E),
         NEW list \in Seq(E), NEW F, Lists(list, F),
         NEW more, Linkable(more), NEW H, Lists(more, H),
         NEW base, TwoOwners(F, H, base),
         NEW long \in Seq(E), Len(long) = Len(list) + Len(more),
         \A k \in 1..Len(list) : long[k].next = list[k].next,
         \A k \in 1..Len(more) :
           long[Len(list) + k].next = Rebase(more[k].next, Len(list)),
         NEW new,
         new = JoinIndex(long, ChainOf(F[-1]),
                         RebaseChain(ChainOf(H[-1]), Len(list)))
  PROVE  /\ new \in Seq(E)
         /\ Relinked(long, new)
         /\ Lists(new, Joint(F, H, base, Len(list)))
<1> DEFINE n == Len(list)  B == Both(F, H, base, n)
           J == Joint(F, H, base, n)
<1>1. /\ base \in Nat
      /\ -1 \in DOMAIN F /\ DOMAIN F \subseteq {-1} \cup 0..(base - 1)
      /\ -1 \in DOMAIN H /\ DOMAIN H \subseteq {-1} \cup Nat
      /\ \A x \in DOMAIN F : F[x] \in Seq(Nat)
      /\ \A d \in DOMAIN H : H[d] \in Seq(Nat)
  BY DEF TwoOwners
<1>2. Linkable(list) /\ Linkable(long) /\ n \in Nat
  BY LinkableSeq, LenProperties
<1>10. -2 \notin DOMAIN F
  <2>1. DOMAIN F \subseteq {-1} \cup 0..(base - 1) /\ base \in Nat BY <1>1
  <2>2. -2 \notin {-1} \cup 0..(base - 1) BY <2>1
  <2> QED BY <2>1, <2>2, Zenon
<1>11. \A d \in DOMAIN H \ {-1} :
         d \in Nat /\ d + base \notin DOMAIN F
  <2> SUFFICES ASSUME NEW d \in DOMAIN H \ {-1}
               PROVE  d \in Nat /\ d + base \notin DOMAIN F
    OBVIOUS
  <2>1. d \in Nat BY <1>1
  <2>2. DOMAIN F \subseteq {-1} \cup 0..(base - 1) /\ base \in Nat BY <1>1
  <2>3. d + base \notin {-1} \cup 0..(base - 1) BY <2>1, <2>2
  <2> QED BY <2>1, <2>2, <2>3, Zenon
<1>3. Lists(long, B) BY <1>1, <1>2, BothLists
<1>4. /\ DOMAIN B = DOMAIN F \cup {Shifted(d, base) : d \in DOMAIN H}
      /\ \A x \in DOMAIN F : B[x] = F[x]
      /\ B[-2] = Up(H[-1], n)
      /\ \A d \in DOMAIN H \ {-1} : B[d + base] = Up(H[d], n)
  <2>1. DOMAIN B = DOMAIN F \cup {Shifted(d, base) : d \in DOMAIN H}
    BY DEF Both
  <2>2. \A x \in DOMAIN B : B[x] = IF x \in DOMAIN F THEN F[x]
                                   ELSE Up(H[Unshifted(x, base)], n)
    BY DEF Both
  <2> HIDE DEF B
  <2>3. -2 \in DOMAIN B /\ -2 \notin DOMAIN F /\ Unshifted(-2, base) = -1
    BY <2>1, <1>1, <1>10 DEF Shifted, Unshifted
  <2>4. ASSUME NEW d \in DOMAIN H \ {-1}
        PROVE  B[d + base] = Up(H[d], n)
    <3>1. d \in Nat /\ Shifted(d, base) = d + base BY <1>1 DEF Shifted
    <3>2. d + base \in DOMAIN B BY <3>1, <2>1
    <3>3. d + base \notin DOMAIN F BY <1>11
    <3>4. Unshifted(d + base, base) = d
      <4>1. base \in Nat /\ d \in Nat BY <3>1, <1>1
      <4>2. d + base # -2 /\ (d + base) - base = d BY <4>1
      <4> QED BY <4>2 DEF Unshifted
    <3> QED BY <3>2, <3>3, <3>4, <2>2
  <2> QED BY <2>1, <2>2, <2>3, <2>4
<1>5. -1 \in DOMAIN B /\ -2 \in DOMAIN B BY <1>1, <1>4 DEF Shifted
<1>6. ChainOf(B[-2]) = RebaseChain(ChainOf(H[-1]), n)
  BY <1>1, <1>2, <1>4, UpSeq
<1>7. new = JoinIndex(long, ChainOf(B[-1]), ChainOf(B[-2]))
  BY <1>1, <1>4, <1>6
<1> HIDE DEF B, n
<1>8. IsJoined(E, long, B, -1, -2, new)
  BY <1>3, <1>5, <1>7, JoinLists
<1>9. Joined(B, -1, -2) = J
  <2>1. IsJoint(F, H, base, n, J)
    <3> HIDE DEF J
    <3> QED BY <1>2, JointIs DEF J
  <2>2. DOMAIN J = DOMAIN F \cup {Over(d, base) : d \in DOMAIN H}
        /\ J[-1] = F[-1] \o Up(H[-1], n)
        /\ (\A x \in DOMAIN F \ {-1} : J[x] = F[x])
        /\ \A d \in DOMAIN H \ {-1} : J[d + base] = Up(H[d], n)
    BY <2>1 DEF IsJoint
  <2>3. DOMAIN B \ {-2} = DOMAIN J
    <3>1. \A d \in DOMAIN H : d # -1 => Shifted(d, base) = Over(d, base)
                                        /\ Shifted(d, base) # -2
      BY <1>1 DEF Shifted, Over
    <3>2. Shifted(-1, base) = -2 /\ Over(-1, base) = -1
      BY DEF Shifted, Over
    <3>3. -2 \notin DOMAIN F BY <1>10
    <3>4. \A x \in DOMAIN J : x \in DOMAIN B \ {-2}
      <4> SUFFICES ASSUME NEW x \in DOMAIN J PROVE x \in DOMAIN B \ {-2}
        OBVIOUS
      <4> HIDE DEF J
      <4>1. CASE x \in DOMAIN F BY <4>1, <3>3, <1>4
      <4>2. CASE x \notin DOMAIN F
        <5>1. PICK d \in DOMAIN H : x = Over(d, base) BY <4>2, <2>2
        <5>2. d # -1 BY <5>1, <4>2, <3>2, <1>1
        <5> QED BY <5>1, <5>2, <3>1, <1>4
      <4> QED BY <4>1, <4>2
    <3>5. \A x \in DOMAIN B \ {-2} : x \in DOMAIN J
      <4> SUFFICES ASSUME NEW x \in DOMAIN B \ {-2} PROVE x \in DOMAIN J
        OBVIOUS
      <4> HIDE DEF J
      <4>1. CASE x \in DOMAIN F BY <4>1, <2>2
      <4>2. CASE x \notin DOMAIN F
        <5>1. PICK d \in DOMAIN H : x = Shifted(d, base) BY <4>2, <1>4
        <5>2. d # -1 BY <5>1, <3>2
        <5> QED BY <5>1, <5>2, <3>1, <2>2
      <4> QED BY <4>1, <4>2
    <3> HIDE DEF J
    <3> QED BY <3>4, <3>5
  <2>4. ASSUME NEW x \in DOMAIN J
        PROVE  J[x] = IF x = -1 THEN B[-1] \o B[-2] ELSE B[x]
    <3> HIDE DEF J
    <3>1. CASE x = -1 BY <3>1, <2>2, <1>1, <1>4
    <3>2. CASE x # -1 /\ x \in DOMAIN F BY <3>2, <2>2, <1>4
    <3>3. CASE x # -1 /\ x \notin DOMAIN F
      <4>1. PICK d \in DOMAIN H : x = Over(d, base) BY <3>3, <2>2
      <4>2. d # -1 /\ x = d + base BY <4>1, <3>3 DEF Over
      <4> QED BY <4>2, <3>3, <2>2, <1>4
    <3> QED BY <3>1, <3>2, <3>3
  <2>5. J = [x \in DOMAIN J |-> J[x]] BY DEF Joint
  <2> HIDE DEF J
  <2>6. J = [x \in DOMAIN J |-> IF x = -1 THEN B[-1] \o B[-2] ELSE B[x]]
    BY <2>4, <2>5
  <2> QED BY <2>3, <2>6 DEF Joined
<1> QED BY <1>8, <1>9 DEF IsJoined, n

JointDepth(dep, deq, base) ==
  [x \in DOMAIN dep \cup {Over(d, base) : d \in DOMAIN deq} |->
     IF x \in DOMAIN dep THEN dep[x] ELSE deq[x - base]]

(* t holds what s and q hold, q's offsets rebased and its root's children  *)
(* hung below the root of s.                                               *)
IsBeside(s, q, t, F, G, H, K) ==
  /\ Len(t.file_index) = Len(s.file_index) + Len(q.file_index)
  /\ Len(t.directory_index) = Len(s.directory_index) + Len(q.directory_index)
  /\ Lists(t.file_index,
           Joint(F, H, Len(s.directories), Len(s.file_index)))
  /\ Lists(t.directory_index,
           Joint(G, K, Len(s.directories), Len(s.directory_index)))
  /\ Len(t.directories) = Len(s.directories) + Len(q.directories)
  /\ \A k \in 1..Len(s.directories) : t.directories[k] = s.directories[k]
  /\ \A d \in DOMAIN H \ {-1} :
       t.directories[Len(s.directories) + d + 1] =
         RebaseHeader(q.directories[d + 1], Len(s.file_index),
                      Len(s.directory_index))
  /\ \A k \in 1..Len(s.directory_index) :
       t.directory_index[k].record_offset = s.directory_index[k].record_offset
  /\ \A k \in 1..Len(q.directory_index) :
       t.directory_index[Len(s.directory_index) + k].record_offset
         = q.directory_index[k].record_offset + Len(s.directories)

LEMMA ForestOwners ==
  ASSUME NEW s, StoreOK(s), NEW F, NEW G, NEW dep, NEW open, NEW stale,
         Forest(s, F, G, dep, open, stale)
  PROVE  /\ -1 \in DOMAIN F /\ DOMAIN G = DOMAIN F
         /\ DOMAIN F \subseteq {-1} \cup 0..(Len(s.directories) - 1)
         /\ \A x \in DOMAIN F \ {-1} : x \in 0..(Len(s.directories) - 1)
         /\ DOMAIN dep = DOMAIN F /\ dep[-1] = 0
         /\ \A x \in DOMAIN F : dep[x] \in Nat /\ dep[x] <= x + 1
         /\ \A x \in DOMAIN F : F[x] \in Seq(Nat) /\ G[x] \in Seq(Nat)
         /\ \A x \in DOMAIN F : Len(F[x]) \in Nat /\ Len(G[x]) \in Nat
         /\ \A x \in DOMAIN F : \A k \in 1..Len(F[x]) :
              F[x][k] \in Nat /\ F[x][k] < Len(s.file_index)
         /\ \A x \in DOMAIN F : \A k \in 1..Len(G[x]) :
              G[x][k] \in Nat /\ G[x][k] < Len(s.directory_index)
<1>1. Owners(s, F, G, open) /\ Lists(s.file_index, F)
      /\ Lists(s.directory_index, G) /\ Deep(F, dep)
  BY Zenon DEF Forest
<1>2. /\ -1 \in DOMAIN F /\ DOMAIN G = DOMAIN F
      /\ DOMAIN F \subseteq {-1} \cup 0..(Len(s.directories) - 1)
  BY <1>1 DEF Owners
<1>3. \A x \in DOMAIN F \ {-1} : x \in 0..(Len(s.directories) - 1)
  BY <1>2, Zenon
<1>4. /\ dep \in [DOMAIN F -> Nat] /\ dep[-1] = 0
      /\ \A d \in DOMAIN F : dep[d] <= d + 1
  BY <1>1 DEF Deep
<1>5. Linkable(s.file_index) /\ Linkable(s.directory_index) BY StoreLinks
<1>6. ASSUME NEW x \in DOMAIN F
      PROVE  /\ F[x] \in Seq(Nat) /\ G[x] \in Seq(Nat)
             /\ Len(F[x]) \in Nat /\ Len(G[x]) \in Nat
             /\ \A k \in 1..Len(F[x]) :
                  F[x][k] \in Nat /\ F[x][k] < Len(s.file_index)
             /\ \A k \in 1..Len(G[x]) :
                  G[x][k] \in Nat /\ G[x][k] < Len(s.directory_index)
  <2>1. /\ F[x] \in Seq(Nat) /\ Len(F[x]) \in Nat
        /\ \A k \in 1..Len(F[x]) :
             F[x][k] \in Nat /\ F[x][k] < Len(s.file_index)
    BY <1>1, <1>5, ListEntry
  <2>2. x \in DOMAIN G BY <1>2
  <2>3. /\ G[x] \in Seq(Nat) /\ Len(G[x]) \in Nat
        /\ \A k \in 1..Len(G[x]) :
             G[x][k] \in Nat /\ G[x][k] < Len(s.directory_index)
    BY <1>1, <1>5, <2>2, ListEntry
  <2> QED BY <2>1, <2>3
<1> QED BY <1>2, <1>3, <1>4, <1>6

LEMMA RebasedHead ==
  ASSUME NEW h, NEW f \in Seq(Nat), NEW g \in Seq(Nat), HeadOf(h, f, g),
         NEW n \in Nat, NEW m \in Nat
  PROVE  /\ HeadOf(RebaseHeader(h, n, m), Up(f, n), Up(g, m))
         /\ RebaseHeader(h, n, m).directory_count = h.directory_count
         /\ RebaseHeader(h, n, m).file_uid = h.file_uid
<1> DEFINE a == Rebase(h.file_index_offset, n)
           b == Rebase(h.directory_index_offset, m)
           r == RebaseHeader(h, n, m)
<1>1. /\ IsHeader(h) /\ h.finished /\ h.file_index_offset = FirstOf(f)
      /\ h.file_count = Len(f) /\ h.directory_index_offset = FirstOf(g)
  BY DEF HeadOf
<1>2. r = [h EXCEPT !.file_index_offset = a, !.directory_index_offset = b]
  BY DEF RebaseHeader
<1>3. ASSUME NEW u \in Seq(Nat), NEW v \in Nat
      PROVE  Rebase(FirstOf(u), v) = FirstOf(Up(u, v))
             /\ Len(Up(u, v)) = Len(u)
  <2>1. /\ Up(u, v) \in Seq(Nat) /\ Len(Up(u, v)) = Len(u)
        /\ \A k \in 1..Len(u) : Up(u, v)[k] = u[k] + v
    BY UpSeq
  <2>2. Len(u) \in Nat BY LenProperties
  <2>3. CASE u = <<>>
    <3>1. Up(u, v) = <<>> BY <2>1, <2>3
    <3> QED BY <2>1, <2>3, <3>1 DEF FirstOf, Rebase
  <2>4. CASE u # <<>>
    <3>1. 1 \in 1..Len(u) /\ u[1] \in Nat /\ Up(u, v) # <<>>
      BY <2>1, <2>4
    <3>2. Up(u, v)[1] = u[1] + v BY <2>1, <3>1
    <3> QED BY <2>1, <2>4, <3>1, <3>2 DEF FirstOf, Rebase
  <2> QED BY <2>3, <2>4
<1>4. a = FirstOf(Up(f, n)) /\ b = FirstOf(Up(g, m))
      /\ Len(Up(f, n)) = Len(f) /\ Len(Up(g, m)) = Len(g)
  BY <1>1, <1>3
<1> HIDE DEF a, b, r
<1>5. /\ IsHeader(r) /\ r.finished = h.finished
      /\ r.file_index_offset = a /\ r.file_count = h.file_count
      /\ r.directory_index_offset = b
      /\ r.directory_count = h.directory_count /\ r.file_uid = h.file_uid
  BY <1>1, <1>2 DEF IsHeader
<1>6. HeadOf(r, Up(f, n), Up(g, m))
  BY <1>1, <1>4, <1>5 DEF HeadOf
<1> QED BY <1>5, <1>6 DEF r

LEMMA ForestJoint ==
  ASSUME NEW s, StoreOK(s), NEW q, StoreOK(q),
         NEW F, NEW G, NEW dep, Forest(s, F, G, dep, {}, {}),
         NEW H, NEW K, NEW deq, Forest(q, H, K, deq, {}, {}),
         NEW t, IsBeside(s, q, t, F, G, H, K),
         NEW base, base = Len(s.directories)
  PROVE  Forest(t, Joint(F, H, base, Len(s.file_index)),
                Joint(G, K, base, Len(s.directory_index)),
                JointDepth(dep, deq, base), {}, {})
<1> DEFINE n == Len(s.file_index)  m == Len(s.directory_index)
           F2 == Joint(F, H, base, n)  G2 == Joint(G, K, base, m)
           dep2 == JointDepth(dep, deq, base)
<1>1. /\ -1 \in DOMAIN F /\ DOMAIN G = DOMAIN F
      /\ DOMAIN F \subseteq {-1} \cup 0..(base - 1)
      /\ (\A x \in DOMAIN F \ {-1} : x \in 0..(base - 1))
      /\ DOMAIN dep = DOMAIN F /\ dep[-1] = 0
      /\ (\A x \in DOMAIN F : dep[x] \in Nat /\ dep[x] <= x + 1)
      /\ (\A x \in DOMAIN F : F[x] \in Seq(Nat) /\ G[x] \in Seq(Nat))
      /\ (\A x \in DOMAIN F : \A k \in 1..Len(F[x]) :
            F[x][k] \in Nat /\ F[x][k] < n)
      /\ \A x \in DOMAIN F : \A k \in 1..Len(G[x]) :
           G[x][k] \in Nat /\ G[x][k] < m
  BY ForestOwners
<1>2. /\ -1 \in DOMAIN H /\ DOMAIN K = DOMAIN H
      /\ (\A x \in DOMAIN H \ {-1} : x \in 0..(Len(q.directories) - 1))
      /\ DOMAIN deq = DOMAIN H /\ deq[-1] = 0
      /\ (\A x \in DOMAIN H : deq[x] \in Nat /\ deq[x] <= x + 1)
      /\ (\A x \in DOMAIN H : H[x] \in Seq(Nat) /\ K[x] \in Seq(Nat))
      /\ (\A x \in DOMAIN H : \A k \in 1..Len(H[x]) :
            H[x][k] \in Nat /\ H[x][k] < Len(q.file_index))
      /\ \A x \in DOMAIN H : \A k \in 1..Len(K[x]) :
           K[x][k] \in Nat /\ K[x][k] < Len(q.directory_index)
  BY ForestOwners
<1>3. /\ n \in Nat /\ m \in Nat /\ base \in Nat
      /\ Len(q.file_index) \in Nat /\ Len(q.directory_index) \in Nat
      /\ Len(q.directories) \in Nat
  BY StoreLinks
<1>4. TwoOwners(F, H, base) /\ TwoOwners(G, K, base)
  <2>1. DOMAIN H \subseteq {-1} \cup Nat BY <1>2, <1>3
  <2> QED BY <2>1, <1>1, <1>2, <1>3 DEF TwoOwners
<1>5. IsJoint(F, H, base, n, F2) /\ IsJoint(G, K, base, m, G2)
  <2> HIDE DEF n, m
  <2> QED BY <1>3, <1>4, JointIs DEF n, m
<1> HIDE DEF F2, G2
<1>6. HasPlaces(F, H, base, n, F2) /\ HasPlaces(G, K, base, m, G2)
  <2> HIDE DEF n, m
  <2> QED BY <1>3, <1>4, <1>5, JointPlaces DEF n, m
<1>7. /\ DOMAIN F2 = DOMAIN F \cup {Over(d, base) : d \in DOMAIN H}
      /\ DOMAIN G2 = DOMAIN F2
  BY <1>1, <1>2, <1>5 DEF IsJoint
<1>8. /\ Len(t.file_index) = n + Len(q.file_index)
      /\ Len(t.directory_index) = m + Len(q.directory_index)
      /\ Lists(t.file_index, F2) /\ Lists(t.directory_index, G2)
      /\ Len(t.directories) = base + Len(q.directories)
      /\ (\A k \in 1..base : t.directories[k] = s.directories[k])
      /\ (\A d \in DOMAIN H \ {-1} :
           t.directories[base + d + 1] =
             RebaseHeader(q.directories[d + 1], n, m))
      /\ (\A k \in 1..m : t.directory_index[k].record_offset
                            = s.directory_index[k].record_offset)
      /\ \A k \in 1..Len(q.directory_index) :
           t.directory_index[m + k].record_offset
             = q.directory_index[k].record_offset + base
  BY DEF IsBeside, F2, G2
<1>9. /\ Over(-1, base) = -1
      /\ \A d \in DOMAIN H \ {-1} : Over(d, base) = d + base /\ d \in Nat
  BY <1>2, <1>3 DEF Over
<1> HIDE DEF n, m
<1>10. \A x \in DOMAIN F2 : \/ x \in DOMAIN F
                            \/ \E d \in DOMAIN H \ {-1} : x = d + base
  BY <1>7, <1>9, <1>1
<1>11. \A d \in DOMAIN H \ {-1} : d + base \in DOMAIN F2
                                  /\ d + base # -1 /\ d + base \notin DOMAIN F
  <2> SUFFICES ASSUME NEW d \in DOMAIN H \ {-1}
               PROVE  d + base \in DOMAIN F2 /\ d + base # -1
                      /\ d + base \notin DOMAIN F
    OBVIOUS
  <2>1. d \in Nat /\ d + base \in DOMAIN F2 BY <1>7, <1>9
  <2>2. d + base # -1 BY <2>1, <1>3
  <2>3. d + base \notin 0..(base - 1) BY <2>1, <1>3
  <2> QED BY <2>1, <2>2, <2>3, <1>1, Zenon
<1>12. /\ DOMAIN dep2 = DOMAIN F2
       /\ \A x \in DOMAIN F : dep2[x] = dep[x]
       /\ \A d \in DOMAIN H : dep2[Over(d, base)] = deq[d]
  <2>1. DOMAIN dep2 = DOMAIN F2 BY <1>1, <1>2, <1>7 DEF JointDepth
  <2>2. \A x \in DOMAIN dep2 :
          dep2[x] = IF x \in DOMAIN dep THEN dep[x] ELSE deq[x - base]
    BY DEF JointDepth
  <2>3. dep2 = [x \in DOMAIN dep2 |-> dep2[x]] BY DEF JointDepth
  <2> HIDE DEF dep2
  <2>4. \A x \in DOMAIN F : dep2[x] = dep[x] BY <2>1, <2>2, <1>1, <1>7
  <2>5. ASSUME NEW d \in DOMAIN H PROVE dep2[Over(d, base)] = deq[d]
    <3>1. CASE d = -1 BY <3>1, <2>4, <1>1, <1>2, <1>9
    <3>2. CASE d # -1
      <4>1. d + base \in DOMAIN F2 /\ d + base \notin DOMAIN F
        BY <3>2, <1>11
      <4>2. (d + base) - base = d BY <3>2, <1>3, <1>9
      <4> QED BY <3>2, <4>1, <4>2, <2>1, <2>2, <1>1, <1>9
    <3> QED BY <3>1, <3>2
  <2> QED BY <2>1, <2>4, <2>5
<1>13. ASSUME NEW x \in DOMAIN F, NEW k \in 1..Len(G[x])
       PROVE  DirectoryAt(t, G[x][k]) = DirectoryAt(s, G[x][k])
  <2>1. G[x][k] \in Nat /\ G[x][k] < m BY <1>1
  <2>2. G[x][k] + 1 \in 1..m BY <2>1, <1>3
  <2> QED BY <2>2, <1>8 DEF DirectoryAt
<1>14. ASSUME NEW e \in DOMAIN H, NEW j \in 1..Len(K[e])
       PROVE  DirectoryAt(t, K[e][j] + m) = DirectoryAt(q, K[e][j]) + base
  <2>1. K[e][j] \in Nat /\ K[e][j] < Len(q.directory_index) BY <1>2
  <2>2. K[e][j] + 1 \in 1..Len(q.directory_index)
        /\ (K[e][j] + m) + 1 = m + (K[e][j] + 1)
    BY <2>1, <1>3
  <2> QED BY <2>2, <1>8 DEF DirectoryAt
<1>15. /\ Covered(s.file_index, F) /\ Hung(s, G, dep, {}) /\ Once(s, G)
       /\ Reached(s, G, {}) /\ Heads(s, F, G, {}, {})
  BY Zenon DEF Forest
<1>16. /\ Covered(q.file_index, H) /\ Hung(q, K, deq, {}) /\ Once(q, K)
       /\ Reached(q, K, {}) /\ Heads(q, H, K, {}, {})
  BY Zenon DEF Forest
<1>17. Owners(t, F2, G2, {})
  <2>1. -1 \in DOMAIN F2 BY <1>1, <1>7
  <2>2. ASSUME NEW x \in DOMAIN F2
        PROVE  x \in {-1} \cup 0..(Len(t.directories) - 1)
    <3>0. /\ Len(t.directories) = base + Len(q.directories)
          /\ base \in Nat /\ Len(q.directories) \in Nat
      BY <1>3, <1>8
    <3>1. CASE x \in DOMAIN F
      <4>1. x = -1 \/ x \in 0..(base - 1) BY <3>1, <1>1, Zenon
      <4>2. x \in 0..(base - 1) => x \in 0..(Len(t.directories) - 1)
        <5> DEFINE a == Len(t.directories)  b == Len(q.directories)
        <5>1. a = base + b /\ base \in Nat /\ b \in Nat BY <3>0
        <5> HIDE DEF a, b
        <5>2. x \in 0..(base - 1) => x \in 0..(a - 1) BY <5>1
        <5> QED BY <5>2 DEF a
      <4> QED BY <4>1, <4>2, Zenon
    <3>2. CASE x \notin DOMAIN F
      <4>1. PICK d \in DOMAIN H \ {-1} : x = d + base BY <3>2, <1>10
      <4>2. d \in 0..(Len(q.directories) - 1) BY <1>2
      <4>3. x \in 0..(Len(t.directories) - 1)
        <5> DEFINE a == Len(t.directories)  b == Len(q.directories)
        <5>1. a = base + b /\ base \in Nat /\ b \in Nat /\ d \in 0..(b - 1)
          BY <3>0, <4>2
        <5> HIDE DEF a, b
        <5>2. x \in 0..(a - 1) BY <5>1, <4>1
        <5> QED BY <5>2 DEF a
      <4> QED BY <4>3, Zenon
    <3> QED BY <3>1, <3>2
  <2> QED BY <2>1, <2>2, <1>7 DEF Owners
<1>18. Covered(t.file_index, F2)
  <2> SUFFICES ASSUME NEW x \in 0..(Len(t.file_index) - 1)
               PROVE  \E d \in DOMAIN F2 : \E k \in 1..Len(F2[d]) : F2[d][k] = x
    BY DEF Covered
  <2>1. CASE x < n
    <3>1. x \in 0..(n - 1) BY <2>1, <1>3
    <3>2a. PICK d \in DOMAIN F : \E k \in 1..Len(F[d]) : F[d][k] = x
      BY <3>1, <1>15 DEF Covered, n
    <3>2. PICK k \in 1..Len(F[d]) : F[d][k] = x BY <3>2a
    <3>3. k \in 1..Len(F2[d]) /\ F2[d][k] = F[d][k]
      BY <1>6 DEF HasPlaces
    <3> QED BY <3>2, <3>3, <1>7
  <2>2. CASE ~(x < n)
    <3>1. x - n \in 0..(Len(q.file_index) - 1) /\ (x - n) + n = x
      BY <2>2, <1>3, <1>8
    <3>2a. PICK d \in DOMAIN H : \E k \in 1..Len(H[d]) : H[d][k] = x - n
      BY <3>1, <1>16 DEF Covered
    <3>2. PICK k \in 1..Len(H[d]) : H[d][k] = x - n BY <3>2a
    <3>3. PlaceOf(F, d, k) \in 1..Len(F2[Over(d, base)])
          /\ F2[Over(d, base)][PlaceOf(F, d, k)] = H[d][k] + n
      BY <1>6 DEF HasPlaces
    <3> QED BY <3>1, <3>2, <3>3, <1>7
  <2> QED BY <2>1, <2>2
<1>19. Deep(F2, dep2)
  <2>1. dep2[-1] = 0 BY <1>1, <1>12
  <2>2. ASSUME NEW x \in DOMAIN F2 PROVE dep2[x] \in Nat /\ dep2[x] <= x + 1
    <3>1. CASE x \in DOMAIN F BY <3>1, <1>1, <1>12
    <3>2. CASE x \notin DOMAIN F
      <4>1. PICK d \in DOMAIN H \ {-1} : x = d + base BY <3>2, <1>10
      <4>2. deq[d] \in Nat /\ deq[d] <= d + 1 /\ d \in Nat
            /\ dep2[x] = deq[d]
        BY <4>1, <1>2, <1>9, <1>12
      <4> QED BY <4>1, <4>2, <1>3
    <3> QED BY <3>1, <3>2
  <2>3. dep2 \in [DOMAIN F2 -> Nat]
    <3>1. dep2 = [x \in DOMAIN dep2 |-> dep2[x]] BY DEF JointDepth
    <3> HIDE DEF dep2
    <3> QED BY <3>1, <2>2, <1>12
  <2> QED BY <2>1, <2>2, <2>3 DEF Deep
<1>20. Hung(t, G2, dep2, {})
  <2> SUFFICES ASSUME NEW d \in DOMAIN G2, NEW k \in 1..Len(G2[d])
               PROVE  /\ DirectoryAt(t, G2[d][k]) \in DOMAIN G2 \ {-1}
                      /\ dep2[DirectoryAt(t, G2[d][k])] = dep2[d] + 1
    BY DEF Hung
  <2> HIDE DEF dep2
  <2>1. CASE d \in DOMAIN G /\ k \in 1..Len(G[d]) /\ G2[d][k] = G[d][k]
    <3>1. /\ DirectoryAt(s, G[d][k]) \in DOMAIN G \ {-1}
          /\ dep[DirectoryAt(s, G[d][k])] = dep[d] + 1
      BY <2>1, <1>15 DEF Hung
    <3>2. DirectoryAt(t, G[d][k]) = DirectoryAt(s, G[d][k])
      BY <2>1, <1>1, <1>13
    <3> QED BY <3>1, <3>2, <2>1, <1>1, <1>7, <1>12
  <2>2. ASSUME NEW e \in DOMAIN K, NEW j \in 1..Len(K[e]),
               d = Over(e, base), G2[d][k] = K[e][j] + m
        PROVE  /\ DirectoryAt(t, G2[d][k]) \in DOMAIN G2 \ {-1}
               /\ dep2[DirectoryAt(t, G2[d][k])] = dep2[d] + 1
    <3> DEFINE c == DirectoryAt(q, K[e][j])
    <3>1. c \in DOMAIN K \ {-1} /\ deq[c] = deq[e] + 1
      BY <1>16 DEF Hung
    <3>2. DirectoryAt(t, G2[d][k]) = c + base BY <2>2, <1>2, <1>14
    <3> HIDE DEF c
    <3>3. c + base = Over(c, base) /\ c + base \in DOMAIN G2 /\ c + base # -1
      BY <3>1, <1>2, <1>7, <1>9, <1>11
    <3> QED BY <3>1, <3>2, <3>3, <2>2, <1>2, <1>12
  <2>3. \/ d \in DOMAIN G /\ k \in 1..Len(G[d]) /\ G2[d][k] = G[d][k]
        \/ \E e \in DOMAIN K : \E j \in 1..Len(K[e]) :
             /\ d = Over(e, base) /\ k = PlaceOf(G, e, j)
             /\ G2[d][k] = K[e][j] + m
    BY <1>6 DEF HasPlaces
  <2> QED BY <2>1, <2>2, <2>3
<1>21. Once(t, G2)
  <2> DEFINE Old(d, k) ==
        /\ d \in DOMAIN G /\ k \in 1..Len(G[d])
        /\ DirectoryAt(t, G2[d][k]) = DirectoryAt(s, G[d][k])
        /\ DirectoryAt(t, G2[d][k]) < base
      New(d, k, e, j) ==
        /\ e \in DOMAIN K /\ j \in 1..Len(K[e])
        /\ d = Over(e, base) /\ k = PlaceOf(G, e, j)
        /\ DirectoryAt(t, G2[d][k]) = DirectoryAt(q, K[e][j]) + base
        /\ DirectoryAt(q, K[e][j]) \in Nat
  <2>1. ASSUME NEW d \in DOMAIN G2, NEW k \in 1..Len(G2[d])
        PROVE  Old(d, k) \/ \E e, j : New(d, k, e, j)
    <3>1. CASE d \in DOMAIN G /\ k \in 1..Len(G[d]) /\ G2[d][k] = G[d][k]
      <4>1. DirectoryAt(t, G2[d][k]) = DirectoryAt(s, G[d][k])
        BY <3>1, <1>1, <1>13
      <4>2. DirectoryAt(s, G[d][k]) \in DOMAIN G \ {-1}
        BY <3>1, <1>15 DEF Hung
      <4>3. DirectoryAt(s, G[d][k]) < base BY <4>2, <1>1, <1>3
      <4> QED BY <3>1, <4>1, <4>3
    <3>2. ASSUME NEW e \in DOMAIN K, NEW j \in 1..Len(K[e]),
                 d = Over(e, base), k = PlaceOf(G, e, j),
                 G2[d][k] = K[e][j] + m
          PROVE  New(d, k, e, j)
      <4>1. DirectoryAt(t, G2[d][k]) = DirectoryAt(q, K[e][j]) + base
        BY <3>2, <1>2, <1>14
      <4>2. DirectoryAt(q, K[e][j]) \in DOMAIN K \ {-1}
        BY <1>16 DEF Hung
      <4> QED BY <3>2, <4>1, <4>2, <1>2, <1>9
    <3>3. \/ d \in DOMAIN G /\ k \in 1..Len(G[d]) /\ G2[d][k] = G[d][k]
          \/ \E e \in DOMAIN K : \E j \in 1..Len(K[e]) :
               /\ d = Over(e, base) /\ k = PlaceOf(G, e, j)
               /\ G2[d][k] = K[e][j] + m
      BY <1>6 DEF HasPlaces
    <3> HIDE DEF Old, New
    <3> QED BY <3>1, <3>2, <3>3 DEF Old
  <2> SUFFICES ASSUME NEW d \in DOMAIN G2, NEW e \in DOMAIN G2,
                      NEW j \in 1..Len(G2[d]), NEW k \in 1..Len(G2[e]),
                      DirectoryAt(t, G2[d][j]) = DirectoryAt(t, G2[e][k])
               PROVE  d = e /\ j = k
    BY DEF Once
  <2>2. CASE Old(d, j) /\ Old(e, k)
    <3>1. /\ d \in DOMAIN G /\ j \in 1..Len(G[d])
          /\ e \in DOMAIN G /\ k \in 1..Len(G[e])
      BY <2>2
    <3>2. DirectoryAt(s, G[d][j]) = DirectoryAt(s, G[e][k]) BY <2>2
    <3> HIDE DEF Old, New
    <3> QED BY <3>1, <3>2, <1>15 DEF Once
  <2>3. ASSUME NEW a, NEW i, New(d, j, a, i) PROVE ~Old(e, k)
    BY <2>3, <1>3
  <2>4. ASSUME NEW a, NEW i, New(e, k, a, i) PROVE ~Old(d, j)
    BY <2>4, <1>3
  <2>5. ASSUME NEW a, NEW i, New(d, j, a, i), NEW b, NEW h, New(e, k, b, h)
        PROVE  d = e /\ j = k
    <3>1. DirectoryAt(q, K[a][i]) = DirectoryAt(q, K[b][h])
      <4> DEFINE u == DirectoryAt(q, K[a][i])  v == DirectoryAt(q, K[b][h])
      <4>1. u + base = v + base /\ u \in Nat /\ v \in Nat BY <2>5
      <4> HIDE DEF u, v
      <4> QED BY <4>1, <1>3 DEF u, v
    <3>2. a = b /\ i = h BY <3>1, <2>5, <1>16 DEF Once
    <3> QED BY <3>2, <2>5
  <2>6. Old(d, j) \/ \E a, i : New(d, j, a, i) BY <2>1
  <2>7. Old(e, k) \/ \E a, i : New(e, k, a, i) BY <2>1
  <2> HIDE DEF Old, New
  <2> QED BY <2>2, <2>3, <2>4, <2>5, <2>6, <2>7
<1>22. Reached(t, G2, {})
  <2> SUFFICES ASSUME NEW x \in DOMAIN G2 \ {-1}
               PROVE  \E d \in DOMAIN G2 : \E k \in 1..Len(G2[d]) :
                        DirectoryAt(t, G2[d][k]) = x
    BY DEF Reached
  <2>1. CASE x \in DOMAIN F
    <3>1a. PICK d \in DOMAIN G : \E k \in 1..Len(G[d]) : DirectoryAt(s, G[d][k]) = x
      BY <2>1, <1>1, <1>15 DEF Reached
    <3>1. PICK k \in 1..Len(G[d]) : DirectoryAt(s, G[d][k]) = x BY <3>1a
    <3>2. k \in 1..Len(G2[d]) /\ G2[d][k] = G[d][k]
      BY <1>6 DEF HasPlaces
    <3> QED BY <3>1, <3>2, <1>1, <1>7, <1>13
  <2>2. CASE x \notin DOMAIN F
    <3>1. PICK c \in DOMAIN H \ {-1} : x = c + base BY <2>2, <1>7, <1>10
    <3>2a. PICK d \in DOMAIN K : \E k \in 1..Len(K[d]) : DirectoryAt(q, K[d][k]) = c
      BY <3>1, <1>2, <1>16 DEF Reached
    <3>2. PICK k \in 1..Len(K[d]) : DirectoryAt(q, K[d][k]) = c BY <3>2a
    <3>3. PlaceOf(G, d, k) \in 1..Len(G2[Over(d, base)])
          /\ G2[Over(d, base)][PlaceOf(G, d, k)] = K[d][k] + m
      BY <1>6 DEF HasPlaces
    <3>4. Over(d, base) \in DOMAIN G2 BY <1>2, <1>7
    <3> QED BY <3>1, <3>2, <3>3, <3>4, <1>2, <1>14
  <2> QED BY <2>1, <2>2
<1>23. Heads(t, F2, G2, {}, {})
  <2> SUFFICES ASSUME NEW d \in DOMAIN F2 \ {-1}
               PROVE  /\ HeadOf(Header(t, d), F2[d], G2[d])
                      /\ Header(t, d).directory_count = Len(G2[d])
    BY DEF Heads
  <2>1. CASE d \in DOMAIN F
    <3>1. HeadOf(Header(s, d), F[d], G[d])
          /\ Header(s, d).directory_count = Len(G[d])
      BY <2>1, <1>15 DEF Heads
    <3>2. F2[d] = F[d] /\ G2[d] = G[d] BY <2>1, <1>1, <1>5 DEF IsJoint
    <3>3. d + 1 \in 1..base BY <2>1, <1>1, <1>3
    <3>4. Header(t, d) = Header(s, d) BY <3>3, <1>8 DEF Header
    <3> QED BY <3>1, <3>2, <3>4
  <2>2. CASE d \notin DOMAIN F
    <3>1. PICK c \in DOMAIN H \ {-1} : d = c + base BY <2>2, <1>10
    <3>2. HeadOf(Header(q, c), H[c], K[c])
          /\ Header(q, c).directory_count = Len(K[c])
      BY <3>1, <1>16 DEF Heads
    <3>3. F2[d] = Up(H[c], n) /\ G2[d] = Up(K[c], m)
      BY <3>1, <1>2, <1>5 DEF IsJoint
    <3>4. d + 1 = base + c + 1 BY <3>1, <1>3, <1>9
    <3>5. Header(t, d) = RebaseHeader(Header(q, c), n, m)
      BY <3>4, <1>8 DEF Header
    <3>6. H[c] \in Seq(Nat) /\ K[c] \in Seq(Nat) BY <1>2
    <3>7. Len(Up(K[c], m)) = Len(K[c]) BY <3>6, <1>3, UpSeq
    <3>8. /\ HeadOf(Header(t, d), F2[d], G2[d])
          /\ Header(t, d).directory_count = Header(q, c).directory_count
      BY <3>2, <3>3, <3>5, <3>6, <1>3, RebasedHead
    <3> QED BY <3>2, <3>3, <3>7, <3>8
  <2> QED BY <2>1, <2>2
<1>24. Forest(t, F2, G2, dep2, {}, {})
  BY <1>8, <1>17, <1>18, <1>19, <1>20, <1>21, <1>22, <1>23, Zenon DEF Forest
<1> QED BY <1>24 DEF F2, G2, n, m

(***************************************************************************)
(* append_merge_source: the file records are copied one by one.            *)
(***************************************************************************)

(* The file with the index entry k has the file uid k.                     *)
Numbered(t) ==
  /\ t.next_file_uid = Len(t.file_index) + 1
  /\ \A k \in 1..Len(t.file_index) : RecordAt(t, k).uid = k

Copied(s, q, t, k) ==
  /\ StoreOK(t) /\ Numbered(t)
  /\ t.directories = s.directories
  /\ t.directory_index = s.directory_index
  /\ t.selection_count = s.selection_count
  /\ Len(t.file_index) = Len(s.file_index) + k
  /\ \A i \in 1..Len(s.file_index) :
       t.file_index[i].next = s.file_index[i].next
  /\ \A i \in 1..k :
       t.file_index[Len(s.file_index) + i].next =
         Rebase(q.file_index[i].next, Len(s.file_index))

LEMMA RebaseInt ==
  ASSUME NEW v \in Int, NEW n \in Nat PROVE Rebase(v, n) \in Int
BY DEF Rebase

LEMMA RebaseNat ==
  ASSUME NEW v \in Nat, NEW n \in Nat
  PROVE  Rebase(v, n) \in Nat /\ Rebase(v, n) = v + n
BY DEF Rebase

LEMMA CopyStep ==
  ASSUME NEW s, StoreOK(s), NEW q, StoreOK(q), NEW k \in 1..Len(q.file_index),
         NEW t, Copied(s, q, t, k - 1)
  PROVE  Copied(s, q, AppendFile(Len(s.file_index), s.selection_count, t, q,
                                 q.file_index[k]), k)
<1> DEFINE n == Len(s.file_index)  e == q.file_index[k]
           record == ReadRecord(q, e.record_offset, e.record_length)
           rewritten == [record EXCEPT !.uid = t.next_file_uid]
           length == e.record_length + 1
           more == AppendRecord(t, rewritten, length)
           entry == [next |-> Rebase(e.next, n),
                     record_offset |-> t.file_records_position,
                     record_length |-> length,
                     selection |-> Rebase(e.selection, s.selection_count)]
           u == AppendFile(n, s.selection_count, t, q, e)
           list == Append(t.file_index, entry)
<1>1. /\ StoreOK(t) /\ Numbered(t)
      /\ t.directories = s.directories
      /\ t.directory_index = s.directory_index
      /\ t.selection_count = s.selection_count
      /\ Len(t.file_index) = n + (k - 1)
      /\ (\A i \in 1..n : t.file_index[i].next = s.file_index[i].next)
      /\ \A i \in 1..(k - 1) :
           t.file_index[n + i].next = Rebase(q.file_index[i].next, n)
  BY DEF Copied
<1>2. /\ IsStore(t) /\ t.file_records \in Seq(Bytes)
      /\ t.file_records_position = Len(t.file_records)
      /\ t.file_index \in Seq(FileEntries)
      /\ t.selection_count \in Nat /\ t.next_file_uid \in Nat
  BY <1>1 DEF StoreOK, StoreForm
<1>3. n \in Nat /\ Len(t.file_index) \in Nat /\ Len(t.file_records) \in Nat
      /\ Len(q.file_index) \in Nat
  BY <1>2, StoreLinks, LenProperties
<1>4. e \in FileEntries
  <2>1. q.file_index \in Seq(FileEntries) BY DEF StoreOK, StoreForm
  <2> QED BY <2>1, ElementOfSeq
<1>5. e.next \in Int /\ e.selection \in Int /\ e.record_length \in Nat
  BY <1>4 DEF FileEntries
<1>6. rewritten \in FileRecords /\ rewritten.uid = t.next_file_uid
  <2>1. record \in FileRecords BY WholeReads
  <2> HIDE DEF record
  <2> QED BY <2>1, <1>2 DEF FileRecords
<1>7. length \in Nat /\ length >= 1 BY <1>5
<1>8. entry \in FileEntries /\ entry.next = Rebase(e.next, n)
      /\ entry.record_offset = Len(t.file_records)
      /\ entry.record_length = length
  <2>1. Rebase(e.next, n) \in Int
        /\ Rebase(e.selection, s.selection_count) \in Int
    BY <1>1, <1>2, <1>3, <1>5, RebaseInt
  <2> QED BY <2>1, <1>2, <1>3, <1>7 DEF FileEntries
<1>9. /\ IsStore(more)
      /\ more.file_records = t.file_records \o Cells(rewritten, length)
      /\ more.file_records_position = t.file_records_position + length
      /\ more.directories = t.directories
      /\ more.directory_index = t.directory_index
      /\ more.file_index = t.file_index
      /\ more.selection_count = t.selection_count
      /\ more.next_file_uid = t.next_file_uid
  <2>1. IsMore(t, more, rewritten, length)
    <3> HIDE DEF rewritten, length
    <3> QED BY <1>2, MoreRecords
  <2> QED BY <2>1 DEF IsMore
<1>10. u = [more EXCEPT !.next_file_uid = NextUid(t),
                        !.file_index = Append(more.file_index, entry)]
  BY DEF AppendFile
<1>11. NextUid(t) = t.next_file_uid + 1 BY DEF NextUid
<1> HIDE DEF entry, more, u, rewritten, record
<1>12. /\ IsStore(u)
       /\ u.file_records = t.file_records \o Cells(rewritten, length)
       /\ u.file_records_position = t.file_records_position + length
       /\ u.directories = t.directories
       /\ u.directory_index = t.directory_index
       /\ u.file_index = list
       /\ u.selection_count = t.selection_count
       /\ u.next_file_uid = t.next_file_uid + 1
  BY <1>9, <1>10, <1>11 DEF IsStore
<1>13. /\ list \in Seq(FileEntries) /\ Len(list) = Len(t.file_index) + 1
       /\ list[Len(t.file_index) + 1] = entry
       /\ \A i \in 1..Len(t.file_index) : list[i] = t.file_index[i]
  <2>1. t.file_index \in Seq(FileEntries) /\ entry \in FileEntries
    BY <1>2, <1>8
  <2> QED BY <2>1, FileLinks, AppendSeq
<1> HIDE DEF list, length
<1>14. IsRecorded(t, u, rewritten)
  <2> DEFINE m == Len(t.file_index)
  <2>1. u.selection_count \in Nat /\ u.next_file_uid \in Nat
    BY <1>2, <1>12
  <2>2. u.file_index \in Seq(FileEntries) /\ Len(u.file_index) = m + 1
    BY <1>12, <1>13
  <2>3. /\ u.file_index[m + 1].record_offset = Len(t.file_records)
        /\ u.file_index[m + 1].record_length = length
    BY <1>8, <1>12, <1>13
  <2>4. \A i \in 1..m :
          /\ u.file_index[i].record_offset = t.file_index[i].record_offset
          /\ u.file_index[i].record_length = t.file_index[i].record_length
    BY <1>12, <1>13
  <2> QED BY <1>1, <1>6, <1>7, <1>12, <2>1, <2>2, <2>3, <2>4,
             StoreAddsRecord
<1>15. /\ StoreOK(u)
       /\ \A i \in 1..Len(t.file_index) : RecordAt(u, i) = RecordAt(t, i)
       /\ RecordAt(u, Len(t.file_index) + 1) = rewritten
  BY <1>14 DEF IsRecorded
<1>16. Len(u.file_index) = n + k /\ Len(t.file_index) + 1 = n + k
  BY <1>1, <1>3, <1>12, <1>13
<1>17. Numbered(u)
  <2> DEFINE m == Len(t.file_index)
  <2>1. /\ t.next_file_uid = m + 1
        /\ \A i \in 1..m : RecordAt(t, i).uid = i
    BY <1>1 DEF Numbered
  <2>2. Len(u.file_index) = m + 1 /\ m \in Nat BY <1>3, <1>12, <1>13
  <2>3. u.next_file_uid = Len(u.file_index) + 1 BY <2>1, <2>2, <1>12
  <2>4. ASSUME NEW i \in 1..Len(u.file_index)
        PROVE  RecordAt(u, i).uid = i
    <3> HIDE DEF m
    <3>1. CASE i \in 1..m BY <3>1, <2>1, <1>15 DEF m
    <3>2. CASE i \notin 1..m
      <4>1. i = m + 1 BY <3>2, <2>2
      <4> QED BY <4>1, <2>1, <1>6, <1>15 DEF m
    <3> QED BY <3>1, <3>2
  <2> QED BY <2>3, <2>4 DEF Numbered
<1>18. ASSUME NEW i \in 1..n PROVE u.file_index[i].next = s.file_index[i].next
  <2>1. i \in 1..Len(t.file_index) BY <1>1, <1>3
  <2> QED BY <2>1, <1>1, <1>12, <1>13
<1>19. ASSUME NEW i \in 1..k
       PROVE  u.file_index[n + i].next = Rebase(q.file_index[i].next, n)
  <2>1. CASE i = k
    <3>1. u.file_index[n + i] = entry BY <2>1, <1>12, <1>13, <1>16
    <3> QED BY <3>1, <2>1, <1>8
  <2>2. CASE i # k
    <3>1. i \in 1..(k - 1) /\ n + i \in 1..Len(t.file_index)
      BY <2>2, <1>1, <1>3
    <3> QED BY <3>1, <1>1, <1>12, <1>13
  <2> QED BY <2>1, <2>2
<1>20. u.directories = s.directories /\ u.directory_index = s.directory_index
       /\ u.selection_count = s.selection_count
  BY <1>1, <1>12
<1> QED BY <1>15, <1>16, <1>17, <1>18, <1>19, <1>20 DEF Copied, u, e, n

(* The function AppendSource is defined by.                                *)
IsCopy(s, q, f) ==
  f = [k \in 0..Len(q.file_index) |->
         IF k = 0 THEN s
         ELSE AppendFile(Len(s.file_index), s.selection_count, f[k - 1], q,
                         q.file_index[k])]

LEMMA CopyExists ==
  ASSUME NEW s, NEW q, Len(q.file_index) \in Nat
  PROVE  \E f : IsCopy(s, q, f)
<1> DEFINE n == Len(q.file_index)
           base == Len(s.file_index)  sel == s.selection_count
           list == q.file_index
           Rec(m, f) == f = [k \in 0..m |->
                               IF k = 0 THEN s
                               ELSE AppendFile(base, sel, f[k - 1], q, list[k])]
           T == {m \in 0..n : ~ \E f : Rec(m, f)}
<1>0. n \in Nat OBVIOUS
<1> HIDE DEF n, base, sel, list
<1>1. T = {}
  <2> SUFFICES ASSUME T # {} PROVE FALSE OBVIOUS
  <2>1. PICK m \in T : \A j \in T : m <= j
    <3>1. T \subseteq Nat OBVIOUS
    <3> HIDE DEF T
    <3> QED BY <3>1, LeastNat
  <2>2. m # 0
    <3> SUFFICES ASSUME m = 0 PROVE FALSE OBVIOUS
    <3>1. Rec(0, [k \in 0..0 |-> s]) OBVIOUS
    <3> HIDE DEF Rec
    <3> QED BY <3>1, <2>1
  <2>3. m \in 1..n /\ m - 1 \in 0..n /\ m - 1 \notin T
    BY <1>0, <2>1, <2>2
  <2>4. PICK f : Rec(m - 1, f) BY <2>3
  <2> DEFINE g == [k \in 0..m |-> IF k = 0 THEN s
                                  ELSE AppendFile(base, sel, f[k - 1], q, list[k])]
  <2>5. ASSUME NEW k \in 1..m PROVE g[k - 1] = f[k - 1]
    <3>1. k - 1 \in 0..m /\ k - 1 \in 0..(m - 1) BY <2>3
    <3> QED BY <3>1, <2>4
  <2>6. ASSUME NEW k \in 0..m
        PROVE  g[k] = IF k = 0 THEN s
                      ELSE AppendFile(base, sel, g[k - 1], q, list[k])
    <3>1. CASE k = 0 BY <3>1
    <3>2. CASE k # 0
      <4>1. k \in 1..m BY <3>2, <2>3
      <4>2. g[k] = AppendFile(base, sel, f[k - 1], q, list[k]) BY <3>2
      <4> HIDE DEF g
      <4> QED BY <4>1, <4>2, <3>2, <2>5
    <3> QED BY <3>1, <3>2
  <2>7. g = [k \in 0..m |-> g[k]] OBVIOUS
  <2>8. Rec(m, g)
    <3> HIDE DEF g
    <3> QED BY <2>6, <2>7
  <2> HIDE DEF Rec, g
  <2> QED BY <2>8, <2>1
<1>2. PICK f : Rec(n, f)
  <2>1. n \notin T /\ n \in 0..n BY <1>0, <1>1
  <2> HIDE DEF Rec
  <2> QED BY <2>1
<1>3. Rec(n, f) <=> IsCopy(s, q, f) BY DEF IsCopy, n, base, sel, list
<1> QED BY <1>2, <1>3

Indexed(q) ==
  {q.directory_index[k].record_offset : k \in DOMAIN q.directory_index}

RebasedHeaders(q, n, m) ==
  [d \in DOMAIN q.directories |->
     IF d - 1 \in Indexed(q) THEN RebaseHeader(q.directories[d], n, m)
     ELSE q.directories[d]]

RebasedEntries(q, m, base, sel) ==
  [k \in DOMAIN q.directory_index |->
     [next |-> Rebase(q.directory_index[k].next, m),
      record_offset |-> Rebase(q.directory_index[k].record_offset, base),
      selection |-> Rebase(q.directory_index[k].selection, sel)]]

Extended(t, q, n, m, base, sel) ==
  [t EXCEPT !.directories = @ \o RebasedHeaders(q, n, m),
            !.directory_index = @ \o RebasedEntries(q, m, base, sel),
            !.selection_count = @ + q.selection_count]

LEMMA AppendSteps ==
  ASSUME NEW s, NEW q, Len(q.file_index) \in Nat
  PROVE  \E f : /\ IsCopy(s, q, f)
                /\ AppendSource(s, q) =
                     Extended(f[Len(q.file_index)], q, Len(s.file_index),
                              Len(s.directory_index), Len(s.directories),
                              s.selection_count)
<1> DEFINE f == CHOOSE g : IsCopy(s, q, g)
<1>1. IsCopy(s, q, f) BY CopyExists
<1>2. AppendSource(s, q) =
        Extended(f[Len(q.file_index)], q, Len(s.file_index),
                 Len(s.directory_index), Len(s.directories),
                 s.selection_count)
  BY DEF AppendSource, IsCopy, Extended, Indexed, RebasedHeaders,
         RebasedEntries
<1> HIDE DEF f
<1> QED BY <1>1, <1>2

LEMMA CopyDone ==
  ASSUME NEW s, StoreOK(s), Numbered(s), NEW q, StoreOK(q),
         NEW f, IsCopy(s, q, f)
  PROVE  Copied(s, q, f[Len(q.file_index)], Len(q.file_index))
<1> DEFINE n == Len(q.file_index)
           T == {k \in 0..n : ~Copied(s, q, f[k], k)}
<1>1. n \in Nat /\ Len(s.file_index) \in Nat BY StoreLinks
<1>2. ASSUME NEW k \in 0..n
      PROVE  f[k] = IF k = 0 THEN s
                    ELSE AppendFile(Len(s.file_index), s.selection_count,
                                    f[k - 1], q, q.file_index[k])
  BY Zenon DEF IsCopy
<1>3. T = {}
  <2> SUFFICES ASSUME T # {} PROVE FALSE OBVIOUS
  <2> HIDE DEF n
  <2>1. PICK m \in T : \A j \in T : m <= j
    <3>1. T \subseteq Nat OBVIOUS
    <3> HIDE DEF T
    <3> QED BY <3>1, LeastNat
  <2>2. CASE m = 0
    <3>1. f[m] = s BY <1>2, <2>2 DEF n
    <3>2. Copied(s, q, s, 0) BY <1>1 DEF Copied
    <3> QED BY <3>1, <3>2, <2>1, <2>2
  <2>3. CASE m # 0
    <3>1. m - 1 \in 0..n /\ m - 1 \notin T /\ m \in 1..n /\ m \in 0..n
      BY <1>1, <2>1, <2>3
    <3>2. Copied(s, q, f[m - 1], m - 1) BY <3>1
    <3>3. f[m] = AppendFile(Len(s.file_index), s.selection_count, f[m - 1], q,
                            q.file_index[m])
      BY <1>2, <2>3, <3>1 DEF n
    <3>4. Copied(s, q, f[m], m) BY <3>1, <3>2, <3>3, CopyStep DEF n
    <3>5. ~Copied(s, q, f[m], m) OBVIOUS
    <3> QED BY <3>4, <3>5
  <2> QED BY <2>2, <2>3
<1>4. n \in 0..n BY <1>1
<1> QED BY <1>3, <1>4

IsSameFiles(s, t) ==
  /\ StoreOK(t)
  /\ Len(t.file_index) = Len(s.file_index)
  /\ \A k \in 1..Len(s.file_index) : RecordAt(t, k) = RecordAt(s, k)

(* Only links of the file index change.                                    *)
LEMMA StoreRelinked ==
  ASSUME NEW s, StoreOK(s), NEW t, IsStore(t),
         t.file_records = s.file_records,
         t.file_records_position = s.file_records_position,
         Sequential(t.directories),
         t.file_index \in Seq(FileEntries),
         Relinked(s.file_index, t.file_index),
         t.directory_index \in Seq(DirectoryEntries),
         t.selection_count \in Nat, t.next_file_uid \in Nat
  PROVE  IsSameFiles(s, t)
<1>1. /\ s.file_records \in Seq(Bytes)
      /\ s.file_records_position = Len(s.file_records)
      /\ s.file_index \in Seq(FileEntries)
      /\ \A k \in 1..Len(s.file_index) : Whole(s.file_records, s.file_index[k])
  BY DEF StoreOK, StoreForm
<1>2. /\ Len(t.file_index) = Len(s.file_index)
      /\ \A k \in 1..Len(s.file_index) :
           t.file_index[k] = [s.file_index[k] EXCEPT !.next = t.file_index[k].next]
  BY DEF Relinked
<1>3. ASSUME NEW k \in 1..Len(s.file_index)
      PROVE  /\ t.file_index[k].record_offset = s.file_index[k].record_offset
             /\ t.file_index[k].record_length = s.file_index[k].record_length
  <2>1. s.file_index[k] \in FileEntries BY <1>1, ElementOfSeq
  <2> DEFINE e == s.file_index[k]  v == t.file_index[k].next
  <2>2. t.file_index[k] = [e EXCEPT !.next = v] BY <1>2
  <2> HIDE DEF e, v
  <2>3. e \in FileEntries BY <2>1 DEF e
  <2>4. t.file_index[k].record_offset = e.record_offset
        /\ t.file_index[k].record_length = e.record_length
    BY <2>2, <2>3 DEF FileEntries
  <2> QED BY <2>4 DEF e
<1>4. ASSUME NEW k \in 1..Len(t.file_index)
      PROVE  Whole(t.file_records, t.file_index[k])
  <2>1. Whole(s.file_records, s.file_index[k]) BY <1>1, <1>2
  <2> QED BY <2>1, <1>2, <1>3 DEF Whole
<1>5. StoreOK(t) BY <1>1, <1>4 DEF StoreOK, StoreForm
<1>6. \A k \in 1..Len(s.file_index) : RecordAt(t, k) = RecordAt(s, k)
  BY <1>3 DEF RecordAt
<1> QED BY <1>2, <1>5, <1>6 DEF IsSameFiles

LEMMA RelinkedDirectories ==
  ASSUME NEW list \in Seq(DirectoryEntries), NEW new, Relinked(list, new)
  PROVE  /\ Len(new) = Len(list)
         /\ \A k \in 1..Len(list) :
              new[k].record_offset = list[k].record_offset
<1>1. /\ Len(new) = Len(list)
      /\ \A k \in 1..Len(list) : new[k] = [list[k] EXCEPT !.next = new[k].next]
  BY DEF Relinked
<1>2. ASSUME NEW k \in 1..Len(list)
      PROVE  new[k].record_offset = list[k].record_offset
  <2>1. list[k] \in DirectoryEntries BY ElementOfSeq
  <2> DEFINE e == list[k]  v == new[k].next
  <2>2. new[k] = [e EXCEPT !.next = v] BY <1>1
  <2> HIDE DEF e, v
  <2>3. e \in DirectoryEntries BY <2>1 DEF e
  <2>4. new[k].record_offset = e.record_offset
    BY <2>2, <2>3 DEF DirectoryEntries
  <2> QED BY <2>4 DEF e
<1> QED BY <1>1, <1>2

IsJoin(s, u, t) ==
  /\ Sequential(t) /\ Len(t) = Len(s) + Len(u)
  /\ \A k \in 1..Len(s) : t[k] = s[k]
  /\ \A k \in 1..Len(u) : t[Len(s) + k] = u[k]

LEMMA SequentialConcat ==
  ASSUME NEW s, Sequential(s), NEW u, Sequential(u)
  PROVE  IsJoin(s, u, s \o u)
<1>1. PICK S : s \in Seq(S) BY DEF Sequential
<1>2. PICK T : u \in Seq(T) BY DEF Sequential
<1> DEFINE V == S \cup T
<1>3. s \in Seq(V) /\ u \in Seq(V) BY <1>1, <1>2, SeqSubset
<1>4. Len(s) \in Nat /\ Len(u) \in Nat BY <1>3, LenProperties
<1> HIDE DEF V
<1>5. IsConcat(V, s, u, s \o u) BY <1>3, ConcatFacts
<1> DEFINE t == s \o u
<1> HIDE DEF t
<1>6. /\ t \in Seq(V) /\ Len(t) = Len(s) + Len(u)
      /\ \A k \in 1..(Len(s) + Len(u)) :
           t[k] = IF k <= Len(s) THEN s[k] ELSE u[k - Len(s)]
  BY <1>5 DEF IsConcat, t
<1>7. ASSUME NEW k \in 1..Len(u) PROVE t[Len(s) + k] = u[k]
  <2>1. Len(s) + k \in 1..(Len(s) + Len(u)) /\ ~(Len(s) + k <= Len(s))
        /\ (Len(s) + k) - Len(s) = k
    BY <1>4
  <2> QED BY <2>1, <1>6
<1>8. \A k \in 1..Len(s) : t[k] = s[k] BY <1>4, <1>6
<1>9. Sequential(t) BY <1>6 DEF Sequential
<1> QED BY <1>6, <1>7, <1>8, <1>9 DEF IsJoin, t

IsRebased(q, m, base, sel, list) ==
  /\ list \in Seq(DirectoryEntries)
  /\ Len(list) = Len(q.directory_index)
  /\ \A k \in 1..Len(q.directory_index) :
       /\ list[k].next = Rebase(q.directory_index[k].next, m)
       /\ list[k].record_offset = q.directory_index[k].record_offset + base

LEMMA RebasedEntriesAre ==
  ASSUME NEW q, StoreOK(q), NEW m \in Nat, NEW base \in Nat, NEW sel \in Nat
  PROVE  IsRebased(q, m, base, sel, RebasedEntries(q, m, base, sel))
<1> DEFINE list == RebasedEntries(q, m, base, sel)
           d == q.directory_index  n == Len(q.directory_index)
<1>1. d \in Seq(DirectoryEntries) BY DEF StoreOK, StoreForm
<1>2. n \in Nat /\ DOMAIN d = 1..n BY <1>1, LenProperties
<1>3. list = [k \in 1..n |->
        [next |-> Rebase(d[k].next, m),
         record_offset |-> Rebase(d[k].record_offset, base),
         selection |-> Rebase(d[k].selection, sel)]]
  BY <1>2 DEF RebasedEntries
<1> HIDE DEF list, d, n
<1>4. ASSUME NEW k \in 1..n
      PROVE  /\ list[k] \in DirectoryEntries
             /\ list[k].next = Rebase(d[k].next, m)
             /\ list[k].record_offset = d[k].record_offset + base
  <2>1. d[k] \in DirectoryEntries BY <1>1, ElementOfSeq DEF n, d
  <2>2. d[k].next \in Int /\ d[k].record_offset \in Nat
        /\ d[k].selection \in Int
    BY <2>1 DEF DirectoryEntries
  <2>3. /\ Rebase(d[k].next, m) \in Int /\ Rebase(d[k].selection, sel) \in Int
        /\ Rebase(d[k].record_offset, base) \in Nat
        /\ Rebase(d[k].record_offset, base) = d[k].record_offset + base
    BY <2>2, RebaseInt, RebaseNat
  <2> QED BY <2>3, <1>3 DEF DirectoryEntries
<1>5. list \in Seq(DirectoryEntries) /\ Len(list) = n
  <2>1. list \in [1..n -> DirectoryEntries]
    <3>1. DOMAIN list = 1..n BY <1>3
    <3>2. list = [k \in 1..n |-> list[k]] BY <1>3, <3>1
    <3> QED BY <1>4, <3>2
  <2> QED BY <2>1, <1>2
<1> QED BY <1>4, <1>5 DEF IsRebased, list, d, n

Headed(q, n, m, list) ==
  /\ Sequential(list) /\ Len(list) = Len(q.directories)
  /\ \A d \in 1..Len(q.directories) :
       d - 1 \in Indexed(q) =>
         list[d] = RebaseHeader(q.directories[d], n, m)

LEMMA RebasedHeadersAre ==
  ASSUME NEW q, StoreOK(q), NEW n, NEW m
  PROVE  Headed(q, n, m, RebasedHeaders(q, n, m))
<1> DEFINE list == RebasedHeaders(q, n, m)  l == Len(q.directories)
<1>1. Sequential(q.directories) BY DEF StoreOK, StoreForm
<1>2. l \in Nat /\ DOMAIN q.directories = 1..l BY <1>1, SequentialFacts
<1>3. list = [d \in 1..l |->
        IF d - 1 \in Indexed(q) THEN RebaseHeader(q.directories[d], n, m)
        ELSE q.directories[d]]
  BY <1>2 DEF RebasedHeaders
<1> HIDE DEF list, l
<1>4. DOMAIN list = 1..l BY <1>3
<1>5. list \in Seq({list[k] : k \in 1..l})
  <2> DEFINE V == {list[k] : k \in 1..l}
  <2>1. list = [k \in 1..l |-> list[k]] BY <1>3, <1>4
  <2>2. \A k \in 1..l : list[k] \in V OBVIOUS
  <2> HIDE DEF V
  <2>3. list \in [1..l -> V] BY <2>1, <2>2
  <2>4. list \in Seq(V) BY <2>3, <1>2
  <2> QED BY <2>4 DEF V
<1>6. Sequential(list) BY <1>5 DEF Sequential
<1>7. Len(list) = l BY <1>2, <1>4, <1>5, LenProperties
<1> QED BY <1>3, <1>6, <1>7 DEF Headed, list, l

(* No directory that hangs in the store has a file uid yet.                *)
Unnumbered(s, F) == \A d \in DOMAIN F \ {-1} : Header(s, d).file_uid = 0

IsParsed(q, r, H, K, deq) ==
  /\ StoreForm(q) /\ Forest(q, H, K, deq, {}, {}) /\ Unnumbered(q, H)
  /\ r.files = ChainOf(H[-1]) /\ r.directories = ChainOf(K[-1])

IsSource(q, r, H, K, deq) == StoreOK(q) /\ IsParsed(q, r, H, K, deq)

Appending(s, r, F, G, dep) ==
  /\ StoreOK(s) /\ Numbered(s)
  /\ Forest(s, F, G, dep, {}, {}) /\ Unnumbered(s, F)
  /\ IsState(r) /\ r.selection \in Int
  /\ r.files = ChainOf(F[-1]) /\ r.directories = ChainOf(G[-1])

LEMMA ParsedIs ==
  ASSUME NEW merge, NEW p, Parseable(p, merge), p.status = "done"
  PROVE  \E H, K, deq : IsParsed(p.store, p.stack[1].state, H, K, deq)
<1>1. PICK H, K, deq : Parsing(p, merge, H, K, deq) BY DEF Parseable
<1>2. /\ StoreForm(p.store) /\ StackOK(p.stack, H, K, deq)
      /\ Forest(p.store, H, K, deq, OpenOf(p.stack), {})
      /\ DOMAIN H = {-1} \cup 0..(Len(p.store.directories) - 1)
      /\ Closedown(p.store) /\ OpenOf(p.stack) = {}
  BY <1>1 DEF Parsing
<1>3. Forest(p.store, H, K, deq, {}, {}) BY <1>2
<1>4. Unnumbered(p.store, H)
  <2> SUFFICES ASSUME NEW d \in DOMAIN H \ {-1}
               PROVE  Header(p.store, d).file_uid = 0
    BY DEF Unnumbered
  <2>1. Len(p.store.directories) \in Nat BY <1>2, FormLinks
  <2>2. d + 1 \in 1..Len(p.store.directories) BY <1>2, <2>1
  <2> QED BY <2>2, <1>2 DEF Closedown, Header
<1>5. /\ p.stack[1].state.files = ChainOf(H[-1])
      /\ p.stack[1].state.directories = ChainOf(K[-1])
  <2>1. 1 \in 1..Len(p.stack) /\ OffsetAt(p.stack, 1) = -1
        /\ Holds(p.stack, 1)
    <3>1. Sequential(p.stack) /\ Len(p.stack) >= 1 BY <1>2 DEF StackOK
    <3>2. Len(p.stack) \in Nat BY <3>1, SequentialFacts
    <3>3. 1 \in 1..Len(p.stack) BY <3>1, <3>2
    <3>4. p.stack[1].el = "top" /\ OffsetAt(p.stack, 1) = -1
      BY <3>3, <1>2 DEF StackOK
    <3> QED BY <3>3, <3>4 DEF Holds
  <2>2. StateOK(p.stack[1].state, H, K) BY <2>1, <1>2 DEF StackOK
  <2>3. p.stack[1].state.offset = -1 BY <2>1 DEF OffsetAt
  <2> QED BY <2>2, <2>3 DEF StateOK
<1>6. IsParsed(p.store, p.stack[1].state, H, K, deq)
  BY <1>2, <1>3, <1>4, <1>5 DEF IsParsed
<1> QED BY <1>6

LEMMA SourceIs ==
  ASSUME NEW p, Parseable(p, TRUE), p.status = "done"
  PROVE  \E H, K, deq : IsSource(p.store, p.stack[1].state, H, K, deq)
<1>1. StoreOK(p.store) BY DEF Parseable, Parsing
<1>2. PICK H, K, deq : IsParsed(p.store, p.stack[1].state, H, K, deq)
  BY ParsedIs
<1> QED BY <1>1, <1>2 DEF IsSource

IsExtended(a, c, q, n, m, base, sel) ==
  /\ IsStore(a)
  /\ a.file_records = c.file_records
  /\ a.file_records_position = c.file_records_position
  /\ a.file_index = c.file_index
  /\ a.next_file_uid = c.next_file_uid
  /\ a.directories = c.directories \o RebasedHeaders(q, n, m)
  /\ a.directory_index = c.directory_index \o RebasedEntries(q, m, base, sel)
  /\ a.selection_count = c.selection_count + q.selection_count

LEMMA ExtendedIs ==
  ASSUME NEW c, IsStore(c), NEW q, NEW n, NEW m, NEW base, NEW sel
  PROVE  IsExtended(Extended(c, q, n, m, base, sel), c, q, n, m, base, sel)
<1> DEFINE x == c.directories \o RebasedHeaders(q, n, m)
           y == c.directory_index \o RebasedEntries(q, m, base, sel)
           z == c.selection_count + q.selection_count
           a == Extended(c, q, n, m, base, sel)
<1>1. a = [c EXCEPT !.directories = x, !.directory_index = y,
                    !.selection_count = z]
  BY DEF Extended
<1> HIDE DEF x, y, z, a
<1>2. /\ IsStore(a) /\ a.file_records = c.file_records
      /\ a.file_records_position = c.file_records_position
      /\ a.file_index = c.file_index /\ a.next_file_uid = c.next_file_uid
      /\ a.directories = x /\ a.directory_index = y
      /\ a.selection_count = z
  BY <1>1 DEF IsStore
<1> QED BY <1>2 DEF IsExtended, x, y, z, a

JoinedStore(a, files, f, directories, g) ==
  [a EXCEPT !.file_index = JoinIndex(@, files, f),
            !.directory_index = JoinIndex(@, directories, g)]

IsJoinedStore(t, a, files, f, directories, g) ==
  /\ IsStore(t)
  /\ t.file_records = a.file_records
  /\ t.file_records_position = a.file_records_position
  /\ t.directories = a.directories
  /\ t.selection_count = a.selection_count
  /\ t.next_file_uid = a.next_file_uid
  /\ t.file_index = JoinIndex(a.file_index, files, f)
  /\ t.directory_index = JoinIndex(a.directory_index, directories, g)

LEMMA JoinedStoreIs ==
  ASSUME NEW a, IsStore(a), NEW files, NEW f, NEW directories, NEW g
  PROVE  IsJoinedStore(JoinedStore(a, files, f, directories, g), a, files, f,
                       directories, g)
<1> DEFINE x == JoinIndex(a.file_index, files, f)
           y == JoinIndex(a.directory_index, directories, g)
           t == JoinedStore(a, files, f, directories, g)
<1>1. t = [a EXCEPT !.file_index = x, !.directory_index = y]
  BY DEF JoinedStore
<1> HIDE DEF x, y, t
<1>2. /\ IsStore(t) /\ t.file_records = a.file_records
      /\ t.file_records_position = a.file_records_position
      /\ t.directories = a.directories
      /\ t.selection_count = a.selection_count
      /\ t.next_file_uid = a.next_file_uid
      /\ t.file_index = x /\ t.directory_index = y
  BY <1>1 DEF IsStore
<1> QED BY <1>2 DEF IsJoinedStore, x, y, t

JoinedRoot(r, f, g) ==
  [r EXCEPT !.files = JoinChain(@, f), !.directories = JoinChain(@, g)]

LEMMA JoinedRootIs ==
  ASSUME NEW r, IsState(r), NEW f, NEW g
  PROVE  /\ IsState(JoinedRoot(r, f, g))
         /\ JoinedRoot(r, f, g).selection = r.selection
         /\ JoinedRoot(r, f, g).offset = r.offset
         /\ JoinedRoot(r, f, g).file_uid = r.file_uid
         /\ JoinedRoot(r, f, g).files = JoinChain(r.files, f)
         /\ JoinedRoot(r, f, g).directories = JoinChain(r.directories, g)
<1> DEFINE x == JoinChain(r.files, f)  y == JoinChain(r.directories, g)
           t == JoinedRoot(r, f, g)
<1>1. t = [r EXCEPT !.files = x, !.directories = y] BY DEF JoinedRoot
<1> HIDE DEF x, y, t
<1>2. /\ IsState(t) /\ t.selection = r.selection /\ t.files = x
      /\ t.directories = y /\ t.offset = r.offset
      /\ t.file_uid = r.file_uid
  BY <1>1 DEF IsState
<1> QED BY <1>2 DEF x, y, t

(* append_merge_source, and the two joins that hang the source's root      *)
(* chains below the root of the merge: a forest again.                     *)
IsAppending(s, F, G, dep, q, H, K, deq, t, u) ==
  /\ Appending(t, u, Joint(F, H, Len(s.directories), Len(s.file_index)),
               Joint(G, K, Len(s.directories), Len(s.directory_index)),
               JointDepth(dep, deq, Len(s.directories)))
  /\ Len(t.directories) = Len(s.directories) + Len(q.directories)

LEMMA AppendJoins ==
  ASSUME NEW s, NEW r, NEW F, NEW G, NEW dep, Appending(s, r, F, G, dep),
         NEW q, NEW rq, NEW H, NEW K, NEW deq, IsSource(q, rq, H, K, deq),
         NEW f, f = RebaseChain(rq.files, Len(s.file_index)),
         NEW g, g = RebaseChain(rq.directories, Len(s.directory_index)),
         NEW t, t = JoinedStore(AppendSource(s, q), r.files, f,
                                r.directories, g),
         NEW u, u = JoinedRoot(r, f, g)
  PROVE  IsAppending(s, F, G, dep, q, H, K, deq, t, u)
<1> DEFINE n == Len(s.file_index)  m == Len(s.directory_index)
           base == Len(s.directories)  sel == s.selection_count
           a == AppendSource(s, q)
           F2 == Joint(F, H, base, n)  G2 == Joint(G, K, base, m)
           dep2 == JointDepth(dep, deq, base)
           headers == RebasedHeaders(q, n, m)
           moved == RebasedEntries(q, m, base, sel)
<1>1. /\ StoreOK(s) /\ Numbered(s) /\ Forest(s, F, G, dep, {}, {})
      /\ Unnumbered(s, F) /\ IsState(r) /\ r.selection \in Int
      /\ r.files = ChainOf(F[-1]) /\ r.directories = ChainOf(G[-1])
  BY DEF Appending
<1>2. /\ StoreOK(q) /\ Forest(q, H, K, deq, {}, {}) /\ Unnumbered(q, H)
      /\ rq.files = ChainOf(H[-1]) /\ rq.directories = ChainOf(K[-1])
  BY DEF IsSource, IsParsed
<1>3. /\ n \in Nat /\ m \in Nat /\ base \in Nat
      /\ s.directory_index \in Seq(DirectoryEntries)
      /\ s.file_index \in Seq(FileEntries)
      /\ Sequential(s.directories) /\ sel \in Nat
  BY <1>1, StoreLinks DEF StoreOK, StoreForm
<1>4. /\ Len(q.file_index) \in Nat /\ Len(q.directory_index) \in Nat
      /\ Len(q.directories) \in Nat /\ q.selection_count \in Nat
      /\ Linkable(q.file_index) /\ Linkable(q.directory_index)
  BY <1>2, StoreLinks DEF StoreOK, StoreForm
<1>5. PICK fn : /\ IsCopy(s, q, fn)
                /\ a = Extended(fn[Len(q.file_index)], q, n, m, base, sel)
  BY <1>4, AppendSteps
<1> DEFINE c == fn[Len(q.file_index)]
<1>6. Copied(s, q, c, Len(q.file_index)) BY <1>1, <1>2, <1>5, CopyDone
<1> HIDE DEF c, F2, G2, dep2
<1>7. /\ StoreOK(c) /\ Numbered(c)
      /\ c.directories = s.directories
      /\ c.directory_index = s.directory_index
      /\ c.selection_count = sel
      /\ Len(c.file_index) = n + Len(q.file_index)
      /\ (\A i \in 1..n : c.file_index[i].next = s.file_index[i].next)
      /\ \A i \in 1..Len(q.file_index) :
           c.file_index[n + i].next = Rebase(q.file_index[i].next, n)
  BY <1>6 DEF Copied
<1>8. /\ IsStore(c) /\ c.file_index \in Seq(FileEntries)
      /\ c.next_file_uid \in Nat
  BY <1>7 DEF StoreOK, StoreForm
<1>9. IsExtended(a, c, q, n, m, base, sel)
  <2>1. a = Extended(c, q, n, m, base, sel) BY <1>5 DEF c
  <2> HIDE DEF n, m, base, sel
  <2> QED BY <2>1, <1>8, ExtendedIs
<1>10. /\ IsStore(a) /\ a.file_records = c.file_records
       /\ a.file_records_position = c.file_records_position
       /\ a.file_index = c.file_index /\ a.next_file_uid = c.next_file_uid
       /\ a.directories = s.directories \o headers
       /\ a.directory_index = s.directory_index \o moved
       /\ a.selection_count = sel + q.selection_count
  BY <1>7, <1>9 DEF IsExtended
<1>11. /\ IsStore(t) /\ t.file_records = c.file_records
       /\ t.file_records_position = c.file_records_position
       /\ t.directories = s.directories \o headers
       /\ t.selection_count = sel + q.selection_count
       /\ t.next_file_uid = c.next_file_uid
       /\ t.file_index = JoinIndex(c.file_index, r.files, f)
       /\ t.directory_index =
            JoinIndex(s.directory_index \o moved, r.directories, g)
  <2>1. IsJoinedStore(t, a, r.files, f, r.directories, g)
    <3>1. t = JoinedStore(a, r.files, f, r.directories, g) OBVIOUS
    <3> HIDE DEF a
    <3> QED BY <3>1, <1>10, JoinedStoreIs
  <2> QED BY <2>1, <1>10 DEF IsJoinedStore
<1>12. /\ -1 \in DOMAIN F /\ DOMAIN G = DOMAIN F
       /\ DOMAIN F \subseteq {-1} \cup 0..(base - 1)
       /\ (\A x \in DOMAIN F \ {-1} : x \in 0..(base - 1))
       /\ \A x \in DOMAIN F : F[x] \in Seq(Nat) /\ G[x] \in Seq(Nat)
  BY <1>1, ForestOwners
<1>13. /\ -1 \in DOMAIN H /\ DOMAIN K = DOMAIN H
       /\ DOMAIN H \subseteq {-1} \cup 0..(Len(q.directories) - 1)
       /\ (\A x \in DOMAIN H \ {-1} : x \in 0..(Len(q.directories) - 1))
       /\ \A x \in DOMAIN H : H[x] \in Seq(Nat) /\ K[x] \in Seq(Nat)
  BY <1>2, ForestOwners
<1>14. TwoOwners(F, H, base) /\ TwoOwners(G, K, base)
  <2>1. DOMAIN H \subseteq {-1} \cup Nat BY <1>13, <1>4
  <2> QED BY <2>1, <1>3, <1>12, <1>13 DEF TwoOwners
<1>15. Lists(s.file_index, F) /\ Lists(s.directory_index, G)
       /\ Lists(q.file_index, H) /\ Lists(q.directory_index, K)
  BY <1>1, <1>2, Zenon DEF Forest
<1>16. f = RebaseChain(ChainOf(H[-1]), n) /\ g = RebaseChain(ChainOf(K[-1]), m)
  BY <1>2
<1>17. IsRebased(q, m, base, sel, moved)
  <2> HIDE DEF m, base, sel
  <2> QED BY <1>2, <1>3, RebasedEntriesAre
<1>18. Headed(q, n, m, headers) BY <1>2, RebasedHeadersAre
<1> HIDE DEF n, m, base, sel, headers, moved
<1>19. /\ t.file_index \in Seq(FileEntries)
       /\ Relinked(c.file_index, t.file_index)
       /\ Lists(t.file_index, F2)
  <2>1. t.file_index = JoinIndex(c.file_index, ChainOf(F[-1]),
                                 RebaseChain(ChainOf(H[-1]), n))
    BY <1>1, <1>11, <1>16
  <2>2. Len(c.file_index) = Len(s.file_index) + Len(q.file_index)
        /\ (\A k \in 1..Len(s.file_index) :
              c.file_index[k].next = s.file_index[k].next)
        /\ \A k \in 1..Len(q.file_index) :
             c.file_index[Len(s.file_index) + k].next =
               Rebase(q.file_index[k].next, Len(s.file_index))
    BY <1>7 DEF n
  <2> QED BY <2>1, <2>2, <1>3, <1>4, <1>8, <1>14, <1>15, FileLinks,
             JointLists DEF F2, n
<1>20. /\ moved \in Seq(DirectoryEntries)
       /\ Len(moved) = Len(q.directory_index)
       /\ \A k \in 1..Len(q.directory_index) :
            /\ moved[k].next = Rebase(q.directory_index[k].next, m)
            /\ moved[k].record_offset
                 = q.directory_index[k].record_offset + base
  BY <1>17 DEF IsRebased
<1> DEFINE long == s.directory_index \o moved
<1>21. /\ long \in Seq(DirectoryEntries)
       /\ Len(long) = m + Len(q.directory_index)
       /\ (\A k \in 1..m : long[k] = s.directory_index[k])
       /\ \A k \in 1..Len(q.directory_index) : long[m + k] = moved[k]
  <2>1. IsConcat(DirectoryEntries, s.directory_index, moved, long)
    BY <1>3, <1>20, ConcatFacts
  <2> HIDE DEF long
  <2>2. /\ long \in Seq(DirectoryEntries)
        /\ Len(long) = m + Len(moved)
        /\ \A k \in 1..(m + Len(moved)) :
             long[k] = IF k <= m THEN s.directory_index[k] ELSE moved[k - m]
    BY <2>1 DEF IsConcat, m
  <2>3. \A k \in 1..m : long[k] = s.directory_index[k]
    <3> SUFFICES ASSUME NEW k \in 1..m PROVE long[k] = s.directory_index[k]
      OBVIOUS
    <3>1. Len(moved) \in Nat /\ m \in Nat BY <1>3, <1>4, <1>20
    <3>2. k \in 1..(m + Len(moved)) /\ k <= m BY <3>1
    <3> QED BY <3>2, <2>2
  <2>4. ASSUME NEW k \in 1..Len(q.directory_index)
        PROVE  long[m + k] = moved[k]
    <3>1. m + k \in 1..(m + Len(moved)) /\ ~(m + k <= m) /\ (m + k) - m = k
      BY <1>3, <1>4, <1>20
    <3> QED BY <3>1, <2>2
  <2> QED BY <2>2, <2>3, <2>4, <1>20
<1> HIDE DEF long
<1>22. /\ t.directory_index \in Seq(DirectoryEntries)
       /\ Relinked(long, t.directory_index)
       /\ Lists(t.directory_index, G2)
  <2>1. t.directory_index = JoinIndex(long, ChainOf(G[-1]),
                                      RebaseChain(ChainOf(K[-1]), m))
    BY <1>1, <1>11, <1>16 DEF long
  <2>2. Len(long) = Len(s.directory_index) + Len(q.directory_index)
        /\ (\A k \in 1..Len(s.directory_index) :
              long[k].next = s.directory_index[k].next)
        /\ \A k \in 1..Len(q.directory_index) :
             long[Len(s.directory_index) + k].next =
               Rebase(q.directory_index[k].next, Len(s.directory_index))
    BY <1>20, <1>21 DEF m
  <2>3. /\ Linkable(q.directory_index) /\ TwoOwners(G, K, base)
        /\ Lists(s.directory_index, G) /\ Lists(q.directory_index, K)
        /\ s.directory_index \in Seq(DirectoryEntries)
        /\ long \in Seq(DirectoryEntries)
    BY <1>3, <1>4, <1>14, <1>15, <1>21
  <2> QED BY <2>1, <2>2, <2>3, DirectoryLinks, JointLists DEF G2, m
<1>23. /\ Sequential(headers) /\ Len(headers) = Len(q.directories)
       /\ \A d \in 1..Len(q.directories) :
            d - 1 \in Indexed(q) =>
              headers[d] = RebaseHeader(q.directories[d], n, m)
  BY <1>18 DEF Headed
<1>24. /\ Sequential(t.directories)
       /\ Len(t.directories) = base + Len(q.directories)
       /\ (\A k \in 1..base : t.directories[k] = s.directories[k])
       /\ \A k \in 1..Len(q.directories) : t.directories[base + k] = headers[k]
  <2>1. IsJoin(s.directories, headers, t.directories)
    BY <1>3, <1>11, <1>23, SequentialConcat
  <2> QED BY <2>1, <1>23 DEF IsJoin, base
<1>25. ASSUME NEW d \in DOMAIN H \ {-1}
       PROVE  t.directories[base + d + 1] =
                RebaseHeader(q.directories[d + 1], n, m)
  <2>1. d \in 0..(Len(q.directories) - 1) BY <1>13
  <2>2. d + 1 \in 1..Len(q.directories) /\ (d + 1) - 1 = d
        /\ base + (d + 1) = base + d + 1
    <3> DEFINE l == Len(q.directories)
    <3>1. d \in 0..(l - 1) /\ l \in Nat /\ base \in Nat
      BY <2>1, <1>3, <1>4
    <3> HIDE DEF l
    <3>2. /\ d + 1 \in 1..l /\ (d + 1) - 1 = d
          /\ base + (d + 1) = base + d + 1
      BY <3>1
    <3> QED BY <3>2 DEF l
  <2>3. d \in Indexed(q)
    <3>1. Reached(q, K, {}) BY <1>2, Zenon DEF Forest
    <3>2. d \in DOMAIN K \ ({-1} \cup {}) BY <1>13
    <3>3. PICK x \in DOMAIN K : \E k \in 1..Len(K[x]) :
                                   DirectoryAt(q, K[x][k]) = d
      BY <3>1, <3>2 DEF Reached
    <3>4. PICK k \in 1..Len(K[x]) : DirectoryAt(q, K[x][k]) = d BY <3>3
    <3>5. K[x][k] + 1 \in 1..Len(q.directory_index)
      BY <1>4, <1>15, ListEntry
    <3>6. DOMAIN q.directory_index = 1..Len(q.directory_index)
      BY <1>4 DEF Linkable
    <3> QED BY <3>4, <3>5, <3>6 DEF Indexed, DirectoryAt
  <2> QED BY <2>2, <2>3, <1>23, <1>24
<1>26. /\ Len(t.directory_index) = m + Len(q.directory_index)
       /\ (\A k \in 1..m : t.directory_index[k].record_offset
                             = s.directory_index[k].record_offset)
       /\ \A k \in 1..Len(q.directory_index) :
            t.directory_index[m + k].record_offset
              = q.directory_index[k].record_offset + base
  <2>1. /\ Len(t.directory_index) = Len(long)
        /\ \A k \in 1..Len(long) :
             t.directory_index[k].record_offset = long[k].record_offset
    BY <1>21, <1>22, RelinkedDirectories
  <2>2. \A k \in 1..m : k \in 1..Len(long) BY <1>3, <1>4, <1>21
  <2>3. \A k \in 1..Len(q.directory_index) : m + k \in 1..Len(long)
    BY <1>3, <1>4, <1>21
  <2> QED BY <2>1, <2>2, <2>3, <1>20, <1>21
<1>27. IsSameFiles(c, t)
  <2>1. t.selection_count \in Nat /\ t.next_file_uid \in Nat
    BY <1>3, <1>4, <1>8, <1>11
  <2> QED BY <2>1, <1>7, <1>11, <1>19, <1>22, <1>24, StoreRelinked
<1>28. /\ StoreOK(t) /\ Len(t.file_index) = n + Len(q.file_index)
       /\ Numbered(t)
  BY <1>7, <1>11, <1>27 DEF IsSameFiles, Numbered
<1>29. IsBeside(s, q, t, F, G, H, K)
  BY <1>19, <1>22, <1>24, <1>25, <1>26, <1>28
     DEF IsBeside, F2, G2, n, m, base
<1>30. Forest(t, F2, G2, dep2, {}, {})
  BY <1>1, <1>2, <1>29, ForestJoint DEF F2, G2, dep2, n, m, base
<1>31. IsJoint(F, H, base, n, F2) /\ IsJoint(G, K, base, m, G2)
  BY <1>3, <1>14, JointIs DEF F2, G2
<1>32. Unnumbered(t, F2)
  <2> SUFFICES ASSUME NEW d \in DOMAIN F2 \ {-1}
               PROVE  Header(t, d).file_uid = 0
    BY DEF Unnumbered
  <2>1. CASE d \in DOMAIN F
    <3>1. d \in 0..(base - 1) BY <2>1, <1>12
    <3>2. d + 1 \in 1..base BY <3>1, <1>3
    <3> QED BY <3>2, <2>1, <1>1, <1>24 DEF Unnumbered, Header
  <2>2. CASE d \notin DOMAIN F
    <3>1. PICK e \in DOMAIN H : d = Over(e, base) BY <2>2, <1>31 DEF IsJoint
    <3>2. e # -1 /\ d = e + base BY <3>1 DEF Over
    <3>3. e \in 0..(Len(q.directories) - 1) BY <3>2, <1>13
    <3>4. d + 1 = base + e + 1 BY <3>2, <3>3, <1>3
    <3>5. Header(t, d) = RebaseHeader(Header(q, e), n, m)
      BY <3>2, <3>4, <1>25 DEF Header
    <3>6. Heads(q, H, K, {}, {}) BY <1>2, Zenon DEF Forest
    <3>7. HeadOf(Header(q, e), H[e], K[e]) BY <3>2, <3>6 DEF Heads
    <3>8. H[e] \in Seq(Nat) /\ K[e] \in Seq(Nat) BY <1>13
    <3>9. Header(t, d).file_uid = Header(q, e).file_uid
      BY <3>5, <3>7, <3>8, <1>3, RebasedHead
    <3> QED BY <3>2, <3>9, <1>2 DEF Unnumbered
  <2> QED BY <2>1, <2>2
<1>33. /\ IsState(u)
       /\ u.selection \in Int
       /\ u.files = JoinChain(ChainOf(F[-1]), f)
       /\ u.directories = JoinChain(ChainOf(G[-1]), g)
  BY <1>1, JoinedRootIs
<1>34. /\ f = ChainOf(Up(H[-1], n)) /\ Up(H[-1], n) \in Seq(Nat)
       /\ g = ChainOf(Up(K[-1], m)) /\ Up(K[-1], m) \in Seq(Nat)
  BY <1>3, <1>13, <1>16, UpSeq
<1>35. /\ JoinChain(ChainOf(F[-1]), f) = ChainOf(F2[-1])
       /\ JoinChain(ChainOf(G[-1]), g) = ChainOf(G2[-1])
  <2>1. F2[-1] = F[-1] \o Up(H[-1], n) /\ G2[-1] = G[-1] \o Up(K[-1], m)
    BY <1>31 DEF IsJoint
  <2>2. F[-1] \in Seq(Nat) /\ G[-1] \in Seq(Nat) BY <1>12
  <2> QED BY <2>1, <2>2, <1>34, ChainJoined
<1>36. Appending(t, u, F2, G2, dep2)
  BY <1>28, <1>30, <1>32, <1>33, <1>35 DEF Appending
<1>37. Len(t.directories) = Len(s.directories) + Len(q.directories)
  BY <1>29 DEF IsBeside
<1> QED BY <1>36, <1>37 DEF IsAppending, F2, G2, dep2, n, m, base

(***************************************************************************)
(* A duplicate is merged: where each place of the chains goes.             *)
(***************************************************************************)
HasJoined(F, p, c, J) ==
  /\ DOMAIN J = DOMAIN F \ {c}
  /\ J[p] = F[p] \o F[c]
  /\ \A x \in DOMAIN F \ {p, c} : J[x] = F[x]
  /\ \A x \in DOMAIN J : \A k \in 1..Len(J[x]) :
       \E y \in DOMAIN F : \E j \in 1..Len(F[y]) :
         F[y][j] = J[x][k] /\ (y = x \/ (x = p /\ y = c))
  /\ \A y \in DOMAIN F : \A j \in 1..Len(F[y]) :
       \E x \in DOMAIN J : \E k \in 1..Len(J[x]) :
         J[x][k] = F[y][j] /\ x = IF y = c THEN p ELSE y

LEMMA JoinedPlaces ==
  ASSUME NEW F, NEW p \in DOMAIN F, NEW c \in DOMAIN F, p # c,
         F[p] \in Seq(Nat), F[c] \in Seq(Nat)
  PROVE  HasJoined(F, p, c, Joined(F, p, c))
<1> DEFINE J == Joined(F, p, c)  a == F[p]  b == F[c]
<1>1. /\ DOMAIN J = DOMAIN F \ {c} /\ J[p] = a \o b
      /\ \A x \in DOMAIN F \ {p, c} : J[x] = F[x]
  BY DEF Joined
<1>2. /\ Len(a) \in Nat /\ Len(b) \in Nat
      /\ Len(a \o b) = Len(a) + Len(b)
      /\ \A i \in 1..(Len(a) + Len(b)) :
           (a \o b)[i] = IF i <= Len(a) THEN a[i] ELSE b[i - Len(a)]
  <2> HIDE DEF a, b
  <2>1. a \in Seq(Nat) /\ b \in Seq(Nat) BY DEF a, b
  <2> QED BY <2>1, ConcatProperties, LenProperties
<1> HIDE DEF J
<1>3. ASSUME NEW x \in DOMAIN J, NEW k \in 1..Len(J[x])
      PROVE  \E y \in DOMAIN F : \E j \in 1..Len(F[y]) :
               F[y][j] = J[x][k] /\ (y = x \/ (x = p /\ y = c))
  <2>1. CASE x # p BY <2>1, <1>1
  <2>2. CASE x = p
    <3>1. J[x] = a \o b /\ k \in 1..(Len(a) + Len(b)) BY <2>2, <1>1, <1>2
    <3>2. CASE k <= Len(a)
      <4>1. k \in 1..Len(a) /\ (a \o b)[k] = a[k] BY <3>1, <3>2, <1>2
      <4> QED BY <4>1, <3>1, <2>2
    <3>3. CASE ~(k <= Len(a))
      <4> DEFINE i == k - Len(a)
      <4>1. i \in 1..Len(b) /\ (a \o b)[k] = b[i] BY <3>1, <3>3, <1>2
      <4> HIDE DEF i
      <4> QED BY <4>1, <3>1, <2>2
    <3> QED BY <3>2, <3>3
  <2> QED BY <2>1, <2>2
<1>4. ASSUME NEW y \in DOMAIN F, NEW j \in 1..Len(F[y])
      PROVE  \E x \in DOMAIN J : \E k \in 1..Len(J[x]) :
               J[x][k] = F[y][j] /\ x = IF y = c THEN p ELSE y
  <2>1. CASE y \notin {p, c} BY <2>1, <1>1
  <2>2. CASE y = p
    <3>1. j \in 1..Len(a) /\ j \in 1..(Len(a) + Len(b)) /\ j <= Len(a)
      BY <2>2, <1>2
    <3>2. J[p][j] = F[p][j] /\ j \in 1..Len(J[p]) /\ p \in DOMAIN J
      BY <3>1, <1>1, <1>2
    <3> QED BY <2>2, <3>2
  <2>3. CASE y = c
    <3> DEFINE i == Len(a) + j
    <3>1. /\ j \in 1..Len(b) /\ i \in 1..(Len(a) + Len(b))
          /\ ~(i <= Len(a)) /\ i - Len(a) = j
      <4> DEFINE la == Len(a)  lb == Len(b)
      <4>1. la \in Nat /\ lb \in Nat /\ j \in 1..lb BY <2>3, <1>2
      <4> HIDE DEF la, lb
      <4>2. /\ la + j \in 1..(la + lb) /\ ~(la + j <= la)
            /\ (la + j) - la = j
        BY <4>1
      <4> QED BY <4>1, <4>2 DEF la, lb
    <3>2. (a \o b)[i] = b[j]
      <4> HIDE DEF i, a, b
      <4> QED BY <3>1, <1>2
    <3>3. i \in 1..Len(J[p]) /\ p \in DOMAIN J /\ J[p][i] = F[c][j]
      BY <3>1, <3>2, <1>1, <1>2
    <3> HIDE DEF i
    <3> QED BY <2>3, <3>3
  <2> QED BY <2>1, <2>2, <2>3
<1> QED BY <1>1, <1>3, <1>4 DEF HasJoined, J

HasCut(G, d, q, C) ==
  /\ DOMAIN C = DOMAIN G
  /\ C[d] = Without(G[d], q)
  /\ \A x \in DOMAIN G \ {d} : C[x] = G[x]
  /\ \A k \in 1..Len(C[d]) :
       \E j \in 1..Len(G[d]) : j # q /\ C[d][k] = G[d][j]
  /\ \A j \in 1..Len(G[d]) :
       j # q => \E k \in 1..Len(C[d]) : C[d][k] = G[d][j]

LEMMA CutPlaces ==
  ASSUME NEW G, NEW d \in DOMAIN G, G[d] \in Seq(Nat), NEW q \in 1..Len(G[d])
  PROVE  HasCut(G, d, q, Cut(G, d, q))
<1> DEFINE C == Cut(G, d, q)  s == G[d]  n == Len(s)
<1>1. /\ DOMAIN C = DOMAIN G /\ C[d] = Without(s, q)
      /\ \A x \in DOMAIN G \ {d} : C[x] = G[x]
  BY DEF Cut
<1>2. /\ n \in Nat /\ Len(Without(s, q)) = n - 1
      /\ \A k \in 1..(n - 1) :
           Without(s, q)[k] = IF k < q THEN s[k] ELSE s[k + 1]
  BY WithoutSeq, LenProperties
<1> HIDE DEF C
<1>3. q \in 1..n OBVIOUS
<1>4. ASSUME NEW k \in 1..Len(C[d])
      PROVE  \E j \in 1..n : j # q /\ C[d][k] = s[j]
  <2>0. k \in 1..(n - 1) BY <1>1, <1>2
  <2> HIDE DEF n
  <2>1. CASE k < q
    <3>1. k \in 1..n /\ k # q BY <2>0, <2>1, <1>2
    <3> QED BY <3>1, <2>0, <2>1, <1>1, <1>2
  <2>2. CASE ~(k < q)
    <3>1. k + 1 \in 1..n /\ k + 1 # q BY <2>0, <2>2, <1>2, <1>3
    <3> QED BY <3>1, <2>0, <2>2, <1>1, <1>2
  <2> QED BY <2>1, <2>2
<1>5. ASSUME NEW j \in 1..n, j # q
      PROVE  \E k \in 1..Len(C[d]) : C[d][k] = s[j]
  <2> HIDE DEF n
  <2>1. CASE j < q
    <3>1. j \in 1..(n - 1) BY <2>1, <1>2, <1>3
    <3>2. C[d][j] = s[j] /\ j \in 1..Len(C[d]) BY <3>1, <2>1, <1>1, <1>2
    <3> QED BY <3>2
  <2>2. CASE ~(j < q)
    <3> DEFINE k == j - 1
    <3>1. k \in 1..(n - 1) /\ ~(k < q) /\ k + 1 = j
      BY <2>2, <1>2, <1>3, <1>5
    <3> HIDE DEF k
    <3>2. C[d][k] = s[j] /\ k \in 1..Len(C[d]) BY <3>1, <1>1, <1>2
    <3> QED BY <3>2
  <2> QED BY <2>1, <2>2
<1> QED BY <1>1, <1>4, <1>5 DEF HasCut, C

(* Both at once: c's chain joins p's, and c's entry leaves the chain of d. *)
HasTaken(G, p, c, d, q, T) ==
  /\ DOMAIN T = DOMAIN G \ {c}
  /\ T[p] = G[p] \o G[c]
  /\ T[d] = Without(G[d], q)
  /\ \A x \in DOMAIN G \ {p, c, d} : T[x] = G[x]
  /\ \A x \in DOMAIN T : \A k \in 1..Len(T[x]) :
       \E y \in DOMAIN G : \E j \in 1..Len(G[y]) :
         /\ G[y][j] = T[x][k] /\ (y = x \/ (x = p /\ y = c))
         /\ (y # d \/ j # q)
  /\ \A y \in DOMAIN G : \A j \in 1..Len(G[y]) :
       (y # d \/ j # q) =>
         \E x \in DOMAIN T : \E k \in 1..Len(T[x]) : T[x][k] = G[y][j]

LEMMA TakenPlaces ==
  ASSUME NEW G, NEW p \in DOMAIN G, NEW c \in DOMAIN G, NEW d \in DOMAIN G,
         p # c, d # p, d # c,
         G[p] \in Seq(Nat), G[c] \in Seq(Nat), G[d] \in Seq(Nat),
         NEW q \in 1..Len(G[d])
  PROVE  HasTaken(G, p, c, d, q, Cut(Joined(G, p, c), d, q))
<1> DEFINE J == Joined(G, p, c)  T == Cut(J, d, q)
<1>1. HasJoined(G, p, c, J) BY JoinedPlaces
<1> HIDE DEF J
<1>2. d \in DOMAIN J /\ J[d] = G[d] BY <1>1 DEF HasJoined
<1>3. HasCut(J, d, q, T) BY <1>2, CutPlaces
<1> HIDE DEF T
<1>4. /\ DOMAIN J = DOMAIN G \ {c}
      /\ J[p] = G[p] \o G[c]
      /\ \A x \in DOMAIN G \ {p, c} : J[x] = G[x]
      /\ DOMAIN T = DOMAIN J
      /\ T[d] = Without(J[d], q)
      /\ \A x \in DOMAIN J \ {d} : T[x] = J[x]
  BY <1>1, <1>3 DEF HasJoined, HasCut
<1>5. ASSUME NEW x \in DOMAIN T, NEW k \in 1..Len(T[x])
      PROVE  \E y \in DOMAIN G : \E j \in 1..Len(G[y]) :
               /\ G[y][j] = T[x][k] /\ (y = x \/ (x = p /\ y = c))
               /\ (y # d \/ j # q)
  <2>1. CASE x = d
    <3>1. PICK j \in 1..Len(J[d]) : j # q /\ T[d][k] = J[d][j]
      BY <2>1, <1>3 DEF HasCut
    <3> QED BY <3>1, <2>1, <1>2
  <2>2. CASE x # d
    <3>1. T[x] = J[x] /\ x \in DOMAIN J BY <2>2, <1>4
    <3>2. \E y \in DOMAIN G : \E j \in 1..Len(G[y]) :
            G[y][j] = J[x][k] /\ (y = x \/ (x = p /\ y = c))
      BY <3>1, <1>1 DEF HasJoined
    <3> QED BY <2>2, <3>1, <3>2
  <2> QED BY <2>1, <2>2
<1>6. ASSUME NEW y \in DOMAIN G, NEW j \in 1..Len(G[y]), y # d \/ j # q
      PROVE  \E x \in DOMAIN T : \E k \in 1..Len(T[x]) : T[x][k] = G[y][j]
  <2>1. CASE y = d
    <3>1. \E k \in 1..Len(T[d]) : T[d][k] = J[d][j]
      BY <2>1, <1>2, <1>3, <1>6 DEF HasCut
    <3> QED BY <3>1, <2>1, <1>2, <1>4
  <2>2. CASE y # d
    <3>1. \E x \in DOMAIN J : \E k \in 1..Len(J[x]) :
            J[x][k] = G[y][j] /\ x = IF y = c THEN p ELSE y
      BY <1>1 DEF HasJoined
    <3>2. PICK x \in DOMAIN J : \E k \in 1..Len(J[x]) :
            J[x][k] = G[y][j] /\ x = IF y = c THEN p ELSE y
      BY <3>1
    <3>3. x # d BY <3>2, <2>2
    <3> QED BY <3>2, <3>3, <1>4
  <2> QED BY <2>1, <2>2
<1> QED BY <1>2, <1>4, <1>5, <1>6 DEF HasTaken, T, J

(***************************************************************************)
(* Which documents parse.  Of the parser only the kinds of the frames on   *)
(* its stack matter here.                                                  *)
(***************************************************************************)

Standing(stack) ==
  /\ Sequential(stack) /\ Len(stack) >= 1 /\ stack[1].el = "top"
  /\ \A k \in 1..Len(stack) : IsFrame(stack[k])

Alike(stack, new) ==
  /\ Sequential(new) /\ Len(new) = Len(stack)
  /\ \A k \in 1..Len(stack) : IsFrame(new[k]) /\ new[k].el = stack[k].el

(* q is p with a stack of the same kinds as stack.                         *)
Moved(p, q, stack) ==
  /\ IsParser(q) /\ q.status = p.status /\ q.merge = p.merge
  /\ Alike(stack, q.stack)

(* q is p with one more frame.                                             *)
Pushed(p, q, el) ==
  /\ IsParser(q) /\ q.status = p.status /\ q.merge = p.merge
  /\ Sequential(q.stack) /\ Len(q.stack) = Len(p.stack) + 1
  /\ \A k \in 1..Len(p.stack) : q.stack[k] = p.stack[k]
  /\ IsFrame(q.stack[Len(p.stack) + 1]) /\ q.stack[Len(p.stack) + 1].el = el

LEMMA FrameIs ==
  ASSUME NEW el, NEW st
  PROVE  IsFrame(Frame(el, st)) /\ Frame(el, st).el = el
BY DEF IsFrame, Frame

LEMMA StandingOwner ==
  ASSUME NEW p, Standing(p.stack)
  PROVE  Owner(p) \in 1..Len(p.stack)
<1> DEFINE stack == p.stack
           T == {k \in 1..Len(stack) : stack[k].el \in {"top", "directory"}}
<1>1. Len(stack) \in Nat /\ DOMAIN stack = 1..Len(stack) /\ Len(stack) >= 1
  BY SequentialFacts DEF Standing
<1>2. 1 \in T BY <1>1 DEF Standing
<1>3. \E x \in T : \A y \in T : y <= x
  <2>1. T \subseteq 1..Len(stack) /\ T # {} BY <1>2
  <2> HIDE DEF T, stack
  <2> QED BY <1>1, <2>1, LargestNat
<1>4. \E k \in DOMAIN stack :
        /\ stack[k].el \in {"top", "directory"}
        /\ \A j \in DOMAIN stack :
             stack[j].el \in {"top", "directory"} => j <= k
  BY <1>1, <1>3
<1>5. Owner(p) \in DOMAIN stack BY <1>4 DEF Owner
<1> QED BY <1>1, <1>5

LEMMA ReplaceMoves ==
  ASSUME NEW p, IsParser(p), Standing(p.stack),
         NEW o \in 1..Len(p.stack), NEW A, NEW B
  PROVE  Moved(p, Replace(p, o, A, B), p.stack)
<1> DEFINE f == Frame(p.stack[o].el, B)
           new == [p.stack EXCEPT ![o] = f]
           q == With(p, p.status, A, new)
<1>1. Replace(p, o, A, B) = q BY ParserReplace DEF Standing
<1>2. IsWith(q, p, p.status, A, new) BY WithFields, Zenon
<1>3. IsReplaced(p.stack, o, f, new)
  BY SequentialExcept, Zenon DEF Standing
<1>4. IsFrame(f) /\ f.el = p.stack[o].el BY FrameIs, Zenon
<1> HIDE DEF f, new, q
<1>5. Alike(p.stack, new) BY <1>3, <1>4 DEF IsReplaced, Alike, Standing
<1>6. Moved(p, q, p.stack) BY <1>2, <1>5 DEF IsWith, Moved
<1> QED BY <1>1, <1>6

LEMMA FileMoves ==
  ASSUME NEW p, IsParser(p), Standing(p.stack),
         NEW file, NEW length, NEW offset, NEW written
  PROVE  Moved(p, AddFile(p, file, length, offset, written), p.stack)
<1>1. PICK A, B : AddFile(p, file, length, offset, written)
                    = Replace(p, Owner(p), A, B)
  BY DEF AddFile, Replace
<1> QED BY <1>1, StandingOwner, ReplaceMoves

LEMMA PushGrows ==
  ASSUME NEW p, IsParser(p), Standing(p.stack), NEW el, NEW st
  PROVE  Pushed(p, Push(p, el, st), el)
<1> DEFINE f == Frame(el, st)  new == Append(p.stack, f)
           q == With(p, p.status, p.store, new)
<1>1. Push(p, el, st) = q BY ParserSteps
<1>2. IsWith(q, p, p.status, p.store, new) BY WithFields, Zenon
<1>3. IsLonger(p.stack, f, new) BY SequentialAppend, Zenon DEF Standing
<1>4. IsFrame(f) /\ f.el = el BY FrameIs, Zenon
<1> HIDE DEF f, new, q
<1>5. Pushed(p, q, el) BY <1>2, <1>3, <1>4 DEF IsWith, IsLonger, Pushed
<1> QED BY <1>1, <1>5

LEMMA OpenGrows ==
  ASSUME NEW p, IsParser(p), Standing(p.stack)
  PROVE  Pushed(p, OpenDirectory(p), "directory")
<1> DEFINE q == [p EXCEPT !.store = BeginDirectory(p.store)]
<1>1. /\ IsParser(q) /\ q.stack = p.stack /\ q.status = p.status
      /\ q.merge = p.merge
  BY DEF IsParser
<1>2. OpenDirectory(p) = Push(q, "directory", DirectoryState(p.store))
  BY DEF OpenDirectory
<1> HIDE DEF q
<1>3. Pushed(q, Push(q, "directory", DirectoryState(p.store)), "directory")
  BY <1>1, PushGrows
<1> QED BY <1>1, <1>2, <1>3 DEF Pushed

LEMMA PushedStands ==
  ASSUME NEW p, Standing(p.stack), NEW q, NEW el, Pushed(p, q, el)
  PROVE  Standing(q.stack)
<1>1. Len(p.stack) \in Nat BY SequentialFacts DEF Standing
<1>2. \A k \in 1..Len(q.stack) :
        k \in 1..Len(p.stack) \/ k = Len(p.stack) + 1
  BY <1>1 DEF Pushed
<1> QED BY <1>1, <1>2 DEF Pushed, Standing

LEMMA FrontStands ==
  ASSUME NEW stack, Standing(stack), Len(stack) >= 2
  PROVE  /\ Standing(Front(stack)) /\ Len(Front(stack)) = Len(stack) - 1
         /\ Last(stack) = stack[Len(stack)]
         /\ \A k \in 1..(Len(stack) - 1) : Front(stack)[k] = stack[k]
<1>1. Len(stack) \in Nat BY SequentialFacts DEF Standing
<1>2. stack # <<>>
  <2> SUFFICES ASSUME stack = <<>> PROVE FALSE OBVIOUS
  <2>1. Len(<<>>) = 0 OBVIOUS
  <2> QED BY <2>1
<1>3. IsShorter(stack, Front(stack)) /\ Last(stack) = stack[Len(stack)]
  BY <1>2, SequentialFront DEF Standing
<1>4. 1 \in 1..(Len(stack) - 1) /\ Len(stack) - 1 >= 1
      /\ \A k \in 1..(Len(stack) - 1) : k \in 1..Len(stack)
  BY <1>1
<1> QED BY <1>3, <1>4 DEF IsShorter, Standing

LEMMA LastStands ==
  ASSUME NEW stack, Standing(stack)
  PROVE  Last(stack) = stack[Len(stack)]
BY DEF Last

LEMMA PopMoves ==
  ASSUME NEW p, IsParser(p), Standing(p.stack), Len(p.stack) >= 2
  PROVE  Moved(p, Pop(p), Front(p.stack)) /\ Pop(p).stack = Front(p.stack)
<1> DEFINE new == Front(p.stack)  q == With(p, p.status, p.store, new)
<1>1. Pop(p) = q BY ParserSteps
<1>2. IsWith(q, p, p.status, p.store, new) BY WithFields, Zenon
<1>3. Standing(new) BY FrontStands
<1> HIDE DEF new, q
<1>4. Moved(p, q, new)
  BY <1>2, <1>3 DEF IsWith, Standing, Moved, Alike
<1> QED BY <1>1, <1>2, <1>4 DEF new, IsWith

LEMMA CloseMoves ==
  ASSUME NEW p, IsParser(p), Standing(p.stack), Len(p.stack) >= 2
  PROVE  Moved(p, CloseDirectory(p), Front(p.stack))
<1> DEFINE q == Pop(p)
<1>1. /\ IsParser(q) /\ q.status = p.status /\ q.merge = p.merge
      /\ q.stack = Front(p.stack)
  BY PopMoves DEF Moved
<1>2. Standing(q.stack) BY <1>1, FrontStands
<1>3. PICK A, B : CloseDirectory(p) = Replace(q, Owner(q), A, B)
  BY DEF CloseDirectory, Replace
<1> HIDE DEF q
<1>4. Owner(q) \in 1..Len(q.stack) BY <1>2, StandingOwner
<1>5. Moved(q, Replace(q, Owner(q), A, B), q.stack)
  BY <1>1, <1>2, <1>4, ReplaceMoves
<1> QED BY <1>1, <1>3, <1>5 DEF Moved

(* The parser is n elements deep in the one whose frame, of kind el, is    *)
(* the L-th of the stack; when that one is closed the document is parsed.  *)
Inner(el) == IF el = "scan" THEN {"scan"}
             ELSE {"directory", "contents", "skip"}

Descended(p, L, el, n) ==
  /\ IsParser(p) /\ Standing(p.stack) /\ p.status = "reading"
  /\ L \in Nat /\ L >= 2 /\ (el # "flat" => L = 2)
  /\ n \in Nat /\ n >= 1
  /\ el \in {"ltfsindex", "directory", "flat", "scan"}
  /\ Len(p.stack) = L - 1 + n
  /\ p.stack[L].el = el
  /\ \A k \in (L + 1)..Len(p.stack) : p.stack[k].el \in Inner(el)

LEMMA DescentKept ==
  ASSUME NEW p, NEW L, NEW el, NEW n, Descended(p, L, el, n),
         NEW q, Moved(p, q, p.stack)
  PROVE  Descended(q, L, el, n)
<1>1. /\ \A k \in (L + 1)..Len(p.stack) : k \in 1..Len(p.stack)
      /\ L \in 1..Len(p.stack) /\ 1 \in 1..Len(p.stack)
  BY DEF Descended
<1> QED BY <1>1 DEF Descended, Moved, Alike, Standing

LEMMA DescentGrows ==
  ASSUME NEW p, NEW L, NEW el, NEW n, Descended(p, L, el, n),
         NEW q, NEW x \in Inner(el), Pushed(p, q, x)
  PROVE  Descended(q, L, el, n + 1)
<1>1. Standing(q.stack) BY PushedStands DEF Descended
<1>2. /\ \A k \in (L + 1)..(Len(p.stack) + 1) :
           k = Len(p.stack) + 1
             \/ (k \in (L + 1)..Len(p.stack) /\ k \in 1..Len(p.stack))
      /\ L \in 1..Len(p.stack) /\ n + 1 \in Nat /\ n + 1 >= 1
      /\ Len(p.stack) + 1 = L - 1 + (n + 1)
  BY DEF Descended
<1> QED BY <1>1, <1>2 DEF Descended, Pushed

LEMMA DescentShrinks ==
  ASSUME NEW p, NEW L, NEW el, NEW n, Descended(p, L, el, n), n > 1,
         NEW q, Moved(p, q, Front(p.stack))
  PROVE  Descended(q, L, el, n - 1) /\ Len(q.stack) # 1
<1> DEFINE m == Len(p.stack)
<1>1. /\ m = L - 1 + n /\ L \in Nat /\ L >= 2 /\ n \in Nat
      /\ Standing(p.stack)
  BY DEF Descended
<1>2. /\ \A k \in (L + 1)..(m - 1) : k \in (L + 1)..m /\ k \in 1..(m - 1)
      /\ L \in 1..(m - 1) /\ n - 1 \in Nat /\ n - 1 >= 1 /\ m >= 2
      /\ m - 1 = L - 1 + (n - 1) /\ m - 1 >= 1 /\ m - 1 # 1
      /\ 1 \in 1..(m - 1)
  BY <1>1
<1> HIDE DEF m
<1>3. /\ Standing(Front(p.stack)) /\ Len(Front(p.stack)) = m - 1
      /\ \A k \in 1..(m - 1) : Front(p.stack)[k] = p.stack[k]
  BY <1>1, <1>2, FrontStands DEF m
<1> DEFINE f == Front(p.stack)
<1> HIDE DEF f
<1>4. /\ Sequential(q.stack) /\ Len(q.stack) = m - 1
      /\ \A k \in 1..(m - 1) :
           IsFrame(q.stack[k]) /\ q.stack[k].el = p.stack[k].el
  BY <1>3 DEF Moved, Alike
<1>5. Standing(q.stack) BY <1>1, <1>2, <1>4 DEF Standing
<1>6. /\ IsParser(q) /\ q.status = p.status BY DEF Moved
<1> QED BY <1>2, <1>4, <1>5, <1>6 DEF Descended, m

LEMMA DescentTop ==
  ASSUME NEW p, NEW L, NEW el, NEW n, Descended(p, L, el, n)
  PROVE  /\ Last(p.stack).el = IF n = 1 THEN el ELSE Last(p.stack).el
         /\ n # 1 => Last(p.stack).el \in Inner(el)
         /\ Len(p.stack) >= 2
<1>1. Last(p.stack) = p.stack[Len(p.stack)] BY LastStands DEF Descended
<1>2. n = 1 => Len(p.stack) = L BY DEF Descended
<1>3. n # 1 => Len(p.stack) \in (L + 1)..Len(p.stack) BY DEF Descended
<1> QED BY <1>1, <1>2, <1>3 DEF Descended

(* The closing of a frame that is not the L-th, or is.                     *)
LEMMA ClosedKeeps ==
  ASSUME NEW p, Len(p.stack) # 1
  PROVE  Closed(p) = p
BY DEF Closed

LEMMA FinishEnds ==
  ASSUME NEW p, IsParser(p)
  PROVE  Finish(p).status = "done"
BY DEF Finish, IsParser

LEMMA DescentEnds ==
  ASSUME NEW p, NEW L, NEW el, Descended(p, L, el, 1),
         NEW q, Moved(p, q, Front(p.stack))
  PROVE  /\ Finish(q).status = "done"
         /\ el # "flat" => Closed(q).status = "done"
<1>1. IsParser(q) /\ Len(q.stack) = Len(Front(p.stack))
  BY DEF Moved, Alike
<1>2. Finish(q).status = "done" BY <1>1, FinishEnds
<1>3. el # "flat" => Len(p.stack) = 2 BY DEF Descended
<1>4. el # "flat" => Len(Front(p.stack)) = 1
  <2>1. Standing(p.stack) BY DEF Descended
  <2>2. 2 >= 2 /\ 2 - 1 = 1 OBVIOUS
  <2> QED BY <1>3, <2>1, <2>2, FrontStands
<1> QED BY <1>1, <1>2, <1>4 DEF Closed

LEMMA NameMoves ==
  ASSUME NEW p, IsParser(p), Standing(p.stack), NEW value
  PROVE  Moved(p, [p EXCEPT !.stack[Len(p.stack)].state.name = value],
               p.stack)
<1> DEFINE o == Len(p.stack)
           st == [p.stack[o].state EXCEPT !.name = value]
<1>1. o \in 1..Len(p.stack) BY SequentialFacts DEF Standing
<1>2. [p EXCEPT !.stack[o].state.name = value] = Replace(p, o, p.store, st)
  BY DEF IsParser, Replace
<1> HIDE DEF st
<1>3. Moved(p, Replace(p, o, p.store, st), p.stack)
  BY <1>1, ReplaceMoves, Zenon
<1> QED BY <1>2, <1>3

LEMMA EmptyDirectoryMoves ==
  ASSUME NEW p, IsParser(p), Standing(p.stack)
  PROVE  Moved(p, CloseDirectory(OpenDirectory(p)), p.stack)
<1> DEFINE q == OpenDirectory(p)  r == CloseDirectory(q)
<1>1. Pushed(p, q, "directory") BY OpenGrows
<1>2. Standing(q.stack) BY <1>1, PushedStands
<1> HIDE DEF q
<1>3. Len(p.stack) \in Nat /\ Len(p.stack) >= 1
  BY SequentialFacts DEF Standing
<1>4. /\ IsParser(q) /\ q.status = p.status /\ q.merge = p.merge
      /\ Len(q.stack) = Len(p.stack) + 1 /\ Len(q.stack) >= 2
      /\ Len(q.stack) - 1 = Len(p.stack)
      /\ \A k \in 1..Len(p.stack) : q.stack[k] = p.stack[k]
  BY <1>1, <1>3 DEF Pushed
<1>5. Moved(q, r, Front(q.stack)) BY <1>2, <1>4, CloseMoves
<1>6. /\ Len(Front(q.stack)) = Len(p.stack)
      /\ \A k \in 1..Len(p.stack) : Front(q.stack)[k] = p.stack[k]
  BY <1>2, <1>4, FrontStands
<1> HIDE DEF r
<1>7. Moved(p, r, p.stack) BY <1>4, <1>5, <1>6 DEF Moved, Alike
<1> QED BY <1>7 DEF r, q

LEMMA SameMoves ==
  ASSUME NEW p, IsParser(p), Standing(p.stack)
  PROVE  Moved(p, p, p.stack)
BY DEF Moved, Alike, Standing

LEMMA DescentTurn ==
  ASSUME NEW p, NEW L, NEW el, NEW n, Descended(p, L, el, n),
         NEW e, e.ev # "unsafe"
  PROVE  /\ el = "scan" => ParseEvent(p, e) = InScan(p, e)
         /\ el # "scan" /\ Last(p.stack).el = "skip"
              => ParseEvent(p, e) = InSkipped(p, e) /\ n # 1
         /\ el # "scan" /\ Last(p.stack).el # "skip"
              => /\ ParseEvent(p, e) = InContents(p, e)
                 /\ n # 1 => Last(p.stack).el \in {"directory", "contents"}
<1> DEFINE top == Last(p.stack).el
<1>1. /\ n = 1 => top = el
      /\ n # 1 => top \in Inner(el)
  BY DescentTop
<1>2. el \in {"ltfsindex", "directory", "flat", "scan"}
  BY DEF Descended
<1>3. p.status = "reading" BY DEF Descended
<1>4. CASE el = "scan"
  <2>1. top = "scan" BY <1>1, <1>4 DEF Inner
  <2> QED BY <2>1, <1>3, <1>4 DEF ParseEvent
<1>5. CASE el # "scan"
  <2>1. /\ n # 1 => top \in {"directory", "contents", "skip"}
        /\ top \in {"ltfsindex", "directory", "flat", "contents", "skip"}
        /\ top = "skip" => n # 1
    BY <1>1, <1>2, <1>5 DEF Inner
  <2>2. top = "skip" => ParseEvent(p, e) = InSkipped(p, e)
    BY <1>3 DEF ParseEvent
  <2>3. top # "skip" => ParseEvent(p, e) = InContents(p, e)
    BY <1>3, <2>1 DEF ParseEvent
  <2> QED BY <2>1, <2>2, <2>3, <1>5
<1> QED BY <1>4, <1>5

LEMMA StepOpens ==
  ASSUME NEW p, NEW L, NEW el, NEW n, Descended(p, L, el, n),
         NEW e, e.ev = "open", el = "scan" => e.el # "directory"
  PROVE  Descended(ParseEvent(p, e), L, el, n + 1)
<1>1. IsParser(p) /\ Standing(p.stack) BY DEF Descended
<1>2. ASSUME NEW x \in Inner(el)
      PROVE  Descended(Push(p, x, NewState), L, el, n + 1)
  <2>1. Pushed(p, Push(p, x, NewState), x) BY <1>1, PushGrows
  <2> QED BY <2>1, DescentGrows
<1>3. "directory" \in Inner(el)
        => Descended(OpenDirectory(p), L, el, n + 1)
  <2>1. Pushed(p, OpenDirectory(p), "directory") BY <1>1, OpenGrows
  <2> QED BY <2>1, DescentGrows
<1>4. CASE el = "scan"
  <2>1. ParseEvent(p, e) = Push(p, "scan", NewState)
    BY <1>4, DescentTurn DEF InScan
  <2>2. "scan" \in Inner(el) BY <1>4 DEF Inner
  <2> QED BY <2>1, <2>2, <1>2
<1>5. CASE el # "scan"
  <2>1. /\ "directory" \in Inner(el) /\ "contents" \in Inner(el)
        /\ "skip" \in Inner(el)
    BY <1>5 DEF Inner
  <2>2. \/ ParseEvent(p, e) = InSkipped(p, e)
        \/ ParseEvent(p, e) = InContents(p, e)
    BY <1>5, DescentTurn
  <2>3. \/ ParseEvent(p, e) = OpenDirectory(p)
        \/ ParseEvent(p, e) = Push(p, "contents", NewState)
        \/ ParseEvent(p, e) = Push(p, "skip", NewState)
    BY <2>2 DEF InSkipped, InContents
  <2>4. /\ Descended(Push(p, "contents", NewState), L, el, n + 1)
        /\ Descended(Push(p, "skip", NewState), L, el, n + 1)
    BY <2>1, <1>2
  <2> QED BY <2>1, <2>3, <2>4, <1>3
<1> QED BY <1>4, <1>5

LEMMA StepCloses ==
  ASSUME NEW p, NEW L, NEW el, NEW n, Descended(p, L, el, n), n # 1,
         NEW e, e.ev = "close"
  PROVE  Descended(ParseEvent(p, e), L, el, n - 1)
<1>1. IsParser(p) /\ Standing(p.stack) /\ Len(p.stack) >= 2 /\ n > 1
  BY DescentTop DEF Descended
<1>2. /\ Descended(Pop(p), L, el, n - 1) /\ Closed(Pop(p)) = Pop(p)
  <2>1. Moved(p, Pop(p), Front(p.stack)) BY <1>1, PopMoves
  <2> QED BY <2>1, <1>1, DescentShrinks, ClosedKeeps
<1>3. /\ Descended(CloseDirectory(p), L, el, n - 1)
      /\ Closed(CloseDirectory(p)) = CloseDirectory(p)
  <2>1. Moved(p, CloseDirectory(p), Front(p.stack)) BY <1>1, CloseMoves
  <2> QED BY <2>1, <1>1, DescentShrinks, ClosedKeeps
<1>4. CASE el = "scan"
  <2>1. ParseEvent(p, e) = Closed(Pop(p))
    BY <1>4, DescentTurn DEF InScan
  <2> QED BY <2>1, <1>2
<1>5. CASE el # "scan" /\ Last(p.stack).el = "skip"
  <2>1. ParseEvent(p, e) = Pop(p)
    BY <1>5, DescentTurn DEF InSkipped
  <2> QED BY <2>1, <1>2
<1>6. CASE el # "scan" /\ Last(p.stack).el # "skip"
  <2>1. /\ ParseEvent(p, e) = InContents(p, e)
        /\ Last(p.stack).el \in {"directory", "contents"}
    BY <1>6, DescentTurn
  <2>2. \/ ParseEvent(p, e) = Closed(CloseDirectory(p))
        \/ ParseEvent(p, e) = Closed(Pop(p))
    BY <2>1 DEF InContents
  <2> QED BY <2>2, <1>2, <1>3
<1> QED BY <1>4, <1>5, <1>6

(* The element the descent began in is closed.                             *)
LEMMA StepEnds ==
  ASSUME NEW p, NEW L, NEW el, Descended(p, L, el, 1),
         NEW e, e.ev = "close"
  PROVE  ParseEvent(p, e).status = "done"
<1>1. IsParser(p) /\ Standing(p.stack) /\ Len(p.stack) >= 2
      /\ Last(p.stack).el = el
      /\ el \in {"ltfsindex", "directory", "flat", "scan"}
  BY DescentTop DEF Descended
<1>2. /\ Finish(Pop(p)).status = "done"
      /\ el # "flat" => Closed(Pop(p)).status = "done"
  <2>1. Moved(p, Pop(p), Front(p.stack)) BY <1>1, PopMoves
  <2> QED BY <2>1, DescentEnds
<1>3. el # "flat" => Closed(CloseDirectory(p)).status = "done"
  <2>1. Moved(p, CloseDirectory(p), Front(p.stack)) BY <1>1, CloseMoves
  <2> QED BY <2>1, DescentEnds
<1>4. CASE el = "scan"
  <2>1. ParseEvent(p, e) = Closed(Pop(p))
    BY <1>4, DescentTurn DEF InScan
  <2> QED BY <2>1, <1>2, <1>4
<1>5. CASE el # "scan"
  <2>1. ParseEvent(p, e) = InContents(p, e) BY <1>1, <1>5, DescentTurn
  <2>2. CASE el = "flat"
    <3>1. InContents(p, e) = Finish(Pop(p)) BY <1>1, <2>2 DEF InContents
    <3> QED BY <3>1, <2>1, <1>2
  <2>3. CASE el = "directory"
    <3>1. InContents(p, e) = Closed(CloseDirectory(p))
      BY <1>1, <2>3 DEF InContents
    <3> QED BY <3>1, <2>1, <2>3, <1>3
  <2>4. CASE el = "ltfsindex"
    <3>1. InContents(p, e) = Closed(Pop(p))
      BY <1>1, <2>4 DEF InContents
    <3> QED BY <3>1, <2>1, <2>4, <1>2
  <2> QED BY <2>2, <2>3, <2>4, <1>1, <1>5
<1> QED BY <1>4, <1>5

LEMMA ContentMoves ==
  ASSUME NEW p, IsParser(p), Standing(p.stack), NEW e \in Events,
         e.ev \notin {"open", "close", "unsafe"}
  PROVE  Moved(p, InContents(p, e), p.stack)
<1>1. CASE e.ev = "name"
  <2> DEFINE q == [p EXCEPT !.stack[Len(p.stack)].state.name = e.value]
  <2>1. Moved(p, q, p.stack) BY NameMoves
  <2>2. InContents(p, e) = q \/ InContents(p, e) = p
    BY <1>1 DEF InContents
  <2> HIDE DEF q
  <2> QED BY <2>1, <2>2, SameMoves
<1>2. CASE e.ev = "file"
  <2> DEFINE s == p.store.file_records_position
             q == AddFile(p, e.file, FileLength, s, s + FileLength)
  <2>1. InContents(p, e) = q BY <1>2 DEF InContents, AppendChildFile
  <2> QED BY <2>1, FileMoves
<1>3. CASE e.ev = "emptyfile"
  <2>1. PICK length, offset, written :
          InContents(p, e) = AddFile(p, "empty", length, offset, written)
    <3>1. InContents(p, e) = AppendEmptyFile(p) BY <1>3 DEF InContents
    <3> QED BY <3>1 DEF AppendEmptyFile, AppendRootEmptyFile,
                        AppendChildFile
  <2> QED BY <2>1, FileMoves
<1>4. CASE e.ev = "emptydir"
  <2>1. InContents(p, e) = CloseDirectory(OpenDirectory(p))
    BY <1>4 DEF InContents
  <2> QED BY <2>1, EmptyDirectoryMoves
<1>5. e.ev \in {"name", "file", "emptyfile", "emptydir"}
  BY DEF Events
<1> QED BY <1>1, <1>2, <1>3, <1>4, <1>5

LEMMA StepStays ==
  ASSUME NEW p, NEW L, NEW el, NEW n, Descended(p, L, el, n),
         NEW e \in Events, e.ev \notin {"open", "close", "unsafe"}
  PROVE  Descended(ParseEvent(p, e), L, el, n)
<1>1. IsParser(p) /\ Standing(p.stack) BY DEF Descended
<1>2. Descended(InContents(p, e), L, el, n)
  BY <1>1, ContentMoves, DescentKept
<1>3. \/ ParseEvent(p, e) = InScan(p, e)
      \/ ParseEvent(p, e) = InSkipped(p, e)
      \/ ParseEvent(p, e) = InContents(p, e)
  BY DescentTurn
<1>4. InScan(p, e) = p /\ InSkipped(p, e) = p BY DEF InScan, InSkipped
<1> QED BY <1>2, <1>3, <1>4

(* How many of the elements opened since event d are open after event k.   *)
Depth(events, d, k) ==
  CountIf(events, d, k, "open") - CountIf(events, d, k, "close")

LEMMA CountStep ==
  ASSUME NEW events, NEW i \in Nat, NEW j \in Nat, i <= j + 1, NEW kind
  PROVE  /\ CountIf(events, i, j, kind) \in Nat
         /\ CountIf(events, i, j + 1, kind)
              = IF events[j + 1].ev = kind
                THEN CountIf(events, i, j, kind) + 1
                ELSE CountIf(events, i, j, kind)
<1> DEFINE S == {k \in i..j : events[k].ev = kind}
           T == {k \in i..(j + 1) : events[k].ev = kind}
<1>1. IsFiniteSet(S)
  <2>1. IsFiniteSet(i..j) BY FS_Interval
  <2> QED BY <2>1, FS_Subset
<1>2. Cardinality(S) \in Nat BY <1>1, FS_CardinalityType
<1>3. j + 1 \notin S /\ \A k : k \in i..(j + 1) <=> k \in i..j \/ k = j + 1
  OBVIOUS
<1>4. T = IF events[j + 1].ev = kind THEN S \cup {j + 1} ELSE S
  BY <1>3
<1>5. Cardinality(S \cup {j + 1}) = Cardinality(S) + 1
  BY <1>1, <1>3, FS_AddElement
<1>6. CountIf(events, i, j, kind) = Cardinality(S)
      /\ CountIf(events, i, j + 1, kind) = Cardinality(T)
  BY DEF CountIf
<1> HIDE DEF S, T
<1> QED BY <1>2, <1>4, <1>5, <1>6

LEMMA CountNone ==
  ASSUME NEW events, NEW i \in Nat, i >= 1, NEW kind
  PROVE  CountIf(events, i, i - 1, kind) = 0
<1>1. {k \in i..(i - 1) : events[k].ev = kind} = {} OBVIOUS
<1> QED BY <1>1, FS_EmptySet DEF CountIf

LEMMA DepthStep ==
  ASSUME NEW events, NEW d \in Nat, NEW k \in Nat, d <= k
  PROVE  /\ Depth(events, d, k) \in Int
         /\ events[k + 1].ev = "open"
              => Depth(events, d, k + 1) = Depth(events, d, k) + 1
         /\ events[k + 1].ev = "close"
              => Depth(events, d, k + 1) = Depth(events, d, k) - 1
         /\ events[k + 1].ev \notin {"open", "close"}
              => Depth(events, d, k + 1) = Depth(events, d, k)
<1> DEFINE o == CountIf(events, d, k, "open")
           c == CountIf(events, d, k, "close")
           o2 == CountIf(events, d, k + 1, "open")
           c2 == CountIf(events, d, k + 1, "close")
<1>1. o \in Nat /\ c \in Nat
      /\ o2 = (IF events[k + 1].ev = "open" THEN o + 1 ELSE o)
      /\ c2 = (IF events[k + 1].ev = "close" THEN c + 1 ELSE c)
  BY CountStep
<1>2. Depth(events, d, k) = o - c /\ Depth(events, d, k + 1) = o2 - c2
  BY DEF Depth
<1> HIDE DEF o, c, o2, c2
<1> QED BY <1>1, <1>2

LEMMA DepthStart ==
  ASSUME NEW events, NEW d \in Nat, d >= 1, events[d].ev = "open"
  PROVE  Depth(events, d, d) = 1
<1> DEFINE e == d - 1
<1>1. e \in Nat /\ d <= e + 1 /\ e + 1 = d OBVIOUS
<1>2. /\ CountIf(events, d, e, "open") = 0
      /\ CountIf(events, d, e, "close") = 0
  BY CountNone
<1> HIDE DEF e
<1>3. /\ CountIf(events, d, e + 1, "open") = 0 + 1
      /\ CountIf(events, d, e + 1, "close") = 0
  BY <1>1, <1>2, CountStep
<1> QED BY <1>1, <1>3 DEF Depth

LEMMA DepthMoves ==
  ASSUME NEW events, NEW d \in Nat, NEW m \in Nat, m - 1 \in Nat,
         d <= m - 1
  PROVE  /\ Depth(events, d, m - 1) \in Int
         /\ \/ Depth(events, d, m) = Depth(events, d, m - 1) + 1
            \/ /\ events[m].ev = "close"
               /\ Depth(events, d, m) = Depth(events, d, m - 1) - 1
            \/ Depth(events, d, m) = Depth(events, d, m - 1)
<1> DEFINE k == m - 1
<1>1. k \in Nat /\ d <= k /\ k + 1 = m OBVIOUS
<1> HIDE DEF k
<1>2. /\ Depth(events, d, k) \in Int
      /\ \/ Depth(events, d, k + 1) = Depth(events, d, k) + 1
         \/ /\ events[k + 1].ev = "close"
            /\ Depth(events, d, k + 1) = Depth(events, d, k) - 1
         \/ Depth(events, d, k + 1) = Depth(events, d, k)
  <2>1. CASE events[k + 1].ev = "open" BY <1>1, <2>1, DepthStep
  <2>2. CASE events[k + 1].ev = "close" BY <1>1, <2>2, DepthStep
  <2>3. CASE events[k + 1].ev \notin {"open", "close"}
    BY <1>1, <2>3, DepthStep
  <2> QED BY <2>1, <2>2, <2>3
<1> QED BY <1>1, <1>2 DEF k

(* Until the element is closed something is open.                          *)
LEMMA DepthPositive ==
  ASSUME NEW events, NEW d \in Nat, d >= 1, events[d].ev = "open",
         NEW c \in Nat, \A k \in d..c : Depth(events, d, k) # 0
  PROVE  \A k \in d..c : Depth(events, d, k) >= 1
<1> DEFINE T == {k \in d..c : ~(Depth(events, d, k) >= 1)}
<1> SUFFICES ASSUME T # {} PROVE FALSE OBVIOUS
<1>1. PICK m \in T : \A j \in T : m <= j
  <2>1. T \subseteq Nat OBVIOUS
  <2> HIDE DEF T
  <2> QED BY <2>1, LeastNat
<1>2. m # d BY <1>1, DepthStart
<1>3. m - 1 \in d..c /\ m - 1 \notin T /\ m \in d..c /\ m - 1 \in Nat
      /\ d <= m - 1 /\ (m - 1) + 1 = m
  BY <1>1, <1>2
<1>4. Depth(events, d, m - 1) >= 1 BY <1>3
<1>5. /\ Depth(events, d, m - 1) \in Int
      /\ \/ Depth(events, d, m) = Depth(events, d, m - 1) + 1
         \/ Depth(events, d, m) = Depth(events, d, m - 1) - 1
         \/ Depth(events, d, m) = Depth(events, d, m - 1)
  BY <1>3, DepthMoves
<1>6. Depth(events, d, m) # 0 /\ ~(Depth(events, d, m) >= 1)
  BY <1>1, <1>3
<1> DEFINE x == Depth(events, d, m - 1)  y == Depth(events, d, m)
<1> HIDE DEF x, y
<1> QED BY <1>4, <1>5, <1>6 DEF x, y

IsClose(events, d, c) ==
  /\ c > d /\ events[c].ev = "close" /\ Depth(events, d, c - 1) = 1
  /\ \A k \in d..(c - 1) : Depth(events, d, k) >= 1

LEMMA FirstClose ==
  ASSUME NEW events, NEW d \in Nat, d >= 1, events[d].ev = "open",
         NEW n \in Nat, ClosedBy(events, d, n)
  PROVE  \E c \in d..n : IsClose(events, d, c)
<1> DEFINE T == {k \in d..n : Depth(events, d, k) = 0}
<1>1. T # {}
  <2>1. PICK k \in d..n : CountIf(events, d, k, "open")
                            = CountIf(events, d, k, "close")
    BY DEF ClosedBy
  <2>2. k \in Nat /\ d <= k + 1 OBVIOUS
  <2>3. /\ CountIf(events, d, k, "open") \in Nat
        /\ CountIf(events, d, k, "close") \in Nat
    BY <2>2, CountStep
  <2>4. Depth(events, d, k) = 0 BY <2>1, <2>3 DEF Depth
  <2> QED BY <2>4
<1>2. PICK c \in T : \A j \in T : c <= j
  <2>1. T \subseteq Nat OBVIOUS
  <2> HIDE DEF T
  <2> QED BY <1>1, <2>1, LeastNat
<1>3. c # d BY <1>2, DepthStart
<1>4. c \in d..n /\ c > d /\ c - 1 \in Nat /\ d <= c - 1
      /\ (c - 1) + 1 = c /\ c - 1 \in d..(c - 1)
      /\ \A k \in d..(c - 1) : k \in d..n /\ ~(c <= k)
  BY <1>2, <1>3
<1>5. \A k \in d..(c - 1) : Depth(events, d, k) >= 1
  <2>1. \A k \in d..(c - 1) : Depth(events, d, k) # 0 BY <1>2, <1>4
  <2> QED BY <2>1, <1>4, DepthPositive
<1>6. Depth(events, d, c - 1) >= 1 /\ Depth(events, d, c) = 0
  BY <1>2, <1>4, <1>5
<1>7. /\ Depth(events, d, c - 1) \in Int
      /\ \/ Depth(events, d, c) = Depth(events, d, c - 1) + 1
         \/ events[c].ev = "close"
              /\ Depth(events, d, c) = Depth(events, d, c - 1) - 1
         \/ Depth(events, d, c) = Depth(events, d, c - 1)
  BY <1>4, DepthMoves
<1>8. events[c].ev = "close" /\ Depth(events, d, c - 1) = 1
  BY <1>6, <1>7
<1> QED BY <1>4, <1>5, <1>8 DEF IsClose

(* f are the parsers of a run over the events.                             *)
IsRun(f, events, n) ==
  \A k \in 1..n : /\ events[k] \in Events
                  /\ f[k] = ParseEvent(f[k - 1], events[k])

(* While the element opened by event d is open the run stays below it.     *)
LEMMA Descends ==
  ASSUME NEW f, NEW events, NEW n \in Nat, IsRun(f, events, n),
         NEW L, NEW el, NEW d \in Nat, d >= 1, Descended(f[d], L, el, 1),
         events[d].ev = "open", NEW c \in Nat, d <= c, c <= n,
         \A k \in d..c : /\ Depth(events, d, k) >= 1
                         /\ events[k].ev # "unsafe",
         el = "scan" => \A k \in (d + 1)..c :
                          ~(events[k].ev = "open"
                              /\ events[k].el = "directory")
  PROVE  \A k \in d..c : Descended(f[k], L, el, Depth(events, d, k))
<1> DEFINE T == {k \in d..c :
                   ~Descended(f[k], L, el, Depth(events, d, k))}
<1> SUFFICES ASSUME T # {} PROVE FALSE OBVIOUS
<1>1. PICK m \in T : \A j \in T : m <= j
  <2>1. T \subseteq Nat OBVIOUS
  <2> HIDE DEF T
  <2> QED BY <2>1, LeastNat
<1>2. m # d BY <1>1, DepthStart
<1> DEFINE q == m - 1
<1>3. /\ q \in d..c /\ q \notin T /\ m \in (d + 1)..c /\ m \in d..c
      /\ q \in Nat /\ d <= q /\ q + 1 = m /\ m \in 1..n
  BY <1>1, <1>2
<1>4. Descended(f[q], L, el, Depth(events, d, q))
      /\ ~Descended(f[m], L, el, Depth(events, d, m))
  BY <1>1, <1>3
<1>5. f[m] = ParseEvent(f[q], events[m]) /\ events[m] \in Events
  BY <1>3 DEF IsRun
<1>6. events[m].ev # "unsafe" BY <1>3
<1> DEFINE p == f[q]  e == events[m]  x == Depth(events, d, q)
<1>7. Descended(p, L, el, x) /\ e \in Events /\ e.ev # "unsafe"
  BY <1>4, <1>5, <1>6
<1>8. /\ x \in Int
      /\ e.ev = "open" => Depth(events, d, m) = x + 1
      /\ e.ev = "close" => Depth(events, d, m) = x - 1
      /\ e.ev \notin {"open", "close"} => Depth(events, d, m) = x
  <2> HIDE DEF q
  <2>1. q \in Nat /\ d <= q /\ q + 1 = m BY <1>3
  <2>2. /\ Depth(events, d, q) \in Int
        /\ events[q + 1].ev = "open"
             => Depth(events, d, q + 1) = Depth(events, d, q) + 1
        /\ events[q + 1].ev = "close"
             => Depth(events, d, q + 1) = Depth(events, d, q) - 1
        /\ events[q + 1].ev \notin {"open", "close"}
             => Depth(events, d, q + 1) = Depth(events, d, q)
    BY <2>1, DepthStep
  <2> QED BY <2>1, <2>2
<1>12. Depth(events, d, m) >= 1 BY <1>3
<1>13. el = "scan" => ~(e.ev = "open" /\ e.el = "directory") BY <1>3
<1> HIDE DEF p, e, x, q
<1>9. CASE e.ev = "open"
  <2>1. Descended(ParseEvent(p, e), L, el, x + 1)
    BY <1>7, <1>9, <1>13, StepOpens
  <2> QED BY <2>1, <1>4, <1>5, <1>8, <1>9 DEF p, e
<1>10. CASE e.ev = "close"
  <2>1. x # 1 BY <1>8, <1>10, <1>12
  <2>2. Descended(ParseEvent(p, e), L, el, x - 1)
    BY <1>7, <1>10, <2>1, StepCloses
  <2> QED BY <2>2, <1>4, <1>5, <1>8, <1>10 DEF p, e
<1>11. CASE e.ev \notin {"open", "close"}
  <2>1. Descended(ParseEvent(p, e), L, el, x)
    BY <1>7, <1>11, StepStays
  <2> QED BY <2>1, <1>4, <1>5, <1>8, <1>11 DEF p, e
<1> QED BY <1>9, <1>10, <1>11

(* The event that closes it ends the parse, and so it stays.               *)
LEMMA DescentDone ==
  ASSUME NEW f, NEW events, NEW n \in Nat, IsRun(f, events, n),
         NEW L, NEW el, NEW d \in Nat, d >= 1, Descended(f[d], L, el, 1),
         events[d].ev = "open", NEW c \in d..n, IsClose(events, d, c),
         \A k \in 1..c : events[k].ev # "unsafe",
         el = "scan" => \A k \in (d + 1)..(c - 1) :
                          ~(events[k].ev = "open"
                              /\ events[k].el = "directory")
  PROVE  f[n].status = "done"
<1>1. /\ c - 1 \in Nat /\ d <= c - 1 /\ c - 1 <= n /\ c \in 1..n
      /\ c - 1 \in d..(c - 1) /\ \A k \in d..(c - 1) : k \in 1..c
      /\ events[c].ev = "close" /\ Depth(events, d, c - 1) = 1
      /\ \A k \in d..(c - 1) : Depth(events, d, k) >= 1
  BY DEF IsClose
<1> DEFINE q == c - 1
<1>2. /\ q \in Nat /\ d <= q /\ q <= n /\ q \in d..q
      /\ \A k \in d..q : /\ Depth(events, d, k) >= 1
                         /\ events[k].ev # "unsafe"
      /\ Depth(events, d, q) = 1
      /\ el = "scan" => \A k \in (d + 1)..q :
                          ~(events[k].ev = "open"
                              /\ events[k].el = "directory")
  BY <1>1
<1>3. f[c] = ParseEvent(f[q], events[c]) BY <1>1 DEF IsRun
<1> HIDE DEF q
<1>4. \A k \in d..q : Descended(f[k], L, el, Depth(events, d, k))
  BY <1>2, Descends
<1>5. Descended(f[q], L, el, 1) BY <1>2, <1>4
<1>6. ParseEvent(f[q], events[c]).status = "done"
  BY <1>1, <1>5, StepEnds
<1> DEFINE T == {k \in c..n : f[k].status # "done"}
<1>7. T = {}
  <2> SUFFICES ASSUME T # {} PROVE FALSE OBVIOUS
  <2>1. PICK m \in T : \A j \in T : m <= j
    <3>1. T \subseteq Nat BY <1>1
    <3> HIDE DEF T
    <3> QED BY <3>1, LeastNat
  <2>2. m # c BY <1>3, <1>6, <2>1
  <2>3. m - 1 \in c..n /\ m - 1 \notin T /\ m \in 1..n
    BY <1>1, <2>1, <2>2
  <2>4. f[m - 1].status = "done" /\ f[m].status # "done"
    BY <2>1, <2>3
  <2>5. f[m] = ParseEvent(f[m - 1], events[m]) BY <2>3 DEF IsRun
  <2>6. ParseEvent(f[m - 1], events[m]) = f[m - 1]
    BY <2>4 DEF ParseEvent
  <2> QED BY <2>4, <2>5, <2>6
<1> QED BY <1>1, <1>7

LEMMA DescentStarts ==
  ASSUME NEW p, Standing(p.stack), p.status = "reading",
         NEW q, NEW el \in {"ltfsindex", "directory", "flat", "scan"},
         Pushed(p, q, el), el # "flat" => Len(p.stack) = 1
  PROVE  Descended(q, Len(p.stack) + 1, el, 1)
<1>1. Standing(q.stack) BY PushedStands
<1>2. Len(p.stack) \in Nat /\ Len(p.stack) >= 1
  BY SequentialFacts DEF Standing
<1> DEFINE L == Len(p.stack) + 1
<1>3. /\ L \in Nat /\ L >= 2 /\ L - 1 + 1 = L /\ (L + 1)..L = {}
      /\ (el # "flat" => L = 2) /\ Len(q.stack) = L
      /\ q.stack[L].el = el /\ IsParser(q) /\ q.status = "reading"
  BY <1>2 DEF Pushed
<1> HIDE DEF L
<1>4. Descended(q, L, el, 1) BY <1>1, <1>3 DEF Descended
<1> QED BY <1>4 DEF L

LEMMA StartStands ==
  ASSUME NEW merge, NEW barcode, NEW p, p = StartParse(merge, barcode)
  PROVE  /\ IsParser(p) /\ Standing(p.stack) /\ p.status = "reading"
         /\ p.merge = merge /\ Len(p.stack) = 1
         /\ Last(p.stack).el = "top"
<1> DEFINE stack == <<Frame("top", NewState)>>
<1>1. IsParser(p) /\ p.status = "reading" /\ p.merge = merge
      /\ p.stack = stack
  BY DEF StartParse, IsParser
<1>2. Sequential(stack)
  <2>1. stack \in Seq({Frame("top", NewState)}) OBVIOUS
  <2> QED BY <2>1 DEF Sequential
<1>3. /\ Len(stack) = 1 /\ stack[1].el = "top"
      /\ IsFrame(stack[1])
  BY DEF Frame, IsFrame
<1> HIDE DEF stack
<1>4. Standing(stack) BY <1>2, <1>3 DEF Standing
<1> QED BY <1>1, <1>3, <1>4, LastStands

RootKind(merge, el) ==
  IF merge THEN IF el = "directory" THEN "flat" ELSE "scan"
  ELSE el

LEMMA RootOpens ==
  ASSUME NEW merge \in BOOLEAN, NEW barcode, NEW e,
         e.ev = "open", e.el \in {"ltfsindex", "directory"}
  PROVE  Descended(ParseEvent(StartParse(merge, barcode), e), 2,
                   RootKind(merge, e.el), 1)
<1> DEFINE p == StartParse(merge, barcode)  q == ParseEvent(p, e)
           el == RootKind(merge, e.el)
<1>1. /\ IsParser(p) /\ Standing(p.stack) /\ p.status = "reading"
      /\ p.merge = merge /\ Len(p.stack) = 1
      /\ Last(p.stack).el = "top"
  BY StartStands
<1> HIDE DEF p
<1>2. q = AtRoot(p, e) BY <1>1 DEF ParseEvent
<1>3. Pushed(p, q, el)
  <2>1. \A x : Pushed(p, Push(p, x, NewState), x) BY <1>1, PushGrows
  <2>2. Pushed(p, OpenDirectory(p), "directory") BY <1>1, OpenGrows
  <2>3. CASE e.el = "ltfsindex"
    <3>1. AtRoot(p, e) = Push(p, el, NewState)
      BY <2>3, <1>1 DEF AtRoot, RootKind
    <3> QED BY <3>1, <2>1, <1>2
  <2>4. CASE e.el = "directory" /\ merge
    <3>1. AtRoot(p, e) = Push(p, el, NewState)
      BY <2>4, <1>1 DEF AtRoot, RootKind
    <3> QED BY <3>1, <2>1, <1>2
  <2>5. CASE e.el = "directory" /\ ~merge
    <3>1. AtRoot(p, e) = OpenDirectory(p) /\ el = "directory"
      BY <2>5, <1>1 DEF AtRoot, RootKind
    <3> QED BY <3>1, <2>2, <1>2
  <2> QED BY <2>3, <2>4, <2>5
<1>4. el \in {"ltfsindex", "directory", "flat", "scan"} BY DEF RootKind
<1> HIDE DEF q, el
<1>5. Descended(q, Len(p.stack) + 1, el, 1)
  BY <1>1, <1>3, <1>4, DescentStarts
<1>6. Len(p.stack) + 1 = 2 BY <1>1
<1> QED BY <1>5, <1>6 DEF p, q, el

LEMMA EnclosedByRoot ==
  ASSUME NEW events, NEW i \in Nat, i >= 2, events[1].ev = "open"
  PROVE  1 \in Enclosing(events, i)
           <=> \A k \in 1..(i - 1) : Depth(events, 1, k) >= 1
<1>1. ASSUME NEW k \in 1..(i - 1)
      PROVE  CountIf(events, 1, k, "open") > CountIf(events, 1, k, "close")
               <=> Depth(events, 1, k) >= 1
  <2>1. k \in Nat /\ 1 <= k + 1 OBVIOUS
  <2>2. /\ CountIf(events, 1, k, "open") \in Nat
        /\ CountIf(events, 1, k, "close") \in Nat
    BY <2>1, CountStep
  <2> QED BY <2>2 DEF Depth
<1>2. 1 \in 1..(i - 1) OBVIOUS
<1> QED BY <1>1, <1>2 DEF Enclosing

(* While the root is open no directory is opened before the first one.     *)
LEMMA NoneBefore ==
  ASSUME NEW events, events[1].ev = "open",
         NEW i \in 2..Len(events), Len(events) \in Nat,
         events[i].ev = "open", events[i].el = "directory",
         \A k \in 1..(i - 1) : Depth(events, 1, k) >= 1
  PROVE  i \in FirstDirectory(events)
<1>1. 1 \in Enclosing(events, i) BY EnclosedByRoot
<1>2. i \in 1..Len(events) OBVIOUS
<1> QED BY <1>1, <1>2 DEF FirstDirectory

LEMMA FirstIsLeast ==
  ASSUME NEW events, Len(events) \in Nat, FirstDirectory(events) # {}
  PROVE  /\ MinOfSet(FirstDirectory(events)) \in FirstDirectory(events)
         /\ \A i \in FirstDirectory(events) :
              MinOfSet(FirstDirectory(events)) <= i
<1> DEFINE T == FirstDirectory(events)
<1>1. T \subseteq Nat BY DEF FirstDirectory
<1> HIDE DEF T
<1>2. \E x \in T : \A y \in T : x <= y BY <1>1, LeastNat DEF T
<1>3. MinOfSet(T) \in T /\ \A y \in T : MinOfSet(T) <= y
  BY <1>2 DEF MinOfSet
<1> QED BY <1>3 DEF T

(* The root is what must be closed.                                        *)
LEMMA RootParses ==
  ASSUME NEW merge \in BOOLEAN, NEW barcode, NEW events, NEW f,
         Len(events) \in Nat, NEW n \in 1..Len(events),
         IsRun(f, events, Len(events)), f[0] = StartParse(merge, barcode),
         events[1].ev = "open", events[1].el \in {"ltfsindex", "directory"},
         \A k \in 1..n : events[k].ev # "unsafe",
         ClosedBy(events, 1, n),
         merge /\ FirstDirectory(events) # {}
           => events[1].el = "directory"
  PROVE  f[Len(events)].status = "done"
<1> DEFINE el == RootKind(merge, events[1].el)
<1>1. f[1] = ParseEvent(f[0], events[1])
  <2>1. 1 \in 1..Len(events) /\ 1 - 1 = 0 OBVIOUS
  <2> QED BY <2>1 DEF IsRun
<1>2. Descended(f[1], 2, el, 1) BY <1>1, RootOpens
<1>3. PICK c \in 1..n : IsClose(events, 1, c)
  <2>1. n \in Nat /\ 1 \in Nat /\ 1 >= 1 OBVIOUS
  <2> QED BY <2>1, FirstClose
<1>4. el = "scan" => merge /\ FirstDirectory(events) = {}
  BY DEF RootKind
<1>5. ASSUME el = "scan", NEW k \in (1 + 1)..(c - 1),
             events[k].ev = "open" /\ events[k].el = "directory"
      PROVE  FALSE
  <2>1. k \in 2..Len(events) /\ \A j \in 1..(k - 1) : j \in 1..(c - 1)
    OBVIOUS
  <2>2. \A j \in 1..(k - 1) : Depth(events, 1, j) >= 1
    BY <2>1, <1>3 DEF IsClose
  <2> QED BY <2>1, <2>2, <1>4, <1>5, NoneBefore
<1>6. /\ 1 \in Nat /\ 1 >= 1 /\ c \in 1..Len(events)
      /\ \A k \in 1..c : k \in 1..n
  OBVIOUS
<1>7. \A k \in 1..c : events[k].ev # "unsafe" BY <1>6
<1> HIDE DEF el
<1> QED BY <1>2, <1>3, <1>5, <1>6, <1>7, DescentDone

(* The first directory of an index to be merged is what must be closed.    *)
LEMMA DirectoryParses ==
  ASSUME NEW barcode, NEW events, NEW f, NEW d,
         Len(events) \in Nat, NEW n \in 1..Len(events),
         IsRun(f, events, Len(events)), f[0] = StartParse(TRUE, barcode),
         events[1].ev = "open", events[1].el = "ltfsindex",
         \A k \in 1..n : events[k].ev # "unsafe",
         d \in FirstDirectory(events),
         \A i \in FirstDirectory(events) : d <= i,
         ClosedBy(events, d, n)
  PROVE  f[Len(events)].status = "done"
<1>1. f[1] = ParseEvent(f[0], events[1])
  <2>1. 1 \in 1..Len(events) /\ 1 - 1 = 0 OBVIOUS
  <2> QED BY <2>1 DEF IsRun
<1>2. Descended(f[1], 2, "scan", 1)
  <2>1. RootKind(TRUE, events[1].el) = "scan" BY DEF RootKind
  <2> QED BY <2>1, <1>1, RootOpens
<1>3. /\ d \in 2..Len(events) /\ d \in Nat
      /\ events[d].ev = "open" /\ events[d].el = "directory"
      /\ 1 \in Enclosing(events, d)
  <2>1. d # 1 BY DEF FirstDirectory
  <2> QED BY <2>1 DEF FirstDirectory
<1>4. \A k \in 1..(d - 1) : Depth(events, 1, k) >= 1
  BY <1>3, EnclosedByRoot
<1>5. PICK c \in d..n : IsClose(events, d, c)
  <2>1. n \in Nat /\ d >= 1 BY <1>3
  <2> QED BY <2>1, <1>3, FirstClose
<1>6. /\ d >= 1 /\ c \in d..Len(events) /\ Len(events) \in Nat
      /\ \A k \in 1..c : k \in 1..n
      /\ \A k \in 1..(d - 1) : k \in 1..n
  BY <1>3
<1> DEFINE e == d - 1
<1>7. /\ e \in Nat /\ 1 <= e /\ e <= Len(events) /\ e \in 1..e
      /\ \A k \in 1..e : /\ Depth(events, 1, k) >= 1
                         /\ events[k].ev # "unsafe"
  BY <1>3, <1>4, <1>6
<1>8. ASSUME NEW k \in (1 + 1)..e,
             events[k].ev = "open" /\ events[k].el = "directory"
      PROVE  FALSE
  <2>1. /\ k \in 2..Len(events) /\ ~(d <= k)
        /\ \A j \in 1..(k - 1) : j \in 1..e
    BY <1>3
  <2>2. \A j \in 1..(k - 1) : Depth(events, 1, j) >= 1
    BY <2>1, <1>7
  <2>3. k \in FirstDirectory(events) BY <2>1, <2>2, <1>8, NoneBefore
  <2> QED BY <2>1, <2>3
<1>9. f[d] = ParseEvent(f[e], events[d])
  <2>1. d \in 1..Len(events) BY <1>3
  <2> QED BY <2>1 DEF IsRun
<1> HIDE DEF e
<1>10. Descended(f[e], 2, "scan", Depth(events, 1, e))
  <2>1. 1 \in Nat /\ 1 >= 1 OBVIOUS
  <2>2. \A k \in 1..e : Descended(f[k], 2, "scan", Depth(events, 1, k))
    BY <2>1, <1>2, <1>7, <1>8, Descends
  <2> QED BY <2>2, <1>7
<1> DEFINE p == f[e]  q == f[d]
<1>11. IsParser(p) /\ Standing(p.stack) /\ p.status = "reading"
  BY <1>10 DEF Descended
<1>12. q = Push(p, "flat", NewState)
  <2>1. ParseEvent(p, events[d]) = InScan(p, events[d])
    BY <1>3, <1>10, DescentTurn
  <2> QED BY <2>1, <1>3, <1>9 DEF InScan
<1>13. Pushed(p, q, "flat") BY <1>11, <1>12, PushGrows
<1> DEFINE L == Len(p.stack) + 1
<1>14. Descended(q, L, "flat", 1) BY <1>11, <1>13, DescentStarts
<1> HIDE DEF L, p
<1>15. \A k \in 1..c : events[k].ev # "unsafe" BY <1>6
<1>16. Descended(f[d], L, "flat", 1) BY <1>14
<1>17. "flat" # "scan" OBVIOUS
<1> HIDE DEF q
<1> QED BY <1>3, <1>5, <1>6, <1>15, <1>16, <1>17, DescentDone

(* A document whose root, or whose first directory when it is merged, is   *)
(* closed and that has no unsafe construct before that is parsed without   *)
(* an error, whatever it has in it.                                        *)
THEOREM CompleteParses ==
  ASSUME NEW merge \in BOOLEAN, NEW barcode, NEW document \in Seq(Events),
         Complete(document, merge)
  PROVE  Parsed(Parse(merge, barcode, document)).ok
<1> DEFINE m == Len(document)
<1>1. m \in Nat /\ \A k \in 1..m : document[k] \in Events
  BY LenProperties, ElementOfSeq
<1>2. PICK f : /\ IsParse(merge, barcode, document, f)
               /\ Parse(merge, barcode, document) = f[m]
  BY <1>1, ParseSteps
<1>3. ASSUME NEW k \in 0..m
      PROVE  f[k] = IF k = 0 THEN StartParse(merge, barcode)
                    ELSE ParseEvent(f[k - 1], document[k])
  BY <1>2, Zenon DEF IsParse
<1>4. f[0] = StartParse(merge, barcode) BY <1>1, <1>3
<1>5. IsRun(f, document, m)
  <2> SUFFICES ASSUME NEW k \in 1..m
               PROVE  /\ document[k] \in Events
                      /\ f[k] = ParseEvent(f[k - 1], document[k])
    BY DEF IsRun
  <2>1. k \in 0..m /\ k # 0 BY <1>1
  <2> HIDE DEF m
  <2> QED BY <2>1, <1>1, <1>3
<1>6. /\ document[1].ev = "open"
      /\ document[1].el \in {"ltfsindex", "directory"}
  BY DEF Complete
<1>7. PICK n \in 1..m : /\ ClosedBy(document, TopOf(document, merge), n)
                        /\ \A k \in 1..n : document[k].ev # "unsafe"
  BY DEF Complete
<1> DEFINE D == FirstDirectory(document)  d == MinOfSet(D)
<1>8. D # {} => d \in D /\ \A i \in D : d <= i
  BY <1>1, FirstIsLeast
<1>9. document[1].el = "directory" => 1 \in D
  <2>1. 1 \in 1..m BY <1>1
  <2> QED BY <2>1, <1>6 DEF FirstDirectory
<1>10. TopOf(document, merge) = IF merge /\ D # {} THEN d ELSE 1
  BY DEF TopOf
<1>11. CASE merge /\ D # {} /\ document[1].el = "ltfsindex"
  <2>1. ClosedBy(document, d, n) BY <1>7, <1>10, <1>11
  <2>2. merge = TRUE BY <1>11
  <2> HIDE DEF d
  <2>3. f[m].status = "done"
    BY <2>1, <2>2, <1>1, <1>4, <1>5, <1>6, <1>7, <1>8, <1>11,
       DirectoryParses
  <2> QED BY <2>3, <1>2 DEF Parsed
<1>12. CASE ~(merge /\ D # {} /\ document[1].el = "ltfsindex")
  <2>1. merge /\ D # {} => document[1].el = "directory"
    BY <1>6, <1>12
  <2>2. TopOf(document, merge) = 1
    <3>1. CASE merge /\ D # {}
      <4>1. 1 \in D /\ d \in D /\ d <= 1 BY <3>1, <2>1, <1>8, <1>9
      <4>2. d \in Nat /\ d >= 1 BY <4>1, <1>1 DEF FirstDirectory
      <4> HIDE DEF d
      <4>3. d = 1 BY <4>1, <4>2
      <4> HIDE DEF D
      <4> QED BY <4>3, <3>1, <1>10
    <3> QED BY <3>1, <1>10
  <2>3. f[m].status = "done"
    BY <2>1, <2>2, <1>1, <1>4, <1>5, <1>6, <1>7, RootParses
  <2> QED BY <2>3, <1>2 DEF Parsed
<1> QED BY <1>11, <1>12

(***************************************************************************)
(* The order of the names.                                                 *)
(***************************************************************************)

(* Entries to be sorted have numbers of their own.                         *)
IsEntries(u) ==
  /\ Sequential(u)
  /\ \A k \in 1..Len(u) : u[k].sequence \in Nat
  /\ \A j, k \in 1..Len(u) : u[j].sequence = u[k].sequence => j = k

Rising(u) == \A j, k \in 1..Len(u) : j < k => NameBefore(u[j], u[k])

Ahead(u, k) == {j \in 1..Len(u) : NameBefore(u[j], u[k])}
AheadOf(u, k) == Cardinality(Ahead(u, k))

LEMMA PlaceIsNat ==
  ASSUME NEW name
  PROVE  PlaceOfName(name) \in Nat
BY QueryAssumption DEF PlaceOfName

LEMMA NameOrder ==
  ASSUME NEW x, NEW y, NEW z,
         x.sequence \in Nat, y.sequence \in Nat, z.sequence \in Nat
  PROVE  /\ ~NameBefore(x, x)
         /\ NameBefore(x, y) => ~NameBefore(y, x)
         /\ NameBefore(x, y) /\ NameBefore(y, z) => NameBefore(x, z)
         /\ NameBefore(x, y) \/ NameBefore(y, x) \/ x.sequence = y.sequence
<1> DEFINE p == PlaceOfName(x.name)  q == PlaceOfName(y.name)
           r == PlaceOfName(z.name)
           i == x.sequence  j == y.sequence  k == z.sequence
<1>1. p \in Nat /\ q \in Nat /\ r \in Nat BY PlaceIsNat
<1>2. /\ NameBefore(x, x) <=> p < p \/ (p = p /\ i < i)
      /\ NameBefore(x, y) <=> p < q \/ (p = q /\ i < j)
      /\ NameBefore(y, x) <=> q < p \/ (q = p /\ j < i)
      /\ NameBefore(y, z) <=> q < r \/ (q = r /\ j < k)
      /\ NameBefore(x, z) <=> p < r \/ (p = r /\ i < k)
  BY DEF NameBefore
<1>3. i \in Nat /\ j \in Nat /\ k \in Nat OBVIOUS
<1> HIDE DEF p, q, r, i, j, k
<1> QED BY <1>1, <1>2, <1>3 DEF i, j

LEMMA AheadCount ==
  ASSUME NEW u, IsEntries(u), NEW k \in 1..Len(u)
  PROVE  /\ IsFiniteSet(Ahead(u, k))
         /\ AheadOf(u, k) \in Nat /\ AheadOf(u, k) < Len(u)
<1> DEFINE n == Len(u)  A == Ahead(u, k)
<1>1. n \in Nat BY SequentialFacts DEF IsEntries
<1>2. /\ IsFiniteSet(1..n)
      /\ Cardinality(1..n) = IF 1 > n THEN 0 ELSE n - 1 + 1
  BY <1>1, FS_Interval
<1>3. Cardinality(1..n) = n BY <1>1, <1>2
<1>4. A \in SUBSET (1..n) /\ k \notin A
  <2>1. ~NameBefore(u[k], u[k]) BY NameOrder DEF IsEntries
  <2> QED BY <2>1 DEF Ahead
<1> HIDE DEF n, A
<1>5. /\ IsFiniteSet(A) /\ Cardinality(A) <= n
      /\ (n = Cardinality(A) => 1..n = A)
  BY <1>2, <1>3, <1>4, FS_Subset
<1>6. k \in 1..n BY DEF n
<1>7. Cardinality(A) # n BY <1>4, <1>5, <1>6
<1>8. Cardinality(A) \in Nat BY <1>5, FS_CardinalityType
<1> QED BY <1>1, <1>5, <1>7, <1>8 DEF AheadOf, A, n

LEMMA AheadGrows ==
  ASSUME NEW u, IsEntries(u), NEW j \in 1..Len(u), NEW k \in 1..Len(u),
         NameBefore(u[j], u[k])
  PROVE  AheadOf(u, j) < AheadOf(u, k)
<1> DEFINE A == Ahead(u, j)  B == Ahead(u, k)
<1>1. A \in SUBSET B
  <2> SUFFICES ASSUME NEW i \in A PROVE i \in B OBVIOUS
  <2>1. i \in 1..Len(u) /\ NameBefore(u[i], u[j]) BY DEF Ahead
  <2>2. NameBefore(u[i], u[k]) BY <2>1, NameOrder DEF IsEntries
  <2> QED BY <2>1, <2>2 DEF Ahead
<1>2. j \in B BY DEF Ahead
<1>3. j \notin A
  <2>1. ~NameBefore(u[j], u[j]) BY NameOrder DEF IsEntries
  <2> QED BY <2>1 DEF Ahead
<1>4. /\ IsFiniteSet(B) /\ Cardinality(B) \in Nat /\ Cardinality(A) \in Nat
  BY AheadCount DEF AheadOf
<1> HIDE DEF A, B
<1>5. /\ Cardinality(A) <= Cardinality(B)
      /\ Cardinality(B) = Cardinality(A) => B = A
  BY <1>1, <1>4, FS_Subset
<1> QED BY <1>2, <1>3, <1>4, <1>5 DEF AheadOf, A, B

LEMMA AheadApart ==
  ASSUME NEW u, IsEntries(u), NEW j \in 1..Len(u), NEW k \in 1..Len(u)
  PROVE  /\ AheadOf(u, j) = AheadOf(u, k) => j = k
         /\ AheadOf(u, j) < AheadOf(u, k) => NameBefore(u[j], u[k])
<1>1. AheadOf(u, j) \in Nat /\ AheadOf(u, k) \in Nat BY AheadCount
<1>2. NameBefore(u[j], u[k]) \/ NameBefore(u[k], u[j]) \/ j = k
  BY NameOrder DEF IsEntries
<1>3. NameBefore(u[j], u[k]) => AheadOf(u, j) < AheadOf(u, k)
  BY AheadGrows
<1>4. NameBefore(u[k], u[j]) => AheadOf(u, k) < AheadOf(u, j)
  BY AheadGrows
<1> QED BY <1>1, <1>2, <1>3, <1>4

(* Some entry has every place.                                             *)
LEMMA AheadPlaces ==
  ASSUME NEW u, IsEntries(u), NEW p \in 1..Len(u)
  PROVE  \E k \in 1..Len(u) : AheadOf(u, k) = p - 1
<1> DEFINE n == Len(u)  f == [k \in 1..n |-> AheadOf(u, k) + 1]
<1>1. n \in Nat BY SequentialFacts DEF IsEntries
<1>2. IsFiniteSet(1..n) BY <1>1, FS_Interval
<1>3. f \in Injection(1..n, 1..n)
  <2>1. \A k \in 1..n : AheadOf(u, k) \in Nat /\ AheadOf(u, k) + 1 \in 1..n
    <3> SUFFICES ASSUME NEW k \in 1..n
                 PROVE  AheadOf(u, k) \in Nat /\ AheadOf(u, k) + 1 \in 1..n
      OBVIOUS
    <3>1. AheadOf(u, k) \in Nat /\ AheadOf(u, k) < n BY AheadCount
    <3> QED BY <3>1, <1>1
  <2>2. \A j, k \in 1..n : f[j] = f[k] => j = k
    <3> SUFFICES ASSUME NEW j \in 1..n, NEW k \in 1..n, f[j] = f[k]
                 PROVE  j = k
      OBVIOUS
    <3>1. AheadOf(u, j) = AheadOf(u, k) BY <2>1
    <3> QED BY <3>1, AheadApart
  <2>3. f \in [1..n -> 1..n] BY <2>1
  <2> HIDE DEF f, n
  <2> QED BY <2>2, <2>3, Zenon DEF Injection, IsInjective
<1> HIDE DEF f
<1>4. f \in Surjection(1..n, 1..n)
  <2> HIDE DEF n
  <2> QED BY <1>2, <1>3, FS_Injection
<1>5. PICK k \in 1..n : f[k] = p
  BY <1>4 DEF Surjection, n
<1>6. AheadOf(u, k) + 1 = p BY <1>5 DEF f
<1>7. AheadOf(u, k) \in Nat BY AheadCount
<1>8. AheadOf(u, k) = p - 1 BY <1>6, <1>7
<1> QED BY <1>8

(* r[p] is the entry of u with the place p.                                *)
IsPlaced(u, r) ==
  /\ Sequential(r) /\ Len(r) = Len(u)
  /\ \A p \in 1..Len(u) :
       \E k \in 1..Len(u) : AheadOf(u, k) = p - 1 /\ r[p] = u[k]

LEMMA SequentialFunction ==
  ASSUME NEW n \in Nat, NEW r, r = [k \in 1..n |-> r[k]]
  PROVE  Sequential(r) /\ Len(r) = n
<1> DEFINE S == {r[k] : k \in 1..n}
<1>1. r \in [1..n -> S]
  <2>1. \A k \in 1..n : r[k] \in S OBVIOUS
  <2> HIDE DEF S
  <2> QED BY <2>1
<1>2. r \in Seq(S) /\ Len(r) = n
  <2> HIDE DEF S
  <2>1. r \in Seq(S) BY <1>1
  <2>2. DOMAIN r = 1..n BY <1>1
  <2>3. DOMAIN r = 1..Len(r) /\ Len(r) \in Nat BY <2>1, LenProperties
  <2> QED BY <2>1, <2>2, <2>3
<1> HIDE DEF S
<1> QED BY <1>2 DEF Sequential

LEMMA SameSequence ==
  ASSUME NEW s, NEW t, Sequential(s), Sequential(t), Len(s) = Len(t),
         \A k \in 1..Len(s) : s[k] = t[k]
  PROVE  s = t
<1>1. PICK S : s \in Seq(S) BY DEF Sequential
<1>2. PICK T : t \in Seq(T) BY DEF Sequential
<1> DEFINE U == S \cup T
<1>3. s \in Seq(U) BY <1>1, SeqSubset
<1>4. t \in Seq(U) BY <1>2, SeqSubset
<1> HIDE DEF U
<1> QED BY <1>3, <1>4, SeqEqual

LEMMA CountTo ==
  ASSUME NEW n \in Nat
  PROVE  IsFiniteSet(1..n) /\ Cardinality(1..n) = n
<1>1. /\ IsFiniteSet(1..n)
      /\ Cardinality(1..n) = IF 1 > n THEN 0 ELSE n - 1 + 1
  BY FS_Interval
<1> QED BY <1>1

LEMMA NameRunIs ==
  ASSUME NEW u, IsEntries(u)
  PROVE  IsPlaced(u, NameRun(u))
<1> DEFINE n == Len(u)  r == NameRun(u)
           At(p) == CHOOSE k \in 1..n : AheadOf(u, k) = p - 1
<1>1. n \in Nat /\ DOMAIN u = 1..n BY SequentialFacts DEF IsEntries
<1>2. r = [p \in 1..n |-> u[At(p)]]
  BY <1>1 DEF NameRun, AheadOf, Ahead
<1>3. \A p \in 1..n : At(p) \in 1..n /\ AheadOf(u, At(p)) = p - 1
  <2> SUFFICES ASSUME NEW p \in 1..n
               PROVE  At(p) \in 1..n /\ AheadOf(u, At(p)) = p - 1
    OBVIOUS
  <2>1. \E k \in 1..n : AheadOf(u, k) = p - 1 BY AheadPlaces
  <2> QED BY <2>1
<1> HIDE DEF At, r, n
<1>4. Sequential(r) /\ Len(r) = n
  <2>1. r = [k \in 1..n |-> r[k]] BY <1>2
  <2> QED BY <1>1, <2>1, SequentialFunction
<1>5. \A p \in 1..n : r[p] = u[At(p)] BY <1>2
<1> QED BY <1>3, <1>4, <1>5 DEF IsPlaced, n, r

LEMMA PlacedRises ==
  ASSUME NEW u, IsEntries(u), NEW r, IsPlaced(u, r)
  PROVE  /\ Rising(r)
         /\ \A k \in 1..Len(u) : \E p \in 1..Len(r) : r[p] = u[k]
         /\ \A p \in 1..Len(r) : \E k \in 1..Len(u) : r[p] = u[k]
<1>1. ASSUME NEW p \in 1..Len(r), NEW q \in 1..Len(r), p < q
      PROVE  NameBefore(r[p], r[q])
  <2>1. PICK j \in 1..Len(u) : AheadOf(u, j) = p - 1 /\ r[p] = u[j]
    BY DEF IsPlaced
  <2>2. PICK k \in 1..Len(u) : AheadOf(u, k) = q - 1 /\ r[q] = u[k]
    BY DEF IsPlaced
  <2>3. AheadOf(u, j) < AheadOf(u, k) BY <1>1, <2>1, <2>2
  <2> QED BY <2>1, <2>2, <2>3, AheadApart
<1>2. ASSUME NEW k \in 1..Len(u)
      PROVE  \E p \in 1..Len(r) : r[p] = u[k]
  <2> DEFINE a == AheadOf(u, k)
  <2>1. a \in Nat /\ a < Len(u) BY AheadCount
  <2>2. Len(u) \in Nat BY SequentialFacts DEF IsEntries
  <2> HIDE DEF a
  <2>3. a + 1 \in 1..Len(u) /\ (a + 1) - 1 = a BY <2>1, <2>2
  <2>4. PICK j \in 1..Len(u) : AheadOf(u, j) = (a + 1) - 1
                               /\ r[a + 1] = u[j]
    BY <2>3 DEF IsPlaced
  <2>5. j = k BY <2>3, <2>4, AheadApart DEF a
  <2> QED BY <2>3, <2>4, <2>5 DEF IsPlaced
<1> QED BY <1>1, <1>2 DEF Rising, IsPlaced

(* Entries that rise are each at its place: those before one are exactly   *)
(* those ahead of it.                                                      *)
LEMMA RisingIs ==
  ASSUME NEW u, IsEntries(u), NEW r, Sequential(r), Rising(r),
         \A k \in 1..Len(u) : \E p \in 1..Len(r) : r[p] = u[k],
         \A p \in 1..Len(r) : \E k \in 1..Len(u) : r[p] = u[k]
  PROVE  IsPlaced(u, r)
<1> DEFINE n == Len(u)  m == Len(r)
           g == [p \in 1..m |-> CHOOSE k \in 1..n : u[k] = r[p]]
<1>1. n \in Nat /\ m \in Nat BY SequentialFacts DEF IsEntries
<1>2. \A p \in 1..m : g[p] \in 1..n /\ u[g[p]] = r[p] OBVIOUS
<1>3. \A p \in 1..m : r[p].sequence \in Nat
  BY <1>2 DEF IsEntries
<1>4. g \in [1..m -> 1..n] BY <1>2
<1> HIDE DEF g
<1>5. ASSUME NEW p \in 1..m, NEW q \in 1..m
      PROVE  NameBefore(r[p], r[q]) <=> p < q
  <2>1. r[p].sequence \in Nat /\ r[q].sequence \in Nat BY <1>3
  <2>2. p < q => NameBefore(r[p], r[q]) BY DEF Rising
  <2>3. q < p => NameBefore(r[q], r[p]) BY DEF Rising
  <2>4. p = q => ~NameBefore(r[p], r[q]) BY <2>1, NameOrder
  <2>5. p < q \/ q < p \/ p = q BY <1>1
  <2>6. ~NameBefore(r[p], r[q]) \/ ~NameBefore(r[q], r[p])
    BY <2>1, NameOrder
  <2>7. ~(p < q /\ q < p) /\ (p = q => ~(p < q))
    <3>1. p \in Int /\ q \in Int BY <1>1
    <3> HIDE DEF m
    <3> QED BY <3>1
  <2> QED BY <2>2, <2>3, <2>4, <2>5, <2>6, <2>7
<1>6. ASSUME NEW p \in 1..m, NEW q \in 1..m, g[p] = g[q]
      PROVE  p = q
  <2>1. r[p] = r[q] BY <1>2, <1>6
  <2>2. ~(p < q) /\ ~(q < p) /\ p \in Int /\ q \in Int
    <3>1. ~(p < p) /\ ~(q < q) /\ p \in Int /\ q \in Int BY <1>1
    <3> QED BY <2>1, <1>5, <3>1
  <2> QED BY <2>2
<1>7. ASSUME NEW k \in 1..n
      PROVE  \E p \in 1..m : g[p] = k
  <2>1. PICK p \in 1..m : r[p] = u[k] OBVIOUS
  <2>2. u[g[p]] = u[k] /\ g[p] \in 1..n BY <2>1, <1>2
  <2>3. g[p] = k BY <2>2 DEF IsEntries
  <2> QED BY <2>3
<1>8. m = n
  <2>1. g \in Injection(1..m, 1..n)
    BY <1>4, <1>6, Zenon DEF Injection, IsInjective
  <2>2. g \in Surjection(1..m, 1..n)
    BY <1>4, <1>7, Zenon DEF Surjection
  <2> HIDE DEF m, n
  <2>3. IsFiniteSet(1..n) /\ Cardinality(1..n) = n BY <1>1, CountTo
  <2>4. Cardinality(1..m) = m BY <1>1, CountTo
  <2>5. Cardinality(1..m) = Cardinality(1..n)
    BY <2>1, <2>2, <2>3, FS_Injection
  <2> QED BY <2>3, <2>4, <2>5, <1>1
<1>9. ASSUME NEW p \in 1..m
      PROVE  AheadOf(u, g[p]) = p - 1
  <2> DEFINE A == Ahead(u, g[p])  h == [i \in 1..(p - 1) |-> g[i]]
  <2>1. \A i \in 1..(p - 1) : i \in 1..m /\ i < p /\ i \in 1..m
    BY <1>1
  <2>2. \A j \in 1..n : j \in A <=> NameBefore(u[j], r[p])
    BY <1>2 DEF Ahead
  <2>3. \A i \in 1..(p - 1) : g[i] \in A
    <3> SUFFICES ASSUME NEW i \in 1..(p - 1) PROVE g[i] \in A OBVIOUS
    <3>1. i \in 1..m /\ i < p BY <2>1
    <3>2. NameBefore(r[i], r[p]) BY <3>1, <1>5
    <3>3. g[i] \in 1..n /\ u[g[i]] = r[i] BY <3>1, <1>2
    <3> HIDE DEF A
    <3> QED BY <3>2, <3>3, <2>2
  <2>4. \A j \in A : \E i \in 1..(p - 1) : g[i] = j
    <3> SUFFICES ASSUME NEW j \in A
                 PROVE  \E i \in 1..(p - 1) : g[i] = j
      OBVIOUS
    <3>1. j \in 1..n BY DEF Ahead
    <3>2. PICK i \in 1..m : g[i] = j BY <3>1, <1>7
    <3>3. u[j] = r[i] BY <3>2, <1>2
    <3>4. NameBefore(r[i], r[p]) BY <3>1, <3>3, <2>2
    <3>5. i < p BY <3>4, <1>5
    <3>6. i \in 1..(p - 1) BY <3>5, <1>1
    <3> QED BY <3>2, <3>6
  <2>5. h \in [1..(p - 1) -> A] BY <2>3
  <2>6. \A i, j \in 1..(p - 1) : h[i] = h[j] => i = j
    BY <2>1, <1>6
  <2>7. \A j \in A : \E i \in 1..(p - 1) : h[i] = j
    BY <2>4
  <2>8. p - 1 \in Nat BY <1>1
  <2>9. /\ IsFiniteSet(1..(p - 1)) /\ Cardinality(1..(p - 1)) = p - 1
    BY <2>8, CountTo
  <2> HIDE DEF A, h
  <2>10. h \in Injection(1..(p - 1), A)
    BY <2>5, <2>6, Zenon DEF Injection, IsInjective
  <2>11. h \in Surjection(1..(p - 1), A)
    BY <2>5, <2>7, Zenon DEF Surjection
  <2>12. ExistsBijection(1..(p - 1), A)
    BY <2>10, <2>11, Zenon DEF ExistsBijection, Bijection
  <2>13. Cardinality(A) = Cardinality(1..(p - 1))
    BY <2>9, <2>12, FS_Bijection
  <2> QED BY <2>9, <2>13 DEF AheadOf, A
<1> QED BY <1>2, <1>8, <1>9 DEF IsPlaced

(* The names y are those of the entries u, in the order they stand in.     *)
Names(u, y) ==
  /\ Sequential(y) /\ Len(y) = Len(u)
  /\ \A k \in 1..Len(u) : u[k].sequence = k - 1 /\ u[k].name = y[k].name

LEMMA PlaceIs ==
  ASSUME NEW u, IsEntries(u), NEW y, Names(u, y), NEW k \in 1..Len(u)
  PROVE  Place(y, k, OrderedBy) = 1 + AheadOf(u, k)
<1> DEFINE n == Len(u)
           A == {j \in DOMAIN y : \/ OrderedBy(y[j], y[k])
                                  \/ j < k /\ ~OrderedBy(y[k], y[j])}
<1>1. n \in Nat /\ DOMAIN y = 1..n
  BY SequentialFacts DEF Names
<1>2. Place(y, k, OrderedBy) = 1 + Cardinality(A) BY DEF Place
<1>3. ASSUME NEW j \in 1..n
      PROVE  (\/ OrderedBy(y[j], y[k])
              \/ j < k /\ ~OrderedBy(y[k], y[j]))
               <=> NameBefore(u[j], u[k])
  <2> DEFINE p == PlaceOfName(y[j].name)  q == PlaceOfName(y[k].name)
  <2>1. p \in Nat /\ q \in Nat BY PlaceIsNat
  <2>2. /\ u[j].name = y[j].name /\ u[k].name = y[k].name
        /\ u[j].sequence = j - 1 /\ u[k].sequence = k - 1
    BY DEF Names
  <2>3. NameBefore(u[j], u[k]) <=> p < q \/ (p = q /\ j - 1 < k - 1)
    BY <2>2 DEF NameBefore
  <2>4. /\ OrderedBy(y[j], y[k]) <=> p < q
        /\ OrderedBy(y[k], y[j]) <=> q < p
    BY DEF OrderedBy
  <2>5. j \in Int /\ k \in Int BY <1>1
  <2> HIDE DEF p, q
  <2> QED BY <2>1, <2>3, <2>4, <2>5
<1>4. A = Ahead(u, k) BY <1>1, <1>3 DEF Ahead
<1> HIDE DEF A
<1> QED BY <1>2, <1>4 DEF AheadOf

(* The stable order by name.                                               *)
InOrder(y) == Sorted(y, OrderedBy)

IsInOrder(u, y, z) ==
  /\ Sequential(z) /\ Len(z) = Len(u)
  /\ \A p \in 1..Len(u) : \A k \in 1..Len(u) :
       AheadOf(u, k) = p - 1 => z[p] = y[k]

LEMMA SortedIs ==
  ASSUME NEW u, IsEntries(u), NEW y, Names(u, y)
  PROVE  IsInOrder(u, y, InOrder(y))
<1> DEFINE n == Len(u)  z == InOrder(y)
           At(p) == CHOOSE k \in 1..n : Place(y, k, OrderedBy) = p
<1>1. n \in Nat /\ DOMAIN y = 1..n
  BY SequentialFacts DEF Names
<1>2. z = [p \in 1..n |-> y[At(p)]] BY <1>1 DEF Sorted, InOrder
<1>3. ASSUME NEW p \in 1..n, NEW k \in 1..n, AheadOf(u, k) = p - 1
      PROVE  At(p) = k
  <2>1. Place(y, k, OrderedBy) = p
    <3>1. Place(y, k, OrderedBy) = 1 + AheadOf(u, k) BY PlaceIs
    <3>2. 1 + (p - 1) = p BY <1>1
    <3> QED BY <3>1, <3>2, <1>3
  <2>2. At(p) \in 1..n /\ Place(y, At(p), OrderedBy) = p BY <2>1
  <2> DEFINE a == At(p)
  <2> HIDE DEF a
  <2>3. a \in 1..n /\ Place(y, a, OrderedBy) = p BY <2>2 DEF a
  <2>4. 1 + AheadOf(u, a) = p BY <2>3, PlaceIs
  <2>5. AheadOf(u, a) \in Nat BY <2>3, AheadCount
  <2>6. AheadOf(u, a) = AheadOf(u, k) BY <2>4, <2>5, <1>1, <1>3
  <2>7. a = k BY <2>3, <2>6, AheadApart
  <2> QED BY <2>7 DEF a
<1> HIDE DEF z, At, n
<1>4. Sequential(z) /\ Len(z) = n
  <2>1. z = [k \in 1..n |-> z[k]] BY <1>2
  <2> QED BY <1>1, <2>1, SequentialFunction
<1>5. \A p \in 1..n : \A k \in 1..n : AheadOf(u, k) = p - 1 => z[p] = y[k]
  BY <1>2, <1>3
<1> QED BY <1>4, <1>5 DEF IsInOrder, z, n

(* Names that do not fall are sorted as they stand.                        *)
LEMMA OrderStays ==
  ASSUME NEW y, Sequential(y),
         \A j, k \in 1..Len(y) :
           j < k => PlaceOfName(y[j].name) <= PlaceOfName(y[k].name)
  PROVE  y = InOrder(y)
<1> DEFINE n == Len(y)  z == InOrder(y)
           u == [k \in 1..n |-> [name |-> y[k].name, sequence |-> k - 1]]
<1>1. n \in Nat BY SequentialFacts
<1>2. \A k \in 1..n : u[k].sequence = k - 1 /\ u[k].name = y[k].name
  OBVIOUS
<1>3. Sequential(u) /\ Len(u) = n
  <2>1. u = [k \in 1..n |-> u[k]] OBVIOUS
  <2> HIDE DEF u, n
  <2> QED BY <1>1, <2>1, SequentialFunction
<1> HIDE DEF u
<1>4. Names(u, y) BY <1>2, <1>3 DEF Names
<1>5. IsEntries(u)
  <2>1. \A k \in 1..n : u[k].sequence \in Nat BY <1>1, <1>2
  <2>2. \A j, k \in 1..n : j - 1 = k - 1 => j = k BY <1>1
  <2> QED BY <1>2, <1>3, <2>1, <2>2 DEF IsEntries
<1>6. Rising(u)
  <2> SUFFICES ASSUME NEW j \in 1..n, NEW k \in 1..n, j < k
               PROVE  NameBefore(u[j], u[k])
    BY <1>3 DEF Rising
  <2> DEFINE p == PlaceOfName(y[j].name)  q == PlaceOfName(y[k].name)
  <2>1. p \in Nat /\ q \in Nat /\ p <= q BY PlaceIsNat
  <2>2. NameBefore(u[j], u[k]) <=> p < q \/ (p = q /\ j - 1 < k - 1)
    BY <1>2 DEF NameBefore
  <2>3. j \in Int /\ k \in Int BY <1>1
  <2> HIDE DEF p, q
  <2> QED BY <2>1, <2>2, <2>3
<1>7. IsPlaced(u, u)
  <2>1. \A k \in 1..Len(u) : \E p \in 1..Len(u) : u[p] = u[k] OBVIOUS
  <2> QED BY <1>3, <1>5, <1>6, <2>1, RisingIs
<1>8. ASSUME NEW p \in 1..n PROVE AheadOf(u, p) = p - 1
  <2>1. PICK k \in 1..n : AheadOf(u, k) = p - 1 /\ u[p] = u[k]
    BY <1>3, <1>7 DEF IsPlaced
  <2>2. k = p BY <2>1, <1>3, <1>5 DEF IsEntries
  <2> QED BY <2>1, <2>2
<1>9. IsInOrder(u, y, z) BY <1>4, <1>5, SortedIs
<1> HIDE DEF z
<1>10. /\ Sequential(z) /\ Len(z) = n
       /\ \A p \in 1..n : z[p] = y[p]
  BY <1>3, <1>8, <1>9 DEF IsInOrder
<1>11. y = z BY <1>10, SameSequence
<1> QED BY <1>11 DEF z

(***************************************************************************)
(* Chunks, runs and the heap.                                              *)
(***************************************************************************)

(* The entries of u with a place in S are in the runs rr, one run each.    *)
Spread(u, S, rr) ==
  /\ Sequential(rr)
  /\ \A r \in 1..Len(rr) : Sequential(rr[r]) /\ Rising(rr[r])
  /\ \A r \in 1..Len(rr) : \A i \in 1..Len(rr[r]) :
       \E k \in S : rr[r][i] = u[k]
  /\ \A k \in S : \E r \in 1..Len(rr) : \E i \in 1..Len(rr[r]) :
       rr[r][i] = u[k]
  /\ \A r, q \in 1..Len(rr) :
       \A i \in 1..Len(rr[r]), j \in 1..Len(rr[q]) :
         rr[r][i] = rr[q][j] => r = q

(* The first c entries of u have been collected, the last in the chunk.    *)
Collected(u, c, chunk, rr) ==
  /\ IsEntries(u) /\ c \in 0..Len(u)
  /\ Sequential(chunk) /\ Len(chunk) <= c
  /\ \A k \in 1..Len(chunk) : chunk[k] = u[(c - Len(chunk)) + k]
  /\ Spread(u, 1..(c - Len(chunk)), rr)

LEMMA CollectAdds ==
  ASSUME NEW u, NEW c, NEW chunk, NEW rr, Collected(u, c, chunk, rr),
         c < Len(u), NEW more, more = Append(chunk, u[c + 1])
  PROVE  /\ IsEntries(more) /\ Len(more) = Len(chunk) + 1
         /\ Collected(u, c + 1, more, rr)
<1> DEFINE m == Len(chunk)  n == Len(u)
<1>1. /\ IsEntries(u) /\ c \in Nat /\ m \in Nat /\ m <= c /\ n \in Nat
      /\ \A k \in 1..m : chunk[k] = u[(c - m) + k]
      /\ Spread(u, 1..(c - m), rr)
  BY SequentialFacts DEF Collected, IsEntries
<1>2. /\ Sequential(more) /\ Len(more) = m + 1 /\ more[m + 1] = u[c + 1]
      /\ \A k \in 1..m : more[k] = chunk[k]
  BY SequentialAppend DEF Collected, IsLonger
<1> HIDE DEF m, n
<1>3. (c + 1) - (m + 1) = c - m /\ m + 1 <= c + 1 BY <1>1
<1>4. \A k \in 1..(m + 1) : more[k] = u[(c - m) + k]
  <2> SUFFICES ASSUME NEW k \in 1..(m + 1)
               PROVE  more[k] = u[(c - m) + k]
    OBVIOUS
  <2>1. CASE k \in 1..m BY <2>1, <1>1, <1>2
  <2>2. CASE k \notin 1..m
    <3>1. k = m + 1 /\ (c - m) + k = c + 1 BY <2>2, <1>1
    <3> QED BY <3>1, <1>2
  <2> QED BY <2>1, <2>2
<1>5. \A k \in 1..(m + 1) : (c - m) + k \in 1..n
  <2>1. c < n BY DEF n
  <2> QED BY <2>1, <1>1
<1>6. IsEntries(more)
  <2>1. \A k \in 1..n : u[k].sequence \in Nat BY <1>1 DEF IsEntries, n
  <2>2. \A j, k \in 1..n : u[j].sequence = u[k].sequence => j = k
    BY <1>1 DEF IsEntries, n
  <2>3. \A j, k \in 1..(m + 1) : (c - m) + j = (c - m) + k => j = k
    BY <1>1
  <2>4. \A k \in 1..(m + 1) : more[k].sequence \in Nat
    BY <1>4, <1>5, <2>1
  <2>5. \A j, k \in 1..(m + 1) :
          more[j].sequence = more[k].sequence => j = k
    <3> SUFFICES ASSUME NEW j \in 1..(m + 1), NEW k \in 1..(m + 1),
                        more[j].sequence = more[k].sequence
                 PROVE  j = k
      OBVIOUS
    <3>1. more[j] = u[(c - m) + j] /\ more[k] = u[(c - m) + k] BY <1>4
    <3>2. (c - m) + j \in 1..n /\ (c - m) + k \in 1..n BY <1>5
    <3>3. (c - m) + j = (c - m) + k BY <3>1, <3>2, <2>2
    <3> QED BY <3>3, <2>3
  <2> QED BY <1>2, <2>4, <2>5 DEF IsEntries
<1>7. c + 1 \in 0..Len(u)
  <2>1. c < n BY DEF n
  <2>2. c + 1 \in 0..n BY <2>1, <1>1
  <2> QED BY <2>2 DEF n
<1>8. Collected(u, c + 1, more, rr)
  BY <1>1, <1>2, <1>3, <1>4, <1>7 DEF Collected
<1> QED BY <1>2, <1>6, <1>8 DEF m

(* The chunk becomes a run.                                                *)
LEMMA CollectFlushes ==
  ASSUME NEW u, NEW c, NEW chunk, NEW rr, Collected(u, c, chunk, rr),
         IsEntries(chunk)
  PROVE  Collected(u, c, <<>>, Append(rr, NameRun(chunk)))
<1> DEFINE m == Len(chunk)  n == Len(u)  a == Len(rr)  run == NameRun(chunk)
           new == Append(rr, run)
<1>1. /\ IsEntries(u) /\ c \in 0..n /\ m \in Nat /\ m <= c /\ n \in Nat
      /\ \A k \in 1..m : chunk[k] = u[(c - m) + k]
      /\ Spread(u, 1..(c - m), rr) /\ a \in Nat
  BY SequentialFacts DEF Collected, IsEntries, Spread
<1>2. /\ Sequential(run) /\ Rising(run) /\ Len(run) = m
      /\ \A k \in 1..m : \E p \in 1..m : run[p] = chunk[k]
      /\ \A p \in 1..m : \E k \in 1..m : run[p] = chunk[k]
  <2>1. IsPlaced(chunk, run) BY NameRunIs
  <2> HIDE DEF run
  <2>2. Sequential(run) /\ Len(run) = m BY <2>1 DEF IsPlaced
  <2>3. /\ Rising(run)
        /\ \A k \in 1..m : \E p \in 1..Len(run) : run[p] = chunk[k]
        /\ \A p \in 1..Len(run) : \E k \in 1..m : run[p] = chunk[k]
    BY <2>1, PlacedRises
  <2> QED BY <2>2, <2>3
<1>3. /\ Sequential(new) /\ Len(new) = a + 1 /\ new[a + 1] = run
      /\ \A r \in 1..a : new[r] = rr[r]
  <2>1. Sequential(rr) BY <1>1 DEF Spread
  <2> HIDE DEF run
  <2> QED BY <2>1, SequentialAppend DEF IsLonger
<1> HIDE DEF m, n, a, run, new
<1>4. \A r \in 1..(a + 1) : r \in 1..a \/ r = a + 1 BY <1>1
<1>5. \A p \in 1..m : \E k \in ((c - m) + 1)..c : run[p] = u[k]
  <2> SUFFICES ASSUME NEW p \in 1..m
               PROVE  \E k \in ((c - m) + 1)..c : run[p] = u[k]
    OBVIOUS
  <2>1. PICK k \in 1..m : run[p] = chunk[k] BY <1>2
  <2>2. (c - m) + k \in ((c - m) + 1)..c BY <1>1
  <2> QED BY <2>1, <2>2, <1>1
<1>6. \A k \in ((c - m) + 1)..c : \E p \in 1..m : run[p] = u[k]
  <2> SUFFICES ASSUME NEW k \in ((c - m) + 1)..c
               PROVE  \E p \in 1..m : run[p] = u[k]
    OBVIOUS
  <2>1. k - (c - m) \in 1..m /\ (c - m) + (k - (c - m)) = k BY <1>1
  <2> DEFINE j == k - (c - m)
  <2>2. chunk[j] = u[k] BY <2>1, <1>1
  <2>3. j \in 1..m BY <2>1
  <2> HIDE DEF j
  <2> QED BY <2>2, <2>3, <1>2
<1>7. \A j, k \in 1..c : u[j] = u[k] => j = k
  <2>1. \A k \in 1..c : k \in 1..n BY <1>1
  <2> QED BY <2>1, <1>1 DEF IsEntries, n
<1>8. /\ \A k \in 1..(c - m) : k \in 1..c /\ k \notin ((c - m) + 1)..c
      /\ \A k \in ((c - m) + 1)..c : k \in 1..c
      /\ \A k \in 1..c : k \in 1..(c - m) \/ k \in ((c - m) + 1)..c
  BY <1>1
<1> DEFINE S == 1..(c - m)  T == ((c - m) + 1)..c
<1>9. /\ \A r \in 1..a : Sequential(rr[r]) /\ Rising(rr[r])
      /\ \A r \in 1..a : \A i \in 1..Len(rr[r]) : \E k \in S : rr[r][i] = u[k]
      /\ \A k \in S : \E r \in 1..a : \E i \in 1..Len(rr[r]) : rr[r][i] = u[k]
      /\ \A r, q \in 1..a : \A i \in 1..Len(rr[r]), j \in 1..Len(rr[q]) :
           rr[r][i] = rr[q][j] => r = q
  BY <1>1 DEF Spread, a
<1>10. /\ \A k \in S : k \in 1..c /\ k \notin T
       /\ \A k \in T : k \in 1..c
       /\ \A k \in 1..c : k \in S \/ k \in T
       /\ \A p \in 1..m : \E k \in T : run[p] = u[k]
       /\ \A k \in T : \E p \in 1..m : run[p] = u[k]
  BY <1>5, <1>6, <1>8
<1> HIDE DEF S, T
<1>11. ASSUME NEW r \in 1..(a + 1)
       PROVE  /\ Sequential(new[r]) /\ Rising(new[r])
              /\ \A i \in 1..Len(new[r]) : \E k \in 1..c : new[r][i] = u[k]
  <2>1. CASE r \in 1..a BY <2>1, <1>3, <1>9, <1>10
  <2>2. CASE r = a + 1
    <3>1. new[r] = run /\ Len(new[r]) = m BY <2>2, <1>2, <1>3
    <3>2. \A i \in 1..m : \E k \in 1..c : run[i] = u[k] BY <1>10
    <3> QED BY <3>1, <3>2, <1>2
  <2> QED BY <2>1, <2>2, <1>4
<1>12. ASSUME NEW k \in 1..c
       PROVE  \E r \in 1..(a + 1) : \E i \in 1..Len(new[r]) : new[r][i] = u[k]
  <2>1. CASE k \in S
    <3>1. PICK r \in 1..a : \E i \in 1..Len(rr[r]) : rr[r][i] = u[k]
      BY <2>1, <1>9
    <3>2. r \in 1..(a + 1) BY <1>1
    <3> QED BY <3>1, <3>2, <1>3
  <2>2. CASE k \in T
    <3>1. a + 1 \in 1..(a + 1) BY <1>1
    <3> QED BY <2>2, <3>1, <1>2, <1>3, <1>10
  <2> QED BY <2>1, <2>2, <1>10
<1>13. ASSUME NEW r \in 1..(a + 1), NEW q \in 1..(a + 1),
              NEW i \in 1..Len(new[r]), NEW j \in 1..Len(new[q]),
              new[r][i] = new[q][j]
       PROVE  r = q
  <2>1. CASE r \in 1..a /\ q \in 1..a BY <2>1, <1>3, <1>9, <1>13
  <2>2. CASE r = a + 1 /\ q = a + 1 BY <2>2
  <2>3. CASE r \in 1..a /\ q = a + 1
    <3>1. PICK k \in S : new[r][i] = u[k] BY <2>3, <1>3, <1>9
    <3>3. new[q] = run /\ j \in 1..m BY <2>3, <1>2, <1>3
    <3>2. PICK l \in T : new[q][j] = u[l] BY <3>3, <1>10
    <3> QED BY <3>1, <3>2, <1>7, <1>10, <1>13
  <2>4. CASE r = a + 1 /\ q \in 1..a
    <3>1. PICK k \in S : new[q][j] = u[k] BY <2>4, <1>3, <1>9
    <3>3. new[r] = run /\ i \in 1..m BY <2>4, <1>2, <1>3
    <3>2. PICK l \in T : new[r][i] = u[l] BY <3>3, <1>10
    <3> QED BY <3>1, <3>2, <1>7, <1>10, <1>13
  <2> QED BY <2>1, <2>2, <2>3, <2>4, <1>4
<1>14. Spread(u, 1..c, new)
  BY <1>3, <1>11, <1>12, <1>13 DEF Spread
<1>15. /\ Sequential(<<>>) /\ Len(<<>>) = 0 /\ \A k \in 1..0 : FALSE
  <2>1. <<>> \in Seq({}) OBVIOUS
  <2> QED BY <2>1 DEF Sequential
<1>16. c - 0 = c /\ 0 <= c BY <1>1
<1>17. c \in 0..Len(u) BY <1>1 DEF n
<1> QED BY <1>1, <1>14, <1>15, <1>16, <1>17 DEF Collected, new, run

IsTail(s, t) ==
  /\ Sequential(t) /\ Len(t) = Len(s) - 1 /\ Len(s) \in Nat \ {0}
  /\ \A k \in 1..(Len(s) - 1) : t[k] = s[k + 1]

LEMMA SequentialTail ==
  ASSUME NEW s, Sequential(s), s # <<>>
  PROVE  IsTail(s, Tail(s))
<1>1. PICK S : s \in Seq(S) BY DEF Sequential
<1>2. /\ Tail(s) \in Seq(S) /\ Len(s) \in Nat \ {0}
      /\ Len(Tail(s)) = Len(s) - 1
      /\ \A k \in 1..(Len(s) - 1) : Tail(s)[k] = s[k + 1]
  BY <1>1
<1> QED BY <1>2 DEF IsTail, Sequential

LEMMA SequentialEmpty ==
  ASSUME NEW s, Sequential(s)
  PROVE  (s = <<>>) <=> (Len(s) = 0)
<1>1. PICK S : s \in Seq(S) BY DEF Sequential
<1> QED BY <1>1, EmptySeq

(* The run whose first entry is before those of the others.                *)
IsNext(rr, r) ==
  /\ r \in 1..Len(rr) /\ rr[r] # <<>>
  /\ \A q \in 1..Len(rr) : rr[q] # <<>> /\ q # r =>
       NameBefore(rr[r][1], rr[q][1])

LEMMA NextRunIs ==
  ASSUME NEW u, IsEntries(u), NEW S, S \subseteq 1..Len(u),
         Spread(u, S, runs), ~HeapEmpty
  PROVE  IsNext(runs, NextRun(NameHeap))
<1> DEFINE n == Len(u)  m == Len(runs)
           Head1(r) == runs[r][1]
           Of(r, k) == r \in Waiting /\ k \in 1..n /\ Head1(r) = u[k]
           T == {a \in Nat : \E r \in Waiting : \E k \in 1..n :
                               Of(r, k) /\ a = AheadOf(u, k)}
<1>1. /\ m \in Nat /\ DOMAIN runs = 1..m
      /\ \A r \in 1..m : Sequential(runs[r])
  BY SequentialFacts DEF Spread
<1>2. \A r \in Waiting : r \in 1..m /\ runs[r] # <<>> /\ 1 \in 1..Len(runs[r])
  <2> SUFFICES ASSUME NEW r \in Waiting
               PROVE  r \in 1..m /\ runs[r] # <<>> /\ 1 \in 1..Len(runs[r])
    OBVIOUS
  <2>1. r \in 1..m /\ runs[r] # <<>> BY <1>1 DEF Waiting
  <2>2. Len(runs[r]) \in Nat /\ Len(runs[r]) # 0
    BY <1>1, <2>1, SequentialEmpty, SequentialFacts
  <2> QED BY <2>1, <2>2
<1>3. \A r \in 1..m : runs[r] # <<>> => r \in Waiting
  BY <1>1 DEF Waiting
<1>4. ASSUME NEW r \in Waiting
      PROVE  \E k \in 1..n : Of(r, k)
  <2>1. \E k \in S : runs[r][1] = u[k] BY <1>2 DEF Spread
  <2> QED BY <2>1
<1>5. ASSUME NEW r \in Waiting, NEW q \in Waiting, r # q
      PROVE  \/ NameBefore(Head1(r), Head1(q))
             \/ NameBefore(Head1(q), Head1(r))
  <2>1. PICK j : Of(r, j) BY <1>4
  <2>2. PICK k : Of(q, k) BY <1>4
  <2>3. u[j] # u[k]
    <3>1. runs[r][1] # runs[q][1] BY <1>2, <1>5 DEF Spread
    <3> QED BY <3>1, <2>1, <2>2
  <2>4. \/ NameBefore(u[j], u[k]) \/ NameBefore(u[k], u[j])
        \/ u[j].sequence = u[k].sequence
    BY <2>1, <2>2, NameOrder DEF IsEntries
  <2>5. u[j].sequence = u[k].sequence => u[j] = u[k]
    BY <2>1, <2>2 DEF IsEntries
  <2> QED BY <2>1, <2>2, <2>3, <2>4, <2>5
<1>6. \A r \in Waiting : Head1(r).sequence \in Nat
  BY <1>4 DEF IsEntries
<1>7. \A r, q \in Waiting :
        <<r, q>> \in NameHeap <=> NameBefore(Head1(r), Head1(q))
  BY DEF NameHeap
<1>8. PICK r \in Waiting : \A q \in Waiting :
        q # r => NameBefore(Head1(r), Head1(q))
  <2>1. T # {}
    <3>1. PICK q \in Waiting : TRUE BY DEF HeapEmpty
    <3>2. PICK k \in 1..n : Of(q, k) BY <1>4, <3>1
    <3>3. AheadOf(u, k) \in Nat BY AheadCount
    <3> QED BY <3>1, <3>2, <3>3
  <2>2. PICK a \in T : \A b \in T : a <= b
    <3>1. T \subseteq Nat OBVIOUS
    <3> HIDE DEF T
    <3> QED BY <2>1, <3>1, LeastNat
  <2>3. PICK q \in Waiting, k \in 1..n : Of(q, k) /\ a = AheadOf(u, k)
    OBVIOUS
  <2>4. ASSUME NEW p \in Waiting, p # q
        PROVE  NameBefore(Head1(q), Head1(p))
    <3>1. PICK j \in 1..n : Of(p, j) BY <1>4
    <3>2. AheadOf(u, j) \in Nat /\ AheadOf(u, k) \in Nat BY AheadCount
    <3>3. AheadOf(u, j) \in T BY <3>1, <3>2
    <3>4. ~(AheadOf(u, j) < AheadOf(u, k))
      <4>1. a <= AheadOf(u, j) BY <3>3, <2>2
      <4> QED BY <4>1, <3>2, <2>3
    <3>5. ~NameBefore(u[j], u[k]) BY <3>4, AheadGrows
    <3>6. ~NameBefore(Head1(p), Head1(q)) BY <3>1, <3>5, <2>3
    <3> QED BY <3>6, <1>5, <2>4
  <2> QED BY <2>4
<1> DEFINE Is(p) == \A q \in Waiting :
             <<p, q>> \in NameHeap \/ (<<q, p>> \notin NameHeap /\ p <= q)
<1>9. Is(r)
  <2> SUFFICES ASSUME NEW q \in Waiting
               PROVE  \/ <<r, q>> \in NameHeap
                      \/ <<q, r>> \notin NameHeap /\ r <= q
    OBVIOUS
  <2>1. CASE q # r BY <2>1, <1>7, <1>8
  <2>2. CASE q = r
    <3>1. ~NameBefore(Head1(r), Head1(r)) BY <1>6, NameOrder
    <3>2. r <= r BY <1>2
    <3> QED BY <2>2, <3>1, <3>2, <1>7
  <2> QED BY <2>1, <2>2
<1> DEFINE t == NextRun(NameHeap)
<1>10. t \in Waiting /\ Is(t)
  BY <1>8, <1>9 DEF NextRun
<1> HIDE DEF t
<1>11. ASSUME NEW q \in Waiting, q # t
       PROVE  NameBefore(Head1(t), Head1(q))
  <2>1. \/ <<t, q>> \in NameHeap
        \/ <<q, t>> \notin NameHeap
    BY <1>10
  <2>2. \/ NameBefore(Head1(t), Head1(q)) \/ ~NameBefore(Head1(q), Head1(t))
    BY <2>1, <1>7, <1>10
  <2> QED BY <2>2, <1>5, <1>10, <1>11
<1> QED BY <1>2, <1>3, <1>10, <1>11 DEF IsNext, t

(* Entries of u are written, the others are to come.                       *)
Left(u, out) ==
  {k \in 1..Len(u) : \A p \in 1..Len(out) : out[p].entry # u[k]}

Merging(u, rr, out, base) ==
  /\ IsEntries(u) /\ Spread(u, Left(u, out), rr) /\ Sequential(out)
  /\ \A p \in 1..Len(out) : \E k \in 1..Len(u) : out[p].entry = u[k]
  /\ \A p, q \in 1..Len(out) :
       p < q => NameBefore(out[p].entry, out[q].entry)
  /\ \A p \in 1..Len(out) : \A k \in Left(u, out) :
       NameBefore(out[p].entry, u[k])
  /\ \A p \in 1..Len(out) :
       /\ out[p].next \in Int
       /\ p < Len(out) \/ Left(u, out) # {} => out[p].next = base + p

LEMMA MergingStarts ==
  ASSUME NEW u, NEW rr, Collected(u, Len(u), <<>>, rr), NEW base
  PROVE  Merging(u, rr, <<>>, base)
<1>1. Sequential(<<>>) /\ Len(<<>>) = 0 /\ \A p \in 1..0 : FALSE
  <2>1. <<>> \in Seq({}) OBVIOUS
  <2> QED BY <2>1 DEF Sequential
<1>2. Left(u, <<>>) = 1..Len(u) BY <1>1 DEF Left
<1>3. Len(u) \in Nat /\ Len(u) - 0 = Len(u)
  BY SequentialFacts DEF Collected, IsEntries
<1>4. Spread(u, 1..Len(u), rr) BY <1>1, <1>3 DEF Collected
<1> QED BY <1>1, <1>2, <1>4 DEF Merging, Collected

(* All of u is written, each entry at its place and linked to the next.    *)
Written(u, out, base) ==
  /\ Sequential(out) /\ Len(out) = Len(u)
  /\ \A p \in 1..Len(out) :
       /\ \E k \in 1..Len(u) : AheadOf(u, k) = p - 1 /\ out[p].entry = u[k]
       /\ out[p].next \in Int
       /\ p < Len(out) => out[p].next = base + p

LEMMA MergingEnds ==
  ASSUME NEW u, NEW out, NEW base, Merging(u, runs, out, base), HeapEmpty
  PROVE  Written(u, out, base)
<1> DEFINE m == Len(out)  r == [p \in 1..m |-> out[p].entry]
<1>1. m \in Nat BY SequentialFacts DEF Merging
<1>2. Left(u, out) = {}
  <2> SUFFICES ASSUME NEW k \in Left(u, out) PROVE FALSE OBVIOUS
  <2>1. PICK q \in 1..Len(runs) : \E i \in 1..Len(runs[q]) : runs[q][i] = u[k]
    BY DEF Merging, Spread
  <2>2. Sequential(runs) /\ Sequential(runs[q]) BY DEF Merging, Spread
  <2>3. runs[q] # <<>>
    <3>1. Len(runs[q]) \in Nat BY <2>2, SequentialFacts
    <3>2. Len(runs[q]) # 0 BY <2>1, <3>1
    <3> QED BY <2>2, <3>2, SequentialEmpty
  <2>4. q \in Waiting BY <2>2, <2>3, SequentialFacts DEF Waiting
  <2> QED BY <2>4 DEF HeapEmpty
<1>3. Sequential(r) /\ Len(r) = m
  <2>1. r = [k \in 1..m |-> r[k]] OBVIOUS
  <2> HIDE DEF r, m
  <2> QED BY <1>1, <2>1, SequentialFunction
<1>4. \A p \in 1..m : r[p] = out[p].entry OBVIOUS
<1> HIDE DEF r
<1>5. Rising(r) BY <1>3, <1>4 DEF Merging, Rising
<1>6. \A k \in 1..Len(u) : \E p \in 1..Len(r) : r[p] = u[k]
  BY <1>2, <1>3, <1>4 DEF Left
<1>7. \A p \in 1..Len(r) : \E k \in 1..Len(u) : r[p] = u[k]
  BY <1>3, <1>4 DEF Merging
<1>8. IsPlaced(u, r)
  BY <1>3, <1>5, <1>6, <1>7, RisingIs DEF Merging
<1>9. Len(u) = m BY <1>3, <1>8 DEF IsPlaced
<1>10. ASSUME NEW p \in 1..m
       PROVE  \E k \in 1..Len(u) : AheadOf(u, k) = p - 1 /\ out[p].entry = u[k]
  <2>1. \E k \in 1..Len(u) : AheadOf(u, k) = p - 1 /\ r[p] = u[k]
    BY <1>8, <1>9, <1>10 DEF IsPlaced
  <2> QED BY <2>1, <1>4, <1>10
<1>11. \A p \in 1..m : /\ out[p].next \in Int
                       /\ p < m => out[p].next = base + p
  BY DEF Merging
<1> QED BY <1>9, <1>10, <1>11 DEF Written, Merging

(* The next entry leaves its run: it is before all that are still to come. *)
LEMMA RestSpread ==
  ASSUME NEW u, IsEntries(u), NEW S, S \subseteq 1..Len(u), NEW rr,
         Spread(u, S, rr), NEW r, IsNext(rr, r), NEW x \in S,
         rr[r][1] = u[x], NEW rest, rest = [rr EXCEPT ![r] = Tail(@)]
  PROVE  /\ Spread(u, S \ {x}, rest)
         /\ \A k \in S \ {x} : NameBefore(u[x], u[k])
<1>1. /\ Sequential(rr) /\ r \in 1..Len(rr) /\ Sequential(rr[r])
      /\ rr[r] # <<>> /\ Rising(rr[r])
  BY DEF Spread, IsNext
<1>2. IsTail(rr[r], Tail(rr[r])) BY <1>1, SequentialTail
<1>3. /\ Sequential(Tail(rr[r])) /\ Len(Tail(rr[r])) = Len(rr[r]) - 1
      /\ Len(rr[r]) \in Nat \ {0}
      /\ \A k \in 1..(Len(rr[r]) - 1) : Tail(rr[r])[k] = rr[r][k + 1]
  BY <1>2 DEF IsTail
<1>4. /\ Sequential(rest) /\ Len(rest) = Len(rr)
      /\ \A q \in 1..Len(rr) : rest[q] = IF q = r THEN Tail(rr[r]) ELSE rr[q]
  <2>1. rest = [rr EXCEPT ![r] = Tail(rr[r])] OBVIOUS
  <2> DEFINE t == Tail(rr[r])
  <2>2. IsReplaced(rr, r, t, [rr EXCEPT ![r] = t])
    <3> HIDE DEF t
    <3> QED BY <1>1, SequentialExcept
  <2> QED BY <2>1, <2>2 DEF IsReplaced
<1>5. \A j, k \in 1..Len(u) : u[j] = u[k] => j = k BY DEF IsEntries
<1>6. \A k \in 1..Len(u) : u[k].sequence \in Nat BY DEF IsEntries
<1>7. \A q \in 1..Len(rr) : Len(rr[q]) \in Nat
  BY SequentialFacts DEF Spread
<1>8. ASSUME NEW q \in 1..Len(rr), NEW i \in 1..Len(rr[q]), NEW k \in S,
             rr[q][i] = u[k], k # x
      PROVE  NameBefore(u[x], u[k]) /\ (q = r => i # 1)
  <2>1. CASE q = r
    <3>1. i # 1 BY <2>1, <1>5, <1>8
    <3>2. 1 \in 1..Len(rr[r]) /\ i \in 1..Len(rr[r]) /\ 1 < i
      BY <3>1, <2>1, <1>3
    <3>3. NameBefore(rr[r][1], rr[r][i]) BY <3>2, <1>1 DEF Rising
    <3> QED BY <2>1, <3>1, <3>3, <1>8
  <2>2. CASE q # r
    <3>1. Len(rr[q]) \in Nat /\ Sequential(rr[q]) BY <1>7 DEF Spread
    <3>2. 1 \in 1..Len(rr[q]) BY <3>1
    <3>3. rr[q] # <<>> BY <3>1, <3>2, SequentialEmpty
    <3>4. NameBefore(u[x], rr[q][1]) BY <3>3, <2>2 DEF IsNext
    <3>5. CASE i = 1 BY <3>4, <3>5, <2>2, <1>8
    <3>6. CASE i # 1
      <4>1. 1 < i BY <3>6, <3>1
      <4>2. NameBefore(rr[q][1], rr[q][i])
        BY <4>1, <3>2 DEF Spread, Rising
      <4>3. PICK j \in S : rr[q][1] = u[j] BY <3>2 DEF Spread
      <4> QED BY <4>2, <4>3, <3>4, <2>2, <1>6, <1>8, NameOrder
    <3> QED BY <3>5, <3>6
  <2> QED BY <2>1, <2>2
<1>9. \A k \in S \ {x} : NameBefore(u[x], u[k])
  <2> SUFFICES ASSUME NEW k \in S \ {x} PROVE NameBefore(u[x], u[k])
    OBVIOUS
  <2>1. PICK q \in 1..Len(rr) : \E i \in 1..Len(rr[q]) : rr[q][i] = u[k]
    BY DEF Spread
  <2> QED BY <2>1, <1>8
<1>10. ASSUME NEW q \in 1..Len(rest)
       PROVE  Sequential(rest[q]) /\ Rising(rest[q])
  <2>1. CASE q = r
    <3>1. rest[q] = Tail(rr[r]) BY <2>1, <1>4
    <3>2. Rising(Tail(rr[r]))
      <4> SUFFICES ASSUME NEW j \in 1..(Len(rr[r]) - 1),
                          NEW k \in 1..(Len(rr[r]) - 1), j < k
                   PROVE  NameBefore(Tail(rr[r])[j], Tail(rr[r])[k])
        BY <1>3 DEF Rising
      <4>1. /\ j + 1 \in 1..Len(rr[r]) /\ k + 1 \in 1..Len(rr[r])
            /\ j + 1 < k + 1
        <5> DEFINE n == Len(rr[r])
        <5>1. n \in Nat /\ j \in 1..(n - 1) /\ k \in 1..(n - 1) BY <1>3
        <5> HIDE DEF n
        <5>2. j + 1 \in 1..n /\ k + 1 \in 1..n /\ j + 1 < k + 1 BY <5>1
        <5> QED BY <5>2 DEF n
      <4> QED BY <4>1, <1>1, <1>3 DEF Rising
    <3> QED BY <3>1, <3>2, <1>3
  <2>2. CASE q # r BY <2>2, <1>4 DEF Spread
  <2> QED BY <2>1, <2>2
<1>11. ASSUME NEW q \in 1..Len(rest), NEW i \in 1..Len(rest[q])
       PROVE  \E l \in 1..Len(rr[q]) :
                rest[q][i] = rr[q][l] /\ (q = r => l # 1)
  <2>1. CASE q = r
    <3>1. i \in 1..(Len(rr[r]) - 1) BY <2>1, <1>3, <1>4
    <3>2. i + 1 \in 1..Len(rr[r]) /\ i + 1 # 1 BY <3>1, <1>3
    <3>3. rest[q][i] = rr[r][i + 1] BY <2>1, <3>1, <1>3, <1>4
    <3> QED BY <3>2, <3>3, <2>1
  <2>2. CASE q # r BY <2>2, <1>4
  <2> QED BY <2>1, <2>2
<1>12. ASSUME NEW q \in 1..Len(rest), NEW i \in 1..Len(rest[q])
       PROVE  \E k \in S \ {x} : rest[q][i] = u[k]
  <2>1. PICK l \in 1..Len(rr[q]) :
          rest[q][i] = rr[q][l] /\ (q = r => l # 1)
    BY <1>11
  <2>2. q \in 1..Len(rr) BY <1>4
  <2>3. PICK k \in S : rr[q][l] = u[k] BY <2>2 DEF Spread
  <2>4. k # x
    <3> SUFFICES ASSUME k = x PROVE FALSE OBVIOUS
    <3>1. 1 \in 1..Len(rr[r]) BY <1>3
    <3>2. q = r BY <2>2, <2>3, <3>1, <1>1 DEF Spread
    <3>3. 1 < l BY <2>1, <3>2
    <3>4. NameBefore(rr[r][1], rr[r][l])
      BY <3>1, <3>2, <3>3, <1>1 DEF Rising
    <3>5. NameBefore(u[x], u[x]) BY <3>4, <3>2, <2>3
    <3> QED BY <3>5, <1>6, NameOrder
  <2> QED BY <2>1, <2>3, <2>4
<1>13. ASSUME NEW k \in S \ {x}
       PROVE  \E q \in 1..Len(rest) : \E i \in 1..Len(rest[q]) :
                rest[q][i] = u[k]
  <2>0. PICK q \in 1..Len(rr) : \E i \in 1..Len(rr[q]) : rr[q][i] = u[k]
    BY DEF Spread
  <2>1. PICK i \in 1..Len(rr[q]) : rr[q][i] = u[k] BY <2>0
  <2>2. q = r => i # 1 BY <2>1, <1>8
  <2>3. CASE q = r
    <3>1. i - 1 \in 1..(Len(rr[r]) - 1) /\ (i - 1) + 1 = i
      BY <2>2, <2>3, <1>3
    <3>2. rest[q][i - 1] = rr[q][i] BY <3>1, <2>3, <1>3, <1>4
    <3>3. i - 1 \in 1..Len(rest[q]) BY <3>1, <2>3, <1>3, <1>4
    <3> QED BY <3>2, <3>3, <2>1, <1>4
  <2>4. CASE q # r BY <2>4, <2>1, <1>4
  <2> QED BY <2>3, <2>4
<1>14. ASSUME NEW p \in 1..Len(rest), NEW q \in 1..Len(rest),
              NEW i \in 1..Len(rest[p]), NEW j \in 1..Len(rest[q]),
              rest[p][i] = rest[q][j]
       PROVE  p = q
  <2>1. PICK l \in 1..Len(rr[p]) : rest[p][i] = rr[p][l] BY <1>11
  <2>2. PICK m \in 1..Len(rr[q]) : rest[q][j] = rr[q][m] BY <1>11
  <2>3. rr[p][l] = rr[q][m] BY <2>1, <2>2, <1>14
  <2>4. p \in 1..Len(rr) /\ q \in 1..Len(rr) BY <1>4
  <2> QED BY <2>3, <2>4 DEF Spread
<1>15. Spread(u, S \ {x}, rest)
  BY <1>4, <1>10, <1>12, <1>13, <1>14 DEF Spread
<1> QED BY <1>9, <1>15

LEMMA MergeWrites ==
  ASSUME NEW u, NEW out, NEW base \in Nat, Merging(u, runs, out, base),
         ~HeapEmpty, NEW rest, NEW follows, NEW new, NEW r,
         r = NextRun(NameHeap), rest = [runs EXCEPT ![r] = Tail(@)],
         follows = (\E q \in DOMAIN rest : rest[q] # <<>>),
         new = Append(out,
                 [next |-> IF follows THEN base + Len(out) + 1 ELSE -1,
                  entry |-> runs[r][1]])
  PROVE  Merging(u, rest, new, base)
<1> DEFINE m == Len(out)  e == new[m + 1]
<1>1. /\ IsEntries(u) /\ Spread(u, Left(u, out), runs) /\ Sequential(out)
      /\ m \in Nat /\ Left(u, out) \subseteq 1..Len(u)
  BY SequentialFacts DEF Merging, Left
<1>2. IsNext(runs, r) BY <1>1, NextRunIs
<1>3. PICK x \in Left(u, out) : runs[r][1] = u[x]
  <2>1. r \in 1..Len(runs) /\ runs[r] # <<>> /\ Sequential(runs[r])
    BY <1>1, <1>2 DEF IsNext, Spread
  <2>2. Len(runs[r]) \in Nat /\ Len(runs[r]) # 0
    BY <2>1, SequentialEmpty, SequentialFacts
  <2>3. 1 \in 1..Len(runs[r]) BY <2>2
  <2> QED BY <2>1, <2>3, <1>1 DEF Spread
<1>4. /\ Spread(u, Left(u, out) \ {x}, rest)
      /\ \A k \in Left(u, out) \ {x} : NameBefore(u[x], u[k])
  BY <1>1, <1>2, <1>3, RestSpread
<1>5. /\ Sequential(new) /\ Len(new) = m + 1
      /\ \A k \in 1..m : new[k] = out[k]
      /\ e = [next |-> IF follows THEN base + Len(out) + 1 ELSE -1,
              entry |-> runs[r][1]]
  BY <1>1, SequentialAppend DEF IsLonger
<1>6. /\ e.entry = u[x]
      /\ e.next = IF follows THEN base + (m + 1) ELSE -1
  <2>1. base + m + 1 = base + (m + 1) BY <1>1
  <2> QED BY <1>3, <1>5, <2>1
<1>7. x \in 1..Len(u) /\ \A p \in 1..m : out[p].entry # u[x]
  BY <1>3 DEF Left
<1>8. \A p \in 1..(m + 1) : p \in 1..m \/ p = m + 1 BY <1>1
<1>9. Left(u, new) = Left(u, out) \ {x}
  <2>1. \A k \in 1..Len(u) : u[k] = u[x] => k = x
    BY <1>1, <1>7 DEF IsEntries
  <2>2. ASSUME NEW k \in 1..Len(u)
        PROVE  (\A p \in 1..Len(new) : new[p].entry # u[k])
                 <=> (k # x /\ \A p \in 1..m : out[p].entry # u[k])
    <3>1. m + 1 \in 1..Len(new) /\ \A p \in 1..m : p \in 1..Len(new)
      BY <1>1, <1>5
    <3>2. ASSUME \A p \in 1..Len(new) : new[p].entry # u[k]
          PROVE  k # x /\ \A p \in 1..m : out[p].entry # u[k]
      BY <3>1, <3>2, <1>5, <1>6
    <3>3. ASSUME k # x, \A p \in 1..m : out[p].entry # u[k],
                 NEW p \in 1..Len(new)
          PROVE  new[p].entry # u[k]
      <4>1. CASE p \in 1..m BY <4>1, <3>3, <1>5
      <4>2. CASE p = m + 1 BY <4>2, <3>3, <2>1, <1>6
      <4> QED BY <4>1, <4>2, <1>5, <1>8
    <3> QED BY <3>2, <3>3
  <2> QED BY <2>2 DEF Left
<1> HIDE DEF m
<1>10. follows <=> Left(u, new) # {}
  <2>1. Sequential(rest) /\ \A q \in 1..Len(rest) : Sequential(rest[q])
    BY <1>4 DEF Spread
  <2>2. DOMAIN rest = 1..Len(rest) BY <2>1, SequentialFacts
  <2>3. ASSUME NEW q \in 1..Len(rest), rest[q] # <<>>
        PROVE  Left(u, new) # {}
    <3>1. Len(rest[q]) \in Nat /\ Len(rest[q]) # 0
      BY <2>1, <2>3, SequentialEmpty, SequentialFacts
    <3> DEFINE n == Len(rest[q])
    <3>2. n \in Nat /\ n # 0 BY <3>1
    <3>3. 1 \in 1..n
      <4> HIDE DEF n
      <4> QED BY <3>2
    <3> QED BY <3>3, <1>4, <1>9 DEF Spread
  <2>4. ASSUME NEW k \in Left(u, new)
        PROVE  \E q \in 1..Len(rest) : rest[q] # <<>>
    <3>0. PICK q \in 1..Len(rest) : \E i \in 1..Len(rest[q]) : rest[q][i] = u[k]
      BY <1>4, <1>9, <2>4 DEF Spread
    <3>1. PICK i \in 1..Len(rest[q]) : rest[q][i] = u[k] BY <3>0
    <3>2. Len(rest[q]) \in Nat BY <2>1, SequentialFacts
    <3>3. Len(rest[q]) # 0 BY <3>1, <3>2
    <3> QED BY <3>3, <2>1, SequentialEmpty
  <2> QED BY <2>2, <2>3, <2>4
<1>11. \A p \in 1..Len(new) : \E k \in 1..Len(u) : new[p].entry = u[k]
  <2>1. \A p \in 1..m : \E k \in 1..Len(u) : out[p].entry = u[k]
    BY DEF Merging, m
  <2> SUFFICES ASSUME NEW p \in 1..Len(new)
               PROVE  \E k \in 1..Len(u) : new[p].entry = u[k]
    OBVIOUS
  <2>2. p \in 1..(m + 1) BY <1>5
  <2>3. CASE p \in 1..m
    <3>1. new[p] = out[p] BY <2>3, <1>5
    <3> QED BY <3>1, <2>1, <2>3
  <2>4. CASE p = m + 1 BY <2>4, <1>6, <1>7
  <2> QED BY <2>2, <2>3, <2>4, <1>8
<1>12. ASSUME NEW p \in 1..Len(new), NEW q \in 1..Len(new), p < q
       PROVE  NameBefore(new[p].entry, new[q].entry)
  <2>1. p \in 1..m BY <1>1, <1>5, <1>12 DEF m
  <2>2. new[p] = out[p] BY <2>1, <1>5
  <2>3. CASE q \in 1..m
    <3>1. NameBefore(out[p].entry, out[q].entry)
      BY <2>1, <2>3, <1>12 DEF Merging, m
    <3> QED BY <3>1, <2>2, <2>3, <1>5
  <2>4. CASE q = m + 1
    <3>1. NameBefore(out[p].entry, u[x])
      BY <2>1, <1>3 DEF Merging, m
    <3> QED BY <3>1, <2>2, <2>4, <1>6
  <2> QED BY <2>3, <2>4, <1>5, <1>8
<1>13. ASSUME NEW p \in 1..Len(new), NEW k \in Left(u, new)
       PROVE  NameBefore(new[p].entry, u[k])
  <2>1. k \in Left(u, out) /\ k # x BY <1>9
  <2>2. CASE p \in 1..m
    <3>1. NameBefore(out[p].entry, u[k]) BY <2>1, <2>2 DEF Merging, m
    <3> QED BY <3>1, <2>2, <1>5
  <2>3. CASE p = m + 1 BY <2>1, <2>3, <1>4, <1>6
  <2> QED BY <2>2, <2>3, <1>5, <1>8
<1>14. ASSUME NEW p \in 1..Len(new)
       PROVE  /\ new[p].next \in Int
              /\ p < Len(new) \/ Left(u, new) # {} => new[p].next = base + p
  <2>1. CASE p \in 1..m
    <3>1. Left(u, out) # {} BY <1>3
    <3>2. out[p].next \in Int /\ out[p].next = base + p
      BY <3>1, <2>1 DEF Merging, m
    <3> QED BY <3>2, <2>1, <1>5
  <2>2. CASE p = m + 1
    <3>1. ~(p < Len(new)) BY <2>2, <1>1, <1>5
    <3>2. base + (m + 1) \in Int /\ -1 \in Int BY <1>1
    <3> QED BY <3>1, <3>2, <2>2, <1>6, <1>10
  <2> QED BY <2>1, <2>2, <1>5, <1>8
<1> QED
  BY <1>1, <1>4, <1>5, <1>9, <1>11, <1>12, <1>13, <1>14 DEF Merging

(***************************************************************************)
(* Walks along chains whose end need not be marked.                        *)
(***************************************************************************)
Stays(list, first, n) ==
  /\ n \in Nat /\ first \in Int
  /\ \A k \in 1..n : Walk(list, first, n)[k] \in 0..(Len(list) - 1)

IsStep(list, first, n, w) ==
  /\ Sequential(w) /\ Len(w) = n
  /\ \A k \in 1..n : w[k] \in 0..(Len(list) - 1)
  /\ n > 0 => w[1] = first
  /\ \A k \in 1..(n - 1) : w[k + 1] = list[w[k] + 1].next

LEMMA StaysWalk ==
  ASSUME NEW list, Linkable(list), NEW first, NEW n, Stays(list, first, n)
  PROVE  IsStep(list, first, n, Walk(list, first, n))
<1> DEFINE w == Walk(list, first, n)
<1>1. /\ n \in Nat /\ first \in Int
      /\ \A k \in 1..n : w[k] \in 0..(Len(list) - 1)
  BY DEF Stays
<1>2. /\ w \in Seq(Int) /\ Len(w) = n
      /\ n > 0 => w[1] = first
      /\ \A k \in 1..(n - 1) : w[k + 1] = Successor(list, w[k])
  BY <1>1, WalkSteps
<1> HIDE DEF w
<1>3. Sequential(w) BY <1>2 DEF Sequential
<1>4. ASSUME NEW k \in 1..(n - 1) PROVE w[k + 1] = list[w[k] + 1].next
  <2>1. k \in 1..n BY <1>1
  <2>2. w[k] \in 0..(Len(list) - 1) BY <2>1, <1>1
  <2> QED BY <2>2, <1>2 DEF Successor
<1> QED BY <1>1, <1>2, <1>3, <1>4 DEF IsStep, w

(* There is one such walk only.                                            *)
LEMMA StepsAlike ==
  ASSUME NEW list, NEW first, NEW n \in Nat, NEW w, NEW x, Sequential(x),
         IsStep(list, first, n, w), Len(x) = n, n > 0 => x[1] = first,
         \A k \in 1..(n - 1) :
           x[k] \in 0..(Len(list) - 1) => x[k + 1] = list[x[k] + 1].next
  PROVE  x = w
<1> DEFINE T == {k \in 1..n : x[k] # w[k]}
<1>1. /\ Sequential(w) /\ Len(w) = n
      /\ \A k \in 1..n : w[k] \in 0..(Len(list) - 1)
      /\ n > 0 => w[1] = first
      /\ \A k \in 1..(n - 1) : w[k + 1] = list[w[k] + 1].next
  BY DEF IsStep
<1>2. T = {}
  <2> SUFFICES ASSUME T # {} PROVE FALSE OBVIOUS
  <2>1. PICK m \in T : \A j \in T : m <= j
    <3>1. T \subseteq Nat OBVIOUS
    <3> HIDE DEF T
    <3> QED BY <3>1, LeastNat
  <2>2. m # 1 BY <2>1, <1>1
  <2>3. m - 1 \in 1..(n - 1) /\ m - 1 \in 1..n /\ (m - 1) + 1 = m
        /\ m - 1 \notin T
    BY <2>1, <2>2
  <2>4. x[m - 1] = w[m - 1] BY <2>3
  <2>5. w[(m - 1) + 1] = list[w[m - 1] + 1].next BY <2>3, <1>1
  <2>6. x[m - 1] \in 0..(Len(list) - 1) BY <2>3, <2>4, <1>1
  <2>7. x[(m - 1) + 1] = list[x[m - 1] + 1].next BY <2>3, <2>6
  <2>8. x[m] = w[m] BY <2>3, <2>4, <2>5, <2>7
  <2> QED BY <2>1, <2>8
<1>3. \A k \in 1..Len(w) : x[k] = w[k] BY <1>1, <1>2
<1> QED BY <1>1, <1>3, SameSequence

(* A list that keeps its entries keeps the walks.                          *)
Extends(list, new) ==
  /\ Sequential(new) /\ Linkable(new) /\ Len(new) >= Len(list)
  /\ \A k \in 1..Len(list) : new[k] = list[k]

LEMMA WalkKept ==
  ASSUME NEW list, Linkable(list), NEW new, Extends(list, new),
         NEW first, NEW n, Stays(list, first, n)
  PROVE  /\ Walk(new, first, n) = Walk(list, first, n)
         /\ Stays(new, first, n)
<1> DEFINE w == Walk(list, first, n)  x == Walk(new, first, n)
<1>1. IsStep(list, first, n, w) BY StaysWalk
<1>2. /\ n \in Nat /\ first \in Int
      /\ \A k \in 1..n : w[k] \in 0..(Len(list) - 1)
  BY DEF Stays
<1>3. Linkable(new) /\ Len(new) \in Nat /\ Len(list) \in Nat
      /\ Len(new) >= Len(list) /\ \A k \in 1..Len(list) : new[k] = list[k]
  BY DEF Extends, Linkable
<1>4. /\ x \in Seq(Int) /\ Len(x) = n
      /\ n > 0 => x[1] = first
      /\ \A k \in 1..(n - 1) : x[k + 1] = Successor(new, x[k])
  BY <1>2, <1>3, WalkSteps
<1> HIDE DEF w, x
<1>5. Sequential(x) BY <1>4 DEF Sequential
<1>6. ASSUME NEW k \in 1..(n - 1), x[k] \in 0..(Len(list) - 1)
      PROVE  x[k + 1] = list[x[k] + 1].next
  <2>1. x[k] \in 0..(Len(new) - 1) /\ x[k] + 1 \in 1..Len(list)
    BY <1>3, <1>6
  <2>2. Successor(new, x[k]) = new[x[k] + 1].next BY <2>1 DEF Successor
  <2> QED BY <2>1, <2>2, <1>3, <1>4
<1>7. x = w BY <1>1, <1>2, <1>4, <1>5, <1>6, StepsAlike
<1>8. \A k \in 1..n : x[k] \in 0..(Len(new) - 1)
  BY <1>2, <1>3, <1>7
<1> QED BY <1>2, <1>7, <1>8 DEF Stays, w, x

(* Entries linked each to the next are walked one by one.                  *)
LEMMA WalkUp ==
  ASSUME NEW new, Linkable(new), NEW base \in Nat, NEW n \in Nat,
         n > 0, base + n <= Len(new),
         \A k \in 1..(n - 1) : new[base + k].next = base + k
  PROVE  /\ Stays(new, base, n)
         /\ \A k \in 1..n : Walk(new, base, n)[k] = (base + k) - 1
<1> DEFINE x == Walk(new, base, n)
           T == {k \in 1..n : x[k] # (base + k) - 1}
<1>1. /\ x \in Seq(Int) /\ Len(x) = n
      /\ n > 0 => x[1] = base
      /\ \A k \in 1..(n - 1) : x[k + 1] = Successor(new, x[k])
  BY WalkSteps
<1>2. Len(new) \in Nat BY DEF Linkable
<1> HIDE DEF x
<1>3. T = {}
  <2> SUFFICES ASSUME T # {} PROVE FALSE OBVIOUS
  <2>1. PICK m \in T : \A j \in T : m <= j
    <3>1. T \subseteq Nat OBVIOUS
    <3> HIDE DEF T
    <3> QED BY <3>1, LeastNat
  <2>2. m # 1 BY <2>1, <1>1
  <2>3. m - 1 \in 1..(n - 1) /\ m - 1 \in 1..n /\ (m - 1) + 1 = m
        /\ m - 1 \notin T /\ m \in 1..n
    BY <2>1, <2>2
  <2>4. x[m - 1] = (base + (m - 1)) - 1 BY <2>3
  <2>5. x[m - 1] \in 0..(Len(new) - 1) /\ x[m - 1] + 1 = base + (m - 1)
    BY <2>3, <2>4, <1>2
  <2>6. x[m] = Successor(new, x[m - 1]) BY <2>3, <1>1
  <2>7. Successor(new, x[m - 1]) = new[x[m - 1] + 1].next
    BY <2>5 DEF Successor
  <2>8. new[base + (m - 1)].next = base + (m - 1) BY <2>3
  <2>9. x[m] = base + (m - 1) BY <2>5, <2>6, <2>7, <2>8
  <2>10. x[m] = (base + m) - 1 BY <2>3, <2>9
  <2> QED BY <2>1, <2>10
<1>4. \A k \in 1..n : x[k] = (base + k) - 1 BY <1>3
<1>5. \A k \in 1..n : x[k] \in 0..(Len(new) - 1) BY <1>2, <1>4
<1> QED BY <1>4, <1>5 DEF Stays, x

(***************************************************************************)
(* An index that can be read: every directory of D leads to directories of *)
(* D, and every chain stays within its index.                              *)
(***************************************************************************)
Reads(s, h, D) ==
  /\ IsHeader(h)
  /\ Stays(s.file_index, h.file_index_offset, h.file_count)
  /\ Stays(s.directory_index, h.directory_index_offset, h.directory_count)
  /\ \A k \in 1..h.directory_count :
       DirectoryAt(s, DirectoriesOf(s, h)[k]) \in D

Usable(s, D) ==
  /\ IsStore(s) /\ Sequential(s.directories)
  /\ Sequential(s.file_index) /\ Linkable(s.file_index)
  /\ Sequential(s.directory_index) /\ Linkable(s.directory_index)
  /\ D \subseteq 0..(Len(s.directories) - 1)
  /\ \A d \in D : Reads(s, Header(s, d), D)

(* The chain the application is given leads into D.                        *)
Rooted(s, chain, D) ==
  /\ Stays(s.directory_index, chain.first, chain.count)
  /\ \A k \in 1..chain.count :
       DirectoryAt(s, Walk(s.directory_index, chain.first,
                           chain.count)[k]) \in D

(* Entries are appended and headers are changed, names and records stay.   *)
Grows(s, t, D) ==
  /\ IsStore(t) /\ t.file_records = s.file_records
  /\ Sequential(t.directories) /\ Len(t.directories) = Len(s.directories)
  /\ Extends(s.file_index, t.file_index)
  /\ Extends(s.directory_index, t.directory_index)
  /\ \A d \in D : Header(t, d).name = Header(s, d).name

LEMMA EntriesStay ==
  ASSUME NEW s, NEW D, Usable(s, D), NEW t, Grows(s, t, D)
  PROVE  /\ \A x \in 0..(Len(s.file_index) - 1) :
              /\ t.file_index[x + 1] = s.file_index[x + 1]
              /\ FileAt(t, x) = FileAt(s, x)
         /\ \A x \in 0..(Len(s.directory_index) - 1) :
              /\ t.directory_index[x + 1] = s.directory_index[x + 1]
              /\ DirectoryAt(t, x) = DirectoryAt(s, x)
              /\ DirectoryAt(s, x) \in D => NameAt(t, x) = NameAt(s, x)
<1>1. /\ Len(s.file_index) \in Nat /\ Len(s.directory_index) \in Nat
      /\ t.file_records = s.file_records
      /\ \A k \in 1..Len(s.file_index) : t.file_index[k] = s.file_index[k]
      /\ \A k \in 1..Len(s.directory_index) :
           t.directory_index[k] = s.directory_index[k]
      /\ \A d \in D : Header(t, d).name = Header(s, d).name
  BY DEF Usable, Linkable, Grows, Extends
<1>2. ASSUME NEW x \in 0..(Len(s.file_index) - 1)
      PROVE  /\ t.file_index[x + 1] = s.file_index[x + 1]
             /\ FileAt(t, x) = FileAt(s, x)
  <2>1. x + 1 \in 1..Len(s.file_index) BY <1>1
  <2>2. t.file_index[x + 1] = s.file_index[x + 1] BY <2>1, <1>1
  <2> QED BY <2>2, <1>1 DEF FileAt, ReadRecord
<1>3. ASSUME NEW x \in 0..(Len(s.directory_index) - 1)
      PROVE  /\ t.directory_index[x + 1] = s.directory_index[x + 1]
             /\ DirectoryAt(t, x) = DirectoryAt(s, x)
             /\ DirectoryAt(s, x) \in D => NameAt(t, x) = NameAt(s, x)
  <2>1. x + 1 \in 1..Len(s.directory_index) BY <1>1
  <2>2. t.directory_index[x + 1] = s.directory_index[x + 1]
    BY <2>1, <1>1
  <2>3. DirectoryAt(t, x) = DirectoryAt(s, x) BY <2>2 DEF DirectoryAt
  <2> QED BY <2>2, <2>3, <1>1 DEF NameAt
<1> QED BY <1>2, <1>3

(* The files and the directories of a header that reads, entry by entry.   *)
IsRead(s, h, files, directories) ==
  /\ Sequential(files) /\ Len(files) = h.file_count
  /\ \A k \in 1..Len(files) : files[k] \in 0..(Len(s.file_index) - 1)
  /\ Len(files) > 0 => files[1] = h.file_index_offset
  /\ \A k \in 1..(Len(files) - 1) :
       files[k + 1] = s.file_index[files[k] + 1].next
  /\ Sequential(directories) /\ Len(directories) = h.directory_count
  /\ \A k \in 1..Len(directories) :
       directories[k] \in 0..(Len(s.directory_index) - 1)
  /\ Len(directories) > 0 => directories[1] = h.directory_index_offset
  /\ \A k \in 1..(Len(directories) - 1) :
       directories[k + 1] = s.directory_index[directories[k] + 1].next

LEMMA ReadsIs ==
  ASSUME NEW s, Linkable(s.file_index), Linkable(s.directory_index),
         NEW h, NEW D, Reads(s, h, D)
  PROVE  IsRead(s, h, FilesOf(s, h), DirectoriesOf(s, h))
<1> DEFINE n == h.file_count  m == h.directory_count
           files == FilesOf(s, h)  directories == DirectoriesOf(s, h)
<1>1. IsStep(s.file_index, h.file_index_offset, n, files)
  BY StaysWalk DEF Reads, FilesOf
<1>2. IsStep(s.directory_index, h.directory_index_offset, m, directories)
  BY StaysWalk DEF Reads, DirectoriesOf
<1> QED BY <1>1, <1>2 DEF IsStep, IsRead

(* What a directory holds is decided by its two chains.                    *)
FilesSeen(s, files) ==
  [k \in 1..Len(files) |->
     [record |-> s.file_index[files[k] + 1].record_offset,
      name |-> FileName(FileAt(s, files[k]))]]
DirectoriesSeen(s, directories) ==
  [k \in 1..Len(directories) |->
     [record |-> DirectoryAt(s, directories[k]),
      name |-> NameAt(s, directories[k])]]

HoldsIn(s, d, D, files, directories) ==
  /\ Children(s, d).files = FilesSeen(s, files)
  /\ Children(s, d).directories = DirectoriesSeen(s, directories)
  /\ Children(s, d) = [files |-> Children(s, d).files,
                       directories |-> Children(s, d).directories]
  /\ \A k \in 1..Len(directories) : DirectoryAt(s, directories[k]) \in D

LEMMA ChildrenAre ==
  ASSUME NEW s, Linkable(s.file_index), Linkable(s.directory_index),
         NEW D, NEW d, Reads(s, Header(s, d), D),
         NEW files, files = FilesOf(s, Header(s, d)),
         NEW directories, directories = DirectoriesOf(s, Header(s, d))
  PROVE  HoldsIn(s, d, D, files, directories)
<1>1. IsRead(s, Header(s, d), files, directories) BY ReadsIs
<1>2. /\ Sequential(files) /\ Sequential(directories)
      /\ Len(directories) = Header(s, d).directory_count
  BY <1>1 DEF IsRead
<1>3. DOMAIN files = 1..Len(files)
      /\ DOMAIN directories = 1..Len(directories)
  BY <1>2, LenProperties DEF Sequential
<1>4. \A k \in 1..Len(directories) : DirectoryAt(s, directories[k]) \in D
  BY <1>2 DEF Reads
<1> QED BY <1>3, <1>4 DEF Children, HoldsIn, FilesSeen, DirectoriesSeen

(* A directory whose header stays holds what it held.                      *)
StaysSame(s, t, d, D) ==
  /\ Reads(t, Header(t, d), D)
  /\ FilesOf(t, Header(t, d)) = FilesOf(s, Header(s, d))
  /\ DirectoriesOf(t, Header(t, d)) = DirectoriesOf(s, Header(s, d))
  /\ Children(t, d) = Children(s, d)

LEMMA ChildrenStay ==
  ASSUME NEW s, NEW D, Usable(s, D), NEW t, Grows(s, t, D),
         NEW d \in D, Header(t, d) = Header(s, d)
  PROVE  StaysSame(s, t, d, D)
<1> DEFINE h == Header(s, d)  files == FilesOf(s, h)
           directories == DirectoriesOf(s, h)
<1>1. /\ Linkable(s.file_index) /\ Linkable(s.directory_index)
      /\ Reads(s, h, D)
  BY DEF Usable
<1>2. /\ Extends(s.file_index, t.file_index)
      /\ Extends(s.directory_index, t.directory_index)
      /\ Linkable(t.file_index) /\ Linkable(t.directory_index)
  BY DEF Grows, Extends
<1>3. /\ Stays(s.file_index, h.file_index_offset, h.file_count)
      /\ Stays(s.directory_index, h.directory_index_offset,
               h.directory_count)
      /\ IsHeader(h)
  BY <1>1 DEF Reads
<1>4. FilesOf(t, h) = files
      /\ Stays(t.file_index, h.file_index_offset, h.file_count)
  BY <1>1, <1>2, <1>3, WalkKept DEF FilesOf
<1>5. DirectoriesOf(t, h) = directories
      /\ Stays(t.directory_index, h.directory_index_offset,
               h.directory_count)
  BY <1>1, <1>2, <1>3, WalkKept DEF DirectoriesOf
<1>6. IsRead(s, h, files, directories) BY <1>1, ReadsIs
<1>7. /\ \A k \in 1..Len(files) : files[k] \in 0..(Len(s.file_index) - 1)
      /\ \A k \in 1..Len(directories) :
           directories[k] \in 0..(Len(s.directory_index) - 1)
      /\ Len(directories) = h.directory_count
  BY <1>6 DEF IsRead
<1>8. \A k \in 1..Len(directories) : DirectoryAt(s, directories[k]) \in D
  BY <1>1, <1>7 DEF Reads
<1> HIDE DEF h, files, directories
<1>9. /\ \A k \in 1..Len(files) :
           /\ t.file_index[files[k] + 1] = s.file_index[files[k] + 1]
           /\ FileAt(t, files[k]) = FileAt(s, files[k])
      /\ \A k \in 1..Len(directories) :
           /\ DirectoryAt(t, directories[k]) = DirectoryAt(s, directories[k])
           /\ NameAt(t, directories[k]) = NameAt(s, directories[k])
  BY <1>7, <1>8, EntriesStay
<1>10. Reads(t, h, D)
  BY <1>3, <1>4, <1>5, <1>7, <1>8, <1>9 DEF Reads
<1>11. Header(s, d) = h /\ Header(t, d) = h BY DEF h
<1>12. HoldsIn(s, d, D, files, directories)
  BY <1>1, <1>11, ChildrenAre, Zenon DEF files, directories
<1>13. HoldsIn(t, d, D, files, directories)
  BY <1>2, <1>4, <1>5, <1>10, <1>11, ChildrenAre, Zenon
<1>14. FilesSeen(t, files) = FilesSeen(s, files) BY <1>9 DEF FilesSeen
<1>15. DirectoriesSeen(t, directories) = DirectoriesSeen(s, directories)
  BY <1>9 DEF DirectoriesSeen
<1>16. Children(t, d) = Children(s, d) 
  BY <1>12, <1>13, <1>14, <1>15 DEF HoldsIn
<1> QED BY <1>4, <1>5, <1>10, <1>11, <1>16
        DEF StaysSame, files, directories

LEMMA RootStays ==
  ASSUME NEW s, NEW D, Usable(s, D), NEW t, Grows(s, t, D),
         NEW chain, Rooted(s, chain, D)
  PROVE  Rooted(t, chain, D)
<1> DEFINE w == Walk(s.directory_index, chain.first, chain.count)
<1>1. /\ Extends(s.directory_index, t.directory_index)
      /\ Linkable(s.directory_index)
      /\ Stays(s.directory_index, chain.first, chain.count)
      /\ \A k \in 1..chain.count : DirectoryAt(s, w[k]) \in D
  BY DEF Grows, Usable, Rooted
<1>2. Walk(t.directory_index, chain.first, chain.count) = w
      /\ Stays(t.directory_index, chain.first, chain.count)
  BY <1>1, WalkKept
<1>3. \A k \in 1..chain.count : w[k] \in 0..(Len(s.directory_index) - 1)
  BY <1>1 DEF Stays
<1> HIDE DEF w
<1>4. \A k \in 1..chain.count : DirectoryAt(t, w[k]) = DirectoryAt(s, w[k])
  BY <1>3, EntriesStay
<1> QED BY <1>1, <1>2, <1>4 DEF Rooted

(***************************************************************************)
(* The entries a directory sort collects.                                  *)
(***************************************************************************)
FileItem(s, x, k) ==
  [record_offset |-> s.file_index[x + 1].record_offset,
   record_length |-> s.file_index[x + 1].record_length,
   selection |-> s.file_index[x + 1].selection,
   name |-> FileName(FileAt(s, x)), sequence |-> k - 1]

FileItems(s, files) == [k \in 1..Len(files) |-> FileItem(s, files[k], k)]

DirectoryItem(s, x, k) ==
  [record_offset |-> s.directory_index[x + 1].record_offset,
   selection |-> s.directory_index[x + 1].selection,
   name |-> NameAt(s, x), sequence |-> k - 1]

DirectoryItems(s, directories) ==
  [k \in 1..Len(directories) |-> DirectoryItem(s, directories[k], k)]

(* Items that are numbered as they stand are entries.                      *)
LEMMA NumberedEntries ==
  ASSUME NEW n \in Nat, NEW u, u = [k \in 1..n |-> u[k]],
         \A k \in 1..n : u[k].sequence = k - 1
  PROVE  IsEntries(u) /\ Len(u) = n
<1>1. Sequential(u) /\ Len(u) = n BY SequentialFunction
<1>2. \A k \in 1..n : u[k].sequence \in Nat OBVIOUS
<1>3. \A j, k \in 1..n : u[j].sequence = u[k].sequence => j = k OBVIOUS
<1> QED BY <1>1, <1>2, <1>3 DEF IsEntries

LEMMA FileItemsAre ==
  ASSUME NEW s, NEW files, Sequential(files)
  PROVE  /\ IsEntries(FileItems(s, files))
         /\ Len(FileItems(s, files)) = Len(files)
<1>1. Len(files) \in Nat BY LenProperties DEF Sequential
<1> DEFINE u == FileItems(s, files)
<1>2. u = [k \in 1..Len(files) |-> u[k]] BY DEF FileItems
<1>3. \A k \in 1..Len(files) : u[k].sequence = k - 1
  BY DEF FileItems, FileItem
<1> HIDE DEF u
<1>4. IsEntries(u) /\ Len(u) = Len(files)
  BY <1>1, <1>2, <1>3, NumberedEntries
<1> QED BY <1>4 DEF u

LEMMA DirectoryItemsAre ==
  ASSUME NEW s, NEW directories, Sequential(directories)
  PROVE  /\ IsEntries(DirectoryItems(s, directories))
         /\ Len(DirectoryItems(s, directories)) = Len(directories)
<1>1. Len(directories) \in Nat BY LenProperties DEF Sequential
<1> DEFINE u == DirectoryItems(s, directories)
<1>2. u = [k \in 1..Len(directories) |-> u[k]] BY DEF DirectoryItems
<1>3. \A k \in 1..Len(directories) : u[k].sequence = k - 1
  BY DEF DirectoryItems, DirectoryItem
<1> HIDE DEF u
<1>4. IsEntries(u) /\ Len(u) = Len(directories)
  BY <1>1, <1>2, <1>3, NumberedEntries
<1> QED BY <1>4 DEF u

(* What is seen of a sorted output is the stable order by name of what is  *)
(* seen of its input, and it does not fall.                                *)
Seen(e) == [record |-> e.record_offset, name |-> e.name]

SeenOf(u) == [k \in 1..Len(u) |-> Seen(u[k])]
WrittenOf(u, out) == [p \in 1..Len(u) |-> Seen(out[p].entry)]
InSequence(u) == \A k \in 1..Len(u) : u[k].sequence = k - 1

IsStable(y, z) == z = InOrder(y) /\ z = InOrder(z)

LEMMA WrittenSorted ==
  ASSUME NEW u, IsEntries(u), InSequence(u),
         NEW out, NEW base, Written(u, out, base)
  PROVE  IsStable(SeenOf(u), WrittenOf(u, out))
<1> DEFINE n == Len(u)  y == SeenOf(u)  z == WrittenOf(u, out)
<1>1. n \in Nat BY LenProperties DEF IsEntries, Sequential
<1>2. /\ Sequential(y) /\ Len(y) = n /\ Sequential(z) /\ Len(z) = n
      /\ \A k \in 1..n : y[k] = Seen(u[k])
      /\ \A p \in 1..n : z[p] = Seen(out[p].entry)
  <2>1. /\ y = [k \in 1..n |-> y[k]] /\ z = [k \in 1..n |-> z[k]]
        /\ \A k \in 1..n : y[k] = Seen(u[k])
        /\ \A p \in 1..n : z[p] = Seen(out[p].entry)
    BY DEF SeenOf, WrittenOf
  <2> HIDE DEF y, z, n
  <2> QED BY <1>1, <2>1, SequentialFunction
<1> HIDE DEF y, z
<1>3. \A k \in 1..n : u[k].name = y[k].name /\ u[k].sequence = k - 1
  <2> SUFFICES ASSUME NEW k \in 1..n
               PROVE  u[k].name = y[k].name /\ u[k].sequence = k - 1
    OBVIOUS
  <2>1. y[k] = Seen(u[k]) BY <1>2
  <2>2. Seen(u[k]).name = u[k].name BY DEF Seen
  <2>3. u[k].sequence = k - 1 BY DEF InSequence
  <2> QED BY <2>1, <2>2, <2>3
<1>4. Names(u, y) BY <1>2, <1>3 DEF Names
<1>5. IsInOrder(u, y, InOrder(y)) BY <1>4, SortedIs
<1>6. \A p \in 1..n : \E k \in 1..n :
        AheadOf(u, k) = p - 1 /\ out[p].entry = u[k]
  BY DEF Written
<1> DEFINE x == InOrder(y)
<1> HIDE DEF x
<1>7. Sequential(x) /\ Len(x) = n
      /\ \A p \in 1..n : \A k \in 1..n : AheadOf(u, k) = p - 1 => x[p] = y[k]
  BY <1>5 DEF IsInOrder, x
<1> HIDE DEF n
<1>8. ASSUME NEW p \in 1..n PROVE z[p] = x[p]
  <2>1. PICK k \in 1..n : AheadOf(u, k) = p - 1 /\ out[p].entry = u[k]
    BY <1>6
  <2>2. x[p] = y[k] BY <2>1, <1>7
  <2> QED BY <2>1, <2>2, <1>2
<1>9. z = x BY <1>2, <1>7, <1>8, SameSequence
<1>10. ASSUME NEW p \in 1..n, NEW q \in 1..n, p < q
       PROVE  PlaceOfName(z[p].name) <= PlaceOfName(z[q].name)
  <2>1. PICK j \in 1..n : AheadOf(u, j) = p - 1 /\ out[p].entry = u[j]
    BY <1>6
  <2>2. PICK k \in 1..n : AheadOf(u, k) = q - 1 /\ out[q].entry = u[k]
    BY <1>6
  <2>3. AheadOf(u, j) < AheadOf(u, k) BY <2>1, <2>2, <1>1, <1>10
  <2>4. NameBefore(u[j], u[k]) BY <2>3, AheadApart DEF n
  <2>5. z[p].name = u[j].name /\ z[q].name = u[k].name
    BY <2>1, <2>2, <1>2 DEF Seen
  <2>6. PlaceOfName(u[j].name) \in Nat /\ PlaceOfName(u[k].name) \in Nat
    BY PlaceIsNat
  <2> QED BY <2>4, <2>5, <2>6 DEF NameBefore
<1>11. z = InOrder(z)
  <2>1. \A p, q \in 1..Len(z) :
          p < q => PlaceOfName(z[p].name) <= PlaceOfName(z[q].name)
    BY <1>2, <1>10
  <2> QED BY <2>1, <1>2, OrderStays
<1> QED BY <1>9, <1>11 DEF x, y, z, IsStable

LEMMA FewStay ==
  ASSUME NEW y, Sequential(y), Len(y) <= 1
  PROVE  y = InOrder(y)
<1>1. Len(y) \in Nat BY LenProperties DEF Sequential
<1>2. \A j, k \in 1..Len(y) :
        j < k => PlaceOfName(y[j].name) <= PlaceOfName(y[k].name)
  BY <1>1
<1> QED BY <1>2, OrderStays

(* One header is changed.                                                  *)
IsPatched(s, t, d, h) ==
  /\ IsStore(t) /\ t.file_records = s.file_records
  /\ t.file_index = s.file_index /\ t.directory_index = s.directory_index
  /\ Sequential(t.directories) /\ Len(t.directories) = Len(s.directories)
  /\ \A x \in 0..(Len(s.directories) - 1) :
       Header(t, x) = IF x = d THEN h ELSE Header(s, x)

LEMMA ReplacedHeader ==
  ASSUME NEW s, IsStore(s), Sequential(s.directories),
         NEW d \in 0..(Len(s.directories) - 1), NEW h,
         NEW t, t = [s EXCEPT !.directories =
                       [s.directories EXCEPT ![d + 1] = h]]
  PROVE  IsPatched(s, t, d, h)
<1> DEFINE list == s.directories
           new == [list EXCEPT ![d + 1] = h]
<1>1. Len(list) \in Nat BY LenProperties DEF Sequential
<1>2. d + 1 \in 1..Len(list) BY <1>1
<1>3. IsReplaced(list, d + 1, h, new)
  BY <1>2, SequentialExcept
<1> HIDE DEF new
<1>4. /\ IsStore(t) /\ t.file_records = s.file_records
      /\ t.file_index = s.file_index /\ t.directories = new
      /\ t.directory_index = s.directory_index
  BY DEF IsStore, new
<1>5. /\ Sequential(new) /\ Len(new) = Len(list)
      /\ \A k \in 1..Len(list) : new[k] = IF k = d + 1 THEN h ELSE list[k]
  BY <1>3 DEF IsReplaced
<1>6. ASSUME NEW x \in 0..(Len(list) - 1)
      PROVE  Header(t, x) = IF x = d THEN h ELSE Header(s, x)
  <2>1. x + 1 \in 1..Len(list) /\ (x + 1 = d + 1 <=> x = d) BY <1>1
  <2>2. new[x + 1] = IF x = d THEN h ELSE list[x + 1]
    BY <2>1, <1>5
  <2> QED BY <2>2, <1>4 DEF Header
<1> QED BY <1>4, <1>5, <1>6 DEF IsPatched

LEMMA PatchGrows ==
  ASSUME NEW s, NEW D, Usable(s, D), NEW d \in D, NEW h, NEW t,
         IsPatched(s, t, d, h), h.name = Header(s, d).name
  PROVE  Grows(s, t, D)
<1>1. /\ D \subseteq 0..(Len(s.directories) - 1)
      /\ Sequential(s.file_index) /\ Linkable(s.file_index)
      /\ Sequential(s.directory_index) /\ Linkable(s.directory_index)
  BY DEF Usable
<1>2. \A e \in D : Header(t, e).name = Header(s, e).name
  <2> SUFFICES ASSUME NEW e \in D
               PROVE  Header(t, e).name = Header(s, e).name
    OBVIOUS
  <2>1. Header(t, e) = IF e = d THEN h ELSE Header(s, e)
    BY <1>1 DEF IsPatched
  <2> QED BY <2>1
<1>3. Len(s.file_index) \in Nat /\ Len(s.directory_index) \in Nat
  BY <1>1 DEF Linkable
<1>4. Extends(s.file_index, t.file_index)
      /\ Extends(s.directory_index, t.directory_index)
  BY <1>1, <1>3 DEF Extends, IsPatched
<1> QED BY <1>2, <1>4 DEF Grows, IsPatched

OthersStay(s, t, D, d) ==
  /\ Usable(t, D) /\ Grows(s, t, D)
  /\ \A e \in D \ {d} : Children(t, e) = Children(s, e)

(* A patched index is usable if the patched header reads.                  *)
LEMMA PatchUsable ==
  ASSUME NEW s, NEW D, Usable(s, D), NEW d \in D, NEW h, NEW t,
         IsPatched(s, t, d, h), h.name = Header(s, d).name,
         Reads(t, h, D)
  PROVE  OthersStay(s, t, D, d)
<1>1. Grows(s, t, D) BY PatchGrows
<1>2. D \subseteq 0..(Len(s.directories) - 1) BY DEF Usable
<1>3. \A e \in D : Header(t, e) = IF e = d THEN h ELSE Header(s, e)
  BY <1>2 DEF IsPatched
<1>4. ASSUME NEW e \in D \ {d}
      PROVE  Reads(t, Header(t, e), D) /\ Children(t, e) = Children(s, e)
  <2>1. e \in D /\ Header(t, e) = Header(s, e) BY <1>3
  <2>2. StaysSame(s, t, e, D) BY <2>1, <1>1, ChildrenStay
  <2> QED BY <2>2 DEF StaysSame
<1>5. \A e \in D : Reads(t, Header(t, e), D) BY <1>3, <1>4
<1>6. /\ IsStore(t) /\ Sequential(t.directories)
      /\ Sequential(t.file_index) /\ Linkable(t.file_index)
      /\ Sequential(t.directory_index) /\ Linkable(t.directory_index)
      /\ D \subseteq 0..(Len(t.directories) - 1)
  BY <1>2 DEF Usable, IsPatched
<1> QED BY <1>1, <1>4, <1>5, <1>6 DEF Usable, OthersStay

(***************************************************************************)
(* The sorted entries stand at the end of the index, and the header of the *)
(* directory is pointed at them.                                           *)
(***************************************************************************)
FileRow(e) ==
  [next |-> e.next, record_offset |-> e.entry.record_offset,
   record_length |-> e.entry.record_length, selection |-> e.entry.selection]
DirectoryRow(e) ==
  [next |-> e.next, record_offset |-> e.entry.record_offset,
   selection |-> e.entry.selection]

(* The last entries of a list are those of out.                            *)
EndsWith(list, rows, base) ==
  /\ base \in Nat /\ Len(rows) \in Nat /\ Len(list) = base + Len(rows)
  /\ \A p \in 1..Len(rows) : list[base + p] = rows[p]

IsSortedFiles(s, t, D, d) ==
  /\ Usable(t, D) /\ Grows(s, t, D)
  /\ \A e \in D \ {d} : Children(t, e) = Children(s, e)
  /\ Children(t, d).files = InOrder(Children(s, d).files)
  /\ Children(t, d).files = InOrder(Children(t, d).files)
  /\ Children(t, d).directories = Children(s, d).directories
  /\ DirectoriesOf(t, Header(t, d)) = DirectoriesOf(s, Header(s, d))

LEMMA FilesPatched ==
  ASSUME NEW s, NEW D, Usable(s, D), NEW d \in D,
         NEW files, files = FilesOf(s, Header(s, d)), Len(files) > 0,
         NEW out, NEW base, Written(FileItems(s, files), out, base),
         NEW rows, Len(rows) = Len(out),
         \A p \in 1..Len(out) : rows[p] = FileRow(out[p]),
         EndsWith(s.file_index, rows, base),
         NEW h, h = [Header(s, d) EXCEPT !.file_index_offset = base],
         NEW t, IsPatched(s, t, d, h)
  PROVE  IsSortedFiles(s, t, D, d)
<1> DEFINE g == Header(s, d)  directories == DirectoriesOf(s, g)
           u == FileItems(s, files)  n == Len(files)
           new == FilesOf(t, h)
<1>1. /\ Linkable(s.file_index) /\ Linkable(s.directory_index)
      /\ Reads(s, g, D) /\ D \subseteq 0..(Len(s.directories) - 1)
  BY DEF Usable
<1>2. IsRead(s, g, files, directories) BY <1>1, ReadsIs
<1>3. /\ Sequential(files) /\ n = g.file_count
      /\ \A k \in 1..n : files[k] \in 0..(Len(s.file_index) - 1)
      /\ Len(directories) = g.directory_count
  BY <1>2 DEF IsRead
<1>4. n \in Nat BY <1>3, LenProperties DEF Sequential
<1>5. IsHeader(g) BY <1>1 DEF Reads
<1>6. /\ IsHeader(h) /\ h.file_index_offset = base
      /\ h.file_count = g.file_count /\ h.name = g.name
      /\ h.directory_index_offset = g.directory_index_offset
      /\ h.directory_count = g.directory_count
  BY <1>5 DEF IsHeader
<1>7. /\ IsEntries(u) /\ Len(u) = n
      /\ \A k \in 1..n : u[k] = FileItem(s, files[k], k)
  <2>1. IsEntries(u) /\ Len(u) = n BY <1>3, FileItemsAre
  <2>2. \A k \in 1..n : u[k] = FileItem(s, files[k], k)
    <3> HIDE DEF n
    <3> QED BY DEF FileItems, n
  <2> QED BY <2>1, <2>2
<1>8. /\ t.file_index = s.file_index /\ t.directory_index = s.directory_index
      /\ t.file_records = s.file_records /\ Header(t, d) = h
  BY <1>1 DEF IsPatched
<1>8a. n > 0 OBVIOUS
<1> HIDE DEF u, g, directories, new, n
<1>9. /\ Len(out) = n
      /\ \A p \in 1..n : \E k \in 1..n :
           AheadOf(u, k) = p - 1 /\ out[p].entry = u[k]
      /\ \A p \in 1..n : p < n => out[p].next = base + p
  BY <1>7 DEF Written, u
<1>10. /\ base \in Nat /\ base + n <= Len(s.file_index)
       /\ \A p \in 1..n : s.file_index[base + p] = FileRow(out[p])
  <2>1. Len(rows) = n /\ \A p \in 1..n : rows[p] = FileRow(out[p])
    BY <1>9
  <2>2. base \in Nat /\ Len(s.file_index) = base + n
        /\ \A p \in 1..n : s.file_index[base + p] = rows[p]
    BY <2>1 DEF EndsWith
  <2> QED BY <2>1, <2>2, <1>4
<1>11. \A p \in 1..(n - 1) : s.file_index[base + p].next = base + p
  <2> SUFFICES ASSUME NEW p \in 1..(n - 1)
               PROVE  s.file_index[base + p].next = base + p
    OBVIOUS
  <2>1. p \in 1..n /\ p < n BY <1>4
  <2>2. s.file_index[base + p] = FileRow(out[p]) BY <2>1, <1>10
  <2>3. FileRow(out[p]).next = out[p].next BY DEF FileRow
  <2> QED BY <2>1, <2>2, <2>3, <1>9
<1>12. /\ Stays(s.file_index, base, n)
       /\ \A p \in 1..n : Walk(s.file_index, base, n)[p] = (base + p) - 1
  BY <1>1, <1>4, <1>8a, <1>10, <1>11, WalkUp
<1>13. new = Walk(s.file_index, base, n)
  BY <1>3, <1>6, <1>8 DEF FilesOf, new
<1>14. DirectoriesOf(t, h) = directories
  BY <1>6, <1>8 DEF DirectoriesOf, directories, g
<1>15. Reads(t, h, D)
  <2>1. Stays(t.directory_index, h.directory_index_offset,
              h.directory_count)
    BY <1>1, <1>6, <1>8 DEF Reads
  <2>2. \A x : DirectoryAt(t, x) = DirectoryAt(s, x)
    BY <1>8 DEF DirectoryAt
  <2>3. \A k \in 1..h.directory_count : DirectoryAt(s, directories[k]) \in D
    BY <1>1, <1>6 DEF Reads, directories
  <2>4. Stays(t.file_index, h.file_index_offset, h.file_count)
    BY <1>3, <1>6, <1>8, <1>12
  <2> QED BY <1>6, <1>14, <2>1, <2>2, <2>3, <2>4 DEF Reads
<1>16. h.name = Header(s, d).name BY <1>6 DEF g
<1>17. OthersStay(s, t, D, d) BY <1>15, <1>16, PatchUsable
<1>18. Grows(s, t, D) BY <1>17 DEF OthersStay
<1>19. HoldsIn(s, d, D, files, directories)
  BY <1>1, ChildrenAre, Zenon DEF directories, g
<1>20. Len(new) = n
  <2>1. IsRead(t, h, new, DirectoriesOf(t, h))
    BY <1>1, <1>8, <1>15, ReadsIs DEF new
  <2> QED BY <2>1, <1>3, <1>6 DEF IsRead
<1>21. HoldsIn(t, d, D, new, directories)
  <2>1. Linkable(t.file_index) /\ Linkable(t.directory_index)
    BY <1>1, <1>8
  <2>2. Reads(t, Header(t, d), D) /\ new = FilesOf(t, Header(t, d))
        /\ directories = DirectoriesOf(t, Header(t, d))
    BY <1>8, <1>14, <1>15 DEF new
  <2> QED BY <2>1, <2>2, ChildrenAre, Zenon
<1>22. Children(t, d).directories = Children(s, d).directories
  <2>1. \A k \in 1..Len(directories) :
          directories[k] \in 0..(Len(s.directory_index) - 1)
    BY <1>2 DEF IsRead
  <2>2. \A k \in 1..Len(directories) :
          /\ DirectoryAt(t, directories[k]) = DirectoryAt(s, directories[k])
          /\ NameAt(t, directories[k]) = NameAt(s, directories[k])
    BY <2>1, <1>18, <1>19, EntriesStay DEF HoldsIn
  <2>3. DirectoriesSeen(t, directories) = DirectoriesSeen(s, directories)
    BY <2>2 DEF DirectoriesSeen
  <2> QED BY <2>3, <1>19, <1>21 DEF HoldsIn
<1>23. ASSUME NEW k \in 1..n
       PROVE  Seen(u[k]) =
                [record |-> s.file_index[files[k] + 1].record_offset,
                 name |-> FileName(FileAt(s, files[k]))]
  <2>1. u[k] = FileItem(s, files[k], k) BY <1>7
  <2> QED BY <2>1 DEF FileItem, Seen
<1>24. ASSUME NEW p \in 1..n
       PROVE  Seen(out[p].entry) =
                [record |-> t.file_index[new[p] + 1].record_offset,
                 name |-> FileName(FileAt(t, new[p]))]
  <2>1. PICK k \in 1..n : out[p].entry = u[k] BY <1>9
  <2> DEFINE x == files[k]  e == s.file_index[x + 1]
             row == s.file_index[base + p]
  <2>2. /\ u[k].record_offset = e.record_offset
        /\ u[k].record_length = e.record_length
        /\ u[k].name = FileName(FileAt(s, x))
    <3>1. u[k] = FileItem(s, x, k) BY <1>7
    <3> QED BY <3>1 DEF FileItem
  <2>3. /\ row.record_offset = e.record_offset
        /\ row.record_length = e.record_length
    <3>1. row = FileRow(out[p]) BY <1>10
    <3> QED BY <3>1, <2>1, <2>2 DEF FileRow
  <2>4. new[p] + 1 = base + p
    BY <1>4, <1>10, <1>12, <1>13
  <2>5. t.file_index[new[p] + 1] = row BY <2>4, <1>8
  <2>6. FileAt(t, new[p]) = FileAt(s, x)
    <3>1. FileAt(t, new[p])
            = ReadRecord(t, row.record_offset, row.record_length)
      BY <2>5 DEF FileAt
    <3>2. FileAt(s, x) = ReadRecord(s, e.record_offset, e.record_length)
      BY DEF FileAt
    <3>3. \A a, b : ReadRecord(t, a, b) = ReadRecord(s, a, b)
      BY <1>8 DEF ReadRecord
    <3> QED BY <3>1, <3>2, <3>3, <2>3
  <2> QED BY <2>1, <2>2, <2>3, <2>5, <2>6 DEF Seen
<1> DEFINE y == Children(s, d).files  z == Children(t, d).files
<1>25. y = SeenOf(u) 
  BY <1>7, <1>19, <1>23 DEF HoldsIn, FilesSeen, SeenOf, n
<1>26. z = WrittenOf(u, out)
  BY <1>7, <1>20, <1>21, <1>24 DEF HoldsIn, FilesSeen, WrittenOf
<1> HIDE DEF y, z
<1>27. InSequence(u)
  <2> SUFFICES ASSUME NEW k \in 1..n PROVE u[k].sequence = k - 1
    BY <1>7 DEF InSequence
  <2>1. u[k] = FileItem(s, files[k], k) BY <1>7
  <2> QED BY <2>1 DEF FileItem
<1>28. Written(u, out, base) BY DEF u
<1>29. IsStable(y, z)
  <2>1. IsStable(SeenOf(u), WrittenOf(u, out))
    BY <1>7, <1>27, <1>28, WrittenSorted
  <2> QED BY <2>1, <1>25, <1>26
<1>30. DirectoriesOf(t, Header(t, d)) = DirectoriesOf(s, Header(s, d))
  BY <1>8, <1>14 DEF directories, g
<1> QED BY <1>17, <1>22, <1>29, <1>30
        DEF IsSortedFiles, OthersStay, IsStable, y, z

(* The same of the directories below it.                                   *)
IsSortedDirectories(s, t, D, d) ==
  /\ Usable(t, D) /\ Grows(s, t, D)
  /\ \A e \in D \ {d} : Children(t, e) = Children(s, e)
  /\ Children(t, d).files = Children(s, d).files
  /\ Children(t, d).directories = InOrder(Children(s, d).directories)
  /\ Children(t, d).directories = InOrder(Children(t, d).directories)

LEMMA DirectoriesPatched ==
  ASSUME NEW s, NEW D, Usable(s, D), NEW d \in D,
         NEW directories, directories = DirectoriesOf(s, Header(s, d)),
         Len(directories) > 0,
         NEW out, NEW base,
         Written(DirectoryItems(s, directories), out, base),
         NEW rows, Len(rows) = Len(out),
         \A p \in 1..Len(out) : rows[p] = DirectoryRow(out[p]),
         EndsWith(s.directory_index, rows, base),
         NEW h, h = [Header(s, d) EXCEPT !.directory_index_offset = base],
         NEW t, IsPatched(s, t, d, h)
  PROVE  IsSortedDirectories(s, t, D, d)
<1> DEFINE g == Header(s, d)  files == FilesOf(s, g)
           u == DirectoryItems(s, directories)  n == Len(directories)
           new == DirectoriesOf(t, h)
<1>1. /\ Linkable(s.file_index) /\ Linkable(s.directory_index)
      /\ Reads(s, g, D) /\ D \subseteq 0..(Len(s.directories) - 1)
  BY DEF Usable
<1>2. IsRead(s, g, files, directories) BY <1>1, ReadsIs
<1>3. /\ Sequential(directories) /\ n = g.directory_count
      /\ \A k \in 1..n : directories[k] \in 0..(Len(s.directory_index) - 1)
      /\ Len(files) = g.file_count
  BY <1>2 DEF IsRead
<1>4. n \in Nat BY <1>3, LenProperties DEF Sequential
<1>5. IsHeader(g) BY <1>1 DEF Reads
<1>6. /\ IsHeader(h) /\ h.directory_index_offset = base
      /\ h.directory_count = g.directory_count /\ h.name = g.name
      /\ h.file_index_offset = g.file_index_offset
      /\ h.file_count = g.file_count
  BY <1>5 DEF IsHeader
<1>7. /\ IsEntries(u) /\ Len(u) = n
      /\ \A k \in 1..n : u[k] = DirectoryItem(s, directories[k], k)
  <2>1. IsEntries(u) /\ Len(u) = n BY <1>3, DirectoryItemsAre
  <2>2. \A k \in 1..n : u[k] = DirectoryItem(s, directories[k], k)
    <3> HIDE DEF n
    <3> QED BY DEF DirectoryItems, n
  <2> QED BY <2>1, <2>2
<1>8. /\ t.file_index = s.file_index /\ t.directory_index = s.directory_index
      /\ t.file_records = s.file_records /\ Header(t, d) = h
  BY <1>1 DEF IsPatched
<1>8a. n > 0 OBVIOUS
<1> HIDE DEF u, g, files, new, n
<1>9. /\ Len(out) = n
      /\ \A p \in 1..n : \E k \in 1..n :
           AheadOf(u, k) = p - 1 /\ out[p].entry = u[k]
      /\ \A p \in 1..n : p < n => out[p].next = base + p
  BY <1>7 DEF Written, u
<1>10. /\ base \in Nat /\ base + n <= Len(s.directory_index)
       /\ \A p \in 1..n : s.directory_index[base + p] = DirectoryRow(out[p])
  <2>1. Len(rows) = n /\ \A p \in 1..n : rows[p] = DirectoryRow(out[p])
    BY <1>9
  <2>2. base \in Nat /\ Len(s.directory_index) = base + n
        /\ \A p \in 1..n : s.directory_index[base + p] = rows[p]
    BY <2>1 DEF EndsWith
  <2> QED BY <2>1, <2>2, <1>4
<1>11. \A p \in 1..(n - 1) : s.directory_index[base + p].next = base + p
  <2> SUFFICES ASSUME NEW p \in 1..(n - 1)
               PROVE  s.directory_index[base + p].next = base + p
    OBVIOUS
  <2>1. p \in 1..n /\ p < n BY <1>4
  <2>2. s.directory_index[base + p] = DirectoryRow(out[p]) BY <2>1, <1>10
  <2>3. DirectoryRow(out[p]).next = out[p].next BY DEF DirectoryRow
  <2> QED BY <2>1, <2>2, <2>3, <1>9
<1>12. /\ Stays(s.directory_index, base, n)
       /\ \A p \in 1..n :
            Walk(s.directory_index, base, n)[p] = (base + p) - 1
  BY <1>1, <1>4, <1>8a, <1>10, <1>11, WalkUp
<1>13. new = Walk(s.directory_index, base, n)
  BY <1>3, <1>6, <1>8 DEF DirectoriesOf, new
<1>14. FilesOf(t, h) = files
  BY <1>6, <1>8 DEF FilesOf, files, g
<1>15. HoldsIn(s, d, D, files, directories)
  BY <1>1, ChildrenAre, Zenon DEF files, g
<1>16. ASSUME NEW k \in 1..n
       PROVE  Seen(u[k]) = [record |-> DirectoryAt(s, directories[k]),
                            name |-> NameAt(s, directories[k])]
  <2>1. u[k] = DirectoryItem(s, directories[k], k) BY <1>7
  <2> QED BY <2>1 DEF DirectoryItem, Seen, DirectoryAt
<1>17. ASSUME NEW p \in 1..n
       PROVE  \E k \in 1..n :
                /\ out[p].entry = u[k]
                /\ DirectoryAt(t, new[p]) = DirectoryAt(s, directories[k])
  <2>1. PICK k \in 1..n : out[p].entry = u[k] BY <1>9
  <2> DEFINE x == directories[k]  e == s.directory_index[x + 1]
             row == s.directory_index[base + p]
  <2>2. u[k].record_offset = e.record_offset
    <3>1. u[k] = DirectoryItem(s, x, k) BY <1>7
    <3> QED BY <3>1 DEF DirectoryItem
  <2>3. row.record_offset = e.record_offset
    <3>1. row = DirectoryRow(out[p]) BY <1>10
    <3> QED BY <3>1, <2>1, <2>2 DEF DirectoryRow
  <2>4. new[p] + 1 = base + p BY <1>4, <1>10, <1>12, <1>13
  <2>5. DirectoryAt(t, new[p]) = row.record_offset
    BY <2>4, <1>8 DEF DirectoryAt
  <2> QED BY <2>1, <2>3, <2>5 DEF DirectoryAt
<1>18. Reads(t, h, D)
  <2>1. Stays(t.file_index, h.file_index_offset, h.file_count)
    BY <1>1, <1>6, <1>8 DEF Reads
  <2>2. Stays(t.directory_index, h.directory_index_offset,
              h.directory_count)
    BY <1>3, <1>6, <1>8, <1>12
  <2>3. \A p \in 1..n : DirectoryAt(t, new[p]) \in D
    BY <1>15, <1>17 DEF HoldsIn, n
  <2> QED BY <1>3, <1>6, <2>1, <2>2, <2>3 DEF Reads, new
<1>19. h.name = Header(s, d).name BY <1>6 DEF g
<1>20. OthersStay(s, t, D, d) BY <1>18, <1>19, PatchUsable
<1>21. Grows(s, t, D) BY <1>20 DEF OthersStay
<1>22. HoldsIn(t, d, D, files, new)
  <2>1. Linkable(t.file_index) /\ Linkable(t.directory_index)
    BY <1>1, <1>8
  <2>2. Reads(t, Header(t, d), D) /\ new = DirectoriesOf(t, Header(t, d))
        /\ files = FilesOf(t, Header(t, d))
    BY <1>8, <1>14, <1>18 DEF new
  <2> QED BY <2>1, <2>2, ChildrenAre, Zenon
<1>23. Children(t, d).files = Children(s, d).files
  <2>1. \A k \in 1..Len(files) :
          files[k] \in 0..(Len(s.file_index) - 1)
    BY <1>2 DEF IsRead
  <2>2. \A k \in 1..Len(files) :
          /\ t.file_index[files[k] + 1] = s.file_index[files[k] + 1]
          /\ FileAt(t, files[k]) = FileAt(s, files[k])
    BY <2>1, <1>21, EntriesStay
  <2>3. FilesSeen(t, files) = FilesSeen(s, files)
    BY <2>2 DEF FilesSeen
  <2> QED BY <2>3, <1>15, <1>22 DEF HoldsIn
<1>24. Len(new) = n
  <2>1. IsRead(t, h, FilesOf(t, h), new)
    BY <1>1, <1>8, <1>18, ReadsIs DEF new
  <2> QED BY <2>1, <1>3, <1>6 DEF IsRead
<1>25. ASSUME NEW p \in 1..n
       PROVE  Seen(out[p].entry) = [record |-> DirectoryAt(t, new[p]),
                                    name |-> NameAt(t, new[p])]
  <2>1. PICK k \in 1..n :
          /\ out[p].entry = u[k]
          /\ DirectoryAt(t, new[p]) = DirectoryAt(s, directories[k])
    BY <1>17
  <2>2. DirectoryAt(s, directories[k]) \in D
    BY <1>15 DEF HoldsIn, n
  <2>3. NameAt(t, new[p]) = NameAt(s, directories[k])
    BY <2>1, <2>2, <1>21 DEF NameAt, Grows
  <2> QED BY <2>1, <2>3, <1>16
<1> DEFINE y == Children(s, d).directories
           z == Children(t, d).directories
<1>26. y = SeenOf(u)
  BY <1>7, <1>15, <1>16 DEF HoldsIn, DirectoriesSeen, SeenOf, n
<1>27. z = WrittenOf(u, out)
  BY <1>7, <1>22, <1>24, <1>25 DEF HoldsIn, DirectoriesSeen, WrittenOf
<1> HIDE DEF y, z
<1>28. InSequence(u)
  <2> SUFFICES ASSUME NEW k \in 1..n PROVE u[k].sequence = k - 1
    BY <1>7 DEF InSequence
  <2>1. u[k] = DirectoryItem(s, directories[k], k) BY <1>7
  <2> QED BY <2>1 DEF DirectoryItem
<1>29. Written(u, out, base) BY DEF u
<1>30. IsStable(y, z)
  <2>1. IsStable(SeenOf(u), WrittenOf(u, out))
    BY <1>7, <1>28, <1>29, WrittenSorted
  <2> QED BY <2>1, <1>26, <1>27
<1> QED BY <1>20, <1>23, <1>30
        DEF IsSortedDirectories, OthersStay, IsStable, y, z

=============================================================================
