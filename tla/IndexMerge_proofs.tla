------------------------- MODULE IndexMerge_proofs --------------------------
(***************************************************************************)
(* The merge of any documents by any number of threads: whatever order the *)
(* workers take, parse and send the sources in, and wherever an error      *)
(* occurs, no temporary file outlives the call, the tree loses nothing,    *)
(* every uid is given once, and a call fails of an I/O error or a bad      *)
(* document only.  Then what a query may do to the index: a directory sort *)
(* puts one directory in order, and nothing it does, finished or broken    *)
(* off, makes a chain of the index lead out of it.                         *)
(*                                                                         *)
(* Four invariants.  IInv follows a source through the threads: it is in   *)
(* the queue, with a worker, in the channel or received, and a count of    *)
(* these places shows that nothing is on its way when the caller has       *)
(* received as many results as there are sources.  Through says that what  *)
(* came through without an error is a document that parses.  Tree says     *)
(* what the store is at every step of the caller: a forest being appended  *)
(* to (Appending), one whose directories are being normalised              *)
(* (Normalising: the frames of the stack are a path in the forest, each    *)
(* somewhere in its chain, and exactly the directories already entered     *)
(* have uids of their own), and a merged index (Merged).  Every step of    *)
(* the caller is a lemma about these.  SortInv says how far a directory    *)
(* sort is: some entries collected in a chunk and in sorted runs, some     *)
(* merged and linked to the next, then at the end of the index, where the  *)
(* header of the directory is pointed at last.                             *)
(***************************************************************************)
EXTENDS IndexForest_proofs

(***************************************************************************)
(* The directories being normalised.                                       *)
(***************************************************************************)
IsChainFrame(f) ==
  f = [directory |-> f.directory, chain |-> f.chain, current |-> f.current,
       left |-> f.left, previous |-> f.previous, primaries |-> f.primaries,
       done |-> f.done]

Kept(f) == Len(f.primaries)

(* A frame is somewhere in the chain of its directory: the entries before  *)
(* are the ones kept.                                                      *)
FrameOK(s, f, G) ==
  /\ IsChainFrame(f)
  /\ f.directory \in DOMAIN G
  /\ f.chain = ChainOf(G[f.directory])
  /\ Sequential(f.primaries)
  /\ f.left \in Nat /\ Kept(f) + f.left = Len(G[f.directory])
  /\ \A k \in 1..Kept(f) :
       f.primaries[k] = DirectoryAt(s, G[f.directory][k])
  /\ f.previous = IF Kept(f) = 0 THEN -1 ELSE G[f.directory][Kept(f)]
  /\ f.current = IF f.left = 0 THEN -1 ELSE G[f.directory][Kept(f) + 1]
  /\ f.done \in 0..Kept(f) /\ (f.left > 0 => f.done = 0)

FramesOK(s, fs, G, dep) ==
  /\ Sequential(fs)
  /\ \A i \in 1..Len(fs) :
       FrameOK(s, fs[i], G) /\ dep[fs[i].directory] = i - 1
  /\ Len(fs) >= 1 => fs[1].directory = -1
  /\ \A i \in 1..(Len(fs) - 1) :
       /\ fs[i].done >= 1
       /\ fs[i + 1].directory = fs[i].primaries[fs[i].done]

Framed(fs) == {fs[i].directory : i \in 1..Len(fs)}

SameEntries(s, t) ==
  /\ Len(t.directory_index) = Len(s.directory_index)
  /\ \A k \in 1..Len(s.directory_index) :
       t.directory_index[k].record_offset = s.directory_index[k].record_offset

IsFramed(s, fs, G, dep, new, old) ==
  FramesOK(s, new, G, dep) /\ Framed(new) = Framed(old) /\ new # <<>>

(* The frame on top changes, and what it has to do with.                   *)
LEMMA FramesChange ==
  ASSUME NEW s, NEW fs, NEW G, NEW dep, FramesOK(s, fs, G, dep), fs # <<>>,
         NEW t, SameEntries(s, t), NEW G2, NEW dep2,
         \A i \in 1..(Len(fs) - 1) :
           /\ fs[i].directory \in DOMAIN G2
           /\ G2[fs[i].directory] = G[fs[i].directory]
           /\ dep2[fs[i].directory] = dep[fs[i].directory],
         \A i \in 1..(Len(fs) - 1) : \A k \in 1..Len(G[fs[i].directory]) :
           G[fs[i].directory][k] + 1 \in 1..Len(s.directory_index),
         NEW f, FrameOK(t, f, G2), f.directory = fs[Len(fs)].directory,
         dep2[f.directory] = dep[f.directory]
  PROVE  IsFramed(t, fs, G2, dep2, [fs EXCEPT ![Len(fs)] = f], fs)
<1> DEFINE n == Len(fs)  new == [fs EXCEPT ![Len(fs)] = f]
<1>1. /\ Sequential(fs)
      /\ (\A i \in 1..n : FrameOK(s, fs[i], G) /\ dep[fs[i].directory] = i - 1)
      /\ (n >= 1 => fs[1].directory = -1)
      /\ \A i \in 1..(n - 1) :
           /\ fs[i].done >= 1
           /\ fs[i + 1].directory = fs[i].primaries[fs[i].done]
  BY DEF FramesOK
<1>2. n \in Nat /\ n >= 1
  <2>1. PICK S : fs \in Seq(S) BY <1>1 DEF Sequential
  <2> QED BY <2>1, EmptySeq, LenProperties
<1>3. n \in 1..Len(fs) BY <1>2
<1>4. IsReplaced(fs, n, f, new) BY <1>1, <1>3, SequentialExcept
<1> HIDE DEF n, new
<1>5. /\ Sequential(new) /\ Len(new) = n
      /\ \A k \in 1..n : new[k] = IF k = n THEN f ELSE fs[k]
  BY <1>4 DEF IsReplaced, n
<1>6. \A i \in 1..n : new[i].directory = fs[i].directory
  BY <1>5 DEF n
<1>7. ASSUME NEW i \in 1..n
      PROVE  FrameOK(t, new[i], G2) /\ dep2[new[i].directory] = i - 1
  <2>1. CASE i = n BY <2>1, <1>1, <1>5 DEF n
  <2>2. CASE i # n
    <3>1. i \in 1..(Len(fs) - 1) BY <2>2, <1>2 DEF n
    <3>2. new[i] = fs[i] BY <2>2, <1>5
    <3> DEFINE g == fs[i]  d == g.directory
    <3>3. FrameOK(s, g, G) /\ dep[d] = i - 1 BY <1>1
    <3>4. d \in DOMAIN G2 /\ G2[d] = G[d] /\ dep2[d] = dep[d] BY <3>1
    <3>5. \A k \in 1..Len(G[d]) : DirectoryAt(t, G[d][k]) = DirectoryAt(s, G[d][k])
      BY <3>1 DEF SameEntries, DirectoryAt
    <3> HIDE DEF g
    <3>6. \A k \in 1..Kept(g) : k \in 1..Len(G[d])
      <4>1. g.left \in Nat /\ Kept(g) + g.left = Len(G[d])
            /\ Sequential(g.primaries)
        BY <3>3 DEF FrameOK
      <4>2. Kept(g) \in Nat BY <4>1, SequentialFacts DEF Kept
      <4> QED BY <4>1, <4>2
    <3>7. FrameOK(t, g, G2) BY <3>3, <3>4, <3>5, <3>6 DEF FrameOK
    <3> QED BY <3>2, <3>3, <3>4, <3>7 DEF g
  <2> QED BY <2>1, <2>2
<1>8. Len(new) >= 1 => new[1].directory = -1
  BY <1>1, <1>2, <1>5, <1>6
<1>9. ASSUME NEW i \in 1..(Len(new) - 1)
      PROVE  /\ new[i].done >= 1
             /\ new[i + 1].directory = new[i].primaries[new[i].done]
  <2>1. i \in 1..(n - 1) /\ i \in 1..n /\ i + 1 \in 1..n /\ i # n
    BY <1>2, <1>5
  <2> QED BY <2>1, <1>1, <1>5, <1>6
<1>10. FramesOK(t, new, G2, dep2)
  BY <1>5, <1>7, <1>8, <1>9 DEF FramesOK
<1>11. Framed(new) = Framed(fs) BY <1>5, <1>6 DEF Framed, n
<1>12. new # <<>>
  <2> SUFFICES ASSUME new = <<>> PROVE FALSE OBVIOUS
  <2> QED BY <1>2, <1>5
<1> QED BY <1>10, <1>11, <1>12 DEF IsFramed, new, n

LEMMA FrameFacts ==
  ASSUME NEW s, NEW f, NEW G, FrameOK(s, f, G)
  PROVE  /\ Kept(f) \in Nat /\ Len(G[f.directory]) \in Nat
         /\ DOMAIN f.primaries = 1..Kept(f)
         /\ \A k \in 1..Kept(f) : k \in 1..Len(G[f.directory])
         /\ f.left > 0 => Kept(f) + 1 \in 1..Len(G[f.directory])
<1>1. /\ Sequential(f.primaries) /\ f.left \in Nat
      /\ Kept(f) + f.left = Len(G[f.directory])
  BY DEF FrameOK
<1>2. Kept(f) \in Nat /\ DOMAIN f.primaries = 1..Kept(f)
  BY <1>1, SequentialFacts DEF Kept
<1> QED BY <1>1, <1>2

LEMMA NewFrameOK ==
  ASSUME NEW s, NEW G, NEW d \in DOMAIN G, Len(G[d]) \in Nat,
         G[d] = <<>> <=> Len(G[d]) = 0
  PROVE  /\ FrameOK(s, NewFrame(d, ChainOf(G[d])), G)
         /\ NewFrame(d, ChainOf(G[d])).directory = d
         /\ NewFrame(d, ChainOf(G[d])).done = 0
<1> DEFINE f == NewFrame(d, ChainOf(G[d]))
<1>1. /\ f.directory = d /\ f.chain = ChainOf(G[d])
      /\ f.current = FirstOf(G[d]) /\ f.left = Len(G[d])
      /\ f.previous = -1 /\ f.primaries = <<>> /\ f.done = 0
      /\ IsChainFrame(f)
  BY DEF NewFrame, ChainOf, IsChainFrame
<1>2. Kept(f) = 0 BY <1>1 DEF Kept
<1>3. Sequential(f.primaries)
  <2>1. <<>> \in Seq({}) OBVIOUS
  <2> QED BY <2>1, <1>1 DEF Sequential
<1> HIDE DEF f
<1>4. f.current = IF f.left = 0 THEN -1 ELSE G[d][Kept(f) + 1]
  BY <1>1, <1>2 DEF FirstOf
<1>5. FrameOK(s, f, G) BY <1>1, <1>2, <1>3, <1>4 DEF FrameOK
<1> QED BY <1>1, <1>5 DEF f

(***************************************************************************)
(* Normalising: which directories have their own file uid by now.          *)
(***************************************************************************)
Entered(s, d) == Header(s, d).file_uid # 0

ChildrenEntered(s, G, d) ==
  \A k \in 1..Len(G[d]) : Entered(s, DirectoryAt(s, G[d][k]))

NoChildEntered(s, G, d) ==
  \A k \in 1..Len(G[d]) : ~Entered(s, DirectoryAt(s, G[d][k]))

DoneEntered(s, f, G) ==
  \A k \in 1..Len(G[f.directory]) :
    Entered(s, DirectoryAt(s, G[f.directory][k])) <=> k <= f.done

(* Along the frames the children are entered one after the other; under a  *)
(* directory not entered nothing is, under one that has been left all are. *)
EnteredOK(s, fs, G) ==
  /\ \A i \in 1..Len(fs) : DoneEntered(s, fs[i], G)
  /\ \A d \in DOMAIN G \ {-1} : ~Entered(s, d) => NoChildEntered(s, G, d)
  /\ \A d \in DOMAIN G \ Framed(fs) :
       (d = -1 \/ Entered(s, d)) => ChildrenEntered(s, G, d)

UidsOK(s, G) ==
  /\ s.next_file_uid > Len(s.file_index)
  /\ \A k \in 1..Len(s.file_index) : RecordAt(s, k).uid = k
  /\ \A d \in DOMAIN G \ {-1} : Entered(s, d) =>
       /\ Header(s, d).file_uid \in Nat
       /\ Header(s, d).file_uid > Len(s.file_index)
       /\ Header(s, d).file_uid < s.next_file_uid
  /\ \A d, e \in DOMAIN G \ {-1} :
       Entered(s, d) /\ Entered(s, e)
         /\ Header(s, d).file_uid = Header(s, e).file_uid => d = e

(* The root of a merge: its header is in the store, and nobody's child.    *)
RootOK(s, r, F) ==
  /\ IsState(r) /\ r.selection \in Int /\ r.offset = 0 /\ r.file_uid = 0
  /\ r.files = ChainOf(F[-1])
  /\ 0 \notin DOMAIN F /\ Len(s.directories) >= 1

Normalising(s, r, fs, F, G, dep) ==
  /\ StoreOK(s) /\ Forest(s, F, G, dep, {}, Framed(fs))
  /\ FramesOK(s, fs, G, dep)
  /\ EnteredOK(s, fs, G) /\ UidsOK(s, G)
  /\ RootOK(s, r, F) /\ r.directories.first = FirstOf(G[-1])

LEMMA ForestStale ==
  ASSUME NEW s, NEW F, NEW G, NEW dep, NEW open, NEW stale,
         Forest(s, F, G, dep, open, stale), NEW more,
         \A d \in DOMAIN F : d \notin more /\ d # -1 =>
           d \notin stale \/ Header(s, d).directory_count = Len(G[d])
  PROVE  Forest(s, F, G, dep, open, more)
<1>1. Heads(s, F, G, open, stale) BY Zenon DEF Forest
<1>2. Heads(s, F, G, open, more) BY <1>1 DEF Heads
<1>3. /\ Owners(s, F, G, open)
      /\ Lists(s.file_index, F) /\ Lists(s.directory_index, G)
      /\ Covered(s.file_index, F) /\ Deep(F, dep)
      /\ Hung(s, G, dep, open) /\ Once(s, G) /\ Reached(s, G, open)
  BY Zenon DEF Forest
<1> QED BY <1>2, <1>3, Zenon DEF Forest

LEMMA ChainEntries ==
  ASSUME NEW s, StoreOK(s), NEW F, NEW G, NEW dep, NEW open, NEW stale,
         Forest(s, F, G, dep, open, stale), NEW d \in DOMAIN G
  PROVE  /\ Path(s.directory_index, G[d])
         /\ Len(G[d]) \in Nat /\ (G[d] = <<>> <=> Len(G[d]) = 0)
         /\ G[d] \in Seq(Nat)
         /\ \A k \in 1..Len(G[d]) :
              /\ G[d][k] \in Nat /\ G[d][k] + 1 \in 1..Len(s.directory_index)
              /\ s.directory_index[G[d][k] + 1].next
                   = IF k < Len(G[d]) THEN G[d][k + 1] ELSE -1
              /\ DirectoryAt(s, G[d][k]) \in DOMAIN G \ {-1}
              /\ dep[DirectoryAt(s, G[d][k])] = dep[d] + 1
         /\ \A j, k \in 1..Len(G[d]) : G[d][j] = G[d][k] => j = k
<1>1. Lists(s.directory_index, G) /\ Hung(s, G, dep, open)
  BY Zenon DEF Forest
<1>2. Linkable(s.directory_index) BY StoreLinks
<1>3. /\ Path(s.directory_index, G[d]) /\ Len(G[d]) \in Nat
      /\ G[d] \in Seq(Nat)
      /\ \A k \in 1..Len(G[d]) :
           /\ G[d][k] \in Nat /\ G[d][k] + 1 \in 1..Len(s.directory_index)
           /\ s.directory_index[G[d][k] + 1].next
                = IF k < Len(G[d]) THEN G[d][k + 1] ELSE -1
  BY <1>1, <1>2, ListEntry
<1>4. G[d] = <<>> <=> Len(G[d]) = 0 BY <1>3, EmptySeq
<1>5. \A k \in 1..Len(G[d]) :
        /\ DirectoryAt(s, G[d][k]) \in DOMAIN G \ {-1}
        /\ dep[DirectoryAt(s, G[d][k])] = dep[d] + 1
  BY <1>1 DEF Hung
<1>6. \A j, k \in 1..Len(G[d]) : G[d][j] = G[d][k] => j = k
  BY <1>1 DEF Lists
<1> QED BY <1>3, <1>4, <1>5, <1>6

(* StartNormalise.                                                         *)
LEMMA NormaliseStarts ==
  ASSUME NEW s, NEW r, NEW F, NEW G, NEW dep, Appending(s, r, F, G, dep),
         RootOK(s, r, F)
  PROVE  /\ Normalising(s, r, <<NewFrame(-1, r.directories)>>, F, G, dep)
         /\ Readable(s.file_index, r.files.first, r.files.count)
<1> DEFINE f == NewFrame(-1, ChainOf(G[-1]))  fs == <<f>>
<1>1. /\ StoreOK(s) /\ Numbered(s) /\ Forest(s, F, G, dep, {}, {})
      /\ Unnumbered(s, F)
      /\ r.files = ChainOf(F[-1]) /\ r.directories = ChainOf(G[-1])
  BY DEF Appending
<1>2. -1 \in DOMAIN F /\ DOMAIN G = DOMAIN F /\ dep[-1] = 0
  BY <1>1, ForestOwners
<1>3. FrameOK(s, f, G) /\ f.directory = -1 /\ f.done = 0
  <2>1. Len(G[-1]) \in Nat /\ (G[-1] = <<>> <=> Len(G[-1]) = 0)
    BY <1>1, <1>2, ChainEntries
  <2> HIDE DEF f
  <2> QED BY <2>1, <1>2, NewFrameOK DEF f
<1> HIDE DEF f
<1>4. Len(fs) = 1 /\ fs[1] = f /\ \A i \in 1..Len(fs) : i = 1 OBVIOUS
<1>5. Sequential(fs)
  <2>1. fs \in Seq({f}) OBVIOUS
  <2> QED BY <2>1 DEF Sequential
<1> HIDE DEF fs
<1>6. FramesOK(s, fs, G, dep)
  BY <1>2, <1>3, <1>4, <1>5 DEF FramesOK
<1>7. Framed(fs) = {-1} BY <1>3, <1>4 DEF Framed
<1>8. Forest(s, F, G, dep, {}, Framed(fs)) BY <1>1, ForestStale
<1>9. \A d \in DOMAIN G : NoChildEntered(s, G, d)
  <2> SUFFICES ASSUME NEW d \in DOMAIN G, NEW k \in 1..Len(G[d])
               PROVE  ~Entered(s, DirectoryAt(s, G[d][k]))
    BY DEF NoChildEntered
  <2>1. DirectoryAt(s, G[d][k]) \in DOMAIN G \ {-1}
    BY <1>1, ChainEntries
  <2> QED BY <2>1, <1>1, <1>2 DEF Unnumbered, Entered
<1>10. \A d \in DOMAIN G \ {-1} : ~Entered(s, d)
  BY <1>1, <1>2 DEF Unnumbered, Entered
<1>11. EnteredOK(s, fs, G)
  <2>1. ASSUME NEW i \in 1..Len(fs) PROVE DoneEntered(s, fs[i], G)
    <3> SUFFICES ASSUME NEW k \in 1..Len(G[-1])
                 PROVE  ~Entered(s, DirectoryAt(s, G[-1][k])) /\ ~(k <= 0)
      BY <1>3, <1>4 DEF DoneEntered
    <3> QED BY <1>2, <1>9 DEF NoChildEntered
  <2> QED BY <2>1, <1>7, <1>9, <1>10 DEF EnteredOK
<1>12. UidsOK(s, G)
  <2>1. Len(s.file_index) \in Nat BY <1>1, StoreLinks
  <2> QED BY <2>1, <1>1, <1>10 DEF UidsOK, Numbered
<1>13. Normalising(s, r, fs, F, G, dep)
  <2>1. r.directories.first = FirstOf(G[-1]) BY <1>1 DEF ChainOf
  <2> QED BY <2>1, <1>1, <1>6, <1>8, <1>11, <1>12 DEF Normalising
<1>14. Readable(s.file_index, r.files.first, r.files.count)
  <2>1. Lists(s.file_index, F) BY <1>1, Zenon DEF Forest
  <2>2. Path(s.file_index, F[-1]) BY <2>1, <1>2 DEF Lists
  <2>3. Readable(s.file_index, FirstOf(F[-1]), Len(F[-1]))
    BY <2>2, <1>1, StoreLinks, PathReads
  <2> QED BY <2>3, <1>1 DEF ChainOf
<1> QED BY <1>1, <1>13, <1>14 DEF f, fs

(* An entry is kept.                                                       *)
KeptFrame(f, next, child) ==
  [f EXCEPT !.primaries = Append(@, child), !.previous = f.current,
            !.current = next, !.left = @ - 1]

LEMMA KeepFrame ==
  ASSUME NEW s, StoreOK(s), NEW F, NEW G, NEW dep, NEW open, NEW stale,
         Forest(s, F, G, dep, open, stale),
         NEW f, FrameOK(s, f, G), f.left > 0,
         NEW e, e = s.directory_index[f.current + 1]
  PROVE  /\ FrameOK(s, KeptFrame(f, e.next, e.record_offset), G)
         /\ KeptFrame(f, e.next, e.record_offset).directory = f.directory
         /\ KeptFrame(f, e.next, e.record_offset).done = f.done
<1> DEFINE d == f.directory  c == G[d]  n == Kept(f)
           x == Append(f.primaries, e.record_offset)
           l == f.left - 1
           g == KeptFrame(f, e.next, e.record_offset)
<1>1. /\ IsChainFrame(f) /\ d \in DOMAIN G /\ f.chain = ChainOf(c)
      /\ Sequential(f.primaries)
      /\ f.left \in Nat /\ n + f.left = Len(c)
      /\ (\A k \in 1..n : f.primaries[k] = DirectoryAt(s, c[k]))
      /\ f.current = c[n + 1]
      /\ f.done \in 0..n /\ f.done = 0
  BY DEF FrameOK
<1>2. n \in Nat /\ n + 1 \in 1..Len(c) /\ Len(c) \in Nat
  BY FrameFacts
<1>3. /\ c[n + 1] \in Nat
      /\ e.next = IF n + 1 < Len(c) THEN c[n + 2] ELSE -1
      /\ e.record_offset = DirectoryAt(s, c[n + 1])
  <2>0. \A k \in 1..Len(c) :
          s.directory_index[c[k] + 1].next
            = IF k < Len(c) THEN c[k + 1] ELSE -1
    <3>1. \A y \in DOMAIN G : \A k \in 1..Len(G[y]) :
            s.directory_index[G[y][k] + 1].next
              = IF k < Len(G[y]) THEN G[y][k + 1] ELSE -1
      BY ChainEntries
    <3> QED BY <3>1, <1>1
  <2>1. s.directory_index[c[n + 1] + 1].next
          = IF n + 1 < Len(c) THEN c[(n + 1) + 1] ELSE -1
    BY <2>0, <1>2
  <2>2. (n + 1) + 1 = n + 2 BY <1>2
  <2>3. c[n + 1] \in Nat BY <1>1, <1>2, ChainEntries
  <2> QED BY <2>1, <2>2, <2>3, <1>1 DEF DirectoryAt
<1>4. g = [f EXCEPT !.primaries = x, !.previous = f.current,
                    !.current = e.next, !.left = l]
  BY DEF KeptFrame
<1>5. IsLonger(f.primaries, e.record_offset, x)
  BY <1>1, SequentialAppend
<1>6. /\ Sequential(x) /\ Len(x) = n + 1 /\ x[n + 1] = e.record_offset
      /\ \A k \in 1..n : x[k] = f.primaries[k]
  BY <1>5 DEF IsLonger, Kept
<1> HIDE DEF x, g, l
<1>7. /\ IsChainFrame(g) /\ g.directory = d /\ g.chain = f.chain
      /\ g.current = e.next /\ g.left = l /\ g.previous = f.current
      /\ g.primaries = x /\ g.done = f.done
  BY <1>1, <1>4 DEF IsChainFrame
<1>8. Kept(g) = n + 1 BY <1>6, <1>7 DEF Kept
<1>9. l \in Nat /\ (n + 1) + l = Len(c) /\ (l = 0 <=> ~(n + 1 < Len(c)))
  <2> DEFINE a == Len(c)  b == f.left
  <2>1. a \in Nat /\ b \in Nat /\ n \in Nat /\ n + b = a /\ b > 0
    BY <1>1, <1>2
  <2> HIDE DEF a, b, n
  <2>2. b - 1 \in Nat /\ (n + 1) + (b - 1) = a
        /\ (b - 1 = 0 <=> ~(n + 1 < a))
    BY <2>1
  <2> QED BY <2>2 DEF l, a, b
<1> HIDE DEF n, c
<1>10. ASSUME NEW k \in 1..(n + 1) PROVE x[k] = DirectoryAt(s, c[k])
  <2>1. CASE k = n + 1 BY <2>1, <1>3, <1>6
  <2>2. CASE k # n + 1
    <3>1. k \in 1..n BY <2>2, <1>2
    <3> QED BY <3>1, <1>1, <1>6
  <2> QED BY <2>1, <2>2
<1>11. g.current = IF g.left = 0 THEN -1 ELSE c[Kept(g) + 1]
  <2>1. Kept(g) + 1 = n + 2 BY <1>2, <1>8
  <2> QED BY <2>1, <1>3, <1>7, <1>9
<1>12. g.previous = IF Kept(g) = 0 THEN -1 ELSE c[Kept(g)]
  BY <1>1, <1>2, <1>7, <1>8
<1>13. g.done \in 0..Kept(g) /\ (g.left > 0 => g.done = 0)
  BY <1>1, <1>2, <1>7, <1>8
<1>14. FrameOK(s, g, G)
  BY <1>1, <1>7, <1>8, <1>9, <1>10, <1>6, <1>11, <1>12, <1>13
     DEF FrameOK, c
<1> QED BY <1>7, <1>14 DEF g

(* What is read through the header of a directory not being normalised.    *)
LEMMA HeadReads ==
  ASSUME NEW s, StoreOK(s), NEW F, NEW G, NEW dep, NEW stale,
         Forest(s, F, G, dep, {}, stale),
         NEW d \in DOMAIN F \ {-1}, d \notin stale
  PROVE  /\ ChainsReadable(s, d)
         /\ ReadChain(s.file_index, Header(s, d).file_index_offset,
                      Header(s, d).file_count) = ChainOf(F[d])
         /\ ReadChain(s.directory_index, Header(s, d).directory_index_offset,
                      Header(s, d).directory_count) = ChainOf(G[d])
<1>1. /\ Lists(s.file_index, F) /\ Lists(s.directory_index, G)
      /\ Heads(s, F, G, {}, stale) /\ Owners(s, F, G, {})
  BY Zenon DEF Forest
<1>2. /\ HeadOf(Header(s, d), F[d], G[d])
      /\ Header(s, d).directory_count = Len(G[d])
  BY <1>1 DEF Heads
<1>3. /\ Header(s, d).finished
      /\ Header(s, d).file_index_offset = FirstOf(F[d])
      /\ Header(s, d).file_count = Len(F[d])
      /\ Header(s, d).directory_index_offset = FirstOf(G[d])
  BY <1>2 DEF HeadOf
<1>4. d \in DOMAIN G BY <1>1 DEF Owners
<1>5. Path(s.file_index, F[d]) /\ Path(s.directory_index, G[d])
  BY <1>1, <1>4 DEF Lists
<1>6. Linkable(s.file_index) /\ Linkable(s.directory_index) BY StoreLinks
<1>7. /\ Readable(s.file_index, FirstOf(F[d]), Len(F[d]))
      /\ ReadChain(s.file_index, FirstOf(F[d]), Len(F[d])) = ChainOf(F[d])
      /\ Readable(s.directory_index, FirstOf(G[d]), Len(G[d]))
      /\ ReadChain(s.directory_index, FirstOf(G[d]), Len(G[d]))
           = ChainOf(G[d])
  BY <1>5, <1>6, PathReads
<1> QED BY <1>2, <1>3, <1>7 DEF ChainsReadable

(* Headers change, the chains do not.                                      *)
LEMMA ForestHeads ==
  ASSUME NEW s, NEW F, NEW G, NEW dep, NEW open, NEW stale,
         Forest(s, F, G, dep, open, stale), NEW t,
         t.file_index = s.file_index,
         t.directory_index = s.directory_index,
         Len(t.directories) = Len(s.directories),
         NEW more, Heads(t, F, G, open, more)
  PROVE  Forest(t, F, G, dep, open, more)
<1>1. /\ Owners(s, F, G, open)
      /\ Lists(s.file_index, F) /\ Lists(s.directory_index, G)
      /\ Covered(s.file_index, F) /\ Deep(F, dep)
      /\ Hung(s, G, dep, open) /\ Once(s, G) /\ Reached(s, G, open)
  BY Zenon DEF Forest
<1>2. \A e : DirectoryAt(t, e) = DirectoryAt(s, e) BY DEF DirectoryAt
<1>3. /\ Owners(t, F, G, open) /\ Hung(t, G, dep, open) /\ Once(t, G)
      /\ Reached(t, G, open)
  <2>1. Owners(t, F, G, open) BY <1>1 DEF Owners
  <2>2. Hung(t, G, dep, open) BY <1>1, <1>2 DEF Hung
  <2>3. Once(t, G)
    <3> SUFFICES ASSUME NEW d \in DOMAIN G, NEW e \in DOMAIN G,
                        NEW j \in 1..Len(G[d]), NEW k \in 1..Len(G[e]),
                        DirectoryAt(t, G[d][j]) = DirectoryAt(t, G[e][k])
                 PROVE  d = e /\ j = k
      BY DEF Once
    <3>1. DirectoryAt(s, G[d][j]) = DirectoryAt(s, G[e][k]) BY <1>2
    <3> QED BY <3>1, <1>1 DEF Once
  <2>4. Reached(t, G, open)
    <3> SUFFICES ASSUME NEW x \in DOMAIN G \ ({-1} \cup open)
                 PROVE  \E d \in DOMAIN G : \E k \in 1..Len(G[d]) :
                          DirectoryAt(t, G[d][k]) = x
      BY DEF Reached
    <3>1. \E d \in DOMAIN G : \E k \in 1..Len(G[d]) :
            DirectoryAt(s, G[d][k]) = x
      BY <1>1 DEF Reached
    <3> QED BY <3>1, <1>2
  <2> QED BY <2>1, <2>2, <2>3, <2>4
<1> QED BY <1>1, <1>3, Zenon DEF Forest

LEMMA TopFrame ==
  ASSUME NEW s, NEW fs, NEW G, NEW dep, FramesOK(s, fs, G, dep), fs # <<>>
  PROVE  /\ Len(fs) \in Nat /\ Len(fs) >= 1
         /\ Last(fs) = fs[Len(fs)]
         /\ FrameOK(s, Last(fs), G)
         /\ dep[Last(fs).directory] = Len(fs) - 1
         /\ \A i \in 1..Len(fs) : fs[i].directory \in DOMAIN G
         /\ \A i \in 1..Len(fs) : FrameOK(s, fs[i], G)
         /\ \A i \in 1..Len(fs) : dep[fs[i].directory] = i - 1
         /\ \A i, j \in 1..Len(fs) :
              fs[i].directory = fs[j].directory => i = j
         /\ Last(fs).directory \in Framed(fs)
         /\ (Last(fs).directory = -1 <=> Len(fs) = 1)
<1>1. /\ Sequential(fs)
      /\ (\A i \in 1..Len(fs) :
            FrameOK(s, fs[i], G) /\ dep[fs[i].directory] = i - 1)
      /\ (Len(fs) >= 1 => fs[1].directory = -1)
  BY DEF FramesOK
<1>2. IsShorter(fs, Front(fs)) /\ Last(fs) = fs[Len(fs)]
  BY <1>1, SequentialFront
<1>3. Len(fs) \in Nat /\ Len(fs) >= 1 BY <1>2 DEF IsShorter
<1>4. Len(fs) \in 1..Len(fs) BY <1>3
<1>5. \A i \in 1..Len(fs) : fs[i].directory \in DOMAIN G
  BY <1>1 DEF FrameOK
<1>6. \A i, j \in 1..Len(fs) : fs[i].directory = fs[j].directory => i = j
  BY <1>1
<1>7. Last(fs).directory \in Framed(fs) BY <1>2, <1>4 DEF Framed
<1>8. Last(fs).directory = -1 <=> Len(fs) = 1
  <2>1. 1 \in 1..Len(fs) /\ fs[1].directory = -1 BY <1>1, <1>3
  <2> QED BY <2>1, <1>2, <1>4, <1>6
<1> QED BY <1>1, <1>2, <1>3, <1>4, <1>5, <1>6, <1>7, <1>8

(* The directories being normalised have their file uids.                  *)
LEMMA FramesEntered ==
  ASSUME NEW s, NEW fs, NEW G, NEW dep, FramesOK(s, fs, G, dep),
         EnteredOK(s, fs, G), NEW i \in 2..Len(fs)
  PROVE  Entered(s, fs[i].directory)
<1>1. Sequential(fs) BY DEF FramesOK
<1>2. Len(fs) \in Nat BY <1>1, SequentialFacts
<1> DEFINE j == i - 1  f == fs[j]
<1>3. j \in 1..(Len(fs) - 1) /\ j \in 1..Len(fs) /\ j + 1 = i BY <1>2
<1> HIDE DEF j
<1>4. f.done >= 1 /\ fs[i].directory = f.primaries[f.done]
      /\ FrameOK(s, f, G)
  BY <1>3 DEF FramesOK
<1>5. DoneEntered(s, f, G) BY <1>3 DEF EnteredOK
<1> HIDE DEF f
<1>6. f.done \in 0..Kept(f) /\ Kept(f) \in Nat
      /\ \A k \in 1..Kept(f) : k \in 1..Len(G[f.directory])
  BY <1>4, FrameFacts DEF FrameOK
<1>7. f.done \in 1..Kept(f) /\ f.done <= f.done BY <1>4, <1>6
<1>8. f.primaries[f.done] = DirectoryAt(s, G[f.directory][f.done])
  BY <1>4, <1>7 DEF FrameOK
<1> QED BY <1>4, <1>5, <1>6, <1>7, <1>8 DEF DoneEntered

(* NormaliseEntry, of a name that is new here.                             *)
LEMMA EntryKept ==
  ASSUME NEW s, NEW r, NEW fs, NEW F, NEW G, NEW dep,
         Normalising(s, r, fs, F, G, dep), fs # <<>>,
         NEW f, f = Last(fs), f.left > 0,
         NEW e, e = s.directory_index[f.current + 1],
         NEW g, g = KeptFrame(f, e.next, e.record_offset)
  PROVE  /\ Normalising(s, r, [fs EXCEPT ![Len(fs)] = g], F, G, dep)
         /\ [fs EXCEPT ![Len(fs)] = g] # <<>>
<1> DEFINE new == [fs EXCEPT ![Len(fs)] = g]  n == Len(fs)
<1>1. /\ StoreOK(s) /\ Forest(s, F, G, dep, {}, Framed(fs))
      /\ FramesOK(s, fs, G, dep) /\ EnteredOK(s, fs, G) /\ UidsOK(s, G)
      /\ RootOK(s, r, F) /\ r.directories.first = FirstOf(G[-1])
  BY DEF Normalising
<1>2. /\ n \in Nat /\ n >= 1 /\ f = fs[n] /\ FrameOK(s, f, G)
      /\ \A i \in 1..n : fs[i].directory \in DOMAIN G
  BY <1>1, TopFrame
<1>3. FrameOK(s, g, G) /\ g.directory = f.directory /\ g.done = f.done
  BY <1>1, <1>2, KeepFrame
<1>4. ASSUME NEW i \in 1..(n - 1), NEW k \in 1..Len(G[fs[i].directory])
      PROVE  G[fs[i].directory][k] + 1 \in 1..Len(s.directory_index)
  <2>1. fs[i].directory \in DOMAIN G BY <1>2
  <2> QED BY <2>1, <1>1, ChainEntries
<1>5. \A i \in 1..(n - 1) : fs[i].directory \in DOMAIN G BY <1>2
<1>6. IsFramed(s, fs, G, dep, new, fs)
  <2>1. SameEntries(s, s) BY DEF SameEntries
  <2> QED BY <2>1, <1>1, <1>2, <1>3, <1>4, <1>5, FramesChange
<1>7. FramesOK(s, new, G, dep) /\ Framed(new) = Framed(fs) /\ new # <<>>
  BY <1>6 DEF IsFramed
<1>8. IsReplaced(fs, n, g, new)
  <2>1. Sequential(fs) /\ n \in 1..Len(fs) BY <1>1, <1>2 DEF FramesOK
  <2> QED BY <2>1, SequentialExcept
<1> HIDE DEF new
<1>9. ASSUME NEW i \in 1..Len(new) PROVE DoneEntered(s, new[i], G)
  <2>1. /\ Len(new) = n
        /\ new[i] = IF i = n THEN g ELSE fs[i]
    BY <1>8 DEF IsReplaced
  <2>2. DoneEntered(s, fs[i], G) BY <2>1, <1>1 DEF EnteredOK
  <2>3. new[i].directory = fs[i].directory /\ new[i].done = fs[i].done
    BY <2>1, <1>2, <1>3
  <2> QED BY <2>2, <2>3 DEF DoneEntered
<1>10. EnteredOK(s, new, G) BY <1>1, <1>7, <1>9 DEF EnteredOK
<1>11. Normalising(s, r, new, F, G, dep)
  BY <1>1, <1>7, <1>10 DEF Normalising
<1> QED BY <1>7, <1>11 DEF new

(* One header is written anew.                                             *)
Rewritten(s, c, h) == [s EXCEPT !.directories[c + 1] = h]

IsRewritten(s, c, h, t) ==
  /\ IsStore(t)
  /\ t.file_records = s.file_records
  /\ t.file_records_position = s.file_records_position
  /\ t.file_index = s.file_index /\ t.directory_index = s.directory_index
  /\ t.selection_count = s.selection_count
  /\ Sequential(t.directories) /\ Len(t.directories) = Len(s.directories)
  /\ \A k \in 1..Len(s.directories) :
       t.directories[k] = IF k = c + 1 THEN h ELSE s.directories[k]

Renumbered(s, c, u, v) ==
  [s EXCEPT !.directories[c + 1].file_uid = u, !.next_file_uid = v]

LEMMA RewrittenIs ==
  ASSUME NEW s, IsStore(s), Sequential(s.directories), NEW c, NEW h,
         c + 1 \in 1..Len(s.directories)
  PROVE  /\ IsRewritten(s, c, h, Rewritten(s, c, h))
         /\ Rewritten(s, c, h).next_file_uid = s.next_file_uid
<1> DEFINE t == Rewritten(s, c, h)  list == [s.directories EXCEPT ![c + 1] = h]
<1>1. t = [s EXCEPT !.directories = list] BY DEF Rewritten
<1>2. IsReplaced(s.directories, c + 1, h, list) BY SequentialExcept
<1> HIDE DEF t, list
<1>3. /\ IsStore(t) /\ t.file_records = s.file_records
      /\ t.file_records_position = s.file_records_position
      /\ t.file_index = s.file_index
      /\ t.directory_index = s.directory_index
      /\ t.selection_count = s.selection_count
      /\ t.next_file_uid = s.next_file_uid /\ t.directories = list
  BY <1>1 DEF IsStore
<1> QED BY <1>2, <1>3 DEF IsRewritten, IsReplaced, t

LEMMA RenumberedIs ==
  ASSUME NEW s, IsStore(s), Sequential(s.directories), NEW c, NEW u, NEW v,
         c + 1 \in 1..Len(s.directories)
  PROVE  /\ IsRewritten(s, c, [Header(s, c) EXCEPT !.file_uid = u],
                        Renumbered(s, c, u, v))
         /\ Renumbered(s, c, u, v).next_file_uid = v
<1> DEFINE h == [Header(s, c) EXCEPT !.file_uid = u]
           t == Renumbered(s, c, u, v)
           list == [s.directories EXCEPT ![c + 1] = h]
<1>1. t = [s EXCEPT !.directories = list, !.next_file_uid = v]
  BY DEF Renumbered, Header
<1>2. IsReplaced(s.directories, c + 1, h, list)
  <2> HIDE DEF h
  <2> QED BY SequentialExcept
<1> HIDE DEF t, list, h
<1>3. /\ IsStore(t) /\ t.file_records = s.file_records
      /\ t.file_records_position = s.file_records_position
      /\ t.file_index = s.file_index
      /\ t.directory_index = s.directory_index
      /\ t.selection_count = s.selection_count
      /\ t.next_file_uid = v /\ t.directories = list
  BY <1>1 DEF IsStore
<1> QED BY <1>2, <1>3 DEF IsRewritten, IsReplaced, t, h

LEMMA HeaderUid ==
  ASSUME NEW h, IsHeader(h), NEW u, NEW g, g = [h EXCEPT !.file_uid = u]
  PROVE  /\ IsHeader(g) /\ g.file_uid = u /\ g.finished = h.finished
         /\ g.file_index_offset = h.file_index_offset
         /\ g.file_count = h.file_count
         /\ g.directory_index_offset = h.directory_index_offset
         /\ g.directory_count = h.directory_count
BY DEF IsHeader

LEMMA RewrittenStore ==
  ASSUME NEW s, StoreOK(s), NEW c \in Int, NEW h, NEW t,
         IsRewritten(s, c, h, t),
         t.next_file_uid \in Nat
  PROVE  /\ StoreOK(t)
         /\ \A k : RecordAt(t, k) = RecordAt(s, k)
         /\ \A x : DirectoryAt(t, x) = DirectoryAt(s, x)
         /\ \A d \in 0..(Len(s.directories) - 1) :
              Header(t, d) = IF d = c THEN h ELSE Header(s, d)
<1>1. /\ IsStore(t)
      /\ t.file_records = s.file_records
      /\ t.file_records_position = s.file_records_position
      /\ t.file_index = s.file_index /\ t.directory_index = s.directory_index
      /\ t.selection_count = s.selection_count
      /\ Sequential(t.directories) /\ Len(t.directories) = Len(s.directories)
      /\ \A k \in 1..Len(s.directories) :
           t.directories[k] = IF k = c + 1 THEN h ELSE s.directories[k]
  BY DEF IsRewritten
<1>2. StoreOK(t) BY <1>1 DEF StoreOK, StoreForm
<1>3. ASSUME NEW d \in 0..(Len(s.directories) - 1)
      PROVE  Header(t, d) = IF d = c THEN h ELSE Header(s, d)
  <2>1. Len(s.directories) \in Nat BY StoreLinks
  <2>2. d + 1 \in 1..Len(s.directories) /\ (d + 1 = c + 1 <=> d = c)
    BY <2>1
  <2> QED BY <2>2, <1>1 DEF Header
<1> QED BY <1>1, <1>2, <1>3 DEF RecordAt, DirectoryAt

EnterFrames(fs, g) == Append([fs EXCEPT ![Len(fs)].done = @ + 1], g)

(* The directory entered next is the one that hangs after those done, and  *)
(* nowhere else.                                                           *)
NextEntered(s, fs, G, dep, c) ==
  /\ c \in DOMAIN G \ {-1} /\ c \notin Framed(fs) /\ ~Entered(s, c)
  /\ Last(fs).directory \in DOMAIN G
  /\ Last(fs).done + 1 \in 1..Len(G[Last(fs).directory])
  /\ c = DirectoryAt(s, G[Last(fs).directory][Last(fs).done + 1])
  /\ dep[c] = Len(fs)
  /\ \A d \in DOMAIN G : \A k \in 1..Len(G[d]) :
       DirectoryAt(s, G[d][k]) = c =>
         d = Last(fs).directory /\ k = Last(fs).done + 1

LEMMA NextToEnter ==
  ASSUME NEW s, NEW r, NEW fs, NEW F, NEW G, NEW dep,
         Normalising(s, r, fs, F, G, dep), fs # <<>>,
         Last(fs).done < Kept(Last(fs)),
         NEW c, c = Last(fs).primaries[Last(fs).done + 1]
  PROVE  NextEntered(s, fs, G, dep, c)
<1> DEFINE f == Last(fs)  d == f.directory  k == f.done + 1
<1>1. /\ StoreOK(s) /\ Forest(s, F, G, dep, {}, Framed(fs))
      /\ FramesOK(s, fs, G, dep) /\ EnteredOK(s, fs, G)
  BY DEF Normalising
<1>2. /\ Len(fs) \in Nat /\ Len(fs) >= 1 /\ f = fs[Len(fs)]
      /\ FrameOK(s, f, G) /\ dep[d] = Len(fs) - 1
      /\ \A i \in 1..Len(fs) : dep[fs[i].directory] = i - 1
  BY <1>1, TopFrame
<1>3. /\ d \in DOMAIN G /\ f.done \in 0..Kept(f)
      /\ \A j \in 1..Kept(f) : f.primaries[j] = DirectoryAt(s, G[d][j])
  BY <1>2 DEF FrameOK
<1>4. Kept(f) \in Nat /\ \A j \in 1..Kept(f) : j \in 1..Len(G[d])
  BY <1>2, FrameFacts
<1>5. k \in 1..Kept(f) /\ ~(k <= f.done) BY <1>3, <1>4
<1>6. c = DirectoryAt(s, G[d][k]) /\ k \in 1..Len(G[d])
  BY <1>3, <1>4, <1>5
<1>7. c \in DOMAIN G \ {-1} /\ dep[c] = dep[d] + 1
  BY <1>1, <1>3, <1>6, ChainEntries
<1>8. dep[c] = Len(fs) BY <1>2, <1>7
<1>9. c \notin Framed(fs)
  <2> SUFFICES ASSUME NEW i \in 1..Len(fs), fs[i].directory = c PROVE FALSE
    BY DEF Framed
  <2> QED BY <1>2, <1>8
<1>10. ~Entered(s, c)
  <2>1. Len(fs) \in 1..Len(fs) BY <1>2
  <2>2. DoneEntered(s, f, G) BY <2>1, <1>1, <1>2 DEF EnteredOK
  <2> QED BY <2>2, <1>5, <1>6 DEF DoneEntered
<1>11. ASSUME NEW e \in DOMAIN G, NEW j \in 1..Len(G[e]),
              DirectoryAt(s, G[e][j]) = c
       PROVE  e = d /\ j = k
  <2>1. Once(s, G) BY <1>1, Zenon DEF Forest
  <2> QED BY <2>1, <1>3, <1>6, <1>11 DEF Once
<1> QED BY <1>3, <1>6, <1>7, <1>8, <1>9, <1>10, <1>11 DEF NextEntered

HasEntered(t, fs, G, dep, c, g, new) ==
  /\ FramesOK(t, new, G, dep)
  /\ Framed(new) = Framed(fs) \cup {c}
  /\ Len(new) = Len(fs) + 1
  /\ \A i \in 1..Len(fs) :
       /\ new[i].directory = fs[i].directory
       /\ new[i].done = IF i = Len(fs) THEN fs[i].done + 1 ELSE fs[i].done
  /\ new[Len(fs) + 1] = g

LEMMA FramesEnter ==
  ASSUME NEW s, NEW fs, NEW G, NEW dep, FramesOK(s, fs, G, dep), fs # <<>>,
         NEW t, SameEntries(s, t),
         \A i \in 1..Len(fs) : \A k \in 1..Len(G[fs[i].directory]) :
           G[fs[i].directory][k] + 1 \in 1..Len(s.directory_index),
         Last(fs).done < Kept(Last(fs)), Last(fs).left = 0,
         NEW c, c = Last(fs).primaries[Last(fs).done + 1],
         dep[c] = Len(fs),
         NEW g, FrameOK(t, g, G), g.directory = c
  PROVE  HasEntered(t, fs, G, dep, c, g, EnterFrames(fs, g))
<1> DEFINE n == Len(fs)  f == Last(fs)  f2 == [f EXCEPT !.done = @ + 1]
           mid == [fs EXCEPT ![Len(fs)] = f2]
           new == EnterFrames(fs, g)
<1>1. /\ n \in Nat /\ n >= 1 /\ f = fs[n] /\ FrameOK(s, f, G)
      /\ \A i \in 1..n : fs[i].directory \in DOMAIN G
  BY TopFrame
<1>2. Sequential(fs) /\ n \in 1..Len(fs) BY <1>1 DEF FramesOK
<1>3. new = Append(mid, g) BY <1>1 DEF EnterFrames
<1>4. /\ FrameOK(s, f2, G) /\ f2.directory = f.directory
      /\ f2.done = f.done + 1 /\ f2.primaries = f.primaries
  <2> DEFINE v == f.done + 1
  <2>0. f2 = [f EXCEPT !.done = v] OBVIOUS
  <2> HIDE DEF f2, v, f
  <2>1. IsChainFrame(f) BY <1>1 DEF FrameOK
  <2>2. /\ IsChainFrame(f2) /\ f2.directory = f.directory
        /\ f2.chain = f.chain /\ f2.current = f.current
        /\ f2.left = f.left /\ f2.previous = f.previous
        /\ f2.primaries = f.primaries /\ f2.done = v
    BY <2>0, <2>1 DEF IsChainFrame
  <2>3. Kept(f2) = Kept(f) BY <2>2 DEF Kept
  <2>4. v \in 0..Kept(f2) /\ f2.left = 0
    <3>1. Kept(f) \in Nat BY <1>1, FrameFacts
    <3>2. f.done \in 0..Kept(f) BY <1>1 DEF FrameOK
    <3> QED BY <3>1, <3>2, <2>2, <2>3 DEF v, f
  <2>5. FrameOK(s, f2, G) BY <1>1, <2>2, <2>3, <2>4 DEF FrameOK
  <2> QED BY <2>2, <2>5 DEF v
<1> HIDE DEF f2
<1>5. IsReplaced(fs, n, f2, mid)
  <2> HIDE DEF n
  <2> QED BY <1>2, SequentialExcept DEF n
<1> HIDE DEF mid, new
<1>6. /\ Sequential(mid) /\ Len(mid) = n
      /\ \A i \in 1..n : mid[i] = IF i = n THEN f2 ELSE fs[i]
  BY <1>5 DEF IsReplaced
<1>7. IsLonger(mid, g, new) BY <1>3, <1>6, SequentialAppend
<1>8. /\ Sequential(new) /\ Len(new) = n + 1 /\ new[n + 1] = g
      /\ \A i \in 1..n : new[i] = IF i = n THEN f2 ELSE fs[i]
  BY <1>6, <1>7 DEF IsLonger
<1> HIDE DEF n
<1>9. \A i \in 1..n : /\ new[i].directory = fs[i].directory
                      /\ new[i].primaries = fs[i].primaries
                      /\ new[i].done = IF i = n THEN fs[i].done + 1
                                       ELSE fs[i].done
  BY <1>1, <1>4, <1>8
<1>10. ASSUME NEW h, FrameOK(s, h, G), NEW i \in 1..n,
              h.directory = fs[i].directory
       PROVE  FrameOK(t, h, G)
  <2>1. \A k \in 1..Len(G[h.directory]) :
          DirectoryAt(t, G[h.directory][k]) = DirectoryAt(s, G[h.directory][k])
    BY <1>10 DEF SameEntries, DirectoryAt, n
  <2>2. \A k \in 1..Kept(h) : k \in 1..Len(G[h.directory])
    BY <1>10, FrameFacts
  <2> QED BY <1>10, <2>1, <2>2 DEF FrameOK
<1>11. ASSUME NEW i \in 1..Len(new)
       PROVE  FrameOK(t, new[i], G) /\ dep[new[i].directory] = i - 1
  <2>1. CASE i = n + 1
    BY <2>1, <1>1, <1>8 DEF n
  <2>2. CASE i # n + 1
    <3>1. i \in 1..n BY <2>2, <1>1, <1>8
    <3>2. FrameOK(s, new[i], G)
      BY <3>1, <1>4, <1>8 DEF FramesOK, n
    <3>3. dep[fs[i].directory] = i - 1 BY <3>1 DEF FramesOK, n
    <3> QED BY <3>1, <3>2, <3>3, <1>9, <1>10
  <2> QED BY <2>1, <2>2
<1>12. new[1].directory = -1
  <2>1. 1 \in 1..n /\ fs[1].directory = -1 BY <1>1 DEF FramesOK, n
  <2> QED BY <2>1, <1>9
<1>13. ASSUME NEW i \in 1..(Len(new) - 1)
       PROVE  /\ new[i].done >= 1
              /\ new[i + 1].directory = new[i].primaries[new[i].done]
  <2>0. i \in 1..n BY <1>1, <1>8
  <2>1. CASE i = n
    <3>1. f.done \in Nat BY <1>1, FrameFacts DEF FrameOK
    <3>2. new[i].done = f.done + 1 /\ new[i].primaries = f.primaries
      BY <2>0, <2>1, <1>1, <1>9
    <3>3. new[i + 1] = g BY <2>1, <1>8
    <3> QED BY <3>1, <3>2, <3>3
  <2>2. CASE i # n
    <3>1. i \in 1..(Len(fs) - 1) /\ i + 1 \in 1..n BY <2>0, <2>2, <1>1 DEF n
    <3>2. fs[i].done >= 1 /\ fs[i + 1].directory = fs[i].primaries[fs[i].done]
      BY <3>1 DEF FramesOK
    <3> QED BY <3>1, <3>2, <2>0, <2>2, <1>9
  <2> QED BY <2>1, <2>2
<1>14. FramesOK(t, new, G, dep)
  BY <1>8, <1>11, <1>12, <1>13 DEF FramesOK
<1>15. Framed(new) = Framed(fs) \cup {c}
  <2>1. \A i \in 1..Len(new) : i = n + 1 \/ i \in 1..n BY <1>1, <1>8
  <2>2. \A i \in 1..n : i \in 1..Len(new) BY <1>1, <1>8
  <2>3. n + 1 \in 1..Len(new) /\ new[n + 1].directory = c BY <1>1, <1>8
  <2>4. \A x \in Framed(new) : x \in Framed(fs) \cup {c}
    BY <2>1, <2>3, <1>9 DEF Framed, n
  <2>5. \A x \in Framed(fs) \cup {c} : x \in Framed(new)
    BY <2>2, <2>3, <1>9 DEF Framed, n
  <2> QED BY <2>4, <2>5
<1>16. HasEntered(t, fs, G, dep, c, g, new)
  BY <1>8, <1>9, <1>14, <1>15 DEF HasEntered, n
<1> QED BY <1>16 DEF new

(* EnterDirectory: the next directory kept gets its file uid.              *)
LEMMA DirectoryEntered ==
  ASSUME NEW s, NEW r, NEW fs, NEW F, NEW G, NEW dep,
         Normalising(s, r, fs, F, G, dep), fs # <<>>,
         NEW f, f = Last(fs), f.left = 0, f.done < Kept(f),
         NEW c, c = f.primaries[f.done + 1],
         NEW t, t = Renumbered(s, c, s.next_file_uid, NextUid(s)),
         NEW g, g = NewFrame(c, ReadChain(s.directory_index,
                                  Header(s, c).directory_index_offset,
                                  Header(s, c).directory_count))
  PROVE  /\ Normalising(t, r, EnterFrames(fs, g), F, G, dep)
         /\ EnterFrames(fs, g) # <<>>
         /\ f.current = -1 /\ ChainsReadable(s, c)
<1> DEFINE n == Len(fs)  d == f.directory  new == EnterFrames(fs, g)
           u == s.next_file_uid
<1>1. /\ StoreOK(s) /\ Forest(s, F, G, dep, {}, Framed(fs))
      /\ FramesOK(s, fs, G, dep) /\ EnteredOK(s, fs, G) /\ UidsOK(s, G)
      /\ RootOK(s, r, F) /\ r.directories.first = FirstOf(G[-1])
  BY DEF Normalising
<1>2. /\ n \in Nat /\ n >= 1 /\ f = fs[n] /\ FrameOK(s, f, G)
      /\ (\A i \in 1..n : fs[i].directory \in DOMAIN G)
      /\ d \in Framed(fs) /\ (d = -1 <=> n = 1)
      /\ (\A i \in 1..n : dep[fs[i].directory] = i - 1)
      /\ \A i, j \in 1..n : fs[i].directory = fs[j].directory => i = j
  BY <1>1, TopFrame
<1>3. NextEntered(s, fs, G, dep, c) BY NextToEnter
<1>4. /\ c \in DOMAIN G \ {-1} /\ c \notin Framed(fs) /\ ~Entered(s, c)
      /\ d \in DOMAIN G /\ f.done + 1 \in 1..Len(G[d])
      /\ c = DirectoryAt(s, G[d][f.done + 1])
      /\ dep[c] = n
      /\ \A x \in DOMAIN G : \A k \in 1..Len(G[x]) :
           DirectoryAt(s, G[x][k]) = c => x = d /\ k = f.done + 1
  BY <1>3 DEF NextEntered
<1>5. /\ DOMAIN G = DOMAIN F
      /\ \A x \in DOMAIN F \ {-1} : x \in 0..(Len(s.directories) - 1)
  BY <1>1, ForestOwners
<1>6. /\ ChainsReadable(s, c)
      /\ ReadChain(s.directory_index, Header(s, c).directory_index_offset,
                   Header(s, c).directory_count) = ChainOf(G[c])
  BY <1>1, <1>4, <1>5, HeadReads
<1>7. c \in 0..(Len(s.directories) - 1) /\ Len(s.directories) \in Nat
  BY <1>1, <1>4, <1>5, StoreLinks
<1>8. /\ IsRewritten(s, c, [Header(s, c) EXCEPT !.file_uid = u], t)
      /\ t.next_file_uid = NextUid(s)
  <2>1. IsStore(s) /\ Sequential(s.directories) BY <1>1 DEF StoreOK, StoreForm
  <2>2. c + 1 \in 1..Len(s.directories) BY <1>7
  <2>3. \A x, y :
          /\ IsRewritten(s, c, [Header(s, c) EXCEPT !.file_uid = x],
                         Renumbered(s, c, x, y))
          /\ Renumbered(s, c, x, y).next_file_uid = y
    BY <2>1, <2>2, RenumberedIs
  <2> QED BY <2>3
<1>9. u \in Nat /\ NextUid(s) = u + 1 /\ u > Len(s.file_index)
      /\ Len(s.file_index) \in Nat
  BY <1>1, StoreLinks DEF StoreOK, StoreForm, NextUid, UidsOK
<1> DEFINE h == [Header(s, c) EXCEPT !.file_uid = u]
<1> HIDE DEF u
<1>10. /\ StoreOK(t)
       /\ (\A k : RecordAt(t, k) = RecordAt(s, k))
       /\ (\A x : DirectoryAt(t, x) = DirectoryAt(s, x))
       /\ \A x \in 0..(Len(s.directories) - 1) :
            Header(t, x) = IF x = c THEN h ELSE Header(s, x)
  <2>1. t.next_file_uid \in Nat /\ c \in Int BY <1>7, <1>8, <1>9
  <2> HIDE DEF h
  <2> QED BY <2>1, <1>1, <1>8, RewrittenStore DEF h
<1>11. /\ t.file_index = s.file_index /\ t.directory_index = s.directory_index
       /\ Len(t.directories) = Len(s.directories)
  BY <1>8 DEF IsRewritten
<1>12. Heads(s, F, G, {}, Framed(fs)) BY <1>1, Zenon DEF Forest
<1>13. HeadOf(Header(s, c), F[c], G[c])
       /\ Header(s, c).directory_count = Len(G[c])
  BY <1>4, <1>5, <1>12 DEF Heads
<1>14. /\ IsHeader(h) /\ h.file_uid = u
       /\ HeadOf(h, F[c], G[c]) /\ h.directory_count = Len(G[c])
  <2>1. IsHeader(Header(s, c)) BY <1>13 DEF HeadOf
  <2>2. /\ IsHeader(h) /\ h.file_uid = u
        /\ h.finished = Header(s, c).finished
        /\ h.file_index_offset = Header(s, c).file_index_offset
        /\ h.file_count = Header(s, c).file_count
        /\ h.directory_index_offset = Header(s, c).directory_index_offset
        /\ h.directory_count = Header(s, c).directory_count
    BY <2>1, HeaderUid
  <2> HIDE DEF h
  <2> QED BY <2>2, <1>13 DEF HeadOf
<1> HIDE DEF h
<1>15. /\ \A x \in DOMAIN G \ {-1} : x # c => Header(t, x) = Header(s, x)
       /\ Header(t, c) = h
  BY <1>5, <1>7, <1>10
<1>16. Forest(t, F, G, dep, {}, Framed(fs) \cup {c})
  <2>1. Heads(t, F, G, {}, Framed(fs) \cup {c})
    <3> SUFFICES ASSUME NEW x \in DOMAIN F \ {-1}
                 PROVE  /\ HeadOf(Header(t, x), F[x], G[x])
                        /\ x \notin Framed(fs) \cup {c} =>
                             Header(t, x).directory_count = Len(G[x])
      BY DEF Heads
    <3> QED BY <1>5, <1>12, <1>14, <1>15 DEF Heads
  <2> QED BY <2>1, <1>1, <1>11, ForestHeads
<1>17. FrameOK(t, g, G) /\ g.directory = c /\ g.done = 0
  <2>1. g = NewFrame(c, ChainOf(G[c])) BY <1>6
  <2>2. Len(G[c]) \in Nat /\ (G[c] = <<>> <=> Len(G[c]) = 0)
    BY <1>1, <1>4, ChainEntries
  <2> QED BY <2>1, <2>2, <1>4, NewFrameOK
<1>18. /\ FramesOK(t, new, G, dep)
       /\ Framed(new) = Framed(fs) \cup {c}
       /\ Len(new) = n + 1
       /\ (\A i \in 1..n :
             /\ new[i].directory = fs[i].directory
             /\ new[i].done = IF i = n THEN fs[i].done + 1 ELSE fs[i].done)
       /\ new[n + 1] = g
  <2>1. SameEntries(s, t) BY <1>11 DEF SameEntries
  <2>2. \A i \in 1..Len(fs) : \A k \in 1..Len(G[fs[i].directory]) :
          G[fs[i].directory][k] + 1 \in 1..Len(s.directory_index)
    <3> SUFFICES ASSUME NEW i \in 1..Len(fs), NEW k \in 1..Len(G[fs[i].directory])
                 PROVE  G[fs[i].directory][k] + 1 \in 1..Len(s.directory_index)
      OBVIOUS
    <3>1. fs[i].directory \in DOMAIN G BY <1>2
    <3> QED BY <3>1, <1>1, ChainEntries
  <2>3. /\ Last(fs).done < Kept(Last(fs)) /\ Last(fs).left = 0
        /\ c = Last(fs).primaries[Last(fs).done + 1]
        /\ dep[c] = Len(fs)
    BY <1>4
  <2>4. FramesOK(s, fs, G, dep) /\ FrameOK(t, g, G) /\ g.directory = c
    BY <1>1, <1>17
  <2> HIDE DEF new, n
  <2>5. HasEntered(t, fs, G, dep, c, g, EnterFrames(fs, g))
    BY <2>1, <2>2, <2>3, <2>4, FramesEnter, Zenon
  <2> QED BY <2>5 DEF HasEntered, new, n
<1> HIDE DEF new, n
<1>19. \A x \in DOMAIN G \ {-1} : Entered(t, x) <=> (x = c \/ Entered(s, x))
  <2>1. Entered(t, c) BY <1>9, <1>14, <1>15 DEF Entered
  <2> QED BY <2>1, <1>15 DEF Entered
<1>20. \A x \in DOMAIN G : \A k \in 1..Len(G[x]) :
         /\ DirectoryAt(t, G[x][k]) = DirectoryAt(s, G[x][k])
         /\ DirectoryAt(s, G[x][k]) \in DOMAIN G \ {-1}
  BY <1>1, <1>10, ChainEntries
<1>21. \A x \in DOMAIN G : \A k \in 1..Len(G[x]) :
         Entered(t, DirectoryAt(t, G[x][k])) <=>
           ((x = d /\ k = f.done + 1) \/ Entered(s, DirectoryAt(s, G[x][k])))
  BY <1>4, <1>19, <1>20
<1>22. EnteredOK(t, new, G)
  <2>0. n \in Nat /\ n >= 1 /\ f = fs[n] BY <1>2
  <2>1. ASSUME NEW i \in 1..Len(new) PROVE DoneEntered(t, new[i], G)
    <3>0. Len(new) = n + 1 BY <1>18
    <3>1. CASE i = n + 1
      <4>1. NoChildEntered(s, G, c) BY <1>1, <1>4 DEF EnteredOK
      <4>2. c # d BY <1>2, <1>4
      <4>3. \A k \in 1..Len(G[c]) : ~Entered(t, DirectoryAt(t, G[c][k]))
        BY <4>1, <4>2, <1>4, <1>21 DEF NoChildEntered
      <4>4. \A k \in 1..Len(G[c]) : ~(k <= 0) OBVIOUS
      <4>5. new[i].directory = c /\ new[i].done = 0 BY <3>1, <1>17, <1>18
      <4> QED BY <4>3, <4>4, <4>5 DEF DoneEntered
    <3>2. CASE i = n
      <4>1. DoneEntered(s, f, G)
        <5>1. n \in 1..Len(fs) BY <1>2 DEF n
        <5> QED BY <5>1, <1>1, <1>2 DEF EnteredOK
      <4>2. new[i].directory = d /\ new[i].done = f.done + 1
        <5>1. n \in 1..n BY <2>0
        <5>2. /\ new[n].directory = fs[n].directory
              /\ new[n].done = fs[n].done + 1
          BY <5>1, <1>18
        <5> QED BY <5>2, <2>0, <3>2
      <4>3. \A k \in 1..Len(G[d]) :
              Entered(t, DirectoryAt(t, G[d][k])) <=> (k = f.done + 1 \/ k <= f.done)
        BY <4>1, <1>4, <1>21 DEF DoneEntered
      <4>4. f.done \in Nat
        <5>1. Kept(f) \in Nat BY <1>2, FrameFacts
        <5>2. f.done \in 0..Kept(f) BY <1>2 DEF FrameOK
        <5> QED BY <5>1, <5>2
      <4>5. \A k \in 1..Len(G[d]) :
              (k = f.done + 1 \/ k <= f.done) <=> k <= f.done + 1
        BY <4>4
      <4> QED BY <4>2, <4>3, <4>5 DEF DoneEntered
    <3>3. CASE i # n /\ i # n + 1
      <4>1. i \in 1..n BY <2>0, <3>0, <3>3
      <4>2. DoneEntered(s, fs[i], G)
        <5>1. i \in 1..Len(fs) BY <4>1 DEF n
        <5> QED BY <5>1, <1>1 DEF EnteredOK
      <4>3. new[i].directory = fs[i].directory /\ new[i].done = fs[i].done
        BY <3>3, <4>1, <1>18
      <4>4. fs[i].directory # d /\ fs[i].directory \in DOMAIN G
        <5>1. n \in 1..n BY <1>2
        <5> QED BY <5>1, <3>3, <4>1, <1>2
      <4> QED BY <4>2, <4>3, <4>4, <1>21 DEF DoneEntered
    <3> QED BY <3>1, <3>2, <3>3
  <2>2. ASSUME NEW x \in DOMAIN G \ {-1}, ~Entered(t, x)
        PROVE  NoChildEntered(t, G, x)
    <3>1. x # c /\ ~Entered(s, x) BY <2>2, <1>19
    <3>2. NoChildEntered(s, G, x) BY <3>1, <1>1 DEF EnteredOK
    <3>3. x # d
      <4> SUFFICES ASSUME x = d PROVE FALSE OBVIOUS
      <4>1. n # 1 BY <1>2
      <4>2. n \in 2..Len(fs)
        <5>1. n \in Nat /\ n >= 1 BY <1>2
        <5>2. n \in 2..n BY <4>1, <5>1
        <5> QED BY <5>2 DEF n
      <4>3. Entered(s, d) BY <4>2, <1>1, <1>2, FramesEntered
      <4> QED BY <4>3, <3>1
    <3> QED BY <3>2, <3>3, <1>21 DEF NoChildEntered
  <2>3. ASSUME NEW x \in DOMAIN G \ Framed(new), x = -1 \/ Entered(t, x)
        PROVE  ChildrenEntered(t, G, x)
    <3>1. x \in DOMAIN G \ Framed(fs) /\ x # c BY <1>18
    <3>2. x = -1 \/ Entered(s, x) BY <2>3, <3>1, <1>19
    <3>3. ChildrenEntered(s, G, x) BY <3>1, <3>2, <1>1 DEF EnteredOK
    <3> QED BY <3>3, <1>21 DEF ChildrenEntered
  <2> QED BY <2>1, <2>2, <2>3 DEF EnteredOK
<1>23. UidsOK(t, G)
  <2>1. t.next_file_uid > Len(t.file_index) BY <1>8, <1>9, <1>11
  <2>2. \A k \in 1..Len(t.file_index) : RecordAt(t, k).uid = k
    BY <1>1, <1>10, <1>11 DEF UidsOK
  <2>3. ASSUME NEW x \in DOMAIN G \ {-1}, Entered(t, x)
        PROVE  /\ Header(t, x).file_uid \in Nat
               /\ Header(t, x).file_uid > Len(t.file_index)
               /\ Header(t, x).file_uid < t.next_file_uid
               /\ x = c => Header(t, x).file_uid = u
               /\ x # c => /\ Entered(s, x) /\ Header(t, x).file_uid < u
                           /\ Header(t, x) = Header(s, x)
    <3>0. /\ Len(t.file_index) = Len(s.file_index)
          /\ t.next_file_uid = u + 1
      BY <1>8, <1>9, <1>11
    <3>1. CASE x = c
      <4>1. Header(t, x).file_uid = u BY <3>1, <1>14, <1>15
      <4> QED BY <3>0, <3>1, <4>1, <1>9
    <3>2. CASE x # c
      <4>1. Entered(s, x) /\ Header(t, x) = Header(s, x)
        BY <2>3, <3>2, <1>15, <1>19
      <4>2. /\ Header(s, x).file_uid \in Nat
            /\ Header(s, x).file_uid > Len(s.file_index)
            /\ Header(s, x).file_uid < u
        BY <4>1, <1>1 DEF UidsOK, u
      <4> QED BY <3>0, <3>2, <4>1, <4>2, <1>9
    <3> QED BY <3>1, <3>2
  <2>4. ASSUME NEW x \in DOMAIN G \ {-1}, NEW y \in DOMAIN G \ {-1},
               Entered(t, x), Entered(t, y),
               Header(t, x).file_uid = Header(t, y).file_uid
        PROVE  x = y
    <3>1. CASE x = c /\ y = c BY <3>1
    <3>2. CASE x # c /\ y # c
      <4>1. Entered(s, x) /\ Entered(s, y)
            /\ Header(s, x).file_uid = Header(s, y).file_uid
        BY <3>2, <2>3, <2>4
      <4> QED BY <4>1, <1>1 DEF UidsOK
    <3>3. CASE x = c /\ y # c
      <4>1. Header(t, x).file_uid = u /\ Header(t, y).file_uid < u
        BY <3>3, <2>3, <2>4
      <4> QED BY <4>1, <2>4, <1>9
    <3>4. CASE x # c /\ y = c
      <4>1. Header(t, y).file_uid = u /\ Header(t, x).file_uid < u
        BY <3>4, <2>3, <2>4
      <4> QED BY <4>1, <2>4, <1>9
    <3> QED BY <3>1, <3>2, <3>3, <3>4
  <2> QED BY <2>1, <2>2, <2>3, <2>4 DEF UidsOK
<1>24. RootOK(t, r, F) BY <1>1, <1>11 DEF RootOK
<1>25. Normalising(t, r, new, F, G, dep)
  BY <1>1, <1>10, <1>16, <1>18, <1>22, <1>23, <1>24 DEF Normalising
<1>26. new # <<>>
  <2> SUFFICES ASSUME new = <<>> PROVE FALSE OBVIOUS
  <2> QED BY <1>2, <1>18
<1>27. f.current = -1 BY <1>2 DEF FrameOK
<1> QED BY <1>6, <1>25, <1>26, <1>27 DEF new

(* LeaveDirectory: the frame on top goes.                                  *)
HasLeft(t, fs, G, dep, new) ==
  /\ FramesOK(t, new, G, dep)
  /\ Len(new) = Len(fs) - 1
  /\ (\A i \in 1..(Len(fs) - 1) : new[i] = fs[i])
  /\ Framed(new) = Framed(fs) \ {Last(fs).directory}

LEMMA FramesLeave ==
  ASSUME NEW s, NEW fs, NEW G, NEW dep, FramesOK(s, fs, G, dep), fs # <<>>,
         NEW t, \A x : DirectoryAt(t, x) = DirectoryAt(s, x)
  PROVE  HasLeft(t, fs, G, dep, Front(fs))
<1> DEFINE n == Len(fs)
           new == Front(fs)
<1>1. Sequential(fs) BY DEF FramesOK
<1>2. IsShorter(fs, new) /\ Last(fs) = fs[n] BY <1>1, SequentialFront
<1> HIDE DEF new
<1>3. /\ Sequential(new) /\ Len(new) = n - 1 /\ n \in Nat \ {0}
      /\ \A i \in 1..(n - 1) : new[i] = fs[i]
  BY <1>2 DEF IsShorter
<1>4. /\ \A i, j \in 1..n : fs[i].directory = fs[j].directory => i = j
      /\ \A i \in 1..n : FrameOK(s, fs[i], G)
      /\ \A i \in 1..n : dep[fs[i].directory] = i - 1
  BY TopFrame
<1>5. \A i \in 1..n : FrameOK(t, fs[i], G)
  BY <1>4 DEF FrameOK
<1> HIDE DEF n
<1>6. FramesOK(t, new, G, dep)
  <2>1. \A i \in 1..(n - 1) : i \in 1..n BY <1>3
  <2>2. \A i \in 1..(n - 2) : i \in 1..(n - 1) /\ i + 1 \in 1..(n - 1)
    BY <1>3
  <2>3. \A i \in 1..Len(new) :
          FrameOK(t, new[i], G) /\ dep[new[i].directory] = i - 1
    BY <1>3, <1>4, <1>5, <2>1
  <2>4. Len(new) >= 1 => new[1].directory = -1
    <3> SUFFICES ASSUME Len(new) >= 1 PROVE new[1].directory = -1 OBVIOUS
    <3>1. 1 \in 1..(n - 1) /\ n >= 1 BY <1>3
    <3>2. fs[1].directory = -1 BY <3>1 DEF FramesOK, n
    <3> QED BY <3>1, <3>2, <1>3
  <2>5. \A i \in 1..(Len(new) - 1) :
          /\ new[i].done >= 1
          /\ new[i + 1].directory = new[i].primaries[new[i].done]
    <3> SUFFICES ASSUME NEW i \in 1..(Len(new) - 1)
                 PROVE  /\ new[i].done >= 1
                        /\ new[i + 1].directory
                             = new[i].primaries[new[i].done]
      OBVIOUS
    <3>1. i \in 1..(n - 1) /\ i + 1 \in 1..(n - 1) BY <1>3
    <3>2. /\ fs[i].done >= 1
          /\ fs[i + 1].directory = fs[i].primaries[fs[i].done]
      BY <3>1 DEF FramesOK, n
    <3> QED BY <3>1, <3>2, <1>3
  <2> QED BY <1>3, <2>3, <2>4, <2>5 DEF FramesOK
<1>7. Framed(new) = Framed(fs) \ {Last(fs).directory}
  <2>1. \A i \in 1..(n - 1) : i \in 1..n /\ i # n BY <1>3
  <2>2. \A i \in 1..n : i # n => i \in 1..(n - 1) BY <1>3
  <2>3. n \in 1..n BY <1>3
  <2>4. Framed(new) = {fs[i].directory : i \in 1..(n - 1)}
    BY <1>3 DEF Framed
  <2>5. Framed(fs) = {fs[i].directory : i \in 1..n} BY DEF Framed, n
  <2> QED BY <1>2, <1>4, <2>1, <2>2, <2>3, <2>4, <2>5
<1> QED BY <1>3, <1>6, <1>7 DEF HasLeft, n, new

LEMMA LeaveEntered ==
  ASSUME NEW s, NEW fs, NEW G, NEW dep, FramesOK(s, fs, G, dep), fs # <<>>,
         EnteredOK(s, fs, G),
         Last(fs).left = 0, Last(fs).done = Kept(Last(fs)),
         NEW new, HasLeft(s, fs, G, dep, new)
  PROVE  EnteredOK(s, new, G)
<1> DEFINE n == Len(fs)
           d == Last(fs).directory
<1>1. /\ n \in Nat /\ n >= 1 /\ Last(fs) = fs[n] /\ FrameOK(s, Last(fs), G)
      /\ d \in DOMAIN G
  <2>1. n \in Nat /\ n >= 1 /\ Last(fs) = fs[n] /\ FrameOK(s, Last(fs), G)
    BY TopFrame
  <2> QED BY <2>1 DEF FrameOK
<1>2. /\ Len(new) = n - 1 /\ \A i \in 1..(n - 1) : new[i] = fs[i]
      /\ Framed(new) = Framed(fs) \ {d}
  BY DEF HasLeft
<1>3. ChildrenEntered(s, G, d)
  <2>1. n \in 1..n BY <1>1
  <2>2. DoneEntered(s, Last(fs), G) BY <1>1, <2>1 DEF EnteredOK
  <2>3. Kept(Last(fs)) = Len(G[d])
    <3>1. Kept(Last(fs)) \in Nat /\ Len(G[d]) \in Nat BY <1>1, FrameFacts
    <3>2. Kept(Last(fs)) + Last(fs).left = Len(G[d]) BY <1>1 DEF FrameOK
    <3> QED BY <3>1, <3>2
  <2>4. \A k \in 1..Len(G[d]) : k <= Len(G[d])
    <3>1. Len(G[d]) \in Nat BY <1>1, FrameFacts
    <3> QED BY <3>1
  <2> QED BY <2>2, <2>3, <2>4 DEF DoneEntered, ChildrenEntered
<1> HIDE DEF n
<1>4. \A i \in 1..Len(new) : DoneEntered(s, new[i], G)
  <2>1. \A i \in 1..(n - 1) : i \in 1..n BY <1>1
  <2> QED BY <1>2, <2>1 DEF EnteredOK, n
<1>5. \A x \in DOMAIN G \ Framed(new) :
        x = -1 \/ Entered(s, x) => ChildrenEntered(s, G, x)
  BY <1>2, <1>3 DEF EnteredOK
<1> QED BY <1>4, <1>5 DEF EnteredOK

(* Who has a file uid does not change.                                     *)
SameUids(s, t, G) ==
  /\ \A x : DirectoryAt(t, x) = DirectoryAt(s, x)
  /\ \A k : RecordAt(t, k) = RecordAt(s, k)
  /\ Len(t.file_index) = Len(s.file_index)
  /\ t.next_file_uid = s.next_file_uid
  /\ \A d \in DOMAIN G \ {-1} : Header(t, d).file_uid = Header(s, d).file_uid
  /\ \A d \in DOMAIN G : \A k \in 1..Len(G[d]) :
       DirectoryAt(s, G[d][k]) \in DOMAIN G \ {-1}

LEMMA SameEntered ==
  ASSUME NEW s, NEW t, NEW G, SameUids(s, t, G), NEW fs,
         EnteredOK(s, fs, G), UidsOK(s, G),
         \A i \in 1..Len(fs) : fs[i].directory \in DOMAIN G
  PROVE  EnteredOK(t, fs, G) /\ UidsOK(t, G)
<1>1. \A d \in DOMAIN G \ {-1} : Entered(t, d) <=> Entered(s, d)
  BY DEF Entered, SameUids
<1>2. \A d \in DOMAIN G : \A k \in 1..Len(G[d]) :
        Entered(t, DirectoryAt(t, G[d][k]))
          <=> Entered(s, DirectoryAt(s, G[d][k]))
  BY <1>1 DEF SameUids
<1>3. EnteredOK(t, fs, G)
  <2>1. \A i \in 1..Len(fs) : DoneEntered(t, fs[i], G)
    BY <1>2 DEF EnteredOK, DoneEntered
  <2>2. \A d \in DOMAIN G \ {-1} : ~Entered(t, d) => NoChildEntered(t, G, d)
    BY <1>1, <1>2 DEF EnteredOK, NoChildEntered
  <2>3. \A d \in DOMAIN G \ Framed(fs) :
          (d = -1 \/ Entered(t, d)) => ChildrenEntered(t, G, d)
    BY <1>1, <1>2 DEF EnteredOK, ChildrenEntered
  <2> QED BY <2>1, <2>2, <2>3 DEF EnteredOK
<1>4. UidsOK(t, G)
  BY <1>1 DEF UidsOK, SameUids
<1> QED BY <1>3, <1>4

LeftHeader(h, chain, totals) ==
  [h EXCEPT !.directory_index_offset = chain.first,
            !.directory_count = chain.count,
            !.total_file_count = totals.files,
            !.total_directory_count = totals.directories]

LEMMA HeaderClosed ==
  ASSUME NEW h, IsHeader(h), NEW chain, NEW totals,
         NEW g, g = LeftHeader(h, chain, totals)
  PROVE  /\ IsHeader(g) /\ g.file_uid = h.file_uid /\ g.finished = h.finished
         /\ g.file_index_offset = h.file_index_offset
         /\ g.file_count = h.file_count
         /\ g.directory_index_offset = chain.first
         /\ g.directory_count = chain.count
<1> DEFINE a == chain.first  b == chain.count  c == totals.files
           e == totals.directories
<1>1. g = [h EXCEPT !.directory_index_offset = a, !.directory_count = b,
                    !.total_file_count = c, !.total_directory_count = e]
  BY DEF LeftHeader
<1> HIDE DEF a, b, c, e
<1>2. /\ IsHeader(g) /\ g.file_uid = h.file_uid /\ g.finished = h.finished
      /\ g.file_index_offset = h.file_index_offset
      /\ g.file_count = h.file_count
      /\ g.directory_index_offset = a
      /\ g.directory_count = b
  BY <1>1 DEF IsHeader
<1> QED BY <1>2 DEF a, b

(* The header of a directory is written when its children are done.        *)
LEMMA DirectoryLeft ==
  ASSUME NEW s, NEW r, NEW fs, NEW F, NEW G, NEW dep,
         Normalising(s, r, fs, F, G, dep), fs # <<>>,
         NEW f, f = Last(fs), f.left = 0, f.done = Kept(f),
         f.directory # -1, NEW totals,
         NEW t, t = Rewritten(s, f.directory,
                              LeftHeader(Header(s, f.directory), f.chain, totals))
  PROVE  /\ Normalising(t, r, Front(fs), F, G, dep)
         /\ Front(fs) # <<>>
<1> DEFINE d == f.directory
           h == LeftHeader(Header(s, d), f.chain, totals)
           new == Front(fs)
<1>1. /\ StoreOK(s) /\ Forest(s, F, G, dep, {}, Framed(fs))
      /\ FramesOK(s, fs, G, dep) /\ EnteredOK(s, fs, G) /\ UidsOK(s, G)
      /\ RootOK(s, r, F) /\ r.directories.first = FirstOf(G[-1])
  BY DEF Normalising
<1>2. /\ Len(fs) \in Nat /\ Len(fs) >= 1 /\ FrameOK(s, f, G)
      /\ \A i \in 1..Len(fs) : fs[i].directory \in DOMAIN G
      /\ d \in Framed(fs) /\ Len(fs) # 1
  BY <1>1, TopFrame
<1>3. d \in DOMAIN G \ {-1} /\ DOMAIN G = DOMAIN F
      /\ d \in 0..(Len(s.directories) - 1)
  <2>1. /\ DOMAIN G = DOMAIN F
        /\ \A x \in DOMAIN F \ {-1} : x \in 0..(Len(s.directories) - 1)
    BY <1>1, ForestOwners
  <2> QED BY <2>1, <1>2 DEF FrameOK
<1>4. Len(s.directories) \in Nat /\ Sequential(s.directories) /\ IsStore(s)
  BY <1>1, StoreLinks DEF StoreOK, StoreForm
<1>5. d + 1 \in 1..Len(s.directories) /\ d \in Int BY <1>3, <1>4
<1> HIDE DEF d, h
<1>6. IsRewritten(s, d, h, t) /\ t.next_file_uid = s.next_file_uid
  <2>1. t = Rewritten(s, d, h) BY DEF d, h
  <2> QED BY <2>1, <1>4, <1>5, RewrittenIs
<1>7. s.next_file_uid \in Nat BY <1>1 DEF StoreOK, StoreForm
<1>8. /\ StoreOK(t)
      /\ \A k : RecordAt(t, k) = RecordAt(s, k)
      /\ \A x : DirectoryAt(t, x) = DirectoryAt(s, x)
      /\ \A x \in 0..(Len(s.directories) - 1) :
           Header(t, x) = IF x = d THEN h ELSE Header(s, x)
  BY <1>1, <1>5, <1>6, <1>7, RewrittenStore
<1>9. /\ t.file_index = s.file_index /\ t.directory_index = s.directory_index
      /\ Len(t.directories) = Len(s.directories)
  BY <1>6 DEF IsRewritten
<1>10. /\ HeadOf(Header(s, d), F[d], G[d])
       /\ f.chain = ChainOf(G[d])
  BY <1>1, <1>2, <1>3 DEF Forest, Heads, FrameOK, d
<1>11. /\ HeadOf(h, F[d], G[d]) /\ h.directory_count = Len(G[d])
       /\ h.file_uid = Header(s, d).file_uid
  <2>1. IsHeader(Header(s, d)) BY <1>10 DEF HeadOf
  <2>2. /\ IsHeader(h) /\ h.file_uid = Header(s, d).file_uid
        /\ h.finished = Header(s, d).finished
        /\ h.file_index_offset = Header(s, d).file_index_offset
        /\ h.file_count = Header(s, d).file_count
        /\ h.directory_index_offset = f.chain.first
        /\ h.directory_count = f.chain.count
    BY <2>1, HeaderClosed DEF h
  <2>3. f.chain.first = FirstOf(G[d]) /\ f.chain.count = Len(G[d])
    BY <1>10 DEF ChainOf
  <2> QED BY <1>10, <2>2, <2>3 DEF HeadOf
<1>12. HasLeft(s, fs, G, dep, new) /\ HasLeft(t, fs, G, dep, new)
  BY <1>1, <1>8, FramesLeave
<1> HIDE DEF new
<1>13. /\ FramesOK(t, new, G, dep) /\ Len(new) = Len(fs) - 1
       /\ Framed(new) = Framed(fs) \ {d}
       /\ \A i \in 1..Len(new) : new[i].directory \in DOMAIN G
  <2>1. /\ FramesOK(t, new, G, dep) /\ Len(new) = Len(fs) - 1
        /\ Framed(new) = Framed(fs) \ {d}
    BY <1>12 DEF HasLeft, d
  <2> QED BY <2>1 DEF FramesOK, FrameOK
<1>14. Forest(t, F, G, dep, {}, Framed(new))
  <2>1. Heads(t, F, G, {}, Framed(new))
    <3> SUFFICES ASSUME NEW x \in DOMAIN F \ ({-1} \cup {})
                 PROVE  /\ HeadOf(Header(t, x), F[x], G[x])
                        /\ x \notin Framed(new) =>
                             Header(t, x).directory_count = Len(G[x])
      BY DEF Heads
    <3>1. x \in 0..(Len(s.directories) - 1) BY <1>1, ForestOwners
    <3>2. CASE x = d BY <3>1, <3>2, <1>8, <1>11
    <3>3. CASE x # d
      <4>1. Header(t, x) = Header(s, x) BY <3>1, <3>3, <1>8
      <4>2. /\ HeadOf(Header(s, x), F[x], G[x])
            /\ x \notin Framed(fs) =>
                 Header(s, x).directory_count = Len(G[x])
        BY <1>1 DEF Forest, Heads
      <4> QED BY <3>3, <4>1, <4>2, <1>13
    <3> QED BY <3>2, <3>3
  <2> QED BY <2>1, <1>1, <1>9, ForestHeads
<1>15. EnteredOK(t, new, G) /\ UidsOK(t, G)
  <2>1. EnteredOK(s, new, G) BY <1>1, <1>12, LeaveEntered
  <2>2. \A x \in DOMAIN G \ {-1} :
          Header(t, x).file_uid = Header(s, x).file_uid
    <3>1. \A x \in DOMAIN G \ {-1} : x \in 0..(Len(s.directories) - 1)
      BY <1>1, <1>3, ForestOwners
    <3>2. \A x \in 0..(Len(s.directories) - 1) :
            Header(t, x).file_uid = Header(s, x).file_uid
      <4> SUFFICES ASSUME NEW x \in 0..(Len(s.directories) - 1)
                   PROVE  Header(t, x).file_uid = Header(s, x).file_uid
        OBVIOUS
      <4>1. CASE x = d BY <4>1, <1>8, <1>11
      <4>2. CASE x # d BY <4>2, <1>8
      <4> QED BY <4>1, <4>2
    <3> QED BY <3>1, <3>2
  <2>3. \A x \in DOMAIN G : \A k \in 1..Len(G[x]) :
          DirectoryAt(s, G[x][k]) \in DOMAIN G \ {-1}
    BY <1>1, ChainEntries
  <2>4. SameUids(s, t, G)
    BY <2>2, <2>3, <1>6, <1>8, <1>9 DEF SameUids
  <2> QED BY <2>1, <2>4, <1>1, <1>13, SameEntered
<1>16. RootOK(t, r, F) BY <1>1, <1>9 DEF RootOK
<1>17. Normalising(t, r, new, F, G, dep)
  BY <1>1, <1>8, <1>13, <1>14, <1>15, <1>16 DEF Normalising
<1>18. new # <<>>
  <2> SUFFICES ASSUME new = <<>> PROVE FALSE OBVIOUS
  <2>1. Len(new) = 0 OBVIOUS
  <2> QED BY <2>1, <1>2, <1>13
<1> QED BY <1>17, <1>18 DEF new

ClosedRoot(r, chain, totals) ==
  [r EXCEPT !.directories = chain, !.total_file_count = totals.files,
            !.total_directory_count = totals.directories]

LEMMA RootClosed ==
  ASSUME NEW r, IsState(r), NEW chain, NEW totals,
         NEW g, g = ClosedRoot(r, chain, totals)
  PROVE  /\ IsState(g) /\ g.selection = r.selection /\ g.offset = r.offset
         /\ g.file_uid = r.file_uid /\ g.files = r.files
         /\ g.directories = chain
<1> DEFINE a == totals.files  b == totals.directories
<1>1. g = [r EXCEPT !.directories = chain, !.total_file_count = a,
                    !.total_directory_count = b]
  BY DEF ClosedRoot
<1> HIDE DEF a, b
<1> QED BY <1>1 DEF IsState

(* The root is left last.                                                  *)
LEMMA RootLeft ==
  ASSUME NEW s, NEW r, NEW fs, NEW F, NEW G, NEW dep,
         Normalising(s, r, fs, F, G, dep), fs # <<>>,
         NEW f, f = Last(fs), f.left = 0, f.done = Kept(f),
         f.directory = -1, NEW totals,
         NEW g, g = ClosedRoot(r, f.chain, totals)
  PROVE  /\ Normalising(s, g, Front(fs), F, G, dep)
         /\ Front(fs) = <<>> /\ g.directories = f.chain
<1> DEFINE new == Front(fs)
<1>1. /\ StoreOK(s) /\ Forest(s, F, G, dep, {}, Framed(fs))
      /\ FramesOK(s, fs, G, dep) /\ EnteredOK(s, fs, G) /\ UidsOK(s, G)
      /\ RootOK(s, r, F) /\ r.directories.first = FirstOf(G[-1])
  BY DEF Normalising
<1>2. Len(fs) = 1 /\ FrameOK(s, f, G) BY <1>1, TopFrame
<1>3. HasLeft(s, fs, G, dep, new) BY <1>1, FramesLeave
<1> HIDE DEF new
<1>4. /\ FramesOK(s, new, G, dep) /\ Len(new) = 0
      /\ Framed(new) = Framed(fs) \ {-1}
  BY <1>2, <1>3 DEF HasLeft
<1>5. new = <<>> BY <1>4 DEF FramesOK, Sequential
<1>6. EnteredOK(s, new, G) BY <1>1, <1>3, LeaveEntered
<1>7. Forest(s, F, G, dep, {}, Framed(new))
  <2>1. \A d \in DOMAIN F : d \notin Framed(new) /\ d # -1 =>
          d \notin Framed(fs) \/ Header(s, d).directory_count = Len(G[d])
    BY <1>4
  <2> QED BY <2>1, <1>1, ForestStale
<1>8. /\ IsState(g) /\ g.selection = r.selection /\ g.offset = r.offset
      /\ g.file_uid = r.file_uid /\ g.files = r.files
      /\ g.directories = f.chain
  BY <1>1, RootClosed DEF RootOK
<1>9. RootOK(s, g, F) BY <1>1, <1>8 DEF RootOK
<1>10. g.directories.first = FirstOf(G[-1])
  BY <1>2, <1>8 DEF FrameOK, ChainOf
<1>11. Normalising(s, g, new, F, G, dep)
  BY <1>1, <1>4, <1>6, <1>7, <1>9, <1>10 DEF Normalising
<1> QED BY <1>5, <1>8, <1>11 DEF new

(* merge_directory_records, and the link past the duplicate's entry.       *)
MergedHeader(h, g, files, directories) ==
  [h EXCEPT !.file_index_offset = files.first,
            !.file_count = files.count,
            !.directory_index_offset = directories.first,
            !.directory_count = directories.count,
            !.total_file_count = @ + g.total_file_count,
            !.total_directory_count = @ + g.total_directory_count]

IsMergedHeader(x, h, files, directories) ==
  /\ IsHeader(x) /\ x.file_uid = h.file_uid /\ x.finished = h.finished
  /\ x.file_index_offset = files.first /\ x.file_count = files.count
  /\ x.directory_index_offset = directories.first
  /\ x.directory_count = directories.count

LEMMA HeaderMerged ==
  ASSUME NEW h, IsHeader(h), NEW g, NEW files, NEW directories
  PROVE  IsMergedHeader(MergedHeader(h, g, files, directories), h, files,
                        directories)
<1> DEFINE a == files.first  b == files.count
           c == directories.first  e == directories.count
           v == h.total_file_count + g.total_file_count
           w == h.total_directory_count + g.total_directory_count
           x == MergedHeader(h, g, files, directories)
<1>1. x = [h EXCEPT !.file_index_offset = a, !.file_count = b,
                    !.directory_index_offset = c, !.directory_count = e,
                    !.total_file_count = v, !.total_directory_count = w]
  BY DEF MergedHeader, IsHeader
<1> HIDE DEF a, b, c, e, v, w, x
<1>2. /\ IsHeader(x) /\ x.file_uid = h.file_uid /\ x.finished = h.finished
      /\ x.file_index_offset = a /\ x.file_count = b
      /\ x.directory_index_offset = c /\ x.directory_count = e
  BY <1>1 DEF IsHeader
<1> QED BY <1>2 DEF IsMergedHeader, a, b, c, e, x

IsMergedStore(s, t, p, h, files, directories) ==
  /\ IsStore(t)
  /\ t.file_records = s.file_records
  /\ t.file_records_position = s.file_records_position
  /\ t.selection_count = s.selection_count
  /\ t.next_file_uid = s.next_file_uid
  /\ t.file_index = files /\ t.directory_index = directories
  /\ IsReplaced(s.directories, p + 1, h, t.directories)

PastEntry(t, at, next) == [t EXCEPT !.directory_index[at + 1].next = next]

LEMMA MergedIs ==
  ASSUME NEW s, IsStore(s), Sequential(s.directories),
         NEW p, p + 1 \in 1..Len(s.directories), NEW c,
         NEW pf, pf = ReadChain(s.file_index, Header(s, p).file_index_offset,
                                Header(s, p).file_count),
         NEW df, df = ReadChain(s.file_index, Header(s, c).file_index_offset,
                                Header(s, c).file_count),
         NEW pd, pd = ReadChain(s.directory_index,
                                Header(s, p).directory_index_offset,
                                Header(s, p).directory_count),
         NEW dd, dd = ReadChain(s.directory_index,
                                Header(s, c).directory_index_offset,
                                Header(s, c).directory_count),
         NEW at, NEW next
  PROVE  IsMergedStore(s, PastEntry(MergeRecords(s, p, c), at, next), p,
           MergedHeader(Header(s, p), Header(s, c), JoinChain(pf, df),
                        JoinChain(pd, dd)),
           JoinIndex(s.file_index, pf, df),
           SetNext(JoinIndex(s.directory_index, pd, dd), at + 1, next))
<1> DEFINE h == MergedHeader(Header(s, p), Header(s, c), JoinChain(pf, df),
                             JoinChain(pd, dd))
           fi == JoinIndex(s.file_index, pf, df)
           di == JoinIndex(s.directory_index, pd, dd)
           list == [s.directories EXCEPT ![p + 1] = h]
           u == MergeRecords(s, p, c)
           t == PastEntry(u, at, next)
           dj == SetNext(di, at + 1, next)
<1>1. u = [s EXCEPT !.file_index = fi, !.directory_index = di,
                    !.directories = list]
  BY DEF MergeRecords, MergedHeader
<1>2. IsReplaced(s.directories, p + 1, h, list)
  <2> HIDE DEF h
  <2> QED BY SequentialExcept
<1> HIDE DEF u, h, fi, di, list
<1>3. /\ IsStore(u) /\ u.file_records = s.file_records
      /\ u.file_records_position = s.file_records_position
      /\ u.selection_count = s.selection_count
      /\ u.next_file_uid = s.next_file_uid
      /\ u.file_index = fi /\ u.directory_index = di
      /\ u.directories = list
  BY <1>1 DEF IsStore
<1>4. t = [u EXCEPT !.directory_index = dj]
  BY <1>3 DEF PastEntry, SetNext
<1> HIDE DEF t, dj
<1>5. /\ IsStore(t) /\ t.file_records = u.file_records
      /\ t.file_records_position = u.file_records_position
      /\ t.selection_count = u.selection_count
      /\ t.next_file_uid = u.next_file_uid
      /\ t.file_index = u.file_index /\ t.directory_index = dj
      /\ t.directories = u.directories
  BY <1>3, <1>4 DEF IsStore
<1>6. IsMergedStore(s, t, p, h, fi, dj)
  BY <1>2, <1>3, <1>5 DEF IsMergedStore
<1> QED BY <1>6 DEF t, h, fi, dj, di, u

(* The links of the two indexes.                                           *)
LEMMA DuplicateLinks ==
  ASSUME NEW s, StoreOK(s), NEW F, Lists(s.file_index, F),
         NEW G, Lists(s.directory_index, G), DOMAIN F = DOMAIN G,
         NEW p \in DOMAIN G, NEW c \in DOMAIN G, NEW d \in DOMAIN G,
         p # c, d # p, d # c,
         NEW m \in 1..(Len(G[d]) - 1),
         NEW fi, fi = JoinIndex(s.file_index, ChainOf(F[p]), ChainOf(F[c])),
         NEW di, di = SetNext(JoinIndex(s.directory_index, ChainOf(G[p]),
                                        ChainOf(G[c])),
                              G[d][m] + 1,
                              s.directory_index[G[d][m + 1] + 1].next)
  PROVE  /\ fi \in Seq(FileEntries) /\ Relinked(s.file_index, fi)
         /\ Lists(fi, Joined(F, p, c))
         /\ di \in Seq(DirectoryEntries)
         /\ Len(di) = Len(s.directory_index)
         /\ \A k \in 1..Len(s.directory_index) :
              di[k].record_offset = s.directory_index[k].record_offset
         /\ Lists(di, Cut(Joined(G, p, c), d, m + 1))
<1> DEFINE list == s.directory_index
           mid == JoinIndex(list, ChainOf(G[p]), ChainOf(G[c]))
           J == Joined(G, p, c)
           next == list[G[d][m + 1] + 1].next
<1>1. list \in Seq(DirectoryEntries) /\ s.file_index \in Seq(FileEntries)
      /\ Linkable(list)
  BY StoreLinks
<1>2. IsJoined(FileEntries, s.file_index, F, p, c, fi)
  BY <1>1, FileLinks, JoinLists
<1>3. IsJoined(DirectoryEntries, list, G, p, c, mid)
  BY <1>1, DirectoryLinks, JoinLists
<1> HIDE DEF mid
<1>4. mid \in Seq(DirectoryEntries) /\ Relinked(list, mid) /\ Lists(mid, J)
  BY <1>3 DEF IsJoined
<1>5. d \in DOMAIN J /\ J[d] = G[d] BY DEF Joined
<1> HIDE DEF J
<1>6. Linkable(mid) BY <1>4, DirectoryLinks, LinkableSeq
<1>7. m + 1 \in 1..Len(G[d]) BY <1>1, ListEntry
<1>8. mid[G[d][m + 1] + 1].next = next
  <2>1. list[G[d][m + 1] + 1].next
          = IF m + 1 < Len(G[d]) THEN G[d][m + 1 + 1] ELSE -1
    <3>1. \A k \in 1..Len(G[d]) :
            list[G[d][k] + 1].next
              = IF k < Len(G[d]) THEN G[d][k + 1] ELSE -1
      <4>1. Linkable(list) /\ Lists(list, G) /\ d \in DOMAIN G BY <1>1
      <4> HIDE DEF list
      <4> QED BY <4>1, ListEntry
    <3> QED BY <3>1, <1>7
  <2>2. mid[J[d][m + 1] + 1].next
          = IF m + 1 < Len(J[d]) THEN J[d][m + 1 + 1] ELSE -1
    <3>1. \A k \in 1..Len(J[d]) :
            mid[J[d][k] + 1].next
              = IF k < Len(J[d]) THEN J[d][k + 1] ELSE -1
      <4>1. Linkable(mid) /\ Lists(mid, J) /\ d \in DOMAIN J
        BY <1>4, <1>5, <1>6
      <4> QED BY <4>1, ListEntry
    <3>2. m + 1 \in 1..Len(J[d]) BY <1>5, <1>7
    <3> QED BY <3>1, <3>2
  <2> QED BY <2>1, <2>2, <1>5
<1>9. IsUnlinked(DirectoryEntries, mid, J, d, m + 1, di)
  <2>1. IsUnlinked(DirectoryEntries, mid, J, d, m + 1,
                   SetNext(mid, J[d][m] + 1, mid[J[d][m + 1] + 1].next))
    BY <1>4, <1>5, DirectoryLinks, UnlinkLists
  <2>2. di = SetNext(mid, J[d][m] + 1, mid[J[d][m + 1] + 1].next)
    BY <1>5, <1>8 DEF mid
  <2> QED BY <2>1, <2>2
<1>10. /\ di \in Seq(DirectoryEntries) /\ Relinked(mid, di)
       /\ Lists(di, Cut(J, d, m + 1))
  BY <1>9 DEF IsUnlinked
<1>11. /\ Len(mid) = Len(list)
       /\ \A k \in 1..Len(list) : mid[k].record_offset = list[k].record_offset
  BY <1>1, <1>4, RelinkedDirectories
<1>12. /\ Len(di) = Len(mid)
       /\ \A k \in 1..Len(mid) : di[k].record_offset = mid[k].record_offset
  BY <1>4, <1>10, RelinkedDirectories
<1> QED BY <1>2, <1>10, <1>11, <1>12 DEF IsJoined, J

(* A duplicate whose entry is in the chain of d, and the directory of the  *)
(* same name before it that it is merged into.                             *)
IsDuplicate(s, G, dep, stale, d, p, c, m) ==
  /\ d \in DOMAIN G /\ p \in DOMAIN G \ {-1} /\ c \in DOMAIN G \ {-1}
  /\ p # c /\ p # d /\ c # d
  /\ p \notin stale /\ c \notin stale /\ (d = -1 \/ d \in stale)
  /\ dep[p] = dep[c]
  /\ m \in 1..(Len(G[d]) - 1)
  /\ c = DirectoryAt(s, G[d][m + 1])

(* The forest without it.                                                  *)
IsForestWithout(s, t, F, G, dep, p, c, d, m) ==
  /\ StoreOK(t)
  /\ Lists(t.file_index, Joined(F, p, c))
  /\ Lists(t.directory_index, Cut(Joined(G, p, c), d, m + 1))
  /\ Len(t.file_index) = Len(s.file_index)
  /\ \A k \in 1..Len(s.file_index) : RecordAt(t, k) = RecordAt(s, k)
  /\ SameEntries(s, t)
  /\ t.next_file_uid = s.next_file_uid
  /\ Len(t.directories) = Len(s.directories)
  /\ \A x \in 0..(Len(s.directories) - 1) :
       /\ x # p => Header(t, x) = Header(s, x)
       /\ x = p =>
            /\ HeadOf(Header(t, x), F[p] \o F[c], G[p] \o G[c])
            /\ Header(t, x).directory_count = Len(G[p] \o G[c])
            /\ Header(t, x).file_uid = Header(s, x).file_uid

LEMMA DuplicateStore ==
  ASSUME NEW s, StoreOK(s), NEW F, NEW G, NEW dep, NEW stale,
         Forest(s, F, G, dep, {}, stale),
         NEW d, NEW p, NEW c, NEW m, IsDuplicate(s, G, dep, stale, d, p, c, m),
         NEW t, t = PastEntry(MergeRecords(s, p, c), G[d][m],
                              s.directory_index[G[d][m + 1] + 1].next)
  PROVE  /\ IsForestWithout(s, t, F, G, dep, p, c, d, m)
         /\ ChainsReadable(s, p) /\ ChainsReadable(s, c)
<1> DEFINE next == s.directory_index[G[d][m + 1] + 1].next
           fi == JoinIndex(s.file_index, ChainOf(F[p]), ChainOf(F[c]))
           di == SetNext(JoinIndex(s.directory_index, ChainOf(G[p]),
                                   ChainOf(G[c])),
                         G[d][m] + 1, next)
           h == MergedHeader(Header(s, p), Header(s, c),
                             JoinChain(ChainOf(F[p]), ChainOf(F[c])),
                             JoinChain(ChainOf(G[p]), ChainOf(G[c])))
<1>1. /\ d \in DOMAIN G /\ p \in DOMAIN G \ {-1} /\ c \in DOMAIN G \ {-1}
      /\ p # c /\ p # d /\ c # d
      /\ p \notin stale /\ c \notin stale
      /\ m \in 1..(Len(G[d]) - 1)
  BY DEF IsDuplicate
<1>2. /\ DOMAIN G = DOMAIN F
      /\ \A x \in DOMAIN F \ {-1} : x \in 0..(Len(s.directories) - 1)
      /\ \A x \in DOMAIN F : F[x] \in Seq(Nat) /\ G[x] \in Seq(Nat)
  BY ForestOwners
<1>3. /\ ChainsReadable(s, p) /\ ChainsReadable(s, c)
      /\ ReadChain(s.file_index, Header(s, p).file_index_offset,
                   Header(s, p).file_count) = ChainOf(F[p])
      /\ ReadChain(s.directory_index, Header(s, p).directory_index_offset,
                   Header(s, p).directory_count) = ChainOf(G[p])
      /\ ReadChain(s.file_index, Header(s, c).file_index_offset,
                   Header(s, c).file_count) = ChainOf(F[c])
      /\ ReadChain(s.directory_index, Header(s, c).directory_index_offset,
                   Header(s, c).directory_count) = ChainOf(G[c])
  <2>1. /\ p \in DOMAIN F \ {-1} /\ p \notin stale
        /\ c \in DOMAIN F \ {-1} /\ c \notin stale
    BY <1>1, <1>2
  <2>2. StoreOK(s) /\ Forest(s, F, G, dep, {}, stale) OBVIOUS
  <2> QED BY <2>1, <2>2, HeadReads
<1>4. /\ IsStore(s) /\ Sequential(s.directories)
      /\ Len(s.directories) \in Nat
      /\ Linkable(s.file_index) /\ Linkable(s.directory_index)
  BY StoreLinks DEF StoreOK, StoreForm
<1>5. p \in 0..(Len(s.directories) - 1) /\ p + 1 \in 1..Len(s.directories)
  <2>1. p \in 0..(Len(s.directories) - 1) BY <1>1, <1>2
  <2> QED BY <2>1, <1>4
<1>6. IsMergedStore(s, t, p, h, fi, di)
  <2> DEFINE pf == ReadChain(s.file_index, Header(s, p).file_index_offset,
                             Header(s, p).file_count)
             df == ReadChain(s.file_index, Header(s, c).file_index_offset,
                             Header(s, c).file_count)
             pd == ReadChain(s.directory_index,
                             Header(s, p).directory_index_offset,
                             Header(s, p).directory_count)
             dd == ReadChain(s.directory_index,
                             Header(s, c).directory_index_offset,
                             Header(s, c).directory_count)
             at == G[d][m]
  <2>1. t = PastEntry(MergeRecords(s, p, c), at, next) OBVIOUS
  <2> HIDE DEF next, at
  <2>2. IsMergedStore(s, PastEntry(MergeRecords(s, p, c), at, next), p,
           MergedHeader(Header(s, p), Header(s, c), JoinChain(pf, df),
                        JoinChain(pd, dd)),
           JoinIndex(s.file_index, pf, df),
           SetNext(JoinIndex(s.directory_index, pd, dd), at + 1, next))
    BY <1>4, <1>5, MergedIs
  <2>3. /\ pf = ChainOf(F[p]) /\ df = ChainOf(F[c])
        /\ pd = ChainOf(G[p]) /\ dd = ChainOf(G[c])
    BY <1>3
  <2> HIDE DEF pf, df, pd, dd
  <2> QED BY <2>1, <2>2, <2>3 DEF at
<1>7. /\ Lists(s.file_index, F) /\ Lists(s.directory_index, G)
      /\ Heads(s, F, G, {}, stale)
  BY DEF Forest
<1>8. /\ fi \in Seq(FileEntries) /\ Relinked(s.file_index, fi)
      /\ Lists(fi, Joined(F, p, c))
      /\ di \in Seq(DirectoryEntries)
      /\ Len(di) = Len(s.directory_index)
      /\ \A k \in 1..Len(s.directory_index) :
           di[k].record_offset = s.directory_index[k].record_offset
      /\ Lists(di, Cut(Joined(G, p, c), d, m + 1))
  BY <1>1, <1>2, <1>7, DuplicateLinks
<1>9. /\ HeadOf(h, F[p] \o F[c], G[p] \o G[c])
      /\ h.directory_count = Len(G[p] \o G[c])
      /\ h.file_uid = Header(s, p).file_uid
  <2>1. HeadOf(Header(s, p), F[p], G[p]) BY <1>1, <1>2, <1>7 DEF Heads
  <2>2. /\ JoinChain(ChainOf(F[p]), ChainOf(F[c])) = ChainOf(F[p] \o F[c])
        /\ JoinChain(ChainOf(G[p]), ChainOf(G[c])) = ChainOf(G[p] \o G[c])
    BY <1>1, <1>2, ChainJoined
  <2> DEFINE a == F[p] \o F[c]  b == G[p] \o G[c]  hp == Header(s, p)
             hc == Header(s, c)
  <2>3. h = MergedHeader(hp, hc, ChainOf(a), ChainOf(b)) BY <2>2
  <2>4. IsHeader(hp) /\ hp.finished BY <2>1 DEF HeadOf
  <2> HIDE DEF a, b, hp, h, hc
  <2>5. /\ IsHeader(h) /\ h.file_uid = hp.file_uid
        /\ h.finished = hp.finished
        /\ h.file_index_offset = ChainOf(a).first
        /\ h.file_count = ChainOf(a).count
        /\ h.directory_index_offset = ChainOf(b).first
        /\ h.directory_count = ChainOf(b).count
    <3>1. IsMergedHeader(h, hp, ChainOf(a), ChainOf(b))
      BY <2>3, <2>4, HeaderMerged
    <3> QED BY <3>1 DEF IsMergedHeader
  <2>6. HeadOf(h, a, b) /\ h.directory_count = Len(b)
    BY <2>4, <2>5 DEF HeadOf, ChainOf
  <2> QED BY <2>5, <2>6 DEF a, b, hp
<1> HIDE DEF fi, di, h, next
<1>10. /\ IsStore(t)
       /\ t.file_records = s.file_records
       /\ t.file_records_position = s.file_records_position
       /\ t.selection_count = s.selection_count
       /\ t.next_file_uid = s.next_file_uid
       /\ t.file_index = fi /\ t.directory_index = di
       /\ Sequential(t.directories)
       /\ Len(t.directories) = Len(s.directories)
       /\ \A k \in 1..Len(s.directories) :
            t.directories[k] = IF k = p + 1 THEN h ELSE s.directories[k]
  BY <1>6 DEF IsMergedStore, IsReplaced
<1>11. IsSameFiles(s, t)
  <2>1. t.selection_count \in Nat /\ t.next_file_uid \in Nat
    BY <1>10 DEF StoreOK, StoreForm
  <2> QED BY <2>1, <1>8, <1>10, StoreRelinked
<1>12. \A x \in 0..(Len(s.directories) - 1) :
         Header(t, x) = IF x = p THEN h ELSE Header(s, x)
  <2> SUFFICES ASSUME NEW x \in 0..(Len(s.directories) - 1)
               PROVE  Header(t, x) = IF x = p THEN h ELSE Header(s, x)
    OBVIOUS
  <2>1. x + 1 \in 1..Len(s.directories) /\ (x + 1 = p + 1 <=> x = p)
    BY <1>4, <1>5
  <2> QED BY <2>1, <1>10 DEF Header
<1>13. SameEntries(s, t) BY <1>8, <1>10 DEF SameEntries
<1>14. IsForestWithout(s, t, F, G, dep, p, c, d, m)
  BY <1>8, <1>9, <1>10, <1>11, <1>12, <1>13
     DEF IsForestWithout, IsSameFiles
<1> QED BY <1>3, <1>14

Kept2(dep, c) == [x \in DOMAIN dep \ {c} |-> dep[x]]

LEMMA FirstWithout ==
  ASSUME NEW s \in Seq(Nat), NEW m \in 1..(Len(s) - 1)
  PROVE  FirstOf(Without(s, m + 1)) = FirstOf(s)
<1>1. Len(s) \in Nat BY LenProperties
<1>2. m + 1 \in 1..Len(s) BY <1>1
<1> DEFINE u == Without(s, m + 1)
<1>3. /\ Len(u) = Len(s) - 1
      /\ u \in Seq(Nat)
      /\ \A k \in 1..(Len(s) - 1) : u[k] = IF k < m + 1 THEN s[k] ELSE s[k + 1]
  BY <1>2, WithoutSeq
<1> HIDE DEF u
<1>4. 1 \in 1..(Len(s) - 1) /\ 1 < m + 1 BY <1>1
<1>5. u[1] = s[1] BY <1>3, <1>4
<1>6. u # <<>> /\ s # <<>>
  <2>1. u # <<>>
    <3>1. Len(u) # 0
      <4> DEFINE n == Len(s)
      <4>1. n \in Nat /\ 1 \in 1..(n - 1) /\ Len(u) = n - 1
        BY <1>1, <1>3, <1>4
      <4> HIDE DEF n, u
      <4> QED BY <4>1
    <3> HIDE DEF u
    <3> QED BY <3>1
  <2>2. s # <<>>
    <3> SUFFICES ASSUME s = <<>> PROVE FALSE OBVIOUS
    <3> QED BY <1>1
  <2> QED BY <2>1, <2>2
<1> QED BY <1>5, <1>6 DEF FirstOf, u

LEMMA DuplicateForest ==
  ASSUME NEW s, StoreOK(s), NEW F, NEW G, NEW dep, NEW stale,
         Forest(s, F, G, dep, {}, stale),
         NEW d, NEW p, NEW c, NEW m, IsDuplicate(s, G, dep, stale, d, p, c, m),
         NEW t, IsForestWithout(s, t, F, G, dep, p, c, d, m),
         NEW T, T = Cut(Joined(G, p, c), d, m + 1)
  PROVE  /\ HasTaken(G, p, c, d, m + 1, T)
         /\ FirstOf(T[d]) = FirstOf(G[d])
         /\ Forest(t, Joined(F, p, c), T, Kept2(dep, c), {}, stale)
<1> DEFINE J == Joined(F, p, c)  deq == Kept2(dep, c)  q == m + 1
<1>1. /\ d \in DOMAIN G /\ p \in DOMAIN G \ {-1} /\ c \in DOMAIN G \ {-1}
      /\ p # c /\ p # d /\ c # d
      /\ p \notin stale /\ c \notin stale /\ (d = -1 \/ d \in stale)
      /\ dep[p] = dep[c]
      /\ m \in 1..(Len(G[d]) - 1)
      /\ c = DirectoryAt(s, G[d][q])
  BY DEF IsDuplicate
<1>2. /\ -1 \in DOMAIN F /\ DOMAIN G = DOMAIN F
      /\ DOMAIN F \subseteq {-1} \cup 0..(Len(s.directories) - 1)
      /\ \A x \in DOMAIN F \ {-1} : x \in 0..(Len(s.directories) - 1)
      /\ DOMAIN dep = DOMAIN F /\ dep[-1] = 0
      /\ \A x \in DOMAIN F : dep[x] \in Nat /\ dep[x] <= x + 1
      /\ \A x \in DOMAIN F : F[x] \in Seq(Nat) /\ G[x] \in Seq(Nat)
      /\ \A x \in DOMAIN F : Len(F[x]) \in Nat /\ Len(G[x]) \in Nat
  BY ForestOwners
<1>3. /\ Lists(t.file_index, J) /\ Lists(t.directory_index, T)
      /\ Len(t.file_index) = Len(s.file_index)
      /\ Len(t.directories) = Len(s.directories)
      /\ SameEntries(s, t)
  BY DEF IsForestWithout
<1>4. q \in 1..Len(G[d])
  <2>1. Len(G[d]) \in Nat BY <1>1, <1>2
  <2> QED BY <2>1, <1>1
<1>5. HasJoined(F, p, c, J) BY <1>1, <1>2, JoinedPlaces
<1>6. HasTaken(G, p, c, d, q, T) BY <1>1, <1>2, <1>4, TakenPlaces
<1> HIDE DEF J
<1>7. FirstOf(T[d]) = FirstOf(G[d])
  <2>1. T[d] = Without(G[d], m + 1) BY <1>6 DEF HasTaken
  <2> QED BY <2>1, <1>1, <1>2, FirstWithout
<1>8. /\ DOMAIN J = DOMAIN F \ {c} /\ DOMAIN T = DOMAIN F \ {c}
      /\ DOMAIN deq = DOMAIN F \ {c}
      /\ \A x \in DOMAIN F \ {c} : deq[x] = dep[x]
  BY <1>2, <1>5, <1>6 DEF HasJoined, HasTaken, Kept2
<1> HIDE DEF deq
<1>9. /\ Covered(s.file_index, F) /\ Hung(s, G, dep, {}) /\ Once(s, G)
      /\ Reached(s, G, {}) /\ Heads(s, F, G, {}, stale)
  BY DEF Forest
<1>10. \A x \in DOMAIN G : \A k \in 1..Len(G[x]) :
         DirectoryAt(t, G[x][k]) = DirectoryAt(s, G[x][k])
  <2>1. \A x \in DOMAIN G : \A k \in 1..Len(G[x]) :
          G[x][k] + 1 \in 1..Len(s.directory_index)
    BY ChainEntries
  <2> QED BY <2>1, <1>3 DEF SameEntries, DirectoryAt
(* Where a place of T was before.                                          *)
<1>11. ASSUME NEW x \in DOMAIN T, NEW k \in 1..Len(T[x])
       PROVE  \E y \in DOMAIN G : \E j \in 1..Len(G[y]) :
                /\ G[y][j] = T[x][k] /\ (y = x \/ (x = p /\ y = c))
                /\ (y # d \/ j # q)
                /\ DirectoryAt(t, T[x][k]) = DirectoryAt(s, G[y][j])
                /\ DirectoryAt(s, G[y][j]) # c
                /\ dep[y] = dep[x]
  <2>1. PICK y \in DOMAIN G : \E j \in 1..Len(G[y]) :
          /\ G[y][j] = T[x][k] /\ (y = x \/ (x = p /\ y = c))
          /\ (y # d \/ j # q)
    BY <1>6 DEF HasTaken
  <2>2. PICK j \in 1..Len(G[y]) :
          /\ G[y][j] = T[x][k] /\ (y = x \/ (x = p /\ y = c))
          /\ (y # d \/ j # q)
    BY <2>1
  <2>3. DirectoryAt(t, T[x][k]) = DirectoryAt(s, G[y][j]) BY <2>2, <1>10
  <2>4. DirectoryAt(s, G[y][j]) # c
    <3> SUFFICES ASSUME DirectoryAt(s, G[y][j]) = c PROVE FALSE OBVIOUS
    <3>1. DirectoryAt(s, G[y][j]) = DirectoryAt(s, G[d][q]) BY <1>1
    <3>2. y = d /\ j = q
      <4> HIDE DEF q
      <4> QED BY <3>1, <1>1, <1>4, <1>9 DEF Once
    <3> QED BY <3>2, <2>2
  <2>5. dep[y] = dep[x] BY <2>2, <1>1
  <2> QED BY <2>2, <2>3, <2>4, <2>5
<1> HIDE DEF q
<1>12. Owners(t, J, T, {})
  BY <1>1, <1>2, <1>3, <1>8 DEF Owners
<1>13. Covered(t.file_index, J)
  <2> SUFFICES ASSUME NEW x \in 0..(Len(t.file_index) - 1)
               PROVE  \E y \in DOMAIN J : \E k \in 1..Len(J[y]) : J[y][k] = x
    BY DEF Covered
  <2>1. PICK z \in DOMAIN F : \E k \in 1..Len(F[z]) : F[z][k] = x
    BY <1>3, <1>9 DEF Covered
  <2>2. PICK k \in 1..Len(F[z]) : F[z][k] = x BY <2>1
  <2>3. \E y \in DOMAIN J : \E j \in 1..Len(J[y]) :
          J[y][j] = F[z][k] /\ y = IF z = c THEN p ELSE z
    BY <1>5 DEF HasJoined
  <2> QED BY <2>2, <2>3
<1>14. Deep(J, deq)
  <2>1. deq = [x \in DOMAIN F \ {c} |-> dep[x]] BY <1>2 DEF deq, Kept2
  <2>2. deq \in [DOMAIN J -> Nat] BY <2>1, <1>2, <1>8
  <2>3. -1 \in DOMAIN F \ {c} BY <1>1, <1>2
  <2> QED BY <2>2, <2>3, <1>2, <1>8 DEF Deep
<1>15. Hung(t, T, deq, {})
  <2> SUFFICES ASSUME NEW x \in DOMAIN T, NEW k \in 1..Len(T[x])
               PROVE  /\ DirectoryAt(t, T[x][k]) \in DOMAIN T \ ({-1} \cup {})
                      /\ deq[DirectoryAt(t, T[x][k])] = deq[x] + 1
    BY DEF Hung
  <2>1. PICK y \in DOMAIN G : \E j \in 1..Len(G[y]) :
          /\ DirectoryAt(t, T[x][k]) = DirectoryAt(s, G[y][j])
          /\ DirectoryAt(s, G[y][j]) # c
          /\ dep[y] = dep[x]
    BY <1>11
  <2>2. PICK j \in 1..Len(G[y]) :
          /\ DirectoryAt(t, T[x][k]) = DirectoryAt(s, G[y][j])
          /\ DirectoryAt(s, G[y][j]) # c
          /\ dep[y] = dep[x]
    BY <2>1
  <2>3. /\ DirectoryAt(s, G[y][j]) \in DOMAIN G \ ({-1} \cup {})
        /\ dep[DirectoryAt(s, G[y][j])] = dep[y] + 1
    BY <1>9 DEF Hung
  <2> QED BY <2>2, <2>3, <1>2, <1>8
<1>16. Once(t, T)
  <2> SUFFICES ASSUME NEW x \in DOMAIN T, NEW y \in DOMAIN T,
                      NEW j \in 1..Len(T[x]), NEW k \in 1..Len(T[y]),
                      DirectoryAt(t, T[x][j]) = DirectoryAt(t, T[y][k])
               PROVE  x = y /\ j = k
    BY DEF Once
  <2>1. PICK a \in DOMAIN G : \E i \in 1..Len(G[a]) :
          /\ G[a][i] = T[x][j]
          /\ DirectoryAt(t, T[x][j]) = DirectoryAt(s, G[a][i])
    BY <1>11
  <2>2. PICK i \in 1..Len(G[a]) :
          /\ G[a][i] = T[x][j]
          /\ DirectoryAt(t, T[x][j]) = DirectoryAt(s, G[a][i])
    BY <2>1
  <2>3. PICK b \in DOMAIN G : \E l \in 1..Len(G[b]) :
          /\ G[b][l] = T[y][k]
          /\ DirectoryAt(t, T[y][k]) = DirectoryAt(s, G[b][l])
    BY <1>11
  <2>4. PICK l \in 1..Len(G[b]) :
          /\ G[b][l] = T[y][k]
          /\ DirectoryAt(t, T[y][k]) = DirectoryAt(s, G[b][l])
    BY <2>3
  <2>5. DirectoryAt(s, G[a][i]) = DirectoryAt(s, G[b][l]) BY <2>2, <2>4
  <2>6. a = b /\ i = l BY <2>5, <1>9 DEF Once
  <2>7. T[x][j] = T[y][k] BY <2>2, <2>4, <2>6
  <2> QED BY <2>7, <1>3 DEF Lists
<1>17. Reached(t, T, {})
  <2> SUFFICES ASSUME NEW x \in DOMAIN T \ ({-1} \cup {})
               PROVE  \E y \in DOMAIN T : \E k \in 1..Len(T[y]) :
                        DirectoryAt(t, T[y][k]) = x
    BY DEF Reached
  <2>1. x \in DOMAIN G \ ({-1} \cup {}) /\ x # c BY <1>2, <1>8
  <2>2. PICK a \in DOMAIN G : \E i \in 1..Len(G[a]) :
          DirectoryAt(s, G[a][i]) = x
    BY <2>1, <1>9 DEF Reached
  <2>3. PICK i \in 1..Len(G[a]) : DirectoryAt(s, G[a][i]) = x BY <2>2
  <2>4. a # d \/ i # q BY <2>1, <2>3, <1>1
  <2>5. \E y \in DOMAIN T : \E k \in 1..Len(T[y]) : T[y][k] = G[a][i]
    BY <2>4, <1>6 DEF HasTaken
  <2> QED BY <2>3, <2>5, <1>10
<1>18. Heads(t, J, T, {}, stale)
  <2> SUFFICES ASSUME NEW x \in DOMAIN J \ ({-1} \cup {})
               PROVE  /\ HeadOf(Header(t, x), J[x], T[x])
                      /\ x \notin stale =>
                           Header(t, x).directory_count = Len(T[x])
    BY DEF Heads
  <2>1. x \in DOMAIN F \ ({-1} \cup {}) /\ x # c
        /\ x \in 0..(Len(s.directories) - 1)
    BY <1>2, <1>8
  <2>2. CASE x = p
    <3>1. /\ HeadOf(Header(t, x), F[p] \o F[c], G[p] \o G[c])
          /\ Header(t, x).directory_count = Len(G[p] \o G[c])
      BY <2>1, <2>2 DEF IsForestWithout
    <3>2. J[x] = F[p] \o F[c] /\ T[x] = G[p] \o G[c]
      BY <2>2, <1>5, <1>6 DEF HasJoined, HasTaken
    <3> QED BY <3>1, <3>2
  <2>3. CASE x # p
    <3>1. /\ HeadOf(Header(s, x), F[x], G[x])
          /\ x \notin stale => Header(s, x).directory_count = Len(G[x])
      BY <2>1, <1>9 DEF Heads
    <3>2. Header(t, x) = Header(s, x) BY <2>1, <2>3 DEF IsForestWithout
    <3>3. J[x] = F[x] BY <2>1, <2>3, <1>5 DEF HasJoined
    <3>4. CASE x = d
      <4>1. FirstOf(T[x]) = FirstOf(G[x]) /\ x \in stale
        BY <3>4, <2>1, <1>1, <1>7
      <4> QED BY <4>1, <3>1, <3>2, <3>3 DEF HeadOf
    <3>5. CASE x # d
      <4>1. T[x] = G[x] BY <3>5, <2>1, <2>3, <1>2, <1>6 DEF HasTaken
      <4> QED BY <4>1, <3>1, <3>2, <3>3
    <3> QED BY <3>4, <3>5
  <2> QED BY <2>2, <2>3
<1>19. Forest(t, J, T, deq, {}, stale)
  BY <1>3, <1>12, <1>13, <1>14, <1>15, <1>16, <1>17, <1>18, Zenon DEF Forest
<1> QED BY <1>6, <1>7, <1>19 DEF J, deq, q

(* What NormaliseEntry finds under a name it has kept before.              *)
Found2(s, fs, G, dep, f, p, c) ==
  /\ IsDuplicate(s, G, dep, Framed(fs), f.directory, p, c, Kept(f))
  /\ ~Entered(s, p) /\ ~Entered(s, c)
  /\ dep[c] = Len(fs)
  /\ NoChildEntered(s, G, f.directory)
  /\ f.previous = G[f.directory][Kept(f)] /\ f.previous >= 0
  /\ f.current = G[f.directory][Kept(f) + 1]
  /\ f.done = 0

LEMMA DuplicateFound ==
  ASSUME NEW s, NEW r, NEW fs, NEW F, NEW G, NEW dep,
         Normalising(s, r, fs, F, G, dep), fs # <<>>,
         NEW f, f = Last(fs), f.left > 0,
         NEW c, c = DirectoryAt(s, f.current),
         NEW i \in 1..Kept(f), NEW p, p = f.primaries[i]
  PROVE  Found2(s, fs, G, dep, f, p, c)
<1> DEFINE d == f.directory  m == Kept(f)
<1>1. /\ StoreOK(s) /\ Forest(s, F, G, dep, {}, Framed(fs))
      /\ FramesOK(s, fs, G, dep) /\ EnteredOK(s, fs, G)
  BY DEF Normalising
<1>2. /\ Len(fs) \in Nat /\ Len(fs) >= 1 /\ f = fs[Len(fs)]
      /\ FrameOK(s, f, G) /\ dep[d] = Len(fs) - 1
      /\ d \in Framed(fs)
      /\ \A k \in 1..Len(fs) : dep[fs[k].directory] = k - 1
  BY <1>1, TopFrame
<1>3. /\ d \in DOMAIN G
      /\ f.left \in Nat /\ m + f.left = Len(G[d])
      /\ \A k \in 1..m : f.primaries[k] = DirectoryAt(s, G[d][k])
      /\ f.previous = IF m = 0 THEN -1 ELSE G[d][m]
      /\ f.current = IF f.left = 0 THEN -1 ELSE G[d][m + 1]
      /\ f.done = 0
  BY <1>2 DEF FrameOK
<1>4. m \in Nat /\ Len(G[d]) \in Nat /\ m + 1 \in 1..Len(G[d])
  BY <1>2, FrameFacts
<1> HIDE DEF m
<1>5. i \in 1..m /\ m # 0 /\ f.left # 0 BY <1>3, <1>4 DEF m
<1>6. i \in 1..Len(G[d]) /\ m \in 1..(Len(G[d]) - 1) /\ m \in 1..Len(G[d])
      /\ i # m + 1
  BY <1>4, <1>5
<1>7. f.previous = G[d][m] /\ f.current = G[d][m + 1] BY <1>3, <1>5
<1>8. p = DirectoryAt(s, G[d][i]) /\ c = DirectoryAt(s, G[d][m + 1])
  BY <1>3, <1>5, <1>7
<1>9. /\ p \in DOMAIN G \ {-1} /\ c \in DOMAIN G \ {-1}
      /\ dep[p] = dep[d] + 1 /\ dep[c] = dep[d] + 1
      /\ G[d][m] \in Nat
  <2>1. \A k \in 1..Len(G[d]) :
          /\ DirectoryAt(s, G[d][k]) \in DOMAIN G \ {-1}
          /\ dep[DirectoryAt(s, G[d][k])] = dep[d] + 1
          /\ G[d][k] \in Nat
    BY <1>1, <1>3, ChainEntries
  <2> QED BY <2>1, <1>4, <1>6, <1>8
<1>10. p # c
  <2>1. Once(s, G) BY <1>1 DEF Forest
  <2> SUFFICES ASSUME p = c PROVE FALSE OBVIOUS
  <2> DEFINE z == m + 1
  <2>2. /\ DirectoryAt(s, G[d][i]) = DirectoryAt(s, G[d][z])
        /\ i \in 1..Len(G[d]) /\ z \in 1..Len(G[d]) /\ i # z
    BY <1>4, <1>6, <1>8
  <2> HIDE DEF d, z
  <2> QED BY <2>1, <2>2, <1>3 DEF Once
<1>11. dep[p] = Len(fs) /\ dep[c] = Len(fs) BY <1>2, <1>9
<1>12. ASSUME NEW x, dep[x] = Len(fs) PROVE x \notin Framed(fs)
  <2> SUFFICES ASSUME x \in Framed(fs) PROVE FALSE OBVIOUS
  <2>1. PICK k \in 1..Len(fs) : x = fs[k].directory BY DEF Framed
  <2>2. dep[x] = k - 1 BY <2>1, <1>2
  <2> QED BY <2>2, <1>2, <1>12
<1>13. p \notin Framed(fs) /\ c \notin Framed(fs) /\ p # d /\ c # d
  BY <1>2, <1>11, <1>12
<1>14. IsDuplicate(s, G, dep, Framed(fs), d, p, c, m)
  BY <1>2, <1>3, <1>6, <1>8, <1>9, <1>10, <1>11, <1>13 DEF IsDuplicate
<1>15. NoChildEntered(s, G, d)
  <2>1. DoneEntered(s, f, G)
    <3>1. Len(fs) \in 1..Len(fs) BY <1>2
    <3> QED BY <3>1, <1>1, <1>2 DEF EnteredOK
  <2>2. \A k \in 1..Len(G[d]) : ~(k <= 0) OBVIOUS
  <2> QED BY <2>1, <2>2, <1>3 DEF DoneEntered, NoChildEntered
<1>16. ~Entered(s, p) /\ ~Entered(s, c)
  BY <1>4, <1>6, <1>8, <1>15 DEF NoChildEntered
<1> QED BY <1>3, <1>7, <1>9, <1>11, <1>14, <1>15, <1>16 DEF Found2, m

(* The frame past the duplicate.                                           *)
PastFrame(f, next) ==
  [f EXCEPT !.chain = Unlinked(f, next), !.current = next, !.left = @ - 1]

LEMMA PastFrameOK ==
  ASSUME NEW s, StoreOK(s), NEW F, NEW G, NEW dep, NEW open, NEW stale,
         Forest(s, F, G, dep, open, stale),
         NEW f, FrameOK(s, f, G), f.left > 0, Kept(f) # 0,
         NEW next, next = s.directory_index[f.current + 1].next,
         NEW t, SameEntries(s, t),
         NEW T, f.directory \in DOMAIN T,
         T[f.directory] = Without(G[f.directory], Kept(f) + 1),
         NEW g, g = PastFrame(f, next)
  PROVE  /\ FrameOK(t, g, T)
         /\ g.directory = f.directory /\ g.done = 0
<1> DEFINE d == f.directory  a == G[d]  m == Kept(f)  n == Len(a)
           u == Unlinked(f, next)  l == f.left - 1  b == T[d]
<1>1. /\ IsChainFrame(f) /\ d \in DOMAIN G /\ f.chain = ChainOf(a)
      /\ Sequential(f.primaries)
      /\ f.left \in Nat /\ m + f.left = n
      /\ (\A k \in 1..m : f.primaries[k] = DirectoryAt(s, a[k]))
      /\ f.previous = a[m] /\ f.current = a[m + 1]
      /\ f.done = 0
  BY DEF FrameOK
<1>2. m \in Nat /\ m # 0 /\ m + 1 \in 1..n /\ n \in Nat
  BY FrameFacts
<1>3. /\ a \in Seq(Nat)
      /\ \A k \in 1..n : a[k] \in Nat
      /\ \A k \in 1..n : a[k] + 1 \in 1..Len(s.directory_index)
      /\ \A j, k \in 1..n : a[j] = a[k] => j = k
  <2>1. \A x \in DOMAIN G :
          /\ G[x] \in Seq(Nat)
          /\ \A k \in 1..Len(G[x]) :
               G[x][k] \in Nat /\ G[x][k] + 1 \in 1..Len(s.directory_index)
          /\ \A j, k \in 1..Len(G[x]) : G[x][j] = G[x][k] => j = k
    BY ChainEntries
  <2> QED BY <2>1, <1>1
<1>4. next = IF m + 1 < n THEN a[m + 2] ELSE -1
  <2>1. \A k \in 1..n : s.directory_index[a[k] + 1].next
                          = IF k < n THEN a[k + 1] ELSE -1
    <3>1. \A y \in DOMAIN G : \A k \in 1..Len(G[y]) :
            s.directory_index[G[y][k] + 1].next
              = IF k < Len(G[y]) THEN G[y][k + 1] ELSE -1
      BY ChainEntries
    <3> QED BY <3>1, <1>1
  <2>2. s.directory_index[a[m + 1] + 1].next
          = IF m + 1 < n THEN a[(m + 1) + 1] ELSE -1
    BY <2>1, <1>2
  <2>3. (m + 1) + 1 = m + 2 BY <1>2
  <2> QED BY <2>2, <2>3, <1>1
<1>5. m \in 1..(n - 1) /\ m \in 1..n BY <1>2
<1>6. /\ Len(b) = n - 1
      /\ \A k \in 1..(n - 1) : b[k] = IF k < m + 1 THEN a[k] ELSE a[k + 1]
  <2>1. b = Without(a, m + 1) OBVIOUS
  <2>2. a \in Seq(Nat) /\ m + 1 \in 1..Len(a) BY <1>2, <1>3
  <2> HIDE DEF a, b, m
  <2> QED BY <2>1, <2>2, WithoutSeq
<1>7. u = ChainOf(b)
  <2>1. ChainOf(b) =
          [first |-> FirstOf(a),
           last |-> IF a[m + 1] = LastOf(a) THEN a[m] ELSE LastOf(a),
           count |-> n - 1]
    BY <1>3, <1>5, ChainWithout
  <2>2. f.previous >= 0 BY <1>1, <1>3, <1>5
  <2>3. u = [first |-> f.chain.first,
             last |-> IF f.current = f.chain.last THEN f.previous
                      ELSE f.chain.last,
             count |-> f.chain.count - 1]
    BY <2>2 DEF Unlinked
  <2>4. /\ f.chain.first = FirstOf(a) /\ f.chain.last = LastOf(a)
        /\ f.chain.count = n
    BY <1>1 DEF ChainOf
  <2> QED BY <2>1, <2>3, <2>4, <1>1
<1>8. g = [f EXCEPT !.chain = u, !.current = next, !.left = l]
  BY DEF PastFrame
<1>9. l \in Nat /\ m + l = n - 1 /\ (l = 0 <=> ~(m + 1 < n))
  <2> DEFINE x == f.left
  <2>1. x \in Nat /\ n \in Nat /\ m \in Nat /\ m + x = n /\ x > 0
    BY <1>1, <1>2
  <2> HIDE DEF x, m, n
  <2>2. x - 1 \in Nat /\ m + (x - 1) = n - 1 /\ (x - 1 = 0 <=> ~(m + 1 < n))
    BY <2>1
  <2> QED BY <2>2 DEF l, x
<1> HIDE DEF u, l
<1>10. /\ IsChainFrame(g) /\ g.directory = d /\ g.chain = u
       /\ g.current = next /\ g.left = l /\ g.previous = f.previous
       /\ g.primaries = f.primaries /\ g.done = f.done
  BY <1>1, <1>8 DEF IsChainFrame
<1>11. Kept(g) = m BY <1>10 DEF Kept
<1> HIDE DEF m, n
<1>12. \A k \in 1..m : b[k] = a[k]
  <2>1. \A k \in 1..m : k \in 1..(n - 1) /\ k < m + 1 BY <1>2, <1>5
  <2> QED BY <2>1, <1>6
<1>13. \A k \in 1..m : g.primaries[k] = DirectoryAt(t, b[k])
  <2>1. \A k \in 1..m : k \in 1..n BY <1>2
  <2>2. \A k \in 1..m : DirectoryAt(t, a[k]) = DirectoryAt(s, a[k])
    BY <2>1, <1>3 DEF SameEntries, DirectoryAt
  <2> QED BY <2>2, <1>1, <1>10, <1>12
<1>14. g.previous = b[m]
  <2>1. m \in 1..m BY <1>2
  <2> QED BY <2>1, <1>1, <1>10, <1>12
<1>15. l # 0 => next = b[m + 1]
  <2> SUFFICES ASSUME l # 0 PROVE next = b[m + 1] OBVIOUS
  <2>1. m + 1 < n /\ m + 1 \in 1..(n - 1) /\ ~(m + 1 < m + 1)
        /\ (m + 1) + 1 = m + 2
    BY <1>2, <1>9
  <2>2. b[m + 1] = a[m + 2] BY <2>1, <1>6
  <2> QED BY <2>1, <2>2, <1>4
<1>16. l = 0 => next = -1 BY <1>4, <1>9
<1>17. g.done \in 0..Kept(g) /\ (g.left > 0 => g.done = 0)
  <2>1. g.done = 0 BY <1>1, <1>10
  <2>2. 0 \in 0..m BY <1>2
  <2> QED BY <2>1, <2>2, <1>11
<1>18. FrameOK(t, g, T)
  <2>1. T[g.directory] = b /\ g.directory \in DOMAIN T BY <1>10
  <2>2. Kept(g) + g.left = Len(b) BY <1>6, <1>9, <1>10, <1>11
  <2>3. g.left \in Nat BY <1>9, <1>10
  <2>4. g.previous = IF Kept(g) = 0 THEN -1 ELSE b[Kept(g)]
    BY <1>2, <1>11, <1>14
  <2>5. g.current = IF g.left = 0 THEN -1 ELSE b[Kept(g) + 1]
    BY <1>10, <1>11, <1>15, <1>16
  <2>6. \A k \in 1..Kept(g) : g.primaries[k] = DirectoryAt(t, b[k])
    BY <1>11, <1>13
  <2>7. g.chain = ChainOf(b) /\ Sequential(g.primaries) /\ IsChainFrame(g)
    BY <1>1, <1>7, <1>10
  <2> HIDE DEF b
  <2> QED BY <2>1, <2>2, <2>3, <2>4, <2>5, <2>6, <2>7, <1>17 DEF FrameOK
<1> QED BY <1>1, <1>10, <1>18

(* NormaliseEntry, of a duplicate.                                         *)
LEMMA DuplicateMerged ==
  ASSUME NEW s, NEW r, NEW fs, NEW F, NEW G, NEW dep,
         Normalising(s, r, fs, F, G, dep), fs # <<>>,
         NEW f, f = Last(fs), f.left > 0,
         NEW c, c = DirectoryAt(s, f.current),
         NEW i \in 1..Kept(f), NEW p, p = f.primaries[i],
         NEW next, next = s.directory_index[f.current + 1].next,
         NEW t, t = PastEntry(MergeRecords(s, p, c), f.previous, next),
         NEW g, g = PastFrame(f, next)
  PROVE  /\ f.previous >= 0
         /\ ChainsReadable(s, p) /\ ChainsReadable(s, c)
         /\ Normalising(t, r, [fs EXCEPT ![Len(fs)] = g], Joined(F, p, c),
                        Cut(Joined(G, p, c), f.directory, Kept(f) + 1),
                        Kept2(dep, c))
         /\ [fs EXCEPT ![Len(fs)] = g] # <<>>
<1> DEFINE n == Len(fs)  d == f.directory  m == Kept(f)
           J == Joined(F, p, c)  T == Cut(Joined(G, p, c), d, m + 1)
           deq == Kept2(dep, c)  new == [fs EXCEPT ![Len(fs)] = g]
           stale == Framed(fs)
<1>1. /\ StoreOK(s) /\ Forest(s, F, G, dep, {}, stale)
      /\ FramesOK(s, fs, G, dep) /\ EnteredOK(s, fs, G) /\ UidsOK(s, G)
      /\ RootOK(s, r, F) /\ r.directories.first = FirstOf(G[-1])
  BY DEF Normalising
<1>2. Found2(s, fs, G, dep, f, p, c) BY DuplicateFound
<1>3. /\ IsDuplicate(s, G, dep, stale, d, p, c, m)
      /\ ~Entered(s, p) /\ ~Entered(s, c) /\ dep[c] = n
      /\ NoChildEntered(s, G, d)
      /\ f.previous = G[d][m] /\ f.previous >= 0 /\ f.current = G[d][m + 1]
      /\ f.done = 0
  BY <1>2 DEF Found2
<1>4. /\ d \in DOMAIN G /\ p \in DOMAIN G \ {-1} /\ c \in DOMAIN G \ {-1}
      /\ p # c /\ p # d /\ c # d /\ dep[p] = dep[c]
      /\ p \notin stale /\ c \notin stale
  BY <1>3 DEF IsDuplicate
<1>5. /\ n \in Nat /\ n >= 1 /\ f = fs[n] /\ FrameOK(s, f, G)
      /\ \A k \in 1..n : fs[k].directory \in DOMAIN G
      /\ \A k \in 1..n : fs[k].directory \in stale
  <2>1. \A k \in 1..n : fs[k].directory \in stale BY DEF Framed
  <2> QED BY <2>1, <1>1, TopFrame
<1>6. t = PastEntry(MergeRecords(s, p, c), G[d][m],
                    s.directory_index[G[d][m + 1] + 1].next)
  BY <1>3
<1>7. /\ IsForestWithout(s, t, F, G, dep, p, c, d, m)
      /\ ChainsReadable(s, p) /\ ChainsReadable(s, c)
  <2> HIDE DEF d, m, stale
  <2> QED BY <1>1, <1>3, <1>6, DuplicateStore
<1>8. /\ HasTaken(G, p, c, d, m + 1, T)
      /\ FirstOf(T[d]) = FirstOf(G[d])
      /\ Forest(t, J, T, deq, {}, stale)
  <2>1. T = Cut(Joined(G, p, c), d, m + 1) OBVIOUS
  <2> HIDE DEF d, m, stale, T
  <2> QED BY <2>1, <1>1, <1>3, <1>7, DuplicateForest
<1> HIDE DEF T
<1>9. /\ StoreOK(t)
      /\ Len(t.file_index) = Len(s.file_index)
      /\ \A k \in 1..Len(s.file_index) : RecordAt(t, k) = RecordAt(s, k)
      /\ SameEntries(s, t)
      /\ t.next_file_uid = s.next_file_uid
      /\ Len(t.directories) = Len(s.directories)
      /\ \A x \in 0..(Len(s.directories) - 1) :
           Header(t, x).file_uid = Header(s, x).file_uid
  BY <1>7 DEF IsForestWithout
<1>10. /\ DOMAIN T = DOMAIN G \ {c}
       /\ T[d] = Without(G[d], m + 1)
       /\ \A x \in DOMAIN G \ {p, c, d} : T[x] = G[x]
       /\ \A x \in DOMAIN T : \A k \in 1..Len(T[x]) :
            \E y \in DOMAIN G : \E j \in 1..Len(G[y]) :
              G[y][j] = T[x][k] /\ (y = x \/ (x = p /\ y = c))
  BY <1>8 DEF HasTaken
<1>11. /\ DOMAIN G = DOMAIN F
       /\ \A x \in DOMAIN G \ {-1} : x \in 0..(Len(s.directories) - 1)
       /\ DOMAIN dep = DOMAIN G /\ dep[-1] = 0 /\ -1 \in DOMAIN G
  BY <1>1, ForestOwners
<1>12. \A x \in DOMAIN T : deq[x] = dep[x] BY <1>10, <1>11 DEF Kept2
<1> HIDE DEF deq
<1>13. \A x \in DOMAIN T \ {-1} : Entered(t, x) <=> Entered(s, x)
  BY <1>9, <1>10, <1>11 DEF Entered
(* The frames.                                                             *)
<1>14. FrameOK(t, g, T) /\ g.directory = d /\ g.done = 0
  <2>1. Kept(f) # 0 /\ f.directory \in DOMAIN T
        /\ T[f.directory] = Without(G[f.directory], Kept(f) + 1)
    <3>1. f.directory \in DOMAIN T BY <1>4, <1>10
    <3>2. T[f.directory] = Without(G[f.directory], Kept(f) + 1) BY <1>10
    <3>3. Kept(f) # 0
      <4>1. Kept(f) \in Nat BY <1>5, FrameFacts
      <4> QED BY <4>1
    <3> QED BY <3>1, <3>2, <3>3
  <2> HIDE DEF d, m, stale
  <2>2. FrameOK(t, g, T) /\ g.directory = f.directory /\ g.done = 0
    <3>1. /\ StoreOK(s) /\ Forest(s, F, G, dep, {}, stale)
          /\ FrameOK(s, f, G) /\ f.left > 0 /\ SameEntries(s, t)
          /\ g = PastFrame(f, next)
          /\ next = s.directory_index[f.current + 1].next
      BY <1>1, <1>5, <1>9
    <3> QED BY <2>1, <3>1, PastFrameOK
  <2> QED BY <2>2 DEF d
<1>15. ASSUME NEW k \in 1..(n - 1)
       PROVE  /\ k \in 1..n /\ fs[k].directory # d
              /\ fs[k].directory \in DOMAIN T
              /\ T[fs[k].directory] = G[fs[k].directory]
              /\ deq[fs[k].directory] = dep[fs[k].directory]
  <2>1. k \in 1..n /\ n \in 1..n /\ k # n BY <1>5
  <2>2. fs[k].directory # d
    <3>1. \A x, y \in 1..n : fs[x].directory = fs[y].directory => x = y
      BY <1>1, TopFrame
    <3> QED BY <3>1, <2>1, <1>5
  <2>3. fs[k].directory \in DOMAIN G /\ fs[k].directory \in stale
    BY <2>1, <1>5
  <2>4. fs[k].directory \notin {p, c, d} BY <2>2, <2>3, <1>4
  <2> QED BY <2>1, <2>3, <2>4, <1>10, <1>12
<1>16. IsFramed(t, fs, T, deq, new, fs)
  <2>1. \A k \in 1..(n - 1) : \A j \in 1..Len(G[fs[k].directory]) :
          G[fs[k].directory][j] + 1 \in 1..Len(s.directory_index)
    <3> SUFFICES ASSUME NEW k \in 1..(n - 1)
                 PROVE  \A j \in 1..Len(G[fs[k].directory]) :
                          G[fs[k].directory][j] + 1
                            \in 1..Len(s.directory_index)
      OBVIOUS
    <3>1. fs[k].directory \in DOMAIN G BY <1>5, <1>15
    <3> QED BY <3>1, <1>1, ChainEntries
  <2>2. g.directory = fs[n].directory /\ deq[g.directory] = dep[g.directory]
    BY <1>4, <1>5, <1>10, <1>12, <1>14
  <2>3. \A k \in 1..(n - 1) :
          /\ fs[k].directory \in DOMAIN T
          /\ T[fs[k].directory] = G[fs[k].directory]
          /\ deq[fs[k].directory] = dep[fs[k].directory]
    BY <1>15
  <2>4. FramesOK(s, fs, G, dep) /\ SameEntries(s, t) /\ FrameOK(t, g, T)
    BY <1>1, <1>9, <1>14
  <2>5. IsFramed(t, fs, T, deq, [fs EXCEPT ![Len(fs)] = g], fs)
    <3> HIDE DEF d, m, stale
    <3> QED BY <2>1, <2>2, <2>3, <2>4, FramesChange
  <2> QED BY <2>5
<1>17. Sequential(fs) /\ n \in 1..Len(fs) BY <1>1, <1>5 DEF FramesOK
<1>18. IsReplaced(fs, n, g, new)
  BY <1>17, SequentialExcept
<1> HIDE DEF new
<1>19. /\ FramesOK(t, new, T, deq) /\ Framed(new) = stale /\ new # <<>>
       /\ Len(new) = n
       /\ \A k \in 1..n : new[k] = IF k = n THEN g ELSE fs[k]
  BY <1>16, <1>18 DEF IsFramed, IsReplaced
<1> HIDE DEF n, m, stale
(* Who is entered.                                                         *)
<1>20. ASSUME NEW x \in DOMAIN T, NEW k \in 1..Len(T[x])
       PROVE  \E y \in DOMAIN G : \E j \in 1..Len(G[y]) :
                /\ (y = x \/ (x = p /\ y = c))
                /\ Entered(t, DirectoryAt(t, T[x][k]))
                     <=> Entered(s, DirectoryAt(s, G[y][j]))
  <2>1. PICK y \in DOMAIN G : \E j \in 1..Len(G[y]) :
          G[y][j] = T[x][k] /\ (y = x \/ (x = p /\ y = c))
    BY <1>10
  <2>2. PICK j \in 1..Len(G[y]) :
          G[y][j] = T[x][k] /\ (y = x \/ (x = p /\ y = c))
    BY <2>1
  <2>3. DirectoryAt(t, T[x][k]) \in DOMAIN T \ {-1}
    BY <1>8, <1>9, ChainEntries
  <2>4. DirectoryAt(t, T[x][k]) = DirectoryAt(s, G[y][j])
    <3>1. G[y][j] + 1 \in 1..Len(s.directory_index) BY <1>1, ChainEntries
    <3> QED BY <3>1, <2>2, <1>9 DEF SameEntries, DirectoryAt
  <2> QED BY <2>2, <2>3, <2>4, <1>13
<1>21. ASSUME NEW x \in DOMAIN T, x # p, NoChildEntered(s, G, x)
       PROVE  NoChildEntered(t, T, x)
  BY <1>20, <1>21 DEF NoChildEntered
<1>22. ASSUME NEW x \in DOMAIN T, x # p, ChildrenEntered(s, G, x)
       PROVE  ChildrenEntered(t, T, x)
  BY <1>20, <1>22 DEF ChildrenEntered
<1>23. EnteredOK(t, new, T)
  <2>1. ASSUME NEW k \in 1..Len(new) PROVE DoneEntered(t, new[k], T)
    <3>0. k \in 1..n BY <1>19
    <3>1. CASE k = n
      <4>1. NoChildEntered(t, T, d) BY <1>3, <1>4, <1>10, <1>21
      <4>2. new[k].directory = d /\ new[k].done = 0
        BY <3>0, <3>1, <1>14, <1>19
      <4>3. \A j \in 1..Len(T[d]) : ~(j <= 0) OBVIOUS
      <4> QED BY <4>1, <4>2, <4>3 DEF DoneEntered, NoChildEntered
    <3>2. CASE k # n
      <4>1. k \in 1..(n - 1) BY <3>0, <3>2, <1>5
      <4> DEFINE x == fs[k].directory
      <4>2. new[k] = fs[k] BY <3>0, <3>2, <1>19
      <4>3. x \in DOMAIN T /\ T[x] = G[x] BY <4>1, <1>15
      <4>4. DoneEntered(s, fs[k], G) BY <3>0, <1>1 DEF EnteredOK, n
      <4>5. \A j \in 1..Len(G[x]) :
              /\ DirectoryAt(t, G[x][j]) = DirectoryAt(s, G[x][j])
              /\ DirectoryAt(t, G[x][j]) \in DOMAIN T \ {-1}
        <5>1. x \in DOMAIN G BY <4>3, <1>10
        <5>2. \A j \in 1..Len(G[x]) :
                G[x][j] + 1 \in 1..Len(s.directory_index)
          BY <5>1, <1>1, ChainEntries
        <5>3. \A j \in 1..Len(G[x]) :
                DirectoryAt(t, G[x][j]) = DirectoryAt(s, G[x][j])
          BY <5>2, <1>9 DEF SameEntries, DirectoryAt
        <5>4. \A j \in 1..Len(T[x]) : DirectoryAt(t, T[x][j]) \in DOMAIN T \ {-1}
          BY <4>3, <1>8, <1>9, ChainEntries
        <5> QED BY <5>3, <5>4, <4>3
      <4> QED BY <4>2, <4>3, <4>4, <4>5, <1>13 DEF DoneEntered
    <3> QED BY <3>1, <3>2
  <2>2. ASSUME NEW x \in DOMAIN T \ {-1}, ~Entered(t, x)
        PROVE  NoChildEntered(t, T, x)
    <3>1. ~Entered(s, x) /\ x \in DOMAIN G \ {-1} BY <2>2, <1>10, <1>13
    <3>2. NoChildEntered(s, G, x) BY <3>1, <1>1 DEF EnteredOK
    <3>3. CASE x # p BY <3>2, <3>3, <1>21
    <3>4. CASE x = p
      <4>1. NoChildEntered(s, G, c) BY <1>1, <1>3, <1>4 DEF EnteredOK
      <4> SUFFICES ASSUME NEW k \in 1..Len(T[x])
                   PROVE  ~Entered(t, DirectoryAt(t, T[x][k]))
        BY DEF NoChildEntered
      <4>2. PICK y \in DOMAIN G : \E j \in 1..Len(G[y]) :
              /\ (y = x \/ (x = p /\ y = c))
              /\ Entered(t, DirectoryAt(t, T[x][k]))
                   <=> Entered(s, DirectoryAt(s, G[y][j]))
        BY <1>20
      <4>3. NoChildEntered(s, G, y) BY <4>1, <4>2, <3>2
      <4> QED BY <4>2, <4>3 DEF NoChildEntered
    <3> QED BY <3>3, <3>4
  <2>3. ASSUME NEW x \in DOMAIN T \ Framed(new), x = -1 \/ Entered(t, x)
        PROVE  ChildrenEntered(t, T, x)
    <3>1. x \in DOMAIN G \ stale BY <1>10, <1>19
    <3>2. x = -1 \/ Entered(s, x) BY <2>3, <1>13
    <3>3. x # p BY <3>2, <1>3, <1>4
    <3>4. ChildrenEntered(s, G, x) BY <3>1, <3>2, <1>1 DEF EnteredOK, stale
    <3> QED BY <3>3, <3>4, <1>22
  <2> QED BY <2>1, <2>2, <2>3 DEF EnteredOK
<1>24. UidsOK(t, T)
  <2>1. t.next_file_uid > Len(t.file_index) BY <1>1, <1>9 DEF UidsOK
  <2>2. \A k \in 1..Len(t.file_index) : RecordAt(t, k).uid = k
    BY <1>1, <1>9 DEF UidsOK
  <2>3. \A x \in DOMAIN T \ {-1} :
          /\ x \in DOMAIN G \ {-1}
          /\ Header(t, x).file_uid = Header(s, x).file_uid
    BY <1>9, <1>10, <1>11
  <2>4. \A x \in DOMAIN T \ {-1} : Entered(t, x) =>
          /\ Header(t, x).file_uid \in Nat
          /\ Header(t, x).file_uid > Len(t.file_index)
          /\ Header(t, x).file_uid < t.next_file_uid
    BY <2>3, <1>1, <1>9, <1>13 DEF UidsOK
  <2>5. \A x, y \in DOMAIN T \ {-1} :
          Entered(t, x) /\ Entered(t, y)
            /\ Header(t, x).file_uid = Header(t, y).file_uid => x = y
    BY <2>3, <1>1, <1>13 DEF UidsOK
  <2> QED BY <2>1, <2>2, <2>4, <2>5 DEF UidsOK
<1>25. RootOK(t, r, J)
  <2>1. -1 \in DOMAIN F \ {c} /\ -1 # p BY <1>4, <1>11
  <2>2. J[-1] = F[-1] /\ DOMAIN J = DOMAIN F \ {c} BY <2>1 DEF Joined
  <2> QED BY <2>2, <1>1, <1>9 DEF RootOK
<1>26. r.directories.first = FirstOf(T[-1])
  <2>1. CASE d = -1 BY <2>1, <1>1, <1>8
  <2>2. CASE d # -1
    <3>1. T[-1] = G[-1] BY <2>2, <1>4, <1>10, <1>11
    <3> QED BY <3>1, <1>1
  <2> QED BY <2>1, <2>2
<1>27. Normalising(t, r, new, J, T, deq)
  BY <1>8, <1>9, <1>19, <1>23, <1>24, <1>25, <1>26 DEF Normalising
<1> QED BY <1>3, <1>7, <1>19, <1>27 DEF new, T, deq, m

(***************************************************************************)
(* When the root has been left every directory has its own file uid.       *)
(***************************************************************************)
LEMMA AllEntered ==
  ASSUME NEW s, NEW r, NEW F, NEW G, NEW dep,
         Normalising(s, r, <<>>, F, G, dep)
  PROVE  \A x \in DOMAIN G \ {-1} : Entered(s, x)
<1>1. /\ StoreOK(s) /\ Forest(s, F, G, dep, {}, Framed(<<>>))
      /\ EnteredOK(s, <<>>, G)
  BY DEF Normalising
<1>2. Framed(<<>>) = {} BY DEF Framed
<1>3. /\ DOMAIN G = DOMAIN F
      /\ \A x \in DOMAIN F : dep[x] \in Nat
  BY <1>1, ForestOwners
<1> DEFINE T == {dep[x] : x \in {y \in DOMAIN G \ {-1} : ~Entered(s, y)}}
<1> SUFFICES ASSUME NEW z \in DOMAIN G \ {-1}, ~Entered(s, z) PROVE FALSE
  OBVIOUS
<1>4. T \subseteq Nat /\ T # {} BY <1>3
<1>5. PICK v \in T : \A w \in T : v <= w BY <1>4, LeastNat
<1>6. PICK x \in DOMAIN G \ {-1} : ~Entered(s, x) /\ v = dep[x] BY <1>5
<1>7. PICK d \in DOMAIN G : \E k \in 1..Len(G[d]) : DirectoryAt(s, G[d][k]) = x
  BY <1>1, <1>6 DEF Forest, Reached
<1>8. PICK k \in 1..Len(G[d]) : DirectoryAt(s, G[d][k]) = x BY <1>7
<1>9. dep[x] = dep[d] + 1 BY <1>1, <1>8, ChainEntries
<1>10. d = -1 \/ Entered(s, d)
  <2> SUFFICES ASSUME d # -1, ~Entered(s, d) PROVE FALSE OBVIOUS
  <2>1. dep[d] \in T BY <1>7
  <2> HIDE DEF T
  <2>2. v <= dep[d] /\ dep[d] \in Nat BY <2>1, <1>3, <1>5
  <2> QED BY <2>2, <1>6, <1>9
<1>11. ChildrenEntered(s, G, d) BY <1>1, <1>2, <1>10 DEF EnteredOK
<1> QED BY <1>6, <1>8, <1>11 DEF ChildrenEntered

LEMMA LongerLists ==
  ASSUME NEW list, Linkable(list), NEW G, Lists(list, G),
         NEW new, Len(new) = Len(list) + 1,
         \A k \in 1..Len(list) : new[k] = list[k]
  PROVE  Lists(new, G)
<1>1. ASSUME NEW d \in DOMAIN G PROVE Path(new, G[d])
  <2>1. /\ G[d] \in Seq(0..(Len(list) - 1))
        /\ \A k \in 1..Len(G[d]) :
             /\ G[d][k] + 1 \in 1..Len(list)
             /\ list[G[d][k] + 1].next
                  = IF k < Len(G[d]) THEN G[d][k + 1] ELSE -1
    BY ListEntry
  <2>2. Len(list) \in Nat BY DEF Linkable
  <2>3. G[d] \in Seq(0..(Len(new) - 1))
    <3>1. 0..(Len(list) - 1) \subseteq 0..(Len(new) - 1) BY <2>2
    <3> QED BY <3>1, <2>1, SeqSubset
  <2> QED BY <2>1, <2>3 DEF Path
<1> QED BY <1>1 DEF Lists

(***************************************************************************)
(* The merged index.                                                       *)
(***************************************************************************)
Merged(s, r, F, G, dep) ==
  /\ StoreOK(s) /\ Forest(s, F, G, dep, {}, {}) /\ UidsOK(s, G)
  /\ \A x \in DOMAIN G \ {-1} : Entered(s, x)
  /\ 0 \notin DOMAIN F /\ Header(s, 0).file_uid = 0
  /\ r.directories.first = FirstOf(G[-1])

Finished(s, h, entry) ==
  [Rewritten(s, 0, h) EXCEPT !.directory_index = Append(@, entry)]

LEMMA MergeFinished ==
  ASSUME NEW s, NEW r, NEW F, NEW G, NEW dep,
         Normalising(s, r, <<>>, F, G, dep),
         NEW h, h.file_uid = 0, NEW entry \in DirectoryEntries,
         entry.record_offset = 0,
         NEW t, t = Finished(s, h, entry)
  PROVE  /\ Merged(t, r, F, G, dep)
         /\ DirectoryAt(t, Len(s.directory_index)) = 0
<1> DEFINE u == Rewritten(s, 0, h)  list == s.directory_index
           new == Append(list, entry)
<1>1. /\ StoreOK(s) /\ Forest(s, F, G, dep, {}, Framed(<<>>))
      /\ UidsOK(s, G) /\ EnteredOK(s, <<>>, G)
      /\ RootOK(s, r, F) /\ r.directories.first = FirstOf(G[-1])
  BY DEF Normalising
<1>2. Framed(<<>>) = {} BY DEF Framed
<1>3. /\ IsStore(s) /\ Sequential(s.directories)
      /\ Len(s.directories) \in Nat /\ Len(s.directories) >= 1
      /\ 0 \notin DOMAIN F
      /\ list \in Seq(DirectoryEntries) /\ Linkable(list)
      /\ Len(list) \in Nat /\ s.next_file_uid \in Nat
  BY <1>1, StoreLinks DEF StoreOK, StoreForm, RootOK
<1>4. 0 + 1 \in 1..Len(s.directories) /\ 0 \in 0..(Len(s.directories) - 1)
  BY <1>3
<1>5. IsRewritten(s, 0, h, u) /\ u.next_file_uid = s.next_file_uid
  BY <1>3, <1>4, RewrittenIs
<1> HIDE DEF u
<1>6. /\ StoreOK(u)
      /\ \A k : RecordAt(u, k) = RecordAt(s, k)
      /\ \A x : DirectoryAt(u, x) = DirectoryAt(s, x)
      /\ \A d \in 0..(Len(s.directories) - 1) :
           Header(u, d) = IF d = 0 THEN h ELSE Header(s, d)
  BY <1>1, <1>3, <1>5, RewrittenStore
<1>7. /\ u.file_index = s.file_index /\ u.directory_index = list
      /\ Len(u.directories) = Len(s.directories)
  BY <1>5 DEF IsRewritten
<1>8. /\ new \in Seq(DirectoryEntries) /\ Len(new) = Len(list) + 1
      /\ new[Len(list) + 1] = entry
      /\ \A k \in 1..Len(list) : new[k] = list[k]
  BY <1>3, DirectoryLinks, AppendSeq
<1>9. t = [u EXCEPT !.directory_index = new] BY <1>7 DEF Finished, u
<1> HIDE DEF new
<1>10. /\ IsStore(t) /\ t.file_records = u.file_records
       /\ t.file_records_position = u.file_records_position
       /\ t.directories = u.directories /\ t.file_index = u.file_index
       /\ t.selection_count = u.selection_count
       /\ t.next_file_uid = u.next_file_uid /\ t.directory_index = new
  <2>1. IsStore(u) BY <1>5 DEF IsRewritten
  <2> QED BY <2>1, <1>9 DEF IsStore
<1>11. StoreOK(t) BY <1>6, <1>8, <1>10 DEF StoreOK, StoreForm
<1>12. \A k : RecordAt(t, k) = RecordAt(s, k) BY <1>6, <1>10 DEF RecordAt
<1>13. \A d \in 0..(Len(s.directories) - 1) :
         Header(t, d) = IF d = 0 THEN h ELSE Header(s, d)
  BY <1>6, <1>10 DEF Header
<1>14. DirectoryAt(t, Len(list)) = 0 BY <1>8, <1>10 DEF DirectoryAt
<1>15. /\ -1 \in DOMAIN F /\ DOMAIN G = DOMAIN F
       /\ \A x \in DOMAIN F \ {-1} : x \in 0..(Len(s.directories) - 1)
  BY <1>1, ForestOwners
<1>16. \A x \in DOMAIN F \ {-1} : Header(t, x) = Header(s, x)
  BY <1>3, <1>13, <1>15
<1>17. \A x \in DOMAIN G : \A k \in 1..Len(G[x]) :
         DirectoryAt(t, G[x][k]) = DirectoryAt(s, G[x][k])
  <2>1. \A x \in DOMAIN G : \A k \in 1..Len(G[x]) :
          G[x][k] + 1 \in 1..Len(list)
    BY <1>1, ChainEntries
  <2> QED BY <2>1, <1>8, <1>10 DEF DirectoryAt
<1>18. Forest(t, F, G, dep, {}, {})
  <2>1. /\ Owners(s, F, G, {})
        /\ Lists(s.file_index, F) /\ Lists(s.directory_index, G)
        /\ Covered(s.file_index, F) /\ Deep(F, dep)
        /\ Hung(s, G, dep, {}) /\ Once(s, G) /\ Reached(s, G, {})
        /\ Heads(s, F, G, {}, {})
    BY <1>1, <1>2, Zenon DEF Forest
  <2>2. Owners(t, F, G, {}) BY <2>1, <1>7, <1>10 DEF Owners
  <2>3. Lists(t.file_index, F) /\ Covered(t.file_index, F)
    BY <2>1, <1>7, <1>10
  <2>4. Lists(t.directory_index, G)
    BY <2>1, <1>3, <1>8, <1>10, LongerLists
  <2>5. Hung(t, G, dep, {}) BY <2>1, <1>17 DEF Hung
  <2>6. Once(t, G)
    <3> SUFFICES ASSUME NEW d \in DOMAIN G, NEW e \in DOMAIN G,
                        NEW j \in 1..Len(G[d]), NEW k \in 1..Len(G[e]),
                        DirectoryAt(t, G[d][j]) = DirectoryAt(t, G[e][k])
                 PROVE  d = e /\ j = k
      BY DEF Once
    <3>1. DirectoryAt(s, G[d][j]) = DirectoryAt(s, G[e][k]) BY <1>17
    <3> QED BY <3>1, <2>1 DEF Once
  <2>7. Reached(t, G, {})
    <3> SUFFICES ASSUME NEW x \in DOMAIN G \ ({-1} \cup {})
                 PROVE  \E d \in DOMAIN G : \E k \in 1..Len(G[d]) :
                          DirectoryAt(t, G[d][k]) = x
      BY DEF Reached
    <3>1. \E d \in DOMAIN G : \E k \in 1..Len(G[d]) :
            DirectoryAt(s, G[d][k]) = x
      BY <2>1 DEF Reached
    <3> QED BY <3>1, <1>17
  <2>8. Heads(t, F, G, {}, {}) BY <2>1, <1>16 DEF Heads
  <2> QED BY <2>1, <2>2, <2>3, <2>4, <2>5, <2>6, <2>7, <2>8, Zenon DEF Forest
<1>19. \A x \in DOMAIN G \ {-1} : Entered(t, x)
  <2>1. \A x \in DOMAIN G \ {-1} : Entered(s, x) BY AllEntered
  <2> QED BY <2>1, <1>15, <1>16 DEF Entered
<1>20. UidsOK(t, G)
  <2>1. \A x \in DOMAIN G \ {-1} : Entered(t, x) <=> Entered(s, x)
    BY <1>15, <1>16 DEF Entered
  <2>2. \A x \in DOMAIN G \ {-1} : Header(t, x) = Header(s, x)
    BY <1>15, <1>16
  <2>3. t.file_index = s.file_index /\ t.next_file_uid = s.next_file_uid
    BY <1>5, <1>7, <1>10
  <2> QED BY <2>1, <2>2, <2>3, <1>1, <1>12 DEF UidsOK
<1>21. Header(t, 0).file_uid = 0 BY <1>4, <1>13
<1>22. Merged(t, r, F, G, dep)
  BY <1>1, <1>3, <1>11, <1>18, <1>19, <1>20, <1>21 DEF Merged
<1> QED BY <1>14, <1>22

(* Every file and every directory of a merged index has a uid of its own.  *)
LEMMA MergedUids ==
  ASSUME NEW F, NEW G, NEW dep, Merged(store, root, F, G, dep),
         DirectoryAt(store, index.directories.first) = 0
  PROVE  UidsUnique
<1> DEFINE top == DirectoryAt(store, index.directories.first)
           live == {top} \cup Chains(store, root)
           n == Len(store.file_index)
           hung == 0..(n - 1)
<1>1. /\ StoreOK(store) /\ Forest(store, F, G, dep, {}, {})
      /\ UidsOK(store, G)
      /\ \A x \in DOMAIN G \ {-1} : Entered(store, x)
      /\ 0 \notin DOMAIN F /\ Header(store, 0).file_uid = 0
      /\ root.directories.first = FirstOf(G[-1])
  BY DEF Merged
<1>2. n \in Nat /\ store.next_file_uid \in Nat
  BY <1>1, StoreLinks DEF StoreOK, StoreForm
<1>3. live = {0} \cup (DOMAIN G \ {-1}) /\ 0 \notin DOMAIN G
  <2>1. Chains(store, root) = DOMAIN F \ {-1} BY <1>1, ForestChains
  <2>2. DOMAIN G = DOMAIN F BY <1>1, ForestOwners
  <2> QED BY <2>1, <2>2, <1>1
<1>4. ASSUME NEW f \in hung PROVE FileAt(store, f).uid = f + 1
  <2>1. f + 1 \in 1..n BY <1>2
  <2>2. ReadRecord(store, store.file_index[f + 1].record_offset,
                   store.file_index[f + 1].record_length)
          = RecordAt(store, f + 1)
    BY <2>1, <1>1, WholeReads
  <2>3. RecordAt(store, f + 1).uid = f + 1 BY <2>1, <1>1 DEF UidsOK
  <2> QED BY <2>2, <2>3 DEF FileAt
<1>5. ASSUME NEW d \in DOMAIN G \ {-1}
      PROVE  /\ Header(store, d).file_uid \in Nat
             /\ Header(store, d).file_uid > n
             /\ Header(store, d).file_uid < store.next_file_uid
  BY <1>1 DEF UidsOK
<1>6. \A d, e \in DOMAIN G \ {-1} :
        Header(store, d).file_uid = Header(store, e).file_uid => d = e
  BY <1>1 DEF UidsOK
<1>7. n < store.next_file_uid BY <1>1 DEF UidsOK
<1>8. DirectoryAt(store, index.directories.first) = 0 OBVIOUS
<1> HIDE DEF live, n
<1>9. \A f \in hung : FileAt(store, f).uid \in 1..HighestFileUid
  BY <1>2, <1>4, <1>7 DEF HighestFileUid
<1>10. \A d \in live \ {0} : Header(store, d).file_uid \in 1..HighestFileUid
  BY <1>2, <1>3, <1>5 DEF HighestFileUid
<1>11. \A f, g \in hung : f # g => FileAt(store, f).uid # FileAt(store, g).uid
  BY <1>2, <1>4
<1>12. \A d, e \in live :
         d # e => Header(store, d).file_uid # Header(store, e).file_uid
  <2>1. \A d \in DOMAIN G \ {-1} : Header(store, d).file_uid # 0
    BY <1>5, <1>2
  <2> QED BY <2>1, <1>1, <1>3, <1>6
<1>13. \A f \in hung, d \in live :
         FileAt(store, f).uid # Header(store, d).file_uid
  <2> SUFFICES ASSUME NEW f \in hung, NEW d \in live
               PROVE  FileAt(store, f).uid # Header(store, d).file_uid
    OBVIOUS
  <2>1. FileAt(store, f).uid = f + 1 /\ f \in Nat /\ f + 1 <= n
    BY <1>2, <1>4
  <2>2. CASE d = 0 BY <2>1, <2>2, <1>1
  <2>3. CASE d # 0
    <3>1. d \in DOMAIN G \ {-1} BY <2>3, <1>3
    <3> QED BY <3>1, <2>1, <1>2, <1>5
  <2> QED BY <2>2, <2>3
<1> QED BY <1>8, <1>9, <1>10, <1>11, <1>12, <1>13
        DEF UidsUnique, live, n

(***************************************************************************)
(* The steps of the caller's thread.                                       *)
(***************************************************************************)
AppendInv(s, r) ==
  \E F, G, dep : Appending(s, r, F, G, dep) /\ RootOK(s, r, F)
NormalInv(s, r, fs) == \E F, G, dep : Normalising(s, r, fs, F, G, dep)
Closing(s, r, F, G, dep) ==
  Normalising(s, r, <<>>, F, G, dep) /\ r.directories = ChainOf(G[-1])
ClosingInv(s, r) == \E F, G, dep : Closing(s, r, F, G, dep)
ReadyInv(s, r, top) ==
  /\ \E F, G, dep : Merged(s, r, F, G, dep)
  /\ DirectoryAt(s, top) = 0

(* StartMerge: the root is the only directory.                             *)
LEMMA MergeStarts ==
  AppendInv(BeginDirectory(EmptyStore), DirectoryState(EmptyStore))
<1> DEFINE e == EmptyStore  s == BeginDirectory(e)  r == DirectoryState(e)
           F == [x \in {-1} |-> <<>>]  dep == [x \in {-1} |-> 0]
<1>1. /\ e.file_records = <<>> /\ e.directories = <<>>
      /\ e.file_index = <<>> /\ e.directory_index = <<>>
      /\ e.file_records_position = 0 /\ e.selection_count = 0
      /\ e.next_file_uid = 1 /\ IsStore(e)
  BY DEF EmptyStore, IsStore
<1>2. StoreOK(e)
  <2>1. Sequential(<<>>)
    <3>1. <<>> \in Seq({}) OBVIOUS
    <3> QED BY <3>1 DEF Sequential
  <2>2. Len(<<>>) = 0 /\ \A S : <<>> \in Seq(S) OBVIOUS
  <2> HIDE DEF e
  <2> QED BY <1>1, <2>1, <2>2 DEF StoreOK, StoreForm
<1>3. Len(e.directories) = 0 /\ Len(<<>>) = 0 BY <1>1
<1> HIDE DEF e
<1>4. IsBegun(e, s) BY <1>2, StoreBegun DEF StoreOK
<1>5. /\ StoreOK(s) /\ s.file_index = <<>> /\ s.directory_index = <<>>
      /\ s.next_file_uid = 1 /\ Len(s.directories) = 1
  BY <1>1, <1>2, <1>3, <1>4 DEF IsBegun
<1>6. /\ IsState(r) /\ r.offset = 0 /\ r.selection \in Int
      /\ r.file_uid = 0 /\ r.files = NewChain /\ r.directories = NewChain
  BY <1>2, <1>3, BegunState DEF StoreOK
<1>7. /\ DOMAIN F = {-1} /\ F[-1] = <<>>
      /\ \A d \in DOMAIN F : d = -1 /\ F[d] = <<>> /\ Len(F[d]) = 0
  OBVIOUS
<1>8. DOMAIN dep = {-1} /\ dep \in [{-1} -> Nat] /\ dep[-1] = 0 OBVIOUS
<1>9. ChainOf(<<>>) = NewChain BY DEF ChainOf, FirstOf, LastOf, NewChain
<1> HIDE DEF F, dep, s, r
<1>10. Forest(s, F, F, dep, {}, {})
  <2>1. Path(s.file_index, F[-1]) /\ Path(s.directory_index, F[-1])
    BY <1>3, <1>5, <1>7 DEF Path
  <2>2. Lists(s.file_index, F) /\ Lists(s.directory_index, F)
    BY <2>1, <1>7 DEF Lists
  <2>3. Owners(s, F, F, {}) BY <1>7 DEF Owners
  <2>4. Covered(s.file_index, F)
    <3>1. \A x \in 0..(0 - 1) : FALSE OBVIOUS
    <3>2. Len(s.file_index) = 0 BY <1>3, <1>5
    <3> QED BY <3>1, <3>2 DEF Covered
  <2>5. Deep(F, dep) BY <1>7, <1>8 DEF Deep
  <2>6. Hung(s, F, dep, {}) /\ Once(s, F) BY <1>7 DEF Hung, Once
  <2>7. Reached(s, F, {}) /\ Heads(s, F, F, {}, {})
    BY <1>7 DEF Reached, Heads
  <2> QED BY <2>2, <2>3, <2>4, <2>5, <2>6, <2>7 DEF Forest
<1>11. Numbered(s)
  <2>1. Len(s.file_index) = 0 BY <1>3, <1>5
  <2>2. \A k \in 1..0 : FALSE OBVIOUS
  <2> QED BY <2>1, <2>2, <1>5 DEF Numbered
<1>12. Unnumbered(s, F) BY <1>7 DEF Unnumbered
<1>13. Appending(s, r, F, F, dep)
  BY <1>5, <1>6, <1>7, <1>9, <1>10, <1>11, <1>12 DEF Appending
<1>14. RootOK(s, r, F) BY <1>5, <1>6, <1>7, <1>9 DEF RootOK
<1> QED BY <1>13, <1>14 DEF AppendInv, s, r, e

(* AppendNext, of a source that was parsed to its end.                     *)
CanJoin(s, r, q, f, g) ==
  /\ CanAppend(q)
  /\ AppendInv(JoinedStore(AppendSource(s, q), r.files, f, r.directories, g),
               JoinedRoot(r, f, g))

LEMMA SourceAppended ==
  ASSUME NEW s, NEW r, AppendInv(s, r),
         NEW p, Parseable(p, TRUE), p.status = "done",
         NEW q, q = p.store, NEW rq, rq = p.stack[1].state,
         NEW f, f = RebaseChain(rq.files, Len(s.file_index)),
         NEW g, g = RebaseChain(rq.directories, Len(s.directory_index))
  PROVE  CanJoin(s, r, q, f, g)
<1> DEFINE t == JoinedStore(AppendSource(s, q), r.files, f, r.directories, g)
           u == JoinedRoot(r, f, g)  base == Len(s.directories)
           n == Len(s.file_index)
<1>1. PICK F, G, dep : Appending(s, r, F, G, dep) /\ RootOK(s, r, F)
  BY DEF AppendInv
<1>2. PICK H, K, deq : IsSource(q, rq, H, K, deq) BY SourceIs
<1> DEFINE J == Joint(F, H, base, n)
           L == Joint(G, K, base, Len(s.directory_index))
           dej == JointDepth(dep, deq, base)
<1> HIDE DEF t, u
<1>3. Appending(t, u, J, L, dej)
      /\ Len(t.directories) = base + Len(q.directories)
  <2>1. Appending(s, r, F, G, dep) BY <1>1
  <2>2. IsSource(q, rq, H, K, deq) BY <1>2
  <2>3. /\ t = JoinedStore(AppendSource(s, q), r.files, f, r.directories, g)
        /\ u = JoinedRoot(r, f, g)
    BY DEF t, u
  <2>4. IsAppending(s, F, G, dep, q, H, K, deq, t, u)
    BY <2>1, <2>2, <2>3, AppendJoins
  <2> QED BY <2>4 DEF IsAppending
<1>4. StoreOK(q) /\ Forest(q, H, K, deq, {}, {}) BY <1>2 DEF IsSource, IsParsed
<1>5. CanAppend(q)
  <2>1. DOMAIN q.file_index = 1..Len(q.file_index)
    BY <1>4, StoreLinks DEF Linkable
  <2> QED BY <2>1, <1>4, WholeReads DEF CanAppend
<1>6. /\ IsState(r) /\ r.selection \in Int /\ r.offset = 0
      /\ r.file_uid = 0 /\ 0 \notin DOMAIN F /\ base >= 1
  BY <1>1 DEF RootOK
<1>7. /\ IsState(u) /\ u.selection \in Int /\ u.offset = 0
      /\ u.file_uid = 0
  BY <1>6, JoinedRootIs DEF u
<1>8. StoreOK(s) /\ Forest(s, F, G, dep, {}, {}) BY <1>1 DEF Appending
<1>9. base \in Nat /\ Len(q.directories) \in Nat /\ n \in Nat
  BY <1>4, <1>8, StoreLinks
<1>10. DOMAIN H \subseteq {-1} \cup Nat
  <2>1. \A x \in DOMAIN H \ {-1} : x \in 0..(Len(q.directories) - 1)
    BY <1>4, ForestOwners
  <2>2. \A x \in DOMAIN H \ {-1} : x \in Nat BY <2>1, <1>9
  <2> QED BY <2>2
<1>11. DOMAIN J = DOMAIN F \cup {Over(d, base) : d \in DOMAIN H}
  BY DEF Joint
<1> HIDE DEF J, L, dej, base
<1>12. 0 \notin DOMAIN J
  <2>1. ASSUME NEW d \in DOMAIN H PROVE Over(d, base) # 0
    BY <1>6, <1>9, <1>10 DEF Over
  <2> QED BY <2>1, <1>6, <1>11
<1>13. u.files = ChainOf(J[-1]) BY <1>3 DEF Appending
<1>14. Len(t.directories) >= 1 BY <1>3, <1>6, <1>9
<1>15. RootOK(t, u, J) BY <1>7, <1>12, <1>13, <1>14 DEF RootOK
<1>16. AppendInv(t, u) BY <1>3, <1>15 DEF AppendInv
<1> QED BY <1>5, <1>16 DEF CanJoin, t, u

Phases ==
  {"start", "receive", "append", "normalise", "finish", "ready", "failed"}

Busy == {"open", "parse", "send"}
Places == Busy \cup {"pop", "gone"}

Active == {w \in Workers : worker[w].at \in Busy}

ThreadsOK ==
  /\ queue \in Seq(1..N)
  /\ worker \in [Workers -> [at : Places, task : Nat, ok : BOOLEAN]]
  /\ \A w \in Workers : worker[w].at \in Busy => worker[w].task \in 1..N
  /\ channel \in Seq([source : 1..N, ok : BOOLEAN])
  /\ received \in Nat
  /\ sources \subseteq 1..N
  /\ first_error \in BOOLEAN

(* Every source is counted at one place.                                   *)
Conserved ==
  Len(queue) + Cardinality(Active) + Len(channel) + received = N

(* Where a source can be that is not received yet.                         *)
Queued(i) == \E k \in 1..Len(queue) : queue[k] = i
InWork(i) ==
  \E w \in Workers : worker[w].at \in Busy /\ worker[w].task = i
Sent(i) == \E k \in 1..Len(channel) : channel[k].source = i

OnItsWay ==
  first_error \/ \A i \in 1..N :
                   i \in sources \/ Queued(i) \/ InWork(i) \/ Sent(i)

(* Who has the temporary files of a source.                                *)
WithWorker(i) ==
  \E w \in Workers :
    /\ worker[w].task = i
    /\ worker[w].at = "parse" \/ (worker[w].at = "send" /\ worker[w].ok)
InResult(i) ==
  \E k \in 1..Len(channel) : channel[k].source = i /\ channel[k].ok

Owned == \A i \in temporary : i \in sources \/ WithWorker(i) \/ InResult(i)

ReceiveInv == ThreadsOK /\ Conserved /\ OnItsWay /\ Owned

PhaseInv ==
  /\ phase = "start" =>
       /\ temporary = {} /\ sources = {} /\ received = 0
       /\ channel = <<>> /\ first_error = FALSE
  /\ phase = "receive" => call.merge /\ ReceiveInv
  /\ phase \in {"append", "normalise", "finish"} =>
       call.merge /\ sources = 1..N /\ temporary \subseteq sources

IInv ==
  /\ call \in Calls
  /\ phase \in Phases
  /\ PhaseInv
  /\ NoTemporariesLeft

-----------------------------------------------------------------------------
(* Facts about the number of sources, the workers and the queue.           *)

LEMMA NIsNat ==
  ASSUME call \in Calls
  PROVE  N \in Nat
<1>1. call.documents \in Seq([barcode : STRING, events : Seq(Events)])
  BY MergeAssumption
<1>. QED  BY <1>1, LenProperties DEF N

LEMMA WorkersFinite ==
  ASSUME call \in Calls
  PROVE  IsFiniteSet(Workers) /\ Workers \subseteq Nat
<1>1. DEFINE last == IF Parallelism <= N THEN Parallelism ELSE N
<1>2. last \in Nat
  BY NIsNat, MergeAssumption
<1>3. IsFiniteSet(1..last)
  BY <1>2, FS_Interval
<1>. QED  BY <1>2, <1>3 DEF Workers

LEMMA ActiveFinite ==
  ASSUME call \in Calls
  PROVE  IsFiniteSet(Active) /\ Cardinality(Active) \in Nat
<1>1. Active \subseteq Workers
  BY DEF Active
<1>2. IsFiniteSet(Active)
  BY <1>1, WorkersFinite, FS_Subset
<1>. QED  BY <1>2, FS_CardinalityType

LEMMA FrontOfSeq ==
  ASSUME NEW S, NEW s \in Seq(S), s # <<>>
  PROVE  /\ Front(s) \in Seq(S)
         /\ Last(s) \in S
         /\ Len(s) \in Nat \ {0}
         /\ Len(Front(s)) = Len(s) - 1
         /\ \A k \in 1..(Len(s) - 1) : Front(s)[k] = s[k]
<1>1. /\ Len(s) \in Nat \ {0}
      /\ \A i \in 1..Len(s) : s[i] \in S
  BY EmptySeq, LenProperties, ElementOfSeq
<1>2. /\ Front(s) \in Seq(S)
      /\ Len(Front(s)) = IF 1 <= Len(s) - 1 THEN Len(s) - 1 ELSE 0
      /\ \A k \in 1..(Len(s) - 1) : Front(s)[k] = s[k]
  BY <1>1, SubSeqProperties DEF Front
<1>3. Last(s) \in S
  BY <1>1 DEF Last
<1>4. Len(Front(s)) = Len(s) - 1
  <2>1. \A n \in Nat \ {0} : (IF 1 <= n - 1 THEN n - 1 ELSE 0) = n - 1
    OBVIOUS
  <2>2. Len(s) \in Nat \ {0}
    BY <1>1
  <2>. QED  BY <1>2, <2>1, <2>2
<1>. QED  BY <1>1, <1>2, <1>3, <1>4

LEMMA TailOfSeq ==
  ASSUME NEW S, NEW s \in Seq(S), s # <<>>
  PROVE  /\ Tail(s) \in Seq(S)
         /\ Head(s) \in S
         /\ Head(s) = s[1]
         /\ Len(s) \in Nat \ {0}
         /\ Len(Tail(s)) = Len(s) - 1
         /\ \A k \in 1..(Len(s) - 1) : Tail(s)[k] = s[k + 1]
OBVIOUS

-----------------------------------------------------------------------------
(* The workers: each step keeps the invariant.                             *)

(* A worker's place changes: how many are active.                          *)
LEMMA ActiveStep ==
  ASSUME call \in Calls, call' = call, NEW w \in Workers,
         \A v \in Workers \ {w} : worker'[v] = worker[v]
  PROVE  Cardinality(Active') =
           IF worker[w].at \in Busy
           THEN IF worker'[w].at \in Busy THEN Cardinality(Active)
                ELSE Cardinality(Active) - 1
           ELSE IF worker'[w].at \in Busy THEN Cardinality(Active) + 1
                ELSE Cardinality(Active)
<1>1. Workers' = Workers
  BY DEF Workers, N
<1>2. IsFiniteSet(Active)
  BY ActiveFinite
<1>3. CASE (worker[w].at \in Busy) <=> (worker'[w].at \in Busy)
  <2>1. Active' = Active
    BY <1>1, <1>3 DEF Active
  <2>. QED  BY <2>1, <1>3
<1>4. CASE worker[w].at \notin Busy /\ worker'[w].at \in Busy
  <2>1. Active' = Active \cup {w} /\ w \notin Active
    BY <1>1, <1>4 DEF Active
  <2>. QED  BY <2>1, <1>2, <1>4, FS_AddElement
<1>5. CASE worker[w].at \in Busy /\ worker'[w].at \notin Busy
  <2>1. Active' = Active \ {w} /\ w \in Active
    BY <1>1, <1>5 DEF Active
  <2>. QED  BY <2>1, <1>2, <1>5, FS_RemoveElement
<1>. QED  BY <1>3, <1>4, <1>5

(* In the receiving phase only ReceiveInv is left to show.                 *)
LEMMA StillReceiving ==
  ASSUME IInv, phase = "receive", UNCHANGED <<call, phase>>,
         ReceiveInv'
  PROVE  IInv'
BY DEF IInv, PhaseInv, NoTemporariesLeft, Phases

LEMMA PopTaskInductive ==
  ASSUME IInv, NEW w \in DOMAIN worker, PopTask(w)
  PROVE  IInv'
<1>1. /\ call \in Calls /\ call' = call /\ N \in Nat
      /\ phase = "receive" /\ phase' = "receive"
      /\ ReceiveInv /\ w \in Workers
      /\ N' = N /\ Workers' = Workers
  BY NIsNat DEF IInv, PhaseInv, PopTask, ReceiveInv, ThreadsOK, N, Workers
<1>2. UNCHANGED <<channel, temporary, received, sources, first_error>>
  BY DEF PopTask, receiveVars
<1>3. \A v \in Workers \ {w} : worker'[v] = worker[v]
  BY <1>1 DEF PopTask, ReceiveInv, ThreadsOK
<1>4. worker[w].at = "pop"
  BY DEF PopTask
<1>5. CASE queue = <<>>
  <2>1. queue' = queue /\ worker' = [worker EXCEPT ![w].at = "gone"]
    BY <1>5 DEF PopTask
  <2>2. ThreadsOK'
    BY <1>1, <1>2, <1>4, <2>1 DEF ReceiveInv, ThreadsOK, Places, Busy
  <2>3. worker'[w].at = "gone"
    BY <1>1, <2>1 DEF ReceiveInv, ThreadsOK
  <2>4. Cardinality(Active') = Cardinality(Active)
    BY <1>1, <1>3, <1>4, <2>3, ActiveStep DEF Busy
  <2>5. Conserved'
    BY <1>1, <1>2, <2>1, <2>4 DEF ReceiveInv, Conserved
  <2>6. OnItsWay'
    BY <1>1, <1>2, <1>3, <1>4, <2>1
       DEF ReceiveInv, OnItsWay, Queued, InWork, Sent, Busy
  <2>7. Owned'
    BY <1>1, <1>2, <1>3, <1>4 DEF ReceiveInv, Owned, WithWorker, InResult
  <2>. QED  BY <1>1, <2>2, <2>5, <2>6, <2>7, StillReceiving DEF ReceiveInv
<1>6. CASE queue # <<>>
  <2>1. /\ queue' = Front(queue)
        /\ worker' = [worker EXCEPT ![w].at = "open",
                                    ![w].task = Last(queue)]
    BY <1>6 DEF PopTask
  <2>2. /\ Front(queue) \in Seq(1..N)
        /\ Last(queue) \in 1..N
        /\ Len(queue) \in Nat \ {0}
        /\ Len(Front(queue)) = Len(queue) - 1
        /\ \A k \in 1..(Len(queue) - 1) : Front(queue)[k] = queue[k]
        /\ Last(queue) = queue[Len(queue)]
    <3>1. queue \in Seq(1..N)
      BY <1>1 DEF ReceiveInv, ThreadsOK
    <3>. QED  BY <3>1, <1>6, FrontOfSeq DEF Last
  <2>3. /\ worker'[w].at = "open" /\ worker'[w].task = Last(queue)
        /\ worker' \in [Workers -> [at : Places, task : Nat, ok : BOOLEAN]]
    <3>1. /\ Last(queue) \in Nat
          /\ worker \in [Workers -> [at : Places, task : Nat, ok : BOOLEAN]]
          /\ "open" \in Places
      BY <1>1, <2>2 DEF ReceiveInv, ThreadsOK, Places, Busy
    <3>2. worker' = [worker EXCEPT ![w] =
                       [[@ EXCEPT !.at = "open"] EXCEPT !.task = Last(queue)]]
      BY <2>1, <3>1, <1>1
    <3>3. [[worker[w] EXCEPT !.at = "open"] EXCEPT !.task = Last(queue)]
            \in [at : Places, task : Nat, ok : BOOLEAN]
      BY <3>1, <1>1
    <3>. QED  BY <3>1, <3>2, <3>3, <1>1
  <2>4. ThreadsOK'
    BY <1>1, <1>2, <1>3, <2>1, <2>2, <2>3 DEF ReceiveInv, ThreadsOK
  <2>5. Cardinality(Active') = Cardinality(Active) + 1
    BY <1>1, <1>3, <1>4, <2>3, ActiveStep DEF Busy
  <2>6. Conserved'
    BY <1>1, <1>2, <2>1, <2>2, <2>5, ActiveFinite
       DEF ReceiveInv, ThreadsOK, Conserved
  <2>7. OnItsWay'
    <3>1. SUFFICES ASSUME ~first_error, NEW i \in 1..N, i \notin sources
                   PROVE  Queued(i)' \/ InWork(i)' \/ Sent(i)'
      BY <1>1, <1>2 DEF OnItsWay
    <3>2. Queued(i) \/ InWork(i) \/ Sent(i)
      BY <1>1, <3>1 DEF ReceiveInv, OnItsWay
    <3>3. CASE Queued(i)
      <4>1. PICK k \in 1..Len(queue) : queue[k] = i
        BY <3>3 DEF Queued
      <4>2. CASE k = Len(queue)
        BY <1>1, <4>1, <4>2, <2>2, <2>3 DEF InWork, Busy
      <4>3. CASE k # Len(queue)
        <5>1. k \in 1..Len(Front(queue))
          BY <4>1, <4>3, <2>2
        <5>. QED  BY <4>1, <5>1, <2>1, <2>2 DEF Queued
      <4>. QED  BY <4>2, <4>3
    <3>4. CASE InWork(i)
      BY <1>1, <1>3, <1>4, <3>4 DEF InWork, Busy
    <3>5. CASE Sent(i)
      BY <1>2, <3>5 DEF Sent
    <3>. QED  BY <3>2, <3>3, <3>4, <3>5
  <2>8. Owned'
    BY <1>1, <1>2, <1>3, <1>4 DEF ReceiveInv, Owned, WithWorker, InResult
  <2>. QED  BY <1>1, <2>4, <2>6, <2>7, <2>8, StillReceiving DEF ReceiveInv
<1>. QED  BY <1>5, <1>6

LEMMA CreateTemporaryInductive ==
  ASSUME IInv, NEW w \in DOMAIN worker, CreateTemporary(w)
  PROVE  IInv'
<1>1. /\ call \in Calls /\ call' = call /\ N \in Nat
      /\ phase = "receive" /\ phase' = "receive"
      /\ ReceiveInv /\ w \in Workers
      /\ N' = N /\ Workers' = Workers
  BY NIsNat
     DEF IInv, PhaseInv, CreateTemporary, ReceiveInv, ThreadsOK, N, Workers
<1>2. UNCHANGED <<queue, channel, received, sources, first_error>>
  BY DEF CreateTemporary, receiveVars
<1>3. /\ worker[w].at = "open"
      /\ worker' = [worker EXCEPT ![w].at = "parse"]
      /\ temporary' = temporary \cup {worker[w].task}
  BY DEF CreateTemporary
<1>4. /\ \A v \in Workers \ {w} : worker'[v] = worker[v]
      /\ worker'[w].at = "parse" /\ worker'[w].task = worker[w].task
  BY <1>1, <1>3 DEF ReceiveInv, ThreadsOK
<1>5. ThreadsOK'
  BY <1>1, <1>2, <1>3, <1>4 DEF ReceiveInv, ThreadsOK, Places, Busy
<1>6. Cardinality(Active') = Cardinality(Active)
  BY <1>1, <1>3, <1>4, ActiveStep DEF Busy
<1>7. Conserved'
  BY <1>1, <1>2, <1>6 DEF ReceiveInv, Conserved
<1>8. OnItsWay'
  BY <1>1, <1>2, <1>3, <1>4
     DEF ReceiveInv, OnItsWay, Queued, InWork, Sent, Busy
<1>9. Owned'
  BY <1>1, <1>2, <1>3, <1>4 DEF ReceiveInv, Owned, WithWorker, InResult
<1>. QED  BY <1>1, <1>5, <1>7, <1>8, <1>9, StillReceiving DEF ReceiveInv

(* A source that fails takes its temporary files with it.                  *)
LEMMA ParseSourceInductive ==
  ASSUME IInv, NEW w \in DOMAIN worker, ParseSource(w)
  PROVE  IInv'
<1>1. /\ call \in Calls /\ call' = call /\ N \in Nat
      /\ phase = "receive" /\ phase' = "receive"
      /\ ReceiveInv /\ w \in Workers
      /\ N' = N /\ Workers' = Workers
  BY NIsNat
     DEF IInv, PhaseInv, ParseSource, ReceiveInv, ThreadsOK, N, Workers
<1>2. UNCHANGED <<queue, channel, received, sources, first_error>>
  BY DEF ParseSource, receiveVars
<1>3. PICK ok \in BOOLEAN :
        /\ worker' = [worker EXCEPT ![w].at = "send", ![w].ok = ok]
        /\ temporary' = IF ok THEN temporary
                        ELSE temporary \ {worker[w].task}
  <2>1. PICK io \in BOOLEAN :
          LET ok == ~io /\ SourceOf(worker[w].task).ok
          IN  /\ worker' = [worker EXCEPT ![w].at = "send", ![w].ok = ok]
              /\ temporary' = AfterSource(worker[w].task, ok)
    BY DEF ParseSource
  <2>2. (~io /\ SourceOf(worker[w].task).ok) \in BOOLEAN
    OBVIOUS
  <2>. QED  BY <2>1, <2>2, Zenon DEF AfterSource
<1>4. /\ worker[w].at = "parse"
      /\ \A v \in Workers \ {w} : worker'[v] = worker[v]
      /\ worker'[w].at = "send" /\ worker'[w].task = worker[w].task
      /\ worker'[w].ok = ok
      /\ worker' \in [Workers -> [at : Places, task : Nat, ok : BOOLEAN]]
  <2>1. worker[w].at = "parse"
    BY DEF ParseSource
  <2>2. /\ worker \in [Workers -> [at : Places, task : Nat, ok : BOOLEAN]]
        /\ "send" \in Places
    BY <1>1 DEF ReceiveInv, ThreadsOK, Places, Busy
  <2>3. worker' = [worker EXCEPT ![w] =
                     [[@ EXCEPT !.at = "send"] EXCEPT !.ok = ok]]
    BY <1>1, <1>3, <2>2
  <2>4. [[worker[w] EXCEPT !.at = "send"] EXCEPT !.ok = ok]
          \in [at : Places, task : Nat, ok : BOOLEAN]
    BY <1>1, <2>2
  <2>. QED  BY <1>1, <2>1, <2>2, <2>3, <2>4
<1>5. ThreadsOK'
  BY <1>1, <1>2, <1>4 DEF ReceiveInv, ThreadsOK, Busy
<1>6. Cardinality(Active') = Cardinality(Active)
  BY <1>1, <1>4, ActiveStep DEF Busy
<1>7. Conserved'
  BY <1>1, <1>2, <1>6 DEF ReceiveInv, Conserved
<1>8. OnItsWay'
  BY <1>1, <1>2, <1>4
     DEF ReceiveInv, OnItsWay, Queued, InWork, Sent, Busy
<1>9. Owned'
  <2>1. SUFFICES ASSUME NEW i \in temporary, i \notin sources,
                        ok \/ i # worker[w].task
                 PROVE  WithWorker(i)' \/ InResult(i)'
    BY <1>2, <1>3 DEF Owned
  <2>2. WithWorker(i) \/ InResult(i)
    BY <1>1, <2>1 DEF ReceiveInv, Owned
  <2>3. CASE WithWorker(i)
    BY <1>1, <1>4, <2>1, <2>3 DEF WithWorker
  <2>4. CASE InResult(i)
    BY <1>2, <2>4 DEF InResult
  <2>. QED  BY <2>2, <2>3, <2>4
<1>. QED  BY <1>1, <1>5, <1>7, <1>8, <1>9, StillReceiving DEF ReceiveInv

LEMMA SendResultInductive ==
  ASSUME IInv, NEW w \in DOMAIN worker, SendResult(w)
  PROVE  IInv'
<1>1. /\ call \in Calls /\ call' = call /\ N \in Nat
      /\ phase = "receive" /\ phase' = "receive"
      /\ ReceiveInv /\ w \in Workers
      /\ N' = N /\ Workers' = Workers
  BY NIsNat
     DEF IInv, PhaseInv, SendResult, ReceiveInv, ThreadsOK, N, Workers
<1>2. UNCHANGED <<queue, temporary, received, sources, first_error>>
  BY DEF SendResult, receiveVars
<1>. DEFINE sent == [source |-> worker[w].task, ok |-> worker[w].ok]
<1>3. /\ worker[w].at = "send"
      /\ worker' = [worker EXCEPT ![w].at = "pop"]
      /\ channel' = Append(channel, sent)
  BY DEF SendResult
<1>4. /\ \A v \in Workers \ {w} : worker'[v] = worker[v]
      /\ worker'[w].at = "pop"
      /\ worker' \in [Workers -> [at : Places, task : Nat, ok : BOOLEAN]]
  BY <1>1, <1>3 DEF ReceiveInv, ThreadsOK, Places
<1>5. sent \in [source : 1..N, ok : BOOLEAN]
  BY <1>1, <1>3 DEF ReceiveInv, ThreadsOK, Busy
<1>6. /\ channel' \in Seq([source : 1..N, ok : BOOLEAN])
      /\ Len(channel) \in Nat
      /\ Len(channel') = Len(channel) + 1
      /\ channel'[Len(channel) + 1] = sent
      /\ \A k \in 1..Len(channel) : channel'[k] = channel[k]
  <2>1. channel \in Seq([source : 1..N, ok : BOOLEAN])
    BY <1>1 DEF ReceiveInv, ThreadsOK
  <2>. QED  BY <1>3, <1>5, <2>1, AppendProperties, LenProperties
<1>7. ThreadsOK'
  BY <1>1, <1>2, <1>4, <1>6 DEF ReceiveInv, ThreadsOK, Busy
<1>8. Cardinality(Active') = Cardinality(Active) - 1
  BY <1>1, <1>3, <1>4, ActiveStep DEF Busy
<1>9. Conserved'
  <2>1. Len(queue) \in Nat /\ received \in Nat
    BY <1>1, LenProperties DEF ReceiveInv, ThreadsOK
  <2>2. Len(channel) \in Nat /\ Len(channel') = Len(channel) + 1
    BY <1>6
  <2>3. Cardinality(Active) \in Nat
    BY <1>1, ActiveFinite
  <2>4. Len(queue) + Cardinality(Active) + Len(channel) + received = N
    BY <1>1 DEF ReceiveInv, Conserved
  <2>5. queue' = queue /\ received' = received /\ N' = N
    BY <1>1, <1>2
  <2>. QED  BY <1>1, <1>8, <2>1, <2>2, <2>3, <2>4, <2>5 DEF Conserved
<1>10. OnItsWay'
  <2>1. SUFFICES ASSUME ~first_error, NEW i \in 1..N, i \notin sources
                 PROVE  Queued(i)' \/ InWork(i)' \/ Sent(i)'
    BY <1>1, <1>2 DEF OnItsWay
  <2>2. Queued(i) \/ InWork(i) \/ Sent(i)
    BY <1>1, <2>1 DEF ReceiveInv, OnItsWay
  <2>3. CASE Queued(i)
    BY <1>2, <2>3 DEF Queued
  <2>4. CASE InWork(i)
    <3>1. PICK v \in Workers : worker[v].at \in Busy /\ worker[v].task = i
      BY <2>4 DEF InWork
    <3>2. CASE v = w
      BY <1>6, <3>1, <3>2 DEF Sent
    <3>3. CASE v # w
      BY <1>1, <1>4, <3>1, <3>3 DEF InWork
    <3>. QED  BY <3>2, <3>3
  <2>5. CASE Sent(i)
    BY <1>6, <2>5 DEF Sent
  <2>. QED  BY <2>2, <2>3, <2>4, <2>5
<1>11. Owned'
  <2>1. SUFFICES ASSUME NEW i \in temporary, i \notin sources
                 PROVE  WithWorker(i)' \/ InResult(i)'
    BY <1>2 DEF Owned
  <2>2. WithWorker(i) \/ InResult(i)
    BY <1>1, <2>1 DEF ReceiveInv, Owned
  <2>3. CASE WithWorker(i)
    <3>1. PICK v \in Workers :
            /\ worker[v].task = i
            /\ worker[v].at = "parse" \/ (worker[v].at = "send" /\ worker[v].ok)
      BY <2>3 DEF WithWorker
    <3>2. CASE v = w
      BY <1>3, <1>6, <3>1, <3>2 DEF InResult
    <3>3. CASE v # w
      BY <1>1, <1>4, <3>1, <3>3 DEF WithWorker
    <3>. QED  BY <3>2, <3>3
  <2>4. CASE InResult(i)
    BY <1>6, <2>4 DEF InResult
  <2>. QED  BY <2>2, <2>3, <2>4
<1>. QED  BY <1>1, <1>7, <1>9, <1>10, <1>11, StillReceiving DEF ReceiveInv

-----------------------------------------------------------------------------
(* The caller's thread.                                                    *)

LEMMA ReceiveInductive ==
  ASSUME IInv, Receive
  PROVE  IInv'
<1>1. /\ call \in Calls /\ call' = call /\ N \in Nat
      /\ phase = "receive" /\ phase' = "receive"
      /\ ReceiveInv
      /\ N' = N /\ Workers' = Workers
  BY NIsNat DEF IInv, PhaseInv, Receive, N, Workers
<1>2. /\ UNCHANGED <<queue, worker, temporary>>
      /\ channel # <<>> /\ channel' = Tail(channel)
      /\ received' = received + 1
      /\ sources' = IF Head(channel).ok
                    THEN sources \cup {Head(channel).source} ELSE sources
      /\ first_error' = (first_error \/ ~Head(channel).ok)
  BY DEF Receive
<1>3. channel \in Seq([source : 1..N, ok : BOOLEAN])
  BY <1>1 DEF ReceiveInv, ThreadsOK
<1>4. /\ Tail(channel) \in Seq([source : 1..N, ok : BOOLEAN])
      /\ Head(channel) \in [source : 1..N, ok : BOOLEAN]
      /\ Head(channel) = channel[1]
      /\ Len(channel) \in Nat \ {0}
      /\ Len(Tail(channel)) = Len(channel) - 1
      /\ \A k \in 1..(Len(channel) - 1) : Tail(channel)[k] = channel[k + 1]
  BY <1>2, <1>3, TailOfSeq
<1>5. ThreadsOK'
  <2>1. sources' \subseteq 1..N /\ first_error' \in BOOLEAN
    BY <1>1, <1>2, <1>4 DEF ReceiveInv, ThreadsOK
  <2>. QED  BY <1>1, <1>2, <1>4, <2>1 DEF ReceiveInv, ThreadsOK
<1>6. Conserved'
  <2>1. /\ Len(queue) \in Nat /\ received \in Nat
        /\ Cardinality(Active) \in Nat
    BY <1>1, LenProperties, ActiveFinite DEF ReceiveInv, ThreadsOK
  <2>2. Active' = Active
    BY <1>1, <1>2 DEF Active
  <2>3. Len(channel) \in Nat /\ Len(channel') = Len(channel) - 1
    BY <1>2, <1>4
  <2>4. Len(queue) + Cardinality(Active) + Len(channel) + received = N
    BY <1>1 DEF ReceiveInv, Conserved
  <2>5. queue' = queue /\ received' = received + 1 /\ N' = N
    BY <1>1, <1>2
  <2>. QED  BY <1>1, <2>1, <2>2, <2>3, <2>4, <2>5 DEF Conserved
<1>7. ASSUME NEW k \in 1..Len(channel), k # 1
      PROVE  /\ k - 1 \in 1..Len(channel')
             /\ channel'[k - 1] = channel[k]
  <2>1. k - 1 \in 1..(Len(channel) - 1) /\ (k - 1) + 1 = k
    BY <1>4, <1>7
  <2>2. Tail(channel)[k - 1] = channel[(k - 1) + 1]
    BY <1>4, <2>1
  <2>. QED  BY <1>2, <1>4, <2>1, <2>2
<1>8. OnItsWay'
  <2>1. SUFFICES ASSUME ~first_error, Head(channel).ok,
                        NEW i \in 1..N, i \notin sources,
                        i # Head(channel).source
                 PROVE  Queued(i)' \/ InWork(i)' \/ Sent(i)'
    BY <1>1, <1>2 DEF OnItsWay
  <2>2. Queued(i) \/ InWork(i) \/ Sent(i)
    BY <1>1, <2>1 DEF ReceiveInv, OnItsWay
  <2>3. CASE Queued(i) \/ InWork(i)
    BY <1>1, <1>2, <2>3 DEF Queued, InWork
  <2>4. CASE Sent(i)
    BY <1>4, <1>7, <2>1, <2>4 DEF Sent
  <2>. QED  BY <2>2, <2>3, <2>4
<1>9. Owned'
  <2>1. SUFFICES ASSUME NEW i \in temporary, i \notin sources'
                 PROVE  WithWorker(i)' \/ InResult(i)'
    BY <1>2 DEF Owned
  <2>2. WithWorker(i) \/ InResult(i)
    BY <1>1, <1>2, <2>1 DEF ReceiveInv, Owned
  <2>3. CASE WithWorker(i)
    BY <1>1, <1>2, <2>3 DEF WithWorker
  <2>4. CASE InResult(i)
    BY <1>2, <1>4, <1>7, <2>1, <2>4 DEF InResult
  <2>. QED  BY <2>2, <2>3, <2>4
<1>. QED  BY <1>1, <1>5, <1>6, <1>8, <1>9, StillReceiving DEF ReceiveInv

(* When every result is in, nothing is queued, in work or sent.            *)
LEMMA JoinInductive ==
  ASSUME IInv, Join
  PROVE  IInv'
<1>1. /\ call \in Calls /\ call' = call /\ N \in Nat /\ N' = N
      /\ phase = "receive" /\ call.merge /\ ReceiveInv
      /\ UNCHANGED <<sources, worker>>
      /\ received = N
  BY NIsNat DEF IInv, PhaseInv, Join, receiveVars, N
<1>2. \A w \in Workers : worker[w].at = "gone"
  BY <1>1 DEF Join, ReceiveInv, ThreadsOK
<1>3. Len(queue) = 0 /\ Len(channel) = 0
  <2>1. Active = {}
    BY <1>2 DEF Active, Busy
  <2>2. Cardinality(Active) = 0
    BY <2>1, FS_EmptySet
  <2>3. Len(queue) \in Nat /\ Len(channel) \in Nat
    BY <1>1, LenProperties DEF ReceiveInv, ThreadsOK
  <2>4. Len(queue) + Cardinality(Active) + Len(channel) + received = N
    BY <1>1 DEF ReceiveInv, Conserved
  <2>. QED  BY <1>1, <2>2, <2>3, <2>4
<1>4. \A i \in 1..N : ~Queued(i) /\ ~InWork(i) /\ ~Sent(i)
  BY <1>2, <1>3 DEF Queued, InWork, Sent, Busy
<1>5. temporary \subseteq sources
  BY <1>1, <1>2, <1>3 DEF ReceiveInv, Owned, WithWorker, InResult
<1>6. CASE first_error
  BY <1>1, <1>5, <1>6
     DEF Join, IInv, PhaseInv, NoTemporariesLeft, Phases
<1>7. CASE ~first_error
  <2>1. sources = 1..N
    BY <1>1, <1>4, <1>7 DEF ReceiveInv, ThreadsOK, OnItsWay
  <2>. QED  BY <1>1, <1>5, <1>7, <2>1
            DEF Join, IInv, PhaseInv, NoTemporariesLeft, Phases
<1>. QED  BY <1>6, <1>7

LEMMA StartMergeInductive ==
  ASSUME IInv, StartMerge
  PROVE  IInv'
<1>1. /\ call \in Calls /\ call' = call /\ N \in Nat
      /\ phase = "start" /\ phase' = "receive" /\ call.merge
      /\ temporary = {} /\ sources = {} /\ received = 0
      /\ channel = <<>> /\ first_error = FALSE
      /\ UNCHANGED <<channel, temporary, received, sources, first_error>>
      /\ N' = N /\ Workers' = Workers
  BY NIsNat DEF IInv, PhaseInv, StartMerge, receiveVars, N, Workers
<1>2. /\ queue' = [k \in 1..N |-> k]
      /\ worker' = [w \in Workers |-> [at |-> "pop", task |-> 0,
                                       ok |-> FALSE]]
  BY DEF StartMerge
<1>3. queue' \in Seq(1..N) /\ Len(queue') = N
  BY <1>1, <1>2, IsASeq, LenProperties
<1>4. ThreadsOK'
  <2>1. channel' \in Seq([source : 1..N, ok : BOOLEAN])
    BY <1>1, EmptySeq
  <2>. QED  BY <1>1, <1>2, <1>3, <2>1 DEF ThreadsOK, Places, Busy
<1>5. Conserved'
  <2>1. Active' = {}
    BY <1>1, <1>2 DEF Active, Busy
  <2>2. Cardinality(Active') = 0
    BY <2>1, FS_EmptySet
  <2>. QED  BY <1>1, <1>3, <2>2, EmptySeq DEF Conserved
<1>6. OnItsWay'
  BY <1>1, <1>2, <1>3 DEF OnItsWay, Queued
<1>7. Owned'
  BY <1>1 DEF Owned
<1>. QED  BY <1>1, <1>4, <1>5, <1>6, <1>7
          DEF ReceiveInv, IInv, PhaseInv, NoTemporariesLeft, Phases

LEMMA OpenFailsInductive ==
  ASSUME IInv, OpenFails
  PROVE  IInv'
<1>1. /\ call \in Calls /\ call' = call
      /\ phase = "start" /\ phase' = "failed"
      /\ temporary = {} /\ temporary' = temporary
  BY DEF IInv, PhaseInv, OpenFails, workVars
<1>. QED  BY <1>1 DEF IInv, PhaseInv, NoTemporariesLeft, Phases

LEMMA ParseFileInductive ==
  ASSUME IInv, ParseFile
  PROVE  IInv'
<1>1. /\ call \in Calls /\ call' = call
      /\ phase = "start" /\ temporary = {}
      /\ temporary' = temporary
  BY DEF IInv, PhaseInv, ParseFile, workVars
<1>2. phase' \in {"ready", "failed"}
  BY DEF ParseFile
<1>. QED  BY <1>1, <1>2 DEF IInv, PhaseInv, NoTemporariesLeft, Phases

(* Once all sources are in, a step keeps their temporary files or removes  *)
(* them all as it ends the call.                                           *)
Late == {"append", "normalise", "finish"}

LEMMA LateInductive ==
  ASSUME IInv, phase \in Late, UNCHANGED <<call, sources>>,
         \/ phase' \in Late /\ temporary' = temporary
         \/ phase' \in {"ready", "failed"} /\ temporary' = temporary \ sources
  PROVE  IInv'
BY DEF IInv, PhaseInv, NoTemporariesLeft, Late, Phases, N

LEMMA LateSteps ==
  ASSUME IInv,
         \/ AppendNext \/ StartNormalise
         \/ NormaliseEntry \/ EnterDirectory \/ LeaveDirectory
         \/ FinishMerge \/ IoFails
  PROVE  IInv'
<1>1. CASE AppendNext
  BY <1>1, LateInductive DEF AppendNext, MergeFails, receiveVars, Late
<1>2. CASE StartNormalise
  BY <1>2, LateInductive DEF StartNormalise, MergeFails, receiveVars, Late
<1>3. CASE NormaliseEntry
  BY <1>3, LateInductive DEF NormaliseEntry, receiveVars, Late
<1>4. CASE EnterDirectory
  BY <1>4, LateInductive DEF EnterDirectory, MergeFails, receiveVars, Late
<1>5. CASE LeaveDirectory
  BY <1>5, LateInductive DEF LeaveDirectory, MergeFails, receiveVars, Late
<1>6. CASE FinishMerge
  BY <1>6, LateInductive DEF FinishMerge, receiveVars, Late
<1>7. CASE IoFails
  BY <1>7, LateInductive DEF IoFails, MergeFails, receiveVars, Late
<1>. QED  BY <1>1, <1>2, <1>3, <1>4, <1>5, <1>6, <1>7

-----------------------------------------------------------------------------

LEMMA InitInv == Init => IInv
BY DEF Init, IInv, PhaseInv, NoTemporariesLeft, Phases

LEMMA NextInv == IInv /\ [Next]_vars => IInv'
<1>. SUFFICES ASSUME IInv, [Next]_vars
              PROVE  IInv'
  OBVIOUS
<1>1. ASSUME NEW w \in 1..Parallelism, WorkerStep(w)
      PROVE  IInv'
  BY <1>1, PopTaskInductive, CreateTemporaryInductive, ParseSourceInductive,
     SendResultInductive DEF WorkerStep
<1>2. CASE CallerStep
  BY <1>2, OpenFailsInductive, ParseFileInductive, StartMergeInductive,
     ReceiveInductive, JoinInductive, LateSteps DEF CallerStep
<1>3. CASE UNCHANGED vars
  <2>1. UNCHANGED <<call, phase, queue, worker, channel, received, sources,
                    first_error, temporary>>
    BY <1>3 DEF vars, workVars, receiveVars
  <2>2. N' = N /\ Workers' = Workers
    BY <2>1 DEF N, Workers
  <2>3. ThreadsOK => ThreadsOK'
    BY <2>1, <2>2 DEF ThreadsOK
  <2>4. Conserved => Conserved'
    BY <2>1, <2>2 DEF Conserved, Active
  <2>5. OnItsWay => OnItsWay'
    BY <2>1, <2>2 DEF OnItsWay, Queued, InWork, Sent
  <2>6. Owned => Owned'
    BY <2>1, <2>2 DEF Owned, WithWorker, InResult
  <2>. QED  BY <2>1, <2>2, <2>3, <2>4, <2>5, <2>6
            DEF IInv, PhaseInv, ReceiveInv, NoTemporariesLeft
<1>. QED  BY <1>1, <1>2, <1>3 DEF Next, Returned

LEMMA Invariant == Spec => []IInv
BY InitInv, NextInv, PTL DEF Spec

(* However a call ends, on whatever error of whichever worker or of the    *)
(* caller, no temporary file of a merge's source is left.                  *)
THEOREM TemporariesRemoved == Spec => []NoTemporariesLeft
<1>1. IInv => NoTemporariesLeft
  BY DEF IInv
<1>. QED  BY <1>1, Invariant, PTL

(* The caller appends only when every source has come through the workers, *)
(* so that "merge source was not produced" never occurs.                   *)
THEOREM SourcesProduced == Spec => []EverySourceProduced
<1>1. IInv => EverySourceProduced
  BY DEF IInv, PhaseInv, EverySourceProduced
<1>. QED  BY <1>1, Invariant, PTL

-----------------------------------------------------------------------------
(* Which sources come through.                                             *)

Good(c, i) ==
  Parsed(Parse(TRUE, c.documents[i].barcode, c.documents[i].events)).ok

(* A reason outside this code: an I/O error, or a document that is no      *)
(* index.                                                                  *)
Cause == fault \/ \E k \in 1..N : ~Good(call, k)

SentOK ==
  \A w \in Workers : worker[w].at = "send" =>
    IF worker[w].ok THEN Good(call, worker[w].task) ELSE Cause
ChannelOK ==
  \A k \in 1..Len(channel) :
    IF channel[k].ok THEN Good(call, channel[k].source) ELSE Cause

Through ==
  /\ phase \in {"receive"} \cup Late => \A i \in sources : Good(call, i)
  /\ phase = "receive" => SentOK /\ ChannelOK /\ (first_error => Cause)

LEMMA CauseKept ==
  ASSUME call' = call, fault => fault', Cause
  PROVE  Cause'
BY DEF Cause, N

(* A worker that does not come to send.                                    *)
LEMMA WorkerThrough ==
  ASSUME IInv, Through, phase = "receive",
         UNCHANGED <<call, phase, channel, received, sources, first_error>>,
         fault => fault', NEW w \in Workers,
         \A v \in Workers \ {w} : worker'[v] = worker[v],
         worker'[w].at = "send" =>
           IF worker'[w].ok THEN Good(call, worker'[w].task) ELSE Cause'
  PROVE  Through'
<1>1. Workers' = Workers BY DEF Workers, N
<1>2. Cause => Cause' BY CauseKept
<1>3. SentOK'
  <2> SUFFICES ASSUME NEW v \in Workers, worker'[v].at = "send"
               PROVE  IF worker'[v].ok THEN Good(call', worker'[v].task)
                      ELSE Cause'
    BY <1>1 DEF SentOK
  <2>1. CASE v = w BY <2>1
  <2>2. CASE v # w BY <2>2, <1>2 DEF Through, SentOK
  <2> QED BY <2>1, <2>2
<1>4. ChannelOK' BY <1>2 DEF Through, ChannelOK
<1>5. /\ first_error' => Cause'
      /\ \A i \in sources' : Good(call', i)
  BY <1>2 DEF Through
<1> QED BY <1>3, <1>4, <1>5 DEF Through

LEMMA ReceivePhase ==
  ASSUME IInv, phase = "receive"
  PROVE  /\ call \in Calls /\ N \in Nat /\ ReceiveInv
         /\ DOMAIN worker = Workers
         /\ worker \in [Workers -> [at : Places, task : Nat, ok : BOOLEAN]]
         /\ channel \in Seq([source : 1..N, ok : BOOLEAN])
         /\ sources \subseteq 1..N /\ call.merge
BY NIsNat DEF IInv, PhaseInv, ReceiveInv, ThreadsOK

LEMMA WorkersThrough ==
  ASSUME IInv, Through, NEW w, WorkerStep(w)
  PROVE  Through'
<1>1. phase = "receive" /\ w \in DOMAIN worker
  BY DEF WorkerStep, PopTask, CreateTemporary, ParseSource, SendResult
<1>2. /\ worker \in [Workers -> [at : Places, task : Nat, ok : BOOLEAN]]
      /\ w \in Workers /\ call \in Calls
      /\ channel \in Seq([source : 1..N, ok : BOOLEAN])
  BY <1>1, ReceivePhase
<1>3. CASE PopTask(w)
  <2>1. /\ UNCHANGED <<call, phase, channel, received, sources, first_error>>
        /\ fault' = fault
    BY <1>3 DEF PopTask, receiveVars
  <2>2. /\ worker'[w].at # "send"
        /\ \A v \in Workers \ {w} : worker'[v] = worker[v]
    BY <1>2, <1>3 DEF PopTask
  <2> QED BY <1>1, <1>2, <2>1, <2>2, WorkerThrough
<1>4. CASE CreateTemporary(w)
  <2>1. /\ UNCHANGED <<call, phase, channel, received, sources, first_error>>
        /\ fault' = fault
    BY <1>4 DEF CreateTemporary, receiveVars
  <2>2. /\ worker'[w].at # "send"
        /\ \A v \in Workers \ {w} : worker'[v] = worker[v]
    BY <1>2, <1>4 DEF CreateTemporary
  <2> QED BY <1>1, <1>2, <2>1, <2>2, WorkerThrough
<1>5. CASE ParseSource(w)
  <2>1. UNCHANGED <<call, phase, channel, received, sources, first_error>>
    BY <1>5 DEF ParseSource, receiveVars
  <2>2. PICK io \in BOOLEAN :
          LET ok == ~io /\ SourceOf(worker[w].task).ok
          IN  /\ worker' = [worker EXCEPT ![w].at = "send", ![w].ok = ok]
              /\ fault' = (fault \/ io)
    BY <1>5 DEF ParseSource
  <2> DEFINE task == worker[w].task  ok == ~io /\ Good(call, task)
  <2>3. SourceOf(task).ok = Good(call, task) BY DEF SourceOf, Good
  <2>4. /\ worker' = [worker EXCEPT ![w].at = "send", ![w].ok = ok]
        /\ fault' = (fault \/ io)
    BY <2>2, <2>3
  <2>5. ok \in BOOLEAN /\ (ok => Good(call, task)) OBVIOUS
  <2>6. ~ok => io \/ ~Good(call, task) OBVIOUS
  <2> HIDE DEF ok
  <2>7. /\ worker'[w].ok = ok /\ worker'[w].task = task
        /\ \A v \in Workers \ {w} : worker'[v] = worker[v]
    BY <1>2, <2>4
  <2>8. task \in 1..N
    BY <1>1, <1>5, ReceivePhase
       DEF ReceiveInv, ThreadsOK, ParseSource, Busy
  <2>9. ~ok => Cause' BY <2>1, <2>4, <2>6, <2>8 DEF Cause, N
  <2>10. fault => fault' BY <2>4
  <2>11. IF worker'[w].ok THEN Good(call, worker'[w].task) ELSE Cause'
    BY <2>5, <2>7, <2>9
  <2> QED BY <1>1, <1>2, <2>1, <2>7, <2>10, <2>11, WorkerThrough
<1>6. CASE SendResult(w)
  <2>1. /\ UNCHANGED <<call, phase, received, sources, first_error>>
        /\ fault' = fault /\ worker[w].at = "send"
        /\ channel' = Append(channel, [source |-> worker[w].task,
                                       ok |-> worker[w].ok])
    BY <1>6 DEF SendResult, receiveVars
  <2>2. /\ worker'[w].at # "send"
        /\ \A v \in Workers \ {w} : worker'[v] = worker[v]
    BY <1>2, <1>6 DEF SendResult
  <2>3. Workers' = Workers BY <2>1 DEF Workers, N
  <2>4. Cause => Cause' BY <2>1, CauseKept
  <2>5. SentOK'
    BY <1>1, <2>1, <2>2, <2>3, <2>4 DEF Through, SentOK
  <2> DEFINE sent == [source |-> worker[w].task, ok |-> worker[w].ok]
  <2>6. /\ Len(channel) \in Nat /\ Len(channel') = Len(channel) + 1
        /\ channel'[Len(channel) + 1] = sent
        /\ \A k \in 1..Len(channel) : channel'[k] = channel[k]
    BY <1>2, <2>1
  <2>7. IF worker[w].ok THEN Good(call, worker[w].task) ELSE Cause
    BY <1>1, <1>2, <2>1 DEF Through, SentOK
  <2>8. ChannelOK'
    <3> SUFFICES ASSUME NEW k \in 1..Len(channel')
                 PROVE  IF channel'[k].ok THEN Good(call', channel'[k].source)
                        ELSE Cause'
      BY DEF ChannelOK
    <3>1. CASE k = Len(channel) + 1
      <4>1. channel'[k].ok = worker[w].ok
            /\ channel'[k].source = worker[w].task
        BY <3>1, <2>6
      <4> QED BY <4>1, <2>1, <2>4, <2>7
    <3>2. CASE k # Len(channel) + 1
      <4>1. k \in 1..Len(channel) BY <3>2, <2>6
      <4>2. IF channel[k].ok THEN Good(call, channel[k].source) ELSE Cause
        BY <4>1, <1>1 DEF Through, ChannelOK
      <4> QED BY <4>1, <4>2, <2>1, <2>4, <2>6
    <3> QED BY <3>1, <3>2
  <2> QED BY <2>1, <2>4, <2>5, <2>8 DEF Through
<1> QED BY <1>3, <1>4, <1>5, <1>6 DEF WorkerStep

LEMMA ReceiveThrough ==
  ASSUME IInv, Through, Receive
  PROVE  Through'
<1>1. /\ phase = "receive" /\ channel # <<>>
      /\ UNCHANGED <<call, phase, worker, fault>>
      /\ channel' = Tail(channel)
      /\ sources' = IF Head(channel).ok
                    THEN sources \cup {Head(channel).source} ELSE sources
      /\ first_error' = (first_error \/ ~Head(channel).ok)
  BY DEF Receive
<1>2. channel \in Seq([source : 1..N, ok : BOOLEAN])
  BY <1>1, ReceivePhase
<1>3. /\ Head(channel) = channel[1] /\ Len(channel) \in Nat \ {0}
      /\ Len(Tail(channel)) = Len(channel) - 1
      /\ \A k \in 1..(Len(channel) - 1) : Tail(channel)[k] = channel[k + 1]
  BY <1>1, <1>2, TailOfSeq
<1>4. \A k \in 1..Len(channel) :
        IF channel[k].ok THEN Good(call, channel[k].source) ELSE Cause
  BY <1>1 DEF Through, ChannelOK
<1>5. 1 \in 1..Len(channel) BY <1>3
<1>6. IF Head(channel).ok THEN Good(call, Head(channel).source) ELSE Cause
  BY <1>3, <1>4, <1>5
<1>7. Cause' <=> Cause BY <1>1 DEF Cause, N
<1>8. ChannelOK'
  <2> SUFFICES ASSUME NEW k \in 1..Len(channel')
               PROVE  IF channel'[k].ok THEN Good(call', channel'[k].source)
                      ELSE Cause'
    BY DEF ChannelOK
  <2>1. /\ k \in 1..(Len(channel) - 1) /\ k + 1 \in 1..Len(channel)
    BY <1>1, <1>3
  <2>2. channel'[k] = channel[k + 1] BY <2>1, <1>1, <1>3
  <2>3. IF channel[k + 1].ok THEN Good(call, channel[k + 1].source) ELSE Cause
    BY <2>1, <1>4
  <2> QED BY <2>2, <2>3, <1>1, <1>7
<1>9. SentOK' BY <1>1, <1>7 DEF Through, SentOK, Workers, N
<1>10. first_error' => Cause' BY <1>1, <1>6, <1>7 DEF Through
<1>11. \A i \in sources' : Good(call', i) BY <1>1, <1>6 DEF Through
<1> QED BY <1>1, <1>8, <1>9, <1>10, <1>11 DEF Through

(* What a late step leaves alone.                                          *)
LEMMA LateThrough ==
  ASSUME Through, phase \in Late, UNCHANGED <<call, sources>>,
         phase' # "receive"
  PROVE  Through'
BY DEF Through, Late

LEMMA LateStepsThrough ==
  ASSUME Through,
         \/ AppendNext \/ StartNormalise
         \/ NormaliseEntry \/ EnterDirectory \/ LeaveDirectory
         \/ FinishMerge \/ IoFails
  PROVE  Through'
<1>1. CASE AppendNext
  BY <1>1, LateThrough DEF AppendNext, MergeFails, receiveVars, Late
<1>2. CASE StartNormalise
  BY <1>2, LateThrough DEF StartNormalise, MergeFails, receiveVars, Late
<1>3. CASE NormaliseEntry
  BY <1>3, LateThrough DEF NormaliseEntry, receiveVars, Late
<1>4. CASE EnterDirectory
  BY <1>4, LateThrough DEF EnterDirectory, MergeFails, receiveVars, Late
<1>5. CASE LeaveDirectory
  BY <1>5, LateThrough DEF LeaveDirectory, MergeFails, receiveVars, Late
<1>6. CASE FinishMerge
  BY <1>6, LateThrough DEF FinishMerge, receiveVars, Late
<1>7. CASE IoFails
  BY <1>7, LateThrough DEF IoFails, MergeFails, receiveVars, Late
<1> QED BY <1>1, <1>2, <1>3, <1>4, <1>5, <1>6, <1>7

LEMMA CallerThrough ==
  ASSUME IInv, Through, CallerStep
  PROVE  Through'
<1>1. CASE OpenFails \/ ParseFile
  BY <1>1 DEF OpenFails, ParseFile, Through, Late
<1>2. CASE StartMerge
  <2>1. /\ phase' = "receive" /\ sources' = {} /\ first_error' = FALSE
        /\ channel' = <<>>
    BY <1>2 DEF StartMerge, IInv, PhaseInv, receiveVars
  <2>2. SentOK'
    <3>1. Workers' = Workers BY <1>2 DEF StartMerge, Workers, N
    <3>2. \A w \in Workers : worker'[w].at # "send" BY <1>2 DEF StartMerge
    <3> QED BY <3>1, <3>2 DEF SentOK
  <2>3. ChannelOK'
    <3>1. Len(channel') = 0 BY <2>1
    <3>2. \A k \in 1..0 : FALSE OBVIOUS
    <3> QED BY <3>1, <3>2 DEF ChannelOK
  <2> QED BY <2>1, <2>2, <2>3 DEF Through
<1>3. CASE Receive BY <1>3, ReceiveThrough
<1>4. CASE Join
  <2>1. /\ phase = "receive" /\ UNCHANGED <<call, sources>>
        /\ phase' # "receive"
    BY <1>4 DEF Join, receiveVars
  <2> QED BY <2>1 DEF Through
<1> QED BY <1>1, <1>2, <1>3, <1>4, LateStepsThrough DEF CallerStep

(***************************************************************************)
(* The tree at every step of a merge.                                      *)
(***************************************************************************)
Tree ==
  /\ appended \in Nat
  /\ phase \in {"receive", "append"} => AppendInv(store, root)
  /\ phase = "normalise" => frames # <<>> /\ NormalInv(store, root, frames)
  /\ phase = "finish" => ClosingInv(store, root)
  /\ phase = "failed" /\ call.merge => Cause

HandedOver ==
  phase = "ready" /\ call.merge =>
    ReadyInv(store, root, index.directories.first)

(* No document in the queue of sources is anything else.                   *)
LEMMA DocumentParses ==
  ASSUME call \in Calls, call.merge, NEW i \in 1..N
  PROVE  Parseable(Parse(TRUE, call.documents[i].barcode,
                         call.documents[i].events), TRUE)
<1>1. call.documents \in Seq([barcode : STRING, events : Seq(Events)])
  BY MergeAssumption
<1>2. i \in 1..Len(call.documents) BY DEF N
<1>3. call.documents[i] \in [barcode : STRING, events : Seq(Events)]
  BY <1>1, <1>2, ElementOfSeq
<1>4. /\ call.documents[i].barcode \in STRING
      /\ call.documents[i].events \in Seq(Events)
  BY <1>3
<1> QED BY <1>4, SourceParses DEF Barcodes

LEMMA StartMergeTree ==
  ASSUME IInv, Tree, StartMerge
  PROVE  Tree' /\ HandedOver'
<1>1. /\ phase' = "receive" /\ appended' = appended
      /\ store' = BeginDirectory(EmptyStore)
      /\ root' = DirectoryState(EmptyStore)
  BY DEF StartMerge
<1> QED BY <1>1, MergeStarts DEF Tree, HandedOver

LEMMA AppendNextTree ==
  ASSUME IInv, Through, Tree, AppendNext
  PROVE  Tree' /\ HandedOver'
<1> DEFINE i == appended + 1
           p == Parse(TRUE, call.documents[i].barcode,
                      call.documents[i].events)
           q == p.store  rq == p.stack[1].state
           f == RebaseChain(rq.files, Len(store.file_index))
           g == RebaseChain(rq.directories, Len(store.directory_index))
           t == JoinedStore(AppendSource(store, q), root.files, f,
                            root.directories, g)
<1>1. phase = "append" /\ appended < N /\ appended \in Nat
  BY DEF AppendNext, Tree
<1>2. call \in Calls /\ call.merge /\ sources = 1..N /\ N \in Nat
  BY <1>1, NIsNat DEF IInv, PhaseInv
<1>3. i \in 1..N BY <1>1, <1>2
<1>4. Good(call, i) BY <1>1, <1>2, <1>3 DEF Through, Late
<1>5. p.status = "done" BY <1>4 DEF Good, Parsed
<1>6. Parseable(p, TRUE) BY <1>2, <1>3, DocumentParses
<1>7. SourceOf(i).store = q /\ SourceOf(i).root = rq
  BY DEF SourceOf, Parsed
<1>8. AppendInv(store, root) BY <1>1 DEF Tree
<1>9. IF CanAppend(q)
      THEN /\ Join2(AppendSource(store, q), f, g)
           /\ appended' = appended + 1
           /\ UNCHANGED <<phase, temporary, frames, index>>
      ELSE MergeFails
  BY <1>7 DEF AppendNext
<1> HIDE DEF p, q, rq, f, g
<1>10. CanAppend(q) /\ AppendInv(t, JoinedRoot(root, f, g))
  <2>1. q = p.store /\ rq = p.stack[1].state
        /\ f = RebaseChain(rq.files, Len(store.file_index))
        /\ g = RebaseChain(rq.directories, Len(store.directory_index))
    BY DEF q, rq, f, g
  <2>2. CanJoin(store, root, q, f, g)
    BY <2>1, <1>5, <1>6, <1>8, SourceAppended
  <2> QED BY <2>2 DEF CanJoin
<1>11. store' = t /\ root' = JoinedRoot(root, f, g)
  BY <1>9, <1>10 DEF Join2, JoinedStore, JoinedRoot
<1>12. AppendInv(store', root') BY <1>10, <1>11
<1>13. phase' = "append" /\ appended' \in Nat BY <1>1, <1>9, <1>10
<1> QED BY <1>12, <1>13 DEF Tree, HandedOver

LEMMA StartNormaliseTree ==
  ASSUME Tree, StartNormalise
  PROVE  Tree' /\ HandedOver'
<1>1. phase = "append" /\ appended \in Nat /\ AppendInv(store, root)
  BY DEF StartNormalise, Tree
<1>2. PICK F, G, dep : Appending(store, root, F, G, dep)
                       /\ RootOK(store, root, F)
  BY <1>1 DEF AppendInv
<1> DEFINE fs == <<NewFrame(-1, root.directories)>>
<1>3. /\ Normalising(store, root, fs, F, G, dep)
      /\ Readable(store.file_index, root.files.first, root.files.count)
  BY <1>2, NormaliseStarts
<1>4. fs # <<>> OBVIOUS
<1> HIDE DEF fs
<1>5. /\ phase' = "normalise" /\ frames' = fs
      /\ UNCHANGED <<store, root, appended>>
  BY <1>3 DEF StartNormalise, fs
<1>6. NormalInv(store, root, fs) BY <1>3 DEF NormalInv
<1> QED BY <1>1, <1>4, <1>5, <1>6 DEF Tree, HandedOver

LEMMA NormaliseEntryTree ==
  ASSUME Tree, NormaliseEntry
  PROVE  Tree' /\ HandedOver'
<1> DEFINE f == Last(frames)
           e == store.directory_index[f.current + 1]
           c == e.record_offset
           next == e.next
           same == SameName(f, Header(store, c).name)
           p == f.primaries[CHOOSE k \in same : TRUE]
<1>1. phase = "normalise" /\ appended \in Nat /\ frames # <<>>
      /\ NormalInv(store, root, frames)
  BY DEF NormaliseEntry, Tree
<1>2. PICK F, G, dep : Normalising(store, root, frames, F, G, dep)
  BY <1>1 DEF NormalInv
<1>3. /\ f.left > 0
      /\ IF same = {}
         THEN Keep(f, next, c) /\ UNCHANGED temporary /\ phase' = phase
         ELSE IF ChainsReadable(store, p) /\ ChainsReadable(store, c)
              THEN /\ Unlink(MergeRecords(store, p, c), f, next)
                   /\ UNCHANGED <<phase, temporary>>
              ELSE /\ phase' = "failed"
                   /\ temporary' = temporary \ sources
                   /\ UNCHANGED <<store, frames>>
      /\ UNCHANGED <<root, appended>>
  BY DEF NormaliseEntry
<1>4. same \subseteq DOMAIN f.primaries BY DEF SameName
<1>5. c = DirectoryAt(store, f.current) BY DEF DirectoryAt
<1>6. f = Last(frames) /\ e = store.directory_index[f.current + 1]
      /\ next = store.directory_index[f.current + 1].next
      /\ c = e.record_offset /\ next = e.next
  OBVIOUS
<1> HIDE DEF f, e, c, next, same
<1>7. CASE same = {}
  <2> DEFINE g == KeptFrame(f, e.next, e.record_offset)
             new == [frames EXCEPT ![Len(frames)] = g]
  <2>1. Normalising(store, root, new, F, G, dep) /\ new # <<>>
    BY <1>1, <1>2, <1>3, <1>6, EntryKept
  <2>2. Keep(f, e.next, e.record_offset) /\ phase' = phase
    BY <1>3, <1>6, <1>7
  <2>3. frames' = new /\ store' = store BY <2>2 DEF Keep, KeptFrame
  <2> HIDE DEF new
  <2>4. NormalInv(store, root, new) BY <2>1 DEF NormalInv
  <2> QED BY <1>1, <1>3, <2>1, <2>2, <2>3, <2>4 DEF Tree, HandedOver
<1>8. CASE same # {}
  <2> DEFINE i == CHOOSE k \in same : TRUE
             t == PastEntry(MergeRecords(store, p, c), f.previous, next)
             g == PastFrame(f, next)
             new == [frames EXCEPT ![Len(frames)] = g]
             F2 == Joined(F, p, c)
             G2 == Cut(Joined(G, p, c), f.directory, Kept(f) + 1)
             dep2 == Kept2(dep, c)
  <2>1. i \in same BY <1>8
  <2>2. p = f.primaries[i] OBVIOUS
  <2>3. FrameOK(store, f, G)
    BY <1>1, <1>2, <1>6, TopFrame DEF Normalising
  <2>4. DOMAIN f.primaries = 1..Kept(f) BY <2>3, FrameFacts
  <2>5. i \in 1..Kept(f) BY <1>4, <2>1, <2>4
  <2> HIDE DEF i, p
  <2>6. /\ f.previous >= 0
        /\ ChainsReadable(store, p) /\ ChainsReadable(store, c)
        /\ Normalising(t, root, new, F2, G2, dep2)
        /\ new # <<>>
    BY <1>1, <1>2, <1>3, <1>5, <1>6, <2>2, <2>5, DuplicateMerged
  <2>7. /\ Unlink(MergeRecords(store, p, c), f, next) /\ phase' = phase
    BY <1>3, <1>8, <2>6
  <2>8. store' = t /\ frames' = new
    BY <2>6, <2>7 DEF Unlink, PastEntry, PastFrame
  <2> HIDE DEF new, t, F2, G2, dep2
  <2>9. NormalInv(t, root, new) BY <2>6 DEF NormalInv
  <2> QED BY <1>1, <1>3, <2>6, <2>7, <2>8, <2>9 DEF Tree, HandedOver
<1> QED BY <1>7, <1>8

LEMMA EnterDirectoryTree ==
  ASSUME Tree, EnterDirectory
  PROVE  Tree' /\ HandedOver'
<1> DEFINE f == Last(frames)
           c == f.primaries[f.done + 1]
           h == Header(store, c)
           t == Renumbered(store, c, store.next_file_uid, NextUid(store))
           g == NewFrame(c, ReadChain(store.directory_index,
                              h.directory_index_offset, h.directory_count))
           new == EnterFrames(frames, g)
<1>1. phase = "normalise" /\ appended \in Nat /\ frames # <<>>
      /\ NormalInv(store, root, frames)
  BY DEF EnterDirectory, Tree
<1>2. PICK F, G, dep : Normalising(store, root, frames, F, G, dep)
  BY <1>1 DEF NormalInv
<1>3. /\ f.left = 0 /\ f.done < Kept(f)
      /\ IF f.current = -1 /\ ChainsReadable(store, c)
         THEN /\ store' = t /\ frames' = new
              /\ UNCHANGED <<phase, temporary, root, appended, index>>
         ELSE MergeFails
  BY DEF EnterDirectory, Renumbered, EnterFrames, Kept
<1>4. /\ f = Last(frames) /\ c = f.primaries[f.done + 1]
      /\ t = Renumbered(store, c, store.next_file_uid, NextUid(store))
      /\ g = NewFrame(c, ReadChain(store.directory_index,
                           Header(store, c).directory_index_offset,
                           Header(store, c).directory_count))
  OBVIOUS
<1> HIDE DEF f, c, t, g
<1>5. /\ Normalising(t, root, new, F, G, dep) /\ new # <<>>
      /\ f.current = -1 /\ ChainsReadable(store, c)
  BY <1>1, <1>2, <1>3, <1>4, DirectoryEntered
<1> HIDE DEF new
<1>6. NormalInv(t, root, new) BY <1>5 DEF NormalInv
<1> QED BY <1>1, <1>3, <1>5, <1>6 DEF Tree, HandedOver

LEMMA LeaveDirectoryTree ==
  ASSUME Tree, LeaveDirectory
  PROVE  Tree' /\ HandedOver'
<1> DEFINE f == Last(frames)
           atRoot == f.directory = -1
           h == Header(store, f.directory)
           totals == TotalsOf(store,
                       IF atRoot THEN root.files.count ELSE h.file_count,
                       f.chain)
<1>1. phase = "normalise" /\ appended \in Nat /\ frames # <<>>
      /\ NormalInv(store, root, frames)
  BY DEF LeaveDirectory, Tree
<1>2. PICK F, G, dep : Normalising(store, root, frames, F, G, dep)
  BY <1>1 DEF NormalInv
<1>3. /\ f.left = 0 /\ f.done = Kept(f)
      /\ IF Readable(store.directory_index, f.chain.first, f.chain.count)
         THEN /\ frames' = Front(frames)
              /\ IF atRoot
                 THEN /\ root' = ClosedRoot(root, f.chain, totals)
                      /\ UNCHANGED store
                 ELSE /\ store' = Rewritten(store, f.directory,
                                    LeftHeader(h, f.chain, totals))
                      /\ UNCHANGED root
              /\ phase' = IF atRoot THEN "finish" ELSE phase
              /\ UNCHANGED <<temporary, appended, index>>
         ELSE MergeFails
  BY DEF LeaveDirectory, ClosedRoot, Rewritten, LeftHeader, Kept
<1>4. f = Last(frames) /\ h = Header(store, f.directory) OBVIOUS
<1>5. FrameOK(store, f, G)
  BY <1>1, <1>2, TopFrame DEF Normalising
<1> HIDE DEF f, h, totals
<1>6. StoreOK(store) /\ Forest(store, F, G, dep, {}, Framed(frames))
  BY <1>2 DEF Normalising
<1>7. f.chain = ChainOf(G[f.directory]) /\ f.directory \in DOMAIN G
  BY <1>5 DEF FrameOK
<1>8. Readable(store.directory_index, f.chain.first, f.chain.count)
  <2>1. Path(store.directory_index, G[f.directory])
    BY <1>6, <1>7, ChainEntries
  <2>2. Linkable(store.directory_index) BY <1>6, StoreLinks
  <2>3. Readable(store.directory_index, FirstOf(G[f.directory]),
                 Len(G[f.directory]))
    BY <2>1, <2>2, PathReads
  <2> QED BY <2>3, <1>7 DEF ChainOf
<1>9. CASE f.directory = -1
  <2> DEFINE r == ClosedRoot(root, f.chain, totals)
  <2>1. Normalising(store, r, Front(frames), F, G, dep)
        /\ Front(frames) = <<>> /\ r.directories = ChainOf(G[-1])
    BY <1>1, <1>2, <1>3, <1>4, <1>7, <1>9, RootLeft
  <2>2. root' = r /\ UNCHANGED <<store, appended>> /\ phase' = "finish"
    BY <1>3, <1>8, <1>9
  <2> HIDE DEF r
  <2>3. ClosingInv(store, r) BY <2>1 DEF ClosingInv, Closing
  <2> QED BY <1>1, <2>2, <2>3 DEF Tree, HandedOver
<1>10. CASE f.directory # -1
  <2> DEFINE t == Rewritten(store, f.directory,
                            LeftHeader(h, f.chain, totals))
             new == Front(frames)
  <2>1. Normalising(t, root, new, F, G, dep) /\ new # <<>>
    BY <1>1, <1>2, <1>3, <1>4, <1>10, DirectoryLeft
  <2>2. /\ store' = t /\ frames' = new /\ UNCHANGED <<root, appended>>
        /\ phase' = phase
    BY <1>3, <1>8, <1>10
  <2> HIDE DEF t, new
  <2>3. NormalInv(t, root, new) BY <2>1 DEF NormalInv
  <2> QED BY <1>1, <2>1, <2>2, <2>3 DEF Tree, HandedOver
<1> QED BY <1>9, <1>10

LEMMA FinishMergeTree ==
  ASSUME Tree, FinishMerge
  PROVE  Tree' /\ HandedOver'
<1> DEFINE r == [root EXCEPT !.name = "root"]
           s == FinishDirectory(store, r)
           entry == [next |-> -1, record_offset |-> root.offset,
                     selection |-> root.selection]
           h == HeaderOf(r)
           t == Finished(store, h, entry)
<1>1. phase = "finish" /\ appended \in Nat /\ ClosingInv(store, root)
  BY DEF FinishMerge, Tree
<1>2. PICK F, G, dep : Normalising(store, root, <<>>, F, G, dep)
  BY <1>1 DEF ClosingInv, Closing
<1>3. IsState(root) /\ root.offset = 0 /\ root.file_uid = 0
      /\ root.selection \in Int
  BY <1>2 DEF Normalising, RootOK
<1>4. r.offset = 0 /\ r.file_uid = 0 BY <1>3 DEF IsState
<1>5. h.file_uid = 0 BY <1>4 DEF HeaderOf
<1>6. entry \in DirectoryEntries /\ entry.record_offset = 0
  BY <1>3 DEF DirectoryEntries
<1>7. StoreOK(store) BY <1>2 DEF Normalising
<1>8. s = Rewritten(store, 0, h) BY <1>4 DEF FinishDirectory, Rewritten
<1>9. s.directory_index = store.directory_index
  <2>1. IsStore(store) BY <1>7 DEF StoreOK, StoreForm
  <2> QED BY <2>1, <1>8 DEF IsStore, Rewritten
<1>10. /\ store' = [s EXCEPT !.directory_index =
                                AppendIndex(@, NewChain, entry)]
       /\ index' = [files |-> NewChain,
                    directories |-> AppendChain(s.directory_index, NewChain)]
       /\ phase' = "ready" /\ UNCHANGED <<root, appended>>
  BY DEF FinishMerge
<1>11. AppendIndex(s.directory_index, NewChain, entry)
         = Append(s.directory_index, entry)
  BY DEF AppendIndex, NewChain, Linked
<1>12. AppendChain(s.directory_index, NewChain).first
         = Len(store.directory_index)
  BY <1>9 DEF AppendChain, NewChain
<1> HIDE DEF entry, h
<1>13. store' = t
  BY <1>8, <1>10, <1>11 DEF Finished
<1>14. index'.directories.first = Len(store.directory_index)
  BY <1>10, <1>12
<1>15. Merged(t, root, F, G, dep)
       /\ DirectoryAt(t, Len(store.directory_index)) = 0
  BY <1>2, <1>5, <1>6, MergeFinished
<1> HIDE DEF t
<1>16. ReadyInv(t, root, Len(store.directory_index))
  BY <1>15 DEF ReadyInv
<1> QED BY <1>1, <1>10, <1>13, <1>14, <1>16 DEF Tree, HandedOver

LEMMA IoFailsTree ==
  ASSUME Tree, IoFails
  PROVE  Tree' /\ HandedOver'
BY DEF Tree, IoFails, MergeFails, HandedOver, Cause

LEMMA WorkersTree ==
  ASSUME Tree, NEW w, WorkerStep(w)
  PROVE  Tree' /\ HandedOver'
<1>1. /\ phase = "receive" /\ phase' = "receive"
      /\ UNCHANGED <<store, root, appended>>
  BY DEF WorkerStep, PopTask, CreateTemporary, ParseSource, SendResult,
         storeVars
<1> QED BY <1>1 DEF Tree, HandedOver

LEMMA CallerTree ==
  ASSUME IInv, Through, Tree, CallerStep
  PROVE  Tree' /\ HandedOver'
<1>1. CASE ParseFile
  BY <1>1 DEF ParseFile, Tree, HandedOver
<1>2. CASE Receive
  BY <1>2 DEF Receive, Tree, HandedOver, storeVars
<1>3. CASE Join
  <2>1. /\ phase = "receive" /\ UNCHANGED <<store, root, appended, call, fault>>
        /\ phase' = IF first_error THEN "failed" ELSE "append"
    BY <1>3 DEF Join, storeVars
  <2>2. first_error => Cause BY <2>1 DEF Through
  <2>3. Cause => Cause' BY <2>1, CauseKept
  <2> QED BY <2>1, <2>2, <2>3 DEF Tree, HandedOver
<1>4. CASE OpenFails
  BY <1>4 DEF OpenFails, Tree, HandedOver, Cause, storeVars
<1> QED BY <1>1, <1>2, <1>3, <1>4, StartMergeTree, AppendNextTree,
           StartNormaliseTree, NormaliseEntryTree, EnterDirectoryTree,
           LeaveDirectoryTree, FinishMergeTree, IoFailsTree DEF CallerStep

LEMMA MergeStep ==
  ASSUME IInv, Through, Tree, Next
  PROVE  IInv' /\ Through' /\ Tree' /\ (HandedOver => HandedOver')
<1>1. IInv' BY NextInv
<1>2. CASE CallerStep BY <1>1, <1>2, CallerThrough, CallerTree
<1>3. ASSUME NEW w \in 1..Parallelism, WorkerStep(w)
      PROVE  Through' /\ Tree' /\ HandedOver'
  BY <1>3, WorkersThrough, WorkersTree
<1>4. CASE Returned
  <2>1. /\ phase \in {"ready", "failed"}
        /\ UNCHANGED <<call, phase, store, root, appended, index, fault>>
    BY <1>4 DEF Returned, vars, storeVars
  <2>2. Through' BY <2>1 DEF Through, Late
  <2>3. Cause => Cause' BY <2>1, CauseKept
  <2> QED BY <1>1, <2>1, <2>2, <2>3 DEF Tree, HandedOver
<1> QED BY <1>1, <1>2, <1>3, <1>4 DEF Next

(* What a parse of one document may fail of.                               *)
ParseInv ==
  ~call.merge =>
    /\ phase \in {"start", "ready", "failed"}
    /\ phase = "failed" =>
         \/ fault
         \/ ~Parsed(Parse(FALSE, NoBarcode, call.documents[1].events)).ok

LEMMA ParseFileStep ==
  ASSUME ParseInv, Next
  PROVE  ParseInv'
<1> SUFFICES ASSUME ~call'.merge
             PROVE  /\ phase' \in {"start", "ready", "failed"}
                    /\ phase' = "failed" =>
                         \/ fault'
                         \/ ~Parsed(Parse(FALSE, NoBarcode,
                                          call'.documents[1].events)).ok
  BY DEF ParseInv
<1>1. CASE ParseFile
  <2> DEFINE p == Parsed(Parse(FALSE, NoBarcode,
                               call.documents[1].events))
  <2>1. PICK io \in BOOLEAN :
          IF p.ok /\ ~io THEN phase' = "ready"
          ELSE phase' = "failed" /\ fault' = io
    BY <1>1 DEF ParseFile
  <2>2. call' = call BY <1>1 DEF ParseFile
  <2> HIDE DEF p
  <2>3. phase' \in {"ready", "failed"}
        /\ (phase' = "failed" => fault' \/ ~p.ok)
    BY <2>1
  <2> QED BY <2>2, <2>3 DEF p
<1>2. CASE CallerStep /\ ~ParseFile /\ ~OpenFails
  <2>1. /\ call' = call
        /\ call.merge \/ phase \notin {"start", "ready", "failed"}
    BY <1>2 DEF CallerStep, StartMerge, Receive, Join, AppendNext,
         StartNormalise, NormaliseEntry, EnterDirectory, LeaveDirectory,
         FinishMerge, IoFails, MergeFails
  <2> QED BY <2>1 DEF ParseInv
<1>3. CASE \E w \in 1..Parallelism : WorkerStep(w)
  <2>1. /\ call' = call
        /\ phase \notin {"start", "ready", "failed"}
    BY <1>3 DEF WorkerStep, PopTask, CreateTemporary, ParseSource,
         SendResult
  <2> QED BY <2>1 DEF ParseInv
<1>4. CASE Returned
  <2>1. UNCHANGED <<call, phase, fault>> BY <1>4 DEF Returned, vars
  <2> QED BY <2>1 DEF ParseInv
<1>5. CASE OpenFails BY <1>5 DEF OpenFails
<1> QED BY <1>1, <1>2, <1>3, <1>4, <1>5 DEF Next

(***************************************************************************)
(* The questions asked of an index leave a merge alone, and the merged     *)
(* index too until a directory is sorted.                                  *)
(***************************************************************************)
Patching == {"patchfiles", "appenddirectories", "patchdirectories"}

QueryInv ==
  /\ sorts \in Nat
  /\ job # "none" => phase = "ready"
  /\ job \in Patching => sorts > 0

AskedInv ==
  /\ IInv /\ Through /\ Tree /\ ParseInv
  /\ sorts = 0 => HandedOver
  /\ QueryInv

LEMMA AskedInit == QueryInit => AskedInv
<1> SUFFICES ASSUME QueryInit PROVE AskedInv
  OBVIOUS
<1>1. IInv BY InitInv DEF QueryInit
<1>2. Through BY DEF QueryInit, Init, Through, Late
<1>3. Tree /\ HandedOver BY DEF QueryInit, Init, Tree, HandedOver
<1>4. QueryInv BY DEF QueryInit, QueryInv, Patching
<1>5. ParseInv BY DEF QueryInit, Init, ParseInv
<1> QED BY <1>1, <1>2, <1>3, <1>4, <1>5 DEF AskedInv

(* A step of a query, with the index in the application's hands.           *)
LEMMA QueryKeeps ==
  ASSUME AskedInv, phase = "ready",
         UNCHANGED <<call, phase, temporary, outputs, appended>>,
         sorts' = 0 => sorts = 0 /\ UNCHANGED <<store, root, index>>,
         sorts' \in Nat, job' \in Patching => sorts' > 0
  PROVE  AskedInv'
<1>1. IInv' BY DEF AskedInv, IInv, PhaseInv, NoTemporariesLeft
<1>2. Through' BY DEF Through, Late
<1>3. Tree' BY DEF AskedInv, Tree
<1>4. sorts' = 0 => HandedOver' BY DEF AskedInv, HandedOver
<1>5. QueryInv' BY DEF QueryInv
<1>6. ParseInv' BY DEF ParseInv
<1> QED BY <1>1, <1>2, <1>3, <1>4, <1>5, <1>6 DEF AskedInv

(* Most of them change nothing but the query's own state.                  *)
LEMMA OnlyAsks ==
  ASSUME AskedInv, phase = "ready", UNCHANGED vars, UNCHANGED sorts,
         job' = job \/ job' \notin Patching
  PROVE  AskedInv'
<1>1. UNCHANGED <<call, phase, temporary, outputs, appended, store, root,
                  index>>
  BY DEF vars, workVars, storeVars
<1>2. sorts \in Nat /\ (job \in Patching => sorts > 0)
  BY DEF AskedInv, QueryInv
<1> QED BY <1>1, <1>2, QueryKeeps

LEMMA TapeSortKeeps ==
  ASSUME AskedInv, TapeSort
  PROVE  AskedInv'
<1>1. phase = "ready"
  BY DEF AskedInv, QueryInv, TapeSort, StartTapeSort, VisitTapeFile,
         EnterTapeDirectory, LeaveTapeDirectory, RenameRun, MergeTapeRun,
         FinishTapeSort
<1>2. /\ UNCHANGED vars /\ UNCHANGED sorts
      /\ job' = job \/ job' \notin Patching
  BY DEF TapeSort, StartTapeSort, VisitTapeFile, EnterTapeDirectory,
         LeaveTapeDirectory, RenameRun, MergeTapeRun, FinishTapeSort,
         Patching
<1> QED BY <1>1, <1>2, OnlyAsks

LEMMA SearchKeeps ==
  ASSUME AskedInv, Search
  PROVE  AskedInv'
<1>1. phase = "ready"
  BY DEF AskedInv, QueryInv, Search, StartSearch, SearchFile,
         SearchDirectory, LeaveSearched, WrapAround
<1>2. /\ UNCHANGED vars /\ UNCHANGED sorts
      /\ job' = job \/ job' \notin Patching
  BY DEF Search, StartSearch, SearchFile, SearchDirectory, LeaveSearched,
         WrapAround, Found, Patching
<1> QED BY <1>1, <1>2, OnlyAsks

LEMMA DirectorySortKeeps ==
  ASSUME AskedInv, DirectorySort
  PROVE  AskedInv'
<1>1. phase = "ready"
  BY DEF AskedInv, QueryInv, DirectorySort, StartDirectorySort, CollectFile,
         MergeFile, FinishFiles, CollectDirectory, MergeDirectory,
         FinishDirectories, AppendFiles, PatchFiles, AppendDirectories,
         PatchDirectories, FinishOutput
<1>2. CASE \/ StartDirectorySort \/ CollectFile \/ MergeFile \/ FinishFiles
           \/ CollectDirectory \/ MergeDirectory \/ FinishDirectories
  <2>1. /\ UNCHANGED vars /\ UNCHANGED sorts
        /\ job' = job \/ job' \notin Patching
    BY <1>2 DEF StartDirectorySort, CollectFile, MergeFile, FinishFiles,
         CollectDirectory, MergeDirectory, FinishDirectories, FinishOutput,
         Collect, WriteNext, Patching
  <2> QED BY <1>1, <2>1, OnlyAsks
<1>3. CASE \/ AppendFiles \/ PatchFiles \/ AppendDirectories
           \/ PatchDirectories
  <2>1. UNCHANGED <<call, phase, temporary, outputs, appended>>
    BY <1>3 DEF AppendFiles, PatchFiles, AppendDirectories,
                PatchDirectories, Apply, workVars
  <2>2. sorts \in Nat /\ (job \in Patching => sorts > 0)
    BY DEF AskedInv, QueryInv
  <2>3. sorts' \in Nat /\ sorts' > 0
    BY <1>3, <2>2 DEF AppendFiles, PatchFiles, AppendDirectories,
                      PatchDirectories, Patching
  <2>4. sorts' # 0 BY <2>3
  <2> QED BY <1>1, <2>1, <2>3, <2>4, QueryKeeps
<1> QED BY <1>2, <1>3 DEF DirectorySort

LEMMA AskedNext ==
  ASSUME AskedInv, [QueryNext]_allVars
  PROVE  AskedInv'
<1>1. CASE Next /\ job = "none" /\ UNCHANGED queryVars
  <2>1. UNCHANGED <<job, sorts>> BY <1>1 DEF queryVars
  <2>2. IInv' /\ Through' /\ Tree' /\ (HandedOver => HandedOver')
    BY <1>1, MergeStep DEF AskedInv
  <2>3. QueryInv'
    BY <1>1, <2>1 DEF AskedInv, QueryInv, Patching
  <2>4. ParseInv' BY <1>1, ParseFileStep DEF AskedInv
  <2> QED BY <2>1, <2>2, <2>3, <2>4 DEF AskedInv
<1>2. CASE QueryFails \/ Answered
  <2>1. phase = "ready"
    BY <1>2 DEF AskedInv, QueryInv, QueryFails, Answered
  <2>2. /\ UNCHANGED <<call, phase, temporary, outputs, appended, store,
                       root, index, sorts>>
        /\ job' \notin Patching
    BY <1>2 DEF QueryFails, Answered, callVars, workVars, storeVars,
                Patching
  <2>3. sorts \in Nat BY DEF AskedInv, QueryInv
  <2> QED BY <2>1, <2>2, <2>3, QueryKeeps
<1>3. CASE UNCHANGED allVars
  <2>1. UNCHANGED vars /\ UNCHANGED <<job, sorts>>
    BY <1>3 DEF allVars, queryVars
  <2>2. UNCHANGED <<call, phase, sources, first_error, fault, store, root,
                    appended, frames, index, worker, channel>>
    BY <2>1 DEF vars, workVars, receiveVars, storeVars
  <2>3. IInv' BY <2>1, NextInv DEF AskedInv
  <2>4. Workers' = Workers /\ (Cause' <=> Cause)
    BY <2>2 DEF Workers, N, Cause
  <2>5. SentOK' <=> SentOK BY <2>2, <2>4 DEF SentOK
  <2>6. ChannelOK' <=> ChannelOK BY <2>2, <2>4 DEF ChannelOK
  <2>7. Through' BY <2>2, <2>4, <2>5, <2>6 DEF AskedInv, Through
  <2>8. Tree' /\ (HandedOver => HandedOver')
    BY <2>2, <2>4 DEF AskedInv, Tree, HandedOver
  <2>9. QueryInv' BY <2>1, <2>2 DEF AskedInv, QueryInv
  <2>10. ParseInv' BY <2>2 DEF AskedInv, ParseInv
  <2> QED BY <2>1, <2>3, <2>7, <2>8, <2>9, <2>10 DEF AskedInv
<1> QED BY <1>1, <1>2, <1>3, TapeSortKeeps, DirectorySortKeeps, SearchKeeps
        DEF QueryNext

LEMMA AskedInvariant == QuerySpec => []AskedInv
BY AskedInit, AskedNext, PTL DEF QuerySpec

(* At every step of a merge of any documents by any number of threads,     *)
(* also between the steps that take a duplicate directory apart, every     *)
(* file appended so far hangs in exactly one chain that is reached from    *)
(* the root, and no two chains of directories share an entry.              *)
THEOREM MergeLosesNothing == QuerySpec => []NothingLost
<1>1. AskedInv => NothingLost
  <2> SUFFICES ASSUME AskedInv PROVE NothingLost
    OBVIOUS
  <2>1. CASE phase = "append"
    <3>1. PICK F, G, dep : Appending(store, root, F, G, dep)
      BY <2>1 DEF AskedInv, Tree, AppendInv
    <3> QED BY <3>1, ForestLosesNothing DEF Appending, ChainOf
  <2>2. CASE phase \in {"normalise", "finish"}
    <3>1. PICK fs, F, G, dep : Normalising(store, root, fs, F, G, dep)
      BY <2>2 DEF AskedInv, Tree, NormalInv, ClosingInv, Closing
    <3> QED BY <3>1, ForestLosesNothing DEF Normalising, RootOK, ChainOf
  <2>3. CASE phase \notin {"append", "normalise", "finish"}
    BY <2>3 DEF NothingLost
  <2> QED BY <2>1, <2>2, <2>3
<1> QED BY <1>1, AskedInvariant, PTL

(* A merged index gives every file and every directory a uid of its own,   *)
(* none above the highest it states.                                       *)
THEOREM MergeNumbersApart == QuerySpec => []UidsUnique
<1>1. AskedInv => UidsUnique
  <2> SUFFICES ASSUME AskedInv, Fresh, call.merge PROVE UidsUnique
    BY DEF UidsUnique
  <2>1. ReadyInv(store, root, index.directories.first)
    BY DEF AskedInv, HandedOver, Fresh
  <2>2. PICK F, G, dep : Merged(store, root, F, G, dep)
    BY <2>1 DEF ReadyInv
  <2> QED BY <2>1, <2>2, MergedUids DEF ReadyInv
<1> QED BY <1>1, AskedInvariant, PTL

MergeReadsBack == call.merge => RecordsReadBack

(* Every file of a merged index reads back as a whole record: what         *)
(* index_rootempty finds in a parse does not reach a merge.                *)
THEOREM MergedRecordsReadBack == QuerySpec => []MergeReadsBack
<1>1. AskedInv => MergeReadsBack
  <2> SUFFICES ASSUME AskedInv, Fresh, call.merge,
                      NEW k \in DOMAIN store.file_index
               PROVE  FileAt(store, k - 1) # Damaged
    BY DEF MergeReadsBack, RecordsReadBack
  <2>1. ReadyInv(store, root, index.directories.first)
    BY DEF AskedInv, HandedOver, Fresh
  <2>2. StoreOK(store) BY <2>1 DEF ReadyInv, Merged
  <2>3. k \in 1..Len(store.file_index) BY <2>2, StoreLinks DEF Linkable
  <2>4. (k - 1) + 1 = k BY <2>2, <2>3, StoreLinks
  <2>5. ReadRecord(store, store.file_index[k].record_offset,
                   store.file_index[k].record_length) # Damaged
    BY <2>2, <2>3, WholeReads
  <2> QED BY <2>4, <2>5 DEF FileAt
<1> QED BY <1>1, AskedInvariant, PTL

(* Whatever the documents, the threads and the errors: a call fails only   *)
(* of an I/O error or a document that is no index.  The errors it raises   *)
(* about its own chains, headers and records never occur.                  *)
THEOREM CallsFailForCause == QuerySpec => []FailsForCause
<1>1. AskedInv => FailsForCause
  <2> SUFFICES ASSUME AskedInv, phase = "failed", ~fault,
                      \A k \in 1..N :
                        Complete(call.documents[k].events, call.merge)
               PROVE  FALSE
    BY DEF FailsForCause
  <2>1. call \in Calls BY DEF AskedInv, IInv
  <2>2. /\ call.documents \in Seq([barcode : STRING, events : Seq(Events)])
        /\ call.merge \in BOOLEAN
        /\ ~call.merge => Len(call.documents) = 1
    BY <2>1, MergeAssumption
  <2>3. ASSUME NEW k \in 1..N PROVE call.documents[k].events \in Seq(Events)
    <3>1. k \in 1..Len(call.documents) BY DEF N
    <3>2. call.documents[k] \in [barcode : STRING, events : Seq(Events)]
      BY <2>2, <3>1, ElementOfSeq
    <3> QED BY <3>2
  <2>4. CASE call.merge
    <3>1. PICK k \in 1..N : ~Good(call, k)
      BY <2>4 DEF AskedInv, Tree, Cause
    <3>2. Complete(call.documents[k].events, TRUE) BY <2>4, <2>2
    <3>3. Good(call, k) BY <2>3, <3>2, CompleteParses DEF Good
    <3> QED BY <3>1, <3>3
  <2>5. CASE ~call.merge
    <3>1. ~Parsed(Parse(FALSE, NoBarcode, call.documents[1].events)).ok
      BY <2>5 DEF AskedInv, ParseInv
    <3>2. 1 \in 1..N
      <4>1. N = 1 BY <2>2, <2>5 DEF N
      <4> QED BY <4>1
    <3>3. Complete(call.documents[1].events, FALSE)
      BY <2>2, <2>5, <3>2
    <3> QED BY <2>3, <3>1, <3>2, <3>3, CompleteParses
  <2> QED BY <2>4, <2>5
<1> QED BY <1>1, AskedInvariant, PTL

(***************************************************************************)
(* Entries are appended.                                                   *)
(***************************************************************************)
IsLengthened(list, rows, new) ==
  Extends(list, new) /\ EndsWith(new, rows, Len(list))

LEMMA Lengthened ==
  ASSUME NEW list, Sequential(list), Linkable(list),
         NEW rows, Sequential(rows),
         \A p \in 1..Len(rows) : rows[p].next \in Int
  PROVE  IsLengthened(list, rows, list \o rows)
<1>1. PICK S : list \in Seq(S) BY DEF Sequential
<1>2. PICK T : rows \in Seq(T) BY DEF Sequential
<1> DEFINE U == S \cup T  new == list \o rows
<1>3. list \in Seq(U) /\ rows \in Seq(U) BY <1>1, <1>2, SeqSubset
<1> HIDE DEF U
<1>4. IsConcat(U, list, rows, new) BY <1>3, ConcatFacts
<1>5. Len(list) \in Nat /\ Len(rows) \in Nat
  BY <1>3, LenProperties
<1> HIDE DEF new
<1>6. /\ new \in Seq(U) /\ Len(new) = Len(list) + Len(rows)
      /\ \A k \in 1..(Len(list) + Len(rows)) :
           new[k] = IF k <= Len(list) THEN list[k] ELSE rows[k - Len(list)]
  BY <1>4 DEF IsConcat
<1>7. \A k \in 1..Len(list) : new[k] = list[k]
  BY <1>5, <1>6
<1>8. \A p \in 1..Len(rows) : new[Len(list) + p] = rows[p]
  BY <1>5, <1>6
<1>9. DOMAIN new = 1..Len(new) /\ Len(new) \in Nat
  BY <1>6, LenProperties
<1>10. ASSUME NEW k \in 1..Len(new) PROVE new[k].next \in Int
  <2>1. CASE k <= Len(list)
    <3>1. k \in 1..Len(list) BY <2>1, <1>5, <1>6
    <3>2. list[k].next \in Int BY <3>1 DEF Linkable
    <3> QED BY <3>1, <3>2, <1>7
  <2>2. CASE ~(k <= Len(list))
    <3>1. k - Len(list) \in 1..Len(rows)
          /\ Len(list) + (k - Len(list)) = k
      BY <2>2, <1>5, <1>6
    <3>2. new[k] = rows[k - Len(list)] BY <3>1, <1>8
    <3> QED BY <3>1, <3>2
  <2> QED BY <2>1, <2>2
<1>11. Linkable(new) BY <1>9, <1>10 DEF Linkable
<1>12. Sequential(new) BY <1>6 DEF Sequential
<1> QED BY <1>5, <1>6, <1>7, <1>8, <1>11, <1>12
        DEF IsLengthened, Extends, EndsWith, new

AllStay(s, t, D) ==
  /\ Usable(t, D) /\ Grows(s, t, D)
  /\ \A e \in D : StaysSame(s, t, e, D)

LEMMA HeadersStay ==
  ASSUME NEW s, NEW D, Usable(s, D), NEW t, IsStore(t),
         t.file_records = s.file_records, t.directories = s.directories,
         Extends(s.file_index, t.file_index),
         Extends(s.directory_index, t.directory_index)
  PROVE  AllStay(s, t, D)
<1>1. \A e : Header(t, e) = Header(s, e) BY DEF Header
<1>2. Grows(s, t, D) BY <1>1 DEF Grows, Usable
<1>3. \A e \in D : StaysSame(s, t, e, D)
  BY <1>1, <1>2, ChildrenStay
<1>4. Usable(t, D)
  BY <1>3 DEF Usable, StaysSame, Extends
<1> QED BY <1>2, <1>3, <1>4 DEF AllStay

LEMMA FilesAppended ==
  ASSUME NEW s, NEW D, Usable(s, D), NEW rows, Sequential(rows),
         \A p \in 1..Len(rows) : rows[p].next \in Int,
         NEW t, t = [s EXCEPT !.file_index = s.file_index \o rows]
  PROVE  /\ AllStay(s, t, D)
         /\ EndsWith(t.file_index, rows, Len(s.file_index))
         /\ t.directory_index = s.directory_index
<1> DEFINE new == s.file_index \o rows
<1>1. /\ IsStore(s) /\ Sequential(s.file_index) /\ Linkable(s.file_index)
      /\ Sequential(s.directory_index) /\ Linkable(s.directory_index)
  BY DEF Usable
<1>2. IsLengthened(s.file_index, rows, new) BY <1>1, Lengthened
<1> HIDE DEF new
<1>3. /\ IsStore(t) /\ t.file_records = s.file_records
      /\ t.directories = s.directories /\ t.file_index = new
      /\ t.directory_index = s.directory_index
  BY <1>1 DEF IsStore, new
<1>4. Len(s.directory_index) \in Nat BY <1>1 DEF Linkable
<1>5. Extends(s.directory_index, t.directory_index)
  BY <1>1, <1>3, <1>4 DEF Extends
<1>6. Extends(s.file_index, t.file_index) BY <1>2, <1>3 DEF IsLengthened
<1>7. AllStay(s, t, D) BY <1>3, <1>5, <1>6, HeadersStay
<1> QED BY <1>2, <1>3, <1>7 DEF IsLengthened

LEMMA DirectoriesAppended ==
  ASSUME NEW s, NEW D, Usable(s, D), NEW rows, Sequential(rows),
         \A p \in 1..Len(rows) : rows[p].next \in Int,
         NEW t, t = [s EXCEPT !.directory_index = s.directory_index \o rows]
  PROVE  /\ AllStay(s, t, D)
         /\ EndsWith(t.directory_index, rows, Len(s.directory_index))
         /\ t.file_index = s.file_index
<1> DEFINE new == s.directory_index \o rows
<1>1. /\ IsStore(s) /\ Sequential(s.file_index) /\ Linkable(s.file_index)
      /\ Sequential(s.directory_index) /\ Linkable(s.directory_index)
  BY DEF Usable
<1>2. IsLengthened(s.directory_index, rows, new) BY <1>1, Lengthened
<1> HIDE DEF new
<1>3. /\ IsStore(t) /\ t.file_records = s.file_records
      /\ t.directories = s.directories /\ t.directory_index = new
      /\ t.file_index = s.file_index
  BY <1>1 DEF IsStore, new
<1>4. Len(s.file_index) \in Nat BY <1>1 DEF Linkable
<1>5. Extends(s.file_index, t.file_index)
  BY <1>1, <1>3, <1>4 DEF Extends
<1>6. Extends(s.directory_index, t.directory_index)
  BY <1>2, <1>3 DEF IsLengthened
<1>7. AllStay(s, t, D) BY <1>3, <1>5, <1>6, HeadersStay
<1> QED BY <1>2, <1>3, <1>7 DEF IsLengthened

(* A directory with one file, or none, is sorted as it stands.             *)
LEMMA FewFiles ==
  ASSUME NEW s, NEW D, Usable(s, D), NEW d \in D,
         Len(FilesOf(s, Header(s, d))) <= 1
  PROVE  Children(s, d).files = InOrder(Children(s, d).files)
<1> DEFINE h == Header(s, d)  files == FilesOf(s, h)
           directories == DirectoriesOf(s, h)  y == Children(s, d).files
<1>1. Linkable(s.file_index) /\ Linkable(s.directory_index)
      /\ Reads(s, h, D)
  BY DEF Usable
<1>2. HoldsIn(s, d, D, files, directories) BY <1>1, ChildrenAre
<1>3. IsRead(s, h, files, directories) BY <1>1, ReadsIs
<1>4. Sequential(files) BY <1>3 DEF IsRead
<1>5. Len(files) \in Nat BY <1>4, LenProperties DEF Sequential
<1>6. y = [k \in 1..Len(files) |-> y[k]]
  <2>1. y = FilesSeen(s, files) BY <1>2 DEF HoldsIn
  <2> QED BY <2>1 DEF FilesSeen
<1> HIDE DEF y, files
<1>7. Sequential(y) /\ Len(y) = Len(files)
  BY <1>5, <1>6, SequentialFunction
<1>8. Len(y) <= 1 BY <1>7 DEF files
<1>9. y = InOrder(y) BY <1>7, <1>8, FewStay
<1> QED BY <1>9 DEF y

LEMMA FewDirectories ==
  ASSUME NEW s, NEW D, Usable(s, D), NEW d \in D,
         Len(DirectoriesOf(s, Header(s, d))) <= 1
  PROVE  Children(s, d).directories = InOrder(Children(s, d).directories)
<1> DEFINE h == Header(s, d)  files == FilesOf(s, h)
           directories == DirectoriesOf(s, h)
           y == Children(s, d).directories
<1>1. Linkable(s.file_index) /\ Linkable(s.directory_index)
      /\ Reads(s, h, D)
  BY DEF Usable
<1>2. HoldsIn(s, d, D, files, directories) BY <1>1, ChildrenAre
<1>3. IsRead(s, h, files, directories) BY <1>1, ReadsIs
<1>4. Sequential(directories) BY <1>3 DEF IsRead
<1>5. Len(directories) \in Nat BY <1>4, LenProperties DEF Sequential
<1>6. y = [k \in 1..Len(directories) |-> y[k]]
  <2>1. y = DirectoriesSeen(s, directories) BY <1>2 DEF HoldsIn
  <2> QED BY <2>1 DEF DirectoriesSeen
<1> HIDE DEF y, directories
<1>7. Sequential(y) /\ Len(y) = Len(directories)
  BY <1>5, <1>6, SequentialFunction
<1>8. Len(y) <= 1 BY <1>7 DEF directories
<1>9. y = InOrder(y) BY <1>7, <1>8, FewStay
<1> QED BY <1>9 DEF y

(* What was to be sorted stays to be sorted.                               *)
LEMMA FileItemsStay ==
  ASSUME NEW s, NEW D, Usable(s, D), NEW t, Grows(s, t, D),
         NEW files, \A k \in 1..Len(files) :
                      files[k] \in 0..(Len(s.file_index) - 1)
  PROVE  FileItems(t, files) = FileItems(s, files)
<1>1. \A x \in 0..(Len(s.file_index) - 1) :
        /\ t.file_index[x + 1] = s.file_index[x + 1]
        /\ FileAt(t, x) = FileAt(s, x)
  BY EntriesStay
<1>2. ASSUME NEW k \in 1..Len(files)
      PROVE  FileItem(t, files[k], k) = FileItem(s, files[k], k)
  <2>1. files[k] \in 0..(Len(s.file_index) - 1) OBVIOUS
  <2> QED BY <2>1, <1>1 DEF FileItem
<1> QED BY <1>2 DEF FileItems

LEMMA DirectoryItemsStay ==
  ASSUME NEW s, NEW D, Usable(s, D), NEW t, Grows(s, t, D),
         NEW directories,
         \A k \in 1..Len(directories) :
           /\ directories[k] \in 0..(Len(s.directory_index) - 1)
           /\ DirectoryAt(s, directories[k]) \in D
  PROVE  DirectoryItems(t, directories) = DirectoryItems(s, directories)
<1>1. \A x \in 0..(Len(s.directory_index) - 1) :
        /\ t.directory_index[x + 1] = s.directory_index[x + 1]
        /\ DirectoryAt(t, x) = DirectoryAt(s, x)
        /\ DirectoryAt(s, x) \in D => NameAt(t, x) = NameAt(s, x)
  BY EntriesStay
<1>2. ASSUME NEW k \in 1..Len(directories)
      PROVE  DirectoryItem(t, directories[k], k)
               = DirectoryItem(s, directories[k], k)
  <2>1. /\ directories[k] \in 0..(Len(s.directory_index) - 1)
        /\ DirectoryAt(s, directories[k]) \in D
    OBVIOUS
  <2> QED BY <2>1, <1>1 DEF DirectoryItem
<1> QED BY <1>2 DEF DirectoryItems

(***************************************************************************)
(* The directories the application shows are directories of D.             *)
(***************************************************************************)
TargetsOf(s, walk) == {DirectoryAt(s, e) : e \in Elements(walk)}
Under(s, d) == TargetsOf(s, DirectoriesOf(s, Header(s, d)))
Roots(s, chain) ==
  TargetsOf(s, Walk(s.directory_index, chain.first, chain.count))

IsBelow(s, chain, n, f) ==
  f = [k \in 0..n |-> IF k = 0 THEN Roots(s, chain)
                      ELSE UNION {Under(s, d) : d \in f[k - 1]}]

LEMMA BelowExists ==
  ASSUME NEW s, NEW chain, NEW n \in Nat
  PROVE  \E f : IsBelow(s, chain, n, f)
<1> DEFINE Step(A) == UNION {Under(s, d) : d \in A}
           Rec(m, f) == f = [k \in 0..m |-> IF k = 0 THEN Roots(s, chain)
                                            ELSE Step(f[k - 1])]
           T == {m \in 0..n : ~ \E f : Rec(m, f)}
<1>1. T = {}
  <2> SUFFICES ASSUME T # {} PROVE FALSE OBVIOUS
  <2> HIDE DEF Step
  <2>1. PICK m \in T : \A j \in T : m <= j
    <3>1. T \subseteq Nat OBVIOUS
    <3> HIDE DEF T
    <3> QED BY <3>1, LeastNat
  <2>2. m # 0
    <3> SUFFICES ASSUME m = 0 PROVE FALSE OBVIOUS
    <3>1. Rec(0, [k \in 0..0 |-> Roots(s, chain)]) OBVIOUS
    <3> HIDE DEF Rec
    <3> QED BY <3>1, <2>1
  <2>3. m \in 1..n /\ m - 1 \in 0..n /\ m - 1 \notin T BY <2>1, <2>2
  <2>4. PICK f : Rec(m - 1, f) BY <2>3
  <2> DEFINE g == [k \in 0..m |-> IF k = 0 THEN Roots(s, chain)
                                  ELSE Step(f[k - 1])]
  <2>5. ASSUME NEW k \in 1..m PROVE g[k - 1] = f[k - 1]
    <3>1. k - 1 \in 0..m /\ k - 1 \in 0..(m - 1) BY <2>3
    <3> QED BY <3>1, <2>4
  <2>6. ASSUME NEW k \in 0..m
        PROVE  g[k] = IF k = 0 THEN Roots(s, chain) ELSE Step(g[k - 1])
    <3>1. CASE k = 0 BY <3>1
    <3>2. CASE k # 0
      <4>1. k \in 1..m BY <3>2, <2>3
      <4>2. g[k] = Step(f[k - 1]) BY <3>2
      <4> HIDE DEF g
      <4> QED BY <4>1, <4>2, <3>2, <2>5
    <3> QED BY <3>1, <3>2
  <2>7. g = [k \in 0..m |-> g[k]] OBVIOUS
  <2>8. Rec(m, g)
    <3> HIDE DEF g
    <3> QED BY <2>6, <2>7
  <2> HIDE DEF Rec, g
  <2> QED BY <2>8, <2>1
<1>2. PICK f : Rec(n, f)
  <2> HIDE DEF Rec
  <2> QED BY <1>1
<1>3. Rec(n, f) <=> IsBelow(s, chain, n, f) BY DEF IsBelow
<1> QED BY <1>2, <1>3

LEMMA WalkWithin ==
  ASSUME NEW s, Linkable(s.directory_index), NEW first, NEW n, NEW D,
         Stays(s.directory_index, first, n),
         \A k \in 1..n :
           DirectoryAt(s, Walk(s.directory_index, first, n)[k]) \in D
  PROVE  TargetsOf(s, Walk(s.directory_index, first, n)) \subseteq D
<1> DEFINE w == Walk(s.directory_index, first, n)
<1>1. IsStep(s.directory_index, first, n, w) BY StaysWalk
<1> HIDE DEF w
<1>2. Sequential(w) /\ Len(w) = n BY <1>1 DEF IsStep
<1>3. DOMAIN w = 1..n BY <1>2, LenProperties DEF Sequential
<1> QED BY <1>3 DEF w, TargetsOf, Elements

LEMMA DirectoriesWithin ==
  ASSUME NEW D, Usable(store, D), Rooted(store, index.directories, D)
  PROVE  Directories \subseteq D
<1> DEFINE n == Len(store.directories)  chain == index.directories
           below == CHOOSE f : IsBelow(store, chain, n, f)
           T == {k \in 0..n : ~(below[k] \subseteq D)}
<1>1. n \in Nat /\ Linkable(store.directory_index)
  BY LenProperties DEF Usable, Sequential
<1>2. IsBelow(store, chain, n, below) BY <1>1, BelowExists
<1>3. Directories = UNION {below[k] : k \in 0..n}
  BY DEF Directories, IsBelow, Roots, Under, TargetsOf
<1>4. Roots(store, chain) \subseteq D
  BY <1>1, WalkWithin DEF Rooted, Roots
<1>5. ASSUME NEW d \in D PROVE Under(store, d) \subseteq D
  BY <1>1, WalkWithin DEF Usable, Reads, Under, DirectoriesOf
<1> HIDE DEF below, n, chain
<1>6. T = {}
  <2> SUFFICES ASSUME T # {} PROVE FALSE OBVIOUS
  <2>1. PICK m \in T : \A j \in T : m <= j
    <3>1. T \subseteq Nat BY <1>1
    <3> HIDE DEF T
    <3> QED BY <3>1, LeastNat
  <2>2. \A k \in 0..n : below[k] =
          IF k = 0 THEN Roots(store, chain)
          ELSE UNION {Under(store, d) : d \in below[k - 1]}
    BY <1>2, Zenon DEF IsBelow
  <2>3. m # 0 BY <2>1, <2>2, <1>4
  <2>4. m - 1 \in 0..n /\ m - 1 \notin T BY <2>1, <2>3, <1>1
  <2>5. below[m - 1] \subseteq D BY <2>4
  <2>6. below[m] \subseteq D
    <3>1. below[m] = UNION {Under(store, d) : d \in below[m - 1]}
      BY <2>1, <2>2, <2>3
    <3>2. \A d \in below[m - 1] : Under(store, d) \subseteq D
      BY <2>5, <1>5
    <3> QED BY <3>1, <3>2
  <2> QED BY <2>1, <2>6
<1> QED BY <1>3, <1>6

(***************************************************************************)
(* The index an application is given can be read.                          *)
(***************************************************************************)
LEMMA PathStays ==
  ASSUME NEW list, Linkable(list), NEW s, Path(list, s), NEW n \in Nat,
         n <= Len(s)
  PROVE  /\ Stays(list, FirstOf(s), n)
         /\ \A k \in 1..n : Walk(list, FirstOf(s), n)[k] = s[k]
<1>1. /\ Len(s) \in Nat /\ FirstOf(s) \in Int
      /\ \A k \in 1..Len(s) : s[k] \in 0..(Len(list) - 1)
  BY PathEntry
<1>2. \A k \in 1..n : Walk(list, FirstOf(s), n)[k] = s[k]
  BY <1>1, PathWalk
<1> QED BY <1>1, <1>2 DEF Stays

(* A header that states the chains of an owner, or the beginning of them.  *)
LEMMA HeadReadsOn ==
  ASSUME NEW s, Linkable(s.file_index), Linkable(s.directory_index),
         NEW files, Path(s.file_index, files),
         NEW directories, Path(s.directory_index, directories),
         NEW h, IsHeader(h),
         h.file_index_offset = FirstOf(files), h.file_count = Len(files),
         h.directory_index_offset = FirstOf(directories),
         h.directory_count = Len(directories),
         NEW D, \A k \in 1..Len(directories) :
                  DirectoryAt(s, directories[k]) \in D
  PROVE  Reads(s, h, D)
<1>1. Len(files) \in Nat /\ Len(directories) \in Nat BY PathEntry
<1>2. Stays(s.file_index, FirstOf(files), Len(files))
  BY <1>1, PathStays
<1>3. /\ Stays(s.directory_index, FirstOf(directories), Len(directories))
      /\ \A k \in 1..Len(directories) :
           Walk(s.directory_index, FirstOf(directories),
                Len(directories))[k] = directories[k]
  BY <1>1, PathStays
<1> QED BY <1>2, <1>3 DEF Reads, DirectoriesOf

IsUsable(s, F, G, dep, D) ==
  StoreForm(s) /\ Forest(s, F, G, dep, {}, {}) /\ D = DOMAIN G \ {-1}

LEMMA ForestUsable ==
  ASSUME NEW s, NEW F, NEW G, NEW dep, NEW D, IsUsable(s, F, G, dep, D)
  PROVE  /\ Usable(s, D)
         /\ \A d \in DOMAIN G : /\ Path(s.file_index, F[d])
                                /\ Path(s.directory_index, G[d])
                                /\ \A k \in 1..Len(G[d]) :
                                     DirectoryAt(s, G[d][k]) \in D
<1>1. /\ Owners(s, F, G, {}) /\ Lists(s.file_index, F)
      /\ Lists(s.directory_index, G) /\ Hung(s, G, dep, {})
      /\ Heads(s, F, G, {}, {}) /\ StoreForm(s) /\ D = DOMAIN G \ {-1}
  BY Zenon DEF Forest, IsUsable
<1>2. /\ Linkable(s.file_index) /\ Linkable(s.directory_index)
      /\ IsStore(s) /\ Sequential(s.directories)
      /\ Sequential(s.file_index) /\ Sequential(s.directory_index)
      /\ Len(s.directories) \in Nat
  BY <1>1, FormLinks DEF StoreForm, Sequential
<1>3. DOMAIN F = DOMAIN G /\ D \subseteq 0..(Len(s.directories) - 1)
  BY <1>1 DEF Owners
<1>4. ASSUME NEW d \in DOMAIN G
      PROVE  /\ Path(s.file_index, F[d]) /\ Path(s.directory_index, G[d])
             /\ \A k \in 1..Len(G[d]) : DirectoryAt(s, G[d][k]) \in D
  BY <1>1, <1>3 DEF Lists, Hung
<1>5. ASSUME NEW d \in D PROVE Reads(s, Header(s, d), D)
  <2>1. HeadOf(Header(s, d), F[d], G[d])
        /\ Header(s, d).directory_count = Len(G[d])
    BY <1>1, <1>3 DEF Heads
  <2>2. d \in DOMAIN G BY <1>1
  <2> QED BY <2>1, <2>2, <1>2, <1>4, HeadReadsOn DEF HeadOf
<1> QED BY <1>2, <1>3, <1>4, <1>5 DEF Usable

LEMMA ForestRooted ==
  ASSUME NEW s, Linkable(s.directory_index), NEW first, NEW path,
         Path(s.directory_index, path), NEW D,
         \A k \in 1..Len(path) : DirectoryAt(s, path[k]) \in D,
         NEW chain, chain.first = FirstOf(path), chain.count = Len(path)
  PROVE  Rooted(s, chain, D)
<1>1. Len(path) \in Nat BY PathEntry
<1>2. /\ Stays(s.directory_index, FirstOf(path), Len(path))
      /\ \A k \in 1..Len(path) :
           Walk(s.directory_index, FirstOf(path), Len(path))[k] = path[k]
  BY <1>1, PathStays
<1> QED BY <1>2 DEF Rooted

CanRead(s, chain) == \E D : Usable(s, D) /\ Rooted(s, chain, D)

LEMMA ParsedReads ==
  ASSUME NEW s, NEW r, NEW H, NEW K, NEW deq, IsParsed(s, r, H, K, deq)
  PROVE  CanRead(s, r.directories)
<1> DEFINE D == DOMAIN K \ {-1}
<1>1. IsUsable(s, H, K, deq, D) BY DEF IsParsed, IsUsable
<1>2. /\ StoreForm(s) /\ r.directories = ChainOf(K[-1])
      /\ -1 \in DOMAIN K
  BY DEF IsParsed, Forest, Owners
<1>3. Linkable(s.directory_index) BY <1>2, FormLinks
<1> HIDE DEF D
<1>4. Usable(s, D) BY <1>1, ForestUsable
<1>5. Path(s.directory_index, K[-1])
      /\ \A k \in 1..Len(K[-1]) : DirectoryAt(s, K[-1][k]) \in D
  BY <1>1, <1>2, ForestUsable
<1>6. Rooted(s, r.directories, D)
  BY <1>2, <1>3, <1>5, ForestRooted DEF ChainOf
<1> QED BY <1>4, <1>6 DEF CanRead

LEMMA MergeReads ==
  ASSUME NEW s, NEW r, NEW F, NEW G, NEW dep, Closing(s, r, F, G, dep),
         NEW h, IsHeader(h), h.file_uid = 0,
         h.file_index_offset = r.files.first, h.file_count = r.files.count,
         h.directory_index_offset = r.directories.first,
         h.directory_count = r.directories.count,
         NEW entry \in DirectoryEntries, entry.record_offset = 0,
         entry.next = -1,
         NEW t, t = Finished(s, h, entry),
         NEW chain, chain.first = Len(s.directory_index), chain.count = 1
  PROVE  CanRead(t, chain)
<1> DEFINE n == Len(s.directory_index)  top == <<n>>
           E == DOMAIN G \ {-1}  D == {0} \cup E
<1>1. /\ Normalising(s, r, <<>>, F, G, dep)
      /\ r.directories = ChainOf(G[-1]) /\ r.files = ChainOf(F[-1])
      /\ StoreOK(s) /\ Len(s.directories) >= 1
  BY DEF Closing, Normalising, RootOK
<1>2. Merged(t, r, F, G, dep) /\ DirectoryAt(t, n) = 0
  BY <1>1, MergeFinished
<1>3. /\ StoreOK(t) /\ Forest(t, F, G, dep, {}, {})
  BY <1>2 DEF Merged
<1>4. IsUsable(t, F, G, dep, E) BY <1>3 DEF IsUsable, StoreOK
<1>5. -1 \in DOMAIN G BY <1>3 DEF Forest, Owners
<1>6. /\ n \in Nat /\ Linkable(s.directory_index)
      /\ IsStore(s) /\ Sequential(s.directories)
      /\ Len(s.directories) \in Nat
      /\ s.directory_index \in Seq(DirectoryEntries)
  BY <1>1, StoreLinks DEF StoreOK, StoreForm
<1> DEFINE u == Rewritten(s, 0, h)  new == Append(s.directory_index, entry)
<1>7. IsRewritten(s, 0, h, u)
  BY <1>1, <1>6, RewrittenIs
<1>8. t = [u EXCEPT !.directory_index = new]
  BY <1>7 DEF Finished, IsRewritten
<1> HIDE DEF u
<1>9. /\ new[n + 1] = entry /\ Len(new) = n + 1
  BY <1>6, AppendProperties
<1> HIDE DEF new, n
<1>10. /\ t.directories = u.directories /\ t.directory_index = new
       /\ t.file_index = u.file_index
  BY <1>7, <1>8 DEF IsRewritten, IsStore
<1>11. /\ Header(t, 0) = h /\ Len(t.directories) = Len(s.directories)
  BY <1>1, <1>6, <1>7, <1>10 DEF IsRewritten, Header
<1>12. /\ Linkable(t.file_index) /\ Linkable(t.directory_index)
  BY <1>3, StoreLinks
<1> HIDE DEF E
<1>13. /\ Usable(t, E)
       /\ Path(t.file_index, F[-1]) /\ Path(t.directory_index, G[-1])
       /\ \A k \in 1..Len(G[-1]) : DirectoryAt(t, G[-1][k]) \in E
  BY <1>4, <1>5, ForestUsable
<1>14. Reads(t, h, D)
  <2>1. \A k \in 1..Len(G[-1]) : DirectoryAt(t, G[-1][k]) \in D BY <1>13
  <2> HIDE DEF D
  <2> QED BY <1>1, <1>12, <1>13, <2>1, HeadReadsOn DEF ChainOf
<1>15. Usable(t, D)
  <2>1. \A d \in E : Reads(t, Header(t, d), D)
    BY <1>13 DEF Usable, Reads
  <2>2. D \subseteq 0..(Len(t.directories) - 1)
    BY <1>1, <1>6, <1>11, <1>13 DEF Usable
  <2>3. \A d \in D : Reads(t, Header(t, d), D) BY <1>11, <1>14, <2>1
  <2> HIDE DEF D
  <2> QED BY <1>13, <2>2, <2>3 DEF Usable
<1>16. Path(t.directory_index, top)
  <2>1. top \in Seq(0..(Len(t.directory_index) - 1)) /\ Len(top) = 1
    BY <1>6, <1>9, <1>10 DEF n
  <2>2. t.directory_index[top[1] + 1].next = -1 BY <1>9, <1>10
  <2> QED BY <2>1, <2>2 DEF Path
<1>17. \A k \in 1..Len(top) : DirectoryAt(t, top[k]) \in D BY <1>2
<1>18. FirstOf(top) = n /\ Len(top) = 1 BY DEF FirstOf
<1> HIDE DEF D, top
<1>19. Rooted(t, chain, D)
  BY <1>12, <1>16, <1>17, <1>18, ForestRooted DEF n
<1> QED BY <1>15, <1>19 DEF CanRead

(* The index handed over by a step is one that reads.                      *)
ReadInv == phase = "ready" => CanRead(store, index.directories)

LEMMA FinishReads ==
  ASSUME Tree, FinishMerge
  PROVE  ReadInv'
<1> DEFINE r == [root EXCEPT !.name = "root"]
           s == FinishDirectory(store, r)
           entry == [next |-> -1, record_offset |-> root.offset,
                     selection |-> root.selection]
           h == HeaderOf(r)
<1>1. phase = "finish" /\ ClosingInv(store, root)
  BY DEF FinishMerge, Tree
<1>2. PICK F, G, dep : Closing(store, root, F, G, dep)
  BY <1>1 DEF ClosingInv
<1>3. IsState(root) /\ root.offset = 0 /\ root.file_uid = 0
      /\ root.selection \in Int /\ StoreOK(store)
  BY <1>2 DEF Closing, Normalising, RootOK
<1>4. /\ r.offset = 0 /\ r.file_uid = 0 /\ r.files = root.files
      /\ r.directories = root.directories
  BY <1>3 DEF IsState
<1> HIDE DEF r
<1>5. /\ IsHeader(h) /\ h.file_uid = 0
      /\ h.file_index_offset = root.files.first
      /\ h.file_count = root.files.count
      /\ h.directory_index_offset = root.directories.first
      /\ h.directory_count = root.directories.count
  BY <1>4 DEF HeaderOf, IsHeader
<1>6. entry \in DirectoryEntries /\ entry.record_offset = 0
      /\ entry.next = -1
  BY <1>3 DEF DirectoryEntries
<1>7. s = Rewritten(store, 0, h) BY <1>4 DEF FinishDirectory, Rewritten
<1>8. s.directory_index = store.directory_index
  <2>1. IsStore(store) BY <1>3 DEF StoreOK, StoreForm
  <2> QED BY <2>1, <1>7 DEF IsStore, Rewritten
<1>9. /\ store' = [s EXCEPT !.directory_index =
                               AppendIndex(@, NewChain, entry)]
      /\ index'.directories = AppendChain(s.directory_index, NewChain)
  BY DEF FinishMerge, r
<1>10. AppendIndex(s.directory_index, NewChain, entry)
         = Append(s.directory_index, entry)
  BY DEF AppendIndex, NewChain, Linked
<1>11. /\ index'.directories.first = Len(store.directory_index)
       /\ index'.directories.count = 1
  BY <1>8, <1>9 DEF AppendChain, NewChain
<1> HIDE DEF entry, h, s
<1>12. store' = Finished(store, h, entry)
  BY <1>7, <1>9, <1>10 DEF Finished
<1>13. CanRead(store', index'.directories)
  BY <1>2, <1>5, <1>6, <1>11, <1>12, MergeReads
<1> QED BY <1>13 DEF ReadInv

LEMMA ParseReads ==
  ASSUME IInv, ParseFile
  PROVE  ReadInv'
<1> DEFINE p == Parse(FALSE, NoBarcode, call.documents[1].events)
<1>1. call \in Calls /\ ~call.merge BY DEF IInv, ParseFile
<1>2. call.documents[1].events \in Seq(Events)
  <2>1. call.documents \in Seq([barcode : STRING, events : Seq(Events)])
        /\ Len(call.documents) = 1
    BY <1>1, MergeAssumption
  <2>2. 1 \in 1..Len(call.documents) BY <2>1
  <2>3. call.documents[1] \in [barcode : STRING, events : Seq(Events)]
    BY <2>1, <2>2, ElementOfSeq
  <2> QED BY <2>3
<1>3. NoBarcode \in Barcodes BY DEF Barcodes
<1>4. Parseable(p, FALSE) BY <1>2, <1>3, SourceParses
<1>5. \/ phase' = "failed"
      \/ /\ Parsed(p).ok /\ store' = Parsed(p).store
         /\ index'.directories = Parsed(p).root.directories
  <2> DEFINE q == Parsed(p)
  <2>1. PICK io \in BOOLEAN :
          IF q.ok /\ ~io
          THEN /\ store' = q.store
               /\ index' = [files |-> q.root.files,
                            directories |-> q.root.directories]
          ELSE phase' = "failed"
    BY DEF ParseFile
  <2> HIDE DEF q
  <2>2. phase' = "failed" \/ (q.ok /\ store' = q.store
                               /\ index'.directories = q.root.directories)
    BY <2>1
  <2> QED BY <2>2 DEF q
<1>6. CASE phase' = "failed" BY <1>6 DEF ReadInv
<1>7. CASE phase' # "failed"
  <2> HIDE DEF p
  <2>1. p.status = "done" /\ store' = p.store
        /\ index'.directories = p.stack[1].state.directories
    BY <1>5, <1>7 DEF Parsed
  <2>2. PICK H, K, deq : IsParsed(p.store, p.stack[1].state, H, K, deq)
    BY <1>4, <2>1, ParsedIs
  <2>3. CanRead(p.store, p.stack[1].state.directories)
    BY <2>2, ParsedReads
  <2> QED BY <2>1, <2>3 DEF ReadInv
<1> QED BY <1>6, <1>7

LEMMA NextReads ==
  ASSUME IInv, Tree, ReadInv, Next
  PROVE  ReadInv'
<1>1. CASE ParseFile BY <1>1, ParseReads
<1>2. CASE FinishMerge BY <1>2, FinishReads
<1>3. CASE Returned BY <1>3 DEF Returned, vars, storeVars, ReadInv
<1>4. CASE CallerStep /\ ~ParseFile /\ ~FinishMerge
  <2>1. phase' # "ready"
    BY <1>4 DEF CallerStep, OpenFails, StartMerge, Receive, Join,
       AppendNext, StartNormalise, NormaliseEntry, EnterDirectory,
       LeaveDirectory, IoFails, MergeFails
  <2> QED BY <2>1 DEF ReadInv
<1>5. CASE \E w \in 1..Parallelism : WorkerStep(w)
  <2>1. phase' # "ready"
    BY <1>5 DEF WorkerStep, PopTask, CreateTemporary, ParseSource,
       SendResult
  <2> QED BY <2>1 DEF ReadInv
<1> QED BY <1>1, <1>2, <1>3, <1>4, <1>5 DEF Next

(***************************************************************************)
(* One of the two sorts: entries are collected, then merged.               *)
(***************************************************************************)
Gathers(u, left, chunk, rr, out, base) ==
  /\ left > 0 => out = <<>> /\ Collected(u, Len(u) - left, chunk, rr)
  /\ left = 0 => chunk = <<>> /\ Merging(u, rr, out, base)

LEMMA GathersStart ==
  ASSUME NEW u, IsEntries(u), NEW base
  PROVE  Gathers(u, Len(u), <<>>, <<>>, <<>>, base)
<1>1. Len(u) \in Nat BY SequentialFacts DEF IsEntries
<1>2. Sequential(<<>>) /\ Len(<<>>) = 0
  <2>1. <<>> \in Seq({}) OBVIOUS
  <2> QED BY <2>1 DEF Sequential
<1>3. 1..0 = {} OBVIOUS
<1>4. Spread(u, {}, <<>>) BY <1>2, <1>3 DEF Spread
<1>5. Collected(u, 0, <<>>, <<>>)
  <2>1. 1..(0 - Len(<<>>)) = {} BY <1>2
  <2> QED BY <2>1, <1>1, <1>2, <1>3, <1>4 DEF Collected
<1>6. Len(u) - Len(u) = 0 BY <1>1
<1>7. Len(u) = 0 => Merging(u, <<>>, <<>>, base)
  BY <1>5, MergingStarts
<1> QED BY <1>5, <1>6, <1>7 DEF Gathers

LEMMA GathersOne ==
  ASSUME NEW u, IsEntries(u), NEW left \in Nat, left > 0, left <= Len(u),
         NEW chunk, NEW rr, NEW out, NEW base,
         Gathers(u, left, chunk, rr, out, base),
         NEW more, more = Append(chunk, u[(Len(u) - left) + 1])
  PROVE  /\ left - 1 > 0 => Gathers(u, left - 1, more, rr, out, base)
         /\ Gathers(u, left - 1, <<>>, Append(rr, NameRun(more)), out, base)
<1> DEFINE n == Len(u)  c == n - left  new == Append(rr, NameRun(more))
<1>1. n \in Nat BY SequentialFacts DEF IsEntries
<1>2. out = <<>> /\ Collected(u, c, chunk, rr) BY DEF Gathers
<1>3. c < n /\ c + 1 = n - (left - 1) BY <1>1
<1>4. IsEntries(more) /\ Collected(u, c + 1, more, rr)
  BY <1>2, <1>3, CollectAdds
<1>5. Collected(u, c + 1, <<>>, new) BY <1>4, CollectFlushes
<1>6. left - 1 = 0 => Merging(u, new, <<>>, base)
  <2>1. left - 1 = 0 => c + 1 = Len(u) BY <1>1, <1>3
  <2> HIDE DEF new, c, n
  <2> QED BY <2>1, <1>5, MergingStarts
<1> HIDE DEF new, c
<1>7. /\ left - 1 > 0 => Gathers(u, left - 1, more, rr, out, base)
      /\ Gathers(u, left - 1, <<>>, new, out, base)
  BY <1>2, <1>3, <1>4, <1>5, <1>6 DEF Gathers, n
<1> QED BY <1>7 DEF new

LEMMA GathersNext ==
  ASSUME NEW u, NEW chunk, NEW out, NEW base \in Nat,
         Gathers(u, 0, chunk, runs, out, base),
         ~HeapEmpty, NEW rest, NEW follows, NEW new, NEW r,
         r = NextRun(NameHeap), rest = [runs EXCEPT ![r] = Tail(@)],
         follows = (\E q \in DOMAIN rest : rest[q] # <<>>),
         new = Append(out,
                 [next |-> IF follows THEN base + Len(out) + 1 ELSE -1,
                  entry |-> runs[r][1]])
  PROVE  Gathers(u, 0, chunk, rest, new, base)
<1>1. chunk = <<>> /\ Merging(u, runs, out, base) BY DEF Gathers
<1>2. Merging(u, rest, new, base) BY <1>1, MergeWrites
<1> QED BY <1>1, <1>2 DEF Gathers

LEMMA GathersEnd ==
  ASSUME NEW u, NEW chunk, NEW out, NEW base,
         Gathers(u, 0, chunk, runs, out, base), HeapEmpty
  PROVE  chunk = <<>> /\ Written(u, out, base)
BY MergingEnds DEF Gathers

(***************************************************************************)
(* The sort of a directory at every step.                                  *)
(***************************************************************************)
IsWalkFrame(f) ==
  f = [directory |-> f.directory, path |-> f.path, file |-> f.file,
       files |-> f.files, next |-> f.next, directories |-> f.directories]

IsResult(r) ==
  r = [tape |-> r.tape, files |-> r.files, directories |-> r.directories,
       hit |-> r.hit]

(* The frame has so many entries of a chain left, and is at the next.      *)
AtNext(left, next, walk) ==
  /\ left \in 0..Len(walk)
  /\ left > 0 => next = walk[(Len(walk) - left) + 1]

ItsFiles == FileItems(store, asked.files)
ItsDirectories == DirectoryItems(store, asked.directories)

CollectsFiles ==
  /\ AtNext(Top.files, Top.file, asked.files)
  /\ Top.directories = Len(asked.directories)
  /\ AtNext(Top.directories, Top.next, asked.directories)
  /\ Gathers(ItsFiles, Top.files, entries, runs, result.files,
             Len(store.file_index))
  /\ result.directories = <<>>

FilesWritten(base) == Written(ItsFiles, result.files, base)
DirectoriesWritten(base) == Written(ItsDirectories, result.directories, base)

CollectsDirectories ==
  /\ AtNext(Top.directories, Top.next, asked.directories)
  /\ FilesWritten(Len(store.file_index))
  /\ Gathers(ItsDirectories, Top.directories, entries, runs,
             result.directories, Len(store.directory_index))

(* The sorted entries are in the index, and nothing leads to them yet.     *)
FilesAtEnd ==
  LET base == Len(store.file_index) - Len(result.files)
  IN  Len(result.files) > 1 =>
        /\ FilesWritten(base)
        /\ EndsWith(store.file_index, Entries("files"), base)

DirectoriesAtEnd ==
  LET base == Len(store.directory_index) - Len(result.directories)
  IN  Len(result.directories) > 1 =>
        /\ DirectoriesWritten(base)
        /\ EndsWith(store.directory_index, Entries("directories"), base)

FilesInOrder ==
  Children(store, asked.directory).files
    = InOrder(Children(store, asked.directory).files)

Walking == {"files", "directories"}
FilesToCome == Walking \cup {"appendfiles", "patchfiles"}
SortJobs == FilesToCome \cup {"appenddirectories", "patchdirectories"}

Sorting(D) ==
  /\ asked.directory \in D /\ IsResult(result)
  /\ asked.directories = DirectoriesOf(store, Header(store, asked.directory))
  /\ job \in FilesToCome =>
       asked.files = FilesOf(store, Header(store, asked.directory))
  /\ job \in Walking => trail = <<Top>> /\ IsWalkFrame(Top)
  /\ job = "files" => CollectsFiles
  /\ job = "directories" => CollectsDirectories
  /\ job = "appendfiles" => FilesWritten(Len(store.file_index))
  /\ job = "patchfiles" => FilesAtEnd /\ Len(result.files) = Len(asked.files)
  /\ job \in {"appendfiles", "patchfiles", "appenddirectories"} =>
       DirectoriesWritten(Len(store.directory_index))
  /\ job \in {"appenddirectories", "patchdirectories"} => FilesInOrder
  /\ job = "patchdirectories" =>
       DirectoriesAtEnd /\ Len(result.directories) = Len(asked.directories)

SortInv ==
  /\ job \in {"collect", "merge"} => asked.ask = "tape"
  /\ job = "search" => asked.ask = "search"
  /\ job \in SortJobs => asked.ask = "sort"
  /\ job = "none" => entries = <<>> /\ runs = <<>> /\ result = NoResult
  /\ phase = "ready" =>
       \E D : /\ Usable(store, D) /\ Rooted(store, index.directories, D)
              /\ job \in SortJobs => Sorting(D)

LEMMA SortReads == SortInv => ReadInv
BY DEF SortInv, ReadInv, CanRead

(***************************************************************************)
(* The steps of the sort.  What is to be sorted is there to be read.       *)
(***************************************************************************)
DirectoriesRead(walk) ==
  /\ Sequential(walk) /\ Len(walk) \in Nat
  /\ \A k \in 1..Len(walk) :
       walk[k] \in 0..(Len(store.directory_index) - 1)
  /\ \A k \in 1..(Len(walk) - 1) :
       walk[k + 1] = store.directory_index[walk[k] + 1].next
  /\ IsEntries(ItsDirectories) /\ Len(ItsDirectories) = Len(walk)
  /\ InSequence(ItsDirectories)

FilesRead(walk) ==
  /\ Sequential(walk) /\ Len(walk) \in Nat
  /\ \A k \in 1..Len(walk) : walk[k] \in 0..(Len(store.file_index) - 1)
  /\ \A k \in 1..(Len(walk) - 1) :
       walk[k + 1] = store.file_index[walk[k] + 1].next
  /\ IsEntries(ItsFiles) /\ Len(ItsFiles) = Len(walk)

LEMMA SortRead ==
  ASSUME NEW D, Usable(store, D), Sorting(D)
  PROVE  /\ DirectoriesRead(asked.directories)
         /\ job \in FilesToCome => FilesRead(asked.files)
         /\ \A k \in 1..Len(asked.directories) :
              DirectoryAt(store, asked.directories[k]) \in D
         /\ Len(store.file_index) \in Nat
         /\ Len(store.directory_index) \in Nat
<1> DEFINE d == asked.directory  h == Header(store, d)
<1>1. /\ Linkable(store.file_index) /\ Linkable(store.directory_index)
      /\ Reads(store, h, D) /\ d \in D
      /\ asked.directories = DirectoriesOf(store, h)
      /\ job \in FilesToCome => asked.files = FilesOf(store, h)
  BY DEF Usable, Sorting
<1> HIDE DEF h
<1>2. IsRead(store, h, FilesOf(store, h), asked.directories)
  BY <1>1, ReadsIs
<1>3. /\ Sequential(asked.directories)
      /\ Len(asked.directories) = h.directory_count
      /\ \A k \in 1..Len(asked.directories) :
           asked.directories[k] \in 0..(Len(store.directory_index) - 1)
      /\ \A k \in 1..(Len(asked.directories) - 1) :
           asked.directories[k + 1] =
             store.directory_index[asked.directories[k] + 1].next
  BY <1>2 DEF IsRead
<1>4. Len(asked.directories) \in Nat BY <1>3, SequentialFacts
<1>5. IsEntries(ItsDirectories)
      /\ Len(ItsDirectories) = Len(asked.directories)
  BY <1>3, DirectoryItemsAre DEF ItsDirectories
<1>6. InSequence(ItsDirectories)
  BY <1>5 DEF InSequence, ItsDirectories, DirectoryItems, DirectoryItem
<1>7. DirectoriesRead(asked.directories)
  BY <1>3, <1>4, <1>5, <1>6 DEF DirectoriesRead
<1>8. ASSUME job \in FilesToCome PROVE FilesRead(asked.files)
  <2>1. IsRead(store, h, asked.files, asked.directories)
    BY <1>1, <1>2, <1>8
  <2>2. /\ Sequential(asked.files)
        /\ \A k \in 1..Len(asked.files) :
             asked.files[k] \in 0..(Len(store.file_index) - 1)
        /\ \A k \in 1..(Len(asked.files) - 1) :
             asked.files[k + 1] = store.file_index[asked.files[k] + 1].next
    BY <2>1 DEF IsRead
  <2>3. Len(asked.files) \in Nat BY <2>2, SequentialFacts
  <2>4. IsEntries(ItsFiles) /\ Len(ItsFiles) = Len(asked.files)
    BY <2>2, FileItemsAre DEF ItsFiles
  <2> QED BY <2>2, <2>3, <2>4 DEF FilesRead
<1>9. \A k \in 1..Len(asked.directories) :
        DirectoryAt(store, asked.directories[k]) \in D
  BY <1>1, <1>3 DEF Reads
<1> QED BY <1>1, <1>7, <1>8, <1>9 DEF Linkable

FrameMoved(g, file, files, next, directories) ==
  /\ IsWalkFrame(g) /\ g.file = file /\ g.files = files
  /\ g.next = next /\ g.directories = directories

LEMMA FrameTakesFile ==
  ASSUME NEW x, IsWalkFrame(x), NEW y, NEW z,
         NEW g, g = [x EXCEPT !.file = y, !.files = z]
  PROVE  FrameMoved(g, y, z, x.next, x.directories)
<1> DEFINE w == [directory |-> x.directory, path |-> x.path, file |-> y,
                 files |-> z, next |-> x.next,
                 directories |-> x.directories]
<1>1. g = w BY DEF IsWalkFrame
<1>2. /\ IsWalkFrame(w) /\ w.file = y /\ w.files = z
      /\ w.next = x.next /\ w.directories = x.directories
  BY DEF IsWalkFrame
<1> QED BY <1>1, <1>2 DEF FrameMoved

LEMMA FrameTakesDirectory ==
  ASSUME NEW x, IsWalkFrame(x), NEW y, NEW z,
         NEW g, g = [x EXCEPT !.next = y, !.directories = z]
  PROVE  FrameMoved(g, x.file, x.files, y, z)
<1> DEFINE w == [directory |-> x.directory, path |-> x.path,
                 file |-> x.file, files |-> x.files, next |-> y,
                 directories |-> z]
<1>1. g = w BY DEF IsWalkFrame
<1>2. /\ IsWalkFrame(w) /\ w.file = x.file /\ w.files = x.files
      /\ w.next = y /\ w.directories = z
  BY DEF IsWalkFrame
<1> QED BY <1>1, <1>2 DEF FrameMoved

LEMMA TopMoves ==
  ASSUME NEW x, trail = <<x>>, NEW y, NEW z, z = [trail EXCEPT ![1] = y]
  PROVE  z = <<y>> /\ Len(z) = 1 /\ z[1] = y
OBVIOUS

LEMMA FileCollected ==
  ASSUME NEW D, Usable(store, D), Sorting(D), CollectFile
  PROVE  Sorting(D)'
<1> DEFINE n == Len(asked.files)  left == Top.files
           k == (n - left) + 1
           g == [Top EXCEPT !.file = FileEntry.next, !.files = left - 1]
<1>1. job = "files" /\ left > 0 /\ job' = job
      /\ UNCHANGED <<store, asked, result>>
  BY DEF CollectFile, Collect, vars, storeVars
<1>2. trail = <<Top>> /\ IsWalkFrame(Top) /\ CollectsFiles
  BY <1>1 DEF Sorting, Walking
<1>3. trail' = <<g>> /\ Top' = g
  <2>1. Len(trail) = 1 BY <1>2
  <2>2. trail' = [trail EXCEPT ![1] = g]
    BY <2>1 DEF CollectFile, NextFile
  <2> HIDE DEF g
  <2>3. trail' = <<g>> /\ Len(trail') = 1 /\ trail'[1] = g
    BY <2>2, <1>2, TopMoves
  <2> QED BY <2>3 DEF Top
<1>4. /\ IsWalkFrame(g) /\ g.file = FileEntry.next /\ g.files = left - 1
      /\ g.next = Top.next /\ g.directories = Top.directories
  <2> DEFINE f == FileEntry.next  m == left - 1
  <2>1. g = [Top EXCEPT !.file = f, !.files = m] OBVIOUS
  <2> HIDE DEF f, m, g
  <2>2. FrameMoved(g, f, m, Top.next, Top.directories)
    BY <1>2, <2>1, FrameTakesFile
  <2> QED BY <2>2 DEF FrameMoved, f, m
<1>5. /\ FilesRead(asked.files) /\ Len(store.file_index) \in Nat
  BY <1>1, SortRead DEF FilesToCome, Walking
<1>6. /\ left \in 0..n /\ n \in Nat /\ Top.file = asked.files[k]
      /\ Gathers(ItsFiles, left, entries, runs, result.files,
                 Len(store.file_index))
      /\ IsEntries(ItsFiles) /\ Len(ItsFiles) = n
  BY <1>1, <1>2, <1>5 DEF CollectsFiles, AtNext, FilesRead
<1>7. k \in 1..n /\ n - (left - 1) = k BY <1>1, <1>6
<1>8. left - 1 > 0 => FileEntry.next = asked.files[k + 1]
  <2>1. left - 1 > 0 => k \in 1..(n - 1) BY <1>1, <1>6
  <2> HIDE DEF k, left, n
  <2> QED BY <2>1, <1>5, <1>6 DEF FilesRead, FileEntry, n
<1> DEFINE entry == [record_offset |-> FileEntry.record_offset,
                     record_length |-> FileEntry.record_length,
                     selection |-> FileEntry.selection,
                     name |-> FileName(FileAt(store, Top.file)),
                     sequence |-> n - left]
           more == Append(entries, entry)
<1>9. ItsFiles[k] = entry
  <2>1. ItsFiles[k] = FileItem(store, asked.files[k], k)
    BY <1>7 DEF ItsFiles, FileItems
  <2>2. k - 1 = n - left BY <1>6
  <2> QED BY <2>1, <2>2, <1>6 DEF FileItem, FileEntry
<1>10. IF Len(more) >= SortChunk \/ left - 1 = 0
       THEN runs' = Append(runs, NameRun(more)) /\ entries' = <<>>
       ELSE entries' = more /\ runs' = runs
  BY DEF CollectFile, Collect
<1> HIDE DEF entry
<1>11. more = Append(entries, ItsFiles[(Len(ItsFiles) - left) + 1])
  BY <1>6, <1>9
<1> HIDE DEF more
<1>12. /\ left - 1 > 0 => Gathers(ItsFiles, left - 1, more, runs,
                                  result.files, Len(store.file_index))
       /\ Gathers(ItsFiles, left - 1, <<>>, Append(runs, NameRun(more)),
                  result.files, Len(store.file_index))
  <2>1. left \in Nat /\ left <= Len(ItsFiles) BY <1>6
  <2> HIDE DEF left
  <2> QED BY <2>1, <1>1, <1>6, <1>11, GathersOne
<1>13. Gathers(ItsFiles, left - 1, entries', runs', result.files,
               Len(store.file_index))
  <2>1. left - 1 > 0 \/ left - 1 = 0 BY <1>1, <1>6
  <2> HIDE DEF left
  <2> QED BY <2>1, <1>10, <1>12
<1>14. ItsFiles' = ItsFiles BY <1>1 DEF ItsFiles
<1>15. AtNext(g.files, g.file, asked.files)
  <2>1. left - 1 \in 0..n BY <1>1, <1>6
  <2> HIDE DEF left, g
  <2> QED BY <2>1, <1>4, <1>7, <1>8 DEF AtNext
<1> HIDE DEF g, left, n, k
<1>16. CollectsFiles'
  BY <1>1, <1>2, <1>3, <1>4, <1>13, <1>14, <1>15 DEF CollectsFiles
<1> QED BY <1>1, <1>3, <1>4, <1>16 DEF Sorting, FilesToCome, Walking

LEMMA DirectoryCollected ==
  ASSUME NEW D, Usable(store, D), Sorting(D), CollectDirectory
  PROVE  Sorting(D)'
<1> DEFINE n == Len(asked.directories)  left == Top.directories
           k == (n - left) + 1
           g == [Top EXCEPT !.next = ChildEntry.next,
                            !.directories = left - 1]
<1>1. job = "directories" /\ left > 0 /\ job' = job
      /\ UNCHANGED <<store, asked, result>>
  BY DEF CollectDirectory, Collect, vars, storeVars
<1>2. trail = <<Top>> /\ IsWalkFrame(Top) /\ CollectsDirectories
  BY <1>1 DEF Sorting, Walking
<1>3. trail' = <<g>> /\ Top' = g
  <2>1. Len(trail) = 1 BY <1>2
  <2>2. trail' = [trail EXCEPT ![1] = g]
    BY <2>1 DEF CollectDirectory, NextChild
  <2> HIDE DEF g
  <2>3. trail' = <<g>> /\ Len(trail') = 1 /\ trail'[1] = g
    BY <2>2, <1>2, TopMoves
  <2> QED BY <2>3 DEF Top
<1>4. IsWalkFrame(g) /\ g.next = ChildEntry.next /\ g.directories = left - 1
  <2> DEFINE f == ChildEntry.next  m == left - 1
  <2>1. g = [Top EXCEPT !.next = f, !.directories = m] OBVIOUS
  <2> HIDE DEF f, m, g
  <2>2. FrameMoved(g, Top.file, Top.files, f, m)
    BY <1>2, <2>1, FrameTakesDirectory
  <2> QED BY <2>2 DEF FrameMoved, f, m
<1>5. /\ DirectoriesRead(asked.directories)
      /\ Len(store.directory_index) \in Nat
  BY <1>1, SortRead DEF FilesToCome, Walking
<1>6. /\ left \in 0..n /\ n \in Nat /\ Top.next = asked.directories[k]
      /\ Gathers(ItsDirectories, left, entries, runs, result.directories,
                 Len(store.directory_index))
      /\ IsEntries(ItsDirectories) /\ Len(ItsDirectories) = n
  BY <1>1, <1>2, <1>5 DEF CollectsDirectories, AtNext, DirectoriesRead
<1>7. k \in 1..n /\ n - (left - 1) = k BY <1>1, <1>6
<1>8. left - 1 > 0 => ChildEntry.next = asked.directories[k + 1]
  <2>1. left - 1 > 0 => k \in 1..(n - 1) BY <1>1, <1>6
  <2> HIDE DEF k, left, n
  <2> QED BY <2>1, <1>5, <1>6 DEF DirectoriesRead, ChildEntry, n
<1> DEFINE entry == [record_offset |-> ChildEntry.record_offset,
                     selection |-> ChildEntry.selection,
                     name |-> ChildName,
                     sequence |-> n - left]
           more == Append(entries, entry)
<1>9. ItsDirectories[k] = entry
  <2>1. ItsDirectories[k] = DirectoryItem(store, asked.directories[k], k)
    BY <1>7 DEF ItsDirectories, DirectoryItems
  <2>2. k - 1 = n - left BY <1>6
  <2> QED BY <2>1, <2>2, <1>6 DEF DirectoryItem, ChildEntry, ChildName
<1>10. IF Len(more) >= SortChunk \/ left - 1 = 0
       THEN runs' = Append(runs, NameRun(more)) /\ entries' = <<>>
       ELSE entries' = more /\ runs' = runs
  BY DEF CollectDirectory, Collect
<1> HIDE DEF entry
<1>11. more = Append(entries, ItsDirectories[(Len(ItsDirectories) - left) + 1])
  BY <1>6, <1>9
<1> HIDE DEF more
<1>12. /\ left - 1 > 0 =>
            Gathers(ItsDirectories, left - 1, more, runs,
                    result.directories, Len(store.directory_index))
       /\ Gathers(ItsDirectories, left - 1, <<>>, Append(runs, NameRun(more)),
                  result.directories, Len(store.directory_index))
  <2>1. left \in Nat /\ left <= Len(ItsDirectories) BY <1>6
  <2> HIDE DEF left
  <2> QED BY <2>1, <1>1, <1>6, <1>11, GathersOne
<1>13. Gathers(ItsDirectories, left - 1, entries', runs', result.directories,
               Len(store.directory_index))
  <2>1. left - 1 > 0 \/ left - 1 = 0 BY <1>1, <1>6
  <2> HIDE DEF left
  <2> QED BY <2>1, <1>10, <1>12
<1>14. ItsDirectories' = ItsDirectories BY <1>1 DEF ItsDirectories
<1>15. AtNext(g.directories, g.next, asked.directories)
  <2>1. left - 1 \in 0..n BY <1>1, <1>6
  <2> HIDE DEF left, g
  <2> QED BY <2>1, <1>4, <1>7, <1>8 DEF AtNext
<1> HIDE DEF g, left, n, k
<1>16. CollectsDirectories'
  <2>1. FilesWritten(Len(store.file_index))' <=>
          FilesWritten(Len(store.file_index))
    BY <1>1 DEF FilesWritten, ItsFiles
  <2> QED BY <2>1, <1>1, <1>2, <1>3, <1>4, <1>13, <1>14, <1>15
          DEF CollectsDirectories
<1> QED BY <1>1, <1>3, <1>4, <1>16 DEF Sorting, FilesToCome, Walking

ResultHas(z, files, directories) ==
  IsResult(z) /\ z.files = files /\ z.directories = directories

LEMMA ResultTakesFiles ==
  ASSUME NEW x, IsResult(x), NEW y, NEW z, z = [x EXCEPT !["files"] = y]
  PROVE  ResultHas(z, y, x.directories)
<1> DEFINE w == [tape |-> x.tape, files |-> y,
                 directories |-> x.directories, hit |-> x.hit]
<1>1. z = w BY DEF IsResult
<1>2. IsResult(w) /\ w.files = y /\ w.directories = x.directories
  BY DEF IsResult
<1> QED BY <1>1, <1>2 DEF ResultHas

LEMMA ResultTakesDirectories ==
  ASSUME NEW x, IsResult(x), NEW y, NEW z,
         z = [x EXCEPT !["directories"] = y]
  PROVE  ResultHas(z, x.files, y)
<1> DEFINE w == [tape |-> x.tape, files |-> x.files,
                 directories |-> y, hit |-> x.hit]
<1>1. z = w BY DEF IsResult
<1>2. IsResult(w) /\ w.directories = y /\ w.files = x.files
  BY DEF IsResult
<1> QED BY <1>1, <1>2 DEF ResultHas

LEMMA FileMerged ==
  ASSUME NEW D, Usable(store, D), Sorting(D), MergeFile
  PROVE  Sorting(D)'
<1> DEFINE base == Len(store.file_index)
           r == NextRun(NameHeap)
           rest == [runs EXCEPT ![r] = Tail(@)]
           follows == \E q \in DOMAIN rest : rest[q] # <<>>
           new == Append(result.files,
             [next |-> IF follows THEN base + Len(result.files) + 1 ELSE -1,
              entry |-> runs[r][1]])
<1>1. /\ job = "files" /\ Top.files = 0 /\ ~HeapEmpty /\ job' = job
      /\ UNCHANGED <<store, asked, trail, entries>>
  BY DEF MergeFile, WriteNext, vars, storeVars
<1>2. /\ trail = <<Top>> /\ IsWalkFrame(Top) /\ CollectsFiles
      /\ IsResult(result)
  BY <1>1 DEF Sorting, Walking
<1>3. runs' = rest /\ result' = [result EXCEPT !["files"] = new]
  BY DEF MergeFile, WriteNext, NextOffset
<1>4. base \in Nat BY SortRead
<1>5. Gathers(ItsFiles, 0, entries, rest, new, base)
  <2>1. Gathers(ItsFiles, 0, entries, runs, result.files, base)
    BY <1>1, <1>2 DEF CollectsFiles
  <2> HIDE DEF base
  <2> QED BY <2>1, <1>1, <1>4, GathersNext
<1> HIDE DEF new, rest
<1>6. /\ IsResult(result') /\ result'.files = new
      /\ result'.directories = result.directories
  <2>1. ResultHas(result', new, result.directories)
    BY <1>2, <1>3, ResultTakesFiles
  <2> QED BY <2>1 DEF ResultHas
<1>7. ItsFiles' = ItsFiles /\ Top' = Top BY <1>1 DEF ItsFiles, Top
<1>8. CollectsFiles'
  BY <1>1, <1>2, <1>3, <1>5, <1>6, <1>7 DEF CollectsFiles
<1> QED BY <1>1, <1>6, <1>7, <1>8 DEF Sorting, FilesToCome, Walking

LEMMA DirectoryMerged ==
  ASSUME NEW D, Usable(store, D), Sorting(D), MergeDirectory
  PROVE  Sorting(D)'
<1> DEFINE base == Len(store.directory_index)
           r == NextRun(NameHeap)
           rest == [runs EXCEPT ![r] = Tail(@)]
           follows == \E q \in DOMAIN rest : rest[q] # <<>>
           new == Append(result.directories,
             [next |-> IF follows
                       THEN base + Len(result.directories) + 1 ELSE -1,
              entry |-> runs[r][1]])
<1>1. /\ job = "directories" /\ Top.directories = 0 /\ ~HeapEmpty
      /\ job' = job /\ UNCHANGED <<store, asked, trail, entries>>
  BY DEF MergeDirectory, WriteNext, vars, storeVars
<1>2. /\ trail = <<Top>> /\ IsWalkFrame(Top) /\ CollectsDirectories
      /\ IsResult(result)
  BY <1>1 DEF Sorting, Walking
<1>3. runs' = rest /\ result' = [result EXCEPT !["directories"] = new]
  BY DEF MergeDirectory, WriteNext, NextOffset
<1>4. base \in Nat BY SortRead
<1>5. Gathers(ItsDirectories, 0, entries, rest, new, base)
  <2>1. Gathers(ItsDirectories, 0, entries, runs, result.directories, base)
    BY <1>1, <1>2 DEF CollectsDirectories
  <2> HIDE DEF base
  <2> QED BY <2>1, <1>1, <1>4, GathersNext
<1> HIDE DEF new, rest
<1>6. /\ IsResult(result') /\ result'.directories = new
      /\ result'.files = result.files
  <2>1. ResultHas(result', result.files, new)
    BY <1>2, <1>3, ResultTakesDirectories
  <2> QED BY <2>1 DEF ResultHas
<1>7. /\ ItsDirectories' = ItsDirectories /\ Top' = Top
      /\ FilesWritten(Len(store.file_index))'
           <=> FilesWritten(Len(store.file_index))
  BY <1>1, <1>6 DEF ItsDirectories, ItsFiles, Top, FilesWritten
<1>8. CollectsDirectories'
  BY <1>1, <1>2, <1>3, <1>5, <1>6, <1>7 DEF CollectsDirectories
<1> QED BY <1>1, <1>6, <1>7, <1>8 DEF Sorting, FilesToCome, Walking

(* When every entry is written, none is missing: the sort does not fail.   *)
LEMMA FilesFinished ==
  ASSUME NEW D, Usable(store, D), Sorting(D), FinishFiles
  PROVE  Sorting(D)' /\ job' = "directories"
<1> DEFINE base == Len(store.file_index)
<1>1. /\ job = "files" /\ Top.files = 0 /\ HeapEmpty /\ runs' = <<>>
      /\ job' = IF Len(result.files) = Len(asked.files)
                THEN "directories" ELSE "failed"
      /\ UNCHANGED <<store, asked, trail, entries, result>>
  BY DEF FinishFiles, FinishOutput, vars, storeVars
<1>2. /\ trail = <<Top>> /\ IsWalkFrame(Top) /\ CollectsFiles
      /\ IsResult(result)
  BY <1>1 DEF Sorting, Walking
<1>3. /\ FilesRead(asked.files) /\ DirectoriesRead(asked.directories)
  BY <1>1, SortRead DEF FilesToCome, Walking
<1>4. entries = <<>> /\ Written(ItsFiles, result.files, base)
  <2>1. Gathers(ItsFiles, 0, entries, runs, result.files, base)
    BY <1>1, <1>2 DEF CollectsFiles
  <2> QED BY <2>1, <1>1, GathersEnd
<1>5. Len(result.files) = Len(asked.files)
  BY <1>3, <1>4 DEF Written, FilesRead
<1>6. job' = "directories" BY <1>1, <1>5
<1>7. /\ ItsDirectories' = ItsDirectories /\ Top' = Top
      /\ FilesWritten(Len(store.file_index))'
  BY <1>1, <1>4 DEF ItsDirectories, ItsFiles, Top, FilesWritten
<1>8. Gathers(ItsDirectories, Top.directories, <<>>, <<>>, <<>>,
              Len(store.directory_index))
  BY <1>2, <1>3, GathersStart DEF CollectsFiles, DirectoriesRead
<1>9. CollectsDirectories'
  BY <1>1, <1>2, <1>4, <1>7, <1>8 DEF CollectsFiles, CollectsDirectories
<1> QED BY <1>1, <1>2, <1>6, <1>7, <1>9
        DEF Sorting, FilesToCome, Walking

LEMMA DirectoriesFinished ==
  ASSUME NEW D, Usable(store, D), Sorting(D), FinishDirectories
  PROVE  Sorting(D)' /\ job' = "appendfiles"
<1> DEFINE base == Len(store.directory_index)
<1>1. /\ job = "directories" /\ Top.directories = 0 /\ HeapEmpty
      /\ runs' = <<>>
      /\ job' = IF Len(result.directories) = Len(asked.directories)
                THEN "appendfiles" ELSE "failed"
      /\ UNCHANGED <<store, asked, trail, entries, result>>
  BY DEF FinishDirectories, FinishOutput, vars, storeVars
<1>2. CollectsDirectories /\ IsResult(result)
  BY <1>1 DEF Sorting, Walking
<1>3. DirectoriesRead(asked.directories) BY SortRead
<1>4. Written(ItsDirectories, result.directories, base)
  <2>1. Gathers(ItsDirectories, 0, entries, runs, result.directories, base)
    BY <1>1, <1>2 DEF CollectsDirectories
  <2> QED BY <2>1, <1>1, GathersEnd
<1>5. Len(result.directories) = Len(asked.directories)
  BY <1>3, <1>4 DEF Written, DirectoriesRead
<1>6. job' = "appendfiles" BY <1>1, <1>5
<1>7. /\ FilesWritten(Len(store.file_index))'
      /\ DirectoriesWritten(Len(store.directory_index))'
  BY <1>1, <1>2, <1>4 DEF CollectsDirectories, ItsDirectories, ItsFiles,
                          FilesWritten, DirectoriesWritten
<1> QED BY <1>1, <1>2, <1>6, <1>7 DEF Sorting, FilesToCome, Walking

LEMMA SortStarts ==
  ASSUME NEW D, Usable(store, D), Rooted(store, index.directories, D),
         entries = <<>>, runs = <<>>, result = NoResult, StartDirectorySort
  PROVE  Sorting(D)'
<1> DEFINE Started(d, h) ==
      /\ asked' = [ask |-> "sort", directory |-> d,
                   files |-> FilesOf(store, h),
                   directories |-> DirectoriesOf(store, h)]
      /\ trail' = <<WalkFrame(d, h, <<>>)>>
<1>1. \E d \in Directories : Started(d, Header(store, d))
  BY DEF StartDirectorySort
<1> HIDE DEF Started
<1>2. PICK d \in Directories : Started(d, Header(store, d)) BY <1>1
<1> DEFINE h == Header(store, d)
           files == FilesOf(store, h)  directories == DirectoriesOf(store, h)
           top == WalkFrame(d, h, <<>>)
<1>3. d \in D BY DirectoriesWithin
<1>4. /\ job' = "files" /\ UNCHANGED <<store, entries, runs, result>>
  BY DEF StartDirectorySort, vars, storeVars
<1>5. asked' = [ask |-> "sort", directory |-> d, files |-> files,
                directories |-> directories] /\ trail' = <<top>>
  BY <1>2 DEF Started
<1>6. IsRead(store, h, files, directories)
  <2>1. Linkable(store.file_index) /\ Linkable(store.directory_index)
        /\ Reads(store, h, D)
    BY <1>3 DEF Usable
  <2> HIDE DEF h
  <2> QED BY <2>1, ReadsIs
<1> HIDE DEF h, files, directories
<1>7. /\ Sequential(files) /\ Len(files) = h.file_count
      /\ Len(files) > 0 => files[1] = h.file_index_offset
      /\ Sequential(directories) /\ Len(directories) = h.directory_count
      /\ Len(directories) > 0 => directories[1] = h.directory_index_offset
  BY <1>6 DEF IsRead
<1>8. /\ IsWalkFrame(top)
      /\ top.files = Len(files) /\ top.file = h.file_index_offset
      /\ top.directories = Len(directories)
      /\ top.next = h.directory_index_offset
  BY <1>7 DEF IsWalkFrame, WalkFrame
<1>9. Top' = top /\ trail' = <<Top'>>
  <2>1. Len(trail') = 1 /\ trail'[1] = top BY <1>5
  <2> HIDE DEF top
  <2> QED BY <2>1, <1>5 DEF Top
<1> HIDE DEF top
<1>10. /\ asked'.files = files /\ asked'.directories = directories
       /\ asked'.directory = d
  BY <1>5
<1>11. ItsFiles' = FileItems(store, files)
  BY <1>4, <1>10 DEF ItsFiles
<1>12. /\ IsEntries(FileItems(store, files))
       /\ Len(FileItems(store, files)) = Len(files)
  BY <1>7, FileItemsAre
<1>13. Gathers(FileItems(store, files), Len(files), <<>>, <<>>, <<>>,
               Len(store.file_index))
  BY <1>12, GathersStart
<1>14. Len(files) \in Nat /\ Len(directories) \in Nat
  BY <1>7, SequentialFacts
<1>15. /\ AtNext(Len(files), h.file_index_offset, files)
       /\ AtNext(Len(directories), h.directory_index_offset, directories)
  <2>1. Len(files) - Len(files) = 0
        /\ Len(directories) - Len(directories) = 0 BY <1>14
  <2> QED BY <2>1, <1>7, <1>14 DEF AtNext
<1>16. result' = NoResult /\ entries' = <<>> /\ runs' = <<>> BY <1>4
<1>17. /\ IsResult(result') /\ result'.files = <<>>
       /\ result'.directories = <<>>
  BY <1>16 DEF IsResult, NoResult
<1>18. CollectsFiles'
  BY <1>4, <1>8, <1>9, <1>10, <1>11, <1>13, <1>15, <1>16, <1>17
     DEF CollectsFiles
<1>19. /\ DirectoriesOf(store, Header(store, d))' = directories
       /\ FilesOf(store, Header(store, d))' = files
  BY <1>4 DEF files, directories, h
<1> QED
  BY <1>3, <1>4, <1>8, <1>9, <1>10, <1>17, <1>18, <1>19
     DEF Sorting, FilesToCome, Walking

(***************************************************************************)
(* The sorted entries go into the index.                                   *)
(***************************************************************************)
IsRows(rows, out) ==
  /\ Sequential(rows) /\ Len(rows) = Len(out) /\ Len(out) \in Nat
  /\ \A p \in 1..Len(rows) : rows[p].next \in Int

LEMMA FileRows ==
  ASSUME NEW u, NEW base, Written(u, result.files, base)
  PROVE  /\ IsRows(Entries("files"), result.files)
         /\ \A p \in 1..Len(result.files) :
              Entries("files")[p] = FileRow(result.files[p])
<1> DEFINE out == result.files  n == Len(out)  rows == Entries("files")
<1>1. Sequential(out) /\ \A p \in 1..n : out[p].next \in Int BY DEF Written
<1>2. n \in Nat /\ DOMAIN out = 1..n BY <1>1, SequentialFacts
<1>3. rows = [k \in 1..n |-> FileRow(out[k])]
  BY <1>2 DEF Entries, FileRow
<1> HIDE DEF n, rows, out
<1>4. \A k \in 1..n : rows[k] = FileRow(out[k]) BY <1>3
<1>5. rows = [k \in 1..n |-> rows[k]] BY <1>3
<1>6. Sequential(rows) /\ Len(rows) = n
  BY <1>2, <1>5, SequentialFunction
<1>7. ASSUME NEW p \in 1..n PROVE rows[p].next \in Int
  <2>1. out[p].next \in Int BY <1>1
  <2>2. rows[p] = FileRow(out[p]) BY <1>4
  <2>3. FileRow(out[p]).next = out[p].next BY DEF FileRow
  <2> QED BY <2>1, <2>2, <2>3
<1> QED BY <1>2, <1>4, <1>6, <1>7 DEF IsRows, n, rows, out

LEMMA DirectoryRows ==
  ASSUME NEW u, NEW base, Written(u, result.directories, base)
  PROVE  /\ IsRows(Entries("directories"), result.directories)
         /\ \A p \in 1..Len(result.directories) :
              Entries("directories")[p] = DirectoryRow(result.directories[p])
<1> DEFINE out == result.directories  n == Len(out)
           rows == Entries("directories")
<1>1. Sequential(out) /\ \A p \in 1..n : out[p].next \in Int BY DEF Written
<1>2. n \in Nat /\ DOMAIN out = 1..n BY <1>1, SequentialFacts
<1>3. rows = [k \in 1..n |-> DirectoryRow(out[k])]
  BY <1>2 DEF Entries, DirectoryRow
<1> HIDE DEF n, rows, out
<1>4. \A k \in 1..n : rows[k] = DirectoryRow(out[k]) BY <1>3
<1>5. rows = [k \in 1..n |-> rows[k]] BY <1>3
<1>6. Sequential(rows) /\ Len(rows) = n
  BY <1>2, <1>5, SequentialFunction
<1>7. ASSUME NEW p \in 1..n PROVE rows[p].next \in Int
  <2>1. out[p].next \in Int BY <1>1
  <2>2. rows[p] = DirectoryRow(out[p]) BY <1>4
  <2>3. DirectoryRow(out[p]).next = out[p].next BY DEF DirectoryRow
  <2> QED BY <2>1, <2>2, <2>3
<1> QED BY <1>2, <1>4, <1>6, <1>7 DEF IsRows, n, rows, out

(* What a step of the sort keeps of the index.                             *)
IndexKept(D) ==
  Usable(store, D)' /\ (store' = store \/ Grows(store, store', D))

ChildrenKept(D) == \A e \in D : Children(store', e) = Children(store, e)

LEMMA FilesAreAppended ==
  ASSUME NEW D, Usable(store, D), Sorting(D), AppendFiles
  PROVE  Sorting(D)' /\ IndexKept(D) /\ ChildrenKept(D)
<1> DEFINE d == asked.directory  out == result.files
           rows == Entries("files")  base == Len(store.file_index)
<1>1. /\ job = "appendfiles" /\ job' = "patchfiles"
      /\ UNCHANGED <<asked, trail, result, index>>
  BY DEF AppendFiles, Apply, walkVars
<1>2. /\ d \in D /\ IsResult(result)
      /\ asked.directories = DirectoriesOf(store, Header(store, d))
      /\ asked.files = FilesOf(store, Header(store, d))
      /\ FilesWritten(base)
      /\ DirectoriesWritten(Len(store.directory_index))
  BY <1>1 DEF Sorting, FilesToCome
<1>3. /\ FilesRead(asked.files) /\ DirectoriesRead(asked.directories)
      /\ \A k \in 1..Len(asked.directories) :
           DirectoryAt(store, asked.directories[k]) \in D
      /\ base \in Nat
  BY <1>1, SortRead DEF FilesToCome
<1>4. Len(out) = Len(asked.files) /\ Len(out) \in Nat
  BY <1>2, <1>3 DEF FilesWritten, Written, FilesRead
<1>5. IsRows(rows, out) BY <1>2, FileRows DEF FilesWritten
<1>6. CASE Len(out) > 1
  <2>1. store' = [store EXCEPT !.file_index = store.file_index \o rows]
    BY <1>6 DEF AppendFiles, Apply
  <2>2. Sequential(rows) /\ \A p \in 1..Len(rows) : rows[p].next \in Int
    BY <1>5 DEF IsRows
  <2> HIDE DEF rows
  <2>3. /\ AllStay(store, store', D)
        /\ EndsWith(store'.file_index, rows, base)
        /\ store'.directory_index = store.directory_index
    BY <2>1, <2>2, FilesAppended
  <2>4. Usable(store', D) /\ Grows(store, store', D)
        /\ \A e \in D : StaysSame(store, store', e, D)
    BY <2>3 DEF AllStay
  <2>5. IndexKept(D) BY <2>4 DEF IndexKept
  <2>6. ChildrenKept(D) BY <2>4 DEF StaysSame, ChildrenKept
  <2>7. /\ asked.directories = DirectoriesOf(store', Header(store', d))
        /\ asked.files = FilesOf(store', Header(store', d))
    BY <1>2, <2>4 DEF StaysSame
  <2>8. /\ FileItems(store', asked.files) = FileItems(store, asked.files)
        /\ DirectoryItems(store', asked.directories) =
             DirectoryItems(store, asked.directories)
    <3>1. FileItems(store', asked.files) = FileItems(store, asked.files)
      BY <1>3, <2>4, FileItemsStay DEF FilesRead
    <3>2. DirectoryItems(store', asked.directories) =
            DirectoryItems(store, asked.directories)
      BY <1>3, <2>4, DirectoryItemsStay DEF DirectoriesRead
    <3> QED BY <3>1, <3>2
  <2>9. ItsFiles' = ItsFiles /\ ItsDirectories' = ItsDirectories
    BY <1>1, <2>8 DEF ItsFiles, ItsDirectories
  <2>10. /\ Len(store'.file_index) = base + Len(out)
         /\ Len(store'.file_index) - Len(out) = base
    <3>1. Len(store'.file_index) = base + Len(out)
      BY <2>3, <1>5 DEF EndsWith, IsRows
    <3> HIDE DEF base, out
    <3> QED BY <3>1, <1>3, <1>4
  <2>11. Entries("files")' = rows BY <1>1 DEF Entries, rows
  <2>12. FilesAtEnd'
    BY <1>1, <1>2, <2>3, <2>9, <2>10, <2>11 DEF FilesAtEnd, FilesWritten
  <2>13. DirectoriesWritten(Len(store.directory_index))'
    BY <1>1, <1>2, <2>3, <2>9 DEF DirectoriesWritten
  <2>14. Sorting(D)'
    BY <1>1, <1>2, <1>4, <2>7, <2>12, <2>13
       DEF Sorting, FilesToCome, Walking
  <2> QED BY <2>5, <2>6, <2>14
<1>7. CASE ~(Len(out) > 1)
  <2>1. store' = store BY <1>7 DEF AppendFiles, Apply
  <2>2. IndexKept(D) /\ ChildrenKept(D)
    BY <2>1 DEF IndexKept, ChildrenKept
  <2>3. FilesAtEnd' BY <1>1, <1>7 DEF FilesAtEnd
  <2>4. DirectoriesWritten(Len(store.directory_index))'
    BY <1>1, <1>2, <2>1 DEF DirectoriesWritten, ItsDirectories
  <2>5. Sorting(D)'
    BY <1>1, <1>2, <1>4, <2>1, <2>3, <2>4
       DEF Sorting, FilesToCome, Walking
  <2> QED BY <2>2, <2>5
<1> QED BY <1>6, <1>7

FilesSorted(D, d) ==
  /\ \A e \in D \ {d} : Children(store', e) = Children(store, e)
  /\ Children(store', d).files = InOrder(Children(store, d).files)
  /\ Children(store', d).directories = Children(store, d).directories

LEMMA FilesArePatched ==
  ASSUME NEW D, Usable(store, D), Sorting(D), PatchFiles
  PROVE  Sorting(D)' /\ IndexKept(D) /\ FilesSorted(D, asked.directory)
<1> DEFINE d == asked.directory  out == result.files
           rows == Entries("files")
           base == Len(store.file_index) - Len(result.files)
<1>1. /\ job = "patchfiles" /\ job' = "appenddirectories"
      /\ UNCHANGED <<asked, trail, result, index>>
  BY DEF PatchFiles, Apply, walkVars
<1>2. /\ d \in D /\ IsResult(result)
      /\ asked.directories = DirectoriesOf(store, Header(store, d))
      /\ asked.files = FilesOf(store, Header(store, d))
      /\ FilesAtEnd /\ Len(out) = Len(asked.files)
      /\ DirectoriesWritten(Len(store.directory_index))
  BY <1>1 DEF Sorting, FilesToCome
<1>3. /\ FilesRead(asked.files) /\ DirectoriesRead(asked.directories)
      /\ \A k \in 1..Len(asked.directories) :
           DirectoryAt(store, asked.directories[k]) \in D
  BY <1>1, SortRead DEF FilesToCome
<1>4. Len(out) \in Nat BY <1>2, <1>3 DEF FilesRead
<1>5. CASE Len(out) > 1
  <2> DEFINE h == [Header(store, d) EXCEPT !.file_index_offset = base]
  <2>1. /\ FilesWritten(base) /\ EndsWith(store.file_index, rows, base)
    BY <1>2, <1>5 DEF FilesAtEnd
  <2>2. Written(FileItems(store, asked.files), out, base)
    BY <2>1 DEF FilesWritten, ItsFiles
  <2>3. /\ Len(rows) = Len(out)
        /\ \A p \in 1..Len(out) : rows[p] = FileRow(out[p])
    BY <2>2, FileRows DEF IsRows
  <2>4. store' = [store EXCEPT !.directories[d + 1].file_index_offset = base]
    BY <1>5 DEF PatchFiles, Apply
  <2>5. store' = [store EXCEPT !.directories =
                    [store.directories EXCEPT ![d + 1] = h]]
    <3>1. h = [Header(store, d) EXCEPT !.file_index_offset = base]
      OBVIOUS
    <3> HIDE DEF base, d, h
    <3> QED BY <2>4, <3>1 DEF Header
  <2> HIDE DEF h, base, rows, d, out
  <2>6. IsPatched(store, store', d, h)
    <3>1. /\ IsStore(store) /\ Sequential(store.directories)
          /\ d \in 0..(Len(store.directories) - 1)
      BY <1>2 DEF Usable
    <3> QED BY <3>1, <2>5, ReplacedHeader
  <2>7. IsSortedFiles(store, store', D, d)
    <3>1. Len(asked.files) > 0 BY <1>2, <1>4, <1>5
    <3> QED BY <3>1, <1>2, <2>1, <2>2, <2>3, <2>6, FilesPatched DEF h
  <2>8. /\ Usable(store', D) /\ Grows(store, store', D)
        /\ \A e \in D \ {d} : Children(store', e) = Children(store, e)
        /\ Children(store', d).files = InOrder(Children(store, d).files)
        /\ Children(store', d).files = InOrder(Children(store', d).files)
        /\ Children(store', d).directories = Children(store, d).directories
        /\ DirectoriesOf(store', Header(store', d))
             = DirectoriesOf(store, Header(store, d))
    BY <2>7 DEF IsSortedFiles
  <2>9. IndexKept(D) /\ FilesSorted(D, d)
    BY <2>8 DEF IndexKept, FilesSorted
  <2>10. FilesInOrder' BY <1>1, <2>8 DEF FilesInOrder, d
  <2>11. DirectoryItems(store', asked.directories)
           = DirectoryItems(store, asked.directories)
    BY <1>3, <2>8, DirectoryItemsStay DEF DirectoriesRead
  <2>12. store'.directory_index = store.directory_index
    BY <2>6 DEF IsPatched
  <2>13. DirectoriesWritten(Len(store.directory_index))'
    BY <1>1, <1>2, <2>11, <2>12 DEF DirectoriesWritten, ItsDirectories
  <2>14. Sorting(D)'
    BY <1>1, <1>2, <2>8, <2>10, <2>13
       DEF Sorting, FilesToCome, Walking, d
  <2> QED BY <2>9, <2>14 DEF d
<1>6. CASE ~(Len(out) > 1)
  <2>1. store' = store BY <1>6 DEF PatchFiles, Apply
  <2>2. Len(FilesOf(store, Header(store, d))) <= 1 BY <1>2, <1>4, <1>6
  <2>3. Children(store, d).files = InOrder(Children(store, d).files)
    BY <1>2, <2>2, FewFiles
  <2>4. IndexKept(D) /\ FilesSorted(D, d)
    BY <2>1, <2>3 DEF IndexKept, FilesSorted
  <2>5. FilesInOrder' BY <1>1, <2>1, <2>3 DEF FilesInOrder
  <2>6. DirectoriesWritten(Len(store.directory_index))'
    BY <1>1, <1>2, <2>1 DEF DirectoriesWritten, ItsDirectories
  <2>7. Sorting(D)'
    BY <1>1, <1>2, <2>1, <2>5, <2>6 DEF Sorting, FilesToCome, Walking
  <2> QED BY <2>4, <2>7
<1> QED BY <1>5, <1>6

LEMMA DirectoriesAreAppended ==
  ASSUME NEW D, Usable(store, D), Sorting(D), AppendDirectories
  PROVE  Sorting(D)' /\ IndexKept(D) /\ ChildrenKept(D)
<1> DEFINE d == asked.directory  out == result.directories
           rows == Entries("directories")
           base == Len(store.directory_index)
<1>1. /\ job = "appenddirectories" /\ job' = "patchdirectories"
      /\ UNCHANGED <<asked, trail, result, index>>
  BY DEF AppendDirectories, Apply, walkVars
<1>2. /\ d \in D /\ IsResult(result)
      /\ asked.directories = DirectoriesOf(store, Header(store, d))
      /\ DirectoriesWritten(base) /\ FilesInOrder
  BY <1>1 DEF Sorting, FilesToCome
<1>3. /\ DirectoriesRead(asked.directories) /\ base \in Nat
      /\ \A k \in 1..Len(asked.directories) :
           DirectoryAt(store, asked.directories[k]) \in D
  BY SortRead
<1>4. Len(out) = Len(asked.directories) /\ Len(out) \in Nat
  BY <1>2, <1>3 DEF DirectoriesWritten, Written, DirectoriesRead
<1>5. IsRows(rows, out) BY <1>2, DirectoryRows DEF DirectoriesWritten
<1>6. CASE Len(out) > 1
  <2>1. store' = [store EXCEPT !.directory_index =
                    store.directory_index \o rows]
    BY <1>6 DEF AppendDirectories, Apply
  <2>2. Sequential(rows) /\ \A p \in 1..Len(rows) : rows[p].next \in Int
    BY <1>5 DEF IsRows
  <2> HIDE DEF rows
  <2>3. /\ AllStay(store, store', D)
        /\ EndsWith(store'.directory_index, rows, base)
        /\ store'.file_index = store.file_index
    BY <2>1, <2>2, DirectoriesAppended
  <2>4. Usable(store', D) /\ Grows(store, store', D)
        /\ \A e \in D : StaysSame(store, store', e, D)
    BY <2>3 DEF AllStay
  <2>5. IndexKept(D) BY <2>4 DEF IndexKept
  <2>6. ChildrenKept(D) BY <2>4 DEF StaysSame, ChildrenKept
  <2>7. /\ asked.directories = DirectoriesOf(store', Header(store', d))
        /\ Children(store', d) = Children(store, d)
    BY <1>2, <2>4 DEF StaysSame
  <2>8. FilesInOrder' BY <1>1, <1>2, <2>7 DEF FilesInOrder
  <2>9. DirectoryItems(store', asked.directories)
          = DirectoryItems(store, asked.directories)
    BY <1>3, <2>4, DirectoryItemsStay DEF DirectoriesRead
  <2>10. ItsDirectories' = ItsDirectories
    BY <1>1, <2>9 DEF ItsDirectories
  <2>11. /\ Len(store'.directory_index) = base + Len(out)
         /\ Len(store'.directory_index) - Len(out) = base
    <3>1. Len(store'.directory_index) = base + Len(out)
      BY <2>3, <1>5 DEF EndsWith, IsRows
    <3> HIDE DEF base, out
    <3> QED BY <3>1, <1>3, <1>4
  <2>12. Entries("directories")' = rows BY <1>1 DEF Entries, rows
  <2>13. DirectoriesAtEnd'
    BY <1>1, <1>2, <2>3, <2>10, <2>11, <2>12
       DEF DirectoriesAtEnd, DirectoriesWritten
  <2>14. Sorting(D)'
    BY <1>1, <1>2, <1>4, <2>7, <2>8, <2>13
       DEF Sorting, FilesToCome, Walking
  <2> QED BY <2>5, <2>6, <2>14
<1>7. CASE ~(Len(out) > 1)
  <2>1. store' = store BY <1>7 DEF AppendDirectories, Apply
  <2>2. IndexKept(D) /\ ChildrenKept(D)
    BY <2>1 DEF IndexKept, ChildrenKept
  <2>3. DirectoriesAtEnd' BY <1>1, <1>7 DEF DirectoriesAtEnd
  <2>4. FilesInOrder' BY <1>1, <1>2, <2>1 DEF FilesInOrder
  <2>5. Sorting(D)'
    BY <1>1, <1>2, <1>4, <2>1, <2>3, <2>4
       DEF Sorting, FilesToCome, Walking
  <2> QED BY <2>2, <2>5
<1> QED BY <1>6, <1>7

(* The last step leaves both chains of the directory in order.             *)
DirectoriesSorted(D, d) ==
  /\ \A e \in D \ {d} : Children(store', e) = Children(store, e)
  /\ Children(store', d).files = Children(store, d).files
  /\ Children(store', d).directories = InOrder(Children(store, d).directories)
  /\ Children(store', d).directories = InOrder(Children(store', d).directories)
  /\ Children(store', d).files = InOrder(Children(store', d).files)

LEMMA DirectoriesArePatched ==
  ASSUME NEW D, Usable(store, D), Sorting(D), PatchDirectories
  PROVE  IndexKept(D) /\ DirectoriesSorted(D, asked.directory)
<1> DEFINE d == asked.directory  out == result.directories
           rows == Entries("directories")
           base == Len(store.directory_index) - Len(result.directories)
<1>1. job = "patchdirectories" BY DEF PatchDirectories
<1>2. /\ d \in D /\ FilesInOrder /\ DirectoriesAtEnd
      /\ asked.directories = DirectoriesOf(store, Header(store, d))
      /\ Len(out) = Len(asked.directories)
  BY <1>1 DEF Sorting, FilesToCome
<1>3. DirectoriesRead(asked.directories) BY SortRead
<1>4. Len(out) \in Nat BY <1>2, <1>3 DEF DirectoriesRead
<1>5. CASE Len(out) > 1
  <2> DEFINE h == [Header(store, d) EXCEPT !.directory_index_offset = base]
  <2>1. /\ DirectoriesWritten(base)
        /\ EndsWith(store.directory_index, rows, base)
    BY <1>2, <1>5 DEF DirectoriesAtEnd
  <2>2. Written(DirectoryItems(store, asked.directories), out, base)
    BY <2>1 DEF DirectoriesWritten, ItsDirectories
  <2>3. /\ Len(rows) = Len(out)
        /\ \A p \in 1..Len(out) : rows[p] = DirectoryRow(out[p])
    BY <2>2, DirectoryRows DEF IsRows
  <2>4. store' =
          [store EXCEPT !.directories[d + 1].directory_index_offset = base]
    BY <1>5 DEF PatchDirectories, Apply
  <2>5. store' = [store EXCEPT !.directories =
                    [store.directories EXCEPT ![d + 1] = h]]
    <3>1. h = [Header(store, d) EXCEPT !.directory_index_offset = base]
      OBVIOUS
    <3> HIDE DEF base, d, h
    <3> QED BY <2>4, <3>1 DEF Header
  <2> HIDE DEF h, base, rows, d, out
  <2>6. IsPatched(store, store', d, h)
    <3>1. /\ IsStore(store) /\ Sequential(store.directories)
          /\ d \in 0..(Len(store.directories) - 1)
      BY <1>2 DEF Usable
    <3> QED BY <3>1, <2>5, ReplacedHeader
  <2>7. IsSortedDirectories(store, store', D, d)
    <3>1. Len(asked.directories) > 0 BY <1>2, <1>4, <1>5
    <3> QED BY <3>1, <1>2, <2>1, <2>2, <2>3, <2>6, DirectoriesPatched DEF h
  <2>8. Children(store, d).files = InOrder(Children(store, d).files)
    BY <1>2 DEF FilesInOrder, d
  <2>9. IndexKept(D) /\ DirectoriesSorted(D, d)
    BY <2>7, <2>8 DEF IsSortedDirectories, IndexKept, DirectoriesSorted
  <2> QED BY <2>9 DEF d
<1>6. CASE ~(Len(out) > 1)
  <2>1. store' = store BY <1>6 DEF PatchDirectories, Apply
  <2>2. Len(DirectoriesOf(store, Header(store, d))) <= 1
    BY <1>2, <1>4, <1>6
  <2>3. Children(store, d).directories
          = InOrder(Children(store, d).directories)
    BY <1>2, <2>2, FewDirectories
  <2>4. Children(store, d).files = InOrder(Children(store, d).files)
    BY <1>2 DEF FilesInOrder
  <2>5. IndexKept(D) /\ DirectoriesSorted(D, d)
    BY <2>1, <2>3, <2>4 DEF IndexKept, DirectoriesSorted
  <2> QED BY <2>5
<1> QED BY <1>5, <1>6

(* What one step of a directory sort does.                                 *)
SortOutcome(D) ==
  /\ IndexKept(D) /\ index' = index /\ phase' = phase
  /\ job' \in SortJobs => Sorting(D)' /\ asked'.ask = "sort"
  /\ job' \in SortJobs \cup {"done"}
  /\ store' # store => job \in SortJobs
  /\ \/ ChildrenKept(D)
     \/ FilesSorted(D, asked.directory)
     \/ DirectoriesSorted(D, asked.directory)
  /\ job' = "done" => DirectoriesSorted(D, asked.directory)

(* D is what the index in the application's hands can be read as.          *)
Asking(D) ==
  /\ Usable(store, D) /\ Rooted(store, index.directories, D)
  /\ job \in SortJobs => Sorting(D) /\ asked.ask = "sort"
  /\ job = "none" => entries = <<>> /\ runs = <<>> /\ result = NoResult

(* The steps that leave the index alone.                                   *)
LEMMA SortReadsOn ==
  ASSUME NEW D, Asking(D),
         UNCHANGED <<store, index, phase>>, job' \in SortJobs,
         asked'.ask = "sort", Sorting(D)'
  PROVE  SortOutcome(D)
<1>1. IndexKept(D) /\ ChildrenKept(D)
  BY DEF Asking, IndexKept, ChildrenKept
<1>2. job' # "done"
  BY DEF SortJobs, FilesToCome, Walking
<1> QED BY <1>1, <1>2 DEF SortOutcome

LEMMA DirectorySortStep ==
  ASSUME NEW D, Asking(D), DirectorySort
  PROVE  SortOutcome(D)
<1> USE DEF SortJobs, FilesToCome, Walking
<1>1. CASE StartDirectorySort
  <2>1. Sorting(D)' BY <1>1, SortStarts DEF Asking, StartDirectorySort
  <2>2. /\ UNCHANGED <<store, index, phase>> /\ job' = "files"
        /\ asked'.ask = "sort"
    BY <1>1 DEF StartDirectorySort, vars, storeVars
  <2> QED BY <2>1, <2>2, SortReadsOn
<1>2. CASE CollectFile \/ MergeFile \/ CollectDirectory \/ MergeDirectory
  <2>1. /\ UNCHANGED <<store, index, phase, job, asked>>
        /\ job \in SortJobs
    BY <1>2 DEF CollectFile, MergeFile, CollectDirectory, MergeDirectory,
                Collect, WriteNext, vars, storeVars
  <2>2. Sorting(D)'
    BY <1>2, <2>1, FileCollected, FileMerged, DirectoryCollected,
       DirectoryMerged DEF Asking
  <2> QED BY <2>1, <2>2, SortReadsOn DEF Asking
<1>3. CASE FinishFiles \/ FinishDirectories
  <2>1. UNCHANGED <<store, index, phase, asked>> /\ job \in SortJobs
    BY <1>3 DEF FinishFiles, FinishDirectories, FinishOutput, vars,
                storeVars
  <2>2. Sorting(D)' /\ job' \in SortJobs
    BY <1>3, <2>1, FilesFinished, DirectoriesFinished DEF Asking
  <2> QED BY <2>1, <2>2, SortReadsOn DEF Asking
<1>4. CASE AppendFiles \/ AppendDirectories
  <2>1. /\ UNCHANGED <<index, phase, asked>> /\ job \in SortJobs
        /\ job' \in SortJobs /\ job' # "done"
    BY <1>4 DEF AppendFiles, AppendDirectories, Apply
  <2>2. Sorting(D)' /\ IndexKept(D) /\ ChildrenKept(D)
    BY <1>4, <2>1, FilesAreAppended, DirectoriesAreAppended DEF Asking
  <2> HIDE DEF SortJobs, FilesToCome, Walking
  <2> QED BY <2>1, <2>2 DEF Asking, SortOutcome
<1>5. CASE PatchFiles
  <2>1. /\ UNCHANGED <<index, phase, asked>> /\ job \in SortJobs
        /\ job' \in SortJobs /\ job' # "done"
    BY <1>5 DEF PatchFiles, Apply
  <2>2. Sorting(D)' /\ IndexKept(D) /\ FilesSorted(D, asked.directory)
    BY <1>5, <2>1, FilesArePatched DEF Asking
  <2> HIDE DEF SortJobs, FilesToCome, Walking
  <2> QED BY <2>1, <2>2 DEF Asking, SortOutcome
<1>6. CASE PatchDirectories
  <2>1. /\ UNCHANGED <<index, phase, asked>> /\ job \in SortJobs
        /\ job' = "done" /\ job' \notin SortJobs
    BY <1>6 DEF PatchDirectories, Apply
  <2>2. IndexKept(D) /\ DirectoriesSorted(D, asked.directory)
    BY <1>6, <2>1, DirectoriesArePatched DEF Asking
  <2> HIDE DEF SortJobs, FilesToCome, Walking
  <2> QED BY <2>1, <2>2 DEF SortOutcome
<1> QED BY <1>1, <1>2, <1>3, <1>4, <1>5, <1>6 DEF DirectorySort

SortedInv == AskedInv /\ SortInv

(* The tape sort, the search and the end of a query leave the index alone. *)
LEMMA OthersKeepSort ==
  ASSUME SortInv, UNCHANGED <<store, index, phase>>, job' \notin SortJobs,
         job' \in {"collect", "merge"} => asked'.ask = "tape",
         job' = "search" => asked'.ask = "search",
         job' = "none" =>
           entries' = <<>> /\ runs' = <<>> /\ result' = NoResult
  PROVE  SortInv'
BY DEF SortInv

LEMMA TapeSortLeaves ==
  ASSUME SortInv, TapeSort
  PROVE  /\ SortInv' /\ store' = store /\ job' # "failed"
         /\ job' = "done" => asked.ask = "tape"
<1> USE DEF SortJobs, FilesToCome, Walking
<1>1. /\ UNCHANGED <<store, index, phase>>
      /\ job' \in {"collect", "merge", "done"}
  BY DEF TapeSort, StartTapeSort, VisitTapeFile, EnterTapeDirectory,
         LeaveTapeDirectory, RenameRun, MergeTapeRun, FinishTapeSort,
         vars, storeVars
<1>2. asked'.ask = "tape" /\ (job' = "done" => asked.ask = "tape")
  <2>1. CASE StartTapeSort BY <2>1 DEF StartTapeSort
  <2>2. CASE ~StartTapeSort
    <3>1. job \in {"collect", "merge"} /\ asked' = asked
      BY <2>2 DEF TapeSort, VisitTapeFile, EnterTapeDirectory,
         LeaveTapeDirectory, RenameRun, MergeTapeRun, FinishTapeSort
    <3> QED BY <3>1 DEF SortInv
  <2> QED BY <2>1, <2>2
<1>3. SortInv' BY <1>1, <1>2, OthersKeepSort
<1> QED BY <1>1, <1>2, <1>3

LEMMA SearchLeaves ==
  ASSUME SortInv, Search
  PROVE  /\ SortInv' /\ store' = store /\ job' # "failed"
         /\ job' = "done" => asked.ask = "search"
<1> USE DEF SortJobs, FilesToCome, Walking
<1>1. UNCHANGED <<store, index, phase>> /\ job' \in {"search", "done"}
  BY DEF Search, StartSearch, SearchFile, SearchDirectory, LeaveSearched,
         WrapAround, Found, vars, storeVars
<1>2. /\ asked'.ask = "search"
      /\ job' = "done" => asked.ask = "search"
  <2>1. CASE StartSearch BY <2>1 DEF StartSearch
  <2>2. CASE ~StartSearch
    <3>1. job = "search" /\ asked' = asked
      BY <2>2 DEF Search, SearchFile, SearchDirectory, LeaveSearched,
         WrapAround
    <3> QED BY <3>1 DEF SortInv
  <2> QED BY <2>1, <2>2
<1>3. SortInv' BY <1>1, <1>2, OthersKeepSort
<1> QED BY <1>1, <1>2, <1>3

LEMMA EndLeaves ==
  ASSUME SortInv, QueryFails \/ Answered
  PROVE  /\ SortInv' /\ store' = store /\ job' # "done"
         /\ job' = "failed" => fault'
<1> USE DEF SortJobs, FilesToCome, Walking
<1>1. /\ UNCHANGED <<store, index, phase>> /\ job' \in {"failed", "none"}
      /\ job' = "failed" => fault'
      /\ entries' = <<>> /\ runs' = <<>> /\ result' = NoResult
  BY DEF QueryFails, Answered, callVars, storeVars
<1>2. SortInv' BY <1>1, OthersKeepSort
<1> QED BY <1>1, <1>2

(* The property of one step.                                               *)
SortedStep ==
  phase = "ready" =>
       /\ store' # store => \A d \in Directories :
            LET before == Children(store, d)
                after == Children(store', d)
            IN  after # before =>
                  /\ asked.ask = "sort" /\ asked.directory = d
                  /\ after.files \in {before.files, InOrder(before.files)}
                  /\ after.directories \in
                       {before.directories, InOrder(before.directories)}
       /\ (job' = "done" /\ asked.ask = "sort") =>
            LET after == Children(store', asked.directory)
            IN  /\ after.files = InOrder(after.files)
                /\ after.directories = InOrder(after.directories)
       /\ job' = "failed" => fault'

LEMMA DirectorySortSorts ==
  ASSUME SortInv, phase = "ready", DirectorySort
  PROVE  SortInv' /\ SortedStep
<1>1. PICK D : Asking(D) BY DEF SortInv, Asking
<1>2. SortOutcome(D) BY <1>1, DirectorySortStep
<1>3. SortInv'
  <2>1. Usable(store', D) BY <1>2 DEF SortOutcome, IndexKept
  <2>2. Rooted(store', index'.directories, D)
    BY <1>1, <1>2, RootStays DEF Asking, SortOutcome, IndexKept
  <2>3. job' \notin {"collect", "merge", "search", "none"}
    BY <1>2 DEF SortOutcome, SortJobs, FilesToCome, Walking
  <2> QED BY <1>2, <2>1, <2>2, <2>3 DEF SortOutcome, SortInv
<1>4. job' # "failed"
  BY <1>2 DEF SortOutcome, SortJobs, FilesToCome, Walking
<1>5. ASSUME job' = "done"
      PROVE  /\ Children(store', asked.directory).files
                  = InOrder(Children(store', asked.directory).files)
             /\ Children(store', asked.directory).directories
                  = InOrder(Children(store', asked.directory).directories)
  BY <1>2, <1>5 DEF SortOutcome, DirectoriesSorted
<1>6. ASSUME store' # store, NEW d \in Directories,
             Children(store', d) # Children(store, d)
      PROVE  /\ asked.ask = "sort" /\ asked.directory = d
             /\ Children(store', d).files
                  \in {Children(store, d).files,
                       InOrder(Children(store, d).files)}
             /\ Children(store', d).directories
                  \in {Children(store, d).directories,
                       InOrder(Children(store, d).directories)}
  <2>1. d \in D BY <1>1, DirectoriesWithin DEF Asking
  <2>2. asked.ask = "sort" BY <1>1, <1>2, <1>6 DEF Asking, SortOutcome
  <2>3. ~ChildrenKept(D) BY <2>1, <1>6 DEF ChildrenKept
  <2>4. \/ FilesSorted(D, asked.directory)
        \/ DirectoriesSorted(D, asked.directory)
    BY <1>2, <2>3 DEF SortOutcome
  <2> QED BY <2>1, <2>2, <2>4, <1>6 DEF FilesSorted, DirectoriesSorted
<1>7. SortedStep BY <1>4, <1>5, <1>6 DEF SortedStep
<1> QED BY <1>3, <1>7

LEMMA SortInit == QueryInit => SortInv
BY DEF QueryInit, Init, SortInv, SortJobs, FilesToCome, Walking

LEMMA SortStutters ==
  ASSUME SortInv, UNCHANGED <<store, index, phase, job, asked, trail,
                              entries, runs, result>>
  PROVE  SortInv'
<1>1. /\ Top' = Top /\ ItsFiles' = ItsFiles
      /\ ItsDirectories' = ItsDirectories
      /\ Entries("files")' = Entries("files")
      /\ Entries("directories")' = Entries("directories")
  BY DEF Top, ItsFiles, ItsDirectories, Entries
<1>2. CollectsFiles' <=> CollectsFiles BY <1>1 DEF CollectsFiles
<1>3. /\ FilesWritten(Len(store.file_index))'
           <=> FilesWritten(Len(store.file_index))
      /\ DirectoriesWritten(Len(store.directory_index))'
           <=> DirectoriesWritten(Len(store.directory_index))
  BY <1>1 DEF FilesWritten, DirectoriesWritten
<1>4. CollectsDirectories' <=> CollectsDirectories
  BY <1>1, <1>3 DEF CollectsDirectories
<1>5. (FilesAtEnd' <=> FilesAtEnd) /\ (DirectoriesAtEnd' <=> DirectoriesAtEnd)
  BY <1>1 DEF FilesAtEnd, DirectoriesAtEnd, FilesWritten,
              DirectoriesWritten
<1>6. FilesInOrder' <=> FilesInOrder BY DEF FilesInOrder
<1>7. ASSUME NEW D, Sorting(D) PROVE Sorting(D)'
  BY <1>1, <1>2, <1>3, <1>4, <1>5, <1>6, <1>7 DEF Sorting
<1> QED BY <1>7 DEF SortInv

LEMMA SortNext ==
  ASSUME AskedInv, SortInv, [QueryNext]_allVars
  PROVE  SortInv' /\ (SortedStep \/ UNCHANGED allVars)
<1>1. CASE Next /\ job = "none" /\ UNCHANGED queryVars
  <2>1. /\ job' = "none" /\ UNCHANGED <<entries, runs, result>>
    BY <1>1 DEF queryVars, walkVars
  <2>2. ReadInv' BY <1>1, SortReads, NextReads DEF AskedInv
  <2>3. SortInv'
    BY <2>1, <2>2, <1>1
       DEF ReadInv, CanRead, SortInv, SortJobs, FilesToCome, Walking
  <2>4. phase = "ready" => store' = store
    BY <1>1 DEF Next, CallerStep, OpenFails, ParseFile, StartMerge, Receive,
       Join, AppendNext, StartNormalise, NormaliseEntry, EnterDirectory,
       LeaveDirectory, FinishMerge, IoFails, MergeFails, Returned, vars,
       storeVars, WorkerStep, PopTask, CreateTemporary, ParseSource,
       SendResult
  <2> QED BY <2>1, <2>3, <2>4 DEF SortedStep
<1>2. CASE DirectorySort
  <2>1. phase = "ready"
    BY <1>2 DEF AskedInv, QueryInv, DirectorySort, StartDirectorySort,
       CollectFile, MergeFile, FinishFiles, CollectDirectory,
       MergeDirectory, FinishDirectories, AppendFiles, PatchFiles,
       AppendDirectories, PatchDirectories, FinishOutput
  <2> QED BY <1>2, <2>1, DirectorySortSorts
<1>3. CASE TapeSort BY <1>3, TapeSortLeaves DEF SortedStep
<1>4. CASE Search BY <1>4, SearchLeaves DEF SortedStep
<1>5. CASE QueryFails \/ Answered BY <1>5, EndLeaves DEF SortedStep
<1>6. CASE UNCHANGED allVars
  <2>1. UNCHANGED <<store, index, phase, job, asked, trail, entries, runs,
                    result>>
    BY <1>6 DEF allVars, vars, storeVars, queryVars, walkVars
  <2>2. SortInv' BY <2>1, SortStutters
  <2> QED BY <2>2, <1>6
<1> QED BY <1>1, <1>2, <1>3, <1>4, <1>5, <1>6 DEF QueryNext

(* A directory sort changes one directory only, and leaves each of its two *)
(* chains as it was or in the stable order by name, with every child; when *)
(* it is done both are sorted, and nothing but an I/O error makes it fail. *)
THEOREM SortsOneDirectoryOnly == QuerySpec => SortsOneDirectory
<1>1. QueryInit => AskedInv /\ SortInv BY AskedInit, SortInit
<1>2. AskedInv /\ SortInv /\ [QueryNext]_allVars
        => (AskedInv /\ SortInv)'
  BY AskedNext, SortNext
<1>3. AskedInv /\ SortInv /\ [QueryNext]_allVars => [SortsStep]_allVars
  <2>1. SortedStep => SortsStep BY DEF SortedStep, SortsStep, InOrder
  <2> QED BY <2>1, SortNext
<1> QED BY <1>1, <1>2, <1>3, PTL DEF QuerySpec, SortsOneDirectory

(* Whatever was merged or parsed, and however its directories were sorted, *)
(* an error between any two steps of a sort included: while the            *)
(* application has the index, every chain of every directory it is shown   *)
(* stays in the index and leads to directories that are shown.             *)
THEOREM IndexStaysReadable == QuerySpec => []ReadInv
<1>1. QueryInit => AskedInv /\ SortInv BY AskedInit, SortInit
<1>2. AskedInv /\ SortInv /\ [QueryNext]_allVars
        => (AskedInv /\ SortInv)'
  BY AskedNext, SortNext
<1>3. SortInv => ReadInv BY SortReads
<1> QED BY <1>1, <1>2, <1>3, PTL DEF QuerySpec

=============================================================================
