---------------------------- MODULE IndexChains ----------------------------
(***************************************************************************)
(* What holds the tree of an index together: which documents are indexes   *)
(* at all, the chains followed from the root of a merge, and what must be  *)
(* true of them at every step: nothing hangs in two places or in none, and *)
(* no step fails over them.  What the tree says is IndexTree's subject.    *)
(***************************************************************************)
EXTENDS IndexQuery

CountIf(events, i, j, kind) ==
  Cardinality({k \in i..j : events[k].ev = kind})

(* The elements still open just before event i.                            *)
Enclosing(events, i) ==
  {j \in 1..(i - 1) :
     /\ events[j].ev = "open"
     /\ \A k \in j..(i - 1) :
          CountIf(events, j, k, "open") > CountIf(events, j, k, "close")}

MinOfSet(S) == CHOOSE x \in S : \A y \in S : x <= y

(* The first directory of a document, and whether its root, or that        *)
(* directory, is closed: a document cut off before is no index.            *)
FirstDirectory(events) ==
  {i \in 1..Len(events) :
     /\ events[i].ev = "open" /\ events[i].el = "directory"
     /\ i = 1 \/ 1 \in Enclosing(events, i)}

ClosedBy(events, d, n) ==
  \E k \in d..n : CountIf(events, d, k, "open")
                   = CountIf(events, d, k, "close")

TopOf(events, merge) ==
  IF merge /\ FirstDirectory(events) # {}
  THEN MinOfSet(FirstDirectory(events)) ELSE 1

Complete(events, merge) ==
  /\ events # <<>> /\ events[1].ev = "open"
  /\ events[1].el \in {"ltfsindex", "directory"}
  /\ \E n \in 1..Len(events) :
       /\ ClosedBy(events, TopOf(events, merge), n)
       /\ \A k \in 1..n : events[k].ev # "unsafe"

(* The index has just been handed to the application.                      *)
Fresh == phase = "ready" /\ job = "none" /\ sorts = 0

(* No call fails of itself: the errors the merge raises about its own      *)
(* chains, headers and records never happen, only a document that is cut   *)
(* off or has an unsafe construct, or an I/O error, makes a call fail.     *)
FailsForCause ==
  phase = "failed" =>
    \/ fault
    \/ \E k \in 1..N : ~Complete(call.documents[k].events, call.merge)

(* The directories reached from the root of a merge in progress, following *)
(* every chain to its end.                                                 *)
Follow(chain_index, first) ==
  LET n == Len(chain_index)
      walk == Walk(chain_index, first, n)
  IN  {walk[k] : k \in {j \in 1..n : walk[j] >= 0}}

Chains(s, r) ==
  LET Children(d) == {DirectoryAt(s, e) : e \in
                        Follow(s.directory_index,
                               Header(s, d).directory_index_offset)}
      top == {DirectoryAt(s, e) :
                e \in Follow(s.directory_index, r.directories.first)}
      below[k \in 0..Len(s.directories)] ==
        IF k = 0 THEN top
        ELSE LET above == below[k - 1] IN UNION {Children(d) : d \in above}
  IN  UNION {below[k] : k \in 0..Len(s.directories)}

(* At every step of a merge, also between the steps that take a duplicate  *)
(* directory apart, every file appended so far hangs in exactly one chain  *)
(* of a directory that is still reached from the root, and no chain of     *)
(* directories runs into another: nothing is lost, shared or left in a     *)
(* cycle.                                                                  *)
NothingLost ==
  (phase \in {"append", "normalise", "finish"}) =>
    LET live == Chains(store, root)
        FileChain(d) == Follow(store.file_index,
                               Header(store, d).file_index_offset)
        ChildChain(d) == Follow(store.directory_index,
                                Header(store, d).directory_index_offset)
        ofRoot == Follow(store.file_index, root.files.first)
        childrenOfRoot == Follow(store.directory_index,
                                 root.directories.first)
    IN  /\ ofRoot \cup UNION {FileChain(d) : d \in live}
             = 0..(Len(store.file_index) - 1)
        /\ \A d \in live : FileChain(d) \cap ofRoot = {}
                           /\ ChildChain(d) \cap childrenOfRoot = {}
        /\ \A d, e \in live : d # e =>
             /\ FileChain(d) \cap FileChain(e) = {}
             /\ ChildChain(d) \cap ChildChain(e) = {}

(* In a merged index no two files and directories have the same file uid,  *)
(* and none has one above the highest the index states.                    *)
UidsUnique ==
  (Fresh /\ call.merge) =>
    LET top == DirectoryAt(store, index.directories.first)
        live == {top} \cup Chains(store, root)
        hung == 0..(Len(store.file_index) - 1)
    IN  /\ \A f \in hung : FileAt(store, f).uid \in 1..HighestFileUid
        /\ \A d \in live \ {top} :
             Header(store, d).file_uid \in 1..HighestFileUid
        /\ \A f, g \in hung :
             f # g => FileAt(store, f).uid # FileAt(store, g).uid
        /\ \A d, e \in live :
             d # e => Header(store, d).file_uid # Header(store, e).file_uid
        /\ \A f \in hung, d \in live :
             FileAt(store, f).uid # Header(store, d).file_uid

(* A file record that is counted in the index reads back as one whole file *)
(* element, as the record parser requires of it.                           *)
RecordsReadBack ==
  Fresh => \A k \in DOMAIN store.file_index : FileAt(store, k - 1) # Damaged
=============================================================================
