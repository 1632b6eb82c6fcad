----------------------------- MODULE IndexTree -----------------------------
(***************************************************************************)
(* What an index is, said without stores, offsets and stacks: the tree a   *)
(* document describes, read off its events by their nesting alone, and the *)
(* union of several trees by path.  A store is read back into a tree of    *)
(* the same form, so that the two can be compared.                         *)
(*                                                                         *)
(* A tree is [name, files, directories, total_files, total_directories];   *)
(* a file of it is [file, barcode].                                        *)
(***************************************************************************)
EXTENDS IndexChains

MaxOf(S) == CHOOSE x \in S : \A y \in S : y <= x
IsDirectory(e) ==
  e.ev = "emptydir" \/ (e.ev = "open" /\ e.el = "directory")
IsFile(e) == e.ev \in {"file", "emptyfile"}

(* The events of the document that count: those at most nested in          *)
(* directories and containers below event top.                             *)
Below(events, top) ==
  {i \in (top + 1)..Len(events) :
     /\ top \in Enclosing(events, i)
     /\ \A j \in Enclosing(events, i) :
          j > top => events[j].el \in {"directory", "contents"}}

Parent(events, top, i) ==
  MaxOf({top} \cup {j \in Enclosing(events, i) :
                      j > top /\ events[j].el = "directory"})

DirectoryName(events, d) ==
  LET given == {i \in (d + 1)..Len(events) :
                  /\ events[i].ev = "name"
                  /\ Enclosing(events, i) # {}
                  /\ MaxOf(Enclosing(events, i)) = d}
  IN  IF given = {} THEN "" ELSE events[MaxOf(given)].value

FileOf(barcode, e) ==
  [file |-> IF e.ev = "file" THEN e.file ELSE "empty", barcode |-> barcode]

Concat(seqs) ==
  LET joined[k \in 0..Len(seqs)] ==
        IF k = 0 THEN <<>> ELSE joined[k - 1] \o seqs[k]
  IN  joined[Len(seqs)]

(* A list, and what an operator makes of every element.                    *)
InOrder(S, n) == SelectSeq([k \in 1..n |-> k], LAMBDA k : k \in S)
EachOf(list, F(_)) == Concat([k \in DOMAIN list |-> <<F(list[k])>>])

AddUp(trees, field) ==
  LET sum[k \in 0..Len(trees)] ==
        IF k = 0 THEN 0 ELSE sum[k - 1] + trees[k][field]
  IN  sum[Len(trees)]

Tree(name, files, directories) ==
  [name |-> name, files |-> files, directories |-> directories,
   total_files |-> Len(files) + AddUp(directories, "total_files"),
   total_directories |->
     Len(directories) + AddUp(directories, "total_directories")]

(* The tree below event d of a document whose top is event top.            *)
RECURSIVE TreeBelow(_, _, _, _)
TreeBelow(events, barcode, top, d) ==
  LET children == {i \in Below(events, top) :
                     i > d /\ Parent(events, top, i) = d}
      files == {i \in children : IsFile(events[i])}
      directories == {i \in children : IsDirectory(events[i])}
      Child(i) == TreeBelow(events, barcode, top, i)
      File(i) == FileOf(barcode, events[i])
  IN  Tree(IF events[d].ev = "open" /\ d # top
           THEN DirectoryName(events, d) ELSE "",
           EachOf(InOrder(files, Len(events)), File),
           IF events[d].ev = "emptydir" THEN <<>>
           ELSE EachOf(InOrder(directories, Len(events)), Child))

(* A document parsed on its own: a root element directory is the only      *)
(* child of the index.                                                     *)
DocumentTree(events) ==
  IF events[1].el = "directory"
  THEN LET whole == <<[ev |-> "open", el |-> "ltfsindex"]>> \o events
       IN  Tree("", <<>>, <<TreeBelow(whole, NoBarcode, 1, 2)>>)
  ELSE TreeBelow(events, NoBarcode, 1, 1)

(* A document as a source of a merge: the first directory's children.      *)
SourceTree(document) ==
  LET events == document.events
  IN  IF FirstDirectory(events) = {} THEN Tree("", <<>>, <<>>)
      ELSE TreeBelow(events, document.barcode, TopOf(events, TRUE),
                     TopOf(events, TRUE))

(* The union by path: directories of one name become one, where the first  *)
(* of them stood; files are kept, also those of one name.                  *)
RECURSIVE Union(_, _)
Union(name, trees) ==
  LET directories == Concat([k \in DOMAIN trees |-> trees[k].directories])
      firsts == {k \in DOMAIN directories :
                   \A j \in 1..(k - 1) :
                     directories[j].name # directories[k].name}
      Same(k) == SelectSeq(directories,
                           LAMBDA t : t.name = directories[k].name)
      One(k) == Union(directories[k].name, Same(k))
  IN  Tree(name, Concat([k \in DOMAIN trees |-> trees[k].files]),
           EachOf(InOrder(firsts, Len(directories)), One))

(* The tree a store holds below the chains given, with the totals its      *)
(* headers state.                                                          *)
RECURSIVE DirectoryTree(_, _)
DirectoryTree(s, offset) ==
  LET h == Header(s, offset)
      files == FilesOf(s, h)
      directories == DirectoriesOf(s, h)
      Describe(r) == [file |-> r.file, barcode |-> r.barcode]
  IN  [name |-> h.name,
       files |-> [k \in DOMAIN files |-> Describe(FileAt(s, files[k]))],
       directories |-> [k \in DOMAIN directories |->
                          DirectoryTree(s, DirectoryAt(s, directories[k]))],
       total_files |-> h.total_file_count,
       total_directories |-> h.total_directory_count]

StoreTree(s, roots) ==
  LET files == Walk(s.file_index, roots.files.first, roots.files.count)
      directories == Walk(s.directory_index, roots.directories.first,
                          roots.directories.count)
      Describe(r) == [file |-> r.file, barcode |-> r.barcode]
  IN  Tree("", [k \in DOMAIN files |-> Describe(FileAt(s, files[k]))],
           [k \in DOMAIN directories |->
              DirectoryTree(s, DirectoryAt(s, directories[k]))])

Expected ==
  [c \in Calls |->
     IF c.merge
     THEN Tree("", <<>>, <<Union("root", EachOf(c.documents, SourceTree))>>)
     ELSE IF Complete(c.documents[1].events, FALSE)
     THEN DocumentTree(c.documents[1].events)
     ELSE Tree("", <<>>, <<>>)]

(* The index handed to the application is the one the documents describe:  *)
(* a parsed document keeps its nesting, names, files and order and has the *)
(* right totals in every header; a merge is the union of its sources by    *)
(* path, in the order the sources were given, whichever worker parsed      *)
(* which of them first, and every file record of it reads back whole with  *)
(* the barcode of the tape it came from.                                   *)
IndexIsTheDocuments ==
  Fresh => StoreTree(store, index) = Expected[call]

=============================================================================
