----------------------------- MODULE IndexSort -----------------------------
(***************************************************************************)
(* What the sort of a directory promises: the order as the place every     *)
(* child has among the others, without chunks, runs and heaps.             *)
(***************************************************************************)
EXTENDS IndexChains

(* The place of element k of items under an order, elements that are equal *)
(* in it kept as they stand.                                               *)
Place(items, k, Before(_, _)) ==
  1 + Cardinality({j \in DOMAIN items :
                     \/ Before(items[j], items[k])
                     \/ j < k /\ ~Before(items[k], items[j])})

Sorted(items, Before(_, _)) ==
  [p \in DOMAIN items |->
     items[CHOOSE k \in DOMAIN items : Place(items, k, Before) = p]]

(* What the application sees of a directory.                               *)
Children(s, d) ==
  LET h == Header(s, d)
      files == FilesOf(s, h)
      directories == DirectoriesOf(s, h)
  IN  [files |-> [k \in DOMAIN files |->
                    [record |-> s.file_index[files[k] + 1].record_offset,
                     name |-> FileName(FileAt(s, files[k]))]],
       directories |-> [k \in DOMAIN directories |->
                          [record |-> DirectoryAt(s, directories[k]),
                           name |-> NameAt(s, directories[k])]]]

OrderedBy(x, y) == PlaceOfName(x.name) < PlaceOfName(y.name)

SortsStep ==
  phase = "ready" =>
    /\ store' # store => \A d \in Directories :
         LET before == Children(store, d)
             after == Children(store', d)
         IN  after # before =>
               /\ asked.ask = "sort" /\ asked.directory = d
               /\ after.files \in
                    {before.files, Sorted(before.files, OrderedBy)}
               /\ after.directories \in
                    {before.directories, Sorted(before.directories, OrderedBy)}
    /\ (job' = "done" /\ asked.ask = "sort") =>
         LET after == Children(store', asked.directory)
         IN  /\ after.files = Sorted(after.files, OrderedBy)
             /\ after.directories = Sorted(after.directories, OrderedBy)
    /\ job' = "failed" => fault'

(* A directory sort changes no directory but the one it was asked for, and *)
(* that one in at most two steps: its files come into the stable order by  *)
(* name, then its directories do.  An error on the way leaves each of the  *)
(* two as it was or sorted, with every child, and no other reason makes    *)
(* the sort fail; when it is done both are sorted.                         *)
SortsOneDirectory == [][SortsStep]_allVars
=============================================================================
