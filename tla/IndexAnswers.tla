---------------------------- MODULE IndexAnswers ----------------------------
(***************************************************************************)
(* What the queries of an index promise, said about the tree it holds: the *)
(* entries below a directory in the order they are shown, and the orders   *)
(* as the place every entry has among the others.                          *)
(***************************************************************************)
EXTENDS IndexTree, IndexSort

FileItem(s, d, path, entry) ==
  LET e == s.file_index[entry + 1]
      record == FileAt(s, entry)
      name == IF record.file = "empty" THEN "" ELSE record.file
  IN  [kind |-> "file", record |-> e.record_offset, parent |-> d,
       name |-> name, path |-> path, file |-> record.file,
       selection |-> e.selection]

(* The entries below a directory: its files, then every directory followed *)
(* by what is below it.                                                    *)
RECURSIVE Listing(_, _, _)
Listing(s, d, path) ==
  LET h == Header(s, d)
      files == FilesOf(s, h)
      children == DirectoriesOf(s, h)
  IN  [k \in DOMAIN files |-> FileItem(s, d, path, files[k])]
      \o Concat([k \in DOMAIN children |->
           LET e == s.directory_index[children[k] + 1]
               name == NameAt(s, children[k])
           IN  <<[kind |-> "directory", record |-> e.record_offset,
                  parent |-> d, name |-> name, path |-> path,
                  selection |-> e.selection]>>
               \o Listing(s, e.record_offset, Append(path, name))])

(* The files of the whole index, with the path below the root directory.   *)
AllFiles ==
  LET files == Walk(store.file_index, index.files.first, index.files.count)
      roots == Walk(store.directory_index, index.directories.first,
                    index.directories.count)
  IN  [k \in DOMAIN files |-> FileItem(store, -1, <<>>, files[k])]
      \o SelectSeq(Concat([k \in DOMAIN roots |->
                     Listing(store, DirectoryAt(store, roots[k]), <<>>)]),
                   LAMBDA item : item.kind = "file")

(* The place of a file on the tapes, then its path.                        *)
OnTapeBefore(x, y) ==
  LET p == Extent[x.file]
      q == Extent[y.file]
  IN  \/ p.partition < q.partition
      \/ p.partition = q.partition /\ p.block < q.block
      \/ p = q /\ PathBefore(Append(x.path, x.name), Append(y.path, y.name))

RecordsOf(items) == [k \in DOMAIN items |-> items[k].record]

(* The output of a tape sort is exactly the selected files, each once, in  *)
(* the order of partition, block and path, files equal in all three in the *)
(* order of the index, whatever the chunks and however many runs were      *)
(* merged or renamed; the counts say how many there are of each partition, *)
(* and every file was reported as processed.                               *)
TapeOrderExact ==
  (job = "done" /\ asked.ask = "tape") =>
    LET chosen == SelectSeq(AllFiles, LAMBDA item :
                              item.selection \notin asked.cleared)
        InPartition(p) ==
          Cardinality({k \in DOMAIN chosen :
                         Extent[chosen[k].file].partition = p})
    IN  /\ RecordsOf(result.tape) = RecordsOf(Sorted(chosen, OnTapeBefore))
        /\ counts = [a |-> InPartition(0), b |-> InPartition(1)]
        /\ progress.processed = progress.total

(* A search finds the first entry below its root whose name contains the   *)
(* keyword after the entry it resumes after, going on from the start when  *)
(* it comes to the end, so that asking for the next one again and again    *)
(* visits every entry that matches once in each round; also between sorts, *)
(* and from an entry that is not below the root.  It reports the entry's   *)
(* path, and never more progress than it announced.                        *)
FindsTheNext ==
  /\ asked.ask = "search" => progress.processed <= progress.total
  /\ (job = "done" /\ asked.ask = "search") =>
       LET items == Listing(store, asked.directory, <<>>)
           n == Len(items)
           matching == {k \in 1..n : items[k].name \in Matches[asked.keyword]}
           at == {k \in 1..n : /\ items[k].kind = asked.resume.kind
                               /\ items[k].record = asked.resume.record}
           start == IF at = {} THEN 0 ELSE CHOOSE k \in at : TRUE
           later == {k \in matching : k > start}
           item == items[MinOfSet(IF later = {} THEN matching ELSE later)]
           path == SelectSeq(Append(item.path, item.name),
                             LAMBDA name : name # "")
       IN  IF matching = {} THEN result.hit = <<>>
           ELSE result.hit = <<[kind |-> item.kind, record |-> item.record,
                                parent |-> item.parent, path |-> path]>>
=============================================================================
