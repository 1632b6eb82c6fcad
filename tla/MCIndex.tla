------------------------------ MODULE MCIndex ------------------------------
(***************************************************************************)
(* Instances of IndexMerge and IndexQuery.  Parsed documents: every        *)
(* sequence of up to three events below an ltfsindex or a directory, closed*)
(* or cut off.  Merges: up to three of the documents below, which repeat   *)
(* directories in one source and across sources at several depths, have    *)
(* empty and unnamed directories, an index without a directory, a first    *)
(* directory found inside other elements, and a document that is cut off.  *)
(* Three of the indexes are asked for every sort and search.               *)
(***************************************************************************)
EXTENDS IndexAnswers

Open(el) == [ev |-> "open", el |-> el]
Close == [ev |-> "close"]
Name(n) == [ev |-> "name", value |-> n]
File(f) == [ev |-> "file", file |-> f]
EmptyFile == [ev |-> "emptyfile"]
EmptyDirectory == [ev |-> "emptydir"]
Unsafe == [ev |-> "unsafe"]

Dir(n, items) ==
  <<Open("directory"), Name(n)>> \o items \o <<Close>>
Ltfs(items) == <<Open("ltfsindex")>> \o items \o <<Close>>
Contents(items) == <<Open("contents")>> \o items \o <<Close>>

Alphabet ==
  {Open("directory"), Open("contents"), Open("other"), Close, Name("a"),
   File("f"), EmptyFile, EmptyDirectory, Unsafe}

Depth(s) == Cardinality({k \in DOMAIN s : s[k].ev = "open"})
            - Cardinality({k \in DOMAIN s : s[k].ev = "close"})

Bodies == UNION {[1..n -> Alphabet] : n \in 0..3}

Completed(s) ==
  s \o [k \in 1..(IF Depth(s) > 0 THEN Depth(s) ELSE 0) |-> Close]

(* <file/> among the children of ltfsindex                                 *)
RootEmptyFile(s) ==
  \E i \in DOMAIN s :
    s[i] = EmptyFile /\ \A j \in Enclosing(s, i) :
                          s[j].el \in {"ltfsindex", "contents"}

Roots == {Open("ltfsindex"), Open("directory")}

ParsedDocuments ==
  {s \in {Completed(<<r>> \o b) : r \in Roots, b \in Bodies} :
     ~RootEmptyFile(s)}
  \cup {<<Open("ltfsindex")>> \o b : b \in {<<>>, <<File("f")>>}}
  \cup {<<>>, <<File("f")>>}

First ==
  Ltfs(Dir("one", Contents(
    <<File("f1")>> \o Dir("a", <<File("f2")>> \o Dir("c", <<File("f3")>>))
    \o Dir("b", <<>>))))

Second ==
  Ltfs(Dir("two", Contents(
    Dir("a", Dir("c", <<File("f4")>>) \o <<File("f5")>>)
    \o <<File("f1")>> \o Dir("d", <<EmptyFile>>))))

Twice ==
  Dir("three",
    Dir("a", Dir("c", <<>>) \o Dir("c", <<File("f6")>>)) \o <<EmptyDirectory>>
    \o Dir("a", Dir("c", Dir("e", <<File("f7")>>)))
    \o Dir("b", <<File("f8")>>) \o Dir("", <<File("f9")>>))

Nowhere == Ltfs(<<File("f1")>>)

Inside ==
  Ltfs(<<File("f1"), Open("other")>> \o Dir("x", <<File("f2")>>) \o <<Close>>
       \o Dir("y", <<File("f3")>>))

CutOff == <<Open("ltfsindex"), Open("directory"), File("f1")>>

Left == Dir("left", Dir("a", <<File("f2"), File("f1")>>) \o Dir("c", <<>>))
Right == Dir("right", <<File("f3")>> \o Dir("a", <<File("f1")>>))

Deep == Dir("deep", Dir("b", Dir("e", <<File("f7")>>)))

Of(k) ==
  <<First, Second, Twice, Nowhere, Inside, CutOff, Left, Right, Deep>>[k]
Tape(i) == <<"t1", "t2", "t3">>[i]

MergeCall(list) ==
  [merge |-> TRUE,
   documents |-> [i \in DOMAIN list |->
                    [barcode |-> Tape(i), events |-> Of(list[i])]]]

ParseCall(s) ==
  [merge |-> FALSE, documents |-> <<[barcode |-> "none", events |-> s]>>]

SmallCalls ==
  {ParseCall(s) : s \in ParsedDocuments}
  \cup {MergeCall(l) : l \in {<<>>, <<1>>, <<1, 2>>, <<3, 2>>, <<3, 1>>,
                              <<4, 1>>, <<5, 2>>, <<6, 3>>, <<1, 9>>, <<1, 6, 2>>,
                              <<1, 2, 3>>, <<3, 2, 3>>}}

(* The calls whose index is asked: root files and a nested directory; one  *)
(* name several times among the children of a directory; a merge that      *)
(* takes a directory apart.                                                *)
Mixed ==
  Ltfs(<<File("f2"), File("f1")>>
       \o Dir("b", <<File("f5")>> \o Dir("a", <<File("f1")>>)))

Repeated ==
  Dir("three",
    Dir("a", Dir("c", <<File("f1")>>)) \o Dir("", <<File("f9")>>)
    \o <<File("f1"), File("f2"), File("f1")>> \o Dir("a", <<>>))

Questions ==
  {ParseCall(Mixed), ParseCall(Repeated), MergeCall(<<7, 8>>)}

AllCalls == SmallCalls \cup Questions

Files ==
  {"f", "f1", "f2", "f3", "f4", "f5", "f6", "f7", "f8", "f9", "empty"}

(* Files of both partitions, with several at one place.                    *)
Extents ==
  [f \in Files |->
     [partition |-> IF f \in {"f3", "f5", "f8"} THEN 0 ELSE 1,
      block |-> IF f \in {"f1", "f5", "f6", "f9"} THEN 1 ELSE 2]]

Names ==
  <<"", "e", "d", "c", "b", "a", "f9", "f8", "f7", "f6", "f5", "f4", "f3", "f2",
    "f1", "f", "one", "two", "three", "left", "right", "x", "y", "root">>
Ranks ==
  [n \in {Names[k] : k \in DOMAIN Names} |->
     CHOOSE k \in DOMAIN Names : Names[k] = n]

Keywords == [k1 |-> {"c", "f1", "f9"}, k2 |-> {"f3", ""}]
Cleared == {{}, {1, 3, 5}}

RootEmptyCalls ==
  {ParseCall(Ltfs(<<EmptyFile, File("f")>>)),
   ParseCall(Ltfs(<<EmptyFile, EmptyFile>>))}
  \cup {ParseCall(s) : s \in ParsedDocuments}
=============================================================================
