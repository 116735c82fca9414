------------------------------ MODULE IndexFile ------------------------------
(***************************************************************************)
(* The index file that is made of a scan: the merge at the end of scan     *)
(* (scan.rs), build with its sorting and layout, the lookups by parent and *)
(* validate (index.rs).                                                    *)
(*                                                                         *)
(* A name is a sequence of letters; positions in an arena count from 0, as *)
(* in the code.  The names of directories are their model values.          *)
(***************************************************************************)
EXTENDS Scan, Layout, FiniteSetsExt

CONSTANTS Letter,     \* what names are made of
          FileNames,  \* the names of the files of each directory, as they are read
          NoName      \* the empty name

ASSUME IndexFileAssumption ==
  /\ FileNames \in [Dir -> Seq(Seq(Letter))] /\ NoName \notin Dir
  /\ \A d \in Dir : IsInjective(FileNames[d])

\* u32::MAX, the root's parent: above every id.
NoParent == 1000000

-----------------------------------------------------------------------------
(* What the workers bring.                                                 *)

\* The length of the names of the first n entries.
LengthOf(names, n) == Len(FlattenSeq(SubSeq(names, 1, n)))

\* push, for every file: the name goes into the arena, the record says where.
ShardOf(files) ==
  LET names == [k \in DOMAIN files |-> files[k].name]
  IN  [names |-> FlattenSeq(names),
       recs  |-> [k \in DOMAIN files |-> [off |-> LengthOf(names, k - 1), len |-> Len(names[k]),
                                          parent |-> files[k].parent]]]

\* The files of the directories that a worker has read, in that order.
FilesOf(w) ==
  FlattenSeq([k \in DOMAIN filed[w] |->
    LET t == filed[w][k]
    IN  [j \in DOMAIN FileNames[t.dir] |-> [name |-> FileNames[t.dir][j], parent |-> t.id]]])

Shards == LET workers == SetToSeq(Worker) IN [i \in DOMAIN workers |-> ShardOf(FilesOf(workers[i]))]

\* The end of scan: every node goes to its id; an id nobody used is left with
\* an empty name and no parent.
Hole == [dir |-> NoName, parent |-> NoParent]

DirNodes ==
  [i \in 0 .. nextId - 1 |->
     IF i = 0 THEN [dir |-> Top, parent |-> NoParent]
     ELSE IF \E n \in AllNodes : n.id = i
       THEN LET n == CHOOSE m \in AllNodes : m.id = i IN [dir |-> n.dir, parent |-> n.parent]
     ELSE Hole]

-----------------------------------------------------------------------------
(* build                                                                   *)

\* Mutant: the records still point into the arenas of their own shards.
Unmoved(shards) ==
  [names |-> FlattenSeq([s \in DOMAIN shards |-> shards[s].names]),
   recs  |-> FlattenSeq([s \in DOMAIN shards |-> shards[s].recs])]

\* The shards one after the other; what a record says is moved along.
Concatenated(shards) ==
  LET Base(s) == LengthOf([i \in DOMAIN shards |-> shards[i].names], s - 1)
      Moved(s) == [k \in DOMAIN shards[s].recs |-> [shards[s].recs[k] EXCEPT !.off = @ + Base(s)]]
  IN  [names |-> FlattenSeq([s \in DOMAIN shards |-> shards[s].names]),
       recs  |-> FlattenSeq([s \in DOMAIN shards |-> Moved(s)])]

\* By parent, and in the old order below one parent.
ByParent(list, i, j) ==
  list[i].parent < list[j].parent \/ (list[i].parent = list[j].parent /\ i < j)

\* Some entries of a list in this order: each has its place behind those that
\* come before it.  (The code's sorts are unstable: entries of one parent may
\* change places.)
Order(list, entries) ==
  LET Before(i) == {j \in entries : ByParent(list, j, i)}
  IN  [k \in 1 .. Cardinality(entries) |-> CHOOSE i \in entries : Cardinality(Before(i)) = k - 1]

\* The name that a record points at.
NameOf(b, r) == SubSeq(b.names, r.off + 1, r.off + r.len)

\* Sorted by parent, with a new arena in the new order.
SortedByParent(all) ==
  LET order == Order(all.recs, DOMAIN all.recs)
  IN  ShardOf([k \in DOMAIN order |->
                 LET r == all.recs[order[k]] IN [name |-> NameOf(all, r), parent |-> r.parent]])

\* The ids by parent, without the unused ones.
DirByParent(table) == Order(table, {i \in DOMAIN table : i = 0 \/ table[i].dir # NoName})

\* The sections of the file.
Built == LET files == SortedByParent(Concatenated(Shards))
         IN  [nodes |-> DirNodes, byParent |-> DirByParent(DirNodes),
              names |-> files.names, recs |-> files.recs]

\* How much each section holds; the name of a directory is one letter here.
SizesOf(b) == [dirNames |-> Cardinality(AllNodes) + 1, dirs |-> Cardinality(DOMAIN b.nodes),
               byParent |-> Len(b.byParent), fileNames |-> Len(b.names), files |-> Len(b.recs)]

-----------------------------------------------------------------------------
(* The lookups.                                                            *)

\* partition_point of a list in which the smaller come first: how many do.
PartitionPoint(s, IsBefore(_)) == Max({0} \cup {n \in DOMAIN s : \A i \in 1 .. n : IsBefore(s[i])})

\* child_dirs
ChildDirIds(b, parent) ==
  LET lo == PartitionPoint(b.byParent, LAMBDA id : b.nodes[id].parent < parent)
      hi == PartitionPoint(b.byParent, LAMBDA id : b.nodes[id].parent <= parent)
  IN  SubSeq(b.byParent, lo + 1, hi)

\* files_in_dir, and file_name of what it gives.
NamesInDir(b, parent) ==
  LET lo == PartitionPoint(b.recs, LAMBDA r : r.parent < parent)
      hi == PartitionPoint(b.recs, LAMBDA r : r.parent <= parent)
  IN  [k \in 1 .. hi - lo |-> NameOf(b, b.recs[lo + k])]

-----------------------------------------------------------------------------
(* Properties.                                                             *)

Finished == \A w \in Worker : pc[w] = "exit"

\* The file of a finished scan holds the tree that was scanned.  By its lookups
\* every directory has the subdirectories registered under it and no other, and
\* the files that were read in it by their own names, however the workers'
\* shards, id batches and arenas lie; and no record is left over.
IndexIsTree ==
  Finished =>
    LET b == Built
        known == {0} \cup {n.id : n \in AllNodes}
        Read(i) == UNION {ToSet(FileNames[t.dir]) : t \in {u \in AllFiled : u.id = i}}
    IN  /\ \A i \in known : LET found == ChildDirIds(b, i)
                            IN  /\ ToSet(found) = {n.id : n \in {m \in AllNodes : m.parent = i}}
                                /\ IsInjective(found)
        /\ \A i \in known : ToSet(NamesInDir(b, i)) = Read(i) /\ IsInjective(NamesInDir(b, i))
        /\ Len(b.recs) = Cardinality(UNION {{i} \X Read(i) : i \in known})

\* Its sections lie apart and aligned, and validate takes the whole file and
\* nothing shorter: "索引檔可能來自舊版本或被截斷" (it may be cut off).
SectionsFit == Finished => Fits(SizesOf(Built))
=============================================================================
