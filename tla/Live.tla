-------------------------------- MODULE Live --------------------------------
(***************************************************************************)
(* The snapshot of live.rs: a base index that is never changed and, over   *)
(* it, a delta of appended entries and of tombstones.  Everything here is  *)
(* an operator from a snapshot to a snapshot; the steps of the thread that *)
(* uses them are in Updater.                                               *)
(*                                                                         *)
(* Base and delta entries share one id space, as dir_name, file_name and   *)
(* the other accessors of live.rs make them appear: base entries first.    *)
(* Ids count from 1; the ids that scan.rs may leave unused are left out.   *)
(* A path is the sequence of names below the watched root.                 *)
(***************************************************************************)
EXTENDS Naturals, Sequences, FiniteSets, SequencesExt

CONSTANTS Name,      \* names of files and directories
          Ignored    \* the paths whose text starts with an ignored prefix

ASSUME NameAssumption == IsFiniteSet(Name) /\ Name # {}

Root  == 1           \* the watched root: directory 0 of the code
NoDir == 0           \* the parent of the root: u32::MAX in the code

Path  == Seq(Name)
Entry == [name : Name, parent : Nat]

Snapshot == [dirs : Seq(Entry), files : Seq(Entry),
             deadDirs : SUBSET Nat, deadFiles : SUBSET Nat,
             baseDirs : Nat, baseFiles : Nat]

\* Every parent and every tombstone names an entry: so index::build leaves the
\* base, and so live.rs, which indexes by id, must keep the whole.
InRange(l) ==
  /\ l \in Snapshot
  /\ l.deadDirs \subseteq DOMAIN l.dirs /\ l.deadFiles \subseteq DOMAIN l.files
  /\ l.baseDirs <= Len(l.dirs) /\ l.baseFiles <= Len(l.files)
  /\ \A i \in DOMAIN l.dirs  : l.dirs[i].parent \in {NoDir} \cup DOMAIN l.dirs
  /\ \A i \in DOMAIN l.files : l.files[i].parent \in DOMAIN l.dirs

\* Mutant: the directories of the delta are not counted.
FilesOnlyLen(l) == Len(l.files) - l.baseFiles

DeltaLen(l) == (Len(l.dirs) - l.baseDirs) + (Len(l.files) - l.baseFiles)

AliveDirs(l)  == DOMAIN l.dirs \ l.deadDirs
AliveFiles(l) == DOMAIN l.files \ l.deadFiles

\* The alive entries that name d as their parent.  Whether d itself is
\* alive is not asked, here or in the code.
ChildDirs(l, d)  == {c \in AliveDirs(l) : l.dirs[c].parent = d}
FilesInDir(l, d) == {f \in AliveFiles(l) : l.files[f].parent = d}

NamesOf(entries, ids) == {entries[i].name : i \in ids}

-----------------------------------------------------------------------------
(* Paths to directories.                                                   *)

\* One segment of lookup_dir: the first child with the name, if any.
Named(l, d, n) == {c \in ChildDirs(l, d) : l.dirs[c].name = n}
FirstNamed(l, d, n) == {c \in Named(l, d, n) : \A e \in Named(l, d, n) : c <= e}

\* lookup_dir: the directory at path p, or NoDir.  The root is not asked
\* whether it is alive.
LookupDir(l, p) ==
  LET at[i \in 0 .. Len(p)] == IF i = 0 THEN {Root}
                               ELSE UNION {FirstNamed(l, d, p[i]) : d \in at[i-1]}
      found == at[Len(p)] \cap DOMAIN l.dirs
  IN  IF found = {} THEN NoDir ELSE CHOOSE d \in found : TRUE

Prefix(p, n) == SubSeq(p, 1, n)

\* resolve_or_ancestor, of a path below the watched root: the deepest prefix of
\* p that is in the index.  It gives None (NoDir) where there is none.
ResolveOrAncestor(l, p) ==
  LET known == {i \in 0 .. Len(p) : LookupDir(l, Prefix(p, i)) # NoDir}
      n     == CHOOSE i \in known : \A j \in known : j <= i
  IN  IF known = {} THEN [id |-> NoDir, path |-> p]
                    ELSE [id |-> LookupDir(l, Prefix(p, n)), path |-> Prefix(p, n)]

-----------------------------------------------------------------------------
(* Writing to the delta.                                                   *)

\* Mutant: a removed directory takes nothing below it along.
NothingBelow(l, from) == from \cap DOMAIN l.dirs

\* The directories that a traversal from `from` along alive children meets.
Below(l, from) ==
  LET level[i \in 0 .. Len(l.dirs)] == IF i = 0 THEN from \cap DOMAIN l.dirs
                                       ELSE UNION {ChildDirs(l, d) : d \in level[i-1]}
  IN  DOMAIN l.dirs \cap UNION {level[i] : i \in 0 .. Len(l.dirs)}

\* Mutant: new tombstones take the place of those that were there.
KillOnlyThese(l, ds, fs) == [l EXCEPT !.deadDirs = ds, !.deadFiles = fs]

\* The tombstones: kill_file, and what remove_subtree sets for directories.
Kill(l, ds, fs) == [l EXCEPT !.deadDirs = @ \cup ds, !.deadFiles = @ \cup fs]

\* remove_subtree, of every directory of `from`.
RemoveSubtrees(l, from) ==
  LET gone == Below(l, from)
  IN  Kill(l, gone, {f \in AliveFiles(l) : l.files[f].parent \in gone})

RemoveSubtree(l, d) == RemoveSubtrees(l, {d})

\* A listing is what scan::list_dir returns; exists is FALSE for an error.
Listing == [exists : BOOLEAN, dirs : SUBSET Name, files : SUBSET Name]
NoListing == [exists |-> FALSE, dirs |-> {}, files |-> {}]

PushFiles(l, d, names) ==
  [l EXCEPT !.files = @ \o [i \in 1 .. Cardinality(names) |->
                              [name |-> SetToSeq(names)[i], parent |-> d]]]

\* apply_listing: make d's own entries equal to what the disk listed.
ApplyListing(l, d, e) ==
  IF ~e.exists
  THEN IF d = Root THEN l ELSE RemoveSubtree(l, d)
  ELSE LET files == FilesInDir(l, d)
           stale == {f \in files : l.files[f].name \notin e.files}
           gone  == {c \in ChildDirs(l, d) : l.dirs[c].name \notin e.dirs}
           added == PushFiles(l, d, e.files \ NamesOf(l.files, files))
       IN  RemoveSubtrees(Kill(added, {}, stale), gone)

\* Mutant: a dead child still counts as known.
NeverSeenDirs(l, d, e) ==
  e.dirs \ NamesOf(l.dirs, {c \in DOMAIN l.dirs : l.dirs[c].parent = d})

\* The names apply_listing returns: directories still to be read and grafted.
FreshDirs(l, d, e) == e.dirs \ NamesOf(l.dirs, ChildDirs(l, d))

\* What read_subtree returns: local ids count from 1 and 1 is the subtree's
\* own root, the only one whose local parent is 0.
Subtree == [dirs : Seq(Entry), files : Seq(Entry)]

\* Mutant: files move by one too many, directories hang under themselves.
GraftOneOff(l, parent, t) ==
  LET n == Len(l.dirs)
  IN  [l EXCEPT
        !.dirs  = @ \o [i \in 1 .. Len(t.dirs) |->
                          [name |-> t.dirs[i].name, parent |-> IF i = 1 THEN parent ELSE n + i]],
        !.files = @ \o [i \in 1 .. Len(t.files) |->
                          [name |-> t.files[i].name, parent |-> n + t.files[i].parent + 1]]]

\* graft: append the tree's entries, its root under `parent`.
Graft(l, parent, t) ==
  LET n == Len(l.dirs)
  IN  [l EXCEPT
        !.dirs  = @ \o [i \in 1 .. Len(t.dirs) |->
                          [name   |-> t.dirs[i].name,
                           parent |-> IF i = 1 THEN parent ELSE n + t.dirs[i].parent]],
        !.files = @ \o [i \in 1 .. Len(t.files) |->
                          [name   |-> t.files[i].name,
                           parent |-> n + t.files[i].parent]]]

\* Mutant: the old subtree stays.
RescanBeside(l, d, t) == Graft(l, l.dirs[d].parent, t)

\* rescan_subtree: the old subtree dies, the one just read takes its place.
RescanSubtree(l, d, t) == Graft(RemoveSubtree(l, d), l.dirs[d].parent, t)

\* A snapshot that is all base: what Live::new makes of a scanned tree.
BaseOf(t) ==
  [dirs |-> t.dirs, files |-> t.files, deadDirs |-> {}, deadFiles |-> {},
   baseDirs |-> Len(t.dirs), baseFiles |-> Len(t.files)]

-----------------------------------------------------------------------------
(* Events, and the work a batch of them asks for.                          *)

\* "item": a file changed.  "dir": the same, with EV_ITEM_IS_DIR.  "scan": the
\* subtree must be scanned (MUST_SCAN_SUBDIRS, USER_DROPPED, KERNEL_DROPPED,
\* MOUNT, UNMOUNT).  "full": ROOT_CHANGED or IDS_WRAPPED.  "above": as "scan",
\* of a directory above the watched root.
Event == [path : Path, kind : {"item", "dir", "scan", "full", "above"}]

IsIgnored(p) == \E q \in Ignored : IsPrefix(q, p)

\* The paths plan() wants listed, in the order it meets them: for event i the
\* parent has slot 2i-1 and, when the event is of a directory, the path 2i.
WantedPath(batch, k) ==
  LET p == batch[(k + 1) \div 2].path IN IF k % 2 = 1 THEN Front(p) ELSE p

Wants(batch, k) ==
  LET e == batch[(k + 1) \div 2]
  IN  /\ ~IsIgnored(e.path)
      /\ IF k % 2 = 1 THEN e.kind \in {"item", "dir"} /\ e.path # <<>>
                     ELSE e.kind = "dir"

\* The tasks of the slots, each known directory once, at its first slot.
Tasks(slots, task) ==
  [k \in {s \in slots : /\ task[s].id # NoDir
                        /\ \A r \in slots : r < s => task[r].id # task[s].id} |-> task[k]]

\* plan().refresh: the directories to list again.
PlanRefresh(l, batch) ==
  LET slots == {k \in 1 .. 2 * Len(batch) : Wants(batch, k)}
  IN  Tasks(slots, [k \in slots |-> ResolveOrAncestor(l, WantedPath(batch, k))])

\* What resolve_or_ancestor makes of the directory that an event names: no
\* prefix of a path above the root is in the index.
None == [id |-> NoDir, path |-> <<>>]
TargetOf(l, e) == IF e.kind = "above" THEN None ELSE ResolveOrAncestor(l, e.path)

\* Every subtree an event asks to scan, the root included.
RescanTargets(l, batch) ==
  LET slots == {i \in 1 .. Len(batch) :
                  batch[i].kind \in {"scan", "above"} /\ ~IsIgnored(batch[i].path)}
  IN  [i \in slots |-> TargetOf(l, batch[i])]

\* plan().rescan_ids: the root is not among them, it makes need_full true; what
\* is not found is left out.
PlanRescans(l, batch) ==
  LET target == RescanTargets(l, batch)
  IN  Tasks({i \in DOMAIN target : target[i].id # Root}, target)

\* Mutant: a scan asked for at the root is not taken for a full one.
FullByFlagOnly(l, batch) == \E i \in DOMAIN batch : batch[i].kind = "full" /\ ~IsIgnored(batch[i].path)

\* plan().need_full
PlanFull(l, batch) ==
  \/ \E i \in DOMAIN batch : batch[i].kind = "full" /\ ~IsIgnored(batch[i].path)
  \/ \E i \in DOMAIN RescanTargets(l, batch) : RescanTargets(l, batch)[i].id = Root
=============================================================================
