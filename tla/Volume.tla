------------------------------- MODULE Volume -------------------------------
(***************************************************************************)
(* What the daemon watches: the tree below its root, and the file events   *)
(* macOS records for it.  Neither is code of this repository; both are     *)
(* modelled from how src/src/scan.rs lists directories and how             *)
(* src/src/fsevents.rs receives events (file-level events, one per changed *)
(* item; a renamed directory is one item under its old name and one under  *)
(* its new name, and nothing is said of what it holds).                    *)
(***************************************************************************)
EXTENDS Live

CONSTANTS MaxDepth,    \* depth of the tree below the root
          MaxEvents,   \* bound on the number of events ever recorded
          Ops          \* what may happen: a subset of AllOps

AllOps == {"create", "remove", "move", "rename", "chmod", "wrap"}   \* move: see Rename

ASSUME VolumeAssumption == /\ MaxDepth \in Nat \ {0}
                           /\ MaxEvents \in Nat
                           /\ Ops \subseteq AllOps
                           /\ Ignored \subseteq Seq(Name)

Paths == UNION {[1 .. n -> Name] : n \in 1 .. MaxDepth}
Kinds == {"none", "file", "dir", "sealed"}   \* sealed: an empty directory nobody may read

VARIABLES disk,   \* what is at each path
          log     \* the events recorded so far; an event's id is its position

volumeVars == <<disk, log>>

IsDir(p) == p = <<>> \/ (p \in Paths /\ disk[p] = "dir")

ChildrenOf(p, kinds) ==
  {n \in Name : Append(p, n) \in Paths /\ disk[Append(p, n)] \in kinds}

\* scan::list_dir: one directory's entries; an error when there is no such
\* directory, or when it may not be read.
ListDisk(p) ==
  IF IsDir(p)
  THEN [exists |-> TRUE, dirs  |-> ChildrenOf(p, {"dir", "sealed"}),
                         files |-> ChildrenOf(p, {"file"})]
  ELSE NoListing

EventFor(p, kind) == [path |-> p, kind |-> IF kind = "file" THEN "item" ELSE "dir"]

Record(events) == /\ Len(log) + Len(events) <= MaxEvents
                  /\ log' = log \o events

Create(p, kind) ==
  /\ "create" \in Ops
  /\ disk[p] = "none" /\ IsDir(Front(p))
  /\ disk' = [disk EXCEPT ![p] = kind]
  /\ Record(<<EventFor(p, kind)>>)

Empty(p) == \A q \in Paths : IsPrefix(p, q) /\ q # p => disk[q] = "none"

\* unlink, or rmdir of an empty directory
Unlink(p) ==
  /\ "remove" \in Ops
  /\ disk[p] # "none"
  /\ Empty(p)
  /\ disk' = [disk EXCEPT ![p] = "none"]
  /\ Record(<<EventFor(p, disk[p])>>)

\* Reading an (empty) directory is forbidden, or allowed again.
Chmod(p) ==
  /\ "chmod" \in Ops
  /\ disk[p] \in {"dir", "sealed"} /\ Empty(p)
  /\ disk' = [disk EXCEPT ![p] = IF @ = "dir" THEN "sealed" ELSE "dir"]
  /\ Record(<<EventFor(p, "dir")>>)

\* What rename moves from below p to r, when q becomes its new name.
Source(p, q, r) == p \o SubSeq(r, Len(q) + 1, Len(r))

\* Nothing was ever at q, or below it, while events were recorded.
NeverUsed(q) == \A i \in DOMAIN log : ~IsPrefix(log[i].path, q)

\* rename(2); where only "move" may happen, to names that were never used.
Rename(p, q) ==
  /\ "rename" \in Ops \/ ("move" \in Ops /\ NeverUsed(q))
  /\ disk[p] # "none" /\ disk[q] = "none"
  /\ IsDir(Front(q)) /\ ~IsPrefix(p, q)
  /\ \A r \in Paths : IsPrefix(p, r) /\ disk[r] # "none"
                        => Len(r) - Len(p) + Len(q) <= MaxDepth
  /\ disk' = [r \in Paths |->
                CASE IsPrefix(q, r) -> IF Source(p, q, r) \in Paths
                                       THEN disk[Source(p, q, r)] ELSE "none"
                  [] IsPrefix(p, r) -> "none"
                  [] OTHER          -> disk[r]]
  /\ Record(<<EventFor(p, disk[p]), EventFor(q, disk[p])>>)

\* The event ids wrap around, or the root was moved away and back.
Wrap == /\ "wrap" \in Ops
        /\ Record(<<[path |-> <<>>, kind |-> "full"]>>)
        /\ UNCHANGED disk

VolumeStep == \/ \E p \in Paths : \/ \E kind \in {"file", "dir"} : Create(p, kind)
                                  \/ Unlink(p)
                                  \/ Chmod(p)
                                  \/ \E q \in Paths : Rename(p, q)
              \/ Wrap
=============================================================================
