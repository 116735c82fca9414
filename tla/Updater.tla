------------------------------- MODULE Updater -------------------------------
(***************************************************************************)
(* The update thread of daemon.rs: it takes a batch of file events, plans  *)
(* on the published snapshot, reads the disk without any lock, applies     *)
(* what it read to a private copy, publishes that copy, and rebuilds the   *)
(* index when the plan or the size of the delta asks for it.  The disk     *)
(* moves between any two of its reads.                                     *)
(*                                                                         *)
(* The code reads all it can before it applies anything; here each read is *)
(* applied at once.  Nobody can tell: reading touches only the disk and    *)
(* applying only the thread's own copy, and both keep the code's order     *)
(* (rescans, then listings, then the directories the listings found).      *)
(***************************************************************************)
EXTENDS Volume

CONSTANTS ReadLimit,         \* directories read_subtree reads before it stops
          CompactThreshold,  \* delta length above which the index is rebuilt
          Overflow,          \* may FSEvents drop events and name a directory to scan?
          DropAbove,         \* may that directory lie above the watched root?
          RebuildMayFail,    \* may the rebuild end in an I/O error?
          Quiet,             \* TRUE: the disk rests while a batch is handled
          Starts             \* disk and index when the daemon starts

ASSUME LimitAssumption == /\ ReadLimit \in Nat
                          /\ CompactThreshold \in Nat
                          /\ ReadLimit >= CompactThreshold

ASSUME SwitchAssumption == {Overflow, DropAbove, RebuildMayFail, Quiet} \subseteq BOOLEAN

\* No directory has two alive entries of one name.
UniqueIn(entries, alive) ==
  \A i, j \in alive : entries[i] = entries[j] => i = j
SiblingsApart(l) == UniqueIn(l.dirs, AliveDirs(l)) /\ UniqueIn(l.files, AliveFiles(l))

\* The daemon starts with an index that a scan wrote.
ASSUME StartsAssumption ==
  \A s \in Starts : s.disk \in [Paths -> Kinds] /\ InRange(s.index) /\ SiblingsApart(s.index)

VARIABLES sent,     \* how many events of log have been delivered
          shared,   \* the published snapshot, what queries read
          next,     \* the update thread's private copy
          pc,       \* where the update thread is
          plan,     \* what is left of the plan
          walk,     \* the traversal in progress
          cut       \* history: a subtree was cut short at ReadLimit since the last rebuild

updaterVars == <<sent, shared, next, pc, plan, walk, cut>>
vars == <<disk, log, sent, shared, next, pc, plan, walk, cut>>

NoTasks == [k \in {} |-> {}]
NoPlan == [rescans |-> NoTasks, refresh |-> NoTasks, grafts |-> {}, full |-> FALSE]

\* A traversal that starts at a directory: the tree read so far, the
\* directories still to read (local id and path) and how many were read;
\* `into` is the id its tree will replace (rescan) or hang under (graft).
WalkFrom(into, p) ==
  [into |-> into,
   tree |-> [dirs |-> <<[name |-> IF p = <<>> THEN CHOOSE n \in Name : TRUE ELSE Last(p),
                         parent |-> NoDir]>>,
             files |-> <<>>],
   stack |-> <<[id |-> 1, path |-> p]>>, read |-> 0]
NoWalk == [into |-> NoDir, tree |-> [dirs |-> <<>>, files |-> <<>>], stack |-> <<>>, read |-> 0]

Init == /\ \E s \in Starts : disk = s.disk /\ shared = s.index /\ next = s.index
        /\ log = <<>> /\ sent = 0
        /\ pc = "idle" /\ plan = NoPlan /\ walk = NoWalk /\ cut = FALSE

-----------------------------------------------------------------------------
(* FSEvents delivers a batch, and the thread plans it.                     *)

\* Event i as it is delivered: itself or, when the queue overflowed, the
\* word that some directory above it must be scanned, in the watched tree or
\* outside.
Deliverable(i) ==
  {log[i]} \cup
  (IF Overflow /\ log[i].kind # "full"
   THEN {[path |-> Prefix(log[i].path, n), kind |-> "scan"] : n \in 0 .. Len(log[i].path) - 1}
   ELSE {}) \cup
  (IF DropAbove /\ log[i].kind # "full" THEN {[path |-> <<>>, kind |-> "above"]} ELSE {})

TakeBatch ==
  /\ pc = "idle"
  /\ \E n \in 1 .. Len(log) - sent :
     \E batch \in {b \in [1 .. n -> UNION {Deliverable(sent + i) : i \in 1 .. n}] :
                     \A i \in 1 .. n : b[i] \in Deliverable(sent + i)} :
       /\ plan' = [rescans |-> PlanRescans(shared, batch),
                   refresh |-> PlanRefresh(shared, batch),
                   grafts  |-> {},
                   full    |-> PlanFull(shared, batch)]
       /\ sent' = sent + n
  /\ next' = shared
  /\ pc' = "work"
  /\ UNCHANGED <<disk, log, shared, walk, cut>>

First(tasks) == CHOOSE k \in DOMAIN tasks : \A j \in DOMAIN tasks : k <= j
Without(tasks, k) == [j \in DOMAIN tasks \ {k} |-> tasks[j]]

-----------------------------------------------------------------------------
(* read_subtree, for a rescan or for a directory a listing found.          *)

\* The next directory the traversal opens goes off the stack, what it lists
\* is pushed in the order readdir chose.
Visit(w, i, e, order) ==
  LET top == w.stack[i]
      n   == Len(w.tree.dirs)
      fs  == SetToSeq(e.files)
  IN  [into  |-> w.into,
       tree  |-> [dirs  |-> w.tree.dirs \o [j \in 1 .. Len(order) |->
                              [name |-> order[j], parent |-> top.id]],
                  files |-> w.tree.files \o [j \in 1 .. Len(fs) |->
                              [name |-> fs[j], parent |-> top.id]]],
       stack |-> RemoveAt(w.stack, i) \o [j \in 1 .. Len(order) |->
                              [id |-> n + j, path |-> Append(top.path, order[j])]],
       read  |-> w.read + 1]

Orders(names) == {s \in [1 .. Cardinality(names) -> names] : IsInjective(s)}

BeginRescan ==
  /\ pc = "work" /\ plan.rescans # NoTasks
  /\ LET k == First(plan.rescans)
     IN  /\ walk' = WalkFrom(plan.rescans[k].id, plan.rescans[k].path)
         /\ plan' = [plan EXCEPT !.rescans = Without(@, k)]
  /\ pc' = "rescan"
  /\ UNCHANGED <<disk, log, sent, shared, next, cut>>

\* The pending directories in the order apply_listing returned them.
PendingGrafts == {g \in plan.grafts : \A h \in plan.grafts : g.slot <= h.slot}

BeginGraft(g) ==
  /\ pc = "work" /\ plan.rescans = NoTasks /\ plan.refresh = NoTasks
  /\ g \in PendingGrafts
  /\ walk' = WalkFrom(g.id, g.path)
  /\ plan' = [plan EXCEPT !.grafts = @ \ {g}]
  /\ pc' = "graft"
  /\ UNCHANGED <<disk, log, sent, shared, next, cut>>

ReadOne(i) ==
  LET e == ListDisk(walk.stack[i].path)
  IN  \E order \in Orders(e.dirs) : walk' = Visit(walk, i, e, order)

\* One turn of read_subtree's loop, within its guard.
ReadSubtree ==
  /\ pc \in {"rescan", "graft"}
  /\ walk.stack # <<>> /\ walk.read < ReadLimit
  /\ ReadOne(Len(walk.stack))
  /\ UNCHANGED <<disk, log, sent, shared, next, pc, plan, cut>>

\* The loop ends, by an empty stack or by the guard, and the tree is applied.
EndSubtree ==
  /\ pc \in {"rescan", "graft"}
  /\ walk.stack = <<>> \/ walk.read = ReadLimit
  /\ next' = IF pc = "rescan" THEN RescanSubtree(next, walk.into, walk.tree)
                              ELSE Graft(next, walk.into, walk.tree)
  /\ cut' = (cut \/ walk.stack # <<>>)
  /\ walk' = NoWalk
  /\ pc' = "work"
  /\ UNCHANGED <<disk, log, sent, shared, plan>>

\* Mutant: the plan never gets shorter.
RefreshAgain ==
  /\ pc = "work" /\ plan.rescans = NoTasks /\ plan.refresh # NoTasks
  /\ LET t == plan.refresh[First(plan.refresh)]
     IN  next' = ApplyListing(next, t.id, ListDisk(t.path))
  /\ UNCHANGED <<disk, log, sent, shared, pc, plan, walk, cut>>

\* The thread lists the next directory of the plan and applies the listing.
Refresh ==
  /\ pc = "work" /\ plan.rescans = NoTasks /\ plan.refresh # NoTasks
  /\ LET k == First(plan.refresh)
         t == plan.refresh[k]
         e == ListDisk(t.path)
     IN  /\ next' = ApplyListing(next, t.id, e)
         /\ plan' = [plan EXCEPT
              !.refresh = Without(@, k),
              !.grafts  = @ \cup {[slot |-> k, id |-> t.id, path |-> Append(t.path, n)] :
                                    n \in FreshDirs(next, t.id, e)}]
  /\ UNCHANGED <<disk, log, sent, shared, pc, walk, cut>>

Publish ==
  /\ pc = "work"
  /\ plan.rescans = NoTasks /\ plan.refresh = NoTasks /\ plan.grafts = {}
  /\ shared' = next
  /\ pc' = IF plan.full \/ DeltaLen(next) > CompactThreshold THEN "rebuild" ELSE "idle"
  /\ plan' = NoPlan
  /\ UNCHANGED <<disk, log, sent, next, walk, cut>>

-----------------------------------------------------------------------------
(* rebuild: scan everything and publish a snapshot that is all base.  The  *)
(* scanner's workers may take any pending directory next.                  *)

BeginRebuild ==
  /\ pc = "rebuild"
  /\ walk' = WalkFrom(NoDir, <<>>)
  /\ pc' = "scan"
  /\ UNCHANGED <<disk, log, sent, shared, next, plan, cut>>

ScanOne ==
  /\ pc = "scan"
  /\ \E i \in DOMAIN walk.stack : ReadOne(i)
  /\ UNCHANGED <<disk, log, sent, shared, next, pc, plan, cut>>

EndRebuild ==
  /\ pc = "scan" /\ walk.stack = <<>>
  /\ shared' = BaseOf(walk.tree)
  /\ next' = shared'
  /\ cut' = FALSE
  /\ walk' = NoWalk
  /\ pc' = "idle"
  /\ UNCHANGED <<disk, log, sent, plan>>

\* The scan, the write or the reopening of the file failed: a line in the log.
RebuildFails ==
  /\ RebuildMayFail
  /\ pc = "scan"
  /\ walk' = NoWalk
  /\ pc' = "idle"
  /\ UNCHANGED <<disk, log, sent, shared, next, plan, cut>>

Thread == \/ TakeBatch
          \/ BeginRescan
          \/ \E g \in plan.grafts : BeginGraft(g)
          \/ ReadSubtree
          \/ EndSubtree
          \/ Refresh
          \/ Publish
          \/ BeginRebuild
          \/ ScanOne
          \/ EndRebuild
          \/ RebuildFails

Environment == /\ Quiet => pc = "idle"
               /\ VolumeStep
               /\ UNCHANGED updaterVars

Next == Thread \/ Environment

Spec == Init /\ [][Next]_vars

\* The kernel schedules the thread, and FSEvents delivers what it has
\* recorded; the disk need not change.
FairSpec == Spec /\ WF_vars(Thread)
-----------------------------------------------------------------------------
(* Properties.                                                             *)

\* The read tree and the stack of a traversal point into the tree itself.
TreeInRange(t) ==
  /\ t \in Subtree
  /\ \A i \in DOMAIN t.dirs  : t.dirs[i].parent \in {NoDir} \cup DOMAIN t.dirs
  /\ \A i \in DOMAIN t.files : t.files[i].parent \in DOMAIN t.dirs
WalkOK(w) == /\ TreeInRange(w.tree)
             /\ w.stack \in Seq([id : DOMAIN w.tree.dirs, path : Path])
             /\ w.read \in Nat

\* A plan whose ids are ids of snapshot l.
TasksOK(tasks, l) == /\ DOMAIN tasks \subseteq Nat
                     /\ tasks \in [DOMAIN tasks -> [id : DOMAIN l.dirs, path : Path]]
PlanOK(p, l) ==
  /\ p = [rescans |-> p.rescans, refresh |-> p.refresh, grafts |-> p.grafts, full |-> p.full]
  /\ TasksOK(p.rescans, l) /\ TasksOK(p.refresh, l)
  /\ p.grafts \subseteq [slot : Nat, id : DOMAIN l.dirs, path : Path]
  /\ p.full \in BOOLEAN

VolumeOK == disk \in [Paths -> Kinds] /\ log \in Seq(Event) /\ sent \in 0 .. Len(log)

\* Everything has its type, and no id held anywhere (in a parent field, in a
\* tombstone, in the plan made on another snapshot, in a traversal) is out of
\* the bounds of the snapshot it will be used on: every access of live.rs by
\* id, which indexes a Vec or a mapped slice, is in range.
TypeOK ==
  /\ VolumeOK
  /\ InRange(shared) /\ InRange(next)
  /\ pc \in {"idle", "work", "rescan", "graft", "rebuild", "scan"}
  /\ PlanOK(plan, next)
  /\ WalkOK(walk)
  /\ pc \in {"rescan", "graft"} => walk.into \in DOMAIN next.dirs
  /\ cut \in BOOLEAN

\* What a query can reach from the root of snapshot l is what is on the disk.
FileIn(l, p) == \E f \in FilesInDir(l, LookupDir(l, Front(p))) : l.files[f].name = Last(p)

Mirrors(l) ==
  \A p \in {q \in Paths : ~IsIgnored(q)} :
    /\ (disk[p] \in {"dir", "sealed"}) = (LookupDir(l, p) # NoDir)
    /\ (disk[p] = "file") = FileIn(l, p)

\* Once every recorded event has been delivered and handled, the index is the
\* disk: "an index that is never stale".
FreshWhenIdle == pc = "idle" /\ sent = Len(log) => Mirrors(shared)

\* search() goes through the flat lists of names, whatever they hang under,
\* and puts a path together from the parents: an alive entry below a dead
\* directory is printed, and no event can reach it any more.
PathOf(l) ==
  LET path[d \in DOMAIN l.dirs] == IF l.dirs[d].parent = NoDir THEN <<>>
                                   ELSE Append(path[l.dirs[d].parent], l.dirs[d].name)
  IN  path
PrintedDir(l, d)  == PathOf(l)[d]
PrintedFile(l, f) == Append(PathOf(l)[l.files[f].parent], l.files[f].name)

\* Once all is delivered and handled, a search goes through every file and
\* directory on the disk once, and through nothing else.
PrintsDisk ==
  pc = "idle" /\ sent = Len(log) =>
    /\ \A p \in Paths :
         /\ (disk[p] \in {"dir", "sealed"}) = \E d \in AliveDirs(shared) : PrintedDir(shared, d) = p
         /\ (disk[p] = "file") = \E f \in AliveFiles(shared) : PrintedFile(shared, f) = p
    /\ \A d, e \in AliveDirs(shared) : PrintedDir(shared, d) = PrintedDir(shared, e) => d = e
    /\ \A f, g \in AliveFiles(shared) : PrintedFile(shared, f) = PrintedFile(shared, g) => f = g

\* Two alive entries of one directory never have the same name: a replayed
\* event, a rescan and a listing of one directory do not add an entry twice.
SiblingsUnique == SiblingsApart(shared)

\* A subtree cut short at ReadLimit is always followed by a rebuild: until
\* one succeeds the delta stays above the threshold that asks for it.
CutIsRebuilt == cut => IF pc = "idle" THEN RebuildMayFail /\ DeltaLen(shared) > CompactThreshold
                                     ELSE DeltaLen(next) > CompactThreshold

\* Queries never see an id change its meaning: from one snapshot to the next
\* entries are appended and die, until a rebuild replaces them all.
Extends(old, new) == /\ IsPrefix(old.dirs, new.dirs) /\ IsPrefix(old.files, new.files)
                     /\ old.deadDirs \subseteq new.deadDirs
                     /\ old.deadFiles \subseteq new.deadFiles
                     /\ old.baseDirs = new.baseDirs /\ old.baseFiles = new.baseFiles
SnapshotsExtend == [][Extends(shared, shared') \/ (shared'.deadDirs = {} /\ DeltaLen(shared') = 0)]_vars

\* However the disk changed, the index ends up equal to it for good.
Converges == <>[]Mirrors(shared)
=============================================================================
