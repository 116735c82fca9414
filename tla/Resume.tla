------------------------------- MODULE Resume -------------------------------
(***************************************************************************)
(* The resume point: how the index file, the FSEvents history and the      *)
(* daemon's life fit together, so that changes made while no daemon ran    *)
(* are caught up with after a start.                                       *)
(*                                                                         *)
(* Every index is stored with the id of the last event recorded before its *)
(* scan began.  A daemon loads the file and asks FSEvents for everything   *)
(* after that id.  Here the watched tree is a flat set of directories and  *)
(* listing one makes its entry in the index equal to the disk; that the    *)
(* tree of live.rs does behave so is what module Updater is about.         *)
(* Writers go through one temporary file and a rename (write_to), a step   *)
(* for each system call, so that two of them can get in each other's way.  *)
(*                                                                         *)
(* Actors: the disk with its event history, the daemon's update thread,    *)
(* and `ml index`, which may run at any time, beside a daemon too.         *)
(***************************************************************************)
EXTENDS Naturals, FiniteSets

CONSTANTS Dirs,         \* the directories below the root
          Contents,     \* what a directory may hold
          MaxId,        \* bound on event ids
          MaxIdBeside,  \* the same where `ml index` may run beside a daemon
          MaxUuid,      \* bound on how often the event history starts anew
          FaultSets     \* what may go wrong: sets of faults, one for each behaviour

\* "reset": the volume's event history is rebuilt and gets a new UUID.
\* "nouuid": the volume has no event history UUID.  "overflow": events are
\* dropped.  "fail": rebuild ends in an I/O error.  "index": `ml index` may
\* write its file while a daemon runs.
AllFaults == {"reset", "nouuid", "overflow", "fail", "index"}

NoUuid == 0

ASSUME ResumeAssumption == /\ Contents # {}
                           /\ MaxId \in Nat /\ MaxIdBeside \in Nat /\ MaxUuid \in Nat
                           /\ FaultSets \subseteq SUBSET AllFaults

VARIABLES faults,   \* what may go wrong in this behaviour
          disk,     \* contents of every directory
          log,      \* the event history: a set of [id, dir]
          lastId,   \* id of the last event recorded
          uuid,     \* UUID of the event history, or NoUuid
          file,     \* the index file
          tmp,      \* the temporary file beside it
          cli,      \* `ml index` at work
          pc,       \* where the daemon is
          mem,      \* the snapshot queries read
          next,     \* the update thread's copy
          work,     \* directories still to list for this batch
          full,     \* the batch needs a full rebuild
          cursor,   \* id of the last event delivered
          scan,     \* rebuild at work
          mapped    \* `ml index` is still writing to the file that mem is mapped from

vars == <<faults, disk, log, lastId, uuid, file, tmp, cli, pc, mem, next, work, full, cursor,
          scan, mapped>>
outside == <<faults, disk, log, lastId, uuid>>
update == <<pc, mem, next, work, full, cursor, mapped>>
daemonVars == <<update, scan>>

EventRec == [id : Nat, dir : Dirs]

\* What a header says of the scan its index is from.
HeaderRec == [id : Nat, uuid : Nat]

\* A file: is it there, does validate accept it, and what index is it.  What two
\* writers filled together (mixed) may be accepted: validate knows the magic,
\* the version and the ends of the sections, and nothing of what is in them.
IndexRec == [made : BOOLEAN, ok : BOOLEAN, mixed : BOOLEAN, content : [Dirs -> Contents],
             id : Nat, uuid : Nat]

\* A scan and the writing of its index; `at` is the path by which the file it
\* has opened can be found now, `mates` the header of another that writes, or
\* has written, to this file as well.
Scanner  == [on : BOOLEAN, content : [Dirs -> Contents], id : Nat, uuid : Nat,
             todo : SUBSET Dirs, stage : {"scan", "write", "rename"},
             at : {"nowhere", "tmp", "file"}, mates : SUBSET HeaderRec]

Blank  == [d \in Dirs |-> CHOOSE c \in Contents : TRUE]
NoFile == [made |-> FALSE, ok |-> FALSE, mixed |-> FALSE, content |-> Blank, id |-> 0,
           uuid |-> NoUuid]
Torn   == [NoFile EXCEPT !.made = TRUE]
Idle   == [on |-> FALSE, content |-> Blank, id |-> 0, uuid |-> NoUuid, todo |-> {},
           stage |-> "scan", at |-> "nowhere", mates |-> {}]

Init == /\ faults \in FaultSets
        /\ disk \in [Dirs -> Contents]
        /\ log = {} /\ lastId = 1
        /\ uuid \in (IF "nouuid" \in faults THEN {NoUuid, 1} ELSE {1})
        /\ file = NoFile /\ tmp = NoFile /\ cli = Idle
        /\ pc = "down" /\ mem = Blank /\ next = Blank
        /\ work = {} /\ full = FALSE /\ cursor = 0 /\ scan = Idle /\ mapped = FALSE

-----------------------------------------------------------------------------
(* The disk.                                                               *)

Change(d) ==
  /\ lastId < IF "index" \in faults THEN MaxIdBeside ELSE MaxId
  /\ \E c \in Contents \ {disk[d]} : disk' = [disk EXCEPT ![d] = c]
  /\ lastId' = lastId + 1
  /\ log' = log \cup {[id |-> lastId + 1, dir |-> d]}
  /\ UNCHANGED <<faults, uuid, file, tmp, cli>> /\ UNCHANGED daemonVars

\* The history is rebuilt while the volume is not watched: what it held is
\* gone, and ids count on.
Reset ==
  /\ "reset" \in faults /\ pc = "down"
  /\ uuid # NoUuid /\ uuid < MaxUuid
  /\ uuid' = uuid + 1
  /\ log' = {}
  /\ UNCHANGED <<faults, disk, lastId, file, tmp, cli>> /\ UNCHANGED daemonVars

-----------------------------------------------------------------------------
(* A full scan, as `ml index` and rebuild both make it.                    *)

\* The id is taken before anything is scanned.
Begin == [on |-> TRUE, content |-> Blank, id |-> lastId, uuid |-> uuid, todo |-> Dirs,
          stage |-> "scan", at |-> "nowhere", mates |-> {}]

ScanDir(s, d) == [s EXCEPT !.content[d] = disk[d], !.todo = @ \ {d}]

\* Mutant: the id is the one of the time of writing.
IndexWithLateId(s) == [made |-> TRUE, ok |-> TRUE, mixed |-> FALSE, content |-> s.content,
                       id |-> lastId, uuid |-> s.uuid]

HeaderOf(s) == [id |-> s.id, uuid |-> s.uuid]

IndexOf(s) == [made |-> TRUE, ok |-> TRUE, mixed |-> FALSE, content |-> s.content,
               id |-> s.id, uuid |-> s.uuid]

-----------------------------------------------------------------------------
(* write_to, by a writer w beside another one.                             *)

\* Mutant: the index is written where it is read.
CreateInPlace == file' = Torn /\ tmp' = Torn

\* File::create: the temporary file is empty, whoever is writing to it.
Create == tmp' = Torn /\ file' = file

\* From then on a writer who has the temporary file open shares it.
Shares(v) == v.on /\ v.stage = "write" /\ v.at = "tmp"
Created(w, other) == [w EXCEPT !.stage = "write", !.at = "tmp",
                               !.mates = {HeaderOf(v) : v \in {u \in {other} : Shares(u)}}]
Joined(other, w) == [other EXCEPT !.mates = IF Shares(other) THEN {HeaderOf(w)} ELSE @]

\* What two writers leave: the header of one, and contents of either.
Mixtures(w) ==
  {[made |-> TRUE, ok |-> TRUE, mixed |-> TRUE, content |-> c, id |-> h.id, uuid |-> h.uuid] :
     c \in [Dirs -> Contents], h \in w.mates \cup {HeaderOf(w)}}

\* What is in the file when w has written, its whole index or, beside another, a
\* part of it.  (Part of an index alone is refused: module Layout.)
Written(w) == {IndexOf(w)} \cup (IF w.mates = {} THEN {} ELSE {Torn} \cup Mixtures(w))

\* write_all goes to the file w has opened, wherever that is by now.
Write(w) ==
  \E f \in Written(w) : /\ tmp'  = IF w.at = "tmp"  THEN f ELSE tmp
                        /\ file' = IF w.at = "file" THEN f ELSE file
Wrote(w) == {[w EXCEPT !.stage = st] : st \in {"rename"} \cup {t \in {"write"} : w.mates # {}}}

\* rename takes what is at the temporary path now, and fails if nothing is.
Rename == tmp.made /\ file' = tmp /\ tmp' = NoFile

\* A rename by another moves the file that w has open.
Moved(w) == [w EXCEPT !.at = IF w.at = "tmp" THEN "file" ELSE "nowhere"]

-----------------------------------------------------------------------------
(* `ml index`.                                                             *)

MayIndex == pc = "down" \/ "index" \in faults

IndexBegin ==
  /\ ~cli.on /\ MayIndex
  /\ cli' = Begin
  /\ UNCHANGED <<file, tmp>> /\ UNCHANGED outside /\ UNCHANGED daemonVars

IndexScan(d) ==
  /\ cli.on /\ MayIndex /\ d \in cli.todo
  /\ cli' = ScanDir(cli, d)
  /\ UNCHANGED <<file, tmp>> /\ UNCHANGED outside /\ UNCHANGED daemonVars

IndexCreate ==
  /\ cli.on /\ cli.stage = "scan" /\ cli.todo = {}
  /\ Create
  /\ cli' = Created(cli, scan)
  /\ scan' = Joined(scan, cli)
  /\ UNCHANGED update /\ UNCHANGED outside

\* What a daemon has mapped of this file changes under it, or does not: for a
\* private mapping that is left open.
IndexWrite ==
  /\ cli.on /\ cli.stage = "write"
  /\ Write(cli)
  /\ cli' \in Wrote(cli)
  /\ mapped' = (mapped /\ cli'.stage = "write")
  /\ \/ UNCHANGED <<mem, next>>
     \/ mapped /\ mem' \in [Dirs -> Contents] /\ next' \in [Dirs -> Contents]
  /\ UNCHANGED <<pc, work, full, cursor, scan>> /\ UNCHANGED outside

IndexRename ==
  /\ cli.on /\ cli.stage = "rename"
  /\ Rename
  /\ cli' = Idle
  /\ scan' = Moved(scan)
  /\ UNCHANGED update /\ UNCHANGED outside

\* The scan or the write failed, or the user gave up, at any point.
IndexAbort ==
  /\ cli.on
  /\ cli' = Idle
  /\ mapped' = FALSE
  /\ UNCHANGED <<file, tmp, pc, mem, next, work, full, cursor, scan>> /\ UNCHANGED outside

-----------------------------------------------------------------------------
(* The daemon.                                                             *)

\* May the history be replayed from the file's id?  (run, where `since` is
\* chosen; no index is ever stored with id 0.)
Resumable == file.uuid # NoUuid /\ file.uuid = uuid

\* Index::open: the file at the path, if validate accepts it.  It is mapped, not
\* read, and somebody may be writing to it.
Open == /\ file.ok
        /\ mem' = file.content /\ next' = file.content
        /\ mapped' = (cli.on /\ cli.stage = "write" /\ cli.at = "file")

Start ==
  /\ pc = "down" /\ ("index" \in faults \/ ~cli.on)
  /\ Open
  /\ cursor' = IF Resumable THEN file.id ELSE lastId
  /\ pc' = "idle"
  /\ UNCHANGED <<file, tmp, cli, work, full, scan>> /\ UNCHANGED outside

\* Mutants: the replay skips an event; whole events are taken for directories.
DeliveredLate(n) == {e.dir : e \in {r \in log : cursor + 1 < r.id /\ r.id <= n}}
DeliveredEvents(n) == {r \in log : cursor < r.id /\ r.id <= n}

Delivered(n) == {e.dir : e \in {r \in log : cursor < r.id /\ r.id <= n}}

\* A batch and its plan.  Where events were dropped the plan lists more than
\* they named, or leaves it all to a rebuild.
TakeBatch ==
  /\ pc = "idle"
  /\ \E n \in cursor + 1 .. lastId :
       /\ cursor' = n
       /\ \/ work' = Delivered(n) /\ full' = FALSE
          \/ /\ "overflow" \in faults
             /\ \/ full' = FALSE /\ \E ds \in SUBSET Dirs : work' = Delivered(n) \cup ds
                \/ full' = TRUE  /\ work' \in SUBSET Delivered(n)
  /\ next' = mem
  /\ pc' = "work"
  /\ UNCHANGED <<file, tmp, cli, mem, scan, mapped>> /\ UNCHANGED outside

ListDir(d) ==
  /\ pc = "work" /\ d \in work
  /\ next' = [next EXCEPT ![d] = disk[d]]
  /\ work' = work \ {d}
  /\ UNCHANGED <<file, tmp, cli, pc, mem, full, cursor, scan, mapped>> /\ UNCHANGED outside

\* The copy is published; a plan that asks for it, or a delta grown too long
\* (at any time, here), is followed by a rebuild.
Publish ==
  /\ pc = "work" /\ work = {}
  /\ mem' = next
  /\ full' = FALSE
  /\ \/ pc' = "rebuild"
     \/ ~full /\ pc' = "idle"
  /\ UNCHANGED <<file, tmp, cli, next, work, cursor, scan, mapped>> /\ UNCHANGED outside

RebuildBegin ==
  /\ pc = "rebuild"
  /\ scan' = Begin
  /\ pc' = "scan"
  /\ UNCHANGED <<file, tmp, cli, mem, next, work, full, cursor, mapped>> /\ UNCHANGED outside

RebuildScan(d) ==
  /\ pc = "scan" /\ d \in scan.todo
  /\ scan' = ScanDir(scan, d)
  /\ UNCHANGED <<file, tmp, cli>> /\ UNCHANGED update /\ UNCHANGED outside

RebuildCreate ==
  /\ pc = "scan" /\ scan.stage = "scan" /\ scan.todo = {}
  /\ Create
  /\ scan' = Created(scan, cli)
  /\ cli' = Joined(cli, scan)
  /\ UNCHANGED update /\ UNCHANGED outside

RebuildWrite ==
  /\ pc = "scan" /\ scan.stage = "write"
  /\ Write(scan)
  /\ scan' \in Wrote(scan)
  /\ UNCHANGED cli /\ UNCHANGED update /\ UNCHANGED outside

RebuildRename ==
  /\ pc = "scan" /\ scan.stage = "rename"
  /\ Rename
  /\ scan' = Idle
  /\ cli' = Moved(cli)
  /\ pc' = "open"
  /\ UNCHANGED <<mem, next, work, full, cursor, mapped>> /\ UNCHANGED outside

\* Mutant: the events that waited while the scan ran are thrown away.
RebuildOpenDrained ==
  /\ pc = "open"
  /\ Open
  /\ pc' = "idle" /\ cursor' = lastId
  /\ UNCHANGED <<file, tmp, cli, work, full, scan>> /\ UNCHANGED outside

\* rebuild maps what is at the path now, which need not be what it wrote.
RebuildOpen ==
  /\ pc = "open"
  /\ Open
  /\ pc' = "idle"
  /\ UNCHANGED <<file, tmp, cli, work, full, cursor, scan>> /\ UNCHANGED outside

\* Any step of rebuild failed: a line in the log, and the old snapshot stays.
RebuildFails ==
  /\ \/ "fail" \in faults /\ pc \in {"scan", "open"}
     \/ pc = "scan" /\ scan.stage = "rename" /\ ~tmp.made
     \/ pc = "open" /\ ~file.ok
  /\ scan' = Idle
  /\ pc' = "idle"
  /\ UNCHANGED <<file, tmp, cli, mem, next, work, full, cursor, mapped>> /\ UNCHANGED outside

\* The daemon or the machine stops; launchd starts it again later.
Crash ==
  /\ pc # "down"
  /\ pc' = "down"
  /\ mem' = Blank /\ next' = Blank /\ work' = {} /\ full' = FALSE
  /\ cursor' = 0 /\ scan' = Idle /\ mapped' = FALSE
  /\ UNCHANGED <<file, tmp, cli>> /\ UNCHANGED outside

Daemon == \/ Start \/ TakeBatch \/ Publish
          \/ \E d \in Dirs : ListDir(d) \/ RebuildScan(d)
          \/ RebuildBegin \/ RebuildCreate \/ RebuildWrite \/ RebuildRename \/ RebuildOpen \/ RebuildFails
          \/ Crash

Index == \/ IndexBegin \/ IndexCreate \/ IndexWrite \/ IndexRename \/ IndexAbort
         \/ \E d \in Dirs : IndexScan(d)

Next == \/ Daemon
        \/ Index
        \/ \E d \in Dirs : Change(d)
        \/ Reset

Spec == Init /\ [][Next]_vars
-----------------------------------------------------------------------------
(* Properties.                                                             *)

\* Everything has its type: what is still to list are directories, and each
\* stored index has contents for every one of them.
TypeOK ==
  /\ faults \in SUBSET AllFaults
  /\ disk \in [Dirs -> Contents] /\ log \in SUBSET EventRec
  /\ lastId \in Nat \ {0} /\ uuid \in Nat
  /\ file \in IndexRec /\ tmp \in IndexRec /\ cli \in Scanner /\ scan \in Scanner
  /\ pc \in {"down", "idle", "work", "rebuild", "scan", "open"}
  /\ mem \in [Dirs -> Contents] /\ next \in [Dirs -> Contents]
  /\ work \in SUBSET Dirs /\ full \in BOOLEAN /\ mapped \in BOOLEAN
  /\ cursor \in Nat

\* An event of directory d lies after id n.
Ahead(d, n) == \E e \in log : e.dir = d /\ n < e.id

\* Replaying the history after n brings the contents up to the disk.
Accounts(content, n) == \A d \in Dirs : content[d] = disk[d] \/ Ahead(d, n)

\* Whatever happened since, crashes and other writers included, an index that
\* one of them wrote by itself and the id stored in it belong together: a replay
\* from there misses nothing.  (Of what two wrote together nothing can be said:
\* AtomicWrite.)
ResumePointSafe == file.ok /\ ~file.mixed /\ file.uuid = uuid => Accounts(file.content, file.id)

\* What write_to promises ("原子性寫入：先寫暫存檔再 rename，避免中途失敗留下半截索引"):
\* what is at the path is one whole index.
AtomicWrite == file.made => file.ok /\ ~file.mixed

\* The promise holds, whoever fails or crashes in the middle, as long as
\* `ml index` and a daemon do not write at a time: they share the temporary file.
WholeFile == "index" \notin faults => AtomicWrite

\* A rebuild that succeeds makes up for all that was missed before, a history
\* that began anew, dropped events and failed rebuilds included, and loses
\* nothing that is recorded while it runs: what it publishes, and the events the
\* daemon has yet to take, make up the disk.  `ml index` may put an older index
\* at the path before it is opened, so not beside one.
RebuildHeals == [][RebuildOpen /\ "index" \notin faults => Accounts(mem', cursor')]_vars

\* With every event delivered and handled, what queries see is the disk: the
\* index is never stale.
AlwaysFresh == pc = "idle" /\ cursor = lastId => mem = disk

\* Drops and crashes are no excuse: where the history is never rebuilt, no
\* rebuild fails and `ml index` keeps out of a daemon's way, no step of replay,
\* batch or rebuild leaves the index stale for good.
FreshDespiteDrops == faults \subseteq {"overflow"} => AlwaysFresh
=============================================================================
