# A formal model of mylocate

mylocate (`ml`) keeps an index of every file name below a root directory and
answers searches from it. A scan builds the index once; a daemon then follows
the FSEvents history of macOS and keeps the index equal to the disk. The
project models the parts of `src/src/` that decide whether that index is right
and whether a search gives what it holds: the scan and the file made of it, the
live snapshot, the update thread, the resume point, the search and the client.

`PROJECT.json` lists the runs, the lines each definition stands for, the
hazards and the findings. This file explains them.

## 1. The system

| Component | Code | State it keeps | Operations | What makes it correct | Modelled in |
|---|---|---|---|---|---|
| Live index | `live.rs` | an immutable base, appended entries (the delta), tombstones | `lookup_dir`, `plan`, `apply_listing`, `remove_subtree`, `read_subtree`, `rescan_subtree`, `graft`, `search` | ids stay in range; siblings are unique; nothing alive hangs under something dead | `Live` |
| Update thread | `daemon.rs` 99-200, `rebuild` | the published snapshot, a private copy, the plan of a batch | take a batch, read the disk, apply, publish, rebuild | when all events are handled the index is the disk, whatever happened between the reads | `Updater` |
| Volume and events | macOS, as `scan.rs` and `fsevents.rs` meet it | the tree, the event history | create, remove, rename, chmod; deliver, drop, wrap | (environment) | `Volume` |
| Resume point | `daemon.rs` 48-97, `main.rs` `cmd_index`, header of `index.rs` | the index file with an event id and a history UUID | index, start, replay, rebuild, crash | a replay from the stored id misses nothing | `Resume` |
| Parallel scan | `scan.rs` | a task queue, an idle count, an id counter, each worker's recursion and output | take, share, number, descend, leave | every directory once, ids apart, ends, one volume | `Scan`, `Traversal` |
| Index file | `index.rs`, merge of `scan.rs` | a mapped file | build, look up by parent, write, open, validate | holds the scanned tree; replaced as a whole; `validate` accepts only what the accessors can read | `IndexFile`, `Layout`; the replacement in `Resume` |
| FSEvents client | `fsevents.rs` | a stream, a channel | callback, watch | batches keep their order; drop flags are passed on | partly, in `Volume` and `Resume` |
| Search and glob | `search.rs`, `live.rs` `search` | none | parse, anchor, match, search in shares of threads | each entry that satisfies every word once, and no other | `Glob`, `Search` |
| Client protocol | `daemon.rs` `handle_client`, `query_daemon` | a connection, a snapshot | version, query | one whole answer of one snapshot | `Client` |
| Command line | `main.rs` | none | index, search, stats, watch | the same answer with and without a daemon | `cmd_index` in `Resume`, `cmd_search` in `Client` |
| Attribute calls | `ffi.rs` | none | decode records | (raw bindings) | no |
| Installation | `install.sh` | a launchd agent | start after a stop | the daemon comes back | `Crash` and `Start` of `Resume` |

How they interact. `ml index` and `rebuild` take the current event id, run the
scan, and write the file by a rename. The daemon maps the file, opens the event
stream at the stored id, and its update thread gets batches of events through a
channel. For each batch it plans on the published snapshot, reads the disk
without a lock, applies the result to a copy and swaps the copy in. Query
threads take the published snapshot and keep it as long as they need it. A client
asks for the daemon's version on one connection and for the answer on another,
and searches the index file by itself when either fails.

What is hard about it. The disk moves between any two reads of one batch; ids of
one snapshot are used on another; events name paths that may be something else
by now; FSEvents drops events; the read limit, the compaction threshold and a
failing rebuild interact; the event id, the file and the daemon's life must fit
together across crashes; two programs write the index through one temporary file;
the scan ends by a count of idle workers; a search looks for a part of the names
only, in shares of several threads, and must not lose or double what lies at
their ends; a reply may be cut anywhere. `PROJECT.json`
lists these hazards at their lines, with the property that covers each, or why
none does yet.

## 2. The modules

| Module | Content | Variables or actions |
|---|---|---|
| `Live` | the snapshot and its operations, as operators from a snapshot to a snapshot | no variables |
| `Volume` | the tree and the event history (external) | `disk`, `log` |
| `Updater` | the update thread over `Live` and `Volume` | 11 actions of the thread, 1 of the environment |
| `MCUpdater` | starts, names and trees for TLC | |
| `UpdaterProofs`, `FreshProofs` | proofs about `Updater`, `Live` and `Volume` | |
| `ListLemmas` | numbers, finite sets, sequences and recursive functions, for all the proofs | |
| `Resume` | file, temporary file, history and daemon life over a flat tree | 20 actions |
| `MCResume`, `ResumeProofs` | its instance and its proofs | |
| `Traversal` | what a scan promises | 3 actions |
| `Scan`, `ScanProofs` | the worker threads; proofs about them, about `Layout` and about `IndexFile` | 8 actions per worker |
| `Layout` | offsets of the index file's sections, `validate` | no variables |
| `IndexFile`, `MCScan` | the file that `build` makes of what `Scan`'s workers bring, and the instance of both | no variables |
| `Glob`, `GlobProofs` | texts, wildcards, character sets, the literal end of a pattern; proofs about them | no variables |
| `Search`, `SearchProofs` | a query, its two executions, and the answer that the table in `search.rs` asks for; proofs about its operators | no variables |
| `Client`, `MCClient`, `ClientProofs` | one `ml` command, its connections, the daemon's handler, and the rest of the world; its instance and its proofs | 7 actions of the client, 4 of the handler, 4 of the world |

### Live, Volume and Updater

A snapshot is one record. Base and delta share an id space in the code (base ids
first), so they share one sequence here and `baseDirs`, `baseFiles` say where
the delta begins. A tombstone is membership in `deadDirs` or `deadFiles`. Ids
count from 1 (the code's directory 0 is `Root` = 1, its `u32::MAX` is `NoDir` =
0). A path is the sequence of names below the root, so joining and splitting at
`/`, and the text comparison of ignored prefixes, are abstracted to sequences.

One action of `Updater` is one thing the outside can tell apart: planning a
batch (`TakeBatch`), one directory read and applied (`Refresh`), one directory
read by `read_subtree` (`ReadSubtree`) or by the scan (`ScanOne`), one tree
attached (`EndSubtree`), the swap (`Publish`), the rebuild. The code reads all
rescans and listings before it applies any; the model applies each as it is
read. Reads touch only the disk and applications only the private copy, and both
keep their order, so no other actor can tell. `Environment` may run between any
two of them unless `Quiet` is TRUE.

Events are delivered in order, in batches of any size. With `Overflow` an event
may arrive as the word that a directory above it must be scanned, and with `DropAbove`
that directory may lie above the watched root (kind `"above"`), where
`resolve_or_ancestor` finds nothing. Flags the code
does not look at are left out; a directory event differs from a file event, as
in `plan`.

Two deliberate restrictions: mounts (a second device) are not in `Volume`, and a
"sealed" directory, which nobody may list, is an empty one.

The constants `ReadLimit` and `CompactThreshold` are both 200000 in the code
(`live.rs:157`, `daemon.rs:34`) and 2 to 9 in the runs. The code needs
`ReadLimit >= CompactThreshold`, with no margin as it stands; it is an assumption
of the model, and the proofs use it.

### Resume

The tree of `Live` behaves like a map from directories to contents that a
listing makes equal to the disk; `Updater` checks when that is so and shows the
exceptions (findings 1 to 3 and 7). `Resume` takes it as given and asks about the rest:
the event id of a file, the UUID of the history, replay, crash, rebuild, and
`ml index` at any time. `Start` and `RebuildOpen` take whatever file is there, if
`validate` accepts it.

`write_to` is three steps, one for each system call that others can notice:
create (which empties the temporary file, whoever may be writing to it), write,
rename. A writer's `at` says by which path the file it has opened can be found
now, for a rename by the other writer moves it, and its `mates` are the other's
header if that one has the same file open. What two writers leave in one file is one
of their indexes, a torn one, or a mixture: the header of one and contents of which
nothing is known. `validate` looks at the magic, the version and the ends of the
sections, so it accepts a mixture (`ok`); `mixed` is known to the properties only. A
writer that has company may also stop halfway or be overtaken there. What one writer
alone has written a part of is refused (`SectionsFit`, in `IndexFile`).

The file is mapped, not read (`Open`). It is never truncated or written at its own
path by `write_to`, but a writer whose file the other has renamed goes on writing to it:
`mapped` says that `ml index` does so to the file the daemon has mapped. For a private
mapping it is open whether the daemon sees those writes, so each of them may change
`mem` and `next`, at will. `faults` is fixed in
the initial state, so that one run covers every combination that matters and a
property may say which faults it allows.

### Scan and Traversal

A worker's recursion is a stack of frames. `next_task` holds the queue's lock
except while it waits, so each of its outcomes is a step. The wait ends by a
notification or after 5 ms: at any time. `idle` is read without the lock when a
worker decides whether to share, so `Keeps` lets it read as anything. The counter
of ids is taken in batches. `Traversal` says only that directories are taken from
a set, each at most once, and that the end is declared when none is left; `Scan`
implements it (`Implements`, by an instance with `pending`, `listed` and
`finished` mapped to the queue, the tasks and frames, the filed directories and
`done`). Which directories fail is left open for those in `Flaky`, so that
`NothingMissed` can say what must be listed: all that can be reached by way of
directories that do not fail. `TreeAssumption` says what a file system ensures: a
directory is in one directory only, and the root is in none of those below it.

### IndexFile and Layout

`IndexFile` EXTENDS `Scan` and takes what its workers have brought: the nodes
with the ids they drew, and the files of each directory in the order it was read
(`FileNames`), in one shard for each worker. It is the merge at the end of `scan`
and `build`: arenas joined, records sorted by parent with a new arena, the list
of ids by parent. An id that no directory got keeps `DirNode::default()`, an empty
name and the parent `u32::MAX` (`Hole`), so that it is in no list. The properties read the
file only by the code's lookups (`child_dirs`, `files_in_dir`). Names of
directories are model values, names of files sequences of letters. The code's
sort is unstable; the model keeps the order below one parent, and no property
depends on it. Header fields other than offsets and counts are left out. A header is
184 bytes long (`HeaderSize`, which `validate` compares with; the comment at
`index.rs:19` says 192), and the data begin at 192 (`DataStart`).

### Glob and Search

Texts are sequences of bytes, because the properties are about bytes: where the
last slash is, which end of a share an occurrence begins in, how a pattern is
read. `Search` works on the snapshots of `Live`; an index file is a snapshot
that is all base. `Glob.Fits` and `Search.Answer` are the reference: a pattern
fits if the positions it can have reached after the last character include its
end, and an entry is an answer if it satisfies every word, compared with its
name or its path as the table at the head of `search.rs` says. `GlobMatch`, with
its one backtrack point, is the code's matcher.

The base is searched as the code does it: the anchor is looked for in the
lower-case names as one text, in `NThreads` shares that are extended by its
length less one, each occurrence behind the end of the one before. memmem itself
is external (`OccursAt`). Splitting the query at white space is not modelled: a
query is a sequence of words.

### Client

`cmd` is the command line. `conn` is the connection: who serves it (the daemon
that was there when it was opened), the snapshot and the hits the handler holds,
and what has been written. The reply is a text, so that the marks and separators
in names count. The world publishes snapshots, replaces the file, stops the
daemon (a reply being written is cut anywhere) and starts it, in this version or
an older one; each takes one of `moves`. An index file always exists. `live` and
`file` change to any members of `Snapshots` and `Files`: what they may be is the
subject of `Updater` and `Resume`.

`DaemonHits` and `FileHits` are tables of the two searches over all snapshots
and commands of the instance, so that an action looks an answer up.

## 3. The runs

| Run | Question | Bounds |
|---|---|---|
| `updater` | Does the index equal the disk when idle, and for good in the end, with creations and removals between the reads, drops, cuts and rebuilds? | 2 names, depth 2, 3 events, limit and threshold 2, from an empty and a nested tree |
| `updater_quiet` | With a disk that rests during a batch, and subtrees moved to new names: is every entry printed once and nothing else? | 2 names, depth 3, 4 events, from an empty tree and one of three levels |
| `updater_faults` | With every fault: ids in range, siblings unique, cuts rebuilt, snapshots only growing? | 2 names, depth 2, 3 events, one ignored name |
| `resume` | With every fault, and `ml index` beside the daemon: is the id stored in what one writer wrote safe? With one writer at a time: is the file whole, does a rebuild make up for all that was missed? With drops only: never stale? | 2 directories, 2 contents, 2 UUIDs; 4 event ids, or 2 beside another writer (`MaxIdBeside`) |
| `scan` | No directory lost, missed at the end or doubled, ids apart, termination; does the file hold that tree, and is every part of it refused? | 6 directories with 0 to 2 files, 3 workers, batches of 2 ids, depth limit 1, a mount point, failures |
| `search` | Does every query get the answer it asks for, with every limit; does every client get one whole answer, of one snapshot? | 4 indexes, about 4500 queries at rest; 6 commands with 2 moves of the world |
| `ghosts`, `swap`, `reset`, `writers`, `mount`, `search_diff` | findings 1, 2, 4, 8, 5 and 6, below | |
| `sealed.cfg`, `above.cfg`, `forgotten.cfg` | findings 3, 7 and 9: like the runs, but not among those of `PROJECT.json` | |

Why these bounds are enough to be interesting. Two names and depth two hold a
directory with a child, its replacement and a sibling; three events fill a batch
and leave one for the next; a threshold of 2 is passed by one grafted directory
with a child, so cuts and rebuilds happen within three events. In `updater_quiet` a
third level is needed for what a listing cannot see from above: grandchildren that
move along, and a graft with more than its children. A rename there leads to a name at
which no event was recorded (`NeverUsed`); to a name that is or was in use it is finding
2, which needs three levels and no more than a resting disk (`swap`). Four event ids
hold an event before, during and after a scan; beside another writer one change tells the id
before from the id after, and two scans, a torn and a mixed file, and a rename under the
other's feet need no more. The contents of a mixture are any, so more directories
would add none. Six directories hold a chain of
three, so a depth limit of one is reached, a batch of two ids is used up by one
worker while another holds ids left over, and three workers make the difference
between "I am idle" and "all are"; their files give shards of different lengths,
records to sort and unused ids.

The indexes of `search` are chosen for the cases: `Tree` (a nested root, an
unused id, names in both cases), `Changed` (the same with tombstones and a delta),
`Odd` (the root "/", a line break, an EOT and a bracket in names), `Twins` (an
anchor that lies across two names and two shares). With three threads the arenas
of 5 to 8 bytes have shares of two or three, so anchors of up to four bytes
reach over every end. The patterns are all texts of three characters over ten
that matter to the matcher, of four over {a, b, *} and over {a, [, ], !}.
`Unlimited` (`usize::MAX` in the code, 1000 here) is above every number of entries, and `LimitOnlyShortens` takes each limit up to that number; `MaxClimb`
is the code's 256. Two moves are a crash and a restart, a new file and a
restart, or two snapshots while one reply is being written.

Deadlock is off in the runs of `Updater` (the event bound ends the world) and
`Scan` (the workers leave) and `Client` (the command ends); `Resume` never stops, since the daemon can always
crash and start.

Every property of a passing run has a mutant of a modelled definition that breaks
it, so none holds by the shape of the model.

### Fairness

`Updater` assumes weak fairness of the thread: the kernel schedules it, and
FSEvents delivers what it has recorded. The disk need not change, and rebuild is
not assumed to succeed where `RebuildMayFail` is TRUE (`updater` sets it FALSE;
with endless failures the index may stay stale: finding 9).
`Scan` assumes weak fairness of each worker: `wait_timeout` ends after 5 ms even
if no notification comes. `Client` assumes weak fairness of the client and of
the thread that serves it: a connection of a daemon that stops is closed by the
kernel, which is part of `Crash`; nothing obliges the world to move. No property assumes that two events meet in a certain
order.

## 4. Findings

1. `ghosts`: `apply_listing` on a directory that died earlier in the batch and
   exists again puts files under the dead id. Searches print them twice and no
   later event reaches them. (`live.rs:575`)
2. `swap`: `mv a c; mv b a` in one batch keeps the old tree two levels down,
   because a listing compares names only. (`live.rs:602`)
3. `sealed`: a failed listing is taken for a deletion. (`live.rs:582`)
4. `reset`: a changed UUID makes the daemon warn and go on, where two comments
   call for a full rescan. (`daemon.rs:67`)
5. `mount`: the check for volume boundaries is not done for handed-out tasks.
   (`scan.rs:486`)
6. `search_diff`: with a daemon a query may print another answer than without
   one. A name that holds the anchor in the shares of two threads is printed and
   counted by both; and an occurrence across two names, which is rejected, makes
   the search go on behind it, so that a hit that begins inside it is lost.
   (`live.rs:798`)
7. `above`: an event for dropped events that names a directory above the watched root is
   left out by `plan`, which finds no entry for it. (`live.rs:534`)
8. `writers`: `ml index` beside a rebuild shares `index.tmp` with it. Either can rename
   what the other has just emptied or is still writing, and what both wrote is a
   mixture, which `validate` accepts. (`index.rs:186`)
9. `forgotten`: a rebuild that fails is not tried again, so that after dropped events at
   the root the index stays stale. (`daemon.rs:195`)

What the passing runs show besides: without renames, and with drops named within the
root, the index converges through every interleaving of reads and changes; the fault of 1 needs a removal and a
re-creation of one directory while a batch is handled, since `updater_quiet`
checks `PrintsDisk` with the disk at rest.

The properties of `search` name the cases in which the code gives another answer
than they demand; each is an operator of its own, as small as it could be made
with the run still passing:

- `Hidden` and `Spread`: finding 6. `Hidden` are the base files in whose name every
  occurrence of the anchor overlaps one that begins in the names before; only these may
  be missing (`NothingLost`), and only an answer that has one is excepted for it
  (`Excepted`). Occurrences that overlap inside one name excuse nothing.
- `DoubleSlash`: below the root "/" the window of `path_ok_file` holds "//" where
  the path holds "/", so that a word with two slashes hits.
- `Excepted`: a query with a line break is cut at it by the daemon, which reads one
  line; a daemon of an older version that comes between the two requests answers
  the query with an empty, complete reply; a reply that is cut behind an EOT, be it
  in a name or before the end of the total, passes for a whole one (`daemon.rs:342`
  has it that EOT does not occur in paths); and without `-0` the client
  drops the empty lines that a path with line breaks makes in a reply.

And `WholeFile` excepts `ml index` beside a daemon: finding 8. `RebuildHeals` excepts it
too: the file a rebuild opens may be an older one that `ml index` has put there.

## 5. Proofs

`UpdaterProofs` proves, for every set of names, depth, number of events, limits
with `ReadLimit >= CompactThreshold`, set of starts and choice of faults:

- `TypeCorrect`: `TypeOK`. Its core is that no id is ever out of the range of the
  snapshot it is used on.
- `CutAlwaysRebuilt`: `CutIsRebuilt`.
- `SnapshotsOnlyExtend`: `SnapshotsExtend`.

The inductive invariant `IInv` is `TypeOK` with three parts. `NextInv`: the
thread's copy extends the published snapshot, and equals it when no batch is at
work; without it `TakeBatch` and `Publish` keep nothing. `WalkInv`: a traversal's tree
has one entry for each directory read or still to read, so that one cut short has
more than `ReadLimit` of them and the delta it makes is too long. `CutInv`: a cut subtree leaves a
delta above the threshold until a rebuild. Each operation of `Live` has a lemma
(`KillSafe`, `RemoveSafe`, `ApplySafe`, `GraftSafe`, `LookupInRange`, ...: ids stay
in range and the result extends the argument), each action one, and `StepInv` puts
them together. The recursive functions (`Below`, `LookupDir`) need not be unfolded
here: the lemmas use only that their values are ids of the snapshot, which the
definitions ensure by intersection, the code by indexing.

It also proves `SiblingsStayUnique`: `SiblingsUnique`, under the same
assumptions and `StartsAssumption` (the starts have no doubles). It is relative to `IInv`; its
own invariant, `SiblingInv`, is that the published snapshot and the copy have no
doubles, and what keeps it so through a batch: the rescans left replace entries
that are apart and have no double (`RescansInv`), a directory is listed once and
leaves a graft once (`ListInv`), a graft has a free name to go to and waits for
rescans and listings (`GraftsInv`), a traversal reads each directory once
(`TreeOnce`, `StackOnce`), and what it reads has room when it is attached
(`RoomInv`). This proof does unfold the recursion of `Below` and `LookupDir`: that
a removal takes the entries of the subtree, and that a found path ends in its
last name.

`FreshProofs` proves `IdleIsFresh`: `FreshWhenIdle`, "an index that is never stale". Its
assumption, `Tame`, is what the run `updater` has, for every set of names, depth,
number of events, limits and ignored paths, with `Overflow` and `Quiet` as one likes:
items are created and removed and the event ids wrap, but nothing is renamed and no
directory is closed; no rebuild fails; dropped events are named within the root; and each
start has an index that shows its disk.
Each part is needed: `swap` breaks the property by renames, `sealed` by closed
directories, `above` by drops named above the root, and a rebuild that fails leaves cut
subtrees behind.
The invariant, `FreshInv`, holds beside `IInv` and `SiblingInv`; TLC has checked it on
the instance of `updater`. It says of every path that is not ignored that it is shown as
it is on the disk, or an event of it is still to be delivered (`Pending`), or the rest of
the plan will read it again (`Due`: a rescan of a directory above it, a listing of its
directory or of the last one above it that the index knows, a graft), or the traversal in
progress will (`Covered`, `Unread`), or a rebuild is due (`WorkFresh`, `WalkFresh`); and
what makes those debts worth something: a task's id is found by the task's path or not
at all (`TaskFresh`), a directory to be replaced has not gone alone (`Whole`), and where
a graft will hang no file is in its way (`Room`). It rests on what each operation leaves
to be found by path, for every snapshot whose siblings are apart: `RemoveLooks`,
`ApplyLooks`, `ListHere` and `ListGone`, `GraftLooks`, `RescanLooks`, `VisitLooks`;
and `PlanOwes`: the plan of a batch owes something to each path that an event in it is
about, be it the event itself or a word for a dropped one.

It also proves `IdlePrintsDisk`: `PrintsDisk`, that a search goes through what the disk
holds, each path once, and through nothing else. `FreshWhenIdle` looks down from the root
and cannot see a ghost, an alive entry below a dead directory, which `search` prints all
the same. Besides `Tame` it takes `Resting`: the disk rests while a batch is handled, since
the run `ghosts` shows one otherwise; no event is dropped and no path is ignored, since a
rescan kills a directory whose id a later listing of the same plan fills again, and what
is ignored is not kept true; and each start has an index without ghosts. The other
`CONSTANTS` are free. Its invariant, `PrintInv`, stands on `FreshInv` and says that both
snapshots are `Clean` (parents come before children, the root lives, what lives lies in
what lives), that a plan has no rescans, and that what it will list or hang a graft below
is still found where the plan found it, as far as the disk has it. From `Clean` follows
that the path printed for a living directory leads to it (`PrintedLeads`), so that a
printed path is a shown one (`PrintedDirs`, `PrintedFiles`) and `FreshInv` says which those
are; that each is printed once follows from `SiblingInv`. TLC has checked `PrintInv` on
an instance like that of `updater_quiet`, of depth two, with creations and removals only.

`ScanProofs` proves, for every tree, number of workers, batch of ids and depth,
from `ScanAssumption` and `TreeAssumption`:

- `TypeCorrect`: `TypeOK`, with `StageInv` (which frames still have names to
  number) and `EndInv` (the idle count is the number of workers that wait, and at
  the end nobody works), together `BaseInv`.
- `NodesFormTree`: `ResultIsTree`. `IdInv`: the ids a worker has left are below the
  counter, are left to no other worker and are no node's. `KnownInv`: what is handed
  on has an id, and a node lies under the directory that holds it.
- `NothingIsMissed`: `NothingMissed`. `HeldOnce`: no directory is held twice or at two
  places. `FoundInv`: what is listed is not pending, and everything but the root was
  found in something listed. `MissInv`: what a listed directory holds is listed,
  pending, or was passed over for a reason.
- `ScanIsTraversal`: `Implements`, step by step from the same invariant.

It also proves `LayoutIsSound`: for all sizes the sections of the index file
lie apart and aligned, and `validate` accepts the whole file and refuses every
shorter one. It rests on `AlignUp`, what `align8` does.

On top of both it proves what `IndexFile` checks, for all names of files as well
(`IndexFileAssumption`: the files of one directory have different names):

- `FileHoldsTree`: `IndexIsTree`, for scans that have given out ids below `NoParent`
  (`IdsFit`). The hypothesis is needed: a directory with the id `u32::MAX` would have
  the root for its child, and the code does not look for that.
  The invariant is `FileInv`: that of `NodesFormTree`, that of `NothingIsMissed`, and
  `FiledOnce`, nobody has listed a directory twice or one that another has. `Denotes` says
  of an arena with its records which list of files they stand for; `push`
  (`ShardDenotes`), the joining of shards with their offsets moved
  (`ConcatenatedDenotes`) and the sort with its new arena (`SortedDenotes`) each keep it.
  `FilesJoined` says which files these are: those of every listed directory, under its
  own id, once (`RecordedOnce`). A sorted list is cut by two partition points exactly
  where one parent's entries lie (`PointsOf`), hence the lookups (`RecordsFound`,
  `IdsFound`); `RecordsCounted` counts the records.
- `FileIsSound`: `SectionsFit`, from `LayoutIsSound` and the sizes of that file.

What the proofs use of `Order` is `OrderIs`: every entry comes once, and parents do not
descend. The code's unstable sort may exchange entries of one parent; `Order` keeps
them in their old order, and no proof depends on it.

`ResumeProofs` proves, for every set of directories, contents, bounds and faults:

- `TypeCorrect`: `TypeOK`.
- `ResumePointIsSafe`: `ResumePointSafe`, with other writers too. The strengthening: any
  contents scanned, finished or not, differ from the disk only where a later event says
  so, for the file, the temporary file (if one writer filled it by itself), `ml index` and
  the rebuild alike (`FileInv`, `TmpInv`, `CliInv`, `ScanInv`). A mixture is excepted by
  the property: there the id is one writer's and the contents are anybody's.
- `NeverHalfAnIndex`: `WholeFile`. Its invariant, `WholeInv`, is that one writer
  works at a time and has no mates, that what it opened is still the temporary file, and
  that the file is its own whole index when it comes to the rename.
- `RebuildHealsAll`: `RebuildHeals`. `HealInv` follows the rebuild's id through scan, write,
  rename and open: it is never below the cursor, and of the history there is. With
  `FileInv` this says that what is opened and the events after the cursor make up the disk,
  whatever the snapshot before it had missed.
- `NeverStale`: `FreshDespiteDrops`, where only drops can go wrong (`faults` within
  `{"overflow"}`). Crashes are always possible. `CleanInv`: there is one history, and an
  idle daemon's snapshot (`IdleFresh`), or the copy with what is left to list
  (`WorkFresh`), differs from the disk only where a later event says so; a batch that asks
  for a rebuild breaks this and `OpenHeals` restores it. The theorem is about `Resume`,
  where a listing is faithful; findings 1 to 3 and 7 say where `Live` departs from that.

`GlobProofs` proves `MatcherIsExact`: for every pattern and text, `GlobMatch` is `Fits`.
`Ways` says from which positions of the pattern the rest of a text can still be
matched, counted from the text's end. The matcher's invariant (`MatchInv`) is that
the text fits if and only if the rest of it can be matched from where the matcher is,
or from the last star after it has taken one more character; and that wherever this star
could have stopped, what follows it can be matched as far as the matcher has got, which
makes the earlier stars irrelevant (`StarWays`). Each round of the loop keeps this
(`StarKeeps`, `ItemKeeps`, `BackKeeps`), and its end gives the answer (`OverSays`); a
state that answered wrongly would have a latest one like it (`LatestState`). `FittingEnds` proves that each text that fits ends in
`TrailingLiteral`, which `anchor` and the prefilter build on.

`SearchProofs` says what the operators of `Search` return, for every snapshot and
query:

- ids are taken in ascending order and once each (`SortedIdsAscend`), so that two
  lists of the same ids are equal (`AscendingUnique`); shares lie in the arena
  (`ShareBounds`), the shares of an index file cover its records without a gap, and
  what they find, in their order, is what one thread would find (`SharesCover`,
  `SharesJoin`); the first hits of each share in their order hold the first hits of
  all (`FlattenFirst`, `LinesOfFirst`).
- a word hits a text if the text satisfies it (`TermHitsIs`, `SatisfiedIs`), and the
  prefilter passes each name that can hit (`PrefilterSound`).
- the window of `path_ok_file` decides as the whole path would: a directory's path
  either ends without a slash, or is "/" (`DirPathEnds`); the window is the end of
  the path, and long enough for each occurrence that crosses the last slash
  (`WindowIsPart`, `WindowOfPlain`, `WindowOfSlash`, `KeepCovers`). So `DirHitIs` and
  `FileHitIs`: an entry is a hit if and only if it satisfies each word.
- with any limit, the search of a file returns its answer (`FileSearchIs`), and that of
  base and delta the snapshot's, but for `Hidden` files and `Spread` (`LiveSearchIs`).

`ClientProofs` proves, for all snapshots, commands, numbers of threads and moves of
the world, from `SearchAssumption` (names are C strings) and `ClientAssumption` (ids
are in range; names are formed as the scan forms them, `WellNamed`; an index file has
no tombstones; all that the threads could list, `MostHits`, is within `Unlimited`, the
code's `usize::MAX`):

- `TypeCorrect`: `TypeOK`. The ids a handler holds are ids of the snapshot it holds.
- `ReplyIsOfOneSnapshot`: `OneReply`. The invariant is `WorldInv` and `FormInv`
  (types), `OpenInv` (the hits held were found in the snapshot held), `ServedInv`
  (what may be found, is held or was sent is of a snapshot published meanwhile) and
  `PrintedInv`. What carries it is that a reply is read as it was written
  (`WholeReplyIsRead`): the last EOT of a whole reply is its end mark, for the
  total behind it has digits only (`MarkSplits`); a number is read back from its
  decimal form (`NumberOfDecimal`); lines that are terminated one by one are split again into
  themselves where they are not empty and do not hold the separator
  (`PiecesOfTerminated`).
- `LimitShortensOnly`: `LimitOnlyShortens`.
- `NoFalseHit`: `HitsAreTrue`.
- `FileAnswersExactly`: `FileAnswerExact`.
- `CountsOnce`: `CountedOnce`, and `MissesNothing`: `NothingLost`. A live search is the
  base by its threads and then the delta (`LivePartsAre`, `LiveJoin`), and without a limit
  it returns all that each part finds (`LiveIsWhole`). A share finds an entry once, in
  ascending order (`AscendingFits`); two shares find the same entry only where the anchor
  occurs in both, which is `Spread`. An entry that satisfies the query has the anchor in
  its name or is found by the path alone; an occurrence inside the name is met by the search
  of the arena unless it overlaps one that begins in the names before, for the search goes
on behind that one; inside the name the first one met is enough. `Hidden` has the files
of which no occurrence is met so (`FindsReach`).
- `AnswersWhole`: `OneWholeAnswer`. Its invariant, `AnswerInv`, is that a closed
  connection of an up-to-date daemon holds the reply of one of the snapshots served
  meanwhile or, after a crash, the beginning of one, and that what was printed was made
  of that or found in an index file. A reply that was cut behind its EOT, where no line
  holds another, is read as the whole one (`CutReplyIsRead`). Without `-0`, lines are split at
  line breaks that names may hold too; the text is put together again as it was
  (`PiecesRejoin`) where no line is empty, or begins or ends with a line break, or has two in
  a row (`NeatLines`), which is what `DropsLine` excepts. The limit is read as it was meant (`OneLine`).

How recursion is proved about. The library's induction theorems take a predicate
and cannot be instantiated here, so `ListLemmas` states induction for a set of
numbers (`UpTo`, from the least element of its complement), and proves once
that the recursive definitions used have a function that satisfies them
(`StepwiseExists`, `EarlierExists`).

Only model-checked: `Converges` and `Terminates` (liveness under fairness is out of
the prover's reach). `FreshWhenIdle` and `PrintsDisk` with subtrees moved to new names,
which `updater_quiet` checks, are proved without renames only; with renames to names in
use they are false (`swap`).

## 6. The plan

Done, in this order: `Live`, `Volume`, `Updater`; its proofs; `Resume`; its proofs;
`Traversal` and `Scan`; the temporary file in `Resume`; `Layout` with its proof and
`IndexFile`; `Glob`, `Search` and `Client`; the proofs about `Scan`, about siblings, about
`Glob`, `Search` and `Client`, about `IndexFile`, and about what the index
shows of the disk and what a search prints.

To do: a second device in `Volume`, for mounts below the root and `read_subtree`.

### Not modelled

- Core Foundation and the attribute calls of `ffi.rs`: raw bindings. A stream that
  cannot be started (`fsevents.rs:241`) ends the update thread; the thread of
  `Updater` never ends.
- Mounts and unmounts while the daemon runs; `Volume` has one device.
- The text of ignored prefixes: `Ignored` says which paths they cover, and whether
  `starts_with` covers a sibling whose name begins alike is not asked. That the
  rebuild writes below the watched root, and would wake itself without that
  prefix, is a hazard without a property.
- Of the protocol, the requests `I` (counters for `ml stats`) and `S` (the form of
  `Q` that older clients send); of `main.rs`, the reading of arguments, `stats`,
  `watch`, the interactive mode and messages; the installer; performance.
- The guards of `remove_subtree` (2000000) and `resolve_or_ancestor` (64), and the
  32-bit width of ids and offsets, which are beyond any tree the runs hold.
