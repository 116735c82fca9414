-------------------------------- MODULE Scan --------------------------------
(***************************************************************************)
(* The parallel scan of scan.rs: workers walk subtrees depth first, hand   *)
(* half of a directory's children to a shared queue when somebody is idle, *)
(* and number directories out of id batches taken from a shared counter.   *)
(* The tree stands still here: Updater is where it moves.                  *)
(*                                                                         *)
(* A worker holds the queue's lock for the whole of next_task but while it *)
(* waits, so its attempts to get a task are single steps.  The wait ends   *)
(* by a notification or after 5 ms, that is at any time.                   *)
(***************************************************************************)
EXTENDS Integers, Sequences, FiniteSets, SequencesExt

CONSTANTS Worker,    \* the threads
          Dir,       \* directories
          Top,       \* the scan's root
          Subdirs,   \* the subdirectories of each, in the order they are read
          Foreign,   \* the directories that are mount points of other volumes
          Flaky,     \* the directories that may fail to open, or to be listed in full
          IdBatch,   \* ids taken from the shared counter at a time
          MaxDepth   \* recursion depth at which everything is handed out

ASSUME ScanAssumption ==
  /\ IsFiniteSet(Worker) /\ Worker # {}
  /\ Top \in Dir /\ Foreign \subseteq Dir \ {Top} /\ Flaky \subseteq Dir
  /\ Subdirs \in [Dir -> Seq(Dir)]
  /\ IdBatch \in Nat \ {0} /\ MaxDepth \in Nat

\* A directory is in one directory, under one name, and the root of the scan is
\* in none of those below it: there are no hard links to directories, and the
\* scan follows no symbolic one (O_NOFOLLOW).
ASSUME TreeAssumption ==
  \A d \in Dir : /\ Top \notin ToSet(Subdirs[d]) /\ IsInjective(Subdirs[d])
                  /\ \A e \in Dir \ {d} : ToSet(Subdirs[d]) \cap ToSet(Subdirs[e]) = {}

VARIABLES tasks,    \* the queue, a stack of directories with their ids
          idle,     \* how many workers wait
          done,     \* the scan is over
          nextId,   \* the shared counter
          pc,       \* where each worker is
          task,     \* the task it has taken
          stack,    \* its recursion: one frame for each open directory
          ids,      \* the ids it has left: [cursor, end]
          nodes,    \* the directory nodes it has recorded
          filed     \* the directories whose files it has recorded, in order

vars == <<tasks, idle, done, nextId, pc, task, stack, ids, nodes, filed>>

Task  == [dir : Dir, id : Nat]
Frame == [dir : Dir, id : Nat, names : Seq(Dir), subdirs : Seq(Task)]
Node  == [dir : Dir, id : Nat, parent : Nat]
TopTask == [dir |-> Top, id |-> 0]

Init == /\ tasks = <<TopTask>> /\ idle = 0 /\ done = FALSE /\ nextId = 1
        /\ pc = [w \in Worker |-> "next"] /\ task = [w \in Worker |-> TopTask]
        /\ stack = [w \in Worker |-> <<>>] /\ ids = [w \in Worker |-> [cursor |-> 0, end |-> 0]]
        /\ nodes = [w \in Worker |-> {}] /\ filed = [w \in Worker |-> <<>>]

Goto(w, label) == pc' = [pc EXCEPT ![w] = label]

-----------------------------------------------------------------------------
(* next_task                                                               *)

\* Mutant: a worker that did not wait is taken off the count as well.
WaitingOrNot(w) == 1

Waiting(w) == IF pc[w] = "wait" THEN 1 ELSE 0

TakeTask(w) ==
  /\ pc[w] \in {"next", "wait"} /\ tasks # <<>>
  /\ task' = [task EXCEPT ![w] = Last(tasks)]
  /\ tasks' = Front(tasks)
  /\ idle' = idle - Waiting(w)
  /\ Goto(w, "open")
  /\ UNCHANGED <<done, nextId, stack, ids, nodes, filed>>

Leave(w) ==
  /\ pc[w] \in {"next", "wait"} /\ tasks = <<>> /\ done
  /\ idle' = idle - Waiting(w)
  /\ Goto(w, "exit")
  /\ UNCHANGED <<tasks, done, nextId, task, stack, ids, nodes, filed>>

\* Mutant: one more is waited for than there are.
MoreThanAllIdle(n) == n > Cardinality(Worker)

\* With everybody idle the tree is walked.
AllIdle(n) == n = Cardinality(Worker)

Rest(w) ==
  /\ pc[w] \in {"next", "wait"} /\ tasks = <<>> /\ ~done
  /\ LET n == idle - Waiting(w) + 1
     IN  IF AllIdle(n) THEN done' = TRUE /\ idle' = n - 1 /\ Goto(w, "exit")
                       ELSE done' = done /\ idle' = n /\ Goto(w, "wait")
  /\ UNCHANGED <<tasks, nextId, task, stack, ids, nodes, filed>>

-----------------------------------------------------------------------------
(* scan_subtree                                                            *)

\* An open directory is read: its files go to the worker's shard, the names
\* of its subdirectories into a new frame.  Reading may break off.
Enter(w, t, below) ==
  \E n \in 0 .. Len(Subdirs[t.dir]) :
    /\ n = Len(Subdirs[t.dir]) \/ t.dir \in Flaky
    /\ stack' = [stack EXCEPT ![w] = Append(below,
                   [dir |-> t.dir, id |-> t.id,
                    names |-> SubSeq(Subdirs[t.dir], 1, n), subdirs |-> <<>>])]
    /\ filed' = [filed EXCEPT ![w] = Append(@, t)]
    /\ Goto(w, "number")

\* worker opens what it took from the queue.  It does not look at the device.
OpenTask(w) ==
  /\ pc[w] = "open"
  /\ \/ Enter(w, task[w], <<>>)
     \/ task[w].dir \in Flaky /\ Goto(w, "next") /\ UNCHANGED <<stack, filed>>
  /\ UNCHANGED <<tasks, idle, done, nextId, task, ids, nodes>>

Frame1(w) == Last(stack[w])
SetFrame(w, f) == stack' = [stack EXCEPT ![w] = Append(Front(@), f)]

\* Mutant: the end of a batch is taken for its last id.
BatchLast(base) == base + IdBatch + 1

\* What a batch that starts at `base` ends before.
BatchEnd(base) == base + IdBatch

\* alloc_id
AllocId(w) ==
  IF ids[w].cursor = ids[w].end
  THEN /\ nextId' = nextId + IdBatch
       /\ ids' = [ids EXCEPT ![w] = [cursor |-> nextId + 1, end |-> BatchEnd(nextId)]]
  ELSE /\ nextId' = nextId
       /\ ids' = [ids EXCEPT ![w].cursor = @ + 1]

\* The id that AllocId hands out.
NewId(w) == IF ids[w].cursor = ids[w].end THEN nextId ELSE ids[w].cursor

\* The next subdirectory gets its id and its node.
Register(w) ==
  /\ pc[w] = "number" /\ Frame1(w).names # <<>>
  /\ AllocId(w)
  /\ LET f == Frame1(w)
         t == [dir |-> Head(f.names), id |-> NewId(w)]
     IN  /\ nodes' = [nodes EXCEPT ![w] = @ \cup {[dir |-> t.dir, id |-> t.id, parent |-> f.id]}]
         /\ SetFrame(w, [f EXCEPT !.names = Tail(@), !.subdirs = Append(@, t)])
  /\ UNCHANGED <<tasks, idle, done, pc, task, filed>>

\* How many children the worker keeps: none when it is too deep, half of them
\* when somebody is idle.  idle is read without the lock and with no order,
\* so beside other workers it may read as anything.
Keeps(w) ==
  LET n == Len(Frame1(w).subdirs)
  IN  IF Len(stack[w]) > MaxDepth THEN {0}
      ELSE {n} \cup (IF n > 1 /\ Cardinality(Worker) > 1 THEN {n \div 2} ELSE {})

\* Mutant: what is handed out is kept as well.
HandOutCopies(w) ==
  /\ pc[w] = "number" /\ Frame1(w).names = <<>>
  /\ \E n \in Keeps(w) :
       tasks' = tasks \o SubSeq(Frame1(w).subdirs, n + 1, Len(Frame1(w).subdirs))
  /\ Goto(w, "walk")
  /\ UNCHANGED <<idle, done, nextId, task, stack, ids, nodes, filed>>

\* Mutant: the first of what is handed out is forgotten.
HandOutSkips(w) ==
  /\ pc[w] = "number" /\ Frame1(w).names = <<>>
  /\ \E n \in Keeps(w) :
       LET f == Frame1(w)
       IN  /\ tasks' = tasks \o SubSeq(f.subdirs, n + 2, Len(f.subdirs))
           /\ SetFrame(w, [f EXCEPT !.subdirs = SubSeq(@, 1, n)])
  /\ Goto(w, "walk")
  /\ UNCHANGED <<idle, done, nextId, task, ids, nodes, filed>>

HandOut(w) ==
  /\ pc[w] = "number" /\ Frame1(w).names = <<>>
  /\ \E n \in Keeps(w) :
       LET f == Frame1(w)
       IN  /\ tasks' = tasks \o SubSeq(f.subdirs, n + 1, Len(f.subdirs))
           /\ SetFrame(w, [f EXCEPT !.subdirs = SubSeq(@, 1, n)])
  /\ Goto(w, "walk")
  /\ UNCHANGED <<idle, done, nextId, task, ids, nodes, filed>>

\* The next child is opened from its parent; those of another volume and those
\* that do not open are passed over.
Descend(w) ==
  /\ pc[w] = "walk" /\ Frame1(w).subdirs # <<>>
  /\ LET f == Frame1(w)
         t == Head(f.subdirs)
         rest == Append(Front(stack[w]), [f EXCEPT !.subdirs = Tail(@)])
     IN  \/ t.dir \notin Foreign /\ Enter(w, t, rest)
         \/ /\ t.dir \in Flaky \cup Foreign
            /\ stack' = [stack EXCEPT ![w] = rest]
            /\ UNCHANGED <<pc, filed>>
  /\ UNCHANGED <<tasks, idle, done, nextId, task, ids, nodes>>

Ascend(w) ==
  /\ pc[w] = "walk" /\ Frame1(w).subdirs = <<>>
  /\ stack' = [stack EXCEPT ![w] = Front(@)]
  /\ IF Len(stack[w]) = 1 THEN Goto(w, "next") ELSE UNCHANGED pc
  /\ UNCHANGED <<tasks, idle, done, nextId, task, ids, nodes, filed>>

Step(w) == \/ TakeTask(w) \/ Leave(w) \/ Rest(w)
           \/ OpenTask(w) \/ Register(w) \/ HandOut(w) \/ Descend(w) \/ Ascend(w)

Next == \E w \in Worker : Step(w)

Spec == Init /\ [][Next]_vars

\* Every thread is scheduled, and a wait ends after 5 ms if not before.
FairSpec == Spec /\ \A w \in Worker : WF_vars(Step(w))
-----------------------------------------------------------------------------
(* Properties.                                                             *)

\* Everything has its type; above all, the count of idle workers, an unsigned
\* number that three branches of next_task change, neither underflows nor
\* exceeds the number of workers.
TypeOK ==
  /\ tasks \in Seq(Task) /\ idle \in 0 .. Cardinality(Worker) /\ done \in BOOLEAN
  /\ nextId \in Nat \ {0}
  /\ pc \in [Worker -> {"next", "wait", "open", "number", "walk", "exit"}]
  /\ task \in [Worker -> Task] /\ stack \in [Worker -> Seq(Frame)]
  /\ ids \in [Worker -> [cursor : Nat, end : Nat]]
  /\ nodes \in [Worker -> SUBSET Node] /\ filed \in [Worker -> Seq(Task)]

AllNodes == UNION {nodes[w] : w \in Worker}
AllFiled == UNION {ToSet(filed[w]) : w \in Worker}

\* Merged into one array by id, the workers' nodes do not overwrite each other
\* nor the root, all fit, and each hangs under the directory that holds it;
\* the files of a directory are recorded under its own id.
ResultIsTree ==
  /\ \A m, n \in AllNodes : m.id = n.id => m = n
  /\ \A n \in AllNodes : /\ n.id \in 1 .. nextId - 1
                         /\ \E p \in {[dir |-> Top, id |-> 0]} \cup {[dir |-> m.dir, id |-> m.id] : m \in AllNodes} :
                              p.id = n.parent /\ n.dir \in ToSet(Subdirs[p.dir])
  /\ \A t \in AllFiled : t = TopTask \/ \E n \in AllNodes : n.dir = t.dir /\ n.id = t.id

\* The directories known and not yet opened, wherever they are kept.
Pending == {t.dir : t \in ToSet(tasks)}
           \cup {task[w].dir : w \in {v \in Worker : pc[v] = "open"}}
           \cup UNION {ToSet(f.names) \cup {t.dir : t \in ToSet(f.subdirs)} :
                         f \in UNION {ToSet(stack[w]) : w \in Worker}}

\* The scan implements Traversal: no directory is lost between queue and
\* workers, none is listed twice, and `done` is not set before all are through.
Promise == INSTANCE Traversal
             WITH Inside   <- [d \in Dir |-> ToSet(Subdirs[d])],
                  pending  <- Pending,
                  listed   <- {t.dir : t \in AllFiled},
                  finished <- done
Implements == Promise!Spec

\* A scan that ends has listed the root and, of every directory it has listed
\* that did not fail it, every subdirectory, but for those of other volumes and
\* those that failed.
NothingMissed == Promise!Complete

\* Every worker leaves in the end, and scan can join them.
Terminates == <>(\A w \in Worker : pc[w] = "exit")

\* Nothing of another volume is listed: "the index covers a single volume
\* (recursion across volume boundaries is blocked during the scan)".
SingleVolume == \A t \in AllFiled : t.dir \notin Foreign
=============================================================================
