----------------------------- MODULE ScanProofs -----------------------------
(***************************************************************************)
(* Proofs about Scan, for every set of workers, every tree, every set of   *)
(* mount points and of directories that may fail, every batch and depth,   *)
(* about the layout of the file that is made of a scan, for every size of  *)
(* its sections, and about what its lookups find, for all names of files.  *)
(***************************************************************************)
EXTENDS IndexFile, ListLemmas

\* The directories of a list of tasks, of a frame, of a stack of frames.
DirsOf(s)     == {t.dir : t \in ToSet(s)}
FrameDirs(f)  == ToSet(f.names) \cup DirsOf(f.subdirs)
StackDirs(s)  == UNION {FrameDirs(s[i]) : i \in DOMAIN s}

\* None of them is there twice.
Once(s)       == \A i, j \in DOMAIN s : s[i].dir = s[j].dir => i = j
OnceFrame(f)  == /\ IsInjective(f.names) /\ Once(f.subdirs)
                 /\ ToSet(f.names) \cap DirsOf(f.subdirs) = {}
OnceStack(s)  == \A i \in DOMAIN s :
                   /\ OnceFrame(s[i])
                   /\ \A j \in DOMAIN s \ {i} : FrameDirs(s[i]) \cap FrameDirs(s[j]) = {}

\* Where a worker is inside directories.
AtWork == {"number", "walk"}

\* A worker has a stack while it is inside directories, and only the topmost
\* still has names without an id.
StageInv ==
  /\ \A w \in Worker : stack[w] = <<>> <=> pc[w] \notin AtWork
  /\ \A w \in Worker : \A i \in DOMAIN stack[w] :
       stack[w][i].names = <<>> \/ (i = Len(stack[w]) /\ pc[w] = "number")

\* The idle count is the number of waiting workers; nobody leaves before the
\* end, and at the end nobody works.
Waiters == {w \in Worker : pc[w] = "wait"}
EndInv ==
  /\ idle = Cardinality(Waiters)
  /\ \A w \in Worker : pc[w] = "exit" => done
  /\ done => tasks = <<>> /\ \A w \in Worker : pc[w] \in {"wait", "exit"}

\* The ids a worker has left are below the counter and nobody else's.
Left(w) == ids[w].cursor .. ids[w].end - 1
IdInv ==
  /\ \A w \in Worker : ids[w].cursor <= ids[w].end /\ ids[w].end <= nextId
  /\ \A w \in Worker : \A i \in Left(w) : /\ i > 0
                                          /\ \A v \in Worker \ {w} : i \notin Left(v)
                                          /\ \A n \in AllNodes : n.id # i
  /\ \A n \in AllNodes : n.id > 0 /\ n.id < nextId
  /\ \A m, n \in AllNodes : m.id = n.id => m = n

\* The directories that have an id, and nothing else, are handed on.
TaskOf(f) == [dir |-> f.dir, id |-> f.id]
Known == {TopTask} \cup {TaskOf(n) : n \in AllNodes}
FrameKnown(f, known) == /\ TaskOf(f) \in known /\ ToSet(f.subdirs) \subseteq known
                        /\ ToSet(f.names) \subseteq ToSet(Subdirs[f.dir])
KnownInv ==
  /\ ToSet(tasks) \subseteq Known
  /\ \A w \in Worker : task[w] \in Known /\ ToSet(filed[w]) \subseteq Known
  /\ \A w \in Worker : \A i \in DOMAIN stack[w] : FrameKnown(stack[w][i], Known)
  /\ \A n \in AllNodes : \E p \in Known : p.id = n.parent /\ n.dir \in ToSet(Subdirs[p.dir])

\* What a worker holds of the directories still to be listed; nothing is held
\* twice or at two places.
Held(w) == (IF pc[w] = "open" THEN {task[w].dir} ELSE {}) \cup StackDirs(stack[w])
HeldOnce ==
  /\ Once(tasks)
  /\ \A w \in Worker : /\ OnceStack(stack[w])
                       /\ DirsOf(tasks) \cap Held(w) = {}
                       /\ \A v \in Worker \ {w} : Held(v) \cap Held(w) = {}

\* What is still to be listed has not been; everything but the root was found
\* in a directory that has been.
Listed == {t.dir : t \in AllFiled}
FoundInv ==
  /\ Pending \cap Listed = {}
  /\ \A d \in Pending \cup Listed : d = Top \/ \E p \in Listed : d \in ToSet(Subdirs[p])

\* What a directory that was listed without failing had in it is listed, still
\* to be listed, or was passed over.
MissInv ==
  /\ Top \in Listed \cup Pending \cup Flaky
  /\ \A d \in Listed \ Flaky : ToSet(Subdirs[d]) \subseteq Listed \cup Pending \cup Flaky \cup Foreign
-----------------------------------------------------------------------------
(* The directories of lists of tasks.                                      *)

\* The directories of a list, by position.
LEMMA DirsByPosition ==
  ASSUME NEW s
  PROVE  \A d : d \in DirsOf(s) <=> \E i \in DOMAIN s : s[i].dir = d
BY DEF DirsOf, ToSet

\* The first task is taken away from the others.
LEMMA FirstDir ==
  ASSUME NEW s \in Seq(Task), s # <<>>
  PROVE  /\ DirsOf(s) = {Head(s).dir} \cup DirsOf(Tail(s))
         /\ Once(s) => Once(Tail(s)) /\ Head(s).dir \notin DirsOf(Tail(s))
<1> DEFINE t == Tail(s)
<1>1. /\ ToSet(s) = {Head(s)} \cup ToSet(t)
      /\ Head(s) = s[1] /\ 1 \in DOMAIN s
      /\ \A i \in DOMAIN t : i + 1 \in DOMAIN s /\ i + 1 # 1 /\ t[i] = s[i + 1]
  BY HeadAndTail
<1>2. DOMAIN t \subseteq Nat
  BY HeadAndTail, LenProperties
<1> HIDE DEF t
<1>3. DirsOf(s) = {Head(s).dir} \cup DirsOf(t)
  BY <1>1 DEF DirsOf
<1>4. ASSUME Once(s) PROVE Once(t) /\ Head(s).dir \notin DirsOf(t)
  <2>1. Once(t)
    <3>1. ASSUME NEW i \in DOMAIN t, NEW j \in DOMAIN t, t[i].dir = t[j].dir PROVE i = j
      <4>1. s[i + 1].dir = s[j + 1].dir /\ i + 1 \in DOMAIN s /\ j + 1 \in DOMAIN s
        BY <3>1, <1>1
      <4>2. i + 1 = j + 1
        BY <4>1, <1>4 DEF Once
      <4>3. QED BY <4>2, <1>2
    <3>2. QED BY <3>1 DEF Once
  <2>2. ASSUME NEW i \in DOMAIN t PROVE t[i].dir # s[1].dir
    <3>1. i + 1 \in DOMAIN s /\ i + 1 # 1 /\ t[i] = s[i + 1] /\ 1 \in DOMAIN s
      BY <1>1
    <3>2. QED BY <3>1, <1>4 DEF Once
  <2>3. QED BY <2>1, <2>2, <1>1, DirsByPosition
<1>5. QED BY <1>3, <1>4 DEF t

\* The first name is taken away from the others.
LEMMA FirstName ==
  ASSUME NEW s \in Seq(Dir), s # <<>>
  PROVE  IsInjective(s) => IsInjective(Tail(s)) /\ Head(s) \notin ToSet(Tail(s))
<1> DEFINE t == Tail(s)
<1>1. /\ Head(s) = s[1] /\ 1 \in DOMAIN s
      /\ \A i \in DOMAIN t : i + 1 \in DOMAIN s /\ i + 1 # 1 /\ t[i] = s[i + 1]
  BY HeadAndTail
<1>2. DOMAIN t \subseteq Nat
  BY HeadAndTail, LenProperties
<1> HIDE DEF t
<1>3. ASSUME IsInjective(s) PROVE IsInjective(t) /\ Head(s) \notin ToSet(t)
  <2>1. ASSUME NEW i \in DOMAIN t, NEW j \in DOMAIN t, t[i] = t[j] PROVE i = j
    <3>1. s[i + 1] = s[j + 1] /\ i + 1 \in DOMAIN s /\ j + 1 \in DOMAIN s
      BY <2>1, <1>1
    <3>2. i + 1 = j + 1
      BY <3>1, <1>3 DEF IsInjective
    <3>3. QED BY <3>2, <1>2
  <2>2. ASSUME NEW i \in DOMAIN t PROVE t[i] # s[1]
    <3>1. i + 1 \in DOMAIN s /\ i + 1 # 1 /\ t[i] = s[i + 1] /\ 1 \in DOMAIN s
      BY <1>1
    <3>2. QED BY <3>1, <1>3 DEF IsInjective
  <2>3. QED BY <2>1, <2>2, <1>1 DEF IsInjective, ToSet
<1>4. QED BY <1>3 DEF t

\* The last task is taken away from the others.
LEMMA LastDir ==
  ASSUME NEW s \in Seq(Task), s # <<>>
  PROVE  /\ ToSet(s) = ToSet(Front(s)) \cup {Last(s)}
         /\ DirsOf(s) = DirsOf(Front(s)) \cup {Last(s).dir}
         /\ Once(s) => Once(Front(s)) /\ Last(s).dir \notin DirsOf(Front(s))
<1> DEFINE t == Front(s)
           n == Len(s)
<1>1. n \in Nat \ {0} /\ DOMAIN s = 1 .. n /\ Last(s) = s[n]
  BY FrontLast, LenProperties
<1>2. DOMAIN t = 1 .. n - 1 /\ \A i \in DOMAIN t : t[i] = s[i]
  BY FrontLast, LenProperties
<1> HIDE DEF t, n
<1>3. \A i \in DOMAIN s : i = n \/ i \in DOMAIN t
  BY <1>1, <1>2
<1>4. n \in DOMAIN s /\ \A i \in DOMAIN t : i \in DOMAIN s /\ i # n
  BY <1>1, <1>2
<1>5. ToSet(s) = ToSet(t) \cup {Last(s)}
  BY <1>1, <1>2, <1>3, <1>4 DEF ToSet
<1>6. DirsOf(s) = DirsOf(t) \cup {Last(s).dir}
  BY <1>5 DEF DirsOf
<1>7. Once(s) => Once(t) /\ Last(s).dir \notin DirsOf(t)
  BY <1>1, <1>2, <1>4, DirsByPosition DEF Once
<1>8. QED BY <1>5, <1>6, <1>7 DEF t

\* A task is added to others.
LEMMA OneMoreDir ==
  ASSUME NEW s \in Seq(Task), NEW t \in Task
  PROVE  /\ DirsOf(Append(s, t)) = DirsOf(s) \cup {t.dir}
         /\ Once(s) /\ t.dir \notin DirsOf(s) => Once(Append(s, t))
<1> DEFINE a == Append(s, t)
           n == Len(s) + 1
<1>1. /\ ToSet(a) = ToSet(s) \cup {t}
      /\ \A i \in DOMAIN s : a[i] = s[i]
      /\ a[n] = t
  BY AppendedOne
<1>2. \A i \in DOMAIN a : i = n \/ i \in DOMAIN s
  BY AppendedOne
<1> HIDE DEF a, n
<1>3. DirsOf(a) = DirsOf(s) \cup {t.dir}
  BY <1>1 DEF DirsOf
<1>4. ASSUME Once(s), t.dir \notin DirsOf(s) PROVE Once(a)
  BY <1>1, <1>2, <1>4, DirsByPosition DEF Once
<1>5. QED BY <1>3, <1>4 DEF a

\* A list of tasks is cut in two.
LEMMA CutDirs ==
  ASSUME NEW s \in Seq(Task), NEW n \in 0 .. Len(s)
  PROVE  LET a == SubSeq(s, 1, n)
             b == SubSeq(s, n + 1, Len(s))
         IN  /\ DirsOf(s) = DirsOf(a) \cup DirsOf(b)
             /\ Once(s) => Once(a) /\ Once(b) /\ DirsOf(a) \cap DirsOf(b) = {}
<1> DEFINE a == SubSeq(s, 1, n)
           b == SubSeq(s, n + 1, Len(s))
<1>1. /\ DOMAIN a = 1 .. n /\ DOMAIN b = 1 .. Len(s) - n
      /\ Len(s) \in Nat /\ DOMAIN s = 1 .. Len(s)
      /\ \A i \in DOMAIN a : a[i] = s[i]
      /\ \A i \in DOMAIN b : b[i] = s[n + i]
      /\ ToSet(s) = ToSet(a) \cup ToSet(b)
  BY CutInTwo
<1> HIDE DEF a, b
<1>2. DirsOf(s) = DirsOf(a) \cup DirsOf(b)
  BY <1>1 DEF DirsOf
<1>3. ASSUME Once(s) PROVE Once(a) /\ Once(b) /\ DirsOf(a) \cap DirsOf(b) = {}
  <2>1. \A i \in DOMAIN a : i \in DOMAIN s /\ a[i] = s[i]
    BY <1>1
  <2>2. \A i \in DOMAIN b : n + i \in DOMAIN s /\ b[i] = s[n + i]
    BY <1>1
  <2>3. Once(a)
    BY <2>1, <1>3 DEF Once
  <2>4. Once(b)
    <3>1. ASSUME NEW i \in DOMAIN b, NEW j \in DOMAIN b, b[i].dir = b[j].dir PROVE i = j
      <4>1. n + i = n + j
        BY <3>1, <2>2, <1>3 DEF Once
      <4>2. QED BY <4>1, <1>1
    <3>2. QED BY <3>1 DEF Once
  <2>5. ASSUME NEW i \in DOMAIN a, NEW j \in DOMAIN b PROVE a[i].dir # b[j].dir
    <3>1. i # n + j
      BY <1>1
    <3>2. QED BY <3>1, <2>1, <2>2, <1>3 DEF Once
  <2>6. QED BY <2>3, <2>4, <2>5, DirsByPosition
<1>4. QED BY <1>2, <1>3 DEF a, b

\* Two lists of tasks are joined.
LEMMA JoinedDirs ==
  ASSUME NEW s \in Seq(Task), NEW t \in Seq(Task)
  PROVE  /\ DirsOf(s \o t) = DirsOf(s) \cup DirsOf(t)
         /\ Once(s) /\ Once(t) /\ DirsOf(s) \cap DirsOf(t) = {} => Once(s \o t)
<1> DEFINE c == s \o t
<1>1. /\ DOMAIN c = 1 .. Len(s) + Len(t)
      /\ DOMAIN s = 1 .. Len(s) /\ DOMAIN t = 1 .. Len(t) /\ Len(s) \in Nat /\ Len(t) \in Nat
      /\ \A i \in DOMAIN s : c[i] = s[i]
      /\ \A i \in DOMAIN t : c[Len(s) + i] = t[i]
      /\ ToSet(c) = ToSet(s) \cup ToSet(t)
  BY Joined
<1> HIDE DEF c
<1>2. DirsOf(c) = DirsOf(s) \cup DirsOf(t)
  BY <1>1 DEF DirsOf
<1>3. ASSUME Once(s), Once(t), DirsOf(s) \cap DirsOf(t) = {} PROVE Once(c)
  <2>1. ASSUME NEW i \in DOMAIN c
        PROVE  \/ i \in DOMAIN s /\ c[i] = s[i]
               \/ i - Len(s) \in DOMAIN t /\ c[i] = t[i - Len(s)]
    <3>1. CASE i <= Len(s)
      BY <3>1, <1>1
    <3>2. CASE ~(i <= Len(s))
      <4>1. i - Len(s) \in DOMAIN t /\ Len(s) + (i - Len(s)) = i
        BY <3>2, <1>1
      <4>2. QED BY <4>1, <1>1
    <3>3. QED BY <3>1, <3>2
  <2>2. \A i \in DOMAIN s, j \in DOMAIN t : s[i].dir # t[j].dir
    BY <1>3, DirsByPosition
  <2>3. ASSUME NEW i \in DOMAIN c, NEW j \in DOMAIN c, c[i].dir = c[j].dir PROVE i = j
    <3>1. \/ i \in DOMAIN s /\ j \in DOMAIN s /\ s[i].dir = s[j].dir
          \/ i - Len(s) \in DOMAIN t /\ j - Len(s) \in DOMAIN t /\ t[i - Len(s)].dir = t[j - Len(s)].dir
      BY <2>1, <2>2, <2>3
    <3>2. i = j \/ i - Len(s) = j - Len(s)
      BY <3>1, <1>3 DEF Once
    <3>3. QED BY <3>2, <1>1
  <2>4. QED BY <2>3 DEF Once
<1>4. QED BY <1>2, <1>3 DEF c

-----------------------------------------------------------------------------
(* Stacks of frames.                                                       *)

\* The directories of a stack, by position.
LEMMA StackByPosition ==
  ASSUME NEW s
  PROVE  \A d : d \in StackDirs(s) <=> \E i \in DOMAIN s : d \in FrameDirs(s[i])
BY DEF StackDirs

\* The topmost frame has nothing that the others have.
LEMMA TopFrame ==
  ASSUME NEW s \in Seq(Frame), s # <<>>
  PROVE  /\ StackDirs(s) = StackDirs(Front(s)) \cup FrameDirs(Last(s))
         /\ OnceStack(s) => /\ OnceStack(Front(s)) /\ OnceFrame(Last(s))
                            /\ StackDirs(Front(s)) \cap FrameDirs(Last(s)) = {}
<1> DEFINE t == Front(s)
           n == Len(s)
<1>1. n \in Nat \ {0} /\ DOMAIN s = 1 .. n /\ Last(s) = s[n]
  BY FrontLast, LenProperties
<1>2. DOMAIN t = 1 .. n - 1 /\ \A i \in DOMAIN t : t[i] = s[i]
  BY FrontLast, LenProperties
<1> HIDE DEF t, n
<1>3. \A i \in DOMAIN s : i = n \/ i \in DOMAIN t
  BY <1>1, <1>2
<1>4. n \in DOMAIN s /\ \A i \in DOMAIN t : i \in DOMAIN s /\ i # n
  BY <1>1, <1>2
<1>5. \A d : d \in StackDirs(s) <=> d \in StackDirs(t) \/ d \in FrameDirs(s[n])
  <2>1. \A d : (\E i \in DOMAIN s : d \in FrameDirs(s[i]))
               <=> (\E i \in DOMAIN t : d \in FrameDirs(t[i])) \/ d \in FrameDirs(s[n])
    BY <1>2, <1>3, <1>4
  <2>2. QED BY <2>1, StackByPosition
<1>6. ASSUME OnceStack(s)
      PROVE  OnceStack(t) /\ OnceFrame(s[n]) /\ StackDirs(t) \cap FrameDirs(s[n]) = {}
  <2>1. OnceFrame(s[n]) /\ OnceStack(t)
    BY <1>6, <1>2, <1>4 DEF OnceStack
  <2>2. \A i \in DOMAIN t : FrameDirs(t[i]) \cap FrameDirs(s[n]) = {}
    BY <1>6, <1>2, <1>4 DEF OnceStack
  <2>3. QED BY <2>1, <2>2, StackByPosition
<1>7. QED BY <1>1, <1>5, <1>6 DEF t

\* A frame is put on a stack that has nothing of it.
LEMMA NewTop ==
  ASSUME NEW s \in Seq(Frame), NEW f \in Frame
  PROVE  /\ StackDirs(Append(s, f)) = StackDirs(s) \cup FrameDirs(f)
         /\ OnceStack(s) /\ OnceFrame(f) /\ StackDirs(s) \cap FrameDirs(f) = {}
              => OnceStack(Append(s, f))
<1> DEFINE a == Append(s, f)
           n == Len(s) + 1
<1>1. /\ \A i \in DOMAIN s : a[i] = s[i]
      /\ a[n] = f
      /\ n \in DOMAIN a /\ n \notin DOMAIN s
      /\ \A i \in DOMAIN s : i \in DOMAIN a
  BY AppendedOne
<1>2. \A i \in DOMAIN a : i = n \/ i \in DOMAIN s
  BY AppendedOne
<1> HIDE DEF a, n
<1>3. \A d : d \in StackDirs(a) <=> d \in StackDirs(s) \/ d \in FrameDirs(f)
  <2>1. \A d : (\E i \in DOMAIN a : d \in FrameDirs(a[i]))
               <=> (\E i \in DOMAIN s : d \in FrameDirs(s[i])) \/ d \in FrameDirs(f)
    BY <1>1, <1>2
  <2>2. QED BY <2>1, StackByPosition
<1>4. ASSUME OnceStack(s), OnceFrame(f), StackDirs(s) \cap FrameDirs(f) = {} PROVE OnceStack(a)
  <2>1. \A i \in DOMAIN s : FrameDirs(s[i]) \cap FrameDirs(f) = {}
    BY <1>4, StackByPosition
  <2>2. \A i \in DOMAIN a : OnceFrame(a[i])
    BY <1>1, <1>2, <1>4 DEF OnceStack
  <2>3. \A i, j \in DOMAIN a : i # j => FrameDirs(a[i]) \cap FrameDirs(a[j]) = {}
    BY <1>1, <1>2, <1>4, <2>1 DEF OnceStack
  <2>4. QED BY <2>2, <2>3 DEF OnceStack
<1>5. QED BY <1>3, <1>4 DEF a

-----------------------------------------------------------------------------
(* Types, stages, and the count of idle workers.                           *)

\* Waiters are counted by a number.
LEMMA WaitersCounted ==
  /\ IsFiniteSet(Waiters) /\ Cardinality(Waiters) \in 0 .. Cardinality(Worker)
  /\ Cardinality(Worker) \in Nat /\ Cardinality(Worker) # 0
<1>1. Waiters \in SUBSET Worker
  BY DEF Waiters
<1>2. IsFiniteSet(Waiters) /\ Cardinality(Waiters) <= Cardinality(Worker)
  BY <1>1, ScanAssumption, FS_Subset
<1>3. Cardinality(Waiters) \in Nat /\ Cardinality(Worker) \in Nat
  BY <1>2, ScanAssumption, FS_CardinalityType
<1>4. Cardinality(Worker) # 0
  BY ScanAssumption, FS_EmptySet
<1>5. QED BY <1>2, <1>3, <1>4

\* What a step of a worker does to the count of those that wait.
LEMMA WaitersStep ==
  ASSUME TypeOK, EndInv, NEW w \in Worker, NEW label, Goto(w, label)
  PROVE  Cardinality(Waiters') = idle - Waiting(w) + (IF label = "wait" THEN 1 ELSE 0)
<1>1. IsFiniteSet(Waiters) /\ Cardinality(Waiters) = idle /\ idle \in Nat
  BY WaitersCounted DEF EndInv
<1>2. pc' = [pc EXCEPT ![w] = label] /\ pc \in [Worker -> {"next", "wait", "open", "number", "walk", "exit"}]
  BY DEF Goto, TypeOK
<1>3. Waiting(w) = (IF w \in Waiters THEN 1 ELSE 0)
  BY DEF Waiting, Waiters
<1>4. CASE label = "wait"
  <2>1. Waiters' = Waiters \cup {w}
    BY <1>2, <1>4 DEF Waiters
  <2>2. Cardinality(Waiters \cup {w}) = IF w \in Waiters THEN Cardinality(Waiters) ELSE Cardinality(Waiters) + 1
    BY <1>1, FS_AddElement
  <2>3. QED BY <1>1, <1>3, <1>4, <2>1, <2>2
<1>5. CASE label # "wait"
  <2>1. Waiters' = Waiters \ {w}
    BY <1>2, <1>5 DEF Waiters
  <2>2. Cardinality(Waiters \ {w}) = IF w \in Waiters THEN Cardinality(Waiters) - 1 ELSE Cardinality(Waiters)
    BY <1>1, FS_RemoveElement
  <2>3. QED BY <1>1, <1>3, <1>5, <2>1, <2>2
<1>6. QED BY <1>4, <1>5

\* If one worker counts itself and finds everybody idle, all others wait.
LEMMA OthersWait ==
  ASSUME TypeOK, EndInv, NEW w \in Worker, AllIdle(idle - Waiting(w) + 1)
  PROVE  \A v \in Worker \ {w} : pc[v] = "wait"
<1>1. IsFiniteSet(Waiters) /\ Cardinality(Waiters) = idle /\ idle \in Nat /\ Cardinality(Worker) \in Nat
  BY WaitersCounted DEF EndInv
<1>2. Waiting(w) = (IF w \in Waiters THEN 1 ELSE 0)
  BY DEF Waiting, Waiters
<1>3. Cardinality(Waiters \cup {w}) = Cardinality(Worker)
  <2>1. Cardinality(Waiters \cup {w}) = IF w \in Waiters THEN Cardinality(Waiters) ELSE Cardinality(Waiters) + 1
    BY <1>1, FS_AddElement
  <2>2. QED BY <1>1, <1>2, <2>1 DEF AllIdle
<1>4. Waiters \cup {w} \in SUBSET Worker
  BY DEF Waiters
<1>5. Worker = Waiters \cup {w}
  BY <1>3, <1>4, ScanAssumption, FS_Subset
<1>6. QED BY <1>5 DEF Waiters

\* AtWork directories, a worker has a topmost frame.
LEMMA TopIsFrame ==
  ASSUME TypeOK, StageInv, NEW w \in Worker, pc[w] \in AtWork
  PROVE  /\ stack[w] \in Seq(Frame) /\ stack[w] # <<>>
         /\ Frame1(w) \in Frame /\ Frame1(w) = stack[w][Len(stack[w])] /\ Front(stack[w]) \in Seq(Frame)
         /\ Frame1(w).names \in Seq(Dir) /\ Frame1(w).subdirs \in Seq(Task)
<1>1. stack[w] \in Seq(Frame) /\ stack[w] # <<>>
  BY DEF TypeOK, StageInv
<1>2. /\ Last(stack[w]) \in Frame /\ Last(stack[w]) = stack[w][Len(stack[w])]
      /\ Front(stack[w]) \in Seq(Frame)
  BY <1>1, FrontLast
<1>3. \A f \in Frame : f.names \in Seq(Dir) /\ f.subdirs \in Seq(Task)
  BY DEF Frame
<1>4. QED BY <1>1, <1>2, <1>3 DEF Frame1

\* Entering a directory adds one frame of its subdirectories.
LEMMA EnterType ==
  ASSUME TypeOK, NEW w \in Worker, NEW t \in Task, NEW below \in Seq(Frame), Enter(w, t, below)
  PROVE  \E f \in Frame :
           /\ TaskOf(f) = t /\ f.subdirs = <<>>
           /\ ToSet(f.names) \subseteq ToSet(Subdirs[t.dir]) /\ IsInjective(f.names)
           /\ ToSet(f.names) = ToSet(Subdirs[t.dir]) \/ t.dir \in Flaky
           /\ stack' = [stack EXCEPT ![w] = Append(below, f)]
           /\ filed' = [filed EXCEPT ![w] = Append(@, t)]
           /\ Goto(w, "number")
<1> DEFINE s == Subdirs[t.dir]
<1>1. s \in Seq(Dir) /\ IsInjective(s) /\ t.dir \in Dir
  BY ScanAssumption, TreeAssumption DEF Task
<1>2. PICK n \in 0 .. Len(s) :
        /\ n = Len(s) \/ t.dir \in Flaky
        /\ stack' = [stack EXCEPT ![w] = Append(below,
                       [dir |-> t.dir, id |-> t.id, names |-> SubSeq(s, 1, n), subdirs |-> <<>>])]
        /\ filed' = [filed EXCEPT ![w] = Append(@, t)]
        /\ Goto(w, "number")
  BY DEF Enter
<1> DEFINE names == SubSeq(s, 1, n)
           f == [dir |-> t.dir, id |-> t.id, names |-> names, subdirs |-> <<>>]
<1>3. /\ names \in Seq(Dir) /\ DOMAIN names = 1 .. n
      /\ DOMAIN s = 1 .. Len(s) /\ Len(s) \in Nat
      /\ \A i \in DOMAIN names : names[i] = s[i]
      /\ ToSet(names) \subseteq ToSet(s)
  BY <1>1, CutInTwo
<1>4. IsInjective(names)
  <2>1. \A i \in DOMAIN names : i \in DOMAIN s
    BY <1>3
  <2> HIDE DEF names, s
  <2>2. QED BY <1>1, <1>3, <2>1 DEF IsInjective
<1>5. n = Len(s) => names = s
  BY <1>1, SubSeqFull
<1>6. f \in Frame
  BY <1>1, <1>3 DEF Frame, Task
<1>7. TaskOf(f) = t
  BY DEF TaskOf, Task
<1> HIDE DEF names, s
<1>8. QED BY <1>2, <1>3, <1>4, <1>5, <1>6, <1>7 DEF s, names

\* What each way of going on leaves on the stack.
LEMMA RegisterType ==
  ASSUME TypeOK, StageInv, NEW w \in Worker, Register(w)
  PROVE  LET f == Frame1(w)
             t == [dir |-> Head(f.names), id |-> NewId(w)]
             g == [f EXCEPT !.names = Tail(@), !.subdirs = Append(@, t)]
         IN  /\ NewId(w) \in Nat /\ t \in Task /\ g \in Frame /\ t.dir \in ToSet(f.names)
             /\ g.dir = f.dir /\ g.id = f.id /\ g.names = Tail(f.names) /\ g.subdirs = Append(f.subdirs, t)
             /\ stack' = [stack EXCEPT ![w] = Append(Front(@), g)]
             /\ nodes' = [nodes EXCEPT ![w] = @ \cup {[dir |-> t.dir, id |-> t.id, parent |-> f.id]}]
<1> DEFINE f == Frame1(w)
           t == [dir |-> Head(f.names), id |-> NewId(w)]
           g == [f EXCEPT !.names = Tail(@), !.subdirs = Append(@, t)]
<1>1. /\ stack[w] \in Seq(Frame) /\ f \in Frame
      /\ f.names \in Seq(Dir) /\ f.subdirs \in Seq(Task) /\ f.names # <<>>
  BY TopIsFrame DEF Register, AtWork
<1>2. Head(f.names) \in Dir /\ Tail(f.names) \in Seq(Dir) /\ Head(f.names) \in ToSet(f.names)
  BY <1>1, HeadAndTail
<1>3. NewId(w) \in Nat
  BY DEF NewId, TypeOK
<1>4. t \in Task /\ t.dir = Head(f.names)
  BY <1>2, <1>3 DEF Task
<1>5. Append(f.subdirs, t) \in Seq(Task)
  BY <1>1, <1>4, AppendProperties
<1>6. /\ g \in Frame /\ g.dir = f.dir /\ g.id = f.id /\ g.names = Tail(f.names)
      /\ g.subdirs = Append(f.subdirs, t)
  <2> HIDE DEF f, t
  <2>1. f \in [dir : Dir, id : Nat, names : Seq(Dir), subdirs : Seq(Task)]
    BY <1>1 DEF Frame
  <2>2. QED BY <1>2, <1>5, <2>1 DEF Frame, f, t
<1>7. /\ stack' = [stack EXCEPT ![w] = Append(Front(stack[w]), g)]
      /\ nodes' = [nodes EXCEPT ![w] = @ \cup {[dir |-> t.dir, id |-> t.id, parent |-> f.id]}]
  BY DEF Register, SetFrame
<1>8. QED BY <1>2, <1>3, <1>4, <1>6, <1>7

LEMMA HandOutType ==
  ASSUME TypeOK, StageInv, NEW w \in Worker, HandOut(w)
  PROVE  \E n \in 0 .. Len(Frame1(w).subdirs) :
           LET f == Frame1(w)
               g == [f EXCEPT !.subdirs = SubSeq(@, 1, n)]
           IN  /\ g \in Frame /\ g.dir = f.dir /\ g.id = f.id /\ g.names = <<>>
               /\ g.subdirs = SubSeq(f.subdirs, 1, n) /\ f.names = <<>>
               /\ stack' = [stack EXCEPT ![w] = Append(Front(@), g)]
               /\ SubSeq(f.subdirs, n + 1, Len(f.subdirs)) \in Seq(Task)
               /\ tasks' = tasks \o SubSeq(f.subdirs, n + 1, Len(f.subdirs))
<1> DEFINE f == Frame1(w)
<1>1. f \in Frame /\ f.names = <<>> /\ f.subdirs \in Seq(Task) /\ Len(f.subdirs) \in Nat
  BY TopIsFrame, LenProperties DEF HandOut, AtWork
<1>2. PICK n \in Keeps(w) :
        /\ tasks' = tasks \o SubSeq(f.subdirs, n + 1, Len(f.subdirs))
        /\ SetFrame(w, [f EXCEPT !.subdirs = SubSeq(@, 1, n)])
  BY DEF HandOut
<1>3. n \in 0 .. Len(f.subdirs)
  <2>1. \A k \in Nat : k \div 2 \in 0 .. k /\ k \in 0 .. k /\ 0 \in 0 .. k
    OBVIOUS
  <2>2. n = 0 \/ n = Len(f.subdirs) \/ n = Len(f.subdirs) \div 2
    BY <1>2 DEF Keeps
  <2>3. QED BY <1>1, <2>1, <2>2
<1> DEFINE g == [f EXCEPT !.subdirs = SubSeq(@, 1, n)]
<1>4. SubSeq(f.subdirs, 1, n) \in Seq(Task) /\ SubSeq(f.subdirs, n + 1, Len(f.subdirs)) \in Seq(Task)
  BY <1>1, <1>3, CutInTwo
<1>5. /\ g \in Frame /\ g.dir = f.dir /\ g.id = f.id /\ g.names = f.names
      /\ g.subdirs = SubSeq(f.subdirs, 1, n)
  <2> HIDE DEF f
  <2>1. f \in [dir : Dir, id : Nat, names : Seq(Dir), subdirs : Seq(Task)]
    BY <1>1 DEF Frame
  <2>2. QED BY <1>4, <2>1 DEF Frame
<1>6. stack' = [stack EXCEPT ![w] = Append(Front(stack[w]), g)]
  BY <1>2 DEF SetFrame
<1>7. QED BY <1>1, <1>2, <1>3, <1>4, <1>5, <1>6

LEMMA DescendType ==
  ASSUME TypeOK, StageInv, NEW w \in Worker, Descend(w)
  PROVE  LET f == Frame1(w)
             t == Head(f.subdirs)
             g == [f EXCEPT !.subdirs = Tail(@)]
             rest == Append(Front(stack[w]), g)
         IN  /\ f.subdirs # <<>> /\ f.names = <<>>
             /\ t \in Task /\ t \in ToSet(f.subdirs)
             /\ g \in Frame /\ g.dir = f.dir /\ g.id = f.id /\ g.names = <<>> /\ g.subdirs = Tail(f.subdirs)
             /\ rest \in Seq(Frame)
             /\ \/ t.dir \notin Foreign /\ Enter(w, t, rest)
                \/ /\ t.dir \in Flaky \cup Foreign
                   /\ stack' = [stack EXCEPT ![w] = rest]
                   /\ UNCHANGED <<pc, filed>>
<1> DEFINE f == Frame1(w)
           t == Head(f.subdirs)
           g == [f EXCEPT !.subdirs = Tail(@)]
           rest == Append(Front(stack[w]), g)
<1>1. /\ f \in Frame /\ f.subdirs \in Seq(Task) /\ f.subdirs # <<>>
      /\ stack[w] \in Seq(Frame) /\ stack[w] # <<>>
  BY TopIsFrame DEF Descend, AtWork
<1>2. f.names = <<>>
  <2>1. f = stack[w][Len(stack[w])] /\ Len(stack[w]) \in DOMAIN stack[w] /\ pc[w] = "walk"
    BY <1>1, FrontLast, LenProperties, TopIsFrame DEF Descend, AtWork
  <2>2. QED BY <2>1 DEF StageInv
<1>3. t \in Task /\ t \in ToSet(f.subdirs) /\ Tail(f.subdirs) \in Seq(Task)
  BY <1>1, HeadAndTail
<1>4. /\ g \in Frame /\ g.dir = f.dir /\ g.id = f.id /\ g.names = f.names /\ g.subdirs = Tail(f.subdirs)
  <2> HIDE DEF f
  <2>1. f \in [dir : Dir, id : Nat, names : Seq(Dir), subdirs : Seq(Task)]
    BY <1>1 DEF Frame
  <2>2. QED BY <1>3, <2>1 DEF Frame
<1>5. rest \in Seq(Frame)
  BY <1>1, <1>4, OtherLast
<1>6. \/ t.dir \notin Foreign /\ Enter(w, t, rest)
      \/ /\ t.dir \in Flaky \cup Foreign
         /\ stack' = [stack EXCEPT ![w] = rest]
         /\ UNCHANGED <<pc, filed>>
  BY DEF Descend
<1>7. QED BY <1>1, <1>2, <1>3, <1>4, <1>5, <1>6

LEMMA AscendType ==
  ASSUME TypeOK, StageInv, NEW w \in Worker, Ascend(w)
  PROVE  /\ stack[w] \in Seq(Frame) /\ stack[w] # <<>> /\ Front(stack[w]) \in Seq(Frame)
         /\ Frame1(w).names = <<>> /\ Frame1(w).subdirs = <<>>
         /\ stack' = [stack EXCEPT ![w] = Front(@)]
<1>1. stack[w] \in Seq(Frame) /\ stack[w] # <<>> /\ Front(stack[w]) \in Seq(Frame)
  BY TopIsFrame DEF Ascend, AtWork
<1>2. Frame1(w) = stack[w][Len(stack[w])] /\ Len(stack[w]) \in DOMAIN stack[w]
  BY <1>1, FrontLast, LenProperties DEF Frame1
<1>3. Frame1(w).names = <<>>
  BY <1>2 DEF StageInv, Ascend
<1>4. QED BY <1>1, <1>3 DEF Ascend

\* A worker that stays where it is goes to where it is.
LEMMA GotoHere ==
  ASSUME TypeOK, NEW w \in Worker, UNCHANGED pc
  PROVE  Goto(w, pc[w])
BY DEF Goto, TypeOK

\* Only the topmost frame of a worker that numbers has names.
LEMMA StageMoved ==
  ASSUME TypeOK, StageInv, NEW w \in Worker, NEW label, NEW s,
         Goto(w, label), stack' = [stack EXCEPT ![w] = s],
         s = <<>> <=> label \notin AtWork,
         \A i \in DOMAIN s : s[i].names = <<>> \/ (i = Len(s) /\ label = "number")
  PROVE  StageInv'
<1>1. /\ pc' \in [Worker -> {pc[v] : v \in Worker} \cup {label}]
      /\ \A v \in Worker : /\ pc'[v] = (IF v = w THEN label ELSE pc[v])
                           /\ stack'[v] = (IF v = w THEN s ELSE stack[v])
  BY DEF Goto, TypeOK
<1>2. QED BY <1>1 DEF StageInv

\* A worker that has put a frame on others numbers.
LEMMA StageEnter ==
  ASSUME TypeOK, StageInv, NEW w \in Worker, NEW t \in Task, NEW below \in Seq(Frame),
         Enter(w, t, below), \A i \in DOMAIN below : below[i].names = <<>>
  PROVE  StageInv'
<1>1. PICK f \in Frame : stack' = [stack EXCEPT ![w] = Append(below, f)] /\ Goto(w, "number")
  BY EnterType
<1> DEFINE s == Append(below, f)
<1>2. /\ s \in Seq(Frame) /\ s # <<>> /\ Len(s) = Len(below) + 1
      /\ \A i \in DOMAIN below : s[i] = below[i]
      /\ \A i \in DOMAIN s : i \in DOMAIN below \/ i = Len(s)
  BY AppendedOne, AppendProperties
<1>3. \A i \in DOMAIN s : s[i].names = <<>> \/ i = Len(s)
  BY <1>2
<1> HIDE DEF s
<1>4. QED BY <1>1, <1>2, <1>3, StageMoved DEF s, AtWork

\* The frames below the topmost one have no names left.
LEMMA BelowTop ==
  ASSUME TypeOK, StageInv, NEW w \in Worker, pc[w] \in AtWork, NEW g \in Frame
  PROVE  LET s == Append(Front(stack[w]), g)
         IN  /\ s \in Seq(Frame) /\ s # <<>>
             /\ \A i \in DOMAIN s : s[i].names = <<>> \/ (i = Len(s) /\ s[i] = g)
             /\ \A i \in DOMAIN Front(stack[w]) : Front(stack[w])[i].names = <<>>
<1> DEFINE s == Append(Front(stack[w]), g)
<1>1. stack[w] \in Seq(Frame) /\ stack[w] # <<>>
  BY TopIsFrame
<1>2. /\ s \in Seq(Frame) /\ s # <<>> /\ Len(s) = Len(stack[w]) /\ DOMAIN s = 1 .. Len(stack[w])
      /\ s[Len(stack[w])] = g
      /\ \A i \in 1 .. Len(stack[w]) : i # Len(stack[w]) => s[i] = stack[w][i]
  BY <1>1, OtherLast
<1>3. DOMAIN stack[w] = 1 .. Len(stack[w])
  BY <1>1, LenProperties
<1>4. \A i \in DOMAIN stack[w] : i # Len(stack[w]) => stack[w][i].names = <<>>
  BY DEF StageInv
<1>5. \A i \in DOMAIN Front(stack[w]) : Front(stack[w])[i].names = <<>>
  <2>1. /\ Len(stack[w]) \in Nat \ {0}
        /\ DOMAIN Front(stack[w]) = 1 .. Len(stack[w]) - 1
        /\ \A i \in 1 .. Len(stack[w]) - 1 : Front(stack[w])[i] = stack[w][i]
    BY <1>1, FrontLast, LenProperties
  <2>2. \A i \in 1 .. Len(stack[w]) - 1 : i \in DOMAIN stack[w] /\ i # Len(stack[w])
    BY <2>1, <1>3
  <2>3. QED BY <2>1, <2>2, <1>4
<1> HIDE DEF s
<1>6. QED BY <1>2, <1>3, <1>4, <1>5 DEF s

\* Every step keeps the stages.
LEMMA StageStep ==
  ASSUME TypeOK, StageInv, NEW w \in Worker, Step(w)
  PROVE  StageInv'
<1>1. CASE TakeTask(w) \/ Leave(w) \/ Rest(w)
  <2>1. PICK label \in {"open", "exit", "wait"} : Goto(w, label)
    BY <1>1 DEF TakeTask, Leave, Rest
  <2>2. stack' = [stack EXCEPT ![w] = stack[w]]
    BY <1>1 DEF TakeTask, Leave, Rest, TypeOK
  <2>3. stack[w] = <<>> /\ label \notin AtWork
    BY <1>1 DEF TakeTask, Leave, Rest, StageInv, AtWork
  <2>4. \A i \in DOMAIN <<>> : <<>>[i].names = <<>>
    OBVIOUS
  <2>5. QED BY <2>1, <2>2, <2>3, <2>4, StageMoved
<1>2. CASE OpenTask(w)
  <2>1. stack[w] = <<>> /\ stack' = stack => stack' = [stack EXCEPT ![w] = stack[w]]
    BY DEF TypeOK
  <2>2. stack[w] = <<>>
    BY <1>2 DEF OpenTask, StageInv, AtWork
  <2>3. CASE Goto(w, "next") /\ UNCHANGED stack
    BY <2>1, <2>2, <2>3, StageMoved DEF AtWork
  <2>4. CASE Enter(w, task[w], <<>>)
    <3>1. task[w] \in Task /\ <<>> \in Seq(Frame)
      BY EmptySeq DEF TypeOK
    <3>2. \A i \in DOMAIN <<>> : <<>>[i].names = <<>>
      OBVIOUS
    <3>3. QED BY <2>4, <3>1, <3>2, StageEnter
  <2>5. QED BY <1>2, <2>3, <2>4 DEF OpenTask
<1>3. CASE Register(w)
  <2>1. pc[w] = "number" /\ pc' = pc
    BY <1>3 DEF Register
  <2>2. Goto(w, "number") /\ pc[w] \in AtWork
    BY <2>1, GotoHere DEF AtWork
  <2>3. PICK g \in Frame : stack' = [stack EXCEPT ![w] = Append(Front(stack[w]), g)]
    BY <1>3, RegisterType
  <2> DEFINE s == Append(Front(stack[w]), g)
  <2>4. s # <<>> /\ \A i \in DOMAIN s : s[i].names = <<>> \/ i = Len(s)
    BY <2>2, BelowTop
  <2> HIDE DEF s
  <2>5. QED BY <2>2, <2>3, <2>4, StageMoved DEF AtWork, s
<1>4. CASE HandOut(w)
  <2>1. Goto(w, "walk") /\ pc[w] \in AtWork
    BY <1>4 DEF HandOut, AtWork
  <2>2. PICK g \in Frame : g.names = <<>> /\ stack' = [stack EXCEPT ![w] = Append(Front(stack[w]), g)]
    BY <1>4, HandOutType
  <2> DEFINE s == Append(Front(stack[w]), g)
  <2>3. s # <<>> /\ \A i \in DOMAIN s : s[i].names = <<>>
    BY <2>1, <2>2, BelowTop
  <2> HIDE DEF s
  <2>4. QED BY <2>1, <2>2, <2>3, StageMoved DEF AtWork, s
<1>5. CASE Descend(w)
  <2> DEFINE g == [Frame1(w) EXCEPT !.subdirs = Tail(@)]
             t == Head(Frame1(w).subdirs)
             rest == Append(Front(stack[w]), g)
  <2>1. pc[w] \in AtWork /\ pc[w] = "walk"
    BY <1>5 DEF Descend, AtWork
  <2>2. /\ t \in Task /\ rest \in Seq(Frame) /\ g \in Frame /\ g.names = <<>>
        /\ Enter(w, t, rest) \/ (stack' = [stack EXCEPT ![w] = rest] /\ UNCHANGED pc)
    BY <1>5, DescendType
  <2>3. rest # <<>> /\ \A i \in DOMAIN rest : rest[i].names = <<>>
    BY <2>1, <2>2, BelowTop
  <2> HIDE DEF g, t, rest
  <2>4. CASE Enter(w, t, rest)
    BY <2>2, <2>3, <2>4, StageEnter
  <2>5. CASE stack' = [stack EXCEPT ![w] = rest] /\ UNCHANGED pc
    BY <2>1, <2>3, <2>5, GotoHere, StageMoved DEF AtWork
  <2>6. QED BY <2>2, <2>4, <2>5
<1>6. CASE Ascend(w)
  <2>1. /\ pc[w] \in AtWork /\ pc[w] = "walk"
        /\ IF Len(stack[w]) = 1 THEN Goto(w, "next") ELSE UNCHANGED pc
    BY <1>6 DEF Ascend, AtWork
  <2>2. /\ stack[w] \in Seq(Frame) /\ stack[w] # <<>> /\ Front(stack[w]) \in Seq(Frame)
        /\ stack' = [stack EXCEPT ![w] = Front(stack[w])]
    BY <1>6, AscendType
  <2>3. Len(Front(stack[w])) = Len(stack[w]) - 1 /\ Len(stack[w]) \in Nat \ {0}
    BY <2>2, FrontLast
  <2>4. Front(stack[w]) = <<>> <=> Len(stack[w]) = 1
    <3>1. Front(stack[w]) = <<>> <=> Len(Front(stack[w])) = 0
      BY <2>2, EmptySeq
    <3>2. QED BY <2>3, <3>1
  <2>5. \A i \in DOMAIN Front(stack[w]) : Front(stack[w])[i].names = <<>>
    <3>1. stack[w][Len(stack[w])] \in Frame
      BY <2>1, TopIsFrame
    <3>2. QED BY <2>1, <3>1, BelowTop
  <2>6. PICK label \in {"next", "walk"} : Goto(w, label) /\ (label = "next" <=> Len(stack[w]) = 1)
    BY <2>1, GotoHere
  <2>7. QED BY <2>2, <2>4, <2>5, <2>6, StageMoved DEF AtWork
<1>7. QED BY <1>1, <1>2, <1>3, <1>4, <1>5, <1>6 DEF Step

\* A step that counts right and does not end the scan too early.
LEMMA EndMoved ==
  ASSUME TypeOK, EndInv, NEW w \in Worker, NEW label, Goto(w, label),
         idle' = idle - Waiting(w) + (IF label = "wait" THEN 1 ELSE 0),
         label = "exit" => done', done => done',
         done' => /\ tasks' = <<>> /\ label \in {"wait", "exit"}
                  /\ \A v \in Worker \ {w} : pc[v] \in {"wait", "exit"}
  PROVE  EndInv' /\ idle' \in 0 .. Cardinality(Worker)
<1>1. Cardinality(Waiters') = idle'
  BY WaitersStep
<1>2. \A v \in Worker : pc'[v] = IF v = w THEN label ELSE pc[v]
  BY DEF Goto, TypeOK
<1>3. EndInv'
  BY <1>1, <1>2 DEF EndInv
<1>4. Waiters' \in SUBSET Worker
  BY DEF Waiters
<1>5. IsFiniteSet(Waiters') /\ Cardinality(Waiters') <= Cardinality(Worker)
  BY <1>4, ScanAssumption, FS_Subset
<1>6. Cardinality(Waiters') \in Nat /\ Cardinality(Worker) \in Nat
  BY <1>5, ScanAssumption, FS_CardinalityType
<1>7. QED BY <1>1, <1>3, <1>5, <1>6

\* Every step keeps the count right.
LEMMA EndStep ==
  ASSUME TypeOK, EndInv, NEW w \in Worker, Step(w)
  PROVE  EndInv' /\ idle' \in 0 .. Cardinality(Worker)
<1>1. idle \in Int /\ Waiting(w) \in Int /\ (pc[w] # "wait" => Waiting(w) = 0)
  BY WaitersCounted DEF EndInv, Waiting
<1>2. CASE TakeTask(w)
  <2>1. ~done /\ done' = done
    BY <1>2 DEF TakeTask, EndInv
  <2>2. Goto(w, "open") /\ idle' = idle - Waiting(w) + (IF "open" = "wait" THEN 1 ELSE 0)
    BY <1>1, <1>2 DEF TakeTask
  <2>3. QED BY <2>1, <2>2, EndMoved
<1>3. CASE Leave(w)
  <2>1. Goto(w, "exit") /\ idle' = idle - Waiting(w) /\ done /\ done' = done /\ tasks' = tasks
    BY <1>3 DEF Leave
  <2>2. tasks = <<>> /\ \A v \in Worker : pc[v] \in {"wait", "exit"}
    BY <2>1 DEF EndInv
  <2>3. QED BY <1>1, <2>1, <2>2, EndMoved
<1>4. CASE Rest(w)
  <2> DEFINE n == idle - Waiting(w) + 1
  <2>1. /\ tasks' = tasks /\ tasks = <<>> /\ ~done
        /\ IF AllIdle(n) THEN done' = TRUE /\ idle' = n - 1 /\ Goto(w, "exit")
                         ELSE done' = done /\ idle' = n /\ Goto(w, "wait")
    BY <1>4 DEF Rest
  <2>2. CASE AllIdle(n)
    <3>1. \A v \in Worker \ {w} : pc[v] \in {"wait", "exit"}
      BY <2>2, OthersWait
    <3>2. done' = TRUE /\ idle' = idle - Waiting(w) /\ Goto(w, "exit")
      BY <1>1, <2>1, <2>2
    <3>3. QED BY <1>1, <2>1, <3>1, <3>2, EndMoved
  <2>3. CASE ~AllIdle(n)
    <3>1. done' = FALSE /\ idle' = idle - Waiting(w) + 1 /\ Goto(w, "wait")
      BY <2>1, <2>3
    <3>2. QED BY <1>1, <2>1, <3>1, EndMoved
  <2>4. QED BY <2>2, <2>3
<1>5. CASE OpenTask(w) \/ Register(w) \/ HandOut(w) \/ Descend(w) \/ Ascend(w)
  <2>1. pc[w] \in {"open", "number", "walk"} /\ idle' = idle /\ done' = done
    BY <1>5 DEF OpenTask, Register, HandOut, Descend, Ascend
  <2>2. ~done
    BY <2>1 DEF EndInv
  <2>3. PICK label \in {"number", "walk", "next"} : Goto(w, label)
    <3>1. CASE OpenTask(w)
      BY <3>1 DEF OpenTask, Enter
    <3>2. CASE Register(w)
      BY <3>2, GotoHere DEF Register
    <3>3. CASE HandOut(w)
      BY <3>3 DEF HandOut
    <3>4. CASE Descend(w)
      BY <3>4, GotoHere DEF Descend, Enter
    <3>5. CASE Ascend(w)
      BY <3>5, GotoHere DEF Ascend
    <3>6. QED BY <1>5, <3>1, <3>2, <3>3, <3>4, <3>5
  <2>4. idle' = idle - Waiting(w) + (IF label = "wait" THEN 1 ELSE 0)
    BY <1>1, <2>1, <2>3
  <2>5. QED BY <2>1, <2>2, <2>3, <2>4, EndMoved
<1>6. QED BY <1>2, <1>3, <1>4, <1>5 DEF Step

\* Every step keeps the types.
LEMMA TypeStep ==
  ASSUME TypeOK, StageInv, EndInv, NEW w \in Worker, Step(w)
  PROVE  TypeOK'
<1>1. idle' \in 0 .. Cardinality(Worker)
  BY EndStep
<1>2. done' \in BOOLEAN /\ task' \in [Worker -> Task] /\ pc' \in [Worker -> {"next", "wait", "open", "number", "walk", "exit"}]
  <2>1. done' \in BOOLEAN
    BY DEF Step, TakeTask, Leave, Rest, OpenTask, Register, HandOut, Descend, Ascend, TypeOK
  <2>2. task' \in [Worker -> Task]
    <3>1. CASE TakeTask(w)
      <4>1. Last(tasks) \in Task
        BY <3>1, FrontLast DEF TakeTask, TypeOK
      <4>2. QED BY <3>1, <4>1 DEF TakeTask, TypeOK
    <3>2. CASE ~TakeTask(w)
      BY <3>2 DEF Step, Leave, Rest, OpenTask, Register, HandOut, Descend, Ascend, TypeOK
    <3>3. QED BY <3>1, <3>2
  <2>3. pc' \in [Worker -> {"next", "wait", "open", "number", "walk", "exit"}]
    BY DEF Step, TakeTask, Leave, Rest, OpenTask, Register, HandOut, Descend, Ascend, Enter, Goto, TypeOK
  <2>4. QED BY <2>1, <2>2, <2>3
<1>3. tasks' \in Seq(Task)
  <2>1. CASE TakeTask(w)
    BY <2>1, FrontLast DEF TakeTask, TypeOK
  <2>2. CASE HandOut(w)
    <3>1. PICK r \in Seq(Task) : tasks' = tasks \o r
      BY <2>2, HandOutType
    <3>2. QED BY <3>1, Joined DEF TypeOK
  <2>3. CASE ~TakeTask(w) /\ ~HandOut(w)
    BY <2>3 DEF Step, Leave, Rest, OpenTask, Register, Descend, Ascend, TypeOK
  <2>4. QED BY <2>1, <2>2, <2>3
<1>4. nextId' \in Nat \ {0} /\ ids' \in [Worker -> [cursor : Nat, end : Nat]]
  <2>1. CASE Register(w)
    <3>1. AllocId(w) /\ IdBatch \in Nat \ {0} /\ nextId \in Nat \ {0}
      BY <2>1, ScanAssumption DEF Register, TypeOK
    <3>2. ids \in [Worker -> [cursor : Nat, end : Nat]] /\ ids[w] \in [cursor : Nat, end : Nat]
      BY DEF TypeOK
    <3>3. CASE ids[w].cursor = ids[w].end
      <4>1. /\ nextId' = nextId + IdBatch
            /\ ids' = [ids EXCEPT ![w] = [cursor |-> nextId + 1, end |-> nextId + IdBatch]]
        BY <3>1, <3>3 DEF AllocId, BatchEnd
      <4>2. QED BY <3>1, <3>2, <4>1
    <3>4. CASE ids[w].cursor # ids[w].end
      <4>1. nextId' = nextId /\ ids' = [ids EXCEPT ![w].cursor = @ + 1]
        BY <3>1, <3>4 DEF AllocId
      <4>2. QED BY <3>1, <3>2, <4>1
    <3>5. QED BY <3>3, <3>4
  <2>2. CASE ~Register(w)
    BY <2>2 DEF Step, TakeTask, Leave, Rest, OpenTask, HandOut, Descend, Ascend, TypeOK
  <2>3. QED BY <2>1, <2>2
<1>5. nodes' \in [Worker -> SUBSET Node]
  <2>1. CASE Register(w)
    <3>1. Frame1(w) \in Frame
      BY <2>1, TopIsFrame DEF Register, AtWork
    <3>2. PICK t \in Task : nodes' = [nodes EXCEPT ![w] = @ \cup {[dir |-> t.dir, id |-> t.id, parent |-> Frame1(w).id]}]
      BY <2>1, RegisterType
    <3>3. [dir |-> t.dir, id |-> t.id, parent |-> Frame1(w).id] \in Node
      BY <3>1 DEF Frame, Task, Node
    <3>4. QED BY <3>2, <3>3 DEF TypeOK
  <2>2. CASE ~Register(w)
    BY <2>2 DEF Step, TakeTask, Leave, Rest, OpenTask, HandOut, Descend, Ascend, TypeOK
  <2>3. QED BY <2>1, <2>2
<1>6. stack' \in [Worker -> Seq(Frame)] /\ filed' \in [Worker -> Seq(Task)]
  <2>1. ASSUME NEW t \in Task, NEW below \in Seq(Frame), Enter(w, t, below)
        PROVE  stack' \in [Worker -> Seq(Frame)] /\ filed' \in [Worker -> Seq(Task)]
    <3>1. PICK f \in Frame : /\ stack' = [stack EXCEPT ![w] = Append(below, f)]
                             /\ filed' = [filed EXCEPT ![w] = Append(filed[w], t)]
      BY <2>1, EnterType
    <3>2. filed[w] \in Seq(Task)
      BY DEF TypeOK
    <3>3. Append(below, f) \in Seq(Frame) /\ Append(filed[w], t) \in Seq(Task)
      BY <3>2, AppendProperties
    <3>4. QED BY <3>1, <3>3 DEF TypeOK
  <2>2. CASE OpenTask(w)
    <3>1. task[w] \in Task /\ <<>> \in Seq(Frame)
      BY EmptySeq DEF TypeOK
    <3>2. Enter(w, task[w], <<>>) \/ UNCHANGED <<stack, filed>>
      BY <2>2 DEF OpenTask
    <3>3. QED BY <2>1, <3>1, <3>2 DEF TypeOK
  <2>3. CASE Register(w)
    <3>1. PICK g \in Frame : stack' = [stack EXCEPT ![w] = Append(Front(stack[w]), g)]
      BY <2>3, RegisterType
    <3>2. Append(Front(stack[w]), g) \in Seq(Frame)
      BY <2>3, BelowTop DEF Register, AtWork
    <3>3. QED BY <2>3, <3>1, <3>2 DEF TypeOK, Register
  <2>4. CASE HandOut(w)
    <3>1. PICK g \in Frame : stack' = [stack EXCEPT ![w] = Append(Front(stack[w]), g)]
      BY <2>4, HandOutType
    <3>2. Append(Front(stack[w]), g) \in Seq(Frame)
      BY <2>4, BelowTop DEF HandOut, AtWork
    <3>3. QED BY <2>4, <3>1, <3>2 DEF TypeOK, HandOut
  <2>5. CASE Descend(w)
    <3>1. PICK t \in Task, rest \in Seq(Frame) :
            Enter(w, t, rest) \/ (stack' = [stack EXCEPT ![w] = rest] /\ UNCHANGED filed)
      BY <2>5, DescendType
    <3>2. QED BY <2>1, <3>1 DEF TypeOK
  <2>6. CASE Ascend(w)
    BY <2>6, AscendType DEF TypeOK, Ascend
  <2>7. CASE TakeTask(w) \/ Leave(w) \/ Rest(w)
    BY <2>7 DEF TakeTask, Leave, Rest, TypeOK
  <2>8. QED BY <2>2, <2>3, <2>4, <2>5, <2>6, <2>7 DEF Step
<1>7. QED BY <1>1, <1>2, <1>3, <1>4, <1>5, <1>6 DEF TypeOK

\* The scan begins with its types, and with nobody at work.
LEMMA InitBase == Init => TypeOK /\ StageInv /\ EndInv
<1> SUFFICES ASSUME Init PROVE TypeOK /\ StageInv /\ EndInv
  OBVIOUS
<1>1. TopTask \in Task
  BY ScanAssumption DEF TopTask, Task
<1>2. tasks \in Seq(Task) /\ tasks # <<>>
  BY <1>1 DEF Init
<1>3. \A w \in Worker : pc[w] = "next" /\ stack[w] = <<>>
  BY DEF Init
<1>4. Waiters = {}
  BY <1>3 DEF Waiters
<1>5. idle = Cardinality(Waiters) /\ idle \in 0 .. Cardinality(Worker)
  BY <1>4, FS_EmptySet, WaitersCounted DEF Init
<1>6. TypeOK
  <2>1. /\ stack \in [Worker -> Seq(Frame)] /\ filed \in [Worker -> Seq(Task)]
        /\ task \in [Worker -> Task] /\ nodes \in [Worker -> SUBSET Node]
    BY <1>1, EmptySeq DEF Init
  <2>2. ids \in [Worker -> [cursor : Nat, end : Nat]]
    BY DEF Init
  <2>3. pc \in [Worker -> {"next", "wait", "open", "number", "walk", "exit"}]
    BY DEF Init
  <2>4. nextId \in Nat \ {0}
    BY DEF Init
  <2>5. done \in BOOLEAN
    BY DEF Init
  <2>6. QED BY <1>2, <1>5, <2>1, <2>2, <2>3, <2>4, <2>5 DEF TypeOK
<1>7. StageInv
  BY <1>3 DEF StageInv, AtWork
<1>8. EndInv
  BY <1>3, <1>5 DEF EndInv, Init
<1>9. QED BY <1>6, <1>7, <1>8

BaseInv == TypeOK /\ StageInv /\ EndInv

LEMMA BaseStep == BaseInv /\ [Next]_vars => BaseInv'
<1> SUFFICES ASSUME BaseInv, [Next]_vars PROVE BaseInv'
  OBVIOUS
<1>1. ASSUME NEW w \in Worker, Step(w) PROVE BaseInv'
  BY <1>1, StageStep, EndStep, TypeStep DEF BaseInv
<1>2. CASE UNCHANGED vars
  BY <1>2 DEF vars, BaseInv, TypeOK, StageInv, EndInv, Waiters
<1>3. QED BY <1>1, <1>2 DEF Next

\* Types are kept; above all, the count of idle workers, which three branches
\* of next_task change, is always the number of those that wait, so that the
\* unsigned number neither underflows nor passes the number of workers.
THEOREM TypeCorrect == Spec => []TypeOK
<1>1. Init => BaseInv
  BY InitBase DEF BaseInv
<1>2. BaseInv => TypeOK
  BY DEF BaseInv
<1>3. QED BY <1>1, <1>2, BaseStep, PTL DEF Spec

-----------------------------------------------------------------------------
(* Ids.                                                                    *)

\* Registering adds one node, and one directory to those that are known.
LEMMA NodesRegistered ==
  ASSUME TypeOK, NEW w \in Worker, NEW n, nodes' = [nodes EXCEPT ![w] = @ \cup {n}]
  PROVE  AllNodes' = AllNodes \cup {n} /\ Known' = Known \cup {TaskOf(n)}
<1>1. \A v \in Worker : nodes'[v] = IF v = w THEN nodes[v] \cup {n} ELSE nodes[v]
  BY DEF TypeOK
<1>2. AllNodes' = AllNodes \cup {n}
  BY <1>1 DEF AllNodes
<1>3. QED BY <1>2 DEF Known

\* An id that AllocId hands out is nobody's, and none that a worker has left.
LEMMA IdRegistered ==
  ASSUME TypeOK, IdInv, NEW w \in Worker, AllocId(w)
  PROVE  /\ NewId(w) > 0 /\ NewId(w) < nextId' /\ nextId <= nextId'
         /\ \A n \in AllNodes : n.id # NewId(w)
         /\ \A v \in Worker : /\ ids'[v].cursor <= ids'[v].end /\ ids'[v].end <= nextId'
                              /\ NewId(w) \notin Left(v)'
         /\ \A v \in Worker : \A i \in Left(v)' : i \in Left(v) \/ (v = w /\ nextId <= i)
<1>1. /\ nextId \in Nat \ {0} /\ IdBatch \in Nat \ {0}
      /\ ids \in [Worker -> [cursor : Nat, end : Nat]]
  BY ScanAssumption DEF TypeOK
<1>2. \A v \in Worker : ids[v].cursor \in Nat /\ ids[v].end \in Nat
  BY <1>1
<1>3. CASE ids[w].cursor = ids[w].end
  <2>1. /\ NewId(w) = nextId /\ nextId' = nextId + IdBatch
        /\ ids' = [ids EXCEPT ![w] = [cursor |-> nextId + 1, end |-> nextId + IdBatch]]
    BY <1>3 DEF AllocId, NewId, BatchEnd
  <2>2. /\ ids'[w].cursor = nextId + 1 /\ ids'[w].end = nextId + IdBatch
        /\ \A v \in Worker \ {w} : ids'[v] = ids[v]
    BY <1>1, <2>1
  <2>3. \A n \in AllNodes : n.id # nextId
    BY <1>1 DEF IdInv
  <2>4. \A v \in Worker : ids[v].cursor <= ids[v].end /\ ids[v].end <= nextId
    BY DEF IdInv
  <2>5. \A v \in Worker : ids'[v].cursor <= ids'[v].end /\ ids'[v].end <= nextId'
    BY <1>1, <1>2, <2>1, <2>2, <2>4
  <2>6. \A v \in Worker \ {w} : Left(v)' = Left(v) /\ nextId \notin Left(v)
    BY <1>1, <1>2, <2>2, <2>4 DEF Left
  <2>7. \A i \in Left(w)' : nextId <= i /\ i # nextId
    BY <1>1, <2>2 DEF Left
  <2>8. QED BY <1>1, <2>1, <2>3, <2>5, <2>6, <2>7
<1>4. CASE ids[w].cursor # ids[w].end
  <2> DEFINE c == ids[w].cursor
             e == ids[w].end
  <2>1. /\ NewId(w) = c /\ nextId' = nextId
        /\ ids' = [ids EXCEPT ![w].cursor = @ + 1]
    BY <1>4 DEF AllocId, NewId
  <2>2. /\ ids'[w].cursor = c + 1 /\ ids'[w].end = e
        /\ \A v \in Worker \ {w} : ids'[v] = ids[v]
    BY <1>1, <2>1
  <2>3. c \in Nat /\ e \in Nat /\ c < e /\ e <= nextId
    BY <1>2, <1>4 DEF IdInv
  <2>4. c \in Left(w)
    BY <2>3 DEF Left
  <2>5. c > 0 /\ (\A n \in AllNodes : n.id # c) /\ \A v \in Worker \ {w} : c \notin Left(v)
    BY <2>4 DEF IdInv
  <2>6. \A v \in Worker : ids'[v].cursor <= ids'[v].end /\ ids'[v].end <= nextId'
    <3>1. \A v \in Worker : ids[v].cursor <= ids[v].end /\ ids[v].end <= nextId
      BY DEF IdInv
    <3>2. QED BY <2>1, <2>2, <2>3, <3>1
  <2>7. \A v \in Worker \ {w} : Left(v)' = Left(v)
    BY <2>2 DEF Left
  <2>8. c \notin Left(w)' /\ \A i \in Left(w)' : i \in Left(w)
    BY <2>2, <2>3 DEF Left
  <2>9. QED BY <1>1, <2>1, <2>3, <2>5, <2>6, <2>7, <2>8
<1>5. QED BY <1>3, <1>4

\* Every step keeps the ids apart.
LEMMA IdStep ==
  ASSUME TypeOK, StageInv, IdInv, NEW w \in Worker, Step(w)
  PROVE  IdInv'
<1>1. CASE Register(w)
  <2>1. AllocId(w)
    BY <1>1 DEF Register
  <2>2. PICK n : n.id = NewId(w) /\ nodes' = [nodes EXCEPT ![w] = @ \cup {n}]
    <3> DEFINE f == Frame1(w)
               m == [dir |-> Head(f.names), id |-> NewId(w), parent |-> f.id]
    <3>1. nodes' = [nodes EXCEPT ![w] = @ \cup {m}]
      BY <1>1, RegisterType
    <3>2. m.id = NewId(w)
      OBVIOUS
    <3> HIDE DEF m
    <3>3. QED BY <3>1, <3>2
  <2>3. AllNodes' = AllNodes \cup {n}
    BY <2>2, NodesRegistered
  <2>4. /\ n.id > 0 /\ n.id < nextId' /\ nextId <= nextId'
        /\ \A m \in AllNodes : m.id # n.id
        /\ \A v \in Worker : ids'[v].cursor <= ids'[v].end /\ ids'[v].end <= nextId' /\ n.id \notin Left(v)'
        /\ \A v \in Worker : \A i \in Left(v)' : i \in Left(v) \/ (v = w /\ nextId <= i)
    BY <2>1, <2>2, IdRegistered
  <2>5. nextId \in Nat \ {0} /\ nextId' \in Nat /\ \A m \in AllNodes : m.id \in Nat
    <3>1. AllNodes \subseteq Node
      BY DEF AllNodes, TypeOK
    <3>2. nextId' \in Nat
      BY <2>1, ScanAssumption DEF AllocId, TypeOK
    <3>3. QED BY <3>1, <3>2 DEF TypeOK, Node
  <2>6. \A v \in Worker : \A i \in Left(v) : i < nextId /\ i > 0
    <3>1. \A v \in Worker : ids[v].cursor \in Nat /\ ids[v].end \in Nat /\ ids[v].end <= nextId
      BY DEF TypeOK, IdInv
    <3>2. QED BY <2>5, <3>1 DEF Left, IdInv
  <2>7. \A v \in Worker : \A i \in Left(v)' : /\ i > 0 /\ i \in Int
                                              /\ \A u \in Worker \ {v} : i \notin Left(u)'
                                              /\ \A m \in AllNodes' : m.id # i
    <3> SUFFICES ASSUME NEW v \in Worker, NEW i \in Left(v)'
                 PROVE  /\ i > 0 /\ i \in Int
                        /\ \A u \in Worker \ {v} : i \notin Left(u)'
                        /\ \A m \in AllNodes' : m.id # i
      OBVIOUS
    <3>1. i # n.id /\ i \in Int
      BY <2>4 DEF Left
    <3>2. CASE i \in Left(v)
      <4>1. /\ i > 0 /\ i < nextId
            /\ \A u \in Worker \ {v} : i \notin Left(u)
            /\ \A m \in AllNodes : m.id # i
        BY <3>2, <2>6 DEF IdInv
      <4>2. QED BY <4>1, <3>1, <2>3, <2>4, <2>5
    <3>3. CASE i \notin Left(v)
      <4>1. v = w /\ nextId <= i
        BY <3>3, <2>4
      <4>2. \A u \in Worker \ {v} : i \notin Left(u)'
        BY <4>1, <3>1, <2>4, <2>5, <2>6
      <4>3. \A m \in AllNodes : m.id # i
        BY <4>1, <3>1, <2>5 DEF IdInv
      <4>4. QED BY <4>1, <4>2, <4>3, <3>1, <2>3, <2>5
    <3>4. QED BY <3>2, <3>3
  <2>8. \A m \in AllNodes' : m.id > 0 /\ m.id < nextId'
    BY <2>3, <2>4, <2>5 DEF IdInv
  <2>9. \A m, k \in AllNodes' : m.id = k.id => m = k
    BY <2>3, <2>4 DEF IdInv
  <2>10. QED BY <2>4, <2>7, <2>8, <2>9 DEF IdInv
<1>2. CASE ~Register(w)
  <2>1. UNCHANGED <<ids, nextId, nodes>>
    BY <1>2 DEF Step, TakeTask, Leave, Rest, OpenTask, HandOut, Descend, Ascend
  <2>2. AllNodes' = AllNodes /\ \A v \in Worker : Left(v)' = Left(v)
    BY <2>1 DEF AllNodes, Left
  <2>3. QED BY <2>1, <2>2 DEF IdInv
<1>3. QED BY <1>1, <1>2

-----------------------------------------------------------------------------
(* What is handed on is known.                                             *)

\* Frames of known directories, on a stack to which another frame is given.
LEMMA FramesKnown ==
  ASSUME NEW s \in Seq(Frame), NEW g \in Frame, NEW known,
         \A i \in DOMAIN s : FrameKnown(s[i], known), FrameKnown(g, known)
  PROVE  /\ \A i \in DOMAIN Append(s, g) : FrameKnown(Append(s, g)[i], known)
         /\ s # <<>> => /\ FrameKnown(Last(s), known)
                        /\ \A i \in DOMAIN Front(s) : FrameKnown(Front(s)[i], known)
                        /\ \A i \in DOMAIN Append(Front(s), g) : FrameKnown(Append(Front(s), g)[i], known)
<1>1. ASSUME NEW r \in Seq(Frame), \A i \in DOMAIN r : FrameKnown(r[i], known)
      PROVE  \A i \in DOMAIN Append(r, g) : FrameKnown(Append(r, g)[i], known)
  <2> DEFINE a == Append(r, g)
  <2>1. \A i \in DOMAIN a : i \in DOMAIN r \/ i = Len(r) + 1
    BY AppendedOne
  <2>2. a[Len(r) + 1] = g /\ \A i \in DOMAIN r : a[i] = r[i]
    BY AppendedOne
  <2> HIDE DEF a
  <2>3. \A i \in DOMAIN a : FrameKnown(a[i], known)
    BY <1>1, <2>1, <2>2
  <2>4. QED BY <2>3 DEF a
<1>2. ASSUME s # <<>>
      PROVE  /\ FrameKnown(Last(s), known) /\ Front(s) \in Seq(Frame)
             /\ \A i \in DOMAIN Front(s) : FrameKnown(Front(s)[i], known)
  <2>1. Last(s) = s[Len(s)] /\ Len(s) \in DOMAIN s
    <3>1. Last(s) = s[Len(s)] /\ Len(s) \in Nat \ {0}
      BY <1>2, FrontLast
    <3>2. QED BY <3>1, LenProperties
  <2>2. /\ Front(s) \in Seq(Frame)
        /\ \A i \in DOMAIN Front(s) : i \in DOMAIN s /\ Front(s)[i] = s[i]
    BY <1>2, FrontLast, LenProperties
  <2>3. QED BY <2>1, <2>2
<1>3. QED BY <1>1, <1>2

\* The frames of a worker, when some directories become known and it changes
\* its own stack.
LEMMA KnownMoved ==
  ASSUME TypeOK, KnownInv, NEW w \in Worker, NEW s, stack' = [stack EXCEPT ![w] = s],
         NEW known, Known \subseteq known, \A i \in DOMAIN s : FrameKnown(s[i], known)
  PROVE  \A v \in Worker : \A i \in DOMAIN stack'[v] : FrameKnown(stack'[v][i], known)
<1>1. \A v \in Worker : stack'[v] = IF v = w THEN s ELSE stack[v]
  BY DEF TypeOK
<1>2. \A v \in Worker : \A i \in DOMAIN stack[v] : FrameKnown(stack[v][i], known)
  BY DEF KnownInv, FrameKnown
<1>3. QED BY <1>1, <1>2

\* What entering a known directory does.
LEMMA KnownEnter ==
  ASSUME TypeOK, KnownInv, NEW w \in Worker, NEW t \in Task, NEW below \in Seq(Frame),
         Enter(w, t, below), t \in Known, \A i \in DOMAIN below : FrameKnown(below[i], Known)
  PROVE  /\ \A v \in Worker : \A i \in DOMAIN stack'[v] : FrameKnown(stack'[v][i], Known)
         /\ \A v \in Worker : ToSet(filed'[v]) \subseteq Known
<1>1. PICK f \in Frame :
        /\ TaskOf(f) = t /\ f.subdirs = <<>>
        /\ ToSet(f.names) \subseteq ToSet(Subdirs[t.dir])
        /\ stack' = [stack EXCEPT ![w] = Append(below, f)]
        /\ filed' = [filed EXCEPT ![w] = Append(filed[w], t)]
  BY EnterType
<1>2. FrameKnown(f, Known)
  <2>1. f.dir = t.dir /\ ToSet(f.subdirs) = {}
    BY <1>1 DEF TaskOf, ToSet
  <2>2. QED BY <1>1, <2>1 DEF FrameKnown
<1>3. \A i \in DOMAIN Append(below, f) : FrameKnown(Append(below, f)[i], Known)
  BY <1>2, FramesKnown
<1>4. ToSet(Append(filed[w], t)) = ToSet(filed[w]) \cup {t}
  BY AppendedOne DEF TypeOK
<1>5. \A v \in Worker : ToSet(filed'[v]) \subseteq Known
  BY <1>1, <1>4 DEF KnownInv, TypeOK
<1>6. QED BY <1>1, <1>3, <1>5, KnownMoved

\* The topmost frame is of a known directory.
LEMMA TopKnown ==
  ASSUME TypeOK, StageInv, KnownInv, NEW w \in Worker, pc[w] \in AtWork
  PROVE  FrameKnown(Frame1(w), Known)
<1>1. stack[w] \in Seq(Frame) /\ stack[w] # <<>>
  BY TopIsFrame
<1>2. Frame1(w) = stack[w][Len(stack[w])] /\ Len(stack[w]) \in Nat \ {0}
  BY <1>1, FrontLast DEF Frame1
<1>3. Len(stack[w]) \in DOMAIN stack[w]
  BY <1>1, <1>2, LenProperties
<1>4. QED BY <1>2, <1>3 DEF KnownInv

\* So are all, when it is replaced by one that is.
LEMMA OtherTopKnown ==
  ASSUME TypeOK, StageInv, KnownInv, NEW w \in Worker, pc[w] \in AtWork, NEW g \in Frame,
         NEW known, Known \subseteq known, FrameKnown(g, known)
  PROVE  \A i \in DOMAIN Append(Front(stack[w]), g) : FrameKnown(Append(Front(stack[w]), g)[i], known)
<1>1. stack[w] \in Seq(Frame) /\ stack[w] # <<>>
  BY TopIsFrame
<1>2. \A i \in DOMAIN stack[w] : FrameKnown(stack[w][i], known)
  BY DEF KnownInv, FrameKnown
<1>3. QED BY <1>1, <1>2, FramesKnown

\* Every step hands on what is known.
LEMMA KnownStep ==
  ASSUME TypeOK, StageInv, KnownInv, NEW w \in Worker, Step(w)
  PROVE  KnownInv'
<1>1. CASE Register(w)
  <2> DEFINE f == Frame1(w)
             t == [dir |-> Head(f.names), id |-> NewId(w)]
             g == [f EXCEPT !.names = Tail(@), !.subdirs = Append(@, t)]
             n == [dir |-> t.dir, id |-> t.id, parent |-> f.id]
  <2>1. pc[w] \in AtWork /\ f.names # <<>> /\ UNCHANGED <<tasks, task, filed>>
    BY <1>1 DEF Register, AtWork
  <2>2. f \in Frame /\ f.names \in Seq(Dir) /\ f.subdirs \in Seq(Task)
    BY <2>1, TopIsFrame
  <2>3. FrameKnown(f, Known)
    BY <2>1, <2>2, TopKnown
  <2>4. /\ t \in Task /\ g \in Frame /\ t.dir \in ToSet(f.names)
        /\ g.dir = f.dir /\ g.id = f.id /\ g.names = Tail(f.names) /\ g.subdirs = Append(f.subdirs, t)
        /\ stack' = [stack EXCEPT ![w] = Append(Front(stack[w]), g)]
        /\ nodes' = [nodes EXCEPT ![w] = @ \cup {n}]
    BY <1>1, RegisterType
  <2>5. AllNodes' = AllNodes \cup {n} /\ Known' = Known \cup {TaskOf(n)}
    BY <2>4, NodesRegistered
  <2>6. TaskOf(n) = t /\ n.dir = t.dir /\ n.parent = f.id
    BY <2>4 DEF TaskOf, Task
  <2>7. ToSet(g.subdirs) = ToSet(f.subdirs) \cup {t} /\ ToSet(g.names) \subseteq ToSet(f.names)
    BY <2>1, <2>2, <2>4, AppendedOne, HeadAndTail
  <2>8. TaskOf(g) = TaskOf(f)
    BY <2>4 DEF TaskOf
  <2> HIDE DEF f, t, g, n
  <2>9. FrameKnown(g, Known')
    BY <2>3, <2>4, <2>5, <2>6, <2>7, <2>8 DEF FrameKnown
  <2>10. \A v \in Worker : \A i \in DOMAIN stack'[v] : FrameKnown(stack'[v][i], Known')
    <3> DEFINE s == Append(Front(stack[w]), g)
    <3>1. Known \subseteq Known'
      BY <2>5
    <3>2. \A i \in DOMAIN s : FrameKnown(s[i], Known')
      BY <2>1, <2>4, <2>9, <3>1, OtherTopKnown
    <3> HIDE DEF s
    <3>3. QED BY <2>4, <3>1, <3>2, KnownMoved DEF s
  <2>11. \E p \in Known' : p.id = n.parent /\ n.dir \in ToSet(Subdirs[p.dir])
    <3>1. TaskOf(f) \in Known' /\ TaskOf(f).id = f.id /\ TaskOf(f).dir = f.dir
      BY <2>3, <2>5 DEF FrameKnown, TaskOf
    <3>2. n.dir \in ToSet(Subdirs[f.dir])
      BY <2>3, <2>4, <2>6 DEF FrameKnown
    <3>3. QED BY <3>1, <3>2, <2>6
  <2>12. \A m \in AllNodes' : \E p \in Known' : p.id = m.parent /\ m.dir \in ToSet(Subdirs[p.dir])
    BY <2>5, <2>11 DEF KnownInv
  <2>13. QED BY <2>1, <2>5, <2>10, <2>12 DEF KnownInv
<1>2. CASE ~Register(w)
  <2>1. UNCHANGED nodes
    BY <1>2 DEF Step, TakeTask, Leave, Rest, OpenTask, HandOut, Descend, Ascend
  <2>2. AllNodes' = AllNodes /\ Known' = Known
    BY <2>1 DEF AllNodes, Known
  <2>3. ASSUME ToSet(tasks') \subseteq Known,
               \A v \in Worker : task'[v] \in Known,
               \A v \in Worker : ToSet(filed'[v]) \subseteq Known,
               \A v \in Worker : \A i \in DOMAIN stack'[v] : FrameKnown(stack'[v][i], Known)
        PROVE  KnownInv'
    BY <2>2, <2>3 DEF KnownInv
  <2>4. CASE TakeTask(w)
    <3>1. ToSet(tasks) = ToSet(Front(tasks)) \cup {Last(tasks)}
      BY <2>4, LastDir DEF TakeTask, TypeOK
    <3>2. \A v \in Worker : task'[v] \in Known
      BY <2>4, <3>1 DEF TakeTask, KnownInv, TypeOK
    <3>3. ToSet(tasks') \subseteq Known /\ filed' = filed /\ stack' = stack
      BY <2>4, <3>1 DEF TakeTask, KnownInv
    <3>4. QED BY <2>3, <3>2, <3>3 DEF KnownInv
  <2>5. CASE Leave(w) \/ Rest(w)
    <3>1. UNCHANGED <<tasks, task, filed, stack>>
      BY <2>5 DEF Leave, Rest
    <3>2. QED BY <2>3, <3>1 DEF KnownInv
  <2>6. CASE OpenTask(w)
    <3>1. UNCHANGED <<tasks, task>> /\ (Enter(w, task[w], <<>>) \/ UNCHANGED <<stack, filed>>)
      BY <2>6 DEF OpenTask
    <3>2. CASE UNCHANGED <<stack, filed>>
      BY <2>3, <3>1, <3>2 DEF KnownInv
    <3>3. CASE Enter(w, task[w], <<>>)
      <4>1. task[w] \in Task /\ <<>> \in Seq(Frame) /\ task[w] \in Known
        BY EmptySeq DEF TypeOK, KnownInv
      <4>2. \A i \in DOMAIN <<>> : FrameKnown(<<>>[i], Known)
        OBVIOUS
      <4>3. QED BY <2>3, <3>1, <3>3, <4>1, <4>2, KnownEnter DEF KnownInv
    <3>4. QED BY <3>1, <3>2, <3>3
  <2>7. CASE HandOut(w)
    <3> DEFINE f == Frame1(w)
    <3>1. PICK n \in 0 .. Len(f.subdirs) : \E g \in Frame :
            /\ g.dir = f.dir /\ g.id = f.id /\ g.names = <<>> /\ g.subdirs = SubSeq(f.subdirs, 1, n)
            /\ stack' = [stack EXCEPT ![w] = Append(Front(stack[w]), g)]
            /\ SubSeq(f.subdirs, n + 1, Len(f.subdirs)) \in Seq(Task)
            /\ tasks' = tasks \o SubSeq(f.subdirs, n + 1, Len(f.subdirs))
      BY <2>7, HandOutType
    <3>2. PICK g \in Frame :
            /\ g.dir = f.dir /\ g.id = f.id /\ g.names = <<>> /\ g.subdirs = SubSeq(f.subdirs, 1, n)
            /\ stack' = [stack EXCEPT ![w] = Append(Front(stack[w]), g)]
            /\ SubSeq(f.subdirs, n + 1, Len(f.subdirs)) \in Seq(Task)
            /\ tasks' = tasks \o SubSeq(f.subdirs, n + 1, Len(f.subdirs))
      BY <3>1
    <3>3. pc[w] \in AtWork /\ UNCHANGED <<task, filed>>
      BY <2>7 DEF HandOut, AtWork
    <3>4. f \in Frame /\ f.subdirs \in Seq(Task)
      BY <3>3, TopIsFrame
    <3>5. FrameKnown(f, Known)
      BY <3>3, <3>4, TopKnown
    <3> DEFINE r == SubSeq(f.subdirs, n + 1, Len(f.subdirs))
    <3>6. ToSet(f.subdirs) = ToSet(g.subdirs) \cup ToSet(r)
      BY <3>2, <3>4, CutInTwo
    <3>7. r \in Seq(Task) /\ tasks \in Seq(Task)
      BY <3>2 DEF TypeOK
    <3> HIDE DEF f, r
    <3>8. ToSet(tasks \o r) = ToSet(tasks) \cup ToSet(r)
      BY <3>7, Joined
    <3>9. FrameKnown(g, Known)
      <4>1. ToSet(g.names) = {} /\ TaskOf(g) = TaskOf(f)
        BY <3>2 DEF ToSet, TaskOf
      <4>2. QED BY <3>5, <3>6, <4>1 DEF FrameKnown
    <3>10. \A v \in Worker : \A i \in DOMAIN stack'[v] : FrameKnown(stack'[v][i], Known)
      BY <3>2, <3>3, <3>9, OtherTopKnown, KnownMoved
    <3>11. ToSet(tasks') \subseteq Known
      BY <3>2, <3>5, <3>6, <3>8 DEF FrameKnown, KnownInv, r
    <3>12. QED BY <2>3, <3>3, <3>10, <3>11 DEF KnownInv
  <2>8. CASE Descend(w)
    <3> DEFINE f == Frame1(w)
               t == Head(f.subdirs)
               g == [f EXCEPT !.subdirs = Tail(@)]
               rest == Append(Front(stack[w]), g)
    <3>1. /\ f.subdirs # <<>> /\ t \in Task /\ t \in ToSet(f.subdirs)
          /\ g \in Frame /\ g.dir = f.dir /\ g.id = f.id /\ g.names = <<>> /\ g.subdirs = Tail(f.subdirs)
          /\ rest \in Seq(Frame)
          /\ Enter(w, t, rest) \/ (stack' = [stack EXCEPT ![w] = rest] /\ UNCHANGED filed)
      BY <2>8, DescendType
    <3>2. pc[w] \in AtWork /\ UNCHANGED <<tasks, task>>
      BY <2>8 DEF Descend, AtWork
    <3>3. f \in Frame /\ f.subdirs \in Seq(Task)
      BY <3>2, TopIsFrame
    <3>4. FrameKnown(f, Known)
      BY <3>2, <3>3, TopKnown
    <3>5. ToSet(g.subdirs) \subseteq ToSet(f.subdirs) /\ ToSet(g.names) = {} /\ TaskOf(g) = TaskOf(f)
      BY <3>1, <3>3, HeadAndTail DEF ToSet, TaskOf
    <3> HIDE DEF f, t, g
    <3>6. FrameKnown(g, Known) /\ t \in Known
      BY <3>1, <3>4, <3>5 DEF FrameKnown
    <3>7. \A i \in DOMAIN rest : FrameKnown(rest[i], Known)
      BY <3>1, <3>2, <3>6, OtherTopKnown
    <3> HIDE DEF rest
    <3>8. \A v \in Worker : /\ \A i \in DOMAIN stack'[v] : FrameKnown(stack'[v][i], Known)
                            /\ ToSet(filed'[v]) \subseteq Known
      <4>1. CASE Enter(w, t, rest)
        BY <4>1, <3>1, <3>6, <3>7, KnownEnter
      <4>2. CASE stack' = [stack EXCEPT ![w] = rest] /\ UNCHANGED filed
        BY <4>2, <3>7, KnownMoved DEF KnownInv
      <4>3. QED BY <3>1, <4>1, <4>2
    <3>9. QED BY <2>3, <3>2, <3>8 DEF KnownInv
  <2>9. CASE Ascend(w)
    <3>1. stack[w] \in Seq(Frame) /\ stack[w] # <<>> /\ stack' = [stack EXCEPT ![w] = Front(stack[w])]
      BY <2>9, AscendType
    <3>2. UNCHANGED <<tasks, task, filed>>
      BY <2>9 DEF Ascend
    <3>3. \A i \in DOMAIN Front(stack[w]) : i \in DOMAIN stack[w] /\ Front(stack[w])[i] = stack[w][i]
      BY <3>1, FrontLast, LenProperties
    <3>4. \A i \in DOMAIN Front(stack[w]) : FrameKnown(Front(stack[w])[i], Known)
      BY <3>3 DEF KnownInv
    <3>5. QED BY <2>3, <3>1, <3>2, <3>4, KnownMoved DEF KnownInv
  <2>10. QED BY <1>2, <2>4, <2>5, <2>6, <2>7, <2>8, <2>9 DEF Step
<1>3. QED BY <1>1, <1>2

-----------------------------------------------------------------------------
(* The nodes form a tree.                                                  *)

\* What is found of the directories and their ids is right at the start.
LEMMA InitKnown == Init => IdInv /\ KnownInv
<1> SUFFICES ASSUME Init PROVE IdInv /\ KnownInv
  OBVIOUS
<1>1. AllNodes = {} /\ Known = {TopTask}
  BY DEF Init, AllNodes, Known
<1>2. \A w \in Worker : Left(w) = {} /\ ids[w].cursor = 0 /\ ids[w].end = 0
  BY DEF Init, Left
<1>3. \A w \in Worker : task[w] = TopTask /\ stack[w] = <<>> /\ filed[w] = <<>>
  BY DEF Init
<1>4. ToSet(tasks) = {TopTask} /\ ToSet(<<>>) = {}
  BY DEF Init, ToSet
<1>5. IdInv
  BY <1>1, <1>2 DEF IdInv, Init
<1>6. KnownInv
  BY <1>1, <1>3, <1>4 DEF KnownInv
<1>7. QED BY <1>5, <1>6

TreeInv == BaseInv /\ IdInv /\ KnownInv

LEMMA TreeStep == TreeInv /\ [Next]_vars => TreeInv'
<1> SUFFICES ASSUME TreeInv, [Next]_vars PROVE TreeInv'
  OBVIOUS
<1>1. BaseInv'
  BY BaseStep DEF TreeInv
<1>2. ASSUME NEW w \in Worker, Step(w) PROVE IdInv' /\ KnownInv'
  BY <1>2, IdStep, KnownStep DEF TreeInv, BaseInv
<1>3. CASE UNCHANGED vars
  <2>1. IdInv'
    BY <1>3 DEF vars, TreeInv, IdInv, Left, AllNodes
  <2>2. KnownInv'
    BY <1>3 DEF vars, TreeInv, KnownInv, Known, AllNodes
  <2>3. QED BY <2>1, <2>2, <1>1 DEF TreeInv
<1>4. QED BY <1>1, <1>2, <1>3 DEF Next, TreeInv

\* The workers' nodes can be merged by id: no two share an id, none takes the
\* root's, all are below the counter, each hangs under the directory that holds
\* it, and files are recorded under the id of their own directory.
THEOREM NodesFormTree == Spec => []ResultIsTree
<1>1. Init => TreeInv
  BY InitBase, InitKnown DEF TreeInv, BaseInv
<1>2. TreeInv => ResultIsTree
  <2> SUFFICES ASSUME TreeInv PROVE ResultIsTree
    OBVIOUS
  <2>1. AllNodes \subseteq Node /\ nextId \in Nat
    BY DEF TreeInv, BaseInv, TypeOK, AllNodes
  <2>2. \A m, n \in AllNodes : m.id = n.id => m = n
    BY DEF TreeInv, IdInv
  <2>3. \A n \in AllNodes : n.id \in 1 .. nextId - 1
    BY <2>1 DEF TreeInv, IdInv, Node
  <2>4. Known = {[dir |-> Top, id |-> 0]} \cup {[dir |-> m.dir, id |-> m.id] : m \in AllNodes}
    BY DEF Known, TopTask, TaskOf
  <2>5. \A n \in AllNodes : \E p \in Known : p.id = n.parent /\ n.dir \in ToSet(Subdirs[p.dir])
    BY DEF TreeInv, KnownInv
  <2>6. AllFiled \subseteq Known
    BY DEF TreeInv, KnownInv, AllFiled
  <2>7. \A t \in AllFiled : t = TopTask \/ \E n \in AllNodes : n.dir = t.dir /\ n.id = t.id
    BY <2>6 DEF Known, TaskOf
  <2>8. QED BY <2>2, <2>3, <2>4, <2>5, <2>7 DEF ResultIsTree
<1>3. QED BY <1>1, <1>2, TreeStep, PTL DEF Spec

-----------------------------------------------------------------------------
(* The scan implements Traversal.                                          *)

\* What is pending is in the queue or held by a worker.
LEMMA PendingParts ==
  /\ Pending = DirsOf(tasks) \cup UNION {Held(w) : w \in Worker}
  /\ Pending' = DirsOf(tasks') \cup UNION {Held(w)' : w \in Worker}
<1>1. ASSUME NEW d
      PROVE  d \in UNION {Held(w) : w \in Worker}
             <=> \/ d \in {task[w].dir : w \in {v \in Worker : pc[v] = "open"}}
                 \/ d \in UNION {ToSet(f.names) \cup {t.dir : t \in ToSet(f.subdirs)} :
                                   f \in UNION {ToSet(stack[w]) : w \in Worker}}
  BY DEF Held, StackDirs, FrameDirs, DirsOf, ToSet
<1>2. ASSUME NEW d
      PROVE  d \in UNION {Held(w)' : w \in Worker}
             <=> \/ d \in {task'[w].dir : w \in {v \in Worker : pc'[v] = "open"}}
                 \/ d \in UNION {ToSet(f.names) \cup {t.dir : t \in ToSet(f.subdirs)} :
                                   f \in UNION {ToSet(stack'[w]) : w \in Worker}}
  BY DEF Held, StackDirs, FrameDirs, DirsOf, ToSet
<1>3. QED BY <1>1, <1>2 DEF Pending, DirsOf

\* A worker holds its task, or what its frames have.
LEMMA HeldParts ==
  ASSUME TypeOK, StageInv, NEW w \in Worker
  PROVE  /\ pc[w] = "open" => Held(w) = {task[w].dir}
         /\ pc[w] \in AtWork => Held(w) = StackDirs(stack[w])
         /\ pc[w] \notin AtWork \cup {"open"} => Held(w) = {}
<1>1. StackDirs(<<>>) = {}
  BY DEF StackDirs
<1>2. pc[w] \notin AtWork => stack[w] = <<>>
  BY DEF StageInv
<1>3. QED BY <1>1, <1>2 DEF Held, AtWork

\* A worker changes the queue and what it holds itself: it takes some
\* directories off and adds others that nobody had.
LEMMA HeldMoved ==
  ASSUME TypeOK, HeldOnce, NEW w \in Worker, NEW taken, NEW found,
         \A v \in Worker \ {w} : stack'[v] = stack[v] /\ pc'[v] = pc[v] /\ task'[v] = task[v],
         Once(tasks'), OnceStack(stack'[w]), DirsOf(tasks') \cap Held(w)' = {},
         DirsOf(tasks') \cup Held(w)' = ((DirsOf(tasks) \cup Held(w)) \ taken) \cup found,
         taken \subseteq DirsOf(tasks) \cup Held(w), found \cap Pending = {}
  PROVE  HeldOnce' /\ Pending' = (Pending \ taken) \cup found
<1>1. \A v \in Worker \ {w} : Held(v)' = Held(v)
  BY DEF Held
<1>2. \A v \in Worker \ {w} : Held(v) \subseteq Pending
  BY PendingParts
<1>3. \A v \in Worker \ {w} : Held(v) \cap (DirsOf(tasks) \cup Held(w)) = {}
  BY DEF HeldOnce
<1>4. \A v \in Worker \ {w} : Held(v) \cap (DirsOf(tasks') \cup Held(w)') = {}
  BY <1>2, <1>3
<1>5. \A u \in Worker : /\ OnceStack(stack'[u])
                        /\ DirsOf(tasks') \cap Held(u)' = {}
                        /\ \A v \in Worker \ {u} : Held(v)' \cap Held(u)' = {}
  <2> SUFFICES ASSUME NEW u \in Worker
               PROVE  /\ OnceStack(stack'[u])
                      /\ DirsOf(tasks') \cap Held(u)' = {}
                      /\ \A v \in Worker \ {u} : Held(v)' \cap Held(u)' = {}
    OBVIOUS
  <2>1. CASE u = w
    BY <2>1, <1>1, <1>4
  <2>2. CASE u # w
    <3>1. OnceStack(stack'[u]) /\ DirsOf(tasks') \cap Held(u)' = {}
      BY <2>2, <1>1, <1>4 DEF HeldOnce
    <3>2. ASSUME NEW v \in Worker \ {u} PROVE Held(v)' \cap Held(u)' = {}
      <4>1. CASE v = w
        BY <4>1, <2>2, <1>1, <1>4
      <4>2. CASE v # w
        BY <4>2, <2>2, <1>1 DEF HeldOnce
      <4>3. QED BY <4>1, <4>2
    <3>3. QED BY <3>1, <3>2
  <2>3. QED BY <2>1, <2>2
<1>6. HeldOnce'
  BY <1>5 DEF HeldOnce
<1>7. Pending = DirsOf(tasks) \cup Held(w) \cup UNION {Held(v) : v \in Worker \ {w}}
  BY PendingParts
<1>8. Pending' = DirsOf(tasks') \cup Held(w)' \cup UNION {Held(v) : v \in Worker \ {w}}
  BY PendingParts, <1>1
<1>9. taken \cap UNION {Held(v) : v \in Worker \ {w}} = {}
  BY <1>3
<1>10. QED BY <1>6, <1>7, <1>8, <1>9

\* A worker moves directories between the queue and what it holds.
LEMMA HeldStays ==
  ASSUME TypeOK, HeldOnce, NEW w \in Worker,
         \A v \in Worker \ {w} : stack'[v] = stack[v] /\ pc'[v] = pc[v] /\ task'[v] = task[v],
         Once(tasks'), OnceStack(stack'[w]), DirsOf(tasks') \cap Held(w)' = {},
         DirsOf(tasks') \cup Held(w)' = DirsOf(tasks) \cup Held(w)
  PROVE  HeldOnce' /\ Pending' = Pending
<1> DEFINE none == {}
<1>1. none \subseteq DirsOf(tasks) \cup Held(w) /\ none \cap Pending = {}
  OBVIOUS
<1>2. DirsOf(tasks') \cup Held(w)' = ((DirsOf(tasks) \cup Held(w)) \ none) \cup none
  OBVIOUS
<1>3. (Pending \ none) \cup none = Pending
  OBVIOUS
<1> HIDE DEF none
<1>4. QED BY <1>1, <1>2, <1>3, HeldMoved

\* A worker takes a directory off, and adds nothing.
LEMMA HeldLess ==
  ASSUME TypeOK, HeldOnce, NEW w \in Worker, NEW d \in DirsOf(tasks) \cup Held(w),
         \A v \in Worker \ {w} : stack'[v] = stack[v] /\ pc'[v] = pc[v] /\ task'[v] = task[v],
         Once(tasks'), OnceStack(stack'[w]), DirsOf(tasks') \cap Held(w)' = {},
         DirsOf(tasks') \cup Held(w)' = (DirsOf(tasks) \cup Held(w)) \ {d}
  PROVE  HeldOnce' /\ Pending' = Pending \ {d}
<1> DEFINE none == {}
           some == {d}
<1>1. some \subseteq DirsOf(tasks) \cup Held(w) /\ none \cap Pending = {}
  OBVIOUS
<1>2. DirsOf(tasks') \cup Held(w)' = ((DirsOf(tasks) \cup Held(w)) \ some) \cup none
  OBVIOUS
<1>3. (Pending \ some) \cup none = Pending \ {d}
  OBVIOUS
<1> HIDE DEF none, some
<1>4. QED BY <1>1, <1>2, <1>3, HeldMoved

\* What is in a directory still to be listed has not been seen.
LEMMA NewDirs ==
  ASSUME FoundInv, NEW d \in Dir, d \in Pending, Pending \cup Listed \subseteq Dir
  PROVE  ToSet(Subdirs[d]) \cap (Pending \cup Listed) = {}
<1> SUFFICES ASSUME NEW c \in Pending \cup Listed, c \in ToSet(Subdirs[d]) PROVE FALSE
  OBVIOUS
<1>1. c # Top
  BY TreeAssumption
<1>2. PICK p \in Listed : c \in ToSet(Subdirs[p])
  BY <1>1 DEF FoundInv
<1>3. p = d
  BY <1>2, TreeAssumption
<1>4. QED BY <1>2, <1>3 DEF FoundInv

\* Entering a directory adds what was found in it, and lists it.
LEMMA HeldEnter ==
  ASSUME TypeOK, FoundInv, Pending \cup Listed \subseteq Dir,
         NEW w \in Worker, NEW t \in Task, NEW below \in Seq(Frame), Enter(w, t, below),
         t.dir \in Pending, OnceStack(below), StackDirs(below) \subseteq Pending
  PROVE  \E found \in SUBSET ToSet(Subdirs[t.dir]) :
           /\ found = ToSet(Subdirs[t.dir]) \/ t.dir \in Flaky
           /\ found \cap (Pending \cup Listed) = {}
           /\ OnceStack(stack'[w]) /\ Held(w)' = StackDirs(below) \cup found
           /\ Listed' = Listed \cup {t.dir}
           /\ \A v \in Worker \ {w} : stack'[v] = stack[v] /\ pc'[v] = pc[v]
<1>1. PICK f \in Frame :
        /\ TaskOf(f) = t /\ f.subdirs = <<>>
        /\ ToSet(f.names) \subseteq ToSet(Subdirs[t.dir]) /\ IsInjective(f.names)
        /\ ToSet(f.names) = ToSet(Subdirs[t.dir]) \/ t.dir \in Flaky
        /\ stack' = [stack EXCEPT ![w] = Append(below, f)]
        /\ filed' = [filed EXCEPT ![w] = Append(filed[w], t)]
        /\ Goto(w, "number")
  BY EnterType
<1> DEFINE found == ToSet(f.names)
<1>2. t.dir \in Dir
  BY DEF Task
<1>3. found \cap (Pending \cup Listed) = {}
  BY <1>1, <1>2, NewDirs
<1>4. DirsOf(<<>>) = {} /\ Once(<<>>)
  BY DEF DirsOf, ToSet, Once
<1>5. FrameDirs(f) = found /\ OnceFrame(f)
  BY <1>1, <1>4 DEF FrameDirs, OnceFrame
<1>6. stack'[w] = Append(below, f) /\ pc'[w] = "number"
  BY <1>1 DEF TypeOK, Goto
<1>7. OnceStack(Append(below, f)) /\ StackDirs(Append(below, f)) = StackDirs(below) \cup found
  BY <1>3, <1>5, NewTop
<1>8. Held(w)' = StackDirs(below) \cup found
  BY <1>6, <1>7 DEF Held
<1>9. Listed' = Listed \cup {t.dir}
  <2>1. ToSet(Append(filed[w], t)) = ToSet(filed[w]) \cup {t}
    BY AppendedOne DEF TypeOK
  <2>2. \A v \in Worker : ToSet(filed'[v]) = IF v = w THEN ToSet(filed[v]) \cup {t} ELSE ToSet(filed[v])
    BY <1>1, <2>1 DEF TypeOK
  <2>3. AllFiled' = AllFiled \cup {t}
    BY <2>2 DEF AllFiled
  <2>4. QED BY <2>3 DEF Listed
<1>10. \A v \in Worker \ {w} : stack'[v] = stack[v] /\ pc'[v] = pc[v]
  BY <1>1 DEF TypeOK, Goto
<1>11. QED BY <1>1, <1>3, <1>6, <1>7, <1>8, <1>9, <1>10

\* All that is pending or listed are directories.
LEMMA PendingType ==
  ASSUME TypeOK, StageInv
  PROVE  Pending \cup Listed \subseteq Dir
<1>1. DirsOf(tasks) \subseteq Dir
  <2>1. ToSet(tasks) \subseteq Task
    BY SetOfSeq DEF TypeOK
  <2>2. QED BY <2>1 DEF DirsOf, Task
<1>2. ASSUME NEW w \in Worker PROVE Held(w) \subseteq Dir
  <2>1. stack[w] \in Seq(Frame) /\ task[w] \in Task
    BY DEF TypeOK
  <2>2. ASSUME NEW f \in Frame PROVE FrameDirs(f) \subseteq Dir
    <3>1. f.names \in Seq(Dir) /\ f.subdirs \in Seq(Task)
      BY DEF Frame
    <3>2. ToSet(f.names) \subseteq Dir /\ ToSet(f.subdirs) \subseteq Task
      BY <3>1, SetOfSeq
    <3>3. QED BY <3>2 DEF FrameDirs, DirsOf, Task
  <2>3. \A i \in DOMAIN stack[w] : stack[w][i] \in Frame
    BY <2>1, LenProperties
  <2>4. StackDirs(stack[w]) \subseteq Dir
    BY <2>2, <2>3 DEF StackDirs
  <2>5. QED BY <2>1, <2>4 DEF Held, Task
<1>3. Listed \subseteq Dir
  <2>1. \A w \in Worker : ToSet(filed[w]) \subseteq Task
    BY SetOfSeq DEF TypeOK
  <2>2. QED BY <2>1 DEF Listed, AllFiled, Task
<1>4. QED BY <1>1, <1>2, <1>3, PendingParts

\* What a step is to Traversal.
Same      == Pending' = Pending /\ Listed' = Listed /\ done' = done
Lists(d)  == /\ ~done /\ done' = done /\ d \in Pending
             /\ \E found \in SUBSET ToSet(Subdirs[d]) :
                  /\ found = ToSet(Subdirs[d]) \/ d \in Flaky
                  /\ found \cap (Pending \cup Listed) = {}
                  /\ Pending' = (Pending \ {d}) \cup found
             /\ Listed' = Listed \cup {d}
Passes(d) == /\ ~done /\ done' = done /\ d \in Pending \cap (Flaky \cup Foreign)
             /\ Pending' = Pending \ {d} /\ Listed' = Listed
Ends      == /\ Pending = {} /\ ~done /\ done' = TRUE
             /\ Pending' = Pending /\ Listed' = Listed

\* A task that is taken moves from the queue to the worker.
LEMMA TakeHeld ==
  ASSUME TypeOK, StageInv, HeldOnce, NEW w \in Worker, TakeTask(w)
  PROVE  HeldOnce' /\ Same
<1>1. /\ pc[w] \in {"next", "wait"} /\ tasks # <<>> /\ tasks \in Seq(Task)
      /\ task' = [task EXCEPT ![w] = Last(tasks)] /\ tasks' = Front(tasks)
      /\ Goto(w, "open") /\ UNCHANGED <<stack, filed, done>>
  BY DEF TakeTask, TypeOK
<1>2. Held(w) = {} /\ stack[w] = <<>>
  BY <1>1, HeldParts DEF AtWork, StageInv
<1>3. /\ DirsOf(tasks) = DirsOf(tasks') \cup {Last(tasks).dir}
      /\ Once(tasks') /\ Last(tasks).dir \notin DirsOf(tasks')
  BY <1>1, LastDir DEF HeldOnce
<1>4. /\ task'[w] = Last(tasks) /\ pc'[w] = "open"
      /\ \A v \in Worker \ {w} : stack'[v] = stack[v] /\ pc'[v] = pc[v] /\ task'[v] = task[v]
  BY <1>1 DEF TypeOK, Goto
<1>5. Held(w)' = {Last(tasks).dir}
  BY <1>1, <1>2, <1>4 DEF Held, StackDirs
<1>6. OnceStack(stack'[w])
  BY <1>1 DEF HeldOnce
<1>7. /\ DirsOf(tasks') \cap Held(w)' = {}
      /\ DirsOf(tasks') \cup Held(w)' = DirsOf(tasks) \cup Held(w)
  BY <1>2, <1>3, <1>5
<1>8. HeldOnce' /\ Pending' = Pending
  BY <1>3, <1>4, <1>6, <1>7, HeldStays
<1>9. Listed' = Listed
  BY <1>1 DEF Listed, AllFiled
<1>10. QED BY <1>1, <1>8, <1>9 DEF Same

\* A worker that rests or leaves holds nothing; if it ends the scan, nobody does.
LEMMA RestHeld ==
  ASSUME TypeOK, StageInv, EndInv, HeldOnce, NEW w \in Worker, Leave(w) \/ Rest(w)
  PROVE  HeldOnce' /\ (Same \/ Ends)
<1>1. /\ pc[w] \in {"next", "wait"} /\ tasks = <<>> /\ UNCHANGED <<tasks, task, stack, filed>>
      /\ \E label \in {"exit", "wait"} : Goto(w, label)
  BY DEF Leave, Rest
<1>2. Held(w) = {} /\ stack[w] = <<>>
  BY <1>1, HeldParts DEF AtWork, StageInv
<1>3. pc'[w] # "open" /\ \A v \in Worker \ {w} : pc'[v] = pc[v]
  BY <1>1 DEF TypeOK, Goto
<1>4. Held(w)' = {}
  BY <1>1, <1>2, <1>3 DEF Held, StackDirs
<1>5. /\ DirsOf(tasks') \cap Held(w)' = {} /\ Once(tasks') /\ OnceStack(stack'[w])
      /\ DirsOf(tasks') \cup Held(w)' = DirsOf(tasks) \cup Held(w)
  BY <1>1, <1>2, <1>4 DEF HeldOnce
<1>6. \A v \in Worker \ {w} : stack'[v] = stack[v] /\ pc'[v] = pc[v] /\ task'[v] = task[v]
  BY <1>1, <1>3
<1>7. HeldOnce' /\ Pending' = Pending
  BY <1>5, <1>6, HeldStays
<1>8. Listed' = Listed
  BY <1>1 DEF Listed, AllFiled
<1>9. CASE done' = done
  BY <1>7, <1>8, <1>9 DEF Same
<1>10. CASE done' # done
  <2>1. ~done /\ done' = TRUE /\ AllIdle(idle - Waiting(w) + 1)
    BY <1>10 DEF Leave, Rest
  <2>2. \A v \in Worker \ {w} : pc[v] = "wait"
    BY <2>1, OthersWait
  <2>3. \A v \in Worker : Held(v) = {}
    BY <1>2, <2>2, HeldParts DEF AtWork
  <2>4. DirsOf(tasks) = {}
    BY <1>1 DEF DirsOf, ToSet
  <2>5. Pending = {}
    BY <2>3, <2>4, PendingParts
  <2>6. QED BY <1>7, <1>8, <2>1, <2>5 DEF Ends
<1>11. QED BY <1>9, <1>10

\* A task is listed, or passed over.
LEMMA OpenHeld ==
  ASSUME TypeOK, StageInv, EndInv, HeldOnce, FoundInv, NEW w \in Worker, OpenTask(w)
  PROVE  HeldOnce' /\ \E d \in Dir : Lists(d) \/ Passes(d)
<1> DEFINE t == task[w]
<1>1. /\ pc[w] = "open" /\ UNCHANGED <<tasks, task, done>>
      /\ \/ Enter(w, t, <<>>)
         \/ t.dir \in Flaky /\ Goto(w, "next") /\ UNCHANGED <<stack, filed>>
  BY DEF OpenTask
<1>2. t \in Task /\ t.dir \in Dir /\ stack[w] = <<>>
  BY <1>1 DEF TypeOK, Task, StageInv, AtWork
<1>3. Held(w) = {t.dir} /\ DirsOf(tasks) \cap {t.dir} = {} /\ Once(tasks)
  BY <1>1, HeldParts DEF HeldOnce
<1>4. t.dir \in Pending /\ ~done
  BY <1>1, <1>3, PendingParts DEF EndInv
<1>5. StackDirs(<<>>) = {} /\ OnceStack(<<>>) /\ <<>> \in Seq(Frame)
  BY EmptySeq DEF StackDirs, OnceStack
<1>6. CASE Enter(w, t, <<>>)
  <2>1. PICK found \in SUBSET ToSet(Subdirs[t.dir]) :
          /\ found = ToSet(Subdirs[t.dir]) \/ t.dir \in Flaky
          /\ found \cap (Pending \cup Listed) = {}
          /\ OnceStack(stack'[w]) /\ Held(w)' = StackDirs(<<>>) \cup found
          /\ Listed' = Listed \cup {t.dir}
          /\ \A v \in Worker \ {w} : stack'[v] = stack[v] /\ pc'[v] = pc[v]
    BY <1>2, <1>4, <1>5, <1>6, HeldEnter, PendingType
  <2>2. /\ DirsOf(tasks') \cap Held(w)' = {} /\ Once(tasks')
        /\ DirsOf(tasks') \cup Held(w)' = ((DirsOf(tasks) \cup Held(w)) \ {t.dir}) \cup found
    BY <1>1, <1>3, <1>5, <2>1, PendingParts
  <2>3. \A v \in Worker \ {w} : stack'[v] = stack[v] /\ pc'[v] = pc[v] /\ task'[v] = task[v]
    BY <1>1, <2>1
  <2>4. HeldOnce' /\ Pending' = (Pending \ {t.dir}) \cup found
    <3> DEFINE some == {t.dir}
    <3>1. some \subseteq DirsOf(tasks) \cup Held(w) /\ found \cap Pending = {}
      BY <1>3, <2>1
    <3>2. DirsOf(tasks') \cup Held(w)' = ((DirsOf(tasks) \cup Held(w)) \ some) \cup found
      BY <2>2
    <3> HIDE DEF some
    <3>3. HeldOnce' /\ Pending' = (Pending \ some) \cup found
      BY <2>1, <2>2, <2>3, <3>1, <3>2, HeldMoved
    <3>4. QED BY <3>3 DEF some
  <2>5. Lists(t.dir)
    BY <1>1, <1>4, <2>1, <2>4 DEF Lists
  <2>6. QED BY <1>2, <2>4, <2>5
<1>7. CASE t.dir \in Flaky /\ Goto(w, "next") /\ UNCHANGED <<stack, filed>>
  <2>1. pc'[w] = "next" /\ \A v \in Worker \ {w} : stack'[v] = stack[v] /\ pc'[v] = pc[v] /\ task'[v] = task[v]
    BY <1>1, <1>7 DEF TypeOK, Goto
  <2>2. Held(w)' = {}
    BY <1>2, <1>5, <1>7, <2>1 DEF Held
  <2>3. /\ DirsOf(tasks') \cap Held(w)' = {} /\ Once(tasks') /\ OnceStack(stack'[w])
        /\ DirsOf(tasks') \cup Held(w)' = (DirsOf(tasks) \cup Held(w)) \ {t.dir}
    BY <1>1, <1>2, <1>3, <1>5, <1>7, <2>2
  <2>4. HeldOnce' /\ Pending' = Pending \ {t.dir}
    BY <1>3, <2>1, <2>3, HeldLess
  <2>5. Listed' = Listed
    BY <1>7 DEF Listed, AllFiled
  <2>6. Passes(t.dir)
    BY <1>1, <1>4, <1>7, <2>4, <2>5 DEF Passes
  <2>7. QED BY <1>2, <2>4, <2>6
<1>8. QED BY <1>1, <1>6, <1>7

\* The topmost frame is replaced by one that has less.
LEMMA OtherTopDirs ==
  ASSUME NEW s \in Seq(Frame), s # <<>>, OnceStack(s),
         NEW g \in Frame, OnceFrame(g), FrameDirs(g) \subseteq FrameDirs(Last(s))
  PROVE  /\ OnceStack(Append(Front(s), g))
         /\ StackDirs(Append(Front(s), g)) = (StackDirs(s) \ FrameDirs(Last(s))) \cup FrameDirs(g)
         /\ FrameDirs(Last(s)) \subseteq StackDirs(s) /\ OnceFrame(Last(s))
<1>1. /\ StackDirs(s) = StackDirs(Front(s)) \cup FrameDirs(Last(s))
      /\ OnceStack(Front(s)) /\ OnceFrame(Last(s))
      /\ StackDirs(Front(s)) \cap FrameDirs(Last(s)) = {}
  BY TopFrame
<1>2. Front(s) \in Seq(Frame)
  BY FrontLast
<1>3. StackDirs(Front(s)) \cap FrameDirs(g) = {}
  BY <1>1
<1>4. /\ OnceStack(Append(Front(s), g))
      /\ StackDirs(Append(Front(s), g)) = StackDirs(Front(s)) \cup FrameDirs(g)
  BY <1>1, <1>2, <1>3, NewTop
<1>5. QED BY <1>1, <1>4

\* What a worker inside directories holds, nobody else and not the queue has.
LEMMA TopHeld ==
  ASSUME TypeOK, StageInv, HeldOnce, NEW w \in Worker, pc[w] \in AtWork
  PROVE  /\ Held(w) = StackDirs(stack[w]) /\ OnceStack(stack[w])
         /\ FrameDirs(Frame1(w)) \subseteq Held(w) /\ OnceFrame(Frame1(w))
         /\ DirsOf(tasks) \cap Held(w) = {} /\ Once(tasks) /\ Held(w) \subseteq Pending
<1>1. stack[w] \in Seq(Frame) /\ stack[w] # <<>> /\ OnceStack(stack[w])
  BY TopIsFrame DEF HeldOnce
<1>2. StackDirs(stack[w]) = StackDirs(Front(stack[w])) \cup FrameDirs(Frame1(w)) /\ OnceFrame(Frame1(w))
  BY <1>1, TopFrame DEF Frame1
<1>3. Held(w) = StackDirs(stack[w])
  BY HeldParts
<1>4. QED BY <1>1, <1>2, <1>3, PendingParts DEF HeldOnce

\* A directory that gets its id stays where it is.
LEMMA RegisterHeld ==
  ASSUME TypeOK, StageInv, HeldOnce, NEW w \in Worker, Register(w)
  PROVE  HeldOnce' /\ Same
<1> DEFINE f == Frame1(w)
           t == [dir |-> Head(f.names), id |-> NewId(w)]
           g == [f EXCEPT !.names = Tail(@), !.subdirs = Append(@, t)]
<1>1. /\ pc[w] = "number" /\ pc[w] \in AtWork /\ f.names # <<>>
      /\ UNCHANGED <<tasks, task, pc, done, filed>>
  BY DEF Register, AtWork
<1>2. /\ stack[w] \in Seq(Frame) /\ stack[w] # <<>> /\ Frame1(w) = Last(stack[w])
      /\ f.names \in Seq(Dir) /\ f.subdirs \in Seq(Task)
  BY <1>1, TopIsFrame DEF Frame1
<1>3. /\ t \in Task /\ g \in Frame /\ t.dir = Head(f.names)
      /\ g.names = Tail(f.names) /\ g.subdirs = Append(f.subdirs, t)
      /\ stack' = [stack EXCEPT ![w] = Append(Front(stack[w]), g)]
  BY RegisterType
<1>4. /\ OnceStack(stack[w]) /\ Held(w) = StackDirs(stack[w]) /\ OnceFrame(f)
      /\ FrameDirs(f) \subseteq Held(w)
      /\ DirsOf(tasks) \cap Held(w) = {} /\ Once(tasks)
  BY <1>1, TopHeld
<1>5. ToSet(f.names) = {t.dir} \cup ToSet(g.names) /\ IsInjective(g.names) /\ t.dir \notin ToSet(g.names)
  BY <1>1, <1>2, <1>3, <1>4, HeadAndTail, FirstName DEF OnceFrame
<1>6. DirsOf(g.subdirs) = DirsOf(f.subdirs) \cup {t.dir}
  BY <1>2, <1>3, OneMoreDir
<1>7. Once(f.subdirs) /\ t.dir \notin DirsOf(f.subdirs) /\ ToSet(f.names) \cap DirsOf(f.subdirs) = {}
  BY <1>4, <1>5 DEF OnceFrame
<1>8. Once(g.subdirs)
  BY <1>2, <1>3, <1>7, OneMoreDir
<1> HIDE DEF t, g
<1>9. FrameDirs(g) = FrameDirs(f) /\ OnceFrame(g)
  BY <1>5, <1>6, <1>7, <1>8 DEF FrameDirs, OnceFrame
<1>10. /\ OnceStack(Append(Front(stack[w]), g))
       /\ StackDirs(Append(Front(stack[w]), g)) = (Held(w) \ FrameDirs(f)) \cup FrameDirs(g)
  BY <1>2, <1>3, <1>4, <1>9, OtherTopDirs
<1>11. stack'[w] = Append(Front(stack[w]), g) /\ \A v \in Worker \ {w} : stack'[v] = stack[v]
  BY <1>3 DEF TypeOK
<1>12. Held(w)' = Held(w)
  BY <1>1, <1>4, <1>9, <1>10, <1>11 DEF Held
<1>13. HeldOnce' /\ Pending' = Pending
  BY <1>1, <1>4, <1>10, <1>11, <1>12, HeldStays
<1>14. Listed' = Listed
  BY <1>1 DEF Listed, AllFiled
<1>15. QED BY <1>1, <1>13, <1>14 DEF Same

\* What is handed out moves from the worker to the queue.
LEMMA HandOutHeld ==
  ASSUME TypeOK, StageInv, HeldOnce, NEW w \in Worker, HandOut(w)
  PROVE  HeldOnce' /\ Same
<1> DEFINE f == Frame1(w)
<1>1. pc[w] \in AtWork /\ Goto(w, "walk") /\ UNCHANGED <<task, done, filed>>
  BY DEF HandOut, AtWork
<1>2. PICK n \in 0 .. Len(f.subdirs), g \in Frame :
        /\ g.names = <<>> /\ g.subdirs = SubSeq(f.subdirs, 1, n) /\ f.names = <<>>
        /\ stack' = [stack EXCEPT ![w] = Append(Front(stack[w]), g)]
        /\ SubSeq(f.subdirs, n + 1, Len(f.subdirs)) \in Seq(Task)
        /\ tasks' = tasks \o SubSeq(f.subdirs, n + 1, Len(f.subdirs))
  BY HandOutType
<1> DEFINE r == SubSeq(f.subdirs, n + 1, Len(f.subdirs))
<1>3. /\ stack[w] \in Seq(Frame) /\ stack[w] # <<>> /\ Frame1(w) = Last(stack[w])
      /\ f.subdirs \in Seq(Task) /\ tasks \in Seq(Task) /\ r \in Seq(Task)
  BY <1>1, <1>2, TopIsFrame DEF Frame1, TypeOK
<1>4. /\ OnceStack(stack[w]) /\ Held(w) = StackDirs(stack[w]) /\ OnceFrame(f)
      /\ FrameDirs(f) \subseteq Held(w)
      /\ DirsOf(tasks) \cap Held(w) = {} /\ Once(tasks)
  BY <1>1, TopHeld
<1>5. Once(f.subdirs)
  BY <1>4 DEF OnceFrame
<1>6. /\ DirsOf(f.subdirs) = DirsOf(g.subdirs) \cup DirsOf(r)
      /\ Once(g.subdirs) /\ Once(r) /\ DirsOf(g.subdirs) \cap DirsOf(r) = {}
  BY <1>2, <1>3, <1>5, CutDirs
<1>7. tasks' = tasks \o r
  BY <1>2
<1> HIDE DEF r
<1>8. ToSet(<<>>) = {} /\ IsInjective(<<>>)
  BY DEF ToSet, IsInjective
<1>9. FrameDirs(g) = DirsOf(g.subdirs) /\ FrameDirs(f) = DirsOf(f.subdirs) /\ OnceFrame(g)
  BY <1>2, <1>6, <1>8 DEF FrameDirs, OnceFrame
<1>10. /\ OnceStack(Append(Front(stack[w]), g))
       /\ StackDirs(Append(Front(stack[w]), g)) = (Held(w) \ FrameDirs(f)) \cup FrameDirs(g)
  BY <1>3, <1>4, <1>6, <1>9, OtherTopDirs
<1>11. DirsOf(tasks') = DirsOf(tasks) \cup DirsOf(r) /\ Once(tasks')
  <2>1. DirsOf(tasks) \cap DirsOf(r) = {}
    BY <1>4, <1>6, <1>9
  <2>2. QED BY <1>3, <1>4, <1>6, <1>7, <2>1, JoinedDirs
<1>12. /\ stack'[w] = Append(Front(stack[w]), g) /\ pc'[w] = "walk"
       /\ \A v \in Worker \ {w} : stack'[v] = stack[v] /\ pc'[v] = pc[v] /\ task'[v] = task[v]
  BY <1>1, <1>2 DEF TypeOK, Goto
<1>13. Held(w)' = (Held(w) \ FrameDirs(f)) \cup FrameDirs(g)
  BY <1>10, <1>12 DEF Held
<1>14. /\ DirsOf(tasks') \cap Held(w)' = {}
       /\ DirsOf(tasks') \cup Held(w)' = DirsOf(tasks) \cup Held(w)
  BY <1>4, <1>6, <1>9, <1>11, <1>13
<1>15. HeldOnce' /\ Pending' = Pending
  BY <1>10, <1>11, <1>12, <1>14, HeldStays
<1>16. Listed' = Listed
  BY <1>1 DEF Listed, AllFiled
<1>17. QED BY <1>1, <1>15, <1>16 DEF Same

\* A child is listed, or passed over.
LEMMA DescendHeld ==
  ASSUME TypeOK, StageInv, EndInv, HeldOnce, FoundInv, NEW w \in Worker, Descend(w)
  PROVE  HeldOnce' /\ \E d \in Dir : Lists(d) \/ Passes(d)
<1> DEFINE f == Frame1(w)
           t == Head(f.subdirs)
           g == [f EXCEPT !.subdirs = Tail(@)]
           rest == Append(Front(stack[w]), g)
<1>1. pc[w] \in AtWork /\ pc[w] = "walk" /\ UNCHANGED <<tasks, task, done>>
  BY DEF Descend, AtWork
<1>2. /\ f.subdirs # <<>> /\ f.names = <<>> /\ t \in Task
      /\ g \in Frame /\ g.names = <<>> /\ g.subdirs = Tail(f.subdirs)
      /\ rest \in Seq(Frame)
      /\ \/ Enter(w, t, rest)
         \/ t.dir \in Flaky \cup Foreign /\ stack' = [stack EXCEPT ![w] = rest] /\ UNCHANGED <<pc, filed>>
  BY DescendType
<1>3. /\ stack[w] \in Seq(Frame) /\ stack[w] # <<>> /\ Frame1(w) = Last(stack[w])
      /\ f.subdirs \in Seq(Task)
  BY <1>1, TopIsFrame DEF Frame1
<1>4. /\ OnceStack(stack[w]) /\ Held(w) = StackDirs(stack[w]) /\ OnceFrame(f)
      /\ FrameDirs(f) \subseteq Held(w) /\ Held(w) \subseteq Pending
      /\ DirsOf(tasks) \cap Held(w) = {} /\ Once(tasks)
  BY <1>1, TopHeld
<1>5. Once(f.subdirs)
  BY <1>4 DEF OnceFrame
<1>6. /\ DirsOf(f.subdirs) = {t.dir} \cup DirsOf(g.subdirs)
      /\ Once(g.subdirs) /\ t.dir \notin DirsOf(g.subdirs)
  BY <1>2, <1>3, <1>5, FirstDir
<1>7. ToSet(<<>>) = {} /\ IsInjective(<<>>)
  BY DEF ToSet, IsInjective
<1> HIDE DEF f, t, g
<1>8. FrameDirs(g) = DirsOf(g.subdirs) /\ FrameDirs(f) = DirsOf(f.subdirs) /\ OnceFrame(g)
  BY <1>2, <1>6, <1>7 DEF FrameDirs, OnceFrame
<1>9. /\ OnceStack(rest) /\ StackDirs(rest) = (Held(w) \ FrameDirs(f)) \cup FrameDirs(g)
  BY <1>2, <1>3, <1>4, <1>6, <1>8, OtherTopDirs DEF f
<1> HIDE DEF rest
<1>10. StackDirs(rest) = Held(w) \ {t.dir} /\ t.dir \in Held(w)
  BY <1>4, <1>6, <1>8, <1>9
<1>11. t.dir \in Pending /\ ~done /\ t.dir \in Dir
  BY <1>1, <1>2, <1>4, <1>10 DEF EndInv, Task
<1>12. CASE Enter(w, t, rest)
  <2>1. StackDirs(rest) \subseteq Pending
    BY <1>4, <1>10
  <2>2. PICK found \in SUBSET ToSet(Subdirs[t.dir]) :
          /\ found = ToSet(Subdirs[t.dir]) \/ t.dir \in Flaky
          /\ found \cap (Pending \cup Listed) = {}
          /\ OnceStack(stack'[w]) /\ Held(w)' = StackDirs(rest) \cup found
          /\ Listed' = Listed \cup {t.dir}
          /\ \A v \in Worker \ {w} : stack'[v] = stack[v] /\ pc'[v] = pc[v]
    BY <1>2, <1>9, <1>11, <1>12, <2>1, HeldEnter, PendingType
  <2> DEFINE some == {t.dir}
  <2>3. some \subseteq DirsOf(tasks) \cup Held(w) /\ found \cap Pending = {}
    BY <1>10, <2>2
  <2>4. /\ DirsOf(tasks') \cap Held(w)' = {} /\ Once(tasks')
        /\ DirsOf(tasks') \cup Held(w)' = ((DirsOf(tasks) \cup Held(w)) \ some) \cup found
    BY <1>1, <1>4, <1>10, <2>2, PendingParts
  <2>5. \A v \in Worker \ {w} : stack'[v] = stack[v] /\ pc'[v] = pc[v] /\ task'[v] = task[v]
    BY <1>1, <2>2
  <2> HIDE DEF some
  <2>6. HeldOnce' /\ Pending' = (Pending \ some) \cup found
    BY <2>2, <2>3, <2>4, <2>5, HeldMoved
  <2>7. Lists(t.dir)
    BY <1>1, <1>11, <2>2, <2>6 DEF Lists, some
  <2>8. QED BY <1>11, <2>6, <2>7
<1>13. CASE t.dir \in Flaky \cup Foreign /\ stack' = [stack EXCEPT ![w] = rest] /\ UNCHANGED <<pc, filed>>
  <2>1. /\ stack'[w] = rest /\ pc'[w] = "walk"
        /\ \A v \in Worker \ {w} : stack'[v] = stack[v] /\ pc'[v] = pc[v] /\ task'[v] = task[v]
    BY <1>1, <1>13 DEF TypeOK
  <2>2. Held(w)' = Held(w) \ {t.dir}
    BY <1>10, <2>1 DEF Held
  <2>3. /\ DirsOf(tasks') \cap Held(w)' = {} /\ Once(tasks') /\ OnceStack(stack'[w])
        /\ DirsOf(tasks') \cup Held(w)' = (DirsOf(tasks) \cup Held(w)) \ {t.dir}
        /\ t.dir \in DirsOf(tasks) \cup Held(w)
    BY <1>1, <1>4, <1>9, <1>10, <2>1, <2>2
  <2>4. HeldOnce' /\ Pending' = Pending \ {t.dir}
    BY <2>1, <2>3, HeldLess
  <2>5. Listed' = Listed
    BY <1>13 DEF Listed, AllFiled
  <2>6. Passes(t.dir)
    BY <1>1, <1>11, <1>13, <2>4, <2>5 DEF Passes
  <2>7. QED BY <1>11, <2>4, <2>6
<1>14. QED BY <1>2, <1>12, <1>13

\* A frame that is left has nothing more.
LEMMA AscendHeld ==
  ASSUME TypeOK, StageInv, HeldOnce, NEW w \in Worker, Ascend(w)
  PROVE  HeldOnce' /\ Same
<1> DEFINE s == Front(stack[w])
<1>1. /\ pc[w] \in AtWork /\ pc[w] = "walk" /\ UNCHANGED <<tasks, task, done, filed>>
      /\ Goto(w, "next") \/ UNCHANGED pc
  BY DEF Ascend, AtWork
<1>2. /\ stack[w] \in Seq(Frame) /\ stack[w] # <<>>
      /\ Frame1(w).names = <<>> /\ Frame1(w).subdirs = <<>>
      /\ stack' = [stack EXCEPT ![w] = s]
  BY AscendType
<1>3. /\ OnceStack(stack[w]) /\ Held(w) = StackDirs(stack[w])
      /\ DirsOf(tasks) \cap Held(w) = {} /\ Once(tasks)
  BY <1>1, TopHeld
<1>4. FrameDirs(Frame1(w)) = {}
  BY <1>2 DEF FrameDirs, DirsOf, ToSet
<1>5. OnceStack(s) /\ StackDirs(s) = Held(w)
  BY <1>2, <1>3, <1>4, TopFrame DEF Frame1
<1>6. /\ stack'[w] = s /\ pc'[w] # "open"
      /\ \A v \in Worker \ {w} : stack'[v] = stack[v] /\ pc'[v] = pc[v] /\ task'[v] = task[v]
  BY <1>1, <1>2 DEF TypeOK, Goto
<1> HIDE DEF s
<1>7. Held(w)' = Held(w)
  BY <1>5, <1>6 DEF Held
<1>8. HeldOnce' /\ Pending' = Pending
  BY <1>1, <1>3, <1>5, <1>6, <1>7, HeldStays
<1>9. Listed' = Listed
  BY <1>1 DEF Listed, AllFiled
<1>10. QED BY <1>1, <1>8, <1>9 DEF Same

\* Every step moves directories about, lists one, passes one over, or ends.
LEMMA StepKinds ==
  ASSUME BaseInv, HeldOnce, FoundInv, NEW w \in Worker, Step(w)
  PROVE  HeldOnce' /\ (Same \/ Ends \/ \E d \in Dir : Lists(d) \/ Passes(d))
<1>1. TypeOK /\ StageInv /\ EndInv
  BY DEF BaseInv
<1>2. CASE TakeTask(w)
  BY <1>1, <1>2, TakeHeld
<1>3. CASE Leave(w) \/ Rest(w)
  BY <1>1, <1>3, RestHeld
<1>4. CASE OpenTask(w)
  BY <1>1, <1>4, OpenHeld
<1>5. CASE Register(w)
  BY <1>1, <1>5, RegisterHeld
<1>6. CASE HandOut(w)
  BY <1>1, <1>6, HandOutHeld
<1>7. CASE Descend(w)
  BY <1>1, <1>7, DescendHeld
<1>8. CASE Ascend(w)
  BY <1>1, <1>8, AscendHeld
<1>9. QED BY <1>2, <1>3, <1>4, <1>5, <1>6, <1>7, <1>8 DEF Step

\* FoundInv and MissInv only depend on what a step is to Traversal.
LEMMA FoundStep ==
  ASSUME FoundInv, MissInv, Same \/ Ends \/ \E d \in Dir : Lists(d) \/ Passes(d)
  PROVE  FoundInv' /\ MissInv'
<1>1. CASE Same \/ Ends
  BY <1>1 DEF Same, Ends, FoundInv, MissInv
<1>2. ASSUME NEW d \in Dir, Lists(d) PROVE FoundInv' /\ MissInv'
  <2>1. PICK found \in SUBSET ToSet(Subdirs[d]) :
          /\ found = ToSet(Subdirs[d]) \/ d \in Flaky
          /\ found \cap (Pending \cup Listed) = {}
          /\ Pending' = (Pending \ {d}) \cup found
    BY <1>2 DEF Lists
  <2>2. d \in Pending /\ Listed' = Listed \cup {d}
    BY <1>2 DEF Lists
  <2>3. Pending' \cap Listed' = {}
    BY <2>1, <2>2 DEF FoundInv
  <2>4. ASSUME NEW c \in Pending' \cup Listed', c # Top
        PROVE  \E p \in Listed' : c \in ToSet(Subdirs[p])
    <3>1. CASE c \in found
      BY <3>1, <2>2
    <3>2. CASE c \notin found
      BY <3>2, <2>1, <2>2, <2>4 DEF FoundInv
    <3>3. QED BY <3>1, <3>2
  <2>5. Listed \cup Pending \cup found = Listed' \cup Pending'
    BY <2>1, <2>2
  <2>6. Top \in Listed' \cup Pending' \cup Flaky
    BY <2>5 DEF MissInv
  <2>7. ASSUME NEW c \in Listed' \ Flaky
        PROVE  ToSet(Subdirs[c]) \subseteq Listed' \cup Pending' \cup Flaky \cup Foreign
    <3>1. CASE c = d
      BY <3>1, <2>1, <2>5, <2>7
    <3>2. CASE c # d
      <4>1. c \in Listed \ Flaky
        BY <3>2, <2>2, <2>7
      <4>2. ToSet(Subdirs[c]) \subseteq Listed \cup Pending \cup Flaky \cup Foreign
        BY <4>1 DEF MissInv
      <4>3. QED BY <4>2, <2>5
    <3>3. QED BY <3>1, <3>2
  <2>8. FoundInv'
    BY <2>3, <2>4 DEF FoundInv
  <2>9. MissInv'
    BY <2>6, <2>7 DEF MissInv
  <2>10. QED BY <2>8, <2>9
<1>3. ASSUME NEW d \in Dir, Passes(d) PROVE FoundInv' /\ MissInv'
  <2>1. d \in Flaky \cup Foreign /\ Pending' = Pending \ {d} /\ Listed' = Listed
    BY <1>3 DEF Passes
  <2>2. FoundInv'
    BY <2>1 DEF FoundInv
  <2>3. Top \notin Foreign
    BY ScanAssumption
  <2>4. MissInv'
    BY <2>1, <2>3 DEF MissInv
  <2>5. QED BY <2>2, <2>4
<1>4. QED BY <1>1, <1>2, <1>3

WalkInv == BaseInv /\ HeldOnce /\ FoundInv /\ MissInv

\* At first the root is in the queue, and nothing is listed.
LEMMA InitWalk == Init => WalkInv /\ Promise!Init
<1> SUFFICES ASSUME Init PROVE WalkInv /\ Promise!Init
  OBVIOUS
<1>1. BaseInv
  BY InitBase DEF BaseInv
<1>2. tasks = <<TopTask>> /\ TopTask.dir = Top /\ done = FALSE
  BY DEF Init, TopTask
<1>3. DirsOf(tasks) = {Top} /\ Once(tasks)
  <2>1. DOMAIN tasks = {1} /\ tasks[1] = TopTask
    BY <1>2
  <2>2. ToSet(tasks) = {TopTask}
    BY <1>2 DEF ToSet
  <2>3. QED BY <1>2, <2>1, <2>2 DEF DirsOf, Once
<1>4. \A w \in Worker : stack[w] = <<>> /\ pc[w] = "next" /\ filed[w] = <<>>
  BY DEF Init
<1>5. OnceStack(<<>>) /\ StackDirs(<<>>) = {} /\ ToSet(<<>>) = {}
  BY DEF OnceStack, StackDirs, ToSet
<1>6. \A w \in Worker : Held(w) = {}
  BY <1>4, <1>5 DEF Held
<1>7. Pending = {Top}
  BY <1>3, <1>6, PendingParts
<1>8. Listed = {}
  BY <1>4, <1>5 DEF Listed, AllFiled
<1>9. HeldOnce
  BY <1>3, <1>4, <1>5, <1>6 DEF HeldOnce
<1>10. FoundInv /\ MissInv
  BY <1>7, <1>8 DEF FoundInv, MissInv
<1>11. Promise!Init
  BY <1>2, <1>7, <1>8 DEF Promise!Init, Listed
<1>12. QED BY <1>1, <1>9, <1>10, <1>11 DEF WalkInv

LEMMA StutterSame == UNCHANGED vars => Same /\ (HeldOnce => HeldOnce')
<1> SUFFICES ASSUME UNCHANGED vars PROVE Same /\ (HeldOnce => HeldOnce')
  OBVIOUS
<1>1. \A w \in Worker : Held(w)' = Held(w)
  BY DEF vars, Held
<1>2. Pending' = Pending
  BY <1>1, PendingParts DEF vars
<1>3. Listed' = Listed /\ done' = done
  BY DEF vars, Listed, AllFiled
<1>4. HeldOnce => HeldOnce'
  BY <1>1 DEF vars, HeldOnce
<1>5. QED BY <1>2, <1>3, <1>4 DEF Same

LEMMA WalkStep ==
  ASSUME WalkInv, [Next]_vars
  PROVE  WalkInv' /\ (Same \/ Ends \/ \E d \in Dir : Lists(d) \/ Passes(d))
<1>1. BaseInv'
  BY BaseStep DEF WalkInv
<1>2. HeldOnce' /\ (Same \/ Ends \/ \E d \in Dir : Lists(d) \/ Passes(d))
  <2>1. ASSUME NEW w \in Worker, Step(w)
        PROVE  HeldOnce' /\ (Same \/ Ends \/ \E d \in Dir : Lists(d) \/ Passes(d))
    BY <2>1, StepKinds DEF WalkInv
  <2>2. CASE UNCHANGED vars
    BY <2>2, StutterSame DEF WalkInv
  <2>3. QED BY <2>1, <2>2 DEF Next
<1>3. FoundInv' /\ MissInv'
  BY <1>2, FoundStep DEF WalkInv
<1>4. QED BY <1>1, <1>2, <1>3 DEF WalkInv

\* Every step of the scan is a step of Traversal or changes nothing of it.
LEMMA StepPromised ==
  ASSUME WalkInv, Same \/ Ends \/ \E d \in Dir : Lists(d) \/ Passes(d)
  PROVE  Promise!Next \/ UNCHANGED <<Pending, Listed, done>>
<1>1. CASE Same
  BY <1>1 DEF Same
<1>2. CASE Ends
  BY <1>2 DEF Ends, Promise!Next, Promise!Finish, Listed
<1>3. ASSUME NEW d \in Dir, Lists(d) PROVE Promise!List(d)
  <2>1. d \in Pending \ Listed
    BY <1>3 DEF Lists, WalkInv, FoundInv
  <2>2. [e \in Dir |-> ToSet(Subdirs[e])][d] = ToSet(Subdirs[d])
    OBVIOUS
  <2>3. QED BY <1>3, <2>1, <2>2 DEF Lists, Promise!List, Listed
<1>4. ASSUME NEW d \in Dir, Passes(d) PROVE Promise!Pass(d)
  BY <1>4 DEF Passes, Promise!Pass, Listed
<1>5. QED BY <1>1, <1>2, <1>3, <1>4 DEF Promise!Next

\* No directory is lost between the queue and the workers, none is listed
\* twice, and the workers that see everybody idle are right: all is through.
THEOREM ScanIsTraversal == Spec => Implements
<1>1. Init => WalkInv /\ Promise!Init
  BY InitWalk
<1>2. WalkInv /\ [Next]_vars => WalkInv'
  BY WalkStep
<1>3. WalkInv /\ [Next]_vars => [Promise!Next]_<<Pending, {t.dir : t \in AllFiled}, done>>
  BY WalkStep, StepPromised DEF Listed
<1>4. QED BY <1>1, <1>2, <1>3, PTL DEF Spec, Implements, Promise!Spec

\* A scan that has ended has listed the root and all that is in what it has
\* listed, but for mount points and what failed.
THEOREM NothingIsMissed == Spec => []NothingMissed
<1>1. Init => WalkInv
  BY InitWalk
<1>2. WalkInv /\ [Next]_vars => WalkInv'
  BY WalkStep
<1>3. WalkInv => NothingMissed
  <2> SUFFICES ASSUME WalkInv, done PROVE Promise!Complete
    BY DEF NothingMissed, Promise!Complete
  <2>1. TypeOK /\ StageInv /\ EndInv
    BY DEF WalkInv, BaseInv
  <2>2. \A w \in Worker : Held(w) = {}
    BY <2>1, HeldParts DEF EndInv, AtWork
  <2>3. DirsOf(tasks) = {}
    BY <2>1 DEF EndInv, DirsOf, ToSet
  <2>4. Pending = {}
    BY <2>2, <2>3, PendingParts
  <2>5. Listed \subseteq Dir
    BY <2>1, PendingType
  <2>6. \A d \in Listed \ Flaky : ToSet(Subdirs[d]) \subseteq Listed \cup Flaky \cup Foreign
    BY <2>4 DEF WalkInv, MissInv
  <2>7. Top \in Listed \cup Flaky
    BY <2>4 DEF WalkInv, MissInv
  <2>8. QED BY <2>5, <2>6, <2>7 DEF Promise!Complete, Listed
<1>4. QED BY <1>1, <1>2, <1>3, PTL DEF Spec

-----------------------------------------------------------------------------
(* The layout of the index file.                                           *)

\* align8 goes up to the next multiple of 8.
LEMMA AlignUp ==
  ASSUME NEW k \in Nat
  PROVE  Align8(k) \in Nat /\ k <= Align8(k) /\ Align8(k) % 8 = 0
<1>1. DEFINE q == (k + 7) \div 8
<1>2. q \in Nat /\ k <= q * 8
  OBVIOUS
<1>3. (q * 8) % 8 = 0
  BY <1>2
<1> QED
  BY <1>2, <1>3 DEF Align8

\* Whatever the sizes, sections do not overlap, numbers are aligned, validate
\* accepts what build writes and refuses it when any of its end is missing.
THEOREM LayoutIsSound == \A n \in Sizes : Fits(n)
<1> SUFFICES ASSUME NEW n \in Sizes PROVE Fits(n)
  OBVIOUS
<1> DEFINE h == Header(n)
           e1 == DataStart + n.dirNames
           e2 == Align8(e1) + n.dirs * RecordSize
           e3 == Align8(e2) + n.byParent * IdSize
           e4 == Align8(e3) + n.fileNames
           e5 == Align8(e4) + n.files * RecordSize
<1>1. /\ n.dirNames \in Nat /\ n.fileNames \in Nat
      /\ n.dirs * RecordSize \in Nat /\ n.byParent * IdSize \in Nat /\ n.files * RecordSize \in Nat
  BY DEF Sizes, RecordSize, IdSize
<1>2. e1 \in Nat /\ DataStart <= e1
  BY <1>1 DEF DataStart
<1>3. e2 \in Nat /\ e1 <= Align8(e1) /\ Align8(e1) <= e2 /\ Align8(e1) % 8 = 0 /\ Align8(e1) \in Nat
  <2> HIDE DEF e1
  <2> QED BY <1>1, <1>2, AlignUp
<1>4. e3 \in Nat /\ e2 <= Align8(e2) /\ Align8(e2) <= e3 /\ Align8(e2) % 8 = 0 /\ Align8(e2) \in Nat
  <2>1. e2 \in Nat
    BY <1>3
  <2> HIDE DEF e2
  <2> QED BY <1>1, <2>1, AlignUp
<1>5. e4 \in Nat /\ e3 <= Align8(e3) /\ Align8(e3) <= e4 /\ Align8(e3) \in Nat
  <2>1. e3 \in Nat
    BY <1>4
  <2> HIDE DEF e3
  <2> QED BY <1>1, <2>1, AlignUp
<1>6. e5 \in Nat /\ e4 <= Align8(e4) /\ Align8(e4) <= e5 /\ Align8(e4) % 8 = 0 /\ Align8(e4) \in Nat
  <2>1. e4 \in Nat
    BY <1>5
  <2> HIDE DEF e4
  <2> QED BY <1>1, <2>1, AlignUp
<1> HIDE DEF e1, e2, e3, e4, e5
<1>7. /\ h.dirNames = Section(DataStart, n.dirNames)
      /\ End(h.dirNames) = e1
      /\ h.dirs.off = Align8(e1) /\ End(h.dirs) = e2
      /\ h.byParent.off = Align8(e2) /\ End(h.byParent) = e3
      /\ h.fileNames.off = Align8(e3) /\ End(h.fileNames) = e4
      /\ h.files.off = Align8(e4) /\ End(h.files) = e5
  BY DEF Header, Section, End, e1, e2, e3, e4, e5
<1>8. h.dirNames.off = DataStart
  BY <1>7 DEF Section
<1> HIDE DEF h
<1>9. Apart(h) /\ Aligned(h)
  BY <1>2, <1>3, <1>4, <1>5, <1>6, <1>7, <1>8 DEF Apart, Aligned, DataStart
<1>10. Length(h) = e5
  BY <1>7 DEF Length
<1>11. Valid(h, Length(h))
  BY <1>2, <1>3, <1>4, <1>5, <1>6, <1>7, <1>10 DEF Valid, DataStart, HeaderSize
<1>12. \A length \in 0 .. Length(h) - 1 : ~Valid(h, length)
  BY <1>6, <1>7, <1>10 DEF Valid
<1> QED
  BY <1>9, <1>11, <1>12 DEF Fits, h

-----------------------------------------------------------------------------
(* No directory is listed twice.                                           *)

\* Nobody has listed a directory twice, or one that another has.
FiledOnce ==
  \A w, v \in Worker : \A k \in DOMAIN filed[w], j \in DOMAIN filed[v] :
    filed[w][k].dir = filed[v][j].dir => w = v /\ k = j

\* What is appended to a worker's list was still to be listed.
LEMMA FiledAppends ==
  ASSUME TypeOK, FiledOnce, FoundInv, NEW w \in Worker, NEW t \in Task, t.dir \in Pending,
         filed' = [filed EXCEPT ![w] = Append(filed[w], t)]
  PROVE  FiledOnce'
<1> DEFINE n == Len(filed[w])
<1>1. filed \in [Worker -> Seq(Task)]
  BY DEF TypeOK
<1>2. \A v \in Worker \ {w} : filed'[v] = filed[v]
  BY <1>1
<1>3. filed'[w] = Append(filed[w], t)
  BY <1>1
<1>4. /\ DOMAIN filed'[w] = 1 .. n + 1 /\ DOMAIN filed[w] = 1 .. n /\ n \in Nat
      /\ \A i \in 1 .. n : filed'[w][i] = filed[w][i]
      /\ filed'[w][n + 1] = t
  <2>1. filed[w] \in Seq(Task)
    BY <1>1
  <2> DEFINE s == filed[w]
  <2> HIDE DEF s
  <2>2. s \in Seq(Task)
    BY <2>1 DEF s
  <2>3. /\ DOMAIN Append(s, t) = 1 .. Len(s) + 1 /\ DOMAIN s = 1 .. Len(s) /\ Len(s) \in Nat
        /\ \A i \in DOMAIN s : Append(s, t)[i] = s[i]
        /\ Append(s, t)[Len(s) + 1] = t
    BY <2>2, AppendedOne
  <2>4. QED BY <2>3, <1>3 DEF s
<1>5. \A v \in Worker : \A j \in DOMAIN filed[v] : filed[v][j].dir # t.dir
  <2>1. \A v \in Worker : \A j \in DOMAIN filed[v] : filed[v][j] \in AllFiled
    BY DEF AllFiled, ToSet
  <2>2. \A u \in AllFiled : u.dir \in Listed
    BY DEF Listed
  <2>3. t.dir \notin Listed
    BY DEF FoundInv
  <2>4. QED BY <2>1, <2>2, <2>3
<1> HIDE DEF n
<1>6. \A v \in Worker : \A j \in DOMAIN filed'[v] :
        \/ j \in DOMAIN filed[v] /\ filed'[v][j] = filed[v][j]
        \/ v = w /\ j = n + 1 /\ filed'[v][j] = t
  <2>1. \A j \in DOMAIN filed'[w] : j \in DOMAIN filed[w] \/ j = n + 1
    BY <1>4
  <2>2. QED BY <2>1, <1>2, <1>4
<1>7. QED BY <1>5, <1>6 DEF FiledOnce

LEMMA FiledStep ==
  ASSUME BaseInv, HeldOnce, FoundInv, FiledOnce, NEW w \in Worker, Step(w)
  PROVE  FiledOnce'
<1>1. TypeOK /\ StageInv /\ EndInv
  BY DEF BaseInv
<1>2. CASE UNCHANGED filed
  BY <1>2 DEF FiledOnce
<1>3. ASSUME NEW t \in Task, NEW below \in Seq(Frame), Enter(w, t, below), t.dir \in Pending
      PROVE  FiledOnce'
  <2>1. filed' = [filed EXCEPT ![w] = Append(filed[w], t)]
    BY <1>1, <1>3, EnterType
  <2>2. QED BY <1>1, <1>3, <2>1, FiledAppends
<1>4. CASE OpenTask(w)
  <2>1. pc[w] = "open" /\ (Enter(w, task[w], <<>>) \/ UNCHANGED filed)
    BY <1>4 DEF OpenTask
  <2>2. task[w] \in Task /\ <<>> \in Seq(Frame)
    BY <1>1, EmptySeq DEF TypeOK
  <2>3. task[w].dir \in Pending
    BY <1>1, <2>1, HeldParts, PendingParts
  <2>4. QED BY <1>2, <1>3, <2>1, <2>2, <2>3
<1>5. CASE Descend(w)
  <2> DEFINE f == Frame1(w)
             t == Head(f.subdirs)
             g == [f EXCEPT !.subdirs = Tail(@)]
             rest == Append(Front(stack[w]), g)
  <2>1. pc[w] \in AtWork
    BY <1>5 DEF Descend, AtWork
  <2>2. /\ f.subdirs # <<>> /\ t \in Task /\ rest \in Seq(Frame)
        /\ Enter(w, t, rest) \/ UNCHANGED filed
    BY <1>1, <1>5, DescendType
  <2>3. FrameDirs(f) \subseteq Held(w) /\ Held(w) \subseteq Pending /\ OnceFrame(f)
    BY <1>1, <2>1, TopHeld
  <2>4. f.subdirs \in Seq(Task)
    BY <1>1, <2>1, TopIsFrame
  <2> HIDE DEF f
  <2>5. t.dir \in DirsOf(f.subdirs)
    BY <2>2, <2>3, <2>4, FirstDir DEF OnceFrame
  <2>6. t.dir \in Pending
    BY <2>3, <2>5 DEF FrameDirs
  <2> HIDE DEF t, rest
  <2>7. QED BY <1>2, <1>3, <2>2, <2>6
<1>6. CASE TakeTask(w) \/ Leave(w) \/ Rest(w) \/ Register(w) \/ HandOut(w) \/ Ascend(w)
  BY <1>2, <1>6 DEF TakeTask, Leave, Rest, Register, HandOut, Ascend
<1>7. QED BY <1>4, <1>5, <1>6 DEF Step

\* All that is known about a scan.
FileInv == TreeInv /\ WalkInv /\ FiledOnce

LEMMA InitFile == Init => FileInv
<1> SUFFICES ASSUME Init PROVE FileInv
  OBVIOUS
<1>1. TreeInv /\ WalkInv
  BY InitBase, InitKnown, InitWalk DEF TreeInv, BaseInv
<1>2. \A w \in Worker : filed[w] = <<>>
  BY DEF Init
<1>3. FiledOnce
  BY <1>2 DEF FiledOnce
<1>4. QED BY <1>1, <1>3 DEF FileInv

LEMMA FileStep == FileInv /\ [Next]_vars => FileInv'
<1> SUFFICES ASSUME FileInv, [Next]_vars PROVE FileInv'
  OBVIOUS
<1>1. TreeInv' /\ WalkInv'
  BY TreeStep, WalkStep DEF FileInv
<1>2. ASSUME NEW w \in Worker, Step(w) PROVE FiledOnce'
  BY <1>2, FiledStep DEF FileInv, WalkInv
<1>3. UNCHANGED vars => FiledOnce'
  BY DEF vars, FileInv, FiledOnce
<1>4. FiledOnce'
  BY <1>2, <1>3 DEF Next
<1>5. QED BY <1>1, <1>4 DEF FileInv

-----------------------------------------------------------------------------
(* What push and build make of a list of files.                            *)

\* Order lists each entry once, and the parents do not descend.
LEMMA OrderIs ==
  ASSUME NEW list, NEW entries, entries \subseteq Nat, IsFiniteSet(entries), \A i \in entries : list[i].parent \in Nat
  PROVE  LET order == Order(list, entries)
             n     == Cardinality(entries)
         IN  /\ n \in Nat /\ order \in [1 .. n -> entries]
             /\ \A k, m \in 1 .. n : order[k] = order[m] => k = m
             /\ \A i \in entries : \E k \in 1 .. n : order[k] = i
             /\ \A k, m \in 1 .. n : k < m => list[order[k]].parent <= list[order[m]].parent
<1> DEFINE n == Cardinality(entries)
           Before(i) == {j \in entries : ByParent(list, j, i)}
           rank == [i \in entries |-> Cardinality(Before(i))]
           order == Order(list, entries)
<1>1. n \in Nat
  BY FS_CardinalityType
<1>2. order = [k \in 1 .. n |-> CHOOSE i \in entries : Cardinality(Before(i)) = k - 1]
  BY DEF Order
<1> DEFINE key == [i \in entries |-> list[i].parent]
<1>3. /\ \A i \in entries : i \in Nat /\ key[i] \in Nat /\ key[i] = list[i].parent
      /\ \A i, j \in entries : ByParent(list, i, j) <=> key[i] < key[j] \/ (key[i] = key[j] /\ i < j)
  BY DEF ByParent
<1> HIDE DEF key
<1>4. \A i \in entries : ~ ByParent(list, i, i)
  <2>1. ASSUME NEW i \in entries PROVE ~ ByParent(list, i, i)
    <3>1. key[i] \in Nat /\ i \in Nat
      BY <1>3
    <3>2. ~ (key[i] < key[i]) /\ ~ (i < i)
      BY <3>1
    <3>3. QED BY <3>2, <1>3
  <2>2. QED BY <2>1
<1>5. ASSUME NEW i \in entries, NEW j \in entries, ByParent(list, i, j) PROVE key[i] <= key[j]
  <2>1. key[i] < key[j] \/ key[i] = key[j]
    BY <1>3, <1>5
  <2>2. key[i] \in Nat /\ key[j] \in Nat
    BY <1>3
  <2>3. QED BY <2>1, <2>2
<1>6. ASSUME NEW i \in entries PROVE rank[i] \in 0 .. n - 1 /\ IsFiniteSet(Before(i))
  <2>1. IsFiniteSet(entries \ {i}) /\ Cardinality(entries \ {i}) = n - 1
    BY FS_RemoveElement
  <2>2. i \notin Before(i)
    BY <1>4
  <2>3. Before(i) \in SUBSET (entries \ {i})
    BY <2>2
  <2> HIDE DEF Before, n
  <2>4. IsFiniteSet(Before(i)) /\ Cardinality(Before(i)) <= n - 1
    BY <2>1, <2>3, FS_Subset
  <2>5. Cardinality(Before(i)) \in Nat
    BY <2>4, FS_CardinalityType
  <2>6. QED BY <1>1, <2>4, <2>5
<1>7. ASSUME NEW i \in entries, NEW j \in entries, ByParent(list, i, j) PROVE rank[i] < rank[j]
  <2>1. ASSUME NEW k \in Before(i) PROVE ByParent(list, k, j)
    <3>1. k \in entries /\ ByParent(list, k, i)
      OBVIOUS
    <3> HIDE DEF Before
    <3>2. key[k] \in Nat /\ key[i] \in Nat /\ key[j] \in Nat /\ k \in Nat /\ i \in Nat /\ j \in Nat
      BY <1>3, <3>1
    <3>3. key[k] < key[i] \/ (key[k] = key[i] /\ k < i)
      BY <1>3, <3>1
    <3>4. key[i] < key[j] \/ (key[i] = key[j] /\ i < j)
      BY <1>3, <1>7
    <3>5. key[k] < key[j] \/ (key[k] = key[j] /\ k < j)
      BY ONLY <3>2, <3>3, <3>4
    <3>6. QED BY <1>3, <3>1, <3>5
  <2>2. i \notin Before(i)
    BY <1>4
  <2>3. Before(i) \cup {i} \in SUBSET Before(j)
    BY <2>1, <1>7
  <2>4. IsFiniteSet(Before(i)) /\ IsFiniteSet(Before(j)) /\ rank[i] \in Nat /\ rank[j] \in Nat
    BY <1>1, <1>6
  <2>5. rank[i] = Cardinality(Before(i)) /\ rank[j] = Cardinality(Before(j))
    OBVIOUS
  <2> HIDE DEF Before, rank
  <2>6. Cardinality(Before(i) \cup {i}) = Cardinality(Before(i)) + 1
    BY <2>2, <2>4, FS_AddElement
  <2>7. Cardinality(Before(i) \cup {i}) <= Cardinality(Before(j))
    BY <2>3, <2>4, FS_Subset
  <2>8. QED BY <2>4, <2>5, <2>6, <2>7
<1>8. \A i, j \in entries : i = j \/ ByParent(list, i, j) \/ ByParent(list, j, i)
  BY <1>3
<1>9. \A i \in entries : Cardinality(Before(i)) = rank[i]
  OBVIOUS
<1>10. rank \in [entries -> 0 .. n - 1]
  BY <1>6
<1> HIDE DEF rank, Before
<1>11. \A i, j \in entries : rank[i] = rank[j] => i = j
  <2>1. \A i \in entries : rank[i] \in Int
    BY <1>10, <1>1
  <2>2. QED BY <2>1, <1>7, <1>8
<1>12. \A k \in 0 .. n - 1 : \E i \in entries : rank[i] = k
  <2>1. IsFiniteSet(0 .. n - 1) /\ Cardinality(0 .. n - 1) = n
    <3>1. 0 \in Int /\ n - 1 \in Int
      BY <1>1
    <3>2. IsFiniteSet(0 .. n - 1) /\ Cardinality(0 .. n - 1) = IF 0 > n - 1 THEN 0 ELSE (n - 1) - 0 + 1
      BY <3>1, FS_Interval
    <3>3. QED BY <3>2, <1>1
  <2>2. rank \in Injection(entries, 0 .. n - 1)
    <3> HIDE DEF n
    <3>1. QED BY <1>10, <1>11 DEF Injection, IsInjective
  <2>3. rank \in Surjection(entries, 0 .. n - 1)
    BY <2>1, <2>2, FS_Injection
  <2>4. QED BY <2>3 DEF Surjection
<1>13. \A k \in 1 .. n : order[k] \in entries /\ rank[order[k]] = k - 1
  <2>1. ASSUME NEW k \in 1 .. n PROVE order[k] \in entries /\ rank[order[k]] = k - 1
    <3>1. k - 1 \in 0 .. n - 1
      BY <1>1
    <3>2. \E i \in entries : Cardinality(Before(i)) = k - 1
      BY <3>1, <1>9, <1>12
    <3>3. order[k] = CHOOSE i \in entries : Cardinality(Before(i)) = k - 1
      BY <1>2
    <3> HIDE DEF order
    <3>4. order[k] \in entries /\ Cardinality(Before(order[k])) = k - 1
      BY <3>2, <3>3
    <3>5. QED BY <3>4, <1>9
  <2>2. QED BY <2>1
<1>14. order \in [1 .. n -> entries]
  BY <1>2, <1>13
<1> HIDE DEF order
<1>15. \A k, m \in 1 .. n : order[k] = order[m] => k = m
  <2>1. \A k \in 1 .. n : k \in Int
    BY <1>1
  <2>2. \A k, m \in 1 .. n : order[k] = order[m] => k - 1 = m - 1
    BY <1>13
  <2>3. QED BY <2>1, <2>2
<1>16. ASSUME NEW i \in entries PROVE \E k \in 1 .. n : order[k] = i
  <2>1. rank[i] \in 0 .. n - 1
    BY <1>10
  <2>2. rank[i] + 1 \in 1 .. n /\ (rank[i] + 1) - 1 = rank[i]
    BY <2>1, <1>1
  <2>3. order[rank[i] + 1] \in entries /\ rank[order[rank[i] + 1]] = rank[i]
    BY <2>2, <1>13
  <2>4. order[rank[i] + 1] = i
    BY <2>3, <1>11
  <2>5. QED BY <2>2, <2>4
<1>17. ASSUME NEW k \in 1 .. n, NEW m \in 1 .. n, k < m PROVE list[order[k]].parent <= list[order[m]].parent
  <2>1. order[k] \in entries /\ order[m] \in entries /\ rank[order[k]] = k - 1 /\ rank[order[m]] = m - 1
    BY <1>13
  <2>2. ~ (k - 1 = m - 1) /\ ~ (m - 1 < k - 1)
    BY <1>1, <1>17
  <2>3. ByParent(list, order[k], order[m])
    BY <2>1, <2>2, <1>7, <1>8
  <2>4. key[order[k]] <= key[order[m]]
    BY <2>1, <2>3, <1>5
  <2>5. QED BY <2>1, <2>4, <1>3
<1>18. QED BY <1>1, <1>14, <1>15, <1>16, <1>17 DEF order, n

\* A file as it was read, and as the index has it.
FileEntry == [name : Seq(Letter), parent : Nat]
Record == [off : Nat, len : Nat, parent : Nat]

\* By their names and parents the records of b are these files, in this order.
Denotes(b, files) ==
  /\ b.names \in Seq(Letter) /\ b.recs \in Seq(Record) /\ Len(b.recs) = Len(files)
  /\ \A k \in 1 .. Len(files) : /\ b.recs[k].parent = files[k].parent
                                /\ b.recs[k].off + b.recs[k].len <= Len(b.names)
                                /\ NameOf(b, b.recs[k]) = files[k].name

\* What push writes is what it was given.
LEMMA ShardDenotes ==
  ASSUME NEW files \in Seq(FileEntry)
  PROVE  Denotes(ShardOf(files), files)
<1> DEFINE n == Len(files)
           names == [k \in DOMAIN files |-> files[k].name]
           T == Seq(Letter)
           b == ShardOf(files)
<1>1. n \in Nat /\ DOMAIN files = 1 .. n /\ \A k \in 1 .. n : files[k] \in FileEntry
  BY LenProperties, ElementOfSeq
<1>2. \A k \in 1 .. n : files[k].name \in T /\ files[k].parent \in Nat
  BY <1>1 DEF FileEntry
<1>3. names \in Seq(T) /\ Len(names) = n /\ \A k \in 1 .. n : names[k] = files[k].name
  <2>1. names \in [1 .. n -> T] /\ \A k \in 1 .. n : names[k] = files[k].name
    BY <1>1, <1>2
  <2> HIDE DEF names, n, T
  <2>2. names \in Seq(T) /\ Len(names) = n
    BY <2>1, <1>1, FunctionIsSeq
  <2>3. QED BY <2>1, <2>2
<1>4. /\ b.names = FlattenSeq(names)
      /\ b.recs = [k \in DOMAIN files |-> [off |-> LengthOf(names, k - 1), len |-> Len(names[k]),
                                           parent |-> files[k].parent]]
  BY DEF ShardOf
<1> HIDE DEF names, n, b
<1> DEFINE whole == FlattenSeq(names)
<1>5. /\ whole \in Seq(Letter)
      /\ \E o : Places(o, names, whole) /\ \A m \in 0 .. Len(names) : Len(FlattenSeq(SubSeq(names, 1, m))) = o[m]
  BY <1>3, FlattenPlaces
<1>6. PICK o : Places(o, names, whole) /\ \A m \in 0 .. n : Len(FlattenSeq(SubSeq(names, 1, m))) = o[m]
  BY <1>3, <1>5
<1> HIDE DEF whole
<1>7. /\ Len(whole) \in Nat /\ \A k \in 0 .. n : o[k] \in Nat
      /\ \A k \in 1 .. n : Len(names[k]) \in Nat
  <2>1. names \in Seq(Seq(Letter))
    BY <1>3
  <2>2. /\ Len(whole) \in Nat /\ \A k \in 0 .. Len(names) : o[k] \in Nat
        /\ \A k \in 1 .. Len(names) : Len(names[k]) \in Nat
    BY <2>1, <1>5, <1>6, PlacesGrow
  <2>3. QED BY <2>2, <1>3
<1>8. \A k \in 1 .. n : /\ o[k] = o[k - 1] + Len(names[k]) /\ o[k] <= Len(whole)
                        /\ \A j \in 1 .. Len(names[k]) : whole[o[k - 1] + j] = names[k][j]
  BY <1>3, <1>6 DEF Places
<1>9. \A k \in 1 .. n : /\ k - 1 \in 0 .. n
                        /\ b.recs[k] = [off |-> o[k - 1], len |-> Len(names[k]), parent |-> files[k].parent]
  <2>1. \A k \in 1 .. n : k - 1 \in 0 .. n
    BY <1>1
  <2>2. \A k \in 1 .. n : LengthOf(names, k - 1) = o[k - 1]
    BY <2>1, <1>6 DEF LengthOf
  <2>3. QED BY <2>1, <2>2, <1>1, <1>4
<1>10. b.recs \in Seq(Record) /\ Len(b.recs) = n
  <2>1. \A k \in 1 .. n : b.recs[k] \in Record
    <3>1. ASSUME NEW k \in 1 .. n PROVE b.recs[k] \in Record
      <4> DEFINE off == o[k - 1]   len == Len(names[k])   parent == files[k].parent
      <4>1. off \in Nat /\ len \in Nat /\ parent \in Nat /\ b.recs[k] = [off |-> off, len |-> len, parent |-> parent]
        BY <1>2, <1>7, <1>9
      <4> HIDE DEF off, len, parent
      <4>2. QED BY <4>1 DEF Record
    <3>2. QED BY <3>1
  <2>2. b.recs \in [1 .. n -> Record]
    <3>1. b.recs = [k \in 1 .. n |-> b.recs[k]]
      BY <1>1, <1>4
    <3>2. QED BY <2>1, <3>1
  <2>3. QED BY <2>2, <1>1, FunctionIsSeq
<1>11. ASSUME NEW k \in 1 .. n
       PROVE  /\ b.recs[k].parent = files[k].parent
              /\ b.recs[k].off + b.recs[k].len <= Len(b.names)
              /\ NameOf(b, b.recs[k]) = files[k].name
  <2> DEFINE off == o[k - 1]   name == names[k]   len == Len(names[k])
  <2>1. b.recs[k].off = off /\ b.recs[k].len = len /\ b.recs[k].parent = files[k].parent /\ b.names = whole
    <3>1. b.recs[k] = [off |-> off, len |-> len, parent |-> files[k].parent]
      BY <1>9
    <3> HIDE DEF off, len
    <3>2. b.recs[k].off = off /\ b.recs[k].len = len /\ b.recs[k].parent = files[k].parent
      BY <3>1
    <3>3. QED BY <3>2, <1>4 DEF whole
  <2>2. off \in Nat /\ len \in Nat /\ off + len <= Len(whole) /\ \A j \in 1 .. len : whole[off + j] = name[j]
    BY <1>7, <1>8, <1>9
  <2>3. name \in Seq(Letter) /\ len = Len(name) /\ name = files[k].name
    BY <1>2, <1>3
  <2> HIDE DEF off, name, len
  <2> DEFINE piece == SubSeq(whole, off + 1, off + len)
  <2>4. piece \in Seq(Letter) /\ Len(piece) = len /\ \A j \in 1 .. len : piece[j] = whole[off + j]
    BY <2>2, <1>5, PieceOf
  <2> HIDE DEF piece
  <2>5. piece = name
    BY <2>2, <2>3, <2>4, SeqEqual
  <2>6. NameOf(b, b.recs[k]) = piece
    BY <2>1 DEF NameOf, piece
  <2>7. QED BY <2>1, <2>2, <2>3, <2>5, <2>6
<1>12. b.names \in Seq(Letter)
  BY <1>4, <1>5 DEF whole
<1>13. QED BY <1>10, <1>11, <1>12 DEF Denotes, b, n

\* What is sorted is what was there, in the new order.
LEMMA SortedDenotes ==
  ASSUME NEW files \in Seq(FileEntry), NEW all, Denotes(all, files)
  PROVE  LET n      == Len(files)
             order  == Order(all.recs, DOMAIN all.recs)
             sorted == [k \in 1 .. n |-> files[order[k]]]
         IN  /\ sorted \in Seq(FileEntry) /\ Len(sorted) = n /\ n \in Nat
             /\ Denotes(SortedByParent(all), sorted)
             /\ \A k, m \in 1 .. n : k < m => sorted[k].parent <= sorted[m].parent
             /\ order \in [1 .. n -> 1 .. n]
             /\ \A k, m \in 1 .. n : order[k] = order[m] => k = m
             /\ \A i \in 1 .. n : \E k \in 1 .. n : order[k] = i
<1> DEFINE n == Len(files)
           recs == all.recs
           order == Order(recs, DOMAIN recs)
           sorted == [k \in 1 .. n |-> files[order[k]]]
<1>1. n \in Nat /\ \A k \in 1 .. n : files[k] \in FileEntry
  BY LenProperties, ElementOfSeq
<1>2. DOMAIN recs = 1 .. n /\ \A k \in 1 .. n : recs[k] \in Record
  BY LenProperties, ElementOfSeq DEF Denotes
<1>3. IsFiniteSet(1 .. n) /\ Cardinality(1 .. n) = n
  <2>1. IsFiniteSet(1 .. n) /\ Cardinality(1 .. n) = IF 1 > n THEN 0 ELSE n - 1 + 1
    BY <1>1, FS_Interval
  <2>2. QED BY <2>1, <1>1
<1>4. \A k \in 1 .. n : recs[k].parent \in Nat
  BY <1>2 DEF Record
<1> HIDE DEF n, recs
<1>5. /\ order \in [1 .. n -> 1 .. n]
      /\ \A k, m \in 1 .. n : order[k] = order[m] => k = m
      /\ \A i \in 1 .. n : \E k \in 1 .. n : order[k] = i
      /\ \A k, m \in 1 .. n : k < m => recs[order[k]].parent <= recs[order[m]].parent
  <2>1. 1 .. n \subseteq Nat
    BY <1>1
  <2> DEFINE E == 1 .. n   c == Cardinality(E)   ord == Order(recs, E)
  <2>2. E \subseteq Nat /\ IsFiniteSet(E) /\ (\A i \in E : recs[i].parent \in Nat) /\ c = n /\ ord = order
    BY <2>1, <1>2, <1>3, <1>4
  <2> HIDE DEF E
  <2>3. /\ ord \in [1 .. c -> E]
        /\ \A k, m \in 1 .. c : ord[k] = ord[m] => k = m
        /\ \A i \in E : \E k \in 1 .. c : ord[k] = i
        /\ \A k, m \in 1 .. c : k < m => recs[ord[k]].parent <= recs[ord[m]].parent
    BY ONLY <2>2, OrderIs
  <2> HIDE DEF c, ord, order
  <2>4. QED BY <2>2, <2>3 DEF E
<1> HIDE DEF order
<1>6. \A k \in 1 .. n : order[k] \in 1 .. n
  BY <1>5
<1>7. sorted \in [1 .. n -> FileEntry]
  BY <1>1, <1>6
<1>8. sorted \in Seq(FileEntry) /\ Len(sorted) = n
  <2> HIDE DEF sorted
  <2>1. QED BY <1>1, <1>7, FunctionIsSeq
<1>9. \A k \in 1 .. n : /\ recs[order[k]].parent = sorted[k].parent
                        /\ NameOf(all, recs[order[k]]) = sorted[k].name
  <2>1. \A i \in 1 .. n : recs[i].parent = files[i].parent /\ NameOf(all, recs[i]) = files[i].name
    BY DEF Denotes, n, recs
  <2>2. QED BY <2>1, <1>6
<1>10. SortedByParent(all) = ShardOf(sorted)
  <2>1. SortedByParent(all) =
          ShardOf([k \in DOMAIN order |-> [name |-> NameOf(all, recs[order[k]]), parent |-> recs[order[k]].parent]])
    BY DEF SortedByParent, order, recs
  <2>2. DOMAIN order = 1 .. n
    BY <1>5
  <2>3. \A k \in 1 .. n : [name |-> NameOf(all, recs[order[k]]), parent |-> recs[order[k]].parent] = sorted[k]
    <3>1. \A k \in 1 .. n : sorted[k] \in FileEntry
      BY <1>7
    <3> HIDE DEF sorted
    <3>2. \A k \in 1 .. n : sorted[k] = [name |-> sorted[k].name, parent |-> sorted[k].parent]
      BY <3>1 DEF FileEntry
    <3>3. QED BY <3>2, <1>9
  <2>4. [k \in DOMAIN order |-> [name |-> NameOf(all, recs[order[k]]), parent |-> recs[order[k]].parent]] = sorted
    <3>1. sorted = [k \in 1 .. n |-> sorted[k]]
      OBVIOUS
    <3> HIDE DEF sorted
    <3>2. QED BY <2>2, <2>3, <3>1
  <2>5. QED BY <2>1, <2>4
<1>11. Denotes(SortedByParent(all), sorted)
  <2> HIDE DEF sorted
  <2>1. QED BY <1>8, <1>10, ShardDenotes
<1>12. \A k, m \in 1 .. n : k < m => sorted[k].parent <= sorted[m].parent
  <2> HIDE DEF sorted
  <2>1. QED BY <1>5, <1>9
<1>13. QED BY <1>1, <1>5, <1>8, <1>11, <1>12 DEF sorted, order, recs, n

\* What is joined is what the shards hold, one after the other.
LEMMA ConcatenatedDenotes ==
  ASSUME NEW n \in Nat, NEW shards, DOMAIN shards = 1 .. n,
         NEW parts \in Seq(Seq(FileEntry)), Len(parts) = n, \A s \in 1 .. n : Denotes(shards[s], parts[s])
  PROVE  Denotes(Concatenated(shards), FlattenSeq(parts))
<1> DEFINE A == [s \in DOMAIN shards |-> shards[s].names]
           M == [s \in DOMAIN shards |->
                   [k \in DOMAIN shards[s].recs |-> [shards[s].recs[k] EXCEPT !.off = @ + LengthOf(A, s - 1)]]]
           b == Concatenated(shards)
           whole == FlattenSeq(A)   recs == FlattenSeq(M)   files == FlattenSeq(parts)
           T == Seq(Letter)   R == Seq(Record)
<1>1. b.names = whole /\ b.recs = recs
  BY DEF Concatenated
<1>2. \A s \in 1 .. n : A[s] = shards[s].names /\ A[s] \in T
  BY DEF Denotes
<1>3. A \in Seq(T) /\ Len(A) = n
  <2>1. A \in [1 .. n -> T]
    BY <1>2
  <2> HIDE DEF A, T
  <2>2. QED BY <2>1, FunctionIsSeq
<1> HIDE DEF b
<1>4. /\ whole \in Seq(Letter)
      /\ \E o : Places(o, A, whole) /\ \A m \in 0 .. Len(A) : Len(FlattenSeq(SubSeq(A, 1, m))) = o[m]
  <2> HIDE DEF A
  <2>1. QED BY <1>3, FlattenPlaces
<1>5. PICK o : Places(o, A, whole) /\ \A m \in 0 .. n : Len(FlattenSeq(SubSeq(A, 1, m))) = o[m]
  <2> HIDE DEF A, whole
  <2>1. QED BY <1>3, <1>4
<1>6. /\ Len(whole) \in Nat
      /\ \A s \in 1 .. n : /\ s - 1 \in 0 .. n /\ o[s - 1] \in Nat /\ o[s] = o[s - 1] + Len(A[s]) /\ o[s] <= Len(whole)
                           /\ Len(A[s]) \in Nat /\ LengthOf(A, s - 1) = o[s - 1]
                           /\ \A j \in 1 .. Len(A[s]) : whole[o[s - 1] + j] = A[s][j]
  <2> HIDE DEF A, whole
  <2>1. A \in Seq(Seq(Letter))
    BY <1>3
  <2>2. /\ Len(whole) \in Nat /\ \A s \in 0 .. Len(A) : o[s] \in Nat
        /\ \A s \in 1 .. Len(A) : Len(A[s]) \in Nat
    BY <2>1, <1>4, <1>5, PlacesGrow
  <2>3. \A s \in 1 .. n : s - 1 \in 0 .. n
    OBVIOUS
  <2>4. \A s \in 1 .. n : LengthOf(A, s - 1) = o[s - 1]
    BY <2>3, <1>5 DEF LengthOf
  <2>5. \A s \in 1 .. n : /\ o[s] = o[s - 1] + Len(A[s]) /\ o[s] <= Len(whole)
                          /\ \A j \in 1 .. Len(A[s]) : whole[o[s - 1] + j] = A[s][j]
    BY <1>3, <1>5 DEF Places
  <2>6. QED BY <2>2, <2>3, <2>4, <2>5, <1>3
<1> DEFINE Old(s, j) == shards[s].recs[j]
<1>7. \A s \in 1 .. n : /\ shards[s].recs \in R /\ Len(shards[s].recs) = Len(parts[s]) /\ Len(parts[s]) \in Nat
                        /\ DOMAIN shards[s].recs = 1 .. Len(parts[s])
                        /\ \A j \in 1 .. Len(parts[s]) :
                             /\ Old(s, j) \in Record /\ Old(s, j).parent = parts[s][j].parent
                             /\ Old(s, j).off + Old(s, j).len <= Len(A[s])
                             /\ NameOf(shards[s], Old(s, j)) = parts[s][j].name
  <2>1. ASSUME NEW s \in 1 .. n
        PROVE  /\ shards[s].recs \in R /\ Len(shards[s].recs) = Len(parts[s]) /\ Len(parts[s]) \in Nat
               /\ DOMAIN shards[s].recs = 1 .. Len(parts[s])
               /\ \A j \in 1 .. Len(parts[s]) :
                    /\ Old(s, j) \in Record /\ Old(s, j).parent = parts[s][j].parent
                    /\ Old(s, j).off + Old(s, j).len <= Len(A[s])
                    /\ NameOf(shards[s], Old(s, j)) = parts[s][j].name
    <3> DEFINE old == shards[s].recs
    <3>1. old \in Seq(Record) /\ Len(old) = Len(parts[s])
      BY DEF Denotes
    <3>2. Len(old) \in Nat /\ DOMAIN old = 1 .. Len(old) /\ \A j \in 1 .. Len(old) : old[j] \in Record
      BY <3>1, LenProperties, ElementOfSeq
    <3>3. \A j \in 1 .. Len(parts[s]) : /\ old[j].parent = parts[s][j].parent
                                        /\ old[j].off + old[j].len <= Len(shards[s].names)
                                        /\ NameOf(shards[s], old[j]) = parts[s][j].name
      BY DEF Denotes
    <3>4. A[s] = shards[s].names
      BY <1>2
    <3> HIDE DEF A
    <3>5. QED BY <3>1, <3>2, <3>3, <3>4
  <2> HIDE DEF A, R, Old
  <2>2. QED BY <2>1
<1>8. \A s \in 1 .. n : \A j \in 1 .. Len(parts[s]) :
        /\ Old(s, j).off \in Nat /\ Old(s, j).len \in Nat /\ Old(s, j).parent \in Nat
        /\ Old(s, j) = [off |-> Old(s, j).off, len |-> Old(s, j).len, parent |-> Old(s, j).parent]
  BY <1>7 DEF Record
<1>9. \A s \in 1 .. n : M[s] \in R /\ Len(M[s]) = Len(parts[s])
  <2>1. ASSUME NEW s \in 1 .. n PROVE M[s] \in R /\ Len(M[s]) = Len(parts[s])
    <3>1. M[s] = [j \in 1 .. Len(parts[s]) |-> [Old(s, j) EXCEPT !.off = @ + LengthOf(A, s - 1)]]
      BY <1>7
    <3>2. LengthOf(A, s - 1) \in Nat
      BY <1>6
    <3>3. \A j \in 1 .. Len(parts[s]) : [Old(s, j) EXCEPT !.off = @ + LengthOf(A, s - 1)] \in Record
      <4> DEFINE base == LengthOf(A, s - 1)
      <4>1. base \in Nat
        BY <3>2
      <4> HIDE DEF base, Old
      <4>2. \A j \in 1 .. Len(parts[s]) : Old(s, j) \in [off : Nat, len : Nat, parent : Nat]
        BY <1>7 DEF Record
      <4>3. \A j \in 1 .. Len(parts[s]) : [Old(s, j) EXCEPT !.off = @ + base] \in [off : Nat, len : Nat, parent : Nat]
        BY <4>1, <4>2
      <4>4. QED BY <4>3 DEF Record, base
    <3>4. M[s] \in [1 .. Len(parts[s]) -> Record]
      <4> HIDE DEF M, Old, A
      <4>1. QED BY <3>1, <3>3
    <3> DEFINE m == Len(parts[s])   g == M[s]
    <3>5. m \in Nat /\ g \in [1 .. m -> Record]
      BY <3>4, <1>7
    <3> HIDE DEF m, g
    <3>6. g \in Seq(Record) /\ Len(g) = m
      BY <3>5, FunctionIsSeq
    <3>7. QED BY <3>6 DEF g, m
  <2> HIDE DEF M, R
  <2>2. QED BY <2>1
<1>10. \A s \in 1 .. n : \A j \in 1 .. Len(parts[s]) :
         M[s][j] = [off |-> Old(s, j).off + o[s - 1], len |-> Old(s, j).len, parent |-> Old(s, j).parent]
  <2>1. ASSUME NEW s \in 1 .. n, NEW j \in 1 .. Len(parts[s])
        PROVE  M[s][j] = [off |-> Old(s, j).off + o[s - 1], len |-> Old(s, j).len, parent |-> Old(s, j).parent]
    <3>1. M[s][j] = [Old(s, j) EXCEPT !.off = @ + LengthOf(A, s - 1)]
      BY <1>7
    <3>2. LengthOf(A, s - 1) = o[s - 1]
      BY <1>6
    <3> DEFINE x == Old(s, j)   y == o[s - 1]
    <3>3. x \in [off : Nat, len : Nat, parent : Nat]
      BY <1>7 DEF Record
    <3>4. M[s][j] = [x EXCEPT !.off = @ + y]
      <4> HIDE DEF M, A
      <4>1. QED BY <3>1, <3>2
    <3> HIDE DEF x, y
    <3>5. [x EXCEPT !.off = @ + y] = [off |-> x.off + y, len |-> x.len, parent |-> x.parent]
      <4>1. x = [off |-> x.off, len |-> x.len, parent |-> x.parent]
        BY <3>3
      <4> DEFINE u == x.off   v == x.len   z == x.parent
      <4>2. x = [off |-> u, len |-> v, parent |-> z] /\ x.off = u
        BY <4>1
      <4> HIDE DEF u, v, z
      <4>3. [x EXCEPT !.off = @ + y] = [off |-> u + y, len |-> v, parent |-> z]
        BY <4>2
      <4>4. QED BY <4>3 DEF u, v, z
    <3>6. QED BY <3>4, <3>5 DEF x, y
  <2> HIDE DEF M, Old
  <2>2. QED BY <2>1
<1> HIDE DEF Old
<1>11. M \in Seq(R) /\ Len(M) = n
  <2>1. M \in [1 .. n -> R]
    <3>1. M = [s \in 1 .. n |-> M[s]]
      OBVIOUS
    <3> HIDE DEF M, R
    <3>2. QED BY <1>9, <3>1
  <2> HIDE DEF M, R
  <2>2. QED BY <2>1, FunctionIsSeq
<1> HIDE DEF M, A
<1>12. recs \in R /\ \E p : Places(p, M, recs)
  <2>1. M \in Seq(Seq(Record))
    BY <1>11
  <2>2. QED BY <2>1, FlattenPlaces
<1>13. files \in Seq(FileEntry) /\ \E q : Places(q, parts, files)
  BY FlattenPlaces
<1>14. PICK p : Places(p, M, recs)
  BY <1>12
<1>15. PICK q : Places(q, parts, files)
  BY <1>13
<1> HIDE DEF recs, files, whole
<1>16. Len(recs) = Len(files) /\ \A s \in 0 .. n : p[s] = q[s]
  BY <1>9, <1>11, <1>14, <1>15, PlacesSame
<1>17. ASSUME NEW k \in 1 .. Len(files)
       PROVE  /\ recs[k].parent = files[k].parent
              /\ recs[k].off + recs[k].len <= Len(whole)
              /\ NameOf(b, recs[k]) = files[k].name
  <2>18. PICK s \in 1 .. n : \E j \in 1 .. Len(parts[s]) : k = q[s - 1] + j
    BY <1>15 DEF Places
  <2>1. PICK j \in 1 .. Len(parts[s]) : k = q[s - 1] + j
    BY <2>18
  <2>2. s - 1 \in 0 .. n
    BY <1>6
  <2>3. files[k] = parts[s][j]
    BY <2>1, <1>15 DEF Places
  <2>4. recs[k] = M[s][j]
    <3>1. k = p[s - 1] + j /\ j \in 1 .. Len(M[s]) /\ s \in 1 .. Len(M)
      BY <2>1, <2>2, <1>9, <1>11, <1>16
    <3>2. QED BY <3>1, <1>14 DEF Places
  <2> DEFINE x == Old(s, j)   base == o[s - 1]   arena == A[s]
  <2>5. recs[k] = [off |-> x.off + base, len |-> x.len, parent |-> x.parent]
    BY <2>4, <1>10
  <2>6. /\ x.off \in Nat /\ x.len \in Nat /\ x.parent = parts[s][j].parent /\ x.off + x.len <= Len(arena)
        /\ NameOf(shards[s], x) = parts[s][j].name
    BY <1>7, <1>8
  <2>7. /\ base \in Nat /\ base + Len(arena) <= Len(whole) /\ Len(whole) \in Nat /\ Len(arena) \in Nat
        /\ \A i \in 1 .. Len(arena) : whole[base + i] = arena[i]
    BY <1>6
  <2>8. arena = shards[s].names /\ arena \in Seq(Letter)
    BY <1>2
  <2> HIDE DEF x, base, arena
  <2> DEFINE off == x.off   len == x.len   l == Len(arena)   w == Len(whole)
  <2>9. /\ off \in Nat /\ len \in Nat /\ off + len <= l /\ base \in Nat /\ base + l <= w /\ l \in Nat /\ w \in Nat
        /\ recs[k] = [off |-> off + base, len |-> len, parent |-> x.parent]
    BY <2>5, <2>6, <2>7
  <2> HIDE DEF off, len, l, w
  <2>10. recs[k].off = off + base /\ recs[k].len = len /\ recs[k].parent = x.parent
    BY <2>9
  <2>11. off + base \in Nat /\ (off + base) + len <= w
    BY <2>9
  <2> DEFINE piece == SubSeq(arena, off + 1, off + len)
             moved == SubSeq(whole, (off + base) + 1, (off + base) + len)
  <2>12. piece \in Seq(Letter) /\ Len(piece) = len /\ \A i \in 1 .. len : piece[i] = arena[off + i]
    BY <2>8, <2>9, PieceOf DEF l
  <2>13. moved \in Seq(Letter) /\ Len(moved) = len /\ \A i \in 1 .. len : moved[i] = whole[(off + base) + i]
    BY <2>9, <2>11, <1>4, PieceOf DEF w
  <2>14. NameOf(b, recs[k]) = moved /\ NameOf(shards[s], x) = piece
    <3>1. NameOf(b, recs[k]) = moved
      BY <2>10, <1>1 DEF NameOf
    <3>2. NameOf(shards[s], x) = piece
      BY <2>8 DEF NameOf, off, len
    <3>3. QED BY <3>1, <3>2
  <2> HIDE DEF piece, moved
  <2>15. \A i \in 1 .. len : moved[i] = piece[i]
    <3>1. \A i \in 1 .. len : off + i \in 1 .. l /\ (off + base) + i = base + (off + i)
      BY <2>9
    <3>2. \A i \in 1 .. l : whole[base + i] = arena[i]
      BY <2>7 DEF l
    <3>3. \A i \in 1 .. len : whole[(off + base) + i] = arena[off + i]
      BY <3>1, <3>2
    <3>4. QED BY <3>3, <2>12, <2>13
  <2>16. moved = piece
    BY <2>12, <2>13, <2>15, SeqEqual
  <2>17. QED BY <2>3, <2>6, <2>10, <2>11, <2>14, <2>16 DEF w
<1>18. b.recs \in Seq(Record) /\ b.names \in Seq(Letter)
  BY <1>1, <1>4, <1>12
<1>19. QED BY <1>1, <1>16, <1>17, <1>18 DEF Denotes, b, files

-----------------------------------------------------------------------------
(* What the file holds.                                                    *)

\* What is recorded of the files of a directory.
FilesAt(t) == [j \in DOMAIN FileNames[t.dir] |-> [name |-> FileNames[t.dir][j], parent |-> t.id]]

LEMMA FilesAtIs ==
  ASSUME NEW t \in Task
  PROVE  /\ FilesAt(t) \in Seq(FileEntry)
         /\ DOMAIN FilesAt(t) = DOMAIN FileNames[t.dir] /\ DOMAIN FilesAt(t) = 1 .. Len(FilesAt(t))
         /\ \A j \in DOMAIN FilesAt(t) : FilesAt(t)[j].name = FileNames[t.dir][j] /\ FilesAt(t)[j].parent = t.id
         /\ \A i, j \in DOMAIN FilesAt(t) : FilesAt(t)[i].name = FilesAt(t)[j].name => i = j
<1>1. t.dir \in Dir /\ t.id \in Nat
  BY DEF Task
<1>2. FileNames[t.dir] \in Seq(Seq(Letter)) /\ IsInjective(FileNames[t.dir])
  BY <1>1, IndexFileAssumption
<1> DEFINE s == FileNames[t.dir]
           n == Len(s)
<1>3. n \in Nat /\ DOMAIN s = 1 .. n /\ \A j \in 1 .. n : s[j] \in Seq(Letter)
  BY <1>2, LenProperties, ElementOfSeq
<1>4. FilesAt(t) = [j \in 1 .. n |-> [name |-> s[j], parent |-> t.id]]
  BY <1>3 DEF FilesAt
<1> HIDE DEF n
<1>5. \A i, j \in 1 .. n : s[i] = s[j] => i = j
  BY <1>2, <1>3 DEF IsInjective
<1> HIDE DEF s
<1>6. FilesAt(t) \in [1 .. n -> FileEntry]
  BY <1>1, <1>3, <1>4 DEF FileEntry
<1>7. FilesAt(t) \in Seq(FileEntry) /\ Len(FilesAt(t)) = n
  BY <1>3, <1>6, FunctionIsSeq
<1>8. \A j \in 1 .. n : FilesAt(t)[j].name = s[j] /\ FilesAt(t)[j].parent = t.id
  BY <1>4
<1>9. DOMAIN FilesAt(t) = 1 .. n
  BY <1>4
<1>10. \A i, j \in 1 .. n : FilesAt(t)[i].name = FilesAt(t)[j].name => i = j
  BY <1>5, <1>8
<1>11. DOMAIN FilesAt(t) = DOMAIN FileNames[t.dir] /\ DOMAIN FilesAt(t) = 1 .. Len(FilesAt(t))
  BY <1>3, <1>7, <1>9 DEF s
<1>12. QED BY <1>7, <1>8, <1>9, <1>10, <1>11 DEF s

\* One id, one directory.
LEMMA KnownIds ==
  ASSUME TreeInv, NEW s \in Known, NEW t \in Known, s.id = t.id
  PROVE  s = t
<1>1. \A m, n \in AllNodes : m.id = n.id => m = n
  BY DEF TreeInv, IdInv
<1>2. \A n \in AllNodes : n.id > 0
  BY DEF TreeInv, IdInv
<1>3. \A n \in AllNodes : TaskOf(n).id = n.id /\ TaskOf(n).id # 0
  BY <1>2 DEF TaskOf
<1>4. \A u \in Known : u = TopTask \/ \E n \in AllNodes : u = TaskOf(n)
  BY DEF Known
<1>5. TopTask.id = 0
  BY DEF TopTask
<1>6. CASE s = TopTask
  BY <1>3, <1>4, <1>5, <1>6
<1>7. ASSUME NEW m \in AllNodes, s = TaskOf(m) PROVE s = t
  <2>1. t # TopTask
    BY <1>3, <1>5, <1>7
  <2>2. PICK n \in AllNodes : t = TaskOf(n)
    BY <1>4, <2>1
  <2>3. m.id = n.id
    BY <1>3, <1>7, <2>2
  <2>4. QED BY <1>1, <1>7, <2>2, <2>3
<1>8. QED BY <1>4, <1>6, <1>7

\* What has been listed is a list of known tasks.
LEMMA FiledType ==
  ASSUME FileInv
  PROVE  /\ AllFiled \subseteq Known /\ AllFiled \subseteq Task
         /\ \A w \in Worker : /\ filed[w] \in Seq(Task) /\ DOMAIN filed[w] = 1 .. Len(filed[w])
                              /\ Len(filed[w]) \in Nat
                              /\ \A k \in DOMAIN filed[w] : filed[w][k] \in AllFiled
<1>1. TypeOK /\ KnownInv
  BY DEF FileInv, TreeInv, BaseInv
<1>2. AllFiled \subseteq Known
  BY <1>1 DEF KnownInv, AllFiled
<1>3. \A w \in Worker : filed[w] \in Seq(Task)
  BY <1>1 DEF TypeOK
<1>4. \A w \in Worker : ToSet(filed[w]) \subseteq Task
  BY <1>3, SetOfSeq
<1>5. AllFiled \subseteq Task
  BY <1>4 DEF AllFiled
<1>6. \A w \in Worker : DOMAIN filed[w] = 1 .. Len(filed[w]) /\ Len(filed[w]) \in Nat
  BY <1>3, LenProperties
<1>7. \A w \in Worker : \A k \in DOMAIN filed[w] : filed[w][k] \in AllFiled
  BY DEF AllFiled, ToSet
<1>8. QED BY <1>2, <1>3, <1>5, <1>6, <1>7

\* A file is recorded once: under one directory, for which one worker has one
\* place.
OncePlace(w, v, k, l) ==
  \A i \in DOMAIN FilesAt(filed[w][k]) : \A j \in DOMAIN FilesAt(filed[v][l]) :
    FilesAt(filed[w][k])[i] = FilesAt(filed[v][l])[j] => w = v /\ k = l /\ i = j

LEMMA RecordedOnce ==
  ASSUME FileInv, NEW w \in Worker, NEW v \in Worker,
         NEW k \in DOMAIN filed[w], NEW l \in DOMAIN filed[v]
  PROVE  OncePlace(w, v, k, l)
<1> SUFFICES ASSUME NEW i \in DOMAIN FilesAt(filed[w][k]), NEW j \in DOMAIN FilesAt(filed[v][l]),
                    FilesAt(filed[w][k])[i] = FilesAt(filed[v][l])[j]
             PROVE  w = v /\ k = l /\ i = j
  BY DEF OncePlace
<1> DEFINE s == filed[w][k]
           t == filed[v][l]
<1>1. s \in Known /\ t \in Known /\ s \in Task /\ t \in Task
  BY FiledType
<1>2. FiledOnce /\ TreeInv
  BY DEF FileInv
<1>3. s.dir = t.dir => w = v /\ k = l
  BY <1>2 DEF FiledOnce
<1> HIDE DEF s, t
<1>4. FilesAt(s)[i] = FilesAt(t)[j] /\ i \in DOMAIN FilesAt(s) /\ j \in DOMAIN FilesAt(t)
  BY DEF s, t
<1>5. FilesAt(s)[i].parent = s.id
  BY <1>1, <1>4, FilesAtIs
<1>6. FilesAt(t)[j].parent = t.id
  BY <1>1, <1>4, FilesAtIs
<1>7. s = t
  BY <1>1, <1>2, <1>4, <1>5, <1>6, KnownIds
<1>8. i = j
  BY <1>1, <1>4, <1>7, FilesAtIs
<1>9. QED BY <1>3, <1>7, <1>8

\* What a worker brings.
LEMMA FilesOfIs ==
  ASSUME FileInv, NEW w \in Worker
  PROVE  /\ FilesOf(w) \in Seq(FileEntry) /\ IsInjective(FilesOf(w))
         /\ \A x : x \in ToSet(FilesOf(w))
                   <=> \E k \in DOMAIN filed[w] : x \in ToSet(FilesAt(filed[w][k]))
<1> DEFINE n == Len(filed[w])
           parts == [k \in DOMAIN filed[w] |-> FilesAt(filed[w][k])]
<1>1. /\ DOMAIN filed[w] = 1 .. n /\ n \in Nat
      /\ \A k \in DOMAIN filed[w] : filed[w][k] \in AllFiled
      /\ AllFiled \subseteq Task
  BY FiledType
<1>2. FilesOf(w) = FlattenSeq(parts)
  BY DEF FilesOf, FilesAt
<1>3. \A k \in 1 .. n : parts[k] = FilesAt(filed[w][k])
  BY <1>1
<1>4. \A k \in 1 .. n : FilesAt(filed[w][k]) \in Seq(FileEntry)
  BY <1>1, FilesAtIs
<1>5. parts \in [1 .. n -> Seq(FileEntry)]
  BY <1>1, <1>4
<1> HIDE DEF n, parts
<1>6. parts \in Seq(Seq(FileEntry)) /\ Len(parts) = n
  BY <1>1, <1>5, FunctionIsSeq
<1>7. \A k \in 1 .. n : DOMAIN FilesAt(filed[w][k]) = 1 .. Len(FilesAt(filed[w][k]))
  BY <1>1, FilesAtIs
<1>8. ASSUME NEW k \in 1 .. n, NEW l \in 1 .. n, NEW i \in 1 .. Len(parts[k]), NEW j \in 1 .. Len(parts[l]),
             parts[k][i] = parts[l][j]
      PROVE  k = l /\ i = j
  <2>1. /\ k \in DOMAIN filed[w] /\ l \in DOMAIN filed[w]
        /\ i \in DOMAIN FilesAt(filed[w][k]) /\ j \in DOMAIN FilesAt(filed[w][l])
        /\ FilesAt(filed[w][k])[i] = FilesAt(filed[w][l])[j]
    BY <1>1, <1>3, <1>7, <1>8
  <2>2. OncePlace(w, w, k, l)
    BY <2>1, RecordedOnce
  <2>3. QED BY <2>1, <2>2 DEF OncePlace
<1>9. IsInjective(FlattenSeq(parts)) /\ FlattenSeq(parts) \in Seq(FileEntry)
      /\ \A x : x \in ToSet(FlattenSeq(parts))
                   <=> \E s \in 1 .. Len(parts) : \E i \in 1 .. Len(parts[s]) : x = parts[s][i]
  <2>1. \A s, t \in 1 .. Len(parts) : \A i \in 1 .. Len(parts[s]) : \A j \in 1 .. Len(parts[t]) :
          parts[s][i] = parts[t][j] => s = t /\ i = j
    BY <1>6, <1>8
  <2>2. /\ FlattenSeq(parts) \in Seq(FileEntry)
        /\ \A x : x \in ToSet(FlattenSeq(parts))
                   <=> \E s \in 1 .. Len(parts) : \E i \in 1 .. Len(parts[s]) : x = parts[s][i]
        /\ (\A s, t \in 1 .. Len(parts) : \A i \in 1 .. Len(parts[s]) : \A j \in 1 .. Len(parts[t]) :
              parts[s][i] = parts[t][j] => s = t /\ i = j)
           => IsInjective(FlattenSeq(parts))
    BY <1>6, FlattenHolds
  <2>3. IsInjective(FlattenSeq(parts))
    BY ONLY <2>1, <2>2
  <2>4. QED BY <2>2, <2>3
<1>10. \A k \in 1 .. n : \A x : x \in ToSet(FilesAt(filed[w][k])) <=> \E i \in 1 .. Len(parts[k]) : x = parts[k][i]
  BY <1>3, <1>7 DEF ToSet
<1>11. \A x : x \in ToSet(FlattenSeq(parts)) <=> \E k \in 1 .. n : x \in ToSet(FilesAt(filed[w][k]))
  <2>1. ASSUME NEW x, x \in ToSet(FlattenSeq(parts)) PROVE \E k \in 1 .. n : x \in ToSet(FilesAt(filed[w][k]))
    <3>1. PICK k \in 1 .. Len(parts) : \E i \in 1 .. Len(parts[k]) : x = parts[k][i]
      BY <1>9, <2>1
    <3>2. k \in 1 .. n
      BY <1>6
    <3>3. x \in ToSet(FilesAt(filed[w][k]))
      BY <1>10, <3>1, <3>2
    <3>4. QED BY <3>2, <3>3
  <2>2. ASSUME NEW x, NEW k \in 1 .. n, x \in ToSet(FilesAt(filed[w][k])) PROVE x \in ToSet(FlattenSeq(parts))
    <3>1. \E i \in 1 .. Len(parts[k]) : x = parts[k][i]
      BY <1>10, <2>2
    <3>2. k \in 1 .. Len(parts)
      BY <1>6
    <3>3. QED BY <1>9, <3>1, <3>2
  <2>3. QED BY <2>1, <2>2
<1>12. QED BY <1>1, <1>2, <1>9, <1>11

\* The shards, joined, hold every file of every listed directory, once.
LEMMA FilesJoined ==
  ASSUME FileInv
  PROVE  \E files \in Seq(FileEntry) :
           /\ Denotes(Concatenated(Shards), files) /\ IsInjective(files)
           /\ \A x : x \in ToSet(files) <=> \E t \in AllFiled : x \in ToSet(FilesAt(t))
<1> DEFINE n == Cardinality(Worker)
           workers == SetToSeq(Worker)
           parts == [i \in 1 .. n |-> FilesOf(workers[i])]
           files == FlattenSeq(parts)
<1>1. n \in Nat /\ workers \in [1 .. n -> Worker]
  BY ScanAssumption, ListOfSet
<1>2. \A i, j \in 1 .. n : workers[i] = workers[j] => i = j
  BY ScanAssumption, ListedOnce
<1>3. \A w \in Worker : \E i \in 1 .. n : workers[i] = w
  <2>1. Cardinality(1 .. n) = n /\ IsFiniteSet(Worker)
    BY <1>1, FS_Interval, ScanAssumption
  <2>2. workers \in Injection(1 .. n, Worker)
    BY <1>1, <1>2 DEF Injection, IsInjective
  <2> DEFINE S == 1 .. n
  <2> HIDE DEF S, workers
  <2>3. workers \in Surjection(S, Worker)
    BY <2>1, <2>2, FS_Injection DEF S
  <2>4. QED BY <2>3 DEF Surjection, S
<1>4. Shards = [i \in 1 .. n |-> ShardOf(FilesOf(workers[i]))]
  BY <1>1 DEF Shards
<1> HIDE DEF n, workers
<1>5. \A i \in 1 .. n : parts[i] = FilesOf(workers[i]) /\ workers[i] \in Worker
  BY <1>1
<1>6. parts \in [1 .. n -> Seq(FileEntry)]
  BY <1>1, FilesOfIs
<1> HIDE DEF parts
<1>7. parts \in Seq(Seq(FileEntry)) /\ Len(parts) = n
  BY <1>1, <1>6, FunctionIsSeq
<1>8. Denotes(Concatenated(Shards), files)
  <2>1. \A i \in 1 .. n : Denotes(Shards[i], parts[i])
    <3> SUFFICES ASSUME NEW i \in 1 .. n PROVE Denotes(Shards[i], parts[i])
      OBVIOUS
    <3>1. Shards[i] = ShardOf(parts[i]) /\ parts[i] \in Seq(FileEntry)
      BY <1>4, <1>5, <1>6
    <3>2. QED BY <3>1, ShardDenotes
  <2>2. DOMAIN Shards = 1 .. n
    BY <1>4
  <2>3. QED BY <1>1, <1>7, <2>1, <2>2, ConcatenatedDenotes
<1>9. \A i \in 1 .. n : DOMAIN parts[i] = 1 .. Len(parts[i])
  BY <1>6, LenProperties
<1>10. /\ files \in Seq(FileEntry)
       /\ \A x : x \in ToSet(files)
                    <=> \E s \in 1 .. Len(parts) : \E i \in 1 .. Len(parts[s]) : x = parts[s][i]
       /\ (\A s, t \in 1 .. Len(parts) : \A i \in 1 .. Len(parts[s]) : \A j \in 1 .. Len(parts[t]) :
             parts[s][i] = parts[t][j] => s = t /\ i = j)
          => IsInjective(files)
  BY <1>7, FlattenHolds
<1> HIDE DEF files
<1>11. \A s \in 1 .. n : \A x : (\E i \in 1 .. Len(parts[s]) : x = parts[s][i]) <=> x \in ToSet(parts[s])
  BY <1>9 DEF ToSet
<1>12. ASSUME NEW s \in 1 .. n, NEW x
       PROVE  x \in ToSet(parts[s]) <=> \E k \in DOMAIN filed[workers[s]] : x \in ToSet(FilesAt(filed[workers[s]][k]))
  <2> DEFINE w == workers[s]
  <2>1. w \in Worker /\ parts[s] = FilesOf(w)
    BY <1>5
  <2> HIDE DEF w
  <2>2. x \in ToSet(FilesOf(w)) <=> \E k \in DOMAIN filed[w] : x \in ToSet(FilesAt(filed[w][k]))
    BY <2>1, FilesOfIs
  <2>3. QED BY <2>1, <2>2 DEF w
<1>13. \A x : x \in ToSet(files) <=> \E t \in AllFiled : x \in ToSet(FilesAt(t))
  <2>1. ASSUME NEW x, x \in ToSet(files) PROVE \E t \in AllFiled : x \in ToSet(FilesAt(t))
    <3>1. PICK s \in 1 .. n : x \in ToSet(parts[s])
      BY <1>7, <1>10, <1>11, <2>1
    <3>2. PICK k \in DOMAIN filed[workers[s]] : x \in ToSet(FilesAt(filed[workers[s]][k]))
      BY <1>12, <3>1
    <3>3. filed[workers[s]][k] \in AllFiled
      BY <1>5, FiledType
    <3>4. QED BY <3>2, <3>3
  <2>2. ASSUME NEW x, NEW t \in AllFiled, x \in ToSet(FilesAt(t)) PROVE x \in ToSet(files)
    <3>1. PICK w \in Worker : t \in ToSet(filed[w])
      BY DEF AllFiled
    <3>2. PICK k \in DOMAIN filed[w] : filed[w][k] = t
      BY <3>1 DEF ToSet
    <3>3. PICK s \in 1 .. n : workers[s] = w
      BY <1>3
    <3>4. x \in ToSet(parts[s])
      BY <1>12, <2>2, <3>2, <3>3
    <3>5. \E i \in 1 .. Len(parts[s]) : x = parts[s][i]
      BY <1>11, <3>4
    <3>6. QED BY <1>7, <1>10, <3>5
  <2>3. QED BY <2>1, <2>2
<1>14. ASSUME NEW s \in 1 .. n, NEW t \in 1 .. n, NEW x, x \in ToSet(parts[s]), x \in ToSet(parts[t])
       PROVE  s = t
  <2>1. PICK k \in DOMAIN filed[workers[s]] : x \in ToSet(FilesAt(filed[workers[s]][k]))
    BY <1>12, <1>14
  <2>2. PICK l \in DOMAIN filed[workers[t]] : x \in ToSet(FilesAt(filed[workers[t]][l]))
    BY <1>12, <1>14
  <2>3. workers[s] \in Worker /\ workers[t] \in Worker
    BY <1>5
  <2>4. OncePlace(workers[s], workers[t], k, l)
    BY <2>3, RecordedOnce
  <2>5. workers[s] = workers[t]
    BY <2>1, <2>2, <2>4 DEF OncePlace, ToSet
  <2>6. QED BY <1>2, <2>5
<1>15. \A s \in 1 .. n : IsInjective(parts[s])
  BY <1>5, FilesOfIs
<1>16. IsInjective(files)
  <2>1. ASSUME NEW s \in 1 .. Len(parts), NEW t \in 1 .. Len(parts),
               NEW i \in 1 .. Len(parts[s]), NEW j \in 1 .. Len(parts[t]), parts[s][i] = parts[t][j]
        PROVE  s = t /\ i = j
    <3>1. s \in 1 .. n /\ t \in 1 .. n
      BY <1>7
    <3>2. parts[s][i] \in ToSet(parts[s]) /\ parts[s][i] \in ToSet(parts[t])
      BY <1>11, <2>1, <3>1
    <3>3. s = t
      BY <1>14, <3>1, <3>2
    <3>4. i \in DOMAIN parts[s] /\ j \in DOMAIN parts[s] /\ parts[s][i] = parts[s][j]
      BY <1>9, <2>1, <3>1, <3>3
    <3>5. QED BY <1>15, <3>1, <3>3, <3>4 DEF IsInjective
  <2>2. \A s, t \in 1 .. Len(parts) : \A i \in 1 .. Len(parts[s]) : \A j \in 1 .. Len(parts[t]) :
          parts[s][i] = parts[t][j] => s = t /\ i = j
    BY <2>1
  <2>3. QED BY ONLY <1>10, <2>2
<1>17. QED BY <1>8, <1>10, <1>13, <1>16

\* What the file holds are the files of the listed directories, by parent.
Holds(b, sorted) ==
  /\ sorted \in Seq(FileEntry) /\ Denotes(b, sorted) /\ IsInjective(sorted)
  /\ \A x : x \in ToSet(sorted) <=> \E t \in AllFiled : x \in ToSet(FilesAt(t))
  /\ \A k, m \in 1 .. Len(sorted) : k < m => sorted[k].parent <= sorted[m].parent

LEMMA FilesSorted ==
  ASSUME FileInv
  PROVE  \E sorted : Holds(Built, sorted)
<1>1. PICK files \in Seq(FileEntry) :
        /\ Denotes(Concatenated(Shards), files) /\ IsInjective(files)
        /\ \A x : x \in ToSet(files) <=> \E t \in AllFiled : x \in ToSet(FilesAt(t))
  BY FilesJoined
<1> DEFINE n == Len(files)
           all == Concatenated(Shards)
           order == Order(all.recs, DOMAIN all.recs)
           sorted == [k \in 1 .. n |-> files[order[k]]]
<1> HIDE DEF all
<1>2. Denotes(all, files)
  BY <1>1 DEF all
<1>3. /\ sorted \in Seq(FileEntry) /\ Len(sorted) = n /\ n \in Nat
      /\ Denotes(SortedByParent(all), sorted)
      /\ \A k, m \in 1 .. n : k < m => sorted[k].parent <= sorted[m].parent
      /\ order \in [1 .. n -> 1 .. n]
      /\ \A k, m \in 1 .. n : order[k] = order[m] => k = m
      /\ \A i \in 1 .. n : \E k \in 1 .. n : order[k] = i
  BY <1>2, SortedDenotes
<1>4. Denotes(Built, sorted)
  <2>1. Built.names = SortedByParent(all).names /\ Built.recs = SortedByParent(all).recs
    BY DEF Built, all
  <2> HIDE DEF sorted
  <2>2. QED BY <1>3, <2>1 DEF Denotes, NameOf
<1> HIDE DEF order
<1>5. DOMAIN files = 1 .. n /\ DOMAIN sorted = 1 .. n
  BY LenProperties
<1>6. \A k \in 1 .. n : sorted[k] = files[order[k]] /\ order[k] \in 1 .. n
  BY <1>3
<1> HIDE DEF sorted, n
<1>7. IsInjective(sorted)
  <2>1. \A k, m \in 1 .. n : files[k] = files[m] => k = m
    BY <1>1, <1>5 DEF IsInjective
  <2>2. ASSUME NEW k \in 1 .. n, NEW m \in 1 .. n, sorted[k] = sorted[m] PROVE k = m
    <3>1. files[order[k]] = files[order[m]] /\ order[k] \in 1 .. n /\ order[m] \in 1 .. n
      BY <1>6, <2>2
    <3>2. order[k] = order[m]
      BY <2>1, <3>1
    <3>3. QED BY <1>3, <3>2
  <2>3. QED BY <1>5, <2>2 DEF IsInjective
<1>8. ToSet(sorted) = ToSet(files)
  BY <1>3, <1>5, <1>6 DEF ToSet
<1>9. Holds(Built, sorted)
  BY <1>1, <1>3, <1>4, <1>7, <1>8 DEF Holds
<1>10. QED BY <1>9

-----------------------------------------------------------------------------
(* The lookups.                                                            *)

\* files_in_dir finds the files of a directory, each once.
LEMMA RecordsFound ==
  ASSUME NEW b, NEW sorted, Holds(b, sorted), NEW i \in Nat
  PROVE  LET found == NamesInDir(b, i)
         IN  /\ \A x : x \in ToSet(found) <=> \E e \in ToSet(sorted) : e.parent = i /\ e.name = x
             /\ IsInjective(found)
<1> DEFINE n == Len(sorted)
           parent == [k \in 1 .. n |-> sorted[k].parent]
           lo == Max({0} \cup {k \in 1 .. n : \A j \in 1 .. k : parent[j] < i})
           hi == Max({0} \cup {k \in 1 .. n : \A j \in 1 .. k : parent[j] <= i})
           found == NamesInDir(b, i)
<1>1. /\ n \in Nat /\ DOMAIN sorted = 1 .. n
      /\ \A k \in 1 .. n : sorted[k] \in FileEntry /\ sorted[k].parent \in Nat
  <2>1. sorted \in Seq(FileEntry)
    BY DEF Holds
  <2>2. n \in Nat /\ DOMAIN sorted = 1 .. n /\ \A k \in 1 .. n : sorted[k] \in FileEntry
    BY <2>1, LenProperties, ElementOfSeq
  <2>3. \A e \in FileEntry : e.parent \in Nat
    BY DEF FileEntry
  <2>4. QED BY <2>2, <2>3
<1>2. DOMAIN b.recs = 1 .. n /\ \A k \in 1 .. n : b.recs[k].parent = sorted[k].parent
  BY LenProperties DEF Holds, Denotes
<1>3. \A k \in 1 .. n : NameOf(b, b.recs[k]) = sorted[k].name
  BY DEF Holds, Denotes
<1>4. \A k, m \in 1 .. n : k < m => sorted[k].parent <= sorted[m].parent
  BY DEF Holds
<1> HIDE DEF n
<1>5. \A k \in 1 .. n : parent[k] = sorted[k].parent
  OBVIOUS
<1>6. PartitionPoint(b.recs, LAMBDA r : r.parent < i) = lo
  <2>1. {k \in DOMAIN b.recs : \A j \in 1 .. k : b.recs[j].parent < i} = {k \in 1 .. n : \A j \in 1 .. k : parent[j] < i}
    <3>1. \A k \in 1 .. n : \A j \in 1 .. k : b.recs[j].parent = parent[j]
      <4>1. \A k \in 1 .. n : \A j \in 1 .. k : j \in 1 .. n
        BY <1>1
      <4>2. QED BY <4>1, <1>2, <1>5
    <3> HIDE DEF parent
    <3>2. QED BY <1>2, <3>1
  <2>2. QED BY <2>1 DEF PartitionPoint
<1>7. PartitionPoint(b.recs, LAMBDA r : r.parent <= i) = hi
  <2>1. {k \in DOMAIN b.recs : \A j \in 1 .. k : b.recs[j].parent <= i} = {k \in 1 .. n : \A j \in 1 .. k : parent[j] <= i}
    <3>1. \A k \in 1 .. n : \A j \in 1 .. k : b.recs[j].parent = parent[j]
      <4>1. \A k \in 1 .. n : \A j \in 1 .. k : j \in 1 .. n
        BY <1>1
      <4>2. QED BY <4>1, <1>2, <1>5
    <3> HIDE DEF parent
    <3>2. QED BY <1>2, <3>1
  <2>2. QED BY <2>1 DEF PartitionPoint
<1>8. found = [k \in 1 .. hi - lo |-> NameOf(b, b.recs[lo + k])]
  <2> HIDE DEF lo, hi
  <2>1. QED BY <1>6, <1>7 DEF NamesInDir
<1>9. /\ lo \in 0 .. n /\ hi \in 0 .. n /\ lo <= hi
      /\ \A k \in 1 .. n : parent[k] = i <=> lo < k /\ k <= hi
  <2>1. \A k \in 1 .. n : parent[k] \in Nat
    BY <1>1, <1>5
  <2>2. \A k, m \in 1 .. n : k < m => parent[k] <= parent[m]
    BY <1>4, <1>5
  <2> HIDE DEF parent
  <2>3. n \in Nat
    BY <1>1
  <2>4. StartsAt(lo, n, parent, i) /\ EndsAt(hi, n, parent, i)
    BY DEF StartsAt, EndsAt
  <2> HIDE DEF lo, hi
  <2>5. QED BY <2>1, <2>2, <2>3, <2>4, PointsOf
<1> HIDE DEF lo, hi, parent, found
<1>10. \A k \in 1 .. hi - lo : /\ lo + k \in 1 .. n /\ lo < lo + k /\ lo + k <= hi
  BY <1>1, <1>9
<1>11. \A k \in 1 .. hi - lo : found[k] = sorted[lo + k].name /\ sorted[lo + k].parent = i
  <2> SUFFICES ASSUME NEW k \in 1 .. hi - lo PROVE found[k] = sorted[lo + k].name /\ sorted[lo + k].parent = i
    OBVIOUS
  <2> DEFINE m == lo + k
  <2>1. m \in 1 .. n /\ lo < m /\ m <= hi
    BY <1>10
  <2>2. found[k] = NameOf(b, b.recs[m])
    BY <1>8
  <2> HIDE DEF m
  <2>3. NameOf(b, b.recs[m]) = sorted[m].name /\ sorted[m].parent = i
    BY <1>3, <1>5, <1>9, <2>1
  <2>4. QED BY <2>2, <2>3 DEF m
<1>12. ASSUME NEW e \in ToSet(sorted), e.parent = i PROVE \E k \in 1 .. hi - lo : found[k] = e.name
  <2>1. PICK m \in 1 .. n : sorted[m] = e
    BY <1>1 DEF ToSet
  <2>2. lo < m /\ m <= hi
    BY <1>5, <1>9, <1>12, <2>1
  <2>3. m - lo \in 1 .. hi - lo /\ lo + (m - lo) = m
    BY <1>1, <1>9, <2>2
  <2>4. found[m - lo] = sorted[lo + (m - lo)].name
    BY <1>11, <2>3
  <2>5. QED BY <2>1, <2>3, <2>4
<1>13. ASSUME NEW x PROVE x \in ToSet(found) <=> \E e \in ToSet(sorted) : e.parent = i /\ e.name = x
  <2>1. x \in ToSet(found) <=> \E k \in 1 .. hi - lo : found[k] = x
    BY <1>8 DEF ToSet
  <2>2. ASSUME NEW k \in 1 .. hi - lo, found[k] = x PROVE \E e \in ToSet(sorted) : e.parent = i /\ e.name = x
    <3>1. sorted[lo + k] \in ToSet(sorted)
      BY <1>1, <1>10 DEF ToSet
    <3>2. QED BY <1>11, <2>2, <3>1
  <2>3. QED BY <1>12, <2>1, <2>2
<1>14. IsInjective(found)
  <2> SUFFICES ASSUME NEW k \in 1 .. hi - lo, NEW m \in 1 .. hi - lo, found[k] = found[m] PROVE k = m
    BY <1>8 DEF IsInjective
  <2> DEFINE p == lo + k
             q == lo + m
  <2>1. p \in 1 .. n /\ q \in 1 .. n
    BY <1>10
  <2>2. found[k] = sorted[p].name /\ sorted[p].parent = i /\ found[m] = sorted[q].name /\ sorted[q].parent = i
    BY <1>11
  <2>5. p = q => k = m
    BY <1>9
  <2> HIDE DEF p, q
  <2>3. sorted[p] = sorted[q]
    <3>1. \A d, e \in FileEntry : d.name = e.name /\ d.parent = e.parent => d = e
      BY DEF FileEntry
    <3>2. QED BY <1>1, <2>1, <2>2, <3>1
  <2>4. p = q
    BY <1>1, <2>1, <2>3 DEF Holds, IsInjective
  <2>6. QED BY <2>4, <2>5
<1>15. QED BY <1>13, <1>14 DEF found

\* child_dirs finds the listed entries of a table that have a parent, each once.
LEMMA IdsFound ==
  ASSUME NEW b, NEW entries, entries \subseteq Nat, IsFiniteSet(entries),
         \A e \in entries : b.nodes[e].parent \in Nat,
         b.byParent = Order(b.nodes, entries), NEW i \in Nat
  PROVE  LET found == ChildDirIds(b, i)
         IN  /\ \A x : x \in ToSet(found) <=> x \in entries /\ b.nodes[x].parent = i
             /\ IsInjective(found)
<1> DEFINE n == Cardinality(entries)
           order == Order(b.nodes, entries)
           parent == [k \in 1 .. n |-> b.nodes[order[k]].parent]
           lo == Max({0} \cup {k \in 1 .. n : \A j \in 1 .. k : parent[j] < i})
           hi == Max({0} \cup {k \in 1 .. n : \A j \in 1 .. k : parent[j] <= i})
           found == ChildDirIds(b, i)
<1>1. /\ n \in Nat /\ order \in [1 .. n -> entries]
      /\ \A k, m \in 1 .. n : order[k] = order[m] => k = m
      /\ \A e \in entries : \E k \in 1 .. n : order[k] = e
      /\ \A k, m \in 1 .. n : k < m => b.nodes[order[k]].parent <= b.nodes[order[m]].parent
  <2> DEFINE list == b.nodes
  <2>1. \A e \in entries : list[e].parent \in Nat
    OBVIOUS
  <2> HIDE DEF list
  <2>2. /\ Cardinality(entries) \in Nat /\ Order(list, entries) \in [1 .. Cardinality(entries) -> entries]
        /\ \A k, m \in 1 .. Cardinality(entries) : Order(list, entries)[k] = Order(list, entries)[m] => k = m
        /\ \A e \in entries : \E k \in 1 .. Cardinality(entries) : Order(list, entries)[k] = e
        /\ \A k, m \in 1 .. Cardinality(entries) :
             k < m => list[Order(list, entries)[k]].parent <= list[Order(list, entries)[m]].parent
    BY <2>1, OrderIs
  <2>3. QED BY <2>2 DEF list
<1> HIDE DEF n, order
<1>2. b.byParent = order
  BY DEF order
<1>3. DOMAIN order = 1 .. n /\ \A k \in 1 .. n : order[k] \in entries
  BY <1>1
<1>4. \A k \in 1 .. n : parent[k] = b.nodes[order[k]].parent /\ parent[k] \in Nat
  BY <1>3
<1>5. PartitionPoint(b.byParent, LAMBDA id : b.nodes[id].parent < i) = lo
  <2>1. {k \in DOMAIN order : \A j \in 1 .. k : b.nodes[order[j]].parent < i} = {k \in 1 .. n : \A j \in 1 .. k : parent[j] < i}
    <3>1. \A k \in 1 .. n : \A j \in 1 .. k : b.nodes[order[j]].parent = parent[j]
      <4>1. \A k \in 1 .. n : \A j \in 1 .. k : j \in 1 .. n
        BY <1>1
      <4>2. QED BY <4>1, <1>4
    <3> HIDE DEF parent
    <3>2. QED BY <1>3, <3>1
  <2>2. QED BY <1>2, <2>1 DEF PartitionPoint
<1>6. PartitionPoint(b.byParent, LAMBDA id : b.nodes[id].parent <= i) = hi
  <2>1. {k \in DOMAIN order : \A j \in 1 .. k : b.nodes[order[j]].parent <= i} = {k \in 1 .. n : \A j \in 1 .. k : parent[j] <= i}
    <3>1. \A k \in 1 .. n : \A j \in 1 .. k : b.nodes[order[j]].parent = parent[j]
      <4>1. \A k \in 1 .. n : \A j \in 1 .. k : j \in 1 .. n
        BY <1>1
      <4>2. QED BY <4>1, <1>4
    <3> HIDE DEF parent
    <3>2. QED BY <1>3, <3>1
  <2>2. QED BY <1>2, <2>1 DEF PartitionPoint
<1>7. found = SubSeq(order, lo + 1, hi)
  <2> HIDE DEF lo, hi
  <2>1. QED BY <1>2, <1>5, <1>6 DEF ChildDirIds
<1>8. /\ lo \in 0 .. n /\ hi \in 0 .. n /\ lo <= hi
      /\ \A k \in 1 .. n : parent[k] = i <=> lo < k /\ k <= hi
  <2>1. \A k \in 1 .. n : parent[k] \in Nat
    BY <1>4
  <2>2. \A k, m \in 1 .. n : k < m => parent[k] <= parent[m]
    BY <1>1, <1>4
  <2> HIDE DEF parent
  <2>3. n \in Nat
    BY <1>1
  <2>4. StartsAt(lo, n, parent, i) /\ EndsAt(hi, n, parent, i)
    BY DEF StartsAt, EndsAt
  <2> HIDE DEF lo, hi
  <2>5. QED BY <2>1, <2>2, <2>3, <2>4, PointsOf
<1> HIDE DEF lo, hi, parent, found
<1>9. \A k \in 1 .. hi - lo : lo + k \in 1 .. n /\ lo < lo + k /\ lo + k <= hi
  BY <1>1, <1>8
<1>10. DOMAIN found = 1 .. hi - lo /\ \A k \in 1 .. hi - lo : found[k] = order[lo + k]
  <2>1. lo \in Nat /\ hi \in Nat /\ lo <= hi
    BY <1>8
  <2>2. \A k \in lo + 1 .. hi : order[k] \in entries
    <3>1. \A k \in lo + 1 .. hi : k \in 1 .. n
      BY <1>1, <1>8
    <3>2. QED BY <1>3, <3>1
  <2>3. /\ SubSeq(order, lo + 1, hi) \in Seq(entries) /\ Len(SubSeq(order, lo + 1, hi)) = hi - lo
        /\ \A k \in 1 .. hi - lo : SubSeq(order, lo + 1, hi)[k] = order[lo + k]
    BY <2>1, <2>2, Ending
  <2>4. QED BY <1>7, <2>3, LenProperties
<1>11. ASSUME NEW x PROVE x \in ToSet(found) <=> x \in entries /\ b.nodes[x].parent = i
  <2>1. x \in ToSet(found) <=> \E k \in 1 .. hi - lo : found[k] = x
    BY <1>10 DEF ToSet
  <2>2. ASSUME NEW k \in 1 .. hi - lo, found[k] = x PROVE x \in entries /\ b.nodes[x].parent = i
    <3> DEFINE m == lo + k
    <3>1. m \in 1 .. n /\ lo < m /\ m <= hi /\ x = order[m]
      BY <1>9, <1>10, <2>2
    <3> HIDE DEF m
    <3>2. QED BY <1>3, <1>4, <1>8, <3>1
  <2>3. ASSUME x \in entries, b.nodes[x].parent = i PROVE \E k \in 1 .. hi - lo : found[k] = x
    <3>1. PICK m \in 1 .. n : order[m] = x
      BY <1>1, <2>3
    <3>2. lo < m /\ m <= hi
      BY <1>4, <1>8, <2>3, <3>1
    <3>3. m - lo \in 1 .. hi - lo /\ lo + (m - lo) = m
      BY <1>1, <1>8, <3>2
    <3>4. QED BY <1>10, <3>1, <3>3
  <2>4. QED BY <2>1, <2>2, <2>3
<1>12. IsInjective(found)
  <2> SUFFICES ASSUME NEW k \in 1 .. hi - lo, NEW m \in 1 .. hi - lo, found[k] = found[m] PROVE k = m
    BY <1>10 DEF IsInjective
  <2> DEFINE p == lo + k
             q == lo + m
  <2>1. p \in 1 .. n /\ q \in 1 .. n /\ order[p] = order[q]
    BY <1>9, <1>10
  <2>2. p = q => k = m
    BY <1>8
  <2> HIDE DEF p, q
  <2>3. QED BY <1>1, <2>1, <2>2
<1>13. QED BY <1>11, <1>12 DEF found

\* The end of scan puts every node where its id says.
LEMMA TableIs ==
  ASSUME FileInv
  PROVE  LET known == {0} \cup {m.id : m \in AllNodes}
         IN  /\ nextId \in Nat /\ DOMAIN DirNodes = 0 .. nextId - 1 /\ known \subseteq 0 .. nextId - 1
             /\ DirNodes[0] = [dir |-> Top, parent |-> NoParent]
             /\ \A n \in AllNodes : DirNodes[n.id] = [dir |-> n.dir, parent |-> n.parent]
             /\ {i \in DOMAIN DirNodes : i = 0 \/ DirNodes[i].dir # NoName} = known
<1>1. TypeOK /\ IdInv
  BY DEF FileInv, TreeInv, BaseInv
<1>2. nextId \in Nat \ {0} /\ AllNodes \subseteq Node
  BY <1>1 DEF TypeOK, AllNodes
<1>3. \A n \in AllNodes : n.id \in 1 .. nextId - 1 /\ n.dir \in Dir
  BY <1>1, <1>2 DEF IdInv, Node
<1>4. DOMAIN DirNodes = 0 .. nextId - 1
  BY DEF DirNodes
<1>5. DirNodes[0] = [dir |-> Top, parent |-> NoParent]
  BY <1>2 DEF DirNodes
<1>6. ASSUME NEW n \in AllNodes PROVE DirNodes[n.id] = [dir |-> n.dir, parent |-> n.parent]
  <2> DEFINE i == n.id
             c == CHOOSE m \in AllNodes : m.id = i
  <2>1. i \in 0 .. nextId - 1 /\ i # 0
    BY <1>3
  <2>2. c \in AllNodes /\ c.id = i
    OBVIOUS
  <2>3. c = n
    BY <1>1, <2>2 DEF IdInv
  <2>4. DirNodes[i] = [dir |-> c.dir, parent |-> c.parent]
    BY <2>1 DEF DirNodes
  <2>5. QED BY <2>3, <2>4
<1>7. ASSUME NEW i \in 0 .. nextId - 1, i # 0, ~ \E n \in AllNodes : n.id = i
      PROVE  DirNodes[i].dir = NoName
  BY <1>7 DEF DirNodes, Hole
<1>8. \A i \in 0 .. nextId - 1 : (i = 0 \/ DirNodes[i].dir # NoName) <=> (i = 0 \/ \E n \in AllNodes : n.id = i)
  <2>1. ASSUME NEW n \in AllNodes PROVE DirNodes[n.id].dir \in Dir
    <3>1. n.dir \in Dir /\ DirNodes[n.id] = [dir |-> n.dir, parent |-> n.parent]
      BY <1>3, <1>6
    <3>2. QED BY <3>1
  <2>2. \A n \in AllNodes : DirNodes[n.id].dir # NoName
    BY <2>1, IndexFileAssumption
  <2>3. QED BY <1>7, <2>2
<1>9. QED BY <1>2, <1>3, <1>4, <1>5, <1>6, <1>8

\* The names that were read in the directory with id i.
ReadIn(i) == UNION {ToSet(FileNames[t.dir]) : t \in {u \in AllFiled : u.id = i}}

LEMMA ReadIs ==
  ASSUME FileInv, NEW i, NEW x
  PROVE  x \in ReadIn(i) <=> \E t \in AllFiled : \E e \in ToSet(FilesAt(t)) : e.parent = i /\ e.name = x
<1>1. AllFiled \subseteq Task
  BY FiledType
<1>2. ASSUME NEW t \in AllFiled
      PROVE  t.id = i /\ x \in ToSet(FileNames[t.dir])
             <=> \E e \in ToSet(FilesAt(t)) : e.parent = i /\ e.name = x
  <2>1. /\ DOMAIN FilesAt(t) = DOMAIN FileNames[t.dir]
        /\ \A j \in DOMAIN FilesAt(t) : FilesAt(t)[j].name = FileNames[t.dir][j] /\ FilesAt(t)[j].parent = t.id
    BY <1>1, FilesAtIs
  <2>2. QED BY <2>1 DEF ToSet
<1>3. x \in ReadIn(i) <=> \E t \in AllFiled : t.id = i /\ x \in ToSet(FileNames[t.dir])
  BY DEF ReadIn
<1>4. QED BY <1>2, <1>3

\* The ids of directories.
KnownIdSet == {0} \cup {n.id : n \in AllNodes}

LEMMA FilesAreUnderKnown ==
  ASSUME FileInv, NEW t \in AllFiled
  PROVE  t.id \in KnownIdSet
<1>1. t = TopTask \/ \E n \in AllNodes : t = TaskOf(n)
  BY FiledType DEF Known
<1>2. QED BY <1>1 DEF KnownIdSet, TopTask, TaskOf

\* The file's lookups by parent find the directories.
LEMMA DirsAreFound ==
  ASSUME FileInv, nextId <= NoParent, NEW i \in KnownIdSet
  PROVE  LET found == ChildDirIds(Built, i)
         IN  /\ ToSet(found) = {n.id : n \in {m \in AllNodes : m.parent = i}}
             /\ IsInjective(found)
<1> DEFINE known == KnownIdSet
           found == ChildDirIds(Built, i)
<1>1. /\ nextId \in Nat /\ DOMAIN DirNodes = 0 .. nextId - 1 /\ known \subseteq 0 .. nextId - 1
      /\ DirNodes[0] = [dir |-> Top, parent |-> NoParent]
      /\ \A n \in AllNodes : DirNodes[n.id] = [dir |-> n.dir, parent |-> n.parent]
      /\ {j \in DOMAIN DirNodes : j = 0 \/ DirNodes[j].dir # NoName} = known
  BY TableIs DEF KnownIdSet
<1>2. AllNodes \subseteq Node
  BY DEF FileInv, TreeInv, BaseInv, TypeOK, AllNodes
<1>3. \A n \in AllNodes : DirNodes[n.id].parent = n.parent /\ n.parent \in Nat /\ n.id \in known
  <2>1. ASSUME NEW n \in AllNodes PROVE DirNodes[n.id].parent = n.parent /\ n.parent \in Nat
    <3>1. DirNodes[n.id] = [dir |-> n.dir, parent |-> n.parent] /\ n \in Node
      BY <1>1, <1>2
    <3>2. QED BY <3>1 DEF Node
  <2>2. QED BY <2>1 DEF KnownIdSet
<1>4. DirNodes[0].parent = NoParent /\ NoParent \in Nat
  BY <1>1 DEF NoParent
<1>5. \A x \in known : x = 0 \/ \E n \in AllNodes : x = n.id
  BY DEF KnownIdSet
<1>6. \A x \in known : DirNodes[x].parent \in Nat
  BY <1>3, <1>4, <1>5
<1>7. Built.nodes = DirNodes /\ Built.byParent = Order(DirNodes, known)
  BY <1>1 DEF Built, DirByParent
<1>8. i \in Nat /\ i # NoParent
  BY <1>1, <1>4
<1>9. known \subseteq Nat /\ IsFiniteSet(known)
  <2>1. IsFiniteSet(0 .. nextId - 1)
    BY <1>1, FS_Interval
  <2>2. QED BY <1>1, <2>1, FS_Subset
<1> DEFINE b == Built
<1> HIDE DEF known, b
<1>10. b.nodes = DirNodes /\ b.byParent = Order(b.nodes, known) /\ \A x \in known : b.nodes[x].parent \in Nat
  BY <1>6, <1>7 DEF b
<1>11. /\ \A x : x \in ToSet(ChildDirIds(b, i)) <=> x \in known /\ b.nodes[x].parent = i
       /\ IsInjective(ChildDirIds(b, i))
  BY <1>8, <1>9, <1>10, IdsFound
<1>12. ASSUME NEW x
       PROVE  x \in known /\ DirNodes[x].parent = i <=> \E n \in AllNodes : n.parent = i /\ n.id = x
  BY <1>3, <1>4, <1>5, <1>8
<1>13. ToSet(ChildDirIds(b, i)) = {n.id : n \in {m \in AllNodes : m.parent = i}}
  BY <1>10, <1>11, <1>12
<1>14. QED BY <1>11, <1>13 DEF b

\* And the files.
LEMMA FilesAreFound ==
  ASSUME FileInv, NEW i \in KnownIdSet
  PROVE  ToSet(NamesInDir(Built, i)) = ReadIn(i) /\ IsInjective(NamesInDir(Built, i))
<1>1. PICK sorted : Holds(Built, sorted)
  BY FilesSorted
<1> DEFINE b == Built
<1> HIDE DEF b
<1>2. Holds(b, sorted)
  BY <1>1 DEF b
<1>3. i \in Nat
  <2>1. nextId \in Nat /\ KnownIdSet \subseteq 0 .. nextId - 1
    BY TableIs DEF KnownIdSet
  <2>2. QED BY <2>1
<1>4. /\ \A x : x \in ToSet(NamesInDir(b, i)) <=> \E e \in ToSet(sorted) : e.parent = i /\ e.name = x
      /\ IsInjective(NamesInDir(b, i))
  BY <1>2, <1>3, RecordsFound
<1>5. \A x : x \in ToSet(sorted) <=> \E t \in AllFiled : x \in ToSet(FilesAt(t))
  BY <1>2 DEF Holds
<1>6. ASSUME NEW x PROVE x \in ToSet(NamesInDir(b, i)) <=> x \in ReadIn(i)
  <2>1. (\E e \in ToSet(sorted) : e.parent = i /\ e.name = x)
        <=> \E t \in AllFiled : \E e \in ToSet(FilesAt(t)) : e.parent = i /\ e.name = x
    BY <1>5
  <2>2. QED BY <1>4, <2>1, ReadIs
<1>7. QED BY <1>4, <1>6 DEF b

\* There are no more records than that.
LEMMA RecordsCounted ==
  ASSUME FileInv
  PROVE  Len(Built.recs) = Cardinality(UNION {{i} \X ReadIn(i) : i \in KnownIdSet})
<1>1. PICK sorted : Holds(Built, sorted)
  BY FilesSorted
<1> DEFINE n == Len(sorted)
           pairs == UNION {{i} \X ReadIn(i) : i \in KnownIdSet}
           f == [k \in 1 .. n |-> <<sorted[k].parent, sorted[k].name>>]
<1>2. /\ sorted \in Seq(FileEntry) /\ IsInjective(sorted) /\ Len(Built.recs) = n
      /\ \A x : x \in ToSet(sorted) <=> \E t \in AllFiled : x \in ToSet(FilesAt(t))
  BY <1>1 DEF Holds, Denotes
<1>3. n \in Nat /\ DOMAIN sorted = 1 .. n /\ \A k \in 1 .. n : sorted[k] \in FileEntry
  BY <1>2, LenProperties, ElementOfSeq
<1> HIDE DEF n
<1>4. ASSUME NEW k \in 1 .. n PROVE f[k] \in pairs
  <2> DEFINE e == sorted[k]
  <2>1. e \in ToSet(sorted)
    BY <1>3 DEF ToSet
  <2> HIDE DEF e
  <2>2. PICK t \in AllFiled : e \in ToSet(FilesAt(t))
    BY <1>2, <2>1
  <2>3. e.parent = t.id
    <3>1. t \in Task
      BY FiledType
    <3>2. \A j \in DOMAIN FilesAt(t) : FilesAt(t)[j].parent = t.id
      BY <3>1, FilesAtIs
    <3>3. QED BY <2>2, <3>2 DEF ToSet
  <2>4. e.parent \in KnownIdSet
    BY <2>3, FilesAreUnderKnown
  <2>5. e.name \in ReadIn(e.parent)
    BY <2>2, ReadIs
  <2>6. <<e.parent, e.name>> \in pairs
    BY <2>4, <2>5
  <2> HIDE DEF pairs
  <2>7. QED BY <2>6 DEF e
<1>5. ASSUME NEW p \in pairs PROVE \E k \in 1 .. n : f[k] = p
  <2>1. PICK i \in KnownIdSet : p \in {i} \X ReadIn(i)
    OBVIOUS
  <2>2. p = <<i, p[2]>> /\ p[2] \in ReadIn(i)
    BY <2>1
  <2>3. PICK t \in AllFiled : \E e \in ToSet(FilesAt(t)) : e.parent = i /\ e.name = p[2]
    BY <2>2, ReadIs
  <2>4. PICK e \in ToSet(FilesAt(t)) : e.parent = i /\ e.name = p[2]
    BY <2>3
  <2>5. e \in ToSet(sorted)
    BY <1>2, <2>4
  <2>6. PICK k \in 1 .. n : sorted[k] = e
    BY <1>3, <2>5 DEF ToSet
  <2>7. f[k] = p
    BY <2>2, <2>4, <2>6
  <2>8. QED BY <2>7
<1>6. ASSUME NEW k \in 1 .. n, NEW m \in 1 .. n, f[k] = f[m] PROVE k = m
  <2>1. sorted[k].parent = sorted[m].parent /\ sorted[k].name = sorted[m].name
    BY <1>6
  <2>2. \A d, e \in FileEntry : d.name = e.name /\ d.parent = e.parent => d = e
    BY DEF FileEntry
  <2>3. sorted[k] = sorted[m]
    BY <1>3, <2>1, <2>2
  <2>4. QED BY <1>2, <1>3, <2>3 DEF IsInjective
<1> HIDE DEF pairs
<1>7. f \in [1 .. n -> pairs]
  BY <1>4
<1> HIDE DEF f
<1>8. f \in Bijection(1 .. n, pairs)
  BY <1>5, <1>6, <1>7 DEF Bijection, Injection, Surjection, IsInjective
<1>9. Cardinality(pairs) = n
  BY <1>3, <1>8, FS_CountingElements DEF ExistsBijection
<1>10. QED BY <1>2, <1>9 DEF pairs

\* Ids are numbers of 32 bits, and the largest of them stands for no parent.
IdsFit == nextId <= NoParent

\* However the workers' shards, id batches and arenas lie, the file of a finished
\* scan of less than u32::MAX ids holds the tree that was scanned: its lookups
\* (child_dirs, files_in_dir) find under every directory the subdirectories that
\* were registered there and the files that were read there, and it has no other
\* records.
THEOREM FileHoldsTree == Spec => [](IdsFit => IndexIsTree)
<1>1. FileInv => (IdsFit => IndexIsTree)
  <2> SUFFICES ASSUME FileInv, IdsFit PROVE IndexIsTree
    OBVIOUS
  <2>1. ASSUME NEW i \in KnownIdSet
        PROVE  /\ ToSet(ChildDirIds(Built, i)) = {n.id : n \in {m \in AllNodes : m.parent = i}}
               /\ IsInjective(ChildDirIds(Built, i))
               /\ ToSet(NamesInDir(Built, i)) = ReadIn(i) /\ IsInjective(NamesInDir(Built, i))
    BY <2>1, DirsAreFound, FilesAreFound DEF IdsFit
  <2>2. Len(Built.recs) = Cardinality(UNION {{i} \X ReadIn(i) : i \in KnownIdSet})
    BY RecordsCounted
  <2>3. QED BY <2>1, <2>2 DEF IndexIsTree, KnownIdSet, ReadIn
<1>2. QED BY <1>1, InitFile, FileStep, PTL DEF Spec

\* The sections of the file of a finished scan lie apart and aligned, and validate
\* takes the whole file and nothing shorter.
THEOREM FileIsSound == Spec => []SectionsFit
<1>1. FileInv => SectionsFit
  <2> SUFFICES ASSUME FileInv PROVE Fits(SizesOf(Built))
    BY DEF SectionsFit
  <2>1. PICK sorted : Holds(Built, sorted)
    BY FilesSorted
  <2>2. Len(Built.names) \in Nat /\ Len(Built.recs) \in Nat
    BY <2>1, LenProperties DEF Holds, Denotes
  <2>3. /\ nextId \in Nat /\ DOMAIN DirNodes = 0 .. nextId - 1
        /\ KnownIdSet \subseteq 0 .. nextId - 1
        /\ {i \in DOMAIN DirNodes : i = 0 \/ DirNodes[i].dir # NoName} = KnownIdSet
    BY TableIs DEF KnownIdSet
  <2>4. IsFiniteSet(0 .. nextId - 1)
    BY <2>3, FS_Interval
  <2>5. Cardinality(DOMAIN Built.nodes) \in Nat
    BY <2>3, <2>4, FS_CardinalityType DEF Built
  <2>6. Len(Built.byParent) \in Nat
    <3>1. IsFiniteSet(KnownIdSet)
      BY <2>3, <2>4, FS_Subset
    <3>2. Cardinality(KnownIdSet) \in Nat
      BY <3>1, FS_CardinalityType
    <3>3. Built.byParent = Order(DirNodes, KnownIdSet)
      BY <2>3 DEF Built, DirByParent
    <3>4. DOMAIN Order(DirNodes, KnownIdSet) = 1 .. Cardinality(KnownIdSet)
      BY DEF Order
    <3>5. Order(DirNodes, KnownIdSet) = [k \in 1 .. Cardinality(KnownIdSet) |-> Order(DirNodes, KnownIdSet)[k]]
      BY DEF Order
    <3> DEFINE c == Cardinality(KnownIdSet)
               order == Order(DirNodes, KnownIdSet)
    <3> HIDE DEF c, order
    <3>6. c \in Nat /\ order = [k \in 1 .. c |-> order[k]]
      BY <3>2, <3>5 DEF c, order
    <3>7. order \in [1 .. c -> {order[k] : k \in 1 .. c}]
      BY <3>6
    <3>8. Len(order) = c
      BY <3>6, <3>7, FunctionIsSeq
    <3>9. QED BY <3>3, <3>6, <3>8 DEF order
  <2>7. Cardinality(AllNodes) \in Nat
    <3> DEFINE f == [n \in AllNodes |-> n.id]
    <3>1. \A n \in AllNodes : f[n] \in 0 .. nextId - 1
      BY <2>3 DEF KnownIdSet
    <3>2. \A m, n \in AllNodes : f[m] = f[n] => m = n
      BY DEF FileInv, TreeInv, IdInv
    <3>3. f \in [AllNodes -> 0 .. nextId - 1]
      BY <3>1
    <3> HIDE DEF f
    <3>4. f \in Injection(AllNodes, 0 .. nextId - 1)
      BY <3>2, <3>3 DEF Injection, IsInjective
    <3>5. IsFiniteSet(AllNodes)
      BY <2>4, <3>4, FS_Injection
    <3>6. QED BY <3>5, FS_CardinalityType
  <2>8. SizesOf(Built) \in Sizes
    <3> DEFINE b == Built
    <3> HIDE DEF b
    <3>1. /\ Len(b.names) \in Nat /\ Len(b.recs) \in Nat /\ Len(b.byParent) \in Nat
          /\ Cardinality(DOMAIN b.nodes) \in Nat
      BY <2>2, <2>5, <2>6 DEF b
    <3>2. SizesOf(b) \in Sizes
      BY <2>7, <3>1 DEF SizesOf, Sizes
    <3>3. QED BY <3>2 DEF b
  <2>9. QED BY <2>8, LayoutIsSound
<1>2. QED BY <1>1, InitFile, FileStep, PTL DEF Spec
=============================================================================
