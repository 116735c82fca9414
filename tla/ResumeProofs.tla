---------------------------- MODULE ResumeProofs ----------------------------
(***************************************************************************)
(* Proofs about Resume, for every set of directories and contents, every   *)
(* bound and every choice of faults.                                       *)
(***************************************************************************)
EXTENDS Resume, TLAPS

\* Outside todo, the contents are the disk's, or an event after id n says not.
Covers(content, todo, n) ==
  \A d \in Dirs \ todo : content[d] = disk[d] \/ Ahead(d, n)

\* Contents scanned from id n on, in the history with UUID u.
Sound(content, todo, n, u) ==
  /\ n <= lastId /\ u <= uuid
  /\ u = uuid => Covers(content, todo, n)

\* The same after a step, of contents the step does not touch.
CoversNext(content, todo, n) ==
  \A d \in Dirs \ todo : content[d] = disk'[d] \/ \E r \in log' : r.dir = d /\ n < r.id

SoundNext(content, todo, n, u) ==
  /\ n <= lastId' /\ u <= uuid'
  /\ u = uuid' => CoversNext(content, todo, n)

\* An index that one writer wrote by itself.
Whole(f) == f.ok /\ ~f.mixed

LogInv  == \A e \in log : e.id <= lastId
FileInv == Whole(file) => Sound(file.content, {}, file.id, file.uuid)
TmpInv  == Whole(tmp) => Sound(tmp.content, {}, tmp.id, tmp.uuid)

\* A scan in progress is sound, and complete when it is being written.
ScannerSound(s) == /\ Sound(s.content, s.todo, s.id, s.uuid)
                   /\ s.stage # "scan" => s.todo = {}

CliInv  == cli.on => ScannerSound(cli)
ScanInv == pc = "scan" => ScannerSound(scan)

IInv == LogInv /\ FileInv /\ TmpInv /\ CliInv /\ ScanInv

-----------------------------------------------------------------------------

\* The contents of nothing yet are contents.
LEMMA BlankType == Blank \in [Dirs -> Contents]
  BY ResumeAssumption DEF Blank

\* No index file, and no scan under way, are records of their types.
LEMMA RecordTypes == NoFile \in IndexRec /\ Torn \in IndexRec /\ Idle \in Scanner
  BY BlankType DEF NoFile, Torn, Idle, NoUuid, IndexRec, Scanner

\* A writer's next stage, company and a file renamed away from it leave a scanner.
LEMMA StageTypes ==
  ASSUME NEW s \in Scanner, NEW w \in Scanner
  PROVE  /\ Created(s, w) \in Scanner /\ Joined(s, w) \in Scanner
         /\ Wrote(s) \subseteq Scanner /\ Moved(s) \in Scanner
<1>1. HeaderOf(w) \in HeaderRec
  BY DEF HeaderOf, HeaderRec, Scanner
<1>2. {HeaderOf(v) : v \in {u \in {w} : Shares(u)}} \in SUBSET HeaderRec
  BY <1>1
<1>3. Created(s, w) \in Scanner
  BY <1>2 DEF Created, Scanner
<1>4. Joined(s, w) \in Scanner
  BY <1>1 DEF Joined, Scanner
<1>5. Wrote(s) \subseteq Scanner /\ Moved(s) \in Scanner
  BY DEF Wrote, Moved, Scanner
<1>6. QED BY <1>3, <1>4, <1>5

\* What a writer leaves, alone or beside another, is a file.
LEMMA WrittenTypes ==
  ASSUME NEW w \in Scanner
  PROVE  Written(w) \subseteq IndexRec
<1>1. IndexOf(w) \in IndexRec
  BY DEF IndexOf, Scanner, IndexRec
<1>2. HeaderOf(w) \in HeaderRec /\ w.mates \subseteq HeaderRec
  BY DEF HeaderOf, HeaderRec, Scanner
<1>3. Mixtures(w) \subseteq IndexRec
  <2> SUFFICES ASSUME NEW c \in [Dirs -> Contents], NEW h \in HeaderRec
               PROVE  [made |-> TRUE, ok |-> TRUE, mixed |-> TRUE, content |-> c,
                       id |-> h.id, uuid |-> h.uuid] \in IndexRec
    BY <1>2 DEF Mixtures
  <2>1. QED BY DEF IndexRec, HeaderRec
<1>4. QED BY <1>1, <1>3, RecordTypes DEF Written

\* What create, write_all and rename leave are files.
LEMMA FileTypes ==
  ASSUME TypeOK, NEW w \in Scanner, Create \/ Write(w) \/ Rename
  PROVE  file' \in IndexRec /\ tmp' \in IndexRec
<1>1. CASE Create
  BY <1>1, RecordTypes DEF Create, TypeOK
<1>2. CASE Write(w)
  BY <1>2, WrittenTypes DEF Write, TypeOK
<1>3. CASE Rename
  BY <1>3, RecordTypes DEF Rename, TypeOK
<1>4. QED BY <1>1, <1>2, <1>3

\* Every initial state has its types.
LEMMA InitType == Init => TypeOK
<1> SUFFICES ASSUME Init PROVE TypeOK
  OBVIOUS
<1>1. uuid \in Nat /\ lastId \in Nat \ {0} /\ cursor \in Nat
  BY DEF Init, NoUuid
<1>2. file \in IndexRec /\ tmp \in IndexRec /\ cli \in Scanner /\ scan \in Scanner
  BY RecordTypes DEF Init
<1>3. QED BY <1>1, <1>2, BlankType, ResumeAssumption DEF Init, TypeOK

\* Every step, of the disk, of `ml index` and of the daemon, keeps the types.
LEMMA StepType == TypeOK /\ [Next]_vars => TypeOK'
<1> SUFFICES ASSUME TypeOK, [Next]_vars PROVE TypeOK'
  OBVIOUS
<1>1. CASE UNCHANGED vars
  BY <1>1 DEF vars, TypeOK
<1>2. ASSUME NEW d \in Dirs, Change(d) PROVE TypeOK'
  <2>1. [id |-> lastId + 1, dir |-> d] \in EventRec
    BY DEF EventRec, TypeOK
  <2>2. QED BY <1>2, <2>1 DEF Change, daemonVars, update, TypeOK
<1>3. CASE Reset
  BY <1>3 DEF Reset, daemonVars, update, TypeOK
<1>4. Begin \in Scanner
  BY BlankType DEF Begin, Scanner, TypeOK
<1>5. ASSUME NEW s \in Scanner, NEW d \in Dirs PROVE ScanDir(s, d) \in Scanner
  BY DEF ScanDir, Scanner, TypeOK
<1>6. cli \in Scanner /\ scan \in Scanner
  BY DEF TypeOK
<1>7. CASE IndexBegin
  BY <1>7, <1>4 DEF IndexBegin, outside, daemonVars, update, TypeOK
<1>8. ASSUME NEW d \in Dirs, IndexScan(d) PROVE TypeOK'
  BY <1>8, <1>5 DEF IndexScan, outside, daemonVars, update, TypeOK
<1>9. CASE IndexCreate \/ IndexWrite \/ IndexRename
  <2>1. file' \in IndexRec /\ tmp' \in IndexRec
    BY <1>9, <1>6, FileTypes DEF IndexCreate, IndexWrite, IndexRename
  <2>2. cli' \in Scanner /\ scan' \in Scanner
    BY <1>9, <1>6, StageTypes, RecordTypes DEF IndexCreate, IndexWrite, IndexRename
  <2>3. mem' \in [Dirs -> Contents] /\ next' \in [Dirs -> Contents] /\ mapped' \in BOOLEAN
    BY <1>9 DEF IndexCreate, IndexWrite, IndexRename, update, TypeOK
  <2>4. QED
    BY <1>9, <2>1, <2>2, <2>3 DEF IndexCreate, IndexWrite, IndexRename, outside, update, TypeOK
<1>10. CASE IndexAbort
  BY <1>10, RecordTypes DEF IndexAbort, outside, TypeOK
<1>11. CASE Start
  BY <1>11 DEF Start, Open, outside, TypeOK, IndexRec
<1>12. CASE TakeBatch
  <2>1. PICK n \in cursor + 1 .. lastId :
          /\ cursor' = n
          /\ work' \subseteq Delivered(n) \cup Dirs
          /\ full' \in BOOLEAN
    BY <1>12 DEF TakeBatch
  <2>2. Delivered(n) \subseteq Dirs
    BY DEF Delivered, TypeOK, EventRec
  <2>3. n \in Nat
    BY DEF TypeOK
  <2>4. QED BY <1>12, <2>1, <2>2, <2>3 DEF TakeBatch, outside, TypeOK
<1>13. ASSUME NEW d \in Dirs, ListDir(d) PROVE TypeOK'
  BY <1>13 DEF ListDir, outside, TypeOK
<1>14. CASE Publish
  BY <1>14 DEF Publish, outside, TypeOK
<1>15. CASE RebuildBegin
  BY <1>15, <1>4 DEF RebuildBegin, outside, TypeOK
<1>16. ASSUME NEW d \in Dirs, RebuildScan(d) PROVE TypeOK'
  BY <1>16, <1>5 DEF RebuildScan, outside, update, TypeOK
<1>17. CASE RebuildCreate \/ RebuildWrite \/ RebuildRename
  <2>1. file' \in IndexRec /\ tmp' \in IndexRec
    BY <1>17, <1>6, FileTypes DEF RebuildCreate, RebuildWrite, RebuildRename
  <2>2. cli' \in Scanner /\ scan' \in Scanner
    BY <1>17, <1>6, StageTypes, RecordTypes DEF RebuildCreate, RebuildWrite, RebuildRename
  <2>3. QED BY <1>17, <2>1, <2>2 
       DEF RebuildCreate, RebuildWrite, RebuildRename, outside, update, TypeOK
<1>18. CASE RebuildOpen
  BY <1>18 DEF RebuildOpen, Open, outside, TypeOK, IndexRec
<1>19. CASE RebuildFails
  BY <1>19, RecordTypes DEF RebuildFails, outside, TypeOK
<1>20. CASE Crash
  BY <1>20, BlankType, RecordTypes DEF Crash, outside, TypeOK
<1>21. QED
  BY <1>1, <1>2, <1>3, <1>7, <1>8, <1>9, <1>10, <1>11, <1>12, <1>13, <1>14,
     <1>15, <1>16, <1>17, <1>18, <1>19, <1>20 DEF Next, Daemon, Index

\* TypeOK holds of every behaviour of the specification.
THEOREM TypeCorrect == Spec => []TypeOK
  BY InitType, StepType, PTL DEF Spec

-----------------------------------------------------------------------------
(* The inductive invariant.                                                *)

\* A change of the disk is recorded after every id known so far, so what was
\* covered stays covered.
LEMMA ChangeCovers ==
  ASSUME TypeOK, NEW e \in Dirs, Change(e),
         NEW content, NEW todo, NEW n \in Nat, n <= lastId, Covers(content, todo, n)
  PROVE  CoversNext(content, todo, n)
<1> SUFFICES ASSUME NEW d \in Dirs \ todo
             PROVE content[d] = disk'[d] \/ \E r \in log' : r.dir = d /\ n < r.id
  BY DEF CoversNext
<1> DEFINE r == [id |-> lastId + 1, dir |-> e]
<1>1. CASE d = e
  <2>1. r \in log' /\ r.dir = d /\ n < r.id
    BY <1>1 DEF Change, TypeOK
  <2>2. QED BY <2>1
<1>2. CASE d # e
  <2>1. disk'[d] = disk[d] /\ log \subseteq log'
    BY <1>2 DEF Change, TypeOK
  <2>2. QED BY <2>1 DEF Covers, Ahead
<1>3. QED BY <1>1, <1>2

\* Listing one more directory extends what a copy of the index covers.
LEMMA ListCovers ==
  ASSUME TypeOK, NEW content \in [Dirs -> Contents], NEW todo, NEW n, NEW d \in Dirs,
         Covers(content, todo, n)
  PROVE  Covers([content EXCEPT ![d] = disk[d]], todo \ {d}, n)
  BY DEF Covers

\* What is covered from an id on is covered from any earlier one.
LEMMA EarlierCovers ==
  ASSUME TypeOK, NEW content, NEW todo, NEW n \in Nat, NEW m \in Nat, m <= n,
         Covers(content, todo, n)
  PROVE  Covers(content, todo, m)
  BY DEF Covers, Ahead, TypeOK, EventRec

\* With no file and no daemon the invariant asks for nothing.
LEMMA InitInv == Init => IInv
<1> SUFFICES ASSUME Init PROVE IInv
  OBVIOUS
<1>1. ~Whole(file) /\ ~Whole(tmp) /\ ~cli.on
  BY DEF Init, NoFile, Idle, Whole
<1>2. QED
  BY <1>1 DEF Init, IInv, LogInv, FileInv, TmpInv, CliInv, ScanInv

\* Begin covers nothing yet, and all that it covers is sound.
LEMMA BeginSound == TypeOK => ScannerSound(Begin)
  BY DEF Begin, ScannerSound, Sound, Covers, TypeOK

\* A scan in progress stays sound as it reads one more directory.
LEMMA ScanDirSound ==
  ASSUME TypeOK, NEW s \in Scanner, NEW d \in Dirs, ScannerSound(s)
  PROVE  ScannerSound(ScanDir(s, d))
<1> DEFINE t == ScanDir(s, d)
<1>1. /\ t.content = [s.content EXCEPT ![d] = disk[d]] /\ t.todo = s.todo \ {d}
      /\ t.id = s.id /\ t.uuid = s.uuid /\ t.stage = s.stage
  BY DEF ScanDir, Scanner
<1>2. s.content \in [Dirs -> Contents]
  BY DEF Scanner
<1>3. Covers(s.content, s.todo, s.id) => Covers(t.content, t.todo, t.id)
  BY <1>1, <1>2, ListCovers
<1>4. QED BY <1>1, <1>3 DEF ScannerSound, Sound

\* The stages of writing change nothing of what was scanned, and they are
\* entered with nothing left to scan.
LEMMA StageSound ==
  ASSUME NEW s \in Scanner, NEW w, ScannerSound(s)
  PROVE  /\ s.todo = {} => ScannerSound(Created(s, w)) /\ \A v \in Wrote(s) : ScannerSound(v)
         /\ ScannerSound(Moved(s)) /\ ScannerSound(Joined(s, w))
<1>1. /\ Moved(s).content = s.content /\ Moved(s).todo = s.todo /\ Moved(s).id = s.id
      /\ Moved(s).uuid = s.uuid /\ Moved(s).stage = s.stage
  BY DEF Moved, Scanner
<1>2. /\ Joined(s, w).content = s.content /\ Joined(s, w).todo = s.todo
      /\ Joined(s, w).id = s.id /\ Joined(s, w).uuid = s.uuid /\ Joined(s, w).stage = s.stage
  BY DEF Joined, Scanner
<1>3. /\ Created(s, w).content = s.content /\ Created(s, w).todo = s.todo
      /\ Created(s, w).id = s.id /\ Created(s, w).uuid = s.uuid
  BY DEF Created, Scanner
<1>4. ASSUME NEW v \in Wrote(s)
      PROVE  v.content = s.content /\ v.todo = s.todo /\ v.id = s.id /\ v.uuid = s.uuid
  BY <1>4 DEF Wrote, Scanner
<1>5. QED BY <1>1, <1>2, <1>3, <1>4 DEF ScannerSound

\* Whichever file a sound writer creates, writes or renames, both files stay
\* sound: of a torn or a mixed one nothing is claimed.
LEMMA FilesStay ==
  ASSUME TypeOK, FileInv, TmpInv, UNCHANGED outside, NEW w \in Scanner,
         Create \/ Rename \/ (Write(w) /\ w.todo = {} /\ ScannerSound(w))
  PROVE  FileInv' /\ TmpInv'
<1> USE DEF outside, FileInv, TmpInv, Sound, Covers, Ahead, Whole
<1>1. CASE Create
  BY <1>1 DEF Create, Torn, NoFile
<1>2. CASE Rename
  BY <1>2 DEF Rename, NoFile
<1>3. CASE Write(w) /\ w.todo = {} /\ ScannerSound(w)
  <2>1. PICK f \in Written(w) : /\ tmp'  = IF w.at = "tmp"  THEN f ELSE tmp
                                /\ file' = IF w.at = "file" THEN f ELSE file
    BY <1>3 DEF Write
  <2>2. f = IndexOf(w) \/ ~f.ok \/ f.mixed
    BY <2>1 DEF Written, Mixtures, Torn, NoFile
  <2>3. Whole(f) => Sound(f.content, {}, f.id, f.uuid)
    BY <1>3, <2>2 DEF ScannerSound, IndexOf
  <2>4. QED BY <2>1, <2>3
<1>4. QED BY <1>1, <1>2, <1>3

\* Sound contents stay sound while the history only grows or starts anew.
LEMMA SoundStays ==
  ASSUME TypeOK, NEW content, NEW todo, NEW n \in Nat, NEW u \in Nat,
         Sound(content, todo, n, u),
         Reset \/ \E e \in Dirs : Change(e)
  PROVE  SoundNext(content, todo, n, u)
<1>1. CASE Reset
  BY <1>1 DEF Reset, Sound, SoundNext, TypeOK
<1>2. ASSUME NEW e \in Dirs, Change(e) PROVE SoundNext(content, todo, n, u)
  <2>1. n <= lastId' /\ u <= uuid' /\ uuid' = uuid /\ n <= lastId
    BY <1>2 DEF Change, Sound, TypeOK
  <2>2. QED BY <1>2, <2>1, ChangeCovers DEF Sound, SoundNext
<1>3. QED BY <1>1, <1>2

\* Every step keeps the invariant.
LEMMA StepInv == TypeOK /\ IInv /\ [Next]_vars => IInv'
<1> SUFFICES ASSUME TypeOK, IInv, [Next]_vars PROVE IInv'
  OBVIOUS
<1> USE DEF IInv
<1>1. CASE UNCHANGED vars
  BY <1>1 DEF vars, LogInv, FileInv, TmpInv, CliInv, ScanInv,
     ScannerSound, Sound, Covers, Ahead, Whole
<1>2. ASSUME UNCHANGED <<file, tmp, cli, scan, pc>>, Reset \/ \E e \in Dirs : Change(e)
      PROVE  FileInv' /\ TmpInv' /\ CliInv' /\ ScanInv'
  <2>1. /\ file.id \in Nat /\ file.uuid \in Nat /\ tmp.id \in Nat /\ tmp.uuid \in Nat
        /\ cli.id \in Nat /\ cli.uuid \in Nat
        /\ scan.id \in Nat /\ scan.uuid \in Nat
    BY DEF TypeOK, IndexRec, Scanner
  <2>2. FileInv'
    <3>1. CASE ~Whole(file)
      BY <3>1, <1>2 DEF FileInv, Whole
    <3>2. CASE Sound(file.content, {}, file.id, file.uuid)
      <4>1. SoundNext(file.content, {}, file.id, file.uuid)
        BY <1>2, <2>1, <3>2, SoundStays
      <4>2. QED BY <1>2, <4>1 DEF FileInv, Sound, SoundNext, Covers, CoversNext, Ahead
    <3>3. QED BY <3>1, <3>2 DEF FileInv
  <2>3. CliInv'
    <3>1. CASE ~cli.on
      BY <3>1, <1>2 DEF CliInv
    <3>2. CASE ScannerSound(cli)
      <4>1. SoundNext(cli.content, cli.todo, cli.id, cli.uuid)
        BY <1>2, <2>1, <3>2, SoundStays DEF ScannerSound
      <4>2. QED BY <1>2, <3>2, <4>1 DEF CliInv, ScannerSound, Sound, SoundNext, Covers, CoversNext, Ahead
    <3>3. QED BY <3>1, <3>2 DEF CliInv
  <2>4. ScanInv'
    <3>1. CASE pc # "scan"
      BY <3>1, <1>2 DEF ScanInv
    <3>2. CASE pc = "scan" /\ ScannerSound(scan)
      <4>1. SoundNext(scan.content, scan.todo, scan.id, scan.uuid)
        BY <1>2, <2>1, <3>2, SoundStays DEF ScannerSound
      <4>2. QED BY <1>2, <3>2, <4>1 DEF ScanInv, ScannerSound, Sound, SoundNext, Covers, CoversNext, Ahead
    <3>3. QED BY <3>1, <3>2 DEF ScanInv
  <2>5. TmpInv'
    <3>1. CASE ~Whole(tmp)
      BY <3>1, <1>2 DEF TmpInv, Whole
    <3>2. CASE Sound(tmp.content, {}, tmp.id, tmp.uuid)
      <4>1. SoundNext(tmp.content, {}, tmp.id, tmp.uuid)
        BY <1>2, <2>1, <3>2, SoundStays
      <4>2. QED BY <1>2, <4>1 DEF TmpInv, Sound, SoundNext, Covers, CoversNext, Ahead
    <3>3. QED BY <3>1, <3>2 DEF TmpInv
  <2>6. QED BY <2>2, <2>3, <2>4, <2>5
<1>3. ASSUME NEW e \in Dirs, Change(e) PROVE IInv'
  <2>1. /\ UNCHANGED <<file, tmp, cli, scan, pc>>
        /\ lastId' = lastId + 1
        /\ log' = log \cup {[id |-> lastId + 1, dir |-> e]}
    BY <1>3 DEF Change, daemonVars, update
  <2>2. LogInv'
    BY <2>1 DEF LogInv, TypeOK, EventRec
  <2>3. QED BY <1>2, <1>3, <2>1, <2>2
<1>4. CASE Reset
  <2>1. UNCHANGED <<file, tmp, cli, scan, pc, lastId>> /\ log' = {}
    BY <1>4 DEF Reset, daemonVars, update
  <2>2. LogInv'
    BY <2>1 DEF LogInv
  <2>3. QED BY <1>2, <1>4, <2>1, <2>2
<1>5. cli \in Scanner /\ scan \in Scanner
  BY DEF TypeOK
<1>6. ASSUME UNCHANGED outside, file' = file, tmp' = tmp PROVE FileInv' /\ TmpInv'
  BY <1>6 DEF outside, FileInv, TmpInv, Sound, Covers, Ahead, Whole
<1>7. ASSUME UNCHANGED outside, cli'.on => ScannerSound(cli') PROVE CliInv'
  BY <1>7 DEF outside, CliInv, ScannerSound, Sound, Covers, Ahead
<1>8. ASSUME UNCHANGED outside, pc' = "scan" => ScannerSound(scan') PROVE ScanInv'
  BY <1>8 DEF outside, ScanInv, ScannerSound, Sound, Covers, Ahead
<1>9. CASE Index
  <2>1. UNCHANGED outside /\ UNCHANGED pc
    BY <1>9 DEF Index, IndexBegin, IndexScan, IndexCreate, IndexWrite, IndexRename, IndexAbort,
       daemonVars, update
  <2>2. LogInv'
    BY <2>1 DEF LogInv, outside
  <2>3. ASSUME scan' = scan PROVE ScanInv'
    BY <1>8, <2>1, <2>3 DEF ScanInv
  <2>4. CASE IndexBegin
    <3>1. cli' = Begin /\ UNCHANGED <<file, tmp, scan>>
      BY <2>4 DEF IndexBegin, daemonVars
    <3>2. QED BY <1>6, <1>7, <2>1, <2>2, <2>3, <3>1, BeginSound
  <2>5. ASSUME NEW d \in Dirs, IndexScan(d) PROVE IInv'
    <3>1. cli.on /\ cli' = ScanDir(cli, d) /\ UNCHANGED <<file, tmp, scan>>
      BY <2>5 DEF IndexScan, daemonVars
    <3>2. ScannerSound(cli')
      BY <1>5, <3>1, ScanDirSound DEF CliInv
    <3>3. QED BY <1>6, <1>7, <2>1, <2>2, <2>3, <3>1, <3>2
  <2>6. CASE IndexCreate
    <3>1. FileInv' /\ TmpInv'
      BY <1>5, <2>1, <2>6, FilesStay DEF IndexCreate
    <3>2. ScannerSound(cli')
      BY <1>5, <2>6, StageSound DEF IndexCreate, CliInv
    <3>3. pc' = "scan" => ScannerSound(scan')
      BY <1>5, <2>1, <2>6, StageSound DEF IndexCreate, ScanInv
    <3>4. QED BY <1>7, <1>8, <2>1, <2>2, <3>1, <3>2, <3>3
  <2>7. CASE IndexWrite
    <3>1. cli.todo = {} /\ ScannerSound(cli)
      BY <2>7 DEF IndexWrite, CliInv, ScannerSound
    <3>2. FileInv' /\ TmpInv'
      BY <1>5, <2>1, <2>7, <3>1, FilesStay DEF IndexWrite
    <3>3. ScannerSound(cli') /\ scan' = scan
      BY <1>5, <2>7, <3>1, StageSound DEF IndexWrite
    <3>4. QED BY <1>7, <2>1, <2>2, <2>3, <3>2, <3>3
  <2>8. CASE IndexRename
    <3>1. FileInv' /\ TmpInv'
      BY <1>5, <2>1, <2>8, FilesStay DEF IndexRename
    <3>2. pc' = "scan" => ScannerSound(scan')
      BY <1>5, <2>1, <2>8, StageSound DEF IndexRename, ScanInv
    <3>3. CliInv'
      BY <1>7, <2>1, <2>8 DEF IndexRename, Idle
    <3>4. QED BY <1>8, <2>1, <2>2, <3>1, <3>2, <3>3
  <2>9. CASE IndexAbort
    <3>1. ~cli'.on /\ UNCHANGED <<file, tmp, scan>>
      BY <2>9 DEF IndexAbort, Idle
    <3>2. QED BY <1>6, <1>7, <2>1, <2>2, <2>3, <3>1
  <2>10. QED BY <1>9, <2>4, <2>5, <2>6, <2>7, <2>8, <2>9 DEF Index
<1>10. ASSUME UNCHANGED outside, UNCHANGED <<file, tmp, cli>>
       PROVE  LogInv' /\ FileInv' /\ TmpInv' /\ CliInv'
  <2>1. LogInv'
    BY <1>10 DEF outside, LogInv
  <2>2. QED BY <1>6, <1>7, <1>10, <2>1 DEF CliInv
<1>11. CASE Start \/ TakeBatch \/ Publish \/ RebuildOpen \/ RebuildFails \/ Crash
             \/ \E d \in Dirs : ListDir(d)
  <2>1. UNCHANGED outside /\ UNCHANGED <<file, tmp, cli>> /\ pc' # "scan"
    BY <1>11 DEF Start, TakeBatch, Publish, RebuildOpen, RebuildFails, Crash, ListDir
  <2>2. QED BY <1>10, <2>1 DEF ScanInv
<1>12. CASE RebuildBegin
  BY <1>8, <1>10, <1>12, BeginSound DEF RebuildBegin
<1>13. ASSUME NEW d \in Dirs, RebuildScan(d) PROVE IInv'
  <2>1. ScannerSound(scan')
    BY <1>5, <1>13, ScanDirSound DEF RebuildScan, ScanInv
  <2>2. QED BY <1>8, <1>10, <1>13, <2>1 DEF RebuildScan
<1>14. CASE RebuildCreate \/ RebuildWrite \/ RebuildRename
  <2>1. UNCHANGED outside /\ pc = "scan" /\ ScannerSound(scan)
    BY <1>14 DEF RebuildCreate, RebuildWrite, RebuildRename, ScanInv
  <2>2. scan.todo = {} \/ RebuildRename
    BY <1>14, <2>1 DEF RebuildCreate, RebuildWrite, ScannerSound
  <2>3. FileInv' /\ TmpInv'
    BY <1>5, <1>14, <2>1, <2>2, FilesStay DEF RebuildCreate, RebuildWrite, RebuildRename
  <2>4. pc' = "scan" => ScannerSound(scan')
    BY <1>5, <1>14, <2>1, <2>2, StageSound DEF RebuildCreate, RebuildWrite, RebuildRename
  <2>5. cli'.on => ScannerSound(cli')
    <3>1. RebuildWrite => cli' = cli
      BY DEF RebuildWrite
    <3>2. RebuildCreate => cli' = Joined(cli, scan) /\ cli'.on = cli.on
      BY <1>5 DEF RebuildCreate, Joined, Scanner
    <3>3. RebuildRename => cli' = Moved(cli) /\ cli'.on = cli.on
      BY <1>5 DEF RebuildRename, Moved, Scanner
    <3>4. QED BY <1>5, <1>14, <3>1, <3>2, <3>3, StageSound DEF CliInv
  <2>6. LogInv'
    BY <2>1 DEF LogInv, outside
  <2>7. QED BY <1>7, <1>8, <2>1, <2>3, <2>4, <2>5, <2>6
<1>15. QED
  BY <1>1, <1>3, <1>4, <1>9, <1>11, <1>12, <1>13, <1>14 DEF Next, Daemon

\* The invariant holds of every behaviour of the specification.
THEOREM Invariance == Spec => [](TypeOK /\ IInv)
<1>1. Init => TypeOK /\ IInv
  BY InitType, InitInv
<1>2. TypeOK /\ IInv /\ [Next]_vars => (TypeOK /\ IInv)'
  BY StepType, StepInv
<1>3. QED BY <1>1, <1>2, PTL DEF Spec

\* An index that one writer wrote by itself and the event id stored in it belong
\* together at every moment of every behaviour, whatever crashes, fails, resets
\* or writes concurrently.
THEOREM ResumePointIsSafe == Spec => []ResumePointSafe
<1>1. IInv => ResumePointSafe
  BY DEF IInv, FileInv, Whole, Sound, Covers, ResumePointSafe, Accounts
<1>2. QED BY Invariance, <1>1, PTL

-----------------------------------------------------------------------------
(* One writer at a time: the daemon alone, or `ml index` without a daemon. *)

WholeInv ==
  /\ file.made => Whole(file)
  /\ file.ok => file.made
  /\ tmp.ok => tmp.made
  /\ cli.on => pc = "down"
  /\ pc # "scan" => ~scan.on
  /\ cli.on /\ cli.stage # "scan" => cli.at = "tmp" /\ cli.mates = {}
  /\ cli.on /\ cli.stage = "rename" => Whole(tmp)
  /\ pc = "scan" /\ scan.stage # "scan" => scan.at = "tmp" /\ scan.mates = {}
  /\ pc = "scan" /\ scan.stage = "rename" => Whole(tmp)
  /\ pc = "open" => Whole(file)

\* A writer alone leaves its own whole index in the temporary file.
LEMMA WriteAlone ==
  ASSUME NEW w \in Scanner, Write(w), w.mates = {}, w.at = "tmp"
  PROVE  /\ tmp' = IndexOf(w) /\ file' = file
         /\ Wrote(w) = {[w EXCEPT !.stage = "rename"]}
  BY DEF Write, Written, Wrote

\* A writer that creates its file while no other is at work has it to itself.
LEMMA CreateAlone ==
  ASSUME NEW w \in Scanner, NEW other \in Scanner, ~other.on
  PROVE  /\ Created(w, other) = [w EXCEPT !.stage = "write", !.at = "tmp", !.mates = {}]
         /\ Joined(other, w) = other
<1>1. ~Shares(other)
  BY DEF Shares
<1>2. {HeaderOf(v) : v \in {u \in {other} : Shares(u)}} = {}
  BY <1>1
<1>3. Joined(other, w) = other
  BY <1>1 DEF Joined, Scanner
<1>4. QED BY <1>2, <1>3 DEF Created

\* Without `ml index` beside a daemon every step leaves whole files where
\* they are read, and a rebuild finds the file it wrote.
LEMMA StepWhole == "index" \notin faults /\ TypeOK /\ WholeInv /\ [Next]_vars => WholeInv'
<1> SUFFICES ASSUME "index" \notin faults, TypeOK, WholeInv, [Next]_vars
             PROVE  WholeInv'
  OBVIOUS
<1> USE DEF WholeInv, Whole
<1>1. CASE UNCHANGED vars
  BY <1>1 DEF vars
<1>2. ASSUME Reset \/ \E d \in Dirs : Change(d) PROVE WholeInv'
  BY <1>2 DEF Change, Reset, daemonVars, update
<1>3. cli \in Scanner /\ scan \in Scanner
  BY DEF TypeOK
<1>4. CASE Index
  <2>1. pc = "down" /\ pc' = "down"
    BY <1>4 DEF Index, IndexBegin, IndexScan, IndexCreate, IndexWrite, IndexRename, IndexAbort,
       daemonVars, update, MayIndex
  <2> USE <2>1
  <2>2. CASE IndexBegin
    BY <2>2 DEF IndexBegin, Begin, daemonVars
  <2>3. ASSUME NEW d \in Dirs, IndexScan(d) PROVE WholeInv'
    <3>1. cli'.stage = cli.stage /\ cli'.at = cli.at /\ cli'.on = cli.on /\ cli'.mates = cli.mates
      BY <1>3, <2>3 DEF IndexScan, ScanDir, Scanner
    <3>2. QED BY <2>3, <3>1 DEF IndexScan, daemonVars
  <2>4. CASE IndexCreate
    <3>1. cli' = [cli EXCEPT !.stage = "write", !.at = "tmp", !.mates = {}] /\ scan' = scan
      BY <1>3, <2>4, CreateAlone DEF IndexCreate
    <3>2. file' = file /\ tmp' = Torn
      BY <2>4 DEF IndexCreate, Create
    <3>3. cli'.stage = "write" /\ cli'.at = "tmp" /\ cli'.mates = {}
      BY <1>3, <3>1 DEF Scanner
    <3>4. QED BY <3>1, <3>2, <3>3 DEF Torn, NoFile
  <2>5. CASE IndexWrite
    <3>1. tmp' = IndexOf(cli) /\ file' = file /\ cli' = [cli EXCEPT !.stage = "rename"]
      BY <1>3, <2>5, WriteAlone DEF IndexWrite
    <3>2. scan' = scan /\ cli.stage = "write" /\ cli.on
      BY <2>5 DEF IndexWrite
    <3>3. cli'.stage = "rename" /\ cli'.at = cli.at /\ cli'.mates = cli.mates
      BY <1>3, <3>1 DEF Scanner
    <3>4. tmp'.made /\ tmp'.ok /\ ~tmp'.mixed
      BY <3>1 DEF IndexOf
    <3>5. QED BY <3>1, <3>2, <3>3, <3>4
  <2>6. CASE IndexRename
    <3>1. file' = tmp /\ tmp' = NoFile /\ Whole(tmp) /\ cli' = Idle /\ scan' = Moved(scan)
      BY <2>6 DEF IndexRename, Rename
    <3>2. ~scan'.on
      BY <1>3, <3>1 DEF Moved, Scanner
    <3>3. QED BY <3>1, <3>2 DEF Idle, NoFile
  <2>7. CASE IndexAbort
    BY <2>7 DEF IndexAbort, Idle
  <2>8. QED BY <1>4, <2>2, <2>3, <2>4, <2>5, <2>6, <2>7 DEF Index
<1>5. CASE Start
  BY <1>5 DEF Start
<1>6. CASE TakeBatch \/ Publish \/ \E d \in Dirs : ListDir(d)
  BY <1>6 DEF TakeBatch, Publish, ListDir
<1>7. CASE RebuildBegin
  BY <1>7 DEF RebuildBegin, Begin
<1>8. ASSUME NEW d \in Dirs, RebuildScan(d) PROVE WholeInv'
  <2>1. /\ scan'.stage = scan.stage /\ scan'.at = scan.at /\ scan'.on = scan.on
        /\ scan'.mates = scan.mates
    BY <1>3, <1>8 DEF RebuildScan, ScanDir, Scanner
  <2>2. QED BY <1>8, <2>1 DEF RebuildScan, update
<1>9. CASE RebuildCreate
  <2>1. scan' = [scan EXCEPT !.stage = "write", !.at = "tmp", !.mates = {}] /\ cli' = cli
    BY <1>3, <1>9, CreateAlone DEF RebuildCreate
  <2>2. file' = file /\ tmp' = Torn /\ pc' = pc
    BY <1>9 DEF RebuildCreate, Create, update
  <2>3. scan'.stage = "write" /\ scan'.at = "tmp" /\ scan'.mates = {}
    BY <1>3, <2>1 DEF Scanner
  <2>4. QED BY <1>9, <2>1, <2>2, <2>3 DEF RebuildCreate, Torn, NoFile
<1>10. CASE RebuildWrite
  <2>1. tmp' = IndexOf(scan) /\ file' = file /\ scan' = [scan EXCEPT !.stage = "rename"]
    BY <1>3, <1>10, WriteAlone DEF RebuildWrite
  <2>2. cli' = cli /\ pc' = pc /\ pc = "scan"
    BY <1>10 DEF RebuildWrite, update
  <2>3. scan'.stage = "rename" /\ scan'.at = scan.at /\ scan'.mates = scan.mates
    BY <1>3, <2>1 DEF Scanner
  <2>4. tmp'.made /\ tmp'.ok /\ ~tmp'.mixed
    BY <2>1 DEF IndexOf
  <2>5. QED BY <1>10, <2>1, <2>2, <2>3, <2>4 DEF RebuildWrite
<1>11. CASE RebuildRename
  <2>1. /\ file' = tmp /\ tmp' = NoFile /\ Whole(tmp) /\ scan' = Idle
        /\ cli' = Moved(cli) /\ pc' = "open" /\ ~cli.on
    BY <1>11 DEF RebuildRename, Rename
  <2>2. ~cli'.on
    BY <1>3, <2>1 DEF Moved, Scanner
  <2>3. QED BY <2>1, <2>2 DEF Idle, NoFile
<1>12. CASE RebuildOpen \/ RebuildFails \/ Crash
  BY <1>12 DEF RebuildOpen, RebuildFails, Crash, Idle
<1>13. QED
  BY <1>1, <1>2, <1>4, <1>5, <1>6, <1>7, <1>8, <1>9, <1>10, <1>11, <1>12 DEF Next, Daemon

\* What may go wrong is settled at the start.
LEMMA FaultsFrozen == [Next]_vars => faults' = faults
<1>1. Daemon => UNCHANGED outside
  BY DEF Daemon, Start, TakeBatch, ListDir, Publish, RebuildBegin, RebuildScan, RebuildCreate,
     RebuildWrite, RebuildRename, RebuildOpen, RebuildFails, Crash
<1>2. Index => UNCHANGED outside
  BY DEF Index, IndexBegin, IndexScan, IndexCreate, IndexWrite, IndexRename, IndexAbort
<1>3. QED BY <1>1, <1>2 DEF Next, Change, Reset, outside, vars

\* One writer at a time, and the invariant of that case holds throughout.
LEMMA WholeAlways == Spec => []("index" \notin faults => WholeInv)
<1> DEFINE Single == "index" \notin faults => WholeInv
<1>1. Init => Single
  BY DEF Init, WholeInv, NoFile, Idle
<1>2. TypeOK /\ Single /\ [Next]_vars => Single'
  BY FaultsFrozen, StepWhole
<1> HIDE DEF Single
<1>3. Spec => []Single
  BY TypeCorrect, <1>1, <1>2, PTL DEF Spec
<1>4. QED BY <1>3 DEF Single

\* Whatever stops a writer and whenever, the file that is read is a whole index,
\* unless `ml index` and a daemon write at a time.
THEOREM NeverHalfAnIndex == Spec => []WholeFile
<1>1. ("index" \notin faults => WholeInv) => WholeFile
  BY DEF WholeInv, Whole, WholeFile, AtomicWrite
<1>2. QED BY WholeAlways, <1>1, PTL

-----------------------------------------------------------------------------
(* What a rebuild scans is no older than the events the daemon has taken,  *)
(* from the id it stores to the file it opens.                             *)

HealInv ==
  /\ pc # "down" => cursor <= lastId
  /\ pc = "scan" => scan.uuid = uuid /\ cursor <= scan.id
  /\ pc = "scan" /\ scan.stage = "rename" => tmp.uuid = uuid /\ cursor <= tmp.id
  /\ pc = "open" => file.uuid = uuid /\ cursor <= file.id

\* Without `ml index` beside a daemon every step keeps this.
LEMMA StepHeal ==
  "index" \notin faults /\ TypeOK /\ IInv /\ WholeInv /\ HealInv /\ [Next]_vars => HealInv'
<1> SUFFICES ASSUME "index" \notin faults, TypeOK, IInv, WholeInv, HealInv, [Next]_vars
             PROVE  HealInv'
  OBVIOUS
<1> USE DEF HealInv
<1>1. CASE UNCHANGED vars
  BY <1>1 DEF vars
<1>2. ASSUME NEW d \in Dirs, Change(d) PROVE HealInv'
  BY <1>2 DEF Change, daemonVars, update, TypeOK
<1>3. CASE Reset
  BY <1>3 DEF Reset, daemonVars, update
<1>4. scan \in Scanner /\ lastId \in Nat /\ cursor \in Nat
  BY DEF TypeOK
<1>5. CASE Index
  <2>1. pc = "down" /\ pc' = "down"
    BY <1>5 DEF Index, IndexBegin, IndexScan, IndexCreate, IndexWrite, IndexRename, IndexAbort,
       daemonVars, update, MayIndex, WholeInv
  <2>2. QED BY <2>1
<1>6. CASE Start
  <2>1. file.id <= lastId
    BY <1>6 DEF Start, Open, WholeInv, IInv, FileInv, Sound
  <2>2. QED BY <1>4, <1>6, <2>1 DEF Start, outside
<1>7. CASE TakeBatch
  BY <1>4, <1>7 DEF TakeBatch, outside
<1>8. CASE Publish \/ RebuildFails \/ Crash \/ RebuildOpen \/ \E d \in Dirs : ListDir(d)
  BY <1>8 DEF Publish, RebuildFails, Crash, RebuildOpen, ListDir, outside
<1>9. CASE RebuildBegin
  BY <1>9 DEF RebuildBegin, Begin, outside
<1>10. ASSUME NEW d \in Dirs, RebuildScan(d) PROVE HealInv'
  <2>1. scan'.id = scan.id /\ scan'.uuid = scan.uuid /\ scan'.stage = scan.stage
    BY <1>4, <1>10 DEF RebuildScan, ScanDir, Scanner
  <2>2. QED BY <1>10, <2>1 DEF RebuildScan, outside, update
<1>11. CASE RebuildCreate
  <2>1. scan'.id = scan.id /\ scan'.uuid = scan.uuid /\ scan'.stage = "write"
    BY <1>4, <1>11 DEF RebuildCreate, Created, Scanner
  <2>2. QED BY <1>11, <2>1 DEF RebuildCreate, outside, update
<1>12. CASE RebuildWrite
  <2>1. scan.at = "tmp" /\ scan.mates = {}
    BY <1>12 DEF RebuildWrite, WholeInv
  <2>2. tmp' = IndexOf(scan) /\ scan' = [scan EXCEPT !.stage = "rename"]
    BY <1>4, <1>12, <2>1, WriteAlone DEF RebuildWrite
  <2>3. scan'.id = scan.id /\ scan'.uuid = scan.uuid /\ tmp'.id = scan.id /\ tmp'.uuid = scan.uuid
    BY <1>4, <2>2 DEF IndexOf, Scanner
  <2>4. QED BY <1>12, <2>3 DEF RebuildWrite, outside, update
<1>13. CASE RebuildRename
  BY <1>13 DEF RebuildRename, Rename, outside
<1>14. QED
  BY <1>1, <1>2, <1>3, <1>5, <1>6, <1>7, <1>8, <1>9, <1>10, <1>11, <1>12, <1>13 DEF Next, Daemon

\* What a rebuild opens, and the events still to come, make up the disk.
LEMMA OpenHeals ==
  ASSUME TypeOK, IInv, WholeInv, HealInv, RebuildOpen
  PROVE  Accounts(mem', cursor')
<1>1. mem' = file.content /\ cursor' = cursor /\ pc = "open" /\ Whole(file)
  BY DEF RebuildOpen, Open, WholeInv
<1>2. Covers(file.content, {}, file.id) /\ cursor <= file.id
  BY <1>1 DEF HealInv, IInv, FileInv, Sound
<1>3. Covers(file.content, {}, cursor)
  BY <1>2, EarlierCovers DEF TypeOK, IndexRec
<1>4. QED BY <1>1, <1>3 DEF Accounts, Covers

\* The invariant of a rebuild holds throughout.
LEMMA HealAlways == Spec => []("index" \notin faults => HealInv)
<1> DEFINE Single == "index" \notin faults => WholeInv
           Heal == "index" \notin faults => HealInv
<1>1. Init => Heal
  BY DEF Init, HealInv
<1>2. TypeOK /\ IInv /\ Single /\ Heal /\ [Next]_vars => Heal'
  BY FaultsFrozen, StepHeal
<1>3. Spec => []Single
  BY WholeAlways
<1> HIDE DEF Single, Heal
<1>4. Spec => []Heal
  BY Invariance, <1>1, <1>2, <1>3, PTL DEF Spec
<1>5. QED BY <1>4 DEF Heal

\* After a rebuild that succeeds, whatever was missed before it, what queries see
\* and the events still to be taken make up the disk: nothing recorded while it
\* scanned is lost.
THEOREM RebuildHealsAll == Spec => RebuildHeals
<1> DEFINE Single == "index" \notin faults => WholeInv
           Heal == "index" \notin faults => HealInv
           Healed == RebuildOpen /\ "index" \notin faults => Accounts(mem', cursor')
<1>1. TypeOK /\ IInv /\ Single /\ Heal /\ [Next]_vars => [Healed]_vars
  BY OpenHeals
<1>2. Spec => []Single /\ []Heal
  BY WholeAlways, HealAlways, PTL
<1>3. Spec => [][Healed]_vars
  <2> HIDE DEF Single, Heal, Healed
  <2>1. QED BY Invariance, <1>1, <1>2, PTL DEF Spec
<1>4. QED BY <1>3 DEF RebuildHeals

-----------------------------------------------------------------------------
(* Without resets, failing rebuilds and other writers nothing is missed    *)
(* for good: dropped events only cost a rebuild.                           *)

\* Every index is of the one history there is.
OneHistory ==
  /\ uuid = 1
  /\ file.ok => file.uuid = 1
  /\ tmp.ok => tmp.uuid = 1
  /\ cli.on => cli.uuid = 1
  /\ pc = "scan" => scan.uuid = 1

IdleFresh == pc = "idle" => Covers(mem, {}, cursor)
WorkFresh == pc = "work" /\ ~full => Covers(next, work, cursor)

CleanInv == OneHistory /\ IdleFresh /\ WorkFresh

\* No step brings an index of another history.
LEMMA StepHistory ==
  faults \subseteq {"overflow"} /\ TypeOK /\ WholeInv /\ OneHistory /\ [Next]_vars => OneHistory'
<1> SUFFICES ASSUME faults \subseteq {"overflow"}, TypeOK, WholeInv, OneHistory, [Next]_vars
             PROVE  OneHistory'
  OBVIOUS
<1> USE DEF OneHistory
<1>1. CASE UNCHANGED vars
  BY <1>1 DEF vars
<1>2. ASSUME NEW d \in Dirs, Change(d) PROVE OneHistory'
  BY <1>2 DEF Change, daemonVars, update
<1>3. ~Reset
  BY DEF Reset
<1>4. cli \in Scanner /\ scan \in Scanner
  BY DEF TypeOK
<1>5. CASE Index
  <2>1. UNCHANGED outside /\ pc = "down" /\ pc' = "down"
    BY <1>5 DEF Index, IndexBegin, IndexScan, IndexCreate, IndexWrite, IndexRename, IndexAbort,
       daemonVars, update, MayIndex, WholeInv
  <2> USE <2>1 DEF outside
  <2>2. CASE IndexBegin
    BY <2>2 DEF IndexBegin, Begin
  <2>3. CASE IndexCreate
    BY <1>4, <2>3 DEF IndexCreate, Create, Created, Torn, NoFile, Scanner
  <2>4. CASE IndexWrite
    <3>1. cli.at = "tmp" /\ cli.mates = {}
      BY <2>4 DEF IndexWrite, WholeInv
    <3>2. tmp' = IndexOf(cli) /\ file' = file /\ cli' = [cli EXCEPT !.stage = "rename"]
      BY <1>4, <2>4, <3>1, WriteAlone DEF IndexWrite
    <3>3. tmp'.uuid = cli.uuid /\ cli'.uuid = cli.uuid /\ cli.on
      BY <1>4, <2>4, <3>2 DEF IndexOf, IndexWrite, Scanner
    <3>4. QED BY <3>2, <3>3
  <2>5. CASE IndexRename
    BY <2>5 DEF IndexRename, Rename, NoFile, Idle
  <2>6. CASE IndexAbort
    BY <2>6 DEF IndexAbort, Idle
  <2>7. ASSUME NEW d \in Dirs, IndexScan(d) PROVE OneHistory'
    <3>1. cli'.on = cli.on /\ cli'.uuid = cli.uuid
      BY <1>4, <2>7 DEF IndexScan, ScanDir, Scanner
    <3>2. QED BY <2>7, <3>1 DEF IndexScan
  <2>8. QED BY <1>5, <2>2, <2>3, <2>4, <2>5, <2>6, <2>7 DEF Index
<1>6. CASE Start \/ TakeBatch \/ Publish \/ RebuildOpen \/ RebuildFails \/ Crash
             \/ \E d \in Dirs : ListDir(d)
  <2>1. UNCHANGED outside /\ UNCHANGED <<file, tmp, cli>> /\ pc' # "scan"
    BY <1>6 DEF Start, TakeBatch, Publish, RebuildOpen, RebuildFails, Crash, ListDir
  <2>2. QED BY <2>1 DEF outside
<1>7. CASE RebuildBegin
  BY <1>7 DEF RebuildBegin, Begin, outside
<1>8. ASSUME NEW d \in Dirs, RebuildScan(d) PROVE OneHistory'
  <2>1. scan'.uuid = scan.uuid
    BY <1>4, <1>8 DEF RebuildScan, ScanDir, Scanner
  <2>2. QED BY <1>8, <2>1 DEF RebuildScan, outside, update
<1>9. CASE RebuildCreate
  <2>1. scan'.uuid = scan.uuid /\ cli' = cli /\ ~tmp'.ok /\ file' = file
    <3>1. ~cli.on
      BY <1>9 DEF RebuildCreate, WholeInv
    <3>2. QED BY <1>4, <1>9, <3>1, CreateAlone
              DEF RebuildCreate, Create, Created, Torn, NoFile, Scanner
  <2>2. QED BY <1>9, <2>1 DEF RebuildCreate, outside, update
<1>10. CASE RebuildWrite
  <2>1. scan.at = "tmp" /\ scan.mates = {}
    BY <1>10 DEF RebuildWrite, WholeInv
  <2>2. tmp' = IndexOf(scan) /\ file' = file /\ scan' = [scan EXCEPT !.stage = "rename"]
    BY <1>4, <1>10, <2>1, WriteAlone DEF RebuildWrite
  <2>3. scan'.uuid = scan.uuid /\ tmp'.uuid = scan.uuid
    BY <1>4, <2>2 DEF IndexOf, Scanner
  <2>4. QED BY <1>10, <2>2, <2>3 DEF RebuildWrite, outside, update
<1>11. CASE RebuildRename
  <2>1. file' = tmp /\ tmp' = NoFile /\ ~cli.on /\ pc' = "open"
    BY <1>11 DEF RebuildRename, Rename, WholeInv
  <2>2. ~cli'.on
    BY <1>4, <1>11, <2>1 DEF RebuildRename, Moved, Scanner
  <2>3. QED BY <1>11, <2>1, <2>2 DEF RebuildRename, NoFile, outside
<1>12. QED
  BY <1>1, <1>2, <1>3, <1>5, <1>6, <1>7, <1>8, <1>9, <1>10, <1>11 DEF Next, Daemon

\* No step of the disk, of replay, batch or rebuild leaves the daemon behind the
\* events it has taken.
LEMMA StepFresh ==
  /\ faults \subseteq {"overflow"} /\ TypeOK /\ IInv /\ WholeInv /\ HealInv
  /\ CleanInv /\ [Next]_vars
  => (IdleFresh /\ WorkFresh)'
<1> SUFFICES ASSUME faults \subseteq {"overflow"}, TypeOK, IInv, WholeInv, HealInv, CleanInv,
                    [Next]_vars
             PROVE  IdleFresh' /\ WorkFresh'
  OBVIOUS
<1> USE DEF CleanInv
<1>1. CASE UNCHANGED vars
  BY <1>1 DEF vars, IdleFresh, WorkFresh, Covers, Ahead
<1>2. ASSUME NEW e \in Dirs, Change(e) PROVE IdleFresh' /\ WorkFresh'
  <2>1. UNCHANGED <<pc, mem, next, work, full, cursor>>
    BY <1>2 DEF Change, daemonVars, update
  <2>2. ASSUME NEW content, NEW todo, pc # "down", Covers(content, todo, cursor)
        PROVE  CoversNext(content, todo, cursor)
    <3>1. cursor \in Nat /\ cursor <= lastId
      BY <2>2 DEF HealInv, TypeOK
    <3>2. QED BY <1>2, <2>2, <3>1, ChangeCovers
  <2>3. pc = "idle" => CoversNext(mem, {}, cursor)
    BY <2>2 DEF IdleFresh
  <2>4. pc = "work" /\ ~full => CoversNext(next, work, cursor)
    BY <2>2 DEF WorkFresh
  <2>5. QED BY <2>1, <2>3, <2>4 DEF IdleFresh, WorkFresh, Covers, CoversNext, Ahead
<1>3. ~Reset
  BY DEF Reset
<1>4. CASE Index
  <2>1. pc' = "down"
    BY <1>4 DEF Index, IndexBegin, IndexScan, IndexCreate, IndexWrite, IndexRename, IndexAbort,
       daemonVars, update, MayIndex, WholeInv
  <2>2. QED BY <2>1 DEF IdleFresh, WorkFresh
<1>5. CASE Start
  <2>1. /\ mem' = file.content /\ cursor' = file.id /\ pc' = "idle" /\ UNCHANGED outside
        /\ file.ok /\ file.uuid = uuid
    BY <1>5 DEF Start, Open, Resumable, NoUuid, OneHistory
  <2>2. Covers(file.content, {}, file.id)
    BY <2>1 DEF WholeInv, IInv, FileInv, Sound
  <2>3. QED BY <2>1, <2>2 DEF IdleFresh, WorkFresh, Covers, Ahead, outside
<1>6. CASE TakeBatch
  <2>1. PICK n \in cursor + 1 .. lastId :
          cursor' = n /\ (full' \/ Delivered(n) \subseteq work')
    BY <1>6 DEF TakeBatch
  <2>2. SUFFICES ASSUME ~full', NEW d \in Dirs \ work'
                 PROVE  mem[d] = disk[d] \/ Ahead(d, n)
    BY <1>6, <2>1 DEF IdleFresh, WorkFresh, TakeBatch, outside, Covers, Ahead
  <2>3. mem[d] = disk[d] \/ Ahead(d, cursor)
    BY <1>6 DEF TakeBatch, IdleFresh, Covers
  <2>4. ASSUME NEW r \in log, r.dir = d, cursor < r.id PROVE n < r.id
    <3>1. d \notin Delivered(n)
      BY <2>1, <2>2
    <3>2. r.id \in Nat /\ n \in Nat
      BY <2>1 DEF TypeOK, EventRec
    <3>3. QED BY <2>4, <3>1, <3>2 DEF Delivered
  <2>5. QED BY <2>3, <2>4 DEF Ahead
<1>7. ASSUME NEW d \in Dirs, ListDir(d) PROVE IdleFresh' /\ WorkFresh'
  <2>1. next \in [Dirs -> Contents]
    BY DEF TypeOK
  <2>2. Covers(next, work, cursor) => Covers(next', work', cursor)
    BY <1>7, <2>1, ListCovers DEF ListDir
  <2>3. QED BY <1>7, <2>2 DEF ListDir, outside, IdleFresh, WorkFresh, Covers, Ahead
<1>8. CASE Publish
  BY <1>8 DEF Publish, outside, IdleFresh, WorkFresh, Covers, Ahead
<1>9. CASE RebuildBegin \/ RebuildRename \/ Crash
  BY <1>9 DEF RebuildBegin, RebuildRename, Crash, IdleFresh, WorkFresh
<1>10. CASE RebuildCreate \/ RebuildWrite \/ \E d \in Dirs : RebuildScan(d)
  BY <1>10 DEF RebuildCreate, RebuildWrite, RebuildScan, update, IdleFresh, WorkFresh
<1>11. CASE RebuildOpen
  <2>1. Accounts(mem', cursor') /\ UNCHANGED outside /\ pc' = "idle"
    BY <1>11, OpenHeals DEF RebuildOpen
  <2>2. QED BY <2>1 DEF Accounts, IdleFresh, WorkFresh, Covers, Ahead, outside
<1>12. ~RebuildFails
  BY DEF RebuildFails, WholeInv, Whole
<1>13. QED
  BY <1>1, <1>2, <1>3, <1>4, <1>5, <1>6, <1>7, <1>8, <1>9, <1>10, <1>11, <1>12 DEF Next, Daemon

\* Where the event history is never rebuilt, no rebuild fails and nobody runs
\* `ml index` beside a daemon, the index is never stale: whatever the disk,
\* crashes and dropped events did, all events handled means index equals disk.
THEOREM NeverStale == Spec => []FreshDespiteDrops
<1> DEFINE Single == "index" \notin faults => WholeInv
           Heal == "index" \notin faults => HealInv
           Clean == faults \subseteq {"overflow"} => CleanInv
<1>1. Init => Clean
  BY DEF Init, CleanInv, OneHistory, IdleFresh, WorkFresh, NoFile, Idle
<1>2. TypeOK /\ IInv /\ Single /\ Heal /\ Clean /\ [Next]_vars => Clean'
  <2> SUFFICES ASSUME TypeOK, IInv, Single, Heal, Clean, [Next]_vars,
                      faults' \subseteq {"overflow"}
               PROVE  CleanInv'
    OBVIOUS
  <2>1. faults \subseteq {"overflow"} /\ "index" \notin faults
    BY FaultsFrozen
  <2>2. QED BY <2>1, StepHistory, StepFresh DEF CleanInv
<1>3. TypeOK /\ IInv /\ Clean => FreshDespiteDrops
  <2> SUFFICES ASSUME TypeOK, LogInv, IdleFresh, pc = "idle", cursor = lastId
               PROVE  mem = disk
    BY DEF IInv, CleanInv, FreshDespiteDrops, AlwaysFresh
  <2>1. ASSUME NEW d \in Dirs PROVE mem[d] = disk[d]
    <3>1. mem[d] = disk[d] \/ Ahead(d, cursor)
      BY DEF IdleFresh, Covers
    <3>2. ~Ahead(d, lastId)
      BY DEF LogInv, Ahead, TypeOK, EventRec
    <3>3. QED BY <3>1, <3>2
  <2>2. QED BY <2>1 DEF TypeOK
<1>4. Spec => []Single /\ []Heal
  BY WholeAlways, HealAlways, PTL
<1> HIDE DEF Single, Heal, Clean
<1>5. QED BY Invariance, <1>1, <1>2, <1>3, <1>4, PTL DEF Spec
=============================================================================
