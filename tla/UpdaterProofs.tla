--------------------------- MODULE UpdaterProofs ---------------------------
(***************************************************************************)
(* Proofs about Updater: no id is ever out of range, a subtree cut short   *)
(* is always followed by a rebuild, a published snapshot only grows until  *)
(* a rebuild replaces it, and no directory ever has two alive entries of   *)
(* one name, whatever a batch replays, rescans and lists.  For any names,  *)
(* depths and limits, and however the disk moves.                          *)
(***************************************************************************)
EXTENDS Updater, ListLemmas

-----------------------------------------------------------------------------
(* Sequences of entries.                                                   *)

\* A bound on the parents of both halves bounds those of the whole.
LEMMA AppendedParents ==
  ASSUME NEW s \in Seq(Entry), NEW n \in Nat, NEW f \in [1 .. n -> Entry], NEW P,
         \A i \in 1 .. Len(s) : s[i].parent \in P,
         \A i \in 1 .. n : f[i].parent \in P
  PROVE  \A i \in DOMAIN (s \o f) : (s \o f)[i].parent \in P
<1>1. Len(s) \in Nat
  BY LenProperties
<1>2. /\ DOMAIN (s \o f) = 1 .. Len(s) + n
      /\ \A i \in 1 .. Len(s) : (s \o f)[i] = s[i]
      /\ \A i \in 1 .. n : (s \o f)[Len(s) + i] = f[i]
  BY Appended
<1>3. ASSUME NEW i \in 1 .. Len(s) + n
      PROVE  (s \o f)[i].parent \in P
  <2>1. CASE i <= Len(s)
    BY <2>1, <1>1, <1>2
  <2>2. CASE i > Len(s)
    <3>1. i - Len(s) \in 1 .. n /\ i = Len(s) + (i - Len(s))
      BY <2>2, <1>1
    <3>2. (s \o f)[i] = f[i - Len(s)]
      BY <3>1, <1>2
    <3>3. QED BY <3>1, <3>2
  <2>3. QED BY <2>1, <2>2, <1>1
<1>4. QED BY <1>2, <1>3

\* Being a prefix, element by element.
LEMMA PrefixByElement ==
  ASSUME NEW S, NEW s \in Seq(S), NEW t \in Seq(S)
  PROVE  IsPrefix(s, t) <=> /\ Len(s) <= Len(t)
                            /\ \A i \in 1 .. Len(s) : s[i] = t[i]
BY LenProperties, SubSeqProperties DEF IsPrefix
\* What something is appended to is a prefix of the result.
LEMMA AppendedPrefix ==
  ASSUME NEW S, NEW s \in Seq(S), NEW n \in Nat, NEW f \in [1 .. n -> S]
  PROVE  IsPrefix(s, s \o f)
<1>1. /\ s \o f \in Seq(S) /\ Len(s \o f) = Len(s) + n
      /\ \A i \in 1 .. Len(s) : (s \o f)[i] = s[i]
  BY Appended
<1>2. Len(s) \in Nat
  BY LenProperties
<1>3. Len(s) <= Len(s \o f)
  BY <1>1, <1>2
<1>4. QED BY <1>1, <1>3, PrefixByElement

-----------------------------------------------------------------------------
(* Snapshots.                                                              *)

\* Extends is reflexive.
LEMMA ExtendsItself ==
  ASSUME NEW l, InRange(l)
  PROVE  Extends(l, l)
<1>1. l.dirs \in Seq(Entry) /\ l.files \in Seq(Entry)
  BY DEF InRange, Snapshot
<1>2. IsPrefix(l.dirs, l.dirs) /\ IsPrefix(l.files, l.files)
  BY <1>1, PrefixByElement, LenProperties
<1>3. QED BY <1>2 DEF Extends

\* Extends is transitive.
LEMMA ExtendsFurther ==
  ASSUME NEW l, InRange(l), NEW m, InRange(m), NEW n, InRange(n),
         Extends(l, m), Extends(m, n)
  PROVE  Extends(l, n)
<1>1. /\ l.dirs \in Seq(Entry) /\ m.dirs \in Seq(Entry) /\ n.dirs \in Seq(Entry)
      /\ l.files \in Seq(Entry) /\ m.files \in Seq(Entry) /\ n.files \in Seq(Entry)
  BY DEF InRange, Snapshot
<1>2. ASSUME NEW r \in Seq(Entry), NEW s \in Seq(Entry), NEW t \in Seq(Entry),
             IsPrefix(r, s), IsPrefix(s, t)
      PROVE  IsPrefix(r, t)
  <2>1. Len(r) \in Nat /\ Len(s) \in Nat /\ Len(t) \in Nat
    BY LenProperties
  <2>2. Len(r) <= Len(s) /\ \A i \in 1 .. Len(r) : r[i] = s[i]
    BY <1>2, PrefixByElement
  <2>3. Len(s) <= Len(t) /\ \A i \in 1 .. Len(s) : s[i] = t[i]
    BY <1>2, PrefixByElement
  <2>4. Len(r) <= Len(t) /\ \A i \in 1 .. Len(r) : r[i] = t[i]
    BY <2>1, <2>2, <2>3
  <2>5. QED BY <2>4, PrefixByElement
<1>3. IsPrefix(l.dirs, n.dirs) /\ IsPrefix(l.files, n.files)
  BY <1>1, <1>2 DEF Extends
<1>4. QED BY <1>3 DEF Extends

\* Ids keep their range as a snapshot grows, and so does the delta.
LEMMA ExtendsIds ==
  ASSUME NEW l, InRange(l), NEW m, InRange(m), Extends(l, m)
  PROVE  /\ DOMAIN l.dirs \subseteq DOMAIN m.dirs
         /\ DeltaLen(l) <= DeltaLen(m)
<1>1. /\ l.dirs \in Seq(Entry) /\ m.dirs \in Seq(Entry)
      /\ l.files \in Seq(Entry) /\ m.files \in Seq(Entry)
      /\ l.baseDirs \in Nat /\ l.baseFiles \in Nat
  BY DEF InRange, Snapshot
<1>2. /\ Len(l.dirs) \in Nat /\ Len(m.dirs) \in Nat /\ Len(l.files) \in Nat /\ Len(m.files) \in Nat
      /\ DOMAIN l.dirs = 1 .. Len(l.dirs) /\ DOMAIN m.dirs = 1 .. Len(m.dirs)
  BY <1>1, LenProperties
<1>3. Len(l.dirs) <= Len(m.dirs) /\ Len(l.files) <= Len(m.files)
  BY <1>1, PrefixByElement DEF Extends
<1>4. m.baseDirs = l.baseDirs /\ m.baseFiles = l.baseFiles
  BY DEF Extends
<1>5. \A p, q, r, s, x, y \in Nat :
        p <= q /\ r <= s => (p - x) + (r - y) <= (q - x) + (s - y)
  OBVIOUS
<1>6. DeltaLen(l) <= DeltaLen(m)
  BY <1>1, <1>2, <1>3, <1>4, <1>5 DEF DeltaLen
<1>7. QED BY <1>2, <1>3, <1>6

\* The delta has a length.
LEMMA DeltaIsNat == ASSUME NEW l, InRange(l) PROVE DeltaLen(l) \in Nat
<1>1. /\ Len(l.dirs) \in Nat /\ Len(l.files) \in Nat /\ l.baseDirs \in Nat /\ l.baseFiles \in Nat
      /\ l.baseDirs <= Len(l.dirs) /\ l.baseFiles <= Len(l.files)
  BY LenProperties DEF InRange, Snapshot
<1>2. \A p, q, x, y \in Nat : x <= p /\ y <= q => (p - x) + (q - y) \in Nat
  OBVIOUS
<1>3. QED BY <1>1, <1>2 DEF DeltaLen

\* Killing entries keeps the ids in range.
LEMMA KillSafe ==
  ASSUME NEW l, InRange(l),
         NEW ds, ds \subseteq DOMAIN l.dirs, NEW fs, fs \subseteq DOMAIN l.files
  PROVE  /\ InRange(Kill(l, ds, fs))
         /\ Extends(l, Kill(l, ds, fs))
         /\ Kill(l, ds, fs).dirs = l.dirs /\ Kill(l, ds, fs).files = l.files
<1>1. /\ l \in Snapshot
      /\ l.dirs \in Seq(Entry) /\ l.files \in Seq(Entry)
      /\ l.deadDirs \in SUBSET Nat /\ l.deadFiles \in SUBSET Nat
  BY DEF InRange, Snapshot
<1>2. ds \subseteq Nat /\ fs \subseteq Nat
  BY <1>1, LenProperties
<1> DEFINE m == Kill(l, ds, fs)
<1>3. /\ m \in Snapshot
      /\ m.dirs = l.dirs /\ m.files = l.files
      /\ m.baseDirs = l.baseDirs /\ m.baseFiles = l.baseFiles
      /\ m.deadDirs = l.deadDirs \cup ds /\ m.deadFiles = l.deadFiles \cup fs
  BY <1>1, <1>2 DEF Kill, Snapshot
<1> HIDE DEF m
<1>4. InRange(m)
  BY <1>3 DEF InRange
<1>5. Extends(l, m)
  BY <1>3, ExtendsItself DEF Extends
<1>6. QED BY <1>3, <1>4, <1>5 DEF m

\* remove_subtree keeps the ids in range.
LEMMA RemoveSafe ==
  ASSUME NEW l, InRange(l), NEW from
  PROVE  /\ InRange(RemoveSubtrees(l, from))
         /\ Extends(l, RemoveSubtrees(l, from))
         /\ RemoveSubtrees(l, from).dirs = l.dirs
<1> DEFINE gone == Below(l, from)
           files == {f \in AliveFiles(l) : l.files[f].parent \in gone}
<1>1. gone \subseteq DOMAIN l.dirs
  BY DEF Below
<1>2. files \subseteq DOMAIN l.files
  BY DEF AliveFiles
<1>3. RemoveSubtrees(l, from) = Kill(l, gone, files)
  BY DEF RemoveSubtrees
<1> HIDE DEF gone, files
<1>4. QED BY <1>1, <1>2, <1>3, KillSafe

\* Appending files of a directory in range keeps the ids in range.
LEMMA PushSafe ==
  ASSUME NEW l, InRange(l), NEW d \in DOMAIN l.dirs, NEW names, names \subseteq Name
  PROVE  /\ InRange(PushFiles(l, d, names))
         /\ Extends(l, PushFiles(l, d, names))
         /\ PushFiles(l, d, names).dirs = l.dirs
         /\ DOMAIN l.files \subseteq DOMAIN PushFiles(l, d, names).files
<1> DEFINE n == Cardinality(names)
           more == [i \in 1 .. n |-> [name |-> SetToSeq(names)[i], parent |-> d]]
           m == PushFiles(l, d, names)
<1>1. /\ l \in Snapshot
      /\ l.dirs \in Seq(Entry) /\ l.files \in Seq(Entry)
      /\ l.deadDirs \in SUBSET Nat /\ l.deadFiles \in SUBSET Nat
      /\ l.baseDirs \in Nat /\ l.baseFiles \in Nat
  BY DEF InRange, Snapshot
<1>2. n \in Nat /\ SetToSeq(names) \in [1 .. n -> names]
  BY NameAssumption, FS_Subset, ListOfSet
<1>3. more \in [1 .. n -> Entry] /\ \A i \in 1 .. n : more[i].parent = d
  <2>1. d \in Nat
    BY <1>1, LenProperties
  <2>2. ASSUME NEW i \in 1 .. n
        PROVE  [name |-> SetToSeq(names)[i], parent |-> d] \in Entry
    BY <1>2, <2>1 DEF Entry
  <2>3. QED BY <2>2
<1>4. /\ m.dirs = l.dirs /\ m.files = l.files \o more
      /\ m.baseDirs = l.baseDirs /\ m.baseFiles = l.baseFiles
      /\ m.deadDirs = l.deadDirs /\ m.deadFiles = l.deadFiles
  BY <1>1 DEF PushFiles, Snapshot
<1> HIDE DEF n, more
<1>5. /\ l.files \o more \in Seq(Entry)
      /\ Len(l.files \o more) = Len(l.files) + n
      /\ DOMAIN (l.files \o more) = 1 .. Len(l.files) + n
      /\ \A i \in 1 .. Len(l.files) : (l.files \o more)[i] = l.files[i]
      /\ \A i \in 1 .. n : (l.files \o more)[Len(l.files) + i] = more[i]
  BY <1>1, <1>2, <1>3, Appended
<1>6. m \in Snapshot
  BY <1>1, <1>5 DEF PushFiles, Snapshot, more, n
<1> HIDE DEF m
<1>7. Len(l.files) \in Nat /\ DOMAIN l.files = 1 .. Len(l.files)
  BY <1>1, LenProperties
<1>8. InRange(m)
  <2>1. ASSUME NEW i \in DOMAIN m.files
        PROVE  m.files[i].parent \in DOMAIN m.dirs
    <3>1. CASE i \in 1 .. Len(l.files)
      BY <3>1, <1>4, <1>5, <1>7 DEF InRange
    <3>2. CASE i \notin 1 .. Len(l.files)
      <4>1. i - Len(l.files) \in 1 .. n /\ i = Len(l.files) + (i - Len(l.files))
        BY <3>2, <1>2, <1>4, <1>5, <1>7
      <4>2. m.files[i] = more[i - Len(l.files)]
        BY <4>1, <1>4, <1>5
      <4>3. QED BY <4>1, <4>2, <1>3, <1>4
    <3>3. QED BY <3>1, <3>2
  <2>2. m.deadFiles \subseteq DOMAIN m.files /\ m.baseFiles <= Len(m.files)
    BY <1>1, <1>2, <1>4, <1>5, <1>7 DEF InRange
  <2>3. QED BY <1>4, <1>6, <2>1, <2>2 DEF InRange
<1>9. Extends(l, m)
  <2>1. /\ m.files \in Seq(Entry) /\ Len(l.files) <= Len(m.files)
        /\ \A i \in 1 .. Len(l.files) : l.files[i] = m.files[i]
    BY <1>2, <1>4, <1>5, <1>7
  <2>2. IsPrefix(l.files, m.files)
    BY <2>1, <1>1, PrefixByElement
  <2>3. QED BY <1>4, <2>2, ExtendsItself DEF Extends
<1>10. QED BY <1>2, <1>4, <1>5, <1>7, <1>8, <1>9 DEF m

\* apply_listing keeps the ids in range.
LEMMA ApplySafe ==
  ASSUME NEW l, InRange(l), NEW d \in DOMAIN l.dirs, NEW e \in Listing
  PROVE  InRange(ApplyListing(l, d, e)) /\ Extends(l, ApplyListing(l, d, e))
<1>1. CASE ~e.exists /\ d = Root
  BY <1>1, ExtendsItself DEF ApplyListing
<1>2. CASE ~e.exists /\ d # Root
  BY <1>2, RemoveSafe DEF ApplyListing, RemoveSubtree
<1>3. CASE e.exists
  <2> DEFINE files == FilesInDir(l, d)
             stale == {f \in files : l.files[f].name \notin e.files}
             gone  == {c \in ChildDirs(l, d) : l.dirs[c].name \notin e.dirs}
             new   == e.files \ NamesOf(l.files, files)
             added == PushFiles(l, d, new)
             m     == Kill(added, {}, stale)
  <2>1. ApplyListing(l, d, e) = RemoveSubtrees(m, gone)
    BY <1>3 DEF ApplyListing
  <2>2. new \subseteq Name /\ stale \subseteq DOMAIN l.files
    BY DEF Listing, FilesInDir, AliveFiles
  <2> HIDE DEF new, stale, gone
  <2>3. /\ InRange(added) /\ Extends(l, added)
        /\ DOMAIN l.files \subseteq DOMAIN added.files
    BY <2>2, PushSafe
  <2> HIDE DEF added
  <2>4. InRange(m) /\ Extends(added, m)
    BY <2>2, <2>3, KillSafe
  <2> HIDE DEF m
  <2>5. InRange(RemoveSubtrees(m, gone)) /\ Extends(m, RemoveSubtrees(m, gone))
    BY <2>4, RemoveSafe
  <2>6. Extends(added, RemoveSubtrees(m, gone))
    BY <2>3, <2>4, <2>5, ExtendsFurther
  <2>7. Extends(l, RemoveSubtrees(m, gone))
    BY <2>3, <2>5, <2>6, ExtendsFurther
  <2>8. QED BY <2>1, <2>5, <2>7
<1>4. QED BY <1>1, <1>2, <1>3

\* graft keeps the ids in range and appends the whole tree.
LEMMA GraftSafe ==
  ASSUME NEW l, InRange(l), NEW t, TreeInRange(t),
         NEW parent, parent \in {NoDir} \cup DOMAIN l.dirs
  PROVE  /\ InRange(Graft(l, parent, t))
         /\ Extends(l, Graft(l, parent, t))
         /\ DeltaLen(Graft(l, parent, t)) >= Len(t.dirs) + DeltaLen(l)
<1> DEFINE ld == l.dirs   lf == l.files   td == t.dirs   tf == t.files
           n  == Len(ld) + Len(td)
           ds == [i \in 1 .. Len(td) |->
                    [name   |-> td[i].name,
                     parent |-> IF i = 1 THEN parent ELSE Len(ld) + td[i].parent]]
           fs == [i \in 1 .. Len(tf) |->
                    [name |-> tf[i].name, parent |-> Len(ld) + tf[i].parent]]
           m  == Graft(l, parent, t)
<1>1. /\ l \in Snapshot
      /\ ld \in Seq(Entry) /\ lf \in Seq(Entry)
      /\ l.baseDirs \in Nat /\ l.baseFiles \in Nat
      /\ l.baseDirs <= Len(ld) /\ l.baseFiles <= Len(lf)
      /\ l.deadDirs \subseteq 1 .. Len(ld) /\ l.deadFiles \subseteq 1 .. Len(lf)
      /\ \A i \in 1 .. Len(ld) : ld[i].parent \in {NoDir} \cup 1 .. Len(ld)
      /\ \A i \in 1 .. Len(lf) : lf[i].parent \in 1 .. Len(ld)
  BY LenProperties DEF InRange, Snapshot
<1>2. /\ td \in Seq(Entry) /\ tf \in Seq(Entry)
      /\ \A i \in 1 .. Len(td) : td[i].parent \in {NoDir} \cup 1 .. Len(td)
      /\ \A i \in 1 .. Len(tf) : tf[i].parent \in 1 .. Len(td)
  BY LenProperties DEF TreeInRange, Subtree
<1>3. parent \in {NoDir} \cup 1 .. Len(ld)
  BY <1>1, LenProperties
<1>4. m = [l EXCEPT !.dirs = @ \o ds, !.files = @ \o fs]
  BY DEF Graft
<1> HIDE DEF ld, lf, td, tf
<1>5. Len(ld) \in Nat /\ Len(lf) \in Nat /\ Len(td) \in Nat /\ Len(tf) \in Nat
  BY <1>1, <1>2, LenProperties
<1>6. /\ ds \in [1 .. Len(td) -> Entry]
      /\ \A i \in 1 .. Len(td) : ds[i].parent \in {NoDir} \cup 1 .. n
  <2>1. ASSUME NEW i \in 1 .. Len(td)
        PROVE  /\ td[i].name \in Name
               /\ IF i = 1 THEN parent \in {NoDir} \cup 1 .. n
                           ELSE Len(ld) + td[i].parent \in {NoDir} \cup 1 .. n
    <3>1. td[i] \in Entry
      BY <1>2, ElementOfSeq
    <3>2. td[i].parent \in {NoDir} \cup 1 .. Len(td)
      BY <1>2
    <3>3. QED BY <3>1, <3>2, <1>3, <1>5 DEF Entry, NoDir
  <2>2. {NoDir} \cup 1 .. n \subseteq Nat
    BY <1>5 DEF NoDir
  <2> HIDE DEF n
  <2>3. QED BY <2>1, <2>2 DEF Entry
<1>7. /\ fs \in [1 .. Len(tf) -> Entry]
      /\ \A i \in 1 .. Len(tf) : fs[i].parent \in 1 .. n
  <2>1. ASSUME NEW i \in 1 .. Len(tf)
        PROVE  tf[i].name \in Name /\ Len(ld) + tf[i].parent \in 1 .. n
    <3>1. tf[i] \in Entry
      BY <1>2, ElementOfSeq
    <3>2. tf[i].parent \in 1 .. Len(td)
      BY <1>2
    <3>3. QED BY <3>1, <3>2, <1>5 DEF Entry
  <2>2. 1 .. n \subseteq Nat
    BY <1>5
  <2> HIDE DEF n
  <2>3. QED BY <2>1, <2>2 DEF Entry
<1> HIDE DEF ds, fs, m
<1>8. /\ ld \o ds \in Seq(Entry) /\ Len(ld \o ds) = n /\ DOMAIN (ld \o ds) = 1 .. n
      /\ lf \o fs \in Seq(Entry) /\ Len(lf \o fs) = Len(lf) + Len(tf)
      /\ DOMAIN (lf \o fs) = 1 .. Len(lf) + Len(tf)
  <2>1. /\ ld \o ds \in Seq(Entry) /\ Len(ld \o ds) = n /\ DOMAIN (ld \o ds) = 1 .. n
    <3>1. ld \in Seq(Entry) /\ Len(td) \in Nat /\ ds \in [1 .. Len(td) -> Entry]
      BY <1>1, <1>5, <1>6
    <3>2. QED BY <3>1, Appended
  <2>2. /\ lf \o fs \in Seq(Entry) /\ Len(lf \o fs) = Len(lf) + Len(tf)
        /\ DOMAIN (lf \o fs) = 1 .. Len(lf) + Len(tf)
    <3>1. lf \in Seq(Entry) /\ Len(tf) \in Nat /\ fs \in [1 .. Len(tf) -> Entry]
      BY <1>1, <1>5, <1>7
    <3>2. QED BY <3>1, Appended
  <2>3. QED BY <2>1, <2>2
<1>9. /\ m \in Snapshot
      /\ m.dirs = ld \o ds /\ m.files = lf \o fs
      /\ m.baseDirs = l.baseDirs /\ m.baseFiles = l.baseFiles
      /\ m.deadDirs = l.deadDirs /\ m.deadFiles = l.deadFiles
  BY <1>1, <1>4, <1>8 DEF Snapshot, ld, lf
<1>10. InRange(m)
  <2>1. \A i \in DOMAIN (ld \o ds) : (ld \o ds)[i].parent \in {NoDir} \cup 1 .. n
    <3>1. \A i \in 1 .. Len(ld) : ld[i].parent \in {NoDir} \cup 1 .. n
      BY <1>1, <1>5
    <3>2. QED BY <3>1, <1>1, <1>5, <1>6, AppendedParents
  <2>2. \A i \in DOMAIN (lf \o fs) : (lf \o fs)[i].parent \in 1 .. n
    <3>1. \A i \in 1 .. Len(lf) : lf[i].parent \in 1 .. n
      BY <1>1, <1>5
    <3>2. QED BY <3>1, <1>1, <1>5, <1>7, AppendedParents
  <2>3. /\ l.baseDirs <= n /\ l.baseFiles <= Len(lf) + Len(tf)
        /\ l.deadDirs \subseteq 1 .. n /\ l.deadFiles \subseteq 1 .. Len(lf) + Len(tf)
    BY <1>1, <1>5
  <2>4. QED BY <2>1, <2>2, <2>3, <1>8, <1>9 DEF InRange
<1>11. Extends(l, m)
  <2>1. IsPrefix(ld, ld \o ds) /\ IsPrefix(lf, lf \o fs)
    BY <1>1, <1>5, <1>6, <1>7, AppendedPrefix
  <2>2. QED BY <2>1, <1>9 DEF Extends, ld, lf
<1>12. DeltaLen(m) >= Len(td) + DeltaLen(l)
  <2>1. DeltaLen(l) = (Len(ld) - l.baseDirs) + (Len(lf) - l.baseFiles)
    BY DEF DeltaLen, ld, lf
  <2>2. DeltaLen(m) = (n - l.baseDirs) + ((Len(lf) + Len(tf)) - l.baseFiles)
    BY <1>8, <1>9 DEF DeltaLen
  <2>3. \A p, q, r, s, x, y \in Nat :
          ((p + q) - x) + ((r + s) - y) >= q + ((p - x) + (r - y))
    OBVIOUS
  <2>4. QED BY <1>1, <1>5, <2>1, <2>2, <2>3
<1>13. QED BY <1>10, <1>11, <1>12 DEF m, td

\* A scanned tree is a snapshot with its ids in range and no delta.
LEMMA BaseSafe ==
  ASSUME NEW t, TreeInRange(t)
  PROVE  InRange(BaseOf(t)) /\ BaseOf(t).deadDirs = {} /\ DeltaLen(BaseOf(t)) = 0
<1>1. t.dirs \in Seq(Entry) /\ t.files \in Seq(Entry)
  BY DEF TreeInRange, Subtree
<1>2. Len(t.dirs) \in Nat /\ Len(t.files) \in Nat
  BY <1>1, LenProperties
<1>3. BaseOf(t) \in Snapshot
  BY <1>1, <1>2 DEF BaseOf, Snapshot
<1>4. InRange(BaseOf(t))
  BY <1>2, <1>3 DEF InRange, BaseOf, TreeInRange
<1>5. DeltaLen(BaseOf(t)) = 0
  <2>1. DeltaLen(BaseOf(t)) = (Len(t.dirs) - Len(t.dirs)) + (Len(t.files) - Len(t.files))
    BY DEF DeltaLen, BaseOf
  <2>2. \A x, y \in Nat : (x - x) + (y - y) = 0
    OBVIOUS
  <2>3. QED BY <1>2, <2>1, <2>2
<1>6. QED BY <1>4, <1>5 DEF BaseOf

-----------------------------------------------------------------------------
(* Traversals.                                                             *)

\* Prefixes and fronts of paths are paths, and a directory's children have one.
LEMMA PathParts ==
  ASSUME NEW p \in Path
  PROVE  /\ \A n \in 0 .. Len(p) : Prefix(p, n) \in Path
         /\ Front(p) \in Path
         /\ \A x \in Name : Append(p, x) \in Path
         /\ p # <<>> => Last(p) \in Name
<1>1. Len(p) \in Nat /\ \A i \in 1 .. Len(p) : p[i] \in Name
  BY LenProperties, ElementOfSeq DEF Path
<1>2. ASSUME NEW n \in 0 .. Len(p) PROVE Prefix(p, n) \in Path
  BY <1>1, SubSeqProperties DEF Prefix, Path
<1>3. Front(p) \in Path
  <2>1. \A i \in 1 .. Len(p) - 1 : p[i] \in Name
    BY <1>1
  <2>2. SubSeq(p, 1, Len(p) - 1) \in Seq(Name)
    BY <1>1, <2>1, SubSeqProperties
  <2>3. QED BY <2>2 DEF Front, Path
<1>4. ASSUME NEW x \in Name PROVE Append(p, x) \in Path
  BY AppendProperties DEF Path
<1>5. ASSUME p # <<>> PROVE Last(p) \in Name
  <2>1. Len(p) # 0
    BY <1>5, EmptySeq DEF Path
  <2>2. QED BY <1>1, <2>1 DEF Last
<1>6. QED BY <1>2, <1>3, <1>4, <1>5

\* A traversal begins with its tree in range and one directory to read.
LEMMA WalkFromSafe ==
  ASSUME NEW into, NEW p \in Path
  PROVE  /\ WalkOK(WalkFrom(into, p)) /\ WalkFrom(into, p).into = into
         /\ Len(WalkFrom(into, p).tree.dirs)
              = WalkFrom(into, p).read + Len(WalkFrom(into, p).stack)
<1> DEFINE name == IF p = <<>> THEN CHOOSE n \in Name : TRUE ELSE Last(p)
           ds   == <<[name |-> name, parent |-> NoDir]>>
           w    == WalkFrom(into, p)
<1>1. name \in Name
  BY NameAssumption, PathParts
<1>2. /\ w.into = into /\ w.read = 0
      /\ w.tree = [dirs |-> ds, files |-> <<>>]
      /\ w.stack = <<[id |-> 1, path |-> p]>>
  BY DEF WalkFrom
<1> HIDE DEF w, name
<1>3. /\ ds \in Seq(Entry) /\ Len(ds) = 1 /\ DOMAIN ds = {1} /\ ds[1].parent = NoDir
  BY <1>1 DEF Entry, NoDir
<1> HIDE DEF ds
<1>4. TreeInRange([dirs |-> ds, files |-> <<>>])
  BY <1>3 DEF TreeInRange, Subtree
<1>5. <<[id |-> 1, path |-> p]>> \in Seq([id : DOMAIN ds, path : Path])
  BY <1>3
<1>6. WalkOK(w)
  BY <1>2, <1>4, <1>5 DEF WalkOK
<1>7. Len(w.tree.dirs) = w.read + Len(w.stack)
  BY <1>2, <1>3
<1>8. QED BY <1>2, <1>6, <1>7 DEF w

\* The traversal at rest is in range.
LEMMA NoWalkSafe == WalkOK(NoWalk)
<1>1. TreeInRange([dirs |-> <<>>, files |-> <<>>])
  BY DEF TreeInRange, Subtree
<1>2. QED BY <1>1 DEF NoWalk, WalkOK

\* Removing one element of a sequence.
LEMMA RemoveAtSafe ==
  ASSUME NEW S, NEW s \in Seq(S), NEW i \in 1 .. Len(s)
  PROVE  RemoveAt(s, i) \in Seq(S) /\ Len(RemoveAt(s, i)) = Len(s) - 1
<1>1. Len(s) \in Nat /\ \A j \in 1 .. Len(s) : s[j] \in S
  BY LenProperties, ElementOfSeq
<1>2. SubSeq(s, 1, i - 1) \in Seq(S) /\ Len(SubSeq(s, 1, i - 1)) = i - 1
  <2>1. i - 1 \in Int /\ \A j \in 1 .. i - 1 : s[j] \in S
    BY <1>1
  <2>2. QED BY <2>1, <1>1, SubSeqProperties
<1>3. SubSeq(s, i + 1, Len(s)) \in Seq(S) /\ Len(SubSeq(s, i + 1, Len(s))) = Len(s) - i
  <2>1. i + 1 \in Int /\ Len(s) \in Int /\ \A j \in i + 1 .. Len(s) : s[j] \in S
    BY <1>1
  <2>2. QED BY <2>1, <1>1, SubSeqProperties
<1> DEFINE before == SubSeq(s, 1, i - 1)   after == SubSeq(s, i + 1, Len(s))
<1>4. RemoveAt(s, i) = before \o after
  BY DEF RemoveAt
<1>5. /\ before \in Seq(S) /\ Len(before) = i - 1
      /\ after \in Seq(S) /\ Len(after) = Len(s) - i
  BY <1>2, <1>3
<1> HIDE DEF before, after
<1>6. before \o after \in Seq(S) /\ Len(before \o after) = Len(before) + Len(after)
  BY <1>5, ConcatProperties
<1>7. (i - 1) + (Len(s) - i) = Len(s) - 1
  BY <1>1
<1>8. QED BY <1>4, <1>5, <1>6, <1>7

\* What a listing of the disk holds are names.
LEMMA ListDiskType ==
  ASSUME NEW p
  PROVE  ListDisk(p) \in Listing
BY DEF ListDisk, Listing, NoListing, ChildrenOf

\* Reading one directory keeps a traversal in range, and the tree holds the
\* directories read and the directories still to read.
LEMMA VisitSafe ==
  ASSUME NEW w, WalkOK(w), NEW i \in DOMAIN w.stack, NEW e \in Listing,
         NEW order \in Orders(e.dirs)
  PROVE  LET v == Visit(w, i, e, order)
         IN  /\ WalkOK(v) /\ v.into = w.into
             /\ Len(w.tree.dirs) = w.read + Len(w.stack)
                  => Len(v.tree.dirs) = v.read + Len(v.stack)
<1> DEFINE td == w.tree.dirs   tf == w.tree.files   st == w.stack
           top == st[i]
           k  == Cardinality(e.dirs)
           kf == Cardinality(e.files)
           ds == [j \in 1 .. k |-> [name |-> order[j], parent |-> top.id]]
           fs == [j \in 1 .. kf |-> [name |-> SetToSeq(e.files)[j], parent |-> top.id]]
           ss == [j \in 1 .. k |-> [id |-> Len(td) + j, path |-> Append(top.path, order[j])]]
           m  == Len(td) + k
           v  == Visit(w, i, e, order)
<1>1. /\ td \in Seq(Entry) /\ tf \in Seq(Entry)
      /\ \A j \in 1 .. Len(td) : td[j].parent \in {NoDir} \cup 1 .. Len(td)
      /\ \A j \in 1 .. Len(tf) : tf[j].parent \in 1 .. Len(td)
      /\ DOMAIN td = 1 .. Len(td)
  BY LenProperties DEF WalkOK, TreeInRange, Subtree
<1>2. st \in Seq([id : 1 .. Len(td), path : Path]) /\ w.read \in Nat
  BY <1>1 DEF WalkOK
<1>3. IsFiniteSet(e.dirs) /\ IsFiniteSet(e.files) /\ e.dirs \subseteq Name /\ e.files \subseteq Name
  BY NameAssumption, FS_Subset DEF Listing
<1>4. /\ k \in Nat /\ order \in [1 .. k -> e.dirs] /\ Len(order) = k
      /\ kf \in Nat /\ SetToSeq(e.files) \in [1 .. kf -> e.files] /\ Len(SetToSeq(e.files)) = kf
  BY <1>3, ListOfSet, FunctionIsSeq DEF Orders
<1>5. /\ v.into = w.into /\ v.read = w.read + 1
      /\ v.tree = [dirs |-> td \o ds, files |-> tf \o fs]
      /\ v.stack = RemoveAt(st, i) \o ss
  BY <1>4 DEF Visit
<1>6. i \in 1 .. Len(st)
  BY <1>2, LenProperties
<1> HIDE DEF td, tf, st, v, k, kf
<1>7. Len(td) \in Nat /\ Len(tf) \in Nat /\ Len(st) \in Nat
  BY <1>1, <1>2, LenProperties
<1>8. top \in [id : 1 .. Len(td), path : Path]
  BY <1>2, <1>6, ElementOfSeq
<1>9. /\ top.id \in 1 .. Len(td) /\ top.id \in Nat /\ top.id \in 1 .. m
      /\ top.path \in Path
  BY <1>7, <1>8, <1>4
<1> HIDE DEF top
<1>10. /\ ds \in [1 .. k -> Entry]
       /\ \A j \in 1 .. k : ds[j].parent \in {NoDir} \cup 1 .. m
  <2> HIDE DEF m
  <2>1. QED BY <1>3, <1>4, <1>9 DEF Entry
<1>11. /\ fs \in [1 .. kf -> Entry]
       /\ \A j \in 1 .. kf : fs[j].parent \in 1 .. m
  <2> HIDE DEF m
  <2>1. QED BY <1>3, <1>4, <1>9 DEF Entry
<1>12. ss \in [1 .. k -> [id : 1 .. m, path : Path]]
  <2>1. ASSUME NEW j \in 1 .. k
        PROVE  Len(td) + j \in 1 .. m /\ Append(top.path, order[j]) \in Path
    <3>1. order[j] \in Name
      BY <1>3, <1>4
    <3>2. Append(top.path, order[j]) \in Path
      BY <3>1, <1>9, PathParts
    <3>3. Len(td) + j \in 1 .. m
      BY <1>4, <1>7
    <3>4. QED BY <3>2, <3>3
  <2> HIDE DEF m
  <2>2. QED BY <2>1
<1> HIDE DEF ds, fs, ss
<1>13. /\ td \o ds \in Seq(Entry) /\ Len(td \o ds) = m /\ DOMAIN (td \o ds) = 1 .. m
  BY <1>1, <1>4, <1>10, Appended
<1>14. tf \o fs \in Seq(Entry)
  BY <1>1, <1>4, <1>11, Appended
<1>15. /\ RemoveAt(st, i) \o ss \in Seq([id : 1 .. m, path : Path])
       /\ Len(RemoveAt(st, i) \o ss) = (Len(st) - 1) + k
  <2>1. [id : 1 .. Len(td), path : Path] \subseteq [id : 1 .. m, path : Path]
    BY <1>4, <1>7
  <2> HIDE DEF m
  <2> DEFINE Old == [id : 1 .. Len(td), path : Path]
             New == [id : 1 .. m, path : Path]
  <2>2. st \in Seq(Old) /\ Old \subseteq New
    BY <2>1, <1>2
  <2>3. ss \in [1 .. k -> New]
    BY <1>12
  <2> HIDE DEF Old, New
  <2>4. st \in Seq(New)
    BY <2>2, SeqMonotonic
  <2>5. RemoveAt(st, i) \in Seq(New) /\ Len(RemoveAt(st, i)) = Len(st) - 1
    BY <2>4, <1>6, RemoveAtSafe
  <2> DEFINE rest == RemoveAt(st, i)
  <2> HIDE DEF rest
  <2>6. /\ rest \o ss \in Seq(New)
        /\ Len(rest \o ss) = Len(rest) + k
    <3>1. k \in Nat
      BY <1>4
    <3>2. rest \in Seq(New)
      BY <2>5 DEF rest
    <3>3. QED BY <2>3, <3>1, <3>2, Appended
  <2>7. QED BY <2>5, <2>6 DEF New, rest
<1>16. TreeInRange(v.tree)
  <2>1. \A j \in DOMAIN (td \o ds) : (td \o ds)[j].parent \in {NoDir} \cup 1 .. m
    <3>1. \A j \in 1 .. Len(td) : td[j].parent \in {NoDir} \cup 1 .. m
      BY <1>1, <1>4, <1>7
    <3>2. QED BY <3>1, <1>1, <1>4, <1>10, AppendedParents
  <2>2. \A j \in DOMAIN (tf \o fs) : (tf \o fs)[j].parent \in 1 .. m
    <3>1. \A j \in 1 .. Len(tf) : tf[j].parent \in 1 .. m
      BY <1>1, <1>4, <1>7
    <3>2. QED BY <3>1, <1>1, <1>4, <1>11, AppendedParents
  <2>3. QED BY <2>1, <2>2, <1>5, <1>13, <1>14 DEF TreeInRange, Subtree
<1>17. WalkOK(v)
  <2>1. DOMAIN v.tree.dirs = 1 .. m /\ v.read \in Nat
    BY <1>2, <1>5, <1>13
  <2>2. v.stack \in Seq([id : DOMAIN v.tree.dirs, path : Path])
    BY <2>1, <1>5, <1>15
  <2>3. QED BY <2>1, <2>2, <1>16 DEF WalkOK
<1>18. ASSUME Len(td) = w.read + Len(st)
       PROVE  Len(v.tree.dirs) = v.read + Len(v.stack)
  <2>1. Len(v.tree.dirs) = Len(td) + k /\ Len(v.stack) = (Len(st) - 1) + k
    BY <1>5, <1>13, <1>15
  <2>2. QED BY <2>1, <1>2, <1>4, <1>5, <1>7, <1>18
<1>19. QED BY <1>5, <1>17, <1>18 DEF v, td, st

-----------------------------------------------------------------------------
(* Plans.                                                                  *)

\* lookup_dir returns a directory of the snapshot or none.
LEMMA LookupInRange ==
  ASSUME NEW l, NEW p
  PROVE  LookupDir(l, p) \in {NoDir} \cup DOMAIN l.dirs
BY DEF LookupDir

\* resolve_or_ancestor returns a directory of the snapshot, or none.
LEMMA ResolveInRange ==
  ASSUME NEW l, NEW p \in Path
  PROVE  ResolveOrAncestor(l, p) \in [id : {NoDir} \cup DOMAIN l.dirs, path : Path]
<1> DEFINE known == {i \in 0 .. Len(p) : LookupDir(l, Prefix(p, i)) # NoDir}
           n     == CHOOSE i \in known : \A j \in known : j <= i
<1>1. CASE known = {}
  <2>1. ResolveOrAncestor(l, p) = [id |-> NoDir, path |-> p]
    BY <1>1 DEF ResolveOrAncestor
  <2>2. QED BY <2>1
<1>2. CASE known # {}
  <2>1. ResolveOrAncestor(l, p) = [id |-> LookupDir(l, Prefix(p, n)), path |-> Prefix(p, n)]
    BY <1>2 DEF ResolveOrAncestor
  <2>2. \E i \in known : \A j \in known : j <= i
    <3>1. known \subseteq 0 .. Len(p) /\ Len(p) \in Nat
      BY LenProperties DEF Path
    <3> HIDE DEF known
    <3>2. QED BY <1>2, <3>1, GreatestOf
  <2>3. n \in known
    <3> HIDE DEF known
    <3>1. QED BY <2>2
  <2>4. n \in 0 .. Len(p)
    BY <2>3
  <2> HIDE DEF n
  <2>5. Prefix(p, n) \in Path
    BY <2>4, PathParts
  <2>6. QED BY <2>1, <2>5, LookupInRange
<1>3. QED BY <1>1, <1>2

\* What plan() keeps of its tasks have an id of the snapshot.
LEMMA TasksInRange ==
  ASSUME NEW l, NEW slots, slots \subseteq Nat,
         NEW task \in [slots -> [id : {NoDir} \cup DOMAIN l.dirs, path : Path]]
  PROVE  TasksOK(Tasks(slots, task), l)
<1> DEFINE kept == {s \in slots : /\ task[s].id # NoDir
                                 /\ \A r \in slots : r < s => task[r].id # task[s].id}
<1>1. Tasks(slots, task) = [k \in kept |-> task[k]]
  BY DEF Tasks
<1>2. kept \subseteq Nat
  OBVIOUS
<1>3. \A k \in kept : task[k] \in [id : DOMAIN l.dirs, path : Path]
  OBVIOUS
<1> HIDE DEF kept
<1>4. QED BY <1>1, <1>2, <1>3 DEF TasksOK

\* A plan keeps its range while the snapshot it is applied to grows.
LEMMA PlanGrows ==
  ASSUME NEW p, NEW l, NEW m, PlanOK(p, l), DOMAIN l.dirs \subseteq DOMAIN m.dirs
  PROVE  PlanOK(p, m)
<1>1. [id : DOMAIN l.dirs, path : Path] \subseteq [id : DOMAIN m.dirs, path : Path]
  OBVIOUS
<1>2. [slot : Nat, id : DOMAIN l.dirs, path : Path]
        \subseteq [slot : Nat, id : DOMAIN m.dirs, path : Path]
  OBVIOUS
<1>3. QED BY <1>1, <1>2 DEF PlanOK, TasksOK

\* plan() returns ids of the snapshot it was asked about.
LEMMA RefreshInRange ==
  ASSUME NEW l, NEW n \in Nat, NEW batch \in [1 .. n -> Event]
  PROVE  TasksOK(PlanRefresh(l, batch), l)
<1> DEFINE slots == {k \in 1 .. 2 * Len(batch) : Wants(batch, k)}
           task  == [k \in slots |-> ResolveOrAncestor(l, WantedPath(batch, k))]
           T     == [id : {NoDir} \cup DOMAIN l.dirs, path : Path]
<1>1. PlanRefresh(l, batch) = Tasks(slots, task)
  BY DEF PlanRefresh
<1>2. Len(batch) = n
  BY FunctionIsSeq
<1>3. slots \subseteq Nat
  BY <1>2
<1>4. ASSUME NEW k \in slots
      PROVE  ResolveOrAncestor(l, WantedPath(batch, k)) \in T
  <2>1. (k + 1) \div 2 \in 1 .. n
    BY <1>2
  <2>2. batch[(k + 1) \div 2].path \in Path
    BY <2>1 DEF Event
  <2>3. WantedPath(batch, k) \in Path
    BY <2>2, PathParts DEF WantedPath
  <2>4. QED BY <2>3, ResolveInRange
<1> HIDE DEF slots
<1>5. task \in [slots -> T]
  BY <1>4
<1> HIDE DEF task
<1>6. TasksOK(Tasks(slots, task), l)
  BY <1>3, <1>5, TasksInRange
<1>7. QED BY <1>1, <1>6

\* The same of the subtrees it asks to scan.
LEMMA RescansInRange ==
  ASSUME NEW l, NEW n \in Nat, NEW batch \in [1 .. n -> Event]
  PROVE  TasksOK(PlanRescans(l, batch), l)
<1> DEFINE target == RescanTargets(l, batch)
           slots  == {i \in DOMAIN target : target[i].id # Root}
           all    == {i \in 1 .. Len(batch) :
                        batch[i].kind \in {"scan", "above"} /\ ~IsIgnored(batch[i].path)}
           T      == [id : {NoDir} \cup DOMAIN l.dirs, path : Path]
<1>1. PlanRescans(l, batch) = Tasks(slots, target)
  BY DEF PlanRescans
<1>2. Len(batch) = n
  BY FunctionIsSeq
<1>3. target = [i \in all |-> TargetOf(l, batch[i])]
  BY DEF RescanTargets
<1>4. ASSUME NEW i \in all PROVE TargetOf(l, batch[i]) \in T
  <2>1. batch[i].path \in Path
    BY <1>2 DEF Event
  <2>2. ResolveOrAncestor(l, batch[i].path) \in T
    BY <2>1, ResolveInRange
  <2>3. None \in T
    BY DEF None, Path
  <2>4. QED BY <2>2, <2>3 DEF TargetOf
<1>5. all \subseteq Nat
  BY <1>2
<1> HIDE DEF all, target
<1>6. target \in [all -> T]
  BY <1>3, <1>4
<1>7. slots \subseteq Nat
  BY <1>5, <1>6
<1>8. Tasks(slots, target) = Tasks(slots, [i \in slots |-> target[i]])
  BY DEF Tasks
<1>9. [i \in slots |-> target[i]] \in [slots -> T]
  BY <1>6
<1> HIDE DEF slots
<1>10. TasksOK(Tasks(slots, [i \in slots |-> target[i]]), l)
  BY <1>7, <1>9, TasksInRange
<1>11. QED BY <1>1, <1>8, <1>10

\* An event is delivered as itself or as a word about a directory above it.
LEMMA DeliverableType ==
  ASSUME log \in Seq(Event), NEW i \in DOMAIN log
  PROVE  Deliverable(i) \subseteq Event
<1>1. log[i] \in Event
  BY LenProperties, ElementOfSeq
<1>2. ASSUME NEW n \in 0 .. Len(log[i].path) - 1
      PROVE  [path |-> Prefix(log[i].path, n), kind |-> "scan"] \in Event
  <2>1. log[i].path \in Path
    BY <1>1 DEF Event
  <2>2. Len(log[i].path) \in Nat
    BY <2>1, LenProperties DEF Path
  <2>3. Prefix(log[i].path, n) \in Path
    BY <2>1, <2>2, PathParts
  <2>4. QED BY <2>3 DEF Event
<1>3. [path |-> <<>>, kind |-> "above"] \in Event
  BY DEF Event, Path
<1>4. QED BY <1>1, <1>2, <1>3 DEF Deliverable

\* Every path on the volume is a path.
LEMMA PathsArePaths == Paths \subseteq Path
<1>1. \A n \in 1 .. MaxDepth : n \in Nat
  BY VolumeAssumption
<1>2. QED BY <1>1, FunctionIsSeq DEF Paths, Path

\* Whatever happens on the disk, disk and log keep their types.
LEMMA VolumeType ==
  ASSUME VolumeOK, VolumeStep, sent' = sent
  PROVE  VolumeOK'
<1>1. ASSUME NEW p \in Paths, NEW kind PROVE EventFor(p, kind) \in Event
  BY PathsArePaths DEF EventFor, Event
<1>2. ASSUME NEW events \in Seq(Event), Record(events)
      PROVE  log' \in Seq(Event) /\ sent' \in 0 .. Len(log')
  <2>1. log' = log \o events /\ log \in Seq(Event) /\ sent \in 0 .. Len(log)
    BY <1>2 DEF Record, VolumeOK
  <2>2. Len(log) \in Nat /\ Len(events) \in Nat
    BY <2>1, LenProperties
  <2>3. log' \in Seq(Event) /\ Len(log') = Len(log) + Len(events)
    BY <2>1, ConcatProperties
  <2>4. QED BY <2>1, <2>2, <2>3
<1>3. ASSUME NEW p \in Paths, NEW kind \in {"file", "dir"}, Create(p, kind) PROVE VolumeOK'
  <2>1. disk' \in [Paths -> Kinds]
    BY <1>3 DEF Create, VolumeOK, Kinds
  <2>2. <<EventFor(p, kind)>> \in Seq(Event) /\ Record(<<EventFor(p, kind)>>)
    BY <1>1, <1>3 DEF Create
  <2>3. QED BY <2>1, <2>2, <1>2 DEF VolumeOK
<1>4. ASSUME NEW p \in Paths, Unlink(p) PROVE VolumeOK'
  <2>1. disk' \in [Paths -> Kinds]
    BY <1>4 DEF Unlink, VolumeOK, Kinds
  <2>2. <<EventFor(p, disk[p])>> \in Seq(Event) /\ Record(<<EventFor(p, disk[p])>>)
    BY <1>1, <1>4 DEF Unlink
  <2>3. QED BY <2>1, <2>2, <1>2 DEF VolumeOK
<1>5. ASSUME NEW p \in Paths, Chmod(p) PROVE VolumeOK'
  <2>1. disk' \in [Paths -> Kinds]
    BY <1>5 DEF Chmod, VolumeOK, Kinds
  <2>2. <<EventFor(p, "dir")>> \in Seq(Event) /\ Record(<<EventFor(p, "dir")>>)
    BY <1>1, <1>5 DEF Chmod
  <2>3. QED BY <2>1, <2>2, <1>2 DEF VolumeOK
<1>6. ASSUME NEW p \in Paths, NEW q \in Paths, Rename(p, q) PROVE VolumeOK'
  <2>1. disk' \in [Paths -> Kinds]
    <3>1. disk \in [Paths -> Kinds] /\ "none" \in Kinds
      BY DEF VolumeOK, Kinds
    <3>2. QED BY <1>6, <3>1 DEF Rename
  <2>2. /\ <<EventFor(p, disk[p]), EventFor(q, disk[p])>> \in Seq(Event)
        /\ Record(<<EventFor(p, disk[p]), EventFor(q, disk[p])>>)
    BY <1>1, <1>6 DEF Rename
  <2>3. QED BY <2>1, <2>2, <1>2 DEF VolumeOK
<1>7. CASE Wrap
  <2>1. <<[path |-> <<>>, kind |-> "full"]>> \in Seq(Event)
    BY DEF Event, Path
  <2>2. Record(<<[path |-> <<>>, kind |-> "full"]>>) /\ disk' = disk
    BY <1>7 DEF Wrap
  <2>3. QED BY <2>1, <2>2, <1>2 DEF VolumeOK
<1>8. QED BY <1>3, <1>4, <1>5, <1>6, <1>7 DEF VolumeStep
-----------------------------------------------------------------------------
(* The inductive invariant.  TypeOK alone is one, but says too little of   *)
(* how the thread's copy and its traversal relate to the rest.             *)

\* While a batch is applied the copy extends what is published; at any other
\* time the two are one and no plan is left.
NextInv == IF pc \in {"work", "rescan", "graft"} THEN Extends(shared, next)
                                                 ELSE next = shared /\ plan = NoPlan

\* read_subtree holds one entry for each directory read or still to read.
WalkInv == pc \in {"rescan", "graft"} => Len(walk.tree.dirs) = walk.read + Len(walk.stack)

\* What is cut short leaves a delta too long, and no idle thread behind
\* unless a rebuild failed.
CutInv == cut => /\ DeltaLen(next) > CompactThreshold
                 /\ pc = "idle" => RebuildMayFail

IInv == TypeOK /\ NextInv /\ WalkInv /\ CutInv

\* The plan of nothing is in the range of every snapshot.
LEMMA NoPlanSafe == ASSUME NEW l PROVE PlanOK(NoPlan, l)
<1>1. NoTasks = [k \in {} |-> {}] /\ DOMAIN NoTasks = {}
  BY DEF NoTasks
<1>2. TasksOK(NoTasks, l)
  BY <1>1 DEF TasksOK
<1>3. QED BY <1>2 DEF NoPlan, PlanOK

\* Every start of the daemon satisfies the invariant.
LEMMA InitInv == Init => IInv
<1> SUFFICES ASSUME Init PROVE IInv
  OBVIOUS
<1>1. PICK s \in Starts : disk = s.disk /\ shared = s.index /\ next = s.index
  BY DEF Init
<1>2. disk \in [Paths -> Kinds] /\ InRange(shared) /\ InRange(next) /\ next = shared
  BY <1>1, StartsAssumption
<1>3. VolumeOK
  BY <1>2 DEF Init, VolumeOK
<1>4. PlanOK(plan, next) /\ plan = NoPlan /\ WalkOK(walk) /\ pc = "idle" /\ cut = FALSE
  BY NoPlanSafe, NoWalkSafe DEF Init
<1>5. QED BY <1>2, <1>3, <1>4 DEF IInv, TypeOK, NextInv, WalkInv, CutInv

\* The thread plans a batch of events.
LEMMA BatchOfEvents ==
  ASSUME IInv, TakeBatch
  PROVE  \E n \in Nat : \E batch \in [1 .. n -> Event] :
           /\ n \in 1 .. Len(log) - sent /\ sent' = sent + n
           /\ plan' = [rescans |-> PlanRescans(shared, batch),
                       refresh |-> PlanRefresh(shared, batch),
                       grafts  |-> {},
                       full    |-> PlanFull(shared, batch)]
<1>1. log \in Seq(Event) /\ sent \in 0 .. Len(log) /\ Len(log) \in Nat
  BY LenProperties DEF IInv, TypeOK, VolumeOK
<1>2. PICK n \in 1 .. Len(log) - sent :
        \E batch \in {b \in [1 .. n -> UNION {Deliverable(sent + i) : i \in 1 .. n}] :
                        \A i \in 1 .. n : b[i] \in Deliverable(sent + i)} :
          /\ plan' = [rescans |-> PlanRescans(shared, batch),
                      refresh |-> PlanRefresh(shared, batch),
                      grafts  |-> {},
                      full    |-> PlanFull(shared, batch)]
          /\ sent' = sent + n
  BY DEF TakeBatch
<1>3. PICK batch \in [1 .. n -> UNION {Deliverable(sent + i) : i \in 1 .. n}] :
        /\ \A i \in 1 .. n : batch[i] \in Deliverable(sent + i)
        /\ plan' = [rescans |-> PlanRescans(shared, batch),
                    refresh |-> PlanRefresh(shared, batch),
                    grafts  |-> {},
                    full    |-> PlanFull(shared, batch)]
        /\ sent' = sent + n
  BY <1>2
<1>4. n \in Nat /\ batch \in [1 .. n -> Event]
  <2>1. ASSUME NEW i \in 1 .. n PROVE batch[i] \in Event
    <3>1. sent + i \in 1 .. Len(log)
      BY <1>1
    <3>2. Deliverable(sent + i) \subseteq Event
      BY <1>1, <3>1, DeliverableType, LenProperties
    <3>3. QED BY <1>3, <3>2
  <2>2. n \in Nat
    BY <1>1
  <2>3. QED BY <1>3, <2>1, <2>2
<1>5. QED BY <1>3, <1>4

\* A batch is planned on the snapshot the copy is then made of.
LEMMA TakeBatchInv == IInv /\ TakeBatch => IInv'
<1> SUFFICES ASSUME IInv, TakeBatch PROVE IInv'
  OBVIOUS
<1>1. VolumeOK /\ InRange(shared) /\ WalkOK(walk) /\ cut \in BOOLEAN /\ pc = "idle" /\ next = shared
  BY DEF IInv, TypeOK, NextInv, TakeBatch
<1>2. log \in Seq(Event) /\ sent \in 0 .. Len(log) /\ Len(log) \in Nat
  BY <1>1, LenProperties DEF VolumeOK
<1>3. PICK n \in Nat : \E batch \in [1 .. n -> Event] :
        /\ n \in 1 .. Len(log) - sent /\ sent' = sent + n
        /\ plan' = [rescans |-> PlanRescans(shared, batch),
                    refresh |-> PlanRefresh(shared, batch),
                    grafts  |-> {},
                    full    |-> PlanFull(shared, batch)]
  BY BatchOfEvents
<1>4. PICK batch \in [1 .. n -> Event] :
        /\ n \in 1 .. Len(log) - sent /\ sent' = sent + n
        /\ plan' = [rescans |-> PlanRescans(shared, batch),
                    refresh |-> PlanRefresh(shared, batch),
                    grafts  |-> {},
                    full    |-> PlanFull(shared, batch)]
  BY <1>3
<1>5. n \in Nat /\ batch \in [1 .. n -> Event]
  OBVIOUS
<1>6. TasksOK(PlanRescans(shared, batch), shared) /\ TasksOK(PlanRefresh(shared, batch), shared)
  BY <1>5, RefreshInRange, RescansInRange
<1>7. PlanFull(shared, batch) \in BOOLEAN
  BY DEF PlanFull
<1>8. PlanOK(plan', shared)
  BY <1>4, <1>6, <1>7 DEF PlanOK
<1>9. /\ next' = shared /\ shared' = shared /\ walk' = walk /\ cut' = cut
      /\ disk' = disk /\ log' = log /\ pc' = "work"
  BY DEF TakeBatch
<1>10. VolumeOK'
  BY <1>1, <1>2, <1>4, <1>9 DEF VolumeOK
<1>11. TypeOK'
  BY <1>1, <1>8, <1>9, <1>10 DEF TypeOK
<1>12. NextInv' /\ WalkInv'
  BY <1>1, <1>9, ExtendsItself DEF NextInv, WalkInv
<1>13. CutInv'
  BY <1>1, <1>9 DEF IInv, CutInv
<1>14. QED BY <1>11, <1>12, <1>13 DEF IInv
\* The steps of the thread that leave the disk and what is published alone.
Private == UNCHANGED <<disk, log, sent, shared>>

\* Taking the least task of a plan yields a task and leaves a plan.
LEMMA FirstTask ==
  ASSUME NEW tasks, NEW l, TasksOK(tasks, l), tasks # NoTasks
  PROVE  /\ First(tasks) \in DOMAIN tasks /\ First(tasks) \in Nat
         /\ tasks[First(tasks)] \in [id : DOMAIN l.dirs, path : Path]
         /\ TasksOK(Without(tasks, First(tasks)), l)
<1> DEFINE T == [id : DOMAIN l.dirs, path : Path]
<1>1. DOMAIN tasks \subseteq Nat /\ tasks \in [DOMAIN tasks -> T]
  BY DEF TasksOK
<1> HIDE DEF T
<1>2. DOMAIN tasks # {}
  <2>1. CASE DOMAIN tasks = {}
    <3>1. tasks = [k \in {} |-> {}]
      BY <1>1, <2>1
    <3>2. QED BY <3>1 DEF NoTasks
  <2>2. QED BY <2>1
<1>3. \E k \in DOMAIN tasks : \A j \in DOMAIN tasks : k <= j
  BY <1>1, <1>2, LeastOf
<1>4. First(tasks) \in DOMAIN tasks
  BY <1>3 DEF First
<1>5. tasks[First(tasks)] \in T /\ First(tasks) \in Nat
  BY <1>1, <1>4
<1>6. ASSUME NEW k PROVE TasksOK(Without(tasks, k), l)
  BY <1>1 DEF Without, TasksOK, T
<1>7. QED BY <1>4, <1>5, <1>6 DEF T

\* A rescan begins at a directory of the copy.
LEMMA BeginRescanInv == IInv /\ BeginRescan => IInv'
<1> SUFFICES ASSUME IInv, BeginRescan PROVE IInv'
  OBVIOUS
<1> DEFINE k == First(plan.rescans)
<1>1. /\ VolumeOK /\ InRange(shared) /\ InRange(next) /\ PlanOK(plan, next) /\ cut \in BOOLEAN
      /\ Extends(shared, next)
  BY DEF IInv, TypeOK, NextInv, BeginRescan
<1>2. /\ plan.rescans # NoTasks /\ pc' = "rescan" /\ Private /\ next' = next /\ cut' = cut
      /\ walk' = WalkFrom(plan.rescans[k].id, plan.rescans[k].path)
      /\ plan' = [plan EXCEPT !.rescans = Without(@, k)]
  BY DEF BeginRescan, Private
<1>3. /\ TasksOK(plan.rescans, next) /\ TasksOK(plan.refresh, next)
      /\ plan = [rescans |-> plan.rescans, refresh |-> plan.refresh,
                 grafts |-> plan.grafts, full |-> plan.full]
  BY <1>1 DEF PlanOK
<1>4. /\ plan.rescans[k] \in [id : DOMAIN next.dirs, path : Path]
      /\ TasksOK(Without(plan.rescans, k), next)
  BY <1>2, <1>3, FirstTask
<1> HIDE DEF k
<1>5. plan' = [rescans |-> Without(plan.rescans, k), refresh |-> plan.refresh,
               grafts |-> plan.grafts, full |-> plan.full]
  BY <1>2, <1>3
<1>6. PlanOK(plan', next')
  BY <1>1, <1>2, <1>3, <1>4, <1>5 DEF PlanOK
<1>7. /\ WalkOK(walk') /\ walk'.into \in DOMAIN next'.dirs
      /\ Len(walk'.tree.dirs) = walk'.read + Len(walk'.stack)
  <2> DEFINE into == plan.rescans[k].id   path == plan.rescans[k].path
  <2>1. into \in DOMAIN next.dirs /\ path \in Path
    BY <1>4
  <2>2. walk' = WalkFrom(into, path) /\ next' = next
    BY <1>2
  <2> HIDE DEF into, path
  <2>3. /\ WalkOK(WalkFrom(into, path)) /\ WalkFrom(into, path).into = into
        /\ Len(WalkFrom(into, path).tree.dirs)
             = WalkFrom(into, path).read + Len(WalkFrom(into, path).stack)
    BY <2>1, WalkFromSafe
  <2>4. QED BY <2>1, <2>2, <2>3
<1>8. TypeOK'
  BY <1>1, <1>2, <1>6, <1>7 DEF TypeOK, VolumeOK, Private
<1>9. NextInv' /\ WalkInv'
  BY <1>1, <1>2, <1>7 DEF NextInv, WalkInv, Private
<1>10. CutInv'
  BY <1>2 DEF IInv, CutInv
<1>11. QED BY <1>8, <1>9, <1>10 DEF IInv

\* So does the reading of a directory to graft.
LEMMA BeginGraftInv == ASSUME NEW g, IInv, g \in plan.grafts, BeginGraft(g) PROVE IInv'
<1>1. /\ VolumeOK /\ InRange(shared) /\ InRange(next) /\ PlanOK(plan, next) /\ cut \in BOOLEAN
      /\ Extends(shared, next)
  BY DEF IInv, TypeOK, NextInv, BeginGraft
<1>2. /\ pc' = "graft" /\ Private /\ next' = next /\ cut' = cut
      /\ walk' = WalkFrom(g.id, g.path)
      /\ plan' = [plan EXCEPT !.grafts = @ \ {g}]
  BY DEF BeginGraft, Private
<1>3. g.id \in DOMAIN next.dirs /\ g.path \in Path
  BY <1>1 DEF PlanOK
<1>4. PlanOK(plan', next')
  <2>1. plan' = [rescans |-> plan.rescans, refresh |-> plan.refresh,
                 grafts |-> plan.grafts \ {g}, full |-> plan.full]
    BY <1>1, <1>2 DEF PlanOK
  <2>2. QED BY <1>1, <1>2, <2>1 DEF PlanOK
<1>5. /\ WalkOK(walk') /\ walk'.into \in DOMAIN next'.dirs
      /\ Len(walk'.tree.dirs) = walk'.read + Len(walk'.stack)
  <2> DEFINE into == g.id   path == g.path
  <2>1. into \in DOMAIN next.dirs /\ path \in Path /\ walk' = WalkFrom(into, path)
    BY <1>2, <1>3
  <2> HIDE DEF into, path
  <2>2. next' = next
    BY <1>2
  <2>3. /\ WalkOK(WalkFrom(into, path)) /\ WalkFrom(into, path).into = into
        /\ Len(WalkFrom(into, path).tree.dirs)
             = WalkFrom(into, path).read + Len(WalkFrom(into, path).stack)
    BY <2>1, WalkFromSafe
  <2>4. QED BY <2>1, <2>2, <2>3
<1>6. TypeOK'
  BY <1>1, <1>2, <1>4, <1>5 DEF TypeOK, VolumeOK, Private
<1>7. NextInv' /\ WalkInv'
  BY <1>1, <1>2, <1>5 DEF NextInv, WalkInv, Private
<1>8. CutInv'
  BY <1>2 DEF IInv, CutInv
<1>9. QED BY <1>6, <1>7, <1>8 DEF IInv

\* Reading one directory keeps the traversal in range, whichever it is.
LEMMA ReadOneSafe ==
  ASSUME NEW i, WalkOK(walk), i \in DOMAIN walk.stack, ReadOne(i)
  PROVE  /\ WalkOK(walk') /\ walk'.into = walk.into
         /\ Len(walk.tree.dirs) = walk.read + Len(walk.stack)
              => Len(walk'.tree.dirs) = walk'.read + Len(walk'.stack)
<1> DEFINE e == ListDisk(walk.stack[i].path)
<1>1. PICK order \in Orders(e.dirs) : walk' = Visit(walk, i, e, order)
  BY DEF ReadOne
<1>2. e \in Listing
  BY ListDiskType
<1> HIDE DEF e
<1>3. QED BY <1>1, <1>2, VisitSafe

\* One turn of read_subtree keeps the invariant.
LEMMA ReadSubtreeInv == IInv /\ ReadSubtree => IInv'
<1> SUFFICES ASSUME IInv, ReadSubtree PROVE IInv'
  OBVIOUS
<1>1. TypeOK /\ NextInv /\ WalkInv /\ CutInv
  BY DEF IInv
<1>2. /\ Private /\ next' = next /\ cut' = cut /\ pc' = pc /\ plan' = plan
      /\ pc \in {"rescan", "graft"} /\ walk.stack # <<>> /\ ReadOne(Len(walk.stack))
  BY DEF ReadSubtree, Private
<1>3. Len(walk.stack) \in DOMAIN walk.stack
  <2>1. walk.stack \in Seq([id : DOMAIN walk.tree.dirs, path : Path])
    BY <1>1 DEF TypeOK, WalkOK
  <2>2. QED BY <1>2, <2>1, EmptySeq, LenProperties
<1>4. /\ WalkOK(walk') /\ walk'.into = walk.into
      /\ Len(walk'.tree.dirs) = walk'.read + Len(walk'.stack)
  BY <1>1, <1>2, <1>3, ReadOneSafe DEF TypeOK, WalkInv
<1>5. TypeOK'
  BY <1>1, <1>2, <1>4 DEF TypeOK, VolumeOK, Private
<1>6. NextInv' /\ WalkInv' /\ CutInv'
  BY <1>1, <1>2, <1>4 DEF NextInv, WalkInv, CutInv, Private
<1>7. QED BY <1>5, <1>6 DEF IInv

\* One directory read by the scanner keeps it, whichever is taken.
LEMMA ScanOneInv == IInv /\ ScanOne => IInv'
<1> SUFFICES ASSUME IInv, ScanOne PROVE IInv'
  OBVIOUS
<1>1. TypeOK /\ NextInv /\ WalkInv /\ CutInv
  BY DEF IInv
<1>2. /\ Private /\ next' = next /\ cut' = cut /\ pc' = pc /\ plan' = plan /\ pc = "scan"
  BY DEF ScanOne, Private
<1>3. PICK i \in DOMAIN walk.stack : ReadOne(i)
  BY DEF ScanOne
<1>4. WalkOK(walk')
  BY <1>1, <1>3, ReadOneSafe DEF TypeOK
<1>5. TypeOK'
  BY <1>1, <1>2, <1>4 DEF TypeOK, VolumeOK, Private
<1>6. NextInv' /\ WalkInv' /\ CutInv'
  BY <1>1, <1>2 DEF NextInv, WalkInv, CutInv, Private
<1>7. QED BY <1>5, <1>6 DEF IInv
\* A tree that was read replaces or extends part of the copy; one cut short
\* makes the delta longer than the limit that stopped its reading.
LEMMA EndSubtreeInv == IInv /\ EndSubtree => IInv'
<1> SUFFICES ASSUME IInv, EndSubtree PROVE IInv'
  OBVIOUS
<1> DEFINE old    == IF pc = "rescan" THEN RemoveSubtree(next, walk.into) ELSE next
           parent == IF pc = "rescan" THEN next.dirs[walk.into].parent ELSE walk.into
           tree   == walk.tree
<1>1. /\ VolumeOK /\ InRange(shared) /\ InRange(next) /\ PlanOK(plan, next) /\ WalkOK(walk)
      /\ cut \in BOOLEAN /\ pc \in {"rescan", "graft"} /\ walk.into \in DOMAIN next.dirs
      /\ Extends(shared, next)
      /\ Len(walk.tree.dirs) = walk.read + Len(walk.stack)
      /\ cut => DeltaLen(next) > CompactThreshold
  BY DEF IInv, TypeOK, NextInv, WalkInv, CutInv, EndSubtree
<1>2. /\ Private /\ plan' = plan /\ pc' = "work" /\ walk' = NoWalk
      /\ cut' = (cut \/ walk.stack # <<>>)
      /\ walk.stack = <<>> \/ walk.read = ReadLimit
  BY DEF EndSubtree, Private
<1>3. next' = Graft(old, parent, tree)
  BY <1>1 DEF EndSubtree, RescanSubtree
<1>4. InRange(old) /\ Extends(next, old) /\ old.dirs = next.dirs
  BY <1>1, RemoveSafe, ExtendsItself DEF RemoveSubtree
<1>5. parent \in {NoDir} \cup DOMAIN old.dirs
  BY <1>1, <1>4 DEF InRange
<1>6. TreeInRange(tree) /\ Len(tree.dirs) \in Nat /\ Len(tree.dirs) = walk.read + Len(walk.stack)
  BY <1>1, LenProperties DEF WalkOK, TreeInRange, Subtree
<1> HIDE DEF old, parent, tree
<1>7. InRange(next') /\ Extends(old, next') /\ DeltaLen(next') >= Len(tree.dirs) + DeltaLen(old)
  BY <1>3, <1>4, <1>5, <1>6, GraftSafe
<1>8. Extends(next, next')
  BY <1>1, <1>4, <1>7, ExtendsFurther
<1>9. Extends(shared, next')
  BY <1>1, <1>7, <1>8, ExtendsFurther
<1>10. DOMAIN next.dirs \subseteq DOMAIN next'.dirs /\ DeltaLen(next) <= DeltaLen(next')
  BY <1>1, <1>7, <1>8, ExtendsIds
<1>11. PlanOK(plan', next')
  BY <1>1, <1>2, <1>10, PlanGrows
<1>12. TypeOK'
  BY <1>1, <1>2, <1>7, <1>11, NoWalkSafe DEF TypeOK, VolumeOK, Private
<1>13. NextInv' /\ WalkInv'
  BY <1>2, <1>9 DEF NextInv, WalkInv, Private
<1>14. DeltaLen(next) \in Nat /\ DeltaLen(old) \in Nat /\ DeltaLen(next') \in Nat
  BY <1>1, <1>4, <1>7, DeltaIsNat
<1>15. CutInv'
  <2>1. CASE cut
    BY <2>1, <1>1, <1>2, <1>10, <1>14, LimitAssumption DEF CutInv
  <2>2. CASE walk.stack # <<>>
    <3>1. Len(walk.stack) \in Nat /\ Len(walk.stack) # 0
      BY <2>2, <1>1, LenProperties, EmptySeq DEF WalkOK
    <3>2. Len(tree.dirs) > CompactThreshold
      BY <2>2, <3>1, <1>2, <1>6, LimitAssumption
    <3>3. DeltaLen(next') > CompactThreshold
      BY <3>2, <1>6, <1>7, <1>14, LimitAssumption
    <3>4. QED BY <3>3, <1>2 DEF CutInv
  <2>3. CASE ~cut /\ walk.stack = <<>>
    BY <2>3, <1>2 DEF CutInv
  <2>4. QED BY <2>1, <2>2, <2>3
<1>16. QED BY <1>12, <1>13, <1>15 DEF IInv

\* A listing is applied to a directory of the copy, and what it adds to the
\* plan hangs under that directory.
LEMMA RefreshInv == IInv /\ Refresh => IInv'
<1> SUFFICES ASSUME IInv, Refresh PROVE IInv'
  OBVIOUS
<1> DEFINE k  == First(plan.refresh)
           t  == plan.refresh[k]
           e  == ListDisk(t.path)
           gs == {[slot |-> k, id |-> t.id, path |-> Append(t.path, n)] :
                    n \in FreshDirs(next, t.id, e)}
<1>1. /\ VolumeOK /\ InRange(shared) /\ InRange(next) /\ PlanOK(plan, next) /\ WalkOK(walk)
      /\ cut \in BOOLEAN /\ Extends(shared, next)
      /\ cut => DeltaLen(next) > CompactThreshold
  BY DEF IInv, TypeOK, NextInv, CutInv, Refresh
<1>2. /\ Private /\ pc = "work" /\ pc' = pc /\ walk' = walk /\ cut' = cut
      /\ plan.refresh # NoTasks
      /\ next' = ApplyListing(next, t.id, e)
      /\ plan' = [plan EXCEPT !.refresh = Without(@, k), !.grafts = @ \cup gs]
  BY DEF Refresh, Private
<1>3. /\ TasksOK(plan.rescans, next) /\ TasksOK(plan.refresh, next)
      /\ plan = [rescans |-> plan.rescans, refresh |-> plan.refresh,
                 grafts |-> plan.grafts, full |-> plan.full]
  BY <1>1 DEF PlanOK
<1>4. /\ k \in Nat /\ t \in [id : DOMAIN next.dirs, path : Path]
      /\ TasksOK(Without(plan.refresh, k), next)
  BY <1>2, <1>3, FirstTask
<1>5. e \in Listing
  BY ListDiskType
<1> HIDE DEF k, t, e
<1>6. t.id \in DOMAIN next.dirs /\ t.path \in Path
  BY <1>4
<1>7. gs \subseteq [slot : Nat, id : DOMAIN next.dirs, path : Path]
  <2> DEFINE id == t.id   path == t.path
  <2>1. id \in DOMAIN next.dirs /\ path \in Path /\ k \in Nat
    BY <1>4, <1>6
  <2>2. FreshDirs(next, id, e) \subseteq Name
    BY <1>5 DEF FreshDirs, Listing
  <2> HIDE DEF id, path
  <2>3. \A n \in Name : Append(path, n) \in Path
    BY <2>1, PathParts
  <2>4. ASSUME NEW n \in FreshDirs(next, id, e)
        PROVE  [slot |-> k, id |-> id, path |-> Append(path, n)]
                 \in [slot : Nat, id : DOMAIN next.dirs, path : Path]
    BY <2>1, <2>2, <2>3
  <2> DEFINE T == [slot : Nat, id : DOMAIN next.dirs, path : Path]
  <2> HIDE DEF T
  <2>5. {[slot |-> k, id |-> id, path |-> Append(path, n)] :
           n \in FreshDirs(next, id, e)} \subseteq T
    BY <2>4 DEF T
  <2>6. QED BY <2>5 DEF T, id, path
<1> HIDE DEF gs
<1>8. InRange(next') /\ Extends(next, next')
  BY <1>1, <1>2, <1>5, <1>6, ApplySafe
<1>9. DOMAIN next.dirs \subseteq DOMAIN next'.dirs /\ DeltaLen(next) <= DeltaLen(next')
  BY <1>1, <1>8, ExtendsIds
<1>10. PlanOK(plan', next')
  <2>1. plan' = [rescans |-> plan.rescans, refresh |-> Without(plan.refresh, k),
                 grafts |-> plan.grafts \cup gs, full |-> plan.full]
    BY <1>2, <1>3
  <2>2. PlanOK(plan', next)
    BY <2>1, <1>1, <1>3, <1>4, <1>7 DEF PlanOK
  <2>3. QED BY <2>2, <1>9, PlanGrows
<1>11. TypeOK'
  BY <1>1, <1>2, <1>8, <1>10 DEF TypeOK, VolumeOK, Private
<1>12. NextInv' /\ WalkInv'
  <2>1. Extends(shared, next')
    BY <1>1, <1>8, ExtendsFurther
  <2>2. QED BY <2>1, <1>2 DEF NextInv, WalkInv, Private
<1>13. CutInv'
  <2>1. DeltaLen(next) \in Nat /\ DeltaLen(next') \in Nat
    BY <1>1, <1>8, DeltaIsNat
  <2>2. QED BY <2>1, <1>1, <1>2, <1>9, LimitAssumption DEF CutInv
<1>14. QED BY <1>11, <1>12, <1>13 DEF IInv

\* Publishing forgets a spent plan, and a cut subtree keeps the thread from idling.
LEMMA PublishInv == IInv /\ Publish => IInv'
<1> SUFFICES ASSUME IInv, Publish PROVE IInv'
  OBVIOUS
<1>1. /\ VolumeOK /\ InRange(shared) /\ InRange(next) /\ WalkOK(walk) /\ cut \in BOOLEAN
      /\ cut => DeltaLen(next) > CompactThreshold
  BY DEF IInv, TypeOK, CutInv
<1>2. /\ disk' = disk /\ log' = log /\ sent' = sent /\ next' = next /\ walk' = walk /\ cut' = cut
      /\ shared' = next /\ plan' = NoPlan
      /\ pc' = IF plan.full \/ DeltaLen(next) > CompactThreshold THEN "rebuild" ELSE "idle"
  BY DEF Publish
<1>3. pc' \in {"rebuild", "idle"}
  BY <1>2
<1>4. TypeOK'
  BY <1>1, <1>2, <1>3, NoPlanSafe DEF TypeOK, VolumeOK
<1>5. NextInv' /\ WalkInv' /\ CutInv'
  BY <1>1, <1>2, <1>3 DEF NextInv, WalkInv, CutInv
<1>6. QED BY <1>4, <1>5 DEF IInv

\* The steps of rebuild: one snapshot takes the place of another, or nothing does.
LEMMA BeginRebuildInv == IInv /\ BeginRebuild => IInv'
<1> SUFFICES ASSUME IInv, BeginRebuild PROVE IInv'
  OBVIOUS
<1>1. TypeOK /\ NextInv /\ CutInv
  BY DEF IInv
<1>2. /\ Private /\ next' = next /\ plan' = plan /\ cut' = cut
      /\ pc = "rebuild" /\ pc' = "scan" /\ walk' = WalkFrom(NoDir, <<>>)
  BY DEF BeginRebuild, Private
<1>3. <<>> \in Path
  BY DEF Path
<1>4. WalkOK(walk')
  BY <1>2, <1>3, WalkFromSafe
<1>5. TypeOK'
  BY <1>1, <1>2, <1>4 DEF TypeOK, VolumeOK, Private
<1>6. NextInv' /\ WalkInv' /\ CutInv'
  BY <1>1, <1>2 DEF NextInv, WalkInv, CutInv, Private
<1>7. QED BY <1>5, <1>6 DEF IInv

\* A finished scan is in range, and what was cut short is whole again.
LEMMA EndRebuildInv == IInv /\ EndRebuild => IInv'
<1> SUFFICES ASSUME IInv, EndRebuild PROVE IInv'
  OBVIOUS
<1>1. VolumeOK /\ PlanOK(plan, next) /\ TreeInRange(walk.tree) /\ pc = "scan"
  BY DEF IInv, TypeOK, WalkOK, EndRebuild
<1>2. /\ disk' = disk /\ log' = log /\ sent' = sent /\ plan' = plan
      /\ shared' = BaseOf(walk.tree) /\ next' = shared' /\ cut' = FALSE
      /\ walk' = NoWalk /\ pc' = "idle"
  BY DEF EndRebuild
<1>3. InRange(shared') /\ InRange(next')
  BY <1>1, <1>2, BaseSafe
<1>4. PlanOK(plan', next') /\ plan' = NoPlan
  BY <1>1, <1>2, NoPlanSafe DEF IInv, NextInv
<1>5. TypeOK'
  BY <1>1, <1>2, <1>3, <1>4, NoWalkSafe DEF TypeOK, VolumeOK
<1>6. NextInv' /\ WalkInv' /\ CutInv'
  BY <1>2, <1>4 DEF NextInv, WalkInv, CutInv
<1>7. QED BY <1>5, <1>6 DEF IInv
\* A rebuild that fails leaves all as it was, a cut subtree included.
LEMMA RebuildFailsInv == IInv /\ RebuildFails => IInv'
<1> SUFFICES ASSUME IInv, RebuildFails PROVE IInv'
  OBVIOUS
<1>1. TypeOK /\ NextInv /\ CutInv
  BY DEF IInv
<1>2. /\ Private /\ next' = next /\ plan' = plan /\ cut' = cut
      /\ pc = "scan" /\ pc' = "idle" /\ walk' = NoWalk /\ RebuildMayFail
  BY DEF RebuildFails, Private
<1>3. TypeOK'
  BY <1>1, <1>2, NoWalkSafe DEF TypeOK, VolumeOK, Private
<1>4. NextInv' /\ WalkInv' /\ CutInv'
  BY <1>1, <1>2 DEF NextInv, WalkInv, CutInv, Private
<1>5. QED BY <1>3, <1>4 DEF IInv

\* The disk may change under the thread at any time.
LEMMA EnvironmentInv == IInv /\ Environment => IInv'
<1> SUFFICES ASSUME IInv, Environment PROVE IInv'
  OBVIOUS
<1>1. TypeOK /\ NextInv /\ WalkInv /\ CutInv
  BY DEF IInv
<1>2. /\ VolumeStep /\ sent' = sent /\ shared' = shared /\ next' = next /\ pc' = pc
      /\ plan' = plan /\ walk' = walk /\ cut' = cut
  BY DEF Environment, updaterVars
<1>3. VolumeOK'
  BY <1>1, <1>2, VolumeType DEF TypeOK
<1>4. TypeOK'
  BY <1>1, <1>2, <1>3 DEF TypeOK
<1>5. NextInv' /\ WalkInv' /\ CutInv'
  BY <1>1, <1>2 DEF NextInv, WalkInv, CutInv
<1>6. QED BY <1>4, <1>5 DEF IInv

\* Every step keeps the invariant.
LEMMA StepInv == IInv /\ [Next]_vars => IInv'
<1> SUFFICES ASSUME IInv, [Next]_vars PROVE IInv'
  OBVIOUS
<1>1. CASE UNCHANGED vars
  BY <1>1 DEF vars, IInv, TypeOK, VolumeOK, NextInv, WalkInv, CutInv
<1>2. CASE Thread
  BY <1>2, TakeBatchInv, BeginRescanInv, BeginGraftInv, ReadSubtreeInv, EndSubtreeInv,
     RefreshInv, PublishInv, BeginRebuildInv, ScanOneInv, EndRebuildInv, RebuildFailsInv
     DEF Thread
<1>3. CASE Environment
  BY <1>3, EnvironmentInv
<1>4. QED BY <1>1, <1>2, <1>3 DEF Next

\* The invariant holds throughout.
THEOREM Invariance == Spec => []IInv
BY InitInv, StepInv, PTL DEF Spec

-----------------------------------------------------------------------------
(* Results.                                                                *)

\* No id that a snapshot, a plan or a traversal holds is ever out of the
\* range of the snapshot it is used on, while the disk changes under the reads.
THEOREM TypeCorrect == Spec => []TypeOK
<1>1. IInv => TypeOK
  BY DEF IInv
<1>2. QED BY <1>1, Invariance, PTL

\* A subtree that read_subtree cut short is never left at that: the next step
\* after publishing it is a rebuild, and as long as rebuilds fail the delta
\* stays above the limit that asks for another.
THEOREM CutAlwaysRebuilt == Spec => []CutIsRebuilt
<1>1. IInv => CutIsRebuilt
  BY DEF IInv, NextInv, CutInv, CutIsRebuilt
<1>2. QED BY <1>1, Invariance, PTL

\* What queries read only grows, by appended entries and by tombstones, until
\* a rebuild replaces it by a snapshot with no delta.
THEOREM SnapshotsOnlyExtend == Spec => SnapshotsExtend
<1>1. ASSUME IInv, [Next]_vars
      PROVE  [Extends(shared, shared') \/ (shared'.deadDirs = {} /\ DeltaLen(shared') = 0)]_vars
  <2>1. InRange(shared)
    BY <1>1 DEF IInv, TypeOK
  <2>2. CASE shared' = shared
    BY <2>1, <2>2, ExtendsItself
  <2>3. CASE Publish
    BY <2>3, <1>1 DEF IInv, NextInv, Publish
  <2>4. CASE EndRebuild
    <3>1. TreeInRange(walk.tree) /\ shared' = BaseOf(walk.tree)
      BY <2>4, <1>1 DEF IInv, TypeOK, WalkOK, EndRebuild
    <3>2. QED BY <3>1, BaseSafe
  <2>5. CASE Next /\ ~Publish /\ ~EndRebuild
    <3>1. shared' = shared
      BY <2>5 DEF Next, Thread, TakeBatch, BeginRescan, BeginGraft, ReadSubtree, EndSubtree,
                  Refresh, BeginRebuild, ScanOne, RebuildFails, Environment, updaterVars
    <3>2. QED BY <3>1, <2>2
  <2>6. QED BY <1>1, <2>2, <2>3, <2>4, <2>5 DEF vars
<1>2. QED BY <1>1, Invariance, PTL DEF Spec, SnapshotsExtend
-----------------------------------------------------------------------------
(* Siblings: the second invariant.                                         *)

\* A directory may get an entry of this name.
Free(l, d, x) == \A e \in AliveDirs(l) : l.dirs[e] # [name |-> x, parent |-> d]

\* An entry is the only alive one with its name and parent, or dead as well.
Sole(l, d) == \A e \in AliveDirs(l) : l.dirs[e] = l.dirs[d] => e = d

\* The rescans left replace entries that are apart and have no double.  A
\* directory that an earlier one removed may be among them.
RescansInv ==
  \A k \in DOMAIN plan.rescans :
    LET t == plan.rescans[k]
    IN  /\ t.path # <<>> /\ next.dirs[t.id].name = Last(t.path)
        /\ Sole(next, t.id)
        /\ \A j \in DOMAIN plan.rescans \ {k} : next.dirs[plan.rescans[j].id] # next.dirs[t.id]

\* A directory is listed once, so what its listing leaves to be grafted is
\* new, once each; grafts wait for rescans and listings.
ListInv ==
  /\ \A j, k \in DOMAIN plan.refresh : plan.refresh[j].id = plan.refresh[k].id => j = k
  /\ \A k \in DOMAIN plan.refresh, g \in plan.grafts : g.id # plan.refresh[k].id
GraftsInv ==
  /\ \A g \in plan.grafts : g.path # <<>> /\ Free(next, g.id, Last(g.path))
  /\ \A g, h \in plan.grafts : g.id = h.id /\ Last(g.path) = Last(h.path) => g = h
  /\ plan.grafts # {} => plan.rescans = NoTasks /\ pc # "rescan"
  /\ pc = "graft" => plan.rescans = NoTasks

\* A traversal reads each directory once: those still to be read have nothing
\* in the tree yet.
TreeOnce(t) ==
  /\ UniqueIn(t.dirs, DOMAIN t.dirs) /\ UniqueIn(t.files, DOMAIN t.files)
  /\ \A i \in DOMAIN t.dirs : i # 1 => t.dirs[i].parent # NoDir
StackOnce(w) ==
  /\ \A i, j \in DOMAIN w.stack : w.stack[i].id = w.stack[j].id => i = j
  /\ \A i \in DOMAIN w.stack :
       /\ \A c \in DOMAIN w.tree.dirs  : w.tree.dirs[c].parent # w.stack[i].id
       /\ \A c \in DOMAIN w.tree.files : w.tree.files[c].parent # w.stack[i].id

\* What it reads will have room: an entry that it replaces, or a free name.
RoomInv ==
  /\ pc = "rescan" =>
       /\ walk.tree.dirs # <<>> /\ next.dirs[walk.into].name = walk.tree.dirs[1].name
       /\ Sole(next, walk.into)
       /\ \A k \in DOMAIN plan.rescans : next.dirs[plan.rescans[k].id] # next.dirs[walk.into]
  /\ pc = "graft" =>
       /\ walk.tree.dirs # <<>> /\ Free(next, walk.into, walk.tree.dirs[1].name)
       /\ \A g \in plan.grafts : g.id = walk.into => Last(g.path) # walk.tree.dirs[1].name

SiblingInv ==
  /\ SiblingsApart(shared) /\ SiblingsApart(next)
  /\ RescansInv /\ ListInv /\ GraftsInv
  /\ TreeOnce(walk.tree) /\ StackOnce(walk) /\ RoomInv

-----------------------------------------------------------------------------
(* The recursive functions of Live.                                        *)

\* lookup_dir finds the root for the empty path only; any other directory it
\* finds is alive and has the path's last name.
LEMMA LookupFinds ==
  ASSUME NEW l, l.dirs \in Seq(Entry), NEW p \in Path,
         LookupDir(l, p) # NoDir, LookupDir(l, p) # Root
  PROVE  /\ p # <<>> /\ LookupDir(l, p) \in AliveDirs(l)
         /\ l.dirs[LookupDir(l, p)].name = Last(p)
<1> DEFINE N == Len(p)
           at[i \in 0 .. Len(p)] == IF i = 0 THEN {Root}
                                    ELSE UNION {FirstNamed(l, d, p[i]) : d \in at[i-1]}
           found == at[Len(p)] \cap DOMAIN l.dirs
           S == SUBSET Nat
           G == [i \in 0 .. N |-> [X \in S |-> UNION {FirstNamed(l, d, p[i]) : d \in X}]]
<1>1. N \in Nat /\ DOMAIN l.dirs \subseteq Nat
  BY LenProperties DEF Path
<1>2. \A d, x : FirstNamed(l, d, x) \subseteq Nat
  BY <1>1 DEF FirstNamed, Named, ChildDirs, AliveDirs
<1>3. G \in [0 .. N -> [S -> S]] /\ {Root} \in S
  BY <1>2 DEF Root
<1>4. PICK f \in [0 .. N -> S] : \A i \in 0 .. N : f[i] = IF i = 0 THEN {Root} ELSE G[i][f[i-1]]
  <2> HIDE DEF G, S, N
  <2>1. Stepwise(N, S, {Root}, G)
    BY <1>1, <1>3, StepwiseExists
  <2>2. QED BY <2>1 DEF Stepwise
<1>5. f = [i \in 0 .. N |-> IF i = 0 THEN {Root} ELSE UNION {FirstNamed(l, d, p[i]) : d \in f[i-1]}]
  <2>1. \A i \in 0 .. N : i # 0 => i - 1 \in 0 .. N
    BY <1>1
  <2>2. \A i \in 0 .. N : i # 0 => G[i][f[i-1]] = UNION {FirstNamed(l, d, p[i]) : d \in f[i-1]}
    BY <1>4, <2>1
  <2> HIDE DEF G, S, N
  <2>3. QED BY <1>4, <2>2
<1>6. at = [i \in 0 .. N |-> IF i = 0 THEN {Root} ELSE UNION {FirstNamed(l, d, p[i]) : d \in at[i-1]}]
  BY <1>5
<1> HIDE DEF at
<1>7. LookupDir(l, p) = IF found = {} THEN NoDir ELSE CHOOSE d \in found : TRUE
  BY DEF LookupDir, at
<1>8. LookupDir(l, p) \in found
  BY <1>7
<1>9. N # 0
  BY <1>1, <1>6, <1>8
<1>10. PICK d : LookupDir(l, p) \in FirstNamed(l, d, p[N])
  BY <1>1, <1>6, <1>8, <1>9
<1>11. LookupDir(l, p) \in AliveDirs(l) /\ l.dirs[LookupDir(l, p)].name = p[N]
  BY <1>10 DEF FirstNamed, Named, ChildDirs
<1>12. QED BY <1>9, <1>11, EmptySeq DEF Last

\* A traversal meets the directories it starts from.
LEMMA BelowStart ==
  ASSUME NEW l, l.dirs \in Seq(Entry), NEW from
  PROVE  from \cap DOMAIN l.dirs \subseteq Below(l, from)
<1> DEFINE N == Len(l.dirs)
           level[i \in 0 .. Len(l.dirs)] == IF i = 0 THEN from \cap DOMAIN l.dirs
                                            ELSE UNION {ChildDirs(l, d) : d \in level[i-1]}
           S == SUBSET DOMAIN l.dirs
           A == from \cap DOMAIN l.dirs
           G == [i \in 0 .. N |-> [X \in S |-> UNION {ChildDirs(l, d) : d \in X}]]
<1>1. N \in Nat
  BY LenProperties
<1>2. \A d : ChildDirs(l, d) \subseteq DOMAIN l.dirs
  BY DEF ChildDirs, AliveDirs
<1>3. G \in [0 .. N -> [S -> S]] /\ A \in S
  BY <1>2
<1>4. PICK f \in [0 .. N -> S] : \A i \in 0 .. N : f[i] = IF i = 0 THEN A ELSE G[i][f[i-1]]
  <2> HIDE DEF G, S, N, A
  <2>1. Stepwise(N, S, A, G)
    BY <1>1, <1>3, StepwiseExists
  <2>2. QED BY <2>1 DEF Stepwise
<1>5. f = [i \in 0 .. N |-> IF i = 0 THEN A ELSE UNION {ChildDirs(l, d) : d \in f[i-1]}]
  <2>1. \A i \in 0 .. N : i # 0 => i - 1 \in 0 .. N
    BY <1>1
  <2>2. \A i \in 0 .. N : i # 0 => G[i][f[i-1]] = UNION {ChildDirs(l, d) : d \in f[i-1]}
    BY <1>4, <2>1
  <2> HIDE DEF G, S, N, A
  <2>3. QED BY <1>4, <2>2
<1>6. level = [i \in 0 .. N |-> IF i = 0 THEN A ELSE UNION {ChildDirs(l, d) : d \in level[i-1]}]
  BY <1>5
<1> HIDE DEF level
<1>7. level[0] = A
  BY <1>1, <1>6
<1>8. Below(l, from) = DOMAIN l.dirs \cap UNION {level[i] : i \in 0 .. N}
  BY DEF Below, level
<1>9. QED BY <1>1, <1>7, <1>8

-----------------------------------------------------------------------------
(* What the operators on snapshots keep apart.                             *)

\* Entries that are apart, and not among those there are, may be appended.
LEMMA AppendedApart ==
  ASSUME NEW s \in Seq(Entry), NEW n \in Nat, NEW f \in [1 .. n -> Entry],
         NEW A, A \subseteq DOMAIN s, UniqueIn(s, A),
         \A i, j \in 1 .. n : f[i] = f[j] => i = j,
         \A i \in A, j \in 1 .. n : s[i] # f[j],
         NEW B, B \subseteq DOMAIN (s \o f), B \cap DOMAIN s \subseteq A
  PROVE  UniqueIn(s \o f, B)
<1>1. /\ DOMAIN (s \o f) = 1 .. Len(s) + n
      /\ \A i \in 1 .. Len(s) : (s \o f)[i] = s[i]
      /\ \A i \in 1 .. n : (s \o f)[Len(s) + i] = f[i]
  BY Appended
<1>2. Len(s) \in Nat /\ DOMAIN s = 1 .. Len(s)
  BY LenProperties
<1> DEFINE New(i) == i - Len(s) \in 1 .. n /\ (s \o f)[i] = f[i - Len(s)]
           Old(i) == i \in A /\ (s \o f)[i] = s[i]
<1>3. ASSUME NEW i \in B PROVE Old(i) \/ New(i)
  <2>1. CASE i \in 1 .. Len(s)
    BY <2>1, <1>1, <1>2
  <2>2. CASE i \notin 1 .. Len(s)
    <3>1. i - Len(s) \in 1 .. n /\ Len(s) + (i - Len(s)) = i
      BY <2>2, <1>1, <1>2
    <3>2. QED BY <3>1, <1>1
  <2>3. QED BY <2>1, <2>2
<1>4. ASSUME NEW i \in B, NEW j \in B, (s \o f)[i] = (s \o f)[j] PROVE i = j
  <2>1. CASE Old(i) /\ Old(j)
    BY <2>1, <1>4 DEF UniqueIn
  <2>2. CASE New(i) /\ New(j)
    <3>1. i - Len(s) = j - Len(s)
      BY <2>2, <1>4
    <3>2. i \in Nat /\ j \in Nat
      BY <1>1, <1>2
    <3>3. QED BY <3>1, <3>2, <1>2
  <2>3. QED BY <2>1, <2>2, <1>3, <1>4
<1>5. QED BY <1>4 DEF UniqueIn

\* Killing entries keeps the others apart.
LEMMA KillApart ==
  ASSUME NEW l, InRange(l), SiblingsApart(l), NEW ds, NEW fs
  PROVE  /\ SiblingsApart(Kill(l, ds, fs))
         /\ Kill(l, ds, fs).dirs = l.dirs /\ Kill(l, ds, fs).files = l.files
         /\ AliveDirs(Kill(l, ds, fs)) = AliveDirs(l) \ ds
         /\ AliveFiles(Kill(l, ds, fs)) = AliveFiles(l) \ fs
<1> DEFINE m == Kill(l, ds, fs)
<1>1. /\ m.dirs = l.dirs /\ m.files = l.files
      /\ m.deadDirs = l.deadDirs \cup ds /\ m.deadFiles = l.deadFiles \cup fs
  BY DEF Kill, InRange, Snapshot
<1> HIDE DEF m
<1>2. AliveDirs(m) = AliveDirs(l) \ ds /\ AliveFiles(m) = AliveFiles(l) \ fs
  BY <1>1 DEF AliveDirs, AliveFiles
<1>3. SiblingsApart(m)
  BY <1>1, <1>2 DEF SiblingsApart, UniqueIn
<1>4. QED BY <1>1, <1>2, <1>3 DEF m

\* So does remove_subtree, which kills the directory itself.
LEMMA RemoveApart ==
  ASSUME NEW l, InRange(l), SiblingsApart(l), NEW from
  PROVE  /\ SiblingsApart(RemoveSubtrees(l, from))
         /\ RemoveSubtrees(l, from).dirs = l.dirs
         /\ AliveDirs(RemoveSubtrees(l, from)) \subseteq AliveDirs(l) \ from
<1> DEFINE gone == Below(l, from)
           files == {f \in AliveFiles(l) : l.files[f].parent \in gone}
<1>1. RemoveSubtrees(l, from) = Kill(l, gone, files)
  BY DEF RemoveSubtrees
<1>2. from \cap DOMAIN l.dirs \subseteq gone
  BY BelowStart DEF InRange, Snapshot
<1> HIDE DEF gone, files
<1>3. /\ SiblingsApart(Kill(l, gone, files)) /\ Kill(l, gone, files).dirs = l.dirs
      /\ AliveDirs(Kill(l, gone, files)) = AliveDirs(l) \ gone
  BY KillApart
<1>4. QED BY <1>1, <1>2, <1>3 DEF AliveDirs

\* apply_listing appends the files that have no alive entry yet, once each.
LEMMA PushApart ==
  ASSUME NEW l, InRange(l), SiblingsApart(l), NEW d \in DOMAIN l.dirs,
         NEW names, names \subseteq Name \ NamesOf(l.files, FilesInDir(l, d))
  PROVE  /\ SiblingsApart(PushFiles(l, d, names))
         /\ PushFiles(l, d, names).dirs = l.dirs
         /\ AliveDirs(PushFiles(l, d, names)) = AliveDirs(l)
<1> DEFINE n == Cardinality(names)
           more == [i \in 1 .. n |-> [name |-> SetToSeq(names)[i], parent |-> d]]
           m == PushFiles(l, d, names)
<1>1. /\ l.dirs \in Seq(Entry) /\ l.files \in Seq(Entry) /\ d \in Nat
      /\ UniqueIn(l.files, AliveFiles(l)) /\ AliveFiles(l) \subseteq DOMAIN l.files
  BY LenProperties DEF InRange, Snapshot, SiblingsApart, AliveFiles
<1>2. IsFiniteSet(names) /\ names \subseteq Name
  BY NameAssumption, FS_Subset
<1>3. /\ n \in Nat /\ SetToSeq(names) \in [1 .. n -> names]
      /\ \A i, j \in 1 .. n : SetToSeq(names)[i] = SetToSeq(names)[j] => i = j
  BY <1>2, ListOfSet, ListedOnce
<1>4. /\ m.dirs = l.dirs /\ m.files = l.files \o more
      /\ m.deadDirs = l.deadDirs /\ m.deadFiles = l.deadFiles
  BY DEF PushFiles, InRange, Snapshot
<1>5. more \in [1 .. n -> Entry]
  BY <1>1, <1>2, <1>3 DEF Entry
<1>6. \A i, j \in 1 .. n : more[i] = more[j] => i = j
  BY <1>3
<1>7. ASSUME NEW i \in AliveFiles(l), NEW j \in 1 .. n PROVE l.files[i] # more[j]
  <2>1. SetToSeq(names)[j] \in names
    BY <1>3
  <2>2. l.files[i].parent = d => l.files[i].name \in NamesOf(l.files, FilesInDir(l, d))
    BY DEF NamesOf, FilesInDir
  <2>3. more[j].name = SetToSeq(names)[j] /\ more[j].parent = d
    OBVIOUS
  <2>4. QED BY <2>1, <2>2, <2>3
<1> HIDE DEF m, more, n
<1>8. UniqueIn(l.files \o more, AliveFiles(m))
  <2>1. AliveFiles(m) \subseteq DOMAIN (l.files \o more)
    BY <1>4 DEF AliveFiles
  <2>2. AliveFiles(m) \cap DOMAIN l.files \subseteq AliveFiles(l)
    BY <1>4 DEF AliveFiles
  <2>3. QED BY <1>1, <1>3, <1>5, <1>6, <1>7, <2>1, <2>2, AppendedApart
<1>9. AliveDirs(m) = AliveDirs(l)
  BY <1>4 DEF AliveDirs
<1>10. SiblingsApart(m)
  BY <1>4, <1>8, <1>9 DEF SiblingsApart
<1>11. QED BY <1>4, <1>9, <1>10 DEF m

\* apply_listing keeps the entries apart and adds no directory.
LEMMA ApplyApart ==
  ASSUME NEW l, InRange(l), SiblingsApart(l), NEW d \in DOMAIN l.dirs, NEW e \in Listing
  PROVE  /\ SiblingsApart(ApplyListing(l, d, e))
         /\ ApplyListing(l, d, e).dirs = l.dirs
         /\ AliveDirs(ApplyListing(l, d, e)) \subseteq AliveDirs(l)
<1>1. CASE ~e.exists /\ d = Root
  BY <1>1 DEF ApplyListing
<1>2. CASE ~e.exists /\ d # Root
  <2>1. ApplyListing(l, d, e) = RemoveSubtrees(l, {d})
    BY <1>2 DEF ApplyListing, RemoveSubtree
  <2> DEFINE from == {d}
  <2>2. /\ SiblingsApart(RemoveSubtrees(l, from)) /\ RemoveSubtrees(l, from).dirs = l.dirs
        /\ AliveDirs(RemoveSubtrees(l, from)) \subseteq AliveDirs(l) \ from
    <3> HIDE DEF from
    <3>1. QED BY RemoveApart
  <2>3. QED BY <2>1, <2>2
<1>3. CASE e.exists
  <2> DEFINE files == FilesInDir(l, d)
             stale == {f \in files : l.files[f].name \notin e.files}
             gone  == {c \in ChildDirs(l, d) : l.dirs[c].name \notin e.dirs}
             new   == e.files \ NamesOf(l.files, files)
             added == PushFiles(l, d, new)
             none  == {}
             m     == Kill(added, none, stale)
  <2>1. ApplyListing(l, d, e) = RemoveSubtrees(m, gone)
    BY <1>3 DEF ApplyListing
  <2>2. /\ new \subseteq Name /\ stale \subseteq DOMAIN l.files
        /\ new \subseteq Name \ NamesOf(l.files, FilesInDir(l, d))
        /\ none \subseteq DOMAIN l.dirs
    BY DEF Listing, FilesInDir, AliveFiles
  <2> HIDE DEF new, stale, gone, none
  <2>3. /\ InRange(added) /\ added.dirs = l.dirs
        /\ DOMAIN l.files \subseteq DOMAIN added.files
    BY <2>2, PushSafe
  <2>4. SiblingsApart(added) /\ AliveDirs(added) = AliveDirs(l)
    BY <2>2, PushApart
  <2> HIDE DEF added
  <2>5. stale \subseteq DOMAIN added.files /\ none \subseteq DOMAIN added.dirs
    BY <2>2, <2>3
  <2>6. InRange(m)
    BY <2>3, <2>5, KillSafe
  <2>7. SiblingsApart(m) /\ m.dirs = added.dirs /\ AliveDirs(m) \subseteq AliveDirs(added)
    BY <2>3, <2>4, KillApart
  <2> HIDE DEF m
  <2>8. /\ SiblingsApart(RemoveSubtrees(m, gone)) /\ RemoveSubtrees(m, gone).dirs = m.dirs
        /\ AliveDirs(RemoveSubtrees(m, gone)) \subseteq AliveDirs(m)
    BY <2>6, <2>7, RemoveApart
  <2>9. QED BY <2>1, <2>3, <2>4, <2>7, <2>8
<1>4. QED BY <1>1, <1>2, <1>3

\* Entries with the same name and parent are equal.
LEMMA EntryParts ==
  ASSUME NEW x \in Entry, NEW y \in Entry, x.name = y.name, x.parent = y.parent
  PROVE  x = y
BY DEF Entry

\* graft keeps the entries apart when its tree's are and its root's name is
\* free.  What it adds is that root, and entries below what it adds.
LEMMA GraftApart ==
  ASSUME NEW l, InRange(l), SiblingsApart(l), NEW t, TreeInRange(t), TreeOnce(t),
         NEW parent, parent \in {NoDir} \cup DOMAIN l.dirs, Free(l, parent, t.dirs[1].name)
  PROVE  LET m == Graft(l, parent, t)
         IN  /\ SiblingsApart(m)
             /\ \A d \in DOMAIN l.dirs : m.dirs[d] = l.dirs[d]
             /\ \A e \in AliveDirs(m) \ AliveDirs(l) :
                  \/ m.dirs[e] = [name |-> t.dirs[1].name, parent |-> parent]
                  \/ m.dirs[e].parent \notin {NoDir} \cup DOMAIN l.dirs
<1> DEFINE ld == l.dirs   lf == l.files   td == t.dirs   tf == t.files
           n  == Len(ld)
           ds == [i \in 1 .. Len(td) |->
                    [name   |-> td[i].name,
                     parent |-> IF i = 1 THEN parent ELSE n + td[i].parent]]
           fs == [i \in 1 .. Len(tf) |-> [name |-> tf[i].name, parent |-> n + tf[i].parent]]
           m  == Graft(l, parent, t)
           top == [name |-> td[1].name, parent |-> parent]
<1>1. /\ ld \in Seq(Entry) /\ lf \in Seq(Entry)
      /\ \A i \in 1 .. Len(ld) : ld[i].parent \in 0 .. Len(ld)
      /\ \A i \in 1 .. Len(lf) : lf[i].parent \in 1 .. Len(ld)
      /\ DOMAIN ld = 1 .. Len(ld) /\ DOMAIN lf = 1 .. Len(lf)
  BY LenProperties DEF InRange, Snapshot, NoDir
<1>2. /\ td \in Seq(Entry) /\ tf \in Seq(Entry)
      /\ \A i \in 1 .. Len(td) : i # 1 => td[i].parent \in 1 .. Len(td)
      /\ \A i \in 1 .. Len(tf) : tf[i].parent \in 1 .. Len(td)
      /\ \A i, j \in 1 .. Len(td) : td[i] = td[j] => i = j
      /\ \A i, j \in 1 .. Len(tf) : tf[i] = tf[j] => i = j
  <2>1. td \in Seq(Entry) /\ tf \in Seq(Entry)
    BY DEF TreeInRange, Subtree
  <2>2. DOMAIN td = 1 .. Len(td) /\ DOMAIN tf = 1 .. Len(tf)
    BY <2>1, LenProperties
  <2>3. /\ \A i \in DOMAIN td : i # 1 => td[i].parent \in DOMAIN td
        /\ \A i \in DOMAIN tf : tf[i].parent \in DOMAIN td
    BY DEF TreeInRange, TreeOnce
  <2>4. /\ \A i, j \in DOMAIN td : td[i] = td[j] => i = j
        /\ \A i, j \in DOMAIN tf : tf[i] = tf[j] => i = j
    BY DEF TreeOnce, UniqueIn
  <2> HIDE DEF td, tf
  <2>5. QED BY <2>1, <2>2, <2>3, <2>4
<1>3. /\ m.dirs = ld \o ds /\ m.files = lf \o fs
      /\ m.deadDirs = l.deadDirs /\ m.deadFiles = l.deadFiles
  BY DEF Graft, InRange, Snapshot
<1>4. parent \in 0 .. n
  BY <1>1 DEF NoDir
<1>5. /\ \A i \in AliveDirs(l) : ld[i] # top
      /\ UniqueIn(ld, AliveDirs(l)) /\ UniqueIn(lf, AliveFiles(l))
      /\ AliveDirs(l) \subseteq 1 .. Len(ld) /\ AliveFiles(l) \subseteq 1 .. Len(lf)
  BY <1>1 DEF Free, SiblingsApart, AliveDirs, AliveFiles
<1> HIDE DEF ld, lf, td, tf, m
<1>6. Len(ld) \in Nat /\ Len(lf) \in Nat /\ Len(td) \in Nat /\ Len(tf) \in Nat
  BY <1>1, <1>2, LenProperties
<1>7. ASSUME NEW i \in 1 .. Len(td)
      PROVE  /\ td[i] \in Entry /\ ds[i] \in Entry /\ ds[i].name = td[i].name
             /\ i = 1 => ds[i] = top
             /\ i # 1 => /\ ds[i].parent = n + td[i].parent /\ td[i].parent \in Nat
                         /\ ds[i].parent > n
  <2>0. td[i] \in Entry
    BY <1>2, ElementOfSeq
  <2>1. td[i] \in Entry /\ td[i].name \in Name /\ td[i].parent \in Nat
    BY <2>0 DEF Entry
  <2>2. i = 1 => ds[i] = top
    OBVIOUS
  <2>3. i # 1 => ds[i].parent = n + td[i].parent /\ n + td[i].parent \in Nat /\ n + td[i].parent > n
    BY <2>1, <1>2, <1>6
  <2>4. ds[i].name = td[i].name
    OBVIOUS
  <2>5. (IF i = 1 THEN parent ELSE n + td[i].parent) \in Nat
    BY <2>1, <1>4, <1>6
  <2>6. ds[i] \in Entry
    BY <2>1, <2>5 DEF Entry
  <2>7. QED BY <2>1, <2>2, <2>3, <2>4, <2>6
<1>8. ASSUME NEW i \in 1 .. Len(tf)
      PROVE  /\ tf[i] \in Entry /\ fs[i] \in Entry /\ fs[i].name = tf[i].name
             /\ fs[i].parent = n + tf[i].parent /\ tf[i].parent \in Nat /\ fs[i].parent > n
  <2>0. tf[i] \in Entry /\ tf[i].parent \in 1 .. Len(td)
    BY <1>2, ElementOfSeq
  <2>1. tf[i] \in Entry /\ tf[i].name \in Name /\ tf[i].parent \in Nat /\ tf[i].parent > 0
    BY <2>0, <1>6 DEF Entry
  <2>2. n + tf[i].parent \in Nat /\ n + tf[i].parent > n
    BY <2>1, <1>6
  <2>3. QED BY <2>1, <2>2 DEF Entry
<1>9. top.parent \in 0 .. n
  BY <1>4
<1>10. ds \in [1 .. Len(td) -> Entry] /\ fs \in [1 .. Len(tf) -> Entry]
  BY <1>7, <1>8
<1> HIDE DEF ds, fs, top
<1>11. ASSUME NEW i \in 1 .. Len(td), NEW j \in 1 .. Len(td), ds[i] = ds[j] PROVE i = j
  <2>1. CASE i = 1 \/ j = 1
    BY <2>1, <1>6, <1>7, <1>9, <1>11
  <2>2. CASE i # 1 /\ j # 1
    <3>1. td[i].name = td[j].name
      BY <1>7, <1>11
    <3>2. td[i].parent = td[j].parent
      BY <2>2, <1>6, <1>7, <1>11
    <3>3. td[i] = td[j]
      BY <3>1, <3>2, <1>7, EntryParts
    <3>4. QED BY <3>3, <1>2
  <2>3. QED BY <2>1, <2>2
<1>12. ASSUME NEW i \in 1 .. Len(tf), NEW j \in 1 .. Len(tf), fs[i] = fs[j] PROVE i = j
  <2>1. tf[i].name = tf[j].name
    BY <1>8, <1>12
  <2>2. tf[i].parent = tf[j].parent
    BY <1>6, <1>8, <1>12
  <2>3. tf[i] = tf[j]
    BY <2>1, <2>2, <1>8, EntryParts
  <2>4. QED BY <2>3, <1>2
<1>13. \A i \in AliveDirs(l), j \in 1 .. Len(td) : ld[i] # ds[j]
  <2>1. ASSUME NEW i \in AliveDirs(l), NEW j \in 1 .. Len(td) PROVE ld[i] # ds[j]
    <3>1. CASE j = 1
      BY <3>1, <1>5, <1>7
    <3>2. CASE j # 1
      <4>1. ld[i].parent \in 0 .. n /\ ds[j].parent > n
        BY <3>2, <1>1, <1>5, <1>7
      <4>2. QED BY <4>1, <1>6
    <3>3. QED BY <3>1, <3>2
  <2>2. QED BY <2>1
<1>14. \A i \in AliveFiles(l), j \in 1 .. Len(tf) : lf[i] # fs[j]
  <2>1. ASSUME NEW i \in AliveFiles(l), NEW j \in 1 .. Len(tf) PROVE lf[i] # fs[j]
    <3>1. lf[i].parent \in 1 .. n /\ fs[j].parent > n
      BY <1>1, <1>5, <1>8
    <3>2. QED BY <3>1, <1>6
  <2>2. QED BY <2>1
<1>15. UniqueIn(ld \o ds, AliveDirs(m))
  <2>1. AliveDirs(m) \subseteq DOMAIN (ld \o ds) /\ AliveDirs(m) \cap DOMAIN ld \subseteq AliveDirs(l)
    BY <1>3 DEF AliveDirs, ld
  <2>2. QED BY <1>1, <1>5, <1>6, <1>10, <1>11, <1>13, <2>1, AppendedApart
<1>16. UniqueIn(lf \o fs, AliveFiles(m))
  <2>1. AliveFiles(m) \subseteq DOMAIN (lf \o fs) /\ AliveFiles(m) \cap DOMAIN lf \subseteq AliveFiles(l)
    BY <1>3 DEF AliveFiles, lf
  <2>2. QED BY <1>1, <1>5, <1>6, <1>10, <1>12, <1>14, <2>1, AppendedApart
<1>17. SiblingsApart(m)
  BY <1>3, <1>15, <1>16 DEF SiblingsApart
<1>18. /\ DOMAIN (ld \o ds) = 1 .. n + Len(td)
       /\ \A i \in 1 .. n : (ld \o ds)[i] = ld[i]
       /\ \A i \in 1 .. Len(td) : (ld \o ds)[n + i] = ds[i]
  <2> DEFINE k == Len(td)
  <2>1. ld \in Seq(Entry) /\ k \in Nat /\ ds \in [1 .. k -> Entry]
    BY <1>1, <1>6, <1>10
  <2> HIDE DEF k
  <2>2. /\ DOMAIN (ld \o ds) = 1 .. Len(ld) + k
        /\ \A i \in 1 .. Len(ld) : (ld \o ds)[i] = ld[i]
        /\ \A i \in 1 .. k : (ld \o ds)[Len(ld) + i] = ds[i]
    BY <2>1, Appended, SMTT(30)
  <2>3. QED BY <2>2 DEF k
<1>19. ASSUME NEW e \in AliveDirs(m) \ AliveDirs(l)
       PROVE  m.dirs[e] = top \/ m.dirs[e].parent \notin {NoDir} \cup DOMAIN l.dirs
  <2>1. e \in 1 .. n + Len(td) /\ e \notin 1 .. n
    BY <1>1, <1>3, <1>18, <1>19 DEF AliveDirs, ld
  <2>2. e - n \in 1 .. Len(td) /\ n + (e - n) = e
    BY <2>1, <1>6
  <2>3. m.dirs[e] = ds[e - n]
    BY <2>2, <1>3, <1>18
  <2>4. m.dirs[e] = top \/ m.dirs[e].parent > n
    BY <2>2, <2>3, <1>7
  <2>5. m.dirs[e].parent > n => m.dirs[e].parent \notin {NoDir} \cup 1 .. n
    BY <1>6 DEF NoDir
  <2>6. QED BY <2>4, <2>5, <1>1 DEF ld
<1>20. \A d \in DOMAIN l.dirs : m.dirs[d] = l.dirs[d]
  BY <1>1, <1>3, <1>18 DEF ld
<1>21. QED BY <1>17, <1>19, <1>20 DEF m, top, td

\* What a graft does to a free name and to a directory without a double.
LEMMA GraftKeeps ==
  ASSUME NEW l, InRange(l), SiblingsApart(l), NEW t, TreeInRange(t), TreeOnce(t),
         NEW parent, parent \in {NoDir} \cup DOMAIN l.dirs, Free(l, parent, t.dirs[1].name),
         NEW d \in DOMAIN l.dirs
  PROVE  LET m == Graft(l, parent, t)
         IN  /\ Sole(l, d) /\ l.dirs[d] # [name |-> t.dirs[1].name, parent |-> parent] => Sole(m, d)
             /\ \A x : /\ Free(l, d, x) /\ ~(d = parent /\ x = t.dirs[1].name)
                       => Free(m, d, x)
<1> DEFINE m == Graft(l, parent, t)
           top == [name |-> t.dirs[1].name, parent |-> parent]
<1>1. /\ \A c \in DOMAIN l.dirs : m.dirs[c] = l.dirs[c]
      /\ \A e \in AliveDirs(m) \ AliveDirs(l) :
           m.dirs[e] = top \/ m.dirs[e].parent \notin {NoDir} \cup DOMAIN l.dirs
  BY GraftApart
<1>2. AliveDirs(l) \subseteq DOMAIN l.dirs
  BY DEF AliveDirs
<1>3. l.dirs[d].parent \in {NoDir} \cup DOMAIN l.dirs
  BY DEF InRange
<1> HIDE DEF m
<1>4. ASSUME Sole(l, d), l.dirs[d] # top PROVE Sole(m, d)
  BY <1>1, <1>2, <1>3, <1>4 DEF Sole
<1>5. ASSUME NEW x, Free(l, d, x), ~(d = parent /\ x = t.dirs[1].name) PROVE Free(m, d, x)
  <2>1. top # [name |-> x, parent |-> d]
    <3>1. top.name = t.dirs[1].name /\ top.parent = parent
      OBVIOUS
    <3>2. [name |-> x, parent |-> d].name = x /\ [name |-> x, parent |-> d].parent = d
      OBVIOUS
    <3>3. QED BY <3>1, <3>2, <1>5
  <2>2. ASSUME NEW e \in AliveDirs(m) PROVE m.dirs[e] # [name |-> x, parent |-> d]
    <3>1. CASE e \in AliveDirs(l)
      BY <3>1, <1>1, <1>2, <1>5 DEF Free
    <3>2. CASE e \notin AliveDirs(l)
      <4>1. [name |-> x, parent |-> d].parent \in DOMAIN l.dirs
        OBVIOUS
      <4>2. QED BY <3>2, <4>1, <2>1, <1>1
    <3>3. QED BY <3>1, <3>2
  <2>3. QED BY <2>2 DEF Free
<1>6. QED BY <1>4, <1>5 DEF m

\* rescan_subtree puts one entry in the place of another, alive or not.
LEMMA RescanApart ==
  ASSUME NEW l, InRange(l), SiblingsApart(l), NEW t, TreeInRange(t), TreeOnce(t),
         NEW d \in DOMAIN l.dirs, Sole(l, d), l.dirs[d].name = t.dirs[1].name
  PROVE  LET m == RescanSubtree(l, d, t)
         IN  /\ SiblingsApart(m)
             /\ \A c \in DOMAIN l.dirs :
                  /\ m.dirs[c] = l.dirs[c]
                  /\ Sole(l, c) /\ l.dirs[c] # l.dirs[d] => Sole(m, c)
<1> DEFINE from == {d}
           r == RemoveSubtrees(l, from)
           parent == l.dirs[d].parent
           top == [name |-> t.dirs[1].name, parent |-> parent]
           m == Graft(r, parent, t)
<1>1. RescanSubtree(l, d, t) = m
  BY DEF RescanSubtree, RemoveSubtree
<1>2. InRange(r) /\ r.dirs = l.dirs /\ SiblingsApart(r) /\ AliveDirs(r) \subseteq AliveDirs(l) \ from
  <2> HIDE DEF from
  <2>1. QED BY RemoveSafe, RemoveApart
<1> HIDE DEF r
<1>3. parent \in {NoDir} \cup DOMAIN r.dirs /\ l.dirs[d] = top
  <2>1. l.dirs \in Seq(Entry)
    BY DEF InRange, Snapshot
  <2>2. l.dirs[d] \in Entry
    BY <2>1
  <2>3. QED BY <2>2, <1>2 DEF InRange, Entry
<1> HIDE DEF parent
<1>4. Free(r, parent, t.dirs[1].name)
  BY <1>2, <1>3 DEF Free, Sole
<1>5. \A c \in DOMAIN r.dirs : Sole(l, c) => Sole(r, c)
  BY <1>2 DEF Sole
<1>6. SiblingsApart(m) /\ \A c \in DOMAIN r.dirs : m.dirs[c] = r.dirs[c]
  BY <1>2, <1>3, <1>4, GraftApart
<1>7. \A c \in DOMAIN r.dirs : Sole(r, c) /\ r.dirs[c] # top => Sole(m, c)
  BY <1>2, <1>3, <1>4, GraftKeeps
<1> HIDE DEF m, top
<1>8. \A c \in DOMAIN l.dirs :
        /\ m.dirs[c] = l.dirs[c]
        /\ Sole(l, c) /\ l.dirs[c] # l.dirs[d] => Sole(m, c)
  BY <1>2, <1>3, <1>5, <1>6, <1>7
<1>9. QED BY <1>1, <1>6, <1>8

-----------------------------------------------------------------------------
(* Traversals.                                                             *)

\* A traversal begins with one directory, to which nothing belongs yet.
LEMMA WalkFromOnce ==
  ASSUME NEW into, NEW p
  PROVE  LET w == WalkFrom(into, p)
         IN  /\ TreeOnce(w.tree) /\ StackOnce(w) /\ w.into = into
             /\ w.tree.dirs # <<>>
             /\ p # <<>> => w.tree.dirs[1].name = Last(p)
<1> DEFINE name == IF p = <<>> THEN CHOOSE n \in Name : TRUE ELSE Last(p)
           ds   == <<[name |-> name, parent |-> NoDir]>>
           w    == WalkFrom(into, p)
<1>1. /\ w.into = into /\ w.tree = [dirs |-> ds, files |-> <<>>]
      /\ w.stack = <<[id |-> 1, path |-> p]>>
  BY DEF WalkFrom
<1>2. p # <<>> => name = Last(p)
  OBVIOUS
<1> HIDE DEF w, name
<1>3. DOMAIN ds = {1} /\ ds[1] = [name |-> name, parent |-> NoDir] /\ ds # <<>>
  OBVIOUS
<1> HIDE DEF ds
<1>4. w.tree.dirs = ds /\ w.tree.files = <<>> /\ DOMAIN w.stack = {1} /\ w.stack[1].id = 1
  BY <1>1
<1>5. TreeOnce(w.tree)
  BY <1>3, <1>4 DEF TreeOnce, UniqueIn
<1>6. StackOnce(w)
  BY <1>3, <1>4 DEF StackOnce, NoDir
<1>7. QED BY <1>1, <1>2, <1>3, <1>4, <1>5, <1>6 DEF w

\* The traversal at rest holds nothing twice.
LEMMA NoWalkOnce == TreeOnce(NoWalk.tree) /\ StackOnce(NoWalk)
<1>1. /\ NoWalk.tree.dirs = <<>> /\ NoWalk.tree.files = <<>> /\ NoWalk.stack = <<>>
      /\ DOMAIN <<>> = {}
  BY DEF NoWalk
<1>2. QED BY <1>1 DEF TreeOnce, StackOnce, UniqueIn

\* What is left of a sequence without its element i.
LEMMA RemoveAtElements ==
  ASSUME NEW S, NEW s \in Seq(S), NEW i \in 1 .. Len(s)
  PROVE  \A a \in 1 .. Len(s) - 1 : RemoveAt(s, i)[a] = s[IF a < i THEN a ELSE a + 1]
<1> DEFINE before == SubSeq(s, 1, i - 1)   after == SubSeq(s, i + 1, Len(s))
<1>1. Len(s) \in Nat /\ \A j \in 1 .. Len(s) : s[j] \in S
  BY LenProperties, ElementOfSeq
<1>2. /\ before \in Seq(S) /\ Len(before) = i - 1
      /\ \A a \in 1 .. i - 1 : before[a] = s[a]
  <2>1. 1 \in Int /\ i - 1 \in Int /\ \A j \in 1 .. i - 1 : s[j] \in S
    BY <1>1
  <2>2. /\ before \in Seq(S) /\ Len(before) = IF 1 <= i - 1 THEN i - 1 - 1 + 1 ELSE 0
        /\ \A a \in 1 .. i - 1 - 1 + 1 : before[a] = s[1 + a - 1]
    BY <2>1, SubSeqProperties
  <2>3. QED BY <2>2, <1>1
<1>3. /\ after \in Seq(S) /\ Len(after) = Len(s) - i
      /\ \A a \in 1 .. Len(s) - i : after[a] = s[i + a]
  <2>1. i + 1 \in Int /\ Len(s) \in Int /\ \A j \in i + 1 .. Len(s) : s[j] \in S
    BY <1>1
  <2>2. /\ after \in Seq(S)
        /\ Len(after) = IF i + 1 <= Len(s) THEN Len(s) - (i + 1) + 1 ELSE 0
        /\ \A a \in 1 .. Len(s) - (i + 1) + 1 : after[a] = s[i + 1 + a - 1]
    BY <2>1, SubSeqProperties
  <2>3. QED BY <2>2, <1>1
<1> HIDE DEF before, after
<1>4. \A a \in 1 .. Len(before) + Len(after) :
        (before \o after)[a] = IF a <= Len(before) THEN before[a] ELSE after[a - Len(before)]
  BY <1>2, <1>3, ConcatProperties
<1>5. RemoveAt(s, i) = before \o after
  BY DEF RemoveAt, before, after
<1>6. ASSUME NEW a \in 1 .. Len(s) - 1
      PROVE  (before \o after)[a] = s[IF a < i THEN a ELSE a + 1]
  <2>1. a \in 1 .. Len(before) + Len(after)
    BY <1>1, <1>2, <1>3
  <2>2. CASE a < i
    BY <2>1, <2>2, <1>1, <1>2, <1>4
  <2>3. CASE ~(a < i)
    <3>1. a - (i - 1) \in 1 .. Len(s) - i /\ i + (a - (i - 1)) = a + 1
      BY <2>3, <1>1
    <3>2. (before \o after)[a] = after[a - (i - 1)]
      BY <2>1, <2>3, <1>1, <1>2, <1>4
    <3>3. QED BY <3>1, <3>2, <2>3, <1>3
  <2>4. QED BY <2>2, <2>3
<1>7. QED BY <1>5, <1>6

\* Reading one directory keeps the tree's entries apart, and leaves on the
\* stack, once each, directories that nothing belongs to yet.
LEMMA VisitOnce ==
  ASSUME NEW w, WalkOK(w), TreeOnce(w.tree), StackOnce(w),
         NEW i \in DOMAIN w.stack, NEW e \in Listing, NEW order \in Orders(e.dirs)
  PROVE  LET v == Visit(w, i, e, order)
         IN  /\ TreeOnce(v.tree) /\ StackOnce(v) /\ v.into = w.into
             /\ w.tree.dirs # <<>> /\ v.tree.dirs # <<>> /\ v.tree.dirs[1] = w.tree.dirs[1]
<1> DEFINE td == w.tree.dirs   tf == w.tree.files   st == w.stack
           top == st[i]
           k  == Cardinality(e.dirs)
           kf == Cardinality(e.files)
           ds == [j \in 1 .. k |-> [name |-> order[j], parent |-> top.id]]
           fs == [j \in 1 .. kf |-> [name |-> SetToSeq(e.files)[j], parent |-> top.id]]
           ss == [j \in 1 .. k |-> [id |-> Len(td) + j, path |-> Append(top.path, order[j])]]
           rest == RemoveAt(st, i)
           v  == Visit(w, i, e, order)
           T  == [id : DOMAIN td, path : Path]
<1>1. /\ td \in Seq(Entry) /\ tf \in Seq(Entry) /\ st \in Seq(T)
      /\ \A j \in DOMAIN td : td[j].parent \in {NoDir} \cup DOMAIN td
      /\ \A j \in DOMAIN tf : tf[j].parent \in DOMAIN td
  BY DEF WalkOK, TreeInRange, Subtree
<1>2. /\ UniqueIn(td, DOMAIN td) /\ UniqueIn(tf, DOMAIN tf)
      /\ \A j \in DOMAIN td : j # 1 => td[j].parent # NoDir
  BY DEF TreeOnce
<1>3. /\ \A a, b \in DOMAIN st : st[a].id = st[b].id => a = b
      /\ \A a \in DOMAIN st : /\ \A c \in DOMAIN td : td[c].parent # st[a].id
                              /\ \A c \in DOMAIN tf : tf[c].parent # st[a].id
  BY DEF StackOnce
<1>4. IsFiniteSet(e.dirs) /\ IsFiniteSet(e.files) /\ e.dirs \subseteq Name /\ e.files \subseteq Name
  BY NameAssumption, FS_Subset DEF Listing
<1>5. /\ k \in Nat /\ order \in [1 .. k -> e.dirs] /\ Len(order) = k
      /\ \A a, b \in 1 .. k : order[a] = order[b] => a = b
  BY <1>4, ListOfSet, FunctionIsSeq DEF Orders, IsInjective
<1>6. /\ kf \in Nat /\ SetToSeq(e.files) \in [1 .. kf -> e.files] /\ Len(SetToSeq(e.files)) = kf
      /\ \A a, b \in 1 .. kf : SetToSeq(e.files)[a] = SetToSeq(e.files)[b] => a = b
  BY <1>4, ListOfSet, ListedOnce, FunctionIsSeq
<1>7. /\ v.into = w.into /\ v.tree = [dirs |-> td \o ds, files |-> tf \o fs]
      /\ v.stack = rest \o ss
  BY <1>5, <1>6 DEF Visit
<1> HIDE DEF td, tf, st, v, k, kf, T
<1>8. /\ Len(td) \in Nat /\ Len(tf) \in Nat /\ Len(st) \in Nat
      /\ DOMAIN td = 1 .. Len(td) /\ DOMAIN tf = 1 .. Len(tf) /\ DOMAIN st = 1 .. Len(st)
  BY <1>1, LenProperties
<1>9. i \in DOMAIN st
  BY DEF st
<1>10. /\ \A a \in DOMAIN st : st[a].id \in 1 .. Len(td)
       /\ top.id \in Nat /\ top.id \in 1 .. Len(td) /\ top.path \in Path
  <2>1. \A a \in DOMAIN st : st[a] \in T
    BY <1>1, <1>8, ElementOfSeq
  <2>2. \A a \in DOMAIN st : st[a].id \in 1 .. Len(td) /\ st[a].path \in Path
    BY <2>1, <1>8 DEF T
  <2>3. QED BY <2>2, <1>8, <1>9
<1>11. /\ \A c \in DOMAIN td : td[c].parent # top.id
       /\ \A c \in DOMAIN tf : tf[c].parent # top.id
       /\ \A a \in DOMAIN st \ {i} : st[a].id # top.id
  BY <1>3, <1>9
<1> HIDE DEF top
<1>12. /\ ds \in [1 .. k -> Entry] /\ \A a, b \in 1 .. k : ds[a] = ds[b] => a = b
       /\ \A a \in 1 .. k : ds[a].parent = top.id
  BY <1>4, <1>5, <1>10 DEF Entry
<1>13. /\ fs \in [1 .. kf -> Entry] /\ \A a, b \in 1 .. kf : fs[a] = fs[b] => a = b
       /\ \A a \in 1 .. kf : fs[a].parent = top.id
  BY <1>4, <1>6, <1>10 DEF Entry
<1>14. \A a \in 1 .. k : ss[a].id = Len(td) + a
  OBVIOUS
<1>15. ss \in [1 .. k -> [id : Nat, path : Path]]
  <2>1. ASSUME NEW a \in 1 .. k PROVE Len(td) + a \in Nat /\ Append(top.path, order[a]) \in Path
    <3>1. order[a] \in Name
      BY <1>4, <1>5
    <3>2. Append(top.path, order[a]) \in Path
      BY <3>1, <1>10, PathParts
    <3>3. QED BY <3>2, <1>5, <1>8
  <2>2. QED BY <2>1
<1> HIDE DEF ds, fs, ss
<1>16. /\ DOMAIN (td \o ds) = 1 .. Len(td) + k
       /\ \A c \in 1 .. Len(td) : (td \o ds)[c] = td[c]
       /\ \A c \in 1 .. Len(td) + k : c > Len(td) => (td \o ds)[c].parent = top.id
  <2>1. /\ DOMAIN (td \o ds) = 1 .. Len(td) + k
        /\ \A c \in 1 .. Len(td) : (td \o ds)[c] = td[c]
        /\ \A c \in 1 .. k : (td \o ds)[Len(td) + c] = ds[c]
    <3>1. td \in Seq(Entry) /\ k \in Nat /\ ds \in [1 .. k -> Entry]
      BY <1>1, <1>5, <1>12
    <3>2. QED BY <3>1, Appended
  <2>2. ASSUME NEW c \in 1 .. Len(td) + k, c > Len(td) PROVE (td \o ds)[c].parent = top.id
    <3> DEFINE a == c - Len(td)
    <3>1. a \in 1 .. k /\ Len(td) + a = c
      BY <2>2, <1>5, <1>8
    <3> HIDE DEF a
    <3>2. (td \o ds)[Len(td) + a] = ds[a]
      BY <3>1, <2>1
    <3>3. ds[a].parent = top.id
      BY <3>1, <1>12
    <3>4. QED BY <3>1, <3>2, <3>3
  <2>3. QED BY <2>1, <2>2
<1>17. /\ DOMAIN (tf \o fs) = 1 .. Len(tf) + kf
       /\ \A c \in 1 .. Len(tf) : (tf \o fs)[c] = tf[c]
       /\ \A c \in 1 .. Len(tf) + kf : c > Len(tf) => (tf \o fs)[c].parent = top.id
  <2>1. /\ DOMAIN (tf \o fs) = 1 .. Len(tf) + kf
        /\ \A c \in 1 .. Len(tf) : (tf \o fs)[c] = tf[c]
        /\ \A c \in 1 .. kf : (tf \o fs)[Len(tf) + c] = fs[c]
    <3>1. tf \in Seq(Entry) /\ kf \in Nat /\ fs \in [1 .. kf -> Entry]
      BY <1>1, <1>6, <1>13
    <3>2. QED BY <3>1, Appended
  <2>2. ASSUME NEW c \in 1 .. Len(tf) + kf, c > Len(tf) PROVE (tf \o fs)[c].parent = top.id
    <3> DEFINE a == c - Len(tf)
    <3>1. a \in 1 .. kf /\ Len(tf) + a = c
      BY <2>2, <1>6, <1>8
    <3> HIDE DEF a
    <3>2. (tf \o fs)[Len(tf) + a] = fs[a]
      BY <3>1, <2>1
    <3>3. fs[a].parent = top.id
      BY <3>1, <1>13
    <3>4. QED BY <3>1, <3>2, <3>3
  <2>3. QED BY <2>1, <2>2
<1>18. UniqueIn(td \o ds, DOMAIN (td \o ds))
  <2> DEFINE old == DOMAIN td   all == DOMAIN (td \o ds)
  <2>1. \A a \in old, b \in 1 .. k : td[a] # ds[b]
    BY <1>11, <1>12
  <2>2. old \subseteq DOMAIN td /\ UniqueIn(td, old)
    BY <1>2
  <2>3. all \subseteq DOMAIN (td \o ds) /\ all \cap DOMAIN td \subseteq old
    OBVIOUS
  <2> HIDE DEF old, all
  <2>4. UniqueIn(td \o ds, all)
    BY <1>1, <1>5, <1>12, <2>1, <2>2, <2>3, AppendedApart
  <2>5. QED BY <2>4 DEF all
<1>19. UniqueIn(tf \o fs, DOMAIN (tf \o fs))
  <2> DEFINE old == DOMAIN tf   all == DOMAIN (tf \o fs)
  <2>1. \A a \in old, b \in 1 .. kf : tf[a] # fs[b]
    BY <1>11, <1>13
  <2>2. old \subseteq DOMAIN tf /\ UniqueIn(tf, old)
    BY <1>2
  <2>3. all \subseteq DOMAIN (tf \o fs) /\ all \cap DOMAIN tf \subseteq old
    OBVIOUS
  <2> HIDE DEF old, all
  <2>4. UniqueIn(tf \o fs, all)
    BY <1>1, <1>6, <1>13, <2>1, <2>2, <2>3, AppendedApart
  <2>5. QED BY <2>4 DEF all
<1>20. TreeOnce(v.tree)
  <2>1. ASSUME NEW c \in DOMAIN (td \o ds), c # 1 PROVE (td \o ds)[c].parent # NoDir
    <3>1. CASE c \in 1 .. Len(td)
      BY <3>1, <2>1, <1>2, <1>8, <1>16
    <3>2. CASE c \notin 1 .. Len(td)
      BY <3>2, <1>5, <1>8, <1>10, <1>16 DEF NoDir
    <3>3. QED BY <3>1, <3>2
  <2>2. QED BY <2>1, <1>7, <1>18, <1>19 DEF TreeOnce
<1> DEFINE h(a) == IF a < i THEN a ELSE a + 1
<1>21. /\ rest \in Seq(T) /\ Len(rest) = Len(st) - 1
       /\ \A a \in 1 .. Len(st) - 1 : rest[a] = st[h(a)]
  BY <1>1, <1>8, <1>9, RemoveAtSafe, RemoveAtElements
<1>22. \A a \in 1 .. Len(st) - 1 : h(a) \in DOMAIN st \ {i}
  BY <1>8, <1>9
<1>23. \A a, b \in 1 .. Len(st) - 1 : h(a) = h(b) => a = b
  BY <1>8, <1>9
<1> HIDE DEF rest, h
<1> DEFINE n == Len(st) - 1
           Old(a) == a \in 1 .. n /\ v.stack[a] = st[h(a)]
           New(a) == /\ a - n \in 1 .. k /\ a \in Int
                     /\ v.stack[a].id = Len(td) + (a - n)
<1>24. ASSUME NEW a \in DOMAIN v.stack PROVE Old(a) \/ New(a)
  <2>1. rest \in Seq([id : Nat, path : Path])
    <3>1. T \subseteq [id : Nat, path : Path]
      BY <1>8 DEF T
    <3>2. QED BY <3>1, <1>21, SeqMonotonic
  <2>2. /\ DOMAIN (rest \o ss) = 1 .. Len(rest) + k
        /\ \A c \in 1 .. Len(rest) : (rest \o ss)[c] = rest[c]
        /\ \A c \in 1 .. k : (rest \o ss)[Len(rest) + c] = ss[c]
    <3>1. rest \in Seq([id : Nat, path : Path]) /\ k \in Nat /\ ss \in [1 .. k -> [id : Nat, path : Path]]
      BY <2>1, <1>5, <1>15
    <3>2. QED BY <3>1, Appended
  <2>3. a \in 1 .. n + k /\ n \in Nat
    <3>1. a \in 1 .. Len(rest) + k
      BY <2>2, <1>7
    <3>2. n \in Nat
      BY <1>8, <1>9
    <3>3. QED BY <3>1, <3>2, <1>21
  <2>4. CASE a \in 1 .. n
    BY <2>2, <2>4, <1>7, <1>21
  <2>5. CASE a \notin 1 .. n
    <3>1. a - n \in 1 .. k /\ n + (a - n) = a /\ a \in Int
      BY <2>3, <2>5, <1>5
    <3>2. v.stack[a] = ss[a - n]
      BY <3>1, <2>2, <1>7, <1>21
    <3>3. QED BY <3>1, <3>2, <1>14
  <2>6. QED BY <2>4, <2>5
<1>25. ASSUME NEW a \in DOMAIN v.stack, NEW b \in DOMAIN v.stack, v.stack[a].id = v.stack[b].id
       PROVE  a = b
  <2>1. CASE Old(a) /\ Old(b)
    BY <2>1, <1>3, <1>22, <1>23, <1>25
  <2>2. CASE New(a) /\ New(b)
    BY <2>2, <1>5, <1>8, <1>25
  <2>3. ASSUME NEW x \in DOMAIN v.stack, NEW y \in DOMAIN v.stack, Old(x), New(y)
        PROVE  v.stack[x].id # v.stack[y].id
    <3>1. v.stack[x].id \in 1 .. Len(td)
      BY <2>3, <1>10, <1>22
    <3>2. QED BY <2>3, <3>1, <1>5, <1>8
  <2>4. QED BY <2>1, <2>2, <2>3, <1>24, <1>25
<1>26. ASSUME NEW a \in DOMAIN v.stack
       PROVE  /\ \A c \in DOMAIN (td \o ds) : (td \o ds)[c].parent # v.stack[a].id
              /\ \A c \in DOMAIN (tf \o fs) : (tf \o fs)[c].parent # v.stack[a].id
  <2>1. /\ v.stack[a].id # top.id
        /\ \A c \in DOMAIN td : td[c].parent # v.stack[a].id
        /\ \A c \in DOMAIN tf : tf[c].parent # v.stack[a].id
    <3>1. CASE Old(a)
      BY <3>1, <1>3, <1>11, <1>22
    <3>2. CASE New(a)
      <4>1. v.stack[a].id \in Nat /\ v.stack[a].id > Len(td)
        BY <3>2, <1>5, <1>8
      <4>2. /\ \A c \in DOMAIN td : td[c].parent \in 0 .. Len(td)
            /\ \A c \in DOMAIN tf : tf[c].parent \in 0 .. Len(td)
        BY <1>1, <1>8 DEF NoDir
      <4>3. \A x \in 0 .. Len(td) : x # v.stack[a].id
        BY <4>1, <1>8
      <4>4. QED BY <4>2, <4>3, <1>10
    <3>3. QED BY <3>1, <3>2, <1>24
  <2>2. ASSUME NEW c \in DOMAIN (td \o ds) PROVE (td \o ds)[c].parent # v.stack[a].id
    <3>1. CASE c \in 1 .. Len(td)
      BY <3>1, <2>1, <1>8, <1>16
    <3>2. CASE c \notin 1 .. Len(td)
      <4>1. (td \o ds)[c].parent = top.id
        <5>1. DOMAIN (td \o ds) = 1 .. Len(td) + k
          BY <1>16
        <5>2. c \in 1 .. Len(td) + k /\ c > Len(td)
          BY <3>2, <5>1, <1>5, <1>8
        <5>3. QED BY <5>2, <1>16
      <4>2. QED BY <4>1, <2>1
    <3>3. QED BY <3>1, <3>2
  <2>3. ASSUME NEW c \in DOMAIN (tf \o fs) PROVE (tf \o fs)[c].parent # v.stack[a].id
    <3>1. CASE c \in 1 .. Len(tf)
      BY <3>1, <2>1, <1>8, <1>17
    <3>2. CASE c \notin 1 .. Len(tf)
      <4>1. (tf \o fs)[c].parent = top.id
        <5>1. DOMAIN (tf \o fs) = 1 .. Len(tf) + kf
          BY <1>17
        <5>2. c \in 1 .. Len(tf) + kf /\ c > Len(tf)
          BY <3>2, <5>1, <1>6, <1>8
        <5>3. QED BY <5>2, <1>17
      <4>2. QED BY <4>1, <2>1
    <3>3. QED BY <3>1, <3>2
  <2>4. QED BY <2>2, <2>3
<1>27. StackOnce(v)
  BY <1>7, <1>25, <1>26 DEF StackOnce
<1>28. td # <<>> /\ v.tree.dirs # <<>> /\ v.tree.dirs[1] = td[1]
  <2>1. 1 \in 1 .. Len(td) /\ 1 \in 1 .. Len(td) + k
    BY <1>5, <1>8, <1>10
  <2>2. DOMAIN <<>> = {}
    OBVIOUS
  <2>3. 1 \in DOMAIN td /\ 1 \in DOMAIN (td \o ds)
    BY <2>1, <1>8, <1>16
  <2>4. td # <<>> /\ td \o ds # <<>>
    BY <2>2, <2>3
  <2>5. QED BY <2>1, <2>4, <1>7, <1>16
<1>29. QED BY <1>7, <1>20, <1>27, <1>28 DEF v, td

-----------------------------------------------------------------------------
(* Plans.                                                                  *)

\* resolve_or_ancestor finds the root, or an alive directory that has the
\* last name of the path it stands for.
LEMMA ResolveFinds ==
  ASSUME NEW l, l.dirs \in Seq(Entry), NEW p \in Path,
         ResolveOrAncestor(l, p).id \notin {NoDir, Root}
  PROVE  LET t == ResolveOrAncestor(l, p)
         IN  t.path # <<>> /\ t.id \in AliveDirs(l) /\ l.dirs[t.id].name = Last(t.path)
<1> DEFINE known == {i \in 0 .. Len(p) : LookupDir(l, Prefix(p, i)) # NoDir}
           n     == CHOOSE i \in known : \A j \in known : j <= i
           q     == Prefix(p, n)
<1>1. known # {}
  <2>1. CASE known = {}
    <3>1. ResolveOrAncestor(l, p) = [id |-> NoDir, path |-> p]
      BY <2>1 DEF ResolveOrAncestor
    <3>2. QED BY <3>1
  <2>2. QED BY <2>1
<1>2. ResolveOrAncestor(l, p) = [id |-> LookupDir(l, q), path |-> q]
  BY <1>1 DEF ResolveOrAncestor
<1>3. n \in known
  <2>1. known \subseteq 0 .. Len(p) /\ Len(p) \in Nat
    BY LenProperties DEF Path
  <2> HIDE DEF known
  <2>2. \E i \in known : \A j \in known : j <= i
    BY <1>1, <2>1, GreatestOf
  <2>3. QED BY <2>2
<1>4. q \in Path
  <2>1. n \in 0 .. Len(p)
    BY <1>3
  <2> HIDE DEF n
  <2>2. QED BY <2>1, PathParts
<1> HIDE DEF q
<1>5. LookupDir(l, q) # NoDir /\ LookupDir(l, q) # Root
  BY <1>2
<1>6. q # <<>> /\ LookupDir(l, q) \in AliveDirs(l) /\ l.dirs[LookupDir(l, q)].name = Last(q)
  BY <1>4, <1>5, LookupFinds
<1>7. QED BY <1>2, <1>6

\* A plan has each directory once.
LEMMA TasksOnce ==
  ASSUME NEW slots, slots \subseteq Nat, NEW task
  PROVE  LET tasks == Tasks(slots, task)
         IN  \A j, k \in DOMAIN tasks :
               /\ j \in slots /\ tasks[j] = task[j] /\ task[j].id # NoDir
               /\ tasks[k].id = tasks[j].id => j = k
<1> DEFINE kept == {s \in slots : /\ task[s].id # NoDir
                                 /\ \A r \in slots : r < s => task[r].id # task[s].id}
           tasks == Tasks(slots, task)
<1>1. tasks = [s \in kept |-> task[s]]
  BY DEF Tasks
<1> HIDE DEF tasks
<1>2. ASSUME NEW j \in DOMAIN tasks, NEW k \in DOMAIN tasks
      PROVE  /\ j \in slots /\ tasks[j] = task[j] /\ task[j].id # NoDir
             /\ tasks[k].id = tasks[j].id => j = k
  <2>1. j \in kept /\ k \in kept /\ tasks[j] = task[j] /\ tasks[k] = task[k]
    BY <1>1
  <2>2. j \in Nat /\ k \in Nat
    BY <2>1
  <2>3. task[j].id = task[k].id => j = k
    BY <2>1, <2>2
  <2>4. QED BY <2>1, <2>3
<1>3. QED BY <1>2 DEF tasks

\* plan() asks for no directory twice.
LEMMA RefreshOnce ==
  ASSUME NEW l, NEW n \in Nat, NEW batch \in [1 .. n -> Event],
         NEW j \in DOMAIN PlanRefresh(l, batch), NEW k \in DOMAIN PlanRefresh(l, batch),
         PlanRefresh(l, batch)[j].id = PlanRefresh(l, batch)[k].id
  PROVE  j = k
<1> DEFINE slots == {s \in 1 .. 2 * Len(batch) : Wants(batch, s)}
           task  == [s \in slots |-> ResolveOrAncestor(l, WantedPath(batch, s))]
<1>1. PlanRefresh(l, batch) = Tasks(slots, task)
  BY DEF PlanRefresh
<1>2. slots \subseteq Nat
  BY FunctionIsSeq
<1> HIDE DEF slots, task
<1>3. \A a, b \in DOMAIN Tasks(slots, task) :
         /\ a \in slots /\ Tasks(slots, task)[a] = task[a] /\ task[a].id # NoDir
         /\ Tasks(slots, task)[b].id = Tasks(slots, task)[a].id => a = b
  BY <1>2, TasksOnce
<1>4. QED BY <1>1, <1>3

\* The subtrees to rescan are apart, alive and named as their paths say.
LEMMA RescansOnce ==
  ASSUME NEW l, l.dirs \in Seq(Entry), NEW n \in Nat, NEW batch \in [1 .. n -> Event],
         NEW j \in DOMAIN PlanRescans(l, batch)
  PROVE  LET t == PlanRescans(l, batch)[j]
         IN  /\ t.path # <<>> /\ t.id \in AliveDirs(l) /\ l.dirs[t.id].name = Last(t.path)
             /\ \A k \in DOMAIN PlanRescans(l, batch) : PlanRescans(l, batch)[k].id = t.id => j = k
<1> DEFINE target == RescanTargets(l, batch)
           slots  == {i \in DOMAIN target : target[i].id # Root}
           all    == {i \in 1 .. Len(batch) :
                        batch[i].kind \in {"scan", "above"} /\ ~IsIgnored(batch[i].path)}
           plans  == PlanRescans(l, batch)
<1>1. plans = Tasks(slots, target)
  BY DEF PlanRescans
<1>2. target = [i \in all |-> TargetOf(l, batch[i])]
  BY DEF RescanTargets
<1>3. all \subseteq 1 .. n
  BY FunctionIsSeq
<1>4. slots \subseteq all
  BY <1>2
<1> HIDE DEF all, target, slots
<1>5. slots \subseteq Nat /\ j \in DOMAIN plans
  BY <1>3, <1>4
<1> HIDE DEF plans
<1>5a. \A a, b \in DOMAIN Tasks(slots, target) :
         /\ a \in slots /\ Tasks(slots, target)[a] = target[a] /\ target[a].id # NoDir
         /\ Tasks(slots, target)[b].id = Tasks(slots, target)[a].id => a = b
  BY <1>5, TasksOnce
<1>6. /\ j \in slots /\ plans[j] = target[j] /\ target[j].id # NoDir
      /\ \A k \in DOMAIN plans : plans[k].id = plans[j].id => j = k
  BY <1>1, <1>5, <1>5a
<1>7. target[j] = ResolveOrAncestor(l, batch[j].path) /\ batch[j].path \in Path
  <2>1. target[j] = TargetOf(l, batch[j]) /\ batch[j].path \in Path
    BY <1>2, <1>3, <1>4, <1>6 DEF Event
  <2>2. QED BY <2>1, <1>6 DEF TargetOf, None
<1>8. target[j].id # Root
  BY <1>6 DEF slots
<1>9. /\ target[j].path # <<>> /\ target[j].id \in AliveDirs(l)
      /\ l.dirs[target[j].id].name = Last(target[j].path)
  BY <1>6, <1>7, <1>8, ResolveFinds
<1>10. QED BY <1>6, <1>9 DEF plans

-----------------------------------------------------------------------------
(* The invariant is inductive.                                             *)

\* No task, no plan: nothing to keep.
LEMMA NoTasksLeft == DOMAIN NoTasks = {} /\ NoPlan.rescans = NoTasks
                     /\ NoPlan.refresh = NoTasks /\ NoPlan.grafts = {}
BY DEF NoTasks, NoPlan

\* A step to a place where no traversal has somewhere to go, with no plan.
LEMMA NoPlanOnce ==
  ASSUME plan' = NoPlan, pc' \notin {"rescan", "graft"}
  PROVE  RescansInv' /\ ListInv' /\ GraftsInv' /\ RoomInv'
<1>1. DOMAIN plan'.rescans = {} /\ DOMAIN plan'.refresh = {} /\ plan'.grafts = {}
  BY NoTasksLeft
<1>2. QED BY <1>1 DEF RescansInv, ListInv, GraftsInv, RoomInv

\* Every start satisfies the invariant.
LEMMA InitSiblings == Init => SiblingInv
<1> SUFFICES ASSUME Init PROVE SiblingInv
  OBVIOUS
<1>1. PICK s \in Starts : shared = s.index /\ next = s.index
  BY DEF Init
<1>2. SiblingsApart(shared) /\ SiblingsApart(next)
  BY <1>1, StartsAssumption
<1>3. plan = NoPlan /\ pc = "idle" /\ walk = NoWalk
  BY DEF Init
<1>4. DOMAIN plan.rescans = {} /\ DOMAIN plan.refresh = {} /\ plan.grafts = {}
  BY <1>3, NoTasksLeft
<1>5. RescansInv /\ ListInv /\ GraftsInv /\ RoomInv
  BY <1>3, <1>4 DEF RescansInv, ListInv, GraftsInv, RoomInv
<1>6. QED BY <1>2, <1>3, <1>5, NoWalkOnce DEF SiblingInv

\* The subtrees that plan() wants scanned are alive, so they have no double.
LEMMA TakeBatchSiblings == IInv /\ SiblingInv /\ TakeBatch => SiblingInv'
<1> SUFFICES ASSUME IInv, SiblingInv, TakeBatch PROVE SiblingInv'
  OBVIOUS
<1>1. /\ SiblingsApart(shared) /\ TreeOnce(walk.tree) /\ StackOnce(walk)
      /\ shared.dirs \in Seq(Entry)
  BY DEF SiblingInv, IInv, TypeOK, InRange, Snapshot
<1>2. next' = shared /\ shared' = shared /\ walk' = walk /\ pc' = "work"
  BY DEF TakeBatch
<1>3. PICK n \in Nat : \E batch \in [1 .. n -> Event] :
        /\ n \in 1 .. Len(log) - sent /\ sent' = sent + n
        /\ plan' = [rescans |-> PlanRescans(shared, batch),
                    refresh |-> PlanRefresh(shared, batch),
                    grafts  |-> {},
                    full    |-> PlanFull(shared, batch)]
  BY BatchOfEvents
<1>4. PICK batch \in [1 .. n -> Event] :
        plan' = [rescans |-> PlanRescans(shared, batch),
                 refresh |-> PlanRefresh(shared, batch),
                 grafts  |-> {},
                 full    |-> PlanFull(shared, batch)]
  BY <1>3
<1> DEFINE rs == PlanRescans(shared, batch)
           fs == PlanRefresh(shared, batch)
<1>5. plan'.rescans = rs /\ plan'.refresh = fs /\ plan'.grafts = {}
  BY <1>4
<1>6. ASSUME NEW j \in DOMAIN rs
      PROVE  /\ rs[j].path # <<>> /\ rs[j].id \in AliveDirs(shared)
             /\ shared.dirs[rs[j].id].name = Last(rs[j].path)
             /\ \A k \in DOMAIN rs : rs[k].id = rs[j].id => j = k
  BY <1>1, RescansOnce
<1>7. \A j, k \in DOMAIN fs : fs[j].id = fs[k].id => j = k
  BY RefreshOnce
<1> HIDE DEF rs, fs
<1>8. ASSUME NEW d \in AliveDirs(shared), NEW e \in AliveDirs(shared), shared.dirs[d] = shared.dirs[e]
      PROVE  d = e
  BY <1>1, <1>8 DEF SiblingsApart, UniqueIn
<1>9. RescansInv'
  <2>1. ASSUME NEW j \in DOMAIN rs
        PROVE  /\ rs[j].path # <<>> /\ shared.dirs[rs[j].id].name = Last(rs[j].path)
               /\ Sole(shared, rs[j].id)
               /\ \A k \in DOMAIN rs \ {j} : shared.dirs[rs[k].id] # shared.dirs[rs[j].id]
    BY <1>6, <1>8 DEF Sole
  <2>2. QED BY <2>1, <1>2, <1>5 DEF RescansInv
<1>10. ListInv' /\ GraftsInv' /\ RoomInv'
  BY <1>2, <1>5, <1>7 DEF ListInv, GraftsInv, RoomInv
<1>11. QED BY <1>1, <1>2, <1>9, <1>10 DEF SiblingInv

\* The traversal for a rescan starts with the name of what it will replace.
LEMMA BeginRescanSiblings == IInv /\ SiblingInv /\ BeginRescan => SiblingInv'
<1> SUFFICES ASSUME IInv, SiblingInv, BeginRescan PROVE SiblingInv'
  OBVIOUS
<1> DEFINE k == First(plan.rescans)
           t == plan.rescans[k]
           left == Without(plan.rescans, k)
<1>1. /\ SiblingsApart(shared) /\ SiblingsApart(next) /\ RescansInv /\ ListInv /\ GraftsInv
      /\ PlanOK(plan, next)
  BY DEF SiblingInv, IInv, TypeOK
<1>2. /\ plan.rescans # NoTasks /\ pc' = "rescan" /\ shared' = shared /\ next' = next
      /\ walk' = WalkFrom(t.id, t.path)
      /\ plan' = [plan EXCEPT !.rescans = left]
  BY DEF BeginRescan
<1>3. k \in DOMAIN plan.rescans
  BY <1>1, <1>2, FirstTask DEF PlanOK
<1>4. /\ plan'.rescans = left /\ plan'.refresh = plan.refresh /\ plan'.grafts = plan.grafts
  BY <1>1, <1>2 DEF PlanOK
<1>5. DOMAIN left = DOMAIN plan.rescans \ {k} /\ \A j \in DOMAIN left : left[j] = plan.rescans[j]
  BY DEF Without
<1>6. /\ t.path # <<>> /\ next.dirs[t.id].name = Last(t.path) /\ Sole(next, t.id)
      /\ \A j \in DOMAIN plan.rescans \ {k} : next.dirs[plan.rescans[j].id] # next.dirs[t.id]
  BY <1>1, <1>3 DEF RescansInv
<1> HIDE DEF k, left
<1>7. plan.grafts = {}
  BY <1>1, <1>2 DEF GraftsInv
<1>8. RescansInv'
  BY <1>1, <1>2, <1>4, <1>5 DEF RescansInv
<1>9. ListInv' /\ GraftsInv'
  BY <1>1, <1>2, <1>4, <1>7 DEF ListInv, GraftsInv
<1> HIDE DEF t
<1>10. /\ TreeOnce(walk'.tree) /\ StackOnce(walk') /\ walk'.into = t.id
       /\ walk'.tree.dirs # <<>> /\ walk'.tree.dirs[1].name = Last(t.path)
  BY <1>2, <1>6, WalkFromOnce
<1>11. RoomInv'
  BY <1>2, <1>4, <1>5, <1>6, <1>10 DEF RoomInv
<1>12. QED BY <1>1, <1>2, <1>8, <1>9, <1>10, <1>11 DEF SiblingInv

\* The one for a graft starts with a name that is free.
LEMMA BeginGraftSiblings ==
  ASSUME NEW g, IInv, SiblingInv, g \in plan.grafts, BeginGraft(g)
  PROVE  SiblingInv'
<1>1. /\ SiblingsApart(shared) /\ SiblingsApart(next) /\ RescansInv /\ ListInv /\ GraftsInv
      /\ PlanOK(plan, next)
  BY DEF SiblingInv, IInv, TypeOK
<1>2. /\ plan.rescans = NoTasks /\ pc' = "graft" /\ shared' = shared /\ next' = next
      /\ walk' = WalkFrom(g.id, g.path)
      /\ plan' = [plan EXCEPT !.grafts = @ \ {g}]
  BY DEF BeginGraft
<1>3. /\ plan'.rescans = plan.rescans /\ plan'.refresh = plan.refresh
      /\ plan'.grafts = plan.grafts \ {g}
  BY <1>1, <1>2 DEF PlanOK
<1>4. /\ g.path # <<>> /\ Free(next, g.id, Last(g.path))
      /\ \A h \in plan.grafts \ {g} : h.id = g.id => Last(h.path) # Last(g.path)
  BY <1>1 DEF GraftsInv
<1>5. RescansInv' /\ ListInv'
  BY <1>1, <1>2, <1>3 DEF RescansInv, ListInv
<1>6. GraftsInv'
  BY <1>1, <1>2, <1>3 DEF GraftsInv
<1>7. /\ TreeOnce(walk'.tree) /\ StackOnce(walk') /\ walk'.into = g.id
      /\ walk'.tree.dirs # <<>> /\ walk'.tree.dirs[1].name = Last(g.path)
  BY <1>2, <1>4, WalkFromOnce
<1>8. RoomInv'
  BY <1>2, <1>3, <1>4, <1>7 DEF RoomInv
<1>9. QED BY <1>1, <1>2, <1>5, <1>6, <1>7, <1>8 DEF SiblingInv

\* Reading one directory keeps a traversal as it should be, whichever it is.
LEMMA ReadOneOnce ==
  ASSUME NEW i, WalkOK(walk), TreeOnce(walk.tree), StackOnce(walk),
         i \in DOMAIN walk.stack, ReadOne(i)
  PROVE  /\ TreeOnce(walk'.tree) /\ StackOnce(walk') /\ walk'.into = walk.into
         /\ walk.tree.dirs # <<>> /\ walk'.tree.dirs # <<>>
         /\ walk'.tree.dirs[1] = walk.tree.dirs[1]
<1> DEFINE e == ListDisk(walk.stack[i].path)
<1>1. PICK order \in Orders(e.dirs) : walk' = Visit(walk, i, e, order)
  BY DEF ReadOne
<1>2. e \in Listing
  BY ListDiskType
<1> HIDE DEF e
<1>3. QED BY <1>1, <1>2, VisitOnce

\* So do a turn of read_subtree and one of the scanner.
LEMMA ReadingSiblings == IInv /\ SiblingInv /\ (ReadSubtree \/ ScanOne) => SiblingInv'
<1> SUFFICES ASSUME IInv, SiblingInv, ReadSubtree \/ ScanOne PROVE SiblingInv'
  OBVIOUS
<1>1. /\ SiblingsApart(shared) /\ SiblingsApart(next) /\ RescansInv /\ ListInv /\ GraftsInv
      /\ TreeOnce(walk.tree) /\ StackOnce(walk) /\ RoomInv /\ WalkOK(walk)
  BY DEF SiblingInv, IInv, TypeOK
<1>2. shared' = shared /\ next' = next /\ plan' = plan /\ pc' = pc
  BY DEF ReadSubtree, ScanOne
<1>3. PICK i \in DOMAIN walk.stack : ReadOne(i)
  <2>1. CASE ReadSubtree
    <3>1. walk.stack \in Seq([id : DOMAIN walk.tree.dirs, path : Path]) /\ walk.stack # <<>>
      BY <2>1, <1>1 DEF WalkOK, ReadSubtree
    <3>2. Len(walk.stack) \in DOMAIN walk.stack
      BY <3>1, EmptySeq, LenProperties
    <3>3. QED BY <2>1, <3>2 DEF ReadSubtree
  <2>2. CASE ScanOne
    BY <2>2 DEF ScanOne
  <2>3. QED BY <2>1, <2>2
<1>4. /\ TreeOnce(walk'.tree) /\ StackOnce(walk') /\ walk'.into = walk.into
      /\ walk'.tree.dirs # <<>> /\ walk'.tree.dirs[1] = walk.tree.dirs[1]
  BY <1>1, <1>3, ReadOneOnce
<1>5. RescansInv' /\ ListInv' /\ GraftsInv'
  BY <1>1, <1>2 DEF RescansInv, ListInv, GraftsInv
<1>6. RoomInv'
  BY <1>1, <1>2, <1>4 DEF RoomInv
<1>7. QED BY <1>1, <1>2, <1>4, <1>5, <1>6 DEF SiblingInv

\* A subtree that was read again takes the place of the entry it stands for;
\* those still to be read again keep theirs.
LEMMA EndRescanSiblings == IInv /\ SiblingInv /\ EndSubtree /\ pc = "rescan" => SiblingInv'
<1> SUFFICES ASSUME IInv, SiblingInv, EndSubtree, pc = "rescan" PROVE SiblingInv'
  OBVIOUS
<1> DEFINE into == walk.into   tree == walk.tree   rs == plan.rescans
<1>1. /\ SiblingsApart(shared) /\ SiblingsApart(next) /\ RescansInv /\ ListInv /\ GraftsInv
      /\ TreeOnce(tree)
      /\ next.dirs[into].name = tree.dirs[1].name /\ Sole(next, into)
      /\ \A k \in DOMAIN rs : next.dirs[rs[k].id] # next.dirs[into]
  BY DEF SiblingInv, RoomInv
<1>2. InRange(next) /\ TreeInRange(tree) /\ into \in DOMAIN next.dirs /\ PlanOK(plan, next)
  BY DEF IInv, TypeOK, WalkOK
<1>3. /\ shared' = shared /\ plan' = plan /\ pc' = "work" /\ walk' = NoWalk
      /\ next' = RescanSubtree(next, into, tree)
  BY DEF EndSubtree
<1>4. \A k \in DOMAIN rs : rs[k].id \in DOMAIN next.dirs
  BY <1>2 DEF PlanOK, TasksOK
<1> HIDE DEF into, tree, rs
<1>5. /\ SiblingsApart(next')
      /\ \A c \in DOMAIN next.dirs :
           /\ next'.dirs[c] = next.dirs[c]
           /\ Sole(next, c) /\ next.dirs[c] # next.dirs[into] => Sole(next', c)
  BY <1>1, <1>2, <1>3, RescanApart
<1>6. RescansInv'
  <2>1. ASSUME NEW k \in DOMAIN rs
        PROVE  /\ rs[k].path # <<>> /\ next'.dirs[rs[k].id].name = Last(rs[k].path)
               /\ Sole(next', rs[k].id)
               /\ \A j \in DOMAIN rs \ {k} : next'.dirs[rs[j].id] # next'.dirs[rs[k].id]
    <3>1. /\ rs[k].path # <<>> /\ next.dirs[rs[k].id].name = Last(rs[k].path)
          /\ Sole(next, rs[k].id)
          /\ \A j \in DOMAIN rs \ {k} : next.dirs[rs[j].id] # next.dirs[rs[k].id]
      BY <1>1 DEF RescansInv, rs
    <3>2. Sole(next', rs[k].id)
      BY <3>1, <1>1, <1>4, <1>5
    <3>3. \A j \in DOMAIN rs : next'.dirs[rs[j].id] = next.dirs[rs[j].id]
      BY <1>4, <1>5
    <3>4. QED BY <3>1, <3>2, <3>3
  <2>2. QED BY <2>1, <1>3 DEF RescansInv, rs
<1>7. plan.grafts = {}
  BY <1>1 DEF GraftsInv
<1>8. ListInv' /\ GraftsInv' /\ RoomInv'
  BY <1>1, <1>3, <1>7 DEF ListInv, GraftsInv, RoomInv
<1>9. QED BY <1>1, <1>3, <1>5, <1>6, <1>8, NoWalkOnce DEF SiblingInv

\* A grafted directory takes a free name and leaves the other names free.
LEMMA EndGraftSiblings == IInv /\ SiblingInv /\ EndSubtree /\ pc = "graft" => SiblingInv'
<1> SUFFICES ASSUME IInv, SiblingInv, EndSubtree, pc = "graft" PROVE SiblingInv'
  OBVIOUS
<1> DEFINE into == walk.into   tree == walk.tree
<1>1. /\ SiblingsApart(shared) /\ SiblingsApart(next) /\ RescansInv /\ ListInv /\ GraftsInv
      /\ TreeOnce(tree) /\ Free(next, into, tree.dirs[1].name)
      /\ \A g \in plan.grafts : g.id = into => Last(g.path) # tree.dirs[1].name
  BY DEF SiblingInv, RoomInv
<1>2. InRange(next) /\ TreeInRange(tree) /\ into \in DOMAIN next.dirs /\ PlanOK(plan, next)
  BY DEF IInv, TypeOK, WalkOK
<1>3. /\ shared' = shared /\ plan' = plan /\ pc' = "work" /\ walk' = NoWalk
      /\ next' = Graft(next, into, tree)
  BY DEF EndSubtree
<1>4. \A g \in plan.grafts : g.id \in DOMAIN next.dirs
  BY <1>2 DEF PlanOK
<1> HIDE DEF into, tree
<1>5. into \in {NoDir} \cup DOMAIN next.dirs
  BY <1>2
<1>6. SiblingsApart(next')
  BY <1>1, <1>2, <1>3, <1>5, GraftApart
<1>7. \A d \in DOMAIN next.dirs : \A x :
        Free(next, d, x) /\ ~(d = into /\ x = tree.dirs[1].name) => Free(next', d, x)
  BY <1>1, <1>2, <1>3, <1>5, GraftKeeps
<1>8. \A g \in plan.grafts : Free(next', g.id, Last(g.path))
  BY <1>1, <1>4, <1>7 DEF GraftsInv
<1>9. DOMAIN plan.rescans = {} /\ plan.rescans = NoTasks
  BY <1>1, NoTasksLeft DEF GraftsInv
<1>10. RescansInv' /\ ListInv' /\ RoomInv'
  BY <1>1, <1>3, <1>9 DEF RescansInv, ListInv, RoomInv
<1>11. GraftsInv'
  BY <1>1, <1>3, <1>8, <1>9 DEF GraftsInv
<1>12. QED BY <1>1, <1>3, <1>6, <1>10, <1>11, NoWalkOnce DEF SiblingInv

\* The path of what is found in a directory ends with its name.
LEMMA NameAtEnd ==
  ASSUME NEW p \in Path, NEW n \in Name
  PROVE  Append(p, n) # <<>> /\ Last(Append(p, n)) = n
<1> DEFINE q == Append(p, n)
<1>1. Len(p) \in Nat /\ q \in Path /\ Len(q) = Len(p) + 1 /\ q[Len(p) + 1] = n
  BY AppendProperties, LenProperties DEF Path
<1> HIDE DEF q
<1>2. q # <<>>
  BY <1>1, EmptySeq DEF Path
<1>3. q[Len(q)] = n
  BY <1>1
<1>4. QED BY <1>2, <1>3 DEF Last, q

\* A listing finds directories whose names are free, and each directory is
\* listed once.
LEMMA RefreshSiblings == IInv /\ SiblingInv /\ Refresh => SiblingInv'
<1> SUFFICES ASSUME IInv, SiblingInv, Refresh PROVE SiblingInv'
  OBVIOUS
<1> DEFINE k  == First(plan.refresh)
           t  == plan.refresh[k]
           e  == ListDisk(t.path)
           gs == {[slot |-> k, id |-> t.id, path |-> Append(t.path, n)] :
                    n \in FreshDirs(next, t.id, e)}
           left == Without(plan.refresh, k)
<1>1. /\ SiblingsApart(shared) /\ SiblingsApart(next) /\ RescansInv /\ ListInv /\ GraftsInv
      /\ TreeOnce(walk.tree) /\ StackOnce(walk) /\ RoomInv
      /\ InRange(next) /\ PlanOK(plan, next)
  BY DEF SiblingInv, IInv, TypeOK
<1>2. /\ shared' = shared /\ pc = "work" /\ pc' = pc /\ walk' = walk
      /\ plan.rescans = NoTasks /\ plan.refresh # NoTasks
      /\ next' = ApplyListing(next, t.id, e)
      /\ plan' = [plan EXCEPT !.refresh = left, !.grafts = @ \cup gs]
  BY DEF Refresh
<1>3. /\ plan'.rescans = plan.rescans /\ plan'.refresh = left /\ plan'.grafts = plan.grafts \cup gs
  BY <1>1, <1>2 DEF PlanOK
<1>4. k \in DOMAIN plan.refresh /\ t \in [id : DOMAIN next.dirs, path : Path]
  BY <1>1, <1>2, FirstTask DEF PlanOK
<1>5. DOMAIN left = DOMAIN plan.refresh \ {k} /\ \A j \in DOMAIN left : left[j] = plan.refresh[j]
  BY DEF Without
<1>6. e \in Listing
  BY ListDiskType
<1>7. /\ \A j \in DOMAIN plan.refresh : plan.refresh[j].id = t.id => j = k
      /\ \A g \in plan.grafts : g.id # t.id
  BY <1>1, <1>4 DEF ListInv
<1> HIDE DEF k, e, left
<1>8. t.id \in DOMAIN next.dirs /\ t.path \in Path
  BY <1>4
<1> HIDE DEF t
<1>9. /\ SiblingsApart(next') /\ next'.dirs = next.dirs /\ AliveDirs(next') \subseteq AliveDirs(next)
  BY <1>1, <1>2, <1>6, <1>8, ApplyApart
<1>10. \A d, x : Free(next, d, x) => Free(next', d, x)
  BY <1>9 DEF Free
<1>11. ASSUME NEW n \in FreshDirs(next, t.id, e)
       PROVE  /\ Free(next, t.id, n) /\ Append(t.path, n) # <<>> /\ Last(Append(t.path, n)) = n
  <2>1. n \in e.dirs /\ n \in Name /\ n \notin NamesOf(next.dirs, ChildDirs(next, t.id))
    BY <1>6, <1>11 DEF FreshDirs, Listing
  <2>2. Free(next, t.id, n)
    BY <2>1 DEF Free, NamesOf, ChildDirs
  <2>3. QED BY <2>1, <2>2, <1>8, NameAtEnd
<1>12. ASSUME NEW g \in gs
       PROVE  /\ g.id = t.id /\ g.path # <<>> /\ Free(next', g.id, Last(g.path))
              /\ g = [slot |-> k, id |-> t.id, path |-> Append(t.path, Last(g.path))]
  <2>1. PICK n \in FreshDirs(next, t.id, e) :
          g = [slot |-> k, id |-> t.id, path |-> Append(t.path, n)]
    BY <1>12
  <2>2. g.id = t.id /\ g.path = Append(t.path, n)
    BY <2>1
  <2>3. Free(next, t.id, n) /\ g.path # <<>> /\ Last(g.path) = n
    BY <2>2, <1>11
  <2>4. QED BY <2>1, <2>2, <2>3, <1>10
<1> HIDE DEF gs
<1>13. ListInv'
  <2>1. \A i, j \in DOMAIN left : left[i].id = left[j].id => i = j
    BY <1>1, <1>5 DEF ListInv
  <2>2. ASSUME NEW j \in DOMAIN left, NEW g \in plan.grafts \cup gs PROVE g.id # left[j].id
    <3>1. CASE g \in plan.grafts
      BY <3>1, <1>1, <1>5 DEF ListInv
    <3>2. CASE g \in gs
      <4>1. g.id = t.id /\ left[j] = plan.refresh[j] /\ j \in DOMAIN plan.refresh /\ j # k
        BY <3>2, <1>5, <1>12
      <4>2. QED BY <4>1, <1>7
    <3>3. QED BY <3>1, <3>2
  <2>3. QED BY <2>1, <2>2, <1>3 DEF ListInv
<1>14. GraftsInv'
  <2>1. ASSUME NEW g \in plan.grafts \cup gs
        PROVE  g.path # <<>> /\ Free(next', g.id, Last(g.path))
    BY <1>1, <1>10, <1>12 DEF GraftsInv
  <2>2. ASSUME NEW g \in plan.grafts \cup gs, NEW h \in plan.grafts \cup gs,
               g.id = h.id, Last(g.path) = Last(h.path)
        PROVE  g = h
    <3>1. CASE g \in gs /\ h \in gs
      BY <3>1, <2>2, <1>12
    <3>2. CASE g \in plan.grafts /\ h \in plan.grafts
      BY <3>2, <2>2, <1>1 DEF GraftsInv
    <3>3. QED BY <3>1, <3>2, <2>2, <1>7, <1>12
  <2>3. QED BY <2>1, <2>2, <1>2, <1>3 DEF GraftsInv
<1>15. RescansInv'
  BY <1>2, <1>3, NoTasksLeft DEF RescansInv
<1>16. RoomInv'
  BY <1>2 DEF RoomInv
<1>17. QED BY <1>1, <1>2, <1>9, <1>13, <1>14, <1>15, <1>16 DEF SiblingInv

\* What is published is the thread's copy.
LEMMA PublishSiblings == IInv /\ SiblingInv /\ Publish => SiblingInv'
<1> SUFFICES ASSUME IInv, SiblingInv, Publish PROVE SiblingInv'
  OBVIOUS
<1>1. SiblingsApart(next) /\ TreeOnce(walk.tree) /\ StackOnce(walk)
  BY DEF SiblingInv
<1>2. shared' = next /\ next' = next /\ walk' = walk /\ plan' = NoPlan
  BY DEF Publish
<1>3. pc' \notin {"rescan", "graft"}
  BY DEF Publish
<1>4. RescansInv' /\ ListInv' /\ GraftsInv' /\ RoomInv'
  BY <1>2, <1>3, NoPlanOnce
<1>5. QED BY <1>1, <1>2, <1>4 DEF SiblingInv

\* What the scanner reads it reads once, and publishes as it is.
LEMMA RebuildSiblings ==
  IInv /\ SiblingInv /\ (BeginRebuild \/ EndRebuild \/ RebuildFails) => SiblingInv'
<1> SUFFICES ASSUME IInv, SiblingInv, BeginRebuild \/ EndRebuild \/ RebuildFails PROVE SiblingInv'
  OBVIOUS
<1>1. SiblingsApart(shared) /\ SiblingsApart(next) /\ TreeOnce(walk.tree)
  BY DEF SiblingInv
<1>2. plan' = NoPlan /\ pc' \notin {"rescan", "graft"}
  BY DEF IInv, NextInv, BeginRebuild, EndRebuild, RebuildFails
<1>3. RescansInv' /\ ListInv' /\ GraftsInv' /\ RoomInv'
  BY <1>2, NoPlanOnce
<1>4. TreeOnce(walk'.tree) /\ StackOnce(walk')
  <2>1. CASE BeginRebuild
    BY <2>1, WalkFromOnce DEF BeginRebuild
  <2>2. CASE EndRebuild \/ RebuildFails
    BY <2>2, NoWalkOnce DEF EndRebuild, RebuildFails
  <2>3. QED BY <2>1, <2>2
<1>5. SiblingsApart(shared') /\ SiblingsApart(next')
  <2>1. CASE EndRebuild
    <3>1. shared' = BaseOf(walk.tree) /\ next' = shared'
      BY <2>1 DEF EndRebuild
    <3>2. SiblingsApart(BaseOf(walk.tree))
      BY <1>1 DEF TreeOnce, BaseOf, SiblingsApart, AliveDirs, AliveFiles
    <3>3. QED BY <3>1, <3>2
  <2>2. CASE BeginRebuild \/ RebuildFails
    BY <2>2, <1>1 DEF BeginRebuild, RebuildFails
  <2>3. QED BY <2>1, <2>2
<1>6. QED BY <1>3, <1>4, <1>5 DEF SiblingInv

\* Every step keeps the invariant.
LEMMA StepSiblings == IInv /\ SiblingInv /\ [Next]_vars => SiblingInv'
<1> SUFFICES ASSUME IInv, SiblingInv, [Next]_vars PROVE SiblingInv'
  OBVIOUS
<1>1. CASE UNCHANGED vars \/ Environment
  <2>1. shared' = shared /\ next' = next /\ pc' = pc /\ plan' = plan /\ walk' = walk
    BY <1>1 DEF vars, Environment, updaterVars
  <2>2. QED BY <2>1 DEF SiblingInv, RescansInv, ListInv, GraftsInv, RoomInv
<1>2. CASE EndSubtree
  <2>1. pc \in {"rescan", "graft"}
    BY <1>2 DEF EndSubtree
  <2>2. QED BY <1>2, <2>1, EndRescanSiblings, EndGraftSiblings
<1>3. CASE Thread /\ ~EndSubtree
  BY <1>3, TakeBatchSiblings, BeginRescanSiblings, BeginGraftSiblings, ReadingSiblings,
     RefreshSiblings, PublishSiblings, RebuildSiblings DEF Thread
<1>4. QED BY <1>1, <1>2, <1>3 DEF Next

-----------------------------------------------------------------------------
(* Results.                                                                *)

\* Whatever events a batch holds, in whatever order, repeated or standing for
\* dropped ones, and however the disk moves under the reads, no directory of
\* a published snapshot has two alive entries of one name.
THEOREM SiblingsStayUnique == Spec => []SiblingsUnique
<1>1. SiblingInv => SiblingsUnique
  BY DEF SiblingInv, SiblingsUnique
<1>2. QED BY <1>1, InitSiblings, StepSiblings, Invariance, PTL DEF Spec
=============================================================================
