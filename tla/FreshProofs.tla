---------------------------- MODULE FreshProofs ----------------------------
(***************************************************************************)
(* More proofs about Updater, while nothing is renamed and no directory is *)
(* closed: the index of an idle thread with nothing left to deliver is the *)
(* disk; and, when the disk rests while a batch is handled and no event is *)
(* dropped, so is what a search of it prints.                              *)
(***************************************************************************)
EXTENDS UpdaterProofs

-----------------------------------------------------------------------------
(* Paths.                                                                  *)

\* u leads to p, from somewhere above it.
Under(u, p) == IsPrefix(u, p) /\ u # p

\* Prefixes, element by element.
LEMMA PathPrefix ==
  ASSUME NEW u \in Path, NEW p \in Path
  PROVE  /\ Len(u) \in Nat /\ Len(p) \in Nat
         /\ IsPrefix(u, p) <=> Len(u) <= Len(p) /\ \A i \in 1 .. Len(u) : u[i] = p[i]
<1>1. u \in Seq(Name) /\ p \in Seq(Name)
  BY DEF Path
<1>2. QED BY <1>1, PrefixByElement, LenProperties

\* Two paths are equal when their elements are.
LEMMA PathEqual ==
  ASSUME NEW u \in Path, NEW p \in Path, Len(u) = Len(p), \A i \in 1 .. Len(u) : u[i] = p[i]
  PROVE  u = p
BY SeqEqual DEF Path

\* The root's path.
LEMMA PathEmpty ==
  /\ <<>> \in Path /\ Len(<<>>) = 0
  /\ \A p \in Path : p # <<>> => Len(p) \in Nat \ {0}
  /\ \A p \in Path : IsPrefix(<<>>, p)
<1>1. <<>> \in Path /\ Len(<<>>) = 0 /\ \A p \in Path : p # <<>> => Len(p) \in Nat \ {0}
  BY EmptySeq DEF Path
<1>2. ASSUME NEW p \in Path PROVE IsPrefix(<<>>, p)
  <2>1. Len(p) \in Nat
    BY PathPrefix
  <2>2. QED BY <1>1, <2>1, PathPrefix
<1>3. QED BY <1>1, <1>2

\* A path with one more name.
LEMMA PathAppend ==
  ASSUME NEW v \in Path, NEW x \in Name
  PROVE  /\ Append(v, x) \in Path /\ Append(v, x) # <<>> /\ Len(v) \in Nat
         /\ Len(Append(v, x)) = Len(v) + 1
         /\ \A i \in 1 .. Len(v) : Append(v, x)[i] = v[i]
         /\ Append(v, x)[Len(v) + 1] = x
         /\ Front(Append(v, x)) = v /\ Last(Append(v, x)) = x
<1> DEFINE q == Append(v, x)
<1>1. /\ Len(v) \in Nat /\ q \in Path /\ q # <<>> /\ Len(q) = Len(v) + 1
      /\ \A i \in 1 .. Len(v) : q[i] = v[i]
      /\ q[Len(v) + 1] = x
  BY AppendProperties, LenProperties DEF Path
<1> HIDE DEF q
<1>2. /\ Front(q) \in Path /\ Len(Front(q)) = Len(q) - 1 /\ Last(q) = q[Len(q)]
      /\ \A i \in 1 .. Len(q) - 1 : Front(q)[i] = q[i]
  BY <1>1, FrontLast DEF Path
<1>3. Len(Front(q)) = Len(v) /\ \A i \in 1 .. Len(Front(q)) : Front(q)[i] = v[i]
  BY <1>1, <1>2
<1>4. Front(q) = v
  BY <1>2, <1>3, PathEqual
<1>5. Last(q) = x
  BY <1>1, <1>2
<1>6. QED BY <1>1, <1>4, <1>5 DEF q

\* Every path but the root's is one of those.
LEMMA PathEnds ==
  ASSUME NEW p \in Path, p # <<>>
  PROVE  /\ Front(p) \in Path /\ Last(p) \in Name /\ p = Append(Front(p), Last(p))
         /\ Len(p) \in Nat \ {0} /\ Len(Front(p)) = Len(p) - 1
<1>1. /\ Len(p) \in Nat \ {0} /\ Last(p) \in Name /\ Last(p) = p[Len(p)]
      /\ Front(p) \in Path /\ Len(Front(p)) = Len(p) - 1
      /\ \A i \in 1 .. Len(p) - 1 : Front(p)[i] = p[i]
  BY FrontLast DEF Path
<1> DEFINE f == Front(p)   x == Last(p)   q == Append(f, x)
<1>2. /\ q \in Path /\ Len(q) = Len(f) + 1
      /\ \A i \in 1 .. Len(f) : q[i] = f[i]
      /\ q[Len(f) + 1] = x
  BY <1>1, PathAppend
<1> HIDE DEF f, x, q
<1>3. /\ Len(p) \in Nat \ {0} /\ x = p[Len(p)] /\ Len(f) = Len(p) - 1
      /\ \A i \in 1 .. Len(p) - 1 : f[i] = p[i]
  BY <1>1 DEF f, x
<1>4. Len(q) = Len(p)
  BY <1>2, <1>3
<1>5. \A i \in 1 .. Len(q) : i = Len(f) + 1 \/ i \in 1 .. Len(f)
  BY <1>2, <1>3
<1>6. \A i \in 1 .. Len(q) : q[i] = p[i]
  BY <1>2, <1>3, <1>5
<1>7. q = p
  BY <1>2, <1>4, <1>6, PathEqual
<1>8. QED BY <1>1, <1>7 DEF q, f, x

\* Paths with one more name are equal in both parts.
LEMMA PathSplit ==
  ASSUME NEW u \in Path, NEW x \in Name, NEW v \in Path, NEW y \in Name, Append(u, x) = Append(v, y)
  PROVE  u = v /\ x = y
<1>1. /\ Front(Append(u, x)) = u /\ Last(Append(u, x)) = x
  BY PathAppend
<1>2. Front(Append(v, y)) = v /\ Last(Append(v, y)) = y
  BY PathAppend
<1>3. QED BY <1>1, <1>2

\* What holds of the root's path and from each path for the next holds of all.
LEMMA PathInduction ==
  ASSUME NEW T, <<>> \in T, \A v \in Path : \A x \in Name : v \in T => Append(v, x) \in T
  PROVE  \A p \in Path : p \in T
<1> DEFINE U == {n \in Nat : \A p \in Path : Len(p) = n => p \in T}
<1>1. 0 \in U
  BY PathEmpty
<1>2. ASSUME NEW n \in Nat, n \in U PROVE n + 1 \in U
  <2>1. ASSUME NEW p \in Path, Len(p) = n + 1 PROVE p \in T
    <3>1. p # <<>>
      BY <2>1, PathEmpty
    <3>2. /\ Front(p) \in Path /\ Last(p) \in Name /\ p = Append(Front(p), Last(p))
          /\ Len(Front(p)) = n
      BY <2>1, <3>1, PathEnds
    <3>3. Front(p) \in T
      BY <1>2, <3>2
    <3>4. QED BY <3>2, <3>3
  <2>2. n + 1 \in Nat
    OBVIOUS
  <2>3. QED BY <2>1, <2>2
<1>3. ASSUME NEW p \in Path PROVE p \in T
  <2>1. Len(p) \in Nat
    BY PathPrefix
  <2> DEFINE m == Len(p)
  <2>2. \A i \in 0 .. m - 1 : i \in U => i + 1 \in U
    BY <1>2, <2>1
  <2>3. m \in 0 .. m /\ m \in Nat
    BY <2>1
  <2> HIDE DEF U, m
  <2>4. \A i \in 0 .. m : i \in U
    BY <1>1, <2>2, <2>3, UpTo
  <2>5. m \in U
    BY <2>3, <2>4
  <2>6. QED BY <2>5 DEF U, m
<1>4. QED BY <1>3

\* A prefix of a path with one more name is that path or one of its front's.
LEMMA PrefixStep ==
  ASSUME NEW u \in Path, NEW v \in Path, NEW x \in Name
  PROVE  IsPrefix(u, Append(v, x)) <=> u = Append(v, x) \/ IsPrefix(u, v)
<1> DEFINE q == Append(v, x)
<1>1. /\ q \in Path /\ Len(q) = Len(v) + 1 /\ Len(v) \in Nat
      /\ \A i \in 1 .. Len(v) : q[i] = v[i]
  BY PathAppend
<1>2. /\ Len(u) \in Nat
      /\ IsPrefix(u, v) <=> Len(u) <= Len(v) /\ \A i \in 1 .. Len(u) : u[i] = v[i]
  BY PathPrefix
<1> HIDE DEF q
<1>3. IsPrefix(u, q) <=> Len(u) <= Len(q) /\ \A i \in 1 .. Len(u) : u[i] = q[i]
  BY <1>1, PathPrefix
<1>4. ASSUME u = q PROVE IsPrefix(u, q)
  BY <1>1, <1>2, <1>3, <1>4
<1>5. ASSUME IsPrefix(u, v) PROVE IsPrefix(u, q)
  BY <1>1, <1>2, <1>3, <1>5
<1>6. ASSUME IsPrefix(u, q), u # q PROVE IsPrefix(u, v)
  <2>1. Len(u) # Len(q)
    BY <1>1, <1>3, <1>6, PathEqual
  <2>2. Len(u) <= Len(v)
    BY <1>1, <1>2, <1>3, <1>6, <2>1
  <2>3. \A i \in 1 .. Len(u) : u[i] = v[i]
    BY <1>1, <1>2, <1>3, <1>6, <2>2
  <2>4. QED BY <1>2, <2>2, <2>3
<1>7. QED BY <1>4, <1>5, <1>6 DEF q

\* Every path is a prefix of itself.
LEMMA PrefixSelf ==
  ASSUME NEW p \in Path
  PROVE  IsPrefix(p, p)
BY PathPrefix

\* A prefix of a prefix is one.
LEMMA PrefixFurther ==
  ASSUME NEW u \in Path, NEW v \in Path, NEW p \in Path, IsPrefix(u, v), IsPrefix(v, p)
  PROVE  IsPrefix(u, p)
<1>1. /\ Len(u) \in Nat /\ Len(v) \in Nat /\ Len(u) <= Len(v) /\ \A i \in 1 .. Len(u) : u[i] = v[i]
  BY PathPrefix
<1>2. Len(p) \in Nat /\ Len(v) <= Len(p) /\ \A i \in 1 .. Len(v) : v[i] = p[i]
  BY PathPrefix
<1>3. Len(u) <= Len(p) /\ \A i \in 1 .. Len(u) : u[i] = p[i]
  BY <1>1, <1>2
<1>4. QED BY <1>3, PathPrefix

\* Two prefixes of one path: one leads to the other.
LEMMA PrefixChain ==
  ASSUME NEW u \in Path, NEW v \in Path, NEW p \in Path, IsPrefix(u, p), IsPrefix(v, p)
  PROVE  IsPrefix(u, v) \/ IsPrefix(v, u)
<1>1. /\ Len(u) \in Nat /\ Len(u) <= Len(p) /\ \A i \in 1 .. Len(u) : u[i] = p[i]
  BY PathPrefix
<1>2. Len(v) \in Nat /\ Len(v) <= Len(p) /\ \A i \in 1 .. Len(v) : v[i] = p[i]
  BY PathPrefix
<1>3. CASE Len(u) <= Len(v)
  <2>1. \A i \in 1 .. Len(u) : u[i] = v[i]
    BY <1>1, <1>2, <1>3
  <2>2. QED BY <1>3, <2>1, PathPrefix
<1>4. CASE Len(v) <= Len(u)
  <2>1. \A i \in 1 .. Len(v) : v[i] = u[i]
    BY <1>1, <1>2, <1>4
  <2>2. QED BY <1>4, <2>1, PathPrefix
<1>5. QED BY <1>1, <1>2, <1>3, <1>4

\* Two paths that are prefixes of each other are one.
LEMMA PrefixBoth ==
  ASSUME NEW u \in Path, NEW v \in Path, IsPrefix(u, v), IsPrefix(v, u)
  PROVE  u = v
<1>1. /\ Len(u) \in Nat /\ Len(u) <= Len(v) /\ \A i \in 1 .. Len(u) : u[i] = v[i]
  BY PathPrefix
<1>2. Len(v) \in Nat /\ Len(v) <= Len(u)
  BY PathPrefix
<1>3. QED BY <1>1, <1>2, PathEqual

\* From above a path one more name leads towards it.
LEMMA UnderStep ==
  ASSUME NEW u \in Path, NEW p \in Path, Under(u, p)
  PROVE  /\ Len(u) \in Nat /\ Len(u) + 1 \in 1 .. Len(p) /\ p[Len(u) + 1] \in Name
         /\ IsPrefix(Append(u, p[Len(u) + 1]), p)
         /\ Prefix(p, Len(u) + 1) = Append(u, p[Len(u) + 1])
<1>1. /\ Len(u) \in Nat /\ Len(p) \in Nat /\ Len(u) <= Len(p) /\ \A i \in 1 .. Len(u) : u[i] = p[i]
  BY PathPrefix DEF Under
<1>2. Len(u) # Len(p)
  BY <1>1, PathEqual DEF Under
<1>3. Len(u) + 1 \in 1 .. Len(p)
  BY <1>1, <1>2
<1> DEFINE x == p[Len(u) + 1]   q == Append(u, x)   r == Prefix(p, Len(u) + 1)
<1>4. x \in Name
  BY <1>3, ElementOfSeq DEF Path
<1>5. /\ q \in Path /\ Len(q) = Len(u) + 1 /\ \A i \in 1 .. Len(u) : q[i] = u[i]
      /\ q[Len(u) + 1] = x
  BY <1>4, PathAppend
<1>6. r \in Path /\ Len(r) = Len(u) + 1 /\ \A i \in 1 .. Len(u) + 1 : r[i] = p[i]
  <2> DEFINE m == Len(u) + 1
  <2>1. m \in Nat /\ \A i \in 1 .. m : p[i] \in Name
    BY <1>1, <1>3, ElementOfSeq DEF Path
  <2> HIDE DEF m
  <2>2. SubSeq(p, 1, m) \in Seq(Name) /\ Len(SubSeq(p, 1, m)) = m /\ \A i \in 1 .. m : SubSeq(p, 1, m)[i] = p[i]
    BY <2>1, Beginning
  <2>3. QED BY <2>2 DEF Prefix, Path, m
<1>x. x = p[Len(u) + 1]
  OBVIOUS
<1> HIDE DEF q, x, r
<1>7. \A i \in 1 .. Len(q) : q[i] = p[i]
  BY <1>1, <1>5, <1>x
<1>8. Len(q) <= Len(p)
  BY <1>3, <1>5
<1>9. IsPrefix(q, p)
  BY <1>5, <1>7, <1>8, PathPrefix
<1>10. Len(r) = Len(q) /\ \A i \in 1 .. Len(r) : r[i] = q[i]
  BY <1>5, <1>6, <1>7
<1>11. r = q
  BY <1>5, <1>6, <1>10, PathEqual
<1>12. QED BY <1>1, <1>3, <1>4, <1>9, <1>11 DEF q, x, r

\* What leads to a path with one more name leads to its front, or is it.
LEMMA UnderFront ==
  ASSUME NEW u \in Path, NEW v \in Path, NEW x \in Name
  PROVE  Under(u, Append(v, x)) <=> IsPrefix(u, v)
<1> DEFINE q == Append(v, x)
<1>1. q \in Path /\ Len(q) = Len(v) + 1 /\ Len(v) \in Nat
  BY PathAppend
<1>2. IsPrefix(u, q) <=> u = q \/ IsPrefix(u, v)
  BY PrefixStep
<1> HIDE DEF q
<1>3. ~IsPrefix(q, v)
  BY <1>1, PathPrefix
<1>4. QED BY <1>2, <1>3 DEF Under, q
-----------------------------------------------------------------------------
(* lookup_dir, name by name.                                               *)

Rooted(l) == l \in Snapshot /\ l.dirs # <<>> /\ l.dirs[Root].parent = NoDir

\* What one more name leads to.
Step(l, d, x) == IF d = NoDir \/ Named(l, d, x) = {} THEN NoDir
                 ELSE CHOOSE c \in FirstNamed(l, d, x) : TRUE

\* The parts of a snapshot that has a root.
LEMMA RootedParts ==
  ASSUME NEW l, Rooted(l)
  PROVE  /\ l.dirs \in Seq(Entry) /\ l.files \in Seq(Entry)
         /\ DOMAIN l.dirs \subseteq Nat /\ NoDir \notin DOMAIN l.dirs
         /\ Root \in DOMAIN l.dirs /\ Root # NoDir /\ Root \in Nat /\ l.dirs[Root].parent = NoDir
         /\ \A c \in DOMAIN l.dirs : l.dirs[c] \in Entry
<1>1. l.dirs \in Seq(Entry) /\ l.files \in Seq(Entry) /\ l.dirs # <<>> /\ l.dirs[Root].parent = NoDir
  BY DEF Rooted, Snapshot
<1>2. Len(l.dirs) \in Nat \ {0} /\ DOMAIN l.dirs = 1 .. Len(l.dirs)
  BY <1>1, EmptySeq, LenProperties
<1>3. DOMAIN l.dirs \subseteq Nat /\ NoDir \notin DOMAIN l.dirs /\ Root \in DOMAIN l.dirs /\ Root # NoDir
      /\ Root \in Nat
  BY <1>2 DEF Root, NoDir
<1>4. \A c \in DOMAIN l.dirs : l.dirs[c] \in Entry
  BY <1>1, <1>2, ElementOfSeq
<1>5. QED BY <1>1, <1>3, <1>4

\* The levels of the lookup: nothing or one directory each.
Levels(l, p, f) ==
  /\ f \in [0 .. Len(p) -> SUBSET DOMAIN l.dirs]
  /\ f[0] = {Root}
  /\ \A i \in 1 .. Len(p) : f[i] = UNION {FirstNamed(l, d, p[i]) : d \in f[i-1]}
  /\ LookupDir(l, p) = IF f[Len(p)] = {} THEN NoDir ELSE CHOOSE d \in f[Len(p)] : TRUE

\* lookup_dir goes down by such levels.
LEMMA LevelsExist ==
  ASSUME NEW l, Rooted(l), NEW p \in Path
  PROVE  \E f : Levels(l, p, f)
<1> DEFINE N == Len(p)
           at[i \in 0 .. Len(p)] == IF i = 0 THEN {Root}
                                    ELSE UNION {FirstNamed(l, d, p[i]) : d \in at[i-1]}
           found == at[Len(p)] \cap DOMAIN l.dirs
           S == SUBSET DOMAIN l.dirs
           G == [i \in 0 .. N |-> [X \in S |-> UNION {FirstNamed(l, d, p[i]) : d \in X}]]
<1>1. N \in Nat /\ Root \in DOMAIN l.dirs
  BY PathPrefix, RootedParts
<1>2. \A d, x : FirstNamed(l, d, x) \subseteq DOMAIN l.dirs
  BY DEF FirstNamed, Named, ChildDirs, AliveDirs
<1>3. G \in [0 .. N -> [S -> S]] /\ {Root} \in S
  BY <1>1, <1>2
<1>4. PICK f \in [0 .. N -> S] : \A i \in 0 .. N : f[i] = IF i = 0 THEN {Root} ELSE G[i][f[i-1]]
  <2> HIDE DEF G, S, N
  <2>1. Stepwise(N, S, {Root}, G)
    BY <1>1, <1>3, StepwiseExists
  <2>2. QED BY <2>1 DEF Stepwise
<1>5. f = [i \in 0 .. N |-> IF i = 0 THEN {Root} ELSE UNION {FirstNamed(l, d, p[i]) : d \in f[i-1]}]
  <2>1. \A i \in 0 .. N : i # 0 => i - 1 \in 0 .. N
    BY <1>1
  <2>2. \A i \in 0 .. N : i # 0 => G[i][f[i-1]] = UNION {FirstNamed(l, d, p[i]) : d \in f[i-1]}
    BY <1>4, <2>1
  <2> HIDE DEF G, S, N
  <2>3. QED BY <1>4, <2>2
<1>6. at = [i \in 0 .. N |-> IF i = 0 THEN {Root} ELSE UNION {FirstNamed(l, d, p[i]) : d \in at[i-1]}]
  BY <1>5
<1> HIDE DEF at
<1>7. LookupDir(l, p) = IF found = {} THEN NoDir ELSE CHOOSE d \in found : TRUE
  BY DEF LookupDir, at
<1>8. \A i \in 0 .. N : at[i] \subseteq DOMAIN l.dirs
  BY <1>1, <1>2, <1>6
<1>9. found = at[N]
  BY <1>1, <1>8
<1>10. at \in [0 .. N -> S] /\ at[0] = {Root}
  BY <1>1, <1>6, <1>8
<1>11. ASSUME NEW i \in 1 .. N PROVE at[i] = UNION {FirstNamed(l, d, p[i]) : d \in at[i-1]}
  <2>1. i \in 0 .. N /\ i # 0
    BY <1>1
  <2> HIDE DEF N
  <2>2. QED BY <1>6, <2>1
<1>12. Levels(l, p, at)
  <2> HIDE DEF found
  <2>1. QED BY <1>7, <1>9, <1>10, <1>11 DEF Levels
<1>13. QED BY <1>12

\* The root is found by the empty path.
LEMMA LookRoot ==
  ASSUME NEW l, Rooted(l)
  PROVE  LookupDir(l, <<>>) = Root
<1>1. PICK f : Levels(l, <<>>, f)
  BY LevelsExist, PathEmpty
<1>2. Len(<<>>) = 0
  BY PathEmpty
<1>3. QED BY <1>1, <1>2 DEF Levels

\* The first child of a name is one, if there is any.
LEMMA FirstIs ==
  ASSUME NEW l, Rooted(l), NEW d, NEW x
  PROVE  /\ \A b, c \in FirstNamed(l, d, x) : b = c
         /\ FirstNamed(l, d, x) \subseteq Named(l, d, x)
         /\ Named(l, d, x) # {} => FirstNamed(l, d, x) # {}
         /\ Named(l, d, x) \subseteq DOMAIN l.dirs
<1>1. DOMAIN l.dirs \subseteq Nat
  BY RootedParts
<1>2. Named(l, d, x) \subseteq DOMAIN l.dirs
  BY DEF Named, ChildDirs, AliveDirs
<1>3. \A b, c \in FirstNamed(l, d, x) : b \in Nat /\ c \in Nat /\ b <= c /\ c <= b
  BY <1>1, <1>2 DEF FirstNamed
<1>4. Named(l, d, x) # {} => FirstNamed(l, d, x) # {}
  <2>1. Named(l, d, x) \subseteq Nat
    BY <1>1, <1>2
  <2>2. Named(l, d, x) # {} => \E i \in Named(l, d, x) : \A j \in Named(l, d, x) : i <= j
    BY <2>1, LeastOf
  <2>3. QED BY <2>2 DEF FirstNamed
<1>5. QED BY <1>2, <1>3, <1>4 DEF FirstNamed

\* A level holds at most one directory.
LEMMA LevelsSingle ==
  ASSUME NEW l, Rooted(l), NEW p \in Path, NEW f, Levels(l, p, f)
  PROVE  \A i \in 0 .. Len(p) : \A b, c \in f[i] : b = c
<1> DEFINE T == {i \in 0 .. Len(p) : \A b, c \in f[i] : b = c}
<1>1. Len(p) \in Nat
  BY PathPrefix
<1>2. 0 \in T
  BY <1>1 DEF Levels
<1>3. ASSUME NEW i \in 0 .. Len(p) - 1, i \in T PROVE i + 1 \in T
  <2>1. i + 1 \in 1 .. Len(p) /\ i + 1 \in 0 .. Len(p) /\ (i + 1) - 1 = i
    BY <1>1
  <2>2. f[i + 1] = UNION {FirstNamed(l, d, p[i + 1]) : d \in f[i]}
    <3>1. f[i + 1] = UNION {FirstNamed(l, d, p[i + 1]) : d \in f[(i + 1) - 1]}
      BY <2>1 DEF Levels
    <3>2. QED BY <2>1, <3>1
  <2>3. \A b, c \in f[i + 1] : \E d, e \in f[i] : b \in FirstNamed(l, d, p[i + 1]) /\ c \in FirstNamed(l, e, p[i + 1])
    BY <2>2
  <2>4. \A d, e \in f[i] : d = e
    BY <1>3
  <2>5. \A d : \A b, c \in FirstNamed(l, d, p[i + 1]) : b = c
    BY FirstIs
  <2>6. \A b, c \in f[i + 1] : b = c
    BY <2>3, <2>4, <2>5
  <2>7. QED BY <2>1, <2>6
<1>4. \A i \in 0 .. Len(p) : i \in T
  <2> HIDE DEF T
  <2>1. QED BY <1>1, <1>2, <1>3, UpTo
<1>5. QED BY <1>4

\* A lookup goes one name further than that of the path's front.
LEMMA LookStep ==
  ASSUME NEW l, Rooted(l), NEW v \in Path, NEW x \in Name
  PROVE  LookupDir(l, Append(v, x)) = Step(l, LookupDir(l, v), x)
<1> DEFINE q == Append(v, x)   n == Len(v)
<1>1. q \in Path /\ Len(q) = n + 1 /\ n \in Nat /\ (\A i \in 1 .. n : q[i] = v[i]) /\ q[n + 1] = x
  BY PathAppend
<1>2. PICK f : Levels(l, v, f)
  BY LevelsExist
<1> HIDE DEF q
<1>3. PICK g : Levels(l, q, g)
  BY <1>1, LevelsExist
<1> DEFINE T == {i \in 0 .. n : f[i] = g[i]}
<1>4. 0 \in T
  <2>1. f[0] = {Root} /\ g[0] = {Root}
    BY <1>2, <1>3 DEF Levels
  <2>2. 0 \in 0 .. n
    BY <1>1
  <2>3. QED BY <2>1, <2>2
<1>5. ASSUME NEW i \in 0 .. n - 1, i \in T PROVE i + 1 \in T
  <2>1. i + 1 \in 1 .. n /\ i + 1 \in 0 .. n /\ i + 1 \in 1 .. Len(q) /\ (i + 1) - 1 = i
    BY <1>1
  <2>2. f[i + 1] = UNION {FirstNamed(l, d, v[i + 1]) : d \in f[(i + 1) - 1]}
    BY <1>2, <2>1 DEF Levels
  <2>3. g[i + 1] = UNION {FirstNamed(l, d, q[i + 1]) : d \in g[(i + 1) - 1]}
    BY <1>3, <2>1 DEF Levels
  <2>4. q[i + 1] = v[i + 1] /\ f[(i + 1) - 1] = g[(i + 1) - 1]
    BY <1>1, <1>5, <2>1
  <2>5. QED BY <2>1, <2>2, <2>3, <2>4
<1>6. n \in T
  <2> HIDE DEF T
  <2>1. \A i \in 0 .. n : i \in T
    BY <1>1, <1>4, <1>5, UpTo
  <2>2. QED BY <1>1, <2>1
<1>7. g[n + 1] = UNION {FirstNamed(l, d, x) : d \in f[n]}
  <2>1. n + 1 \in 1 .. Len(q) /\ (n + 1) - 1 = n
    BY <1>1
  <2>2. g[n + 1] = UNION {FirstNamed(l, d, q[n + 1]) : d \in g[(n + 1) - 1]}
    BY <1>3, <2>1 DEF Levels
  <2>3. QED BY <1>1, <1>6, <2>1, <2>2
<1>8. LookupDir(l, q) = IF g[n + 1] = {} THEN NoDir ELSE CHOOSE d \in g[n + 1] : TRUE
  BY <1>1, <1>3 DEF Levels
<1>9. /\ LookupDir(l, v) = IF f[n] = {} THEN NoDir ELSE CHOOSE d \in f[n] : TRUE
      /\ f[n] \subseteq DOMAIN l.dirs
  BY <1>1, <1>2 DEF Levels
<1>10. NoDir \notin DOMAIN l.dirs
  BY RootedParts
<1>11. CASE f[n] = {}
  <2>1. g[n + 1] = {}
    BY <1>7, <1>11
  <2>2. LookupDir(l, q) = NoDir /\ LookupDir(l, v) = NoDir
    BY <1>8, <1>9, <1>11, <2>1
  <2>3. QED BY <2>2 DEF Step, q
<1>12. CASE f[n] # {}
  <2> DEFINE d == LookupDir(l, v)
  <2>1. d \in f[n]
    BY <1>9, <1>12
  <2>2. f[n] = {d}
    <3>1. \A b, c \in f[n] : b = c
      BY <1>1, <1>2, LevelsSingle
    <3>2. QED BY <2>1, <3>1
  <2>3. d # NoDir
    BY <1>9, <1>10, <2>1
  <2>4. g[n + 1] = FirstNamed(l, d, x)
    BY <1>7, <2>2
  <2>5. Named(l, d, x) = {} <=> FirstNamed(l, d, x) = {}
    BY FirstIs
  <2>6. QED BY <1>8, <2>3, <2>4, <2>5 DEF Step, q
<1>13. QED BY <1>11, <1>12
-----------------------------------------------------------------------------
(* What a lookup finds.                                                    *)

\* One more name leads to an alive child of that name.
LEMMA StepFinds ==
  ASSUME NEW l, Rooted(l), NEW d, NEW x, Step(l, d, x) # NoDir
  PROVE  LET c == Step(l, d, x)
         IN  /\ d # NoDir /\ c \in Named(l, d, x) /\ c \in AliveDirs(l) /\ c \in DOMAIN l.dirs
             /\ l.dirs[c].parent = d /\ l.dirs[c].name = x /\ c # Root
<1>1. d # NoDir /\ Named(l, d, x) # {}
  BY DEF Step
<1>2. Step(l, d, x) \in FirstNamed(l, d, x)
  <2>1. FirstNamed(l, d, x) # {}
    BY <1>1, FirstIs
  <2>2. Step(l, d, x) = CHOOSE c \in FirstNamed(l, d, x) : TRUE
    BY <1>1 DEF Step
  <2>3. QED BY <2>1, <2>2
<1> DEFINE c == Step(l, d, x)
<1> HIDE DEF c
<1>3. c \in Named(l, d, x)
  BY <1>2, FirstIs DEF c
<1>4. /\ c \in AliveDirs(l) /\ c \in DOMAIN l.dirs
      /\ l.dirs[c].parent = d /\ l.dirs[c].name = x
  BY <1>3 DEF Named, ChildDirs, AliveDirs
<1>5. c # Root
  BY <1>1, <1>4, RootedParts
<1>6. QED BY <1>1, <1>3, <1>4, <1>5 DEF c

\* Among siblings of different names the child of a name is the one found.
LEMMA NamedOnce ==
  ASSUME NEW l, Rooted(l), SiblingsApart(l), NEW d, NEW x
  PROVE  \A b, c \in Named(l, d, x) : b = c
<1>1. SUFFICES ASSUME NEW b \in Named(l, d, x), NEW c \in Named(l, d, x) PROVE b = c
  OBVIOUS
<1>2. /\ b \in AliveDirs(l) /\ b \in DOMAIN l.dirs /\ l.dirs[b].parent = d /\ l.dirs[b].name = x
      /\ c \in AliveDirs(l) /\ c \in DOMAIN l.dirs /\ l.dirs[c].parent = d /\ l.dirs[c].name = x
  BY DEF Named, ChildDirs, AliveDirs
<1>3. l.dirs[b] \in Entry /\ l.dirs[c] \in Entry
  BY <1>2, RootedParts
<1>4. l.dirs[b] = l.dirs[c]
  BY <1>2, <1>3, EntryParts
<1>5. QED BY <1>2, <1>4 DEF SiblingsApart, UniqueIn

\* With siblings apart it leads to the only one.
LEMMA StepOnly ==
  ASSUME NEW l, Rooted(l), SiblingsApart(l), NEW d, d # NoDir, NEW x, NEW c \in Named(l, d, x)
  PROVE  Step(l, d, x) = c
<1>1. Named(l, d, x) # {}
  OBVIOUS
<1>2. FirstNamed(l, d, x) # {} /\ FirstNamed(l, d, x) \subseteq Named(l, d, x)
  BY <1>1, FirstIs
<1>3. Step(l, d, x) \in FirstNamed(l, d, x)
  BY <1>1, <1>2 DEF Step
<1>4. QED BY <1>2, <1>3, NamedOnce

\* With siblings apart one more name leads nowhere or to the child that has it.
LEMMA StepIs ==
  ASSUME NEW l, Rooted(l), SiblingsApart(l), NEW d, d # NoDir, NEW x
  PROVE  Step(l, d, x) # NoDir <=> \E c \in ChildDirs(l, d) : l.dirs[c].name = x
<1>1. Named(l, d, x) # {} <=> \E c \in ChildDirs(l, d) : l.dirs[c].name = x
  BY DEF Named
<1>2. ASSUME NEW c \in Named(l, d, x) PROVE Step(l, d, x) # NoDir
  <2>1. Step(l, d, x) = c /\ c \in DOMAIN l.dirs
    BY StepOnly, FirstIs
  <2>2. QED BY <2>1, RootedParts
<1>3. Named(l, d, x) = {} => Step(l, d, x) = NoDir
  BY DEF Step
<1>4. QED BY <1>1, <1>2, <1>3

\* What a lookup finds: the root, or an alive directory of the path's last name, in the
\* directory that its front leads to.
LEMMA LookFound ==
  ASSUME NEW l, Rooted(l), NEW p \in Path, LookupDir(l, p) # NoDir
  PROVE  /\ LookupDir(l, p) \in DOMAIN l.dirs
         /\ p = <<>> => LookupDir(l, p) = Root
         /\ p # <<>> => /\ LookupDir(l, p) \in AliveDirs(l) /\ LookupDir(l, p) # Root
                        /\ l.dirs[LookupDir(l, p)].name = Last(p)
                        /\ l.dirs[LookupDir(l, p)].parent = LookupDir(l, Front(p))
                        /\ LookupDir(l, Front(p)) # NoDir
<1>1. CASE p = <<>>
  <2>1. LookupDir(l, p) = Root
    BY <1>1, LookRoot
  <2>2. Root \in DOMAIN l.dirs
    BY RootedParts
  <2>3. QED BY <1>1, <2>1, <2>2
<1>2. CASE p # <<>>
  <2> DEFINE v == Front(p)   x == Last(p)
  <2>1. v \in Path /\ x \in Name /\ p = Append(v, x)
    BY <1>2, PathEnds
  <2> HIDE DEF v, x
  <2>2. LookupDir(l, p) = Step(l, LookupDir(l, v), x)
    BY <2>1, LookStep
  <2> DEFINE d == LookupDir(l, v)   c == LookupDir(l, p)
  <2>3. c = Step(l, d, x) /\ Step(l, d, x) # NoDir
    BY <2>2
  <2> HIDE DEF d, c
  <2>4. /\ d # NoDir /\ c \in AliveDirs(l) /\ c \in DOMAIN l.dirs
        /\ l.dirs[c].parent = d /\ l.dirs[c].name = x /\ c # Root
    BY <2>3, StepFinds
  <2>5. QED BY <1>2, <2>4 DEF c, d, v, x
<1>3. QED BY <1>1, <1>2

\* A directory is found by one path.
LEMMA LookOnce ==
  ASSUME NEW l, Rooted(l), NEW p \in Path, NEW q \in Path,
         LookupDir(l, p) # NoDir, LookupDir(l, p) = LookupDir(l, q)
  PROVE  p = q
<1> DEFINE Same(u) == \A r \in Path : LookupDir(l, u) # NoDir /\ LookupDir(l, u) = LookupDir(l, r) => u = r
           T == {u \in Path : Same(u)}
<1>1. <<>> \in T
  <2>1. ASSUME NEW r \in Path, LookupDir(l, <<>>) = LookupDir(l, r) PROVE <<>> = r
    <3>1. LookupDir(l, r) = Root /\ Root # NoDir
      BY <2>1, LookRoot, RootedParts
    <3>2. QED BY <3>1, LookFound
  <2>2. QED BY <2>1, PathEmpty
<1>2. ASSUME NEW v \in Path, NEW x \in Name, v \in T PROVE Append(v, x) \in T
  <2> DEFINE u == Append(v, x)
  <2>1. u \in Path /\ u # <<>> /\ Front(u) = v /\ Last(u) = x
    BY PathAppend
  <2> HIDE DEF u
  <2>2. ASSUME NEW r \in Path, LookupDir(l, u) # NoDir, LookupDir(l, u) = LookupDir(l, r) PROVE u = r
    <3> DEFINE c == LookupDir(l, u)
    <3>1. c # Root /\ l.dirs[c].name = x /\ l.dirs[c].parent = LookupDir(l, v) /\ LookupDir(l, v) # NoDir
      BY <2>1, <2>2, LookFound
    <3>2. c = LookupDir(l, r)
      BY <2>2
    <3> HIDE DEF c
    <3>3. r # <<>>
      BY <3>1, <3>2, LookRoot
    <3>4. /\ l.dirs[c].name = Last(r) /\ l.dirs[c].parent = LookupDir(l, Front(r))
      <4>1. LookupDir(l, r) # NoDir
        BY <2>2
      <4>2. QED BY <3>2, <3>3, <4>1, LookFound
    <3>5. Front(r) \in Path /\ r = Append(Front(r), Last(r))
      BY <3>3, PathEnds
    <3>6. v = Front(r)
      BY <1>2, <3>1, <3>4, <3>5
    <3>7. QED BY <3>1, <3>4, <3>5, <3>6 DEF u
  <2>3. QED BY <2>1, <2>2 DEF u
<1>3. \A u \in Path : u \in T
  <2> HIDE DEF T
  <2>1. QED BY <1>1, <1>2, PathInduction
<1>4. QED BY <1>3

\* All directories on the way to one that is found are found.
LEMMA LookPrefix ==
  ASSUME NEW l, Rooted(l), NEW p \in Path, LookupDir(l, p) # NoDir, NEW u \in Path, IsPrefix(u, p)
  PROVE  LookupDir(l, u) # NoDir
<1> DEFINE T == {q \in Path : LookupDir(l, q) # NoDir => \A w \in Path : IsPrefix(w, q) => LookupDir(l, w) # NoDir}
<1>1. <<>> \in T
  <2>1. ASSUME NEW w \in Path, IsPrefix(w, <<>>) PROVE w = <<>>
    BY <2>1, PathEmpty, PrefixBoth
  <2>2. QED BY <2>1, PathEmpty
<1>2. ASSUME NEW v \in Path, NEW x \in Name, v \in T PROVE Append(v, x) \in T
  <2> DEFINE q == Append(v, x)
  <2>1. q \in Path /\ q # <<>> /\ Front(q) = v
    BY PathAppend
  <2>2. \A w \in Path : IsPrefix(w, q) <=> w = q \/ IsPrefix(w, v)
    BY PrefixStep
  <2> HIDE DEF q
  <2>3. LookupDir(l, q) # NoDir => LookupDir(l, v) # NoDir
    BY <2>1, LookFound
  <2>4. q \in T
    BY <1>2, <2>1, <2>2, <2>3
  <2>5. QED BY <2>4 DEF q
<1>3. \A q \in Path : q \in T
  <2> HIDE DEF T
  <2>1. QED BY <1>1, <1>2, PathInduction
<1>4. QED BY <1>3

\* A lookup depends on the children that it passes.
LEMMA LookSame ==
  ASSUME NEW l, Rooted(l), NEW m, Rooted(m), NEW p \in Path,
         \A u \in Path : \A x \in Name :
           IsPrefix(Append(u, x), p) /\ LookupDir(l, u) # NoDir
           => Named(m, LookupDir(l, u), x) = Named(l, LookupDir(l, u), x)
  PROVE  LookupDir(m, p) = LookupDir(l, p)
<1> DEFINE T == {q \in Path : IsPrefix(q, p) => LookupDir(m, q) = LookupDir(l, q)}
<1>1. <<>> \in T
  BY LookRoot, PathEmpty
<1>2. ASSUME NEW v \in Path, NEW x \in Name, v \in T PROVE Append(v, x) \in T
  <2> DEFINE q == Append(v, x)   d == LookupDir(l, v)
  <2>1. q \in Path
    BY PathAppend
  <2>2. LookupDir(l, q) = Step(l, d, x) /\ LookupDir(m, q) = Step(m, LookupDir(m, v), x)
    BY LookStep
  <2>3. ASSUME IsPrefix(q, p) PROVE LookupDir(m, q) = LookupDir(l, q)
    <3>1. IsPrefix(v, q)
      BY PrefixStep, PrefixSelf
    <3>2. IsPrefix(v, p)
      BY <2>1, <2>3, <3>1, PrefixFurther
    <3>3. LookupDir(m, v) = d
      BY <1>2, <3>2
    <3>4. d # NoDir => Named(m, d, x) = Named(l, d, x)
      BY <2>3
    <3>5. Step(m, d, x) = Step(l, d, x)
      <4> HIDE DEF d, q, T
      <4>1. CASE d = NoDir
        BY <4>1 DEF Step
      <4>2. CASE d # NoDir
        <5>1. Named(m, d, x) = Named(l, d, x)
          BY <3>4, <4>2
        <5>2. FirstNamed(m, d, x) = FirstNamed(l, d, x)
          BY <5>1 DEF FirstNamed
        <5>3. QED BY <5>1, <5>2 DEF Step
      <4>3. QED BY <4>1, <4>2
    <3>6. QED BY <2>2, <3>3, <3>5
  <2>4. QED BY <2>1, <2>3
<1>3. \A q \in Path : q \in T
  <2> HIDE DEF T
  <2>1. QED BY <1>1, <1>2, PathInduction
<1>4. QED BY <1>3, PrefixSelf

\* A file that is found is in a directory that is found.
LEMMA FileFound ==
  ASSUME NEW l, InRange(l), Rooted(l), NEW p, FileIn(l, p)
  PROVE  LookupDir(l, Front(p)) # NoDir
<1>1. PICK f \in FilesInDir(l, LookupDir(l, Front(p))) : TRUE
  BY DEF FileIn
<1>2. f \in DOMAIN l.files /\ l.files[f].parent = LookupDir(l, Front(p))
  BY DEF FilesInDir, AliveFiles
<1>3. l.files[f].parent \in DOMAIN l.dirs
  BY <1>2 DEF InRange
<1>4. QED BY <1>2, <1>3, RootedParts
-----------------------------------------------------------------------------
(* What a removal leaves to be found.                                      *)

\* A path passes through one of these directories.
Hit(l, from, p) == \E u \in Path : IsPrefix(u, p) /\ LookupDir(l, u) \in from

\* What a path passes through, longer paths pass through.
LEMMA HitFurther ==
  ASSUME NEW l, NEW from, NEW u \in Path, NEW p \in Path, IsPrefix(u, p), Hit(l, from, u)
  PROVE  Hit(l, from, p)
BY PrefixFurther DEF Hit

\* The levels of a traversal.
LEMMA BelowLevels ==
  ASSUME NEW l, l.dirs \in Seq(Entry), NEW from
  PROVE  \E f \in [0 .. Len(l.dirs) -> SUBSET DOMAIN l.dirs] :
           /\ f[0] = from \cap DOMAIN l.dirs
           /\ \A i \in 1 .. Len(l.dirs) : f[i] = UNION {ChildDirs(l, d) : d \in f[i-1]}
           /\ Below(l, from) = UNION {f[i] : i \in 0 .. Len(l.dirs)}
<1> DEFINE N == Len(l.dirs)
           level[i \in 0 .. Len(l.dirs)] == IF i = 0 THEN from \cap DOMAIN l.dirs
                                            ELSE UNION {ChildDirs(l, d) : d \in level[i-1]}
           S == SUBSET DOMAIN l.dirs
           A == from \cap DOMAIN l.dirs
           G == [i \in 0 .. N |-> [X \in S |-> UNION {ChildDirs(l, d) : d \in X}]]
<1>1. N \in Nat
  BY LenProperties
<1>2. \A d : ChildDirs(l, d) \subseteq DOMAIN l.dirs
  BY DEF ChildDirs, AliveDirs
<1>3. G \in [0 .. N -> [S -> S]] /\ A \in S
  BY <1>2
<1>4. PICK f \in [0 .. N -> S] : \A i \in 0 .. N : f[i] = IF i = 0 THEN A ELSE G[i][f[i-1]]
  <2> HIDE DEF G, S, N, A
  <2>1. Stepwise(N, S, A, G)
    BY <1>1, <1>3, StepwiseExists
  <2>2. QED BY <2>1 DEF Stepwise
<1>5. f = [i \in 0 .. N |-> IF i = 0 THEN A ELSE UNION {ChildDirs(l, d) : d \in f[i-1]}]
  <2>1. \A i \in 0 .. N : i # 0 => i - 1 \in 0 .. N
    BY <1>1
  <2>2. \A i \in 0 .. N : i # 0 => G[i][f[i-1]] = UNION {ChildDirs(l, d) : d \in f[i-1]}
    BY <1>4, <2>1
  <2> HIDE DEF G, S, N, A
  <2>3. QED BY <1>4, <2>2
<1>6. level = [i \in 0 .. N |-> IF i = 0 THEN A ELSE UNION {ChildDirs(l, d) : d \in level[i-1]}]
  BY <1>5
<1> HIDE DEF level
<1>7. Below(l, from) = DOMAIN l.dirs \cap UNION {level[i] : i \in 0 .. N}
  BY DEF Below, level
<1>8. level[0] = A
  BY <1>1, <1>6
<1>9. ASSUME NEW i \in 1 .. N PROVE level[i] = UNION {ChildDirs(l, d) : d \in level[i-1]}
  <2>1. i \in 0 .. N /\ i # 0
    BY <1>1
  <2> HIDE DEF N
  <2>2. QED BY <1>6, <2>1
<1>10. \A i \in 0 .. N : level[i] \in S
  <2>1. \A i \in 0 .. N : i = 0 \/ i \in 1 .. N
    BY <1>1
  <2> HIDE DEF N
  <2>2. QED BY <1>2, <1>8, <1>9, <2>1
<1>11. level \in [0 .. N -> S]
  BY <1>6, <1>10
<1>12. Below(l, from) = UNION {level[i] : i \in 0 .. N}
  BY <1>7, <1>10
<1>13. QED BY <1>8, <1>9, <1>11, <1>12

\* What is found below some directories is found by way of them.
LEMMA BelowReached ==
  ASSUME NEW l, Rooted(l), NEW from, NEW p \in Path, LookupDir(l, p) \in Below(l, from)
  PROVE  Hit(l, from, p)
<1> DEFINE N == Len(l.dirs)
<1>1. N \in Nat /\ l.dirs \in Seq(Entry)
  BY RootedParts, LenProperties
<1>2. PICK f \in [0 .. N -> SUBSET DOMAIN l.dirs] :
        /\ f[0] = from \cap DOMAIN l.dirs
        /\ \A i \in 1 .. N : f[i] = UNION {ChildDirs(l, d) : d \in f[i-1]}
        /\ Below(l, from) = UNION {f[i] : i \in 0 .. N}
  BY <1>1, BelowLevels
<1> DEFINE T == {i \in 0 .. N : \A q \in Path : LookupDir(l, q) \in f[i] => Hit(l, from, q)}
<1>3. 0 \in T
  <2>1. \A q \in Path : LookupDir(l, q) \in f[0] => Hit(l, from, q)
    BY <1>2, PrefixSelf DEF Hit
  <2>2. QED BY <1>1, <2>1
<1>4. ASSUME NEW i \in 0 .. N - 1, i \in T PROVE i + 1 \in T
  <2>1. i + 1 \in 1 .. N /\ i + 1 \in 0 .. N /\ (i + 1) - 1 = i /\ i \in 0 .. N
    BY <1>1
  <2>2. f[i + 1] = UNION {ChildDirs(l, d) : d \in f[i]}
    <3>1. f[i + 1] = UNION {ChildDirs(l, d) : d \in f[(i + 1) - 1]}
      BY <1>2, <2>1
    <3>2. QED BY <2>1, <3>1
  <2>3. ASSUME NEW q \in Path, LookupDir(l, q) \in f[i + 1] PROVE Hit(l, from, q)
    <3> DEFINE c == LookupDir(l, q)
    <3>1. PICK d \in f[i] : c \in ChildDirs(l, d)
      BY <2>2, <2>3
    <3>2. d \in DOMAIN l.dirs /\ l.dirs[c].parent = d /\ c \in DOMAIN l.dirs
      BY <1>2, <2>1, <3>1 DEF ChildDirs, AliveDirs
    <3>3. d # NoDir /\ c # NoDir /\ c # Root
      BY <3>2, RootedParts
    <3>4. q # <<>>
      BY <3>3, LookRoot
    <3>5. LookupDir(l, Front(q)) = d /\ Front(q) \in Path /\ IsPrefix(Front(q), q)
      <4>1. Front(q) \in Path /\ Last(q) \in Name /\ q = Append(Front(q), Last(q))
        BY <3>4, PathEnds
      <4>2. l.dirs[c].parent = LookupDir(l, Front(q))
        BY <3>3, <3>4, LookFound
      <4>3. IsPrefix(Front(q), q)
        BY <4>1, PrefixStep, PrefixSelf
      <4>4. QED BY <3>2, <4>1, <4>2, <4>3
    <3>6. Hit(l, from, Front(q))
      BY <1>4, <3>5
    <3>7. QED BY <3>5, <3>6, HitFurther
  <2>4. QED BY <2>1, <2>3
<1>5. \A i \in 0 .. N : i \in T
  <2> HIDE DEF T, N
  <2>1. QED BY <1>1, <1>3, <1>4, UpTo
<1>6. QED BY <1>2, <1>5

\* A removal of directories takes away what is found by way of them, and
\* leaves everything else where it is.
LEMMA RemoveLooks ==
  ASSUME NEW l, InRange(l), Rooted(l), SiblingsApart(l), NEW from, from \subseteq DOMAIN l.dirs \ {Root}
  PROVE  LET m == RemoveSubtrees(l, from)
         IN  /\ Rooted(m) /\ m.dirs = l.dirs /\ m.files = l.files
             /\ \A p \in Path : LookupDir(m, p) = IF Hit(l, from, p) THEN NoDir ELSE LookupDir(l, p)
             /\ \A p \in Path : LookupDir(m, p) # NoDir
                  => FilesInDir(m, LookupDir(m, p)) = FilesInDir(l, LookupDir(m, p))
<1> DEFINE m == RemoveSubtrees(l, from)
           gone == Below(l, from)
           files == {f \in AliveFiles(l) : l.files[f].parent \in gone}
<1>1. /\ m = [l EXCEPT !.deadDirs = l.deadDirs \cup gone, !.deadFiles = l.deadFiles \cup files]
      /\ gone \subseteq DOMAIN l.dirs /\ files \subseteq DOMAIN l.files
  BY DEF RemoveSubtrees, Kill, Below, AliveFiles
<1>2. l \in Snapshot /\ InRange(m)
  BY RemoveSafe DEF InRange
<1>3. /\ m.dirs = l.dirs /\ m.files = l.files
      /\ m.deadDirs = l.deadDirs \cup gone /\ m.deadFiles = l.deadFiles \cup files
  <2> HIDE DEF gone, files, m
  <2>1. QED BY <1>1, <1>2 DEF Snapshot
<1>4. Rooted(m)
  BY <1>2, <1>3 DEF Rooted, InRange
<1>5. from \subseteq gone
  <2>1. from \cap DOMAIN l.dirs \subseteq Below(l, from)
    BY RootedParts, BelowStart
  <2>2. QED BY <2>1
<1> HIDE DEF m, gone, files
<1>6. \A d, x : Named(m, d, x) = Named(l, d, x) \ gone
  BY <1>3 DEF Named, ChildDirs, AliveDirs
<1>7. SiblingsApart(m)
  BY RemoveApart DEF m
<1>8. ASSUME NEW p \in Path, Hit(l, from, p) PROVE LookupDir(m, p) = NoDir
  <2>1. PICK u \in Path : IsPrefix(u, p) /\ LookupDir(l, u) \in from
    BY <1>8 DEF Hit
  <2>2. LookupDir(l, u) \in gone /\ LookupDir(l, u) # Root /\ LookupDir(l, u) # NoDir
    BY <1>5, <2>1, RootedParts
  <2>3. u # <<>>
    BY <2>2, LookRoot
  <2>5. ASSUME NEW q \in Path, LookupDir(m, q) # NoDir PROVE LookupDir(m, q) = LookupDir(l, q)
    <3> DEFINE U == {r \in Path : LookupDir(m, r) # NoDir => LookupDir(m, r) = LookupDir(l, r)}
    <3>1. <<>> \in U
      BY <1>4, LookRoot, PathEmpty
    <3>2. ASSUME NEW v \in Path, NEW x \in Name, v \in U PROVE Append(v, x) \in U
      <4> DEFINE r == Append(v, x)   d == LookupDir(m, v)   c == Step(m, d, x)
      <4>1. r \in Path /\ LookupDir(m, r) = c /\ LookupDir(l, r) = Step(l, LookupDir(l, v), x)
        BY <1>4, PathAppend, LookStep
      <4>2. ASSUME c # NoDir PROVE c = LookupDir(l, r)
        <5> HIDE DEF r
        <5>1. d # NoDir /\ c \in Named(m, d, x)
          <6> HIDE DEF d
          <6>1. QED BY <1>4, <4>2, StepFinds
        <5>2. d = LookupDir(l, v)
          BY <3>2, <5>1
        <5>3. c \in Named(l, d, x)
          BY <1>6, <5>1
        <5> HIDE DEF d, c
        <5>4. Step(l, d, x) = c
          BY <5>1, <5>3, StepOnly
        <5>5. QED BY <4>1, <5>2, <5>4
      <4>3. QED BY <4>1, <4>2
    <3>3. \A r \in Path : r \in U
      <4> HIDE DEF U
      <4>1. QED BY <3>1, <3>2, PathInduction
    <3>4. QED BY <2>5, <3>3
  <2>6. LookupDir(m, u) = NoDir
    <3> DEFINE c == LookupDir(m, u)
    <3>1. SUFFICES ASSUME c # NoDir PROVE FALSE
      OBVIOUS
    <3>2. c = LookupDir(l, u)
      BY <2>5, <3>1
    <3>3. c \in AliveDirs(m)
      BY <1>4, <2>3, <3>1, LookFound
    <3>4. QED BY <1>3, <2>2, <3>2, <3>3 DEF AliveDirs
  <2>7. QED BY <1>4, <2>1, <2>6, LookPrefix
<1>9. ASSUME NEW p \in Path, ~Hit(l, from, p) PROVE LookupDir(m, p) = LookupDir(l, p)
  <2>1. ASSUME NEW u \in Path, NEW x \in Name, IsPrefix(Append(u, x), p), LookupDir(l, u) # NoDir
        PROVE  Named(m, LookupDir(l, u), x) = Named(l, LookupDir(l, u), x)
    <3> DEFINE q == Append(u, x)   d == LookupDir(l, u)
    <3>1. q \in Path /\ LookupDir(l, q) = Step(l, d, x)
      BY PathAppend, LookStep
    <3>2. ASSUME NEW c \in Named(l, d, x), c \in gone PROVE FALSE
      <4>1. Step(l, d, x) = c
        <5> HIDE DEF d
        <5>1. d # NoDir
          BY <2>1 DEF d
        <5>2. QED BY <5>1, <3>2, StepOnly
      <4>2. LookupDir(l, q) \in Below(l, from)
        BY <3>1, <3>2, <4>1 DEF gone
      <4>3. Hit(l, from, q) /\ IsPrefix(q, p)
        <5> HIDE DEF q
        <5>1. Hit(l, from, q)
          BY <3>1, <4>2, BelowReached
        <5>2. QED BY <2>1, <5>1 DEF q
      <4>4. QED BY <1>9, <3>1, <4>3, HitFurther
    <3>3. QED BY <1>6, <3>2
  <2>2. QED BY <1>4, <2>1, LookSame
<1>10. ASSUME NEW p \in Path, LookupDir(m, p) # NoDir
       PROVE  FilesInDir(m, LookupDir(m, p)) = FilesInDir(l, LookupDir(m, p))
  <2> DEFINE d == LookupDir(m, p)
  <2>1. ~Hit(l, from, p)
    BY <1>8, <1>10
  <2>2. d = LookupDir(l, p)
    BY <1>9, <2>1
  <2>3. d \notin gone
    BY <2>1, <2>2, BelowReached DEF gone
  <2>4. AliveFiles(m) = AliveFiles(l) \ files
    BY <1>3 DEF AliveFiles
  <2> HIDE DEF d
  <2>5. FilesInDir(m, d) = FilesInDir(l, d)
    BY <1>3, <2>3, <2>4 DEF FilesInDir, files
  <2>6. QED BY <2>5 DEF d
<1>11. QED BY <1>3, <1>4, <1>8, <1>9, <1>10 DEF m
-----------------------------------------------------------------------------
(* What a listing leaves to be found.                                      *)

FilesNamed(l, d) == NamesOf(l.files, FilesInDir(l, d))

\* A file is found when its directory has one of its name.
LEMMA FileInNamed ==
  ASSUME NEW l, NEW p
  PROVE  FileIn(l, p) <=> Last(p) \in FilesNamed(l, LookupDir(l, Front(p)))
BY DEF FileIn, FilesNamed, NamesOf

\* Lookups of directories do not depend on the files.
LEMMA LookSameDirs ==
  ASSUME NEW l, Rooted(l), NEW m, m \in Snapshot, m.dirs = l.dirs, m.deadDirs = l.deadDirs
  PROVE  Rooted(m) /\ (\A p \in Path : LookupDir(m, p) = LookupDir(l, p))
         /\ \A d : ChildDirs(m, d) = ChildDirs(l, d)
<1>1. Rooted(m)
  BY DEF Rooted
<1>2. \A d : ChildDirs(m, d) = ChildDirs(l, d)
  BY DEF ChildDirs, AliveDirs
<1>3. \A d, x : Named(m, d, x) = Named(l, d, x)
  BY <1>2 DEF Named
<1>4. \A p \in Path : LookupDir(m, p) = LookupDir(l, p)
  BY <1>1, <1>3, LookSame
<1>5. QED BY <1>1, <1>2, <1>4

\* apply_listing's files: those listed in the directory, all others as before.
Relisted(l, d, e) ==
  Kill(PushFiles(l, d, e.files \ NamesOf(l.files, FilesInDir(l, d))), {},
       {f \in FilesInDir(l, d) : l.files[f].name \notin e.files})

\* A relisted directory has the files listed, all others those they had.
LEMMA RelistedFiles ==
  ASSUME NEW l, InRange(l), SiblingsApart(l), NEW d \in DOMAIN l.dirs, NEW e \in Listing
  PROVE  LET m == Relisted(l, d, e)
         IN  /\ InRange(m) /\ SiblingsApart(m) /\ m.dirs = l.dirs /\ m.deadDirs = l.deadDirs
             /\ FilesNamed(m, d) = e.files
             /\ \A b : b # d => FilesNamed(m, b) = FilesNamed(l, b)
<1> DEFINE files == FilesInDir(l, d)
           stale == {f \in files : l.files[f].name \notin e.files}
           names == e.files \ NamesOf(l.files, files)
           none  == {}
           n     == Cardinality(names)
           N     == Len(l.files)
           more  == [i \in 1 .. n |-> [name |-> SetToSeq(names)[i], parent |-> d]]
           added == PushFiles(l, d, names)
           m     == Relisted(l, d, e)
<1>1. /\ l \in Snapshot /\ l.files \in Seq(Entry) /\ N \in Nat /\ DOMAIN l.files = 1 .. N
      /\ l.deadFiles \subseteq DOMAIN l.files /\ d \in Nat
  BY LenProperties DEF InRange, Snapshot
<1>2. /\ IsFiniteSet(names) /\ names \subseteq Name /\ names \subseteq Name \ NamesOf(l.files, FilesInDir(l, d))
      /\ stale \subseteq DOMAIN l.files /\ none \subseteq DOMAIN l.dirs
  <2>1. e.files \subseteq Name
    BY DEF Listing
  <2>2. IsFiniteSet(names) /\ names \subseteq Name
    BY <2>1, NameAssumption, FS_Subset
  <2>3. QED BY <2>1, <2>2 DEF FilesInDir, AliveFiles
<1>3. /\ n \in Nat /\ SetToSeq(names) \in [1 .. n -> names]
      /\ \A x \in names : \E i \in 1 .. n : SetToSeq(names)[i] = x
  <2> HIDE DEF names
  <2>1. n \in Nat /\ SetToSeq(names) \in [1 .. n -> names]
    BY <1>2, ListOfSet
  <2>2. \A x \in names : \E i \in 1 .. n : SetToSeq(names)[i] = x
    BY <1>2, ListedAll
  <2>3. QED BY <2>1, <2>2
<1>4. InRange(added) /\ added.dirs = l.dirs /\ SiblingsApart(added) /\ DOMAIN l.files \subseteq DOMAIN added.files
  <2> HIDE DEF names
  <2>1. QED BY <1>2, PushSafe, PushApart
<1>5. added.files = l.files \o more /\ added.deadFiles = l.deadFiles /\ added.deadDirs = l.deadDirs
  BY <1>1 DEF PushFiles, Snapshot
<1>6. m = Kill(added, none, stale)
  BY DEF Relisted
<1>7. more \in [1 .. n -> Entry]
  <2> HIDE DEF names, n
  <2>1. QED BY <1>1, <1>2, <1>3 DEF Entry
<1> HIDE DEF added, none, more, names, n
<1>8. InRange(m) /\ SiblingsApart(m) /\ m.dirs = added.dirs
  <2>1. stale \subseteq DOMAIN added.files /\ none \subseteq DOMAIN added.dirs
    BY <1>2, <1>4
  <2> HIDE DEF stale, m
  <2>2. QED BY <1>4, <1>6, <2>1, KillSafe, KillApart
<1>9. m.files = added.files /\ m.deadFiles = added.deadFiles \cup stale /\ m.deadDirs = added.deadDirs
  <2>1. added \in Snapshot
    BY <1>4 DEF InRange
  <2> HIDE DEF stale, m
  <2>2. m.files = added.files /\ m.deadFiles = added.deadFiles \cup stale /\ m.deadDirs = added.deadDirs \cup none
    BY <1>6, <2>1 DEF Kill, Snapshot
  <2>3. none = {}
    BY DEF none
  <2>4. QED BY <2>2, <2>3
<1>10. /\ DOMAIN m.files = 1 .. N + n
       /\ \A i \in 1 .. N : m.files[i] = l.files[i]
       /\ \A i \in 1 .. n : m.files[N + i] = more[i]
  <2>1. m.files = l.files \o more
    BY <1>5, <1>9
  <2> HIDE DEF m
  <2>2. QED BY <1>1, <1>3, <1>7, <2>1, Appended
<1>11. m.deadFiles = l.deadFiles \cup stale
  BY <1>5, <1>9
<1> HIDE DEF m
<1>12. \A i \in 1 .. n : more[i].name \in names /\ more[i].parent = d
  BY <1>3 DEF more
<1>13. \A f : f \in AliveFiles(m) <=> \/ f \in AliveFiles(l) /\ f \notin stale
                                      \/ \E i \in 1 .. n : f = N + i
  <2>1. ASSUME NEW f \in AliveFiles(m) PROVE \/ f \in AliveFiles(l) /\ f \notin stale
                                             \/ \E i \in 1 .. n : f = N + i
    <3>1. f \in 1 .. N + n /\ f \notin l.deadFiles /\ f \notin stale
      BY <1>10, <1>11 DEF AliveFiles
    <3>2. f \in 1 .. N \/ (f - N \in 1 .. n /\ f = N + (f - N))
      BY <1>1, <1>3, <3>1
    <3>3. QED BY <1>1, <3>1, <3>2 DEF AliveFiles
  <2>2. ASSUME NEW f \in AliveFiles(l), f \notin stale PROVE f \in AliveFiles(m)
    <3>1. f \in 1 .. N /\ f \notin l.deadFiles
      BY <1>1 DEF AliveFiles
    <3>2. f \in 1 .. N + n
      BY <1>1, <1>3, <3>1
    <3>3. QED BY <1>10, <1>11, <2>2, <3>1, <3>2 DEF AliveFiles
  <2>3. ASSUME NEW i \in 1 .. n PROVE N + i \in AliveFiles(m)
    <3>1. N + i \in 1 .. N + n /\ N + i \notin 1 .. N
      BY <1>1, <1>3
    <3>2. N + i \notin l.deadFiles /\ N + i \notin stale
      BY <1>1, <1>2, <3>1
    <3>3. QED BY <1>10, <1>11, <3>1, <3>2 DEF AliveFiles
  <2>4. QED BY <2>1, <2>2, <2>3
<1>14. ASSUME NEW b, NEW x
       PROVE  x \in FilesNamed(m, b) <=> \/ \E f \in FilesInDir(l, b) : f \notin stale /\ l.files[f].name = x
                                         \/ b = d /\ x \in names
  <2>1. ASSUME NEW f \in AliveFiles(m), m.files[f].parent = b, m.files[f].name = x
        PROVE  \/ \E g \in FilesInDir(l, b) : g \notin stale /\ l.files[g].name = x
               \/ b = d /\ x \in names
    <3>1. CASE f \in AliveFiles(l) /\ f \notin stale
      <4>1. m.files[f] = l.files[f]
        BY <1>1, <1>10, <3>1 DEF AliveFiles
      <4>2. QED BY <2>1, <3>1, <4>1 DEF FilesInDir
    <3>2. CASE \E i \in 1 .. n : f = N + i
      <4>1. PICK i \in 1 .. n : f = N + i
        BY <3>2
      <4>2. m.files[f] = more[i]
        BY <1>10, <4>1
      <4>3. QED BY <1>12, <2>1, <4>2
    <3>3. QED BY <1>13, <3>1, <3>2
  <2>2. ASSUME NEW f \in FilesInDir(l, b), f \notin stale, l.files[f].name = x PROVE x \in FilesNamed(m, b)
    <3>1. f \in AliveFiles(l) /\ l.files[f].parent = b
      BY DEF FilesInDir
    <3>2. f \in AliveFiles(m) /\ m.files[f] = l.files[f]
      BY <1>1, <1>10, <1>13, <2>2, <3>1 DEF AliveFiles
    <3>3. f \in FilesInDir(m, b)
      BY <3>1, <3>2 DEF FilesInDir
    <3>4. QED BY <2>2, <3>2, <3>3 DEF FilesNamed, NamesOf
  <2>3. ASSUME b = d, x \in names PROVE x \in FilesNamed(m, b)
    <3>1. PICK i \in 1 .. n : SetToSeq(names)[i] = x
      BY <1>3, <2>3
    <3>2. m.files[N + i] = more[i] /\ more[i].name = x /\ more[i].parent = d
      BY <1>10, <3>1 DEF more
    <3>3. N + i \in AliveFiles(m)
      BY <1>13
    <3>4. N + i \in FilesInDir(m, b)
      BY <2>3, <3>2, <3>3 DEF FilesInDir
    <3>5. QED BY <3>2, <3>4 DEF FilesNamed, NamesOf
  <2>4. ASSUME x \in FilesNamed(m, b) PROVE \E f \in AliveFiles(m) : m.files[f].parent = b /\ m.files[f].name = x
    BY <2>4 DEF FilesNamed, NamesOf, FilesInDir
  <2>5. QED BY <2>1, <2>2, <2>3, <2>4
<1>15. FilesNamed(m, d) = e.files
  <2>1. ASSUME NEW x PROVE x \in FilesNamed(m, d) <=> x \in e.files
    <3>1. x \in names <=> x \in e.files /\ \A f \in FilesInDir(l, d) : l.files[f].name # x
      BY DEF names, NamesOf
    <3>2. \A f \in FilesInDir(l, d) : f \notin stale <=> l.files[f].name \in e.files
      OBVIOUS
    <3>3. QED BY <1>14, <3>1, <3>2
  <2>2. QED BY <2>1
<1>16. ASSUME NEW b, b # d PROVE FilesNamed(m, b) = FilesNamed(l, b)
  <2>1. \A f \in FilesInDir(l, b) : f \notin stale
    BY <1>16 DEF FilesInDir
  <2>2. \A x : x \in FilesNamed(l, b) <=> \E f \in FilesInDir(l, b) : l.files[f].name = x
    BY DEF FilesNamed, NamesOf
  <2>3. \A x : x \in FilesNamed(m, b) <=> x \in FilesNamed(l, b)
    BY <1>14, <1>16, <2>1, <2>2
  <2>4. QED BY <2>3
<1>17. QED BY <1>4, <1>5, <1>8, <1>9, <1>15, <1>16 DEF m
\* Nobody who looks paths up finds a difference.
SameLooks(l, m) ==
  \A p \in Path : /\ LookupDir(m, p) = LookupDir(l, p)
                  /\ p # <<>> => (FileIn(m, p) <=> FileIn(l, p))

Unreached(l, d) == \A q \in Path : LookupDir(l, q) # d

\* After a removal, a file is found where its directory is.
LEMMA RemoveFiles ==
  ASSUME NEW l, InRange(l), Rooted(l), SiblingsApart(l), NEW from, from \subseteq DOMAIN l.dirs \ {Root},
         NEW p \in Path, p # <<>>
  PROVE  FileIn(RemoveSubtrees(l, from), p) <=> FileIn(l, p) /\ ~Hit(l, from, Front(p))
<1> DEFINE m == RemoveSubtrees(l, from)   v == Front(p)
<1>1. /\ Rooted(m) /\ m.files = l.files
      /\ \A q \in Path : LookupDir(m, q) = IF Hit(l, from, q) THEN NoDir ELSE LookupDir(l, q)
      /\ \A q \in Path : LookupDir(m, q) # NoDir
           => FilesInDir(m, LookupDir(m, q)) = FilesInDir(l, LookupDir(m, q))
  BY RemoveLooks
<1>2. InRange(m)
  BY RemoveSafe
<1>3. v \in Path
  BY PathEnds
<1> HIDE DEF m, v
<1>4. FileIn(m, p) => LookupDir(m, v) # NoDir
  BY <1>1, <1>2, FileFound DEF v
<1>5. FileIn(l, p) => LookupDir(l, v) # NoDir
  BY FileFound DEF v
<1>6. ASSUME ~Hit(l, from, v), LookupDir(l, v) # NoDir PROVE FileIn(m, p) <=> FileIn(l, p)
  <2>1. LookupDir(m, v) = LookupDir(l, v) /\ FilesInDir(m, LookupDir(m, v)) = FilesInDir(l, LookupDir(l, v))
    BY <1>1, <1>3, <1>6
  <2>2. QED BY <1>1, <2>1 DEF FileIn, v
<1>7. Hit(l, from, v) => LookupDir(m, v) = NoDir
  BY <1>1, <1>3
<1>8. ~Hit(l, from, v) => LookupDir(m, v) = LookupDir(l, v)
  BY <1>1, <1>3
<1>9. QED BY <1>4, <1>5, <1>6, <1>7, <1>8 DEF m, v

\* Removing directories that no path leads to changes nothing that is found.
LEMMA RemoveUnreached ==
  ASSUME NEW l, InRange(l), Rooted(l), SiblingsApart(l), NEW from, from \subseteq DOMAIN l.dirs \ {Root},
         \A p \in Path : ~Hit(l, from, p)
  PROVE  Rooted(RemoveSubtrees(l, from)) /\ SameLooks(l, RemoveSubtrees(l, from))
<1> DEFINE m == RemoveSubtrees(l, from)
<1>1. Rooted(m) /\ \A p \in Path : LookupDir(m, p) = LookupDir(l, p)
  BY RemoveLooks
<1>2. ASSUME NEW p \in Path, p # <<>> PROVE FileIn(m, p) <=> FileIn(l, p)
  <2>1. Front(p) \in Path
    BY <1>2, PathEnds
  <2>2. QED BY <1>2, <2>1, RemoveFiles
<1>3. QED BY <1>1, <1>2 DEF SameLooks

\* apply_listing in two steps.
GoneDirs(l, d, e) == {c \in ChildDirs(l, d) : l.dirs[c].name \notin e.dirs}

\* apply_listing relists the files, then removes the directories not listed.
LEMMA ApplyIs ==
  ASSUME NEW l, InRange(l), Rooted(l), SiblingsApart(l), NEW d \in DOMAIN l.dirs, NEW e \in Listing, e.exists
  PROVE  LET m == Relisted(l, d, e)
         IN  /\ ApplyListing(l, d, e) = RemoveSubtrees(m, GoneDirs(l, d, e))
             /\ InRange(m) /\ Rooted(m) /\ SiblingsApart(m) /\ m.dirs = l.dirs
             /\ GoneDirs(l, d, e) \subseteq DOMAIN m.dirs \ {Root}
             /\ \A p \in Path : LookupDir(m, p) = LookupDir(l, p)
             /\ FilesNamed(m, d) = e.files
             /\ \A b : b # d => FilesNamed(m, b) = FilesNamed(l, b)
<1> DEFINE m == Relisted(l, d, e)   gone == GoneDirs(l, d, e)
<1>1. /\ InRange(m) /\ SiblingsApart(m) /\ m.dirs = l.dirs /\ m.deadDirs = l.deadDirs
      /\ FilesNamed(m, d) = e.files
      /\ \A b : b # d => FilesNamed(m, b) = FilesNamed(l, b)
  BY RelistedFiles
<1>2. ApplyListing(l, d, e) = RemoveSubtrees(m, gone)
  BY DEF ApplyListing, Relisted, GoneDirs
<1> HIDE DEF m
<1>3. Rooted(m) /\ \A p \in Path : LookupDir(m, p) = LookupDir(l, p)
  BY <1>1, LookSameDirs DEF InRange
<1>4. gone \subseteq DOMAIN m.dirs \ {Root}
  <2>1. \A c \in gone : c \in DOMAIN l.dirs /\ l.dirs[c].parent = d
    BY DEF GoneDirs, ChildDirs, AliveDirs
  <2>2. d # NoDir /\ l.dirs[Root].parent = NoDir
    BY RootedParts
  <2> HIDE DEF gone
  <2>3. QED BY <1>1, <2>1, <2>2
<1>5. QED BY <1>1, <1>2, <1>3, <1>4 DEF m

\* A listing of a directory that no path leads to changes nothing that is found.
LEMMA ApplyUnreached ==
  ASSUME NEW l, InRange(l), Rooted(l), SiblingsApart(l), NEW d \in DOMAIN l.dirs, Unreached(l, d),
         NEW e \in Listing
  PROVE  Rooted(ApplyListing(l, d, e)) /\ SameLooks(l, ApplyListing(l, d, e))
<1>1. d # Root
  BY LookRoot, PathEmpty DEF Unreached
<1>2. CASE ~e.exists
  <2> DEFINE from == {d}
  <2>1. from \subseteq DOMAIN l.dirs \ {Root} /\ \A p \in Path : ~Hit(l, from, p)
    BY <1>1 DEF Hit, Unreached
  <2>2. ApplyListing(l, d, e) = RemoveSubtrees(l, from)
    BY <1>1, <1>2 DEF ApplyListing, RemoveSubtree
  <2> HIDE DEF from
  <2>3. QED BY <2>1, <2>2, RemoveUnreached
<1>3. CASE e.exists
  <2> DEFINE m == Relisted(l, d, e)   gone == GoneDirs(l, d, e)   n == RemoveSubtrees(m, gone)
  <2>1. /\ ApplyListing(l, d, e) = n
        /\ InRange(m) /\ Rooted(m) /\ SiblingsApart(m) /\ m.dirs = l.dirs
        /\ gone \subseteq DOMAIN m.dirs \ {Root}
        /\ \A p \in Path : LookupDir(m, p) = LookupDir(l, p)
        /\ \A b : b # d => FilesNamed(m, b) = FilesNamed(l, b)
    BY <1>3, ApplyIs
  <2>2. \A c \in gone : l.dirs[c].parent = d
    BY DEF GoneDirs, ChildDirs
  <2> HIDE DEF m, gone
  <2>3. ASSUME NEW p \in Path, Hit(m, gone, p) PROVE FALSE
    <3>1. PICK u \in Path : LookupDir(m, u) \in gone
      BY <2>3 DEF Hit
    <3>2. LookupDir(m, u) # NoDir /\ LookupDir(m, u) # Root
      BY <2>1, <3>1, RootedParts
    <3>3. u # <<>>
      BY <2>1, <3>2, LookRoot
    <3>4. m.dirs[LookupDir(m, u)].parent = LookupDir(m, Front(u)) /\ Front(u) \in Path
      BY <2>1, <3>2, <3>3, LookFound, PathEnds
    <3>5. LookupDir(l, Front(u)) = d
      BY <2>1, <2>2, <3>1, <3>4
    <3>6. QED BY <3>4, <3>5 DEF Unreached
  <2>4. Rooted(n) /\ SameLooks(m, n)
    BY <2>1, <2>3, RemoveUnreached
  <2>5. SameLooks(l, m)
    <3>1. ASSUME NEW p \in Path, p # <<>> PROVE FileIn(m, p) <=> FileIn(l, p)
      <4>1. Front(p) \in Path
        BY <3>1, PathEnds
      <4>2. LookupDir(m, Front(p)) = LookupDir(l, Front(p)) /\ LookupDir(l, Front(p)) # d
        BY <2>1, <4>1 DEF Unreached
      <4>3. FilesNamed(m, LookupDir(m, Front(p))) = FilesNamed(l, LookupDir(l, Front(p)))
        BY <2>1, <4>2
      <4>4. QED BY <4>3, FileInNamed
    <3>2. QED BY <2>1, <3>1 DEF SameLooks
  <2>6. SameLooks(l, n)
    BY <2>4, <2>5 DEF SameLooks
  <2>7. QED BY <2>1, <2>4, <2>6
<1>4. QED BY <1>2, <1>3

\* A listing of the directory at v makes what is found in it what was listed,
\* less the directories that are new to it.
LEMMA ApplyLooks ==
  ASSUME NEW l, InRange(l), Rooted(l), SiblingsApart(l), NEW v \in Path, LookupDir(l, v) # NoDir,
         NEW e \in Listing, e.exists
  PROVE  LET m == ApplyListing(l, LookupDir(l, v), e)
         IN  /\ Rooted(m)
             /\ \A p \in Path : LookupDir(m, p) = IF \E x \in Name \ e.dirs : IsPrefix(Append(v, x), p)
                                                  THEN NoDir ELSE LookupDir(l, p)
             /\ \A p \in Path : p # <<>> /\ LookupDir(m, Front(p)) # NoDir
                  => (FileIn(m, p) <=> IF Front(p) = v THEN Last(p) \in e.files ELSE FileIn(l, p))
<1> DEFINE d == LookupDir(l, v)
           k == Relisted(l, d, e)
           gone == GoneDirs(l, d, e)
           m == RemoveSubtrees(k, gone)
<1>0. d \in DOMAIN l.dirs /\ d # NoDir
  BY LookFound
<1>1. /\ ApplyListing(l, d, e) = m
      /\ InRange(k) /\ Rooted(k) /\ SiblingsApart(k) /\ k.dirs = l.dirs
      /\ gone \subseteq DOMAIN k.dirs \ {Root}
      /\ \A p \in Path : LookupDir(k, p) = LookupDir(l, p)
      /\ FilesNamed(k, d) = e.files
      /\ \A b : b # d => FilesNamed(k, b) = FilesNamed(l, b)
  <2> HIDE DEF d
  <2>1. QED BY <1>0, ApplyIs
<1>d. d = LookupDir(l, v)
  OBVIOUS
<1> HIDE DEF d, k
<1>2. ASSUME NEW x \in Name PROVE LookupDir(l, Append(v, x)) = Step(l, d, x)
  BY LookStep DEF d
<1>3. ASSUME NEW p \in Path
      PROVE  Hit(k, gone, p) <=> \E x \in Name \ e.dirs : IsPrefix(Append(v, x), p) /\ LookupDir(l, Append(v, x)) # NoDir
  <2>1. ASSUME NEW u \in Path, IsPrefix(u, p), LookupDir(k, u) \in gone
        PROVE  \E x \in Name \ e.dirs : IsPrefix(Append(v, x), p) /\ LookupDir(l, Append(v, x)) # NoDir
    <3> DEFINE c == LookupDir(l, u)
    <3>1. c \in gone /\ c \in DOMAIN l.dirs \ {Root}
      BY <1>1, <2>1
    <3>2. l.dirs[c].parent = d /\ l.dirs[c].name \notin e.dirs
      BY <3>1 DEF GoneDirs, ChildDirs
    <3>3. c # NoDir /\ c # Root
      BY <3>1, RootedParts
    <3>4. u # <<>>
      BY <3>3, LookRoot
    <3>5. /\ Front(u) \in Path /\ Last(u) \in Name /\ u = Append(Front(u), Last(u))
          /\ l.dirs[c].parent = LookupDir(l, Front(u)) /\ l.dirs[c].name = Last(u)
      BY <3>3, <3>4, LookFound, PathEnds
    <3>6. Front(u) = v
      <4>1. LookupDir(l, Front(u)) = LookupDir(l, v) /\ LookupDir(l, v) # NoDir
        BY <3>2, <3>5 DEF d
      <4>2. QED BY <3>5, <4>1, LookOnce
    <3>7. QED BY <2>1, <3>2, <3>3, <3>5, <3>6
  <2>2. ASSUME NEW x \in Name \ e.dirs, IsPrefix(Append(v, x), p), LookupDir(l, Append(v, x)) # NoDir
        PROVE  Hit(k, gone, p)
    <3> DEFINE u == Append(v, x)   c == LookupDir(l, u)
    <3>1. u \in Path /\ u # <<>> /\ Front(u) = v /\ Last(u) = x
      BY PathAppend
    <3> HIDE DEF u
    <3>0. LookupDir(l, u) # NoDir
      BY <2>2 DEF u
    <3>2. c \in AliveDirs(l) /\ l.dirs[c].name = x /\ l.dirs[c].parent = d
      <4>1. /\ c \in AliveDirs(l) /\ l.dirs[c].name = Last(u)
            /\ l.dirs[c].parent = LookupDir(l, Front(u))
        BY <3>0, <3>1, LookFound
      <4>2. QED BY <3>1, <4>1 DEF d
    <3>3. c \in gone
      BY <3>2 DEF GoneDirs, ChildDirs
    <3>4. LookupDir(k, u) \in gone
      BY <1>1, <3>1, <3>3
    <3>5. QED BY <2>2, <3>1, <3>4 DEF Hit, u
  <2>3. QED BY <2>1, <2>2 DEF Hit
<1> HIDE DEF gone
<1>4. /\ Rooted(m)
      /\ \A p \in Path : LookupDir(m, p) = IF Hit(k, gone, p) THEN NoDir ELSE LookupDir(k, p)
  BY <1>1, RemoveLooks
<1>5. ASSUME NEW p \in Path
      PROVE  LookupDir(m, p) = IF \E x \in Name \ e.dirs : IsPrefix(Append(v, x), p) THEN NoDir ELSE LookupDir(l, p)
  <2>1. ASSUME NEW x \in Name, IsPrefix(Append(v, x), p), LookupDir(l, Append(v, x)) = NoDir
        PROVE  LookupDir(l, p) = NoDir
    <3>1. Append(v, x) \in Path
      BY PathAppend
    <3>2. QED BY <2>1, <3>1, LookPrefix
  <2>2. LookupDir(m, p) = IF Hit(k, gone, p) THEN NoDir ELSE LookupDir(l, p)
    BY <1>1, <1>4
  <2> HIDE DEF m
  <2>3. CASE \E x \in Name \ e.dirs : IsPrefix(Append(v, x), p)
    <3>1. PICK x \in Name \ e.dirs : IsPrefix(Append(v, x), p)
      BY <2>3
    <3>2. CASE LookupDir(l, Append(v, x)) = NoDir
      <4>1. LookupDir(l, p) = NoDir
        BY <2>1, <3>1, <3>2
      <4>2. QED BY <2>2, <2>3, <4>1
    <3>3. CASE LookupDir(l, Append(v, x)) # NoDir
      <4>1. Hit(k, gone, p)
        BY <1>3, <3>1, <3>3
      <4>2. QED BY <2>2, <2>3, <4>1
    <3>4. QED BY <3>2, <3>3
  <2>4. CASE ~\E x \in Name \ e.dirs : IsPrefix(Append(v, x), p)
    <3>1. ~Hit(k, gone, p)
      BY <1>3, <2>4
    <3>2. QED BY <2>2, <2>4, <3>1
  <2>5. QED BY <2>3, <2>4
<1>6. ASSUME NEW p \in Path, p # <<>>, LookupDir(m, Front(p)) # NoDir
      PROVE  FileIn(m, p) <=> IF Front(p) = v THEN Last(p) \in e.files ELSE FileIn(l, p)
  <2> DEFINE u == Front(p)
  <2>1. u \in Path
    BY <1>6, PathEnds
  <2> HIDE DEF u
  <2>2. ~Hit(k, gone, u) /\ LookupDir(k, u) = LookupDir(l, u) /\ LookupDir(l, u) # NoDir
    BY <1>1, <1>4, <1>6, <2>1 DEF u
  <2>3. FileIn(m, p) <=> FileIn(k, p)
    BY <1>1, <1>6, <2>2, RemoveFiles DEF u
  <2>4. FileIn(k, p) <=> Last(p) \in FilesNamed(k, LookupDir(l, u))
    BY <2>2, FileInNamed DEF u
  <2>5. FileIn(l, p) <=> Last(p) \in FilesNamed(l, LookupDir(l, u))
    BY FileInNamed DEF u
  <2>6. LookupDir(l, u) = d <=> u = v
    BY <1>0, <2>1, LookOnce DEF d
  <2>7. QED BY <1>1, <2>3, <2>4, <2>5, <2>6 DEF u
<1>7. QED BY <1>1, <1>4, <1>5, <1>6, <1>d DEF m
-----------------------------------------------------------------------------
(* What a graft leaves to be found.                                        *)

GoodTree(t) == TreeInRange(t) /\ TreeOnce(t) /\ t.dirs # <<>> /\ t.dirs[1].parent = NoDir

\* A tree that was read is a snapshot by itself, all of it alive.
LEMMA TreeBase ==
  ASSUME NEW t, GoodTree(t)
  PROVE  /\ InRange(BaseOf(t)) /\ Rooted(BaseOf(t)) /\ SiblingsApart(BaseOf(t))
         /\ BaseOf(t).dirs = t.dirs /\ BaseOf(t).files = t.files
         /\ AliveDirs(BaseOf(t)) = 1 .. Len(t.dirs) /\ AliveFiles(BaseOf(t)) = 1 .. Len(t.files)
         /\ Len(t.dirs) \in Nat /\ Len(t.files) \in Nat
<1> DEFINE b == BaseOf(t)
<1>1. /\ t.dirs \in Seq(Entry) /\ t.files \in Seq(Entry) /\ t.dirs # <<>> /\ t.dirs[1].parent = NoDir
      /\ UniqueIn(t.dirs, DOMAIN t.dirs) /\ UniqueIn(t.files, DOMAIN t.files)
  BY DEF GoodTree, TreeInRange, Subtree, TreeOnce
<1>2. DOMAIN t.dirs = 1 .. Len(t.dirs) /\ DOMAIN t.files = 1 .. Len(t.files)
      /\ Len(t.dirs) \in Nat /\ Len(t.files) \in Nat
  BY <1>1, LenProperties
<1>3. InRange(b)
  BY BaseSafe DEF GoodTree
<1>4. b.dirs = t.dirs /\ b.files = t.files /\ b.deadDirs = {} /\ b.deadFiles = {}
  BY DEF BaseOf
<1> HIDE DEF b
<1>5. Rooted(b)
  BY <1>1, <1>3, <1>4 DEF Rooted, InRange, Root
<1>6. AliveDirs(b) = DOMAIN t.dirs /\ AliveFiles(b) = DOMAIN t.files
  BY <1>4 DEF AliveDirs, AliveFiles
<1>7. SiblingsApart(b)
  BY <1>1, <1>4, <1>6 DEF SiblingsApart
<1>8. QED BY <1>2, <1>3, <1>4, <1>5, <1>6, <1>7 DEF b

\* The entries of a graft, one by one.
LEMMA GraftParts ==
  ASSUME NEW l, InRange(l), NEW t, GoodTree(t), NEW parent \in {NoDir} \cup DOMAIN l.dirs
  PROVE  LET m == Graft(l, parent, t)
             n == Len(l.dirs)
             N == Len(l.files)
         IN  /\ InRange(m) /\ n \in Nat /\ N \in Nat /\ DOMAIN l.dirs = 1 .. n
             /\ \A i \in 1 .. n : m.dirs[i] = l.dirs[i]
             /\ \A i \in 1 .. Len(t.dirs) :
                  m.dirs[n + i] = [name |-> t.dirs[i].name, parent |-> IF i = 1 THEN parent ELSE n + t.dirs[i].parent]
             /\ \A i \in 1 .. N : m.files[i] = l.files[i]
             /\ \A i \in 1 .. Len(t.files) :
                  m.files[N + i] = [name |-> t.files[i].name, parent |-> n + t.files[i].parent]
             /\ \A c : c \in AliveDirs(m) <=> c \in AliveDirs(l) \/ \E i \in 1 .. Len(t.dirs) : c = n + i
             /\ \A f : f \in AliveFiles(m) <=> f \in AliveFiles(l) \/ \E i \in 1 .. Len(t.files) : f = N + i
<1> DEFINE m == Graft(l, parent, t)   ld == l.dirs   lf == l.files
           n == Len(ld)   N == Len(lf)   k == Len(t.dirs)   K == Len(t.files)
           ds == [i \in 1 .. k |-> [name |-> t.dirs[i].name, parent |-> IF i = 1 THEN parent ELSE n + t.dirs[i].parent]]
           fs == [i \in 1 .. K |-> [name |-> t.files[i].name, parent |-> n + t.files[i].parent]]
<1>1. /\ l \in Snapshot /\ ld \in Seq(Entry) /\ lf \in Seq(Entry)
      /\ l.deadDirs \subseteq DOMAIN ld /\ l.deadFiles \subseteq DOMAIN lf
  BY DEF InRange, Snapshot
<1>2. n \in Nat /\ N \in Nat /\ DOMAIN ld = 1 .. n /\ DOMAIN lf = 1 .. N
  BY <1>1, LenProperties
<1>3. /\ k \in Nat /\ K \in Nat /\ \A i \in 1 .. k : t.dirs[i] \in Entry
      /\ \A i \in 1 .. K : t.files[i] \in Entry
  <2>1. t.dirs \in Seq(Entry) /\ t.files \in Seq(Entry)
    BY DEF GoodTree, TreeInRange, Subtree
  <2>2. QED BY <2>1, LenProperties, ElementOfSeq
<1>4. m.dirs = ld \o ds /\ m.files = lf \o fs /\ m.deadDirs = l.deadDirs /\ m.deadFiles = l.deadFiles
  BY <1>1 DEF Graft, Snapshot
<1>5. InRange(m)
  BY GraftSafe DEF GoodTree
<1>6. ds \in [1 .. k -> Entry]
  <2>1. parent \in Nat
    BY <1>2 DEF NoDir
  <2>2. ASSUME NEW i \in 1 .. k PROVE ds[i] \in Entry
    <3>1. t.dirs[i].name \in Name /\ t.dirs[i].parent \in Nat
      BY <1>3 DEF Entry
    <3>2. (IF i = 1 THEN parent ELSE n + t.dirs[i].parent) \in Nat
      BY <1>2, <2>1, <3>1
    <3> HIDE DEF n, k
    <3>3. QED BY <3>1, <3>2 DEF Entry
  <2> HIDE DEF n, k
  <2>3. QED BY <2>2
<1>7. fs \in [1 .. K -> Entry]
  <2>1. \A i \in 1 .. K : t.files[i] \in Entry
    BY <1>3
  <2>2. ASSUME NEW i \in 1 .. K PROVE [name |-> t.files[i].name, parent |-> n + t.files[i].parent] \in Entry
    <3> DEFINE e == t.files[i]
    <3>1. e \in Entry
      BY <2>1
    <3> HIDE DEF e
    <3>2. e.name \in Name /\ e.parent \in Nat
      BY <3>1 DEF Entry
    <3>3. n + e.parent \in Nat
      BY <1>2, <3>2
    <3>4. [name |-> e.name, parent |-> n + e.parent] \in Entry
      BY <3>2, <3>3 DEF Entry
    <3>5. QED BY <3>4 DEF e
  <2>3. QED BY <2>2
<1>a. \A i \in 1 .. k : ds[i] = [name |-> t.dirs[i].name, parent |-> IF i = 1 THEN parent ELSE n + t.dirs[i].parent]
  OBVIOUS
<1>b. \A i \in 1 .. K : fs[i] = [name |-> t.files[i].name, parent |-> n + t.files[i].parent]
  OBVIOUS
<1> HIDE DEF m, ds, fs, k, K, ld, lf
<1>8. /\ DOMAIN m.dirs = 1 .. n + k /\ \A i \in 1 .. n : m.dirs[i] = ld[i]
      /\ \A i \in 1 .. k : m.dirs[n + i] = ds[i]
  BY <1>1, <1>3, <1>4, <1>6, Appended
<1>9. /\ DOMAIN m.files = 1 .. N + K /\ \A i \in 1 .. N : m.files[i] = lf[i]
      /\ \A i \in 1 .. K : m.files[N + i] = fs[i]
  BY <1>1, <1>3, <1>4, <1>7, Appended
<1> HIDE DEF n, N
<1>10. ASSUME NEW c PROVE c \in AliveDirs(m) <=> c \in AliveDirs(l) \/ \E i \in 1 .. k : c = n + i
  <2>1. ASSUME c \in 1 .. n + k, c \notin 1 .. n PROVE \E i \in 1 .. k : c = n + i
    <3>1. c - n \in 1 .. k /\ c = n + (c - n)
      BY <1>2, <1>3, <2>1
    <3>2. QED BY <3>1
  <2>2. \A i \in 1 .. k : n + i \in 1 .. n + k /\ n + i \notin 1 .. n
    BY <1>2, <1>3
  <2>3. \A i \in 1 .. n : i \in 1 .. n + k
    BY <1>2, <1>3
  <2>4. AliveDirs(m) = (1 .. n + k) \ l.deadDirs /\ AliveDirs(l) = (1 .. n) \ l.deadDirs
    BY <1>2, <1>4, <1>8 DEF AliveDirs, ld
  <2>5. l.deadDirs \subseteq 1 .. n
    BY <1>1, <1>2
  <2>6. QED BY <2>1, <2>2, <2>3, <2>4, <2>5
<1>11. ASSUME NEW c PROVE c \in AliveFiles(m) <=> c \in AliveFiles(l) \/ \E i \in 1 .. K : c = N + i
  <2>1. ASSUME c \in 1 .. N + K, c \notin 1 .. N PROVE \E i \in 1 .. K : c = N + i
    <3>1. c - N \in 1 .. K /\ c = N + (c - N)
      BY <1>2, <1>3, <2>1
    <3>2. QED BY <3>1
  <2>2. \A i \in 1 .. K : N + i \in 1 .. N + K /\ N + i \notin 1 .. N
    BY <1>2, <1>3
  <2>3. \A i \in 1 .. N : i \in 1 .. N + K
    BY <1>2, <1>3
  <2>4. AliveFiles(m) = (1 .. N + K) \ l.deadFiles /\ AliveFiles(l) = (1 .. N) \ l.deadFiles
    BY <1>2, <1>4, <1>9 DEF AliveFiles, lf
  <2>5. l.deadFiles \subseteq 1 .. N
    BY <1>1, <1>2
  <2>6. QED BY <2>1, <2>2, <2>3, <2>4, <2>5
<1>12. QED BY <1>2, <1>5, <1>8, <1>9, <1>10, <1>11, <1>a, <1>b DEF m, k, K, ld, lf, n, N
\* Where the entries of a graft are found: its root below the parent, all
\* others among themselves, and nothing else has changed.
LEMMA GraftNamed ==
  ASSUME NEW l, InRange(l), NEW t, GoodTree(t), NEW parent \in {NoDir} \cup DOMAIN l.dirs
  PROVE  LET m == Graft(l, parent, t)
             n == Len(l.dirs)
         IN  /\ \A d \in 1 .. n : \A y : ~(d = parent /\ y = t.dirs[1].name) => Named(m, d, y) = Named(l, d, y)
             /\ \A d \in 1 .. n : d = parent => n + 1 \in Named(m, d, t.dirs[1].name)
             /\ \A j \in 1 .. Len(t.dirs) : \A y : \A c : c \in Named(m, n + j, y) <=> \E i \in Named(BaseOf(t), j, y) : c = n + i
             /\ \A d \in 1 .. n : FilesNamed(m, d) = FilesNamed(l, d)
             /\ \A j \in 1 .. Len(t.dirs) : FilesNamed(m, n + j) = FilesNamed(BaseOf(t), j)
<1> DEFINE m == Graft(l, parent, t)   b == BaseOf(t)
           n == Len(l.dirs)   N == Len(l.files)   k == Len(t.dirs)   K == Len(t.files)
<1>1. /\ InRange(m) /\ n \in Nat /\ N \in Nat /\ DOMAIN l.dirs = 1 .. n
      /\ \A i \in 1 .. n : m.dirs[i] = l.dirs[i]
      /\ \A i \in 1 .. k :
           m.dirs[n + i] = [name |-> t.dirs[i].name, parent |-> IF i = 1 THEN parent ELSE n + t.dirs[i].parent]
      /\ \A i \in 1 .. N : m.files[i] = l.files[i]
      /\ \A i \in 1 .. K :
           m.files[N + i] = [name |-> t.files[i].name, parent |-> n + t.files[i].parent]
      /\ \A c : c \in AliveDirs(m) <=> c \in AliveDirs(l) \/ \E i \in 1 .. k : c = n + i
      /\ \A f : f \in AliveFiles(m) <=> f \in AliveFiles(l) \/ \E i \in 1 .. K : f = N + i
  BY GraftParts
<1>2. /\ b.dirs = t.dirs /\ b.files = t.files /\ AliveDirs(b) = 1 .. k /\ AliveFiles(b) = 1 .. K
      /\ k \in Nat /\ K \in Nat
  BY TreeBase
<1>3. /\ \A i \in 1 .. k : i # 1 => t.dirs[i].parent \in 1 .. k
      /\ \A i \in 1 .. K : t.files[i].parent \in 1 .. k
      /\ t.dirs[1].parent = 0 /\ 1 \in 1 .. k
  <2>1. t.dirs \in Seq(Entry) /\ t.files \in Seq(Entry) /\ t.dirs # <<>> /\ t.dirs[1].parent = NoDir
    BY DEF GoodTree, TreeInRange, Subtree
  <2>2. DOMAIN t.dirs = 1 .. k /\ DOMAIN t.files = 1 .. K /\ k # 0
    BY <2>1, LenProperties, EmptySeq
  <2>3. \A i \in DOMAIN t.dirs : i # 1 => t.dirs[i].parent \in DOMAIN t.dirs
    BY DEF GoodTree, TreeInRange, TreeOnce
  <2>4. \A i \in DOMAIN t.files : t.files[i].parent \in DOMAIN t.dirs
    BY DEF GoodTree, TreeInRange
  <2>5. 1 \in 1 .. k
    BY <1>2, <2>2
  <2>6. QED BY <2>1, <2>2, <2>3, <2>4, <2>5 DEF NoDir
<1>4. /\ AliveDirs(l) \subseteq 1 .. n /\ \A i \in AliveDirs(l) : l.dirs[i].parent \in 0 .. n
      /\ AliveFiles(l) \subseteq 1 .. N /\ \A i \in AliveFiles(l) : l.files[i].parent \in 1 .. n
  <2>1. DOMAIN l.files = 1 .. N
    BY LenProperties DEF InRange, Snapshot
  <2>2. /\ \A i \in DOMAIN l.dirs  : l.dirs[i].parent \in {NoDir} \cup DOMAIN l.dirs
        /\ \A i \in DOMAIN l.files : l.files[i].parent \in DOMAIN l.dirs
    BY DEF InRange
  <2>3. \A x \in {NoDir} \cup 1 .. n : x \in 0 .. n
    BY <1>1 DEF NoDir
  <2>4. QED BY <1>1, <2>1, <2>2, <2>3 DEF AliveDirs, AliveFiles
<1>5. parent \in 0 .. n
  BY <1>1 DEF NoDir
<1> HIDE DEF m, b, n, N, k, K
<1>6. ASSUME NEW i \in 1 .. k
      PROVE  /\ m.dirs[n + i].name = t.dirs[i].name
             /\ i = 1 => m.dirs[n + i].parent = parent
             /\ i # 1 => m.dirs[n + i].parent = n + t.dirs[i].parent /\ t.dirs[i].parent \in 1 .. k
  <2> DEFINE e == m.dirs[n + i]   x == t.dirs[i].name   q == n + t.dirs[i].parent
  <2>1. e = [name |-> x, parent |-> IF i = 1 THEN parent ELSE q]
    BY <1>1
  <2>2. i # 1 => t.dirs[i].parent \in 1 .. k
    BY <1>3
  <2> HIDE DEF e, x, q
  <2>3. e.name = x /\ (i = 1 => e.parent = parent) /\ (i # 1 => e.parent = q)
    BY <2>1
  <2>4. QED BY <2>2, <2>3 DEF e, x, q
<1>7. ASSUME NEW i \in 1 .. K
      PROVE  /\ m.files[N + i].name = t.files[i].name /\ m.files[N + i].parent = n + t.files[i].parent
             /\ t.files[i].parent \in 1 .. k
  <2> DEFINE e == m.files[N + i]   x == t.files[i].name   q == n + t.files[i].parent
  <2>1. e = [name |-> x, parent |-> q]
    BY <1>1
  <2>2. t.files[i].parent \in 1 .. k
    BY <1>3
  <2> HIDE DEF e, x, q
  <2>3. e.name = x /\ e.parent = q
    BY <2>1
  <2>4. QED BY <2>2, <2>3 DEF e, x, q
<1>8. ASSUME NEW d, NEW y, NEW c
      PROVE  c \in Named(m, d, y) <=> c \in AliveDirs(m) /\ m.dirs[c].parent = d /\ m.dirs[c].name = y
  BY DEF Named, ChildDirs
<1>9. ASSUME NEW d, NEW y, NEW c
      PROVE  c \in Named(l, d, y) <=> c \in AliveDirs(l) /\ l.dirs[c].parent = d /\ l.dirs[c].name = y
  BY DEF Named, ChildDirs
<1>10. ASSUME NEW j, NEW y, NEW c
       PROVE  c \in Named(b, j, y) <=> c \in 1 .. k /\ t.dirs[c].parent = j /\ t.dirs[c].name = y
  BY <1>2 DEF Named, ChildDirs
<1>11. \A c \in AliveDirs(l) : c \in AliveDirs(m) /\ m.dirs[c] = l.dirs[c]
  BY <1>1, <1>4
<1>12. \A i \in 1 .. k : n + i \in AliveDirs(m)
  BY <1>1
<1>13. ASSUME NEW d \in 1 .. n, NEW y, ~(d = parent /\ y = t.dirs[1].name) PROVE Named(m, d, y) = Named(l, d, y)
  <2>1. ASSUME NEW i \in 1 .. k, m.dirs[n + i].parent = d, m.dirs[n + i].name = y PROVE FALSE
    <3>1. CASE i = 1
      BY <1>6, <1>13, <2>1, <3>1
    <3>2. CASE i # 1
      <4>1. d = n + t.dirs[i].parent /\ t.dirs[i].parent \in 1 .. k
        BY <1>6, <2>1, <3>2
      <4>2. QED BY <1>1, <1>2, <4>1
    <3>3. QED BY <3>1, <3>2
  <2>2. ASSUME NEW c \in Named(m, d, y) PROVE c \in Named(l, d, y)
    <3>1. c \in AliveDirs(m) /\ m.dirs[c].parent = d /\ m.dirs[c].name = y
      BY <1>8
    <3>2. c \in AliveDirs(l)
      BY <1>1, <2>1, <3>1
    <3>3. QED BY <1>9, <1>11, <3>1, <3>2
  <2>3. ASSUME NEW c \in Named(l, d, y) PROVE c \in Named(m, d, y)
    BY <1>8, <1>9, <1>11
  <2>4. QED BY <2>2, <2>3
<1>14. ASSUME NEW d \in 1 .. n, d = parent PROVE n + 1 \in Named(m, d, t.dirs[1].name)
  <2>1. m.dirs[n + 1].name = t.dirs[1].name /\ m.dirs[n + 1].parent = parent /\ n + 1 \in AliveDirs(m)
    BY <1>3, <1>6, <1>12
  <2>2. QED BY <1>8, <1>14, <2>1
<1>15. ASSUME NEW j \in 1 .. k, NEW y, NEW c PROVE c \in Named(m, n + j, y) <=> \E i \in Named(b, j, y) : c = n + i
  <2>1. ASSUME c \in Named(m, n + j, y) PROVE \E i \in Named(b, j, y) : c = n + i
    <3>1. c \in AliveDirs(m) /\ m.dirs[c].parent = n + j /\ m.dirs[c].name = y
      BY <1>8, <2>1
    <3>2. c \notin AliveDirs(l)
      <4>1. n + j \notin 0 .. n
        BY <1>1, <1>2
      <4>2. QED BY <1>4, <1>11, <3>1, <4>1
    <3>3. PICK i \in 1 .. k : c = n + i
      BY <1>1, <3>1, <3>2
    <3>4. i # 1
      <4>1. n + j # parent
        BY <1>1, <1>2, <1>5
      <4>2. QED BY <1>6, <3>1, <3>3, <4>1
    <3>5. t.dirs[i].name = y /\ n + t.dirs[i].parent = n + j /\ t.dirs[i].parent \in 1 .. k
      BY <1>6, <3>1, <3>3, <3>4
    <3>6. t.dirs[i].parent = j
      BY <1>1, <1>2, <3>5
    <3>7. QED BY <1>10, <3>3, <3>5, <3>6
  <2>2. ASSUME NEW i \in Named(b, j, y), c = n + i PROVE c \in Named(m, n + j, y)
    <3>1. i \in 1 .. k /\ t.dirs[i].parent = j /\ t.dirs[i].name = y
      BY <1>10
    <3>2. i # 1
      BY <1>2, <1>3, <3>1
    <3>3. m.dirs[n + i].name = y /\ m.dirs[n + i].parent = n + j
      BY <1>6, <3>1, <3>2
    <3>4. QED BY <1>8, <1>12, <2>2, <3>1, <3>3
  <2>3. QED BY <2>1, <2>2
<1>16. ASSUME NEW d, NEW y
       PROVE  /\ y \in FilesNamed(m, d) <=> \E f \in AliveFiles(m) : m.files[f].parent = d /\ m.files[f].name = y
              /\ y \in FilesNamed(l, d) <=> \E f \in AliveFiles(l) : l.files[f].parent = d /\ l.files[f].name = y
              /\ y \in FilesNamed(b, d) <=> \E f \in 1 .. K : t.files[f].parent = d /\ t.files[f].name = y
  BY <1>2 DEF FilesNamed, NamesOf, FilesInDir
<1>17. \A f \in AliveFiles(l) : f \in AliveFiles(m) /\ m.files[f] = l.files[f]
  BY <1>1, <1>4
<1>18. \A i \in 1 .. K : N + i \in AliveFiles(m)
  BY <1>1
<1>19. ASSUME NEW d \in 1 .. n PROVE FilesNamed(m, d) = FilesNamed(l, d)
  <2>1. ASSUME NEW i \in 1 .. K PROVE m.files[N + i].parent # d
    <3>1. m.files[N + i].parent = n + t.files[i].parent /\ t.files[i].parent \in 1 .. k
      BY <1>7
    <3>2. QED BY <1>1, <1>2, <3>1
  <2>2. ASSUME NEW y PROVE y \in FilesNamed(m, d) <=> y \in FilesNamed(l, d)
    BY <1>1, <1>16, <1>17, <2>1
  <2>3. QED BY <2>2
<1>20. ASSUME NEW j \in 1 .. k PROVE FilesNamed(m, n + j) = FilesNamed(b, j)
  <2>1. ASSUME NEW f \in AliveFiles(l) PROVE l.files[f].parent # n + j
    <3>1. l.files[f].parent \in 1 .. n
      BY <1>4
    <3>2. QED BY <1>1, <1>2, <3>1
  <2>2. ASSUME NEW i \in 1 .. K PROVE m.files[N + i].parent = n + j <=> t.files[i].parent = j
    <3>1. m.files[N + i].parent = n + t.files[i].parent /\ t.files[i].parent \in 1 .. k
      BY <1>7
    <3>2. QED BY <1>1, <1>2, <3>1
  <2>3. ASSUME NEW y, y \in FilesNamed(m, n + j) PROVE y \in FilesNamed(b, j)
    <3>1. PICK f \in AliveFiles(m) : m.files[f].parent = n + j /\ m.files[f].name = y
      BY <1>16, <2>3
    <3>2. f \notin AliveFiles(l)
      BY <1>17, <2>1, <3>1
    <3>3. PICK i \in 1 .. K : f = N + i
      BY <1>1, <3>1, <3>2
    <3>4. t.files[i].parent = j /\ t.files[i].name = y
      BY <1>7, <2>2, <3>1, <3>3
    <3>5. QED BY <1>16, <3>4
  <2>4. ASSUME NEW y, y \in FilesNamed(b, j) PROVE y \in FilesNamed(m, n + j)
    <3>1. PICK i \in 1 .. K : t.files[i].parent = j /\ t.files[i].name = y
      BY <1>16, <2>4
    <3>2. m.files[N + i].parent = n + j /\ m.files[N + i].name = y /\ N + i \in AliveFiles(m)
      BY <1>7, <1>18, <2>2, <3>1
    <3>3. QED BY <1>16, <3>2
  <2>5. QED BY <2>3, <2>4
<1>21. QED BY <1>13, <1>14, <1>15, <1>19, <1>20 DEF m, b, n, k
-----------------------------------------------------------------------------
(* Paths put together.                                                     *)

\* One path behind another.
LEMMA PathJoin ==
  ASSUME NEW q \in Path, NEW s \in Path
  PROVE  /\ q \o s \in Path /\ Len(q \o s) = Len(q) + Len(s) /\ Len(q) \in Nat /\ Len(s) \in Nat
         /\ \A i \in 1 .. Len(q) : (q \o s)[i] = q[i]
         /\ \A i \in 1 .. Len(s) : (q \o s)[Len(q) + i] = s[i]
<1>1. q \in Seq(Name) /\ s \in Seq(Name)
  BY DEF Path
<1> DEFINE r == q \o s
<1>2. r \in Seq(Name) /\ DOMAIN r = 1 .. Len(q) + Len(s) /\ Len(q) \in Nat /\ Len(s) \in Nat
      /\ DOMAIN q = 1 .. Len(q) /\ DOMAIN s = 1 .. Len(s)
  BY <1>1, Joined
<1>3. /\ \A i \in DOMAIN q : r[i] = q[i]
      /\ \A i \in DOMAIN s : r[Len(q) + i] = s[i]
  BY <1>1, Joined
<1> HIDE DEF r
<1>4. DOMAIN r = 1 .. Len(r) /\ Len(r) \in Nat
  BY <1>2, LenProperties
<1>5. Len(r) = Len(q) + Len(s)
  BY <1>2, <1>4
<1>6. QED BY <1>2, <1>3, <1>5 DEF r, Path

\* Nothing behind a path is the path.
LEMMA JoinEmpty ==
  ASSUME NEW q \in Path
  PROVE  q \o <<>> = q /\ <<>> \o q = q
BY ConcatEmptySeq DEF Path

\* One more name, behind the second or behind both.
LEMMA JoinStep ==
  ASSUME NEW q \in Path, NEW s \in Path, NEW y \in Name
  PROVE  q \o Append(s, y) = Append(q \o s, y)
<1> DEFINE t == Append(s, y)   r == q \o s   a == q \o t   b == Append(r, y)
<1>1. /\ t \in Path /\ Len(t) = Len(s) + 1 /\ Len(s) \in Nat /\ t[Len(s) + 1] = y
      /\ \A i \in 1 .. Len(s) : t[i] = s[i]
  BY PathAppend
<1>2. /\ r \in Path /\ Len(r) = Len(q) + Len(s) /\ Len(q) \in Nat
      /\ \A i \in 1 .. Len(q) : r[i] = q[i]
      /\ \A i \in 1 .. Len(s) : r[Len(q) + i] = s[i]
  BY PathJoin
<1> HIDE DEF t, r
<1>3. /\ a \in Path /\ Len(a) = Len(q) + Len(t)
      /\ \A i \in 1 .. Len(q) : a[i] = q[i]
      /\ \A i \in 1 .. Len(t) : a[Len(q) + i] = t[i]
  BY <1>1, PathJoin
<1>4. /\ b \in Path /\ Len(b) = Len(r) + 1 /\ b[Len(r) + 1] = y
      /\ \A i \in 1 .. Len(r) : b[i] = r[i]
  BY <1>2, PathAppend
<1> HIDE DEF a, b
<1>5. Len(a) = Len(b)
  BY <1>1, <1>2, <1>3, <1>4
<1>6. ASSUME NEW i \in 1 .. Len(a) PROVE a[i] = b[i]
  <2>1. CASE i \in 1 .. Len(q)
    <3>1. i \in 1 .. Len(r)
      BY <1>1, <1>2, <2>1
    <3>2. QED BY <1>2, <1>3, <1>4, <2>1, <3>1
  <2>2. CASE i - Len(q) \in 1 .. Len(s)
    <3> DEFINE j == i - Len(q)
    <3>1. j \in 1 .. Len(s) /\ j \in 1 .. Len(t) /\ Len(q) + j = i /\ i \in 1 .. Len(r)
      BY <1>1, <1>2, <2>2
    <3> HIDE DEF j
    <3>2. a[i] = t[j] /\ b[i] = r[i] /\ r[i] = s[j]
      BY <1>2, <1>3, <1>4, <3>1
    <3>3. QED BY <1>1, <3>1, <3>2
  <2>3. CASE i = Len(q) + Len(s) + 1
    <3> DEFINE j == Len(s) + 1
    <3>1. j \in 1 .. Len(t) /\ Len(q) + j = i /\ i = Len(r) + 1 /\ t[j] = y
      BY <1>1, <1>2, <2>3
    <3> HIDE DEF j
    <3>2. QED BY <1>3, <1>4, <3>1
  <2>4. QED BY <1>1, <1>2, <1>3, <2>1, <2>2, <2>3
<1>7. QED BY <1>3, <1>4, <1>5, <1>6, PathEqual DEF a, b, t, r

\* Last name and front of a joined path are those of its second part.
LEMMA JoinEnds ==
  ASSUME NEW q \in Path, NEW s \in Path, s # <<>>
  PROVE  /\ q \o s # <<>> /\ q \o s = Append(q \o Front(s), Last(s))
         /\ Front(q \o s) = q \o Front(s) /\ Last(q \o s) = Last(s)
<1>1. Front(s) \in Path /\ Last(s) \in Name /\ s = Append(Front(s), Last(s))
  BY PathEnds
<1>2. q \o Front(s) \in Path
  BY <1>1, PathJoin
<1>3. q \o s = Append(q \o Front(s), Last(s))
  <2> DEFINE f == Front(s)   x == Last(s)
  <2>1. f \in Path /\ x \in Name /\ s = Append(f, x)
    BY <1>1
  <2> HIDE DEF f, x
  <2>2. q \o Append(f, x) = Append(q \o f, x)
    BY <2>1, JoinStep
  <2>3. q \o s = Append(q \o f, x)
    BY <2>1, <2>2
  <2>4. QED BY <2>3 DEF f, x
<1> DEFINE r == q \o Front(s)   x == Last(s)   w == q \o s
<1>4. r \in Path /\ x \in Name /\ w = Append(r, x)
  BY <1>1, <1>2, <1>3
<1> HIDE DEF r, x, w
<1>5. w # <<>> /\ Front(w) = r /\ Last(w) = x
  <2>1. Append(r, x) # <<>> /\ Front(Append(r, x)) = r /\ Last(Append(r, x)) = x
    BY <1>4, PathAppend
  <2>2. QED BY <1>4, <2>1
<1>6. QED BY <1>4, <1>5 DEF w, r, x

\* The paths from q on are its joins.
LEMMA JoinPrefix ==
  ASSUME NEW q \in Path, NEW s \in Path
  PROVE  IsPrefix(q, q \o s)
<1>1. /\ q \o s \in Path /\ Len(q \o s) = Len(q) + Len(s) /\ Len(q) \in Nat /\ Len(s) \in Nat
      /\ \A i \in 1 .. Len(q) : (q \o s)[i] = q[i]
  BY PathJoin
<1>2. Len(q) <= Len(q \o s)
  BY <1>1
<1>3. QED BY <1>1, <1>2, PathPrefix

\* What a path leads to is the path with another behind it.
LEMMA PrefixJoin ==
  ASSUME NEW q \in Path, NEW p \in Path, IsPrefix(q, p)
  PROVE  \E s \in Path : p = q \o s
<1> DEFINE T == {r \in Path : IsPrefix(q, r) => \E s \in Path : r = q \o s}
<1>1. <<>> \in T
  <2>1. ASSUME IsPrefix(q, <<>>) PROVE <<>> = q \o <<>>
    <3>1. q = <<>>
      BY <2>1, PathEmpty, PrefixBoth
    <3>2. QED BY <3>1, JoinEmpty
  <2>2. QED BY <2>1, PathEmpty
<1>2. ASSUME NEW v \in Path, NEW x \in Name, v \in T PROVE Append(v, x) \in T
  <2> DEFINE r == Append(v, x)
  <2>1. r \in Path
    BY PathAppend
  <2>2. ASSUME IsPrefix(q, r) PROVE \E s \in Path : r = q \o s
    <3>1. CASE q = r
      <4>1. q \o <<>> = q /\ <<>> \in Path
        BY JoinEmpty, PathEmpty
      <4>2. QED BY <3>1, <4>1
    <3>2. CASE IsPrefix(q, v)
      <4>1. PICK s \in Path : v = q \o s
        BY <1>2, <3>2
      <4>2. q \o Append(s, x) = Append(q \o s, x) /\ Append(s, x) \in Path
        BY JoinStep, PathAppend
      <4>3. QED BY <4>1, <4>2
    <3>3. QED BY <2>2, <3>1, <3>2, PrefixStep
  <2>3. QED BY <2>1, <2>2
<1>3. \A r \in Path : r \in T
  <2> HIDE DEF T
  <2>1. QED BY <1>1, <1>2, PathInduction
<1>4. QED BY <1>3

\* That other is the only one.
LEMMA JoinOnce ==
  ASSUME NEW q \in Path, NEW s \in Path, NEW u \in Path, q \o s = q \o u
  PROVE  s = u
<1>1. /\ Len(q \o s) = Len(q) + Len(s) /\ Len(q) \in Nat /\ Len(s) \in Nat
      /\ \A i \in 1 .. Len(s) : (q \o s)[Len(q) + i] = s[i]
  BY PathJoin
<1>2. /\ Len(q \o u) = Len(q) + Len(u) /\ Len(u) \in Nat
      /\ \A i \in 1 .. Len(u) : (q \o u)[Len(q) + i] = u[i]
  BY PathJoin
<1>3. Len(s) = Len(u)
  BY <1>1, <1>2
<1>4. \A i \in 1 .. Len(s) : s[i] = u[i]
  BY <1>1, <1>2, <1>3
<1>5. QED BY <1>3, <1>4, PathEqual

\* q leads as far as its joins do.
LEMMA JoinUnder ==
  ASSUME NEW q \in Path, NEW u \in Path, NEW s \in Path
  PROVE  /\ IsPrefix(q \o u, q \o s) <=> IsPrefix(u, s)
         /\ Under(q \o u, q \o s) <=> Under(u, s)
         /\ Under(q, q \o s) <=> s # <<>>
<1>1. /\ q \o u \in Path /\ Len(q \o u) = Len(q) + Len(u) /\ Len(q) \in Nat /\ Len(u) \in Nat
      /\ \A i \in 1 .. Len(q) : (q \o u)[i] = q[i]
      /\ \A i \in 1 .. Len(u) : (q \o u)[Len(q) + i] = u[i]
  BY PathJoin
<1>2. /\ q \o s \in Path /\ Len(q \o s) = Len(q) + Len(s) /\ Len(s) \in Nat
      /\ \A i \in 1 .. Len(q) : (q \o s)[i] = q[i]
      /\ \A i \in 1 .. Len(s) : (q \o s)[Len(q) + i] = s[i]
  BY PathJoin
<1> DEFINE a == q \o u   b == q \o s
<1>3. /\ a \in Path /\ b \in Path /\ Len(a) = Len(q) + Len(u) /\ Len(b) = Len(q) + Len(s)
      /\ \A i \in 1 .. Len(q) : a[i] = b[i]
      /\ \A i \in 1 .. Len(u) : a[Len(q) + i] = u[i]
      /\ \A i \in 1 .. Len(s) : b[Len(q) + i] = s[i]
  BY <1>1, <1>2
<1>ab. a = q \o u /\ b = q \o s
  OBVIOUS
<1> HIDE DEF a, b
<1>4. IsPrefix(a, b) <=> Len(a) <= Len(b) /\ \A i \in 1 .. Len(a) : a[i] = b[i]
  BY <1>3, PathPrefix
<1>5. IsPrefix(u, s) <=> Len(u) <= Len(s) /\ \A i \in 1 .. Len(u) : u[i] = s[i]
  BY PathPrefix
<1>6. ASSUME IsPrefix(a, b) PROVE IsPrefix(u, s)
  <2>1. Len(u) <= Len(s)
    BY <1>1, <1>2, <1>3, <1>4, <1>6
  <2>2. ASSUME NEW i \in 1 .. Len(u) PROVE u[i] = s[i]
    <3>1. Len(q) + i \in 1 .. Len(a) /\ i \in 1 .. Len(s)
      BY <1>1, <1>2, <1>3, <2>1
    <3>2. a[Len(q) + i] = b[Len(q) + i]
      BY <1>4, <1>6, <3>1
    <3>3. QED BY <1>3, <3>1, <3>2
  <2>3. QED BY <1>5, <2>1, <2>2
<1>7. ASSUME IsPrefix(u, s) PROVE IsPrefix(a, b)
  <2>1. Len(a) <= Len(b)
    BY <1>1, <1>2, <1>3, <1>5, <1>7
  <2>2. ASSUME NEW i \in 1 .. Len(a) PROVE a[i] = b[i]
    <3>1. CASE i \in 1 .. Len(q)
      BY <1>3, <3>1
    <3>2. CASE i - Len(q) \in 1 .. Len(u)
      <4> DEFINE j == i - Len(q)
      <4>1. j \in 1 .. Len(u) /\ j \in 1 .. Len(s) /\ Len(q) + j = i
        BY <1>1, <1>2, <1>5, <1>7, <3>2
      <4> HIDE DEF j
      <4>2. a[i] = u[j] /\ b[i] = s[j] /\ u[j] = s[j]
        BY <1>3, <1>5, <1>7, <4>1
      <4>3. QED BY <4>2
    <3>3. QED BY <1>1, <1>3, <3>1, <3>2
  <2>3. QED BY <1>4, <2>1, <2>2
<1>8. a = b => u = s
  BY <1>ab, JoinOnce
<1>9. u = s => a = b
  BY <1>ab
<1>10. IsPrefix(q, b) /\ (q = b <=> s = <<>>)
  <2>1. q \o <<>> = q
    BY JoinEmpty
  <2>2. q = b => s = <<>>
    BY <1>ab, <2>1, JoinOnce, PathEmpty
  <2>3. s = <<>> => q = b
    BY <1>ab, <2>1
  <2>4. IsPrefix(q, b)
    BY <1>ab, JoinPrefix
  <2>5. QED BY <2>2, <2>3, <2>4
<1>11. QED BY <1>6, <1>7, <1>8, <1>9, <1>10, <1>ab DEF Under
\* m shows tree b at q, and elsewhere what l shows.
Hung(l, m, q, b) ==
  /\ Rooted(m)
  /\ \A p \in Path : ~IsPrefix(q, p) => LookupDir(m, p) = LookupDir(l, p)
  /\ \A s \in Path : LookupDir(m, q \o s) = IF LookupDir(b, s) = NoDir THEN NoDir
                                            ELSE Len(l.dirs) + LookupDir(b, s)
  /\ \A p \in Path : p # <<>> /\ ~Under(q, p) => (FileIn(m, p) <=> FileIn(l, p))
  /\ \A s \in Path : s # <<>> => (FileIn(m, q \o s) <=> FileIn(b, s))

\* A graft leaves the root where it is.
LEMMA GraftRooted ==
  ASSUME NEW l, InRange(l), Rooted(l), NEW t, GoodTree(t), NEW parent \in {NoDir} \cup DOMAIN l.dirs
  PROVE  Rooted(Graft(l, parent, t)) /\ InRange(Graft(l, parent, t))
<1> DEFINE m == Graft(l, parent, t)   n == Len(l.dirs)
<1>1. /\ InRange(m) /\ n \in Nat /\ DOMAIN l.dirs = 1 .. n /\ \A i \in 1 .. n : m.dirs[i] = l.dirs[i]
  BY GraftParts
<1>2. Root \in 1 .. n /\ l.dirs[Root].parent = NoDir
  BY <1>1, RootedParts
<1>3. m.dirs[Root].parent = NoDir
  BY <1>1, <1>2
<1>4. m.dirs # <<>>
  <2>1. Extends(l, m)
    BY GraftSafe DEF GoodTree
  <2>2. DOMAIN l.dirs \subseteq DOMAIN m.dirs
    BY <1>1, <2>1, ExtendsIds
  <2>3. DOMAIN m.dirs # {} /\ m.dirs \in Seq(Entry)
    BY <1>1, <1>2, <2>2 DEF InRange, Snapshot
  <2> HIDE DEF m
  <2>4. QED BY <2>3, EmptySeq, LenProperties
<1>5. QED BY <1>1, <1>3, <1>4 DEF Rooted, InRange

\* A tree grafted under the directory at v, where its name is free, is found
\* there.
LEMMA GraftLooks ==
  ASSUME NEW l, InRange(l), Rooted(l), SiblingsApart(l), NEW t, GoodTree(t),
         NEW v \in Path, LookupDir(l, v) # NoDir, NEW x \in Name, t.dirs[1].name = x,
         Free(l, LookupDir(l, v), x)
  PROVE  /\ LookupDir(l, Append(v, x)) = NoDir
         /\ Hung(l, Graft(l, LookupDir(l, v), t), Append(v, x), BaseOf(t))
<1> DEFINE d == LookupDir(l, v)   m == Graft(l, d, t)   b == BaseOf(t)   q == Append(v, x)
           n == Len(l.dirs)   k == Len(t.dirs)
<1>1. d \in DOMAIN l.dirs /\ d # NoDir
  BY LookFound
<1>2. q \in Path /\ q # <<>> /\ Front(q) = v /\ Last(q) = x
  BY PathAppend
<1>3. /\ n \in Nat /\ DOMAIN l.dirs = 1 .. n /\ InRange(m) /\ Rooted(m)
      /\ \A c \in 1 .. n : \A y : ~(c = d /\ y = x) => Named(m, c, y) = Named(l, c, y)
      /\ n + 1 \in Named(m, d, x)
      /\ \A j \in 1 .. k : \A y : \A c : c \in Named(m, n + j, y) <=> \E i \in Named(b, j, y) : c = n + i
      /\ \A c \in 1 .. n : FilesNamed(m, c) = FilesNamed(l, c)
      /\ \A j \in 1 .. k : FilesNamed(m, n + j) = FilesNamed(b, j)
  <2> HIDE DEF d
  <2>1. n \in Nat /\ DOMAIN l.dirs = 1 .. n
    BY <1>1, GraftParts
  <2>2. InRange(m) /\ Rooted(m)
    BY <1>1, GraftRooted
  <2>3. /\ \A c \in 1 .. n : \A y : ~(c = d /\ y = t.dirs[1].name) => Named(m, c, y) = Named(l, c, y)
        /\ \A c \in 1 .. n : c = d => n + 1 \in Named(m, c, t.dirs[1].name)
        /\ \A j \in 1 .. k : \A y : \A c : c \in Named(m, n + j, y) <=> \E i \in Named(b, j, y) : c = n + i
        /\ \A c \in 1 .. n : FilesNamed(m, c) = FilesNamed(l, c)
        /\ \A j \in 1 .. k : FilesNamed(m, n + j) = FilesNamed(b, j)
    <3>1. d \in {NoDir} \cup DOMAIN l.dirs
      BY <1>1
    <3>2. /\ \A c \in 1 .. n : \A y : ~(c = d /\ y = t.dirs[1].name) => Named(m, c, y) = Named(l, c, y)
          /\ \A c \in 1 .. n : c = d => n + 1 \in Named(m, c, t.dirs[1].name)
      BY <3>1, GraftNamed
    <3>3. \A j \in 1 .. k : \A y : \A c : c \in Named(m, n + j, y) <=> \E i \in Named(b, j, y) : c = n + i
      BY <3>1, GraftNamed
    <3>4. \A c \in 1 .. n : FilesNamed(m, c) = FilesNamed(l, c)
      BY <3>1, GraftNamed
    <3>5. \A j \in 1 .. k : FilesNamed(m, n + j) = FilesNamed(b, j)
      BY <3>1, GraftNamed
    <3>6. QED BY <3>2, <3>3, <3>4, <3>5
  <2> HIDE DEF m, b, n, k
  <2>4. n + 1 \in Named(m, d, x)
    BY <1>1, <2>1, <2>3
  <2>5. QED BY <2>1, <2>2, <2>3, <2>4
<1>4. SiblingsApart(m)
  BY <1>1, GraftApart DEF GoodTree
<1>5. /\ InRange(b) /\ Rooted(b) /\ SiblingsApart(b) /\ b.dirs = t.dirs /\ k \in Nat
      /\ DOMAIN b.dirs = 1 .. k
  <2>1. /\ InRange(b) /\ Rooted(b) /\ SiblingsApart(b) /\ b.dirs = t.dirs /\ k \in Nat
    BY TreeBase
  <2>2. DOMAIN b.dirs = 1 .. k
    <3>1. b.dirs \in Seq(Entry)
      BY <2>1, RootedParts
    <3>2. QED BY <2>1, <3>1, LenProperties
  <2>3. QED BY <2>1, <2>2
<1>d. d = LookupDir(l, v) /\ Free(l, d, x)
  OBVIOUS
<1> HIDE DEF d, m, b, q, n, k
<1>6. LookupDir(l, q) = NoDir
  <2>1. LookupDir(l, q) = Step(l, d, x)
    BY <1>d, LookStep DEF q
  <2>2. ASSUME NEW c \in ChildDirs(l, d), l.dirs[c].name = x PROVE FALSE
    <3>1. c \in AliveDirs(l) /\ l.dirs[c].parent = d /\ c \in DOMAIN l.dirs
      BY DEF ChildDirs, AliveDirs
    <3>2. l.dirs[c] \in Entry
      BY <3>1, RootedParts
    <3>3. l.dirs[c] = [name |-> x, parent |-> d]
      BY <2>2, <3>1, <3>2 DEF Entry
    <3>4. QED BY <1>d, <3>1, <3>3 DEF Free
  <2>3. QED BY <1>1, <2>1, <2>2, StepIs
<1>7. ASSUME NEW p \in Path, ~IsPrefix(q, p) PROVE LookupDir(m, p) = LookupDir(l, p)
  <2>1. ASSUME NEW u \in Path, NEW y \in Name, IsPrefix(Append(u, y), p), LookupDir(l, u) # NoDir
        PROVE  Named(m, LookupDir(l, u), y) = Named(l, LookupDir(l, u), y)
    <3>1. LookupDir(l, u) \in 1 .. n
      BY <1>3, <2>1, LookFound
    <3>2. ASSUME LookupDir(l, u) = d, y = x PROVE FALSE
      <4>1. u = v
        BY <1>d, <2>1, <3>2, LookOnce
      <4>2. QED BY <1>7, <2>1, <3>2, <4>1 DEF q
    <3>3. QED BY <1>3, <3>1, <3>2
  <2>2. QED BY <1>3, <2>1, LookSame
<1>8. LookupDir(m, v) = d
  <2>1. ~IsPrefix(q, v)
    <3>1. IsPrefix(v, q)
      <4>1. IsPrefix(v, Append(v, x))
        BY PrefixStep, PrefixSelf
      <4>2. QED BY <4>1 DEF q
    <3>2. q # v
      BY PathAppend DEF q
    <3>3. QED BY <1>2, <3>1, <3>2, PrefixBoth
  <2>2. QED BY <1>7, <1>d, <2>1
<1> DEFINE At(s) == IF LookupDir(b, s) = NoDir THEN NoDir ELSE n + LookupDir(b, s)
           T == {s \in Path : LookupDir(m, q \o s) = At(s)}
<1>9. <<>> \in T
  <2>1. q \o <<>> = q /\ <<>> \in Path
    BY <1>2, JoinEmpty, PathEmpty
  <2>2. LookupDir(m, q) = Step(m, d, x)
    <3>1. LookupDir(m, Append(v, x)) = Step(m, LookupDir(m, v), x)
      BY <1>3, LookStep
    <3>2. QED BY <1>8, <3>1 DEF q
  <2>3. Step(m, d, x) = n + 1
    BY <1>1, <1>3, <1>4, StepOnly
  <2>4. LookupDir(b, <<>>) = 1 /\ 1 # NoDir
    BY <1>5, LookRoot DEF Root, NoDir
  <2>5. QED BY <2>1, <2>2, <2>3, <2>4
<1>10. ASSUME NEW s \in Path, NEW y \in Name, s \in T PROVE Append(s, y) \in T
  <2> DEFINE r == q \o s   j == LookupDir(b, s)   a == Append(s, y)
  <2>1. r \in Path /\ a \in Path /\ q \o a = Append(r, y)
    <3>1. r \in Path
      BY <1>2, PathJoin
    <3>2. a \in Path
      BY PathAppend
    <3>3. q \o a = Append(r, y)
      BY <1>2, JoinStep
    <3> HIDE DEF r, a
    <3>4. QED BY <3>1, <3>2, <3>3
  <2>2. LookupDir(m, q \o a) = Step(m, LookupDir(m, r), y)
    <3> HIDE DEF r, a
    <3>1. QED BY <1>3, <2>1, LookStep
  <2>3. LookupDir(b, a) = Step(b, j, y)
    BY <1>5, LookStep
  <2>4. LookupDir(m, r) = At(s)
    BY <1>10
  <2> DEFINE z == q \o a
  <2>z. LookupDir(m, z) = Step(m, LookupDir(m, r), y) /\ z = q \o a
    BY <2>2
  <2> HIDE DEF r, a, z
  <2> SUFFICES LookupDir(m, z) = At(a)
    BY <2>1, <2>z DEF a
  <2>5. CASE j = NoDir
    <3>1. Step(b, j, y) = NoDir /\ Step(m, NoDir, y) = NoDir
      BY <2>5 DEF Step
    <3>2. QED BY <2>z, <2>3, <2>4, <2>5, <3>1
  <2>6. CASE j # NoDir
    <3>1. j \in 1 .. k
      BY <1>5, <2>6, LookFound
    <3>2. LookupDir(m, r) = n + j
      BY <2>4, <2>6
    <3>3. n + j # NoDir
      BY <1>3, <1>5, <3>1 DEF NoDir
    <3> HIDE DEF j
    <3>4. \A c : c \in Named(m, n + j, y) <=> \E i \in Named(b, j, y) : c = n + i
      BY <1>3, <3>1
    <3>5. CASE Named(b, j, y) = {}
      <4>1. Named(m, n + j, y) = {}
        BY <3>4, <3>5
      <4>2. Step(b, j, y) = NoDir /\ Step(m, n + j, y) = NoDir
        BY <3>5, <4>1 DEF Step
      <4>3. QED BY <2>z, <2>3, <3>2, <4>2
    <3>6. CASE Named(b, j, y) # {}
      <4>1. PICK i \in Named(b, j, y) : TRUE
        BY <3>6
      <4>2. Step(b, j, y) = i
        BY <1>5, <2>6, StepOnly
      <4>3. n + i \in Named(m, n + j, y)
        BY <3>4
      <4>4. Step(m, n + j, y) = n + i
        BY <1>3, <1>4, <3>3, <4>3, StepOnly
      <4>5. i # NoDir
        <5>1. i \in DOMAIN b.dirs
          BY <1>5, FirstIs
        <5>2. QED BY <1>5, <5>1, RootedParts
      <4>6. QED BY <2>z, <2>3, <3>2, <4>2, <4>4, <4>5
    <3>7. QED BY <3>5, <3>6
  <2>7. QED BY <2>5, <2>6
<1>11. \A s \in Path : LookupDir(m, q \o s) = At(s)
  <2> HIDE DEF T
  <2>1. \A s \in Path : s \in T
    BY <1>9, <1>10, PathInduction
  <2>2. QED BY <2>1 DEF T
<1>12. ASSUME NEW p \in Path, p # <<>>, ~Under(q, p) PROVE FileIn(m, p) <=> FileIn(l, p)
  <2> DEFINE f == Front(p)
  <2>1. f \in Path /\ Last(p) \in Name /\ p = Append(f, Last(p))
    BY <1>12, PathEnds
  <2>2. ~IsPrefix(q, f)
    <3>1. Under(q, Append(f, Last(p))) <=> IsPrefix(q, f)
      BY <1>2, <2>1, UnderFront
    <3>2. QED BY <1>12, <2>1, <3>1
  <2> HIDE DEF f
  <2>3. LookupDir(m, f) = LookupDir(l, f)
    BY <1>7, <2>1, <2>2
  <2>4. CASE LookupDir(l, f) = NoDir
    <3>1. ~FileIn(l, p)
      BY <2>4, FileFound DEF f
    <3>2. ~FileIn(m, p)
      BY <1>3, <2>3, <2>4, FileFound DEF f
    <3>3. QED BY <3>1, <3>2
  <2>5. CASE LookupDir(l, f) # NoDir
    <3>1. LookupDir(l, f) \in 1 .. n
      BY <1>3, <2>1, <2>5, LookFound
    <3>2. FilesNamed(m, LookupDir(m, f)) = FilesNamed(l, LookupDir(l, f))
      BY <1>3, <2>3, <3>1
    <3>3. QED BY <3>2, FileInNamed DEF f
  <2>6. QED BY <2>4, <2>5
<1>13. ASSUME NEW s \in Path, s # <<>> PROVE FileIn(m, q \o s) <=> FileIn(b, s)
  <2> DEFINE f == Front(s)   j == LookupDir(b, f)   z == q \o s
  <2>1. f \in Path /\ Front(z) = q \o f /\ Last(z) = Last(s)
    BY <1>2, <1>13, PathEnds, JoinEnds
  <2>2. LookupDir(m, Front(z)) = At(f)
    BY <1>11, <2>1
  <2> HIDE DEF z
  <2>3. CASE j = NoDir
    <3>1. ~FileIn(b, s)
      BY <1>5, <2>3, FileFound
    <3>2. ~FileIn(m, z)
      BY <1>3, <2>2, <2>3, FileFound
    <3>3. QED BY <3>1, <3>2 DEF z
  <2>4. CASE j # NoDir
    <3>1. j \in 1 .. k
      BY <1>5, <2>1, <2>4, LookFound
    <3>2. LookupDir(m, Front(z)) = n + j
      BY <2>2, <2>4
    <3>3. FilesNamed(m, n + j) = FilesNamed(b, j)
      BY <1>3, <3>1
    <3>4. FileIn(m, z) <=> Last(z) \in FilesNamed(m, n + j)
      BY <3>2, FileInNamed
    <3>5. FileIn(b, s) <=> Last(s) \in FilesNamed(b, j)
      BY FileInNamed
    <3>6. QED BY <2>1, <3>3, <3>4, <3>5 DEF z
  <2>5. QED BY <2>3, <2>4
<1>14. Hung(l, m, q, b)
  BY <1>3, <1>7, <1>11, <1>12, <1>13 DEF Hung, n
<1>15. QED BY <1>6, <1>14 DEF d, m, q, b

\* Nobody finds a tree grafted where nobody comes.
LEMMA GraftUnreached ==
  ASSUME NEW l, InRange(l), Rooted(l), NEW t, GoodTree(t), NEW parent \in {NoDir} \cup DOMAIN l.dirs,
         \A u \in Path : LookupDir(l, u) # NoDir => LookupDir(l, u) # parent
  PROVE  Rooted(Graft(l, parent, t)) /\ SameLooks(l, Graft(l, parent, t))
<1> DEFINE m == Graft(l, parent, t)   n == Len(l.dirs)
<1>1. /\ InRange(m) /\ Rooted(m) /\ n \in Nat /\ DOMAIN l.dirs = 1 .. n
      /\ \A d \in 1 .. n : \A y : ~(d = parent /\ y = t.dirs[1].name) => Named(m, d, y) = Named(l, d, y)
      /\ \A d \in 1 .. n : FilesNamed(m, d) = FilesNamed(l, d)
  BY GraftRooted, GraftParts, GraftNamed
<1> HIDE DEF m, n
<1>2. ASSUME NEW p \in Path PROVE LookupDir(m, p) = LookupDir(l, p)
  <2>1. ASSUME NEW u \in Path, NEW y \in Name, LookupDir(l, u) # NoDir
        PROVE  Named(m, LookupDir(l, u), y) = Named(l, LookupDir(l, u), y)
    <3>1. LookupDir(l, u) \in 1 .. n
      BY <1>1, <2>1, LookFound
    <3>2. QED BY <1>1, <2>1, <3>1
  <2>2. QED BY <1>1, <2>1, LookSame
<1>3. ASSUME NEW p \in Path, p # <<>> PROVE FileIn(m, p) <=> FileIn(l, p)
  <2> DEFINE f == Front(p)
  <2>1. f \in Path
    BY <1>3, PathEnds
  <2>3. LookupDir(m, f) = LookupDir(l, f)
    BY <1>2, <2>1
  <2> HIDE DEF f
  <2>4. CASE LookupDir(l, f) = NoDir
    <3>1. ~FileIn(l, p)
      BY <2>4, FileFound DEF f
    <3>2. ~FileIn(m, p)
      BY <1>1, <2>3, <2>4, FileFound DEF f
    <3>3. QED BY <3>1, <3>2
  <2>5. CASE LookupDir(l, f) # NoDir
    <3>1. LookupDir(l, f) \in 1 .. n
      BY <1>1, <2>1, <2>5, LookFound
    <3>2. FilesNamed(m, LookupDir(m, f)) = FilesNamed(l, LookupDir(l, f))
      BY <1>1, <2>3, <3>1
    <3>3. QED BY <3>2, FileInNamed DEF f
  <2>6. QED BY <2>4, <2>5
<1>4. QED BY <1>1, <1>2, <1>3 DEF SameLooks, m

\* A subtree read again: what was read takes the place of what was there.
LEMMA RescanLooks ==
  ASSUME NEW l, InRange(l), Rooted(l), SiblingsApart(l), NEW t, GoodTree(t),
         NEW q \in Path, q # <<>>, LookupDir(l, q) # NoDir, t.dirs[1].name = Last(q)
  PROVE  Hung(l, RescanSubtree(l, LookupDir(l, q), t), q, BaseOf(t))
<1> DEFINE d == LookupDir(l, q)   v == Front(q)   x == Last(q)   k == RemoveSubtrees(l, {d})
           b == BaseOf(t)   c == LookupDir(l, v)   m == Graft(k, c, t)
<1>1. v \in Path /\ x \in Name /\ q = Append(v, x)
  BY PathEnds
<1>2. d \in DOMAIN l.dirs \ {Root} /\ d # NoDir /\ l.dirs[d].parent = c /\ c # NoDir
  BY LookFound
<1>3. RescanSubtree(l, d, t) = m
  BY <1>2 DEF RescanSubtree, RemoveSubtree
<1>d. d = LookupDir(l, q) /\ c = LookupDir(l, v)
  OBVIOUS
<1> HIDE DEF d, v, x, k, m, c, b
<1>4. /\ InRange(k) /\ Rooted(k) /\ SiblingsApart(k) /\ k.dirs = l.dirs
      /\ \A p \in Path : LookupDir(k, p) = IF Hit(l, {d}, p) THEN NoDir ELSE LookupDir(l, p)
      /\ \A p \in Path : p # <<>> => (FileIn(k, p) <=> FileIn(l, p) /\ ~Hit(l, {d}, Front(p)))
  <2> DEFINE from == {d}
  <2>1. from \subseteq DOMAIN l.dirs \ {Root}
    BY <1>2
  <2> HIDE DEF from
  <2>2. QED BY <2>1, RemoveLooks, RemoveFiles, RemoveSafe, RemoveApart DEF k, from
<1>5. ASSUME NEW p \in Path PROVE Hit(l, {d}, p) <=> IsPrefix(q, p)
  <2>1. ASSUME NEW u \in Path, LookupDir(l, u) \in {d} PROVE u = q
    <3>1. LookupDir(l, u) = d
      BY <2>1
    <3>2. QED BY <1>2, <1>d, <3>1, LookOnce
  <2>2. QED BY <1>d, <2>1 DEF Hit
<1>6. ~IsPrefix(q, v)
  <2>1. IsPrefix(v, Append(v, x)) /\ Append(v, x) # v
    BY <1>1, PrefixStep, PrefixSelf, PathAppend
  <2>2. QED BY <1>1, <2>1, PrefixBoth
<1>7. LookupDir(k, v) = c
  BY <1>1, <1>4, <1>5, <1>6, <1>d
<1>8. LookupDir(k, q) = NoDir
  <2>1. IsPrefix(q, q)
    BY PrefixSelf
  <2>2. QED BY <1>4, <1>5, <2>1
<1>9. Free(k, c, x)
  <2>1. LookupDir(k, q) = Step(k, c, x)
    <3>1. LookupDir(k, Append(v, x)) = Step(k, LookupDir(k, v), x)
      BY <1>1, <1>4, LookStep
    <3>2. QED BY <1>1, <1>7, <3>1
  <2>2. ASSUME NEW e \in AliveDirs(k), k.dirs[e] = [name |-> x, parent |-> c] PROVE FALSE
    <3>1. k.dirs[e].name = x /\ k.dirs[e].parent = c
      BY <2>2
    <3>2. e \in ChildDirs(k, c) /\ k.dirs[e].name = x
      BY <3>1 DEF ChildDirs
    <3>3. Step(k, c, x) # NoDir
      BY <1>2, <1>4, <3>2, StepIs
    <3>4. QED BY <1>8, <2>1, <3>3
  <2>3. QED BY <2>2 DEF Free
<1>10. Hung(k, m, q, b)
  <2>1. t.dirs[1].name = x
    BY DEF x
  <2>2. LookupDir(k, v) # NoDir /\ Free(k, LookupDir(k, v), x)
    BY <1>2, <1>7, <1>9
  <2>3. Hung(k, Graft(k, LookupDir(k, v), t), Append(v, x), BaseOf(t))
    BY <1>1, <1>4, <2>1, <2>2, GraftLooks
  <2>4. QED BY <1>1, <1>7, <2>3 DEF m, b
<1>11. \A p \in Path : ~IsPrefix(q, p) => LookupDir(m, p) = LookupDir(l, p)
  BY <1>4, <1>5, <1>10 DEF Hung
<1>12. ASSUME NEW p \in Path, p # <<>>, ~Under(q, p) PROVE FileIn(m, p) <=> FileIn(l, p)
  <2>1. FileIn(m, p) <=> FileIn(k, p)
    BY <1>10, <1>12 DEF Hung
  <2>2. Front(p) \in Path /\ Last(p) \in Name /\ p = Append(Front(p), Last(p))
    BY <1>12, PathEnds
  <2>3. ~IsPrefix(q, Front(p))
    <3>1. Under(q, Append(Front(p), Last(p))) <=> IsPrefix(q, Front(p))
      BY <2>2, UnderFront
    <3>2. QED BY <1>12, <2>2, <3>1
  <2>4. ~Hit(l, {d}, Front(p))
    BY <1>5, <2>2, <2>3
  <2>5. QED BY <1>4, <1>12, <2>1, <2>4
<1>13. Hung(l, m, q, b)
  BY <1>4, <1>10, <1>11, <1>12 DEF Hung
<1>14. QED BY <1>3, <1>13 DEF d, b

\* Nobody finds a subtree read again where nobody comes.
LEMMA RescanUnreached ==
  ASSUME NEW l, InRange(l), Rooted(l), SiblingsApart(l), NEW t, GoodTree(t),
         NEW d \in DOMAIN l.dirs, Unreached(l, d),
         \A u \in Path : LookupDir(l, u) # NoDir => LookupDir(l, u) # l.dirs[d].parent
  PROVE  Rooted(RescanSubtree(l, d, t)) /\ SameLooks(l, RescanSubtree(l, d, t))
<1> DEFINE from == {d}   k == RemoveSubtrees(l, from)   c == l.dirs[d].parent   m == Graft(k, c, t)
<1>1. d # Root
  BY LookRoot, PathEmpty DEF Unreached
<1>2. from \subseteq DOMAIN l.dirs \ {Root} /\ \A p \in Path : ~Hit(l, from, p)
  BY <1>1 DEF Hit, Unreached
<1>3. RescanSubtree(l, d, t) = m
  BY DEF RescanSubtree, RemoveSubtree
<1> HIDE DEF from
<1>4. InRange(k) /\ Rooted(k) /\ SameLooks(l, k) /\ k.dirs = l.dirs
  BY <1>2, RemoveUnreached, RemoveSafe
<1> HIDE DEF k
<1>5. c \in {NoDir} \cup DOMAIN k.dirs
  BY <1>4 DEF InRange
<1>6. \A u \in Path : LookupDir(k, u) # NoDir => LookupDir(k, u) # c
  BY <1>4 DEF SameLooks
<1> HIDE DEF c
<1>7. Rooted(m) /\ SameLooks(k, m)
  BY <1>4, <1>5, <1>6, GraftUnreached
<1>8. SameLooks(l, m)
  BY <1>4, <1>7 DEF SameLooks
<1>9. QED BY <1>3, <1>7, <1>8
-----------------------------------------------------------------------------
(* What the thread still owes to a path.                                   *)

\* A rescan, a listing or a graft to come will read what is at p again: a
\* rescan of a directory above it, a listing of its own directory or of the
\* last one above it that the index knows, a graft of a directory above it or
\* of p itself.
RescanDue(l, tasks, p) ==
  \E k \in DOMAIN tasks : Under(tasks[k].path, p) /\ LookupDir(l, tasks[k].path) = tasks[k].id
Lists(l, t, p) ==
  /\ Under(t.path, p) /\ LookupDir(l, t.path) = t.id
  /\ t.path = Front(p) \/ LookupDir(l, Prefix(p, Len(t.path) + 1)) = NoDir
RefreshDue(l, tasks, p) == \E k \in DOMAIN tasks : Lists(l, tasks[k], p)
GraftDue(l, grafts, p) == \E g \in grafts : IsPrefix(g.path, p) /\ LookupDir(l, Front(g.path)) = g.id

Due(l, pl, p) == \/ RescanDue(l, pl.rescans, p)
                 \/ RefreshDue(l, pl.refresh, p)
                 \/ GraftDue(l, pl.grafts, p)

\* Every path of a plan is one, and no graft is of the root.
PlanPaths(pl) == /\ \A k \in DOMAIN pl.rescans : pl.rescans[k].path \in Path
                 /\ \A k \in DOMAIN pl.refresh : pl.refresh[k].path \in Path
                 /\ \A g \in pl.grafts : g.path \in Path /\ g.path # <<>>

\* Two snapshots show the same directories above p.
SameAbove(l, m, p) == \A u \in Path : Under(u, p) => LookupDir(m, u) = LookupDir(l, u)

\* The front of a path leads to all that the path leads to.
LEMMA FrontUnder ==
  ASSUME NEW p \in Path, p # <<>>, NEW q \in Path, IsPrefix(p, q)
  PROVE  Front(p) \in Path /\ Under(Front(p), q)
<1> DEFINE v == Front(p)   x == Last(p)
<1>1. v \in Path /\ x \in Name /\ p = Append(v, x) /\ Len(v) = Len(p) - 1 /\ Len(p) \in Nat
  BY PathEnds
<1> HIDE DEF v, x
<1>2. IsPrefix(v, p)
  BY <1>1, PrefixStep, PrefixSelf
<1>3. IsPrefix(v, q)
  BY <1>1, <1>2, PrefixFurther
<1>4. Len(p) <= Len(q) /\ Len(q) \in Nat
  BY PathPrefix
<1>5. v # q
  BY <1>1, <1>4
<1>6. QED BY <1>1, <1>3, <1>5 DEF Under, v

\* A listing to come is still to come where the way to p is the same.
LEMMA ListsKept ==
  ASSUME NEW l, NEW m, NEW p \in Path, NEW t, t.path \in Path, Lists(l, t, p), SameAbove(l, m, p)
  PROVE  Lists(m, t, p)
<1> DEFINE u == t.path   r == Prefix(p, Len(u) + 1)   x == p[Len(u) + 1]
<1>1. u \in Path /\ Under(u, p)
  BY DEF Lists
<1>2. LookupDir(m, u) = t.id
  BY <1>1 DEF Lists, SameAbove
<1>3. x \in Name /\ IsPrefix(Append(u, x), p) /\ r = Append(u, x)
  BY <1>1, UnderStep
<1>4. r \in Path /\ Front(r) = u /\ IsPrefix(r, p)
  <2>1. Append(u, x) \in Path /\ Front(Append(u, x)) = u
    BY <1>1, <1>3, PathAppend
  <2> HIDE DEF x, u, r
  <2>2. QED BY <1>3, <2>1
<1>5. CASE r = p
  BY <1>1, <1>2, <1>4, <1>5 DEF Lists
<1>6. CASE r # p
  <2>1. LookupDir(m, r) = LookupDir(l, r)
    BY <1>4, <1>6 DEF SameAbove, Under
  <2>2. QED BY <1>1, <1>2, <2>1 DEF Lists
<1>7. QED BY <1>5, <1>6

\* What is owed to a path depends on the directories above it.
LEMMA DueKept ==
  ASSUME NEW l, NEW m, NEW p \in Path, NEW pl, PlanPaths(pl), SameAbove(l, m, p)
  PROVE  /\ RescanDue(l, pl.rescans, p) => RescanDue(m, pl.rescans, p)
         /\ RefreshDue(l, pl.refresh, p) => RefreshDue(m, pl.refresh, p)
         /\ GraftDue(l, pl.grafts, p) => GraftDue(m, pl.grafts, p)
         /\ Due(l, pl, p) => Due(m, pl, p)
<1>1. ASSUME RescanDue(l, pl.rescans, p) PROVE RescanDue(m, pl.rescans, p)
  <2>1. PICK k \in DOMAIN pl.rescans : /\ Under(pl.rescans[k].path, p)
                                       /\ LookupDir(l, pl.rescans[k].path) = pl.rescans[k].id
    BY <1>1 DEF RescanDue
  <2>2. LookupDir(m, pl.rescans[k].path) = pl.rescans[k].id
    BY <2>1 DEF SameAbove, PlanPaths
  <2>3. QED BY <2>1, <2>2 DEF RescanDue
<1>2. ASSUME RefreshDue(l, pl.refresh, p) PROVE RefreshDue(m, pl.refresh, p)
  <2>1. PICK k \in DOMAIN pl.refresh : Lists(l, pl.refresh[k], p)
    BY <1>2 DEF RefreshDue
  <2>2. pl.refresh[k].path \in Path
    BY DEF PlanPaths
  <2>3. Lists(m, pl.refresh[k], p)
    BY <2>1, <2>2, ListsKept
  <2>4. QED BY <2>3 DEF RefreshDue
<1>3. ASSUME GraftDue(l, pl.grafts, p) PROVE GraftDue(m, pl.grafts, p)
  <2>1. PICK g \in pl.grafts : IsPrefix(g.path, p) /\ LookupDir(l, Front(g.path)) = g.id
    BY <1>3 DEF GraftDue
  <2>2. g.path \in Path /\ g.path # <<>>
    BY DEF PlanPaths
  <2>3. Front(g.path) \in Path /\ Under(Front(g.path), p)
    BY <2>1, <2>2, FrontUnder
  <2>4. LookupDir(m, Front(g.path)) = g.id
    BY <2>1, <2>3 DEF SameAbove
  <2>5. QED BY <2>1, <2>4 DEF GraftDue
<1>4. QED BY <1>1, <1>2, <1>3 DEF Due

\* Snapshots that show the same show the same above any path.
LEMMA SameLooksAbove ==
  ASSUME NEW l, NEW m, SameLooks(l, m), NEW p
  PROVE  SameAbove(l, m, p)
BY DEF SameLooks, SameAbove
-----------------------------------------------------------------------------
(* The invariant.                                                          *)

\* The paths that the index is to show.
Seen == {p \in Paths : ~IsIgnored(p)}

\* Only files and directories, each in a directory.
TreeDisk(d) == \A p \in Paths : /\ d[p] \in {"none", "file", "dir"}
                                /\ d[p] # "none" /\ Front(p) # <<>> => Front(p) \in Paths /\ d[Front(p)] = "dir"

\* A snapshot shows what is at p.
Shows(l, p, kind) == /\ kind = "dir" <=> LookupDir(l, p) # NoDir
                     /\ kind = "file" <=> FileIn(l, p)

\* An event of p is still to be delivered.
Pending(p) == \E i \in sent + 1 .. Len(log) : log[i].path = p

\* Id is of the directory at p, if it is to be found at all.
HasPath(l, id, p) == \A q \in Path : LookupDir(l, q) = id => q = p

\* A directory that is to be replaced was not removed alone.
Whole(l, id, p) == /\ l.dirs[id].parent # NoDir /\ HasPath(l, l.dirs[id].parent, Front(p))
                   /\ LookupDir(l, Front(p)) = l.dirs[id].parent => LookupDir(l, p) = id

\* A directory that is to be grafted is on the disk, and is no file in the
\* index, or the thread is still to hear of it.
Room(l, id, p) == LookupDir(l, Front(p)) = id => Pending(p) \/ (disk[p] = "dir" /\ ~FileIn(l, p))

TaskFresh(t) == HasPath(next, t.id, t.path)
RescansFresh == \A k \in DOMAIN plan.rescans :
                  TaskFresh(plan.rescans[k]) /\ Whole(next, plan.rescans[k].id, plan.rescans[k].path)
ListsFresh   == \A k \in DOMAIN plan.refresh : TaskFresh(plan.refresh[k])
GraftsFresh  == \A g \in plan.grafts : /\ g.path \in Paths /\ HasPath(next, g.id, Front(g.path))
                                       /\ Room(next, g.id, g.path)

\* The traversal that began at v: the tree knows the directories still to be
\* read by their paths, and what it shows is on the disk, but for what is to
\* be read and what the thread is still to hear of.
StackFresh(w, v) == \A i \in DOMAIN w.stack :
                      \E u \in Path : w.stack[i].path = v \o u /\ LookupDir(BaseOf(w.tree), u) = w.stack[i].id
Unread(w, p) == \E i \in DOMAIN w.stack : Under(w.stack[i].path, p)
TreeFresh(w, v) == \A s \in Path : s # <<>> /\ v \o s \in Paths =>
                     Shows(BaseOf(w.tree), s, disk[v \o s]) \/ Pending(v \o s) \/ Unread(w, v \o s)

\* What the traversal will replace, or add.
Covered(p, v) == \/ pc = "rescan" /\ Under(v, p) /\ LookupDir(next, v) = walk.into
                 \/ pc = "graft" /\ IsPrefix(v, p) /\ LookupDir(next, Front(v)) = walk.into
IntoFresh(v) ==
  /\ pc = "rescan" => v # <<>> /\ walk.tree.dirs[1].name = Last(v)
                      /\ HasPath(next, walk.into, v) /\ Whole(next, walk.into, v)
  /\ pc = "graft" => v \in Paths /\ walk.tree.dirs[1].name = Last(v)
                     /\ HasPath(next, walk.into, Front(v)) /\ Room(next, walk.into, v)
  /\ pc = "scan" => v = <<>>
WalkOf(v) == StackFresh(walk, v) /\ TreeFresh(walk, v) /\ IntoFresh(v)

LogFresh  == \A i \in DOMAIN log : log[i].kind \in {"item", "dir", "full"}
IdleFresh == pc = "idle" => \A p \in Seen : Shows(shared, p, disk[p]) \/ Pending(p)
NoRebuild == ~plan.full /\ ~cut
WorkFresh == pc = "work" /\ NoRebuild => \A p \in Seen : Shows(next, p, disk[p]) \/ Pending(p) \/ Due(next, plan, p)
WalkFresh == pc \in {"rescan", "graft", "scan"} =>
               /\ walk.tree.dirs # <<>> /\ walk.tree.dirs[1].parent = NoDir
               /\ \E v \in Path : /\ WalkOf(v)
                                  /\ pc # "scan" /\ NoRebuild =>
                                       \A p \in Seen : \/ Shows(next, p, disk[p]) \/ Pending(p)
                                                       \/ Due(next, plan, p) \/ Covered(p, v)

FreshInv == /\ TreeDisk(disk) /\ LogFresh /\ Rooted(shared) /\ Rooted(next)
            /\ RescansFresh /\ ListsFresh /\ GraftsFresh
            /\ IdleFresh /\ WorkFresh /\ WalkFresh
-----------------------------------------------------------------------------
(* The disk.                                                               *)

\* The volume's paths are paths, none is the root's, and what leads to one is one.
LEMMA PathsParts ==
  /\ Paths \subseteq Path /\ <<>> \notin Paths
  /\ \A p \in Paths : \A u \in Path : u # <<>> /\ IsPrefix(u, p) => u \in Paths
<1>1. Paths \subseteq Path
  BY PathsArePaths
<1>2. ASSUME NEW p \in Path PROVE p \in Paths <=> Len(p) \in 1 .. MaxDepth
  <2>1. p \in Seq(Name) /\ Len(p) \in Nat /\ DOMAIN p = 1 .. Len(p)
    BY LenProperties DEF Path
  <2>2. p \in [1 .. Len(p) -> Name]
    BY <2>1, ElementOfSeq
  <2>3. Len(p) \in 1 .. MaxDepth => p \in Paths
    BY <2>2 DEF Paths
  <2>4. ASSUME p \in Paths PROVE Len(p) \in 1 .. MaxDepth
    <3>1. PICK n \in 1 .. MaxDepth : p \in [1 .. n -> Name]
      BY <2>4 DEF Paths
    <3>2. n \in Nat
      BY VolumeAssumption
    <3>3. Len(p) = n
      BY <3>1, <3>2, FunctionIsSeq
    <3>4. QED BY <3>3
  <2>5. QED BY <2>3, <2>4
<1>3. <<>> \notin Paths
  <2>1. <<>> \in Path /\ Len(<<>>) = 0
    BY PathEmpty
  <2>2. 0 \notin 1 .. MaxDepth
    BY VolumeAssumption
  <2>3. QED BY <1>2, <2>1, <2>2
<1>4. ASSUME NEW p \in Paths, NEW u \in Path, u # <<>>, IsPrefix(u, p) PROVE u \in Paths
  <2>1. Len(p) \in 1 .. MaxDepth /\ p \in Path
    BY <1>1, <1>2
  <2>2. Len(u) <= Len(p) /\ Len(u) \in Nat \ {0}
    BY <1>4, <2>1, PathPrefix, PathEmpty
  <2>3. Len(u) \in 1 .. MaxDepth
    BY <2>1, <2>2, VolumeAssumption
  <2>4. QED BY <1>2, <2>3
<1>5. QED BY <1>1, <1>3, <1>4

\* Below what is no directory there is nothing.
LEMMA NothingUnder ==
  ASSUME NEW d, TreeDisk(d), NEW u \in Path, NEW p \in Paths, Under(u, p), u # <<>>, d[u] # "dir"
  PROVE  d[p] = "none"
<1> DEFINE T == {q \in Path : q \in Paths /\ Under(u, q) => d[q] = "none"}
<1>1. <<>> \in T
  BY PathsParts, PathEmpty
<1>2. ASSUME NEW v \in Path, NEW x \in Name, v \in T PROVE Append(v, x) \in T
  <2> DEFINE q == Append(v, x)
  <2>1. q \in Path /\ Front(q) = v
    BY PathAppend
  <2>2. Under(u, q) <=> IsPrefix(u, v)
    BY UnderFront
  <2> HIDE DEF q
  <2>3. ASSUME q \in Paths, Under(u, q), d[q] # "none" PROVE FALSE
    <3>1. IsPrefix(u, v)
      BY <2>2, <2>3
    <3>2. v # <<>>
      <4>1. v = <<>> => u = <<>>
        BY <3>1, PathEmpty, PrefixBoth
      <4>2. QED BY <4>1
    <3>3. v \in Paths /\ d[v] = "dir"
      BY <2>1, <2>3, <3>2 DEF TreeDisk
    <3>4. Under(u, v)
      BY <3>1, <3>3 DEF Under
    <3>5. QED BY <1>2, <3>3, <3>4
  <2>4. q \in T
    BY <2>1, <2>3
  <2>5. QED BY <2>4 DEF q
<1>3. \A q \in Path : q \in T
  <2> HIDE DEF T
  <2>1. QED BY <1>1, <1>2, PathInduction
<1>4. QED BY <1>3, PathsParts

\* What a listing of the disk says.
LEMMA ListingSays ==
  ASSUME TreeDisk(disk), NEW v \in Path
  PROVE  LET e == ListDisk(v)
         IN  /\ e \in Listing
             /\ e.exists <=> IsDir(v)
             /\ \A x \in Name : Append(v, x) \in Paths =>
                  /\ x \in e.dirs <=> disk[Append(v, x)] = "dir" /\ IsDir(v)
                  /\ x \in e.files <=> disk[Append(v, x)] = "file" /\ IsDir(v)
             /\ \A x \in e.dirs : Append(v, x) \in Paths
             /\ \A p \in Paths : Under(v, p) /\ ~IsDir(v) => disk[p] = "none"
<1> DEFINE e == ListDisk(v)
<1>1. e \in Listing
  BY ListDiskType
<1>2. CASE IsDir(v)
  <2>1. /\ e.exists = TRUE /\ e.dirs = ChildrenOf(v, {"dir", "sealed"}) /\ e.files = ChildrenOf(v, {"file"})
    BY <1>2 DEF ListDisk
  <2>2. ASSUME NEW x \in Name, Append(v, x) \in Paths
        PROVE  /\ x \in ChildrenOf(v, {"dir", "sealed"}) <=> disk[Append(v, x)] = "dir"
               /\ x \in ChildrenOf(v, {"file"}) <=> disk[Append(v, x)] = "file"
    <3>1. disk[Append(v, x)] \in {"none", "file", "dir"}
      BY <2>2 DEF TreeDisk
    <3>2. QED BY <2>2, <3>1 DEF ChildrenOf
  <2>3. \A x \in ChildrenOf(v, {"dir", "sealed"}) : Append(v, x) \in Paths
    BY DEF ChildrenOf
  <2> HIDE DEF e
  <2>4. QED BY <1>1, <1>2, <2>1, <2>2, <2>3 DEF e
<1>3. CASE ~IsDir(v)
  <2>1. e.exists = FALSE /\ e.dirs = {} /\ e.files = {}
    BY <1>3 DEF ListDisk, NoListing
  <2>2. ASSUME NEW p \in Paths, Under(v, p) PROVE disk[p] = "none"
    <3>1. v # <<>> /\ ~(v \in Paths /\ disk[v] = "dir")
      BY <1>3 DEF IsDir
    <3>2. v \in Paths
      BY <2>2, <3>1, PathsParts DEF Under
    <3>3. QED BY <2>2, <3>1, <3>2, NothingUnder
  <2>3. ASSUME NEW x \in Name, Append(v, x) \in Paths PROVE disk[Append(v, x)] = "none"
    <3>1. Under(v, Append(v, x))
      BY UnderFront, PrefixSelf
    <3>2. QED BY <2>2, <2>3, <3>1
  <2> HIDE DEF e
  <2>4. QED BY <1>1, <1>3, <2>1, <2>2, <2>3 DEF e
<1>4. QED BY <1>2, <1>3
-----------------------------------------------------------------------------
(* The invariant is inductive: plans and traversals that begin and end.    *)

\* What the other invariants say of the thread's copy, its plan and its
\* traversal.
LEMMA FreshFacts ==
  ASSUME IInv, SiblingInv, FreshInv
  PROVE  /\ InRange(next) /\ Rooted(next) /\ SiblingsApart(next)
         /\ InRange(shared) /\ Rooted(shared) /\ SiblingsApart(shared)
         /\ PlanOK(plan, next) /\ PlanPaths(plan)
         /\ \A k \in DOMAIN plan.rescans : plan.rescans[k].id \in DOMAIN next.dirs /\ plan.rescans[k].path # <<>>
         /\ \A k \in DOMAIN plan.refresh : plan.refresh[k].id \in DOMAIN next.dirs
         /\ \A g \in plan.grafts : g.id \in DOMAIN next.dirs
         /\ WalkOK(walk) /\ TreeOnce(walk.tree) /\ StackOnce(walk)
         /\ walk.stack \in Seq([id : DOMAIN walk.tree.dirs, path : Path])
         /\ pc \in {"rescan", "graft", "scan"} => GoodTree(walk.tree)
         /\ TreeDisk(disk) /\ LogFresh
<1>1. /\ InRange(next) /\ SiblingsApart(next) /\ InRange(shared) /\ SiblingsApart(shared)
      /\ PlanOK(plan, next) /\ WalkOK(walk) /\ TreeOnce(walk.tree) /\ StackOnce(walk)
      /\ RescansInv /\ GraftsInv
  BY DEF IInv, TypeOK, SiblingInv
<1>2. Rooted(next) /\ Rooted(shared) /\ TreeDisk(disk) /\ LogFresh /\ WalkFresh
  BY DEF FreshInv
<1>3. \A k \in DOMAIN plan.rescans : plan.rescans[k] \in [id : DOMAIN next.dirs, path : Path]
  BY <1>1 DEF PlanOK, TasksOK
<1>4. \A k \in DOMAIN plan.refresh : plan.refresh[k] \in [id : DOMAIN next.dirs, path : Path]
  BY <1>1 DEF PlanOK, TasksOK
<1>5. \A g \in plan.grafts : g.id \in DOMAIN next.dirs /\ g.path \in Path
  BY <1>1 DEF PlanOK
<1>6. \A k \in DOMAIN plan.rescans : plan.rescans[k].path # <<>>
  BY <1>1 DEF RescansInv
<1>7. \A g \in plan.grafts : g.path # <<>>
  BY <1>1 DEF GraftsInv
<1>8. PlanPaths(plan)
  BY <1>3, <1>4, <1>5, <1>7 DEF PlanPaths
<1>9. walk.stack \in Seq([id : DOMAIN walk.tree.dirs, path : Path])
  BY <1>1 DEF WalkOK
<1>10. pc \in {"rescan", "graft", "scan"} => GoodTree(walk.tree)
  BY <1>1, <1>2 DEF WalkFresh, GoodTree, WalkOK
<1>11. QED BY <1>1, <1>2, <1>3, <1>4, <1>5, <1>6, <1>8, <1>9, <1>10

\* A traversal begins with everything below its start unread.
LEMMA WalkFromFresh ==
  ASSUME NEW into, NEW v \in Path
  PROVE  LET w == WalkFrom(into, v)
         IN  /\ StackFresh(w, v) /\ (\A s \in Path : s # <<>> => Unread(w, v \o s))
             /\ w.tree.dirs # <<>> /\ w.tree.dirs[1].parent = NoDir /\ w.into = into
             /\ v # <<>> => w.tree.dirs[1].name = Last(v)
<1> DEFINE w == WalkFrom(into, v)   e == [id |-> 1, path |-> v]
<1>1. WalkOK(w) /\ TreeOnce(w.tree) /\ w.into = into /\ w.tree.dirs # <<>>
      /\ (v # <<>> => w.tree.dirs[1].name = Last(v))
  BY WalkFromSafe, WalkFromOnce
<1>2. w.stack = <<e>> /\ w.tree.dirs[1].parent = NoDir
  BY DEF WalkFrom
<1> HIDE DEF w
<1>3. DOMAIN w.stack = {1} /\ w.stack[1] = e
  BY <1>2
<1>4. LookupDir(BaseOf(w.tree), <<>>) = 1
  <2>1. GoodTree(w.tree)
    BY <1>1, <1>2 DEF GoodTree, WalkOK
  <2>2. Rooted(BaseOf(w.tree))
    BY <2>1, TreeBase
  <2>3. QED BY <2>2, LookRoot DEF Root
<1>5. StackFresh(w, v)
  <2>1. e.path = v \o <<>> /\ e.id = 1 /\ <<>> \in Path
    BY JoinEmpty, PathEmpty
  <2>2. QED BY <1>3, <1>4, <2>1 DEF StackFresh
<1>6. ASSUME NEW s \in Path, s # <<>> PROVE Unread(w, v \o s)
  <2>1. Under(v, v \o s)
    BY <1>6, JoinUnder
  <2>2. e.path = v
    OBVIOUS
  <2>3. QED BY <1>3, <2>1, <2>2 DEF Unread
<1>7. QED BY <1>1, <1>2, <1>5, <1>6 DEF w

\* A rescan that begins covers what it was to cover.
LEMMA BeginRescanFresh == IInv /\ SiblingInv /\ FreshInv /\ BeginRescan => FreshInv'
<1> SUFFICES ASSUME IInv, SiblingInv, FreshInv, BeginRescan PROVE FreshInv'
  OBVIOUS
<1> DEFINE k == First(plan.rescans)   t == plan.rescans[k]   left == Without(plan.rescans, k)
<1>1. PlanOK(plan, next)
  BY FreshFacts
<1>2. /\ pc = "work" /\ plan.rescans # NoTasks /\ pc' = "rescan"
      /\ disk' = disk /\ log' = log /\ sent' = sent /\ shared' = shared /\ next' = next /\ cut' = cut
      /\ walk' = WalkFrom(t.id, t.path)
      /\ plan' = [plan EXCEPT !.rescans = left]
  BY DEF BeginRescan
<1>3. k \in DOMAIN plan.rescans /\ t.path \in Path /\ t.path # <<>>
  <2>1. k \in DOMAIN plan.rescans
    BY <1>1, <1>2, FirstTask DEF PlanOK
  <2> HIDE DEF k
  <2>2. QED BY <2>1, FreshFacts DEF PlanPaths
<1>4. /\ plan'.rescans = left /\ plan'.refresh = plan.refresh /\ plan'.grafts = plan.grafts
      /\ plan'.full = plan.full
  BY <1>1, <1>2 DEF PlanOK
<1>5. DOMAIN left = DOMAIN plan.rescans \ {k} /\ \A j \in DOMAIN left : left[j] = plan.rescans[j]
  BY DEF Without
<1>6. RescansFresh /\ ListsFresh /\ GraftsFresh /\ WorkFresh
      /\ TreeDisk(disk) /\ LogFresh /\ Rooted(shared) /\ Rooted(next)
  BY DEF FreshInv
<1>v. PICK v \in Path : v = t.path
  BY <1>3
<1> HIDE DEF k, left
<1>7. RescansFresh' /\ ListsFresh'
  BY <1>2, <1>4, <1>5, <1>6 DEF RescansFresh, ListsFresh, TaskFresh
<1>8. \A p : Pending(p) <=> Pending(p)'
  BY <1>2 DEF Pending
<1>9. GraftsFresh'
  BY <1>2, <1>4, <1>6, <1>8 DEF GraftsFresh, Room
<1>10. TreeDisk(disk)' /\ LogFresh' /\ Rooted(shared)' /\ Rooted(next)'
  BY <1>2, <1>6 DEF LogFresh
<1>11. TaskFresh(t) /\ Whole(next, t.id, v)
  BY <1>3, <1>6, <1>v DEF RescansFresh
<1>12. HasPath(next, t.id, v)
  BY <1>11, <1>v DEF TaskFresh
<1> HIDE DEF t
<1>13. /\ StackFresh(walk', v) /\ (\A s \in Path : s # <<>> => Unread(walk', v \o s))
       /\ walk'.tree.dirs # <<>> /\ walk'.tree.dirs[1].parent = NoDir /\ walk'.into = t.id
       /\ walk'.tree.dirs[1].name = Last(v)
  BY <1>2, <1>3, <1>v, WalkFromFresh
<1>14. TreeFresh(walk, v)'
  BY <1>13 DEF TreeFresh
<1>15. IntoFresh(v)'
  BY <1>2, <1>3, <1>v, <1>11, <1>12, <1>13 DEF IntoFresh
<1>16. WalkOf(v)'
  BY <1>13, <1>14, <1>15 DEF WalkOf
<1>17. ASSUME NoRebuild', NEW p \in Seen
       PROVE  Shows(next', p, disk'[p]) \/ Pending(p)' \/ Due(next', plan', p) \/ Covered(p, v)'
  <2>1. NoRebuild
    BY <1>2, <1>4, <1>17 DEF NoRebuild
  <2>2. Shows(next, p, disk[p]) \/ Pending(p) \/ Due(next, plan, p)
    BY <1>2, <1>6, <2>1 DEF WorkFresh
  <2>3. ASSUME RescanDue(next, plan.rescans, p) PROVE RescanDue(next, left, p) \/ Covered(p, v)'
    <3>1. PICK j \in DOMAIN plan.rescans : /\ Under(plan.rescans[j].path, p)
                                           /\ LookupDir(next, plan.rescans[j].path) = plan.rescans[j].id
      BY <2>3 DEF RescanDue
    <3>2. CASE j = k
      BY <1>2, <1>v, <1>13, <3>1, <3>2 DEF Covered, t
    <3>3. CASE j # k
      BY <1>5, <3>1, <3>3 DEF RescanDue
    <3>4. QED BY <3>2, <3>3
  <2>4. QED BY <1>2, <1>4, <1>8, <2>2, <2>3 DEF Due
<1>18. WalkFresh'
  BY <1>3, <1>13, <1>16, <1>17 DEF WalkFresh
<1>19. IdleFresh' /\ WorkFresh'
  BY <1>2 DEF IdleFresh, WorkFresh
<1>20. QED BY <1>7, <1>9, <1>10, <1>18, <1>19 DEF FreshInv

\* So does a graft.
LEMMA BeginGraftFresh ==
  ASSUME NEW g, IInv, SiblingInv, FreshInv, g \in plan.grafts, BeginGraft(g)
  PROVE  FreshInv'
<1> DEFINE v == g.path
<1>1. PlanOK(plan, next)
  BY FreshFacts
<1>2. /\ pc = "work" /\ pc' = "graft"
      /\ disk' = disk /\ log' = log /\ sent' = sent /\ shared' = shared /\ next' = next /\ cut' = cut
      /\ walk' = WalkFrom(g.id, v)
      /\ plan' = [plan EXCEPT !.grafts = @ \ {g}]
  BY DEF BeginGraft
<1>3. v \in Path /\ v # <<>>
  BY FreshFacts DEF PlanPaths
<1>4. /\ plan'.rescans = plan.rescans /\ plan'.refresh = plan.refresh /\ plan'.grafts = plan.grafts \ {g}
      /\ plan'.full = plan.full
  BY <1>1, <1>2 DEF PlanOK
<1>6. RescansFresh /\ ListsFresh /\ GraftsFresh /\ WorkFresh
      /\ TreeDisk(disk) /\ LogFresh /\ Rooted(shared) /\ Rooted(next)
  BY DEF FreshInv
<1>7. RescansFresh' /\ ListsFresh'
  BY <1>2, <1>4, <1>6 DEF RescansFresh, ListsFresh, TaskFresh
<1>8. \A p : Pending(p) <=> Pending(p)'
  BY <1>2 DEF Pending
<1>9. GraftsFresh'
  BY <1>2, <1>4, <1>6, <1>8 DEF GraftsFresh, Room
<1>10. TreeDisk(disk)' /\ LogFresh' /\ Rooted(shared)' /\ Rooted(next)'
  BY <1>2, <1>6 DEF LogFresh
<1>11. v \in Paths /\ HasPath(next, g.id, Front(v)) /\ Room(next, g.id, v)
  BY <1>6 DEF GraftsFresh
<1>12. Room(next, g.id, v)'
  BY <1>2, <1>8, <1>11 DEF Room
<1>13. /\ StackFresh(walk', v) /\ (\A s \in Path : s # <<>> => Unread(walk', v \o s))
       /\ walk'.tree.dirs # <<>> /\ walk'.tree.dirs[1].parent = NoDir /\ walk'.into = g.id
       /\ walk'.tree.dirs[1].name = Last(v)
  <2> HIDE DEF v
  <2>1. QED BY <1>2, <1>3, WalkFromFresh DEF v
<1> HIDE DEF v
<1>14. TreeFresh(walk, v)'
  BY <1>13 DEF TreeFresh
<1>15. IntoFresh(v)'
  BY <1>2, <1>11, <1>12, <1>13 DEF IntoFresh
<1>16. WalkOf(v)'
  BY <1>13, <1>14, <1>15 DEF WalkOf
<1>17. ASSUME NoRebuild', NEW p \in Seen
       PROVE  Shows(next', p, disk'[p]) \/ Pending(p)' \/ Due(next', plan', p) \/ Covered(p, v)'
  <2>1. NoRebuild
    BY <1>2, <1>4, <1>17 DEF NoRebuild
  <2>2. Shows(next, p, disk[p]) \/ Pending(p) \/ Due(next, plan, p)
    BY <1>2, <1>6, <2>1 DEF WorkFresh
  <2>3. ASSUME GraftDue(next, plan.grafts, p) PROVE GraftDue(next, plan.grafts \ {g}, p) \/ Covered(p, v)'
    <3>1. PICK h \in plan.grafts : IsPrefix(h.path, p) /\ LookupDir(next, Front(h.path)) = h.id
      BY <2>3 DEF GraftDue
    <3>2. CASE h = g
      BY <1>2, <1>13, <3>1, <3>2 DEF Covered, v
    <3>3. CASE h # g
      BY <3>1, <3>3 DEF GraftDue
    <3>4. QED BY <3>2, <3>3
  <2>4. QED BY <1>2, <1>4, <1>8, <2>2, <2>3 DEF Due
<1>18. WalkFresh'
  BY <1>3, <1>13, <1>16, <1>17 DEF WalkFresh
<1>19. IdleFresh' /\ WorkFresh'
  BY <1>2 DEF IdleFresh, WorkFresh
<1>20. QED BY <1>7, <1>9, <1>10, <1>18, <1>19 DEF FreshInv

\* Nothing planned, nothing to keep.
LEMMA NoPlanFresh ==
  ASSUME plan = NoPlan
  PROVE  RescansFresh /\ ListsFresh /\ GraftsFresh
BY NoTasksLeft DEF RescansFresh, ListsFresh, GraftsFresh

\* A rebuild begins with everything still to be read.
LEMMA BeginRebuildFresh == IInv /\ SiblingInv /\ FreshInv /\ BeginRebuild => FreshInv'
<1> SUFFICES ASSUME IInv, SiblingInv, FreshInv, BeginRebuild PROVE FreshInv'
  OBVIOUS
<1> DEFINE v == <<>>
<1>2. /\ pc = "rebuild" /\ pc' = "scan"
      /\ disk' = disk /\ log' = log /\ shared' = shared /\ next' = next /\ plan' = plan
      /\ walk' = WalkFrom(NoDir, v)
  BY DEF BeginRebuild
<1>3. v \in Path
  BY PathEmpty
<1>4. plan' = NoPlan
  BY <1>2 DEF IInv, NextInv
<1>5. RescansFresh' /\ ListsFresh' /\ GraftsFresh'
  BY <1>4, NoTasksLeft DEF RescansFresh, ListsFresh, GraftsFresh
<1>6. TreeDisk(disk)' /\ LogFresh' /\ Rooted(shared)' /\ Rooted(next)'
  BY <1>2 DEF FreshInv, LogFresh
<1>13. /\ StackFresh(walk', v) /\ (\A s \in Path : s # <<>> => Unread(walk', v \o s))
       /\ walk'.tree.dirs # <<>> /\ walk'.tree.dirs[1].parent = NoDir
  <2> HIDE DEF v
  <2>1. QED BY <1>2, <1>3, WalkFromFresh
<1>v. v = <<>>
  OBVIOUS
<1> HIDE DEF v
<1>14. TreeFresh(walk, v)'
  BY <1>13 DEF TreeFresh
<1>15. IntoFresh(v)'
  BY <1>2, <1>v DEF IntoFresh
<1>16. WalkOf(v)'
  BY <1>13, <1>14, <1>15 DEF WalkOf
<1>18. WalkFresh'
  BY <1>2, <1>3, <1>13, <1>16 DEF WalkFresh
<1>19. IdleFresh' /\ WorkFresh'
  BY <1>2 DEF IdleFresh, WorkFresh
<1>20. QED BY <1>5, <1>6, <1>18, <1>19 DEF FreshInv

\* A finished scan shows the disk, but for what the thread is still to hear of.
LEMMA EndRebuildFresh == IInv /\ SiblingInv /\ FreshInv /\ EndRebuild => FreshInv'
<1> SUFFICES ASSUME IInv, SiblingInv, FreshInv, EndRebuild PROVE FreshInv'
  OBVIOUS
<1>2. /\ pc = "scan" /\ pc' = "idle" /\ walk.stack = <<>>
      /\ disk' = disk /\ log' = log /\ sent' = sent /\ plan' = plan
      /\ shared' = BaseOf(walk.tree) /\ next' = shared'
  BY DEF EndRebuild
<1>3. plan' = NoPlan
  BY <1>2 DEF IInv, NextInv
<1>4. RescansFresh' /\ ListsFresh' /\ GraftsFresh'
  BY <1>3, NoTasksLeft DEF RescansFresh, ListsFresh, GraftsFresh
<1>5. TreeDisk(disk)' /\ LogFresh'
  BY <1>2 DEF FreshInv, LogFresh
<1>6. Rooted(shared') /\ Rooted(next')
  <2>1. GoodTree(walk.tree)
    BY <1>2, FreshFacts
  <2>2. QED BY <1>2, <2>1, TreeBase
<1>7. PICK v \in Path : WalkOf(v)
  BY <1>2 DEF FreshInv, WalkFresh
<1>8. v = <<>>
  BY <1>2, <1>7 DEF WalkOf, IntoFresh
<1>9. \A p : Pending(p) <=> Pending(p)'
  BY <1>2 DEF Pending
<1>10. ASSUME NEW p \in Seen PROVE Shows(shared', p, disk'[p]) \/ Pending(p)'
  <2>1. p \in Paths /\ p \in Path /\ p # <<>> /\ v \o p = p
    BY <1>8, PathsParts, JoinEmpty DEF Seen
  <2>2. ~Unread(walk, p)
    BY <1>2 DEF Unread
  <2>3. Shows(BaseOf(walk.tree), p, disk[p]) \/ Pending(p)
    BY <1>7, <2>1, <2>2 DEF WalkOf, TreeFresh
  <2>4. QED BY <1>2, <1>9, <2>3
<1>11. IdleFresh' /\ WorkFresh' /\ WalkFresh'
  BY <1>2, <1>10 DEF IdleFresh, WorkFresh, WalkFresh
<1>12. QED BY <1>4, <1>5, <1>6, <1>11 DEF FreshInv

\* A batch is done when nothing of its plan is left and no rebuild is due.
LEMMA PublishFresh ==
  ASSUME IInv, SiblingInv, FreshInv, Publish, RebuildMayFail = FALSE
  PROVE  FreshInv'
<1>2. /\ pc = "work" /\ plan.rescans = NoTasks /\ plan.refresh = NoTasks /\ plan.grafts = {}
      /\ disk' = disk /\ log' = log /\ sent' = sent /\ shared' = next /\ next' = next
      /\ pc' = IF plan.full \/ DeltaLen(next) > CompactThreshold THEN "rebuild" ELSE "idle"
      /\ plan' = NoPlan
  BY DEF Publish
<1>4. RescansFresh' /\ ListsFresh' /\ GraftsFresh'
  BY <1>2, NoTasksLeft DEF RescansFresh, ListsFresh, GraftsFresh
<1>5. TreeDisk(disk)' /\ LogFresh' /\ Rooted(shared)' /\ Rooted(next)'
  BY <1>2 DEF FreshInv, LogFresh
<1>6. pc' = "idle" => NoRebuild
  BY <1>2 DEF IInv, CutInv, NoRebuild
<1>7. \A p : Pending(p) <=> Pending(p)'
  BY <1>2 DEF Pending
<1>8. ASSUME NEW p PROVE ~Due(next, plan, p)
  BY <1>2, NoTasksLeft DEF Due, RescanDue, RefreshDue, GraftDue
<1>9. ASSUME NoRebuild, NEW p \in Seen PROVE Shows(next, p, disk[p]) \/ Pending(p)
  BY <1>2, <1>8, <1>9 DEF FreshInv, WorkFresh
<1>10. IdleFresh'
  BY <1>2, <1>6, <1>7, <1>9 DEF IdleFresh
<1>11. WorkFresh' /\ WalkFresh'
  BY <1>2 DEF WorkFresh, WalkFresh
<1>12. QED BY <1>4, <1>5, <1>10, <1>11 DEF FreshInv
-----------------------------------------------------------------------------
(* What a traversal has read.                                              *)

\* What a directory found by a traversal is on its stack.
Found(w, i, order, j) == [id |-> Len(w.tree.dirs) + j, path |-> Append(w.stack[i].path, order[j])]

\* A traversal after one more directory, entry by entry.
LEMMA VisitParts ==
  ASSUME NEW w, WalkOK(w), NEW i \in DOMAIN w.stack,
         NEW e \in Listing, NEW order \in Orders(e.dirs)
  PROVE  LET x   == Visit(w, i, e, order)
             top == w.stack[i]
             n   == Len(w.tree.dirs)
             k   == Cardinality(e.dirs)
         IN  /\ n \in Nat /\ DOMAIN w.tree.dirs = 1 .. n /\ top.id \in 1 .. n /\ top.path \in Path
             /\ k \in Nat /\ order \in [1 .. k -> e.dirs] /\ e.dirs \subseteq Name
             /\ (\A j, h \in 1 .. k : order[j] = order[h] => j = h) /\ (\A y \in e.dirs : \E j \in 1 .. k : order[j] = y)
             /\ DOMAIN x.tree.dirs = 1 .. n + k
             /\ \A c \in 1 .. n : x.tree.dirs[c] = w.tree.dirs[c]
             /\ \A j \in 1 .. k : x.tree.dirs[n + j] = [name |-> order[j], parent |-> top.id]
<1> DEFINE td == w.tree.dirs   tf == w.tree.files   st == w.stack
           n  == Len(td)
           top == st[i]
           k  == Cardinality(e.dirs)
           kf == Cardinality(e.files)
           ds == [j \in 1 .. k |-> [name |-> order[j], parent |-> top.id]]
           fs == [j \in 1 .. kf |-> [name |-> SetToSeq(e.files)[j], parent |-> top.id]]
           ss == [j \in 1 .. k |-> [id |-> n + j, path |-> Append(top.path, order[j])]]
           rest == RemoveAt(st, i)
           x  == Visit(w, i, e, order)
           T  == [id : Nat, path : Path]
<1>1. /\ td \in Seq(Entry) /\ tf \in Seq(Entry) /\ st \in Seq([id : DOMAIN td, path : Path])
  BY DEF WalkOK, TreeInRange, Subtree
<1>2. IsFiniteSet(e.dirs) /\ IsFiniteSet(e.files) /\ e.dirs \subseteq Name /\ e.files \subseteq Name
  BY NameAssumption, FS_Subset DEF Listing
<1>3. /\ k \in Nat /\ order \in [1 .. k -> e.dirs] /\ Len(order) = k
      /\ \A a, b \in 1 .. k : order[a] = order[b] => a = b
  BY <1>2, ListOfSet, FunctionIsSeq DEF Orders, IsInjective
<1>4. \A y \in e.dirs : \E j \in 1 .. k : order[j] = y
  BY <1>2, <1>3, OntoSet
<1>5. /\ kf \in Nat /\ SetToSeq(e.files) \in [1 .. kf -> e.files] /\ Len(SetToSeq(e.files)) = kf
      /\ \A y \in e.files : \E j \in 1 .. kf : SetToSeq(e.files)[j] = y
  BY <1>2, ListOfSet, ListedAll, FunctionIsSeq
<1>6. x.tree.dirs = td \o ds /\ x.tree.files = tf \o fs /\ x.stack = rest \o ss
  BY <1>3, <1>5 DEF Visit
<1>7. /\ n \in Nat /\ Len(tf) \in Nat /\ Len(st) \in Nat
      /\ DOMAIN td = 1 .. n /\ DOMAIN tf = 1 .. Len(tf) /\ DOMAIN st = 1 .. Len(st)
  BY <1>1, LenProperties
<1>8. top.id \in 1 .. n /\ top.id \in Nat /\ top.path \in Path /\ i \in 1 .. Len(st)
  <2>1. st[i] \in [id : 1 .. n, path : Path]
    BY <1>1, <1>7, ElementOfSeq
  <2> HIDE DEF n
  <2>2. QED BY <2>1, <1>7
<1>9. ds \in [1 .. k -> Entry] /\ fs \in [1 .. kf -> Entry]
  <2> HIDE DEF top, k, kf, n
  <2>1. QED BY <1>2, <1>3, <1>5, <1>8 DEF Entry
<1> DEFINE E(j) == [name |-> order[j], parent |-> top.id]
           F(y) == [name |-> y, parent |-> top.id]
           S(j) == [id |-> n + j, path |-> Append(top.path, order[j])]
<1>12. /\ \A j \in 1 .. k : ds[j] = E(j) /\ ss[j] = S(j)
       /\ \A j \in 1 .. kf : fs[j] = F(SetToSeq(e.files)[j])
  OBVIOUS
<1> HIDE DEF td, tf, st, x, n, k, kf, T, top, ds, fs, ss
<1>13. /\ DOMAIN (td \o ds) = 1 .. n + k
       /\ \A c \in 1 .. n : (td \o ds)[c] = td[c]
       /\ \A c \in 1 .. k : (td \o ds)[n + c] = ds[c]
  BY <1>1, <1>3, <1>9, Appended DEF n
<1>24. \A j \in 1 .. k : (td \o ds)[n + j] = E(j)
  BY <1>12, <1>13
<1>25. /\ n \in Nat /\ DOMAIN td = 1 .. n /\ top.id \in 1 .. n /\ top.path \in Path
       /\ k \in Nat /\ order \in [1 .. k -> e.dirs] /\ e.dirs \subseteq Name
       /\ (\A a, b \in 1 .. k : order[a] = order[b] => a = b) /\ (\A y \in e.dirs : \E j \in 1 .. k : order[j] = y)
       /\ DOMAIN x.tree.dirs = 1 .. n + k
       /\ (\A c \in 1 .. n : x.tree.dirs[c] = td[c])
       /\ (\A j \in 1 .. k : x.tree.dirs[n + j] = E(j))
  BY <1>2, <1>3, <1>4, <1>6, <1>7, <1>8, <1>13, <1>24
<1>26. QED BY <1>25 DEF x, n, k, top, td, st

\* Its files: those it had, and those listed in the directory just read.
LEMMA VisitFiles ==
  ASSUME NEW w, WalkOK(w), NEW i \in DOMAIN w.stack,
         NEW e \in Listing, NEW order \in Orders(e.dirs)
  PROVE  LET x   == Visit(w, i, e, order)
             top == w.stack[i]
             n   == Len(w.tree.dirs)
             k   == Cardinality(e.dirs)
         IN  /\ \A f \in DOMAIN w.tree.files : f \in DOMAIN x.tree.files /\ x.tree.files[f] = w.tree.files[f]
             /\ \A y \in e.files : \E f \in DOMAIN x.tree.files : x.tree.files[f] = [name |-> y, parent |-> top.id]
             /\ \A f \in DOMAIN x.tree.files :
                  \/ f \in DOMAIN w.tree.files
                  \/ x.tree.files[f].parent = top.id /\ x.tree.files[f].name \in e.files
<1> DEFINE td == w.tree.dirs   tf == w.tree.files   st == w.stack
           n  == Len(td)
           top == st[i]
           k  == Cardinality(e.dirs)
           kf == Cardinality(e.files)
           ds == [j \in 1 .. k |-> [name |-> order[j], parent |-> top.id]]
           fs == [j \in 1 .. kf |-> [name |-> SetToSeq(e.files)[j], parent |-> top.id]]
           ss == [j \in 1 .. k |-> [id |-> n + j, path |-> Append(top.path, order[j])]]
           rest == RemoveAt(st, i)
           x  == Visit(w, i, e, order)
           T  == [id : Nat, path : Path]
<1>1. /\ td \in Seq(Entry) /\ tf \in Seq(Entry) /\ st \in Seq([id : DOMAIN td, path : Path])
  BY DEF WalkOK, TreeInRange, Subtree
<1>2. IsFiniteSet(e.dirs) /\ IsFiniteSet(e.files) /\ e.dirs \subseteq Name /\ e.files \subseteq Name
  BY NameAssumption, FS_Subset DEF Listing
<1>3. /\ k \in Nat /\ order \in [1 .. k -> e.dirs] /\ Len(order) = k
      /\ \A a, b \in 1 .. k : order[a] = order[b] => a = b
  BY <1>2, ListOfSet, FunctionIsSeq DEF Orders, IsInjective
<1>5. /\ kf \in Nat /\ SetToSeq(e.files) \in [1 .. kf -> e.files] /\ Len(SetToSeq(e.files)) = kf
      /\ \A y \in e.files : \E j \in 1 .. kf : SetToSeq(e.files)[j] = y
  BY <1>2, ListOfSet, ListedAll, FunctionIsSeq
<1>6. x.tree.dirs = td \o ds /\ x.tree.files = tf \o fs /\ x.stack = rest \o ss
  BY <1>3, <1>5 DEF Visit
<1>7. /\ n \in Nat /\ Len(tf) \in Nat /\ Len(st) \in Nat
      /\ DOMAIN td = 1 .. n /\ DOMAIN tf = 1 .. Len(tf) /\ DOMAIN st = 1 .. Len(st)
  BY <1>1, LenProperties
<1>8. top.id \in 1 .. n /\ top.id \in Nat /\ top.path \in Path /\ i \in 1 .. Len(st)
  <2>1. st[i] \in [id : 1 .. n, path : Path]
    BY <1>1, <1>7, ElementOfSeq
  <2> HIDE DEF n
  <2>2. QED BY <2>1, <1>7
<1>9. ds \in [1 .. k -> Entry] /\ fs \in [1 .. kf -> Entry]
  <2> HIDE DEF top, k, kf, n
  <2>1. QED BY <1>2, <1>3, <1>5, <1>8 DEF Entry
<1> DEFINE E(j) == [name |-> order[j], parent |-> top.id]
           F(y) == [name |-> y, parent |-> top.id]
           S(j) == [id |-> n + j, path |-> Append(top.path, order[j])]
<1>12. /\ \A j \in 1 .. k : ds[j] = E(j) /\ ss[j] = S(j)
       /\ \A j \in 1 .. kf : fs[j] = F(SetToSeq(e.files)[j])
  OBVIOUS
<1> HIDE DEF td, tf, st, x, n, k, kf, T, top, ds, fs, ss
<1>14. /\ DOMAIN (tf \o fs) = 1 .. Len(tf) + kf
       /\ \A c \in 1 .. Len(tf) : (tf \o fs)[c] = tf[c]
       /\ \A c \in 1 .. kf : (tf \o fs)[Len(tf) + c] = fs[c]
  BY <1>1, <1>5, <1>9, Appended
<1>18. \A c \in DOMAIN tf : c \in DOMAIN (tf \o fs) /\ (tf \o fs)[c] = tf[c]
  BY <1>5, <1>7, <1>14
<1>19. ASSUME NEW y \in e.files PROVE \E f \in DOMAIN (tf \o fs) : (tf \o fs)[f] = F(y)
  <2>1. PICK j \in 1 .. kf : SetToSeq(e.files)[j] = y
    BY <1>5
  <2>2. (tf \o fs)[Len(tf) + j] = F(y)
    BY <2>1, <1>12, <1>14
  <2>3. Len(tf) + j \in DOMAIN (tf \o fs)
    BY <1>5, <1>7, <1>14
  <2>4. QED BY <2>2, <2>3
<1>20. ASSUME NEW f \in DOMAIN (tf \o fs), f \notin DOMAIN tf
       PROVE  (tf \o fs)[f].parent = top.id /\ (tf \o fs)[f].name \in e.files
  <2> DEFINE j == f - Len(tf)
  <2>1. j \in 1 .. kf /\ Len(tf) + j = f
    BY <1>5, <1>7, <1>14, <1>20
  <2> HIDE DEF j
  <2>2. (tf \o fs)[f] = F(SetToSeq(e.files)[j])
    BY <2>1, <1>12, <1>14
  <2>3. SetToSeq(e.files)[j] \in e.files
    BY <2>1, <1>5
  <2>4. QED BY <2>2, <2>3
<1>26. /\ (\A y \in e.files : \E f \in DOMAIN x.tree.files : x.tree.files[f] = F(y))
       /\ (\A f \in DOMAIN x.tree.files : f \in DOMAIN tf \/ (x.tree.files[f].parent = top.id /\ x.tree.files[f].name \in e.files))
  BY <1>6, <1>19, <1>20
<1>27. QED BY <1>6, <1>18, <1>26 DEF x, top, tf, st

\* Its stack: what it was without that directory, and the directories listed there.
LEMMA VisitStack ==
  ASSUME NEW w, WalkOK(w), NEW i \in DOMAIN w.stack,
         NEW e \in Listing, NEW order \in Orders(e.dirs)
  PROVE  LET x   == Visit(w, i, e, order)
             top == w.stack[i]
             n   == Len(w.tree.dirs)
             k   == Cardinality(e.dirs)
         IN  /\ \A a \in DOMAIN x.stack :
                  \/ \E b \in DOMAIN w.stack : x.stack[a] = w.stack[b]
                  \/ \E j \in 1 .. k : x.stack[a] = Found(w, i, order, j)
             /\ \A b \in DOMAIN w.stack \ {i} : \E a \in DOMAIN x.stack : x.stack[a] = w.stack[b]
             /\ \A j \in 1 .. k : \E a \in DOMAIN x.stack : x.stack[a] = Found(w, i, order, j)
<1> DEFINE td == w.tree.dirs   tf == w.tree.files   st == w.stack
           n  == Len(td)
           top == st[i]
           k  == Cardinality(e.dirs)
           kf == Cardinality(e.files)
           ds == [j \in 1 .. k |-> [name |-> order[j], parent |-> top.id]]
           fs == [j \in 1 .. kf |-> [name |-> SetToSeq(e.files)[j], parent |-> top.id]]
           ss == [j \in 1 .. k |-> [id |-> n + j, path |-> Append(top.path, order[j])]]
           rest == RemoveAt(st, i)
           x  == Visit(w, i, e, order)
           T  == [id : Nat, path : Path]
<1>1. /\ td \in Seq(Entry) /\ tf \in Seq(Entry) /\ st \in Seq([id : DOMAIN td, path : Path])
  BY DEF WalkOK, TreeInRange, Subtree
<1>2. IsFiniteSet(e.dirs) /\ IsFiniteSet(e.files) /\ e.dirs \subseteq Name /\ e.files \subseteq Name
  BY NameAssumption, FS_Subset DEF Listing
<1>3. /\ k \in Nat /\ order \in [1 .. k -> e.dirs] /\ Len(order) = k
      /\ \A a, b \in 1 .. k : order[a] = order[b] => a = b
  BY <1>2, ListOfSet, FunctionIsSeq DEF Orders, IsInjective
<1>5. /\ kf \in Nat /\ SetToSeq(e.files) \in [1 .. kf -> e.files] /\ Len(SetToSeq(e.files)) = kf
      /\ \A y \in e.files : \E j \in 1 .. kf : SetToSeq(e.files)[j] = y
  BY <1>2, ListOfSet, ListedAll, FunctionIsSeq
<1>6. x.tree.dirs = td \o ds /\ x.tree.files = tf \o fs /\ x.stack = rest \o ss
  BY <1>3, <1>5 DEF Visit
<1>7. /\ n \in Nat /\ Len(tf) \in Nat /\ Len(st) \in Nat
      /\ DOMAIN td = 1 .. n /\ DOMAIN tf = 1 .. Len(tf) /\ DOMAIN st = 1 .. Len(st)
  BY <1>1, LenProperties
<1>8. top.id \in 1 .. n /\ top.id \in Nat /\ top.path \in Path /\ i \in 1 .. Len(st)
  <2>1. st[i] \in [id : 1 .. n, path : Path]
    BY <1>1, <1>7, ElementOfSeq
  <2> HIDE DEF n
  <2>2. QED BY <2>1, <1>7
<1>10. ss \in [1 .. k -> T]
  <2>1. ASSUME NEW a \in 1 .. k PROVE n + a \in Nat /\ Append(top.path, order[a]) \in Path
    <3> HIDE DEF top, k, n
    <3>1. order[a] \in Name
      BY <1>2, <1>3
    <3>2. Append(top.path, order[a]) \in Path
      BY <3>1, <1>8, PathParts
    <3>3. QED BY <3>2, <1>3, <1>7
  <2> HIDE DEF n, top, k
  <2>2. QED BY <2>1
<1>11. st \in Seq(T)
  <2>1. [id : DOMAIN td, path : Path] \subseteq T
    <3> HIDE DEF n
    <3>1. QED BY <1>7
  <2> HIDE DEF T
  <2>2. QED BY <2>1, <1>1, SeqMonotonic
<1> DEFINE E(j) == [name |-> order[j], parent |-> top.id]
           F(y) == [name |-> y, parent |-> top.id]
           S(j) == [id |-> n + j, path |-> Append(top.path, order[j])]
<1>12. /\ \A j \in 1 .. k : ds[j] = E(j) /\ ss[j] = S(j)
       /\ \A j \in 1 .. kf : fs[j] = F(SetToSeq(e.files)[j])
  OBVIOUS
<1> HIDE DEF td, tf, st, x, n, k, kf, T, top, ds, fs, ss
<1>15. rest \in Seq(T) /\ Len(rest) = Len(st) - 1 /\ Len(rest) \in Nat
  <2>1. rest \in Seq(T) /\ Len(rest) = Len(st) - 1
    BY <1>8, <1>11, RemoveAtSafe
  <2>2. QED BY <2>1, <1>7, <1>8
<1>16. \A a \in 1 .. Len(st) - 1 : rest[a] = st[IF a < i THEN a ELSE a + 1]
  BY <1>8, <1>11, RemoveAtElements
<1> HIDE DEF rest
<1>17. /\ DOMAIN (rest \o ss) = 1 .. Len(rest) + k
       /\ \A c \in 1 .. Len(rest) : (rest \o ss)[c] = rest[c]
       /\ \A c \in 1 .. k : (rest \o ss)[Len(rest) + c] = ss[c]
  <2>1. rest \in Seq(T) /\ k \in Nat /\ ss \in [1 .. k -> T]
    BY <1>15, <1>3, <1>10
  <2>2. QED BY ONLY <2>1, Appended
<1>21. ASSUME NEW a \in DOMAIN (rest \o ss)
       PROVE  \/ \E b \in DOMAIN st : (rest \o ss)[a] = st[b]
              \/ \E j \in 1 .. k : (rest \o ss)[a] = S(j)
  <2>1. CASE a <= Len(rest)
    <3> DEFINE b == IF a < i THEN a ELSE a + 1
    <3>1. a \in 1 .. Len(st) - 1 /\ a \in 1 .. Len(rest)
      BY <2>1, <1>15, <1>17, <1>3
    <3>2. b \in DOMAIN st
      BY <3>1, <1>7, <1>8
    <3>3. (rest \o ss)[a] = st[b]
      BY <3>1, <1>16, <1>17
    <3> HIDE DEF b
    <3>4. QED BY <3>2, <3>3
  <2>2. CASE ~(a <= Len(rest))
    <3> DEFINE j == a - Len(rest)
    <3>1. j \in 1 .. k /\ Len(rest) + j = a
      BY <2>2, <1>3, <1>15, <1>17
    <3> HIDE DEF j
    <3>2. (rest \o ss)[a] = S(j)
      BY <3>1, <1>12, <1>17
    <3>3. QED BY <3>1, <3>2
  <2>3. QED BY <2>1, <2>2
<1>22. ASSUME NEW b \in DOMAIN st \ {i} PROVE \E a \in DOMAIN (rest \o ss) : (rest \o ss)[a] = st[b]
  <2> DEFINE a == IF b < i THEN b ELSE b - 1
  <2>1. a \in 1 .. Len(st) - 1 /\ (IF a < i THEN a ELSE a + 1) = b
    BY <1>7, <1>8
  <2> HIDE DEF a
  <2>2. rest[a] = st[b]
    BY <2>1, <1>16
  <2>3. a \in 1 .. Len(rest) /\ a \in DOMAIN (rest \o ss)
    BY <2>1, <1>3, <1>15, <1>17
  <2>4. QED BY <2>2, <2>3, <1>17
<1>23. ASSUME NEW j \in 1 .. k PROVE \E a \in DOMAIN (rest \o ss) : (rest \o ss)[a] = S(j)
  <2>1. Len(rest) + j \in DOMAIN (rest \o ss)
    BY <1>3, <1>15, <1>17
  <2>2. (rest \o ss)[Len(rest) + j] = S(j)
    BY <1>12, <1>17
  <2>3. QED BY <2>1, <2>2
<1>27. /\ (\A a \in DOMAIN x.stack : (\E b \in DOMAIN st : x.stack[a] = st[b]) \/ (\E j \in 1 .. k : x.stack[a] = S(j)))
       /\ (\A b \in DOMAIN st \ {i} : \E a \in DOMAIN x.stack : x.stack[a] = st[b])
       /\ (\A j \in 1 .. k : \E a \in DOMAIN x.stack : x.stack[a] = S(j))
  BY <1>6, <1>21, <1>22, <1>23
<1>f. \A j : S(j) = Found(w, i, order, j)
  BY DEF Found, n, top, td, st
<1>g. /\ (\A a \in DOMAIN x.stack : (\E b \in DOMAIN st : x.stack[a] = st[b]) \/ (\E j \in 1 .. k : x.stack[a] = Found(w, i, order, j)))
      /\ (\A j \in 1 .. k : \E a \in DOMAIN x.stack : x.stack[a] = Found(w, i, order, j))
  <2> HIDE DEF S
  <2>1. QED BY <1>27, <1>f
<1>28. QED BY <1>27, <1>g DEF x, k, st

\* What a traversal finds below a directory of its tree: all stays, but below
\* the directory just read there is what was listed.
LEMMA VisitNamed ==
  ASSUME NEW w, WalkOK(w), GoodTree(w.tree), StackOnce(w), NEW i \in DOMAIN w.stack,
         NEW e \in Listing, NEW order \in Orders(e.dirs)
  PROVE  LET x   == Visit(w, i, e, order)
             b   == BaseOf(w.tree)
             c   == BaseOf(x.tree)
             top == w.stack[i]
             n   == Len(w.tree.dirs)
         IN  /\ GoodTree(x.tree)
             /\ \A d : \A y : d # top.id => Named(c, d, y) = Named(b, d, y)
             /\ \A y : Named(b, top.id, y) = {}
             /\ \A y : \A g : g \in Named(c, top.id, y) <=> \E j \in 1 .. Cardinality(e.dirs) : g = n + j /\ order[j] = y
             /\ \A d : d # top.id => FilesNamed(c, d) = FilesNamed(b, d)
             /\ FilesNamed(c, top.id) = e.files
             /\ \A d : FilesNamed(b, d) # {} => d \in 1 .. n
             /\ FilesNamed(b, top.id) = {}
             /\ \A d : \A y : Named(b, d, y) # {} => d \in 0 .. n
<1> DEFINE x   == Visit(w, i, e, order)
           b   == BaseOf(w.tree)
           c   == BaseOf(x.tree)
           top == w.stack[i]
           n   == Len(w.tree.dirs)
           k   == Cardinality(e.dirs)
<1>1. TreeOnce(w.tree)
  BY DEF GoodTree
<1>2. WalkOK(x) /\ TreeOnce(x.tree) /\ x.tree.dirs # <<>> /\ x.tree.dirs[1] = w.tree.dirs[1]
  <2>1. WalkOK(x)
    BY VisitSafe
  <2>2. TreeOnce(x.tree) /\ x.tree.dirs # <<>> /\ x.tree.dirs[1] = w.tree.dirs[1]
    BY <1>1, VisitOnce
  <2>3. QED BY <2>1, <2>2
<1>3. GoodTree(x.tree)
  <2> HIDE DEF x
  <2>1. QED BY <1>2 DEF GoodTree, WalkOK
<1>4. /\ n \in Nat /\ DOMAIN w.tree.dirs = 1 .. n /\ top.id \in 1 .. n
      /\ k \in Nat /\ DOMAIN x.tree.dirs = 1 .. n + k
      /\ \A g \in 1 .. n : x.tree.dirs[g] = w.tree.dirs[g]
      /\ \A j \in 1 .. k : x.tree.dirs[n + j] = [name |-> order[j], parent |-> top.id]
  BY VisitParts
<1>n. \A j \in 1 .. k : x.tree.dirs[n + j].name = order[j] /\ x.tree.dirs[n + j].parent = top.id
  <2> DEFINE E(j) == [name |-> order[j], parent |-> top.id]
  <2>1. \A j \in 1 .. k : x.tree.dirs[n + j] = E(j)
    BY <1>4
  <2>2. \A j : E(j).name = order[j] /\ E(j).parent = top.id
    OBVIOUS
  <2> HIDE DEF x, n, k, top, E
  <2>3. QED BY <2>1, <2>2
<1>5. /\ \A f \in DOMAIN w.tree.files : f \in DOMAIN x.tree.files /\ x.tree.files[f] = w.tree.files[f]
      /\ \A y \in e.files : \E f \in DOMAIN x.tree.files : x.tree.files[f] = [name |-> y, parent |-> top.id]
      /\ \A f \in DOMAIN x.tree.files :
           f \in DOMAIN w.tree.files \/ (x.tree.files[f].parent = top.id /\ x.tree.files[f].name \in e.files)
  BY VisitFiles
<1>6. /\ \A g \in DOMAIN w.tree.dirs : w.tree.dirs[g].parent # top.id
      /\ \A f \in DOMAIN w.tree.files : w.tree.files[f].parent # top.id
  BY DEF StackOnce
<1>7. /\ \A g \in DOMAIN w.tree.dirs : w.tree.dirs[g].parent \in 0 .. n
      /\ \A f \in DOMAIN w.tree.files : w.tree.files[f].parent \in 1 .. n
  <2>1. /\ \A g \in DOMAIN w.tree.dirs : w.tree.dirs[g].parent \in {NoDir} \cup 1 .. n
        /\ \A f \in DOMAIN w.tree.files : w.tree.files[f].parent \in 1 .. n
    <3> HIDE DEF n
    <3>1. QED BY <1>4 DEF WalkOK, TreeInRange
  <2> HIDE DEF n
  <2>2. QED BY <2>1, <1>4 DEF NoDir
<1>8. /\ b.dirs = w.tree.dirs /\ b.files = w.tree.files /\ c.dirs = x.tree.dirs /\ c.files = x.tree.files
      /\ b.deadDirs = {} /\ b.deadFiles = {} /\ c.deadDirs = {} /\ c.deadFiles = {}
  BY DEF BaseOf
<1> HIDE DEF x, b, c, n, k
<1>9. /\ \A d : \A y : Named(b, d, y) = {g \in DOMAIN w.tree.dirs : w.tree.dirs[g].parent = d /\ w.tree.dirs[g].name = y}
      /\ \A d : \A y : Named(c, d, y) = {g \in DOMAIN x.tree.dirs : x.tree.dirs[g].parent = d /\ x.tree.dirs[g].name = y}
  BY <1>8 DEF Named, ChildDirs, AliveDirs
<1>10. /\ \A d : FilesInDir(b, d) = {f \in DOMAIN w.tree.files : w.tree.files[f].parent = d}
       /\ \A d : FilesInDir(c, d) = {f \in DOMAIN x.tree.files : x.tree.files[f].parent = d}
  BY <1>8 DEF FilesInDir, AliveFiles
<1> HIDE DEF top
<1>11. \A g \in DOMAIN x.tree.dirs : g \in 1 .. n \/ \E j \in 1 .. k : g = n + j
  <2>1. ASSUME NEW g \in 1 .. n + k, g \notin 1 .. n PROVE \E j \in 1 .. k : g = n + j
    <3>1. g - n \in 1 .. k /\ g = n + (g - n)
      BY <1>4, <2>1
    <3>2. QED BY <3>1
  <2>2. QED BY <1>4, <2>1
<1>12. \A j \in 1 .. k : n + j \in DOMAIN x.tree.dirs
  BY <1>4
<1>13. ASSUME NEW d, NEW y, d # top.id PROVE Named(c, d, y) = Named(b, d, y)
  <2>1. \A g \in 1 .. n : g \in DOMAIN x.tree.dirs
    BY <1>4
  <2>2. \A g : g \in Named(c, d, y) => g \in Named(b, d, y)
    <3>1. TAKE g
    <3>2. HAVE g \in Named(c, d, y)
    <3>3. g \in DOMAIN x.tree.dirs /\ x.tree.dirs[g].parent = d /\ x.tree.dirs[g].name = y
      BY <3>2, <1>9
    <3>4. g \in 1 .. n
      BY <3>3, <1>11, <1>n, <1>13
    <3>5. x.tree.dirs[g] = w.tree.dirs[g] /\ g \in DOMAIN w.tree.dirs
      BY <3>4, <1>4
    <3>6. QED BY <3>3, <3>5, <1>9
  <2>3. \A g : g \in Named(b, d, y) => g \in Named(c, d, y)
    BY <2>1, <1>4, <1>9
  <2>4. QED BY <2>2, <2>3
<1>14. ASSUME NEW y PROVE Named(b, top.id, y) = {}
  BY <1>6, <1>9
<1>15. ASSUME NEW y, NEW g PROVE g \in Named(c, top.id, y) <=> \E j \in 1 .. k : g = n + j /\ order[j] = y
  <2>1. ASSUME g \in Named(c, top.id, y) PROVE \E j \in 1 .. k : g = n + j /\ order[j] = y
    <3>1. g \in DOMAIN x.tree.dirs /\ x.tree.dirs[g].parent = top.id /\ x.tree.dirs[g].name = y
      BY <2>1, <1>9
    <3>2. g \notin 1 .. n
      BY <3>1, <1>4, <1>6
    <3>3. PICK j \in 1 .. k : g = n + j
      BY <3>1, <3>2, <1>11
    <3>4. x.tree.dirs[n + j].name = order[j]
      BY <1>n
    <3>5. QED BY <3>1, <3>3, <3>4
  <2>2. ASSUME NEW j \in 1 .. k, g = n + j, order[j] = y PROVE g \in Named(c, top.id, y)
    BY <2>2, <1>n, <1>9, <1>12
  <2>3. QED BY <2>1, <2>2
<1>16. ASSUME NEW d, d # top.id PROVE FilesNamed(c, d) = FilesNamed(b, d)
  <2>1. \A f : f \in FilesInDir(c, d) <=> f \in FilesInDir(b, d)
    BY <1>5, <1>10, <1>16
  <2>2. FilesInDir(c, d) = FilesInDir(b, d)
    BY <2>1
  <2>3. \A f \in FilesInDir(b, d) : c.files[f] = b.files[f]
    BY <1>5, <1>8, <1>10
  <2>4. QED BY <2>2, <2>3 DEF FilesNamed, NamesOf
<1>17. FilesNamed(c, top.id) = e.files
  <2>1. \A f \in FilesInDir(c, top.id) : c.files[f].name \in e.files
    BY <1>5, <1>6, <1>8, <1>10
  <2>2. ASSUME NEW y \in e.files PROVE \E f \in FilesInDir(c, top.id) : c.files[f].name = y
    <3>1. PICK f \in DOMAIN x.tree.files : x.tree.files[f] = [name |-> y, parent |-> top.id]
      BY <1>5
    <3>2. f \in FilesInDir(c, top.id) /\ c.files[f].name = y
      BY <3>1, <1>8, <1>10
    <3>3. QED BY <3>2
  <2>3. QED BY <2>1, <2>2 DEF FilesNamed, NamesOf
<1>18. ASSUME NEW d, FilesNamed(b, d) # {} PROVE d \in 1 .. n
  <2>1. FilesInDir(b, d) # {}
    BY <1>18 DEF FilesNamed, NamesOf
  <2>2. QED BY <2>1, <1>7, <1>10
<1>19. FilesNamed(b, top.id) = {}
  BY <1>6, <1>10 DEF FilesNamed, NamesOf
<1>20. ASSUME NEW d, NEW y, Named(b, d, y) # {} PROVE d \in 0 .. n
  BY <1>7, <1>9, <1>20
<1>21. QED
  <2>1. /\ \A d : \A y : d # top.id => Named(c, d, y) = Named(b, d, y)
        /\ \A y : Named(b, top.id, y) = {}
        /\ \A y : \A g : g \in Named(c, top.id, y) <=> \E j \in 1 .. k : g = n + j /\ order[j] = y
    BY <1>13, <1>14, <1>15
  <2>2. /\ \A d : d # top.id => FilesNamed(c, d) = FilesNamed(b, d)
        /\ \A d : FilesNamed(b, d) # {} => d \in 1 .. n
        /\ \A d : \A y : Named(b, d, y) # {} => d \in 0 .. n
    BY <1>16, <1>18, <1>20
  <2>3. QED BY <1>3, <1>17, <1>19, <2>1, <2>2 DEF x, b, c, n, k, top

\* What a traversal shows after one more directory: below that one what was
\* listed, elsewhere what it showed before.
LEMMA VisitLooks ==
  ASSUME NEW w, WalkOK(w), GoodTree(w.tree), StackOnce(w), NEW i \in DOMAIN w.stack,
         NEW e \in Listing, NEW order \in Orders(e.dirs),
         NEW u \in Path, LookupDir(BaseOf(w.tree), u) = w.stack[i].id
  PROVE  LET x == Visit(w, i, e, order)
             b == BaseOf(w.tree)
             c == BaseOf(x.tree)
         IN  /\ \A s \in Path : ~Under(u, s) => LookupDir(c, s) = LookupDir(b, s)
             /\ \A j \in 1 .. Cardinality(e.dirs) : LookupDir(c, Append(u, order[j])) = Len(w.tree.dirs) + j
             /\ \A y \in Name \ e.dirs : LookupDir(c, Append(u, y)) = NoDir
             /\ \A s \in Path : Under(u, s) => LookupDir(b, s) = NoDir
             /\ \A y \in Name : \A s \in Path : Under(Append(u, y), s) => LookupDir(c, s) = NoDir
             /\ \A s \in Path : s # <<>> => (FileIn(c, s) <=> IF Front(s) = u THEN Last(s) \in e.files ELSE FileIn(b, s))
<1> DEFINE x   == Visit(w, i, e, order)
           b   == BaseOf(w.tree)
           c   == BaseOf(x.tree)
           top == w.stack[i]
           n   == Len(w.tree.dirs)
           k   == Cardinality(e.dirs)
<1>1. /\ GoodTree(x.tree)
      /\ \A d : \A y : d # top.id => Named(c, d, y) = Named(b, d, y)
      /\ \A y : Named(b, top.id, y) = {}
      /\ \A y : \A g : g \in Named(c, top.id, y) <=> \E j \in 1 .. k : g = n + j /\ order[j] = y
      /\ \A d : d # top.id => FilesNamed(c, d) = FilesNamed(b, d)
      /\ FilesNamed(c, top.id) = e.files
      /\ \A d : FilesNamed(b, d) # {} => d \in 1 .. n
      /\ FilesNamed(b, top.id) = {}
      /\ \A d : \A y : Named(b, d, y) # {} => d \in 0 .. n
  BY VisitNamed
<1>2. n \in Nat /\ k \in Nat /\ top.id \in 1 .. n /\ order \in [1 .. k -> e.dirs] /\ e.dirs \subseteq Name
  BY VisitParts
<1>o. \A y \in e.dirs : \E j \in 1 .. k : order[j] = y
  BY VisitParts
<1>p. w.tree.dirs # <<>> /\ b = BaseOf(w.tree) /\ c = BaseOf(x.tree) /\ LookupDir(b, u) = top.id
  BY DEF GoodTree
<1> HIDE DEF x
<1>3. Rooted(b) /\ SiblingsApart(b) /\ InRange(b)
  BY TreeBase
<1>4. Rooted(c) /\ SiblingsApart(c) /\ InRange(c)
  BY <1>1, TreeBase
<1> HIDE DEF b, c, n, k, top
<1>5. top.id # NoDir
  BY <1>2 DEF NoDir
<1>6. ASSUME NEW v \in Path, LookupDir(b, v) = top.id PROVE v = u
  BY <1>p, <1>3, <1>5, <1>6, LookOnce
<1>7. ASSUME NEW s \in Path, ~Under(u, s) PROVE LookupDir(c, s) = LookupDir(b, s)
  <2>1. ASSUME NEW v \in Path, NEW y \in Name, IsPrefix(Append(v, y), s), LookupDir(b, v) # NoDir
        PROVE  Named(c, LookupDir(b, v), y) = Named(b, LookupDir(b, v), y)
    <3>1. v # u
      <4>1. SUFFICES ASSUME v = u PROVE FALSE
        OBVIOUS
      <4>2. Append(u, y) \in Path /\ Under(u, Append(u, y))
        BY PathAppend, UnderFront, PrefixSelf
      <4>3. IsPrefix(u, s)
        BY <2>1, <4>1, <4>2, PrefixFurther DEF Under
      <4>4. u = s
        BY <4>3, <1>7 DEF Under
      <4>5. IsPrefix(Append(u, y), u) /\ IsPrefix(u, Append(u, y))
        BY <2>1, <4>1, <4>2, <4>4 DEF Under
      <4>6. QED BY <4>2, <4>5, PrefixBoth DEF Under
    <3>2. LookupDir(b, v) # top.id
      BY <3>1, <1>6
    <3>3. QED BY <3>2, <1>1
  <2>2. QED BY <1>3, <1>4, <2>1, LookSame
<1>8. LookupDir(c, u) = top.id
  <2>1. ~Under(u, u)
    BY DEF Under
  <2>2. QED BY <2>1, <1>7, <1>p
<1>9. ASSUME NEW j \in 1 .. k PROVE LookupDir(c, Append(u, order[j])) = n + j
  <2>1. order[j] \in Name
    BY <1>2
  <2>2. n + j \in Named(c, top.id, order[j])
    BY <1>1
  <2>3. Step(c, top.id, order[j]) = n + j
    BY <2>2, <1>4, <1>5, StepOnly
  <2>4. QED BY <2>1, <2>3, <1>4, <1>8, LookStep
<1>10. ASSUME NEW y \in Name \ e.dirs PROVE LookupDir(c, Append(u, y)) = NoDir
  <2>1. Named(c, top.id, y) = {}
    BY <1>1, <1>2
  <2>2. QED BY <2>1, <1>4, <1>8, LookStep DEF Step
<1>11. ASSUME NEW s \in Path, Under(u, s) PROVE LookupDir(b, s) = NoDir
  <2> DEFINE z == s[Len(u) + 1]
  <2>1. z \in Name /\ IsPrefix(Append(u, z), s)
    BY <1>11, UnderStep
  <2> HIDE DEF z
  <2>2. Append(u, z) \in Path
    BY <2>1, PathAppend
  <2>3. LookupDir(b, Append(u, z)) = NoDir
    BY <2>1, <1>1, <1>3, <1>p, LookStep DEF Step
  <2>4. QED BY <2>1, <2>2, <2>3, <1>3, LookPrefix
<1>12. ASSUME NEW y \in Name PROVE LookupDir(c, Append(u, y)) = NoDir \/ \E j \in 1 .. k : LookupDir(c, Append(u, y)) = n + j
  <2>1. CASE y \notin e.dirs
    BY <2>1, <1>10
  <2>2. CASE y \in e.dirs
    <3>1. PICK j \in 1 .. k : order[j] = y
      BY <2>2, <1>o
    <3>2. QED BY <3>1, <1>9
  <2>3. QED BY <2>1, <2>2
<1>13. ASSUME NEW y \in Name, NEW s \in Path, Under(Append(u, y), s) PROVE LookupDir(c, s) = NoDir
  <2> DEFINE v == Append(u, y)   z == s[Len(v) + 1]
  <2>1. v \in Path
    BY PathAppend
  <2>v. LookupDir(c, v) = NoDir \/ \E j \in 1 .. k : LookupDir(c, v) = n + j
    BY <1>12
  <2>u. Under(v, s)
    BY <1>13
  <2> HIDE DEF v
  <2>2. z \in Name /\ IsPrefix(Append(v, z), s)
    BY <2>1, <2>u, UnderStep
  <2> HIDE DEF z
  <2>3. Append(v, z) \in Path
    BY <2>1, <2>2, PathAppend
  <2>4. Step(c, LookupDir(c, v), z) = NoDir
    <3>1. CASE LookupDir(c, v) = NoDir
      BY <3>1 DEF Step
    <3>2. ASSUME NEW j \in 1 .. k, LookupDir(c, v) = n + j PROVE Step(c, LookupDir(c, v), z) = NoDir
      <4>1. n + j # top.id /\ n + j \notin 0 .. n
        BY <1>2
      <4>2. Named(c, n + j, z) = Named(b, n + j, z) /\ Named(b, n + j, z) = {}
        BY <4>1, <1>1
      <4>3. QED BY <3>2, <4>2 DEF Step
    <3>3. QED BY <2>v, <3>1, <3>2
  <2>5. LookupDir(c, Append(v, z)) = NoDir
    BY <2>1, <2>2, <2>4, <1>4, LookStep
  <2>6. QED BY <2>2, <2>3, <2>5, <1>4, LookPrefix
<1>14. ASSUME NEW s \in Path, s # <<>>
       PROVE  FileIn(c, s) <=> IF Front(s) = u THEN Last(s) \in e.files ELSE FileIn(b, s)
  <2>1. PICK v \in Path : v = Front(s)
    BY <1>14, PathEnds
  <2>2. /\ FileIn(c, s) <=> Last(s) \in FilesNamed(c, LookupDir(c, v))
        /\ FileIn(b, s) <=> Last(s) \in FilesNamed(b, LookupDir(b, v))
    BY <2>1, FileInNamed
  <2>3. CASE v = u
    BY <2>1, <2>2, <2>3, <1>1, <1>8
  <2>4. CASE v # u /\ ~Under(u, v)
    <3>1. LookupDir(c, v) = LookupDir(b, v) /\ LookupDir(b, v) # top.id
      BY <2>1, <2>4, <1>6, <1>7
    <3>2. QED BY <2>1, <2>2, <2>4, <3>1, <1>1
  <2>5. CASE v # u /\ Under(u, v)
    <3>1. LookupDir(b, v) = NoDir
      BY <2>1, <2>5, <1>11
    <3>2. FilesNamed(b, NoDir) = {}
      BY <1>1, <1>2 DEF NoDir
    <3>3. FilesNamed(c, NoDir) = {}
      BY <1>1, <1>5, <3>2
    <3>4. ASSUME NEW j \in 1 .. k PROVE FilesNamed(c, n + j) = {}
      <4>1. n + j # top.id /\ n + j \notin 1 .. n
        BY <1>2
      <4>2. QED BY <4>1, <1>1
    <3>5. FilesNamed(c, LookupDir(c, v)) = {}
      <4> DEFINE z == v[Len(u) + 1]
      <4>1. z \in Name /\ IsPrefix(Append(u, z), v)
        BY <2>1, <2>5, UnderStep
      <4> HIDE DEF z
      <4>2. CASE v = Append(u, z)
        BY <4>1, <4>2, <1>12, <3>3, <3>4
      <4>3. CASE v # Append(u, z)
        <5>1. Under(Append(u, z), v)
          BY <4>1, <4>3 DEF Under
        <5>2. QED BY <2>1, <4>1, <5>1, <1>13, <3>3
      <4>4. QED BY <4>2, <4>3
    <3>6. QED BY <2>1, <2>2, <2>5, <3>1, <3>2, <3>5
  <2>6. QED BY <2>3, <2>4, <2>5
<1>15. QED BY <1>7, <1>9, <1>10, <1>11, <1>13, <1>14 DEF b, c, n, k, x

\* Reading one more directory of the disk: what is in it is shown, and what is
\* below that is still to be read.
LEMMA ReadOneFresh ==
  ASSUME NEW v \in Path, NEW i \in DOMAIN walk.stack, ReadOne(i), TreeDisk(disk),
         WalkOK(walk), GoodTree(walk.tree), StackOnce(walk), StackFresh(walk, v), TreeFresh(walk, v)
  PROVE  StackFresh(walk', v) /\ TreeFresh(walk', v) /\ GoodTree(walk'.tree)
<1> DEFINE e == ListDisk(walk.stack[i].path)
<1>1. PICK order \in Orders(e.dirs) : walk' = Visit(walk, i, e, order)
  BY DEF ReadOne
<1>2. e \in Listing
  BY ListDiskType
<1>3. PICK u \in Path : walk.stack[i].path = v \o u /\ LookupDir(BaseOf(walk.tree), u) = walk.stack[i].id
  BY DEF StackFresh
<1> DEFINE x   == walk'
           b   == BaseOf(walk.tree)
           c   == BaseOf(x.tree)
           n   == Len(walk.tree.dirs)
           k   == Cardinality(e.dirs)
           q   == v \o u
           top == walk.stack[i]
<1>4. /\ n \in Nat /\ DOMAIN walk.tree.dirs = 1 .. n /\ top.id \in 1 .. n /\ top.path \in Path
      /\ k \in Nat /\ order \in [1 .. k -> e.dirs] /\ e.dirs \subseteq Name
      /\ \A y \in e.dirs : \E j \in 1 .. k : order[j] = y
  BY <1>2, VisitParts
<1> DEFINE N(j) == Found(walk, i, order, j)
<1>5. /\ \A a \in DOMAIN x.stack : (\E d \in DOMAIN walk.stack : x.stack[a] = walk.stack[d]) \/ (\E j \in 1 .. k : x.stack[a] = N(j))
      /\ \A d \in DOMAIN walk.stack \ {i} : \E a \in DOMAIN x.stack : x.stack[a] = walk.stack[d]
      /\ \A j \in 1 .. k : \E a \in DOMAIN x.stack : x.stack[a] = N(j)
  <2> DEFINE y == Visit(walk, i, e, order)
  <2>1. \A a \in DOMAIN y.stack : (\E d \in DOMAIN walk.stack : y.stack[a] = walk.stack[d]) \/ (\E j \in 1 .. k : y.stack[a] = N(j))
    BY <1>2, VisitStack
  <2>2. \A d \in DOMAIN walk.stack \ {i} : \E a \in DOMAIN y.stack : y.stack[a] = walk.stack[d]
    BY <1>2, VisitStack
  <2>3. \A j \in 1 .. k : \E a \in DOMAIN y.stack : y.stack[a] = N(j)
    BY <1>2, VisitStack
  <2>4. x = y
    BY <1>1
  <2> HIDE DEF x, y, N, n, k, e, top
  <2>5. QED BY <2>1, <2>2, <2>3, <2>4
<1>6. GoodTree(x.tree)
  BY <1>1, <1>2, VisitNamed
<1>7. /\ \A s \in Path : ~Under(u, s) => LookupDir(c, s) = LookupDir(b, s)
      /\ \A j \in 1 .. k : LookupDir(c, Append(u, order[j])) = n + j
      /\ \A y \in Name \ e.dirs : LookupDir(c, Append(u, y)) = NoDir
      /\ \A s \in Path : Under(u, s) => LookupDir(b, s) = NoDir
      /\ \A y \in Name : \A s \in Path : Under(Append(u, y), s) => LookupDir(c, s) = NoDir
      /\ \A s \in Path : s # <<>> => (FileIn(c, s) <=> IF Front(s) = u THEN Last(s) \in e.files ELSE FileIn(b, s))
  BY <1>1, <1>2, <1>3, VisitLooks
<1>8. q \in Path /\ top.path = q /\ e = ListDisk(q)
  BY <1>3, PathJoin
<1>9. /\ \A y \in Name : Append(q, y) \in Paths =>
           /\ y \in e.dirs <=> disk[Append(q, y)] = "dir" /\ IsDir(q)
           /\ y \in e.files <=> disk[Append(q, y)] = "file" /\ IsDir(q)
      /\ \A p \in Paths : Under(q, p) /\ ~IsDir(q) => disk[p] = "none"
  <2> HIDE DEF q, e
  <2>1. QED BY <1>8, ListingSays
<1>10. \A y \in Name : v \o Append(u, y) = Append(q, y)
  BY JoinStep
<1>11. Rooted(b) /\ InRange(b)
  BY TreeBase
<1>12. \A d \in DOMAIN walk.stack : walk.stack[d].id # NoDir
  <2>1. walk.stack \in Seq([id : DOMAIN walk.tree.dirs, path : Path])
    BY DEF WalkOK
  <2>2. \A d \in DOMAIN walk.stack : walk.stack[d] \in [id : DOMAIN walk.tree.dirs, path : Path]
    BY <2>1, LenProperties, ElementOfSeq
  <2>3. \A d \in DOMAIN walk.stack : walk.stack[d].id \in 1 .. n
    BY <2>2, <1>4
  <2>4. QED BY <2>3, <1>4 DEF NoDir
<1>s. \A d \in DOMAIN walk.stack : \E z \in Path : walk.stack[d].path = v \o z /\ LookupDir(b, z) = walk.stack[d].id
  BY DEF StackFresh
<1>t. \A s \in Path : s # <<>> /\ v \o s \in Paths => Shows(b, s, disk[v \o s]) \/ Pending(v \o s) \/ Unread(walk, v \o s)
  BY DEF TreeFresh
<1>n. \A j : N(j).id = n + j /\ N(j).path = Append(top.path, order[j])
  BY DEF Found
<1> HIDE DEF x, b, c, n, k, e, q, top, N
<1>13. ASSUME NEW a \in DOMAIN x.stack
       PROVE  \E z \in Path : x.stack[a].path = v \o z /\ LookupDir(c, z) = x.stack[a].id
  <2>1. ASSUME NEW d \in DOMAIN walk.stack, x.stack[a] = walk.stack[d]
        PROVE  \E z \in Path : x.stack[a].path = v \o z /\ LookupDir(c, z) = x.stack[a].id
    <3>1. PICK z \in Path : walk.stack[d].path = v \o z /\ LookupDir(b, z) = walk.stack[d].id
      BY <1>s
    <3>2. ~Under(u, z)
      BY <3>1, <1>7, <1>12
    <3>3. QED BY <2>1, <3>1, <3>2, <1>7
  <2>2. ASSUME NEW j \in 1 .. k, x.stack[a] = N(j)
        PROVE  \E z \in Path : x.stack[a].path = v \o z /\ LookupDir(c, z) = x.stack[a].id
    <3>1. order[j] \in Name
      BY <1>4
    <3>2. Append(u, order[j]) \in Path
      BY <3>1, PathAppend
    <3>3. x.stack[a].path = v \o Append(u, order[j]) /\ x.stack[a].id = n + j
      BY <2>2, <3>1, <1>n, <1>8, <1>10
    <3>4. QED BY <3>2, <3>3, <1>7
  <2>3. QED BY <2>1, <2>2, <1>5
<1>14. ASSUME NEW s \in Path, s # <<>>, v \o s \in Paths
       PROVE  Shows(c, s, disk[v \o s]) \/ Pending(v \o s) \/ Unread(x, v \o s)
  <2> DEFINE y == Last(s)   f == Front(s)
  <2>1. f \in Path /\ y \in Name /\ s = Append(f, y)
    BY <1>14, PathEnds
  <2>p. PICK p \in Paths : p = v \o s
    BY <1>14
  <2>l. FileIn(c, s) <=> IF f = u THEN y \in e.files ELSE FileIn(b, s)
    BY <1>7, <1>14
  <2>d. disk[p] \in {"none", "file", "dir"}
    BY DEF TreeDisk
  <2>q. Under(q, p) <=> Under(u, s)
    BY <2>p, JoinUnder DEF q
  <2> HIDE DEF y, f
  <2>2. CASE f = u
    <3>1. p = Append(q, y) /\ Under(u, s)
      <4>1. p = Append(q, y)
        BY <2>1, <2>2, <2>p, <1>10
      <4>2. Under(u, s)
        BY <2>1, <2>2, UnderFront, PrefixSelf
      <4>3. QED BY <4>1, <4>2
    <3>2. y \in e.dirs <=> LookupDir(c, s) # NoDir
      <4>1. CASE y \in e.dirs
        <5>1. PICK j \in 1 .. k : order[j] = y
          BY <4>1, <1>4
        <5>2. LookupDir(c, s) = n + j /\ n + j # NoDir
          BY <2>1, <2>2, <5>1, <1>4, <1>7 DEF NoDir
        <5>3. QED BY <4>1, <5>2
      <4>2. CASE y \notin e.dirs
        BY <2>1, <2>2, <4>2, <1>7
      <4>3. QED BY <4>1, <4>2
    <3>3. CASE IsDir(q)
      BY <2>1, <2>2, <2>l, <2>p, <3>1, <3>2, <3>3, <1>9 DEF Shows
    <3>4. CASE ~IsDir(q)
      <4>1. disk[p] = "none" /\ y \notin e.dirs /\ y \notin e.files
        BY <2>1, <2>q, <3>1, <3>4, <1>9
      <4>2. QED BY <2>2, <2>l, <2>p, <3>2, <4>1 DEF Shows
    <3>5. QED BY <3>3, <3>4
  <2>3. CASE f # u /\ Under(u, s)
    <3> DEFINE z == s[Len(u) + 1]
    <3>1. z \in Name /\ IsPrefix(Append(u, z), s)
      BY <2>3, UnderStep
    <3> HIDE DEF z
    <3>2. Under(Append(u, z), s)
      <4>1. Append(u, z) # s
        BY <2>1, <2>3, <3>1, PathSplit
      <4>2. QED BY <3>1, <4>1 DEF Under
    <3>3. Append(u, z) \in Path /\ v \o Append(u, z) = Append(q, z)
      BY <3>1, PathAppend, <1>10
    <3>4. Under(Append(q, z), p)
      <4>1. PICK g \in Path : g = Append(u, z)
        BY <3>3
      <4>2. Under(v \o g, v \o s)
        BY <3>2, <4>1, JoinUnder
      <4>3. QED BY <2>p, <3>3, <4>1, <4>2
    <3>5. CASE z \in e.dirs
      <4>1. PICK j \in 1 .. k : order[j] = z
        BY <3>5, <1>4
      <4>2. PICK a \in DOMAIN x.stack : x.stack[a] = N(j)
        BY <1>5
      <4>3. x.stack[a].path = Append(q, z)
        BY <4>1, <4>2, <1>n, <1>8
      <4>4. QED BY <2>p, <3>4, <4>3 DEF Unread
    <3>6. CASE z \notin e.dirs
      <4> DEFINE r == Append(q, z)
      <4>1. r \in Path /\ r # <<>> /\ Front(r) = q /\ Last(r) = z
        BY <3>1, <1>8, PathAppend
      <4>r. r = Append(q, z) /\ Under(r, p)
        BY <3>4
      <4> HIDE DEF r
      <4>2. r \in Paths
        BY <4>1, <4>r, PathsParts DEF Under
      <4>3. disk[r] # "dir"
        <5>1. SUFFICES ASSUME disk[r] = "dir" PROVE FALSE
          OBVIOUS
        <5>2. q # <<>> => q \in Paths /\ disk[q] = "dir"
          BY <4>1, <4>2, <5>1 DEF TreeDisk
        <5>3. IsDir(q)
          BY <5>2 DEF IsDir
        <5>4. QED BY <3>1, <3>6, <4>2, <4>r, <5>1, <5>3, <1>9
      <4>4. disk[p] = "none"
        BY <4>1, <4>3, <4>r, NothingUnder
      <4>5. LookupDir(c, s) = NoDir
        BY <3>1, <3>2, <1>7
      <4>6. ~FileIn(c, s)
        <5>1. Under(u, f)
          BY <2>1, <2>3, UnderFront DEF Under
        <5>2. LookupDir(b, f) = NoDir
          BY <2>1, <5>1, <1>7
        <5>3. ~FileIn(b, s)
          BY <5>2, <1>11, FileFound DEF f
        <5>4. QED BY <2>3, <2>l, <5>3
      <4>7. QED BY <2>p, <4>4, <4>5, <4>6 DEF Shows
    <3>7. QED BY <3>5, <3>6
  <2>4. CASE ~Under(u, s)
    <3>1. f # u
      BY <2>1, <2>4, UnderFront, PrefixSelf
    <3>2. LookupDir(c, s) = LookupDir(b, s) /\ (FileIn(c, s) <=> FileIn(b, s))
      BY <2>4, <2>l, <3>1, <1>7
    <3>3. Unread(walk, p) => Unread(x, p)
      <4>1. HAVE Unread(walk, p)
      <4>2. PICK d \in DOMAIN walk.stack : Under(walk.stack[d].path, p)
        BY <4>1 DEF Unread
      <4>3. d # i
        BY <2>4, <2>q, <4>2, <1>8 DEF top
      <4>4. PICK a \in DOMAIN x.stack : x.stack[a] = walk.stack[d]
        BY <4>3, <1>5
      <4>5. QED BY <4>2, <4>4 DEF Unread
    <3>4. Shows(b, s, disk[v \o s]) \/ Pending(v \o s) \/ Unread(walk, v \o s)
      BY <1>14, <1>t
    <3>5. QED BY <2>p, <3>2, <3>3, <3>4 DEF Shows
  <2>5. QED BY <2>2, <2>3, <2>4
<1>15. StackFresh(x, v)
  BY <1>13 DEF StackFresh, c
<1>16. TreeFresh(x, v)
  BY <1>14 DEF TreeFresh, c
<1>17. QED BY <1>6, <1>15, <1>16 DEF x

\* Whichever directory a traversal reads next, the invariant holds.
LEMMA ReadingFresh ==
  ASSUME IInv, SiblingInv, FreshInv, ReadSubtree \/ ScanOne
  PROVE  FreshInv'
<1>1. PICK i \in DOMAIN walk.stack : ReadOne(i)
  <2>1. CASE ReadSubtree
    <3>1. walk.stack # <<>> /\ ReadOne(Len(walk.stack))
      BY <2>1 DEF ReadSubtree
    <3>2. walk.stack \in Seq([id : DOMAIN walk.tree.dirs, path : Path])
      BY FreshFacts
    <3>3. Len(walk.stack) \in DOMAIN walk.stack
      BY <3>1, <3>2, LenProperties, EmptySeq
    <3>4. QED BY <3>1, <3>3
  <2>2. CASE ScanOne
    BY <2>2 DEF ScanOne
  <2>3. QED BY <2>1, <2>2
<1>2. /\ pc \in {"rescan", "graft", "scan"} /\ pc' = pc
      /\ disk' = disk /\ log' = log /\ sent' = sent /\ shared' = shared /\ next' = next
      /\ plan' = plan /\ cut' = cut
  BY DEF ReadSubtree, ScanOne
<1>3. WalkOK(walk) /\ GoodTree(walk.tree) /\ StackOnce(walk) /\ TreeDisk(disk) /\ TreeOnce(walk.tree)
  BY <1>2, FreshFacts
<1>4. walk'.into = walk.into /\ walk'.tree.dirs # <<>> /\ walk'.tree.dirs[1] = walk.tree.dirs[1]
  BY <1>1, <1>3, ReadOneOnce
<1>5. PICK v \in Path : /\ WalkOf(v)
                        /\ pc # "scan" /\ NoRebuild =>
                             \A p \in Seen : \/ Shows(next, p, disk[p]) \/ Pending(p)
                                             \/ Due(next, plan, p) \/ Covered(p, v)
  BY <1>2 DEF FreshInv, WalkFresh
<1>6. StackFresh(walk', v) /\ TreeFresh(walk', v)
  BY <1>1, <1>3, <1>5, ReadOneFresh DEF WalkOf
<1>7. \A p : Pending(p) <=> Pending(p)'
  BY <1>2 DEF Pending
<1>8. TreeFresh(walk, v)'
  BY <1>2, <1>6, <1>7 DEF TreeFresh
<1>9. \A l, id, p : Room(l, id, p) <=> Room(l, id, p)'
  BY <1>2, <1>7 DEF Room
<1>10. IntoFresh(v)'
  BY <1>2, <1>4, <1>5, <1>9 DEF WalkOf, IntoFresh
<1>11. WalkOf(v)'
  BY <1>6, <1>8, <1>10 DEF WalkOf
<1>12. \A p : Covered(p, v) <=> Covered(p, v)'
  BY <1>2, <1>4 DEF Covered
<1>13. NoRebuild <=> NoRebuild'
  BY <1>2 DEF NoRebuild
<1>14. walk'.tree.dirs[1].parent = NoDir
  BY <1>3, <1>4 DEF GoodTree
<1>15. WalkFresh'
  BY <1>2, <1>4, <1>5, <1>7, <1>11, <1>12, <1>13, <1>14 DEF WalkFresh
<1>16. RescansFresh' /\ ListsFresh' /\ GraftsFresh'
  BY <1>2, <1>9 DEF FreshInv, RescansFresh, ListsFresh, GraftsFresh, TaskFresh
<1>17. TreeDisk(disk)' /\ LogFresh' /\ Rooted(shared)' /\ Rooted(next)'
  BY <1>2 DEF FreshInv, LogFresh
<1>18. IdleFresh' /\ WorkFresh'
  BY <1>2 DEF IdleFresh, WorkFresh
<1>19. QED BY <1>15, <1>16, <1>17, <1>18 DEF FreshInv
-----------------------------------------------------------------------------
(* A subtree that was read is applied.                                     *)

\* A directory that m shows and l has, l shows at the same path.
Narrows(l, m) == \A u \in Path : LookupDir(m, u) \in DOMAIN l.dirs => LookupDir(l, u) = LookupDir(m, u)

\* An id keeps its path where nothing is found elsewhere than before.
LEMMA HasPathKept ==
  ASSUME NEW l, NEW m, Narrows(l, m), NEW id \in DOMAIN l.dirs, NEW p, HasPath(l, id, p)
  PROVE  HasPath(m, id, p)
BY DEF Narrows, HasPath

\* Snapshots that show the same do so.
LEMMA SameNarrows ==
  ASSUME NEW l, NEW m, SameLooks(l, m)
  PROVE  Narrows(l, m)
BY DEF Narrows, SameLooks

\* What hangs at q is new.
LEMMA HungNew ==
  ASSUME NEW l, InRange(l), NEW m, NEW q \in Path, NEW b, Rooted(b), Hung(l, m, q, b)
  PROVE  /\ \A u \in Path : IsPrefix(q, u) => LookupDir(m, u) \notin DOMAIN l.dirs
         /\ Narrows(l, m) /\ LookupDir(m, q) # NoDir
<1> DEFINE n == Len(l.dirs)
<1>1. n \in Nat /\ DOMAIN l.dirs = 1 .. n
  BY LenProperties DEF InRange, Snapshot
<1>2. \A s \in Path : LookupDir(b, s) # NoDir => LookupDir(b, s) \in Nat \ {0}
  <2>1. DOMAIN b.dirs \subseteq Nat
    BY RootedParts
  <2>2. \A s \in Path : LookupDir(b, s) \in {NoDir} \cup DOMAIN b.dirs
    BY LookupInRange
  <2>3. QED BY <2>1, <2>2 DEF NoDir
<1>3. /\ \A p \in Path : ~IsPrefix(q, p) => LookupDir(m, p) = LookupDir(l, p)
      /\ \A s \in Path : LookupDir(m, q \o s) = IF LookupDir(b, s) = NoDir THEN NoDir ELSE n + LookupDir(b, s)
  BY DEF Hung
<1> HIDE DEF n
<1>4. ASSUME NEW u \in Path, IsPrefix(q, u) PROVE LookupDir(m, u) \notin DOMAIN l.dirs
  <2>1. PICK s \in Path : u = q \o s
    BY <1>4, PrefixJoin
  <2>2. LookupDir(m, u) = IF LookupDir(b, s) = NoDir THEN NoDir ELSE n + LookupDir(b, s)
    BY <2>1, <1>3
  <2>3. QED BY <2>2, <1>1, <1>2 DEF NoDir
<1>5. Narrows(l, m)
  BY <1>3, <1>4 DEF Narrows
<1>6. LookupDir(m, q) # NoDir
  <2>1. PICK s \in Path : s = <<>> /\ q \o s = q
    BY PathEmpty, JoinEmpty
  <2>2. LookupDir(b, s) = 1
    BY <2>1, LookRoot DEF Root
  <2>3. LookupDir(m, q) = n + 1
    <3>1. LookupDir(m, q \o s) = IF LookupDir(b, s) = NoDir THEN NoDir ELSE n + LookupDir(b, s)
      BY <1>3
    <3>2. LookupDir(m, q \o s) = n + 1
      BY <3>1, <2>2 DEF NoDir
    <3>3. QED BY <3>2, <2>1
  <2>4. QED BY <2>3, <1>1 DEF NoDir
<1>7. QED BY <1>4, <1>5, <1>6

\* What is above a path that q does not lead to is as it was.
LEMMA HungAbove ==
  ASSUME NEW l, NEW m, NEW q \in Path, NEW b, Hung(l, m, q, b), NEW p \in Path, ~Under(q, p)
  PROVE  SameAbove(l, m, p) /\ (p # <<>> => (FileIn(m, p) <=> FileIn(l, p)))
<1>1. ASSUME NEW u \in Path, Under(u, p), IsPrefix(q, u) PROVE FALSE
  <2>1. IsPrefix(q, p)
    BY <1>1, PrefixFurther DEF Under
  <2>2. q = p
    BY <2>1 DEF Under
  <2>3. QED BY <1>1, <2>2, PrefixBoth DEF Under
<1>2. \A u \in Path : Under(u, p) => LookupDir(m, u) = LookupDir(l, u)
  BY <1>1 DEF Hung
<1>3. QED BY <1>2 DEF SameAbove, Hung

\* What a finished traversal has read is shown where it hangs.
LEMMA HungShows ==
  ASSUME NEW l, NEW m, NEW v \in Path, Hung(l, m, v, BaseOf(walk.tree)), InRange(l), GoodTree(walk.tree),
         TreeFresh(walk, v), walk.stack = <<>>, NEW p \in Paths, Under(v, p)
  PROVE  Shows(m, p, disk[p]) \/ Pending(p)
<1> DEFINE b == BaseOf(walk.tree)
<1>1. PICK s \in Path : p = v \o s
  BY PrefixJoin, PathsParts DEF Under
<1>2. s # <<>>
  BY <1>1, JoinUnder
<1>3. Shows(b, s, disk[p]) \/ Pending(p) \/ Unread(walk, p)
  BY <1>1, <1>2 DEF TreeFresh
<1>4. ~Unread(walk, p)
  BY DEF Unread
<1>5. Rooted(b)
  BY TreeBase
<1>6. b = BaseOf(walk.tree)
  OBVIOUS
<1> HIDE DEF b
<1>7. /\ LookupDir(m, p) = IF LookupDir(b, s) = NoDir THEN NoDir ELSE Len(l.dirs) + LookupDir(b, s)
      /\ FileIn(m, p) <=> FileIn(b, s)
  BY <1>1, <1>2, <1>6 DEF Hung
<1>8. LookupDir(m, p) # NoDir <=> LookupDir(b, s) # NoDir
  <2>1. Len(l.dirs) \in Nat
    BY LenProperties DEF InRange, Snapshot
  <2>2. LookupDir(b, s) \in {NoDir} \cup DOMAIN b.dirs /\ DOMAIN b.dirs \subseteq Nat
    BY <1>5, LookupInRange, RootedParts
  <2>3. QED BY <2>1, <2>2, <1>7 DEF NoDir
<1>9. QED BY <1>3, <1>4, <1>7, <1>8 DEF Shows

\* An entry stays as it is while the snapshot grows.
LEMMA ExtendsEntry ==
  ASSUME NEW l, InRange(l), NEW m, Extends(l, m), NEW id \in DOMAIN l.dirs
  PROVE  m.dirs[id] = l.dirs[id]
<1>1. l.dirs \in Seq(Entry) /\ IsPrefix(l.dirs, m.dirs)
  BY DEF InRange, Snapshot, Extends
<1>2. QED BY <1>1, LenProperties DEF IsPrefix

\* A snapshot that shows the same everywhere keeps what the invariant says.
LEMMA SameFresh ==
  ASSUME IInv, SiblingInv, FreshInv, NEW m, SameLooks(next, m), Extends(next, m)
  PROVE  /\ \A id \in DOMAIN next.dirs : \A p : HasPath(next, id, p) => HasPath(m, id, p)
         /\ \A k \in DOMAIN plan.rescans : Whole(m, plan.rescans[k].id, plan.rescans[k].path)
         /\ \A g \in plan.grafts : Room(m, g.id, g.path)
         /\ \A p \in Seen : Shows(next, p, disk[p]) => Shows(m, p, disk[p])
         /\ \A p \in Seen : Due(next, plan, p) => Due(m, plan, p)
<1> USE DEF SameLooks
<1>1. InRange(next) /\ PlanPaths(plan)
      /\ (\A k \in DOMAIN plan.rescans : plan.rescans[k].id \in DOMAIN next.dirs /\ plan.rescans[k].path # <<>>)
  BY FreshFacts
<1>2. Seen \subseteq Path /\ <<>> \notin Seen
  BY PathsParts DEF Seen
<1>3. \A id \in DOMAIN next.dirs : \A p : HasPath(next, id, p) => HasPath(m, id, p)
  BY SameNarrows, HasPathKept
<1>4. ASSUME NEW k \in DOMAIN plan.rescans PROVE Whole(m, plan.rescans[k].id, plan.rescans[k].path)
  <2> DEFINE id == plan.rescans[k].id   p == plan.rescans[k].path
  <2>1. Whole(next, id, p)
    BY DEF FreshInv, RescansFresh
  <2>2. id \in DOMAIN next.dirs /\ p \in Path /\ p # <<>>
    BY <1>1 DEF PlanPaths
  <2> HIDE DEF id, p
  <2>3. m.dirs[id] = next.dirs[id]
    BY <1>1, <2>2, ExtendsEntry
  <2>4. Front(p) \in Path
    BY <2>2, PathEnds
  <2>5. HasPath(m, next.dirs[id].parent, Front(p))
    BY <2>1 DEF Whole, HasPath
  <2>6. QED BY <2>1, <2>2, <2>3, <2>4, <2>5 DEF Whole, id, p
<1>5. ASSUME NEW g \in plan.grafts PROVE Room(m, g.id, g.path)
  <2>1. Room(next, g.id, g.path)
    BY DEF FreshInv, GraftsFresh
  <2>2. g.path \in Path /\ g.path # <<>> /\ Front(g.path) \in Path
    BY <1>1, PathEnds DEF PlanPaths
  <2>3. QED BY <2>1, <2>2 DEF Room
<1>6. ASSUME NEW p \in Seen, Shows(next, p, disk[p]) PROVE Shows(m, p, disk[p])
  BY <1>2, <1>6 DEF Shows
<1>7. ASSUME NEW p \in Seen, Due(next, plan, p) PROVE Due(m, plan, p)
  BY <1>1, <1>2, <1>7, SameLooksAbove, DueKept
<1>8. QED BY <1>3, <1>4, <1>5, <1>6, <1>7

\* The same of one that shows a tree at v, for what is not in the way of it.
LEMMA HungFresh ==
  ASSUME IInv, SiblingInv, FreshInv, NEW m, NEW v \in Path, Hung(next, m, v, BaseOf(walk.tree)),
         GoodTree(walk.tree), Extends(next, m)
  PROVE  /\ \A id \in DOMAIN next.dirs : \A p : HasPath(next, id, p) => HasPath(m, id, p)
         /\ \A k \in DOMAIN plan.rescans : plan.rescans[k].id # LookupDir(next, v)
              => Whole(m, plan.rescans[k].id, plan.rescans[k].path)
         /\ \A g \in plan.grafts : Room(m, g.id, g.path)
         /\ \A p \in Seen : ~Under(v, p) /\ Due(next, plan, p) => Due(m, plan, p)
         /\ \A p \in Seen : ~IsPrefix(v, p) /\ Shows(next, p, disk[p]) => Shows(m, p, disk[p])
<1> DEFINE b == BaseOf(walk.tree)
<1>1. InRange(next) /\ PlanPaths(plan)
      /\ (\A k \in DOMAIN plan.rescans : plan.rescans[k].id \in DOMAIN next.dirs /\ plan.rescans[k].path # <<>>)
      /\ (\A g \in plan.grafts : g.id \in DOMAIN next.dirs)
  BY FreshFacts
<1>2. Seen \subseteq Path /\ <<>> \notin Seen
  BY PathsParts DEF Seen
<1>3. Rooted(b) /\ Hung(next, m, v, b)
  BY TreeBase
<1> HIDE DEF b
<1>4. /\ \A u \in Path : IsPrefix(v, u) => LookupDir(m, u) \notin DOMAIN next.dirs
      /\ Narrows(next, m)
  BY <1>1, <1>3, HungNew
<1>5. /\ \A p \in Path : ~IsPrefix(v, p) => LookupDir(m, p) = LookupDir(next, p)
      /\ \A p \in Path : p # <<>> /\ ~Under(v, p) => (FileIn(m, p) <=> FileIn(next, p))
  BY <1>3 DEF Hung
<1>6. \A id \in DOMAIN next.dirs : \A p : HasPath(next, id, p) => HasPath(m, id, p)
  BY <1>4, HasPathKept
<1>7. ASSUME NEW k \in DOMAIN plan.rescans, plan.rescans[k].id # LookupDir(next, v)
      PROVE  Whole(m, plan.rescans[k].id, plan.rescans[k].path)
  <2>1. Whole(next, plan.rescans[k].id, plan.rescans[k].path)
    BY DEF FreshInv, RescansFresh
  <2>2. plan.rescans[k].id \in DOMAIN next.dirs /\ plan.rescans[k].path \in Path /\ plan.rescans[k].path # <<>>
    BY <1>1 DEF PlanPaths
  <2>p. PICK id \in DOMAIN next.dirs, p \in Path : id = plan.rescans[k].id /\ p = plan.rescans[k].path
    BY <2>2
  <2>3. m.dirs[id] = next.dirs[id]
    BY <1>1, ExtendsEntry
  <2>f. PICK f \in Path : f = Front(p) /\ p = Append(f, Last(p)) /\ Last(p) \in Name
    BY <2>2, <2>p, PathEnds
  <2> DEFINE d == next.dirs[id].parent
  <2>4. d # NoDir /\ HasPath(next, d, f) /\ (LookupDir(next, f) = d => LookupDir(next, p) = id)
    BY <2>1, <2>p, <2>f DEF Whole
  <2>5. d \in DOMAIN next.dirs
    BY <1>1, <2>4 DEF InRange
  <2> HIDE DEF d
  <2>6. HasPath(m, d, f)
    BY <2>4, <2>5, <1>6
  <2>7. ASSUME LookupDir(m, f) = d PROVE LookupDir(m, p) = id
    <3>1. LookupDir(next, f) = d
      BY <2>5, <2>7, <1>4 DEF Narrows
    <3>2. LookupDir(next, p) = id
      BY <2>4, <3>1
    <3>3. ~IsPrefix(v, f)
      BY <2>5, <2>7, <1>4
    <3>4. ~IsPrefix(v, p)
      <4>1. p # v
        BY <1>7, <2>p, <3>2
      <4>2. QED BY <2>f, <3>3, <4>1, PrefixStep
    <3>5. QED BY <3>2, <3>4, <1>5
  <2>8. QED BY <2>3, <2>4, <2>6, <2>7, <2>p, <2>f DEF Whole, d
<1>8. ASSUME NEW g \in plan.grafts PROVE Room(m, g.id, g.path)
  <2>1. Room(next, g.id, g.path) /\ g.id \in DOMAIN next.dirs
    BY <1>1 DEF FreshInv, GraftsFresh
  <2>2. g.path \in Path /\ g.path # <<>>
    BY <1>1 DEF PlanPaths
  <2>p. PICK p \in Path : p = g.path
    BY <2>2
  <2>f. PICK f \in Path : f = Front(p) /\ p = Append(f, Last(p)) /\ Last(p) \in Name
    BY <2>2, <2>p, PathEnds
  <2>3. ASSUME LookupDir(m, f) = g.id PROVE Pending(p) \/ (disk[p] = "dir" /\ ~FileIn(m, p))
    <3>1. LookupDir(next, f) = g.id
      BY <2>1, <2>3, <1>4 DEF Narrows
    <3>2. ~IsPrefix(v, f)
      BY <2>1, <2>3, <1>4
    <3>3. ~Under(v, p)
      BY <2>f, <3>2, UnderFront
    <3>4. FileIn(m, p) <=> FileIn(next, p)
      BY <2>2, <2>p, <3>3, <1>5
    <3>5. QED BY <2>1, <2>p, <2>f, <3>1, <3>4 DEF Room
  <2>4. QED BY <2>3, <2>p, <2>f DEF Room
<1>9. ASSUME NEW p \in Seen, ~Under(v, p), Due(next, plan, p) PROVE Due(m, plan, p)
  <2>1. SameAbove(next, m, p)
    BY <1>2, <1>3, <1>9, HungAbove
  <2>2. QED BY <1>1, <1>2, <1>9, <2>1, DueKept
<1>10. ASSUME NEW p \in Seen, ~IsPrefix(v, p), Shows(next, p, disk[p]) PROVE Shows(m, p, disk[p])
  <2>1. ~Under(v, p)
    BY <1>10 DEF Under
  <2>2. QED BY <1>2, <1>5, <1>10, <2>1 DEF Shows
<1>11. QED BY <1>6, <1>7, <1>8, <1>9, <1>10

\* A step that ends a traversal and leaves the rest of the plan.
LEMMA WorkAgainFresh ==
  ASSUME IInv, SiblingInv, FreshInv,
         pc' = "work", disk' = disk, log' = log, sent' = sent, shared' = shared, plan' = plan,
         Rooted(next'),
         \A id \in DOMAIN next.dirs : \A p : HasPath(next, id, p) => HasPath(next', id, p),
         \A k \in DOMAIN plan.rescans : Whole(next', plan.rescans[k].id, plan.rescans[k].path),
         \A g \in plan.grafts : Room(next', g.id, g.path),
         NoRebuild' => \A p \in Seen : Shows(next', p, disk[p]) \/ Pending(p) \/ Due(next', plan, p)
  PROVE  FreshInv'
<1>1. /\ (\A k \in DOMAIN plan.rescans : plan.rescans[k].id \in DOMAIN next.dirs)
      /\ (\A k \in DOMAIN plan.refresh : plan.refresh[k].id \in DOMAIN next.dirs)
      /\ (\A g \in plan.grafts : g.id \in DOMAIN next.dirs)
      /\ TreeDisk(disk) /\ LogFresh /\ Rooted(shared)
  BY FreshFacts
<1>2. RescansFresh /\ ListsFresh /\ GraftsFresh
  BY DEF FreshInv
<1>3. \A p : Pending(p) <=> Pending(p)'
  BY DEF Pending
<1>4. RescansFresh'
  BY <1>1, <1>2 DEF RescansFresh, TaskFresh
<1>5. ListsFresh'
  BY <1>1, <1>2 DEF ListsFresh, TaskFresh
<1>6. GraftsFresh'
  <2>1. \A g \in plan.grafts : g.path \in Paths /\ HasPath(next', g.id, Front(g.path))
    BY <1>1, <1>2 DEF GraftsFresh
  <2>2. \A l, id, p : Room(l, id, p) <=> Room(l, id, p)'
    BY <1>3 DEF Room
  <2>3. \A g \in plan.grafts : Room(next', g.id, g.path)
    OBVIOUS
  <2>4. \A g \in plan.grafts : Room(next, g.id, g.path)'
    BY <2>3, <1>3 DEF Room
  <2>5. QED BY <2>1, <2>4 DEF GraftsFresh
<1>7. WorkFresh'
  BY <1>3 DEF WorkFresh
<1>8. IdleFresh' /\ WalkFresh'
  BY DEF IdleFresh, WalkFresh
<1>9. TreeDisk(disk)' /\ LogFresh' /\ Rooted(shared)' /\ Rooted(next)'
  BY <1>1 DEF LogFresh
<1>10. QED BY <1>4, <1>5, <1>6, <1>7, <1>8, <1>9 DEF FreshInv

\* What EndSubtree makes of the copy.
LEMMA EndSubtreeFacts ==
  ASSUME IInv, SiblingInv, FreshInv, EndSubtree
  PROVE  /\ pc \in {"rescan", "graft"} /\ GoodTree(walk.tree) /\ walk.into \in DOMAIN next.dirs
         /\ pc' = "work" /\ disk' = disk /\ log' = log /\ sent' = sent /\ shared' = shared /\ plan' = plan
         /\ cut' = (cut \/ walk.stack # <<>>)
         /\ pc = "rescan" => next' = RescanSubtree(next, walk.into, walk.tree)
         /\ pc = "graft" => next' = Graft(next, walk.into, walk.tree)
         /\ Extends(next, next')
<1>1. /\ pc \in {"rescan", "graft"}
      /\ pc' = "work" /\ disk' = disk /\ log' = log /\ sent' = sent /\ shared' = shared /\ plan' = plan
      /\ cut' = (cut \/ walk.stack # <<>>)
      /\ pc = "rescan" => next' = RescanSubtree(next, walk.into, walk.tree)
      /\ pc = "graft" => next' = Graft(next, walk.into, walk.tree)
  BY DEF EndSubtree
<1>2. GoodTree(walk.tree) /\ InRange(next)
  BY <1>1, FreshFacts
<1>3. walk.into \in DOMAIN next.dirs
  BY <1>1 DEF IInv, TypeOK
<1>4. TreeInRange(walk.tree)
  BY <1>2 DEF GoodTree
<1>5. ASSUME pc = "graft" PROVE Extends(next, next')
  BY <1>1, <1>2, <1>3, <1>4, <1>5, GraftSafe
<1>6. ASSUME pc = "rescan" PROVE Extends(next, next')
  <2> DEFINE r == RemoveSubtree(next, walk.into)   d == next.dirs[walk.into].parent
  <2>1. InRange(r) /\ Extends(next, r) /\ r.dirs = next.dirs
    BY <1>2, RemoveSafe DEF RemoveSubtree
  <2>2. d \in {NoDir} \cup DOMAIN next.dirs
    BY <1>2, <1>3 DEF InRange
  <2>3. next' = Graft(r, d, walk.tree)
    BY <1>1, <1>6 DEF RescanSubtree
  <2> HIDE DEF r, d
  <2>4. InRange(Graft(r, d, walk.tree)) /\ Extends(r, Graft(r, d, walk.tree))
    BY <2>1, <2>2, <1>4, GraftSafe
  <2>5. QED BY <2>1, <2>3, <2>4, <1>2, ExtendsFurther
<1>7. QED BY <1>1, <1>2, <1>3, <1>5, <1>6

\* A subtree that was read again is shown, and what else was owed is owed.
LEMMA EndRescanFresh ==
  ASSUME IInv, SiblingInv, FreshInv, EndSubtree, pc = "rescan"
  PROVE  FreshInv'
<1> DEFINE m == next'   t == walk.tree   into == walk.into
<1>1. /\ GoodTree(t) /\ into \in DOMAIN next.dirs
      /\ pc' = "work" /\ disk' = disk /\ log' = log /\ sent' = sent /\ shared' = shared /\ plan' = plan
      /\ cut' = (cut \/ walk.stack # <<>>)
      /\ m = RescanSubtree(next, into, t) /\ Extends(next, m)
  BY EndSubtreeFacts
<1>2. InRange(next) /\ Rooted(next) /\ SiblingsApart(next)
  BY FreshFacts
<1>3. PICK v \in Path : /\ WalkOf(v)
                        /\ NoRebuild => \A p \in Seen : \/ Shows(next, p, disk[p]) \/ Pending(p)
                                                        \/ Due(next, plan, p) \/ Covered(p, v)
  BY DEF FreshInv, WalkFresh
<1>4. v # <<>> /\ t.dirs[1].name = Last(v) /\ HasPath(next, into, v) /\ Whole(next, into, v)
      /\ TreeFresh(walk, v)
  BY <1>3 DEF WalkOf, IntoFresh
<1>5. \A p : Covered(p, v) <=> Under(v, p) /\ LookupDir(next, v) = into
  BY DEF Covered
<1>6. NoRebuild' => NoRebuild /\ walk.stack = <<>>
  BY <1>1 DEF NoRebuild
<1>7. \A k \in DOMAIN plan.rescans : plan.rescans[k].id # into
  BY DEF SiblingInv, RoomInv
<1>8. into # NoDir
  BY <1>1, <1>2, RootedParts
<1> HIDE DEF m, t, into
<1>9. CASE LookupDir(next, v) = into
  <2>1. Hung(next, m, v, BaseOf(t))
    <3>1. Hung(next, RescanSubtree(next, LookupDir(next, v), t), v, BaseOf(t))
      BY <1>1, <1>2, <1>4, <1>8, <1>9, RescanLooks
    <3>2. QED BY <3>1, <1>1, <1>9
  <2>2. Rooted(m)
    BY <2>1 DEF Hung
  <2>3. /\ \A id \in DOMAIN next.dirs : \A p : HasPath(next, id, p) => HasPath(m, id, p)
        /\ \A k \in DOMAIN plan.rescans : plan.rescans[k].id # LookupDir(next, v)
              => Whole(m, plan.rescans[k].id, plan.rescans[k].path)
        /\ \A g \in plan.grafts : Room(m, g.id, g.path)
        /\ \A p \in Seen : ~Under(v, p) /\ Due(next, plan, p) => Due(m, plan, p)
        /\ \A p \in Seen : ~IsPrefix(v, p) /\ Shows(next, p, disk[p]) => Shows(m, p, disk[p])
    BY <2>1, <1>1, HungFresh DEF t
  <2>4. \A k \in DOMAIN plan.rescans : Whole(m, plan.rescans[k].id, plan.rescans[k].path)
    BY <2>3, <1>7, <1>9
  <2>5. ASSUME NoRebuild', NEW p \in Seen PROVE Shows(m, p, disk[p]) \/ Pending(p) \/ Due(m, plan, p)
    <3>1. p \in Paths /\ p \in Path /\ p # <<>>
      BY PathsParts DEF Seen
    <3>2. CASE Under(v, p)
      BY <2>1, <2>5, <3>1, <3>2, <1>1, <1>2, <1>4, <1>6, HungShows DEF t
    <3>3. CASE ~Under(v, p)
      <4>1. Shows(next, p, disk[p]) \/ Pending(p) \/ Due(next, plan, p)
        BY <2>5, <3>3, <1>3, <1>5, <1>6
      <4>2. CASE p = v
        <5>1. LookupDir(m, v) # NoDir /\ LookupDir(next, v) # NoDir
          <6>1. Rooted(BaseOf(t))
            BY <1>1, TreeBase
          <6>2. QED BY <6>1, <2>1, <1>2, <1>8, <1>9, HungNew
        <5>2. FileIn(m, p) <=> FileIn(next, p)
          BY <2>1, <3>1, <3>3, HungAbove
        <5>3. Shows(next, p, disk[p]) => Shows(m, p, disk[p])
          BY <4>2, <5>1, <5>2 DEF Shows
        <5>4. QED BY <4>1, <5>3, <2>3, <3>3
      <4>3. CASE p # v
        BY <4>1, <4>3, <2>3, <3>3 DEF Under
      <4>4. QED BY <4>2, <4>3
    <3>4. QED BY <3>2, <3>3
  <2>6. QED BY <2>2, <2>3, <2>4, <2>5, <1>1, WorkAgainFresh DEF m
<1>10. CASE LookupDir(next, v) # into
  <2>1. Unreached(next, into)
    BY <1>4, <1>10 DEF Unreached, HasPath
  <2>2. \A u \in Path : LookupDir(next, u) # NoDir => LookupDir(next, u) # next.dirs[into].parent
    BY <1>4, <1>10 DEF Whole, HasPath
  <2>3. Rooted(m) /\ SameLooks(next, m)
    BY <2>1, <2>2, <1>1, <1>2, RescanUnreached
  <2>4. /\ \A id \in DOMAIN next.dirs : \A p : HasPath(next, id, p) => HasPath(m, id, p)
        /\ \A k \in DOMAIN plan.rescans : Whole(m, plan.rescans[k].id, plan.rescans[k].path)
        /\ \A g \in plan.grafts : Room(m, g.id, g.path)
        /\ \A p \in Seen : Shows(next, p, disk[p]) => Shows(m, p, disk[p])
        /\ \A p \in Seen : Due(next, plan, p) => Due(m, plan, p)
    BY <2>3, <1>1, SameFresh
  <2>5. NoRebuild' => \A p \in Seen : Shows(m, p, disk[p]) \/ Pending(p) \/ Due(m, plan, p)
    BY <2>4, <1>3, <1>5, <1>6, <1>10
  <2>6. QED BY <2>3, <2>4, <2>5, <1>1, WorkAgainFresh DEF m
<1>11. QED BY <1>9, <1>10

\* So is a directory that was grafted.
LEMMA EndGraftFresh ==
  ASSUME IInv, SiblingInv, FreshInv, EndSubtree, pc = "graft"
  PROVE  FreshInv'
<1> DEFINE m == next'   t == walk.tree   into == walk.into
<1>1. /\ GoodTree(t) /\ into \in DOMAIN next.dirs
      /\ pc' = "work" /\ disk' = disk /\ log' = log /\ sent' = sent /\ shared' = shared /\ plan' = plan
      /\ cut' = (cut \/ walk.stack # <<>>)
      /\ m = Graft(next, into, t) /\ Extends(next, m)
  BY EndSubtreeFacts
<1>2. InRange(next) /\ Rooted(next) /\ SiblingsApart(next)
  BY FreshFacts
<1>3. PICK v \in Path : /\ WalkOf(v)
                        /\ NoRebuild => \A p \in Seen : \/ Shows(next, p, disk[p]) \/ Pending(p)
                                                        \/ Due(next, plan, p) \/ Covered(p, v)
  BY DEF FreshInv, WalkFresh
<1>4. v \in Paths /\ t.dirs[1].name = Last(v) /\ HasPath(next, into, Front(v)) /\ Room(next, into, v)
      /\ TreeFresh(walk, v)
  BY <1>3 DEF WalkOf, IntoFresh
<1>p. v # <<>>
  BY <1>4, PathsParts
<1>f. PICK f \in Path, x \in Name : f = Front(v) /\ x = Last(v) /\ v = Append(f, x)
  BY <1>p, PathEnds
<1>5. \A p : Covered(p, v) <=> IsPrefix(v, p) /\ LookupDir(next, f) = into
  BY <1>f DEF Covered
<1>6. NoRebuild' => NoRebuild /\ walk.stack = <<>>
  BY <1>1 DEF NoRebuild
<1>7. Free(next, into, x) /\ DOMAIN plan.rescans = {}
  <2>1. Free(next, into, x)
    BY <1>4, <1>f DEF SiblingInv, RoomInv
  <2>2. plan.rescans = NoTasks
    BY DEF SiblingInv, GraftsInv
  <2>3. QED BY <2>1, <2>2, NoTasksLeft
<1>8. into # NoDir
  BY <1>1, <1>2, RootedParts
<1> HIDE DEF m, t, into
<1>9. CASE LookupDir(next, f) = into
  <2>1. Hung(next, m, v, BaseOf(t))
    <3>1. Hung(next, Graft(next, LookupDir(next, f), t), Append(f, x), BaseOf(t))
      <4>1. LookupDir(next, f) # NoDir /\ t.dirs[1].name = x /\ Free(next, LookupDir(next, f), x)
        BY <1>4, <1>f, <1>7, <1>8, <1>9
      <4>2. QED BY <4>1, <1>1, <1>2, GraftLooks
    <3>2. QED BY <3>1, <1>1, <1>9, <1>f
  <2>2. Rooted(m)
    BY <2>1 DEF Hung
  <2>3. /\ \A id \in DOMAIN next.dirs : \A p : HasPath(next, id, p) => HasPath(m, id, p)
        /\ \A g \in plan.grafts : Room(m, g.id, g.path)
        /\ \A p \in Seen : ~Under(v, p) /\ Due(next, plan, p) => Due(m, plan, p)
        /\ \A p \in Seen : ~IsPrefix(v, p) /\ Shows(next, p, disk[p]) => Shows(m, p, disk[p])
    BY <2>1, <1>1, HungFresh DEF t
  <2>5. ASSUME NoRebuild', NEW p \in Seen PROVE Shows(m, p, disk[p]) \/ Pending(p) \/ Due(m, plan, p)
    <3>1. p \in Paths /\ p \in Path /\ p # <<>>
      BY PathsParts DEF Seen
    <3>2. CASE Under(v, p)
      BY <2>1, <2>5, <3>1, <3>2, <1>1, <1>2, <1>4, <1>6, HungShows DEF t
    <3>3. CASE p = v
      <4>1. Pending(p) \/ (disk[p] = "dir" /\ ~FileIn(next, p))
        BY <3>3, <1>4, <1>9, <1>f DEF Room
      <4>2. LookupDir(m, p) # NoDir
        <5>1. Rooted(BaseOf(t))
          BY <1>1, TreeBase
        <5>2. QED BY <5>1, <2>1, <3>3, <1>2, HungNew
      <4>3. FileIn(m, p) <=> FileIn(next, p)
        <5>1. ~Under(v, p)
          BY <3>3 DEF Under
        <5>2. QED BY <2>1, <3>1, <5>1, HungAbove
      <4>4. QED BY <4>1, <4>2, <4>3 DEF Shows
    <3>4. CASE ~IsPrefix(v, p)
      <4>1. ~Under(v, p)
        BY <3>4 DEF Under
      <4>2. Shows(next, p, disk[p]) \/ Pending(p) \/ Due(next, plan, p)
        BY <2>5, <3>4, <1>3, <1>5, <1>6
      <4>3. QED BY <4>1, <4>2, <3>4, <2>3
    <3>5. QED BY <3>2, <3>3, <3>4 DEF Under
  <2>6. QED BY <2>2, <2>3, <2>5, <1>1, <1>7, WorkAgainFresh DEF m
<1>10. CASE LookupDir(next, f) # into
  <2>2. \A u \in Path : LookupDir(next, u) # NoDir => LookupDir(next, u) # into
    BY <1>4, <1>10, <1>f DEF HasPath
  <2>3. Rooted(m) /\ SameLooks(next, m)
    BY <2>2, <1>1, <1>2, GraftUnreached
  <2>4. /\ \A id \in DOMAIN next.dirs : \A p : HasPath(next, id, p) => HasPath(m, id, p)
        /\ \A g \in plan.grafts : Room(m, g.id, g.path)
        /\ \A p \in Seen : Shows(next, p, disk[p]) => Shows(m, p, disk[p])
        /\ \A p \in Seen : Due(next, plan, p) => Due(m, plan, p)
    BY <2>3, <1>1, SameFresh
  <2>5. NoRebuild' => \A p \in Seen : Shows(m, p, disk[p]) \/ Pending(p) \/ Due(m, plan, p)
    BY <2>4, <1>3, <1>5, <1>6, <1>10
  <2>6. QED BY <2>3, <2>4, <2>5, <1>1, <1>7, WorkAgainFresh DEF m
<1>11. QED BY <1>9, <1>10
-----------------------------------------------------------------------------
(* A listing is applied.                                                   *)

\* Nothing is found where nothing was.
Shrinks(l, m) == \A p \in Path : LookupDir(m, p) = NoDir \/ LookupDir(m, p) = LookupDir(l, p)

\* What p shows, and all that leads to it, is the same.
SameAt(l, m, p) == SameAbove(l, m, p) /\ LookupDir(m, p) = LookupDir(l, p) /\ (FileIn(m, p) <=> FileIn(l, p))

\* What leads to a prefix leads to all that the prefix leads to.
LEMMA UnderFurther ==
  ASSUME NEW u \in Path, NEW v \in Path, NEW p \in Path, IsPrefix(u, v), Under(v, p)
  PROVE  Under(u, p)
<1>1. IsPrefix(u, p)
  BY PrefixFurther DEF Under
<1>2. u = p => v = p
  BY PrefixBoth DEF Under
<1>3. QED BY <1>1, <1>2 DEF Under

\* A file's directory is not looked up beyond a path that does not lead to it.
LEMMA NotUnderFront ==
  ASSUME NEW v \in Path, NEW p \in Path, p # <<>>, ~Under(v, p)
  PROVE  Front(p) \in Path /\ ~IsPrefix(v, Front(p)) /\ ~Under(v, Front(p)) /\ Front(p) # v
<1>1. Front(p) \in Path /\ Last(p) \in Name /\ p = Append(Front(p), Last(p))
  BY PathEnds
<1>2. ~IsPrefix(v, Front(p))
  BY <1>1, UnderFront
<1>3. Front(p) # v
  BY <1>1, <1>2, PrefixSelf
<1>4. QED BY <1>1, <1>2, <1>3 DEF Under

\* The directory at v is no longer there.
LEMMA ListGone ==
  ASSUME NEW l, InRange(l), Rooted(l), SiblingsApart(l), NEW v \in Path, v # <<>>, LookupDir(l, v) # NoDir,
         NEW e \in Listing, ~e.exists
  PROVE  LET m == ApplyListing(l, LookupDir(l, v), e)
         IN  /\ Rooted(m) /\ Shrinks(l, m)
             /\ \A p \in Path : IsPrefix(v, p) => LookupDir(m, p) = NoDir
             /\ \A p \in Path : p # <<>> /\ FileIn(m, p) => FileIn(l, p) /\ ~Under(v, p)
             /\ \A p \in Path : p # <<>> /\ ~IsPrefix(v, p) => SameAt(l, m, p)
             /\ SameAbove(l, m, v)
<1> DEFINE d == LookupDir(l, v)   m == ApplyListing(l, d, e)
<1>1. d \in DOMAIN l.dirs /\ d # Root
  BY LookFound
<1>d. d = LookupDir(l, v)
  OBVIOUS
<1> HIDE DEF d
<1>2. m = RemoveSubtrees(l, {d})
  BY <1>1 DEF ApplyListing, RemoveSubtree
<1>3. {d} \subseteq DOMAIN l.dirs \ {Root}
  BY <1>1
<1>4. \A p \in Path : Hit(l, {d}, p) <=> IsPrefix(v, p)
  <2>1. ASSUME NEW p \in Path, Hit(l, {d}, p) PROVE IsPrefix(v, p)
    <3>1. PICK u \in Path : IsPrefix(u, p) /\ LookupDir(l, u) = d
      BY <2>1 DEF Hit
    <3>2. u = v
      BY <3>1, <1>d, LookOnce
    <3>3. QED BY <3>1, <3>2
  <2>2. ASSUME NEW p \in Path, IsPrefix(v, p) PROVE Hit(l, {d}, p)
    BY <2>2, <1>d DEF Hit
  <2>3. QED BY <2>1, <2>2
<1>5. /\ Rooted(m)
      /\ \A p \in Path : LookupDir(m, p) = IF IsPrefix(v, p) THEN NoDir ELSE LookupDir(l, p)
  BY <1>2, <1>3, <1>4, RemoveLooks
<1>6. ASSUME NEW p \in Path, p # <<>> PROVE FileIn(m, p) <=> FileIn(l, p) /\ ~IsPrefix(v, Front(p))
  <2>1. FileIn(m, p) <=> FileIn(l, p) /\ ~Hit(l, {d}, Front(p))
    BY <1>2, <1>3, <1>6, RemoveFiles
  <2>2. QED BY <2>1, <1>4, <1>6, PathEnds
<1> HIDE DEF m
<1>7. Shrinks(l, m)
  BY <1>5 DEF Shrinks
<1>8. ASSUME NEW p \in Path, ~Under(v, p) PROVE SameAbove(l, m, p)
  <2>1. ASSUME NEW u \in Path, Under(u, p) PROVE ~IsPrefix(v, u)
    BY <2>1, <1>8, UnderFurther
  <2>2. QED BY <2>1, <1>5 DEF SameAbove
<1>9. ASSUME NEW p \in Path, p # <<>>, FileIn(m, p) PROVE FileIn(l, p) /\ ~Under(v, p)
  <2>1. Front(p) \in Path /\ Last(p) \in Name /\ p = Append(Front(p), Last(p))
    BY <1>9, PathEnds
  <2>2. QED BY <2>1, <1>6, <1>9, UnderFront
<1>10. ASSUME NEW p \in Path, p # <<>>, ~IsPrefix(v, p) PROVE SameAt(l, m, p)
  <2>1. ~Under(v, p)
    BY <1>10 DEF Under
  <2>2. ~IsPrefix(v, Front(p))
    BY <1>10, <2>1, NotUnderFront
  <2>3. QED BY <2>1, <2>2, <1>5, <1>6, <1>8, <1>10 DEF SameAt
<1>11. SameAbove(l, m, v)
  BY <1>8 DEF Under
<1>12. QED BY <1>5, <1>7, <1>9, <1>10, <1>11 DEF m, d

\* The directory at v is there: what is not below it, or is below one of its
\* directories that are still there, is as it was.
LEMMA ListHere ==
  ASSUME NEW l, InRange(l), Rooted(l), SiblingsApart(l), NEW v \in Path, LookupDir(l, v) # NoDir,
         NEW e \in Listing, e.exists
  PROVE  LET m == ApplyListing(l, LookupDir(l, v), e)
         IN  /\ Rooted(m) /\ Shrinks(l, m) /\ LookupDir(m, v) = LookupDir(l, v)
             /\ \A y \in Name : LookupDir(m, Append(v, y)) = IF y \in e.dirs THEN LookupDir(l, Append(v, y)) ELSE NoDir
             /\ \A y \in Name : FileIn(m, Append(v, y)) <=> y \in e.files
             /\ \A p \in Path : p # <<>> /\ Front(p) # v /\ FileIn(m, p) => FileIn(l, p)
             /\ \A p \in Path : p # <<>> /\ ~Under(v, p) => SameAt(l, m, p)
             /\ \A y \in Name : \A p \in Path : Under(Append(v, y), p) =>
                  IF y \in e.dirs THEN SameAt(l, m, p) ELSE LookupDir(m, p) = NoDir /\ ~FileIn(m, p)
<1> DEFINE m == ApplyListing(l, LookupDir(l, v), e)
           Cut(p) == \E x \in Name \ e.dirs : IsPrefix(Append(v, x), p)
<1>1. /\ Rooted(m)
      /\ \A p \in Path : LookupDir(m, p) = IF Cut(p) THEN NoDir ELSE LookupDir(l, p)
      /\ \A p \in Path : p # <<>> /\ LookupDir(m, Front(p)) # NoDir
           => (FileIn(m, p) <=> IF Front(p) = v THEN Last(p) \in e.files ELSE FileIn(l, p))
  BY ApplyLooks
<1>2. InRange(m)
  BY LookFound, ApplySafe
<1> HIDE DEF m
<1>3. ASSUME NEW p \in Path, ~Under(v, p) PROVE ~Cut(p)
  <2>1. ASSUME NEW x \in Name, IsPrefix(Append(v, x), p) PROVE FALSE
    <3>1. PICK w \in Path : w = Append(v, x)
      BY PathAppend
    <3>2. Under(v, w) /\ IsPrefix(w, p)
      BY <2>1, <3>1, UnderFront, PrefixSelf
    <3>3. IsPrefix(v, p) /\ v # p
      <4>1. IsPrefix(v, p)
        BY <3>2, PrefixFurther DEF Under
      <4>2. v = p => v = w
        BY <3>2, PrefixBoth DEF Under
      <4>3. QED BY <3>2, <4>1, <4>2 DEF Under
    <3>4. QED BY <1>3, <3>3 DEF Under
  <2>2. QED BY <2>1
<1>4. ASSUME NEW y \in Name, NEW p \in Path, IsPrefix(Append(v, y), p) PROVE Cut(p) <=> y \notin e.dirs
  <2>1. ASSUME NEW x \in Name, IsPrefix(Append(v, x), p) PROVE x = y
    <3>1. \A z \in Name : IsPrefix(Append(v, z), p) => p[Len(v) + 1] = z
      <4>1. TAKE z \in Name
      <4>2. PICK w \in Path : w = Append(v, z) /\ Len(v) \in Nat /\ w[Len(v) + 1] = z /\ Len(w) = Len(v) + 1
        BY PathAppend
      <4>3. Len(v) + 1 \in 1 .. Len(w)
        BY <4>2
      <4>4. IsPrefix(w, p) => \A i \in 1 .. Len(w) : w[i] = p[i]
        BY PathPrefix
      <4>5. QED BY <4>2, <4>3, <4>4
    <3>2. QED BY <1>4, <2>1, <3>1
  <2>2. QED BY <2>1, <1>4
<1> HIDE DEF Cut
<1>5. Shrinks(l, m)
  BY <1>1 DEF Shrinks
<1>6. LookupDir(m, v) = LookupDir(l, v)
  BY <1>1, <1>3 DEF Under
<1>7. ASSUME NEW y \in Name
      PROVE  /\ LookupDir(m, Append(v, y)) = IF y \in e.dirs THEN LookupDir(l, Append(v, y)) ELSE NoDir
             /\ FileIn(m, Append(v, y)) <=> y \in e.files
  <2>1. Append(v, y) \in Path /\ Append(v, y) # <<>> /\ Front(Append(v, y)) = v /\ Last(Append(v, y)) = y
    BY PathAppend
  <2>2. IsPrefix(Append(v, y), Append(v, y))
    BY <2>1, PrefixSelf
  <2>3. QED BY <2>1, <2>2, <1>1, <1>4, <1>6
<1>8. ASSUME NEW p \in Path, p # <<>>, Front(p) # v, FileIn(m, p) PROVE FileIn(l, p)
  BY <1>1, <1>2, <1>8, FileFound
<1>9. ASSUME NEW p \in Path, p # <<>>, Front(p) # v, LookupDir(m, Front(p)) = LookupDir(l, Front(p))
      PROVE  FileIn(m, p) <=> FileIn(l, p)
  BY <1>1, <1>2, <1>9, FileFound
<1>10. ASSUME NEW p \in Path, ~Under(v, p) PROVE LookupDir(m, p) = LookupDir(l, p)
  BY <1>1, <1>3, <1>10
<1>11. ASSUME NEW p \in Path, p # <<>>, ~Under(v, p) PROVE SameAt(l, m, p)
  <2>1. Front(p) \in Path /\ ~Under(v, Front(p)) /\ Front(p) # v
    BY <1>11, NotUnderFront
  <2>2. FileIn(m, p) <=> FileIn(l, p)
    BY <2>1, <1>9, <1>10, <1>11
  <2>3. SameAbove(l, m, p)
    <3>1. ASSUME NEW u \in Path, Under(u, p) PROVE ~Under(v, u)
      BY <3>1, <1>11, UnderFurther DEF Under
    <3>2. QED BY <3>1, <1>10 DEF SameAbove
  <2>4. QED BY <2>2, <2>3, <1>10, <1>11 DEF SameAt
<1>12. ASSUME NEW y \in Name, NEW p \in Path, Under(Append(v, y), p)
       PROVE  IF y \in e.dirs THEN SameAt(l, m, p) ELSE LookupDir(m, p) = NoDir /\ ~FileIn(m, p)
  <2>1. PICK w \in Path : w = Append(v, y)
    BY PathAppend
  <2>2. PICK f \in Path, x \in Name : f = Front(p) /\ p = Append(f, x) /\ p # <<>>
    <3>1. p # <<>>
      <4>1. Len(w) \in Nat \ {0} /\ IsPrefix(w, p)
        BY <1>12, <2>1, PathAppend, PathEnds DEF Under
      <4>2. Len(w) <= Len(p) /\ Len(p) \in Nat
        BY <4>1, PathPrefix
      <4>3. QED BY <4>1, <4>2, PathEmpty
    <3>2. QED BY <3>1, PathEnds
  <2>3. IsPrefix(w, f) /\ IsPrefix(w, p)
    <3>1. Under(w, p)
      BY <1>12, <2>1
    <3>2. Under(w, Append(f, x)) <=> IsPrefix(w, f)
      BY UnderFront
    <3>3. QED BY <2>2, <3>1, <3>2 DEF Under
  <2>4. f # v
    <3>1. Len(w) = Len(v) + 1 /\ Len(v) \in Nat
      BY <2>1, PathAppend
    <3>2. Len(w) <= Len(f)
      BY <2>3, PathPrefix
    <3>3. QED BY <3>1, <3>2
  <2>5. CASE y \notin e.dirs
    <3>1. LookupDir(m, p) = NoDir /\ LookupDir(m, f) = NoDir
      BY <2>1, <2>3, <2>5, <1>1, <1>4
    <3>2. ~FileIn(m, p)
      BY <2>2, <3>1, <1>1, <1>2, FileFound
    <3>3. QED BY <2>5, <3>1, <3>2
  <2>6. CASE y \in e.dirs
    <3>1. \A u \in Path : IsPrefix(w, u) => LookupDir(m, u) = LookupDir(l, u)
      BY <2>1, <2>6, <1>1, <1>4
    <3>2. FileIn(m, p) <=> FileIn(l, p)
      BY <2>2, <2>3, <2>4, <3>1, <1>9
    <3>3. ASSUME NEW u \in Path, Under(u, p), ~IsPrefix(w, u) PROVE LookupDir(m, u) = LookupDir(l, u)
      <4>1. IsPrefix(u, w) /\ u # w
        <5>1. IsPrefix(u, w)
          BY <2>3, <3>3, PrefixChain DEF Under
        <5>2. QED BY <3>3, <5>1, PrefixSelf
      <4>2. IsPrefix(u, v)
        BY <2>1, <4>1, PrefixStep
      <4>3. ~Under(v, u)
        BY <4>2, PrefixBoth DEF Under
      <4>4. QED BY <4>3, <1>10
    <3>4. SameAbove(l, m, p)
      BY <3>1, <3>3 DEF SameAbove
    <3>5. QED BY <2>3, <2>6, <3>1, <3>2, <3>4 DEF SameAt
  <2>7. QED BY <2>5, <2>6
<1>13. QED BY <1>1, <1>5, <1>6, <1>7, <1>8, <1>11, <1>12 DEF m

\* What was owed to p and still is, where the way to p is the same and p's own
\* listing was not the one just applied.
LEMMA CarryDue ==
  ASSUME NEW l, NEW m, NEW p \in Path, PlanPaths(plan), SameAbove(l, m, p), NEW k, NEW grafts,
         plan.grafts \subseteq grafts, ~Lists(l, plan.refresh[k], p),
         RefreshDue(l, plan.refresh, p) \/ GraftDue(l, plan.grafts, p)
  PROVE  RefreshDue(m, Without(plan.refresh, k), p) \/ GraftDue(m, grafts, p)
<1>1. ASSUME RefreshDue(l, plan.refresh, p) PROVE RefreshDue(m, Without(plan.refresh, k), p)
  <2>1. PICK j \in DOMAIN plan.refresh : Lists(l, plan.refresh[j], p)
    BY <1>1 DEF RefreshDue
  <2>2. j # k
    BY <2>1
  <2>3. Lists(m, plan.refresh[j], p)
    BY <2>1, ListsKept DEF PlanPaths
  <2>4. j \in DOMAIN Without(plan.refresh, k) /\ Without(plan.refresh, k)[j] = plan.refresh[j]
    BY <2>1, <2>2 DEF Without
  <2>5. QED BY <2>3, <2>4 DEF RefreshDue
<1>2. ASSUME GraftDue(l, plan.grafts, p) PROVE GraftDue(m, grafts, p)
  <2>1. GraftDue(m, plan.grafts, p)
    BY <1>2, DueKept
  <2>2. QED BY <2>1 DEF GraftDue
<1>3. QED BY <1>1, <1>2

\* A listing shows what it found, and the thread owes what is new to it.
LEMMA RefreshFresh == IInv /\ SiblingInv /\ FreshInv /\ Refresh => FreshInv'
<1> SUFFICES ASSUME IInv, SiblingInv, FreshInv, Refresh PROVE FreshInv'
  OBVIOUS
<1> DEFINE k == First(plan.refresh)   t == plan.refresh[k]   left == Without(plan.refresh, k)
           e == ListDisk(t.path)   l == next   m == next'
           new == {[slot |-> k, id |-> t.id, path |-> Append(t.path, n)] : n \in FreshDirs(next, t.id, e)}
           grafts == plan.grafts \cup new
<1>1. InRange(l) /\ Rooted(l) /\ SiblingsApart(l) /\ PlanOK(plan, next) /\ PlanPaths(plan)
      /\ (\A j \in DOMAIN plan.refresh : plan.refresh[j].id \in DOMAIN next.dirs)
      /\ (\A g \in plan.grafts : g.id \in DOMAIN next.dirs)
      /\ TreeDisk(disk) /\ LogFresh
  BY FreshFacts
<1>2. /\ pc = "work" /\ plan.rescans = NoTasks /\ plan.refresh # NoTasks /\ pc' = "work"
      /\ disk' = disk /\ log' = log /\ sent' = sent /\ shared' = shared /\ cut' = cut /\ walk' = walk
      /\ m = ApplyListing(next, t.id, e)
      /\ plan' = [plan EXCEPT !.refresh = left, !.grafts = grafts]
  BY DEF Refresh
<1>3. k \in DOMAIN plan.refresh
  BY <1>1, <1>2, FirstTask DEF PlanOK
<1>4. /\ plan'.rescans = plan.rescans /\ plan'.refresh = left /\ plan'.grafts = grafts /\ plan'.full = plan.full
  BY <1>1, <1>2 DEF PlanOK
<1>5. DOMAIN left = DOMAIN plan.refresh \ {k} /\ \A j \in DOMAIN left : left[j] = plan.refresh[j]
  BY DEF Without
<1> HIDE DEF k
<1>6. PICK v \in Path, d \in DOMAIN l.dirs : v = t.path /\ d = t.id
  BY <1>1, <1>3 DEF PlanPaths
<1>7. e = ListDisk(v) /\ e \in Listing /\ m = ApplyListing(l, d, e)
  BY <1>2, <1>6, ListDiskType
<1>8. \A g \in new : g.id = d /\ \E n \in FreshDirs(l, d, e) : g.path = Append(v, n)
  BY <1>6
<1>n. \A n \in FreshDirs(l, d, e) : \E g \in new : g.id = d /\ g.path = Append(v, n)
  <2> DEFINE G(n) == [slot |-> k, id |-> t.id, path |-> Append(t.path, n)]
  <2>1. ASSUME NEW n \in FreshDirs(l, d, e) PROVE G(n) \in new /\ G(n).id = t.id /\ G(n).path = Append(t.path, n)
    <3>1. n \in FreshDirs(next, t.id, e)
      BY <1>6
    <3>2. G(n) \in new
      BY <3>1
    <3>3. QED BY <3>2
  <2> HIDE DEF G, new, t
  <2>2. QED BY <2>1, <1>6
<1>9. HasPath(l, d, v) /\ (\A p : Lists(l, t, p) => Under(v, p) /\ LookupDir(l, v) = d)
  BY <1>3, <1>6 DEF FreshInv, ListsFresh, TaskFresh, Lists
<1>10. /\ e.exists <=> IsDir(v)
       /\ \A x \in Name : Append(v, x) \in Paths =>
            /\ x \in e.dirs <=> disk[Append(v, x)] = "dir" /\ IsDir(v)
            /\ x \in e.files <=> disk[Append(v, x)] = "file" /\ IsDir(v)
       /\ \A x \in e.dirs : Append(v, x) \in Paths
       /\ \A p \in Paths : Under(v, p) /\ ~IsDir(v) => disk[p] = "none"
  <2> HIDE DEF e
  <2>1. QED BY <1>1, <1>7, ListingSays
<1>11. InRange(m) /\ Extends(l, m)
  BY <1>1, <1>7, ApplySafe
<1>12. \A p : Pending(p) <=> Pending(p)'
  BY <1>2 DEF Pending
<1>13. NoRebuild <=> NoRebuild'
  BY <1>2, <1>4 DEF NoRebuild
<1>14. DOMAIN plan.rescans = {}
  BY <1>2, NoTasksLeft
<1>15. \A p \in Seen : NoRebuild => \/ Shows(l, p, disk[p]) \/ Pending(p)
                                    \/ RefreshDue(l, plan.refresh, p) \/ GraftDue(l, plan.grafts, p)
  BY <1>2, <1>14 DEF FreshInv, WorkFresh, Due, RescanDue
<1>16. \A p \in Path : SameAbove(l, m, p) /\ ~Lists(l, t, p)
         /\ (RefreshDue(l, plan.refresh, p) \/ GraftDue(l, plan.grafts, p))
         => RefreshDue(m, left, p) \/ GraftDue(m, grafts, p)
  BY <1>1, CarryDue
<1>17. \A g \in plan.grafts : g.id # d
  BY <1>3, <1>6 DEF SiblingInv, ListInv
<1>18. FreshDirs(l, d, e) \subseteq e.dirs /\ e.dirs \subseteq Name
  BY <1>7 DEF FreshDirs, Listing
<1>19. d # NoDir
  BY <1>1, RootedParts
<1>20. \A p \in Seen : p \in Paths /\ p \in Path /\ p # <<>> /\ disk[p] \in {"none", "file", "dir"}
  BY <1>1, PathsParts DEF Seen, TreeDisk
<1> DEFINE Owed(p) == Shows(m, p, disk[p]) \/ Pending(p) \/ RefreshDue(m, left, p) \/ GraftDue(m, grafts, p)
<1>21. \A g \in grafts : g \in plan.grafts \/ g \in new
  OBVIOUS
<1>t. \A p : Lists(l, t, p) <=> Lists(l, plan.refresh[k], p)
  OBVIOUS
<1>g. plan.grafts \subseteq grafts /\ new \subseteq grafts
  OBVIOUS
<1> HIDE DEF t, e, l, m, left, new, grafts
<1> DEFINE Good == /\ Rooted(m) /\ Shrinks(l, m)
                   /\ \A p \in Path : p # <<>> /\ Front(p) # v /\ FileIn(m, p) => FileIn(l, p)
                   /\ LookupDir(m, v) = d => /\ LookupDir(l, v) = d /\ e.exists
                                              /\ \A y \in Name : FileIn(m, Append(v, y)) <=> y \in e.files
                   /\ LookupDir(l, v) # d => \A p \in Path : p # <<>> /\ FileIn(m, p) => FileIn(l, p)
                   /\ NoRebuild => \A p \in Seen : Owed(p)
<1>22. ASSUME NEW p \in Seen, SameAt(l, m, p), ~Lists(l, t, p), NoRebuild PROVE Owed(p)
  <2>1. Shows(l, p, disk[p]) => Shows(m, p, disk[p])
    BY <1>22 DEF SameAt, Shows
  <2>2. SameAbove(l, m, p)
    BY <1>22 DEF SameAt
  <2>3. QED BY <2>1, <2>2, <1>15, <1>16, <1>20, <1>22
<1>23. ASSUME LookupDir(l, v) # d PROVE Good
  <2>1. Unreached(l, d)
    BY <1>9, <1>23 DEF Unreached, HasPath
  <2>2. Rooted(m) /\ SameLooks(l, m)
    BY <2>1, <1>1, <1>7, ApplyUnreached
  <2>3. ASSUME NoRebuild, NEW p \in Seen PROVE Owed(p)
    <3>1. SameAt(l, m, p)
      BY <2>2, <1>20, SameLooksAbove DEF SameAt, SameLooks
    <3>2. QED BY <2>3, <3>1, <1>9, <1>22, <1>23
  <2>4. Shrinks(l, m)
    BY <2>2 DEF Shrinks, SameLooks
  <2>5. \A p \in Path : p # <<>> /\ FileIn(m, p) => FileIn(l, p)
    BY <2>2 DEF SameLooks
  <2>6. LookupDir(m, v) # d
    BY <2>2, <1>23 DEF SameLooks
  <2>7. NoRebuild => \A p \in Seen : Owed(p)
    BY <2>3
  <2> HIDE DEF Owed
  <2>8. QED BY <2>2, <2>4, <2>5, <2>6, <2>7
<1>24. ASSUME LookupDir(l, v) = d, ~e.exists PROVE Good
  <2>1. v # <<>>
    BY <1>10, <1>24 DEF IsDir
  <2>2. /\ Rooted(m) /\ Shrinks(l, m)
        /\ \A p \in Path : IsPrefix(v, p) => LookupDir(m, p) = NoDir
        /\ \A p \in Path : p # <<>> /\ FileIn(m, p) => FileIn(l, p) /\ ~Under(v, p)
        /\ \A p \in Path : p # <<>> /\ ~IsPrefix(v, p) => SameAt(l, m, p)
        /\ SameAbove(l, m, v)
    BY <2>1, <1>1, <1>7, <1>19, <1>24, ListGone
  <2>3. ASSUME NoRebuild, NEW p \in Seen PROVE Owed(p)
    <3>1. CASE ~IsPrefix(v, p)
      BY <2>2, <2>3, <3>1, <1>9, <1>20, <1>22 DEF Under
    <3>2. CASE Under(v, p)
      <4>1. disk[p] = "none"
        BY <3>2, <1>10, <1>20, <1>24
      <4>2. LookupDir(m, p) = NoDir /\ ~FileIn(m, p)
        BY <2>2, <3>2, <1>20 DEF Under
      <4>3. QED BY <4>1, <4>2 DEF Shows
    <3>3. CASE p = v
      <4>1. disk[p] # "dir"
        BY <3>3, <1>10, <1>20, <1>24 DEF IsDir
      <4>2. ~Shows(l, p, disk[p])
        BY <3>3, <4>1, <1>19, <1>24 DEF Shows
      <4>3. ~Lists(l, t, p)
        BY <3>3, <1>9 DEF Under
      <4>4. QED BY <2>2, <2>3, <3>3, <4>2, <4>3, <1>15, <1>16, <1>20
    <3>4. QED BY <3>1, <3>2, <3>3 DEF Under
  <2>4. LookupDir(m, v) # d
    <3>1. LookupDir(m, v) = NoDir
      BY <2>2, PrefixSelf
    <3>2. QED BY <3>1, <1>19
  <2>5. \A p \in Path : p # <<>> /\ Front(p) # v /\ FileIn(m, p) => FileIn(l, p)
    BY <2>2
  <2>6. QED BY <2>2, <2>3, <2>4, <2>5
<1>25. ASSUME LookupDir(l, v) = d, e.exists PROVE Good
  <2>1. /\ Rooted(m) /\ Shrinks(l, m) /\ LookupDir(m, v) = d
        /\ \A y \in Name : LookupDir(m, Append(v, y)) = IF y \in e.dirs THEN LookupDir(l, Append(v, y)) ELSE NoDir
        /\ \A y \in Name : FileIn(m, Append(v, y)) <=> y \in e.files
        /\ \A p \in Path : p # <<>> /\ Front(p) # v /\ FileIn(m, p) => FileIn(l, p)
        /\ \A p \in Path : p # <<>> /\ ~Under(v, p) => SameAt(l, m, p)
        /\ \A y \in Name : \A p \in Path : Under(Append(v, y), p) =>
             IF y \in e.dirs THEN SameAt(l, m, p) ELSE LookupDir(m, p) = NoDir /\ ~FileIn(m, p)
    BY <1>1, <1>7, <1>19, <1>25, ListHere
  <2>i. IsDir(v)
    BY <1>10, <1>25
  <2>2. ASSUME NEW y \in e.dirs, LookupDir(l, Append(v, y)) = NoDir, NEW p \in Path, IsPrefix(Append(v, y), p)
        PROVE  GraftDue(m, grafts, p)
    <3>1. y \in Name
      BY <1>18
    <3>2. y \in FreshDirs(l, d, e)
      <4>1. Step(l, d, y) = NoDir
        BY <2>2, <3>1, <1>1, <1>25, LookStep
      <4>2. ~ \E c \in ChildDirs(l, d) : l.dirs[c].name = y
        BY <4>1, <1>1, <1>19, StepIs
      <4>3. QED BY <2>2, <4>2 DEF FreshDirs, NamesOf
    <3>3. PICK g \in grafts : g.id = d /\ g.path = Append(v, y)
      BY <3>2, <1>n, <1>g
    <3>4. Front(g.path) = v
      BY <3>1, <3>3, PathAppend
    <3>5. QED BY <2>1, <2>2, <3>3, <3>4 DEF GraftDue
  <2>3. ASSUME NoRebuild, NEW p \in Seen PROVE Owed(p)
    <3>1. CASE ~Under(v, p)
      BY <2>1, <2>3, <3>1, <1>9, <1>20, <1>22
    <3>2. CASE Under(v, p)
      <4> DEFINE y == p[Len(v) + 1]
      <4>1. y \in Name /\ IsPrefix(Append(v, y), p) /\ Prefix(p, Len(v) + 1) = Append(v, y)
        BY <3>2, <1>20, UnderStep
      <4> HIDE DEF y
      <4>2. PICK w \in Path : w = Append(v, y) /\ w # <<>> /\ Front(w) = v
        BY <4>1, PathAppend
      <4>3. w \in Paths
        BY <4>1, <4>2, <1>20, PathsParts
      <4>4. /\ y \in e.dirs <=> disk[w] = "dir"
            /\ y \in e.files <=> disk[w] = "file"
        BY <4>1, <4>2, <4>3, <2>i, <1>10
      <4>5. CASE p = w
        <5>1. CASE y \in e.dirs /\ LookupDir(l, w) = NoDir
          BY <4>1, <4>2, <4>5, <5>1, <2>2
        <5>2. CASE ~(y \in e.dirs /\ LookupDir(l, w) = NoDir)
          <6>1. Shows(m, w, disk[w])
            BY <4>1, <4>2, <4>4, <5>2, <2>1 DEF Shows
          <6>2. QED BY <6>1, <4>5
        <5>3. QED BY <5>1, <5>2
      <4>6. CASE p # w
        <5>1. Under(w, p)
          BY <4>1, <4>2, <4>6 DEF Under
        <5>2. CASE y \notin e.dirs
          <6>1. disk[p] = "none"
            BY <1>1, <1>20, <4>2, <4>4, <5>1, <5>2, NothingUnder
          <6>2. LookupDir(m, p) = NoDir /\ ~FileIn(m, p)
            BY <2>1, <4>1, <4>2, <5>1, <5>2, <1>20
          <6>3. QED BY <6>1, <6>2 DEF Shows
        <5>3. CASE y \in e.dirs /\ LookupDir(l, w) = NoDir
          BY <4>1, <4>2, <5>3, <2>2, <1>20
        <5>4. CASE y \in e.dirs /\ LookupDir(l, w) # NoDir
          <6>1. SameAt(l, m, p)
            BY <2>1, <4>1, <4>2, <5>1, <5>4, <1>20
          <6>2. ~Lists(l, t, p)
            <7>1. v # Front(p)
              <8>1. p = Append(Front(p), Last(p)) /\ Front(p) \in Path /\ Last(p) \in Name
                BY <1>20, PathEnds
              <8>2. SUFFICES ASSUME v = Front(p) PROVE FALSE
                OBVIOUS
              <8>3. IsPrefix(w, v)
                BY <8>1, <8>2, <5>1, UnderFront
              <8>4. Under(v, w)
                BY <4>1, <4>2, UnderFront, PrefixSelf
              <8>5. QED BY <8>3, <8>4, PrefixBoth DEF Under
            <7>2. t.path = v /\ LookupDir(l, Prefix(p, Len(v) + 1)) # NoDir
              BY <1>6, <4>1, <4>2, <5>4
            <7>3. QED BY <7>1, <7>2 DEF Lists
          <6>3. QED BY <2>3, <6>1, <6>2, <1>22
        <5>5. QED BY <5>2, <5>3, <5>4
      <4>7. QED BY <4>5, <4>6
    <3>3. QED BY <3>1, <3>2
  <2>4. QED BY <1>25, <2>1, <2>3
<1>26. Good
  <2>1. CASE LookupDir(l, v) # d
    BY <2>1, <1>23
  <2>2. CASE LookupDir(l, v) = d /\ ~e.exists
    BY <2>2, <1>24
  <2>3. CASE LookupDir(l, v) = d /\ e.exists
    BY <2>3, <1>25
  <2>4. QED BY <2>1, <2>2, <2>3
<1>27. ASSUME NEW id, NEW q, HasPath(l, id, q), id # NoDir PROVE HasPath(m, id, q)
  BY <1>26, <1>27 DEF HasPath, Shrinks
<1>28. TreeDisk(disk)' /\ LogFresh' /\ Rooted(shared)' /\ Rooted(next)'
  <2>1. Rooted(shared)
    BY DEF FreshInv
  <2>2. TreeDisk(disk)' /\ LogFresh'
    BY <1>1, <1>2 DEF TreeDisk, LogFresh
  <2>3. Rooted(next')
    BY <1>26 DEF m
  <2>4. QED BY <2>1, <2>2, <2>3, <1>2
<1>29. RescansFresh'
  <2>1. DOMAIN plan'.rescans = {}
    BY <1>4, <1>14
  <2>2. QED BY <2>1 DEF RescansFresh
<1>30. ListsFresh'
  <2>1. ASSUME NEW j \in DOMAIN plan'.refresh PROVE HasPath(next', plan'.refresh[j].id, plan'.refresh[j].path)
    <3>1. j \in DOMAIN plan.refresh /\ plan'.refresh[j] = plan.refresh[j]
      BY <1>4, <1>5
    <3>2. HasPath(l, plan.refresh[j].id, plan.refresh[j].path) /\ plan.refresh[j].id # NoDir
      BY <3>1, <1>1, RootedParts DEF FreshInv, ListsFresh, TaskFresh, l
    <3>3. QED BY <3>1, <3>2, <1>27 DEF m
  <2>2. QED BY <2>1 DEF ListsFresh, TaskFresh
<1>31. GraftsFresh'
  <2>1. ASSUME NEW g \in grafts PROVE g.path \in Paths /\ HasPath(m, g.id, Front(g.path))
                                      /\ (LookupDir(m, Front(g.path)) = g.id
                                            => Pending(g.path) \/ (disk[g.path] = "dir" /\ ~FileIn(m, g.path)))
    <3>1. CASE g \in plan.grafts
      <4>1. g.path \in Paths /\ HasPath(l, g.id, Front(g.path)) /\ Room(l, g.id, g.path) /\ g.id # d /\ g.id # NoDir
        BY <3>1, <1>1, <1>17, RootedParts DEF FreshInv, GraftsFresh, l
      <4>2. g.path \in Path /\ g.path # <<>> /\ Front(g.path) \in Path
        BY <4>1, PathsParts, PathEnds
      <4>3. ASSUME LookupDir(m, Front(g.path)) = g.id
            PROVE  Pending(g.path) \/ (disk[g.path] = "dir" /\ ~FileIn(m, g.path))
        <5>1. LookupDir(l, Front(g.path)) = g.id
          BY <4>1, <4>2, <4>3, <1>26 DEF Shrinks
        <5>2. FileIn(m, g.path) => FileIn(l, g.path)
          <6>1. CASE LookupDir(l, v) = d
            <7>1. Front(g.path) # v
              BY <5>1, <6>1, <4>1
            <7>2. QED BY <7>1, <4>2, <1>26
          <6>2. CASE LookupDir(l, v) # d
            BY <6>2, <4>2, <1>26
          <6>3. QED BY <6>1, <6>2
        <5>3. QED BY <5>1, <5>2, <4>1 DEF Room
      <4>4. QED BY <4>1, <4>3, <1>27
    <3>2. CASE g \in new
      <4>1. PICK n \in FreshDirs(l, d, e) : g.id = d /\ g.path = Append(v, n)
        BY <3>2, <1>8
      <4>2. n \in e.dirs /\ n \in Name
        BY <1>18
      <4>3. g.path \in Paths /\ Front(g.path) = v /\ g.path \in Path
        BY <4>1, <4>2, <1>10, PathAppend, PathsParts
      <4>4. HasPath(m, d, v)
        BY <1>9, <1>19, <1>27
      <4>5. ASSUME LookupDir(m, v) = d PROVE disk[g.path] = "dir" /\ ~FileIn(m, g.path)
        <5>1. disk[g.path] = "dir" /\ IsDir(v)
          BY <4>1, <4>2, <4>3, <1>10
        <5>2. n \notin e.files
          BY <4>1, <4>2, <4>3, <5>1, <1>10
        <5>3. QED BY <4>1, <4>2, <4>5, <5>1, <5>2, <1>26
      <4>6. QED BY <4>1, <4>3, <4>4, <4>5
    <3>3. QED BY <3>1, <3>2, <1>21
  <2>2. ASSUME NEW g \in plan'.grafts PROVE g.path \in Paths /\ HasPath(next', g.id, Front(g.path)) /\ Room(next, g.id, g.path)'
    <3>1. g \in grafts
      BY <1>4
    <3>2. Pending(g.path) <=> Pending(g.path)'
      BY <1>12
    <3>3. QED BY <2>1, <3>1, <3>2, <1>2 DEF Room, m
  <2>3. QED BY <2>2 DEF GraftsFresh
<1>32. WorkFresh'
  <2>1. ASSUME NoRebuild', NEW p \in Seen PROVE (Shows(next, p, disk[p]) \/ Pending(p) \/ Due(next, plan, p))'
    <3>1. Owed(p)
      BY <2>1, <1>13, <1>26
    <3>2. Pending(p) <=> Pending(p)'
      BY <1>12
    <3>3. RefreshDue(m, left, p) => RefreshDue(next', plan'.refresh, p)
      BY <1>4 DEF m
    <3>4. GraftDue(m, grafts, p) => GraftDue(next', plan'.grafts, p)
      BY <1>4 DEF m
    <3>5. Shows(m, p, disk[p]) => Shows(next', p, disk'[p])
      BY <1>2 DEF m
    <3>6. QED BY <3>1, <3>2, <3>3, <3>4, <3>5 DEF Due
  <2>2. QED BY <2>1 DEF WorkFresh, Seen
<1>34. IdleFresh' /\ WalkFresh'
  BY <1>2 DEF IdleFresh, WalkFresh
<1>35. QED BY <1>28, <1>29, <1>30, <1>31, <1>32, <1>34 DEF FreshInv
-----------------------------------------------------------------------------
(* A batch is planned.                                                     *)

\* resolve_or_ancestor finds the last directory on the way to p that the
\* snapshot shows.
LEMMA ResolveSays ==
  ASSUME NEW l, Rooted(l), NEW p \in Path
  PROVE  LET t == ResolveOrAncestor(l, p)
         IN  /\ t.path \in Path /\ IsPrefix(t.path, p)
             /\ t.id # NoDir /\ LookupDir(l, t.path) = t.id
             /\ t.path # p => LookupDir(l, Prefix(p, Len(t.path) + 1)) = NoDir
<1> DEFINE known == {i \in 0 .. Len(p) : LookupDir(l, Prefix(p, i)) # NoDir}
           n     == CHOOSE i \in known : \A j \in known : j <= i
           u     == Prefix(p, n)
<1>1. Len(p) \in Nat /\ known \subseteq 0 .. Len(p)
  BY PathPrefix
<1>2. 0 \in known
  <2>1. Prefix(p, 0) = <<>>
    BY DEF Prefix
  <2>2. LookupDir(l, <<>>) # NoDir
    BY LookRoot, RootedParts
  <2>3. QED BY <1>1, <2>1, <2>2
<1>3. ResolveOrAncestor(l, p) = [id |-> LookupDir(l, u), path |-> u]
  BY <1>2 DEF ResolveOrAncestor
<1>4. \A i \in 0 .. Len(p) : i \in known <=> LookupDir(l, Prefix(p, i)) # NoDir
  OBVIOUS
<1>5. \E i \in known : \A j \in known : j <= i
  <2> HIDE DEF known
  <2>1. QED BY <1>1, <1>2, GreatestOf
<1>6. n \in known /\ \A j \in known : j <= n
  <2> HIDE DEF known
  <2>1. QED BY <1>5
<1> HIDE DEF known, n
<1>7. n \in 0 .. Len(p)
  BY <1>1, <1>6
<1>8. u \in Path /\ Len(u) = n /\ IsPrefix(u, p)
  <2>1. p \in Seq(Name) /\ u = SubSeq(p, 1, n)
    BY DEF Path, Prefix
  <2>2. \A i \in 1 .. n : p[i] \in Name
    BY <1>1, <1>7, <2>1, ElementOfSeq
  <2>3. u \in Path /\ Len(u) = n /\ \A i \in 1 .. n : u[i] = p[i]
    BY <1>7, <2>1, <2>2, Beginning DEF Path
  <2> HIDE DEF u
  <2>4. QED BY <1>1, <1>7, <2>3, PathPrefix
<1>9. LookupDir(l, u) # NoDir
  BY <1>4, <1>6, <1>7
<1>10. ASSUME u # p PROVE LookupDir(l, Prefix(p, n + 1)) = NoDir
  <2>1. n # Len(p)
    <3>1. n = Len(p) => u = p
      <4> HIDE DEF u
      <4>1. QED BY <1>7, <1>8, PathPrefix, PathEqual
    <3>2. QED BY <1>10, <3>1
  <2>2. n + 1 \in 0 .. Len(p) /\ n + 1 \notin known
    BY <1>1, <1>6, <1>7, <2>1
  <2>3. QED BY <1>4, <2>2
<1> HIDE DEF u
<1>11. QED BY <1>3, <1>8, <1>9, <1>10

\* Each task names a directory and the path that leads to it.
Located(l, slots, task) ==
  /\ slots \subseteq Nat
  /\ \A k \in slots : task[k].id # NoDir /\ task[k].path \in Path /\ LookupDir(l, task[k].path) = task[k].id

\* Every slot's directory is among the tasks, under the path that leads to it.
LEMMA TasksHold ==
  ASSUME NEW l, Rooted(l), NEW slots, NEW task, Located(l, slots, task), NEW s \in slots
  PROVE  \E k \in DOMAIN Tasks(slots, task) :
           Tasks(slots, task)[k].id = task[s].id /\ Tasks(slots, task)[k].path = task[s].path
<1> DEFINE T == {k \in slots : task[k].id = task[s].id}
           kept == {k \in slots : /\ task[k].id # NoDir
                                  /\ \A r \in slots : r < k => task[r].id # task[k].id}
<1>0. slots \subseteq Nat
  BY DEF Located
<1>1. T \subseteq Nat /\ T # {}
  BY <1>0
<1>2. PICK k \in T : \A j \in T : k <= j
  <2> HIDE DEF T
  <2>1. QED BY <1>1, LeastOf
<1>3. ASSUME NEW r \in slots, r < k PROVE task[r].id # task[k].id
  <2>1. k \in Nat /\ r \in Nat /\ task[k].id = task[s].id
    BY <1>0, <1>1, <1>2
  <2>2. r \in T => k <= r
    BY <1>2
  <2>3. r \notin T
    BY <1>3, <2>1, <2>2
  <2>4. QED BY <2>1, <2>3
<1>4. k \in kept
  BY <1>2, <1>3 DEF Located
<1>5. Tasks(slots, task) = [i \in kept |-> task[i]]
  BY DEF Tasks
<1>6. task[k].path = task[s].path
  <2>1. k \in slots /\ task[k].id = task[s].id
    BY <1>2
  <2>2. LookupDir(l, task[k].path) = LookupDir(l, task[s].path) /\ LookupDir(l, task[k].path) # NoDir
    BY <2>1 DEF Located
  <2>3. task[k].path \in Path /\ task[s].path \in Path
    BY <2>1 DEF Located
  <2>4. QED BY <2>2, <2>3, LookOnce
<1> HIDE DEF kept
<1>7. QED BY <1>2, <1>4, <1>5, <1>6

\* What the tasks of a plan hold is among the slots.
LEMMA TasksFrom ==
  ASSUME NEW slots, NEW task, NEW k \in DOMAIN Tasks(slots, task)
  PROVE  k \in slots /\ Tasks(slots, task)[k] = task[k] /\ task[k].id # NoDir
BY DEF Tasks

\* What an event of p, or of a directory above p, is taken for.
Heard(e, p) == \/ e.path = p /\ e.kind \in {"item", "dir", "full"}
               \/ e.kind = "scan" /\ Under(e.path, p)

\* No word of the batch is of a directory above the root.
NoneAbove(batch) == \A i \in DOMAIN batch : batch[i].kind # "above"

\* A batch that holds an event about p owes p a rescan, a listing or a rebuild.
LEMMA PlanOwes ==
  ASSUME NEW l, Rooted(l), NEW n \in Nat, NEW batch \in [1 .. n -> Event], NoneAbove(batch),
         NEW j \in 1 .. n, NEW p \in Path, p # <<>>, ~IsIgnored(p), Heard(batch[j], p)
  PROVE  \/ PlanFull(l, batch)
         \/ RefreshDue(l, PlanRefresh(l, batch), p)
         \/ RescanDue(l, PlanRescans(l, batch), p)
<1>1. Len(batch) = n /\ DOMAIN batch = 1 .. n
  BY FunctionIsSeq
<1>2. \A i \in 1 .. n : batch[i].path \in Path
  BY DEF Event
<1>3. CASE batch[j].kind = "full" /\ batch[j].path = p
  BY <1>1, <1>3 DEF PlanFull
<1>4. CASE batch[j].path = p /\ batch[j].kind \in {"item", "dir"}
  <2> DEFINE slots == {k \in 1 .. 2 * Len(batch) : Wants(batch, k)}
             task  == [k \in slots |-> ResolveOrAncestor(l, WantedPath(batch, k))]
             s     == 2 * j - 1
             t     == ResolveOrAncestor(l, Front(p))
  <2>1. PlanRefresh(l, batch) = Tasks(slots, task)
    BY DEF PlanRefresh
  <2>2. s \in 1 .. 2 * n /\ (s + 1) \div 2 = j /\ s % 2 = 1
    OBVIOUS
  <2>3. s \in slots
    BY <1>1, <1>4, <2>2 DEF Wants
  <2>4. WantedPath(batch, s) = Front(p)
    BY <1>4, <2>2 DEF WantedPath
  <2>5. ASSUME NEW k \in slots
        PROVE  task[k].id # NoDir /\ task[k].path \in Path /\ LookupDir(l, task[k].path) = task[k].id
    <3>1. (k + 1) \div 2 \in 1 .. n
      BY <1>1
    <3>2. WantedPath(batch, k) \in Path
      BY <1>2, <3>1, PathParts DEF WantedPath
    <3>3. task[k] = ResolveOrAncestor(l, WantedPath(batch, k))
      OBVIOUS
    <3> HIDE DEF task, slots
    <3>4. QED BY <3>2, <3>3, ResolveSays
  <2>6. task[s] = t /\ slots \subseteq Nat
    BY <1>1, <2>3, <2>4
  <2> HIDE DEF task, slots, s
  <2>7. PICK k \in DOMAIN Tasks(slots, task) :
          Tasks(slots, task)[k].id = t.id /\ Tasks(slots, task)[k].path = t.path
    <3>e. Located(l, slots, task)
      BY <2>5, <2>6 DEF Located
    <3> HIDE DEF t
    <3>1. \E k \in DOMAIN Tasks(slots, task) :
            Tasks(slots, task)[k].id = task[s].id /\ Tasks(slots, task)[k].path = task[s].path
      <4>1. slots \subseteq Nat /\ s \in slots
        BY <2>3, <2>6
      <4>2. PICK r \in slots : r = s
        BY <4>1
      <4>3. \E k \in DOMAIN Tasks(slots, task) :
              Tasks(slots, task)[k].id = task[r].id /\ Tasks(slots, task)[k].path = task[r].path
        BY ONLY Rooted(l), <3>e, TasksHold
      <4>4. QED BY <4>2, <4>3
    <3>2. QED BY <3>1, <2>6
  <2>8. PICK f \in Path, x \in Name : f = Front(p) /\ x = Last(p) /\ p = Append(f, x)
    BY PathEnds
  <2>9. t.path \in Path /\ IsPrefix(t.path, f) /\ LookupDir(l, t.path) = t.id
        /\ (t.path # f => LookupDir(l, Prefix(f, Len(t.path) + 1)) = NoDir)
    BY <2>8, ResolveSays
  <2>10. Under(t.path, p)
    BY <2>8, <2>9, UnderFront
  <2>11. ASSUME t.path # f PROVE LookupDir(l, Prefix(p, Len(t.path) + 1)) = NoDir
    <3>1. Under(t.path, f)
      BY <2>9, <2>11 DEF Under
    <3> HIDE DEF t
    <3>2. PICK u \in Path : u = t.path
      BY <2>9
    <3>3. Prefix(f, Len(u) + 1) = Append(u, f[Len(u) + 1]) /\ Len(u) + 1 \in 1 .. Len(f) /\ Len(u) \in Nat
      BY <3>1, <3>2, UnderStep
    <3>4. Prefix(p, Len(u) + 1) = Append(u, p[Len(u) + 1])
      BY <2>10, <3>2, UnderStep
    <3>5. p[Len(u) + 1] = f[Len(u) + 1]
      <4>1. \A i \in 1 .. Len(f) : Append(f, x)[i] = f[i]
        BY PathAppend
      <4>2. QED BY ONLY <2>8, <3>3, <4>1
    <3>6. QED BY <2>9, <2>11, <3>2, <3>3, <3>4, <3>5
  <2>12. Lists(l, Tasks(slots, task)[k], p)
    BY <2>7, <2>8, <2>9, <2>10, <2>11 DEF Lists
  <2>13. QED BY <2>1, <2>7, <2>12 DEF RefreshDue
<1>5. CASE batch[j].kind = "scan" /\ Under(batch[j].path, p)
  <2> DEFINE target == RescanTargets(l, batch)
             all    == {i \in 1 .. Len(batch) :
                          batch[i].kind \in {"scan", "above"} /\ ~IsIgnored(batch[i].path)}
             slots  == {i \in DOMAIN target : target[i].id # Root}
             v      == batch[j].path
             t      == ResolveOrAncestor(l, v)
  <2>1. target = [i \in all |-> ResolveOrAncestor(l, batch[i].path)]
    <3>1. target = [i \in all |-> TargetOf(l, batch[i])]
      BY DEF RescanTargets
    <3>2. \A i \in all : TargetOf(l, batch[i]) = ResolveOrAncestor(l, batch[i].path)
      BY <1>1 DEF TargetOf, NoneAbove
    <3> HIDE DEF all, target
    <3>3. QED BY <3>1, <3>2
  <2>2. v \in Path /\ IsPrefix(v, p)
    BY <1>2, <1>5 DEF Under
  <2>3. ~IsIgnored(v)
    <3>1. SUFFICES ASSUME NEW q \in Ignored, IsPrefix(q, v) PROVE FALSE
      BY DEF IsIgnored
    <3>2. q \in Path
      BY VolumeAssumption DEF Path
    <3>3. IsPrefix(q, p)
      BY <2>2, <3>1, <3>2, PrefixFurther
    <3>4. QED BY <3>3 DEF IsIgnored
  <2>4. j \in all
    BY <1>1, <1>5, <2>3
  <2> HIDE DEF target
  <2>5. DOMAIN target = all /\ target[j] = t
    BY <2>1, <2>4
  <2>6. CASE t.id = Root
    BY <2>4, <2>5, <2>6 DEF PlanFull, target
  <2>7. CASE t.id # Root
    <3>1. j \in slots
      BY <2>4, <2>5, <2>7
    <3>2. ASSUME NEW i \in slots
          PROVE  target[i].id # NoDir /\ target[i].path \in Path /\ LookupDir(l, target[i].path) = target[i].id
      <4>1. i \in all /\ target[i] = ResolveOrAncestor(l, batch[i].path)
        BY <2>1, <2>5
      <4>2. batch[i].path \in Path
        BY <1>1, <1>2, <4>1
      <4>3. QED BY <4>1, <4>2, ResolveSays
    <3>3. slots \subseteq Nat
      BY <1>1, <2>5
    <3>4. PlanRescans(l, batch) = Tasks(slots, target)
      BY DEF PlanRescans, target
    <3> HIDE DEF slots
    <3>e. Located(l, slots, target)
      BY <3>2, <3>3 DEF Located
    <3> HIDE DEF v, t, all
    <3>s. PICK r \in slots : r = j
      BY <3>1
    <3>t. \E k \in DOMAIN Tasks(slots, target) :
            Tasks(slots, target)[k].id = target[r].id /\ Tasks(slots, target)[k].path = target[r].path
      BY ONLY Rooted(l), <3>e, TasksHold
    <3>5. PICK k \in DOMAIN Tasks(slots, target) :
            Tasks(slots, target)[k].id = target[j].id /\ Tasks(slots, target)[k].path = target[j].path
      BY ONLY <3>s, <3>t
    <3>6. t.path \in Path /\ IsPrefix(t.path, v) /\ LookupDir(l, t.path) = t.id
      BY <2>2, ResolveSays DEF t
    <3>7. Under(t.path, p)
      BY <1>5, <2>2, <3>6, UnderFurther DEF v
    <3>8. QED BY <2>5, <3>4, <3>5, <3>6, <3>7 DEF RescanDue
  <2>8. QED BY <2>6, <2>7
<1>6. QED BY <1>3, <1>4, <1>5 DEF Heard

\* An event is delivered as itself, or as a scan of a directory above it.
LEMMA DeliveredHeard ==
  ASSUME log \in Seq(Event), LogFresh, DropAbove = FALSE, NEW i \in DOMAIN log, NEW e \in Deliverable(i)
  PROVE  Heard(e, log[i].path) /\ e.kind # "above"
<1> DEFINE p == log[i].path
<1>1. p \in Path /\ log[i].kind \in {"item", "dir", "full"}
  <2>1. log[i] \in Event
    BY LenProperties, ElementOfSeq
  <2>2. QED BY <2>1 DEF Event, LogFresh
<1>2. CASE e = log[i]
  BY <1>1, <1>2 DEF Heard
<1>3. ASSUME NEW n \in 0 .. Len(p) - 1, e = [path |-> Prefix(p, n), kind |-> "scan"]
      PROVE  e.kind = "scan" /\ Under(e.path, p)
  <2>1. Len(p) \in Nat
    BY <1>1, PathPrefix
  <2>2. \A k \in 1 .. n : p[k] \in Name
    BY <1>1, <1>3, <2>1, ElementOfSeq DEF Path
  <2>3. Prefix(p, n) \in Path /\ Len(Prefix(p, n)) = n /\ \A k \in 1 .. n : Prefix(p, n)[k] = p[k]
    BY <1>3, <2>1, <2>2, Beginning DEF Path, Prefix
  <2>4. PICK u \in Path : u = Prefix(p, n)
    BY <2>3
  <2> HIDE DEF p
  <2>5. IsPrefix(u, p) /\ u # p
    BY <1>1, <1>3, <2>1, <2>3, <2>4, PathPrefix
  <2>6. QED BY <1>3, <2>4, <2>5 DEF Under
<1>4. e = log[i] \/ \E n \in 0 .. Len(p) - 1 : e = [path |-> Prefix(p, n), kind |-> "scan"]
  BY DEF Deliverable
<1>5. QED BY <1>2, <1>3, <1>4 DEF Heard

\* A task that a plan makes is of the directory at its path.
LEMMA TaskAt ==
  ASSUME NEW l, Rooted(l), NEW p \in Path, LookupDir(l, p) # NoDir
  PROVE  /\ HasPath(l, LookupDir(l, p), p)
         /\ LookupDir(l, p) # Root => p # <<>> /\ Whole(l, LookupDir(l, p), p)
<1>1. HasPath(l, LookupDir(l, p), p)
  BY LookOnce DEF HasPath
<1>2. ASSUME LookupDir(l, p) # Root PROVE p # <<>> /\ Whole(l, LookupDir(l, p), p)
  <2>1. p # <<>>
    BY <1>2, LookRoot
  <2>2. Front(p) \in Path
    BY <2>1, PathEnds
  <2>3. l.dirs[LookupDir(l, p)].parent = LookupDir(l, Front(p)) /\ LookupDir(l, Front(p)) # NoDir
    BY <2>1, LookFound
  <2>4. HasPath(l, LookupDir(l, Front(p)), Front(p))
    BY <2>2, <2>3, LookOnce DEF HasPath
  <2>5. QED BY <2>1, <2>3, <2>4 DEF Whole
<1>3. QED BY <1>1, <1>2

\* The tasks of a plan, each with the directory its path leads to.
LEMMA PlanLocated ==
  ASSUME NEW l, Rooted(l), NEW n \in Nat, NEW batch \in [1 .. n -> Event]
  PROVE  /\ \A k \in DOMAIN PlanRefresh(l, batch) :
              LET t == PlanRefresh(l, batch)[k]
              IN  t.path \in Path /\ t.id # NoDir /\ LookupDir(l, t.path) = t.id
         /\ \A k \in DOMAIN PlanRescans(l, batch) :
              LET t == PlanRescans(l, batch)[k]
              IN  t.path \in Path /\ t.id # NoDir /\ t.id # Root /\ LookupDir(l, t.path) = t.id
<1>1. Len(batch) = n /\ DOMAIN batch = 1 .. n
  BY FunctionIsSeq
<1>2. \A i \in 1 .. n : batch[i].path \in Path
  BY DEF Event
<1>3. ASSUME NEW k \in DOMAIN PlanRefresh(l, batch)
      PROVE  LET t == PlanRefresh(l, batch)[k]
             IN  t.path \in Path /\ t.id # NoDir /\ LookupDir(l, t.path) = t.id
  <2> DEFINE slots == {s \in 1 .. 2 * Len(batch) : Wants(batch, s)}
             task  == [s \in slots |-> ResolveOrAncestor(l, WantedPath(batch, s))]
  <2>1. PlanRefresh(l, batch) = Tasks(slots, task)
    BY DEF PlanRefresh
  <2>2. \A s \in slots : s \in 1 .. 2 * n /\ task[s] = ResolveOrAncestor(l, WantedPath(batch, s))
    BY <1>1
  <2> HIDE DEF slots, task
  <2>3. k \in slots /\ PlanRefresh(l, batch)[k] = task[k]
    BY <2>1, TasksFrom
  <2>4. (k + 1) \div 2 \in 1 .. n
    BY <2>2, <2>3
  <2>5. WantedPath(batch, k) \in Path
    BY <1>2, <2>4, PathParts DEF WantedPath
  <2>6. QED BY <2>2, <2>3, <2>5, ResolveSays
<1>4. ASSUME NEW k \in DOMAIN PlanRescans(l, batch)
      PROVE  LET t == PlanRescans(l, batch)[k]
             IN  t.path \in Path /\ t.id # NoDir /\ t.id # Root /\ LookupDir(l, t.path) = t.id
  <2> DEFINE target == RescanTargets(l, batch)
             slots  == {i \in DOMAIN target : target[i].id # Root}
  <2>1. PlanRescans(l, batch) = Tasks(slots, target)
    BY DEF PlanRescans
  <2>2. \A i \in DOMAIN target : i \in 1 .. n /\ target[i] = TargetOf(l, batch[i])
    BY <1>1 DEF RescanTargets
  <2> HIDE DEF target
  <2>3. k \in slots /\ PlanRescans(l, batch)[k] = target[k] /\ target[k].id # NoDir
    <3> HIDE DEF slots
    <3>1. QED BY <2>1, TasksFrom
  <2>4. batch[k].path \in Path /\ target[k] = ResolveOrAncestor(l, batch[k].path) /\ target[k].id # Root
    BY <1>2, <2>2, <2>3 DEF TargetOf, None
  <2>5. QED BY <2>3, <2>4, ResolveSays
<1>5. QED BY <1>3, <1>4

\* A batch is planned: what was still to be delivered is now owed.
LEMMA TakeBatchFresh ==
  DropAbove = FALSE /\ IInv /\ SiblingInv /\ FreshInv /\ TakeBatch => FreshInv'
<1> SUFFICES ASSUME DropAbove = FALSE, IInv, SiblingInv, FreshInv, TakeBatch PROVE FreshInv'
  OBVIOUS
<1> DEFINE l == shared
<1>1. Rooted(l) /\ TreeDisk(disk) /\ LogFresh /\ IdleFresh
  BY DEF FreshInv
<1>2. /\ pc = "idle" /\ next' = shared /\ shared' = shared /\ walk' = walk /\ cut' = cut
      /\ disk' = disk /\ log' = log /\ pc' = "work"
  BY DEF TakeBatch
<1>3. log \in Seq(Event) /\ sent \in 0 .. Len(log) /\ Len(log) \in Nat /\ DOMAIN log = 1 .. Len(log)
  BY LenProperties DEF IInv, TypeOK, VolumeOK
<1>4. PICK n \in 1 .. Len(log) - sent :
        \E batch \in {b \in [1 .. n -> UNION {Deliverable(sent + i) : i \in 1 .. n}] :
                        \A i \in 1 .. n : b[i] \in Deliverable(sent + i)} :
          /\ plan' = [rescans |-> PlanRescans(shared, batch),
                      refresh |-> PlanRefresh(shared, batch),
                      grafts  |-> {},
                      full    |-> PlanFull(shared, batch)]
          /\ sent' = sent + n
  BY DEF TakeBatch
<1>5. PICK batch \in [1 .. n -> UNION {Deliverable(sent + i) : i \in 1 .. n}] :
        /\ \A i \in 1 .. n : batch[i] \in Deliverable(sent + i)
        /\ plan' = [rescans |-> PlanRescans(shared, batch),
                    refresh |-> PlanRefresh(shared, batch),
                    grafts  |-> {},
                    full    |-> PlanFull(shared, batch)]
        /\ sent' = sent + n
  BY <1>4
<1>6. n \in Nat /\ batch \in [1 .. n -> Event]
  <2>1. ASSUME NEW i \in 1 .. n PROVE batch[i] \in Event
    <3>1. sent + i \in 1 .. Len(log)
      BY <1>3
    <3>2. Deliverable(sent + i) \subseteq Event
      BY <1>3, <3>1, DeliverableType
    <3>3. QED BY <1>5, <3>2
  <2>2. n \in Nat
    BY <1>3
  <2>3. QED BY <1>5, <2>1, <2>2
<1>6a. NoneAbove(batch)
  <2>1. ASSUME NEW i \in 1 .. n PROVE batch[i].kind # "above"
    <3>1. sent + i \in DOMAIN log
      BY <1>3
    <3>2. QED BY <1>1, <1>3, <1>5, <3>1, DeliveredHeard
  <2>2. QED BY <1>6, <2>1 DEF NoneAbove
<1>7. /\ plan'.rescans = PlanRescans(l, batch) /\ plan'.refresh = PlanRefresh(l, batch)
      /\ plan'.grafts = {} /\ plan'.full = PlanFull(l, batch) /\ next' = l
  BY <1>2, <1>5
<1> HIDE DEF l
<1>8. TreeDisk(disk)' /\ LogFresh' /\ Rooted(shared)' /\ Rooted(next)'
  BY <1>1, <1>2 DEF TreeDisk, LogFresh, l
<1>9. /\ \A k \in DOMAIN PlanRefresh(l, batch) :
           LET t == PlanRefresh(l, batch)[k]
           IN  t.path \in Path /\ t.id # NoDir /\ LookupDir(l, t.path) = t.id
      /\ \A k \in DOMAIN PlanRescans(l, batch) :
           LET t == PlanRescans(l, batch)[k]
           IN  t.path \in Path /\ t.id # NoDir /\ t.id # Root /\ LookupDir(l, t.path) = t.id
  BY <1>1, <1>6, PlanLocated
<1>10. RescansFresh'
  <2>1. ASSUME NEW k \in DOMAIN PlanRescans(l, batch), NEW t, t = PlanRescans(l, batch)[k]
        PROVE  HasPath(l, t.id, t.path) /\ Whole(l, t.id, t.path)
    BY <1>1, <1>9, <2>1, TaskAt
  <2>2. \A k \in DOMAIN PlanRescans(l, batch) :
          /\ HasPath(l, PlanRescans(l, batch)[k].id, PlanRescans(l, batch)[k].path)
          /\ Whole(l, PlanRescans(l, batch)[k].id, PlanRescans(l, batch)[k].path)
    BY <2>1
  <2>3. QED BY <2>2, <1>7 DEF RescansFresh, TaskFresh
<1>11. ListsFresh'
  <2>1. ASSUME NEW k \in DOMAIN PlanRefresh(l, batch), NEW t, t = PlanRefresh(l, batch)[k]
        PROVE  HasPath(l, t.id, t.path)
    BY <1>1, <1>9, <2>1, TaskAt
  <2>2. \A k \in DOMAIN PlanRefresh(l, batch) :
          HasPath(l, PlanRefresh(l, batch)[k].id, PlanRefresh(l, batch)[k].path)
    BY <2>1
  <2>3. QED BY <2>2, <1>7 DEF ListsFresh, TaskFresh
<1>12. GraftsFresh'
  BY <1>7 DEF GraftsFresh
<1>13. ASSUME NEW p \in Seen, NoRebuild' PROVE (Shows(next, p, disk[p]) \/ Pending(p) \/ Due(next, plan, p))'
  <2>1. Shows(l, p, disk[p]) \/ Pending(p)
    BY <1>1, <1>2 DEF IdleFresh, l
  <2>2. CASE Shows(l, p, disk[p])
    BY <2>2, <1>2, <1>7
  <2>3. CASE Pending(p)
    <3>1. PICK i \in sent + 1 .. Len(log) : log[i].path = p
      BY <2>3 DEF Pending
    <3>2. CASE i > sent + n
      <4>1. i \in sent' + 1 .. Len(log')
        BY <1>2, <1>3, <1>5, <1>6, <3>2
      <4>2. Pending(p)'
        BY <1>2, <3>1, <4>1 DEF Pending
      <4>3. QED BY <4>2
    <3>3. CASE i <= sent + n
      <4>1. PICK j \in 1 .. n : i = sent + j
        <5>1. i - sent \in 1 .. n /\ i = sent + (i - sent)
          BY <1>3, <1>6, <3>3
        <5>2. QED BY <5>1
      <4>2. batch[j] \in Deliverable(i) /\ i \in DOMAIN log
        BY <1>3, <1>5, <4>1
      <4>3. Heard(batch[j], p)
        BY <1>1, <1>3, <3>1, <4>2, DeliveredHeard
      <4>4. p \in Path /\ p # <<>> /\ ~IsIgnored(p)
        BY PathsParts DEF Seen
      <4>5. \/ PlanFull(l, batch)
            \/ RefreshDue(l, PlanRefresh(l, batch), p)
            \/ RescanDue(l, PlanRescans(l, batch), p)
        BY <1>1, <1>6, <1>6a, <4>3, <4>4, PlanOwes
      <4>6. ~PlanFull(l, batch)
        BY <1>13, <1>7 DEF NoRebuild
      <4>7. Due(l, plan', p)
        BY <1>7, <4>5, <4>6 DEF Due
      <4>8. QED BY <1>7, <4>7
    <3>4. QED BY <3>2, <3>3, <1>3, <1>6
  <2>4. QED BY <2>1, <2>2, <2>3
<1>14. WorkFresh'
  BY <1>13 DEF WorkFresh, Seen
<1>15. IdleFresh' /\ WalkFresh'
  BY <1>2 DEF IdleFresh, WalkFresh
<1>16. QED BY <1>8, <1>10, <1>11, <1>12, <1>14, <1>15 DEF FreshInv
-----------------------------------------------------------------------------
(* The disk changes.                                                       *)

\* A system that the index can follow: nothing is renamed and no directory is
\* closed, no rebuild fails, what is dropped is to be scanned within the root,
\* and the daemon starts with an index of the disk.
Tame == /\ Ops \subseteq {"create", "remove", "wrap"}
        /\ RebuildMayFail = FALSE /\ DropAbove = FALSE
        /\ \A s \in Starts : /\ TreeDisk(s.disk) /\ Rooted(s.index)
                             /\ \A p \in Seen : Shows(s.index, p, s.disk[p])

\* What is recorded is pending, and stays so.
LEMMA RecordedPending ==
  ASSUME log \in Seq(Event), sent \in 0 .. Len(log), NEW e \in Event, log' = log \o <<e>>, sent' = sent,
         LogFresh, e.kind \in {"item", "dir", "full"}
  PROVE  Pending(e.path)' /\ (\A p : Pending(p) => Pending(p)') /\ LogFresh'
<1>1. Len(log) \in Nat /\ DOMAIN log = 1 .. Len(log)
  BY LenProperties
<1>2. [i \in 1 .. 1 |-> e] \in [1 .. 1 -> Event] /\ <<e>> = [i \in 1 .. 1 |-> e]
  OBVIOUS
<1>3. /\ Len(log') = Len(log) + 1 /\ DOMAIN log' = 1 .. Len(log) + 1
      /\ \A i \in 1 .. Len(log) : log'[i] = log[i]
      /\ log'[Len(log) + 1] = e
  <2>1. <<e>> \in Seq(Event) /\ Len(<<e>>) = 1 /\ <<e>>[1] = e
    OBVIOUS
  <2>2. DOMAIN <<e>> = 1 .. 1
    OBVIOUS
  <2> DEFINE t == <<e>>
  <2>3. t \in Seq(Event) /\ Len(t) = 1 /\ t[1] = e /\ DOMAIN t = 1 .. 1
    BY <2>1, <2>2
  <2> HIDE DEF t
  <2>4. /\ log \o t \in Seq(Event)
        /\ DOMAIN (log \o t) = 1 .. Len(log) + Len(t)
        /\ \A i \in DOMAIN log : (log \o t)[i] = log[i]
        /\ \A i \in DOMAIN t : (log \o t)[Len(log) + i] = t[i]
    BY <2>3, Joined
  <2>5. log' = log \o t
    BY DEF t
  <2>6. DOMAIN log' = 1 .. Len(log')
    BY <2>4, <2>5, LenProperties
  <2>7. Len(log') = Len(log) + 1
    <3>1. Len(log') \in Nat
      BY <2>4, <2>5, LenProperties
    <3>2. 1 .. Len(log') = 1 .. Len(log) + 1
      BY <2>3, <2>4, <2>5, <2>6
    <3>3. QED BY <1>1, <3>1, <3>2
  <2>8. QED BY <1>1, <2>3, <2>4, <2>5, <2>7
<1>4. Len(log) + 1 \in sent' + 1 .. Len(log')
  BY <1>1, <1>3
<1>5. Pending(e.path)'
  BY <1>3, <1>4 DEF Pending
<1>6. ASSUME NEW p, Pending(p) PROVE Pending(p)'
  <2>1. PICK i \in sent + 1 .. Len(log) : log[i].path = p
    BY <1>6 DEF Pending
  <2>2. i \in sent' + 1 .. Len(log') /\ log'[i].path = p
    BY <1>1, <1>3, <2>1
  <2>3. QED BY <2>2 DEF Pending
<1>7. LogFresh'
  <2>1. ASSUME NEW i \in DOMAIN log' PROVE log'[i].kind \in {"item", "dir", "full"}
    <3>1. CASE i \in 1 .. Len(log)
      BY <1>1, <1>3, <3>1 DEF LogFresh
    <3>2. CASE i = Len(log) + 1
      BY <1>3, <3>2
    <3>3. QED BY <1>1, <1>3, <3>1, <3>2
  <2>2. QED BY <2>1 DEF LogFresh
<1>8. QED BY <1>5, <1>6, <1>7

\* A tree remains one when a leaf is added or taken away.
LEMMA TreeStays ==
  ASSUME TreeDisk(disk), disk \in [Paths -> Kinds], NEW p \in Paths,
         NEW kind \in {"none", "file", "dir"}, disk' = [disk EXCEPT ![p] = kind],
         kind # "none" => IsDir(Front(p)),
         \A q \in Paths : Front(q) = p => disk[q] = "none"
  PROVE  TreeDisk(disk)' /\ \A q \in Paths : q # p => disk'[q] = disk[q]
<1>1. disk'[p] = kind /\ \A q \in Paths : q # p => disk'[q] = disk[q]
  OBVIOUS
<1>2. ASSUME NEW q \in Paths PROVE /\ disk'[q] \in {"none", "file", "dir"}
                                   /\ disk'[q] # "none" /\ Front(q) # <<>>
                                        => Front(q) \in Paths /\ disk'[Front(q)] = "dir"
  <2>1. Front(q) # q
    <3>1. q \in Path /\ q # <<>>
      BY PathsParts
    <3>2. Len(Front(q)) = Len(q) - 1 /\ Len(q) \in Nat
      BY <3>1, PathEnds
    <3>3. QED BY <3>2
  <2>2. CASE q = p
    BY <1>1, <2>1, <2>2 DEF IsDir
  <2>3. CASE q # p
    <3>1. disk'[q] = disk[q]
      BY <1>1, <2>3
    <3>2. disk[q] \in {"none", "file", "dir"}
          /\ (disk[q] # "none" /\ Front(q) # <<>> => Front(q) \in Paths /\ disk[Front(q)] = "dir")
      BY DEF TreeDisk
    <3>3. disk[q] # "none" => Front(q) # p
      OBVIOUS
    <3>4. QED BY <1>1, <3>1, <3>2, <3>3
  <2>4. QED BY <2>2, <2>3
<1>3. QED BY <1>1, <1>2 DEF TreeDisk

\* What happens on the disk is either recorded or nothing.
LEMMA VolumeFresh ==
  ASSUME Tame, VolumeOK, TreeDisk(disk), LogFresh, VolumeStep, sent' = sent
  PROVE  /\ TreeDisk(disk)' /\ LogFresh'
         /\ \A q \in Paths : disk'[q] = disk[q] \/ Pending(q)'
         /\ \A q : Pending(q) => Pending(q)'
<1>1. log \in Seq(Event) /\ sent \in 0 .. Len(log) /\ disk \in [Paths -> Kinds]
  BY DEF VolumeOK
<1>2. ASSUME NEW p \in Paths, NEW k, EventFor(p, k) \in Event, log' = log \o <<EventFor(p, k)>>
      PROVE  Pending(p)' /\ (\A q : Pending(q) => Pending(q)') /\ LogFresh'
  <2>1. EventFor(p, k).path = p /\ EventFor(p, k).kind \in {"item", "dir", "full"}
    BY DEF EventFor
  <2> DEFINE e == EventFor(p, k)
  <2>2. e \in Event /\ e.path = p /\ e.kind \in {"item", "dir", "full"} /\ log' = log \o <<e>>
    BY <1>2, <2>1
  <2> HIDE DEF e
  <2>3. QED BY <1>1, <2>2, RecordedPending
<1>3. \A p \in Paths : \A k : EventFor(p, k) \in Event
  BY PathsParts DEF EventFor, Event
<1>4. ASSUME NEW p \in Paths, NEW kind \in {"file", "dir"}, Create(p, kind)
      PROVE  /\ TreeDisk(disk)' /\ LogFresh'
             /\ \A q \in Paths : disk'[q] = disk[q] \/ Pending(q)'
             /\ \A q : Pending(q) => Pending(q)'
  <2>1. /\ disk[p] = "none" /\ IsDir(Front(p)) /\ disk' = [disk EXCEPT ![p] = kind]
        /\ log' = log \o <<EventFor(p, kind)>>
    BY <1>4 DEF Create, Record
  <2>2. ASSUME NEW q \in Paths, Front(q) = p PROVE disk[q] = "none"
    <3>1. p # <<>>
      BY PathsParts
    <3>2. QED BY <2>1, <2>2, <3>1 DEF TreeDisk
  <2>3. TreeDisk(disk)' /\ \A q \in Paths : q # p => disk'[q] = disk[q]
    BY <1>1, <2>1, <2>2, TreeStays
  <2>4. QED BY <1>2, <1>3, <2>1, <2>3
<1>5. ASSUME NEW p \in Paths, Unlink(p)
      PROVE  /\ TreeDisk(disk)' /\ LogFresh'
             /\ \A q \in Paths : disk'[q] = disk[q] \/ Pending(q)'
             /\ \A q : Pending(q) => Pending(q)'
  <2>1. /\ Empty(p) /\ disk' = [disk EXCEPT ![p] = "none"]
        /\ log' = log \o <<EventFor(p, disk[p])>>
    BY <1>5 DEF Unlink, Record
  <2>2. ASSUME NEW q \in Paths, Front(q) = p PROVE disk[q] = "none"
    <3>1. q \in Path /\ q # <<>>
      BY PathsParts
    <3>2. Under(p, q)
      BY <3>1, <2>2, PrefixSelf, FrontUnder
    <3>3. QED BY <2>1, <3>2 DEF Empty, Under
  <2>3. TreeDisk(disk)' /\ \A q \in Paths : q # p => disk'[q] = disk[q]
    BY <1>1, <2>1, <2>2, TreeStays
  <2>4. QED BY <1>2, <1>3, <2>1, <2>3
<1>6. ASSUME Wrap
      PROVE  /\ TreeDisk(disk)' /\ LogFresh'
             /\ \A q \in Paths : disk'[q] = disk[q] \/ Pending(q)'
             /\ \A q : Pending(q) => Pending(q)'
  <2> DEFINE e == [path |-> <<>>, kind |-> "full"]
  <2>1. disk' = disk /\ log' = log \o <<e>>
    BY <1>6 DEF Wrap, Record
  <2>2. e \in Event /\ e.kind \in {"item", "dir", "full"}
    BY PathEmpty DEF Event
  <2> HIDE DEF e
  <2>3. (\A q : Pending(q) => Pending(q)') /\ LogFresh'
    BY <1>1, <2>1, <2>2, RecordedPending
  <2>4. TreeDisk(disk)'
    BY <2>1 DEF TreeDisk
  <2>5. QED BY <2>1, <2>3, <2>4
<1>7. {"move", "rename", "chmod"} \cap Ops = {}
  BY DEF Tame
<1>8. \A p \in Paths : ~Chmod(p) /\ \A q \in Paths : ~Rename(p, q)
  BY <1>7 DEF Chmod, Rename
<1>9. \/ \E p \in Paths : Unlink(p) \/ \E kind \in {"file", "dir"} : Create(p, kind)
      \/ Wrap
  BY <1>8 DEF VolumeStep
<1>10. CASE Wrap
  BY <1>6, <1>10
<1>11. CASE \E p \in Paths : Unlink(p) \/ \E kind \in {"file", "dir"} : Create(p, kind)
  <2>1. PICK p \in Paths : Unlink(p) \/ \E kind \in {"file", "dir"} : Create(p, kind)
    BY <1>11
  <2>2. CASE Unlink(p)
    BY <1>5, <2>2
  <2>3. CASE \E kind \in {"file", "dir"} : Create(p, kind)
    <3>1. PICK kind \in {"file", "dir"} : Create(p, kind)
      BY <2>3
    <3>2. QED BY <1>4, <3>1
  <2>4. QED BY <2>1, <2>2, <2>3
<1>12. QED BY <1>9, <1>10, <1>11

\* While the thread stands still, what changes on the disk is pending.
LEMMA StandingFresh ==
  ASSUME FreshInv, UNCHANGED <<shared, next, pc, plan, walk, cut>>, TreeDisk(disk)', LogFresh',
         \A q \in Paths : disk'[q] = disk[q] \/ Pending(q)',
         \A q : Pending(q) => Pending(q)'
  PROVE  FreshInv'
<1>1. shared' = shared /\ next' = next /\ pc' = pc /\ plan' = plan /\ walk' = walk /\ cut' = cut
  OBVIOUS
<1>2. ASSUME NEW l, NEW q \in Paths, NEW s, Shows(l, s, disk[q]) \/ Pending(q)
      PROVE  Shows(l, s, disk'[q]) \/ Pending(q)'
  BY <1>2
<1>3. ASSUME NEW id, NEW q \in Paths, Room(next, id, q) PROVE Room(next, id, q)'
  BY <1>1, <1>3 DEF Room
<1>4. Rooted(shared)' /\ Rooted(next)' /\ RescansFresh' /\ ListsFresh'
  BY <1>1 DEF FreshInv, RescansFresh, ListsFresh, TaskFresh
<1>5. GraftsFresh'
  <2>1. ASSUME NEW g \in plan.grafts
        PROVE  g.path \in Paths /\ HasPath(next, g.id, Front(g.path)) /\ Room(next, g.id, g.path)'
    BY <1>3 DEF FreshInv, GraftsFresh
  <2>2. QED BY <1>1, <2>1 DEF GraftsFresh
<1>6. Seen \subseteq Paths /\ \A p \in Seen : p \in Paths
  BY DEF Seen
<1>7. IdleFresh'
  BY <1>1, <1>2, <1>6 DEF FreshInv, IdleFresh, Seen
<1>8. WorkFresh'
  <2>1. ASSUME pc = "work", NoRebuild, NEW p \in Seen
        PROVE  Shows(next, p, disk'[p]) \/ Pending(p)' \/ Due(next, plan, p)
    BY <1>2, <1>6, <2>1 DEF FreshInv, WorkFresh
  <2>2. NoRebuild' <=> NoRebuild
    BY <1>1 DEF NoRebuild
  <2>3. QED BY <1>1, <2>1, <2>2 DEF WorkFresh, Seen
<1>9. WalkFresh'
  <2>1. SUFFICES ASSUME pc \in {"rescan", "graft", "scan"} PROVE WalkFresh'
    BY <1>1 DEF WalkFresh
  <2>2. walk.tree.dirs # <<>> /\ walk.tree.dirs[1].parent = NoDir
    BY <2>1 DEF FreshInv, WalkFresh
  <2>3. PICK v \in Path : /\ WalkOf(v)
                          /\ pc # "scan" /\ NoRebuild =>
                               \A p \in Seen : \/ Shows(next, p, disk[p]) \/ Pending(p)
                                               \/ Due(next, plan, p) \/ Covered(p, v)
    BY <2>1 DEF FreshInv, WalkFresh
  <2>4. StackFresh(walk, v)'
    BY <1>1, <2>3 DEF WalkOf, StackFresh
  <2>5. TreeFresh(walk, v)'
    <3>1. ASSUME NEW s \in Path, s # <<>>, v \o s \in Paths
          PROVE  Shows(BaseOf(walk.tree), s, disk'[v \o s]) \/ Pending(v \o s)' \/ Unread(walk, v \o s)
      BY <1>2, <2>3, <3>1 DEF WalkOf, TreeFresh
    <3>2. QED BY <1>1, <3>1 DEF TreeFresh, Unread
  <2>6. IntoFresh(v)'
    <3>1. pc = "graft" => Room(next, walk.into, v)'
      BY <1>3, <2>3 DEF WalkOf, IntoFresh
    <3>2. QED BY <1>1, <2>3, <3>1 DEF WalkOf, IntoFresh
  <2>7. WalkOf(v)'
    BY <2>4, <2>5, <2>6 DEF WalkOf
  <2>8. ASSUME pc # "scan", NoRebuild, NEW p \in Seen
        PROVE  Shows(next, p, disk'[p]) \/ Pending(p)' \/ Due(next, plan, p) \/ Covered(p, v)
    BY <1>2, <1>6, <2>3, <2>8
  <2>9. NoRebuild' <=> NoRebuild
    BY <1>1 DEF NoRebuild
  <2>10. \A p : Covered(p, v) => Covered(p, v)'
    BY <1>1 DEF Covered
  <2>11. ASSUME pc' # "scan", NoRebuild', NEW p \in Seen
         PROVE  (Shows(next, p, disk[p]) \/ Pending(p) \/ Due(next, plan, p) \/ Covered(p, v))'
    BY <1>1, <2>8, <2>9, <2>10, <2>11
  <2>12. QED BY <1>1, <2>2, <2>7, <2>11 DEF WalkFresh, Seen
<1>10. QED BY <1>4, <1>5, <1>7, <1>8, <1>9 DEF FreshInv
-----------------------------------------------------------------------------
(* All steps.                                                              *)

\* The daemon starts with an index of the disk.
LEMMA InitFresh == ASSUME Tame, Init PROVE FreshInv
<1>1. PICK s \in Starts : disk = s.disk /\ shared = s.index /\ next = s.index
  BY DEF Init
<1>2. log = <<>> /\ pc = "idle" /\ plan = NoPlan
  BY DEF Init
<1>3. TreeDisk(disk) /\ Rooted(shared) /\ Rooted(next) /\ \A p \in Seen : Shows(shared, p, disk[p])
  BY <1>1 DEF Tame
<1>4. LogFresh
  BY <1>2 DEF LogFresh
<1>5. RescansFresh /\ ListsFresh /\ GraftsFresh
  BY <1>2, NoPlanFresh
<1>6. IdleFresh /\ WorkFresh /\ WalkFresh
  BY <1>2, <1>3 DEF IdleFresh, WorkFresh, WalkFresh
<1>7. QED BY <1>3, <1>4, <1>5, <1>6 DEF FreshInv

\* Every step keeps the invariant.
LEMMA StepFresh == ASSUME Tame, IInv, SiblingInv, FreshInv, [Next]_vars PROVE FreshInv'
<1>1. CASE TakeBatch
  BY <1>1, TakeBatchFresh DEF Tame
<1>2. CASE BeginRescan
  BY <1>2, BeginRescanFresh
<1>3. CASE \E g \in plan.grafts : BeginGraft(g)
  BY <1>3, BeginGraftFresh
<1>4. CASE ReadSubtree
  BY <1>4, ReadingFresh
<1>5. CASE EndSubtree
  <2>1. pc \in {"rescan", "graft"}
    BY <1>5 DEF EndSubtree
  <2>2. QED BY <1>5, <2>1, EndRescanFresh, EndGraftFresh
<1>6. CASE Refresh
  BY <1>6, RefreshFresh
<1>7. CASE Publish
  BY <1>7, PublishFresh DEF Tame
<1>8. CASE BeginRebuild
  BY <1>8, BeginRebuildFresh
<1>9. CASE ScanOne
  BY <1>9, ReadingFresh
<1>10. CASE EndRebuild
  BY <1>10, EndRebuildFresh
<1>11. CASE RebuildFails
  BY <1>11 DEF RebuildFails, Tame
<1>12. CASE Environment
  <2>1. VolumeStep /\ sent' = sent /\ UNCHANGED <<shared, next, pc, plan, walk, cut>>
    BY <1>12 DEF Environment, updaterVars
  <2>2. VolumeOK /\ TreeDisk(disk) /\ LogFresh
    BY DEF IInv, TypeOK, FreshInv
  <2>3. QED BY <2>1, <2>2, VolumeFresh, StandingFresh
<1>13. CASE UNCHANGED vars
  <2>1. UNCHANGED <<shared, next, pc, plan, walk, cut>> /\ disk' = disk /\ log' = log /\ sent' = sent
    BY <1>13 DEF vars
  <2>2. \A q : Pending(q) => Pending(q)'
    BY <2>1 DEF Pending
  <2>3. TreeDisk(disk)' /\ LogFresh'
    BY <2>1 DEF FreshInv, TreeDisk, LogFresh
  <2>4. QED BY <2>1, <2>2, <2>3, StandingFresh
<1>14. QED BY <1>1, <1>2, <1>3, <1>4, <1>5, <1>6, <1>7, <1>8, <1>9, <1>10, <1>11, <1>12, <1>13 DEF Next, Thread

\* Nothing pending, nothing missing: what the invariant says of an idle thread.
LEMMA FreshSuffices == FreshInv => FreshWhenIdle
<1> SUFFICES ASSUME FreshInv, pc = "idle", sent = Len(log) PROVE Mirrors(shared)
  BY DEF FreshWhenIdle
<1>1. ASSUME NEW p \in Paths, ~IsIgnored(p)
      PROVE  /\ (disk[p] \in {"dir", "sealed"}) = (LookupDir(shared, p) # NoDir)
             /\ (disk[p] = "file") = FileIn(shared, p)
  <2>1. p \in Seen
    BY <1>1 DEF Seen
  <2>2. Shows(shared, p, disk[p]) \/ Pending(p)
    BY <2>1 DEF FreshInv, IdleFresh
  <2>3. ~Pending(p)
    BY DEF Pending
  <2>4. disk[p] \in {"none", "file", "dir"}
    BY <1>1 DEF FreshInv, TreeDisk
  <2>5. FileIn(shared, p) \in BOOLEAN
    BY DEF FileIn
  <2>6. QED BY <2>2, <2>3, <2>4, <2>5 DEF Shows
<1>2. QED BY <1>1 DEF Mirrors

\* "An index that is never stale": while nothing is renamed, no directory is
\* closed and no rebuild fails, an index that was the disk's at the start is
\* the disk's again whenever the thread is idle and every recorded event has
\* been delivered, however the changes fell between the thread's reads.
THEOREM IdleIsFresh == ASSUME Tame PROVE Spec => []FreshWhenIdle
<1>1. Init => FreshInv
  BY InitFresh
<1>2. IInv /\ SiblingInv /\ FreshInv /\ [Next]_vars => FreshInv'
  BY StepFresh
<1>3. FreshInv => FreshWhenIdle
  BY FreshSuffices
<1>4. Spec => []IInv
  BY Invariance
<1>5. Init => SiblingInv
  BY InitSiblings
<1>6. IInv /\ SiblingInv /\ [Next]_vars => SiblingInv'
  BY StepSiblings
<1>7. QED BY <1>1, <1>2, <1>3, <1>4, <1>5, <1>6, PTL DEF Spec
-----------------------------------------------------------------------------
(* No ghosts: what is alive is reached from the root.                      *)

\* Parents come before their children, the root alone has none, and what is
\* alive lies in a directory that is.
Clean(l) ==
  /\ \A i \in DOMAIN l.dirs : l.dirs[i].parent < i /\ (l.dirs[i].parent = NoDir => i = Root)
  /\ Root \in AliveDirs(l)
  /\ \A c \in AliveDirs(l) : c # Root => l.dirs[c].parent \in AliveDirs(l)
  /\ \A f \in AliveFiles(l) : l.files[f].parent \in AliveDirs(l)

\* Of a tree that was read: all of it is alive.
CleanTree(t) == \A i \in DOMAIN t.dirs : t.dirs[i].parent < i /\ (t.dirs[i].parent = NoDir => i = 1)

LEMMA CleanBase ==
  ASSUME NEW t, GoodTree(t), CleanTree(t)
  PROVE  Clean(BaseOf(t))
<1> DEFINE b == BaseOf(t)
<1>1. /\ InRange(b) /\ Rooted(b) /\ b.dirs = t.dirs /\ b.files = t.files
      /\ AliveDirs(b) = 1 .. Len(t.dirs) /\ AliveFiles(b) = 1 .. Len(t.files)
  BY TreeBase
<1>2. DOMAIN t.dirs = 1 .. Len(t.dirs) /\ DOMAIN t.files = 1 .. Len(t.files)
  BY LenProperties DEF GoodTree, TreeInRange, Subtree
<1>3. \A i \in DOMAIN t.dirs : t.dirs[i].parent \in {NoDir} \cup DOMAIN t.dirs
  BY DEF GoodTree, TreeInRange
<1>4. \A f \in DOMAIN t.files : t.files[f].parent \in DOMAIN t.dirs
  BY DEF GoodTree, TreeInRange
<1>5. Root \in DOMAIN t.dirs
  BY <1>1, RootedParts
<1> HIDE DEF b
<1>6. ASSUME NEW c \in AliveDirs(b), c # Root PROVE b.dirs[c].parent \in AliveDirs(b)
  <2>1. c \in DOMAIN t.dirs /\ c # 1
    BY <1>1, <1>2, <1>6 DEF Root
  <2>2. t.dirs[c].parent # NoDir
    BY <2>1 DEF CleanTree
  <2>3. QED BY <1>1, <1>2, <1>3, <2>1, <2>2
<1>7. \A i \in DOMAIN b.dirs : b.dirs[i].parent < i /\ (b.dirs[i].parent = NoDir => i = Root)
  BY <1>1 DEF CleanTree, Root
<1>8. Root \in AliveDirs(b)
  BY <1>1, <1>2, <1>5
<1>9. \A f \in AliveFiles(b) : b.files[f].parent \in AliveDirs(b)
  BY <1>1, <1>2, <1>4
<1>10. Clean(b)
  BY <1>6, <1>7, <1>8, <1>9 DEF Clean
<1>11. QED BY <1>10 DEF b

\* What a removal takes is closed: the children of what is gone are gone.
LEMMA BelowClosed ==
  ASSUME NEW l, Rooted(l), Clean(l), NEW from, from \subseteq DOMAIN l.dirs \ {Root}
  PROVE  /\ Below(l, from) \subseteq DOMAIN l.dirs /\ Root \notin Below(l, from)
         /\ \A c \in AliveDirs(l) : l.dirs[c].parent \in Below(l, from) => c \in Below(l, from)
<1> DEFINE N == Len(l.dirs)
<1>1. N \in Nat /\ l.dirs \in Seq(Entry) /\ DOMAIN l.dirs = 1 .. N /\ l.dirs[Root].parent = NoDir
  BY RootedParts, LenProperties
<1>2. PICK f \in [0 .. N -> SUBSET DOMAIN l.dirs] :
        /\ f[0] = from \cap DOMAIN l.dirs
        /\ \A i \in 1 .. N : f[i] = UNION {ChildDirs(l, d) : d \in f[i-1]}
        /\ Below(l, from) = UNION {f[i] : i \in 0 .. N}
  BY <1>1, BelowLevels
<1> HIDE DEF N
<1> DEFINE T == {i \in 0 .. N : \A c \in f[i] : c \in DOMAIN l.dirs /\ c # Root /\ i < c}
<1>3. 0 \in T
  <2>1. \A c \in f[0] : c \in DOMAIN l.dirs /\ c # Root /\ 0 < c
    BY <1>1, <1>2
  <2>2. QED BY <1>1, <2>1
<1>4. ASSUME NEW i \in 0 .. N - 1, i \in T PROVE i + 1 \in T
  <2>1. i + 1 \in 1 .. N /\ i + 1 \in 0 .. N /\ (i + 1) - 1 = i /\ i \in 0 .. N
    BY <1>1
  <2>2. f[i + 1] = UNION {ChildDirs(l, d) : d \in f[i]}
    <3>1. f[i + 1] = UNION {ChildDirs(l, d) : d \in f[(i + 1) - 1]}
      BY <1>2, <2>1
    <3>2. QED BY <2>1, <3>1
  <2>3. ASSUME NEW c \in f[i + 1] PROVE c \in DOMAIN l.dirs /\ c # Root /\ i + 1 < c
    <3>1. PICK d \in f[i] : c \in ChildDirs(l, d)
      BY <2>2
    <3>2. c \in DOMAIN l.dirs /\ l.dirs[c].parent = d
      BY <3>1 DEF ChildDirs, AliveDirs
    <3>3. d \in DOMAIN l.dirs /\ i < d
      BY <1>4, <3>1
    <3>4. d < c
      BY <3>2 DEF Clean
    <3>5. c # Root
      BY <1>1, <3>2, <3>3 DEF NoDir
    <3>6. c \in Nat /\ d \in Nat
      BY <1>1, <3>2, <3>3
    <3>7. QED BY <1>1, <3>2, <3>3, <3>4, <3>5, <3>6
  <2>4. QED BY <2>1, <2>3
<1>5. \A i \in 0 .. N : i \in T
  <2> HIDE DEF T
  <2>1. QED BY <1>1, <1>3, <1>4, UpTo
<1>6. ASSUME NEW c \in AliveDirs(l), l.dirs[c].parent \in Below(l, from) PROVE c \in Below(l, from)
  <2>1. PICK i \in 0 .. N : l.dirs[c].parent \in f[i]
    BY <1>2, <1>6
  <2>2. c \in ChildDirs(l, l.dirs[c].parent)
    BY DEF ChildDirs
  <2>3. i + 1 \in 1 .. N /\ (i + 1) - 1 = i
    <3>1. l.dirs[c].parent \in DOMAIN l.dirs /\ i < l.dirs[c].parent
      BY <1>5, <2>1
    <3>2. c \in DOMAIN l.dirs /\ l.dirs[c].parent < c
      BY DEF Clean, AliveDirs
    <3>3. QED BY <1>1, <3>1, <3>2
  <2>4. f[i + 1] = UNION {ChildDirs(l, d) : d \in f[i]}
    <3>1. f[i + 1] = UNION {ChildDirs(l, d) : d \in f[(i + 1) - 1]}
      BY <1>2, <2>3
    <3>2. QED BY <2>3, <3>1
  <2>5. c \in f[i + 1]
    BY <2>1, <2>2, <2>4
  <2>6. i + 1 \in 0 .. N
    BY <1>1, <2>3
  <2>7. QED BY <1>2, <2>5, <2>6
<1>7. QED BY <1>2, <1>5, <1>6

\* A removal leaves no ghosts.
LEMMA RemoveClean ==
  ASSUME NEW l, InRange(l), Rooted(l), Clean(l), NEW from, from \subseteq DOMAIN l.dirs \ {Root}
  PROVE  Clean(RemoveSubtrees(l, from))
<1> DEFINE m == RemoveSubtrees(l, from)
           gone == Below(l, from)
           files == {f \in AliveFiles(l) : l.files[f].parent \in gone}
<1>1. /\ gone \subseteq DOMAIN l.dirs /\ Root \notin gone
      /\ \A c \in AliveDirs(l) : l.dirs[c].parent \in gone => c \in gone
  BY BelowClosed
<1>2. m = [l EXCEPT !.deadDirs = l.deadDirs \cup gone, !.deadFiles = l.deadFiles \cup files]
  BY DEF RemoveSubtrees, Kill
<1>3. l \in Snapshot
  BY DEF InRange
<1> HIDE DEF gone
<1>4. m.dirs = l.dirs /\ m.files = l.files /\ m.deadDirs = l.deadDirs \cup gone /\ m.deadFiles = l.deadFiles \cup files
  BY <1>2, <1>3 DEF Snapshot
<1>5. AliveDirs(m) = AliveDirs(l) \ gone
  BY <1>4 DEF AliveDirs
<1>6. AliveFiles(m) = AliveFiles(l) \ files
  BY <1>4 DEF AliveFiles
<1> HIDE DEF m
<1>7. \A f \in AliveFiles(m) : m.files[f].parent \in AliveDirs(m)
  BY <1>4, <1>5, <1>6 DEF Clean
<1>8. \A c \in AliveDirs(m) : c # Root => m.dirs[c].parent \in AliveDirs(m)
  BY <1>1, <1>4, <1>5 DEF Clean
<1>9. QED BY <1>1, <1>4, <1>5, <1>7, <1>8 DEF Clean, m

\* Neither does a listing of a directory that is alive, or of one that is gone.
LEMMA ApplyClean ==
  ASSUME NEW l, InRange(l), Rooted(l), SiblingsApart(l), Clean(l), NEW d \in DOMAIN l.dirs, NEW e \in Listing,
         e.exists => d \in AliveDirs(l)
  PROVE  Clean(ApplyListing(l, d, e))
<1>1. CASE ~e.exists
  <2>1. CASE d = Root
    BY <1>1, <2>1 DEF ApplyListing
  <2>2. CASE d # Root
    <3>1. ApplyListing(l, d, e) = RemoveSubtrees(l, {d})
      BY <1>1, <2>2 DEF ApplyListing, RemoveSubtree
    <3>2. {d} \subseteq DOMAIN l.dirs \ {Root}
      BY <2>2
    <3>3. QED BY <3>1, <3>2, RemoveClean
  <2>3. QED BY <2>1, <2>2
<1>2. CASE e.exists
  <2> DEFINE m == Relisted(l, d, e)
             names == e.files \ NamesOf(l.files, FilesInDir(l, d))
             k == PushFiles(l, d, names)
             stale == {f \in FilesInDir(l, d) : l.files[f].name \notin e.files}
  <2>1. /\ ApplyListing(l, d, e) = RemoveSubtrees(m, GoneDirs(l, d, e))
        /\ InRange(m) /\ Rooted(m) /\ m.dirs = l.dirs
        /\ GoneDirs(l, d, e) \subseteq DOMAIN m.dirs \ {Root}
    BY <1>2, ApplyIs
  <2>2. m.deadDirs = l.deadDirs
    BY RelistedFiles
  <2>3. m = Kill(k, {}, stale)
    BY DEF Relisted
  <2>4. names \subseteq Name /\ IsFiniteSet(names)
    <3>1. names \subseteq Name
      BY DEF Listing
    <3>2. QED BY <3>1, FS_Subset, NameAssumption
  <2>5. \A f \in DOMAIN m.files : (f \in DOMAIN l.files /\ m.files[f] = l.files[f]) \/ m.files[f].parent = d
    <3> DEFINE s == [i \in 1 .. Cardinality(names) |-> [name |-> SetToSeq(names)[i], parent |-> d]]
    <3>1. Cardinality(names) \in Nat /\ SetToSeq(names) \in [1 .. Cardinality(names) -> names]
      BY <2>4, ListOfSet
    <3>2. l.files \in Seq(Entry) /\ l \in Snapshot /\ d \in Nat
      BY RootedParts DEF InRange
    <3>3. s \in [1 .. Cardinality(names) -> Entry]
      BY <2>4, <3>1, <3>2 DEF Entry
    <3>4. k.files = l.files \o s
      BY <3>2 DEF PushFiles, Snapshot
    <3>5. m.files = k.files
      <4>1. k \in Snapshot
        BY <2>4, PushSafe DEF InRange
      <4> HIDE DEF k, m, stale
      <4>2. QED BY <2>3, <4>1 DEF Kill, Snapshot
    <3>6. \A i \in 1 .. Cardinality(names) : s[i].parent = d
      OBVIOUS
    <3> HIDE DEF s, m, k
    <3>7. /\ DOMAIN (l.files \o s) = 1 .. Len(l.files) + Cardinality(names)
          /\ \A i \in 1 .. Len(l.files) : (l.files \o s)[i] = l.files[i]
          /\ \A i \in 1 .. Cardinality(names) : (l.files \o s)[Len(l.files) + i] = s[i]
      <4>1. PICK old, more, many : old = l.files /\ more = s /\ many = Cardinality(names)
        OBVIOUS
      <4>2. many \in Nat /\ old \in Seq(Entry) /\ more \in [1 .. many -> Entry]
        BY ONLY <3>1, <3>2, <3>3, <4>1
      <4>3. /\ DOMAIN (old \o more) = 1 .. Len(old) + many
            /\ \A i \in 1 .. Len(old) : (old \o more)[i] = old[i]
            /\ \A i \in 1 .. many : (old \o more)[Len(old) + i] = more[i]
        BY ONLY <4>2, Appended
      <4>4. QED BY ONLY <4>1, <4>3
    <3>8. Len(l.files) \in Nat /\ DOMAIN l.files = 1 .. Len(l.files)
      BY <3>2, LenProperties
    <3>9. ASSUME NEW f \in DOMAIN m.files
          PROVE  (f \in DOMAIN l.files /\ m.files[f] = l.files[f]) \/ m.files[f].parent = d
      <4>1. m.files = l.files \o s /\ f \in 1 .. Len(l.files) + Cardinality(names)
        BY <3>4, <3>5, <3>7
      <4>2. CASE f <= Len(l.files)
        BY <3>1, <3>7, <3>8, <4>1, <4>2
      <4>3. CASE f > Len(l.files)
        <5>1. f - Len(l.files) \in 1 .. Cardinality(names) /\ Len(l.files) + (f - Len(l.files)) = f
          BY <3>1, <3>8, <4>1, <4>3
        <5>2. m.files[f] = s[f - Len(l.files)]
          BY <3>7, <4>1, <5>1
        <5>3. QED BY <3>6, <5>1, <5>2
      <4>4. QED BY <3>1, <3>8, <4>1, <4>2, <4>3
    <3>10. QED BY <3>9
  <2>6. \A f \in DOMAIN l.files : f \in l.deadFiles => f \in m.deadFiles
    <3>1. l \in Snapshot
      BY DEF InRange
    <3>2. k.deadFiles = l.deadFiles /\ k \in Snapshot
      <4>1. k.deadFiles = l.deadFiles
        BY <3>1 DEF PushFiles, Snapshot
      <4>2. InRange(k)
        BY <2>4, PushSafe
      <4>3. QED BY <4>1, <4>2 DEF InRange
    <3> HIDE DEF k, m, stale
    <3>3. QED BY <2>3, <3>2 DEF Kill, Snapshot
  <2> HIDE DEF m
  <2>7. AliveDirs(m) = AliveDirs(l)
    BY <2>1, <2>2 DEF AliveDirs
  <2>8. \A f \in AliveFiles(m) : m.files[f].parent \in AliveDirs(m)
    <3>1. ASSUME NEW f \in AliveFiles(m) PROVE m.files[f].parent \in AliveDirs(l)
      <4>1. f \in DOMAIN m.files /\ f \notin m.deadFiles
        BY DEF AliveFiles
      <4>2. CASE f \in DOMAIN l.files /\ m.files[f] = l.files[f]
        BY <2>6, <4>1, <4>2 DEF Clean, AliveFiles
      <4>3. CASE m.files[f].parent = d
        BY <1>2, <4>3
      <4>4. QED BY <2>5, <4>1, <4>2, <4>3
    <3>2. QED BY <2>7, <3>1
  <2>9. Clean(m)
    BY <2>1, <2>7, <2>8 DEF Clean
  <2>10. QED BY <2>1, <2>9, RemoveClean
<1>3. QED BY <1>1, <1>2 DEF Listing

\* Nor does a graft under a directory that is alive.
LEMMA GraftClean ==
  ASSUME NEW l, InRange(l), Rooted(l), Clean(l), NEW t, GoodTree(t), CleanTree(t), NEW d \in AliveDirs(l)
  PROVE  Clean(Graft(l, d, t)) /\ \A c \in AliveDirs(l) : c \in AliveDirs(Graft(l, d, t))
<1> DEFINE m == Graft(l, d, t)   n == Len(l.dirs)   N == Len(l.files)
<1>0. d \in {NoDir} \cup DOMAIN l.dirs
  BY DEF AliveDirs
<1>1. /\ InRange(m) /\ n \in Nat /\ N \in Nat /\ DOMAIN l.dirs = 1 .. n
      /\ \A i \in 1 .. n : m.dirs[i] = l.dirs[i]
      /\ \A i \in 1 .. Len(t.dirs) :
           m.dirs[n + i] = [name |-> t.dirs[i].name, parent |-> IF i = 1 THEN d ELSE n + t.dirs[i].parent]
      /\ \A i \in 1 .. N : m.files[i] = l.files[i]
      /\ \A i \in 1 .. Len(t.files) :
           m.files[N + i] = [name |-> t.files[i].name, parent |-> n + t.files[i].parent]
  BY <1>0, GraftParts
<1>2. \A c : c \in AliveDirs(m) <=> c \in AliveDirs(l) \/ \E i \in 1 .. Len(t.dirs) : c = n + i
  BY <1>0, GraftParts
<1>3. \A f : f \in AliveFiles(m) <=> f \in AliveFiles(l) \/ \E i \in 1 .. Len(t.files) : f = N + i
  BY <1>0, GraftParts
<1>4. /\ DOMAIN t.dirs = 1 .. Len(t.dirs) /\ DOMAIN t.files = 1 .. Len(t.files) /\ Len(t.dirs) \in Nat
      /\ \A i \in 1 .. Len(t.dirs) : t.dirs[i].parent \in 0 .. Len(t.dirs)
      /\ \A i \in 1 .. Len(t.files) : t.files[i].parent \in 1 .. Len(t.dirs)
  BY LenProperties DEF GoodTree, TreeInRange, Subtree, NoDir
<1>5. DOMAIN m.dirs = 1 .. n + Len(t.dirs)
  <2>1. m.dirs = l.dirs \o [i \in 1 .. Len(t.dirs) |->
                   [name |-> t.dirs[i].name, parent |-> IF i = 1 THEN d ELSE n + t.dirs[i].parent]]
    BY DEF Graft, InRange, Snapshot
  <2> DEFINE s == [i \in 1 .. Len(t.dirs) |->
                   [name |-> t.dirs[i].name, parent |-> IF i = 1 THEN d ELSE n + t.dirs[i].parent]]
             S == Entry \cup {s[i] : i \in 1 .. Len(t.dirs)}
  <2>2. l.dirs \in Seq(S)
    <3>1. l.dirs \in Seq(Entry)
      BY RootedParts
    <3>2. QED BY <3>1, <1>1
  <2>3. s \in [1 .. Len(t.dirs) -> S]
    OBVIOUS
  <2>4. m.dirs = l.dirs \o s
    BY <2>1
  <2>5. PICK old, more, many : old = l.dirs /\ more = s /\ many = Len(t.dirs)
    OBVIOUS
  <2> HIDE DEF s, S, m
  <2>6. many \in Nat /\ old \in Seq(S) /\ more \in [1 .. many -> S]
    BY ONLY <1>4, <2>2, <2>3, <2>5
  <2>7. DOMAIN (old \o more) = 1 .. Len(old) + many
    BY ONLY <2>6, Appended
  <2>8. QED BY ONLY <2>4, <2>5, <2>7 DEF n
<1> HIDE DEF m, n, N
<1>d. ASSUME NEW i \in 1 .. Len(t.dirs)
      PROVE  m.dirs[n + i].parent = IF i = 1 THEN d ELSE n + t.dirs[i].parent
  <2>1. m.dirs[n + i] = [name |-> t.dirs[i].name, parent |-> IF i = 1 THEN d ELSE n + t.dirs[i].parent]
    BY <1>1, Zenon
  <2>2. PICK u, x : u = (IF i = 1 THEN d ELSE n + t.dirs[i].parent) /\ x = t.dirs[i].name
    OBVIOUS
  <2>3. m.dirs[n + i] = [name |-> x, parent |-> u]
    BY ONLY <2>1, <2>2
  <2>4. QED BY ONLY <2>2, <2>3
<1>f. ASSUME NEW i \in 1 .. Len(t.files)
      PROVE  m.files[N + i].parent = n + t.files[i].parent
  <2>1. m.files[N + i] = [name |-> t.files[i].name, parent |-> n + t.files[i].parent]
    BY <1>1, Zenon
  <2>2. PICK u, x : u = n + t.files[i].parent /\ x = t.files[i].name
    OBVIOUS
  <2>3. m.files[N + i] = [name |-> x, parent |-> u]
    BY ONLY <2>1, <2>2
  <2>4. QED BY ONLY <2>2, <2>3
<1>6. ASSUME NEW i \in DOMAIN m.dirs PROVE m.dirs[i].parent < i /\ (m.dirs[i].parent = NoDir => i = Root)
  <2>1. CASE i \in 1 .. n
    BY <1>1, <2>1 DEF Clean
  <2>2. CASE i \notin 1 .. n
    <3>1. PICK j \in 1 .. Len(t.dirs) : i = n + j
      <4>1. i - n \in 1 .. Len(t.dirs) /\ i = n + (i - n)
        BY <1>1, <1>4, <1>5, <2>2
      <4>2. QED BY <4>1
    <3>2. m.dirs[i].parent = IF j = 1 THEN d ELSE n + t.dirs[j].parent
      BY ONLY <1>d, <3>1
    <3>3. d \in 1 .. n
      BY <1>1 DEF AliveDirs
    <3>4. t.dirs[j].parent < j /\ t.dirs[j].parent \in Nat /\ (t.dirs[j].parent = 0 => j = 1)
      BY <1>4 DEF CleanTree, NoDir
    <3>5. QED BY <1>1, <1>4, <3>1, <3>2, <3>3, <3>4 DEF NoDir
  <2>3. QED BY <2>1, <2>2
<1>7. \A c \in AliveDirs(l) : c \in AliveDirs(m) /\ c \in 1 .. n /\ m.dirs[c] = l.dirs[c]
  BY <1>1, <1>2 DEF AliveDirs
<1>8. ASSUME NEW c \in AliveDirs(m), c # Root PROVE m.dirs[c].parent \in AliveDirs(m)
  <2>1. CASE c \in AliveDirs(l)
    BY <1>7, <1>8, <2>1 DEF Clean
  <2>2. ASSUME NEW i \in 1 .. Len(t.dirs), c = n + i PROVE m.dirs[c].parent \in AliveDirs(m)
    <3>1. CASE i = 1
      BY <1>d, <1>7, <2>2, <3>1
    <3>2. CASE i # 1
      <4>1. m.dirs[c].parent = n + t.dirs[i].parent
        BY ONLY <1>d, <2>2, <3>2
      <4>2. t.dirs[i].parent \in 1 .. Len(t.dirs)
        BY <1>4, <3>2 DEF CleanTree, NoDir
      <4>3. QED BY <1>2, <4>1, <4>2
    <3>3. QED BY <3>1, <3>2
  <2>3. QED BY <1>2, <2>1, <2>2
<1>9. ASSUME NEW f \in AliveFiles(m) PROVE m.files[f].parent \in AliveDirs(m)
  <2>1. CASE f \in AliveFiles(l)
    <3>1. f \in 1 .. N
      BY <2>1, LenProperties DEF AliveFiles, InRange, Snapshot, N
    <3>2. QED BY <1>1, <1>7, <2>1, <3>1 DEF Clean
  <2>2. ASSUME NEW i \in 1 .. Len(t.files), f = N + i PROVE m.files[f].parent \in AliveDirs(m)
    <3>1. m.files[f].parent = n + t.files[i].parent /\ t.files[i].parent \in 1 .. Len(t.dirs)
      BY ONLY <1>f, <1>4, <2>2
    <3>2. QED BY <1>2, <3>1
  <2>3. QED BY <1>3, <2>1, <2>2
<1>10. Clean(m)
  BY <1>6, <1>7, <1>8, <1>9 DEF Clean
<1>11. QED BY <1>7, <1>10 DEF m
-----------------------------------------------------------------------------
(* The paths a search prints.                                              *)

\* The path put together for an entry is its parent's with one more name.
LEMMA PathOfIs ==
  ASSUME NEW l, InRange(l), Rooted(l), Clean(l)
  PROVE  /\ \A d \in DOMAIN l.dirs : PathOf(l)[d] \in Path
         /\ \A d \in DOMAIN l.dirs : PathOf(l)[d] = IF l.dirs[d].parent = NoDir THEN <<>>
                                                    ELSE Append(PathOf(l)[l.dirs[d].parent], l.dirs[d].name)
<1> DEFINE N == Len(l.dirs)
           D == DOMAIN l.dirs
           back == [d \in 1 .. N |-> l.dirs[d].parent]
           G == [d \in 1 .. N |-> [x \in Path |-> IF l.dirs[d].parent = NoDir THEN <<>> ELSE Append(x, l.dirs[d].name)]]
           path == CHOOSE path : path = [d \in D |-> IF l.dirs[d].parent = NoDir THEN <<>>
                                                     ELSE Append(path[l.dirs[d].parent], l.dirs[d].name)]
<1>1. /\ N \in Nat /\ D = 1 .. N /\ \A d \in D : l.dirs[d].parent \in {NoDir} \cup D /\ l.dirs[d].name \in Name
  BY RootedParts, LenProperties DEF InRange, Entry
<1>2. \A d \in D : l.dirs[d].parent < d
  BY DEF Clean
<1>3. <<>> \in Path
  BY PathEmpty
<1>4. \A x \in Path : \A y \in Name : Append(x, y) \in Path
  BY PathAppend
<1> HIDE DEF N, D
<1>5. \A d \in 1 .. N : back[d] \in 0 .. d - 1
  <2> SUFFICES ASSUME NEW d \in 1 .. N PROVE l.dirs[d].parent \in 0 .. d - 1
    OBVIOUS
  <2>1. l.dirs[d].parent \in Nat
    BY <1>1 DEF NoDir
  <2>2. QED BY <1>1, <1>2, <2>1
<1>6. \A d \in 1 .. N : \A x \in Path : G[d][x] \in Path
  BY <1>1, <1>3, <1>4
<1>7. Earlier(N, Path, <<>>, back, G)
  <2> HIDE DEF back, G
  <2>1. QED BY <1>1, <1>3, <1>5, <1>6, EarlierExists
<1>8. PICK f \in [0 .. N -> Path] : \A d \in 0 .. N : f[d] = IF d = 0 THEN <<>> ELSE G[d][f[back[d]]]
  BY <1>7 DEF Earlier
<1>9. ASSUME NEW d \in D
      PROVE  f[d] = IF l.dirs[d].parent = NoDir THEN <<>> ELSE Append(f[l.dirs[d].parent], l.dirs[d].name)
  <2>1. d \in 1 .. N /\ d \in 0 .. N /\ d # 0 /\ l.dirs[d].parent \in 0 .. N
    BY <1>1 DEF NoDir
  <2>2. back[d] = l.dirs[d].parent /\ f[l.dirs[d].parent] \in Path
    BY <2>1
  <2>3. f[d] = G[d][f[back[d]]]
    BY ONLY <1>8, <2>1
  <2>4. f[d] = G[d][f[l.dirs[d].parent]]
    BY ONLY <2>2, <2>3
  <2>5. QED BY <2>1, <2>2, <2>4
<1> HIDE DEF back, G
<1> DEFINE g == [d \in D |-> f[d]]
<1>10. g = [d \in D |-> IF l.dirs[d].parent = NoDir THEN <<>> ELSE Append(g[l.dirs[d].parent], l.dirs[d].name)]
  <2>1. ASSUME NEW d \in D
        PROVE  f[d] = IF l.dirs[d].parent = NoDir THEN <<>> ELSE Append(g[l.dirs[d].parent], l.dirs[d].name)
    <3>1. l.dirs[d].parent # NoDir => g[l.dirs[d].parent] = f[l.dirs[d].parent]
      BY <1>1
    <3> HIDE DEF g
    <3>2. QED BY <1>9, <3>1
  <2>2. QED BY <2>1
<1>11. path = [d \in D |-> IF l.dirs[d].parent = NoDir THEN <<>> ELSE Append(path[l.dirs[d].parent], l.dirs[d].name)]
  <2> HIDE DEF g
  <2>1. QED BY <1>10
<1>12. PathOf(l) = path
  BY DEF PathOf, D
<1> HIDE DEF path
<1>13. \A d \in D : path[d] = IF l.dirs[d].parent = NoDir THEN <<>> ELSE Append(path[l.dirs[d].parent], l.dirs[d].name)
  BY <1>11
<1> DEFINE T == {i \in 0 .. N : i \in D => path[i] \in Path}
<1>14. ASSUME NEW i \in 0 .. N, \A j \in 0 .. i - 1 : j \in T PROVE i \in T
  <2> SUFFICES ASSUME i \in D PROVE path[i] \in Path
    OBVIOUS
  <2>1. CASE l.dirs[i].parent = NoDir
    BY <1>3, <1>13, <2>1
  <2>2. CASE l.dirs[i].parent # NoDir
    <3>1. l.dirs[i].parent \in D /\ l.dirs[i].parent \in 0 .. i - 1
      BY <1>1, <1>2, <2>2
    <3>2. path[l.dirs[i].parent] \in Path
      BY <1>14, <3>1
    <3>3. QED BY <1>1, <1>4, <1>13, <2>2, <3>2
  <2>3. QED BY <2>1, <2>2
<1>15. \A i \in 0 .. N : i \in T
  <2> HIDE DEF T
  <2>1. QED BY <1>1, <1>14, UpToAll
<1>16. \A d \in D : path[d] \in Path
  BY <1>1, <1>15
<1>17. QED BY <1>12, <1>13, <1>16 DEF D

\* Where nothing is alive but below what is, the path printed for a directory
\* leads to it.
LEMMA PrintedLeads ==
  ASSUME NEW l, InRange(l), Rooted(l), SiblingsApart(l), Clean(l), NEW d \in AliveDirs(l)
  PROVE  PrintedDir(l, d) \in Path /\ LookupDir(l, PrintedDir(l, d)) = d
<1> DEFINE N == Len(l.dirs)
           path == PathOf(l)
<1>1. N \in Nat /\ DOMAIN l.dirs = 1 .. N
  BY RootedParts, LenProperties
<1>2. /\ \A c \in DOMAIN l.dirs : path[c] \in Path
      /\ \A c \in DOMAIN l.dirs : path[c] = IF l.dirs[c].parent = NoDir THEN <<>>
                                            ELSE Append(path[l.dirs[c].parent], l.dirs[c].name)
  BY PathOfIs
<1> HIDE DEF path, N
<1> DEFINE T == {i \in 0 .. N : i \in AliveDirs(l) => LookupDir(l, path[i]) = i}
<1>3. ASSUME NEW i \in 0 .. N, \A j \in 0 .. i - 1 : j \in T PROVE i \in T
  <2> SUFFICES ASSUME i \in AliveDirs(l) PROVE LookupDir(l, path[i]) = i
    OBVIOUS
  <2>1. i \in DOMAIN l.dirs /\ l.dirs[i].name \in Name
    BY RootedParts DEF AliveDirs, Entry
  <2>2. CASE l.dirs[i].parent = NoDir
    <3>1. i = Root
      BY <2>1, <2>2 DEF Clean
    <3>2. path[i] = <<>>
      BY <1>2, <2>1, <2>2
    <3>3. QED BY <3>1, <3>2, LookRoot
  <2>3. CASE l.dirs[i].parent # NoDir
    <3> DEFINE u == l.dirs[i].parent   x == l.dirs[i].name
    <3>1. i # Root
      BY <2>3, RootedParts
    <3>2. u \in AliveDirs(l) /\ u < i
      BY <2>1, <3>1 DEF Clean
    <3>3. u \in DOMAIN l.dirs /\ u \in 0 .. i - 1
      BY <1>1, <3>2 DEF AliveDirs
    <3>4. LookupDir(l, path[u]) = u
      BY <1>3, <3>2, <3>3
    <3>5. path[i] = Append(path[u], x) /\ path[u] \in Path /\ x \in Name
      BY <1>2, <2>1, <2>3, <3>3
    <3>6. LookupDir(l, Append(path[u], x)) = Step(l, LookupDir(l, path[u]), x)
      BY <3>5, LookStep
    <3>7. i \in Named(l, u, x)
      BY DEF Named, ChildDirs
    <3>8. Step(l, u, x) = i
      BY <2>3, <3>7, StepOnly
    <3>9. QED BY <3>4, <3>5, <3>6, <3>8
  <2>4. QED BY <2>2, <2>3
<1>4. \A i \in 0 .. N : i \in T
  <2> HIDE DEF T
  <2>1. QED BY <1>1, <1>3, UpToAll
<1>5. d \in DOMAIN l.dirs /\ d \in 0 .. N
  BY <1>1 DEF AliveDirs
<1>6. QED BY <1>2, <1>4, <1>5 DEF PrintedDir, path

\* What is found is what is printed, each path once.
LEMMA PrintedDirs ==
  ASSUME NEW l, InRange(l), Rooted(l), SiblingsApart(l), Clean(l)
  PROVE  /\ \A p \in Path : LookupDir(l, p) # NoDir <=> \E d \in AliveDirs(l) : PrintedDir(l, d) = p
         /\ \A d, e \in AliveDirs(l) : PrintedDir(l, d) = PrintedDir(l, e) => d = e
<1>1. ASSUME NEW p \in Path, LookupDir(l, p) # NoDir PROVE \E d \in AliveDirs(l) : PrintedDir(l, d) = p
  <2>1. LookupDir(l, p) \in AliveDirs(l)
    BY <1>1, LookFound DEF Clean
  <2>2. PICK d \in AliveDirs(l) : d = LookupDir(l, p)
    BY <2>1
  <2>3. PrintedDir(l, d) \in Path /\ LookupDir(l, PrintedDir(l, d)) = d
    BY PrintedLeads
  <2>4. PrintedDir(l, d) = p
    BY <1>1, <2>2, <2>3, LookOnce
  <2>5. QED BY <2>4
<1>2. ASSUME NEW d \in AliveDirs(l) PROVE LookupDir(l, PrintedDir(l, d)) = d /\ d # NoDir
  <2>1. d # NoDir
    BY RootedParts DEF AliveDirs
  <2>2. QED BY <2>1, PrintedLeads
<1>3. QED BY <1>1, <1>2

\* The same of files.
LEMMA PrintedFiles ==
  ASSUME NEW l, InRange(l), Rooted(l), SiblingsApart(l), Clean(l)
  PROVE  /\ \A p \in Path : p # <<>> => (FileIn(l, p) <=> \E f \in AliveFiles(l) : PrintedFile(l, f) = p)
         /\ \A f, g \in AliveFiles(l) : PrintedFile(l, f) = PrintedFile(l, g) => f = g
<1>1. ASSUME NEW f \in AliveFiles(l)
      PROVE  /\ l.files[f] \in Entry /\ l.files[f].name \in Name /\ l.files[f].parent \in AliveDirs(l)
             /\ PrintedDir(l, l.files[f].parent) \in Path
             /\ LookupDir(l, PrintedDir(l, l.files[f].parent)) = l.files[f].parent
             /\ PrintedFile(l, f) = Append(PrintedDir(l, l.files[f].parent), l.files[f].name)
  <2>1. l.files[f] \in Entry
    BY RootedParts DEF AliveFiles
  <2>2. l.files[f].parent \in AliveDirs(l)
    BY DEF Clean
  <2>3. PICK d \in AliveDirs(l) : d = l.files[f].parent
    BY <2>2
  <2>4. PrintedDir(l, d) \in Path /\ LookupDir(l, PrintedDir(l, d)) = d
    BY PrintedLeads
  <2>5. PrintedFile(l, f) = Append(PrintedDir(l, l.files[f].parent), l.files[f].name)
    BY DEF PrintedFile, PrintedDir
  <2>6. l.files[f].name \in Name
    BY <2>1 DEF Entry
  <2>7. QED BY <2>1, <2>2, <2>3, <2>4, <2>5, <2>6
<1>2. ASSUME NEW p \in Path, p # <<>>, FileIn(l, p) PROVE \E f \in AliveFiles(l) : PrintedFile(l, f) = p
  <2>1. PICK f \in FilesInDir(l, LookupDir(l, Front(p))) : l.files[f].name = Last(p)
    BY <1>2 DEF FileIn
  <2>2. f \in AliveFiles(l) /\ l.files[f].parent = LookupDir(l, Front(p))
    BY DEF FilesInDir
  <2>3. Front(p) \in Path /\ p = Append(Front(p), Last(p))
    BY <1>2, PathEnds
  <2>4. l.files[f].parent # NoDir
    <3>1. l.files[f].parent \in DOMAIN l.dirs
      BY <1>1, <2>2 DEF AliveDirs
    <3>2. QED BY <3>1, RootedParts
  <2>5. PICK u \in Path : u = PrintedDir(l, l.files[f].parent)
    BY <1>1, <2>2
  <2>6. LookupDir(l, u) = LookupDir(l, Front(p)) /\ LookupDir(l, u) # NoDir
    BY <1>1, <2>2, <2>4, <2>5
  <2>7. u = Front(p)
    BY <2>3, <2>6, LookOnce
  <2>8. QED BY <1>1, <2>1, <2>2, <2>3, <2>5, <2>7
<1>3. ASSUME NEW p \in Path, NEW f \in AliveFiles(l), PrintedFile(l, f) = p PROVE FileIn(l, p)
  <2>1. PICK u \in Path, x \in Name : u = PrintedDir(l, l.files[f].parent) /\ x = l.files[f].name
    BY <1>1
  <2>2. p = Append(u, x)
    BY <1>1, <1>3, <2>1
  <2>3. Front(p) = u /\ Last(p) = x
    BY <2>2, PathAppend
  <2>4. LookupDir(l, u) = l.files[f].parent
    BY <1>1, <2>1
  <2>5. QED BY <2>1, <2>3, <2>4 DEF FileIn, FilesInDir
<1>4. ASSUME NEW f \in AliveFiles(l), NEW g \in AliveFiles(l), PrintedFile(l, f) = PrintedFile(l, g) PROVE f = g
  <2>1. PICK u \in Path, x \in Name : u = PrintedDir(l, l.files[f].parent) /\ x = l.files[f].name
    BY <1>1
  <2>2. PICK v \in Path, y \in Name : v = PrintedDir(l, l.files[g].parent) /\ y = l.files[g].name
    BY <1>1
  <2>3. Append(u, x) = Append(v, y)
    BY <1>1, <1>4, <2>1, <2>2
  <2>4. u = v /\ x = y
    BY <2>3, PathSplit
  <2>5. l.files[f].parent = l.files[g].parent /\ l.files[f].name = l.files[g].name
    BY <1>1, <2>1, <2>2, <2>4
  <2>6. l.files[f] = l.files[g]
    BY <1>1, <2>5, EntryParts
  <2>7. QED BY <2>6 DEF SiblingsApart, UniqueIn
<1>5. QED BY <1>2, <1>3, <1>4
-----------------------------------------------------------------------------
(* The invariant behind PrintsDisk.                                        *)

\* What it takes, besides, for a search to print no more than the disk: the
\* disk rests while a batch is handled, FSEvents drops nothing, no path is
\* ignored, and the daemon starts with an index that has no ghosts.
Resting == /\ Quiet = TRUE /\ Overflow = FALSE /\ DropAbove = FALSE /\ Ignored = {}
           /\ \A s \in Starts : Clean(s.index)

\* The directories that the plan will list, and those below which it will
\* graft, are where the plan says, as long as the disk has them.
TasksThere == \A k \in DOMAIN plan.refresh :
                IsDir(plan.refresh[k].path) => LookupDir(next, plan.refresh[k].path) = plan.refresh[k].id
GraftsThere == \A g \in plan.grafts : IsDir(Front(g.path)) /\ LookupDir(next, Front(g.path)) = g.id

PrintInv == /\ Clean(shared) /\ Clean(next)
            /\ pc \in {"graft", "scan"} => CleanTree(walk.tree)
            /\ plan.rescans = NoTasks /\ pc # "rescan"
            /\ TasksThere /\ GraftsThere
            /\ pc = "graft" => walk.into \in AliveDirs(next)

\* What is found is alive.
LEMMA FoundAlive ==
  ASSUME NEW l, Rooted(l), Clean(l), NEW p \in Path, LookupDir(l, p) # NoDir
  PROVE  LookupDir(l, p) \in AliveDirs(l)
BY LookFound DEF Clean

\* A traversal begins with no ghosts.
LEMMA WalkFromClean ==
  ASSUME NEW into, NEW p
  PROVE  CleanTree(WalkFrom(into, p).tree) /\ WalkFrom(into, p).into = into
<1> DEFINE x == IF p = <<>> THEN CHOOSE n \in Name : TRUE ELSE Last(p)
           t == WalkFrom(into, p).tree
<1> HIDE DEF x
<1>1. t.dirs = <<[name |-> x, parent |-> NoDir]>> /\ WalkFrom(into, p).into = into
  BY DEF WalkFrom, x
<1>2. DOMAIN t.dirs = {1} /\ t.dirs[1].parent = NoDir
  BY <1>1
<1> HIDE DEF t
<1>3. CleanTree(t)
  BY <1>2 DEF CleanTree, NoDir
<1>4. QED BY <1>1, <1>3 DEF t

\* Reading one more directory leaves none.
LEMMA VisitClean ==
  ASSUME NEW w, WalkOK(w), CleanTree(w.tree), NEW i \in DOMAIN w.stack,
         NEW e \in Listing, NEW order \in Orders(e.dirs)
  PROVE  CleanTree(Visit(w, i, e, order).tree)
<1> DEFINE x == Visit(w, i, e, order)
           top == w.stack[i]
           n == Len(w.tree.dirs)
           k == Cardinality(e.dirs)
<1>1. /\ n \in Nat /\ DOMAIN w.tree.dirs = 1 .. n /\ top.id \in 1 .. n /\ k \in Nat
      /\ DOMAIN x.tree.dirs = 1 .. n + k
      /\ \A c \in 1 .. n : x.tree.dirs[c] = w.tree.dirs[c]
      /\ \A j \in 1 .. k : x.tree.dirs[n + j] = [name |-> order[j], parent |-> top.id]
  BY VisitParts
<1> HIDE DEF x, top, n, k
<1>2. ASSUME NEW j \in 1 .. k PROVE x.tree.dirs[n + j].parent = top.id
  <2>1. x.tree.dirs[n + j] = [name |-> order[j], parent |-> top.id]
    BY <1>1, Zenon
  <2>2. QED BY ONLY <2>1
<1>3. ASSUME NEW c \in DOMAIN x.tree.dirs
      PROVE  x.tree.dirs[c].parent < c /\ (x.tree.dirs[c].parent = NoDir => c = 1)
  <2>1. CASE c \in 1 .. n
    BY <1>1, <2>1 DEF CleanTree
  <2>2. CASE c \notin 1 .. n
    <3>1. PICK j \in 1 .. k : c = n + j
      <4>1. c - n \in 1 .. k /\ c = n + (c - n)
        BY <1>1, <2>2
      <4>2. QED BY <4>1
    <3>2. x.tree.dirs[c].parent = top.id
      BY <1>2, <3>1
    <3>3. QED BY <1>1, <3>1, <3>2 DEF NoDir
  <2>3. QED BY <2>1, <2>2
<1>4. CleanTree(x.tree)
  BY <1>3 DEF CleanTree
<1>5. QED BY <1>4 DEF x

\* What the plan holds is where it was, where nothing that was found is lost.
LEMMA ThereKept ==
  ASSUME IInv, SiblingInv, FreshInv, PrintInv, disk' = disk, plan' = plan,
         \A p \in Path : LookupDir(next, p) # NoDir => LookupDir(next', p) = LookupDir(next, p)
  PROVE  TasksThere' /\ GraftsThere'
<1>1. /\ Rooted(next) /\ PlanPaths(plan)
      /\ \A k \in DOMAIN plan.refresh : plan.refresh[k].id \in DOMAIN next.dirs
      /\ \A g \in plan.grafts : g.id \in DOMAIN next.dirs
  BY FreshFacts
<1>2. \A p : IsDir(p)' <=> IsDir(p)
  BY DEF IsDir
<1>3. ASSUME NEW k \in DOMAIN plan.refresh, IsDir(plan.refresh[k].path)
      PROVE  LookupDir(next', plan.refresh[k].path) = plan.refresh[k].id
  <2>1. LookupDir(next, plan.refresh[k].path) = plan.refresh[k].id
    BY <1>3 DEF PrintInv, TasksThere
  <2>2. plan.refresh[k].id # NoDir /\ plan.refresh[k].path \in Path
    BY <1>1, RootedParts DEF PlanPaths
  <2>3. QED BY <2>1, <2>2
<1>4. ASSUME NEW g \in plan.grafts
      PROVE  IsDir(Front(g.path)) /\ LookupDir(next', Front(g.path)) = g.id
  <2>1. IsDir(Front(g.path)) /\ LookupDir(next, Front(g.path)) = g.id
    BY DEF PrintInv, GraftsThere
  <2>2. g.id # NoDir /\ g.path \in Path /\ Front(g.path) \in Path
    BY <1>1, RootedParts, PathParts DEF PlanPaths
  <2>3. QED BY <2>1, <2>2
<1>5. QED BY <1>2, <1>3, <1>4 DEF TasksThere, GraftsThere
-----------------------------------------------------------------------------
(* That invariant is inductive, too.                                       *)

\* A start has no ghosts.
LEMMA InitPrint == ASSUME Resting, Init PROVE PrintInv
<1>1. PICK s \in Starts : shared = s.index /\ next = s.index
  BY DEF Init
<1>2. Clean(s.index)
  BY DEF Resting
<1>3. plan = NoPlan /\ pc = "idle"
  BY DEF Init
<1>4. plan.rescans = NoTasks /\ DOMAIN plan.refresh = {} /\ plan.grafts = {}
  BY <1>3, NoTasksLeft
<1>5. QED BY <1>1, <1>2, <1>3, <1>4 DEF PrintInv, TasksThere, GraftsThere

\* With nothing dropped no subtree is to be scanned again, and the other tasks
\* are where the plan found them.
LEMMA TakeBatchPrint ==
  ASSUME Resting, IInv, SiblingInv, FreshInv, PrintInv, TakeBatch
  PROVE  PrintInv'
<1> DEFINE l == shared
<1>1. Rooted(l) /\ LogFresh
  BY DEF FreshInv
<1>2. /\ pc = "idle" /\ next' = shared /\ shared' = shared /\ disk' = disk /\ pc' = "work"
  BY DEF TakeBatch
<1>3. log \in Seq(Event) /\ sent \in 0 .. Len(log) /\ Len(log) \in Nat /\ DOMAIN log = 1 .. Len(log)
  BY LenProperties DEF IInv, TypeOK, VolumeOK
<1>4. PICK n \in 1 .. Len(log) - sent :
        \E batch \in {b \in [1 .. n -> UNION {Deliverable(sent + i) : i \in 1 .. n}] :
                        \A i \in 1 .. n : b[i] \in Deliverable(sent + i)} :
          /\ plan' = [rescans |-> PlanRescans(shared, batch),
                      refresh |-> PlanRefresh(shared, batch),
                      grafts  |-> {},
                      full    |-> PlanFull(shared, batch)]
          /\ sent' = sent + n
  BY DEF TakeBatch
<1>5. PICK batch \in [1 .. n -> UNION {Deliverable(sent + i) : i \in 1 .. n}] :
        /\ \A i \in 1 .. n : batch[i] \in Deliverable(sent + i)
        /\ plan' = [rescans |-> PlanRescans(shared, batch),
                    refresh |-> PlanRefresh(shared, batch),
                    grafts  |-> {},
                    full    |-> PlanFull(shared, batch)]
  BY <1>4
<1>6. ASSUME NEW i \in 1 .. n PROVE batch[i] \in Event /\ batch[i].kind \notin {"scan", "above"}
  <2>1. sent + i \in 1 .. Len(log)
    BY <1>3
  <2>2. PICK j \in DOMAIN log : j = sent + i
    BY <1>3, <2>1
  <2>3. Deliverable(j) = {log[j]}
    BY DEF Deliverable, Resting
  <2>4. batch[i] = log[j]
    BY <1>5, <2>2, <2>3
  <2>5. log[j] \in Event /\ log[j].kind \in {"item", "dir", "full"}
    BY <1>1, <1>3 DEF LogFresh
  <2>6. QED BY <2>4, <2>5
<1>7. n \in Nat /\ batch \in [1 .. n -> Event]
  BY <1>3, <1>5, <1>6
<1>8. /\ plan'.rescans = PlanRescans(l, batch) /\ plan'.refresh = PlanRefresh(l, batch) /\ plan'.grafts = {}
  BY <1>5
<1> HIDE DEF l
<1>9. /\ \A k \in DOMAIN PlanRefresh(l, batch) :
           LET t == PlanRefresh(l, batch)[k]
           IN  t.path \in Path /\ t.id # NoDir /\ LookupDir(l, t.path) = t.id
  BY <1>1, <1>7, PlanLocated
<1>10. PlanRescans(l, batch) = NoTasks
  <2> DEFINE all == {i \in 1 .. Len(batch) :
                       batch[i].kind \in {"scan", "above"} /\ ~IsIgnored(batch[i].path)}
             target == [i \in all |-> TargetOf(l, batch[i])]
             slots == {i \in DOMAIN target : target[i].id # Root}
  <2>1. Len(batch) = n
    BY <1>7, FunctionIsSeq
  <2>2. all = {}
    BY <1>6, <2>1
  <2>3. PlanRescans(l, batch) = Tasks(slots, target)
    BY DEF PlanRescans, RescanTargets
  <2>4. slots = {}
    BY <2>2
  <2> HIDE DEF target, slots
  <2>5. Tasks(slots, target) = NoTasks
    BY <2>4 DEF Tasks, NoTasks
  <2>6. QED BY <2>3, <2>5
<1>11. TasksThere'
  BY <1>2, <1>8, <1>9 DEF TasksThere, l
<1>12. GraftsThere'
  BY <1>8 DEF GraftsThere
<1>13. Clean(shared)' /\ Clean(next)'
  BY <1>2 DEF PrintInv
<1>14. QED BY <1>2, <1>8, <1>10, <1>11, <1>12, <1>13 DEF PrintInv

\* A graft begins below a directory that is alive.
LEMMA BeginGraftPrint ==
  ASSUME NEW g, IInv, SiblingInv, FreshInv, PrintInv, g \in plan.grafts, BeginGraft(g)
  PROVE  PrintInv'
<1>1. /\ walk' = WalkFrom(g.id, g.path) /\ plan' = [plan EXCEPT !.grafts = @ \ {g}] /\ pc' = "graft"
      /\ disk' = disk /\ shared' = shared /\ next' = next
  BY DEF BeginGraft
<1>2. /\ Rooted(next) /\ PlanOK(plan, next) /\ PlanPaths(plan) /\ g.id \in DOMAIN next.dirs
  BY FreshFacts
<1>3. plan'.rescans = plan.rescans /\ plan'.refresh = plan.refresh /\ plan'.grafts = plan.grafts \ {g}
  BY <1>1, <1>2 DEF PlanOK
<1>4. LookupDir(next, Front(g.path)) = g.id /\ g.id # NoDir /\ Front(g.path) \in Path
  BY <1>2, RootedParts, PathParts DEF PrintInv, GraftsThere, PlanPaths
<1>5. g.id \in AliveDirs(next)
  BY <1>2, <1>4, FoundAlive DEF PrintInv
<1>6. CleanTree(walk'.tree) /\ walk'.into = g.id
  BY <1>1, WalkFromClean
<1>7. \A p : IsDir(p)' <=> IsDir(p)
  BY <1>1 DEF IsDir
<1>8. TasksThere' /\ GraftsThere'
  BY <1>1, <1>3, <1>7 DEF PrintInv, TasksThere, GraftsThere
<1>9. QED BY <1>1, <1>3, <1>5, <1>6, <1>8 DEF PrintInv

\* Reading goes on without any.
LEMMA ReadingPrint ==
  ASSUME IInv, SiblingInv, FreshInv, PrintInv, ReadSubtree \/ ScanOne
  PROVE  PrintInv'
<1>1. PICK i \in DOMAIN walk.stack : ReadOne(i)
  <2>1. CASE ReadSubtree
    <3>1. walk.stack # <<>> /\ ReadOne(Len(walk.stack))
      BY <2>1 DEF ReadSubtree
    <3>2. walk.stack \in Seq([id : DOMAIN walk.tree.dirs, path : Path])
      BY FreshFacts
    <3>3. Len(walk.stack) \in DOMAIN walk.stack
      BY <3>1, <3>2, LenProperties, EmptySeq
    <3>4. QED BY <3>1, <3>3
  <2>2. CASE ScanOne
    BY <2>2 DEF ScanOne
  <2>3. QED BY <2>1, <2>2
<1>2. /\ pc \in {"rescan", "graft", "scan"} /\ pc' = pc
      /\ disk' = disk /\ shared' = shared /\ next' = next /\ plan' = plan
  BY DEF ReadSubtree, ScanOne
<1>3. WalkOK(walk) /\ GoodTree(walk.tree) /\ StackOnce(walk) /\ TreeOnce(walk.tree)
  BY <1>2, FreshFacts
<1>4. walk'.into = walk.into
  BY <1>1, <1>3, ReadOneOnce
<1>5. CleanTree(walk.tree)
  BY <1>2 DEF PrintInv
<1>6. CleanTree(walk'.tree)
  <2> DEFINE e == ListDisk(walk.stack[i].path)
  <2>1. PICK order \in Orders(e.dirs) : walk' = Visit(walk, i, e, order)
    BY <1>1 DEF ReadOne
  <2>2. e \in Listing
    BY ListDiskType
  <2> HIDE DEF e
  <2>3. CleanTree(Visit(walk, i, e, order).tree)
    BY <1>3, <1>5, <2>2, VisitClean
  <2>4. QED BY <2>1, <2>3
<1>7. TasksThere' /\ GraftsThere'
  BY <1>2, ThereKept
<1>8. QED BY <1>2, <1>4, <1>6, <1>7 DEF PrintInv

\* A graft hangs its tree below what is alive, and hides nothing.
LEMMA EndSubtreePrint ==
  ASSUME IInv, SiblingInv, FreshInv, PrintInv, EndSubtree
  PROVE  PrintInv'
<1> DEFINE l == next   m == Graft(next, walk.into, walk.tree)   x == walk.tree.dirs[1].name
<1>1. /\ pc \in {"rescan", "graft"} /\ GoodTree(walk.tree) /\ walk.into \in DOMAIN next.dirs
      /\ pc' = "work" /\ disk' = disk /\ shared' = shared /\ plan' = plan
      /\ pc = "graft" => next' = Graft(next, walk.into, walk.tree)
  BY EndSubtreeFacts
<1>2. pc = "graft" /\ next' = m /\ walk.into \in AliveDirs(l) /\ CleanTree(walk.tree) /\ Clean(l)
  BY <1>1 DEF PrintInv
<1>3. InRange(l) /\ Rooted(l) /\ SiblingsApart(l)
  BY FreshFacts
<1>4. Free(l, walk.into, x)
  BY <1>2 DEF SiblingInv, RoomInv
<1>5. x \in Name
  <2>1. Rooted(BaseOf(walk.tree)) /\ BaseOf(walk.tree).dirs = walk.tree.dirs
    BY <1>1, TreeBase
  <2>2. walk.tree.dirs[Root] \in Entry
    BY <2>1, RootedParts
  <2>3. QED BY <2>2 DEF Entry, Root
<1>6. Clean(m)
  BY <1>1, <1>2, <1>3, GraftClean
<1> HIDE DEF m, l, x
<1>7. \A p \in Path : LookupDir(l, p) # NoDir => LookupDir(m, p) = LookupDir(l, p)
  <2>1. CASE \E u \in Path : LookupDir(l, u) = walk.into
    <3>1. PICK u \in Path : LookupDir(l, u) = walk.into
      BY <2>1
    <3>2. walk.into # NoDir
      BY <1>1, <1>3, RootedParts DEF l
    <3>3. m = Graft(l, LookupDir(l, u), walk.tree)
      BY <3>1 DEF m, l
    <3>4. /\ LookupDir(l, Append(u, x)) = NoDir
          /\ Hung(l, Graft(l, LookupDir(l, u), walk.tree), Append(u, x), BaseOf(walk.tree))
      <4>1. walk.tree.dirs[1].name = x
        BY DEF x
      <4>2. Free(l, LookupDir(l, u), x) /\ LookupDir(l, u) # NoDir
        BY <1>4, <3>1, <3>2
      <4>3. QED BY <1>1, <1>3, <1>5, <4>1, <4>2, GraftLooks
    <3>5. PICK q \in Path : q = Append(u, x)
      BY <1>5, PathAppend
    <3>6. ASSUME NEW p \in Path, LookupDir(l, p) # NoDir PROVE LookupDir(m, p) = LookupDir(l, p)
      <4>1. ~IsPrefix(q, p)
        <5>1. SUFFICES ASSUME IsPrefix(q, p) PROVE FALSE
          OBVIOUS
        <5>2. LookupDir(l, q) # NoDir
          BY <1>3, <3>6, <5>1, LookPrefix
        <5>3. QED BY <3>4, <3>5, <5>2
      <4>2. QED BY <3>3, <3>4, <3>5, <4>1 DEF Hung
    <3>7. QED BY <3>6
  <2>2. CASE \A u \in Path : LookupDir(l, u) # walk.into
    <3>1. walk.into \in {NoDir} \cup DOMAIN l.dirs
      BY <1>1 DEF l
    <3>2. SameLooks(l, Graft(l, walk.into, walk.tree))
      BY <1>1, <1>3, <2>2, <3>1, GraftUnreached
    <3>3. QED BY <3>2 DEF SameLooks, m, l
  <2>3. QED BY <2>1, <2>2
<1>8. TasksThere' /\ GraftsThere'
  BY <1>1, <1>2, <1>7, ThereKept DEF l
<1>9. QED BY <1>1, <1>2, <1>6, <1>8 DEF PrintInv

\* A listing of a resting disk loses no directory that the disk has.
LEMMA ListKeeps ==
  ASSUME TreeDisk(disk), NEW l, InRange(l), Rooted(l), SiblingsApart(l), NEW v \in Path, NEW d \in DOMAIN l.dirs,
         HasPath(l, d, v), NEW p \in Path, IsDir(p), LookupDir(l, p) # NoDir
  PROVE  LookupDir(ApplyListing(l, d, ListDisk(v)), p) = LookupDir(l, p)
<1> DEFINE e == ListDisk(v)   m == ApplyListing(l, d, e)
<1> SUFFICES LookupDir(m, p) = LookupDir(l, p)
  OBVIOUS
<1>1. /\ e \in Listing /\ (e.exists <=> IsDir(v))
      /\ \A x \in Name : Append(v, x) \in Paths => (x \in e.dirs <=> disk[Append(v, x)] = "dir" /\ IsDir(v))
      /\ \A q \in Paths : Under(v, q) /\ ~IsDir(v) => disk[q] = "none"
  BY ListingSays
<1>2. p = <<>> \/ (p \in Paths /\ disk[p] = "dir" /\ p # <<>>)
  BY DEF IsDir
<1> HIDE DEF e
<1>3. CASE Unreached(l, d)
  BY <1>1, <1>3, ApplyUnreached DEF SameLooks
<1>4. CASE ~Unreached(l, d)
  <2>1. LookupDir(l, v) = d /\ d # NoDir
    BY <1>4, RootedParts DEF Unreached, HasPath
  <2>2. m = ApplyListing(l, LookupDir(l, v), e) /\ LookupDir(l, v) # NoDir
    BY <2>1
  <2> HIDE DEF m
  <2>3. CASE ~e.exists
    <3>1. v # <<>> /\ ~IsDir(v)
      BY <1>1, <2>3 DEF IsDir
    <3>2. /\ Rooted(m)
          /\ \A q \in Path : q # <<>> /\ ~IsPrefix(v, q) => SameAt(l, m, q)
      BY <1>1, <2>2, <2>3, <3>1, ListGone
    <3>3. ASSUME p # <<>> PROVE ~IsPrefix(v, p)
      <4>1. SUFFICES ASSUME IsPrefix(v, p) PROVE FALSE
        OBVIOUS
      <4>2. v # p
        BY <3>1
      <4>3. disk[p] = "none"
        BY <1>1, <1>2, <3>1, <3>3, <4>1, <4>2 DEF Under
      <4>4. QED BY <1>2, <3>3, <4>3
    <3>4. CASE p = <<>>
      BY <3>2, <3>4, LookRoot
    <3>5. CASE p # <<>>
      BY <3>2, <3>3, <3>5 DEF SameAt
    <3>6. QED BY <3>4, <3>5
  <2>4. CASE e.exists
    <3>1. /\ Rooted(m)
          /\ \A y \in Name : LookupDir(m, Append(v, y)) = IF y \in e.dirs THEN LookupDir(l, Append(v, y)) ELSE NoDir
          /\ \A q \in Path : q # <<>> /\ ~Under(v, q) => SameAt(l, m, q)
          /\ \A y \in Name : \A q \in Path : Under(Append(v, y), q) =>
               IF y \in e.dirs THEN SameAt(l, m, q) ELSE LookupDir(m, q) = NoDir /\ ~FileIn(m, q)
      BY <1>1, <2>2, <2>4, ListHere
    <3>2. CASE p = <<>>
      BY <3>1, <3>2, LookRoot
    <3>3. CASE p # <<>> /\ ~Under(v, p)
      BY <3>1, <3>3 DEF SameAt
    <3>4. CASE p # <<>> /\ Under(v, p)
      <4>1. PICK y \in Name : IsPrefix(Append(v, y), p)
        BY <3>4, UnderStep
      <4>2. PICK w \in Path : w = Append(v, y)
        BY PathAppend
      <4>3. w # <<>> /\ w \in Paths
        <5>1. w # <<>>
          BY <4>2, PathAppend
        <5>2. QED BY <1>2, <3>4, <4>1, <4>2, <5>1, PathsParts
      <4>4. disk[w] = "dir"
        <5>1. CASE w = p
          BY <1>2, <3>4, <5>1
        <5>2. CASE w # p
          <6>1. Under(w, p)
            BY <4>1, <4>2, <5>2 DEF Under
          <6>2. disk[w] # "dir" => disk[p] = "none"
            BY <1>2, <3>4, <4>3, <6>1, NothingUnder
          <6>3. QED BY <1>2, <3>4, <6>2
        <5>3. QED BY <5>1, <5>2
      <4>5. y \in e.dirs
        BY <1>1, <2>4, <4>2, <4>3, <4>4
      <4>6. CASE w = p
        BY <3>1, <4>2, <4>5, <4>6
      <4>7. CASE w # p
        <5>1. Under(Append(v, y), p)
          BY <4>1, <4>2, <4>7 DEF Under
        <5>2. SameAt(l, m, p)
          BY <3>1, <4>5, <5>1
        <5>3. QED BY <5>2 DEF SameAt
      <4>8. QED BY <4>6, <4>7
    <3>5. QED BY <3>2, <3>3, <3>4
  <2>5. QED BY <2>3, <2>4
<1>5. QED BY <1>3, <1>4

\* A listing of a resting disk leaves no ghosts, and keeps the rest of the
\* plan where it was.
LEMMA RefreshPrint ==
  ASSUME IInv, SiblingInv, FreshInv, PrintInv, Refresh
  PROVE  PrintInv'
<1> DEFINE k == First(plan.refresh)   t == plan.refresh[k]   left == Without(plan.refresh, k)
           e == ListDisk(t.path)   l == next   m == next'
           new == {[slot |-> k, id |-> t.id, path |-> Append(t.path, n)] : n \in FreshDirs(next, t.id, e)}
           grafts == plan.grafts \cup new
<1>1. InRange(l) /\ Rooted(l) /\ SiblingsApart(l) /\ PlanOK(plan, next) /\ PlanPaths(plan)
      /\ (\A j \in DOMAIN plan.refresh : plan.refresh[j].id \in DOMAIN next.dirs)
      /\ (\A g \in plan.grafts : g.id \in DOMAIN next.dirs)
      /\ TreeDisk(disk)
  BY FreshFacts
<1>2. /\ pc = "work" /\ plan.refresh # NoTasks /\ pc' = "work"
      /\ disk' = disk /\ shared' = shared
      /\ m = ApplyListing(next, t.id, e)
      /\ plan' = [plan EXCEPT !.refresh = left, !.grafts = grafts]
  BY DEF Refresh
<1>3. k \in DOMAIN plan.refresh
  BY <1>1, <1>2, FirstTask DEF PlanOK
<1>4. plan'.rescans = plan.rescans /\ plan'.refresh = left /\ plan'.grafts = grafts
  BY <1>1, <1>2 DEF PlanOK
<1>5. DOMAIN left = DOMAIN plan.refresh \ {k} /\ \A j \in DOMAIN left : left[j] = plan.refresh[j]
  BY DEF Without
<1> HIDE DEF k
<1>6. PICK v \in Path, d \in DOMAIN l.dirs : v = t.path /\ d = t.id
  BY <1>1, <1>3 DEF PlanPaths
<1>7. e = ListDisk(v) /\ e \in Listing /\ m = ApplyListing(l, d, e)
  BY <1>2, <1>6, ListDiskType
<1>8. \A g \in new : \E n \in FreshDirs(l, d, e) : g.id = d /\ g.path = Append(v, n)
  BY <1>6
<1>9. HasPath(l, d, v) /\ d # NoDir /\ (IsDir(v) => LookupDir(l, v) = d)
  <2>1. HasPath(l, d, v)
    BY <1>3, <1>6 DEF FreshInv, ListsFresh, TaskFresh
  <2>2. IsDir(v) => LookupDir(l, v) = d
    BY <1>3, <1>6 DEF PrintInv, TasksThere
  <2>3. QED BY <1>1, <2>1, <2>2, RootedParts
<1> HIDE DEF new, t, e, left, m
<1>10. /\ e.exists <=> IsDir(v)
       /\ \A x \in Name : Append(v, x) \in Paths => (x \in e.dirs => IsDir(v))
       /\ \A x \in e.dirs : Append(v, x) \in Paths
  BY <1>1, <1>7, ListingSays
<1>11. Clean(m)
  <2>1. Clean(l)
    BY DEF PrintInv
  <2>2. e.exists => d \in AliveDirs(l)
    <3>1. SUFFICES ASSUME IsDir(v) PROVE d \in AliveDirs(l)
      BY <1>10
    <3>2. LookupDir(l, v) = d /\ LookupDir(l, v) # NoDir
      BY <1>9, <3>1
    <3>3. LookupDir(l, v) \in AliveDirs(l)
      BY <1>1, <2>1, <3>2, FoundAlive
    <3>4. QED BY <3>2, <3>3
  <2>3. QED BY <1>1, <1>7, <2>1, <2>2, ApplyClean
<1>12. \A p \in Path : IsDir(p) /\ LookupDir(l, p) # NoDir => LookupDir(m, p) = LookupDir(l, p)
  <2> HIDE DEF l
  <2>1. ASSUME NEW p \in Path, IsDir(p), LookupDir(l, p) # NoDir
        PROVE  LookupDir(ApplyListing(l, d, ListDisk(v)), p) = LookupDir(l, p)
    BY <1>1, <1>9, <2>1, ListKeeps DEF l
  <2>2. QED BY <2>1, <1>7 DEF l
<1>13. \A p : IsDir(p)' <=> IsDir(p)
  BY <1>2 DEF IsDir
<1>14. ASSUME NEW j \in DOMAIN left, IsDir(left[j].path) PROVE LookupDir(m, left[j].path) = left[j].id
  <2>1. j \in DOMAIN plan.refresh /\ left[j] = plan.refresh[j]
    BY <1>5
  <2>2. LookupDir(l, left[j].path) = left[j].id
    BY <1>14, <2>1 DEF PrintInv, TasksThere
  <2>3. left[j].path \in Path /\ left[j].id # NoDir
    BY <1>1, <2>1, RootedParts DEF PlanPaths
  <2>4. QED BY <1>12, <1>14, <2>2, <2>3
<1>15. ASSUME NEW g \in grafts PROVE IsDir(Front(g.path)) /\ LookupDir(m, Front(g.path)) = g.id
  <2>1. CASE g \in plan.grafts
    <3>1. IsDir(Front(g.path)) /\ LookupDir(l, Front(g.path)) = g.id
      BY <2>1 DEF PrintInv, GraftsThere
    <3>2. Front(g.path) \in Path /\ g.id # NoDir
      BY <1>1, <2>1, RootedParts, PathParts DEF PlanPaths
    <3>3. QED BY <1>12, <3>1, <3>2
  <2>2. CASE g \in new
    <3>1. PICK n \in FreshDirs(l, d, e) : g.id = d /\ g.path = Append(v, n)
      BY <1>8, <2>2
    <3>2. n \in e.dirs /\ n \in Name
      BY <1>7 DEF FreshDirs, Listing
    <3>3. IsDir(v)
      BY <1>10, <3>2
    <3>4. Front(g.path) = v
      BY <3>1, <3>2, PathAppend
    <3>5. QED BY <1>9, <1>12, <3>1, <3>3, <3>4
  <2>3. QED BY <2>1, <2>2
<1>16. TasksThere'
  BY <1>4, <1>13, <1>14 DEF TasksThere, m
<1>17. GraftsThere'
  BY <1>4, <1>13, <1>15 DEF GraftsThere, m
<1>18. Clean(shared)' /\ Clean(next)'
  BY <1>2, <1>11 DEF PrintInv, m
<1>19. plan'.rescans = NoTasks
  BY <1>4 DEF PrintInv
<1>20. QED BY <1>2, <1>16, <1>17, <1>18, <1>19 DEF PrintInv

\* With no plan left there is nothing to say of one.
LEMMA NoPlanPrint ==
  ASSUME plan' = NoPlan, pc' \notin {"graft", "rescan"}, Clean(shared'), Clean(next'),
         pc' = "scan" => CleanTree(walk'.tree)
  PROVE  PrintInv'
<1>1. plan'.rescans = NoTasks /\ DOMAIN plan'.refresh = {} /\ plan'.grafts = {}
  BY NoTasksLeft
<1>2. TasksThere' /\ GraftsThere'
  BY <1>1 DEF TasksThere, GraftsThere
<1>3. QED BY <1>1, <1>2 DEF PrintInv

\* Every step keeps the invariant.
LEMMA StepPrint ==
  ASSUME Tame, Resting, IInv, SiblingInv, FreshInv, PrintInv, [Next]_vars
  PROVE  PrintInv'
<1>0. Clean(shared) /\ Clean(next)
  BY DEF PrintInv
<1>1. CASE TakeBatch
  BY <1>1, TakeBatchPrint
<1>2. CASE BeginRescan
  BY <1>2 DEF BeginRescan, PrintInv
<1>3. CASE \E g \in plan.grafts : BeginGraft(g)
  BY <1>3, BeginGraftPrint
<1>4. CASE ReadSubtree \/ ScanOne
  BY <1>4, ReadingPrint
<1>5. CASE EndSubtree
  BY <1>5, EndSubtreePrint
<1>6. CASE Refresh
  BY <1>6, RefreshPrint
<1>7. CASE Publish
  <2>1. plan' = NoPlan /\ pc' \in {"rebuild", "idle"} /\ shared' = next /\ next' = next
    BY <1>7 DEF Publish
  <2>2. QED BY <1>0, <2>1, NoPlanPrint
<1>8. CASE BeginRebuild
  <2>1. pc = "rebuild" /\ plan' = plan /\ pc' = "scan" /\ shared' = shared /\ next' = next /\ walk' = WalkFrom(NoDir, <<>>)
    BY <1>8 DEF BeginRebuild
  <2>2. plan' = NoPlan
    BY <2>1 DEF IInv, NextInv
  <2>3. CleanTree(walk'.tree)
    BY <2>1, WalkFromClean
  <2>4. QED BY <1>0, <2>1, <2>2, <2>3, NoPlanPrint
<1>9. CASE EndRebuild
  <2>1. pc = "scan" /\ plan' = plan /\ pc' = "idle" /\ shared' = BaseOf(walk.tree) /\ next' = shared'
    BY <1>9 DEF EndRebuild
  <2>2. plan' = NoPlan
    BY <2>1 DEF IInv, NextInv
  <2>3. CleanTree(walk.tree)
    BY <2>1 DEF PrintInv
  <2>4. GoodTree(walk.tree)
    BY <2>1, FreshFacts
  <2>5. Clean(BaseOf(walk.tree))
    BY <2>3, <2>4, CleanBase
  <2>6. QED BY <2>1, <2>2, <2>5, NoPlanPrint
<1>10. CASE RebuildFails
  BY <1>10 DEF RebuildFails, Tame
<1>11. CASE Environment
  <2>1. pc = "idle"
    BY <1>11 DEF Environment, Resting
  <2>2. UNCHANGED <<shared, next, pc, plan, walk>>
    BY <1>11 DEF Environment, updaterVars
  <2>3. plan' = NoPlan
    BY <2>1, <2>2 DEF IInv, NextInv
  <2>4. QED BY <1>0, <2>1, <2>2, <2>3, NoPlanPrint
<1>12. CASE UNCHANGED vars
  <2>1. shared' = shared /\ next' = next /\ pc' = pc /\ plan' = plan /\ walk' = walk /\ disk' = disk
    BY <1>12 DEF vars
  <2>2. TasksThere' /\ GraftsThere'
    BY <2>1, ThereKept
  <2>3. QED BY <2>1, <2>2 DEF PrintInv
<1>13. QED BY <1>1, <1>2, <1>3, <1>4, <1>5, <1>6, <1>7, <1>8, <1>9, <1>10, <1>11, <1>12 DEF Next, Thread

\* What an idle thread with nothing left to deliver prints is the disk.
LEMMA PrintSuffices ==
  ASSUME Resting, IInv, SiblingInv, FreshInv, PrintInv
  PROVE  PrintsDisk
<1> SUFFICES ASSUME pc = "idle", sent = Len(log)
             PROVE  /\ \A p \in Paths :
                         /\ (disk[p] \in {"dir", "sealed"}) = \E d \in AliveDirs(shared) : PrintedDir(shared, d) = p
                         /\ (disk[p] = "file") = \E f \in AliveFiles(shared) : PrintedFile(shared, f) = p
                    /\ \A d, e \in AliveDirs(shared) : PrintedDir(shared, d) = PrintedDir(shared, e) => d = e
                    /\ \A f, g \in AliveFiles(shared) : PrintedFile(shared, f) = PrintedFile(shared, g) => f = g
  BY DEF PrintsDisk
<1>1. InRange(shared) /\ Rooted(shared) /\ SiblingsApart(shared) /\ Clean(shared)
  BY FreshFacts DEF PrintInv
<1>2. /\ \A p \in Path : LookupDir(shared, p) # NoDir <=> \E d \in AliveDirs(shared) : PrintedDir(shared, d) = p
      /\ \A d, e \in AliveDirs(shared) : PrintedDir(shared, d) = PrintedDir(shared, e) => d = e
  BY <1>1, PrintedDirs
<1>3. /\ \A p \in Path : p # <<>> => (FileIn(shared, p) <=> \E f \in AliveFiles(shared) : PrintedFile(shared, f) = p)
      /\ \A f, g \in AliveFiles(shared) : PrintedFile(shared, f) = PrintedFile(shared, g) => f = g
  BY <1>1, PrintedFiles
<1>4. ASSUME NEW p \in Paths
      PROVE  /\ (disk[p] \in {"dir", "sealed"}) = \E d \in AliveDirs(shared) : PrintedDir(shared, d) = p
             /\ (disk[p] = "file") = \E f \in AliveFiles(shared) : PrintedFile(shared, f) = p
  <2>1. p \in Seen /\ p \in Path /\ p # <<>>
    BY PathsParts DEF Seen, IsIgnored, Resting
  <2>2. Shows(shared, p, disk[p]) \/ Pending(p)
    BY <2>1 DEF FreshInv, IdleFresh
  <2>3. ~Pending(p)
    BY DEF Pending
  <2>4. disk[p] \in {"none", "file", "dir"}
    BY DEF FreshInv, TreeDisk
  <2>6. disk[p] = "file" <=> \E f \in AliveFiles(shared) : PrintedFile(shared, f) = p
    BY <1>3, <2>1, <2>2, <2>3 DEF Shows
  <2>7. (disk[p] \in {"dir", "sealed"}) = \E d \in AliveDirs(shared) : PrintedDir(shared, d) = p
    <3>1. (disk[p] \in {"dir", "sealed"}) = (LookupDir(shared, p) # NoDir)
      BY <2>2, <2>3, <2>4 DEF Shows
    <3>2. (LookupDir(shared, p) # NoDir) = \E d \in AliveDirs(shared) : PrintedDir(shared, d) = p
      BY ONLY <1>2, <2>1, Zenon
    <3>3. QED BY ONLY <3>1, <3>2
  <2>8. (disk[p] = "file") = \E f \in AliveFiles(shared) : PrintedFile(shared, f) = p
    BY ONLY <2>6, Zenon
  <2>9. QED BY <2>7, <2>8
<1>5. QED BY <1>2, <1>3, <1>4

\* A search prints what is on the disk, each path once, and nothing else,
\* whenever the thread is idle and every recorded event has been delivered:
\* while nothing is renamed, no directory is closed, no rebuild fails, no
\* event is dropped, and the disk rests while a batch is handled.
THEOREM IdlePrintsDisk == ASSUME Tame, Resting PROVE Spec => []PrintsDisk
<1>1. Init => FreshInv
  BY InitFresh
<1>2. IInv /\ SiblingInv /\ FreshInv /\ [Next]_vars => FreshInv'
  BY StepFresh
<1>3. Init => PrintInv
  BY InitPrint
<1>4. IInv /\ SiblingInv /\ FreshInv /\ PrintInv /\ [Next]_vars => PrintInv'
  BY StepPrint
<1>5. IInv /\ SiblingInv /\ FreshInv /\ PrintInv => PrintsDisk
  BY PrintSuffices
<1>6. Spec => []IInv
  BY Invariance
<1>7. Init => SiblingInv
  BY InitSiblings
<1>8. IInv /\ SiblingInv /\ [Next]_vars => SiblingInv'
  BY StepSiblings
<1>9. QED BY <1>1, <1>2, <1>3, <1>4, <1>5, <1>6, <1>7, <1>8, PTL DEF Spec
=============================================================================
