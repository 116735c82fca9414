---------------------------- MODULE ClientProofs ----------------------------
(***************************************************************************)
(* The answer to a query: what Client's texts are made of, that a reply is *)
(* read as it was written, and that the limit only shortens.               *)
(***************************************************************************)
EXTENDS Client, SearchProofs

-----------------------------------------------------------------------------
(* The lines of an answer.                                                 *)

\* The lines of an answer, none of them empty.
Listed(l, hits) ==
  /\ hits.dirs \in Seq(DOMAIN l.dirs) /\ hits.files \in Seq(DOMAIN l.files) /\ hits.total \in Nat

LEMMA LinesAreTexts ==
  ASSUME NEW l, InRange(l), NEW hits, Listed(l, hits)
  PROVE  Lines(l, hits) \in Seq(Seq(Char) \ {<<>>})
<1> DEFINE Texts == Seq(Char) \ {<<>>}
<1>1. ASSUME NEW d \in DOMAIN l.dirs PROVE DirLine(l, d) \in Texts
  <2>1. DirPath(l, d) \in Seq(Char)
    BY DirPathIsText
  <2>2. Slash \in Char
    BY DEF Slash, Char, Byte
  <2>3. Append(DirPath(l, d), Slash) \in Seq(Char) /\ Len(Append(DirPath(l, d), Slash)) = Len(DirPath(l, d)) + 1
    BY <2>1, <2>2, AppendProperties
  <2>4. Len(DirPath(l, d)) \in Nat
    BY <2>1, LenProperties
  <2>5. Len(Append(DirPath(l, d), Slash)) # 0
    BY <2>3, <2>4
  <2>6. QED BY <2>3, <2>5, EmptySeq DEF DirLine
<1>2. ASSUME NEW f \in DOMAIN l.files PROVE FilePath(l, f) \in Texts
  <2>1. l.files[f].name \in Seq(Char) /\ l.files[f].parent \in DOMAIN l.dirs
    BY NamesAreTexts
  <2> DEFINE path == Slashed(DirPath(l, l.files[f].parent))   name == l.files[f].name
  <2>2. path \in Seq(Char) /\ Len(path) > 0
    BY <2>1, DirPathIsText, SlashedIsText
  <2> HIDE DEF path, name
  <2>3. path \o name \in Seq(Char) /\ Len(path \o name) = Len(path) + Len(name)
    BY <2>1, <2>2, ConcatProperties DEF name
  <2>4. Len(path) \in Nat /\ Len(name) \in Nat
    BY <2>1, <2>2, LenProperties DEF name
  <2>5. Len(path \o name) # 0
    BY <2>2, <2>3, <2>4
  <2>6. QED BY <2>3, <2>5, EmptySeq DEF FilePath, path, name
<1> HIDE DEF Texts
<1>3. /\ DOMAIN hits.dirs = 1 .. Len(hits.dirs) /\ Len(hits.dirs) \in Nat
      /\ DOMAIN hits.files = 1 .. Len(hits.files) /\ Len(hits.files) \in Nat
      /\ \A i \in DOMAIN hits.dirs : hits.dirs[i] \in DOMAIN l.dirs
      /\ \A i \in DOMAIN hits.files : hits.files[i] \in DOMAIN l.files
  BY LenProperties, ElementOfSeq DEF Listed
<1> DEFINE X == [i \in DOMAIN hits.dirs |-> DirLine(l, hits.dirs[i])]
           Y == [i \in DOMAIN hits.files |-> FilePath(l, hits.files[i])]
<1>4. X \in [1 .. Len(hits.dirs) -> Texts] /\ Y \in [1 .. Len(hits.files) -> Texts]
  BY <1>1, <1>2, <1>3
<1>5. Lines(l, hits) = X \o Y
  BY DEF Lines
<1> HIDE DEF X, Y
<1>6. X \in Seq(Texts) /\ Y \in Seq(Texts)
  BY <1>3, <1>4, FunctionIsSeq
<1>7. QED BY <1>5, <1>6, ConcatProperties DEF Texts

-----------------------------------------------------------------------------
(* What the two searches give.                                             *)

\* Hits are ids of the snapshot.
LEMMA LimitIsListed ==
  ASSUME NEW l, NEW dirs \in Seq(DOMAIN l.dirs), NEW parts \in Seq(Seq(DOMAIN l.files)), NEW n \in Nat
  PROVE  Listed(l, Limit(dirs, Gather(parts, n), n))
<1> DEFINE files == FlattenSeq(parts)
           rest == n - Least(n, Len(dirs))
           hits == Limit(dirs, Gather(parts, n), n)
<1>1. /\ hits.dirs = FirstN(dirs, n) /\ hits.files = FirstN(files, rest)
      /\ hits.total = Len(dirs) + Len(files)
      /\ rest \in 0 .. n /\ files \in Seq(DOMAIN l.files)
  BY LimitShows
<1> HIDE DEF files, rest, hits
<1>2. hits.dirs \in Seq(DOMAIN l.dirs)
  <2>1. FirstN(dirs, n) \in Seq(DOMAIN l.dirs)
    BY FirstOf
  <2>2. QED BY <1>1, <2>1
<1>3. hits.files \in Seq(DOMAIN l.files)
  <2>1. rest \in Nat
    BY <1>1
  <2>2. QED BY <1>1, <2>1, FirstOf
<1>4. hits.total \in Nat
  BY <1>1, LenProperties
<1>5. QED BY <1>2, <1>3, <1>4 DEF Listed, hits

LEMMA NoHitsListed ==
  ASSUME NEW l
  PROVE  Listed(l, NoHits)
BY DEF Listed, NoHits

LEMMA SearchesList ==
  ASSUME NEW l, InRange(l), NEW q, NEW n \in Nat
  PROVE  Listed(l, LiveSearch(l, q, n)) /\ Listed(l, FileSearch(l, q, n))
<1>1. /\ SortedIds(LiveDirs(l, q)) \in Seq(DOMAIN l.dirs)
      /\ SortedIds(FileDirs(l, q)) \in Seq(DOMAIN l.dirs)
      /\ LiveParts(l, q) \in Seq(Seq(DOMAIN l.files))
      /\ FileParts(l, q) \in Seq(Seq(DOMAIN l.files))
  BY PartsAreIds
<1>2. /\ Listed(l, Limit(SortedIds(LiveDirs(l, q)), Gather(LiveParts(l, q), n), n))
      /\ Listed(l, Limit(SortedIds(FileDirs(l, q)), Gather(FileParts(l, q), n), n))
  BY <1>1, LimitIsListed
<1>3. Listed(l, NoHits)
  BY NoHitsListed
<1>4. QED BY <1>2, <1>3, SearchesAre

-----------------------------------------------------------------------------
(* The limit only shortens.                                                *)

\* Of what one list of directories and the threads' files give.
LEMMA LimitShortens ==
  ASSUME NEW l, InRange(l), NEW dirs \in Seq(DOMAIN l.dirs), NEW parts \in Seq(Seq(DOMAIN l.files)),
         NEW m \in Nat, NEW n \in 0 .. m
  PROVE  Shortened(l, Limit(dirs, Gather(parts, n), n), Limit(dirs, Gather(parts, m), m), n)
<1> DEFINE files == FlattenSeq(parts)
           rest(k) == k - Least(k, Len(dirs))
           hits(k) == Limit(dirs, Gather(parts, k), k)
           all == AllLines(l, dirs, files)
<1>1. ASSUME NEW k \in Nat
      PROVE  /\ Lines(l, hits(k)) = FirstN(all, k)
             /\ hits(k).total = Len(dirs) + Len(files)
             /\ files \in Seq(DOMAIN l.files)
  <2>1. /\ hits(k).dirs = FirstN(dirs, k) /\ hits(k).files = FirstN(files, rest(k))
        /\ hits(k).total = Len(dirs) + Len(files)
        /\ files \in Seq(DOMAIN l.files)
    BY LimitShows
  <2> HIDE DEF hits, files
  <2>2. AllLines(l, FirstN(dirs, k), FirstN(files, rest(k))) = FirstN(all, k)
    BY <2>1, LinesOfFirst
  <2>3. Lines(l, hits(k)) = AllLines(l, hits(k).dirs, hits(k).files)
    BY DEF Lines, AllLines
  <2>4. QED BY <2>1, <2>2, <2>3
<1>2. all \in Seq(Seq(Char))
  <2>1. files \in Seq(DOMAIN l.files)
    BY <1>1
  <2> DEFINE whole == [dirs |-> dirs, files |-> files, total |-> 0]
  <2>2. Listed(l, whole)
    BY <2>1 DEF Listed
  <2>3. Lines(l, whole) \in Seq(Seq(Char) \ {<<>>})
    BY <2>2, LinesAreTexts
  <2>4. Lines(l, whole) = all
    BY DEF Lines, AllLines
  <2> HIDE DEF whole, all
  <2>5. all \in Seq(Seq(Char) \ {<<>>})
    BY <2>3, <2>4
  <2>6. QED BY <2>5, SeqMonotonic
<1> HIDE DEF all, hits, files
<1>3. n \in Nat
  OBVIOUS
<1>4. Lines(l, hits(m)) = FirstN(all, m) /\ Lines(l, hits(n)) = FirstN(all, n) /\ hits(n).total = hits(m).total
  BY <1>1, <1>3
<1>5. FirstN(FirstN(all, m), n) = FirstN(all, n)
  BY <1>2, FirstOfFirst
<1>6. QED BY <1>4, <1>5 DEF Shortened, hits

LEMMA SearchesShorten ==
  ASSUME NEW l, InRange(l), NEW q, NEW m \in Nat, NEW n \in 0 .. m
  PROVE  /\ Shortened(l, LiveSearch(l, q, n), LiveSearch(l, q, m), n)
         /\ Shortened(l, FileSearch(l, q, n), FileSearch(l, q, m), n)
<1>1. /\ SortedIds(LiveDirs(l, q)) \in Seq(DOMAIN l.dirs)
      /\ SortedIds(FileDirs(l, q)) \in Seq(DOMAIN l.dirs)
      /\ LiveParts(l, q) \in Seq(Seq(DOMAIN l.files))
      /\ FileParts(l, q) \in Seq(Seq(DOMAIN l.files))
  BY PartsAreIds
<1> DEFINE Live(k) == Limit(SortedIds(LiveDirs(l, q)), Gather(LiveParts(l, q), k), k)
           File(k) == Limit(SortedIds(FileDirs(l, q)), Gather(FileParts(l, q), k), k)
<1>2. Shortened(l, Live(n), Live(m), n) /\ Shortened(l, File(n), File(m), n)
  BY <1>1, LimitShortens
<1>3. Shortened(l, NoHits, NoHits, n)
  <2>1. Lines(l, NoHits) \in Seq(Seq(Char) \ {<<>>})
    BY NoHitsListed, LinesAreTexts
  <2>2. Lines(l, NoHits) = <<>>
    BY DEF Lines, NoHits
  <2>3. FirstN(<<>>, n) = <<>>
    BY DEF FirstN
  <2>4. QED BY <2>2, <2>3 DEF Shortened
<1> HIDE DEF Live, File
<1>4. \A k : /\ LiveSearch(l, q, k) = IF IsEmpty(q) THEN NoHits ELSE Live(k)
             /\ FileSearch(l, q, k) = IF IsEmpty(q) THEN NoHits ELSE File(k)
  BY SearchesAre DEF Live, File
<1>5. QED BY <1>2, <1>3, <1>4

-----------------------------------------------------------------------------
(* Numbers in decimal.                                                     *)

Digit == Zero .. Zero + 9

\* v gives the value of each beginning of a text of digits.
Values(text, n, v) ==
  /\ v \in [0 .. n -> Nat] /\ v[0] = 0
  /\ \A i \in 1 .. n : v[i] = 10 * v[i - 1] + (text[i] - Zero)

Reads(text, n) ==
  /\ text \in Seq(Digit) /\ text # <<>>
  /\ \E v : Values(text, Len(text), v) /\ v[Len(text)] = n

\* One digit more.
LEMMA ReadsMore ==
  ASSUME NEW text \in Seq(Digit), NEW v, Values(text, Len(text), v), NEW c \in 0 .. 9
  PROVE  Reads(text \o <<Zero + c>>, 10 * v[Len(text)] + c)
<1> DEFINE n == Len(text)
           more == text \o <<Zero + c>>
           w == [i \in 0 .. n + 1 |-> IF i = n + 1 THEN 10 * v[n] + c ELSE v[i]]
<1>1. n \in Nat /\ Zero + c \in Digit
  BY LenProperties DEF Zero, Digit
<1>2. /\ more \in Seq(Digit) /\ Len(more) = n + 1
      /\ \A i \in 1 .. n : more[i] = text[i]
      /\ more[n + 1] = Zero + c
  <2>1. text \o <<Zero + c>> = Append(text, Zero + c)
    BY <1>1, AppendIsConcat
  <2>2. QED BY <1>1, <2>1, AppendProperties
<1> HIDE DEF more, n
<1>3. v \in [0 .. n -> Nat] /\ v[0] = 0 /\ \A i \in 1 .. n : v[i] = 10 * v[i - 1] + (text[i] - Zero)
  BY DEF Values, n
<1>4. w \in [0 .. n + 1 -> Nat]
  <2>1. 10 * v[n] + c \in Nat
    BY <1>1, <1>3
  <2>2. \A i \in 0 .. n + 1 : i # n + 1 => v[i] \in Nat
    BY <1>1, <1>3
  <2>3. QED BY <2>1, <2>2
<1>5. w[n + 1] = 10 * v[n] + c /\ \A i \in 0 .. n : w[i] = v[i]
  BY <1>1
<1> HIDE DEF w
<1>6. ASSUME NEW i \in 1 .. n + 1 PROVE w[i] = 10 * w[i - 1] + (more[i] - Zero)
  <2>1. CASE i \in 1 .. n
    <3>1. w[i] = v[i] /\ w[i - 1] = v[i - 1] /\ more[i] = text[i]
      BY <2>1, <1>1, <1>2, <1>5
    <3>2. QED BY <2>1, <3>1, <1>3
  <2>2. CASE i = n + 1
    <3>1. w[i - 1] = v[n] /\ more[i] - Zero = c
      BY <2>2, <1>1, <1>2, <1>5 DEF Zero
    <3>2. QED BY <2>2, <3>1, <1>5
  <2>3. QED BY <2>1, <2>2, <1>1
<1>7. Values(more, n + 1, w)
  <2>1. w[0] = 0
    BY <1>1, <1>3, <1>5
  <2>2. QED BY <2>1, <1>4, <1>6 DEF Values
<1>8. more # <<>>
  BY <1>1, <1>2, EmptySeq
<1>9. QED BY <1>2, <1>5, <1>7, <1>8 DEF Reads, more, n

LEMMA DecimalReads ==
  ASSUME NEW n \in Nat
  PROVE  Reads(Decimal(n), n)
<1> DEFINE Texts == Seq(Digit)
           digits[k \in 0 .. n] == (IF k < 10 THEN <<>> ELSE digits[k \div 10]) \o <<Zero + (k % 10)>>
           G == [k \in 1 .. n |-> [x \in Texts |-> (IF k < 10 THEN <<>> ELSE x) \o <<Zero + (k % 10)>>]]
           back == [k \in 1 .. n |-> k \div 10]
<1>1. \A k \in 0 .. n : /\ k % 10 \in 0 .. 9 /\ k = 10 * (k \div 10) + (k % 10)
                        /\ k \div 10 \in Nat /\ (k # 0 => k \div 10 < k)
  OBVIOUS
<1>2. \A k \in 0 .. n, x \in Texts : x \o <<Zero + (k % 10)>> \in Texts
  <2> SUFFICES ASSUME NEW k \in 0 .. n, NEW x \in Texts PROVE x \o <<Zero + (k % 10)>> \in Texts
    OBVIOUS
  <2>1. k % 10 \in 0 .. 9
    BY <1>1
  <2> DEFINE c == k % 10
  <2> HIDE DEF c
  <2>2. Zero + c \in Digit
    BY <2>1 DEF Zero, Digit, c
  <2>3. <<Zero + c>> \in Texts
    BY <2>2
  <2>4. x \o <<Zero + c>> \in Texts
    BY <2>3, ConcatProperties
  <2>5. QED BY <2>4 DEF c
<1>3. <<>> \in Texts
  OBVIOUS
<1> HIDE DEF Texts
<1>4. \A k \in 1 .. n : back[k] \in 0 .. k - 1
  <2> SUFFICES ASSUME NEW k \in 1 .. n PROVE k \div 10 \in 0 .. k - 1
    OBVIOUS
  <2> DEFINE b == k \div 10
  <2>1. b \in Nat /\ b < k
    BY <1>1
  <2> HIDE DEF b
  <2>2. b \in 0 .. k - 1
    BY <2>1
  <2>3. QED BY <2>2 DEF b
<1>5. \A k \in 1 .. n : \A x \in Texts : G[k][x] \in Texts
  BY <1>2, <1>3
<1>6. Earlier(n, Texts, <<Zero>>, back, G)
  <2>1. <<Zero>> \in Texts
    BY DEF Texts, Digit, Zero
  <2> HIDE DEF back, G
  <2>2. QED BY <2>1, <1>4, <1>5, EarlierExists
<1>7. PICK f \in [0 .. n -> Texts] :
        \A k \in 0 .. n : f[k] = IF k = 0 THEN <<Zero>> ELSE G[k][f[back[k]]]
  BY <1>6 DEF Earlier
<1>8. ASSUME NEW k \in 0 .. n
      PROVE  f[k] = (IF k < 10 THEN <<>> ELSE f[k \div 10]) \o <<Zero + (k % 10)>>
  <2>1. CASE k = 0
    <3>1. Zero + (0 % 10) = Zero
      BY DEF Zero
    <3>2. <<>> \o <<Zero>> = <<Zero>>
      OBVIOUS
    <3>3. f[0] = <<Zero>> /\ 0 < 10
      BY <2>1, <1>7
    <3>4. (IF 0 < 10 THEN <<>> ELSE f[0 \div 10]) = <<>>
      BY <3>3
    <3>5. f[0] = (IF 0 < 10 THEN <<>> ELSE f[0 \div 10]) \o <<Zero + (0 % 10)>>
      BY <3>1, <3>2, <3>3, <3>4, Zenon
    <3>6. QED BY <2>1, <3>5, Zenon
  <2>2. CASE k # 0
    <3>1. k \in 1 .. n
      BY <2>2
    <3>2. back[k] = k \div 10 /\ back[k] \in 0 .. n
      BY <3>1, <1>4
    <3>3. f[back[k]] \in Texts
      BY <3>2, <1>7
    <3>4. G[k][f[back[k]]] = (IF k < 10 THEN <<>> ELSE f[back[k]]) \o <<Zero + (k % 10)>>
      BY <3>1, <3>3
    <3>5. QED
      <4> HIDE DEF G, back
      <4>1. f[k] = G[k][f[back[k]]]
        BY <2>2, <1>7, Zenon
      <4>2. f[back[k]] = f[k \div 10]
        BY <3>2, Zenon
      <4>3. f[k] = (IF k < 10 THEN <<>> ELSE f[back[k]]) \o <<Zero + (k % 10)>>
        BY <4>1, <3>4, Zenon
      <4> HIDE DEF Texts
      <4>4. (IF k < 10 THEN <<>> ELSE f[back[k]]) = (IF k < 10 THEN <<>> ELSE f[k \div 10])
        BY <4>2, Zenon
      <4>5. QED BY <4>3, <4>4, Zenon
  <2>3. QED BY <2>1, <2>2
<1>9. f = [k \in 0 .. n |-> (IF k < 10 THEN <<>> ELSE f[k \div 10]) \o <<Zero + (k % 10)>>]
  <2>1. f = [k \in 0 .. n |-> f[k]]
    BY <1>7
  <2>2. QED BY <2>1, <1>8
<1>10. digits = [k \in 0 .. n |-> (IF k < 10 THEN <<>> ELSE digits[k \div 10]) \o <<Zero + (k % 10)>>]
  BY <1>9
<1>11. Decimal(n) = digits[n]
  BY DEF Decimal
<1> HIDE DEF digits, G, back
<1> DEFINE T == {k \in 0 .. n : Reads(digits[k], k)}
<1>12. ASSUME NEW k \in 0 .. n, \A j \in 0 .. k - 1 : j \in T PROVE k \in T
  <2> DEFINE c == k % 10   b == k \div 10
  <2>1. c \in 0 .. 9 /\ b \in Nat /\ k = 10 * b + c /\ (k # 0 => b < k) /\ k \in Nat
    BY <1>1
  <2>2. digits[k] = (IF k < 10 THEN <<>> ELSE digits[b]) \o <<Zero + c>>
    BY <1>10
  <2> HIDE DEF c, b
  <2>3. CASE k < 10
    <3>1. b = 0 /\ c = k
      BY <2>1, <2>3
    <3> DEFINE v == [i \in 0 .. 0 |-> 0]   none == <<>>
    <3>2. none \in Seq(Digit) /\ Len(none) = 0 /\ Values(none, Len(none), v) /\ v[0] = 0
      BY DEF Values
    <3> HIDE DEF v, none
    <3>3. Reads(none \o <<Zero + c>>, 10 * v[Len(none)] + c)
      BY <3>2, <2>1, ReadsMore
    <3>4. 10 * v[Len(none)] + c = k
      BY <3>1, <3>2, <2>1
    <3>5. QED BY <3>3, <3>4, <2>2, <2>3 DEF none
  <2>4. CASE ~(k < 10)
    <3>1. b \in 0 .. k - 1
      BY <2>1, <2>4
    <3>2. Reads(digits[b], b)
      BY <3>1, <1>12 DEF T
    <3>3. PICK v : Values(digits[b], Len(digits[b]), v) /\ v[Len(digits[b])] = b
      BY <3>2 DEF Reads
    <3>4. digits[b] \in Seq(Digit)
      BY <3>2 DEF Reads
    <3>5. Reads(digits[b] \o <<Zero + c>>, 10 * v[Len(digits[b])] + c)
      BY <3>3, <3>4, <2>1, ReadsMore
    <3>6. QED BY <3>3, <3>5, <2>1, <2>2, <2>4
  <2>5. QED BY <2>3, <2>4
<1> HIDE DEF T
<1>13. \A k \in 0 .. n : k \in T
  BY <1>12, UpToAll
<1>14. QED BY <1>11, <1>13 DEF T

\* Digits have a value.
LEMMA DigitsHaveValue ==
  ASSUME NEW text, NEW n \in Nat, \A i \in 1 .. n : text[i] \in Digit
  PROVE  \E v : Values(text, n, v)
<1> DEFINE G == [i \in 0 .. n |-> [x \in Nat |-> IF i = 0 THEN 0 ELSE 10 * x + (text[i] - Zero)]]
<1>1. \A i \in 1 .. n : text[i] - Zero \in Nat
  BY DEF Digit, Zero
<1>2. G \in [0 .. n -> [Nat -> Nat]]
  <2>1. ASSUME NEW i \in 1 .. n, NEW x \in Nat PROVE 10 * x + (text[i] - Zero) \in Nat
    BY <1>1
  <2>2. \A i \in 0 .. n : i # 0 => i \in 1 .. n
    OBVIOUS
  <2>3. QED BY <2>1, <2>2
<1>3. Stepwise(n, Nat, 0, G)
  <2> HIDE DEF G
  <2>1. QED BY <1>2, StepwiseExists
<1>4. PICK f \in [0 .. n -> Nat] : \A i \in 0 .. n : f[i] = IF i = 0 THEN 0 ELSE G[i][f[i-1]]
  BY <1>3 DEF Stepwise
<1>5. ASSUME NEW i \in 1 .. n PROVE f[i] = 10 * f[i - 1] + (text[i] - Zero)
  <2>1. i \in 0 .. n /\ i # 0 /\ i - 1 \in 0 .. n
    OBVIOUS
  <2>2. f[i] = G[i][f[i - 1]] /\ f[i - 1] \in Nat
    <3> HIDE DEF G
    <3>1. QED BY <2>1, <1>4
  <2>3. G[i][f[i - 1]] = 10 * f[i - 1] + (text[i] - Zero)
    BY <2>1, <2>2
  <2>4. QED BY <2>2, <2>3
<1>6. f[0] = 0
  <2>1. 0 \in 0 .. n
    OBVIOUS
  <2> HIDE DEF G
  <2>2. QED BY <2>1, <1>4
<1>7. QED BY <1>5, <1>6 DEF Values

\* The recursion in Number computes it.
LEMMA ValueIsUnique ==
  ASSUME NEW text, NEW n \in Nat, NEW v, Values(text, n, v)
  PROVE  LET value[i \in 0 .. n] == IF i = 0 THEN 0 ELSE 10 * value[i - 1] + (text[i] - Zero)
         IN  value[n] = v[n]
<1> DEFINE value[i \in 0 .. n] == IF i = 0 THEN 0 ELSE 10 * value[i - 1] + (text[i] - Zero)
<1>1. /\ v \in [0 .. n -> Nat] /\ v[0] = 0
      /\ \A i \in 1 .. n : v[i] = 10 * v[i - 1] + (text[i] - Zero)
  BY DEF Values
<1>2. v = [i \in 0 .. n |-> IF i = 0 THEN 0 ELSE 10 * v[i - 1] + (text[i] - Zero)]
  <2>1. v = [i \in 0 .. n |-> v[i]]
    BY <1>1
  <2>2. \A i \in 0 .. n : i # 0 => i \in 1 .. n
    OBVIOUS
  <2>3. \A i \in 0 .. n : v[i] = IF i = 0 THEN 0 ELSE 10 * v[i - 1] + (text[i] - Zero)
    BY <1>1, <2>2
  <2>4. QED BY <2>1, <2>3
<1>3. value = [i \in 0 .. n |-> IF i = 0 THEN 0 ELSE 10 * value[i - 1] + (text[i] - Zero)]
  BY <1>2
<1> HIDE DEF value
<1> DEFINE T == {i \in 0 .. n : value[i] = v[i]}
<1>4. 0 \in T
  BY <1>1, <1>3
<1>5. ASSUME NEW i \in 0 .. n - 1, i \in T PROVE i + 1 \in T
  <2>1. i + 1 \in 0 .. n /\ i + 1 \in 1 .. n /\ i + 1 # 0 /\ (i + 1) - 1 = i
    OBVIOUS
  <2>2. value[i] = v[i]
    BY <1>5
  <2>3. v[i + 1] = 10 * v[i] + (text[i + 1] - Zero)
    BY <2>1, <1>1
  <2>4. value[i + 1] = 10 * value[i] + (text[i + 1] - Zero)
    BY <2>1, <1>3
  <2>5. QED BY <2>1, <2>2, <2>3, <2>4
<1> HIDE DEF T
<1>6. \A i \in 0 .. n : i \in T
  BY <1>4, <1>5, UpTo
<1>7. value[n] = v[n]
  BY <1>6 DEF T
<1>8. QED BY <1>7 DEF value

\* Where Number stops.
NumberEnd(text) ==
  LET tab == SelectInSeq(text, LAMBDA b : b = Tab)
  IN  IF tab = 0 THEN Len(text) ELSE tab - 1

LEMMA NumberEnds ==
  ASSUME NEW S, NEW text \in Seq(S)
  PROVE  /\ NumberEnd(text) \in 0 .. Len(text) /\ Len(text) \in Nat
         /\ (\A i \in 1 .. Len(text) : text[i] # Tab) => NumberEnd(text) = Len(text)
<1> DEFINE I == {i \in 1 .. Len(text) : text[i] = Tab}
<1>1. Len(text) \in Nat
  BY LenProperties
<1>2. SelectInSeq(text, LAMBDA b : b = Tab) = IF I # {} THEN Min(I) ELSE 0
  BY DEF SelectInSeq
<1>3. I # {} => Min(I) \in I
  <2>1. ASSUME I # {} PROVE Min(I) \in I
    <3>1. I \subseteq Nat
      OBVIOUS
    <3> HIDE DEF I
    <3>2. \E i \in I : \A j \in I : i <= j
      BY <2>1, <3>1, LeastOf
    <3>3. QED BY <3>2 DEF Min
  <2>2. QED BY <2>1
<1>4. NumberEnd(text) = IF SelectInSeq(text, LAMBDA b : b = Tab) = 0 THEN Len(text)
                        ELSE SelectInSeq(text, LAMBDA b : b = Tab) - 1
  BY DEF NumberEnd
<1>5. CASE I = {}
  <2>1. NumberEnd(text) = Len(text)
    BY <1>2, <1>4, <1>5
  <2>2. QED BY <2>1, <1>1
<1>6. CASE I # {}
  <2>1. Min(I) \in 1 .. Len(text) /\ text[Min(I)] = Tab
    BY <1>3, <1>6
  <2> HIDE DEF I
  <2>2. NumberEnd(text) = Min(I) - 1
    BY <1>2, <1>4, <1>6, <2>1
  <2>3. QED BY <2>1, <2>2, <1>1
<1>7. QED BY <1>5, <1>6

LEMMA NumberIs ==
  ASSUME NEW text
  PROVE  LET value[i \in 0 .. NumberEnd(text)] ==
               IF i = 0 THEN 0 ELSE 10 * value[i - 1] + (text[i] - Zero)
         IN  Number(text) = IF \A i \in 1 .. NumberEnd(text) : text[i] \in Digit
                            THEN value[NumberEnd(text)] ELSE 0
BY DEF Number, NumberEnd, Digit

\* A text always has a number.
LEMMA NumberIsNatural ==
  ASSUME NEW S, NEW text \in Seq(S)
  PROVE  Number(text) \in Nat
<1> DEFINE n == NumberEnd(text)
           value[i \in 0 .. n] == IF i = 0 THEN 0 ELSE 10 * value[i - 1] + (text[i] - Zero)
<1>1. n \in Nat
  BY NumberEnds
<1>2. Number(text) = IF \A i \in 1 .. n : text[i] \in Digit THEN value[n] ELSE 0
  BY NumberIs
<1>3. ASSUME \A i \in 1 .. n : text[i] \in Digit PROVE value[n] \in Nat
  <2> HIDE DEF n
  <2>1. PICK v : Values(text, n, v)
    BY <1>1, <1>3, DigitsHaveValue
  <2>2. value[n] = v[n]
    BY <1>1, <2>1, ValueIsUnique
  <2> HIDE DEF value
  <2>3. v[n] \in Nat
    BY <1>1, <2>1 DEF Values
  <2>4. QED BY <2>2, <2>3
<1> HIDE DEF value, n
<1>4. QED BY <1>2, <1>3

\* A number is read as it was written.
LEMMA NumberOfDecimal ==
  ASSUME NEW n \in Nat
  PROVE  Number(Decimal(n)) = n
<1> DEFINE text == Decimal(n)
           m == Len(text)
           value[i \in 0 .. NumberEnd(text)] ==
             IF i = 0 THEN 0 ELSE 10 * value[i - 1] + (text[i] - Zero)
<1>1. Reads(text, n)
  BY DecimalReads
<1>2. Number(text) = IF \A i \in 1 .. NumberEnd(text) : text[i] \in Digit
                     THEN value[NumberEnd(text)] ELSE 0
  BY NumberIs
<1> HIDE DEF text
<1>3. text \in Seq(Digit) /\ m \in Nat
  BY <1>1, LenProperties DEF Reads
<1>4. PICK v : Values(text, m, v) /\ v[m] = n
  BY <1>1 DEF Reads
<1>5. \A i \in 1 .. m : text[i] \in Digit
  BY <1>3, ElementOfSeq
<1>6. NumberEnd(text) = m
  <2>1. \A i \in 1 .. m : text[i] # Tab
    BY <1>5 DEF Digit, Tab, Zero
  <2>2. QED BY <1>3, <2>1, NumberEnds
<1> HIDE DEF m
<1>7. value[m] = v[m]
  <2> DEFINE w[i \in 0 .. m] == IF i = 0 THEN 0 ELSE 10 * w[i - 1] + (text[i] - Zero)
  <2>1. w[m] = v[m]
    BY <1>3, <1>4, ValueIsUnique
  <2>2. QED BY <2>1, <1>6
<1> HIDE DEF value
<1>8. QED BY <1>2, <1>4, <1>5, <1>6, <1>7 DEF text

-----------------------------------------------------------------------------
(* The mark.                                                               *)

\* What Reply writes is found again: the mark is the last one, as no digit is
\* one, whatever the names hold.
LEMMA MarkSplits ==
  ASSUME NEW body \in Seq(Byte), NEW n \in Nat
  PROVE  LET wire == Append(body, EOT) \o Decimal(n)
         IN  /\ wire \in Seq(Byte)
             /\ BodyOf(wire) = body /\ Number(TailOf(wire)) = n
<1> DEFINE tail == Decimal(n)
           head == Append(body, EOT)
           wire == head \o tail
           m == Len(body)
           I == {i \in 1 .. Len(wire) : wire[i] = EOT}
<1>1. tail \in Seq(Digit) /\ Number(tail) = n
  BY DecimalReads, NumberOfDecimal DEF Reads
<1> HIDE DEF tail
<1>2. Digit \subseteq Byte /\ EOT \in Byte /\ EOT \notin Digit
  BY DEF Digit, Byte, EOT, Zero
<1>3. tail \in Seq(Byte) /\ Len(tail) \in Nat /\ m \in Nat /\ \A i \in 1 .. Len(tail) : tail[i] \in Digit
  BY <1>1, <1>2, SeqMonotonic, LenProperties, ElementOfSeq
<1>4. /\ head \in Seq(Byte) /\ Len(head) = m + 1 /\ head[m + 1] = EOT
      /\ \A i \in 1 .. m : head[i] = body[i]
  BY <1>2, AppendProperties
<1> HIDE DEF head
<1>5. /\ wire \in Seq(Byte) /\ Len(wire) = m + 1 + Len(tail)
      /\ \A i \in 1 .. m + 1 + Len(tail) : wire[i] = IF i <= m + 1 THEN head[i] ELSE tail[i - (m + 1)]
  <2>1. /\ head \o tail \in Seq(Byte) /\ Len(head \o tail) = Len(head) + Len(tail)
        /\ \A i \in 1 .. Len(head) + Len(tail) :
             (head \o tail)[i] = IF i <= Len(head) THEN head[i] ELSE tail[i - Len(head)]
    BY <1>3, <1>4, ConcatProperties
  <2>2. QED BY <2>1, <1>4
<1> HIDE DEF wire, m
<1>6. m + 1 \in I
  BY <1>3, <1>4, <1>5
<1>7. ASSUME NEW i \in I PROVE i <= m + 1
  <2>1. i \in 1 .. m + 1 + Len(tail) /\ wire[i] = EOT
    BY <1>5
  <2>2. ASSUME ~(i <= m + 1) PROVE FALSE
    <3>1. wire[i] = tail[i - (m + 1)] /\ i - (m + 1) \in 1 .. Len(tail)
      BY <2>1, <2>2, <1>3, <1>5
    <3>2. QED BY <2>1, <3>1, <1>2, <1>3
  <2>3. QED BY <2>2
<1>8. Max(I) = m + 1
  <2>1. I \subseteq Nat
    OBVIOUS
  <2> HIDE DEF I
  <2>2. \E x \in I : \A y \in I : x >= y
    BY <2>1, <1>6, <1>7, <1>3
  <2>3. Max(I) \in I /\ \A y \in I : Max(I) >= y
    BY <2>2 DEF Max
  <2> DEFINE x == Max(I)
  <2>4. x \in Nat /\ x >= m + 1 /\ x <= m + 1
    BY <2>1, <2>3, <1>6, <1>7
  <2> HIDE DEF x
  <2>5. x = m + 1
    BY <2>4, <1>3
  <2>6. QED BY <2>5 DEF x
<1>9. SelectLastInSeq(wire, LAMBDA b : b = EOT) = m + 1
  <2>1. SelectLastInSeq(wire, LAMBDA b : b = EOT) = IF I # {} THEN Max(I) ELSE 0
    BY DEF SelectLastInSeq
  <2>2. QED BY <2>1, <1>6, <1>8
<1>10. BodyOf(wire) = body
  <2>1. BodyOf(wire) = SubSeq(wire, 1, m)
    <3>1. BodyOf(wire) = SubSeq(wire, 1, (m + 1) - 1)
      BY <1>9 DEF BodyOf
    <3>2. (m + 1) - 1 = m
      BY <1>3
    <3>3. QED BY <3>1, <3>2
  <2>2. \A i \in 1 .. m : i \in 1 .. m + 1 + Len(tail) /\ i <= m + 1
    BY <1>3
  <2>3. \A i \in 1 .. m : wire[i] = body[i] /\ wire[i] \in Byte
    <3>1. \A i \in 1 .. m : wire[i] = body[i]
      BY <2>2, <1>4, <1>5
    <3>2. \A i \in 1 .. m : body[i] \in Byte
      BY ElementOfSeq DEF m
    <3>3. QED BY <3>1, <3>2
  <2>4. SubSeq(wire, 1, m) \in Seq(Byte) /\ Len(SubSeq(wire, 1, m)) = m /\ \A i \in 1 .. m : SubSeq(wire, 1, m)[i] = wire[i]
    BY <2>3, <1>3, Beginning
  <2> DEFINE t == SubSeq(wire, 1, m)
  <2> HIDE DEF t
  <2>5. t \in Seq(Byte) /\ Len(t) = Len(body) /\ \A i \in 1 .. Len(t) : t[i] = body[i]
    BY <2>3, <2>4 DEF t, m
  <2>6. t = body
    BY <2>5, SeqEqual
  <2>7. QED BY <2>1, <2>6 DEF t
<1>11. TailOf(wire) = tail
  <2> DEFINE k == m + 1   t == SubSeq(wire, k + 1, Len(wire))
  <2>1. TailOf(wire) = t
    BY <1>9 DEF TailOf
  <2>2. Len(wire) \in Nat /\ k \in Nat /\ k <= Len(wire) /\ Len(wire) - k = Len(tail)
    BY <1>3, <1>5
  <2>3. \A i \in k + 1 .. Len(wire) : wire[i] \in Byte
    <3>1. \A i \in 1 .. Len(wire) : wire[i] \in Byte
      BY <1>5, ElementOfSeq
    <3>2. \A i \in k + 1 .. Len(wire) : i \in 1 .. Len(wire)
      BY <2>2
    <3>3. QED BY <3>1, <3>2
  <2>4. \A i \in 1 .. Len(tail) : wire[k + i] = tail[i]
    <3> SUFFICES ASSUME NEW i \in 1 .. Len(tail) PROVE wire[k + i] = tail[i]
      OBVIOUS
    <3>1. k + i \in 1 .. m + 1 + Len(tail) /\ ~(k + i <= m + 1) /\ (k + i) - (m + 1) = i
      BY <1>3
    <3>2. QED BY <3>1, <1>5
  <2> HIDE DEF k
  <2>5. t \in Seq(Byte) /\ Len(t) = Len(tail) /\ \A i \in 1 .. Len(tail) : t[i] = wire[k + i]
    <3>1. /\ SubSeq(wire, k + 1, Len(wire)) \in Seq(Byte)
          /\ Len(SubSeq(wire, k + 1, Len(wire))) = Len(wire) - k
          /\ \A i \in 1 .. Len(wire) - k : SubSeq(wire, k + 1, Len(wire))[i] = wire[k + i]
      BY <2>2, <2>3, Ending
    <3>2. QED BY <3>1, <2>2
  <2> HIDE DEF t
  <2>6. \A i \in 1 .. Len(tail) : t[i] = tail[i]
    BY <2>4, <2>5
  <2>7. t = tail
    BY <2>5, <2>6, <1>3, SeqEqual
  <2>8. QED BY <2>1, <2>7
<1>12. QED BY <1>1, <1>5, <1>10, <1>11 DEF wire, head, tail

-----------------------------------------------------------------------------
(* Splitting a text.                                                       *)

\* The end of the piece that begins at i.
PieceEnd(text, sep, i) == Min({j \in i .. Len(text) : j = Len(text) \/ text[j + 1] = sep})

LEMMA PieceEnds ==
  ASSUME NEW S, NEW text \in Seq(S), NEW sep, NEW i \in 1 .. Len(text)
  PROVE  LET end == PieceEnd(text, sep, i)
         IN  /\ end \in i .. Len(text)
             /\ end = Len(text) \/ text[end + 1] = sep
             /\ \A j \in i .. Len(text) : j = Len(text) \/ text[j + 1] = sep => end <= j
<1> DEFINE T == {j \in i .. Len(text) : j = Len(text) \/ text[j + 1] = sep}
<1>1. Len(text) \in Nat /\ i \in Nat
  BY LenProperties
<1>2. T \subseteq Nat /\ Len(text) \in T
  BY <1>1
<1>3. PieceEnd(text, sep, i) = Min(T)
  BY DEF PieceEnd
<1>4. Min(T) \in T /\ \A j \in T : Min(T) <= j
  <2> HIDE DEF T
  <2>1. T # {}
    BY <1>2
  <2>2. \E x \in T : \A y \in T : x <= y
    BY <1>2, <2>1, LeastOf
  <2>3. QED BY <2>2 DEF Min
<1>5. QED BY <1>3, <1>4

\* The recursion in Pieces.
Splits(g, text, sep) ==
  /\ g[Len(text) + 1] = <<>>
  /\ \A i \in 1 .. Len(text) :
       g[i] = IF text[i] = sep THEN g[i + 1]
              ELSE <<SubSeq(text, i, PieceEnd(text, sep, i))>> \o g[PieceEnd(text, sep, i) + 1]

LEMMA PiecesSplit ==
  ASSUME NEW B, NEW text \in Seq(B), NEW sep
  PROVE  \E g \in [1 .. Len(text) + 1 -> Seq(Seq(B))] : Splits(g, text, sep) /\ Pieces(text, sep) = g[1]
<1> DEFINE n == Len(text)
           S == Seq(Seq(B))
           End(i) == PieceEnd(text, sep, i)
           Piece(i) == <<SubSeq(text, i, End(i))>>
           from[i \in 1 .. n + 1] ==
             IF i > n THEN <<>> ELSE IF text[i] = sep THEN from[i + 1] ELSE Piece(i) \o from[End(i) + 1]
           back == [k \in 1 .. n |-> IF text[n + 1 - k] = sep THEN k - 1 ELSE n - End(n + 1 - k)]
           G == [k \in 1 .. n |-> [x \in S |->
                  IF text[n + 1 - k] = sep THEN x ELSE Piece(n + 1 - k) \o x]]
<1>1. n \in Nat
  BY LenProperties
<1>2. \A i \in 1 .. n : End(i) \in i .. n
  BY PieceEnds
<1>3. ASSUME NEW i \in 1 .. n, NEW x \in S PROVE Piece(i) \o x \in S
  <2>1. SubSeq(text, i, End(i)) \in Seq(B)
    <3>1. \A j \in 1 .. n : text[j] \in B
      BY ElementOfSeq
    <3>2. i \in Int /\ End(i) \in Int /\ \A j \in i .. End(i) : j \in 1 .. n
      BY <1>1, <1>2
    <3> DEFINE e == End(i)
    <3> HIDE DEF e, n
    <3>3. \A j \in i .. e : text[j] \in B
      BY <3>1, <3>2 DEF e
    <3>4. i \in Int /\ e \in Int
      BY <3>2 DEF e
    <3>5. SubSeq(text, i, e) \in Seq(B)
      BY <3>3, <3>4, SubSeqProperties
    <3>6. QED BY <3>5 DEF e
  <2>2. Piece(i) \in S
    BY <2>1
  <2> HIDE DEF Piece
  <2>3. QED BY <2>2, ConcatProperties
<1> HIDE DEF End, Piece
<1>4. ASSUME NEW k \in 1 .. n PROVE n + 1 - k \in 1 .. n /\ back[k] \in 0 .. k - 1
  <2>1. n + 1 - k \in 1 .. n /\ k - 1 \in 0 .. k - 1
    BY <1>1
  <2>2. End(n + 1 - k) \in n + 1 - k .. n
    BY <2>1, <1>2
  <2>3. n - End(n + 1 - k) \in 0 .. k - 1
    BY <2>1, <2>2, <1>1
  <2>4. QED BY <2>1, <2>3
<1>5. <<>> \in S
  OBVIOUS
<1> HIDE DEF n, S
<1>6. \A k \in 1 .. n : \A x \in S : G[k][x] \in S
  BY <1>3, <1>4
<1>7. PICK r \in [0 .. n -> S] : \A k \in 0 .. n : r[k] = IF k = 0 THEN <<>> ELSE G[k][r[back[k]]]
  <2> HIDE DEF G, back
  <2>1. Earlier(n, S, <<>>, back, G)
    BY <1>1, <1>4, <1>5, <1>6, EarlierExists
  <2>2. QED BY <2>1 DEF Earlier
<1> DEFINE g == [i \in 1 .. n + 1 |-> r[n + 1 - i]]
<1>8. ASSUME NEW i \in 1 .. n + 1
      PROVE  /\ g[i] = IF i > n THEN <<>> ELSE IF text[i] = sep THEN g[i + 1] ELSE Piece(i) \o g[End(i) + 1]
             /\ g[i] \in S
  <2>1. CASE i > n
    <3>1. n + 1 - i = 0 /\ 0 \in 0 .. n
      BY <2>1, <1>1
    <3>2. g[i] = r[0] /\ r[0] = <<>>
      BY <3>1, <1>7
    <3>3. QED BY <2>1, <3>2, <1>5
  <2>2. CASE ~(i > n)
    <3> DEFINE k == n + 1 - i
    <3>1. k \in 1 .. n /\ k \in 0 .. n /\ k # 0 /\ n + 1 - k = i /\ i \in 1 .. n
      BY <2>2, <1>1
    <3>2. back[k] \in 0 .. n /\ back[k] = IF text[i] = sep THEN k - 1 ELSE n - End(i)
      <4> HIDE DEF k
      <4>1. back[k] = IF text[n + 1 - k] = sep THEN k - 1 ELSE n - End(n + 1 - k)
        BY <3>1
      <4> HIDE DEF back
      <4>2. back[k] = IF text[i] = sep THEN k - 1 ELSE n - End(i)
        BY <4>1, <3>1, Zenon
      <4>3. back[k] \in 0 .. k - 1
        BY <3>1, <1>4
      <4>4. back[k] \in 0 .. n
        BY <4>3, <3>1, <1>1
      <4>5. QED BY <4>2, <4>4
    <3>3. r[k] = G[k][r[back[k]]] /\ r[back[k]] \in S
      <4> HIDE DEF k, G, back
      <4>1. QED BY <3>1, <3>2, <1>7
    <3>4. r[k] = IF text[i] = sep THEN r[back[k]] ELSE Piece(i) \o r[back[k]]
      <4> HIDE DEF k, back
      <4>1. G[k][r[back[k]]] = IF text[n + 1 - k] = sep THEN r[back[k]] ELSE Piece(n + 1 - k) \o r[back[k]]
        BY <3>1, <3>3
      <4> HIDE DEF G
      <4>2. QED BY <4>1, <3>1, <3>3
    <3>5. g[i] = r[k] /\ r[k] \in S
      <4>1. g[i] = r[k]
        OBVIOUS
      <4> HIDE DEF k, g
      <4>2. QED BY <4>1, <3>1, <1>7
    <3>6. g[i + 1] = r[k - 1]
      <4>1. i + 1 \in 1 .. n + 1 /\ n + 1 - (i + 1) = k - 1
        BY <3>1, <1>1
      <4>2. QED BY <4>1
    <3>7. g[End(i) + 1] = r[n - End(i)]
      <4>1. End(i) \in i .. n
        BY <3>1, <1>2
      <4>2. End(i) + 1 \in 1 .. n + 1 /\ n + 1 - (End(i) + 1) = n - End(i)
        BY <4>1, <3>1, <1>1
      <4>3. QED BY <4>2
    <3> HIDE DEF g, k, back
    <3>8. QED BY <2>2, <3>2, <3>4, <3>5, <3>6, <3>7
  <2>3. QED BY <2>1, <2>2
<1>9. g = [i \in 1 .. n + 1 |-> IF i > n THEN <<>> ELSE IF text[i] = sep THEN g[i + 1] ELSE Piece(i) \o g[End(i) + 1]]
  <2>1. g = [i \in 1 .. n + 1 |-> g[i]]
    OBVIOUS
  <2> HIDE DEF g
  <2>2. QED BY <2>1, <1>8
<1>10. from = [i \in 1 .. n + 1 |->
                IF i > n THEN <<>> ELSE IF text[i] = sep THEN from[i + 1] ELSE Piece(i) \o from[End(i) + 1]]
  BY <1>9
<1>11. Pieces(text, sep) = from[1]
  BY DEF Pieces, PieceEnd, n, Piece, End
<1> HIDE DEF from, g
<1> DEFINE T == {k \in 0 .. n : from[n + 1 - k] \in S}
<1>12. ASSUME NEW k \in 0 .. n, \A j \in 0 .. k - 1 : j \in T PROVE k \in T
  <2> DEFINE i == n + 1 - k
  <2>1. i \in 1 .. n + 1
    BY <1>1
  <2>2. from[i] = IF i > n THEN <<>> ELSE IF text[i] = sep THEN from[i + 1] ELSE Piece(i) \o from[End(i) + 1]
    <3> HIDE DEF i
    <3>1. QED BY <2>1, <1>10
  <2>3. CASE i > n
    BY <2>2, <2>3, <1>5
  <2>4. CASE ~(i > n)
    <3>1. i \in 1 .. n /\ k - 1 \in 0 .. k - 1 /\ n + 1 - (k - 1) = i + 1
      BY <2>4, <1>1
    <3>2. End(i) \in i .. n
      <4> HIDE DEF i
      <4>1. QED BY <3>1, <1>2
    <3>3. n - End(i) \in 0 .. k - 1 /\ n + 1 - (n - End(i)) = End(i) + 1
      BY <3>1, <3>2, <1>1
    <3>4. from[i + 1] \in S
      <4>1. from[n + 1 - (k - 1)] \in S
        BY <3>1, <1>12
      <4>2. QED BY <4>1, <3>1
    <3>5. from[End(i) + 1] \in S
      <4>1. from[n + 1 - (n - End(i))] \in S
        BY <3>3, <1>12
      <4>2. QED BY <4>1, <3>3
    <3> HIDE DEF i
    <3>6. Piece(i) \o from[End(i) + 1] \in S
      BY <3>1, <3>5, <1>3
    <3>7. from[i] \in S
      BY <2>2, <2>4, <3>4, <3>6
    <3>8. QED BY <3>7 DEF i
  <2>5. QED BY <2>3, <2>4
<1> HIDE DEF T
<1>13. \A k \in 0 .. n : k \in T
  BY <1>1, <1>12, UpToAll
<1>14. from \in [1 .. n + 1 -> S]
  <2>1. ASSUME NEW i \in 1 .. n + 1 PROVE from[i] \in S
    <3>1. n + 1 - i \in 0 .. n /\ n + 1 - (n + 1 - i) = i
      BY <1>1
    <3>2. from[n + 1 - (n + 1 - i)] \in S
      BY <3>1, <1>13 DEF T
    <3>3. QED BY <3>1, <3>2
  <2>2. from = [i \in 1 .. n + 1 |-> from[i]]
    BY <1>10
  <2>3. QED BY <2>1, <2>2
<1>15. Splits(from, text, sep)
  <2>1. n + 1 \in 1 .. n + 1 /\ n + 1 > n
    BY <1>1
  <2>2. from[n + 1] = <<>>
    BY <2>1, <1>10
  <2>3. ASSUME NEW i \in 1 .. n
        PROVE  from[i] = IF text[i] = sep THEN from[i + 1] ELSE Piece(i) \o from[End(i) + 1]
    <3>1. i \in 1 .. n + 1 /\ ~(i > n)
      BY <1>1
    <3>2. QED BY <3>1, <1>10
  <2>4. QED BY <2>2, <2>3 DEF Splits, n, Piece, End
<1>16. QED BY <1>11, <1>14, <1>15 DEF n, S

\* The first k lines take a[k] bytes of the text.
LiesAt(a, text, lines, sep) ==
  /\ a[0] = 0 /\ a[Len(lines)] = Len(text)
  /\ \A k \in 1 .. Len(lines) :
       /\ a[k] = a[k - 1] + Len(lines[k]) + 1 /\ a[k] <= Len(text)
       /\ text[a[k]] = sep
       /\ \A j \in 1 .. Len(lines[k]) : text[a[k - 1] + j] = lines[k][j]

\* Where the lines of a terminated text lie.
LEMMA TerminatedLies ==
  ASSUME NEW C, NEW lines \in Seq(Seq(C)), NEW sep
  PROVE  LET text == Terminated(lines, sep)
         IN  /\ text \in Seq(C \cup {sep})
             /\ \E a \in [0 .. Len(lines) -> Nat] : LiesAt(a, text, lines, sep)
<1> DEFINE n == Len(lines)
           B == C \cup {sep}
           Q == Seq(B)
           parts == [i \in DOMAIN lines |-> Append(lines[i], sep)]
           text == Terminated(lines, sep)
<1>1. n \in Nat /\ DOMAIN lines = 1 .. n /\ \A k \in 1 .. n : lines[k] \in Seq(C) /\ Len(lines[k]) \in Nat
  <2>1. n \in Nat /\ DOMAIN lines = 1 .. n /\ \A k \in 1 .. n : lines[k] \in Seq(C)
    BY LenProperties, ElementOfSeq
  <2>2. QED BY <2>1, LenProperties
<1>2. \A k \in 1 .. n :
        /\ Append(lines[k], sep) \in Q /\ Len(Append(lines[k], sep)) = Len(lines[k]) + 1
        /\ Append(lines[k], sep)[Len(lines[k]) + 1] = sep
        /\ \A j \in 1 .. Len(lines[k]) : Append(lines[k], sep)[j] = lines[k][j]
  <2> SUFFICES ASSUME NEW k \in 1 .. n
               PROVE  /\ Append(lines[k], sep) \in Q /\ Len(Append(lines[k], sep)) = Len(lines[k]) + 1
                      /\ Append(lines[k], sep)[Len(lines[k]) + 1] = sep
                      /\ \A j \in 1 .. Len(lines[k]) : Append(lines[k], sep)[j] = lines[k][j]
    OBVIOUS
  <2> DEFINE s == lines[k]
  <2>1. s \in Seq(C)
    BY <1>1
  <2> HIDE DEF s
  <2>2. s \in Seq(B) /\ sep \in B
    BY <2>1, SeqMonotonic
  <2>3. /\ Append(s, sep) \in Seq(B) /\ Len(Append(s, sep)) = Len(s) + 1
        /\ Append(s, sep)[Len(s) + 1] = sep
        /\ \A j \in 1 .. Len(s) : Append(s, sep)[j] = s[j]
    BY <2>2, AppendProperties
  <2>4. QED BY <2>3 DEF s
<1>3. \A k \in 1 .. n : parts[k] = Append(lines[k], sep)
  BY <1>1
<1>4. parts \in [1 .. n -> Q]
  <2> HIDE DEF Q
  <2>1. QED BY <1>1, <1>2
<1>5. text = FlattenSeq(parts)
  BY DEF Terminated
<1> HIDE DEF parts, text
<1>6. parts \in Seq(Seq(B)) /\ Len(parts) = n
  <2> HIDE DEF Q, n
  <2>1. parts \in Seq(Q) /\ Len(parts) = n
    BY <1>1, <1>4, FunctionIsSeq
  <2>2. QED BY <2>1 DEF Q
<1> HIDE DEF B
<1>7. PICK f \in [0 .. n -> Seq(B)] : Joins(f, parts) /\ text = f[n]
  <2>1. \E f \in [0 .. Len(parts) -> Seq(B)] : Joins(f, parts) /\ FlattenSeq(parts) = f[Len(parts)]
    BY <1>6, FlattenJoins
  <2>2. QED BY <2>1, <1>5, <1>6
<1> HIDE DEF n
<1>8. \A k \in 0 .. n : f[k] \in Seq(B) /\ Len(f[k]) \in Nat
  BY <1>7, LenProperties
<1> DEFINE a == [k \in 0 .. n |-> Len(f[k])]
<1>9. a \in [0 .. n -> Nat] /\ \A k \in 0 .. n : a[k] = Len(f[k])
  BY <1>8
<1> HIDE DEF a
<1>10. a[0] = 0 /\ a[n] = Len(text)
  <2>1. f[0] = <<>> /\ 0 \in 0 .. n /\ n \in 0 .. n
    BY <1>1, <1>7 DEF Joins
  <2>2. QED BY <2>1, <1>7, <1>9
<1>11. ASSUME NEW k \in 1 .. n
       PROVE  /\ k - 1 \in 0 .. n /\ k \in 0 .. n
              /\ a[k] = a[k - 1] + Len(lines[k]) + 1
              /\ f[k][a[k]] = sep
              /\ \A j \in 1 .. a[k - 1] : f[k][j] = f[k - 1][j]
              /\ \A j \in 1 .. Len(lines[k]) : f[k][a[k - 1] + j] = lines[k][j]
  <2>1. k - 1 \in 0 .. n /\ k \in 0 .. n
    BY <1>1
  <2>2. f[k] = f[k - 1] \o parts[k]
    BY <1>6, <1>7 DEF Joins
  <2> DEFINE s == f[k - 1]   t == parts[k]   m == Len(lines[k])
  <2>3. s \in Seq(B) /\ t \in Seq(B) /\ Len(s) = a[k - 1] /\ Len(t) = m + 1 /\ m \in Nat /\ a[k - 1] \in Nat
    <3>1. s \in Seq(B) /\ Len(s) = a[k - 1] /\ a[k - 1] \in Nat
      BY <2>1, <1>8, <1>9
    <3>2. t \in Q /\ Len(t) = m + 1 /\ m \in Nat
      BY <1>1, <1>2, <1>3
    <3>3. QED BY <3>1, <3>2
  <2>4. t[m + 1] = sep /\ \A j \in 1 .. m : t[j] = lines[k][j]
    BY <1>2, <1>3
  <2> HIDE DEF s, t, m
  <2>5. /\ Len(s \o t) = a[k - 1] + (m + 1)
        /\ \A j \in 1 .. a[k - 1] + (m + 1) : (s \o t)[j] = IF j <= a[k - 1] THEN s[j] ELSE t[j - a[k - 1]]
    <3>1. /\ Len(s \o t) = Len(s) + Len(t)
          /\ \A j \in 1 .. Len(s) + Len(t) : (s \o t)[j] = IF j <= Len(s) THEN s[j] ELSE t[j - Len(s)]
      BY <2>3, ConcatProperties
    <3>2. QED BY <3>1, <2>3
  <2>6. a[k] = a[k - 1] + (m + 1)
    BY <2>1, <2>2, <2>5, <1>9 DEF s, t
  <2> DEFINE u == s \o t   b == a[k - 1]
  <2>7. u = f[k]
    BY <2>2 DEF s, t
  <2> HIDE DEF u
  <2>8. /\ b \in Nat /\ \A j \in 1 .. b + (m + 1) : u[j] = IF j <= b THEN s[j] ELSE t[j - b]
    BY <2>3, <2>5 DEF u
  <2> HIDE DEF b
  <2>9. u[b + (m + 1)] = sep
    <3>1. b + (m + 1) \in 1 .. b + (m + 1) /\ ~(b + (m + 1) <= b) /\ (b + (m + 1)) - b = m + 1
      BY <2>3, <2>8
    <3>2. QED BY <3>1, <2>4, <2>8
  <2>10. \A j \in 1 .. b : u[j] = s[j]
    BY <2>3, <2>8
  <2>11. \A j \in 1 .. m : u[b + j] = lines[k][j]
    <3> SUFFICES ASSUME NEW j \in 1 .. m PROVE u[b + j] = lines[k][j]
      OBVIOUS
    <3>1. b + j \in 1 .. b + (m + 1) /\ ~(b + j <= b) /\ (b + j) - b = j
      BY <2>3, <2>8
    <3>2. QED BY <3>1, <2>4, <2>8
  <2>12. b + (m + 1) = b + m + 1
    BY <2>3, <2>8
  <2>13. QED BY <2>1, <2>6, <2>7, <2>9, <2>10, <2>11, <2>12 DEF b, s, m
<1> DEFINE T == {m \in 0 .. n : \A k \in 0 .. m : a[k] <= a[m] /\ \A p \in 1 .. a[k] : f[m][p] = f[k][p]}
<1>12. 0 \in T
  <2>1. \A k \in 0 .. 0 : k = 0
    OBVIOUS
  <2>2. 0 \in 0 .. n /\ a[0] <= a[0]
    BY <1>1, <1>10
  <2>3. QED BY <2>1, <2>2
<1>13. ASSUME NEW m \in 0 .. n - 1, m \in T PROVE m + 1 \in T
  <2>1. m + 1 \in 1 .. n /\ (m + 1) - 1 = m /\ m \in 0 .. n /\ m + 1 \in 0 .. n
    BY <1>1
  <2>2. /\ a[m + 1] = a[m] + Len(lines[m + 1]) + 1
        /\ \A j \in 1 .. a[m] : f[m + 1][j] = f[m][j]
    BY <2>1, <1>11
  <2>3. a[m] <= a[m + 1] /\ a[m] \in Nat /\ a[m + 1] \in Nat
    BY <2>1, <2>2, <1>1, <1>9
  <2>4. ASSUME NEW k \in 0 .. m + 1
        PROVE  a[k] <= a[m + 1] /\ \A p \in 1 .. a[k] : f[m + 1][p] = f[k][p]
    <3>1. CASE k = m + 1
      BY <3>1, <2>3
    <3>2. CASE k # m + 1
      <4>1. k \in 0 .. m /\ k \in 0 .. n
        BY <3>2, <2>1, <1>1
      <4>2. a[k] <= a[m] /\ \A p \in 1 .. a[k] : f[m][p] = f[k][p]
        BY <4>1, <1>13
      <4>3. a[k] \in Nat
        BY <4>1, <1>9
      <4>4. a[k] <= a[m + 1] /\ \A p \in 1 .. a[k] : p \in 1 .. a[m]
        BY <4>2, <4>3, <2>3
      <4>5. QED BY <4>2, <4>4, <2>2
    <3>3. QED BY <3>1, <3>2
  <2>5. QED BY <2>1, <2>4
<1> HIDE DEF T
<1>14. n \in T
  <2>1. \A m \in 0 .. n : m \in T
    BY <1>1, <1>12, <1>13, UpTo
  <2>2. QED BY <2>1, <1>1
<1>15. ASSUME NEW k \in 1 .. n
       PROVE  /\ a[k] = a[k - 1] + Len(lines[k]) + 1 /\ a[k] <= Len(text)
              /\ text[a[k]] = sep
              /\ \A j \in 1 .. Len(lines[k]) : text[a[k - 1] + j] = lines[k][j]
  <2>1. /\ k \in 0 .. n /\ k - 1 \in 0 .. n
        /\ a[k] = a[k - 1] + Len(lines[k]) + 1
        /\ f[k][a[k]] = sep
        /\ \A j \in 1 .. Len(lines[k]) : f[k][a[k - 1] + j] = lines[k][j]
    BY <1>11
  <2>2. a[k] <= a[n] /\ \A p \in 1 .. a[k] : text[p] = f[k][p]
    BY <2>1, <1>7, <1>14 DEF T
  <2>3. a[k] \in Nat /\ a[k - 1] \in Nat /\ Len(lines[k]) \in Nat
    BY <2>1, <1>1, <1>9
  <2>4. a[k] \in 1 .. a[k] /\ \A j \in 1 .. Len(lines[k]) : a[k - 1] + j \in 1 .. a[k]
    <3> DEFINE x == a[k]   y == a[k - 1]   z == Len(lines[k])
    <3>1. x = y + z + 1 /\ x \in Nat /\ y \in Nat /\ z \in Nat
      BY <2>1, <2>3
    <3> HIDE DEF x, y, z
    <3>2. x \in 1 .. x /\ \A j \in 1 .. z : y + j \in 1 .. x
      BY <3>1
    <3>3. QED BY <3>2 DEF x, y, z
  <2>5. QED BY <2>1, <2>2, <2>4, <1>10
<1>16. text \in Seq(C \cup {sep})
  <2>1. n \in 0 .. n
    BY <1>1
  <2>2. QED BY <2>1, <1>7 DEF B
<1>17. LiesAt(a, text, lines, sep)
  BY <1>10, <1>15 DEF LiesAt, n
<1>18. QED BY <1>9, <1>16, <1>17 DEF text, n

\* s lists the last k of the lines.
LastOnes(s, lines, k) ==
  /\ s \in Seq(Range(lines)) /\ Len(s) = k
  /\ \A i \in 1 .. k : s[i] = lines[Len(lines) - k + i]

\* Lines that are neither empty nor hold the separator are found again.
LEMMA PiecesOfTerminated ==
  ASSUME NEW C, NEW lines \in Seq(Seq(C) \ {<<>>}), NEW sep, sep \notin C
  PROVE  Pieces(Terminated(lines, sep), sep) = lines
<1> DEFINE n == Len(lines)
           text == Terminated(lines, sep)
           L == Len(text)
           End(i) == PieceEnd(text, sep, i)
<1>1. /\ n \in Nat /\ DOMAIN lines = 1 .. n
      /\ \A k \in 1 .. n : lines[k] \in Seq(C) /\ Len(lines[k]) \in Nat /\ Len(lines[k]) > 0
  <2>1. n \in Nat /\ DOMAIN lines = 1 .. n /\ \A k \in 1 .. n : lines[k] \in Seq(C) \ {<<>>}
    BY LenProperties, ElementOfSeq
  <2>2. \A s \in Seq(C) \ {<<>>} : Len(s) \in Nat /\ Len(s) > 0
    BY LenProperties, EmptySeq
  <2>3. QED BY <2>1, <2>2
<1>2. lines \in Seq(Seq(C))
  BY SeqMonotonic
<1> DEFINE B == C \cup {sep}
<1>3. text \in Seq(B) /\ \E a \in [0 .. n -> Nat] : LiesAt(a, text, lines, sep)
  BY <1>2, TerminatedLies
<1>4. PICK a \in [0 .. n -> Nat] : LiesAt(a, text, lines, sep)
  BY <1>3
<1> HIDE DEF text, B
<1>5. PICK g \in [1 .. L + 1 -> Seq(Seq(B))] : Splits(g, text, sep) /\ Pieces(text, sep) = g[1]
  BY <1>3, PiecesSplit
<1>6. L \in Nat /\ \A p \in 1 .. L : text[p] \in B
  BY <1>3, LenProperties, ElementOfSeq
<1>7. ASSUME NEW k \in 1 .. n
      PROVE  g[a[k - 1] + 1] = <<lines[k]>> \o g[a[k] + 1]
  <2> DEFINE b == a[k - 1]   m == Len(lines[k])   e == End(b + 1)
  <2>1. b \in Nat /\ m \in Nat /\ m > 0 /\ a[k] = b + m + 1 /\ b + m + 1 <= L
    <3>1. k - 1 \in 0 .. n /\ m \in Nat /\ m > 0
      BY <1>1
    <3>2. b \in Nat
      BY <3>1
    <3>3. a[k] = b + m + 1 /\ a[k] <= L
      BY <1>4 DEF LiesAt
    <3>4. QED BY <3>1, <3>2, <3>3
  <2>2. text[b + m + 1] = sep /\ \A j \in 1 .. m : text[b + j] = lines[k][j]
    <3>1. text[a[k]] = sep /\ \A j \in 1 .. m : text[b + j] = lines[k][j]
      BY <1>4 DEF LiesAt
    <3>2. QED BY <2>1, <3>1
  <2>3. \A j \in 1 .. m : lines[k][j] \in C /\ lines[k][j] # sep
    <3>1. lines[k] \in Seq(C)
      BY <1>1
    <3>2. \A j \in 1 .. m : lines[k][j] \in C
      BY <3>1, ElementOfSeq
    <3>3. QED BY <3>2
  <2> HIDE DEF b, m, L
  <2>4. b + 1 \in 1 .. L /\ b + m \in b + 1 .. L /\ b + m + 1 \in 1 .. L /\ b + m # L
    BY <2>1, <1>6
  <2>5. /\ e \in b + 1 .. L
        /\ e = L \/ text[e + 1] = sep
        /\ \A j \in b + 1 .. L : j = L \/ text[j + 1] = sep => e <= j
    <3> DEFINE i == b + 1
    <3>1. i \in 1 .. Len(text)
      BY <2>4 DEF L
    <3> HIDE DEF i
    <3>2. LET end == PieceEnd(text, sep, i)
          IN  /\ end \in i .. Len(text)
              /\ end = Len(text) \/ text[end + 1] = sep
              /\ \A j \in i .. Len(text) : j = Len(text) \/ text[j + 1] = sep => end <= j
      BY <1>3, <3>1, PieceEnds
    <3>3. QED BY <3>2 DEF L, i
  <2> HIDE DEF e
  <2>6. e <= b + m
    <3>1. (b + m) + 1 = b + m + 1
      BY <2>1
    <3>2. text[(b + m) + 1] = sep
      BY <2>2, <3>1
    <3>3. QED BY <3>2, <2>4, <2>5
  <2>7. ~(e < b + m)
    <3> SUFFICES ASSUME e < b + m PROVE FALSE
      OBVIOUS
    <3>1. e # L /\ e + 1 - b \in 1 .. m /\ b + (e + 1 - b) = e + 1
      BY <2>1, <2>4, <2>5, <1>6
    <3>2. text[e + 1] = sep
      BY <2>5, <3>1
    <3>3. text[b + (e + 1 - b)] = lines[k][e + 1 - b] /\ lines[k][e + 1 - b] # sep
      BY <2>2, <2>3, <3>1
    <3>4. QED BY <3>1, <3>2, <3>3
  <2>8. e = b + m
    BY <2>1, <2>5, <2>6, <2>7, <1>6
  <2>9. g[b + 1] = <<SubSeq(text, b + 1, b + m)>> \o g[b + m + 1]
    <3>1. text[b + 1] # sep
      <4>1. 1 \in 1 .. m
        BY <2>1
      <4>2. QED BY <4>1, <2>2, <2>3
    <3>2. g[b + 1] = <<SubSeq(text, b + 1, e)>> \o g[e + 1]
      BY <3>1, <2>4, <1>5 DEF Splits, L, e
    <3>3. QED BY <3>2, <2>8
  <2>10. g[b + m + 1] = g[(b + m + 1) + 1]
    BY <2>2, <2>4, <1>5 DEF Splits, L
  <2>11. SubSeq(text, b + 1, b + m) = lines[k]
    <3> DEFINE t == SubSeq(text, b + 1, b + m)
    <3>1. \A j \in b + 1 .. b + m : text[j] \in B
      <4>1. \A j \in b + 1 .. b + m : j \in 1 .. L
        BY <2>1, <1>6
      <4>2. QED BY <4>1, <1>6
    <3>2. /\ t \in Seq(B) /\ Len(t) = (b + m) - b
          /\ \A j \in 1 .. (b + m) - b : t[j] = text[b + j]
      <4> DEFINE c == b + m
      <4>1. c \in Nat /\ b <= c /\ \A j \in b + 1 .. c : text[j] \in B
        BY <3>1, <2>1
      <4> HIDE DEF c
      <4>2. /\ SubSeq(text, b + 1, c) \in Seq(B) /\ Len(SubSeq(text, b + 1, c)) = c - b
            /\ \A j \in 1 .. c - b : SubSeq(text, b + 1, c)[j] = text[b + j]
        BY <4>1, <2>1, Ending
      <4>3. QED BY <4>2 DEF c
    <3>3. (b + m) - b = m
      BY <2>1
    <3> HIDE DEF t
    <3>4. lines[k] \in Seq(C) /\ Len(t) = Len(lines[k]) /\ \A j \in 1 .. Len(t) : t[j] = lines[k][j]
      BY <3>2, <3>3, <2>2, <1>1 DEF m
    <3>5. lines[k] \in Seq(B)
      BY <3>4, SeqMonotonic DEF B
    <3>6. t = lines[k]
      BY <3>2, <3>4, <3>5, SeqEqual
    <3>7. QED BY <3>6 DEF t
  <2>12. QED BY <2>1, <2>9, <2>10, <2>11 DEF b
<1> DEFINE T == {k \in 0 .. n : LastOnes(g[a[n - k] + 1], lines, k)}
<1>8. 0 \in T
  <2>1. n - 0 = n /\ a[n] = L /\ g[L + 1] = <<>>
    BY <1>1, <1>4, <1>5 DEF Splits, LiesAt
  <2>2. LastOnes(<<>>, lines, 0)
    BY DEF LastOnes
  <2>3. QED BY <2>1, <2>2, <1>1
<1>9. ASSUME NEW k \in 0 .. n - 1, k \in T PROVE k + 1 \in T
  <2> DEFINE i == n - k   s == g[a[i] + 1]   S == Range(lines)   h == <<lines[i]>>
  <2>1. i \in 1 .. n /\ n - (k + 1) = i - 1 /\ k + 1 \in 0 .. n /\ k \in Nat /\ n - (k + 1) + 1 = i
    BY <1>1
  <2>2. s \in Seq(S) /\ Len(s) = k /\ \A j \in 1 .. k : s[j] = lines[n - k + j]
    BY <1>9 DEF LastOnes
  <2>3. g[a[i - 1] + 1] = h \o s
    <3> HIDE DEF i
    <3>1. QED BY <2>1, <1>7
  <2>4. h \in Seq(S) /\ Len(h) = 1 /\ h[1] = lines[i]
    <3>1. lines[i] \in S
      BY <2>1, <1>1 DEF Range
    <3>2. QED BY <3>1
  <2> HIDE DEF s, S, h
  <2>5. /\ h \o s \in Seq(S) /\ Len(h \o s) = Len(h) + Len(s)
        /\ \A j \in 1 .. Len(h) + Len(s) : (h \o s)[j] = IF j <= Len(h) THEN h[j] ELSE s[j - Len(h)]
    <3>1. h \in Seq(S) /\ s \in Seq(S)
      BY <2>2, <2>4
    <3>2. QED BY ONLY <3>1, ConcatProperties
  <2>6. Len(h \o s) = k + 1 /\ \A j \in 1 .. k + 1 : (h \o s)[j] = IF j <= 1 THEN h[j] ELSE s[j - 1]
    <3>1. 1 + k = k + 1
      BY <2>1
    <3>2. QED BY <2>2, <2>4, <2>5, <3>1
  <2> DEFINE u == h \o s
  <2> HIDE DEF u, i
  <2>7. ASSUME NEW j \in 1 .. k + 1 PROVE u[j] = lines[n - (k + 1) + j]
    <3>1. CASE j = 1
      <4>1. 1 \in 1 .. k + 1
        BY <2>1
      <4>2. u[1] = h[1]
        BY <4>1, <2>6 DEF u
      <4>3. u[j] = lines[i]
        BY <3>1, <4>2, <2>4
      <4>4. n - (k + 1) + j = i
        BY <3>1, <2>1
      <4>5. QED BY <4>3, <4>4
    <3>2. CASE j # 1
      <4>1. j - 1 \in 1 .. k /\ ~(j <= 1) /\ n - k + (j - 1) = n - (k + 1) + j
        BY <3>2, <2>1, <1>1
      <4>2. u[j] = s[j - 1]
        BY <4>1, <2>6 DEF u
      <4>3. s[j - 1] = lines[n - k + (j - 1)]
        BY <4>1, <2>2
      <4>4. QED BY <4>1, <4>2, <4>3
    <3>3. QED BY <3>1, <3>2
  <2>8. LastOnes(u, lines, k + 1)
    BY <2>5, <2>6, <2>7 DEF LastOnes, u, S
  <2>9. g[a[n - (k + 1)] + 1] = u
    BY <2>1, <2>3 DEF u
  <2>10. QED BY <2>1, <2>8, <2>9
<1> HIDE DEF T
<1>10. n \in T
  <2>1. \A k \in 0 .. n : k \in T
    BY <1>1, <1>8, <1>9, UpTo
  <2>2. QED BY <2>1, <1>1
<1>11. LastOnes(g[1], lines, n)
  <2>1. n - n = 0 /\ a[0] + 1 = 1
    BY <1>1, <1>4 DEF LiesAt
  <2>2. LastOnes(g[a[n - n] + 1], lines, n)
    BY <1>10 DEF T
  <2>3. QED BY <2>1, <2>2
<1>12. g[1] = lines
  <2>1. g[1] \in Seq(Range(lines)) /\ Len(g[1]) = n /\ \A i \in 1 .. n : g[1][i] = lines[n - n + i]
    BY <1>11 DEF LastOnes
  <2>2. \A i \in 1 .. n : n - n + i = i
    BY <1>1
  <2>3. lines \in Seq(Range(lines))
    <3>1. \A i \in 1 .. n : lines[i] \in Range(lines)
      BY <1>1 DEF Range
    <3>2. lines = [i \in 1 .. n |-> lines[i]]
      BY <1>1
    <3>3. lines \in [1 .. n -> Range(lines)]
      BY <3>1, <3>2
    <3>4. QED BY <3>3, <1>1, FunctionIsSeq
  <2> DEFINE s == g[1]
  <2> HIDE DEF s
  <2>4. s \in Seq(Range(lines)) /\ Len(s) = Len(lines) /\ \A i \in 1 .. Len(s) : s[i] = lines[i]
    BY <2>1, <2>2 DEF s
  <2>5. s = lines
    BY <2>3, <2>4, SeqEqual
  <2>6. QED BY <2>5 DEF s
<1>13. QED BY <1>5, <1>12 DEF text

-----------------------------------------------------------------------------
(* Replies and output.                                                     *)

LEMMA TerminatedIsText ==
  ASSUME NEW lines \in Seq(Seq(Byte)), NEW sep \in Byte
  PROVE  Terminated(lines, sep) \in Seq(Byte)
<1>1. Terminated(lines, sep) \in Seq(Byte \cup {sep})
  BY TerminatedLies
<1>2. Byte \cup {sep} = Byte
  OBVIOUS
<1>3. QED BY <1>1, <1>2

LEMMA DecimalIsText ==
  ASSUME NEW n \in Nat
  PROVE  Decimal(n) \in Seq(Byte) /\ CountLine(n) \in Seq(Byte)
<1>1. Decimal(n) \in Seq(Digit)
  BY DecimalReads DEF Reads
<1>2. Digit \subseteq Byte /\ Newline \in Byte
  BY DEF Digit, Byte, Zero, Newline
<1>3. Decimal(n) \in Seq(Byte)
  BY <1>1, <1>2, SeqMonotonic
<1>4. Append(Decimal(n), Newline) \in Seq(Byte)
  BY <1>2, <1>3, AppendProperties
<1>5. QED BY <1>3, <1>4 DEF CountLine

\* A separator is a byte, and of a name only without -0.
LEMMA SepIsByte ==
  ASSUME NEW c
  PROVE  Sep(c) \in Byte /\ (c.null => Sep(c) \notin Char)
BY DEF Sep, Byte, Char, Newline

\* A reply is read as it was written.
LEMMA ReplyIsRead ==
  ASSUME NEW l, InRange(l), NEW hits, Listed(l, hits), NEW sep \in Byte
  PROVE  LET reply == Reply(l, hits, sep)
         IN  /\ reply \in Seq(Byte) /\ Terminated(Lines(l, hits), sep) \in Seq(Byte)
             /\ BodyOf(reply) = Terminated(Lines(l, hits), sep)
             /\ Number(TailOf(reply)) = hits.total
             /\ (sep \notin Char => Pieces(BodyOf(reply), sep) = Lines(l, hits))
<1> DEFINE lines == Lines(l, hits)
           body == Terminated(lines, sep)
           reply == Append(body, EOT) \o Decimal(hits.total)
<1>1. lines \in Seq(Seq(Char) \ {<<>>})
  BY LinesAreTexts
<1>2. Seq(Char) \ {<<>>} \subseteq Seq(Byte) /\ hits.total \in Nat
  <2>1. Char \subseteq Byte
    BY DEF Char
  <2>2. Seq(Char) \subseteq Seq(Byte)
    BY <2>1, SeqMonotonic
  <2>3. QED BY <2>2 DEF Listed
<1> HIDE DEF lines
<1>3. lines \in Seq(Seq(Byte))
  BY <1>1, <1>2, SeqMonotonic
<1>4. body \in Seq(Byte)
  BY <1>3, TerminatedIsText
<1>5. sep \notin Char => Pieces(body, sep) = lines
  BY <1>1, PiecesOfTerminated
<1>6. Reply(l, hits, sep) = reply
  BY DEF Reply, lines
<1> HIDE DEF body
<1>7. reply \in Seq(Byte) /\ BodyOf(reply) = body /\ Number(TailOf(reply)) = hits.total
  BY <1>2, <1>4, MarkSplits
<1> HIDE DEF reply
<1>8. QED BY <1>4, <1>5, <1>6, <1>7 DEF body, lines

\* Whatever text has arrived, what is printed of it is a text.
LEMMA PartsOfWire ==
  ASSUME NEW wire \in Seq(Byte), IsReply(wire)
  PROVE  BodyOf(wire) \in Seq(Byte) /\ TailOf(wire) \in Seq(Byte)
<1> DEFINE I == {i \in 1 .. Len(wire) : wire[i] = EOT}
           m == SelectLastInSeq(wire, LAMBDA b : b = EOT)
<1>1. Len(wire) \in Nat /\ \A i \in 1 .. Len(wire) : wire[i] \in Byte
  BY LenProperties, ElementOfSeq
<1>2. I # {} /\ I \subseteq 0 .. Len(wire)
  BY DEF IsReply, Contains
<1>3. m = Max(I)
  <2>1. m = IF I # {} THEN Max(I) ELSE 0
    BY DEF SelectLastInSeq
  <2>2. QED BY <2>1, <1>2
<1>4. m \in 1 .. Len(wire)
  <2> HIDE DEF m
  <2>1. Max(I) \in I
    <3> HIDE DEF I
    <3>1. PICK x \in I : \A y \in I : y <= x
      BY <1>1, <1>2, GreatestOf
    <3>2. \A y \in I : x >= y
      BY <3>1, <1>1, <1>2
    <3>3. QED BY <3>2 DEF Max
  <2>2. QED BY <2>1, <1>3
<1>5. BodyOf(wire) = SubSeq(wire, 1, m - 1) /\ TailOf(wire) = SubSeq(wire, m + 1, Len(wire))
  BY DEF BodyOf, TailOf
<1> HIDE DEF m
<1>6. SubSeq(wire, 1, m - 1) \in Seq(Byte)
  <2> DEFINE k == m - 1
  <2>1. k \in Nat /\ \A i \in 1 .. k : wire[i] \in Byte
    BY <1>1, <1>4
  <2> HIDE DEF k
  <2>2. SubSeq(wire, 1, k) \in Seq(Byte)
    BY <2>1, Beginning
  <2>3. QED BY <2>2 DEF k
<1>7. SubSeq(wire, m + 1, Len(wire)) \in Seq(Byte)
  <2>1. m \in Nat /\ m <= Len(wire) /\ \A i \in m + 1 .. Len(wire) : wire[i] \in Byte
    BY <1>1, <1>4
  <2>2. QED BY <2>1, <1>1, Ending
<1>8. QED BY <1>5, <1>6, <1>7

LEMMA PiecesAreTexts ==
  ASSUME NEW body \in Seq(Byte), NEW sep \in Byte
  PROVE  Terminated(Pieces(body, sep), sep) \in Seq(Byte)
<1>1. Pieces(body, sep) \in Seq(Seq(Byte))
  <2>1. PICK g \in [1 .. Len(body) + 1 -> Seq(Seq(Byte))] : Pieces(body, sep) = g[1]
    BY PiecesSplit
  <2>2. 1 \in 1 .. Len(body) + 1
    BY LenProperties
  <2>3. QED BY <2>1, <2>2
<1>2. QED BY <1>1, TerminatedIsText

-----------------------------------------------------------------------------
(* The invariant.                                                          *)

Peers == {"none", "old", "new"}

AllHits == UNION {{DaemonHits[l][c] : c \in AllCommands} : l \in AllSnapshots}

Connections ==
  [state : {"none", "sent", "held", "closed"}, req : {"none", "V", "Q"}, by : Peers,
   snap : {NoSnapshot} \cup AllSnapshots, hits : {NoHits} \cup AllHits, wire : Seq(Byte), cut : BOOLEAN]

Outputs == [from : {"none", "daemon", "file"}, text : Seq(Byte), total : Nat]

WorldInv ==
  /\ peer \in Peers /\ moves \in Nat /\ cmd \in AllCommands
  /\ live \in AllSnapshots /\ file \in Files /\ views \subseteq AllSnapshots

FormInv ==
  /\ pc \in {"start", "version", "ask", "reply", "file", "done"}
  /\ conn \in Connections /\ out \in Outputs

\* An open connection is one to the daemon of now, and the hits that its
\* thread holds were found in the snapshot that it holds.
OpenInv ==
  /\ conn.state \in {"sent", "held"} => conn.by = peer /\ peer # "none"
  /\ conn.state = "held" => /\ conn.by = "new" /\ conn.snap \in AllSnapshots
                            /\ conn.hits = DaemonHits[conn.snap][cmd]

WholeReply(l) == Reply(l, DaemonHits[l][cmd], Sep(cmd))

\* While the client waits for the answer, what the daemon may find it in, has
\* found it in or has sent is of one of the views.
ServedInv ==
  pc = "reply" =>
    /\ conn.req = "Q" /\ conn.state # "none"
    /\ conn.state = "sent" /\ conn.by = "new" => live \in views
    /\ conn.state = "held" => conn.snap \in views
    /\ conn.state = "closed" /\ conn.by = "new" /\ ~conn.cut => \E l \in views : conn.wire = WholeReply(l)

\* What was printed is of a connection that is closed.
PrintedInv == out.from = "daemon" => pc = "done" /\ conn.state = "closed"

IInv == WorldInv /\ FormInv /\ OpenInv /\ ServedInv /\ PrintedInv /\ OneReply

LEMMA CommandsAre ==
  ASSUME NEW c \in AllCommands
  PROVE  c \in Command /\ EffectiveLimit(c) \in Nat /\ OffWire(OnWire(EffectiveLimit(c))) \in Nat
<1>1. c \in Command
  BY ClientAssumption DEF AllCommands
<1>2. c.limit \in Nat
  BY <1>1 DEF Command
<1>3. EffectiveLimit(c) \in Nat
  BY <1>2, SearchAssumption DEF EffectiveLimit
<1>4. OffWire(OnWire(EffectiveLimit(c))) \in Nat
  BY <1>3, SearchAssumption DEF OffWire, OnWire
<1>5. QED BY <1>1, <1>3, <1>4

\* What the daemon and the client find, of a snapshot given.
LEMMA HitsAre ==
  ASSUME NEW l \in AllSnapshots, NEW c \in AllCommands
  PROVE  /\ InRange(l) /\ Listed(l, DaemonHits[l][c]) /\ Listed(l, FileHits[l][c])
         /\ DaemonHits[l][c] \in AllHits
<1>1. InRange(l)
  BY ClientAssumption
<1>2. DaemonHits[l][c] = LiveSearch(l, ParseOpts(c.lines[1], c.opts), OffWire(OnWire(EffectiveLimit(c))))
  BY DEF DaemonHits
<1>3. FileHits[l][c] = FileSearch(l, ParseOpts(Words(c), c.opts), EffectiveLimit(c))
  BY DEF FileHits
<1>4. Listed(l, DaemonHits[l][c]) /\ Listed(l, FileHits[l][c])
  BY <1>1, <1>2, <1>3, CommandsAre, SearchesList
<1>5. DaemonHits[l][c] \in AllHits
  BY DEF AllHits
<1>6. QED BY <1>1, <1>4, <1>5

LEMMA WholeReplyIsRead ==
  ASSUME NEW l \in AllSnapshots, cmd \in AllCommands
  PROVE  LET hits == DaemonHits[l][cmd]
         IN  /\ WholeReply(l) \in Seq(Byte)
             /\ BodyOf(WholeReply(l)) = Terminated(Lines(l, hits), Sep(cmd))
             /\ Number(TailOf(WholeReply(l))) = hits.total
             /\ (cmd.null => Pieces(BodyOf(WholeReply(l)), Sep(cmd)) = Lines(l, hits))
<1> DEFINE hits == DaemonHits[l][cmd]   sep == Sep(cmd)
<1>1. InRange(l) /\ Listed(l, hits) /\ sep \in Byte /\ (cmd.null => sep \notin Char)
  BY HitsAre, SepIsByte
<1>2. WholeReply(l) = Reply(l, hits, sep)
  BY DEF WholeReply
<1> HIDE DEF hits, sep
<1>3. /\ Reply(l, hits, sep) \in Seq(Byte)
      /\ BodyOf(Reply(l, hits, sep)) = Terminated(Lines(l, hits), sep)
      /\ Number(TailOf(Reply(l, hits, sep))) = hits.total
      /\ (sep \notin Char => Pieces(BodyOf(Reply(l, hits, sep)), sep) = Lines(l, hits))
  BY <1>1, ReplyIsRead
<1>4. QED BY <1>1, <1>2, <1>3 DEF hits, sep

LEMMA EmptySnapshot == InRange(NoSnapshot)
BY DEF NoSnapshot, BaseOf, InRange, Snapshot

LEMMA InitHolds ==
  ASSUME Init
  PROVE  IInv
<1>1. PICK s \in Scenarios : /\ cmd \in s.commands /\ peer \in s.peers
                             /\ live \in s.lives /\ file \in s.files /\ moves = s.moves
  BY DEF Init
<1>2. pc = "start" /\ conn = NoConn /\ out = NoOutput /\ views = {}
  BY DEF Init
<1>3. WorldInv
  <2>1. peer \in Peers /\ moves \in Nat /\ live \in AllSnapshots /\ file \in Files
    BY <1>1, ClientAssumption DEF Peers
  <2>2. cmd \in AllCommands
    BY <1>1 DEF AllCommands
  <2>3. QED BY <2>1, <2>2, <1>2 DEF WorldInv
<1>4. FormInv
  BY <1>2 DEF FormInv, Connections, Outputs, NoConn, NoOutput, Peers
<1>5. OpenInv /\ ServedInv /\ PrintedInv /\ OneReply
  BY <1>2 DEF OpenInv, ServedInv, PrintedInv, OneReply, NoConn, NoOutput
<1>6. QED BY <1>3, <1>4, <1>5 DEF IInv

\* The daemon's thread.
LEMMA HandlerHolds ==
  ASSUME IInv, Handler
  PROVE  IInv'
<1> USE DEF IInv
<1>1. WorldInv'
  BY DEF WorldInv, Handler, AnswerVersion, SearchSnapshot, SendReply, AnswerUnknown, world, DaemonHits, AllSnapshots
<1>3. PrintedInv' /\ OneReply'
  <2>1. conn.state \in {"sent", "held"} /\ UNCHANGED <<cmd, pc, out, views>>
    BY DEF Handler, AnswerVersion, SearchSnapshot, SendReply, AnswerUnknown, Serving
  <2>2. out.from # "daemon"
    BY <2>1 DEF PrintedInv
  <2>3. QED BY <2>1, <2>2 DEF PrintedInv, OneReply
<1>4. CASE AnswerVersion
  <2> DEFINE text == <<EOT>> \o Decimal(ProtoVersion)
  <2>1. conn' = [conn EXCEPT !.wire = text, !.state = "closed"] /\ UNCHANGED <<pc, out, peer, cmd, views, live>>
    BY <1>4 DEF AnswerVersion, Send, world
  <2>2. text \in Seq(Byte)
    <3>1. Decimal(ProtoVersion) \in Seq(Byte) /\ <<EOT>> \in Seq(Byte)
      BY DecimalIsText DEF ProtoVersion, EOT, Byte
    <3>2. QED BY <3>1, ConcatProperties
  <2> HIDE DEF text
  <2>3. FormInv' /\ OpenInv'
    BY <2>1, <2>2 DEF FormInv, Connections, OpenInv
  <2>4. ServedInv'
    <3>1. conn.req = "V"
      BY <1>4 DEF AnswerVersion, Serving
    <3>2. pc # "reply"
      BY <3>1 DEF ServedInv
    <3>3. QED BY <2>1, <3>2 DEF ServedInv
  <2>5. QED BY <1>1, <1>3, <2>3, <2>4
<1>5. CASE SearchSnapshot
  <2>1. /\ conn' = [conn EXCEPT !.state = "held", !.snap = live, !.hits = DaemonHits[live][cmd]]
        /\ conn.state = "sent" /\ conn.req = "Q" /\ conn.by = "new"
        /\ UNCHANGED <<pc, out, peer, cmd, views, live>>
    BY <1>5 DEF SearchSnapshot, Serving, world
  <2>2. live \in AllSnapshots /\ DaemonHits[live][cmd] \in AllHits
    BY HitsAre DEF WorldInv
  <2> DEFINE hits == DaemonHits[live][cmd]
  <2>3. hits = DaemonHits[live][cmd]
    OBVIOUS
  <2> HIDE DEF hits
  <2>4. FormInv'
    BY <2>1, <2>2, <2>3 DEF FormInv, Connections
  <2>5. OpenInv'
    <3>1. conn'.state = "held" /\ conn'.snap = live /\ conn'.hits = hits /\ conn'.by = "new"
      BY <2>1, <2>3 DEF FormInv, Connections
    <3>2. conn'.by = peer' /\ peer' # "none"
      BY <2>1, <3>1 DEF OpenInv
    <3>3. DaemonHits' = DaemonHits /\ AllSnapshots' = AllSnapshots
      BY DEF DaemonHits, AllSnapshots
    <3>4. QED BY <2>1, <2>2, <2>3, <3>1, <3>2, <3>3 DEF OpenInv
  <2>6. ServedInv'
    <3> SUFFICES ASSUME pc = "reply"
                 PROVE  conn'.req = "Q" /\ conn'.state = "held" /\ conn'.snap \in views
      BY <2>1 DEF ServedInv
    <3>1. live \in views
      BY <2>1 DEF ServedInv
    <3>2. QED BY <2>1, <3>1 DEF FormInv, Connections
  <2>7. QED BY <1>1, <1>3, <2>4, <2>5, <2>6
<1>6. CASE SendReply
  <2> DEFINE text == Reply(conn.snap, conn.hits, Sep(cmd))
  <2>1. /\ conn' = [conn EXCEPT !.wire = text, !.state = "closed"] /\ conn.state = "held"
        /\ UNCHANGED <<pc, out, peer, cmd, views, live>>
    BY <1>6 DEF SendReply, Send, HeldSnapshot, world
  <2>2. conn.snap \in AllSnapshots /\ conn.hits = DaemonHits[conn.snap][cmd]
    BY <2>1 DEF OpenInv
  <2>3. text = WholeReply(conn.snap)
    BY <2>2 DEF WholeReply
  <2> HIDE DEF text
  <2>4. text \in Seq(Byte)
    BY <2>2, <2>3, WholeReplyIsRead DEF WorldInv
  <2>5. FormInv' /\ OpenInv'
    BY <2>1, <2>4 DEF FormInv, Connections, OpenInv
  <2>6. ServedInv'
    <3> SUFFICES ASSUME pc = "reply"
                 PROVE  /\ conn'.req = "Q" /\ conn'.state = "closed"
                        /\ \E l \in views' : conn'.wire = WholeReply(l)'
      BY <2>1 DEF ServedInv
    <3>1. conn.snap \in views /\ conn.req = "Q"
      BY <2>1 DEF ServedInv
    <3>2. conn'.wire = text /\ conn'.state = "closed" /\ conn'.req = "Q"
      BY <2>1, <3>1 DEF FormInv, Connections
    <3>3. WholeReply(conn.snap) = (Reply(conn.snap, DaemonHits[conn.snap][cmd], Sep(cmd)))
      BY DEF WholeReply
    <3>4. \A l : WholeReply(l)' = WholeReply(l)
      BY <2>1 DEF WholeReply, DaemonHits, AllSnapshots, AllCommands
    <3>5. QED BY <2>1, <2>3, <3>1, <3>2, <3>4
  <2>7. QED BY <1>1, <1>3, <2>5, <2>6
<1>7. CASE AnswerUnknown
  <2> DEFINE text == <<EOT, Zero, Tab, Zero>>
  <2>1. /\ conn' = [conn EXCEPT !.wire = text, !.state = "closed"] /\ conn.by = "old" /\ conn.state = "sent"
        /\ UNCHANGED <<pc, out, peer, cmd, views, live>>
    BY <1>7 DEF AnswerUnknown, Send, world
  <2>2. text \in Seq(Byte)
    BY DEF EOT, Zero, Tab, Byte
  <2> HIDE DEF text
  <2>3. FormInv' /\ OpenInv'
    BY <2>1, <2>2 DEF FormInv, Connections, OpenInv
  <2>4. ServedInv'
    BY <2>1 DEF ServedInv, FormInv, Connections
  <2>5. QED BY <1>1, <1>3, <2>3, <2>4
<1>8. QED BY <1>4, <1>5, <1>6, <1>7 DEF Handler

\* A request begins.
LEMMA RequestIs ==
  ASSUME NEW req \in {"V", "Q"}, peer \in Peers
  PROVE  /\ Request(req) \in Connections
         /\ Request(req).state = "sent" /\ Request(req).req = req /\ Request(req).by = peer
<1>1. NoConn \in Connections
  BY DEF NoConn, Connections, Peers
<1> HIDE DEF NoConn
<1>2. QED BY <1>1 DEF Request, Connections

\* The client.
LEMMA AskHolds ==
  ASSUME IInv, Ask
  PROVE  IInv'
<1> USE DEF IInv
<1>1. UNCHANGED world /\ cmd' = cmd
  BY DEF Ask, AskVersion, ReadVersion, AskQuery, NoDaemon, PrintReply, NoReply, PrintFromFile
<1>2. views' \subseteq AllSnapshots => WorldInv'
  BY <1>1 DEF WorldInv, world
<1>3. /\ \A l : WholeReply(l)' = WholeReply(l)
      /\ DaemonHits' = DaemonHits
  BY <1>1 DEF WholeReply, DaemonHits, AllSnapshots, AllCommands
<1>4. CASE AskVersion
  <2>1. /\ conn' = Request("V") /\ peer # "none" /\ pc = "start" /\ pc' = "version"
        /\ UNCHANGED <<out, views>> /\ peer' = peer
    BY <1>1, <1>4 DEF AskVersion, world
  <2>2. conn' \in Connections /\ conn'.state = "sent" /\ conn'.by = peer
    BY <2>1, RequestIs DEF WorldInv
  <2>3. out.from # "daemon"
    BY <2>1 DEF PrintedInv
  <2>4. WorldInv'
    BY <1>2, <2>1 DEF WorldInv
  <2>5. FormInv' /\ OpenInv'
    BY <2>1, <2>2 DEF FormInv, OpenInv
  <2>6. ServedInv' /\ PrintedInv' /\ OneReply'
    BY <2>1, <2>3 DEF ServedInv, PrintedInv, OneReply
  <2>7. QED BY <2>4, <2>5, <2>6
<1>5. CASE ReadVersion
  <2>1. pc = "version" /\ pc' \in {"ask", "file"} /\ UNCHANGED <<conn, out, views>> /\ peer' = peer
    BY <1>1, <1>5 DEF ReadVersion, world
  <2>2. out.from # "daemon"
    BY <2>1 DEF PrintedInv
  <2>3. WorldInv' /\ FormInv' /\ OpenInv'
    BY <1>1, <1>2, <1>3, <2>1 DEF WorldInv, FormInv, OpenInv, AllSnapshots
  <2>4. ServedInv' /\ PrintedInv' /\ OneReply'
    BY <2>1, <2>2 DEF ServedInv, PrintedInv, OneReply
  <2>5. QED BY <2>3, <2>4
<1>6. CASE AskQuery
  <2>1. /\ conn' = Request("Q") /\ peer # "none" /\ pc = "ask" /\ pc' = "reply" /\ views' = {live}
        /\ out' = out /\ peer' = peer /\ live' = live
    BY <1>1, <1>6 DEF AskQuery, world
  <2>2. conn' \in Connections /\ conn'.state = "sent" /\ conn'.by = peer /\ conn'.req = "Q"
    BY <2>1, RequestIs DEF WorldInv
  <2>3. out.from # "daemon"
    BY <2>1 DEF PrintedInv
  <2>4. WorldInv'
    BY <1>2, <2>1 DEF WorldInv
  <2>5. FormInv' /\ OpenInv'
    BY <2>1, <2>2 DEF FormInv, OpenInv
  <2>6. ServedInv' /\ PrintedInv' /\ OneReply'
    BY <2>1, <2>2, <2>3 DEF ServedInv, PrintedInv, OneReply
  <2>7. QED BY <2>4, <2>5, <2>6
<1>7. CASE NoDaemon
  <2>1. pc \in {"start", "ask"} /\ pc' = "file" /\ UNCHANGED <<conn, out, views>> /\ peer' = peer
    BY <1>1, <1>7 DEF NoDaemon, world
  <2>2. out.from # "daemon"
    BY <2>1 DEF PrintedInv
  <2>3. WorldInv' /\ FormInv' /\ OpenInv'
    BY <1>1, <1>2, <1>3, <2>1 DEF WorldInv, FormInv, OpenInv, AllSnapshots
  <2>4. ServedInv' /\ PrintedInv' /\ OneReply'
    BY <2>1, <2>2 DEF ServedInv, PrintedInv, OneReply
  <2>5. QED BY <2>3, <2>4
<1>8. CASE PrintReply
  <2> DEFINE body == BodyOf(conn.wire)   total == Number(TailOf(conn.wire))   sep == Sep(cmd)
             lines == Pieces(body, sep)
             text == IF cmd.count THEN CountLine(total) ELSE Terminated(lines, sep)
  <2>1. /\ out' = [from |-> "daemon", total |-> total, text |-> text]
        /\ pc = "reply" /\ conn.state = "closed" /\ IsReply(conn.wire) /\ pc' = "done"
        /\ UNCHANGED <<conn, views>> /\ peer' = peer
    BY <1>1, <1>8 DEF PrintReply, world
  <2>2. conn.wire \in Seq(Byte)
    BY DEF FormInv, Connections
  <2>3. body \in Seq(Byte) /\ total \in Nat
    BY <2>1, <2>2, PartsOfWire, NumberIsNatural
  <2>4. text \in Seq(Byte)
    <3>1. sep \in Byte
      BY SepIsByte
    <3> HIDE DEF body, sep, total
    <3>2. Terminated(lines, sep) \in Seq(Byte)
      BY <2>3, <3>1, PiecesAreTexts
    <3>3. CountLine(total) \in Seq(Byte)
      BY <2>3, DecimalIsText
    <3> HIDE DEF lines
    <3>4. QED BY <3>2, <3>3
  <2>5. OneReply'
    <3> SUFFICES ASSUME conn.by = "new", ~conn.cut
                 PROVE  \E l \in views : /\ total = DaemonHits[l][cmd].total
                                         /\ cmd.count \/ cmd.null => text = FileText(cmd, l, DaemonHits[l][cmd])
      BY <1>1, <1>3, <2>1 DEF OneReply, FileText
    <3>1. PICK l \in views : conn.wire = WholeReply(l)
      BY <2>1 DEF ServedInv
    <3> DEFINE hits == DaemonHits[l][cmd]
    <3>2. /\ body = Terminated(Lines(l, hits), sep)
          /\ total = hits.total
          /\ (cmd.null => lines = Lines(l, hits))
      BY <3>1, WholeReplyIsRead DEF WorldInv
    <3> HIDE DEF hits, lines, total, body, sep
    <3>3. cmd.count => text = FileText(cmd, l, hits)
      BY <3>2 DEF FileText
    <3>4. ~cmd.count /\ cmd.null => text = FileText(cmd, l, hits)
      BY <3>2 DEF FileText, sep
    <3>5. cmd.count \/ cmd.null => text = FileText(cmd, l, hits)
      BY <3>3, <3>4
    <3> HIDE DEF text
    <3>6. QED BY <3>2, <3>5 DEF hits
  <2> HIDE DEF text, total
  <2>6. WorldInv' /\ FormInv' /\ OpenInv'
    BY <1>1, <1>2, <1>3, <2>1, <2>3, <2>4 DEF WorldInv, FormInv, OpenInv, Outputs, AllSnapshots
  <2>7. ServedInv' /\ PrintedInv'
    BY <2>1 DEF ServedInv, PrintedInv
  <2>8. QED BY <2>5, <2>6, <2>7
<1>9. CASE NoReply
  <2>1. pc = "reply" /\ pc' = "file" /\ UNCHANGED <<conn, out, views>> /\ peer' = peer
    BY <1>1, <1>9 DEF NoReply, world
  <2>2. out.from # "daemon"
    BY <2>1 DEF PrintedInv
  <2>3. WorldInv' /\ FormInv' /\ OpenInv'
    BY <1>1, <1>2, <1>3, <2>1 DEF WorldInv, FormInv, OpenInv, AllSnapshots
  <2>4. ServedInv' /\ PrintedInv' /\ OneReply'
    BY <2>1, <2>2 DEF ServedInv, PrintedInv, OneReply
  <2>5. QED BY <2>3, <2>4
<1>10. CASE PrintFromFile
  <2> DEFINE hits == FileHits[file][cmd]   text == FileText(cmd, file, hits)
  <2>1. /\ out' = [from |-> "file", total |-> hits.total, text |-> text]
        /\ views' = {file} /\ pc' = "done" /\ conn' = conn /\ peer' = peer
    BY <1>1, <1>10 DEF PrintFromFile, world
  <2>2. hits.total \in Nat /\ text \in Seq(Byte)
    <3>1. Listed(file, hits) /\ InRange(file) /\ Sep(cmd) \in Byte
      <4>1. file \in AllSnapshots
        BY DEF WorldInv, AllSnapshots
      <4>2. QED BY <4>1, HitsAre, SepIsByte DEF WorldInv
    <3> HIDE DEF hits
    <3>2. hits.total \in Nat
      BY <3>1 DEF Listed
    <3>3. Terminated(Lines(file, hits), Sep(cmd)) \in Seq(Byte)
      BY <3>1, ReplyIsRead
    <3>4. CountLine(hits.total) \in Seq(Byte)
      BY <3>2, DecimalIsText
    <3>5. QED BY <3>2, <3>3, <3>4 DEF FileText
  <2> HIDE DEF text, hits
  <2>3. WorldInv' /\ FormInv' /\ OpenInv'
    BY <1>1, <1>2, <1>3, <2>1, <2>2 DEF WorldInv, FormInv, OpenInv, Outputs, AllSnapshots
  <2>4. ServedInv' /\ PrintedInv' /\ OneReply'
    BY <2>1 DEF ServedInv, PrintedInv, OneReply
  <2>5. QED BY <2>3, <2>4
<1>11. QED BY <1>4, <1>5, <1>6, <1>7, <1>8, <1>9, <1>10 DEF Ask

\* The rest of the world.
LEMMA OthersHold ==
  ASSUME IInv, World
  PROVE  IInv'
<1> USE DEF IInv
<1>1. UNCHANGED <<cmd, pc, out>> /\ moves' \in Nat
  <2>1. UNCHANGED <<cmd, pc, out>> /\ Move
    BY DEF World, Publish, NewFile, Crash, Start
  <2>2. moves' \in Nat
    BY <2>1 DEF Move, WorldInv
  <2>3. QED BY <2>1, <2>2
<1>2. /\ \A l : WholeReply(l)' = WholeReply(l)
      /\ DaemonHits' = DaemonHits /\ AllSnapshots' = AllSnapshots
  BY <1>1 DEF WholeReply, DaemonHits, AllSnapshots, AllCommands
<1>3. CASE Publish
  <2>1. /\ peer = "new" /\ live' \in Snapshots \cup {file}
        /\ views' = IF pc = "reply" THEN views \cup {live'} ELSE views
        /\ UNCHANGED <<peer, file, conn>>
    BY <1>3 DEF Publish
  <2>2. live' \in AllSnapshots /\ views' \subseteq AllSnapshots
    BY <2>1 DEF AllSnapshots, WorldInv
  <2>3. WorldInv' /\ FormInv' /\ OpenInv'
    BY <1>1, <1>2, <2>1, <2>2 DEF WorldInv, FormInv, OpenInv
  <2>4. ServedInv'
    BY <1>1, <1>2, <2>1 DEF ServedInv
  <2>5. PrintedInv' /\ OneReply'
    <3>1. PrintedInv'
      BY <1>1, <2>1 DEF PrintedInv
    <3>2. pc = "done" => views' = views
      BY <2>1
    <3>3. QED BY <1>1, <1>2, <2>1, <3>1, <3>2 DEF OneReply
  <2>6. QED BY <2>3, <2>4, <2>5
<1>4. CASE NewFile
  <2>1. file' \in Files /\ UNCHANGED <<peer, live, conn, views>>
    BY <1>4 DEF NewFile
  <2>2. file' \in Files' /\ Files' = Files
    BY <2>1
  <2>3. WorldInv' /\ FormInv' /\ OpenInv'
    BY <1>1, <1>2, <2>1, <2>2 DEF WorldInv, FormInv, OpenInv
  <2>4. ServedInv' /\ PrintedInv' /\ OneReply'
    BY <1>1, <1>2, <2>1 DEF ServedInv, PrintedInv, OneReply
  <2>5. QED BY <2>3, <2>4
<1>5. CASE Crash
  <2> DEFINE text == Reply(conn.snap, conn.hits, Sep(cmd))
  <2>1. /\ peer # "none" /\ peer' = "none" /\ UNCHANGED <<live, file, views>>
        /\ \E n \in 0 .. (IF conn.state = "held" THEN Len(text) ELSE 0) :
             conn' = IF conn.state \notin {"sent", "held"} THEN conn
                     ELSE [conn EXCEPT !.state = "closed", !.cut = TRUE, !.wire = SubSeq(text, 1, n)]
    BY <1>5 DEF Crash
  <2>2. ASSUME NEW n \in 0 .. (IF conn.state = "held" THEN Len(text) ELSE 0)
        PROVE  SubSeq(text, 1, n) \in Seq(Byte)
    <3>1. CASE conn.state = "held"
      <4>1. conn.snap \in AllSnapshots /\ text = WholeReply(conn.snap)
        BY <3>1 DEF OpenInv, WholeReply
      <4>2. text \in Seq(Byte)
        BY <4>1, WholeReplyIsRead DEF WorldInv
      <4> HIDE DEF text
      <4>3. n \in Nat /\ \A i \in 1 .. n : text[i] \in Byte
        <5>1. Len(text) \in Nat /\ \A i \in 1 .. Len(text) : text[i] \in Byte
          BY <4>2, LenProperties, ElementOfSeq
        <5>2. n \in 0 .. Len(text)
          BY <3>1
        <5>3. QED BY <5>1, <5>2
      <4>4. QED BY <4>3, Beginning
    <3>2. CASE conn.state # "held"
      <4> HIDE DEF text
      <4>1. n = 0
        BY <3>2
      <4>2. 0 \in Nat /\ \A i \in 1 .. 0 : text[i] \in Byte
        OBVIOUS
      <4>3. SubSeq(text, 1, 0) \in Seq(Byte)
        BY <4>2, Beginning
      <4>4. QED BY <4>1, <4>3
    <3>3. QED BY <3>1, <3>2
  <2> HIDE DEF text
  <2>3. WorldInv'
    BY <1>1, <1>2, <2>1 DEF WorldInv, Peers
  <2>4. CASE conn.state \notin {"sent", "held"}
    <3>1. conn' = conn
      BY <2>1, <2>4
    <3>2. FormInv' /\ OpenInv'
      BY <1>1, <1>2, <3>1, <2>4 DEF FormInv, OpenInv
    <3>3. ServedInv' /\ PrintedInv' /\ OneReply'
      BY <1>1, <1>2, <2>1, <3>1, <2>4 DEF ServedInv, PrintedInv, OneReply
    <3>4. QED BY <2>3, <3>2, <3>3
  <2>5. CASE conn.state \in {"sent", "held"}
    <3>1. PICK wire \in Seq(Byte) : conn' = [conn EXCEPT !.state = "closed", !.cut = TRUE, !.wire = wire]
      BY <2>1, <2>2, <2>5
    <3>2. conn' \in Connections /\ conn'.state = "closed" /\ conn'.cut /\ conn'.req = conn.req
      BY <3>1 DEF FormInv, Connections
    <3>3. FormInv' /\ OpenInv'
      BY <1>1, <3>2 DEF FormInv, OpenInv
    <3>4. out.from # "daemon"
      BY <2>5 DEF PrintedInv
    <3>5. ServedInv' /\ PrintedInv' /\ OneReply'
      BY <1>1, <3>2, <3>4 DEF ServedInv, PrintedInv, OneReply
    <3>6. QED BY <2>3, <3>3, <3>5
  <2>6. QED BY <2>4, <2>5
<1>6. ASSUME NEW version \in {"old", "new"}, Start(version) PROVE IInv'
  <2>1. peer = "none" /\ peer' = version /\ live' = file /\ UNCHANGED <<file, conn, views>>
    BY <1>6 DEF Start
  <2>2. WorldInv'
    <3>1. live' \in AllSnapshots
      BY <2>1 DEF WorldInv, AllSnapshots
    <3>2. QED BY <1>1, <1>2, <2>1, <3>1 DEF WorldInv, Peers
  <2>3. conn.state \notin {"sent", "held"}
    BY <2>1 DEF OpenInv
  <2>4. FormInv' /\ OpenInv'
    BY <1>1, <1>2, <2>1, <2>3 DEF FormInv, OpenInv
  <2>5. ServedInv' /\ PrintedInv' /\ OneReply'
    BY <1>1, <1>2, <2>1, <2>3 DEF ServedInv, PrintedInv, OneReply
  <2>6. QED BY <2>2, <2>4, <2>5
<1>7. QED BY <1>3, <1>4, <1>5, <1>6 DEF World

LEMMA StutterHolds ==
  ASSUME IInv, UNCHANGED vars
  PROVE  IInv'
BY DEF IInv, WorldInv, FormInv, OpenInv, ServedInv, PrintedInv, OneReply, vars,
       WholeReply, DaemonHits, AllSnapshots, AllCommands

LEMMA IInvHolds == Spec => []IInv
<1>1. Init => IInv
  BY InitHolds
<1>2. IInv /\ [Next]_vars => IInv'
  BY HandlerHolds, AskHolds, OthersHold, StutterHolds DEF Next
<1>3. QED BY <1>1, <1>2, PTL DEF Spec

-----------------------------------------------------------------------------
(* What follows.                                                           *)

\* Each part of the state has its type: all that is ever on a connection or
\* printed is a text, and the ids of a search that has no reply yet are ids of
\* the snapshot in which SendReply looks them up.
THEOREM TypeCorrect == Spec => []TypeOK
<1>1. IInv => TypeOK
  <2> SUFFICES ASSUME IInv PROVE TypeOK
    OBVIOUS
  <2> USE DEF IInv
  <2>1. conn.state = "held" => /\ Range(conn.hits.dirs)  \subseteq DOMAIN HeldSnapshot.dirs
                               /\ Range(conn.hits.files) \subseteq DOMAIN HeldSnapshot.files
    <3> SUFFICES ASSUME conn.state = "held"
                 PROVE  /\ Range(conn.hits.dirs)  \subseteq DOMAIN HeldSnapshot.dirs
                        /\ Range(conn.hits.files) \subseteq DOMAIN HeldSnapshot.files
      OBVIOUS
    <3> DEFINE l == conn.snap   hits == conn.hits
    <3>1. Listed(l, hits)
      BY HitsAre DEF OpenInv, WorldInv
    <3> HIDE DEF hits, l
    <3>2. hits.dirs \in Seq(DOMAIN l.dirs) /\ hits.files \in Seq(DOMAIN l.files)
      BY <3>1 DEF Listed
    <3>3. Range(hits.dirs) \subseteq DOMAIN l.dirs /\ Range(hits.files) \subseteq DOMAIN l.files
      BY <3>2, ElementOfSeq, LenProperties DEF Range
    <3>4. QED BY <3>3 DEF HeldSnapshot, l, hits
  <2>2. InRange(live) /\ InRange(file) /\ InRange(conn.snap) /\ \A l \in views : InRange(l)
    <3>1. \A l \in AllSnapshots : InRange(l)
      BY ClientAssumption
    <3>2. conn.snap \in {NoSnapshot} \cup AllSnapshots
      BY DEF FormInv, Connections
    <3>3. live \in AllSnapshots /\ file \in AllSnapshots /\ views \subseteq AllSnapshots
      BY DEF WorldInv, AllSnapshots
    <3>4. QED BY <3>1, <3>2, <3>3, EmptySnapshot
  <2>3. cmd \in Command
    BY CommandsAre DEF WorldInv
  <2>4. QED BY <2>1, <2>2, <2>3 DEF TypeOK, WorldInv, FormInv, Peers, Connections, Outputs
<1>2. QED BY <1>1, IInvHolds, PTL

\* A reply written to its end is read as it was written, and is what the daemon
\* found in one snapshot of the time of the query: the total, which follows the
\* last mark, whatever the names hold, and with -c or -0 the whole output.
THEOREM ReplyIsOfOneSnapshot == Spec => []OneReply
<1>1. IInv => OneReply
  BY DEF IInv
<1>2. QED BY <1>1, IInvHolds, PTL

LEMMA EntriesFit ==
  ASSUME NEW l, InRange(l), MostHits(l) <= Unlimited
  PROVE  Entries(l) <= Unlimited
<1> DEFINE D == Len(l.dirs)   N == Len(l.files)   x == NThreads * N
<1>1. D \in Nat /\ N \in Nat /\ NThreads \in Nat /\ Unlimited \in Nat
  BY SnapshotParts, SearchAssumption
<1>2. x \in Nat /\ (NThreads + 1) * N = x + N
  <2> HIDE DEF N
  <2>1. QED BY <1>1
<1>3. Entries(l) = D + N /\ D + (x + N) <= Unlimited
  BY <1>2 DEF Entries, MostHits
<1> HIDE DEF x, D, N
<1>4. QED BY <1>1, <1>2, <1>3

\* The limit only shortens what LiveSearch and FileSearch list, whichever share
\* of it each thread keeps, and the total stays.
THEOREM LimitShortensOnly == Spec => []LimitOnlyShortens
<1>1. IInv => LimitOnlyShortens
  <2> SUFFICES ASSUME IInv PROVE LimitOnlyShortens
    OBVIOUS
  <2>1. /\ InRange(live) /\ InRange(file) /\ Unlimited \in Nat
        /\ Entries(live) <= Unlimited /\ Entries(file) <= Unlimited
    <3>1. /\ InRange(live) /\ InRange(file)
          /\ MostHits(live) <= Unlimited /\ MostHits(file) <= Unlimited
      BY ClientAssumption DEF IInv, WorldInv, AllSnapshots
    <3>2. QED BY <3>1, SearchAssumption, EntriesFit
  <2>2. /\ \A n \in 0 .. Entries(live) : n \in 0 .. Unlimited
        /\ \A n \in 0 .. Entries(file) : n \in 0 .. Unlimited
    <3>1. Entries(live) \in Nat /\ Entries(file) \in Nat
      <4>1. ASSUME NEW l, InRange(l) PROVE Entries(l) \in Nat
        <5>1. Len(l.dirs) \in Nat /\ Len(l.files) \in Nat
          BY <4>1, SnapshotParts
        <5> DEFINE a == Len(l.dirs)   b == Len(l.files)
        <5>2. Entries(l) = a + b
          BY DEF Entries
        <5>3. a \in Nat /\ b \in Nat
          BY <5>1
        <5> HIDE DEF a, b
        <5>4. QED BY <5>2, <5>3
      <4>2. QED BY <4>1, <2>1
    <3>2. QED BY <3>1, <2>1
  <2>3. QED BY <2>1, <2>2, SearchesShorten DEF LimitOnlyShortens, Found
<1>2. QED BY <1>1, IInvHolds, PTL

-----------------------------------------------------------------------------
(* No false hit.                                                           *)

\* What a search lists is among what its parts hold.
LEMMA LimitTrue ==
  ASSUME NEW A, NEW dirs \in Seq(A), NEW B, NEW parts \in Seq(Seq(B)), NEW n \in Nat
  PROVE  LET hits == Limit(dirs, Gather(parts, n), n)
         IN  Range(hits.dirs) \subseteq A /\ Range(hits.files) \subseteq B
<1> DEFINE files == FlattenSeq(parts)
           rest == n - Least(n, Len(dirs))
           hits == Limit(dirs, Gather(parts, n), n)
<1>1. /\ hits.dirs = FirstN(dirs, n) /\ hits.files = FirstN(files, rest)
      /\ rest \in 0 .. n /\ files \in Seq(B)
  BY LimitShows
<1> HIDE DEF files, rest, hits
<1>2. hits.dirs \in Seq(A)
  <2>1. FirstN(dirs, n) \in Seq(A)
    BY FirstOf
  <2>2. QED BY <1>1, <2>1
<1>3. hits.files \in Seq(B)
  <2>1. rest \in Nat
    BY <1>1
  <2>2. QED BY <1>1, <2>1, FirstOf
<1>4. QED BY <1>2, <1>3, ElementOfSeq, LenProperties DEF Range, hits

LEMMA SearchIsTrue ==
  ASSUME NEW l, InRange(l), WellNamed(l), NEW words \in Seq(Seq(Byte)), NEW opts \in Options,
         Plain(l, words), NEW n \in Nat
  PROVE  Sound(LiveSearch(l, ParseOpts(words, opts), n), Answer(l, words, opts))
<1> DEFINE q == ParseOpts(words, opts)   right == Answer(l, words, opts)
           dirs == SortedIds(LiveDirs(l, q))   parts == LiveParts(l, q)
<1>1. LiveSearch(l, q, n) = IF IsEmpty(q) THEN NoHits ELSE Limit(dirs, Gather(parts, n), n)
  BY SearchesAre
<1>2. IsEmpty(q) <=> words = <<>>
  BY QueryIs
<1>3. CASE words = <<>>
  <2>1. LiveSearch(l, q, n) = NoHits
    BY <1>1, <1>2, <1>3
  <2>2. Range(NoHits.dirs) = {} /\ Range(NoHits.files) = {}
    BY DEF NoHits, Range
  <2>3. QED BY <2>1, <2>2 DEF Sound
<1>4. CASE words # <<>>
  <2>1. right = [dirs |-> LiveDirs(l, q), files |-> AliveHits(l, q)]
    BY <1>4, AnswerIs
  <2>2. dirs \in Seq(LiveDirs(l, q))
    BY SearchParts DEF Ascending
  <2>3. parts \in Seq(Seq(AliveHits(l, q)))
    BY PartsAreHits
  <2>4. LiveSearch(l, q, n) = Limit(dirs, Gather(parts, n), n)
    BY <1>1, <1>2, <1>4
  <2> HIDE DEF q, dirs, parts, right
  <2>5. /\ Range(Limit(dirs, Gather(parts, n), n).dirs) \subseteq LiveDirs(l, q)
        /\ Range(Limit(dirs, Gather(parts, n), n).files) \subseteq AliveHits(l, q)
    BY <2>2, <2>3, LimitTrue
  <2>6. Sound(LiveSearch(l, q, n), right)
    BY <2>1, <2>4, <2>5 DEF Sound
  <2>7. QED BY <2>6 DEF q, right
<1>5. QED BY <1>3, <1>4

\* A query without the double slash of the exception.
LEMMA NoDoubleSlash ==
  ASSUME NEW l, NEW words, ~DoubleSlash(l, words)
  PROVE  Plain(l, words)
<1> SUFFICES ASSUME l.dirs[Root].name = <<Slash>> PROVE \A i \in DOMAIN words : NoDouble(words[i])
  BY DEF Plain
<1>1. Last(l.dirs[Root].name) = Slash
  BY DEF Last
<1>2. QED BY <1>1 DEF DoubleSlash, NoDouble

LEMMA WordsAre ==
  ASSUME NEW c \in AllCommands
  PROVE  Words(c) \in Seq(Seq(Byte)) /\ c.opts \in Options
<1>1. c.lines \in Seq(Seq(Seq(Byte))) /\ c.opts \in Options
  BY CommandsAre DEF Command
<1>2. FlattenSeq(c.lines) \in Seq(Seq(Byte))
  BY <1>1, FlattenFirst
<1>3. QED BY <1>1, <1>2 DEF Words

\* Whatever the words, options and names are, each entry that LiveSearch lists
\* satisfies every word as the table in search.rs says: the anchor, the
\* prefilter, the window of path_ok_file and the one backtrack point of
\* glob_match let nothing else through.
THEOREM NoFalseHit == Spec => []HitsAreTrue
<1>1. IInv => HitsAreTrue
  <2> SUFFICES ASSUME IInv, ~DoubleSlash(live, Words(cmd)) PROVE Sound(Found, Right)
    BY DEF HitsAreTrue
  <2>1. live \in AllSnapshots /\ cmd \in AllCommands
    BY DEF IInv, WorldInv
  <2>2. InRange(live) /\ WellNamed(live) /\ Unlimited \in Nat
    BY <2>1, ClientAssumption, SearchAssumption
  <2>3. Words(cmd) \in Seq(Seq(Byte)) /\ cmd.opts \in Options
    BY <2>1, WordsAre
  <2>4. Plain(live, Words(cmd))
    BY NoDoubleSlash
  <2>5. QED BY <2>2, <2>3, <2>4, SearchIsTrue DEF Found, Right, Query
<1>2. QED BY <1>1, IInvHolds, PTL

\* Without a daemon the answer is exactly what the table asks for: nothing is
\* missed, nothing is listed twice or out of order, and the total is the number
\* of hits, whatever the limit.
THEOREM FileAnswersExactly == Spec => []FileAnswerExact
<1>1. IInv => FileAnswerExact
  <2> SUFFICES ASSUME IInv, ~DoubleSlash(file, Words(cmd))
               PROVE  FileSearch(file, Query, Unlimited) = AnswerHits(file, Words(cmd), cmd.opts, Unlimited)
    BY DEF FileAnswerExact
  <2>1. file \in Files /\ file \in AllSnapshots /\ cmd \in AllCommands
    BY DEF IInv, WorldInv, AllSnapshots
  <2>2. /\ InRange(file) /\ WellNamed(file) /\ file.deadDirs = {} /\ file.deadFiles = {}
        /\ Unlimited \in Nat
    BY <2>1, ClientAssumption, SearchAssumption
  <2>3. Words(cmd) \in Seq(Seq(Byte)) /\ cmd.opts \in Options
    BY <2>1, WordsAre
  <2>4. Plain(file, Words(cmd))
    BY NoDoubleSlash
  <2>5. QED BY <2>2, <2>3, <2>4, FileSearchIs DEF Query
<1>2. QED BY <1>1, IInvHolds, PTL

-----------------------------------------------------------------------------
(* Each hit, and each once.                                                *)

\* What a part holds, all parts together hold.
LEMMA FlattenCovers ==
  ASSUME NEW S, NEW parts \in Seq(Seq(S))
  PROVE  \A t \in DOMAIN parts : ToSet(parts[t]) \subseteq ToSet(FlattenSeq(parts))
<1>1. DOMAIN parts = 1 .. Len(parts)
  BY LenProperties
<1>2. ASSUME NEW t \in DOMAIN parts, NEW x \in ToSet(parts[t])
      PROVE  x \in ToSet(FlattenSeq(parts))
  <2>1. PICK i \in DOMAIN parts[t] : x = parts[t][i]
    BY <1>2 DEF ToSet
  <2>2. parts[t] \in Seq(S)
    BY ElementOfSeq, <1>1
  <2>3. i \in 1 .. Len(parts[t])
    BY <2>1, <2>2, LenProperties
  <2>4. QED BY <1>1, <2>1, <2>3, FlattenHolds
<1>3. QED BY <1>2

\* Parts of bounded lengths are together not longer than their number allows.
LEMMA FlattenFits ==
  ASSUME NEW S, NEW parts \in Seq(Seq(S)), NEW m \in Nat, \A t \in DOMAIN parts : Len(parts[t]) <= m
  PROVE  Len(parts) * m \in Nat /\ Len(FlattenSeq(parts)) <= Len(parts) * m
<1> DEFINE n == Len(parts)
<1>1. n \in Nat /\ DOMAIN parts = 1 .. n /\ \A i \in 1 .. n : parts[i] \in Seq(S)
  BY LenProperties, ElementOfSeq
<1>2. PICK g \in [0 .. n -> Seq(S)] : Joins(g, parts) /\ FlattenSeq(parts) = g[n]
  BY FlattenJoins
<1>3. g[0] = <<>> /\ \A i \in 1 .. n : g[i] = g[i - 1] \o parts[i]
  BY <1>2 DEF Joins
<1>4. \A i \in Nat : i * m \in Nat
  OBVIOUS
<1> HIDE DEF n
<1> DEFINE T == {i \in 0 .. n : Len(g[i]) <= i * m}
<1>5. 0 \in T
  <2>1. 0 * m = 0 /\ Len(g[0]) = 0
    BY <1>3
  <2>2. QED BY <1>1, <2>1
<1>6. ASSUME NEW i \in 0 .. n - 1, i \in T PROVE i + 1 \in T
  <2>1. i + 1 \in 1 .. n /\ i + 1 \in 0 .. n /\ (i + 1) - 1 = i /\ i \in 0 .. n
    BY <1>1
  <2>2. g[i + 1] = g[i] \o parts[i + 1]
    <3>1. g[i + 1] = g[(i + 1) - 1] \o parts[i + 1]
      BY <2>1, <1>3
    <3>2. QED BY <2>1, <3>1
  <2>3. g[i] \in Seq(S) /\ parts[i + 1] \in Seq(S)
    BY <1>1, <1>2, <2>1
  <2> DEFINE a == g[i]   b == parts[i + 1]
  <2>4. Len(g[i + 1]) = Len(a) + Len(b) /\ Len(a) \in Nat /\ Len(b) \in Nat
    <3>1. a \in Seq(S) /\ b \in Seq(S) /\ g[i + 1] = a \o b
      BY <2>2, <2>3
    <3> HIDE DEF a, b
    <3>2. Len(a \o b) = Len(a) + Len(b)
      BY <3>1, ConcatProperties
    <3>3. QED BY <3>1, <3>2, LenProperties
  <2>5. Len(a) <= i * m /\ Len(b) <= m
    BY <1>1, <1>6, <2>1
  <2>6. (i + 1) * m = i * m + m /\ i * m \in Nat
    <3>1. i + 1 \in Nat \ {0}
      BY <2>1, <1>1
    <3>2. (i + 1) * m = ((i + 1) - 1) * m + m /\ ((i + 1) - 1) * m \in Nat
      BY <3>1, ShareBounds
    <3>3. QED BY <2>1, <3>2
  <2> DEFINE x == i * m   y == (i + 1) * m   k == Len(a)   h == Len(b)   z == Len(g[i + 1])
  <2>7. k <= x /\ h <= m /\ y = x + m /\ x \in Nat /\ z = k + h /\ k \in Nat /\ h \in Nat
    BY <2>4, <2>5, <2>6
  <2> HIDE DEF x, y, k, h, z, a, b
  <2>8. z <= y
    BY <2>7
  <2>9. QED BY <2>1, <2>8 DEF y, z
<1>7. \A i \in 0 .. n : i \in T
  <2> HIDE DEF T
  <2>1. QED BY <1>1, <1>5, <1>6, UpTo
<1>8. n \in T
  BY <1>1, <1>7
<1>9. QED BY <1>1, <1>2, <1>4, <1>8 DEF n

\* A limit that is not reached cuts nothing off.
LEMMA FirstWhole ==
  ASSUME NEW S, NEW s \in Seq(S), NEW n \in Nat, Len(s) <= n
  PROVE  FirstN(s, n) = s
<1>1. /\ FirstN(s, n) \in Seq(S) /\ Len(FirstN(s, n)) = Least(n, Len(s))
      /\ Len(s) \in Nat /\ \A i \in 1 .. Least(n, Len(s)) : FirstN(s, n)[i] = s[i]
  BY FirstOf
<1>2. Least(n, Len(s)) = Len(s)
  BY <1>1 DEF Least
<1>3. Len(FirstN(s, n)) = Len(s) /\ \A i \in 1 .. Len(s) : FirstN(s, n)[i] = s[i]
  BY <1>1, <1>2
<1>4. QED BY <1>1, <1>3, SeqEqual

LEMMA WholeSearch ==
  ASSUME NEW A, NEW dirs \in Seq(A), NEW B, NEW parts \in Seq(Seq(B)), NEW n \in Nat,
         Len(dirs) + Len(FlattenSeq(parts)) <= n
  PROVE  LET hits == Limit(dirs, Gather(parts, n), n)
         IN  /\ hits.dirs = dirs /\ hits.files = FlattenSeq(parts)
             /\ hits.total = Len(dirs) + Len(FlattenSeq(parts))
<1> DEFINE files == FlattenSeq(parts)
           rest == n - Least(n, Len(dirs))
           hits == Limit(dirs, Gather(parts, n), n)
<1>1. /\ hits.dirs = FirstN(dirs, n) /\ hits.files = FirstN(files, rest)
      /\ hits.total = Len(dirs) + Len(files)
      /\ rest \in 0 .. n /\ files \in Seq(B)
  BY LimitShows
<1> HIDE DEF files, hits
<1>2. Len(dirs) \in Nat /\ Len(files) \in Nat /\ Len(dirs) + Len(files) <= n
  BY <1>1, LenProperties DEF files
<1>3. Len(dirs) <= n /\ Len(files) <= rest /\ rest \in Nat
  BY <1>2 DEF Least
<1> HIDE DEF rest
<1>4. FirstN(dirs, n) = dirs
  BY <1>3, FirstWhole
<1>5. FirstN(files, rest) = files
  BY <1>1, <1>3, FirstWhole
<1>6. QED BY <1>1, <1>4, <1>5 DEF hits, files

\* A list of ids is not longer than there are ids.
LEMMA AscendingFits ==
  ASSUME NEW n \in Nat, NEW set, set \subseteq 1 .. n, NEW s, Ascending(s, set)
  PROVE  Len(s) \in Nat /\ Len(s) <= n
<1>1. set \subseteq Nat
  OBVIOUS
<1>2. Cardinality(set) = Len(s) /\ Len(s) \in Nat
  BY <1>1, AscendingCounts, AscendingOnce
<1>3. IsFiniteSet(1 .. n) /\ Cardinality(1 .. n) = n
  <2>1. 1 \in Int /\ n \in Int
    OBVIOUS
  <2>2. IsFiniteSet(1 .. n) /\ Cardinality(1 .. n) = IF 1 > n THEN 0 ELSE n - 1 + 1
    BY <2>1, FS_Interval
  <2>3. QED BY <2>2
<1>4. Cardinality(set) <= Cardinality(1 .. n)
  BY <1>3, FS_Subset
<1>5. QED BY <1>2, <1>3, <1>4

\* What the search of a snapshot finds is never cut at the limit Unlimited.
LEMMA LiveIsWhole ==
  ASSUME NEW l, InRange(l), MostHits(l) <= Unlimited, NEW q
  PROVE  LET dirs  == SortedIds(LiveDirs(l, q))
             files == FlattenSeq(LiveParts(l, q))
             hits  == Limit(dirs, Gather(LiveParts(l, q), Unlimited), Unlimited)
         IN  hits.dirs = dirs /\ hits.files = files /\ hits.total = Len(dirs) + Len(files)
<1> DEFINE dirs == SortedIds(LiveDirs(l, q))   parts == LiveParts(l, q)   files == FlattenSeq(parts)
           D == Len(l.dirs)   N == Len(l.files)   k == NThreads + 1
<1>1. D \in Nat /\ N \in Nat /\ NThreads \in Nat /\ Unlimited \in Nat /\ k \in Nat
      /\ DOMAIN l.dirs = 1 .. D /\ DOMAIN l.files = 1 .. N
  BY SnapshotParts, SearchAssumption
<1>2. D + k * N <= Unlimited
  BY DEF MostHits
<1>3. dirs \in Seq(DOMAIN l.dirs) /\ parts \in Seq(Seq(DOMAIN l.files))
  BY PartsAreIds
<1>4. Len(dirs) \in Nat /\ Len(dirs) <= D
  <2>1. Ascending(dirs, LiveDirs(l, q)) /\ LiveDirs(l, q) \subseteq 1 .. D
    BY <1>1, SearchParts
  <2> HIDE DEF dirs, D
  <2>2. QED BY <1>1, <2>1, AscendingFits
<1>5. Len(files) \in Nat /\ Len(files) <= k * N /\ k * N \in Nat
  <2>1. Len(files) \in Nat
    <3>1. files \in Seq(DOMAIN l.files)
      BY <1>3, FlattenFirst
    <3>2. QED BY <3>1, LenProperties
  <2>2. k * N \in Nat
    <3> HIDE DEF k, N
    <3>1. QED BY <1>1
  <2>3. CASE WantsFiles(q)
    <3>1. /\ Len(parts) = k
          /\ \A t \in 1 .. NThreads : parts[t] = SortedIds(BaseHits(l, q, t))
          /\ parts[k] = SortedIds(DeltaHits(l, q))
      BY <2>3, LivePartsAre
    <3>2. /\ Ascending(SortedIds(DeltaHits(l, q)), DeltaHits(l, q)) /\ DeltaHits(l, q) \subseteq 1 .. N
          /\ \A t \in 1 .. NThreads : /\ Ascending(SortedIds(BaseHits(l, q, t)), BaseHits(l, q, t))
                                      /\ BaseHits(l, q, t) \subseteq 1 .. N
      <4>1. BaseFiles(l) \subseteq 1 .. N
        BY <1>1, SnapshotParts
      <4>2. QED BY <1>1, <4>1, SearchParts
    <3> HIDE DEF parts, N
    <3>3. Len(SortedIds(DeltaHits(l, q))) <= N /\ \A t \in 1 .. NThreads : Len(SortedIds(BaseHits(l, q, t))) <= N
      BY <1>1, <3>2, AscendingFits
    <3>4. DOMAIN parts = 1 .. k /\ \A t \in 1 .. k : t \in 1 .. NThreads \/ t = k
      BY <1>1, <1>3, <3>1, LenProperties
    <3>5. \A t \in DOMAIN parts : Len(parts[t]) <= N
      BY <3>1, <3>3, <3>4
    <3>6. Len(FlattenSeq(parts)) <= Len(parts) * N
      BY <1>1, <1>3, <3>5, FlattenFits
    <3>7. QED BY <2>1, <2>2, <3>1, <3>6
  <2>4. CASE ~WantsFiles(q)
    <3>1. parts = <<>>
      BY <2>4 DEF LiveParts
    <3>2. files = <<>> /\ Len(files) = 0
      BY <3>1, FlattenNone
    <3> HIDE DEF files, k, N
    <3>3. QED BY <2>2, <3>2
  <2>5. QED BY <2>3, <2>4
<1>6. Len(dirs) + Len(files) <= Unlimited
  <2> DEFINE x == k * N   a == Len(dirs)   b == Len(files)
  <2>1. a \in Nat /\ b \in Nat /\ x \in Nat /\ a <= D /\ b <= x /\ D + x <= Unlimited
    BY <1>2, <1>4, <1>5
  <2> HIDE DEF x, a, b, D
  <2>2. a + b <= Unlimited
    BY <1>1, <2>1
  <2>3. QED BY <2>2 DEF a, b
<1> HIDE DEF dirs, parts
<1>7. QED BY <1>1, <1>3, <1>6, WholeSearch DEF dirs, parts

\* Nothing is listed or counted twice.
LEMMA SearchCountsOnce ==
  ASSUME NEW l, InRange(l), MostHits(l) <= Unlimited, NEW words \in Seq(Seq(Byte)), NEW opts,
         ~Spread(l, Anchor(ParseOpts(words, opts)))
  PROVE  Once(LiveSearch(l, ParseOpts(words, opts), Unlimited))
<1> DEFINE q == ParseOpts(words, opts)
           dirs == SortedIds(LiveDirs(l, q))   files == FlattenSeq(LiveParts(l, q))
           hits == Limit(dirs, Gather(LiveParts(l, q), Unlimited), Unlimited)
<1>1. LiveSearch(l, q, Unlimited) = IF IsEmpty(q) THEN NoHits ELSE hits
  BY SearchesAre
<1>2. CASE IsEmpty(q)
  <2>1. Once(NoHits)
    BY DEF Once, NoHits, IsInjective
  <2>2. QED BY <1>1, <1>2, <2>1
<1>3. CASE ~IsEmpty(q)
  <2> HIDE DEF q
  <2>1. hits.dirs = dirs /\ hits.files = files /\ hits.total = Len(dirs) + Len(files)
    BY LiveIsWhole
  <2>2. IsInjective(files)
    <3>1. CASE WantsFiles(q)
      <4>1. Anchor(q) \in Seq(Byte)
        BY AnchorIs DEF q
      <4>2. Ascending(files, LiveFiles(l, q)) /\ LiveFiles(l, q) \subseteq DOMAIN l.files
        BY <3>1, <4>1, LiveJoin, LivePartsAre DEF q
      <4>3. LiveFiles(l, q) \subseteq Nat
        BY <4>2, SnapshotParts
      <4> HIDE DEF files
      <4>4. \A i, j \in DOMAIN files : files[i] = files[j] => i = j
        BY <4>2, <4>3, AscendingOnce
      <4>5. QED BY <4>4 DEF IsInjective
    <3>2. CASE ~WantsFiles(q)
      <4>1. LiveParts(l, q) = <<>>
        BY <3>2 DEF LiveParts
      <4>2. files = <<>>
        BY <4>1, FlattenNone
      <4> HIDE DEF files
      <4>3. QED BY <4>2 DEF IsInjective
    <3>3. QED BY <3>1, <3>2
  <2> HIDE DEF hits, dirs, files
  <2>3. Once(hits)
    BY <2>1, <2>2 DEF Once
  <2>4. QED BY <1>1, <1>3, <2>3 DEF q
<1>4. QED BY <1>2, <1>3

\* Nothing that the table asks for is missed.
LEMMA SearchIsComplete ==
  ASSUME NEW l, InRange(l), WellNamed(l), MostHits(l) <= Unlimited, NEW words \in Seq(Seq(Byte)), NEW opts \in Options
  PROVE  Complete(LiveSearch(l, ParseOpts(words, opts), Unlimited),
                  [Answer(l, words, opts) EXCEPT !.files = @ \ Hidden(l, Anchor(ParseOpts(words, opts)))])
<1> DEFINE q == ParseOpts(words, opts)   hidden == Hidden(l, Anchor(q))
           right == [Answer(l, words, opts) EXCEPT !.files = @ \ hidden]
           dirs == SortedIds(LiveDirs(l, q))   parts == LiveParts(l, q)
           hits == Limit(dirs, Gather(parts, Unlimited), Unlimited)
<1>1. LiveSearch(l, q, Unlimited) = IF IsEmpty(q) THEN NoHits ELSE hits
  BY SearchesAre
<1>2. IsEmpty(q) <=> words = <<>>
  BY QueryIs
<1>3. CASE words = <<>>
  <2>1. right.dirs = {} /\ right.files = {}
    BY <1>3 DEF Answer
  <2>2. QED BY <2>1 DEF Complete
<1>4. CASE words # <<>>
  <2>1. right.dirs = LiveDirs(l, q) /\ right.files \subseteq AliveHits(l, q) \ hidden
    BY <1>4, AnswerWithin DEF Answer
  <2>2. Anchor(q) \in Seq(Byte)
    BY AnchorIs
  <2>3. LiveSearch(l, q, Unlimited) = hits
    BY <1>1, <1>2, <1>4
  <2>4. hits.dirs = dirs /\ hits.files = FlattenSeq(parts)
    BY LiveIsWhole
  <2>5. \A f \in AliveHits(l, q) : f \in DOMAIN l.files /\ f \notin l.deadFiles /\ FileHit(l, q, f) /\ WantsFiles(q)
    BY DEF AliveHits, AliveFiles
  <2>6. \A f \in DOMAIN l.files : FileHit(l, q, f) => ContainsCi(l.files[f].name, Anchor(q))
    BY AnchorInName
  <2>7. \A f \in BaseFiles(l) \ hidden :
          ContainsCi(l.files[f].name, Anchor(q)) => \E t \in 1 .. NThreads : f \in Candidates(l, q, t)
    BY <2>2, HitsAreCompared
  <2> HIDE DEF q, right, hidden
  <2>8. LiveDirs(l, q) \subseteq Range(dirs)
    <3>1. \A x \in LiveDirs(l, q) : \E i \in DOMAIN dirs : dirs[i] = x
      BY SearchParts DEF Ascending
    <3> HIDE DEF dirs
    <3>2. QED BY <3>1 DEF Range
  <2>9. ASSUME NEW f \in AliveHits(l, q) \ hidden PROVE f \in Range(FlattenSeq(parts))
    <3>1. f \in DOMAIN l.files /\ f \notin l.deadFiles /\ FileHit(l, q, f) /\ WantsFiles(q)
      BY <2>5
    <3>2. /\ NThreads \in Nat /\ Len(parts) = NThreads + 1
          /\ \A t \in 1 .. NThreads : parts[t] = SortedIds(BaseHits(l, q, t))
          /\ parts[NThreads + 1] = SortedIds(DeltaHits(l, q))
          /\ parts \in Seq(Seq(DOMAIN l.files))
      BY <3>1, LivePartsAre
    <3>3. /\ \A x \in DeltaHits(l, q) : \E i \in DOMAIN SortedIds(DeltaHits(l, q)) : SortedIds(DeltaHits(l, q))[i] = x
          /\ \A t \in 1 .. NThreads : \A x \in BaseHits(l, q, t) :
               \E i \in DOMAIN SortedIds(BaseHits(l, q, t)) : SortedIds(BaseHits(l, q, t))[i] = x
      BY SearchParts DEF Ascending
    <3> HIDE DEF parts
    <3>4. DOMAIN parts = 1 .. NThreads + 1
      BY <3>2, LenProperties
    <3>5. \E t \in DOMAIN parts : f \in ToSet(parts[t])
      <4>1. CASE f \in BaseFiles(l)
        <5>1. PICK t \in 1 .. NThreads : f \in Candidates(l, q, t)
          BY <2>6, <2>7, <3>1, <4>1
        <5>2. f \in BaseHits(l, q, t)
          BY <3>1, <5>1 DEF BaseHits
        <5>3. PICK i \in DOMAIN SortedIds(BaseHits(l, q, t)) : SortedIds(BaseHits(l, q, t))[i] = f
          BY <3>3, <5>2
        <5>4. i \in DOMAIN parts[t] /\ parts[t][i] = f
          BY <3>2, <5>3
        <5>5. t \in DOMAIN parts
          BY <3>2, <3>4
        <5>6. QED BY <5>4, <5>5 DEF ToSet
      <4>2. CASE f \notin BaseFiles(l)
        <5>1. f \in DeltaHits(l, q)
          BY <3>1, <4>2 DEF DeltaHits, AliveFiles
        <5>2. PICK i \in DOMAIN SortedIds(DeltaHits(l, q)) : SortedIds(DeltaHits(l, q))[i] = f
          BY <3>3, <5>1
        <5>3. NThreads + 1 \in DOMAIN parts
          BY <3>2, <3>4
        <5>4. i \in DOMAIN parts[NThreads + 1] /\ parts[NThreads + 1][i] = f
          BY <3>2, <5>2
        <5>5. QED BY <5>3, <5>4 DEF ToSet
      <4>3. QED BY <4>1, <4>2
    <3>6. \A t \in DOMAIN parts : ToSet(parts[t]) \subseteq ToSet(FlattenSeq(parts))
      BY <3>2, FlattenCovers
    <3>7. f \in ToSet(FlattenSeq(parts))
      BY <3>5, <3>6
    <3>8. QED BY <3>7 DEF ToSet, Range
  <2> HIDE DEF hits, dirs, parts
  <2>10. Complete(hits, right)
    BY <2>1, <2>4, <2>8, <2>9 DEF Complete
  <2>11. QED BY <2>3, <2>10 DEF q, right, hidden
<1>5. QED BY <1>3, <1>4

\* No entry is listed or counted twice, whichever threads meet it: a file whose
\* name lies at the end of a share, or holds the anchor twice, is given by one
\* thread only unless its occurrences begin in two shares.
THEOREM CountsOnce == Spec => []CountedOnce
<1>1. IInv => CountedOnce
  <2> SUFFICES ASSUME IInv, ~Spread(live, Anchor(Query)) PROVE Once(Found)
    BY DEF CountedOnce
  <2>1. live \in AllSnapshots /\ cmd \in AllCommands
    BY DEF IInv, WorldInv
  <2>2. InRange(live) /\ MostHits(live) <= Unlimited
    BY <2>1, ClientAssumption
  <2>3. Words(cmd) \in Seq(Seq(Byte))
    BY <2>1, WordsAre
  <2>4. QED BY <2>2, <2>3, SearchCountsOnce DEF Found, Query
<1>2. QED BY <1>1, IInvHolds, PTL

\* The daemon's search misses nothing that satisfies every word, in the base or
\* the delta, across the ends of shares and of names, but for the files in
\* whose names every occurrence of the anchor overlaps one that begins before.
THEOREM MissesNothing == Spec => []NothingLost
<1>1. IInv => NothingLost
  <2> SUFFICES ASSUME IInv
               PROVE  Complete(Found, [Right EXCEPT !.files = @ \ Hidden(live, Anchor(Query))])
    BY DEF NothingLost
  <2>1. live \in AllSnapshots /\ cmd \in AllCommands
    BY DEF IInv, WorldInv
  <2>2. InRange(live) /\ WellNamed(live) /\ MostHits(live) <= Unlimited
    BY <2>1, ClientAssumption
  <2>3. Words(cmd) \in Seq(Seq(Byte)) /\ cmd.opts \in Options
    BY <2>1, WordsAre
  <2>4. QED BY <2>2, <2>3, SearchIsComplete DEF Found, Right, Query
<1>2. QED BY <1>1, IInvHolds, PTL

-----------------------------------------------------------------------------
(* Lines that are split and put together again.                            *)

\* One part in front.
LEMMA FlattenCons ==
  ASSUME NEW S, NEW x \in Seq(S), NEW s \in Seq(Seq(S))
  PROVE  FlattenSeq(<<x>> \o s) = x \o FlattenSeq(s)
<1> DEFINE n == Len(s)   all == <<x>> \o s
<1>1. n \in Nat /\ \A i \in 1 .. n : s[i] \in Seq(S)
  BY LenProperties, ElementOfSeq
<1>2. all \in Seq(Seq(S)) /\ Len(all) = n + 1 /\ all[1] = x /\ \A i \in 1 .. n : all[i + 1] = s[i]
  <2> DEFINE one == <<x>>
  <2>1. one \in Seq(Seq(S)) /\ Len(one) = 1 /\ one[1] = x
    OBVIOUS
  <2> HIDE DEF one
  <2>2. /\ one \o s \in Seq(Seq(S)) /\ Len(one \o s) = Len(one) + Len(s)
        /\ \A i \in 1 .. Len(one) + Len(s) : (one \o s)[i] = IF i <= Len(one) THEN one[i] ELSE s[i - Len(one)]
    BY <2>1, ConcatProperties
  <2> DEFINE both == one \o s
  <2> HIDE DEF both
  <2>3. /\ both \in Seq(Seq(S)) /\ Len(both) = 1 + n
        /\ \A i \in 1 .. 1 + n : both[i] = IF i <= 1 THEN one[i] ELSE s[i - 1]
    BY <2>1, <2>2 DEF both
  <2> HIDE DEF n
  <2>4. both[1] = x
    BY <1>1, <2>1, <2>3
  <2>5. ASSUME NEW i \in 1 .. n PROVE both[i + 1] = s[i]
    <3>1. i + 1 \in 1 .. 1 + n /\ ~(i + 1 <= 1) /\ (i + 1) - 1 = i
      BY <1>1
    <3>2. QED BY <2>3, <3>1
  <2>6. QED BY <1>1, <2>3, <2>4, <2>5 DEF both, one
<1> HIDE DEF all
<1>3. PICK f \in [0 .. n -> Seq(S)] : Joins(f, s) /\ FlattenSeq(s) = f[n]
  BY FlattenJoins
<1>4. PICK h \in [0 .. n + 1 -> Seq(S)] : Joins(h, all) /\ FlattenSeq(all) = h[n + 1]
  <2>1. \E h \in [0 .. Len(all) -> Seq(S)] : Joins(h, all) /\ FlattenSeq(all) = h[Len(all)]
    BY <1>2, FlattenJoins
  <2>2. QED BY <1>2, <2>1
<1>5. /\ f[0] = <<>> /\ \A i \in 1 .. n : f[i] = f[i - 1] \o s[i]
      /\ h[0] = <<>> /\ \A i \in 1 .. n + 1 : h[i] = h[i - 1] \o all[i]
  BY <1>2, <1>3, <1>4 DEF Joins
<1> HIDE DEF n
<1> DEFINE T == {i \in 0 .. n : h[i + 1] = x \o f[i]}
<1>6. 0 \in T
  <2>1. 1 \in 1 .. n + 1 /\ 1 - 1 = 0 /\ 0 + 1 = 1 /\ 0 \in 0 .. n
    BY <1>1
  <2>2. h[1] = h[0] \o all[1]
    BY <1>5, <2>1
  <2>3. <<>> \o x = x /\ x \o <<>> = x
    BY ConcatEmptySeq
  <2>4. h[1] = x /\ x \o f[0] = x
    BY <1>2, <1>5, <2>2, <2>3
  <2>5. QED BY <2>1, <2>4
<1>7. ASSUME NEW i \in 0 .. n - 1, i \in T PROVE i + 1 \in T
  <2>1. /\ i + 1 \in 1 .. n /\ i + 1 \in 0 .. n /\ (i + 1) - 1 = i /\ i \in 0 .. n
        /\ (i + 1) + 1 \in 1 .. n + 1 /\ ((i + 1) + 1) - 1 = i + 1
    BY <1>1
  <2>2. f[i + 1] = f[i] \o s[i + 1]
    <3>1. f[i + 1] = f[(i + 1) - 1] \o s[i + 1]
      BY <2>1, <1>5
    <3>2. QED BY <2>1, <3>1
  <2>3. h[(i + 1) + 1] = h[i + 1] \o s[i + 1]
    <3>1. h[(i + 1) + 1] = h[((i + 1) + 1) - 1] \o all[(i + 1) + 1]
      BY <2>1, <1>5
    <3>2. all[(i + 1) + 1] = s[i + 1]
      BY <2>1, <1>2
    <3>3. QED BY <2>1, <3>1, <3>2
  <2>4. h[i + 1] = x \o f[i]
    BY <1>7
  <2>5. (x \o f[i]) \o s[i + 1] = x \o (f[i] \o s[i + 1])
    <3>1. f[i] \in Seq(S) /\ s[i + 1] \in Seq(S)
      BY <2>1, <1>1, <1>3
    <3> DEFINE p == f[i]   q == s[i + 1]
    <3> HIDE DEF p, q
    <3>2. p \in Seq(S) /\ q \in Seq(S)
      BY <3>1 DEF p, q
    <3>3. (x \o p) \o q = x \o (p \o q)
      BY <3>2, ConcatAssociative
    <3>4. QED BY <3>3 DEF p, q
  <2>6. h[(i + 1) + 1] = x \o f[i + 1]
    BY <2>2, <2>3, <2>4, <2>5, Zenon
  <2>7. QED BY <2>1, <2>6
<1>8. \A i \in 0 .. n : i \in T
  <2> HIDE DEF T
  <2>1. QED BY <1>1, <1>6, <1>7, UpTo
<1>9. n \in T
  BY <1>1, <1>8
<1>10. QED BY <1>3, <1>4, <1>9 DEF all

TerminatesFirst(B, sep) ==
  \A p \in Seq(B) : \A s \in Seq(Seq(B)) :
    Terminated(<<p>> \o s, sep) = Append(p, sep) \o Terminated(s, sep)

\* One line in front.
LEMMA TerminatedCons ==
  ASSUME NEW B, NEW sep \in B
  PROVE  TerminatesFirst(B, sep)
<1> SUFFICES ASSUME NEW p \in Seq(B), NEW s \in Seq(Seq(B))
             PROVE  Terminated(<<p>> \o s, sep) = Append(p, sep) \o Terminated(s, sep)
  BY DEF TerminatesFirst
<1> DEFINE n == Len(s)   all == <<p>> \o s   x == Append(p, sep)
           E(lines) == [i \in DOMAIN lines |-> Append(lines[i], sep)]
<1>1. n \in Nat /\ DOMAIN s = 1 .. n /\ \A i \in 1 .. n : s[i] \in Seq(B)
  BY LenProperties, ElementOfSeq
<1>2. DOMAIN all = 1 .. 1 + n /\ all[1] = p /\ \A i \in 1 .. n : all[1 + i] = s[i]
  <2> DEFINE one == <<p>>
  <2>1. one \in Seq(Seq(B)) /\ Len(one) = 1 /\ one[1] = p
    OBVIOUS
  <2> DEFINE S == Seq(B)
  <2> HIDE DEF one
  <2>0. one \in Seq(S) /\ s \in Seq(S)
    BY <2>1
  <2> HIDE DEF S
  <2>2. /\ one \o s \in Seq(S)
        /\ DOMAIN (one \o s) = 1 .. Len(one) + Len(s)
        /\ DOMAIN one = 1 .. Len(one) /\ DOMAIN s = 1 .. Len(s) /\ Len(one) \in Nat /\ Len(s) \in Nat
        /\ \A i \in DOMAIN one : (one \o s)[i] = one[i]
        /\ \A i \in DOMAIN s : (one \o s)[Len(one) + i] = s[i]
        /\ ToSet(one \o s) = ToSet(one) \cup ToSet(s)
    BY ONLY <2>0, Joined
  <2> DEFINE both == one \o s
  <2> HIDE DEF both
  <2>3. /\ DOMAIN both = 1 .. 1 + n /\ 1 \in DOMAIN one
        /\ \A i \in DOMAIN one : both[i] = one[i]
        /\ \A i \in 1 .. n : both[1 + i] = s[i]
    <3>1. Len(one) = 1 /\ 1 \in 1 .. 1
      BY <2>1
    <3>2. QED BY <1>1, <2>2, <3>1 DEF both
  <2>4. both[1] = p
    BY <2>1, <2>3
  <2>5. QED BY <2>3, <2>4 DEF both, one
<1>3. x \in Seq(B)
  BY AppendProperties
<1>4. E(s) \in Seq(Seq(B)) /\ Len(E(s)) = n /\ \A i \in 1 .. n : E(s)[i] = Append(s[i], sep)
  <2>1. ASSUME NEW i \in 1 .. n PROVE Append(s[i], sep) \in Seq(B)
    BY <1>1, AppendProperties
  <2>2. E(s) \in [1 .. n -> Seq(B)]
    BY <1>1, <2>1
  <2>3. E(s) \in Seq(Seq(B)) /\ Len(E(s)) = n
    BY <1>1, <2>2, FunctionIsSeq
  <2>4. QED BY <1>1, <2>3
<1> HIDE DEF all, x
<1>5. E(all) = <<x>> \o E(s)
  <2> DEFINE one == <<x>>   es == E(s)
  <2>1. one \in Seq(Seq(B)) /\ Len(one) = 1 /\ one[1] = x
    BY <1>3
  <2>2. es \in Seq(Seq(B)) /\ Len(es) = n /\ \A i \in 1 .. n : es[i] = Append(s[i], sep)
    BY <1>4
  <2> DEFINE S == Seq(B)
  <2> HIDE DEF one, es
  <2>0. one \in Seq(S) /\ es \in Seq(S)
    BY <2>1, <2>2
  <2> HIDE DEF S
  <2>3. /\ one \o es \in Seq(S)
        /\ DOMAIN (one \o es) = 1 .. Len(one) + Len(es)
        /\ DOMAIN one = 1 .. Len(one) /\ DOMAIN es = 1 .. Len(es) /\ Len(one) \in Nat /\ Len(es) \in Nat
        /\ \A i \in DOMAIN one : (one \o es)[i] = one[i]
        /\ \A i \in DOMAIN es : (one \o es)[Len(one) + i] = es[i]
        /\ ToSet(one \o es) = ToSet(one) \cup ToSet(es)
    BY ONLY <2>0, Joined
  <2> DEFINE both == one \o es   ea == E(all)
  <2> HIDE DEF both
  <2>4. /\ both \in Seq(Seq(B)) /\ DOMAIN both = 1 .. 1 + n /\ both[1] = x
        /\ \A i \in 1 .. n : both[1 + i] = Append(s[i], sep)
    <3>1. 1 \in DOMAIN one
      BY <2>1, <2>3
    <3>2. both[1] = x
      BY <2>1, <2>3, <3>1 DEF both
    <3>3. \A i \in 1 .. n : both[1 + i] = es[i]
      BY <2>1, <2>2, <2>3 DEF both
    <3>4. both \in Seq(S) /\ DOMAIN both = 1 .. 1 + n
      <4>1. Len(one) = 1 /\ Len(es) = n
        BY <2>1, <2>2
      <4>2. QED BY <2>3, <4>1 DEF both
    <3>5. QED BY <2>2, <3>2, <3>3, <3>4 DEF S
  <2>5. DOMAIN ea = 1 .. 1 + n /\ ea[1] = x /\ \A i \in 1 .. n : ea[1 + i] = Append(s[i], sep)
    <3>1. 1 \in 1 .. 1 + n /\ \A i \in 1 .. n : 1 + i \in 1 .. 1 + n
      BY <1>1
    <3>2. \A j \in 1 .. 1 + n : ea[j] = Append(all[j], sep)
      BY <1>2
    <3>3. DOMAIN ea = 1 .. 1 + n
      BY <1>2
    <3> HIDE DEF ea
    <3>4. QED BY <1>2, <3>1, <3>2, <3>3 DEF x
  <2>6. \A j \in 1 .. 1 + n : ea[j] = both[j]
    <3> HIDE DEF ea
    <3>1. ASSUME NEW j \in 1 .. 1 + n PROVE ea[j] = both[j]
      <4>1. CASE j = 1
        BY <4>1, <2>4, <2>5
      <4>2. CASE j # 1
        <5>1. j - 1 \in 1 .. n /\ 1 + (j - 1) = j
          BY <1>1, <4>2
        <5>2. ea[1 + (j - 1)] = both[1 + (j - 1)]
          BY <2>4, <2>5, <5>1
        <5>3. QED BY <5>1, <5>2
      <4>3. QED BY <4>1, <4>2
    <3>2. QED BY <3>1
  <2>7. ea = both
    <3>1. ea = [j \in 1 .. 1 + n |-> ea[j]]
      BY <2>5
    <3>2. both = [j \in 1 .. 1 + n |-> both[j]]
      BY <2>4
    <3> HIDE DEF ea
    <3>3. QED BY <2>6, <3>1, <3>2
  <2>8. QED BY <2>7 DEF both, one, es
<1>6. FlattenSeq(<<x>> \o E(s)) = x \o FlattenSeq(E(s))
  <2> DEFINE es == E(s)
  <2>1. es \in Seq(Seq(B))
    BY <1>4
  <2> HIDE DEF es
  <2>2. FlattenSeq(<<x>> \o es) = x \o FlattenSeq(es)
    BY <1>3, <2>1, FlattenCons
  <2>3. QED BY <2>2 DEF es
<1>7. Terminated(all, sep) = FlattenSeq(E(all)) /\ Terminated(s, sep) = FlattenSeq(E(s))
  BY DEF Terminated
<1> HIDE DEF E
<1>8. QED BY <1>5, <1>6, <1>7 DEF all, x

\* Each byte of a terminated text is of some line or ends it.
LEMMA LineOf ==
  ASSUME NEW C, NEW lines \in Seq(Seq(C)), NEW sep, NEW text \in Seq(C \cup {sep}),
         NEW a \in [0 .. Len(lines) -> Nat], LiesAt(a, text, lines, sep),
         NEW p \in 1 .. Len(text)
  PROVE  \E k \in 1 .. Len(lines) : a[k - 1] < p /\ p <= a[k]
<1> DEFINE n == Len(lines)
           T == {m \in 0 .. n : p <= a[m] => \E k \in 1 .. n : a[k - 1] < p /\ p <= a[k]}
<1>1. n \in Nat /\ Len(text) \in Nat
  BY LenProperties
<1>2. a[0] = 0 /\ a[n] = Len(text)
  BY DEF LiesAt
<1> HIDE DEF n
<1>3. 0 \in T
  <2>1. 0 \in 0 .. n /\ ~(p <= a[0])
    BY <1>1, <1>2
  <2>2. QED BY <2>1
<1>4. ASSUME NEW m \in 0 .. n - 1, m \in T PROVE m + 1 \in T
  <2>1. m + 1 \in 1 .. n /\ (m + 1) - 1 = m /\ m + 1 \in 0 .. n /\ m \in 0 .. n
    BY <1>1
  <2>2. a[m] \in Nat /\ p \in Nat
    BY <2>1, <1>1 DEF n
  <2>3. CASE p <= a[m]
    BY <2>1, <2>3, <1>4
  <2>4. CASE ~(p <= a[m])
    <3>1. a[(m + 1) - 1] < p
      BY <2>1, <2>2, <2>4
    <3>2. QED BY <2>1, <3>1
  <2>5. QED BY <2>3, <2>4
<1>5. \A m \in 0 .. n : m \in T
  <2> HIDE DEF T
  <2>1. QED BY <1>1, <1>3, <1>4, UpTo
<1>6. n \in T /\ p <= a[n]
  BY <1>1, <1>2, <1>5
<1>7. QED BY <1>6 DEF n

\* A text of lines that are not empty, each with its separator.
Neat(text, sep) ==
  /\ text # <<>> => text[1] # sep /\ text[Len(text)] = sep
  /\ \A i \in 1 .. Len(text) - 1 : text[i] = sep => text[i + 1] # sep

\* A line that a reader who takes the text apart at sep would find again.
NeatLine(line, sep) ==
  \A i \in DOMAIN line : line[i] = sep => i \notin {1, Len(line)} /\ line[i + 1] # sep

LEMMA NeatLines ==
  ASSUME NEW C, NEW lines \in Seq(Seq(C) \ {<<>>}), NEW sep, \A k \in DOMAIN lines : NeatLine(lines[k], sep)
  PROVE  Neat(Terminated(lines, sep), sep)
<1> DEFINE n == Len(lines)
           text == Terminated(lines, sep)
           L == Len(text)
<1>1. /\ n \in Nat /\ DOMAIN lines = 1 .. n
      /\ \A k \in 1 .. n : lines[k] \in Seq(C) /\ Len(lines[k]) \in Nat /\ Len(lines[k]) > 0
  <2>1. n \in Nat /\ DOMAIN lines = 1 .. n /\ \A k \in 1 .. n : lines[k] \in Seq(C) \ {<<>>}
    BY LenProperties, ElementOfSeq
  <2>2. \A s \in Seq(C) \ {<<>>} : Len(s) \in Nat /\ Len(s) > 0
    BY LenProperties, EmptySeq
  <2>3. QED BY <2>1, <2>2
<1>2. lines \in Seq(Seq(C))
  BY SeqMonotonic
<1>3. text \in Seq(C \cup {sep}) /\ \E a \in [0 .. n -> Nat] : LiesAt(a, text, lines, sep)
  BY <1>2, TerminatedLies
<1>4. PICK a \in [0 .. n -> Nat] : LiesAt(a, text, lines, sep)
  BY <1>3
<1> HIDE DEF text
<1>5. /\ a[0] = 0 /\ a[n] = L
      /\ \A k \in 1 .. n : /\ a[k] = a[k - 1] + Len(lines[k]) + 1 /\ a[k] <= L
                           /\ text[a[k]] = sep
                           /\ \A j \in 1 .. Len(lines[k]) : text[a[k - 1] + j] = lines[k][j]
  BY <1>4 DEF LiesAt
<1>6. L \in Nat
  BY <1>3, LenProperties
<1>7. \A p \in 1 .. L : \E k \in 1 .. n : a[k - 1] < p /\ p <= a[k]
  BY <1>2, <1>3, <1>4, LineOf
<1>8. ASSUME NEW k \in 1 .. n PROVE text[a[k - 1] + 1] # sep
  <2>1. 1 \in 1 .. Len(lines[k]) /\ 1 \in DOMAIN lines[k]
    <3>1. lines[k] \in Seq(C) /\ Len(lines[k]) \in Nat /\ Len(lines[k]) > 0
      BY <1>1
    <3>2. DOMAIN lines[k] = 1 .. Len(lines[k])
      BY <3>1, LenProperties
    <3>3. QED BY <3>1, <3>2
  <2>2. text[a[k - 1] + 1] = lines[k][1]
    BY <2>1, <1>5
  <2>3. k \in DOMAIN lines
    BY <1>1
  <2>4. lines[k][1] # sep
    BY <2>1, <2>3 DEF NeatLine
  <2>5. QED BY <2>2, <2>4
<1> HIDE DEF n
<1>9. ASSUME L # 0 PROVE text[1] # sep /\ text[L] = sep
  <2>1. 1 \in 1 .. L
    BY <1>6, <1>9
  <2>2. PICK k \in 1 .. n : a[k - 1] < 1 /\ 1 <= a[k]
    BY <2>1, <1>7
  <2>3. n \in 1 .. n /\ 1 \in 1 .. n /\ 1 - 1 = 0
    BY <2>2, <1>1
  <2>4. text[0 + 1] # sep
    BY <2>3, <1>5, <1>8
  <2>5. text[a[n]] = sep
    BY <2>3, <1>5
  <2>6. QED BY <2>4, <2>5, <1>5
<1>10. ASSUME NEW p \in 1 .. L - 1, text[p] = sep PROVE text[p + 1] # sep
  <2>1. p \in 1 .. L /\ p # L /\ p + 1 \in 1 .. L
    BY <1>6
  <2>2. PICK k \in 1 .. n : a[k - 1] < p /\ p <= a[k]
    BY <2>1, <1>7
  <2> DEFINE b == a[k - 1]   m == Len(lines[k])
  <2>3. b \in Nat /\ m \in Nat /\ k - 1 \in 0 .. n /\ k \in 0 .. n /\ k \in Nat
    BY <1>1
  <2>4. a[k] = b + m + 1 /\ \A j \in 1 .. m : text[b + j] = lines[k][j]
    BY <1>5
  <2> HIDE DEF b, m
  <2>5. CASE p = a[k]
    <3>1. k # n
      BY <2>1, <2>5, <1>5
    <3>2. k + 1 \in 1 .. n /\ (k + 1) - 1 = k
      BY <3>1, <2>3, <1>1
    <3>3. text[a[(k + 1) - 1] + 1] # sep
      BY <3>2, <1>8
    <3>4. QED BY <2>5, <3>2, <3>3
  <2>6. CASE p # a[k]
    <3> DEFINE j == p - b
    <3>1. j \in 1 .. m /\ b + j = p /\ p + 1 = b + (j + 1)
      BY <2>1, <2>2, <2>3, <2>4, <2>6 DEF b
    <3>2. text[p] = lines[k][j]
      BY <2>4, <3>1
    <3> HIDE DEF j
    <3>3. DOMAIN lines[k] = 1 .. m
      <4>1. lines[k] \in Seq(C)
        BY <1>1
      <4>2. QED BY <4>1, LenProperties DEF m
    <3>4. lines[k][j] = sep /\ j \in DOMAIN lines[k] /\ k \in DOMAIN lines
      BY <3>1, <3>2, <3>3, <1>1, <1>10
    <3>5. NeatLine(lines[k], sep)
      BY <3>4
    <3>6. j # m /\ lines[k][j + 1] # sep
      BY <3>4, <3>5 DEF NeatLine, m
    <3>7. j + 1 \in 1 .. m
      BY <3>1, <3>6, <2>3
    <3>8. text[b + (j + 1)] = lines[k][j + 1]
      BY <2>4, <3>7
    <3>9. QED BY <3>1, <3>6, <3>8
  <2>7. QED BY <2>5, <2>6
<1>11. QED BY <1>9, <1>10 DEF Neat, text

\* A piece with its separator and what is behind it.
LEMMA PieceAndRest ==
  ASSUME NEW B, NEW text \in Seq(B), NEW sep \in B, NEW i \in 1 .. Len(text), NEW e \in i .. Len(text) - 1,
         text[e + 1] = sep
  PROVE  Append(SubSeq(text, i, e), sep) \o SubSeq(text, e + 2, Len(text)) = SubSeq(text, i, Len(text))
<1> DEFINE n == Len(text)   h == i - 1   m == e - h
           x == SubSeq(text, i, e)   y == SubSeq(text, e + 2, n)   z == SubSeq(text, i, n)   w == Append(x, sep)
<1>1. n \in Nat /\ h \in Nat /\ e \in Nat /\ e + 1 \in Nat /\ h <= e /\ e + 1 <= n /\ h <= n /\ m \in Nat /\ i = h + 1 /\ e + 2 = (e + 1) + 1
  BY LenProperties
<1>2. \A j \in 1 .. n : text[j] \in B
  BY ElementOfSeq
<1> HIDE DEF n, h
<1>3. x \in Seq(B) /\ Len(x) = m /\ \A j \in 1 .. m : x[j] = text[h + j]
  <2>1. \A j \in h + 1 .. e : text[j] \in B
    <3>1. \A j \in h + 1 .. e : j \in 1 .. n
      BY <1>1
    <3>2. QED BY <1>2, <3>1
  <2>2. /\ SubSeq(text, h + 1, e) \in Seq(B) /\ Len(SubSeq(text, h + 1, e)) = e - h
        /\ \A j \in 1 .. e - h : SubSeq(text, h + 1, e)[j] = text[h + j]
    BY <1>1, <2>1, Ending
  <2>3. QED BY <2>2, <1>1
<1>4. y \in Seq(B) /\ Len(y) = n - (e + 1) /\ \A j \in 1 .. n - (e + 1) : y[j] = text[(e + 1) + j]
  <2> DEFINE k == e + 1
  <2>1. \A j \in k + 1 .. n : text[j] \in B
    <3>1. \A j \in k + 1 .. n : j \in 1 .. n
      BY <1>1
    <3>2. QED BY <1>2, <3>1
  <2>2. k \in Nat /\ k <= n
    BY <1>1
  <2> HIDE DEF k
  <2>3. /\ SubSeq(text, k + 1, n) \in Seq(B) /\ Len(SubSeq(text, k + 1, n)) = n - k
        /\ \A j \in 1 .. n - k : SubSeq(text, k + 1, n)[j] = text[k + j]
    BY <1>1, <2>1, <2>2, Ending
  <2>4. QED BY <2>3, <1>1 DEF k
<1>5. z \in Seq(B) /\ Len(z) = n - h /\ \A j \in 1 .. n - h : z[j] = text[h + j]
  <2>1. \A j \in h + 1 .. n : text[j] \in B
    <3>1. \A j \in h + 1 .. n : j \in 1 .. n
      BY <1>1
    <3>2. QED BY <1>2, <3>1
  <2>2. /\ SubSeq(text, h + 1, n) \in Seq(B) /\ Len(SubSeq(text, h + 1, n)) = n - h
        /\ \A j \in 1 .. n - h : SubSeq(text, h + 1, n)[j] = text[h + j]
    <3>1. n \in Nat /\ h \in Nat /\ h <= n
      BY <1>1
    <3>2. QED BY ONLY <2>1, <3>1, Ending
  <2>3. QED BY <2>2, <1>1
<1> HIDE DEF x, y, z
<1>6. w \in Seq(B) /\ Len(w) = m + 1 /\ w[m + 1] = sep /\ \A j \in 1 .. m : w[j] = x[j]
  <2>1. /\ Append(x, sep) \in Seq(B) /\ Len(Append(x, sep)) = Len(x) + 1
        /\ Append(x, sep)[Len(x) + 1] = sep
        /\ \A j \in 1 .. Len(x) : Append(x, sep)[j] = x[j]
    BY <1>3, AppendProperties
  <2>2. QED BY <2>1, <1>3
<1> HIDE DEF w
<1>7. /\ w \o y \in Seq(B) /\ Len(w \o y) = Len(w) + Len(y)
      /\ \A j \in 1 .. Len(w) + Len(y) : (w \o y)[j] = IF j <= Len(w) THEN w[j] ELSE y[j - Len(w)]
  BY ONLY <1>4, <1>6, ConcatProperties
<1>8. Len(w) + Len(y) = n - h
  BY <1>1, <1>4, <1>6
<1> DEFINE u == w \o y
<1> HIDE DEF u
<1>9. u \in Seq(B) /\ Len(u) = n - h /\ \A j \in 1 .. n - h : u[j] = IF j <= m + 1 THEN w[j] ELSE y[j - (m + 1)]
  BY <1>6, <1>7, <1>8 DEF u
<1>10. ASSUME NEW j \in 1 .. n - h PROVE u[j] = z[j]
  <2>1. z[j] = text[h + j]
    BY <1>5
  <2>2. CASE j <= m
    <3>1. j \in 1 .. m /\ j <= m + 1
      BY <2>2, <1>1
    <3>2. QED BY <3>1, <2>1, <1>3, <1>6, <1>9
  <2>3. CASE j = m + 1
    <3>1. h + j = e + 1 /\ j <= m + 1
      BY <2>3, <1>1
    <3>2. u[j] = sep
      BY <2>3, <3>1, <1>6, <1>9
    <3>3. QED BY <2>1, <3>1, <3>2
  <2>4. CASE j > m + 1
    <3>1. j - (m + 1) \in 1 .. n - (e + 1) /\ (e + 1) + (j - (m + 1)) = h + j /\ ~(j <= m + 1)
      BY <2>4, <1>1
    <3>2. u[j] = y[j - (m + 1)]
      BY <3>1, <1>9
    <3>3. y[j - (m + 1)] = text[(e + 1) + (j - (m + 1))]
      BY <3>1, <1>4
    <3>4. QED BY <2>1, <3>1, <3>2, <3>3
  <2>5. QED BY <2>2, <2>3, <2>4, <1>1
<1>11. u = z
  <2>1. Len(u) = Len(z) /\ \A j \in 1 .. Len(u) : u[j] = z[j]
    BY <1>5, <1>9, <1>10
  <2>2. QED BY <2>1, <1>5, <1>9, SeqEqual
<1>12. QED BY <1>11 DEF u, w, x, y, z, n

\* A neat text is the one that its pieces make again.
LEMMA PiecesRejoin ==
  ASSUME NEW B, NEW text \in Seq(B), NEW sep \in B, Neat(text, sep)
  PROVE  Terminated(Pieces(text, sep), sep) = text
<1> DEFINE n == Len(text)
           T == {i \in 1 .. n + 1 : i = n + 1 \/ text[i] # sep}
<1>1. n \in Nat /\ \A j \in 1 .. n : text[j] \in B
  BY LenProperties, ElementOfSeq
<1>2. PICK g \in [1 .. n + 1 -> Seq(Seq(B))] : Splits(g, text, sep) /\ Pieces(text, sep) = g[1]
  BY PiecesSplit
<1> DEFINE Rejoins(i) == Terminated(g[i], sep) = SubSeq(text, i, n)
           U == {i \in 1 .. n + 1 : i = n + 1 \/ text[i] # sep => Rejoins(i)}
<1>3. /\ text # <<>> => text[1] # sep /\ text[n] = sep
      /\ \A i \in 1 .. n - 1 : text[i] = sep => text[i + 1] # sep
  BY DEF Neat
<1>4. /\ g[n + 1] = <<>>
      /\ \A i \in 1 .. n :
           g[i] = IF text[i] = sep THEN g[i + 1]
                  ELSE <<SubSeq(text, i, PieceEnd(text, sep, i))>> \o g[PieceEnd(text, sep, i) + 1]
  BY <1>2 DEF Splits
<1>5. n + 1 \in U
  <2>1. Terminated(<<>>, sep) = <<>>
    BY FlattenNone DEF Terminated
  <2>2. SubSeq(text, n + 1, n) = <<>>
    <3>1. n <= n /\ \A j \in n + 1 .. n : text[j] \in B
      BY <1>1
    <3> HIDE DEF n
    <3>2. SubSeq(text, n + 1, n) \in Seq(B) /\ Len(SubSeq(text, n + 1, n)) = n - n
      BY <1>1, <3>1, Ending
    <3>3. n - n = 0
      BY <1>1
    <3>4. QED BY <3>2, <3>3, EmptySeq
  <2>3. Rejoins(n + 1)
    BY <2>1, <2>2, <1>4
  <2> HIDE DEF Rejoins, n
  <2>4. QED BY <2>3, <1>1
<1>6. ASSUME NEW i \in 1 .. n, \A j \in i + 1 .. n + 1 : j \in U, text[i] # sep PROVE Rejoins(i)
  <2> DEFINE e == PieceEnd(text, sep, i)
  <2>1. /\ e \in i .. n
        /\ e = n \/ text[e + 1] = sep
        /\ \A j \in i .. n : j = n \/ text[j + 1] = sep => e <= j
    BY PieceEnds
  <2>2. g[i] = <<SubSeq(text, i, e)>> \o g[e + 1]
    BY <1>4, <1>6
  <2> HIDE DEF e
  <2>3. text[n] = sep
    <3>1. text # <<>>
      BY <1>1 DEF n
    <3>2. QED BY <3>1, <1>3
  <2> HIDE DEF n, U
  <2>4. i # n /\ i \in Nat
    BY <2>3, <1>6
  <2>5. e # n
    <3>1. n - 1 \in i .. n /\ (n - 1) + 1 = n /\ ~(n <= n - 1)
      BY <2>4, <1>1
    <3>2. text[(n - 1) + 1] = sep
      BY <2>3, <3>1
    <3>3. e <= n - 1
      BY <2>1, <3>1, <3>2
    <3>4. QED BY <3>1, <3>3
  <2>6. e \in i .. n - 1 /\ e + 1 \in 1 .. n /\ text[e + 1] = sep /\ e + 2 \in i + 1 .. n + 1 /\ e + 2 = (e + 1) + 1
    BY <2>1, <2>5, <1>1
  <2>7. g[e + 1] = g[e + 2]
    <3>1. g[e + 1] = g[(e + 1) + 1]
      BY <2>6, <1>4
    <3>2. QED BY <2>6, <3>1
  <2>8. Rejoins(e + 2)
    <3>1. e + 2 = n + 1 \/ text[e + 2] # sep
      <4>1. CASE e + 1 = n
        BY <4>1, <2>6
      <4>2. CASE e + 1 # n
        <5>1. e + 1 \in 1 .. n - 1
          BY <4>2, <2>6, <1>1
        <5>2. text[(e + 1) + 1] # sep
          BY <5>1, <2>6, <1>3
        <5>3. QED BY <5>2, <2>6
      <4>3. QED BY <4>1, <4>2
    <3>2. e + 2 \in U
      BY <2>6, <1>6
    <3> HIDE DEF Rejoins
    <3>3. QED BY <3>1, <3>2 DEF U
  <2> DEFINE x == SubSeq(text, i, e)   s == g[e + 2]
  <2>9. x \in Seq(B)
    <3>1. \A j \in i .. e : text[j] \in B
      <4>1. \A j \in i .. e : j \in 1 .. n
        BY <2>6, <1>1
      <4>2. QED BY <4>1, <1>1
    <3>2. i \in Int /\ e \in Int
      BY <2>6, <1>1
    <3>3. QED BY <3>1, <3>2, SubSeqProperties
  <2>10. s \in Seq(Seq(B))
    <3>1. e + 2 \in 1 .. n + 1
      BY <2>6, <1>1
    <3>2. QED BY <3>1, <1>2 DEF n
  <2>11. g[i] = <<x>> \o s
    BY <2>2, <2>7
  <2>12. Terminated(s, sep) = SubSeq(text, e + 2, n)
    BY <2>8
  <2>13. Append(x, sep) \o SubSeq(text, e + 2, n) = SubSeq(text, i, n)
    <3>1. Append(SubSeq(text, i, e), sep) \o SubSeq(text, e + 2, Len(text)) = SubSeq(text, i, Len(text))
      <4>1. e \in i .. Len(text) - 1 /\ i \in 1 .. Len(text)
        BY <2>6 DEF n
      <4>2. QED BY ONLY <4>1, <2>6, text \in Seq(B), sep \in B, PieceAndRest
    <3>2. QED BY <3>1 DEF n
  <2> HIDE DEF x, s
  <2>14. Terminated(<<x>> \o s, sep) = Append(x, sep) \o Terminated(s, sep)
    <3>1. sep \in B /\ x \in Seq(B)
      BY <2>9
    <3>2. s \in Seq(Seq(B))
      BY <2>10
    <3>3. TerminatesFirst(B, sep)
      BY TerminatedCons
    <3>4. QED BY <3>1, <3>2, <3>3 DEF TerminatesFirst
  <2>15. QED BY <2>11, <2>12, <2>13, <2>14
<1>7. ASSUME NEW i \in 1 .. n, \A j \in i + 1 .. n + 1 : j \in U PROVE i \in U
  <2>1. i \in 1 .. n + 1 /\ i # n + 1
    BY <1>1
  <2>2. text[i] # sep => Rejoins(i)
    BY <1>6, <1>7
  <2> HIDE DEF Rejoins, n
  <2>3. QED BY <2>1, <2>2
<1>8. \A i \in 1 .. n + 1 : i \in U
  <2> HIDE DEF U, n
  <2>1. 1 \in Int /\ n + 1 \in Int /\ 1 <= n + 1 /\ (n + 1) - 1 = n
    BY <1>1
  <2> DEFINE lo == 1   hi == n + 1
  <2>2. hi - 1 = n
    BY <2>1
  <2>3. hi \in U /\ \A i \in lo .. hi - 1 : (\A j \in i + 1 .. hi : j \in U) => i \in U
    BY <1>5, <1>7, <2>2
  <2>4. lo \in Int /\ hi \in Int /\ lo <= hi
    BY <2>1
  <2> HIDE DEF lo, hi
  <2>5. \A i \in lo .. hi : i \in U
    BY ONLY <2>3, <2>4, DownTo
  <2>6. QED BY <2>5 DEF lo, hi
<1>9. 1 \in 1 .. n + 1 /\ (1 = n + 1 \/ text[1] # sep)
  <2>1. CASE n = 0
    BY <2>1
  <2>2. CASE n # 0
    <3>1. text # <<>>
      BY <2>2, <1>1 DEF n
    <3>2. QED BY <3>1, <1>1, <1>3
  <2>3. QED BY <2>1, <2>2
<1>10. Rejoins(1)
  <2> HIDE DEF Rejoins, n
  <2>1. QED BY <1>8, <1>9
<1>11. SubSeq(text, 1, n) = text
  <2>1. SubSeq(text, 1, n) \in Seq(B) /\ Len(SubSeq(text, 1, n)) = n /\ \A j \in 1 .. n : SubSeq(text, 1, n)[j] = text[j]
    BY <1>1, Beginning
  <2> DEFINE t == SubSeq(text, 1, n)
  <2> HIDE DEF t
  <2>2. t \in Seq(B) /\ Len(t) = Len(text) /\ \A j \in 1 .. Len(t) : t[j] = text[j]
    BY <2>1 DEF t
  <2>3. t = text
    BY <2>2, SeqEqual
  <2>4. QED BY <2>3 DEF t
<1>12. QED BY <1>2, <1>10, <1>11

\* A reply that was cut behind its mark is read as the whole one, where no name
\* holds a mark.
LEMMA CutReplyIsRead ==
  ASSUME NEW body \in Seq(Byte \ {EOT}), NEW k \in Nat,
         NEW n \in 0 .. Len(Append(body, EOT) \o Decimal(k)),
         IsReply(SubSeq(Append(body, EOT) \o Decimal(k), 1, n))
  PROVE  BodyOf(SubSeq(Append(body, EOT) \o Decimal(k), 1, n)) = body
<1> DEFINE tail == Decimal(k)
           head == Append(body, EOT)
           all  == head \o tail
           wire == SubSeq(all, 1, n)
           m    == Len(body)
           I    == {i \in 1 .. Len(wire) : wire[i] = EOT}
<1>1. tail \in Seq(Digit)
  BY DecimalReads DEF Reads
<1> HIDE DEF tail
<1>2. Digit \subseteq Byte /\ EOT \in Byte /\ EOT \notin Digit
  BY DEF Digit, Byte, EOT, Zero
<1>3. tail \in Seq(Byte) /\ Len(tail) \in Nat /\ m \in Nat /\ \A i \in 1 .. Len(tail) : tail[i] \in Digit
  BY <1>1, <1>2, SeqMonotonic, LenProperties, ElementOfSeq
<1>4. body \in Seq(Byte) /\ \A i \in 1 .. m : body[i] \in Byte /\ body[i] # EOT
  <2>1. body \in Seq(Byte)
    <3>1. Byte \ {EOT} \subseteq Byte
      OBVIOUS
    <3>2. QED BY <3>1, SeqMonotonic
  <2>2. \A i \in 1 .. m : body[i] \in Byte \ {EOT}
    BY ElementOfSeq
  <2>3. QED BY <2>1, <2>2
<1>5. /\ head \in Seq(Byte) /\ Len(head) = m + 1 /\ head[m + 1] = EOT
      /\ \A i \in 1 .. m : head[i] = body[i]
  BY <1>2, <1>4, AppendProperties
<1> HIDE DEF head
<1>6. /\ all \in Seq(Byte) /\ Len(all) = m + 1 + Len(tail)
      /\ \A i \in 1 .. m + 1 + Len(tail) : all[i] = IF i <= m + 1 THEN head[i] ELSE tail[i - (m + 1)]
  <2>1. /\ head \o tail \in Seq(Byte) /\ Len(head \o tail) = Len(head) + Len(tail)
        /\ \A i \in 1 .. Len(head) + Len(tail) :
             (head \o tail)[i] = IF i <= Len(head) THEN head[i] ELSE tail[i - Len(head)]
    BY <1>3, <1>5, ConcatProperties
  <2>2. QED BY <2>1, <1>5
<1>7. n \in 0 .. Len(all) /\ IsReply(wire)
  BY DEF head, tail
<1> HIDE DEF all, m
<1>8. n \in Nat /\ n <= m + 1 + Len(tail) /\ \A i \in 1 .. n : all[i] \in Byte
  <2>1. \A i \in 1 .. Len(all) : all[i] \in Byte
    BY <1>6, ElementOfSeq
  <2>2. QED BY <2>1, <1>3, <1>6, <1>7
<1>9. wire \in Seq(Byte) /\ Len(wire) = n /\ \A i \in 1 .. n : wire[i] = all[i]
  BY <1>8, Beginning
<1> HIDE DEF wire
<1>10. ASSUME NEW i \in I PROVE i = m + 1
  <2>1. i \in 1 .. n /\ all[i] = EOT /\ i \in 1 .. m + 1 + Len(tail)
    BY <1>3, <1>8, <1>9
  <2>2. CASE i <= m
    <3>1. i \in 1 .. m /\ i <= m + 1
      BY <2>1, <2>2, <1>3
    <3>2. all[i] = body[i]
      BY <2>1, <3>1, <1>5, <1>6
    <3>3. QED BY <2>1, <3>1, <3>2, <1>4
  <2>3. CASE i > m + 1
    <3>1. ~(i <= m + 1) /\ i - (m + 1) \in 1 .. Len(tail)
      BY <2>1, <2>3, <1>3
    <3>2. all[i] = tail[i - (m + 1)]
      BY <2>1, <3>1, <1>6
    <3>3. QED BY <2>1, <3>1, <3>2, <1>2, <1>3
  <2>4. QED BY <2>1, <2>2, <2>3, <1>3
<1>11. I # {}
  <2>1. \E i \in DOMAIN wire : wire[i] = EOT
    BY <1>7 DEF IsReply, Contains
  <2>2. DOMAIN wire = 1 .. Len(wire)
    BY <1>9, LenProperties
  <2>3. QED BY <2>1, <2>2
<1>12. SelectLastInSeq(wire, LAMBDA b : b = EOT) = m + 1
  <2>1. SelectLastInSeq(wire, LAMBDA b : b = EOT) = IF I # {} THEN Max(I) ELSE 0
    BY DEF SelectLastInSeq
  <2>2. I = {m + 1}
    <3> HIDE DEF I
    <3>1. QED BY <1>10, <1>11
  <2>3. Max({m + 1}) = m + 1
    <3> DEFINE c == m + 1
    <3>1. c \in Nat
      BY <1>3
    <3> HIDE DEF c
    <3>2. Max({c}) = c
      BY <3>1 DEF Max
    <3>3. QED BY <3>2 DEF c
  <2> HIDE DEF I
  <2>4. QED BY <2>1, <2>2, <2>3
<1>13. m + 1 <= n
  <2>1. PICK i : i \in I
    BY <1>11
  <2>2. i \in 1 .. n
    BY <2>1, <1>9
  <2>3. QED BY <2>1, <2>2, <1>10
<1>14. BodyOf(wire) = SubSeq(wire, 1, m)
  <2>1. BodyOf(wire) = SubSeq(wire, 1, (m + 1) - 1)
    BY <1>12 DEF BodyOf
  <2>2. (m + 1) - 1 = m
    BY <1>3
  <2>3. QED BY <2>1, <2>2
<1>15. \A i \in 1 .. m : wire[i] = body[i] /\ wire[i] \in Byte
  <2>1. \A i \in 1 .. m : i \in 1 .. n /\ i \in 1 .. m + 1 + Len(tail) /\ i <= m + 1
    BY <1>3, <1>8, <1>13
  <2>2. \A i \in 1 .. m : wire[i] = body[i]
    BY <2>1, <1>5, <1>6, <1>9
  <2>3. QED BY <2>2, <1>4
<1>16. SubSeq(wire, 1, m) = body
  <2>1. SubSeq(wire, 1, m) \in Seq(Byte) /\ Len(SubSeq(wire, 1, m)) = m /\ \A i \in 1 .. m : SubSeq(wire, 1, m)[i] = wire[i]
    BY <1>3, <1>15, Beginning
  <2> DEFINE t == SubSeq(wire, 1, m)
  <2> HIDE DEF t
  <2>2. t \in Seq(Byte) /\ Len(t) = Len(body) /\ \A i \in 1 .. Len(t) : t[i] = body[i]
    BY <1>15, <2>1 DEF t, m
  <2>3. t = body
    BY <1>4, <2>2, SeqEqual
  <2>4. QED BY <2>3 DEF t
<1>17. QED BY <1>14, <1>16 DEF wire, all, head, tail

\* Each line of an answer is a line of the snapshot.
LEMMA LinesAreIn ==
  ASSUME NEW l, InRange(l), NEW hits, Listed(l, hits)
  PROVE  \A i \in DOMAIN Lines(l, hits) : Lines(l, hits)[i] \in LinesIn(l)
<1>1. /\ DOMAIN hits.dirs = 1 .. Len(hits.dirs) /\ Len(hits.dirs) \in Nat
      /\ DOMAIN hits.files = 1 .. Len(hits.files) /\ Len(hits.files) \in Nat
      /\ \A i \in DOMAIN hits.dirs : hits.dirs[i] \in DOMAIN l.dirs
      /\ \A i \in DOMAIN hits.files : hits.files[i] \in DOMAIN l.files
  BY LenProperties, ElementOfSeq DEF Listed
<1> DEFINE X == [i \in DOMAIN hits.dirs |-> DirLine(l, hits.dirs[i])]
           Y == [i \in DOMAIN hits.files |-> FilePath(l, hits.files[i])]
           S == LinesIn(l)
<1>2. X \in [1 .. Len(hits.dirs) -> S] /\ Y \in [1 .. Len(hits.files) -> S]
  BY <1>1 DEF LinesIn
<1>3. Lines(l, hits) = X \o Y
  BY DEF Lines
<1> HIDE DEF X, Y, S
<1>4. X \in Seq(S) /\ Y \in Seq(S)
  BY <1>1, <1>2, FunctionIsSeq
<1>5. X \o Y \in Seq(S)
  BY <1>4, ConcatProperties
<1> DEFINE Z == X \o Y
<1> HIDE DEF Z
<1>6. \A i \in DOMAIN Z : Z[i] \in S
  BY <1>5, LenProperties, ElementOfSeq DEF Z
<1>7. QED BY <1>3, <1>6 DEF S, Z

-----------------------------------------------------------------------------
(* One whole answer.                                                       *)

\* What has arrived is the reply of snapshot l or, cut off, its beginning.
Sent(l) ==
  \/ conn.wire = WholeReply(l)
  \/ conn.cut /\ \E n \in 0 .. Len(WholeReply(l)) : conn.wire = SubSeq(WholeReply(l), 1, n)

\* What the client makes of a reply.
Printed(wire) ==
  IF cmd.count THEN CountLine(Number(TailOf(wire))) ELSE Terminated(Pieces(BodyOf(wire), Sep(cmd)), Sep(cmd))

\* A closed connection of an up-to-date daemon holds, as far as it got, the
\* reply of one of the views, and what was printed was made of that or found in
\* an index file.
AnswerInv ==
  /\ pc = "reply" => conn.by # "none"
  /\ pc \in {"reply", "done"} => views # {}
  /\ pc = "reply" /\ conn.state = "closed" /\ conn.by = "new" => \E l \in views : Sent(l)
  /\ pc = "done" =>
       \/ out.from = "file" /\ \E l \in views \cap Files : out.text = FileText(cmd, l, FileHits[l][cmd])
       \/ /\ out.from = "daemon" /\ conn.by # "none"
          /\ conn.by = "new" => /\ \E l \in views : Sent(l)
                                /\ IsReply(conn.wire) /\ out.text = Printed(conn.wire)

LEMMA AnswerInit ==
  ASSUME Init
  PROVE  AnswerInv
BY DEF Init, AnswerInv

\* The daemon's thread.
LEMMA HandlerAnswers ==
  ASSUME IInv, AnswerInv, Handler
  PROVE  AnswerInv'
<1> USE DEF IInv
<1>1. conn.state \in {"sent", "held"} /\ UNCHANGED <<cmd, pc, out, views>> /\ UNCHANGED world
  BY DEF Handler, AnswerVersion, SearchSnapshot, SendReply, AnswerUnknown, Serving
<1>2. out.from # "daemon"
  BY <1>1 DEF PrintedInv
<1>3. conn'.by = conn.by
  <2>1. conn \in Connections
    BY DEF FormInv
  <2>2. QED BY <2>1 DEF Handler, AnswerVersion, SearchSnapshot, SendReply, AnswerUnknown, Send, Connections
<1>4. \A l : WholeReply(l)' = WholeReply(l)
  BY <1>1 DEF WholeReply, DaemonHits, AllSnapshots, AllCommands
<1>5. FileHits' = FileHits
  BY DEF FileHits, AllSnapshots, AllCommands
<1>6. (pc = "reply" => conn.by # "none")'
  BY <1>1, <1>3 DEF AnswerInv
<1>7. (pc = "done" => out.from = "file" /\ \E l \in views \cap Files : out.text = FileText(cmd, l, FileHits[l][cmd]))'
  BY <1>1, <1>2, <1>5 DEF AnswerInv
<1>8. ASSUME pc = "reply", conn'.state = "closed", conn.by = "new" PROVE \E l \in views : Sent(l)'
  <2>1. conn \in Connections /\ conn.req = "Q"
    BY <1>8 DEF FormInv, ServedInv
  <2>2. ~AnswerVersion /\ ~AnswerUnknown
    BY <1>8, <2>1 DEF AnswerVersion, AnswerUnknown, Serving
  <2>3. ~SearchSnapshot
    BY <1>8, <2>1 DEF SearchSnapshot, Connections
  <2>4. SendReply
    BY <2>2, <2>3 DEF Handler
  <2>5. conn.state = "held" /\ conn'.wire = Reply(conn.snap, conn.hits, Sep(cmd))
    BY <2>1, <2>4 DEF SendReply, Send, HeldSnapshot, Connections
  <2>6. conn.snap \in views /\ conn'.wire = WholeReply(conn.snap)
    BY <1>8, <2>5 DEF ServedInv, OpenInv, WholeReply
  <2>7. QED BY <1>4, <2>6 DEF Sent
<1>9. QED BY <1>1, <1>3, <1>6, <1>7, <1>8 DEF AnswerInv

\* The client.
LEMMA AskAnswers ==
  ASSUME IInv, AnswerInv, Ask
  PROVE  AnswerInv'
<1> USE DEF IInv
<1>1. UNCHANGED world /\ cmd' = cmd
  BY DEF Ask, AskVersion, ReadVersion, AskQuery, NoDaemon, PrintReply, NoReply, PrintFromFile
<1>2. /\ \A l : WholeReply(l)' = WholeReply(l)
      /\ FileHits' = FileHits
  BY <1>1 DEF WholeReply, DaemonHits, FileHits, AllSnapshots, AllCommands
<1>3. CASE AskVersion \/ ReadVersion \/ NoDaemon \/ NoReply
  <2>1. pc' \in {"version", "ask", "file"}
    BY <1>3 DEF AskVersion, ReadVersion, NoDaemon, NoReply
  <2>2. QED BY <2>1 DEF AnswerInv
<1>4. CASE AskQuery
  <2>1. conn' = Request("Q") /\ peer # "none" /\ pc' = "reply"
    BY <1>4 DEF AskQuery
  <2>2. conn'.state = "sent" /\ conn'.by = peer /\ views' # {}
    BY <1>4, <2>1, RequestIs DEF AskQuery, WorldInv
  <2>3. QED BY <2>1, <2>2 DEF AnswerInv
<1>5. CASE PrintReply
  <2>1. /\ pc = "reply" /\ pc' = "done" /\ UNCHANGED <<conn, views>> /\ conn.state = "closed" /\ IsReply(conn.wire)
        /\ out'.from = "daemon" /\ out'.text = Printed(conn.wire)
    BY <1>5 DEF PrintReply, Printed
  <2>2. Printed(conn.wire)' = Printed(conn.wire) /\ \A l : Sent(l)' = Sent(l)
    BY <1>1, <1>2, <2>1 DEF Printed, Sent
  <2>3. QED BY <2>1, <2>2 DEF AnswerInv
<1>6. CASE PrintFromFile
  <2>1. pc' = "done" /\ views' = {file} /\ out'.from = "file" /\ out'.text = FileText(cmd, file, FileHits[file][cmd])
    BY <1>6 DEF PrintFromFile
  <2>2. file \in Files
    BY DEF WorldInv
  <2>3. QED BY <1>1, <1>2, <2>1, <2>2 DEF AnswerInv
<1>7. QED BY <1>3, <1>4, <1>5, <1>6 DEF Ask

\* The rest of the world.
LEMMA OthersAnswer ==
  ASSUME IInv, AnswerInv, World
  PROVE  AnswerInv'
<1> USE DEF IInv
<1>1. UNCHANGED <<cmd, pc, out>>
  BY DEF World, Publish, NewFile, Crash, Start
<1>2. /\ \A l : WholeReply(l)' = WholeReply(l)
      /\ FileHits' = FileHits
  BY <1>1 DEF WholeReply, DaemonHits, FileHits, AllSnapshots, AllCommands
<1>3. (pc = "reply" => views \subseteq views') /\ (pc = "done" => views' = views)
  BY DEF World, Publish, NewFile, Crash, Start
<1>4. CASE conn' = conn
  <2>1. Printed(conn.wire)' = Printed(conn.wire) /\ \A l : Sent(l)' = Sent(l)
    BY <1>1, <1>2, <1>4 DEF Printed, Sent
  <2>2. QED BY <1>1, <1>2, <1>3, <1>4, <2>1 DEF AnswerInv
<1>5. CASE conn' # conn
  <2> DEFINE text == Reply(conn.snap, conn.hits, Sep(cmd))
  <2>1. Crash
    BY <1>5 DEF World, Publish, NewFile, Start
  <2>2. PICK n \in 0 .. (IF conn.state = "held" THEN Len(text) ELSE 0) :
          /\ conn.state \in {"sent", "held"}
          /\ conn' = [conn EXCEPT !.state = "closed", !.cut = TRUE, !.wire = SubSeq(text, 1, n)]
    BY <1>5, <2>1 DEF Crash
  <2> HIDE DEF text
  <2>3. conn \in Connections /\ conn'.by = conn.by /\ conn'.cut /\ conn'.wire = SubSeq(text, 1, n)
    BY <2>2 DEF FormInv, Connections
  <2>4. out.from # "daemon" /\ views' = views
    BY <2>1, <2>2 DEF PrintedInv, Crash
  <2>5. ASSUME pc = "reply", conn.by = "new" PROVE \E l \in views : Sent(l)'
    <3>1. CASE conn.state = "held"
      <4>1. conn.snap \in views /\ text = WholeReply(conn.snap)
        BY <2>5, <3>1 DEF ServedInv, OpenInv, WholeReply, text
      <4>2. n \in 0 .. Len(WholeReply(conn.snap))
        BY <3>1, <4>1
      <4>3. QED BY <1>2, <2>3, <4>1, <4>2 DEF Sent
    <3>2. CASE conn.state = "sent"
      <4>1. live \in views /\ n = 0
        BY <2>2, <2>5, <3>2 DEF ServedInv
      <4>2. SubSeq(text, 1, 0) = SubSeq(WholeReply(live), 1, 0)
        <5>1. \A s : SubSeq(s, 1, 0) = <<>>
          <6>1. ASSUME NEW s PROVE SubSeq(s, 1, 0) = <<>>
            <7>1. SubSeq(s, 1, 0) \in Seq({}) /\ Len(SubSeq(s, 1, 0)) = 0
              BY Beginning
            <7>2. QED BY <7>1, EmptySeq
          <6>2. QED BY <6>1
        <5>2. QED BY <5>1
      <4>3. 0 \in 0 .. Len(WholeReply(live))
        <5>1. WholeReply(live) \in Seq(Byte)
          BY WholeReplyIsRead DEF WorldInv
        <5>2. QED BY <5>1, LenProperties
      <4>4. QED BY <1>2, <2>3, <4>1, <4>2, <4>3 DEF Sent
    <3>3. QED BY <2>2, <3>1, <3>2
  <2>6. QED BY <1>1, <1>2, <2>3, <2>4, <2>5 DEF AnswerInv
<1>6. QED BY <1>4, <1>5

LEMMA StutterAnswers ==
  ASSUME AnswerInv, UNCHANGED vars
  PROVE  AnswerInv'
<1>1. UNCHANGED <<conn, cmd, out, pc, views>>
  BY DEF vars
<1>2. /\ \A l : WholeReply(l)' = WholeReply(l)
      /\ FileHits' = FileHits
  BY <1>1 DEF WholeReply, DaemonHits, FileHits, AllSnapshots, AllCommands
<1>3. Printed(conn.wire)' = Printed(conn.wire) /\ \A l : Sent(l)' = Sent(l)
  BY <1>1, <1>2 DEF Printed, Sent
<1>4. QED BY <1>1, <1>2, <1>3 DEF AnswerInv

LEMMA AnswerInvHolds == Spec => []AnswerInv
<1>1. Init => AnswerInv
  BY AnswerInit
<1>2. IInv /\ AnswerInv /\ [Next]_vars => AnswerInv'
  BY HandlerAnswers, AskAnswers, OthersAnswer, StutterAnswers DEF Next
<1>3. QED BY <1>1, <1>2, IInvHolds, PTL DEF Spec

\* A query of one line is read by the daemon as the client reads it, limit
\* included.
LEMMA OneLine ==
  ASSUME NEW c \in AllCommands, ~(Len(c.lines) > 1)
  PROVE  c.lines[1] = Words(c) /\ OffWire(OnWire(EffectiveLimit(c))) = EffectiveLimit(c)
<1>1. c.lines \in Seq(Seq(Seq(Byte))) /\ c.lines # <<>> /\ c.limit \in Nat /\ c.count \in BOOLEAN
  BY CommandsAre DEF Command
<1>2. Len(c.lines) = 1
  <2> DEFINE n == Len(c.lines)   T == Seq(Seq(Byte))   lines == c.lines
  <2>1. lines \in Seq(T) /\ lines # <<>> /\ ~(n > 1) /\ n = Len(lines)
    BY <1>1
  <2> HIDE DEF T, lines, n
  <2>2. n \in Nat /\ n # 0
    BY <2>1, LenProperties, EmptySeq
  <2>3. n = 1
    BY <2>1, <2>2
  <2>4. QED BY <2>3 DEF n
<1>3. c.lines[1] = Words(c)
  <2> DEFINE lines == c.lines
  <2>1. lines \in Seq(Seq(Seq(Byte))) /\ Len(lines) = 1
    BY <1>1, <1>2
  <2> HIDE DEF lines
  <2>2. PICK f \in [0 .. Len(lines) -> Seq(Seq(Byte))] : Joins(f, lines) /\ FlattenSeq(lines) = f[Len(lines)]
    BY <2>1, FlattenJoins
  <2>3. f[0] = <<>> /\ f[1] = f[0] \o lines[1] /\ FlattenSeq(lines) = f[1]
    <3>1. 1 \in 1 .. 1 /\ 1 - 1 = 0
      OBVIOUS
    <3>2. f[0] = <<>> /\ f[1] = f[1 - 1] \o lines[1]
      BY <2>1, <2>2, <3>1 DEF Joins
    <3>3. QED BY <2>1, <2>2, <3>1, <3>2
  <2>4. lines[1] \in Seq(Seq(Byte))
    <3> DEFINE T == Seq(Seq(Byte))
    <3>1. 1 \in 1 .. Len(lines) /\ lines \in Seq(T)
      BY <2>1
    <3> HIDE DEF T
    <3>2. lines[1] \in T
      BY <3>1, ElementOfSeq
    <3>3. QED BY <3>2 DEF T
  <2>5. <<>> \o lines[1] = lines[1]
    BY <2>4, ConcatEmptySeq
  <2>6. QED BY <2>3, <2>5 DEF lines, Words
<1>4. OffWire(OnWire(EffectiveLimit(c))) = EffectiveLimit(c)
  <2>1. EffectiveLimit(c) # 0 \/ EffectiveLimit(c) = Unlimited
    BY DEF EffectiveLimit
  <2>2. QED BY <2>1 DEF OffWire, OnWire
<1>5. QED BY <1>3, <1>4

\* What is printed of a reply, whole or cut, is the whole answer in the
\* snapshot that it was found in.
LEMMA WholeAnswerPrinted ==
  ASSUME cmd \in AllCommands, NEW l \in AllSnapshots, Sent(l), IsReply(conn.wire),
         ~Excepted(l), ~DoubleSlash(l, Words(cmd))
  PROVE  Printed(conn.wire) = AnswerText(l)
<1> DEFINE hits == DaemonHits[l][cmd]   sep == Sep(cmd)   lines == Lines(l, hits)   body == Terminated(lines, sep)
<1>1. /\ ~(Len(cmd.lines) > 1) /\ (conn.cut => ~cmd.count /\ \A line \in LinesIn(l) : ~Contains(line, EOT))
      /\ (~cmd.null => \A line \in LinesIn(l) : ~DropsLine(line))
      /\ Hidden(l, Anchor(Query)) \cap Answer(l, Words(cmd), cmd.opts).files = {}
      /\ ~Spread(l, Anchor(Query))
  BY DEF Excepted
<1>2. InRange(l) /\ WellNamed(l) /\ Listed(l, hits) /\ sep \in Byte
  BY ClientAssumption, HitsAre, SepIsByte
<1>3. hits = AnswerHits(l, Words(cmd), cmd.opts, EffectiveLimit(cmd))
  <2>1. Words(cmd) \in Seq(Seq(Byte)) /\ cmd.opts \in Options /\ EffectiveLimit(cmd) \in Nat
    BY WordsAre, CommandsAre
  <2>2. hits = LiveSearch(l, Query, EffectiveLimit(cmd))
    <3>1. hits = LiveSearch(l, ParseOpts(cmd.lines[1], cmd.opts), OffWire(OnWire(EffectiveLimit(cmd))))
      BY DEF DaemonHits
    <3> HIDE DEF hits
    <3>2. QED BY <3>1, <1>1, OneLine DEF Query
  <2>3. Plain(l, Words(cmd))
    BY NoDoubleSlash
  <2> HIDE DEF hits
  <2>4. QED BY <1>1, <1>2, <2>1, <2>2, <2>3, LiveSearchIs DEF Query
<1>4. AnswerText(l) = IF cmd.count THEN CountLine(hits.total) ELSE body
  BY <1>3 DEF AnswerText, FileText
<1>5. /\ BodyOf(WholeReply(l)) = body /\ Number(TailOf(WholeReply(l))) = hits.total
      /\ (cmd.null => Pieces(body, sep) = lines)
  BY WholeReplyIsRead
<1>6. WholeReply(l) = Append(body, EOT) \o Decimal(hits.total)
  BY DEF WholeReply, Reply
<1>7. lines \in Seq(Seq(Char) \ {<<>>}) /\ \A i \in DOMAIN lines : lines[i] \in LinesIn(l)
  BY <1>2, LinesAreTexts, LinesAreIn
<1>8. hits.total \in Nat
  BY <1>2 DEF Listed
<1> HIDE DEF hits, lines
<1>9. CASE cmd.count
  <2>1. conn.wire = WholeReply(l)
    BY <1>1, <1>9 DEF Sent
  <2>2. QED BY <2>1, <1>4, <1>5, <1>9 DEF Printed
<1>10. CASE ~cmd.count
  <2>1. BodyOf(conn.wire) = body
    <3>1. CASE conn.wire = WholeReply(l)
      BY <3>1, <1>5
    <3>2. CASE conn.wire # WholeReply(l)
      <4>1. conn.cut /\ \E n \in 0 .. Len(WholeReply(l)) : conn.wire = SubSeq(WholeReply(l), 1, n)
        BY <3>2 DEF Sent
      <4>2. PICK n \in 0 .. Len(WholeReply(l)) : conn.wire = SubSeq(WholeReply(l), 1, n)
        BY <4>1
      <4>3. body \in Seq(Byte \ {EOT})
        <5> DEFINE C == Char \ {EOT}
        <5>1. ASSUME NEW i \in DOMAIN lines PROVE lines[i] \in Seq(C)
          <6>1. lines[i] \in Seq(Char) /\ ~Contains(lines[i], EOT)
            BY <1>1, <1>7, <4>1, LenProperties, ElementOfSeq
          <6> DEFINE s == lines[i]
          <6> HIDE DEF s
          <6>2. /\ DOMAIN s = 1 .. Len(s) /\ Len(s) \in Nat /\ s = [j \in 1 .. Len(s) |-> s[j]]
                /\ \A j \in 1 .. Len(s) : s[j] \in Char
            BY <6>1, LenProperties, ElementOfSeq DEF s
          <6>3. \A j \in 1 .. Len(s) : s[j] \in C
            BY <6>1, <6>2 DEF Contains, s
          <6>4. s \in [1 .. Len(s) -> C]
            BY <6>2, <6>3
          <6> HIDE DEF C
          <6>5. s \in Seq(C)
            BY <6>2, <6>4, FunctionIsSeq
          <6>6. QED BY <6>5 DEF s
        <5>2. lines \in Seq(Seq(C))
          <6>1. DOMAIN lines = 1 .. Len(lines) /\ Len(lines) \in Nat /\ lines = [j \in 1 .. Len(lines) |-> lines[j]]
            BY <1>7, LenProperties
          <6> HIDE DEF C
          <6>2. lines \in [1 .. Len(lines) -> Seq(C)]
            BY <5>1, <6>1
          <6> DEFINE T == Seq(C)
          <6> HIDE DEF T
          <6>3. lines \in Seq(T)
            BY <6>1, <6>2, FunctionIsSeq DEF T
          <6>4. QED BY <6>3 DEF T
        <5>3. body \in Seq(C \cup {sep})
          <6> HIDE DEF C, sep
          <6>1. Terminated(lines, sep) \in Seq(C \cup {sep})
            BY <5>2, TerminatedLies
          <6>2. QED BY <6>1
        <5>4. C \cup {sep} \subseteq Byte \ {EOT}
          <6>1. sep # EOT
            BY DEF Sep, Newline, EOT
          <6>2. QED BY <6>1, <1>2 DEF Char
        <5> HIDE DEF C, sep, body
        <5>5. QED BY <5>3, <5>4, SeqMonotonic
      <4>4. BodyOf(SubSeq(Append(body, EOT) \o Decimal(hits.total), 1, n)) = body
        <5> HIDE DEF body
        <5>1. /\ n \in 0 .. Len(Append(body, EOT) \o Decimal(hits.total))
              /\ IsReply(SubSeq(Append(body, EOT) \o Decimal(hits.total), 1, n))
          BY <4>2, <1>6
        <5>2. QED BY <1>8, <4>3, <5>1, CutReplyIsRead
      <4>5. QED BY <4>2, <4>4, <1>6
    <3>3. QED BY <3>1, <3>2
  <2>2. Terminated(Pieces(body, sep), sep) = body
    <3>1. CASE cmd.null
      BY <3>1, <1>5
    <3>2. CASE ~cmd.null
      <4>1. sep = Newline
        BY <3>2 DEF Sep
      <4>2. ASSUME NEW i \in DOMAIN lines PROVE NeatLine(lines[i], sep)
        <5>1. ~DropsLine(lines[i])
          BY <1>1, <1>7, <3>2
        <5>2. QED BY <4>1, <5>1 DEF DropsLine, NeatLine
      <4> HIDE DEF sep
      <4>3. Neat(Terminated(lines, sep), sep)
        BY <1>7, <4>2, NeatLines
      <4>4. body \in Seq(Byte)
        <5>1. lines \in Seq(Seq(Byte))
          <6>1. Char \subseteq Byte
            BY DEF Char
          <6>2. Seq(Char) \subseteq Seq(Byte)
            BY <6>1, SeqMonotonic
          <6>3. Seq(Char) \ {<<>>} \subseteq Seq(Byte)
            BY <6>2
          <6>4. QED BY <1>7, <6>3, SeqMonotonic
        <5>2. QED BY <1>2, <5>1, TerminatedIsText
      <4> HIDE DEF body
      <4>5. Neat(body, sep)
        BY <4>3 DEF body
      <4>6. QED BY <1>2, <4>4, <4>5, PiecesRejoin
    <3>3. QED BY <3>1, <3>2
  <2>3. Printed(conn.wire) = Terminated(Pieces(BodyOf(conn.wire), sep), sep)
    BY <1>10 DEF Printed
  <2> HIDE DEF body
  <2>4. QED BY <2>1, <2>2, <2>3, <1>4, <1>10 DEF body
<1>11. QED BY <1>9, <1>10

\* The client prints the whole answer of one snapshot that was served while it
\* waited, or of the index file, whatever crashes, starts, publishes or replaces
\* the file meanwhile, and wherever a reply is cut off; never a part, and never
\* lines of two. Excepted and DoubleSlash say when it does not.
THEOREM AnswersWhole == Spec => []OneWholeAnswer
<1>1. IInv /\ AnswerInv => OneWholeAnswer
  <2> SUFFICES ASSUME IInv, AnswerInv, pc = "done"
               PROVE  \E l \in views : \/ out.text = AnswerText(l)
                                       \/ (out.from = "daemon" /\ Excepted(l))
                                       \/ DoubleSlash(l, Words(cmd))
    BY DEF OneWholeAnswer
  <2>1. views \subseteq AllSnapshots /\ cmd \in AllCommands
    BY DEF IInv, WorldInv
  <2>2. CASE out.from = "file" /\ \E l \in views \cap Files : out.text = FileText(cmd, l, FileHits[l][cmd])
    <3>1. PICK l \in views \cap Files : out.text = FileText(cmd, l, FileHits[l][cmd])
      BY <2>2
    <3>2. CASE DoubleSlash(l, Words(cmd))
      BY <3>1, <3>2
    <3>3. CASE ~DoubleSlash(l, Words(cmd))
      <4>1. InRange(l) /\ WellNamed(l) /\ l.deadDirs = {} /\ l.deadFiles = {} /\ l \in AllSnapshots
        BY <3>1, <2>1, ClientAssumption
      <4>2. Words(cmd) \in Seq(Seq(Byte)) /\ cmd.opts \in Options /\ EffectiveLimit(cmd) \in Nat
        BY <2>1, WordsAre, CommandsAre
      <4>3. Plain(l, Words(cmd))
        BY <3>3, NoDoubleSlash
      <4>4. FileHits[l][cmd] = FileSearch(l, ParseOpts(Words(cmd), cmd.opts), EffectiveLimit(cmd))
        BY <2>1, <4>1 DEF FileHits
      <4>5. FileHits[l][cmd] = AnswerHits(l, Words(cmd), cmd.opts, EffectiveLimit(cmd))
        BY <4>1, <4>2, <4>3, <4>4, FileSearchIs
      <4>6. QED BY <3>1, <4>5 DEF AnswerText
    <3>4. QED BY <3>2, <3>3
  <2>3. CASE out.from = "daemon"
    <3>1. conn.by # "none" /\ (conn.by = "new" => (\E l \in views : Sent(l)) /\ IsReply(conn.wire) /\ out.text = Printed(conn.wire))
      BY <2>3 DEF AnswerInv
    <3>2. CASE conn.by = "new"
      <4>1. PICK l \in views : Sent(l)
        BY <3>1, <3>2
      <4>2. ~Excepted(l) /\ ~DoubleSlash(l, Words(cmd)) => out.text = AnswerText(l)
        BY <2>1, <3>1, <3>2, <4>1, WholeAnswerPrinted
      <4>3. QED BY <2>3, <4>1, <4>2
    <3>3. CASE conn.by = "old"
      <4>1. views # {}
        BY DEF AnswerInv
      <4>2. QED BY <2>3, <3>3, <4>1 DEF Excepted
    <3>4. conn.by \in {"none", "old", "new"}
      BY DEF IInv, FormInv, Connections, Peers
    <3>5. QED BY <3>1, <3>2, <3>3, <3>4
  <2>4. QED BY <2>2, <2>3 DEF AnswerInv
<1>2. QED BY <1>1, IInvHolds, AnswerInvHolds, PTL
=============================================================================
