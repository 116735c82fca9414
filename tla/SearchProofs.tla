---------------------------- MODULE SearchProofs ----------------------------
(***************************************************************************)
(* What the operators of Search return, for every snapshot and query.      *)
(***************************************************************************)
EXTENDS Search, GlobProofs

(* Lists of ids.                                                           *)

\* s lists a set of numbers from the smallest to the largest.
Ascending(s, set) ==
  /\ s \in Seq(set)
  /\ \A x \in set : \E i \in DOMAIN s : s[i] = x
  /\ \A i, j \in DOMAIN s : i < j => s[i] < s[j]

\* It lists each once.
LEMMA AscendingOnce ==
  ASSUME NEW set, set \subseteq Nat, NEW s, Ascending(s, set)
  PROVE  /\ s \in Seq(set) /\ Len(s) \in Nat /\ DOMAIN s = 1 .. Len(s)
         /\ \A i \in DOMAIN s : s[i] \in set
         /\ \A x : x \in set <=> \E i \in DOMAIN s : s[i] = x
         /\ \A i, j \in DOMAIN s : s[i] = s[j] => i = j
<1>1. s \in Seq(set) /\ \A x \in set : \E i \in DOMAIN s : s[i] = x
  BY DEF Ascending
<1>2. Len(s) \in Nat /\ DOMAIN s = 1 .. Len(s) /\ \A i \in DOMAIN s : s[i] \in set
  BY <1>1, LenProperties, ElementOfSeq
<1>3. ASSUME NEW i \in DOMAIN s, NEW j \in DOMAIN s, s[i] = s[j] PROVE i = j
  <2>1. i \in Nat /\ j \in Nat /\ s[i] \in Nat /\ s[j] \in Nat
    <3>1. s[i] \in set /\ s[j] \in set
      BY <1>2
    <3>2. i \in 1 .. Len(s) /\ j \in 1 .. Len(s)
      BY <1>2
    <3>3. i \in Nat /\ j \in Nat
      BY <3>2, <1>2
    <3>4. s[i] \in Nat /\ s[j] \in Nat
      BY <3>1
    <3>5. QED BY <3>3, <3>4
  <2>2. ~(i < j) /\ ~(j < i)
    <3>1. ~(s[i] < s[j]) /\ ~(s[j] < s[i])
      BY <1>3, <2>1
    <3>2. QED BY <3>1 DEF Ascending
  <2>3. QED BY <2>1, <2>2
<1>4. \A x : x \in set <=> \E i \in DOMAIN s : s[i] = x
  BY <1>1, <1>2
<1>5. QED BY <1>1, <1>2, <1>3, <1>4

\* A larger number goes to the end.
LEMMA AscendingMore ==
  ASSUME NEW n \in Nat, NEW set, \A x \in set : x \in Nat /\ x < n, NEW s, Ascending(s, set)
  PROVE  Ascending(Append(s, n), set \cup {n})
<1> DEFINE t == Append(s, n)
           more == set \cup {n}
<1>1. set \subseteq Nat
  OBVIOUS
<1>2. /\ s \in Seq(set) /\ Len(s) \in Nat /\ DOMAIN s = 1 .. Len(s)
      /\ \A i \in DOMAIN s : s[i] \in set
  BY <1>1, AscendingOnce
<1>3. s \in Seq(more) /\ n \in more
  BY <1>2, SeqMonotonic
<1>4. /\ t \in Seq(more) /\ DOMAIN t = 1 .. Len(s) + 1
      /\ \A i \in DOMAIN s : t[i] = s[i]
      /\ t[Len(s) + 1] = n
  <2> HIDE DEF more
  <2>1. QED BY <1>3, AppendedOne
<1> HIDE DEF t
<1>5. ASSUME NEW x \in more PROVE \E i \in DOMAIN t : t[i] = x
  <2>1. CASE x = n
    BY <2>1, <1>2, <1>4
  <2>2. CASE x \in set
    <3>1. PICK i \in DOMAIN s : s[i] = x
      BY <2>2 DEF Ascending
    <3>2. i \in DOMAIN t /\ t[i] = x
      BY <3>1, <1>2, <1>4
    <3>3. QED BY <3>2
  <2>3. QED BY <2>1, <2>2
<1>6. ASSUME NEW i \in DOMAIN t, NEW j \in DOMAIN t, i < j PROVE t[i] < t[j]
  <2>1. i \in DOMAIN s /\ t[i] = s[i] /\ s[i] \in set
    BY <1>2, <1>4, <1>6
  <2>2. CASE j \in DOMAIN s
    <3>1. t[j] = s[j]
      BY <2>2, <1>4
    <3>2. s[i] < s[j]
      BY <2>1, <2>2, <1>6 DEF Ascending
    <3>3. QED BY <2>1, <3>1, <3>2
  <2>3. CASE j \notin DOMAIN s
    <3>1. j = Len(s) + 1
      BY <2>3, <1>2, <1>4
    <3>2. QED BY <2>1, <3>1, <1>4
  <2>4. QED BY <2>2, <2>3
<1>7. QED BY <1>4, <1>5, <1>6 DEF Ascending, t

\* SortedIds lists its ids in order.
LEMMA SortedIdsAscend ==
  ASSUME NEW n \in Nat, NEW ids, ids \subseteq 1 .. n
  PROVE  Ascending(SortedIds(ids), ids)
<1> DEFINE N == Max({0} \cup ids)
           upto[k \in 0 .. N] ==
             IF k = 0 THEN <<>> ELSE IF k \in ids THEN Append(upto[k - 1], k) ELSE upto[k - 1]
           S == Seq(ids)
           G == [k \in 0 .. N |-> [x \in S |-> IF k \in ids THEN Append(x, k) ELSE x]]
<1>1. N \in 0 .. n /\ \A x \in ids : x <= N
  <2> DEFINE T == {0} \cup ids
  <2>1. T \subseteq 0 .. n /\ T # {} /\ ids \subseteq T
    OBVIOUS
  <2> HIDE DEF T
  <2>2. Max(T) \in T /\ \A x \in T : x <= Max(T)
    BY <2>1, MaxOf
  <2>3. QED BY <2>1, <2>2 DEF T
<1> HIDE DEF N
<1>2. <<>> \in S /\ G \in [0 .. N -> [S -> S]]
  <2>1. ASSUME NEW x \in S, NEW k \in ids PROVE Append(x, k) \in S
    BY <2>1, AppendProperties
  <2>2. QED BY <2>1
<1>3. PICK f \in [0 .. N -> S] : \A k \in 0 .. N : f[k] = IF k = 0 THEN <<>> ELSE G[k][f[k-1]]
  <2> HIDE DEF G, S
  <2>1. Stepwise(N, S, <<>>, G)
    BY <1>1, <1>2, StepwiseExists
  <2>2. QED BY <2>1 DEF Stepwise
<1>4. f = [k \in 0 .. N |-> IF k = 0 THEN <<>> ELSE IF k \in ids THEN Append(f[k-1], k) ELSE f[k-1]]
  <2>1. \A k \in 0 .. N : k # 0 => k - 1 \in 0 .. N
    BY <1>1
  <2>2. \A k \in 0 .. N : k # 0 => G[k][f[k-1]] = IF k \in ids THEN Append(f[k-1], k) ELSE f[k-1]
    BY <1>3, <2>1
  <2> HIDE DEF G, S
  <2>3. QED BY <1>3, <2>2
<1>5. upto = [k \in 0 .. N |-> IF k = 0 THEN <<>> ELSE IF k \in ids THEN Append(upto[k-1], k) ELSE upto[k-1]]
  BY <1>4
<1>6. SortedIds(ids) = upto[N]
  BY DEF SortedIds, N
<1> HIDE DEF upto, G, S
<1> DEFINE T == {k \in 0 .. N : Ascending(upto[k], ids \cap 1 .. k)}
<1>7. 0 \in T
  <2>1. upto[0] = <<>> /\ ids \cap 1 .. 0 = {} /\ 0 \in 0 .. N
    BY <1>1, <1>5
  <2>2. Ascending(<<>>, {})
    BY DEF Ascending
  <2>3. QED BY <2>1, <2>2
<1>8. ASSUME NEW k \in 0 .. N - 1, k \in T PROVE k + 1 \in T
  <2>1. k + 1 \in 0 .. N /\ k + 1 # 0 /\ (k + 1) - 1 = k /\ k \in Nat
    BY <1>1
  <2>2. Ascending(upto[k], ids \cap 1 .. k)
    BY <1>8
  <2>3. upto[k + 1] = IF k + 1 \in ids THEN Append(upto[k], k + 1) ELSE upto[k]
    BY <2>1, <1>5
  <2>4. CASE k + 1 \in ids
    <3>1. ids \cap 1 .. k + 1 = (ids \cap 1 .. k) \cup {k + 1}
      BY <2>1, <2>4
    <3>2. \A x \in ids \cap 1 .. k : x \in Nat /\ x < k + 1
      BY <2>1
    <3>3. Ascending(Append(upto[k], k + 1), (ids \cap 1 .. k) \cup {k + 1})
      BY <2>1, <2>2, <3>2, AscendingMore
    <3>4. QED BY <2>1, <2>3, <2>4, <3>1, <3>3
  <2>5. CASE k + 1 \notin ids
    <3>1. ids \cap 1 .. k + 1 = ids \cap 1 .. k
      BY <2>1, <2>5
    <3>2. QED BY <2>1, <2>2, <2>3, <2>5, <3>1
  <2>6. QED BY <2>4, <2>5
<1> HIDE DEF T
<1>9. \A k \in 0 .. N : k \in T
  BY <1>1, <1>7, <1>8, UpTo
<1>10. Ascending(upto[N], ids \cap 1 .. N)
  BY <1>1, <1>9 DEF T
<1>11. ids \cap 1 .. N = ids
  <2>1. \A x \in ids : x \in Nat /\ x >= 1 /\ x <= N
    BY <1>1
  <2>2. \A x \in ids : x \in 1 .. N
    BY <2>1, <1>1
  <2>3. QED BY <2>2
<1>12. QED BY <1>6, <1>10, <1>11

-----------------------------------------------------------------------------
(* The limit.                                                              *)

Least(m, n) == IF m < n THEN m ELSE n

\* What FirstN keeps.
LEMMA FirstOf ==
  ASSUME NEW S, NEW s \in Seq(S), NEW n \in Nat
  PROVE  /\ FirstN(s, n) \in Seq(S) /\ Len(FirstN(s, n)) = Least(n, Len(s))
         /\ Len(s) \in Nat /\ Least(n, Len(s)) \in Nat
         /\ Least(n, Len(s)) <= n /\ Least(n, Len(s)) <= Len(s)
         /\ \A i \in 1 .. Least(n, Len(s)) : FirstN(s, n)[i] = s[i]
<1> DEFINE m == Least(n, Len(s))
<1>1. Len(s) \in Nat /\ \A i \in 1 .. Len(s) : s[i] \in S
  BY LenProperties, ElementOfSeq
<1>2. m \in Nat /\ m <= n /\ m <= Len(s)
  BY <1>1 DEF Least
<1>3. FirstN(s, n) = SubSeq(s, 1, m)
  BY DEF FirstN, Least
<1> HIDE DEF m
<1>4. \A i \in 1 .. m : s[i] \in S
  BY <1>1, <1>2
<1>5. /\ SubSeq(s, 1, m) \in Seq(S) /\ Len(SubSeq(s, 1, m)) = m
      /\ \A i \in 1 .. m : SubSeq(s, 1, m)[i] = s[i]
  BY <1>2, <1>4, Beginning
<1>6. QED BY <1>1, <1>2, <1>3, <1>5 DEF m

\* Two sequences begin in the same way, as far as n elements go.
Agree(a, b, n) ==
  /\ Len(a) = Len(b) \/ (n <= Len(a) /\ n <= Len(b))
  /\ \A i \in 1 .. n : i <= Len(a) => a[i] = b[i]

\* Such sequences have the same first n elements.
LEMMA AgreeFirst ==
  ASSUME NEW S, NEW a \in Seq(S), NEW b \in Seq(S), NEW n \in Nat, Agree(a, b, n)
  PROVE  FirstN(a, n) = FirstN(b, n)
<1>1. /\ Len(a) \in Nat /\ Len(b) \in Nat
      /\ Len(a) = Len(b) \/ (n <= Len(a) /\ n <= Len(b))
      /\ \A i \in 1 .. n : i <= Len(a) => a[i] = b[i]
  BY LenProperties DEF Agree
<1>2. Least(n, Len(a)) = Least(n, Len(b))
  BY <1>1 DEF Least
<1> DEFINE m == Least(n, Len(a))
<1>3. /\ FirstN(a, n) \in Seq(S) /\ Len(FirstN(a, n)) = m /\ m \in Nat /\ m <= n /\ m <= Len(a)
      /\ \A i \in 1 .. m : FirstN(a, n)[i] = a[i]
  BY FirstOf
<1>4. /\ FirstN(b, n) \in Seq(S) /\ Len(FirstN(b, n)) = m
      /\ \A i \in 1 .. m : FirstN(b, n)[i] = b[i]
  BY <1>2, FirstOf
<1> HIDE DEF m
<1>5. \A i \in 1 .. m : a[i] = b[i]
  BY <1>1, <1>3
<1>6. \A i \in 1 .. m : FirstN(a, n)[i] = FirstN(b, n)[i]
  BY <1>3, <1>4, <1>5
<1>7. QED BY <1>3, <1>4, <1>6, SeqEqual

\* What is cut off behind the first n elements does not show in them.
LEMMA CutAgrees ==
  ASSUME NEW S, NEW s \in Seq(S), NEW n \in Nat
  PROVE  Agree(FirstN(s, n), s, n)
<1>1. /\ Len(FirstN(s, n)) = Least(n, Len(s)) /\ Len(s) \in Nat
      /\ \A i \in 1 .. Least(n, Len(s)) : FirstN(s, n)[i] = s[i]
  BY FirstOf
<1>2. Least(n, Len(s)) = Len(s) \/ (Least(n, Len(s)) = n /\ n <= Len(s))
  BY <1>1 DEF Least
<1>3. \A i \in 1 .. n : i <= Least(n, Len(s)) => i \in 1 .. Least(n, Len(s))
  BY <1>1, <1>2
<1>4. QED BY <1>1, <1>2, <1>3 DEF Agree

\* Sequences that agree can be continued by such sequences.
LEMMA JoinedAgree ==
  ASSUME NEW S, NEW a \in Seq(S), NEW b \in Seq(S), NEW c \in Seq(S), NEW d \in Seq(S),
         NEW n \in Nat, Agree(a, c, n), Agree(b, d, n)
  PROVE  Agree(a \o b, c \o d, n)
<1>1. /\ Len(a) \in Nat /\ Len(b) \in Nat /\ Len(c) \in Nat /\ Len(d) \in Nat
      /\ Len(a) = Len(c) \/ (n <= Len(a) /\ n <= Len(c))
      /\ Len(b) = Len(d) \/ (n <= Len(b) /\ n <= Len(d))
  BY LenProperties DEF Agree
<1>2. /\ Len(a \o b) = Len(a) + Len(b)
      /\ \A i \in 1 .. Len(a) + Len(b) : (a \o b)[i] = IF i <= Len(a) THEN a[i] ELSE b[i - Len(a)]
  BY ConcatProperties
<1>3. /\ Len(c \o d) = Len(c) + Len(d)
      /\ \A i \in 1 .. Len(c) + Len(d) : (c \o d)[i] = IF i <= Len(c) THEN c[i] ELSE d[i - Len(c)]
  BY ConcatProperties
<1>4. Len(a \o b) = Len(c \o d) \/ (n <= Len(a \o b) /\ n <= Len(c \o d))
  <2>1. Len(a) + Len(b) = Len(c) + Len(d) \/ (n <= Len(a) + Len(b) /\ n <= Len(c) + Len(d))
    <3> DEFINE la == Len(a)   lb == Len(b)   lc == Len(c)   ld == Len(d)
    <3>1. /\ la \in Nat /\ lb \in Nat /\ lc \in Nat /\ ld \in Nat
          /\ la = lc \/ (n <= la /\ n <= lc)
          /\ lb = ld \/ (n <= lb /\ n <= ld)
      BY <1>1
    <3> HIDE DEF la, lb, lc, ld
    <3>2. la + lb = lc + ld \/ (n <= la + lb /\ n <= lc + ld)
      BY <3>1
    <3>3. QED BY <3>2 DEF la, lb, lc, ld
  <2>2. Len(a \o b) = Len(a) + Len(b) /\ Len(c \o d) = Len(c) + Len(d)
    BY <1>2, <1>3
  <2>3. QED BY <2>1, <2>2
<1>5. ASSUME NEW i \in 1 .. n, i <= Len(a \o b) PROVE (a \o b)[i] = (c \o d)[i]
  <2>1. i \in 1 .. Len(a) + Len(b) /\ i \in 1 .. Len(c) + Len(d)
    BY <1>1, <1>2, <1>3, <1>5
  <2>2. CASE i <= Len(a)
    <3>1. i <= Len(c)
      BY <2>2, <1>1
    <3>2. a[i] = c[i]
      BY <2>2 DEF Agree
    <3>3. (a \o b)[i] = a[i]
      BY <2>1, <2>2, <1>2
    <3>4. (c \o d)[i] = c[i]
      BY <2>1, <3>1, <1>3
    <3>5. QED BY <3>2, <3>3, <3>4
  <2>3. CASE ~(i <= Len(a))
    <3>1. Len(a) = Len(c) /\ i - Len(a) \in 1 .. n /\ i - Len(a) <= Len(b)
      BY <2>1, <2>3, <1>1
    <3>2. b[i - Len(a)] = d[i - Len(a)]
      BY <3>1 DEF Agree
    <3>3. (a \o b)[i] = b[i - Len(a)]
      BY <2>1, <2>3, <1>2
    <3>4. (c \o d)[i] = d[i - Len(a)]
      BY <2>1, <2>3, <3>1, <1>3
    <3>5. QED BY <3>2, <3>3, <3>4
  <2>4. QED BY <2>2, <2>3
<1>6. QED BY <1>4, <1>5 DEF Agree

\* Cutting each part to n elements does not change the first n of all.
LEMMA FlattenFirst ==
  ASSUME NEW S, NEW parts \in Seq(Seq(S)), NEW n \in Nat
  PROVE  LET cut == [t \in DOMAIN parts |-> FirstN(parts[t], n)]
         IN  /\ FlattenSeq(parts) \in Seq(S) /\ FlattenSeq(cut) \in Seq(S)
             /\ FirstN(FlattenSeq(cut), n) = FirstN(FlattenSeq(parts), n)
<1> DEFINE cut == [t \in DOMAIN parts |-> FirstN(parts[t], n)]
           N == Len(parts)
<1>1. N \in Nat /\ DOMAIN parts = 1 .. N /\ \A t \in 1 .. N : parts[t] \in Seq(S)
  BY LenProperties, ElementOfSeq
<1>2. \A t \in 1 .. N : FirstN(parts[t], n) \in Seq(S)
  BY <1>1, FirstOf
<1>3. cut \in [1 .. N -> Seq(S)] /\ \A t \in 1 .. N : cut[t] = FirstN(parts[t], n)
  BY <1>1, <1>2
<1> HIDE DEF cut, N
<1>4. cut \in Seq(Seq(S)) /\ Len(cut) = N
  <2> DEFINE Q == Seq(S)
  <2>1. cut \in [1 .. N -> Q]
    BY <1>3
  <2> HIDE DEF Q
  <2>2. cut \in Seq(Q) /\ Len(cut) = N
    BY <2>1, <1>1, FunctionIsSeq
  <2>3. QED BY <2>2 DEF Q
<1>5. PICK f \in [0 .. N -> Seq(S)] : Joins(f, parts) /\ FlattenSeq(parts) = f[N]
  BY FlattenJoins DEF N
<1>6. PICK g \in [0 .. N -> Seq(S)] : Joins(g, cut) /\ FlattenSeq(cut) = g[N]
  <2>1. \E g \in [0 .. Len(cut) -> Seq(S)] : Joins(g, cut) /\ FlattenSeq(cut) = g[Len(cut)]
    BY <1>4, FlattenJoins
  <2>2. QED BY <2>1, <1>4
<1> DEFINE T == {i \in 0 .. N : Agree(g[i], f[i], n)}
<1>7. 0 \in T
  <2>1. g[0] = <<>> /\ f[0] = <<>>
    BY <1>5, <1>6 DEF Joins
  <2>2. Agree(<<>>, <<>>, n)
    BY DEF Agree
  <2>3. QED BY <2>1, <2>2, <1>1
<1>8. ASSUME NEW i \in 0 .. N - 1, i \in T PROVE i + 1 \in T
  <2>1. i + 1 \in 1 .. N /\ i + 1 \in 0 .. N /\ (i + 1) - 1 = i /\ i \in 0 .. N
    BY <1>1
  <2>2. f[i + 1] = f[i] \o parts[i + 1] /\ g[i + 1] = g[i] \o cut[i + 1]
    <3>1. f[i + 1] = f[(i + 1) - 1] \o parts[i + 1]
      BY <2>1, <1>5 DEF Joins, N
    <3>2. g[i + 1] = g[(i + 1) - 1] \o cut[i + 1]
      BY <2>1, <1>4, <1>6 DEF Joins
    <3>3. QED BY <3>1, <3>2, <2>1
  <2>3. Agree(cut[i + 1], parts[i + 1], n)
    BY <2>1, <1>1, <1>3, CutAgrees
  <2>4. Agree(g[i], f[i], n)
    BY <1>8
  <2>5. /\ g[i] \in Seq(S) /\ f[i] \in Seq(S)
        /\ cut[i + 1] \in Seq(S) /\ parts[i + 1] \in Seq(S)
    BY <2>1, <1>1, <1>3
  <2>6. Agree(g[i] \o cut[i + 1], f[i] \o parts[i + 1], n)
    BY <2>3, <2>4, <2>5, JoinedAgree
  <2>7. QED BY <2>1, <2>2, <2>6
<1> HIDE DEF T
<1>9. \A i \in 0 .. N : i \in T
  BY <1>1, <1>7, <1>8, UpTo
<1>10. Agree(g[N], f[N], n) /\ g[N] \in Seq(S) /\ f[N] \in Seq(S)
  <2>1. N \in 0 .. N
    BY <1>1
  <2>2. QED BY <2>1, <1>9 DEF T
<1>11. FirstN(g[N], n) = FirstN(f[N], n)
  BY <1>10, AgreeFirst
<1>12. QED BY <1>5, <1>6, <1>10, <1>11 DEF cut

\* A cut sequence cut again.
LEMMA FirstOfFirst ==
  ASSUME NEW S, NEW s \in Seq(S), NEW n \in Nat, NEW m \in 0 .. n
  PROVE  FirstN(FirstN(s, n), m) = FirstN(s, m)
<1>1. FirstN(s, n) \in Seq(S) /\ m \in Nat /\ m <= n
  BY FirstOf
<1>2. Agree(FirstN(s, n), s, n)
  BY CutAgrees
<1>3. Agree(FirstN(s, n), s, m)
  <2>1. \A i \in 1 .. m : i \in 1 .. n
    BY <1>1
  <2>2. Len(FirstN(s, n)) \in Nat /\ Len(s) \in Nat
    BY <1>1, LenProperties
  <2>3. QED BY <1>1, <1>2, <2>1, <2>2 DEF Agree
<1>4. QED BY <1>1, <1>3, AgreeFirst

\* What Limit shows of the directories and of what the threads bring.
LEMMA LimitShows ==
  ASSUME NEW A, NEW dirs \in Seq(A), NEW B, NEW parts \in Seq(Seq(B)), NEW n \in Nat
  PROVE  LET files == FlattenSeq(parts)
             rest  == n - Least(n, Len(dirs))
             hits  == Limit(dirs, Gather(parts, n), n)
         IN  /\ hits.dirs = FirstN(dirs, n) /\ hits.files = FirstN(files, rest)
             /\ hits.total = Len(dirs) + Len(files)
             /\ rest \in 0 .. n /\ files \in Seq(B)
<1> DEFINE files == FlattenSeq(parts)
           rest  == n - Least(n, Len(dirs))
           got   == Gather(parts, n)
           cut   == [t \in DOMAIN parts |-> FirstN(parts[t], n)]
<1>1. Len(FirstN(dirs, n)) = Least(n, Len(dirs)) /\ rest \in 0 .. n
  <2>1. /\ Len(FirstN(dirs, n)) = Least(n, Len(dirs))
        /\ Least(n, Len(dirs)) \in Nat /\ Least(n, Len(dirs)) <= n
    BY FirstOf
  <2> DEFINE m == Least(n, Len(dirs))
  <2>2. m \in Nat /\ m <= n
    BY <2>1
  <2> HIDE DEF m
  <2>3. n - m \in 0 .. n
    BY <2>2
  <2>4. QED BY <2>1, <2>3 DEF m
<1>2. files \in Seq(B) /\ FirstN(FlattenSeq(cut), n) = FirstN(files, n)
  BY FlattenFirst
<1>3. got.ids = FirstN(files, n) /\ got.total = Len(files)
  BY <1>2 DEF Gather
<1> HIDE DEF rest, files, got
<1>4. FirstN(FirstN(files, n), rest) = FirstN(files, rest)
  BY <1>1, <1>2, FirstOfFirst
<1>5. /\ Limit(dirs, got, n).dirs = FirstN(dirs, n)
      /\ Limit(dirs, got, n).files = FirstN(got.ids, rest)
      /\ Limit(dirs, got, n).total = Len(dirs) + got.total
  BY <1>1 DEF Limit, rest
<1>6. QED BY <1>1, <1>2, <1>3, <1>4, <1>5 DEF rest, files, got

\* The lines of all hits.
AllLines(l, dirs, files) ==
  [i \in DOMAIN dirs |-> DirLine(l, dirs[i])] \o [i \in DOMAIN files |-> FilePath(l, files[i])]

\* The lines of a limited answer are the first of all lines.
LEMMA LinesOfFirst ==
  ASSUME NEW l, NEW A, NEW dirs \in Seq(A), NEW B, NEW files \in Seq(B), NEW n \in Nat
  PROVE  LET rest == n - Least(n, Len(dirs))
         IN  AllLines(l, FirstN(dirs, n), FirstN(files, rest)) = FirstN(AllLines(l, dirs, files), n)
<1> DEFINE rest == n - Least(n, Len(dirs))
           a == Len(dirs)   b == Len(files)
           p == Least(n, a)   q == Least(rest, b)
           D == FirstN(dirs, n)   F == FirstN(files, rest)
           S == {DirLine(l, x) : x \in A} \cup {FilePath(l, x) : x \in B}
           X(s) == [i \in DOMAIN s |-> DirLine(l, s[i])]
           Y(s) == [i \in DOMAIN s |-> FilePath(l, s[i])]
<1>1. /\ a \in Nat /\ p \in Nat /\ p <= n /\ p <= a /\ D \in Seq(A) /\ Len(D) = p
      /\ \A i \in 1 .. p : D[i] = dirs[i]
  BY FirstOf
<1>2. rest \in Nat
  BY <1>1
<1>3. /\ b \in Nat /\ q \in Nat /\ q <= rest /\ q <= b /\ F \in Seq(B) /\ Len(F) = q
      /\ \A i \in 1 .. q : F[i] = files[i]
  <2> HIDE DEF rest
  <2>1. QED BY <1>2, FirstOf
<1>4. /\ DOMAIN dirs = 1 .. a /\ DOMAIN files = 1 .. b /\ DOMAIN D = 1 .. p /\ DOMAIN F = 1 .. q
      /\ \A i \in 1 .. a : dirs[i] \in A
      /\ \A i \in 1 .. b : files[i] \in B
  BY <1>1, <1>3, LenProperties, ElementOfSeq
<1> HIDE DEF D, F
<1>5. /\ X(dirs) \in [1 .. a -> S] /\ \A i \in 1 .. a : X(dirs)[i] = DirLine(l, dirs[i])
      /\ Y(files) \in [1 .. b -> S] /\ \A i \in 1 .. b : Y(files)[i] = FilePath(l, files[i])
  <2> HIDE DEF a, b
  <2>1. QED BY <1>4
<1>6. /\ X(D) \in [1 .. p -> S] /\ \A i \in 1 .. p : X(D)[i] = DirLine(l, dirs[i])
      /\ Y(F) \in [1 .. q -> S] /\ \A i \in 1 .. q : Y(F)[i] = FilePath(l, files[i])
  <2>1. /\ \A i \in 1 .. p : i \in 1 .. a /\ D[i] = dirs[i] /\ D[i] \in A
        /\ \A i \in 1 .. q : i \in 1 .. b /\ F[i] = files[i] /\ F[i] \in B
    <3> HIDE DEF a, b, p, q
    <3>1. \A i \in 1 .. p : i \in 1 .. a
      BY <1>1
    <3>2. \A i \in 1 .. q : i \in 1 .. b
      BY <1>3
    <3>3. QED BY <3>1, <3>2, <1>1, <1>3, <1>4
  <2> HIDE DEF a, b, p, q
  <2>2. QED BY <2>1, <1>4
<1> DEFINE all == X(dirs) \o Y(files)
           some == X(D) \o Y(F)
<1> HIDE DEF X, Y, S, a, b, p, q
<1>7. /\ X(dirs) \in Seq(S) /\ Len(X(dirs)) = a /\ Y(files) \in Seq(S) /\ Len(Y(files)) = b
      /\ X(D) \in Seq(S) /\ Len(X(D)) = p /\ Y(F) \in Seq(S) /\ Len(Y(F)) = q
  BY <1>1, <1>3, <1>5, <1>6, FunctionIsSeq
<1>8. /\ all \in Seq(S) /\ Len(all) = a + b
      /\ \A i \in 1 .. a + b : all[i] = IF i <= a THEN X(dirs)[i] ELSE Y(files)[i - a]
  BY <1>7, ConcatProperties
<1>9. /\ some \in Seq(S) /\ Len(some) = p + q
      /\ \A i \in 1 .. p + q : some[i] = IF i <= p THEN X(D)[i] ELSE Y(F)[i - p]
  BY <1>7, ConcatProperties
<1> HIDE DEF all, some
<1>10. p + q = Least(n, a + b) /\ (p = a \/ q = 0)
  <2>1. p = IF n < a THEN n ELSE a
    BY DEF p, Least
  <2>2. q = IF n - p < b THEN n - p ELSE b
    BY DEF q, p, Least, rest, a
  <2>3. QED BY <2>1, <2>2, <1>1, <1>3 DEF Least
<1>11. /\ FirstN(all, n) \in Seq(S) /\ Len(FirstN(all, n)) = p + q
       /\ \A i \in 1 .. p + q : FirstN(all, n)[i] = all[i]
  <2>1. /\ FirstN(all, n) \in Seq(S) /\ Len(FirstN(all, n)) = Least(n, Len(all))
        /\ \A i \in 1 .. Least(n, Len(all)) : FirstN(all, n)[i] = all[i]
    BY <1>8, FirstOf
  <2>2. Least(n, Len(all)) = p + q
    BY <1>8, <1>10
  <2>3. QED BY <2>1, <2>2
<1>12. ASSUME NEW i \in 1 .. p + q PROVE some[i] = FirstN(all, n)[i]
  <2>1. i \in 1 .. a + b /\ FirstN(all, n)[i] = all[i]
    BY <1>1, <1>3, <1>11
  <2>2. CASE i <= p
    <3>1. i \in 1 .. p /\ i \in 1 .. a /\ i <= a
      BY <2>2, <1>1, <1>3
    <3>2. some[i] = X(D)[i] /\ all[i] = X(dirs)[i]
      BY <2>1, <2>2, <3>1, <1>8, <1>9
    <3>3. QED BY <2>1, <3>1, <3>2, <1>5, <1>6
  <2>3. CASE ~(i <= p)
    <3>1. p = a /\ i - a \in 1 .. q /\ i - a \in 1 .. b /\ ~(i <= a)
      BY <2>3, <1>1, <1>3, <1>10
    <3>2. some[i] = Y(F)[i - a] /\ all[i] = Y(files)[i - a]
      BY <2>1, <2>3, <3>1, <1>8, <1>9
    <3>3. QED BY <2>1, <3>1, <3>2, <1>5, <1>6
  <2>4. QED BY <2>2, <2>3
<1>13. some = FirstN(all, n)
  BY <1>9, <1>11, <1>12, SeqEqual
<1>14. QED BY <1>13 DEF AllLines, all, some, X, Y, D, F

-----------------------------------------------------------------------------
(* The shares of the threads.                                              *)

\* The smaller of two numbers.
LEMMA MinOfTwo ==
  ASSUME NEW a \in Int, NEW b \in Int
  PROVE  Min({a, b}) \in {a, b} /\ Min({a, b}) <= a /\ Min({a, b}) <= b
<1>1. \E x \in {a, b} : \A y \in {a, b} : x <= y
  <2>1. CASE a <= b
    BY <2>1
  <2>2. CASE b <= a
    BY <2>2
  <2>3. QED BY <2>1, <2>2
<1>2. Min({a, b}) \in {a, b} /\ \A y \in {a, b} : Min({a, b}) <= y
  BY <1>1 DEF Min
<1>3. QED BY <1>2

\* The length of a share: as many shares as there are threads cover everything.
LEMMA ShareLength ==
  ASSUME NEW n \in Nat
  PROVE  CeilDiv(n, NThreads) \in Nat /\ (n > 0 => CeilDiv(n, NThreads) > 0)
<1>1. NThreads \in Nat /\ NThreads > 0
  BY SearchAssumption
<1>2. (n + NThreads - 1) \div NThreads \in Nat
  <2> DEFINE m == n + NThreads - 1
  <2>1. m \in Nat
    BY <1>1
  <2> HIDE DEF m
  <2>2. m \div NThreads \in Nat
    BY <2>1, <1>1
  <2>3. QED BY <2>2 DEF m
<1>3. ASSUME n > 0 PROVE (n + NThreads - 1) \div NThreads > 0
  <2> DEFINE m == n + NThreads - 1   q == m \div NThreads
  <2>1. m \in Nat /\ m >= NThreads
    BY <1>1, <1>3
  <2>2. q \in Nat /\ m = NThreads * q + (m % NThreads) /\ m % NThreads \in 0 .. NThreads - 1
    <3> HIDE DEF m
    <3>1. QED BY <2>1, <1>1
  <2>3. q # 0
    <3> HIDE DEF m, q
    <3>1. ASSUME q = 0 PROVE FALSE
      <4>1. NThreads * q = 0
        BY <3>1, <1>1
      <4>2. QED BY <4>1, <2>1, <2>2, <1>1
    <3>2. QED BY <3>1
  <2>4. q > 0
    BY <2>2, <2>3
  <2>5. QED BY <2>4
<1>4. QED BY <1>2, <1>3 DEF CeilDiv

\* Shares begin where the ones before them have ended.
LEMMA ShareBounds ==
  ASSUME NEW c \in Nat, NEW t \in Nat \ {0}
  PROVE  /\ (t - 1) * c \in Nat /\ t * c \in Nat /\ t * c = (t - 1) * c + c
         /\ \A u \in Nat : u > t => t * c <= (u - 1) * c
<1>1. t - 1 \in Nat /\ \A a, b \in Nat : a * b \in Nat
  OBVIOUS
<1>2. t * c = (t - 1) * c + c
  OBVIOUS
<1>3. ASSUME NEW u \in Nat, u > t PROVE t * c <= (u - 1) * c
  <2> DEFINE k == (u - 1) - t
  <2>1. k \in Nat /\ u - 1 = t + k
    BY <1>3
  <2> HIDE DEF k
  <2>2. (t + k) * c = t * c + k * c
    BY <2>1
  <2>3. k * c \in Nat /\ t * c \in Nat
    BY <2>1, <1>1
  <2>4. QED BY <2>1, <2>2, <2>3
<1>4. QED BY <1>1, <1>2, <1>3

\* A share lies within the whole.
LEMMA ShareInRange ==
  ASSUME NEW n \in Nat, NEW t \in 1 .. NThreads
  PROVE  ShareOf(n, t) \subseteq 1 .. n
<1> DEFINE c == CeilDiv(n, NThreads)   lo == (t - 1) * c   hi == t * c
<1>1. t \in Nat \ {0} /\ c \in Nat
  BY ShareLength, SearchAssumption
<1>2. lo \in Nat /\ hi \in Nat
  <2> HIDE DEF c
  <2>1. QED BY <1>1, ShareBounds
<1>3. Min({n, hi}) <= n /\ Min({n, hi}) \in Nat
  <2> HIDE DEF hi
  <2>1. n \in Int /\ hi \in Int
    BY <1>2
  <2>2. Min({n, hi}) \in {n, hi} /\ Min({n, hi}) <= n
    BY <2>1, MinOfTwo
  <2>3. QED BY <2>2, <1>2
<1>4. ShareOf(n, t) = lo + 1 .. Min({n, hi})
  BY DEF ShareOf
<1> HIDE DEF lo, hi
<1>5. QED BY <1>2, <1>3, <1>4

-----------------------------------------------------------------------------
(* The two searches.                                                       *)

\* What they find: directories, and the files of each thread.
LiveDirs(l, q) ==
  IF ~WantsDirs(q) THEN {} ELSE {d \in AliveDirs(l) : l.dirs[d].name # <<>> /\ DirHit(l, q, d)}
FileDirs(l, q) ==
  IF ~WantsDirs(q) THEN {} ELSE {d \in DOMAIN l.dirs : l.dirs[d].name # <<>> /\ DirHit(l, q, d)}

BaseHits(l, q, t)  == {f \in Candidates(l, q, t) \ l.deadFiles : FileHit(l, q, f)}
DeltaHits(l, q)    == {f \in AliveFiles(l) \ BaseFiles(l) : FileHit(l, q, f)}
ShareHits(l, q, t) == {f \in ShareOf(Len(l.files), t) : FileHit(l, q, f)}

LiveParts(l, q) ==
  IF WantsFiles(q) THEN Append(SearchBaseFiles(l, q), SortedIds(DeltaHits(l, q))) ELSE <<>>
FileParts(l, q) ==
  IF WantsFiles(q) THEN [t \in 1 .. NThreads |-> SortedIds(ShareHits(l, q, t))] ELSE <<>>

\* The searches in these terms.
LEMMA SearchesAre ==
  ASSUME NEW l, NEW q, NEW n
  PROVE  /\ LiveSearch(l, q, n) = IF IsEmpty(q) THEN NoHits
                                  ELSE Limit(SortedIds(LiveDirs(l, q)), Gather(LiveParts(l, q), n), n)
         /\ FileSearch(l, q, n) = IF IsEmpty(q) THEN NoHits
                                  ELSE Limit(SortedIds(FileDirs(l, q)), Gather(FileParts(l, q), n), n)
<1>1. LiveSearch(l, q, n) = IF IsEmpty(q) THEN NoHits
                            ELSE Limit(SortedIds(LiveDirs(l, q)), Gather(LiveParts(l, q), n), n)
  BY DEF LiveSearch, LiveDirs, LiveParts, DeltaHits
<1>2. FileSearch(l, q, n) = IF IsEmpty(q) THEN NoHits
                            ELSE Limit(SortedIds(FileDirs(l, q)), Gather(FileParts(l, q), n), n)
  BY DEF FileSearch, FileDirs, FileParts, ShareHits
<1>3. QED BY <1>1, <1>2

\* What a snapshot holds.
LEMMA SnapshotParts ==
  ASSUME NEW l, InRange(l)
  PROVE  /\ l.dirs \in Seq(Entry) /\ l.files \in Seq(Entry)
         /\ Len(l.dirs) \in Nat /\ DOMAIN l.dirs = 1 .. Len(l.dirs)
         /\ Len(l.files) \in Nat /\ DOMAIN l.files = 1 .. Len(l.files)
         /\ l.baseFiles \in Nat /\ l.baseFiles <= Len(l.files)
         /\ BaseFiles(l) \subseteq DOMAIN l.files
<1>1. /\ l.dirs \in Seq(Entry) /\ l.files \in Seq(Entry)
      /\ l.baseFiles \in Nat /\ l.baseFiles <= Len(l.files)
  BY DEF InRange, Snapshot
<1>2. /\ Len(l.dirs) \in Nat /\ DOMAIN l.dirs = 1 .. Len(l.dirs)
      /\ Len(l.files) \in Nat /\ DOMAIN l.files = 1 .. Len(l.files)
  BY <1>1, LenProperties
<1>3. BaseFiles(l) \subseteq DOMAIN l.files
  BY <1>1, <1>2 DEF BaseFiles
<1>4. QED BY <1>1, <1>2, <1>3

\* A thread compares files of the base.
LEMMA CandidatesInBase ==
  ASSUME NEW l, InRange(l), NEW q, NEW t \in 1 .. NThreads
  PROVE  Candidates(l, q, t) \subseteq BaseFiles(l)
<1>1. ShareOf(l.baseFiles, t) \subseteq 1 .. l.baseFiles
  BY SnapshotParts, ShareInRange
<1>2. Anchored(l, Anchor(q), t) \subseteq BaseFiles(l)
  BY DEF Anchored
<1>3. QED BY <1>1, <1>2 DEF Candidates, BaseFiles

\* Every part lists ids of the snapshot in their order.
LEMMA SearchParts ==
  ASSUME NEW l, InRange(l), NEW q
  PROVE  /\ Ascending(SortedIds(LiveDirs(l, q)), LiveDirs(l, q)) /\ LiveDirs(l, q) \subseteq DOMAIN l.dirs
         /\ Ascending(SortedIds(FileDirs(l, q)), FileDirs(l, q)) /\ FileDirs(l, q) \subseteq DOMAIN l.dirs
         /\ Ascending(SortedIds(DeltaHits(l, q)), DeltaHits(l, q))
         /\ DeltaHits(l, q) \subseteq DOMAIN l.files \ BaseFiles(l)
         /\ \A t \in 1 .. NThreads :
              /\ Ascending(SortedIds(BaseHits(l, q, t)), BaseHits(l, q, t))
              /\ BaseHits(l, q, t) \subseteq BaseFiles(l)
              /\ Ascending(SortedIds(ShareHits(l, q, t)), ShareHits(l, q, t))
              /\ ShareHits(l, q, t) \subseteq DOMAIN l.files
<1>1. /\ Len(l.dirs) \in Nat /\ DOMAIN l.dirs = 1 .. Len(l.dirs)
      /\ Len(l.files) \in Nat /\ DOMAIN l.files = 1 .. Len(l.files)
      /\ BaseFiles(l) \subseteq DOMAIN l.files
  BY SnapshotParts
<1>2. LiveDirs(l, q) \subseteq DOMAIN l.dirs /\ FileDirs(l, q) \subseteq DOMAIN l.dirs
  BY DEF LiveDirs, FileDirs, AliveDirs
<1>3. DeltaHits(l, q) \subseteq DOMAIN l.files \ BaseFiles(l)
  BY DEF DeltaHits, AliveFiles
<1>4. /\ Ascending(SortedIds(LiveDirs(l, q)), LiveDirs(l, q))
      /\ Ascending(SortedIds(FileDirs(l, q)), FileDirs(l, q))
  BY <1>1, <1>2, SortedIdsAscend
<1>5. DeltaHits(l, q) \subseteq 1 .. Len(l.files)
  BY <1>1, <1>3
<1>6. Ascending(SortedIds(DeltaHits(l, q)), DeltaHits(l, q))
  BY <1>1, <1>5, SortedIdsAscend
<1>7. ASSUME NEW t \in 1 .. NThreads
      PROVE  /\ Ascending(SortedIds(BaseHits(l, q, t)), BaseHits(l, q, t))
             /\ BaseHits(l, q, t) \subseteq BaseFiles(l)
             /\ Ascending(SortedIds(ShareHits(l, q, t)), ShareHits(l, q, t))
             /\ ShareHits(l, q, t) \subseteq DOMAIN l.files
  <2>1. BaseHits(l, q, t) \subseteq BaseFiles(l)
    BY CandidatesInBase DEF BaseHits
  <2>2. ShareOf(Len(l.files), t) \subseteq 1 .. Len(l.files)
    BY <1>1, ShareInRange
  <2>3. ShareHits(l, q, t) \subseteq 1 .. Len(l.files)
    BY <2>2 DEF ShareHits
  <2>4. BaseHits(l, q, t) \subseteq 1 .. Len(l.files)
    BY <1>1, <2>1
  <2>5. /\ Ascending(SortedIds(BaseHits(l, q, t)), BaseHits(l, q, t))
        /\ Ascending(SortedIds(ShareHits(l, q, t)), ShareHits(l, q, t))
    BY <1>1, <2>3, <2>4, SortedIdsAscend
  <2>6. QED BY <1>1, <2>1, <2>3, <2>5
<1>8. QED BY <1>2, <1>3, <1>4, <1>6, <1>7

\* The parts as sequences of ids.
LEMMA PartsAreIds ==
  ASSUME NEW l, InRange(l), NEW q
  PROVE  /\ SortedIds(LiveDirs(l, q)) \in Seq(DOMAIN l.dirs)
         /\ SortedIds(FileDirs(l, q)) \in Seq(DOMAIN l.dirs)
         /\ LiveParts(l, q) \in Seq(Seq(DOMAIN l.files))
         /\ FileParts(l, q) \in Seq(Seq(DOMAIN l.files))
<1> DEFINE F == DOMAIN l.files
           Q == Seq(F)
<1>1. SortedIds(LiveDirs(l, q)) \in Seq(DOMAIN l.dirs) /\ SortedIds(FileDirs(l, q)) \in Seq(DOMAIN l.dirs)
  <2>1. SortedIds(LiveDirs(l, q)) \in Seq(LiveDirs(l, q)) /\ LiveDirs(l, q) \subseteq DOMAIN l.dirs
    BY SearchParts DEF Ascending
  <2>2. SortedIds(FileDirs(l, q)) \in Seq(FileDirs(l, q)) /\ FileDirs(l, q) \subseteq DOMAIN l.dirs
    BY SearchParts DEF Ascending
  <2>3. QED BY <2>1, <2>2, SeqMonotonic
<1>2. \A t \in 1 .. NThreads : SortedIds(BaseHits(l, q, t)) \in Q /\ SortedIds(ShareHits(l, q, t)) \in Q
  <2> SUFFICES ASSUME NEW t \in 1 .. NThreads
               PROVE  SortedIds(BaseHits(l, q, t)) \in Q /\ SortedIds(ShareHits(l, q, t)) \in Q
    OBVIOUS
  <2>1. /\ SortedIds(BaseHits(l, q, t)) \in Seq(BaseHits(l, q, t)) /\ BaseHits(l, q, t) \subseteq BaseFiles(l)
        /\ SortedIds(ShareHits(l, q, t)) \in Seq(ShareHits(l, q, t)) /\ ShareHits(l, q, t) \subseteq F
    BY SearchParts DEF Ascending
  <2>2. BaseFiles(l) \subseteq F
    BY SnapshotParts
  <2>3. QED BY <2>1, <2>2, SeqMonotonic
<1>3. SortedIds(DeltaHits(l, q)) \in Q
  <2>1. SortedIds(DeltaHits(l, q)) \in Seq(DeltaHits(l, q)) /\ DeltaHits(l, q) \subseteq F
    BY SearchParts DEF Ascending
  <2>2. QED BY <2>1, SeqMonotonic
<1> HIDE DEF Q
<1>4. NThreads \in Nat
  BY SearchAssumption
<1>5. SearchBaseFiles(l, q) \in Seq(Q)
  <2>1. SearchBaseFiles(l, q) = [t \in 1 .. NThreads |-> SortedIds(BaseHits(l, q, t))]
    BY DEF SearchBaseFiles, BaseHits
  <2>2. SearchBaseFiles(l, q) \in [1 .. NThreads -> Q]
    BY <2>1, <1>2
  <2>3. QED BY <2>2, <1>4, FunctionIsSeq
<1>6. LiveParts(l, q) \in Seq(Q)
  <2>1. Append(SearchBaseFiles(l, q), SortedIds(DeltaHits(l, q))) \in Seq(Q)
    BY <1>3, <1>5, AppendProperties
  <2>2. QED BY <2>1 DEF LiveParts
<1>7. FileParts(l, q) \in Seq(Q)
  <2>1. [t \in 1 .. NThreads |-> SortedIds(ShareHits(l, q, t))] \in [1 .. NThreads -> Q]
    BY <1>2
  <2>2. [t \in 1 .. NThreads |-> SortedIds(ShareHits(l, q, t))] \in Seq(Q)
    BY <2>1, <1>4, FunctionIsSeq
  <2>3. QED BY <2>2 DEF FileParts
<1>8. QED BY <1>1, <1>6, <1>7 DEF Q

-----------------------------------------------------------------------------
(* Paths are texts without the byte 0.                                     *)

\* What a name is made of.
Char == Byte \ {0}

LEMMA SlashedIsText ==
  ASSUME NEW path \in Seq(Char)
  PROVE  Slashed(path) \in Seq(Char) /\ Len(Slashed(path)) > 0
<1>1. Slash \in Char
  BY DEF Slash, Char, Byte
<1>2. Append(path, Slash) \in Seq(Char) /\ Len(Append(path, Slash)) = Len(path) + 1 /\ Len(path) \in Nat
  BY <1>1, AppendProperties, LenProperties
<1>3. path # <<>> => Len(path) > 0
  BY EmptySeq, LenProperties
<1>4. QED BY <1>2, <1>3 DEF Slashed

\* A snapshot's names.
LEMMA NamesAreTexts ==
  ASSUME NEW l, InRange(l)
  PROVE  /\ \A d \in DOMAIN l.dirs : l.dirs[d].name \in Seq(Char) /\ l.dirs[d].parent \in {NoDir} \cup DOMAIN l.dirs
         /\ \A f \in DOMAIN l.files : l.files[f].name \in Seq(Char) /\ l.files[f].parent \in DOMAIN l.dirs
<1>1. /\ l.dirs \in Seq(Entry) /\ l.files \in Seq(Entry)
      /\ DOMAIN l.dirs = 1 .. Len(l.dirs) /\ DOMAIN l.files = 1 .. Len(l.files)
  BY SnapshotParts
<1>2. \A e \in Entry : e.name \in Seq(Char)
  <2>1. Name \subseteq Seq(Char)
    BY SearchAssumption DEF Char
  <2>2. \A e \in Entry : e.name \in Name
    BY DEF Entry
  <2>3. QED BY <2>1, <2>2
<1>3. /\ \A d \in DOMAIN l.dirs : l.dirs[d] \in Entry
      /\ \A f \in DOMAIN l.files : l.files[f] \in Entry
  BY <1>1, ElementOfSeq
<1>4. /\ \A d \in DOMAIN l.dirs : l.dirs[d].parent \in {NoDir} \cup DOMAIN l.dirs
      /\ \A f \in DOMAIN l.files : l.files[f].parent \in DOMAIN l.dirs
  BY DEF InRange
<1>5. QED BY <1>2, <1>3, <1>4

LEMMA DirPathIsText ==
  ASSUME NEW l, InRange(l), NEW d \in DOMAIN l.dirs
  PROVE  /\ DirPath(l, d) \in Seq(Char)
         /\ \E up \in Seq(Char) :
              DirPath(l, d) = (IF up = <<>> THEN <<>> ELSE Slashed(up)) \o l.dirs[d].name
         /\ l.dirs[d].parent = NoDir => DirPath(l, d) = l.dirs[d].name
<1> DEFINE N == Len(l.dirs)
           M == MaxClimb
           Texts == Seq(Char)
           S == [0 .. N -> Texts]
           Longer(up, name) == (IF up = <<>> THEN <<>> ELSE Slashed(up)) \o name
           paths[k \in 0 .. M] == [e \in 0 .. N |->
             IF k = 0 \/ e = NoDir THEN <<>> ELSE Longer(paths[k - 1][l.dirs[e].parent], l.dirs[e].name)]
           G == [k \in 0 .. M |-> [x \in S |-> [e \in 0 .. N |->
                   IF e = NoDir THEN <<>> ELSE Longer(x[l.dirs[e].parent], l.dirs[e].name)]]]
           none == [e \in 0 .. N |-> <<>>]
<1>1. M \in Nat /\ N \in Nat /\ DOMAIN l.dirs = 1 .. N
  BY SnapshotParts, SearchAssumption
<1>2. \A e \in 1 .. N : l.dirs[e].name \in Texts /\ l.dirs[e].parent \in 0 .. N
  BY <1>1, NamesAreTexts DEF NoDir
<1>3. \A up \in Texts, name \in Texts : Longer(up, name) \in Texts
  <2>1. <<>> \in Texts
    OBVIOUS
  <2>2. \A up \in Texts : Slashed(up) \in Texts
    BY SlashedIsText
  <2>3. QED BY <2>1, <2>2, ConcatProperties
<1>4. none \in S
  OBVIOUS
<1> HIDE DEF Texts, Longer, N, M
<1>5. G \in [0 .. M -> [S -> S]]
  <2> SUFFICES ASSUME NEW x \in S, NEW e \in 0 .. N
               PROVE  (IF e = NoDir THEN <<>> ELSE Longer(x[l.dirs[e].parent], l.dirs[e].name)) \in Texts
    OBVIOUS
  <2>1. CASE e = NoDir
    BY <2>1, <1>4, <1>1
  <2>2. CASE e # NoDir
    <3>1. e \in 1 .. N
      BY <2>2, <1>1 DEF NoDir
    <3>2. x[l.dirs[e].parent] \in Texts
      BY <3>1, <1>2
    <3>3. QED BY <2>2, <3>1, <3>2, <1>2, <1>3
  <2>3. QED BY <2>1, <2>2
<1>6. PICK f \in [0 .. M -> S] : \A k \in 0 .. M : f[k] = IF k = 0 THEN none ELSE G[k][f[k-1]]
  <2> HIDE DEF G, S, none
  <2>1. Stepwise(M, S, none, G)
    BY <1>1, <1>4, <1>5, StepwiseExists
  <2>2. QED BY <2>1 DEF Stepwise
<1>7. ASSUME NEW k \in 0 .. M, NEW e \in 0 .. N
      PROVE  /\ f[k][e] = IF k = 0 \/ e = NoDir THEN <<>> ELSE Longer(f[k-1][l.dirs[e].parent], l.dirs[e].name)
             /\ f[k][e] \in Texts
  <2>1. CASE k = 0
    BY <2>1, <1>6
  <2>2. CASE k # 0
    <3>1. f[k] = G[k][f[k-1]] /\ k - 1 \in 0 .. M
      <4> HIDE DEF G, S
      <4>1. k - 1 \in 0 .. M
        BY <2>2, <1>1
      <4>2. QED BY <2>2, <4>1, <1>6
    <3>2. f[k-1] \in S
      BY <3>1, <1>6
    <3>3. G[k][f[k-1]] = [a \in 0 .. N |->
            IF a = NoDir THEN <<>> ELSE Longer(f[k-1][l.dirs[a].parent], l.dirs[a].name)]
      BY <3>2
    <3>4. f[k] \in S
      BY <1>6
    <3>5. QED BY <2>2, <3>1, <3>3, <3>4
  <2>3. QED BY <2>1, <2>2
<1>8. ASSUME NEW k \in 0 .. M
      PROVE  f[k] = [e \in 0 .. N |->
               IF k = 0 \/ e = NoDir THEN <<>> ELSE Longer(f[k - 1][l.dirs[e].parent], l.dirs[e].name)]
  <2>1. f[k] \in [0 .. N -> Texts]
    BY <1>6
  <2>2. QED BY <2>1, <1>7
<1>9. f = [k \in 0 .. M |-> [e \in 0 .. N |->
            IF k = 0 \/ e = NoDir THEN <<>> ELSE Longer(f[k - 1][l.dirs[e].parent], l.dirs[e].name)]]
  <2>1. f = [k \in 0 .. M |-> f[k]]
    BY <1>6
  <2>2. QED BY <2>1, <1>8
<1>10. paths = [k \in 0 .. M |-> [e \in 0 .. N |->
            IF k = 0 \/ e = NoDir THEN <<>> ELSE Longer(paths[k - 1][l.dirs[e].parent], l.dirs[e].name)]]
  BY <1>9
<1>11. DirPath(l, d) = paths[M][d]
  BY DEF DirPath, M, N, Longer
<1> DEFINE T == {k \in 0 .. M : paths[k] \in [0 .. N -> Texts]}
<1> HIDE DEF paths, G, S, none
<1>12. 0 \in T
  <2>1. paths[0] = [e \in 0 .. N |-> <<>>] /\ 0 \in 0 .. M
    BY <1>1, <1>10
  <2>2. QED BY <2>1, <1>4 DEF S, none
<1>13. ASSUME NEW k \in 0 .. M - 1, k \in T PROVE k + 1 \in T
  <2>1. k + 1 \in 0 .. M /\ k + 1 # 0 /\ (k + 1) - 1 = k
    BY <1>1
  <2>2. paths[k] \in [0 .. N -> Texts]
    BY <1>13
  <2>3. paths[k + 1] = [e \in 0 .. N |->
          IF e = NoDir THEN <<>> ELSE Longer(paths[k][l.dirs[e].parent], l.dirs[e].name)]
    BY <2>1, <1>10
  <2>4. ASSUME NEW e \in 0 .. N
        PROVE  (IF e = NoDir THEN <<>> ELSE Longer(paths[k][l.dirs[e].parent], l.dirs[e].name)) \in Texts
    <3>1. <<>> \in Texts
      BY DEF Texts
    <3>2. CASE e # NoDir
      <4>1. e \in 1 .. N
        BY <3>2, <1>1 DEF NoDir
      <4>2. paths[k][l.dirs[e].parent] \in Texts
        BY <4>1, <2>2, <1>2
      <4>3. QED BY <3>2, <4>1, <4>2, <1>2, <1>3
    <3>3. QED BY <3>1, <3>2
  <2>5. QED BY <2>1, <2>3, <2>4
<1> HIDE DEF T
<1>14. \A k \in 0 .. M : k \in T
  BY <1>1, <1>12, <1>13, UpTo
<1>15. paths[M] \in [0 .. N -> Texts] /\ d \in 0 .. N
  <2>1. M \in 0 .. M /\ d \in 0 .. N
    BY <1>1
  <2>2. QED BY <2>1, <1>14 DEF T
<1>16. /\ \E up \in Texts : paths[M][d] = Longer(up, l.dirs[d].name)
       /\ l.dirs[d].parent = NoDir => paths[M][d] = l.dirs[d].name
  <2>1. d \in 1 .. N /\ d # NoDir /\ M \in 0 .. M /\ M # 0 /\ M - 1 \in 0 .. M
    BY <1>1, SearchAssumption DEF NoDir, M
  <2>2. paths[M][d] = Longer(paths[M - 1][l.dirs[d].parent], l.dirs[d].name)
    <3> HIDE DEF Longer, M, N
    <3>1. paths[M] = [e \in 0 .. N |->
            IF e = NoDir THEN <<>> ELSE Longer(paths[M - 1][l.dirs[e].parent], l.dirs[e].name)]
      BY <2>1, <1>10
    <3>2. d \in 0 .. N
      BY <1>15
    <3>3. QED BY <2>1, <3>1, <3>2
  <2>3. paths[M - 1] \in [0 .. N -> Texts]
    BY <2>1, <1>14 DEF T
  <2>4. l.dirs[d].parent \in 0 .. N /\ NoDir \in 0 .. N
    BY <2>1, <1>1, <1>2 DEF NoDir
  <2>5. paths[M - 1][NoDir] = <<>>
    BY <2>1, <2>4, <1>10
  <2>6. Longer(<<>>, l.dirs[d].name) = l.dirs[d].name
    BY <2>1, <1>2, ConcatEmptySeq DEF Longer, Texts
  <2>7. QED BY <2>2, <2>3, <2>4, <2>5, <2>6
<1>17. QED BY <1>11, <1>15, <1>16 DEF Texts, Longer

-----------------------------------------------------------------------------
(* A word, and the text it is compared with.                               *)

\* The word occurs in the text behind its first i characters.
OccursIn(text, word, i) ==
  i + Len(word) <= Len(text) /\ \A j \in 1 .. Len(word) : text[i + j] = word[j]

\* What the table asks of a word and of the text it is compared with.
Meets(word, hay) ==
  IF HasGlobChars(LowerAll(word)) THEN Fits(LowerAll(word), LowerAll(hay))
  ELSE \E i \in Nat : OccursIn(LowerAll(hay), LowerAll(word), i)

LEMMA LowerAllIsLower ==
  ASSUME NEW text \in Seq(Byte)
  PROVE  IsLower(LowerAll(text))
<1>1. \A i \in DOMAIN text : LowerAll(text)[i] = Lower(text[i]) /\ text[i] \in Byte
  BY LowerAllIs
<1>2. DOMAIN LowerAll(text) = DOMAIN text
  BY LowerAllIs
<1>3. \A i \in DOMAIN text : Lower(Lower(text[i])) = Lower(text[i])
  BY <1>1, LowerIsByte
<1>4. QED BY <1>1, <1>2, <1>3 DEF IsLower

\* contains_ci folds the text byte by byte.
LEMMA ContainsIs ==
  ASSUME NEW hay \in Seq(Byte), NEW word \in Seq(Byte)
  PROVE  ContainsCi(hay, word) <=> \E i \in Nat : OccursIn(LowerAll(hay), word, i)
<1> DEFINE low == LowerAll(hay)   h == Len(hay)   k == Len(word)
<1>1. h \in Nat /\ k \in Nat /\ DOMAIN word = 1 .. k /\ Len(low) = h /\ \A i \in 1 .. h : low[i] = Lower(hay[i])
  BY LowerAllIs, LenProperties
<1> HIDE DEF low, h, k
<1>2. ContainsCi(hay, word) <=> \E i \in 0 .. h - k : \A j \in 1 .. k : Lower(hay[i + j]) = word[j]
  BY <1>1 DEF ContainsCi, h, k
<1>3. ASSUME NEW i \in Nat, i + k <= h
      PROVE  (\A j \in 1 .. k : Lower(hay[i + j]) = word[j]) <=> \A j \in 1 .. k : low[i + j] = word[j]
  <2>1. \A j \in 1 .. k : i + j \in 1 .. h
    BY <1>1, <1>3
  <2>2. \A j \in 1 .. k : low[i + j] = Lower(hay[i + j])
    BY <1>1, <2>1
  <2>3. QED BY <2>2
<1>4. \A i : i \in 0 .. h - k <=> i \in Nat /\ i + k <= h
  BY <1>1
<1>5. \A i : OccursIn(low, word, i) <=> i + k <= h /\ \A j \in 1 .. k : low[i + j] = word[j]
  BY <1>1 DEF OccursIn, k
<1>6. ASSUME NEW i \in 0 .. h - k, \A j \in 1 .. k : Lower(hay[i + j]) = word[j]
      PROVE  i \in Nat /\ OccursIn(low, word, i)
  <2>1. i \in Nat /\ i + k <= h
    BY <1>4
  <2>2. QED BY <2>1, <1>3, <1>5, <1>6
<1>7. ASSUME NEW i \in Nat, OccursIn(low, word, i)
      PROVE  i \in 0 .. h - k /\ \A j \in 1 .. k : Lower(hay[i + j]) = word[j]
  <2>1. i + k <= h /\ \A j \in 1 .. k : low[i + j] = word[j]
    BY <1>5, <1>7
  <2>2. QED BY <2>1, <1>3, <1>4
<1>8. QED BY <1>2, <1>6, <1>7 DEF low

\* A keyword is compared as the table says.
LEMMA TermHitsIs ==
  ASSUME NEW word \in Seq(Byte), NEW hay \in Seq(Byte)
  PROVE  TermHits(Term(word), hay) <=> Meets(word, hay)
<1> DEFINE w == LowerAll(word)
<1>1. w \in Seq(Byte)
  BY LowerAllIs
<1>2. Term(word).pat = w /\ (Term(word).glob <=> HasGlobChars(w))
  BY DEF Term
<1> HIDE DEF w
<1>3. CASE HasGlobChars(w)
  <2>1. TermHits(Term(word), hay) <=> GlobMatch(w, hay)
    BY <1>2, <1>3 DEF TermHits
  <2>2. GlobMatch(w, hay) <=> Fits(w, hay)
    BY <1>1, MatcherIsExact
  <2>3. Fits(w, LowerAll(hay)) <=> Fits(w, hay)
    BY <1>1, FitsFolds
  <2>4. Meets(word, hay) <=> Fits(w, LowerAll(hay))
    BY <1>3 DEF Meets, w
  <2>5. QED BY <2>1, <2>2, <2>3, <2>4
<1>4. CASE ~HasGlobChars(w)
  <2>1. TermHits(Term(word), hay) <=> ContainsCi(hay, w)
    BY <1>2, <1>4 DEF TermHits
  <2>2. Meets(word, hay) <=> \E i \in Nat : OccursIn(LowerAll(hay), w, i)
    BY <1>4 DEF Meets, w
  <2>3. QED BY <2>1, <2>2, <1>1, ContainsIs
<1>5. QED BY <1>3, <1>4

LEMMA SatisfiedIs ==
  ASSUME NEW word \in Seq(Byte), NEW opts \in Options, NEW name \in Seq(Byte), NEW path \in Seq(Byte)
  PROVE  Satisfied(word, opts, name, path) <=> Meets(word, IF ToPath(Term(word), opts) THEN path ELSE name)
<1> DEFINE w == LowerAll(word)
           hay == IF ToPath(Term(word), opts) THEN path ELSE name
           text == LowerAll(hay)
<1>1. w \in Seq(Byte) /\ hay \in Seq(Byte) /\ text \in Seq(Byte) /\ Len(w) \in Nat /\ Len(text) \in Nat
  BY LowerAllIs
<1>2. ToPath(Term(word), opts) <=> (opts.whole_path \/ (~opts.basename /\ (HasGlobChars(w) \/ Contains(w, Slash))))
  BY DEF ToPath, Term, Options
<1>3. Satisfied(word, opts, name, path) <=>
        IF HasGlobChars(w) THEN Fits(w, text)
        ELSE \E i \in 0 .. Len(text) - Len(w) : SubSeq(text, i + 1, i + Len(w)) = w
  BY <1>2 DEF Satisfied
<1> HIDE DEF w, hay, text
<1>4. ASSUME NEW i \in Nat, i + Len(w) <= Len(text)
      PROVE  SubSeq(text, i + 1, i + Len(w)) = w <=> OccursIn(text, w, i)
  <2> DEFINE k == Len(w)   s == SubSeq(text, i + 1, i + k)
  <2>1. k \in Nat /\ i + k \in Nat /\ i <= i + k /\ (i + k) - i = k
    BY <1>1
  <2>2. \A j \in i + 1 .. i + k : text[j] \in Byte
    <3>1. \A j \in 1 .. Len(text) : text[j] \in Byte
      BY <1>1, ElementOfSeq, LenProperties
    <3>2. \A j \in i + 1 .. i + k : j \in 1 .. Len(text)
      BY <1>1, <1>4, <2>1
    <3>3. QED BY <3>1, <3>2
  <2>3. s \in Seq(Byte) /\ Len(s) = (i + k) - i /\ \A j \in 1 .. (i + k) - i : s[j] = text[i + j]
    <3> HIDE DEF k
    <3>1. /\ SubSeq(text, i + 1, i + k) \in Seq(Byte) /\ Len(SubSeq(text, i + 1, i + k)) = (i + k) - i
          /\ \A j \in 1 .. (i + k) - i : SubSeq(text, i + 1, i + k)[j] = text[i + j]
      BY <2>1, <2>2, Ending
    <3>2. QED BY <3>1
  <2> HIDE DEF s
  <2>4. s = w <=> \A j \in 1 .. k : s[j] = w[j]
    BY <2>1, <2>3, <1>1, SeqEqual
  <2>5. QED BY <2>1, <2>3, <2>4, <1>4 DEF OccursIn, s, k
<1>5. \A i : i \in 0 .. Len(text) - Len(w) <=> i \in Nat /\ i + Len(w) <= Len(text)
  BY <1>1
<1>6. (\E i \in 0 .. Len(text) - Len(w) : SubSeq(text, i + 1, i + Len(w)) = w)
        <=> \E i \in Nat : OccursIn(text, w, i)
  <2>1. \A i : OccursIn(text, w, i) => i + Len(w) <= Len(text)
    BY DEF OccursIn
  <2>2. QED BY <2>1, <1>4, <1>5
<1>7. Meets(word, hay) <=> IF HasGlobChars(w) THEN Fits(w, text) ELSE \E i \in Nat : OccursIn(text, w, i)
  BY DEF Meets, w, text
<1>8. QED BY <1>3, <1>6, <1>7 DEF hay

\* The literal end of a pattern lies in the name: it has no slash, and one
\* stands before the name.
LEMMA PrefilterSound ==
  ASSUME NEW word \in Seq(Byte), NEW front \in Seq(Byte), NEW name \in Seq(Byte),
         front = <<>> \/ front[Len(front)] = Slash, Meets(word, front \o name)
  PROVE  ContainsCi(name, Term(word).anchor)
<1> DEFINE w == LowerAll(word)   hay == front \o name   text == LowerAll(hay)   low == LowerAll(name)
           F == Len(front)   N == Len(name)   n == Len(text)
           anchor == Term(word).anchor   k == Len(anchor)
<1>1. /\ w \in Seq(Byte) /\ IsLower(w) /\ hay \in Seq(Byte) /\ text \in Seq(Byte) /\ IsLower(text)
  BY LowerAllIs, LowerAllIsLower, ConcatProperties
<1>2. F \in Nat /\ N \in Nat /\ n = F + N /\ n \in Nat
  <2>1. Len(hay) = F + N
    BY ConcatProperties
  <2>2. n = Len(hay)
    BY <1>1, LowerAllIs
  <2>3. QED BY <2>1, <2>2, LenProperties
<1>3. /\ \A i \in 1 .. N : text[F + i] = Lower(name[i]) /\ low[i] = Lower(name[i])
      /\ F >= 1 => text[F] = Slash
  <2>1. \A i \in 1 .. F + N : text[i] = Lower(hay[i]) /\ hay[i] = IF i <= F THEN front[i] ELSE name[i - F]
    <3>1. \A i \in 1 .. F + N : hay[i] = IF i <= F THEN front[i] ELSE name[i - F]
      BY ConcatProperties
    <3>2. DOMAIN hay = 1 .. F + N
      BY ConcatProperties, LenProperties
    <3>3. \A i \in DOMAIN hay : text[i] = Lower(hay[i])
      BY <1>1, LowerAllIs
    <3>4. QED BY <3>1, <3>2, <3>3
  <2>2. \A i \in 1 .. N : low[i] = Lower(name[i])
    BY LowerAllIs, LenProperties
  <2> HIDE DEF text, low, hay
  <2>3. ASSUME NEW i \in 1 .. N PROVE text[F + i] = Lower(name[i])
    <3>1. F + i \in 1 .. F + N /\ ~(F + i <= F) /\ (F + i) - F = i
      BY <1>2
    <3>2. QED BY <3>1, <2>1
  <2>4. ASSUME F >= 1 PROVE text[F] = Slash
    <3>1. F \in 1 .. F + N /\ F <= F
      BY <2>4, <1>2
    <3>2. front # <<>>
      BY <2>4, EmptySeq
    <3>3. text[F] = Lower(Slash)
      BY <3>1, <3>2, <2>1
    <3>4. QED BY <3>3 DEF Lower, Slash
  <2>5. QED BY <2>2, <2>3, <2>4
<1>4. CASE ~HasGlobChars(w)
  <2>1. anchor = <<>>
    BY <1>4 DEF Term
  <2>2. OccursIn(low, <<>>, 0)
    <3>1. Len(low) \in Nat /\ Len(<<>>) = 0
      BY LowerAllIs
    <3> HIDE DEF low
    <3>2. QED BY <3>1 DEF OccursIn
  <2>3. <<>> \in Seq(Byte)
    OBVIOUS
  <2>4. ContainsCi(name, <<>>)
    BY <2>2, <2>3, ContainsIs
  <2>5. QED BY <2>1, <2>4
<1>5. CASE HasGlobChars(w)
  <2>1. anchor = TrailingLiteral(w)
    BY <1>5 DEF Term
  <2>2. Fits(w, text)
    BY <1>5 DEF Meets
  <2>3. anchor \in Seq(Byte) /\ EndsIn(text, 1, anchor) /\ ~Contains(anchor, Slash)
    BY <1>1, <2>1, <2>2, FittingEnds
  <2> HIDE DEF anchor, text, low, hay, w
  <2>4. k \in Nat /\ k <= n + 1 - 1 /\ \A j \in 1 .. k : text[n - k + j] = anchor[j]
    BY <2>3, LenProperties DEF EndsIn
  <2>5. \A j \in 1 .. k : anchor[j] # Slash
    BY <2>3 DEF Contains
  <2> HIDE DEF F, N, n, k
  <2>6. k <= N
    <3> SUFFICES ASSUME ~(k <= N) PROVE FALSE
      OBVIOUS
    <3>1. k - N \in 1 .. k /\ n - k + (k - N) = F /\ F >= 1
      BY <1>2, <2>4
    <3>2. text[F] = anchor[k - N]
      BY <3>1, <2>4
    <3>3. QED BY <3>1, <3>2, <2>5, <1>3
  <2> DEFINE i == N - k
  <2>7. i \in Nat /\ i + k = N
    BY <2>6, <2>4, <1>2
  <2>8. \A j \in 1 .. k : i + j \in 1 .. N /\ n - k + j = F + (i + j)
    BY <2>4, <2>7, <1>2
  <2> HIDE DEF i
  <2>9. \A j \in 1 .. k : low[i + j] = anchor[j]
    BY <2>4, <2>8, <1>3
  <2>10. Len(low) = N
    BY LowerAllIs DEF low, N
  <2>11. OccursIn(low, anchor, i)
    <3>1. i + k <= N
      BY <2>7, <1>2
    <3>2. QED BY <3>1, <2>9, <2>10 DEF OccursIn, k
  <2>12. ContainsCi(name, anchor)
    BY <2>3, <2>7, <2>11, ContainsIs DEF low
  <2>13. QED BY <2>12 DEF anchor
<1>6. QED BY <1>4, <1>5

-----------------------------------------------------------------------------
(* The terms of a query.                                                   *)

LEMMA ChosenAre ==
  ASSUME NEW n \in Nat, NEW s, NEW places, places \subseteq 1 .. n
  PROVE  /\ \A x : (\E k \in DOMAIN Chosen(s, places) : Chosen(s, places)[k] = x) <=> \E i \in places : s[i] = x
         /\ Chosen(s, places) = <<>> <=> places = {}
         /\ \E m \in Nat : DOMAIN Chosen(s, places) = 1 .. m
<1> DEFINE ids == SortedIds(places)   all == Chosen(s, places)
<1>0. places \subseteq Nat
  OBVIOUS
<1>1. Ascending(ids, places)
  BY SortedIdsAscend
<1> HIDE DEF ids
<1>2. /\ Len(ids) \in Nat /\ DOMAIN ids = 1 .. Len(ids)
      /\ \A k \in DOMAIN ids : ids[k] \in places
      /\ \A x : x \in places <=> \E k \in DOMAIN ids : ids[k] = x
  <2>1. /\ ids \in Seq(places) /\ Len(ids) \in Nat /\ DOMAIN ids = 1 .. Len(ids)
        /\ \A i \in DOMAIN ids : ids[i] \in places
        /\ \A x : x \in places <=> \E i \in DOMAIN ids : ids[i] = x
        /\ \A i, j \in DOMAIN ids : ids[i] = ids[j] => i = j
    BY <1>0, <1>1, AscendingOnce
  <2>2. QED BY <2>1
<1>3. all = [k \in DOMAIN ids |-> s[ids[k]]]
  BY DEF Chosen, ids
<1> HIDE DEF all
<1>4. DOMAIN all = DOMAIN ids /\ \A k \in DOMAIN ids : all[k] = s[ids[k]]
  BY <1>3
<1>5. ASSUME NEW x PROVE (\E k \in DOMAIN all : all[k] = x) <=> \E i \in places : s[i] = x
  <2>1. (\E k \in DOMAIN all : all[k] = x) <=> \E k \in DOMAIN ids : s[ids[k]] = x
    BY <1>4
  <2>2. (\E k \in DOMAIN ids : s[ids[k]] = x) <=> \E i \in places : s[i] = x
    BY <1>2
  <2>3. QED BY <2>1, <2>2
<1>6. all = <<>> <=> places = {}
  <2>1. all = <<>> => DOMAIN all = {}
    <3>1. DOMAIN <<>> = {}
      OBVIOUS
    <3>2. QED BY <3>1
  <2>2. DOMAIN all = {} => all = <<>>
    <3>1. ASSUME DOMAIN ids = {} PROVE [k \in DOMAIN ids |-> s[ids[k]]] = <<>>
      <4>1. [k \in {} |-> s[ids[k]]] = <<>>
        OBVIOUS
      <4>2. QED BY <3>1, <4>1
    <3>2. QED BY <3>1, <1>3, <1>4
  <2>3. DOMAIN ids = {} <=> places = {}
    BY <1>2
  <2>4. QED BY <2>1, <2>2, <2>3, <1>4
<1>7. QED BY <1>2, <1>4, <1>5, <1>6 DEF all

\* parse_opts gives each word to the names or to the paths.
LEMMA QueryIs ==
  ASSUME NEW words \in Seq(Seq(Byte)), NEW opts
  PROVE  LET q == ParseOpts(words, opts)
         IN  /\ \A x : (\E k \in DOMAIN q.terms : q.terms[k] = x)
                         <=> \E i \in DOMAIN words : ~ToPath(Term(words[i]), opts) /\ Term(words[i]) = x
             /\ \A x : (\E k \in DOMAIN q.paths : q.paths[k] = x)
                         <=> \E i \in DOMAIN words : ToPath(Term(words[i]), opts) /\ Term(words[i]) = x
             /\ IsEmpty(q) <=> words = <<>>
             /\ q.type = opts.type
             /\ \E m \in Nat : DOMAIN q.terms = 1 .. m
             /\ \E m \in Nat : DOMAIN q.paths = 1 .. m
<1> DEFINE q == ParseOpts(words, opts)
           n == Len(words)
           all == [i \in DOMAIN words |-> Term(words[i])]
           inPath == {i \in DOMAIN all : ToPath(all[i], opts)}
           inName == DOMAIN all \ inPath
<1>1. n \in Nat /\ DOMAIN words = 1 .. n
  BY LenProperties
<1>2. DOMAIN all = DOMAIN words /\ \A i \in DOMAIN words : all[i] = Term(words[i])
  OBVIOUS
<1> HIDE DEF all
<1>3. /\ \A i : i \in inPath <=> i \in DOMAIN words /\ ToPath(Term(words[i]), opts)
      /\ \A i : i \in inName <=> i \in DOMAIN words /\ ~ToPath(Term(words[i]), opts)
  BY <1>2
<1>4. inPath \subseteq 1 .. n /\ inName \subseteq 1 .. n /\ (inPath = {} /\ inName = {} <=> DOMAIN words = {})
  BY <1>1, <1>3
<1>5. q = [terms |-> Chosen(all, inName), paths |-> Chosen(all, inPath), type |-> opts.type]
  BY DEF ParseOpts, all
<1> HIDE DEF q, inPath, inName, n
<1>6. q.terms = Chosen(all, inName) /\ q.paths = Chosen(all, inPath) /\ q.type = opts.type
  BY <1>5
<1>7. /\ \A x : (\E k \in DOMAIN q.terms : q.terms[k] = x) <=> \E i \in inName : all[i] = x
      /\ q.terms = <<>> <=> inName = {}
      /\ \E m \in Nat : DOMAIN q.terms = 1 .. m
  <2>1. /\ \A x : (\E k \in DOMAIN Chosen(all, inName) : Chosen(all, inName)[k] = x) <=> \E i \in inName : all[i] = x
        /\ Chosen(all, inName) = <<>> <=> inName = {}
        /\ \E m \in Nat : DOMAIN Chosen(all, inName) = 1 .. m
    <3>1. n \in Nat /\ inName \subseteq 1 .. n
      BY <1>1, <1>4
    <3>2. QED BY <3>1, ChosenAre
  <2>2. QED BY <2>1, <1>6
<1>8. /\ \A x : (\E k \in DOMAIN q.paths : q.paths[k] = x) <=> \E i \in inPath : all[i] = x
      /\ q.paths = <<>> <=> inPath = {}
      /\ \E m \in Nat : DOMAIN q.paths = 1 .. m
  <2>1. /\ \A x : (\E k \in DOMAIN Chosen(all, inPath) : Chosen(all, inPath)[k] = x) <=> \E i \in inPath : all[i] = x
        /\ Chosen(all, inPath) = <<>> <=> inPath = {}
        /\ \E m \in Nat : DOMAIN Chosen(all, inPath) = 1 .. m
    <3>1. n \in Nat /\ inPath \subseteq 1 .. n
      BY <1>1, <1>4
    <3>2. QED BY <3>1, ChosenAre
  <2>2. QED BY <2>1, <1>6
<1>9. ASSUME NEW x
      PROVE  /\ (\E i \in inName : all[i] = x)
                  <=> \E i \in DOMAIN words : ~ToPath(Term(words[i]), opts) /\ Term(words[i]) = x
             /\ (\E i \in inPath : all[i] = x)
                  <=> \E i \in DOMAIN words : ToPath(Term(words[i]), opts) /\ Term(words[i]) = x
  BY <1>2, <1>3
<1>10. words = <<>> <=> DOMAIN words = {}
  <2>1. words = <<>> <=> n = 0
    BY EmptySeq DEF n
  <2>2. n = 0 <=> DOMAIN words = {}
    BY <1>1
  <2>3. QED BY <2>1, <2>2
<1>11. IsEmpty(q) <=> words = <<>>
  BY <1>4, <1>7, <1>8, <1>10 DEF IsEmpty
<1>12. QED BY <1>6, <1>7, <1>8, <1>9, <1>11 DEF q

LEMMA TermsMeet ==
  ASSUME NEW words \in Seq(Seq(Byte)), NEW opts, NEW name \in Seq(Byte), NEW path \in Seq(Byte)
  PROVE  LET q == ParseOpts(words, opts)
             InPath(i) == ToPath(Term(words[i]), opts)
         IN  /\ Matches(q, name) <=> \A i \in DOMAIN words : ~InPath(i) => Meets(words[i], name)
             /\ PathOkDir(q, path) <=> \A i \in DOMAIN words : InPath(i) => Meets(words[i], path)
             /\ NamePrefilter(q, name)
                  <=> \A i \in DOMAIN words : InPath(i) => ContainsCi(name, Term(words[i]).anchor)
<1> DEFINE q == ParseOpts(words, opts)
           InPath(i) == ToPath(Term(words[i]), opts)
<1>1. /\ \A x : (\E k \in DOMAIN q.terms : q.terms[k] = x)
                  <=> \E i \in DOMAIN words : ~InPath(i) /\ Term(words[i]) = x
      /\ \A x : (\E k \in DOMAIN q.paths : q.paths[k] = x)
                  <=> \E i \in DOMAIN words : InPath(i) /\ Term(words[i]) = x
  <2>1. /\ \A x : (\E k \in DOMAIN q.terms : q.terms[k] = x)
                    <=> \E i \in DOMAIN words : ~ToPath(Term(words[i]), opts) /\ Term(words[i]) = x
        /\ \A x : (\E k \in DOMAIN q.paths : q.paths[k] = x)
                    <=> \E i \in DOMAIN words : ToPath(Term(words[i]), opts) /\ Term(words[i]) = x
        /\ IsEmpty(q) <=> words = <<>>
        /\ q.type = opts.type
        /\ \E m \in Nat : DOMAIN q.terms = 1 .. m
        /\ \E m \in Nat : DOMAIN q.paths = 1 .. m
    BY QueryIs
  <2> HIDE DEF q
  <2>2. QED BY <2>1
<1> HIDE DEF q, InPath
<1>2. \A i \in DOMAIN words : words[i] \in Seq(Byte)
  BY LenProperties, ElementOfSeq
<1>3. \A i \in DOMAIN words : /\ TermHits(Term(words[i]), name) <=> Meets(words[i], name)
                              /\ TermHits(Term(words[i]), path) <=> Meets(words[i], path)
  BY <1>2, TermHitsIs
<1>4. Matches(q, name) <=> \A i \in DOMAIN words : ~InPath(i) => TermHits(Term(words[i]), name)
  BY <1>1 DEF Matches
<1>5. PathOkDir(q, path) <=> \A i \in DOMAIN words : InPath(i) => TermHits(Term(words[i]), path)
  BY <1>1 DEF PathOkDir
<1>6. NamePrefilter(q, name)
        <=> \A i \in DOMAIN words : InPath(i) => ContainsCi(name, Term(words[i]).anchor)
  BY <1>1 DEF NamePrefilter
<1>7. QED BY <1>3, <1>4, <1>5, <1>6 DEF q, InPath

LEMMA SlashedEnds ==
  ASSUME NEW path \in Seq(Byte)
  PROVE  /\ Slashed(path) \in Seq(Byte) /\ Slashed(path)[Len(Slashed(path))] = Slash
         /\ path = <<>> \/ path[Len(path)] # Slash => Slashed(path) = Append(path, Slash)
         /\ path # <<>> /\ path[Len(path)] = Slash => Slashed(path) = path
<1> DEFINE long == Append(path, Slash)
<1>1. Slash \in Byte /\ Len(path) \in Nat
  BY LenProperties DEF Slash, Byte
<1>2. long \in Seq(Byte) /\ Len(long) = Len(path) + 1 /\ long[Len(path) + 1] = Slash
  BY <1>1, AppendProperties
<1> HIDE DEF long
<1>3. Slashed(path) = IF path # <<>> /\ path[Len(path)] = Slash THEN path ELSE long
  BY DEF Slashed, Last, long
<1>4. QED BY <1>2, <1>3 DEF long

\* A directory is found if every word is satisfied.
LEMMA DirHitIs ==
  ASSUME NEW l, InRange(l), NEW words \in Seq(Seq(Byte)), NEW opts \in Options, NEW d \in DOMAIN l.dirs
  PROVE  DirHit(l, ParseOpts(words, opts), d)
           <=> \A i \in DOMAIN words : Satisfied(words[i], opts, l.dirs[d].name, DirPath(l, d))
<1> DEFINE q == ParseOpts(words, opts)   name == l.dirs[d].name   path == DirPath(l, d)
           InPath(i) == ToPath(Term(words[i]), opts)
<1>1. \A s \in Seq(Char) : s \in Seq(Byte)
  BY SeqMonotonic DEF Char
<1>2. name \in Seq(Byte) /\ path \in Seq(Byte)
  BY <1>1, NamesAreTexts, DirPathIsText
<1>3. PICK up \in Seq(Char) : path = (IF up = <<>> THEN <<>> ELSE Slashed(up)) \o name
  BY DirPathIsText
<1> DEFINE front == IF up = <<>> THEN <<>> ELSE Slashed(up)
<1>4. front \in Seq(Byte) /\ (front = <<>> \/ front[Len(front)] = Slash) /\ path = front \o name
  <2>1. Slashed(up) \in Seq(Byte) /\ Slashed(up)[Len(Slashed(up))] = Slash
    BY <1>1, SlashedEnds
  <2>2. QED BY <2>1, <1>3
<1> HIDE DEF front, path, name, q, InPath
<1>5. /\ Matches(q, name) <=> \A i \in DOMAIN words : ~InPath(i) => Meets(words[i], name)
      /\ PathOkDir(q, path) <=> \A i \in DOMAIN words : InPath(i) => Meets(words[i], path)
      /\ NamePrefilter(q, name)
           <=> \A i \in DOMAIN words : InPath(i) => ContainsCi(name, Term(words[i]).anchor)
  BY <1>2, TermsMeet DEF q, InPath
<1>6. \A i \in DOMAIN words : words[i] \in Seq(Byte)
  BY LenProperties, ElementOfSeq
<1>7. \A i \in DOMAIN words : Meets(words[i], path) => ContainsCi(name, Term(words[i]).anchor)
  BY <1>2, <1>4, <1>6, PrefilterSound
<1>8. \A i \in DOMAIN words : Satisfied(words[i], opts, name, path) <=> Meets(words[i], IF InPath(i) THEN path ELSE name)
  BY <1>2, <1>6, SatisfiedIs DEF InPath
<1>9. DirHit(l, q, d) <=> Matches(q, name) /\ NamePrefilter(q, name) /\ PathOkDir(q, path)
  BY DEF DirHit, name, path
<1>10. QED BY <1>5, <1>7, <1>8, <1>9 DEF q, name, path

-----------------------------------------------------------------------------
(* The window of path_ok_file.                                             *)

\* b is what stands in a behind the first s bytes.
PartOf(b, a, s) == s + Len(b) <= Len(a) /\ \A p \in 1 .. Len(b) : b[p] = a[s + p]

LEMMA PartFolds ==
  ASSUME NEW a \in Seq(Byte), NEW b \in Seq(Byte), NEW s \in Nat, PartOf(b, a, s)
  PROVE  PartOf(LowerAll(b), LowerAll(a), s)
<1>1. /\ Len(LowerAll(a)) = Len(a) /\ DOMAIN a = 1 .. Len(a) /\ Len(a) \in Nat
      /\ \A i \in DOMAIN a : LowerAll(a)[i] = Lower(a[i])
  BY LowerAllIs
<1>2. /\ Len(LowerAll(b)) = Len(b) /\ DOMAIN b = 1 .. Len(b) /\ Len(b) \in Nat
      /\ \A i \in DOMAIN b : LowerAll(b)[i] = Lower(b[i])
  BY LowerAllIs
<1>3. s + Len(b) <= Len(a) /\ \A p \in 1 .. Len(b) : b[p] = a[s + p]
  BY DEF PartOf
<1>4. \A p \in 1 .. Len(b) : s + p \in 1 .. Len(a)
  BY <1>1, <1>2, <1>3
<1>5. \A p \in 1 .. Len(b) : LowerAll(b)[p] = LowerAll(a)[s + p]
  BY <1>1, <1>2, <1>3, <1>4
<1>6. QED BY <1>1, <1>2, <1>3, <1>5 DEF PartOf

LEMMA PartOccurs ==
  ASSUME NEW a \in Seq(Byte), NEW b \in Seq(Byte), NEW s \in Nat, PartOf(b, a, s), NEW w \in Seq(Byte), NEW i \in Nat
  PROVE  /\ OccursIn(b, w, i) => OccursIn(a, w, s + i)
         /\ OccursIn(a, w, s + i) /\ i + Len(w) <= Len(b) => OccursIn(b, w, i)
<1> DEFINE n == Len(a)   m == Len(b)   k == Len(w)
<1>1. n \in Nat /\ m \in Nat /\ k \in Nat
  BY LenProperties
<1>2. s + m <= n /\ \A p \in 1 .. m : b[p] = a[s + p]
  BY DEF PartOf
<1>3. /\ \A x : OccursIn(b, w, x) <=> x + k <= m /\ \A j \in 1 .. k : b[x + j] = w[j]
      /\ \A x : OccursIn(a, w, x) <=> x + k <= n /\ \A j \in 1 .. k : a[x + j] = w[j]
  BY DEF OccursIn
<1> HIDE DEF n, m, k
<1>4. ASSUME i + k <= m
      PROVE  s + i + k <= n /\ \A j \in 1 .. k : b[i + j] = a[s + i + j]
  <2>1. \A j \in 1 .. k : i + j \in 1 .. m /\ s + (i + j) = s + i + j
    BY <1>1, <1>4
  <2>2. s + i + k <= n
    BY <1>1, <1>2, <1>4
  <2>3. ASSUME NEW j \in 1 .. k PROVE b[i + j] = a[s + i + j]
    <3>1. b[i + j] = a[s + (i + j)]
      BY <2>1, <1>2
    <3>2. QED BY <2>1, <3>1
  <2>4. QED BY <2>2, <2>3
<1>5. OccursIn(b, w, i) => OccursIn(a, w, s + i)
  BY <1>3, <1>4
<1>6. OccursIn(a, w, s + i) /\ i + k <= m => OccursIn(b, w, i)
  BY <1>3, <1>4
<1>7. QED BY <1>5, <1>6 DEF m, k

\* The window is the end of the path.
LEMMA WindowIsPart ==
  ASSUME NEW dir \in Seq(Byte), NEW name \in Seq(Byte), NEW from \in 0 .. Len(dir)
  PROVE  LET path   == Append(dir, Slash) \o name
             window == Append(SubSeq(dir, from + 1, Len(dir)), Slash) \o name
         IN  /\ path \in Seq(Byte) /\ window \in Seq(Byte)
             /\ PartOf(dir, path, 0) /\ PartOf(window, path, from) /\ Len(path) = from + Len(window)
             /\ Len(path) = Len(dir) + 1 + Len(name)
<1> DEFINE D == Len(dir)   N == Len(name)
           end == SubSeq(dir, from + 1, D)
           head == Append(dir, Slash)   tail == Append(end, Slash)
           path == head \o name   window == tail \o name
<1>1. D \in Nat /\ N \in Nat /\ from \in Nat /\ from <= D /\ Slash \in Byte
  BY LenProperties DEF Slash, Byte
<1>2. end \in Seq(Byte) /\ Len(end) = D - from /\ \A i \in 1 .. D - from : end[i] = dir[from + i]
  <2>1. \A i \in from + 1 .. D : dir[i] \in Byte
    <3>1. \A i \in 1 .. D : dir[i] \in Byte
      BY LenProperties, ElementOfSeq
    <3>2. QED BY <3>1, <1>1
  <2> HIDE DEF D
  <2>2. QED BY <1>1, <2>1, Ending
<1>3. head \in Seq(Byte) /\ Len(head) = D + 1 /\ head[D + 1] = Slash /\ \A i \in 1 .. D : head[i] = dir[i]
  BY <1>1, AppendProperties
<1> HIDE DEF end
<1>4. /\ tail \in Seq(Byte) /\ Len(tail) = (D - from) + 1 /\ tail[(D - from) + 1] = Slash
      /\ \A i \in 1 .. D - from : tail[i] = end[i]
  BY <1>1, <1>2, AppendProperties
<1> HIDE DEF head, tail
<1>5. /\ path \in Seq(Byte) /\ Len(path) = D + 1 + N
      /\ \A i \in 1 .. D + 1 + N : path[i] = IF i <= D + 1 THEN head[i] ELSE name[i - (D + 1)]
  <2>1. /\ path \in Seq(Byte) /\ Len(path) = Len(head) + Len(name)
        /\ \A i \in 1 .. Len(head) + Len(name) :
             path[i] = IF i <= Len(head) THEN head[i] ELSE name[i - Len(head)]
    BY <1>3, ConcatProperties
  <2> HIDE DEF path
  <2>2. Len(head) = D + 1 /\ Len(name) = N
    BY <1>3
  <2>3. QED BY <2>1, <2>2, Zenon
<1>6. /\ window \in Seq(Byte) /\ Len(window) = (D - from) + 1 + N
      /\ \A i \in 1 .. (D - from) + 1 + N :
           window[i] = IF i <= (D - from) + 1 THEN tail[i] ELSE name[i - ((D - from) + 1)]
  <2>1. /\ window \in Seq(Byte) /\ Len(window) = Len(tail) + Len(name)
        /\ \A i \in 1 .. Len(tail) + Len(name) :
             window[i] = IF i <= Len(tail) THEN tail[i] ELSE name[i - Len(tail)]
    BY <1>4, ConcatProperties
  <2> HIDE DEF window
  <2>2. Len(tail) = (D - from) + 1 /\ Len(name) = N
    BY <1>4
  <2>3. QED BY <2>1, <2>2, Zenon
<1> HIDE DEF path, window, N
<1>7. PartOf(dir, path, 0)
  <2>1. \A p \in 1 .. D : p \in 1 .. D + 1 + N /\ p <= D + 1 /\ 0 + p = p
    BY <1>1
  <2>2. \A p \in 1 .. D : dir[p] = path[0 + p]
    BY <2>1, <1>3, <1>5
  <2>3. 0 + D <= Len(path)
    BY <1>1, <1>5
  <2>4. QED BY <2>2, <2>3 DEF PartOf
<1>8. PartOf(window, path, from)
  <2> HIDE DEF D
  <2>1. ASSUME NEW p \in 1 .. (D - from) + 1 + N PROVE window[p] = path[from + p]
    <3>0. from + p \in 1 .. D + 1 + N
      BY <1>1
    <3>1. CASE p <= D - from
      <4>1. p \in 1 .. D - from /\ p <= (D - from) + 1 /\ from + p <= D + 1 /\ from + p \in 1 .. D
        BY <3>1, <1>1
      <4>2. window[p] = end[p] /\ path[from + p] = dir[from + p]
        BY <3>0, <4>1, <1>3, <1>4, <1>5, <1>6
      <4>3. QED BY <4>1, <4>2, <1>2
    <3>2. CASE p = (D - from) + 1
      <4>1. p <= (D - from) + 1 /\ from + p = D + 1 /\ D + 1 <= D + 1
        BY <3>2, <1>1
      <4>2. window[p] = tail[(D - from) + 1] /\ path[from + p] = head[D + 1]
        BY <3>0, <3>2, <4>1, <1>5, <1>6
      <4>3. QED BY <4>2, <1>3, <1>4
    <3>3. CASE p > (D - from) + 1
      <4>1. ~(p <= (D - from) + 1) /\ ~(from + p <= D + 1) /\ p - ((D - from) + 1) = (from + p) - (D + 1)
        BY <3>3, <1>1
      <4>2. window[p] = name[p - ((D - from) + 1)] /\ path[from + p] = name[(from + p) - (D + 1)]
        BY <3>0, <4>1, <1>5, <1>6
      <4>3. QED BY <4>1, <4>2
    <3>4. QED BY <3>1, <3>2, <3>3, <1>1
  <2>2. from + Len(window) <= Len(path)
    BY <1>1, <1>5, <1>6
  <2>3. QED BY <2>1, <2>2, <1>6 DEF PartOf
<1>9. Len(path) = from + Len(window)
  BY <1>1, <1>5, <1>6
<1>10. QED BY <1>5, <1>6, <1>7, <1>8, <1>9 DEF path, window, head, tail, end, N

Has(text, word) == \E i \in Nat : OccursIn(text, word, i)

\* A part that reaches to the end holds what does not lie in front of it.
LEMMA InEitherPart ==
  ASSUME NEW path \in Seq(Byte), NEW dir \in Seq(Byte), NEW window \in Seq(Byte), NEW from \in Nat,
         PartOf(dir, path, 0), PartOf(window, path, from), Len(path) = from + Len(window),
         NEW w \in Seq(Byte), from = 0 \/ from + Len(w) <= Len(dir) + 1
  PROVE  Has(path, w) <=> Has(dir, w) \/ Has(window, w)
<1> DEFINE n == Len(path)   D == Len(dir)   m == Len(window)   k == Len(w)
<1>1. n \in Nat /\ D \in Nat /\ m \in Nat /\ k \in Nat /\ n = from + m
  BY LenProperties
<1>2. ASSUME NEW i \in Nat, OccursIn(dir, w, i) PROVE OccursIn(path, w, 0 + i)
  BY <1>2, PartOccurs
<1>3. ASSUME NEW i \in Nat, OccursIn(window, w, i) PROVE OccursIn(path, w, from + i)
  BY <1>3, PartOccurs
<1>4. ASSUME NEW i \in Nat, OccursIn(path, w, i), i + k <= D PROVE OccursIn(dir, w, i)
  <2>1. OccursIn(path, w, 0 + i)
    BY <1>4
  <2>2. QED BY <1>4, <2>1, PartOccurs
<1>5. ASSUME NEW i \in Nat, OccursIn(path, w, i), from <= i PROVE OccursIn(window, w, i - from)
  <2>1. i - from \in Nat /\ from + (i - from) = i
    BY <1>5
  <2>2. i + k <= n
    BY <1>5 DEF OccursIn
  <2>3. (i - from) + k <= m
    BY <1>1, <2>1, <2>2
  <2>4. OccursIn(path, w, from + (i - from))
    BY <1>5, <2>1, Zenon
  <2>5. QED BY <2>1, <2>3, <2>4, PartOccurs
<1>6. from = 0 \/ from + k <= D + 1
  OBVIOUS
<1> HIDE DEF n, D, m, k
<1>7. ASSUME NEW i \in Nat, ~(i + k <= D) PROVE from <= i
  BY <1>1, <1>6, <1>7
<1>8. \A i \in Nat : 0 + i \in Nat /\ from + i \in Nat /\ (from <= i => i - from \in Nat)
  OBVIOUS
<1>9. QED BY <1>2, <1>3, <1>4, <1>5, <1>7, <1>8 DEF Has

Window(dir, name, keep) ==
  LET from == IF Len(dir) > keep THEN Len(dir) - keep ELSE 0
  IN  Append(SubSeq(dir, from + 1, Len(dir)), Slash) \o name

\* Nothing is missed below a directory whose path does not end with a slash.
LEMMA WindowOfPlain ==
  ASSUME NEW dir \in Seq(Byte), NEW name \in Seq(Byte), NEW keep \in Nat, NEW w \in Seq(Byte), Len(w) - 1 <= keep
  PROVE  /\ Append(dir, Slash) \o name \in Seq(Byte) /\ Window(dir, name, keep) \in Seq(Byte)
         /\ Has(LowerAll(Append(dir, Slash) \o name), w)
              <=> Has(LowerAll(dir), w) \/ Has(LowerAll(Window(dir, name, keep)), w)
<1> DEFINE from == IF Len(dir) > keep THEN Len(dir) - keep ELSE 0
           path == Append(dir, Slash) \o name   window == Window(dir, name, keep)
<1>1. Len(dir) \in Nat /\ Len(w) \in Nat
  BY LenProperties
<1>2. from \in 0 .. Len(dir) /\ from \in Nat /\ (from = 0 \/ from + Len(w) <= Len(dir) + 1)
  BY <1>1
<1> HIDE DEF from
<1>3. window = Append(SubSeq(dir, from + 1, Len(dir)), Slash) \o name
  BY DEF Window, from
<1> HIDE DEF window
<1>4. /\ path \in Seq(Byte) /\ window \in Seq(Byte)
      /\ PartOf(dir, path, 0) /\ PartOf(window, path, from) /\ Len(path) = from + Len(window)
  BY <1>2, <1>3, WindowIsPart
<1> HIDE DEF path
<1>5. /\ PartOf(LowerAll(dir), LowerAll(path), 0) /\ PartOf(LowerAll(window), LowerAll(path), from)
      /\ LowerAll(dir) \in Seq(Byte) /\ LowerAll(path) \in Seq(Byte) /\ LowerAll(window) \in Seq(Byte)
      /\ Len(LowerAll(path)) = Len(path) /\ Len(LowerAll(dir)) = Len(dir) /\ Len(LowerAll(window)) = Len(window)
  BY <1>2, <1>4, PartFolds, LowerAllIs
<1> DEFINE P == LowerAll(path)   I == LowerAll(dir)   O == LowerAll(window)
<1>6. /\ P \in Seq(Byte) /\ I \in Seq(Byte) /\ O \in Seq(Byte)
      /\ PartOf(I, P, 0) /\ PartOf(O, P, from) /\ Len(P) = from + Len(O)
      /\ (from = 0 \/ from + Len(w) <= Len(I) + 1)
  BY <1>2, <1>4, <1>5
<1> HIDE DEF P, I, O
<1>7. Has(P, w) <=> Has(I, w) \/ Has(O, w)
  BY <1>2, <1>6, InEitherPart
<1>8. QED BY <1>4, <1>7 DEF path, window, P, I, O

NoDouble(w) == \A j \in 1 .. Len(w) - 1 : ~(w[j] = Slash /\ w[j + 1] = Slash)

\* Below the root "/" the window may have one slash more than the path, which
\* matters only to a word that has two in a row.
LEMMA WindowOfSlash ==
  ASSUME NEW name \in Seq(Byte), NEW keep \in Nat, NEW w \in Seq(Byte), Len(w) - 1 <= keep
  PROVE  /\ <<Slash>> \o name \in Seq(Byte) /\ Window(<<Slash>>, name, keep) \in Seq(Byte)
         /\ Has(LowerAll(<<Slash>> \o name), w)
              => Has(LowerAll(<<Slash>>), w) \/ Has(LowerAll(Window(<<Slash>>, name, keep)), w)
         /\ NoDouble(w) /\ (Has(LowerAll(<<Slash>>), w) \/ Has(LowerAll(Window(<<Slash>>, name, keep)), w))
              => Has(LowerAll(<<Slash>> \o name), w)
<1> DEFINE dir == <<Slash>>   N == Len(name)   K == Len(w)
           from == IF Len(dir) > keep THEN Len(dir) - keep ELSE 0
           end == SubSeq(dir, from + 1, Len(dir))   tail == Append(end, Slash)
           path == dir \o name   window == Window(dir, name, keep)
<1>1. /\ Slash \in Byte /\ dir \in Seq(Byte) /\ Len(dir) = 1 /\ dir[1] = Slash
      /\ N \in Nat /\ K \in Nat
  BY LenProperties DEF Slash, Byte
<1>2. from \in {0, 1} /\ (from = 1 <=> keep = 0)
  BY <1>1
<1> HIDE DEF dir
<1>3. end \in Seq(Byte) /\ Len(end) = 1 - from /\ \A i \in 1 .. 1 - from : end[i] = Slash
  <2>1. \A i \in from + 1 .. 1 : dir[i] \in Byte /\ dir[i] = Slash
    BY <1>1, <1>2
  <2>2. from \in Nat /\ 1 \in Nat /\ from <= 1
    BY <1>2
  <2> HIDE DEF from
  <2>3. /\ SubSeq(dir, from + 1, 1) \in Seq(Byte) /\ Len(SubSeq(dir, from + 1, 1)) = 1 - from
        /\ \A i \in 1 .. 1 - from : SubSeq(dir, from + 1, 1)[i] = dir[from + i]
    BY <2>1, <2>2, Ending
  <2>4. \A i \in 1 .. 1 - from : from + i \in from + 1 .. 1
    BY <2>2
  <2>5. end = SubSeq(dir, from + 1, 1)
    BY <1>1
  <2>6. QED BY <2>1, <2>3, <2>4, <2>5
<1>4. window = tail \o name
  BY DEF Window
<1> HIDE DEF end, from, window
<1>5. tail \in Seq(Byte) /\ Len(tail) = 2 - from /\ \A i \in 1 .. 2 - from : tail[i] = Slash
  <2>1. /\ tail \in Seq(Byte) /\ Len(tail) = Len(end) + 1 /\ tail[Len(end) + 1] = Slash
        /\ \A i \in 1 .. Len(end) : tail[i] = end[i]
    BY <1>1, <1>3, AppendProperties
  <2> HIDE DEF tail
  <2>2. QED BY <1>2, <1>3, <2>1
<1> HIDE DEF tail
<1>6. /\ path \in Seq(Byte) /\ Len(path) = 1 + N
      /\ \A i \in 1 .. 1 + N : path[i] = IF i <= 1 THEN dir[i] ELSE name[i - 1]
  <2>1. /\ path \in Seq(Byte) /\ Len(path) = Len(dir) + Len(name)
        /\ \A i \in 1 .. Len(dir) + Len(name) : path[i] = IF i <= Len(dir) THEN dir[i] ELSE name[i - Len(dir)]
    BY <1>1, ConcatProperties
  <2> HIDE DEF path
  <2>2. QED BY <1>1, <2>1
<1>7. /\ window \in Seq(Byte) /\ Len(window) = 2 - from + N
      /\ \A i \in 1 .. 2 - from + N : window[i] = IF i <= 2 - from THEN tail[i] ELSE name[i - (2 - from)]
  <2>1. /\ tail \o name \in Seq(Byte) /\ Len(tail \o name) = Len(tail) + Len(name)
        /\ \A i \in 1 .. Len(tail) + Len(name) :
             (tail \o name)[i] = IF i <= Len(tail) THEN tail[i] ELSE name[i - Len(tail)]
    BY <1>5, ConcatProperties
  <2>2. Len(tail) = 2 - from /\ Len(name) = N
    BY <1>5
  <2> HIDE DEF N
  <2>3. QED BY <1>4, <2>1, <2>2, Zenon
<1> HIDE DEF path, N
<1>8. PartOf(dir, path, 0)
  <2>1. path[1] = dir[1] /\ 0 + 1 <= Len(path)
    BY <1>1, <1>6
  <2>2. QED BY <1>1, <2>1 DEF PartOf
<1>9. PartOf(path, window, 1 - from)
  <2>1. (1 - from) + Len(path) <= Len(window)
    BY <1>1, <1>2, <1>6, <1>7
  <2>2. ASSUME NEW p \in 1 .. 1 + N PROVE path[p] = window[(1 - from) + p]
    <3>1. (1 - from) + p \in 1 .. 2 - from + N
      BY <1>1, <1>2
    <3>2. CASE p = 1
      <4>1. path[p] = Slash
        BY <1>1, <1>6, <3>2
      <4>2. (1 - from) + p <= 2 - from /\ (1 - from) + p \in 1 .. 2 - from
        BY <1>2, <3>2
      <4>3. window[(1 - from) + p] = Slash
        BY <1>5, <1>7, <3>1, <4>2
      <4>4. QED BY <4>1, <4>3
    <3>3. CASE p # 1
      <4>1. ~(p <= 1) /\ ~((1 - from) + p <= 2 - from) /\ ((1 - from) + p) - (2 - from) = p - 1
        BY <1>1, <1>2, <3>3
      <4>2. path[p] = name[p - 1] /\ window[(1 - from) + p] = name[((1 - from) + p) - (2 - from)]
        BY <1>6, <1>7, <3>1, <4>1
      <4>3. QED BY <4>1, <4>2
    <3>4. QED BY <3>2, <3>3
  <2>3. QED BY <2>1, <2>2, <1>6 DEF PartOf
<1>10. /\ Len(path) \in Nat /\ Len(window) \in Nat /\ Len(path) >= 1 /\ Len(window) = (1 - from) + Len(path)
       /\ path[1] = Slash
       /\ \A i \in 1 .. 2 - from : window[i] = Slash
  <2>1. path[1] = Slash
    BY <1>1, <1>6
  <2>2. \A i \in 1 .. 2 - from : window[i] = Slash
    <3>1. \A i \in 1 .. 2 - from : i \in 1 .. 2 - from + N /\ i <= 2 - from
      BY <1>1, <1>2
    <3>2. QED BY <3>1, <1>5, <1>7
  <2>3. QED BY <1>1, <1>2, <1>6, <1>7, <2>1, <2>2
<1> DEFINE P == LowerAll(path)   I == LowerAll(dir)   O == LowerAll(window)   s == 1 - from
<1>11. /\ P \in Seq(Byte) /\ I \in Seq(Byte) /\ O \in Seq(Byte)
       /\ Len(P) = Len(path) /\ Len(O) = Len(window)
       /\ PartOf(I, P, 0) /\ PartOf(P, O, s)
  <2>1. s \in Nat
    BY <1>2
  <2> HIDE DEF s
  <2>2. PartOf(path, window, s)
    BY <1>9 DEF s
  <2>3. QED BY <1>1, <1>6, <1>7, <1>8, <2>1, <2>2, PartFolds, LowerAllIs
<1>12. P[1] = Slash /\ \A i \in 1 .. 2 - from : O[i] = Slash
  <2>1. Lower(Slash) = Slash
    BY DEF Lower, Slash
  <2>2. 1 \in 1 .. Len(path) /\ \A i \in 1 .. 2 - from : i \in 1 .. Len(window)
    BY <1>2, <1>10
  <2>3. P[1] = Lower(path[1]) /\ \A i \in 1 .. 2 - from : O[i] = Lower(window[i])
    BY <1>6, <1>7, <2>2, LowerAllIs
  <2>4. QED BY <1>10, <2>1, <2>3
<1> HIDE DEF P, I, O, s
<1>13. s \in {0, 1} /\ s \in Nat /\ Len(O) = s + Len(P) /\ Len(P) >= 1 /\ Len(P) \in Nat
       /\ (s = 1 => keep # 0 /\ O[1] = Slash /\ O[2] = Slash)
  <2>1. s = 1 - from /\ from \in {0, 1}
    BY <1>2 DEF s
  <2>2. s = 1 => from = 0 /\ 1 \in 1 .. 2 - from /\ 2 \in 1 .. 2 - from
    BY <2>1
  <2>3. QED BY <1>2, <1>10, <1>11, <1>12, <2>1, <2>2
<1>14. ASSUME NEW i \in Nat, OccursIn(I, w, i) PROVE OccursIn(P, w, 0 + i)
  BY <1>11, <1>14, PartOccurs
<1>15. ASSUME NEW i \in Nat, OccursIn(P, w, i) PROVE OccursIn(O, w, s + i)
  BY <1>11, <1>13, <1>15, PartOccurs
<1>16. ASSUME NoDouble(w), NEW i \in Nat, OccursIn(O, w, i) PROVE Has(P, w)
  <2>1. /\ i + K <= Len(O) /\ \A j \in 1 .. K : O[i + j] = w[j]
    BY <1>16 DEF OccursIn
  <2>2. CASE s <= i
    <3>1. i - s \in Nat /\ s + (i - s) = i /\ (i - s) + K <= Len(P)
      BY <1>1, <1>13, <2>1, <2>2
    <3>2. OccursIn(O, w, s + (i - s))
      BY <1>16, <3>1, Zenon
    <3>3. OccursIn(P, w, i - s)
      BY <1>11, <1>13, <3>1, <3>2, PartOccurs DEF K
    <3>4. QED BY <3>1, <3>3 DEF Has
  <2>3. CASE ~(s <= i)
    <3>1. s = 1 /\ i = 0 /\ O[1] = Slash /\ O[2] = Slash
      BY <1>13, <2>3
    <3>2. K <= 1
      <4> SUFFICES ASSUME ~(K <= 1) PROVE FALSE
        OBVIOUS
      <4>1. 1 \in 1 .. K /\ 2 \in 1 .. K /\ 0 + 1 = 1 /\ 0 + 2 = 2 /\ 1 \in 1 .. K - 1
        BY <1>1
      <4>2. w[1] = Slash /\ w[2] = Slash
        BY <2>1, <3>1, <4>1
      <4>3. QED BY <1>16, <4>1, <4>2 DEF NoDouble, K
    <3>3. ASSUME NEW j \in 1 .. K PROVE P[0 + j] = w[j]
      <4>1. j = 1 /\ 0 + j = 1
        BY <1>1, <3>2
      <4>2. w[1] = O[1]
        BY <2>1, <3>1, <3>3, <4>1
      <4>3. QED BY <1>12, <3>1, <4>1, <4>2
    <3>4. 0 + K <= Len(P)
      BY <1>1, <1>13, <3>2
    <3>5. OccursIn(P, w, 0)
      BY <3>3, <3>4 DEF OccursIn, K
    <3>6. QED BY <3>5 DEF Has
  <2>4. QED BY <2>2, <2>3
<1>17. \A i \in Nat : 0 + i \in Nat /\ s + i \in Nat
  BY <1>13
<1>18. (Has(P, w) => Has(O, w)) /\ (Has(I, w) => Has(P, w)) /\ (NoDouble(w) /\ Has(O, w) => Has(P, w))
  BY <1>14, <1>15, <1>16, <1>17 DEF Has
<1>19. QED BY <1>6, <1>7, <1>18 DEF P, I, O, path, window, dir

-----------------------------------------------------------------------------
(* Files.                                                                  *)

\* What a window keeps is enough for each word.
LEMMA KeepCovers ==
  ASSUME NEW words \in Seq(Seq(Byte)), NEW opts
  PROVE  LET q == ParseOpts(words, opts)
         IN  /\ Keep(q) \in Nat
             /\ \A i \in DOMAIN words : ToPath(Term(words[i]), opts) /\ ~Term(words[i]).glob =>
                  Len(Term(words[i]).pat) - 1 <= Keep(q)
<1> DEFINE q == ParseOpts(words, opts)
           InPath(i) == ToPath(Term(words[i]), opts)
           plain == {j \in DOMAIN q.paths : ~q.paths[j].glob}
           f == [k \in DOMAIN q.paths |-> Len(q.paths[k].pat)]
           T == {0} \cup {Len(q.paths[i].pat) - 1 : i \in plain}
<1>1. \A x : (\E k \in DOMAIN q.paths : q.paths[k] = x)
               <=> \E i \in DOMAIN words : InPath(i) /\ Term(words[i]) = x
  <2>1. \A x : (\E k \in DOMAIN q.paths : q.paths[k] = x)
                 <=> \E i \in DOMAIN words : ToPath(Term(words[i]), opts) /\ Term(words[i]) = x
    BY QueryIs
  <2> HIDE DEF q
  <2>2. QED BY <2>1
<1>2. PICK m \in Nat : DOMAIN q.paths = 1 .. m
  BY QueryIs
<1> HIDE DEF q, InPath
<1>3. \A i \in DOMAIN words : Len(Term(words[i]).pat) \in Nat
  <2>1. \A i \in DOMAIN words : words[i] \in Seq(Byte)
    BY LenProperties, ElementOfSeq
  <2>2. \A i \in DOMAIN words : LowerAll(words[i]) \in Seq(Byte)
    BY <2>1, LowerAllIs
  <2>3. \A i \in DOMAIN words : Term(words[i]).pat = LowerAll(words[i])
    BY DEF Term
  <2>4. QED BY <2>2, <2>3, LenProperties
<1>4. \A k \in 1 .. m : f[k] = Len(q.paths[k].pat) /\ f[k] \in Nat
  <2>1. \A k \in 1 .. m : \E i \in DOMAIN words : Term(words[i]) = q.paths[k]
    BY <1>1, <1>2
  <2>2. \A k \in 1 .. m : Len(q.paths[k].pat) \in Nat
    BY <1>3, <2>1
  <2>3. QED BY <1>2, <2>2
<1> HIDE DEF f
<1>5. PICK b \in Nat : \A k \in 1 .. m : f[k] <= b
  BY <1>4, BoundOf
<1>6. \A x \in T : x = 0 \/ (x \in Int /\ -1 <= x /\ x <= b)
  BY <1>2, <1>4, <1>5
<1>7. Max(T) \in Nat /\ \A x \in T : x <= Max(T)
  <2>0. 0 \in T
    OBVIOUS
  <2> HIDE DEF T
  <2> DEFINE U == {x \in T : x >= 0}
  <2>1. 0 \in T /\ 0 \in U /\ U \subseteq 0 .. b
    BY <1>6, <2>0
  <2> HIDE DEF U, T
  <2>2. PICK x \in U : \A y \in U : y <= x
    BY <2>1, GreatestOf
  <2>3. x \in T /\ x \in Nat /\ \A y \in T : x >= y
    <3>1. x \in T /\ x \in 0 .. b
      BY <2>1 DEF U
    <3>2. ASSUME NEW y \in T PROVE x >= y
      <4>1. CASE y >= 0
        BY <4>1, <2>2, <3>1, <1>6 DEF U
      <4>2. CASE ~(y >= 0)
        BY <4>2, <3>1, <1>6
      <4>3. QED BY <4>1, <4>2
    <3>3. QED BY <3>1, <3>2
  <2>4. Max(T) \in T /\ \A y \in T : Max(T) >= y
    BY <2>3 DEF Max
  <2>5. Max(T) >= 0 /\ (Max(T) = 0 \/ Max(T) \in Int)
    BY <2>1, <2>4, <1>6
  <2>6. \A y \in T : y <= Max(T)
    BY <2>4, <2>5, <1>6
  <2>7. QED BY <2>5, <2>6
<1>8. Keep(q) = Max(T)
  BY DEF Keep
<1>9. ASSUME NEW i \in DOMAIN words, InPath(i), ~Term(words[i]).glob
      PROVE  Len(Term(words[i]).pat) - 1 <= Keep(q)
  <2>1. PICK k \in DOMAIN q.paths : q.paths[k] = Term(words[i])
    BY <1>1, <1>9
  <2>2. k \in plain /\ Len(q.paths[k].pat) - 1 = Len(Term(words[i]).pat) - 1
    BY <1>9, <2>1
  <2>3. Len(Term(words[i]).pat) - 1 \in T
    BY <2>2
  <2> HIDE DEF T
  <2>4. QED BY <1>7, <1>8, <2>3
<1>10. QED BY <1>7, <1>8, <1>9 DEF q, InPath

\* Only the path "/" ends with a slash.
LEMMA DirPathEnds ==
  ASSUME NEW l, InRange(l), WellNamed(l), NEW d \in DOMAIN l.dirs, l.dirs[d].name # <<>>
  PROVE  /\ DirPath(l, d) \in Seq(Byte)
         /\ \/ DirPath(l, d) = <<Slash>> /\ l.dirs[Root].name = <<Slash>>
            \/ DirPath(l, d) # <<>> /\ DirPath(l, d)[Len(DirPath(l, d))] # Slash
<1> DEFINE name == l.dirs[d].name   path == DirPath(l, d)
<1>1. \A s \in Seq(Char) : s \in Seq(Byte)
  BY SeqMonotonic DEF Char
<1>2. name \in Seq(Byte) /\ path \in Seq(Byte) /\ name # <<>> /\ (l.dirs[d].parent = NoDir => path = name)
  BY <1>1, NamesAreTexts, DirPathIsText
<1>3. PICK up \in Seq(Char) : path = (IF up = <<>> THEN <<>> ELSE Slashed(up)) \o name
  BY DirPathIsText
<1>4. Len(name) \in Nat \ {0} /\ Last(name) = name[Len(name)]
  BY <1>2, FrontLast
<1>5. IF d = Root THEN l.dirs[d].parent = NoDir /\ (name = <<Slash>> \/ (name # <<>> /\ Last(name) # Slash))
      ELSE ~Contains(name, Slash)
  BY DEF WellNamed
<1> HIDE DEF path, name
<1>6. CASE d = Root
  <2>1. path = name /\ (name = <<Slash>> \/ name[Len(name)] # Slash)
    BY <1>2, <1>4, <1>5, <1>6
  <2>2. name = l.dirs[Root].name
    BY <1>6 DEF name
  <2>3. QED BY <1>2, <2>1, <2>2 DEF path
<1>7. CASE d # Root
  <2>1. name[Len(name)] # Slash
    <3>1. Len(name) \in 1 .. Len(name)
      BY <1>4
    <3>2. \A i \in 1 .. Len(name) : name[i] # Slash
      BY <1>5, <1>7 DEF Contains
    <3>3. QED BY <3>1, <3>2
  <2> DEFINE front == IF up = <<>> THEN <<>> ELSE Slashed(up)
  <2>2. front \in Seq(Byte)
    BY <1>1, SlashedEnds
  <2>3. path = front \o name
    BY <1>3
  <2> HIDE DEF front
  <2>4. /\ front \o name \in Seq(Byte) /\ Len(front \o name) = Len(front) + Len(name)
        /\ \A i \in 1 .. Len(front) + Len(name) :
             (front \o name)[i] = IF i <= Len(front) THEN front[i] ELSE name[i - Len(front)]
    BY <1>2, <2>2, ConcatProperties
  <2>5. Len(front) \in Nat
    BY <2>2, LenProperties
  <2>6. /\ Len(front) + Len(name) \in 1 .. Len(front) + Len(name) /\ ~(Len(front) + Len(name) <= Len(front))
        /\ (Len(front) + Len(name)) - Len(front) = Len(name)
    BY <1>4, <2>5
  <2>7. path[Len(path)] = name[Len(name)] /\ Len(path) # 0
    BY <1>4, <2>3, <2>4, <2>5, <2>6
  <2>8. path # <<>>
    BY <2>7, EmptySeq
  <2>9. QED BY <1>2, <2>1, <2>7, <2>8 DEF path
<1>8. QED BY <1>6, <1>7

\* Folding the case adds no slash.
LEMMA NoDoubleFolds ==
  ASSUME NEW word \in Seq(Byte), NoDouble(word)
  PROVE  NoDouble(LowerAll(word))
<1>1. \A b \in Byte : Lower(b) = Slash => b = Slash
  BY DEF Lower, Slash, Byte
<1>2. /\ Len(LowerAll(word)) = Len(word) /\ Len(word) \in Nat
      /\ \A i \in 1 .. Len(word) : LowerAll(word)[i] = Lower(word[i]) /\ word[i] \in Byte
  BY LowerAllIs
<1>3. \A j \in 1 .. Len(word) - 1 : j \in 1 .. Len(word) /\ j + 1 \in 1 .. Len(word)
  BY <1>2
<1>4. QED BY <1>1, <1>2, <1>3 DEF NoDouble

\* The directory's path and the window are together as good as the path.
LEMMA WindowHits ==
  ASSUME NEW dir \in Seq(Byte), NEW name \in Seq(Byte), NEW keep \in Nat,
         NEW word \in Seq(Byte), ~HasGlobChars(LowerAll(word)), Len(LowerAll(word)) - 1 <= keep,
         dir = <<Slash>> \/ (dir # <<>> /\ dir[Len(dir)] # Slash)
  PROVE  /\ Slashed(dir) \o name \in Seq(Byte) /\ Window(dir, name, keep) \in Seq(Byte)
         /\ Meets(word, Slashed(dir) \o name) => Meets(word, dir) \/ Meets(word, Window(dir, name, keep))
         /\ (dir # <<Slash>> \/ NoDouble(word)) /\ (Meets(word, dir) \/ Meets(word, Window(dir, name, keep)))
              => Meets(word, Slashed(dir) \o name)
<1> DEFINE w == LowerAll(word)
<1>1. w \in Seq(Byte)
  BY LowerAllIs
<1>2. \A hay : Meets(word, hay) <=> Has(LowerAll(hay), w)
  BY DEF Meets, Has
<1>3. CASE dir = <<Slash>>
  <2>1. NoDouble(word) => NoDouble(w)
    BY NoDoubleFolds
  <2> HIDE DEF w
  <2>2. /\ <<Slash>> \o name \in Seq(Byte) /\ Window(<<Slash>>, name, keep) \in Seq(Byte)
        /\ Has(LowerAll(<<Slash>> \o name), w)
             => Has(LowerAll(<<Slash>>), w) \/ Has(LowerAll(Window(<<Slash>>, name, keep)), w)
        /\ NoDouble(w) /\ (Has(LowerAll(<<Slash>>), w) \/ Has(LowerAll(Window(<<Slash>>, name, keep)), w))
             => Has(LowerAll(<<Slash>> \o name), w)
    <3>1. Len(w) - 1 <= keep
      BY DEF w
    <3>2. QED BY <1>1, <3>1, WindowOfSlash
  <2>3. Slashed(<<Slash>>) = <<Slash>>
    <3>1. <<Slash>> \in Seq(Byte) /\ <<Slash>> # <<>> /\ <<Slash>>[Len(<<Slash>>)] = Slash
      BY DEF Slash, Byte
    <3>2. QED BY <3>1, SlashedEnds
  <2>4. QED BY <1>2, <1>3, <2>1, <2>2, <2>3, Zenon
<1>4. CASE dir # <<>> /\ dir[Len(dir)] # Slash
  <2> HIDE DEF w
  <2>1. /\ Append(dir, Slash) \o name \in Seq(Byte) /\ Window(dir, name, keep) \in Seq(Byte)
        /\ Has(LowerAll(Append(dir, Slash) \o name), w)
             <=> Has(LowerAll(dir), w) \/ Has(LowerAll(Window(dir, name, keep)), w)
    <3>1. Len(w) - 1 <= keep
      BY DEF w
    <3>2. QED BY <1>1, <3>1, WindowOfPlain
  <2>2. Slashed(dir) = Append(dir, Slash)
    BY <1>4, SlashedEnds
  <2>3. QED BY <1>2, <2>1, <2>2, Zenon
<1>5. QED BY <1>3, <1>4

\* The words ask for two slashes in a row only below a root that is not "/".
Plain(l, words) == l.dirs[Root].name # <<Slash>> \/ \A i \in DOMAIN words : NoDouble(words[i])

\* Prefilter, terms and window together: a file is a hit when it satisfies
\* every word, and only then unless the window shows one slash too many.
LEMMA FileHitIs ==
  ASSUME NEW l, InRange(l), WellNamed(l), NEW words \in Seq(Seq(Byte)), NEW opts \in Options,
         NEW f \in DOMAIN l.files
  PROVE  LET hit   == FileHit(l, ParseOpts(words, opts), f)
             right == \A i \in DOMAIN words : Satisfied(words[i], opts, l.files[f].name, FilePath(l, f))
         IN  (right => hit) /\ (Plain(l, words) /\ hit => right)
<1> DEFINE q == ParseOpts(words, opts)   name == l.files[f].name
           dir == DirPath(l, l.files[f].parent)   path == Slashed(dir) \o name
           keep == Keep(q)
           InPath(i) == ToPath(Term(words[i]), opts)
<1>1. name \in Seq(Byte) /\ l.files[f].parent \in DOMAIN l.dirs
  BY NamesAreTexts, SeqMonotonic DEF Char
<1>2. /\ dir \in Seq(Byte)
      /\ (dir = <<Slash>> /\ l.dirs[Root].name = <<Slash>>) \/ (dir # <<>> /\ dir[Len(dir)] # Slash)
  <2>1. l.dirs[l.files[f].parent].name # <<>>
    BY DEF WellNamed
  <2>2. QED BY <1>1, <2>1, DirPathEnds
<1>3. path \in Seq(Byte) /\ Slashed(dir) \in Seq(Byte) /\ Slashed(dir)[Len(Slashed(dir))] = Slash
  BY <1>1, <1>2, SlashedEnds, ConcatProperties
<1>4. FilePath(l, f) = path
  BY DEF FilePath
<1>5. FileHit(l, q, f) <=> Matches(q, name) /\ NamePrefilter(q, name) /\ PathOkFile(q, dir, name)
  BY DEF FileHit
<1>6. \A i \in DOMAIN words : words[i] \in Seq(Byte)
  BY LenProperties, ElementOfSeq
<1> HIDE DEF dir, name
<1>7. \A i \in DOMAIN words : Meets(words[i], path) => ContainsCi(name, Term(words[i]).anchor)
  BY <1>1, <1>3, <1>6, PrefilterSound
<1> HIDE DEF q, path, keep
<1>8. /\ Matches(q, name) <=> \A i \in DOMAIN words : ~InPath(i) => Meets(words[i], name)
      /\ NamePrefilter(q, name)
           <=> \A i \in DOMAIN words : InPath(i) => ContainsCi(name, Term(words[i]).anchor)
  BY <1>1, <1>3, TermsMeet DEF q
<1>9. \A x : (\E k \in DOMAIN q.paths : q.paths[k] = x)
               <=> \E i \in DOMAIN words : InPath(i) /\ Term(words[i]) = x
  BY QueryIs DEF q
<1>10. PathOkFile(q, dir, name)
         <=> \A i \in DOMAIN words : InPath(i) => \E text \in PathTexts(q, dir, name) : TermHits(Term(words[i]), text)
  BY <1>9 DEF PathOkFile
<1>11. \A i \in DOMAIN words : InPath(i) =>
         LET Shown == \E text \in PathTexts(q, dir, name) : TermHits(Term(words[i]), text)
         IN  (Meets(words[i], path) => Shown) /\ (Plain(l, words) /\ Shown => Meets(words[i], path))
  <2>1. CASE \E i \in DOMAIN q.paths : q.paths[i].glob
    <3>1. PathTexts(q, dir, name) = {path}
      BY <2>1 DEF PathTexts, path
    <3>2. \A i \in DOMAIN words : TermHits(Term(words[i]), path) <=> Meets(words[i], path)
      BY <1>3, <1>6, TermHitsIs
    <3>3. QED BY <3>1, <3>2
  <2>2. CASE ~\E i \in DOMAIN q.paths : q.paths[i].glob
    <3>1. PathTexts(q, dir, name) = {dir, Window(dir, name, keep)}
      BY <2>2 DEF PathTexts, Window, keep
    <3>2. SUFFICES ASSUME NEW i \in DOMAIN words, InPath(i)
                   PROVE  LET Shown == \E text \in PathTexts(q, dir, name) : TermHits(Term(words[i]), text)
                          IN  (Meets(words[i], path) => Shown) /\ (Plain(l, words) /\ Shown => Meets(words[i], path))
      OBVIOUS
    <3>3. ~Term(words[i]).glob
      BY <1>9, <2>2, <3>2
    <3>4. Term(words[i]).pat = LowerAll(words[i]) /\ ~HasGlobChars(LowerAll(words[i]))
      BY <3>3 DEF Term
    <3>5. keep \in Nat /\ Len(LowerAll(words[i])) - 1 <= keep
      BY <3>2, <3>3, <3>4, KeepCovers DEF keep, q
    <3>6. /\ dir = <<Slash>> \/ (dir # <<>> /\ dir[Len(dir)] # Slash)
          /\ Plain(l, words) => dir # <<Slash>> \/ NoDouble(words[i])
      <4>1. dir = <<Slash>> => dir[Len(dir)] = Slash
        BY DEF Slash
      <4>2. QED BY <1>2, <4>1 DEF Plain
    <3>7. /\ Window(dir, name, keep) \in Seq(Byte)
          /\ Meets(words[i], path) => Meets(words[i], dir) \/ Meets(words[i], Window(dir, name, keep))
          /\ (dir # <<Slash>> \/ NoDouble(words[i])) /\ (Meets(words[i], dir) \/ Meets(words[i], Window(dir, name, keep)))
               => Meets(words[i], path)
      BY <1>1, <1>2, <1>6, <3>4, <3>5, <3>6, WindowHits DEF path
    <3>8. /\ TermHits(Term(words[i]), dir) <=> Meets(words[i], dir)
          /\ TermHits(Term(words[i]), Window(dir, name, keep)) <=> Meets(words[i], Window(dir, name, keep))
      BY <1>2, <1>6, <3>7, TermHitsIs
    <3>9. QED BY <3>1, <3>6, <3>7, <3>8
  <2>3. QED BY <2>1, <2>2
<1>12. \A i \in DOMAIN words :
         Satisfied(words[i], opts, name, path) <=> Meets(words[i], IF InPath(i) THEN path ELSE name)
  BY <1>1, <1>3, <1>6, SatisfiedIs
<1> HIDE DEF InPath
<1> DEFINE right == \A i \in DOMAIN words : Satisfied(words[i], opts, name, path)
<1>13. (right => FileHit(l, q, f)) /\ (Plain(l, words) /\ FileHit(l, q, f) => right)
  BY <1>5, <1>7, <1>8, <1>10, <1>11, <1>12
<1>14. QED BY <1>4, <1>13 DEF q, name

-----------------------------------------------------------------------------
(* The answer, as the searches compare.                                    *)

AliveHits(l, q) == IF WantsFiles(q) THEN {f \in AliveFiles(l) : FileHit(l, q, f)} ELSE {}

\* What the table in search.rs asks for is what the comparisons let through.
LEMMA AnswerIs ==
  ASSUME NEW l, InRange(l), WellNamed(l), NEW words \in Seq(Seq(Byte)), words # <<>>, NEW opts \in Options,
         Plain(l, words)
  PROVE  LET q == ParseOpts(words, opts)
         IN  Answer(l, words, opts) = [dirs |-> LiveDirs(l, q), files |-> AliveHits(l, q)]
<1> DEFINE q == ParseOpts(words, opts)
           All(name, path) == \A i \in DOMAIN words : Satisfied(words[i], opts, name, path)
           dirs  == {d \in AliveDirs(l) : l.dirs[d].name # <<>> /\ All(l.dirs[d].name, DirPath(l, d))}
           files == {f \in AliveFiles(l) : All(l.files[f].name, FilePath(l, f))}
<1>1. q.type = opts.type
  BY QueryIs
<1>2. \A d \in AliveDirs(l) : DirHit(l, q, d) <=> All(l.dirs[d].name, DirPath(l, d))
  BY DirHitIs DEF AliveDirs
<1>3. \A f \in AliveFiles(l) : FileHit(l, q, f) <=> All(l.files[f].name, FilePath(l, f))
  BY FileHitIs DEF AliveFiles
<1>4. Answer(l, words, opts) = [dirs  |-> IF words = <<>> \/ opts.type = "files" THEN {} ELSE dirs,
                                files |-> IF words = <<>> \/ opts.type = "dirs" THEN {} ELSE files]
  BY DEF Answer
<1> HIDE DEF q, All
<1>5. dirs = {d \in AliveDirs(l) : l.dirs[d].name # <<>> /\ DirHit(l, q, d)}
  BY <1>2
<1>6. files = {f \in AliveFiles(l) : FileHit(l, q, f)}
  BY <1>3
<1> HIDE DEF dirs, files
<1>7. LiveDirs(l, q) = IF opts.type = "files" THEN {} ELSE dirs
  BY <1>1, <1>5 DEF LiveDirs, WantsDirs
<1>8. AliveHits(l, q) = IF opts.type = "dirs" THEN {} ELSE files
  BY <1>1, <1>6 DEF AliveHits, WantsFiles
<1>9. QED BY <1>4, <1>7, <1>8 DEF q

\* Whatever the words are, all that the table asks for is let through.
LEMMA AnswerWithin ==
  ASSUME NEW l, InRange(l), WellNamed(l), NEW words \in Seq(Seq(Byte)), words # <<>>, NEW opts \in Options
  PROVE  LET q == ParseOpts(words, opts)
         IN  /\ Answer(l, words, opts).dirs = LiveDirs(l, q)
             /\ Answer(l, words, opts).files \subseteq AliveHits(l, q)
<1> DEFINE q == ParseOpts(words, opts)
           All(name, path) == \A i \in DOMAIN words : Satisfied(words[i], opts, name, path)
           dirs  == {d \in AliveDirs(l) : l.dirs[d].name # <<>> /\ All(l.dirs[d].name, DirPath(l, d))}
           files == {f \in AliveFiles(l) : All(l.files[f].name, FilePath(l, f))}
<1>1. q.type = opts.type
  BY QueryIs
<1>2. \A d \in AliveDirs(l) : DirHit(l, q, d) <=> All(l.dirs[d].name, DirPath(l, d))
  BY DirHitIs DEF AliveDirs
<1>3. \A f \in AliveFiles(l) : All(l.files[f].name, FilePath(l, f)) => FileHit(l, q, f)
  BY FileHitIs DEF AliveFiles
<1>4. Answer(l, words, opts) = [dirs  |-> IF words = <<>> \/ opts.type = "files" THEN {} ELSE dirs,
                                files |-> IF words = <<>> \/ opts.type = "dirs" THEN {} ELSE files]
  BY DEF Answer
<1> HIDE DEF q, All
<1>5. dirs = {d \in AliveDirs(l) : l.dirs[d].name # <<>> /\ DirHit(l, q, d)}
  BY <1>2
<1>6. files \subseteq {f \in AliveFiles(l) : FileHit(l, q, f)}
  BY <1>3
<1> HIDE DEF dirs, files
<1>7. LiveDirs(l, q) = IF opts.type = "files" THEN {} ELSE dirs
  BY <1>1, <1>5 DEF LiveDirs, WantsDirs
<1>8. (IF opts.type = "dirs" THEN {} ELSE files) \subseteq AliveHits(l, q)
  BY <1>1, <1>6 DEF AliveHits, WantsFiles
<1>9. QED BY <1>4, <1>7, <1>8 DEF q

\* The threads list alive hits only, each in order.
LEMMA PartsAreHits ==
  ASSUME NEW l, InRange(l), NEW q
  PROVE  LiveParts(l, q) \in Seq(Seq(AliveHits(l, q)))
<1> DEFINE H == AliveHits(l, q)
           Q == Seq(H)
<1>1. CASE ~WantsFiles(q)
  <2>1. LiveParts(l, q) = <<>>
    BY <1>1 DEF LiveParts
  <2>2. QED BY <2>1
<1>2. CASE WantsFiles(q)
  <2>1. H = {f \in AliveFiles(l) : FileHit(l, q, f)}
    BY <1>2 DEF AliveHits
  <2>2. BaseFiles(l) \subseteq DOMAIN l.files
    BY SnapshotParts
  <2>3. DeltaHits(l, q) \subseteq H
    BY <2>1 DEF DeltaHits
  <2>4. \A t \in 1 .. NThreads : BaseHits(l, q, t) \subseteq H
    <3> SUFFICES ASSUME NEW t \in 1 .. NThreads, NEW f \in BaseHits(l, q, t) PROVE f \in H
      OBVIOUS
    <3>1. f \in BaseFiles(l)
      BY SearchParts
    <3>2. f \notin l.deadFiles /\ FileHit(l, q, f)
      BY DEF BaseHits
    <3>3. QED BY <2>1, <2>2, <3>1, <3>2 DEF AliveFiles
  <2> HIDE DEF H
  <2>5. \A t \in 1 .. NThreads : SortedIds(BaseHits(l, q, t)) \in Q
    <3> SUFFICES ASSUME NEW t \in 1 .. NThreads PROVE SortedIds(BaseHits(l, q, t)) \in Q
      OBVIOUS
    <3>1. SortedIds(BaseHits(l, q, t)) \in Seq(BaseHits(l, q, t))
      BY SearchParts DEF Ascending
    <3>2. QED BY <2>4, <3>1, SeqMonotonic
  <2>6. SortedIds(DeltaHits(l, q)) \in Q
    <3>1. SortedIds(DeltaHits(l, q)) \in Seq(DeltaHits(l, q))
      BY SearchParts DEF Ascending
    <3>2. QED BY <2>3, <3>1, SeqMonotonic
  <2> HIDE DEF Q
  <2>7. NThreads \in Nat
    BY SearchAssumption
  <2>8. SearchBaseFiles(l, q) \in Seq(Q)
    <3>1. SearchBaseFiles(l, q) = [t \in 1 .. NThreads |-> SortedIds(BaseHits(l, q, t))]
      BY DEF SearchBaseFiles, BaseHits
    <3>2. SearchBaseFiles(l, q) \in [1 .. NThreads -> Q]
      BY <2>5, <3>1
    <3>3. QED BY <2>7, <3>2, FunctionIsSeq
  <2>9. LiveParts(l, q) = Append(SearchBaseFiles(l, q), SortedIds(DeltaHits(l, q)))
    BY <1>2 DEF LiveParts
  <2>10. LiveParts(l, q) \in Seq(Q)
    BY <2>6, <2>8, <2>9, AppendProperties
  <2>11. QED BY <2>10 DEF Q, H
<1>3. QED BY <1>1, <1>2

-----------------------------------------------------------------------------
(* Lists of ids, put together.                                             *)

Begins(a, b) == Len(a) <= Len(b) /\ \A i \in 1 .. Len(a) : a[i] = b[i]

\* There is one list of a set, and it is as long as the set is large.
LEMMA AscendingFirst ==
  ASSUME NEW set, set \subseteq Nat, NEW a, Ascending(a, set), NEW b, Ascending(b, set)
  PROVE  Begins(a, b)
<1> DEFINE m == Len(a)   n == Len(b)
<1>1. /\ m \in Nat /\ DOMAIN a = 1 .. m /\ \A i \in 1 .. m : a[i] \in set
      /\ \A x : x \in set <=> \E i \in 1 .. m : a[i] = x
  <2>1. /\ a \in Seq(set) /\ Len(a) \in Nat /\ DOMAIN a = 1 .. Len(a)
        /\ \A i \in DOMAIN a : a[i] \in set
        /\ \A x : x \in set <=> \E i \in DOMAIN a : a[i] = x
        /\ \A i, j \in DOMAIN a : a[i] = a[j] => i = j
    BY AscendingOnce
  <2>2. QED BY <2>1, Zenon
<1>2. /\ n \in Nat /\ DOMAIN b = 1 .. n /\ \A i \in 1 .. n : b[i] \in set
      /\ \A x : x \in set <=> \E i \in 1 .. n : b[i] = x
  <2>1. /\ b \in Seq(set) /\ Len(b) \in Nat /\ DOMAIN b = 1 .. Len(b)
        /\ \A i \in DOMAIN b : b[i] \in set
        /\ \A x : x \in set <=> \E i \in DOMAIN b : b[i] = x
        /\ \A i, j \in DOMAIN b : b[i] = b[j] => i = j
    BY AscendingOnce
  <2>2. QED BY <2>1, Zenon
<1> HIDE DEF m, n
<1>3. /\ \A i, j \in 1 .. m : i < j => a[i] < a[j]
      /\ \A i, j \in 1 .. n : i < j => b[i] < b[j]
  BY <1>1, <1>2 DEF Ascending
<1> DEFINE T == {i \in 0 .. m : i = 0 \/ (i <= n /\ a[i] = b[i])}
<1>4. ASSUME NEW i \in 0 .. m, \A j \in 0 .. i - 1 : j \in T PROVE i \in T
  <2>1. CASE i = 0
    BY <2>1, <1>1
  <2>2. CASE i # 0
    <3>1. i \in 1 .. m /\ i \in Nat
      BY <1>1, <2>2
    <3>2. \A j \in 1 .. i - 1 : j <= n /\ a[j] = b[j] /\ j \in 1 .. m /\ j \in 1 .. n /\ j < i
      BY <1>1, <1>2, <1>4, <3>1
    <3>3. PICK k \in 1 .. n : b[k] = a[i]
      BY <1>1, <1>2, <3>1
    <3>4. i <= k
      <4> SUFFICES ASSUME k < i PROVE FALSE
        BY <1>2, <3>1
      <4>1. k \in 1 .. i - 1
        BY <1>2, <3>1
      <4>2. a[k] < a[i] /\ a[k] = a[i]
        BY <1>3, <3>1, <3>2, <3>3, <4>1
      <4>3. a[i] \in Nat
        BY <1>1, <3>1
      <4>4. QED BY <4>2, <4>3
    <3>5. i \in 1 .. n
      BY <1>2, <3>1, <3>4
    <3>6. PICK h \in 1 .. m : a[h] = b[i]
      BY <1>1, <1>2, <3>5
    <3>7. i <= h
      <4> SUFFICES ASSUME h < i PROVE FALSE
        BY <1>1, <3>1
      <4>1. h \in 1 .. i - 1
        BY <1>1, <3>1
      <4>2. b[h] < b[i] /\ b[h] = b[i]
        BY <1>3, <3>2, <3>5, <3>6, <4>1
      <4>3. b[i] \in Nat
        BY <1>2, <3>5
      <4>4. QED BY <4>2, <4>3
    <3>8. a[i] \in Nat /\ b[i] \in Nat
      BY <1>1, <1>2, <3>1, <3>5
    <3>9. i = k \/ b[i] < b[k]
      BY <1>2, <1>3, <3>4, <3>5
    <3>10. i = h \/ a[i] < a[h]
      BY <1>1, <1>3, <3>1, <3>7
    <3>11. a[i] = b[i]
      BY <3>3, <3>6, <3>8, <3>9, <3>10
    <3>12. QED BY <3>5, <3>11
  <2>3. QED BY <2>1, <2>2
<1> HIDE DEF T
<1>5. \A i \in 0 .. m : i \in T
  BY <1>1, <1>4, UpToAll
<1>6. \A i \in 1 .. m : i \in 0 .. m /\ i # 0
  BY <1>1
<1>7. \A i \in 1 .. m : i <= n /\ a[i] = b[i]
  BY <1>5, <1>6 DEF T
<1>8. m <= n
  BY <1>1, <1>2, <1>7
<1>9. QED BY <1>7, <1>8 DEF m, n, Begins

LEMMA AscendingUnique ==
  ASSUME NEW set, set \subseteq Nat, NEW a, Ascending(a, set), NEW b, Ascending(b, set)
  PROVE  a = b
<1>1. a \in Seq(set) /\ b \in Seq(set) /\ Len(a) \in Nat /\ Len(b) \in Nat
  BY AscendingOnce
<1>2. Begins(a, b) /\ Begins(b, a)
  BY AscendingFirst
<1>3. Len(a) = Len(b) /\ \A i \in 1 .. Len(a) : a[i] = b[i]
  BY <1>1, <1>2 DEF Begins
<1>4. QED BY <1>1, <1>3, SeqEqual

LEMMA AscendingCounts ==
  ASSUME NEW set, set \subseteq Nat, NEW s, Ascending(s, set)
  PROVE  Cardinality(set) = Len(s)
<1>1. /\ s \in Seq(set) /\ Len(s) \in Nat /\ DOMAIN s = 1 .. Len(s)
      /\ \A i \in DOMAIN s : s[i] \in set
      /\ \A x : x \in set <=> \E i \in DOMAIN s : s[i] = x
      /\ \A i, j \in DOMAIN s : s[i] = s[j] => i = j
  BY AscendingOnce
<1>2. s \in [1 .. Len(s) -> set]
  BY <1>1, LenProperties
<1>3. s \in Bijection(1 .. Len(s), set)
  BY <1>1, <1>2 DEF Bijection, Injection, Surjection, IsInjective
<1>4. ExistsBijection(1 .. Len(s), set)
  BY <1>3 DEF ExistsBijection
<1>5. QED BY <1>1, <1>4, FS_CountingElements

\* Lists one after the other, each beyond the one before.
LEMMA AscendingJoin ==
  ASSUME NEW S, NEW T, S \subseteq Nat, T \subseteq Nat, \A x \in S, y \in T : x < y,
         NEW a, Ascending(a, S), NEW b, Ascending(b, T)
  PROVE  Ascending(a \o b, S \cup T)
<1> DEFINE all == a \o b   U == S \cup T
<1>1. /\ Len(a) \in Nat /\ DOMAIN a = 1 .. Len(a) /\ a \in Seq(S) /\ \A i \in DOMAIN a : a[i] \in S
      /\ Len(b) \in Nat /\ DOMAIN b = 1 .. Len(b) /\ b \in Seq(T) /\ \A i \in DOMAIN b : b[i] \in T
  BY AscendingOnce
<1>2. a \in Seq(U) /\ b \in Seq(U)
  BY <1>1, SeqMonotonic
<1>3. /\ all \in Seq(U) /\ DOMAIN all = 1 .. Len(a) + Len(b)
      /\ \A i \in DOMAIN a : all[i] = a[i]
      /\ \A i \in DOMAIN b : all[Len(a) + i] = b[i]
  <2> HIDE DEF U
  <2>1. QED BY <1>2, Joined
<1> HIDE DEF all
<1>4. \A i \in DOMAIN all : i \in DOMAIN a \/ (i - Len(a) \in DOMAIN b /\ i = Len(a) + (i - Len(a)))
  BY <1>1, <1>3
<1>5. (\A i \in DOMAIN a : i \in DOMAIN all) /\ \A i \in DOMAIN b : Len(a) + i \in DOMAIN all
  BY <1>1, <1>3
<1>6. ASSUME NEW x \in U PROVE \E i \in DOMAIN all : all[i] = x
  <2>1. CASE x \in S
    BY <2>1, <1>3, <1>5 DEF Ascending
  <2>2. CASE x \in T
    <3>1. PICK i \in DOMAIN b : b[i] = x
      BY <2>2 DEF Ascending
    <3>2. QED BY <3>1, <1>3, <1>5
  <2>3. QED BY <2>1, <2>2
<1>7. ASSUME NEW i \in DOMAIN all, NEW j \in DOMAIN all, i < j PROVE all[i] < all[j]
  <2> DEFINE k == i - Len(a)   h == j - Len(a)
  <2>1. CASE i \in DOMAIN a /\ j \in DOMAIN a
    BY <2>1, <1>3, <1>7 DEF Ascending
  <2>2. CASE i \in DOMAIN a /\ h \in DOMAIN b /\ j = Len(a) + h
    <3> HIDE DEF h
    <3>1. all[i] = a[i] /\ all[j] = b[h] /\ a[i] \in S /\ b[h] \in T
      BY <2>2, <1>1, <1>3
    <3>2. QED BY <3>1
  <2>3. CASE k \in DOMAIN b /\ i = Len(a) + k /\ j \in DOMAIN a
    BY <2>3, <1>1, <1>7
  <2>4. CASE k \in DOMAIN b /\ i = Len(a) + k /\ h \in DOMAIN b /\ j = Len(a) + h
    <3>1. k < h
      BY <2>4, <1>1, <1>7
    <3> HIDE DEF h, k
    <3>2. all[i] = b[k] /\ all[j] = b[h]
      BY <2>4, <1>3
    <3>3. QED BY <2>4, <3>1, <3>2 DEF Ascending
  <2>5. QED BY <1>4, <2>1, <2>2, <2>3, <2>4
<1>8. QED BY <1>3, <1>6, <1>7 DEF Ascending, all

\* The shares of the threads cover all the records.
LEMMA SharesCover ==
  ASSUME NEW n \in Nat
  PROVE  LET c == CeilDiv(n, NThreads)
         IN  /\ c \in Nat /\ n <= NThreads * c
             /\ \A t \in Nat : t * c \in Nat /\ (t + 1) * c = t * c + c
             /\ \A t \in Nat, f \in Nat : f \in ShareOf(n, t + 1) <=> t * c < f /\ f <= n /\ f <= (t + 1) * c
<1> DEFINE c == CeilDiv(n, NThreads)
<1>1. NThreads \in Nat /\ NThreads > 0 /\ c \in Nat
  BY SearchAssumption, ShareLength
<1>2. n <= NThreads * c
  <2> DEFINE m == n + NThreads - 1   q == m \div NThreads
  <2>1. m \in Nat
    BY <1>1
  <2>2. q \in Nat /\ m = NThreads * q + (m % NThreads) /\ m % NThreads \in 0 .. NThreads - 1
    <3> HIDE DEF m
    <3>1. QED BY <2>1, <1>1
  <2>3. c = q
    BY DEF CeilDiv
  <2> DEFINE p == NThreads * q   r == m % NThreads
  <2>4. p \in Nat /\ m = p + r /\ r \in 0 .. NThreads - 1 /\ m = n + NThreads - 1
    <3> HIDE DEF m
    <3>1. p \in Nat
      <4> HIDE DEF q
      <4>1. QED BY <1>1, <2>2
    <3>2. QED BY <2>2, <3>1 DEF m
  <2> HIDE DEF m, q, p, r
  <2>5. n <= p
    BY <1>1, <2>4
  <2>6. QED BY <2>3, <2>5 DEF p
<1> HIDE DEF c
<1>3. \A t \in Nat : t * c \in Nat /\ (t + 1) * c = t * c + c
  BY <1>1
<1>4. ASSUME NEW t \in Nat, NEW f \in Nat
      PROVE  f \in ShareOf(n, t + 1) <=> t * c < f /\ f <= n /\ f <= (t + 1) * c
  <2> DEFINE lo == t * c   hi == (t + 1) * c
  <2>1. lo \in Nat /\ hi \in Nat
    <3>1. t + 1 \in Nat
      OBVIOUS
    <3>2. QED BY <1>3, <3>1
  <2>2. ShareOf(n, t + 1) = lo + 1 .. Min({n, hi})
    <3>1. (t + 1) - 1 = t
      OBVIOUS
    <3>2. QED BY <3>1 DEF ShareOf, c
  <2> HIDE DEF lo, hi
  <2>3. Min({n, hi}) \in {n, hi} /\ Min({n, hi}) <= n /\ Min({n, hi}) <= hi
    BY <2>1, MinOfTwo
  <2>4. f \in lo + 1 .. Min({n, hi}) <=> lo < f /\ f <= n /\ f <= hi
    <3> DEFINE x == Min({n, hi})
    <3>1. x \in {n, hi} /\ x <= n /\ x <= hi
      BY <2>3
    <3> HIDE DEF x
    <3>2. f \in lo + 1 .. x <=> lo < f /\ f <= n /\ f <= hi
      BY <2>1, <3>1
    <3>3. QED BY <3>2 DEF x
  <2>5. QED BY <2>2, <2>4 DEF lo, hi
<1>5. QED BY <1>1, <1>2, <1>3, <1>4 DEF c

\* One after the other, the threads list the hits in the order of ids.
LEMMA SharesJoin ==
  ASSUME NEW l, InRange(l), NEW q, WantsFiles(q)
  PROVE  Ascending(FlattenSeq(FileParts(l, q)), {f \in DOMAIN l.files : FileHit(l, q, f)})
<1> DEFINE N == Len(l.files)   c == CeilDiv(N, NThreads)   parts == FileParts(l, q)
           Hit(f) == FileHit(l, q, f)
           hits == {f \in DOMAIN l.files : Hit(f)}
           Upto(t) == {f \in 1 .. N : f <= t * c /\ Hit(f)}
<1>1. N \in Nat /\ DOMAIN l.files = 1 .. N
  BY SnapshotParts
<1>2. NThreads \in Nat
  BY SearchAssumption
<1>3. parts = [t \in 1 .. NThreads |-> SortedIds(ShareHits(l, q, t))]
  BY DEF FileParts
<1>4. parts \in Seq(Seq(DOMAIN l.files)) /\ Len(parts) = NThreads
  <2>1. parts \in Seq(Seq(DOMAIN l.files))
    BY PartsAreIds
  <2>2. DOMAIN parts = 1 .. NThreads
    BY <1>3
  <2>3. DOMAIN parts = 1 .. Len(parts) /\ Len(parts) \in Nat
    BY <2>1, LenProperties
  <2> HIDE DEF parts
  <2>4. Len(parts) = NThreads
    BY <1>2, <2>2, <2>3
  <2>5. QED BY <2>1, <2>4
<1>5. /\ c \in Nat /\ N <= NThreads * c
      /\ \A t \in Nat : t * c \in Nat /\ (t + 1) * c = t * c + c
      /\ \A t \in Nat, f \in Nat : f \in ShareOf(N, t + 1) <=> t * c < f /\ f <= N /\ f <= (t + 1) * c
  <2> HIDE DEF N
  <2>1. QED BY <1>1, SharesCover
<1>6. \A t : ShareHits(l, q, t) = {f \in ShareOf(N, t) : Hit(f)}
  BY DEF ShareHits
<1> HIDE DEF N, parts, Hit
<1>7. PICK g \in [0 .. Len(parts) -> Seq(DOMAIN l.files)] : Joins(g, parts) /\ FlattenSeq(parts) = g[Len(parts)]
  BY <1>4, FlattenJoins
<1>8. g[0] = <<>> /\ \A i \in 1 .. NThreads : g[i] = g[i - 1] \o parts[i]
  BY <1>4, <1>7 DEF Joins
<1> DEFINE e == [t \in Nat |-> t * c]
<1>9. \A t \in Nat : e[t] = t * c /\ e[t] \in Nat /\ e[t + 1] = e[t] + c
  <2> HIDE DEF c
  <2> SUFFICES ASSUME NEW t \in Nat PROVE e[t] = t * c /\ e[t] \in Nat /\ e[t + 1] = e[t] + c
    OBVIOUS
  <2>1. t + 1 \in Nat /\ t * c \in Nat /\ (t + 1) * c = t * c + c
    BY <1>5
  <2>2. e[t] = t * c /\ e[t + 1] = (t + 1) * c
    BY <2>1
  <2> HIDE DEF e
  <2>3. QED BY <2>1, <2>2
<1>10. \A t \in Nat : Upto(t) = {f \in 1 .. N : f <= e[t] /\ Hit(f)}
  BY <1>9
<1>11. \A t \in Nat : \A f \in Nat : f \in ShareOf(N, t + 1) <=> e[t] < f /\ f <= N /\ f <= e[t + 1]
  <2>1. \A t \in Nat : e[t + 1] = (t + 1) * c
    OBVIOUS
  <2> HIDE DEF e, c
  <2>2. QED BY <1>5, <1>9, <2>1
<1>12. e[0] = 0
  BY <1>5
<1> HIDE DEF e, Upto, c
<1> DEFINE T == {t \in 0 .. NThreads : Ascending(g[t], Upto(t))}
<1>13. 0 \in T
  <2>1. Upto(0) = {}
    BY <1>1, <1>10, <1>12
  <2>2. Ascending(<<>>, {})
    BY DEF Ascending
  <2>3. g[0] = <<>> /\ 0 \in 0 .. NThreads
    BY <1>2, <1>8
  <2>4. QED BY <2>1, <2>2, <2>3
<1>14. ASSUME NEW t \in 0 .. NThreads - 1, t \in T PROVE t + 1 \in T
  <2>1. t \in Nat /\ t + 1 \in 1 .. NThreads /\ (t + 1) - 1 = t /\ t + 1 \in Nat
    BY <1>2
  <2>2. g[t + 1] = g[t] \o parts[t + 1] /\ parts[t + 1] = SortedIds(ShareHits(l, q, t + 1))
    BY <1>3, <1>8, <2>1
  <2>3. Ascending(SortedIds(ShareHits(l, q, t + 1)), ShareHits(l, q, t + 1))
    BY <2>1, SearchParts
  <2>4. ShareOf(N, t + 1) \subseteq 1 .. N
    BY <1>1, <2>1, ShareInRange
  <2>5. ShareHits(l, q, t + 1) = {f \in ShareOf(N, t + 1) : Hit(f)}
    BY <1>6
  <2>6. \A f \in 1 .. N : f \in ShareOf(N, t + 1) <=> e[t] < f /\ f <= e[t + 1]
    <3>1. \A f \in Nat : f \in ShareOf(N, t + 1) <=> e[t] < f /\ f <= N /\ f <= e[t + 1]
      BY <1>11, <2>1
    <3>2. \A f \in 1 .. N : f \in Nat /\ f <= N
      BY <1>1
    <3>3. QED BY <3>1, <3>2
  <2>7. e[t] \in Nat /\ e[t + 1] \in Nat /\ e[t] <= e[t + 1]
    BY <1>5, <1>9, <2>1
  <2>8. Upto(t) = {f \in 1 .. N : f <= e[t] /\ Hit(f)} /\ Upto(t + 1) = {f \in 1 .. N : f <= e[t + 1] /\ Hit(f)}
    BY <1>10, <2>1
  <2>9. \A f \in 1 .. N : f <= e[t + 1] <=> f <= e[t] \/ (e[t] < f /\ f <= e[t + 1])
    BY <1>1, <2>7
  <2>10. Upto(t + 1) = Upto(t) \cup ShareHits(l, q, t + 1)
    <3> DEFINE S == ShareHits(l, q, t + 1)
    <3>1. \A f \in 1 .. N : f \in S <=> e[t] < f /\ f <= e[t + 1] /\ Hit(f)
      BY <2>5, <2>6
    <3>2. S \subseteq 1 .. N
      BY <2>4, <2>5
    <3> HIDE DEF S
    <3>3. \A f \in 1 .. N : f \in Upto(t + 1) <=> f \in Upto(t) \/ f \in S
      BY <2>8, <2>9, <3>1
    <3>4. Upto(t + 1) \subseteq 1 .. N /\ Upto(t) \subseteq 1 .. N
      BY <2>8
    <3>5. QED BY <3>2, <3>3, <3>4 DEF S
  <2>11. \A x \in Upto(t), y \in ShareHits(l, q, t + 1) : x < y
    <3>1. \A x \in Upto(t) : x \in 1 .. N /\ x <= e[t]
      BY <2>8
    <3>2. \A y \in ShareHits(l, q, t + 1) : y \in 1 .. N /\ e[t] < y
      BY <2>4, <2>5, <2>6
    <3>3. QED BY <1>1, <2>7, <3>1, <3>2
  <2>12. Upto(t) \subseteq Nat /\ ShareHits(l, q, t + 1) \subseteq Nat
    BY <1>1, <2>4, <2>5, <2>8
  <2>13. Ascending(g[t], Upto(t))
    BY <1>14
  <2>14. Ascending(g[t] \o SortedIds(ShareHits(l, q, t + 1)), Upto(t) \cup ShareHits(l, q, t + 1))
    BY <2>3, <2>11, <2>12, <2>13, AscendingJoin
  <2>15. Ascending(g[t + 1], Upto(t + 1))
    BY <2>2, <2>10, <2>14
  <2>16. QED BY <2>1, <2>15
<1> HIDE DEF T
<1>15. \A t \in 0 .. NThreads : t \in T
  BY <1>2, <1>13, <1>14, UpTo
<1>16. Ascending(g[NThreads], Upto(NThreads))
  <2>1. NThreads \in 0 .. NThreads
    BY <1>2
  <2>2. QED BY <1>15, <2>1 DEF T
<1>17. Upto(NThreads) = hits
  <2>1. N <= e[NThreads] /\ e[NThreads] \in Nat
    BY <1>2, <1>5, <1>9
  <2>2. \A f \in 1 .. N : f <= e[NThreads]
    BY <1>1, <2>1
  <2>3. QED BY <1>1, <1>2, <1>10, <2>2
<1>18. QED BY <1>4, <1>7, <1>16, <1>17 DEF parts, Hit

-----------------------------------------------------------------------------
(* The search of the file.                                                 *)

\* A limited answer is that of the whole list of files.
LEMMA LimitOfWhole ==
  ASSUME NEW A, NEW dirs \in Seq(A), NEW B, NEW parts \in Seq(Seq(B)), NEW n \in Nat
  PROVE  Limit(dirs, Gather(parts, n), n)
           = Limit(dirs, [ids |-> FlattenSeq(parts), total |-> Len(FlattenSeq(parts))], n)
<1> DEFINE files == FlattenSeq(parts)
           rest  == n - Least(n, Len(dirs))
           hits  == Limit(dirs, Gather(parts, n), n)
           all   == [ids |-> files, total |-> Len(files)]
<1>1. /\ hits.dirs = FirstN(dirs, n) /\ hits.files = FirstN(files, rest)
      /\ hits.total = Len(dirs) + Len(files)
      /\ rest \in 0 .. n /\ files \in Seq(B)
  BY LimitShows
<1>2. hits = [dirs |-> hits.dirs, files |-> hits.files, total |-> hits.total]
  BY DEF Limit
<1>3. n - Len(FirstN(dirs, n)) = rest
  BY FirstOf
<1> HIDE DEF hits, rest, files
<1>4. Limit(dirs, all, n) = [dirs |-> FirstN(dirs, n), files |-> FirstN(files, rest), total |-> Len(dirs) + Len(files)]
  BY <1>3 DEF Limit
<1>5. QED BY <1>1, <1>2, <1>4 DEF hits, files

\* Without words there is no answer.
LEMMA NothingAsked ==
  ASSUME NEW l, NEW opts, NEW n \in Nat
  PROVE  AnswerHits(l, <<>>, opts, n) = NoHits
<1> DEFINE all == Answer(l, <<>>, opts)
<1>0. AnswerHits(l, <<>>, opts, n)
        = Limit(SortedIds(all.dirs), [ids |-> SortedIds(all.files), total |-> Cardinality(all.files)], n)
  BY DEF AnswerHits
<1>1. all = [dirs |-> {}, files |-> {}]
  BY DEF Answer
<1>2. SortedIds({}) = <<>>
  <2>1. 0 \in Nat /\ {} \subseteq 1 .. 0
    OBVIOUS
  <2>2. Ascending(SortedIds({}), {})
    BY <2>1, SortedIdsAscend
  <2>3. SortedIds({}) \in Seq({})
    BY <2>2 DEF Ascending
  <2>4. SortedIds({}) = <<>>
    <3> DEFINE s == SortedIds({})
    <3>1. s \in Seq({})
      BY <2>3
    <3> HIDE DEF s
    <3>2. Len(s) \in Nat /\ \A i \in 1 .. Len(s) : s[i] \in {}
      BY <3>1, LenProperties, ElementOfSeq
    <3>3. Len(s) = 0
      <4> SUFFICES ASSUME Len(s) # 0 PROVE FALSE
        OBVIOUS
      <4>1. 1 \in 1 .. Len(s)
        BY <3>2
      <4>2. QED BY <3>2, <4>1
    <3>4. s = <<>>
      BY <3>1, <3>3, EmptySeq
    <3>5. QED BY <3>4 DEF s
  <2>5. QED BY <2>4
<1>3. Cardinality({}) = 0
  BY FS_EmptySet
<1>4. FirstN(<<>>, n) = <<>> /\ FirstN(<<>>, n - 0) = <<>> /\ Len(<<>>) = 0
  <2>1. <<>> \in Seq({}) /\ Len(<<>>) = 0
    OBVIOUS
  <2>2. FirstN(<<>>, n) \in Seq({}) /\ Len(FirstN(<<>>, n)) = Least(n, Len(<<>>))
    BY <2>1, FirstOf
  <2>3. Least(n, 0) = 0
    BY DEF Least
  <2>4. FirstN(<<>>, n) = <<>>
    BY <2>1, <2>2, <2>3, EmptySeq
  <2>5. n - 0 = n
    OBVIOUS
  <2>6. QED BY <2>1, <2>4, <2>5
<1>5. Limit(<<>>, [ids |-> <<>>, total |-> 0], n) = NoHits
  <2> DEFINE r == [ids |-> <<>>, total |-> 0]
  <2>1. r.ids = <<>> /\ r.total = 0
    OBVIOUS
  <2> HIDE DEF r
  <2>2. Limit(<<>>, r, n) = [dirs |-> FirstN(<<>>, n), files |-> FirstN(r.ids, n - Len(FirstN(<<>>, n))),
                             total |-> Len(<<>>) + r.total]
    BY DEF Limit
  <2>3. FirstN(r.ids, n - Len(FirstN(<<>>, n))) = <<>> /\ Len(<<>>) + r.total = 0
    BY <1>4, <2>1
  <2>4. Limit(<<>>, r, n) = [dirs |-> <<>>, files |-> <<>>, total |-> 0]
    BY <1>4, <2>2, <2>3
  <2>5. QED BY <2>4 DEF r, NoHits
<1>6. AnswerHits(l, <<>>, opts, n) = Limit(<<>>, [ids |-> <<>>, total |-> 0], n)
  <2>1. all.dirs = {} /\ all.files = {}
    BY <1>1
  <2> HIDE DEF all
  <2>2. QED BY <1>0, <1>2, <1>3, <2>1
<1>7. QED BY <1>5, <1>6

\* Lists that are together all the hits in order give the answer, with any limit.
LEMMA PartsMakeAnswer ==
  ASSUME NEW l, InRange(l), WellNamed(l), NEW words \in Seq(Seq(Byte)), words # <<>>, NEW opts \in Options,
         Plain(l, words), NEW n \in Nat, NEW parts \in Seq(Seq(DOMAIN l.files)),
         Ascending(FlattenSeq(parts), AliveHits(l, ParseOpts(words, opts)))
  PROVE  Limit(SortedIds(LiveDirs(l, ParseOpts(words, opts))), Gather(parts, n), n) = AnswerHits(l, words, opts, n)
<1> DEFINE q == ParseOpts(words, opts)   all == Answer(l, words, opts)
           dirs == SortedIds(LiveDirs(l, q))   files == FlattenSeq(parts)
<1>1. all = [dirs |-> LiveDirs(l, q), files |-> AliveHits(l, q)]
  BY AnswerIs
<1>2. AnswerHits(l, words, opts, n)
        = Limit(SortedIds(all.dirs), [ids |-> SortedIds(all.files), total |-> Cardinality(all.files)], n)
  BY DEF AnswerHits
<1>3. Ascending(files, AliveHits(l, q)) /\ AliveHits(l, q) \subseteq DOMAIN l.files
  BY DEF AliveHits, AliveFiles
<1>4. DOMAIN l.files = 1 .. Len(l.files) /\ Len(l.files) \in Nat
  BY SnapshotParts
<1>5. files = SortedIds(AliveHits(l, q)) /\ Cardinality(AliveHits(l, q)) = Len(files)
  <2> DEFINE H == AliveHits(l, q)   k == Len(l.files)
  <2>1. k \in Nat /\ H \subseteq 1 .. k /\ H \subseteq Nat /\ Ascending(files, H)
    BY <1>3, <1>4
  <2> HIDE DEF H, k, files
  <2>2. Ascending(SortedIds(H), H)
    BY <2>1, SortedIdsAscend
  <2>3. files = SortedIds(H)
    BY <2>1, <2>2, AscendingUnique
  <2>4. Cardinality(H) = Len(files)
    BY <2>1, AscendingCounts
  <2>5. QED BY <2>3, <2>4 DEF H
<1>6. dirs \in Seq(DOMAIN l.dirs) /\ parts \in Seq(Seq(DOMAIN l.files))
  BY PartsAreIds
<1>7. Limit(dirs, Gather(parts, n), n) = Limit(dirs, [ids |-> files, total |-> Len(files)], n)
  <2> HIDE DEF dirs, q
  <2>1. QED BY <1>6, LimitOfWhole
<1> HIDE DEF q, all, files
<1>8. AnswerHits(l, words, opts, n) = Limit(dirs, [ids |-> files, total |-> Len(files)], n)
  BY <1>1, <1>2, <1>5
<1>9. QED BY <1>7, <1>8 DEF q, dirs

\* The answer of a search without a daemon.
LEMMA FileSearchIs ==
  ASSUME NEW l, InRange(l), WellNamed(l), l.deadDirs = {}, l.deadFiles = {},
         NEW words \in Seq(Seq(Byte)), NEW opts \in Options, Plain(l, words), NEW n \in Nat
  PROVE  FileSearch(l, ParseOpts(words, opts), n) = AnswerHits(l, words, opts, n)
<1> DEFINE q == ParseOpts(words, opts)   files == FlattenSeq(FileParts(l, q))
<1>1. IsEmpty(q) <=> words = <<>>
  BY QueryIs
<1>2. FileSearch(l, q, n) = IF IsEmpty(q) THEN NoHits
                            ELSE Limit(SortedIds(FileDirs(l, q)), Gather(FileParts(l, q), n), n)
  BY SearchesAre
<1>3. CASE words = <<>>
  <2>1. FileSearch(l, q, n) = NoHits
    BY <1>1, <1>2, <1>3
  <2>2. QED BY <1>3, <2>1, NothingAsked
<1>4. CASE words # <<>>
  <2>1. FileDirs(l, q) = LiveDirs(l, q)
    <3>1. AliveDirs(l) = DOMAIN l.dirs
      BY DEF AliveDirs
    <3>2. QED BY <3>1 DEF FileDirs, LiveDirs
  <2>2. Ascending(files, AliveHits(l, q)) /\ AliveHits(l, q) \subseteq DOMAIN l.files
    <3>1. AliveFiles(l) = DOMAIN l.files
      BY DEF AliveFiles
    <3>2. CASE WantsFiles(q)
      <4>1. AliveHits(l, q) = {f \in DOMAIN l.files : FileHit(l, q, f)}
        BY <3>1, <3>2 DEF AliveHits
      <4>2. QED BY <3>2, <4>1, SharesJoin
    <3>3. CASE ~WantsFiles(q)
      <4>1. AliveHits(l, q) = {} /\ FileParts(l, q) = <<>>
        BY <3>3 DEF AliveHits, FileParts
      <4>2. Ascending(<<>>, {})
        BY DEF Ascending
      <4>3. QED BY <4>1, <4>2, FlattenNone
    <3>4. QED BY <3>2, <3>3
  <2>3. FileParts(l, q) \in Seq(Seq(DOMAIN l.files))
    BY PartsAreIds
  <2> HIDE DEF files
  <2>4. Limit(SortedIds(LiveDirs(l, q)), Gather(FileParts(l, q), n), n) = AnswerHits(l, words, opts, n)
    BY <1>4, <2>2, <2>3, PartsMakeAnswer DEF files
  <2>5. QED BY <1>1, <1>2, <1>4, <2>1, <2>4
<1>5. QED BY <1>3, <1>4

-----------------------------------------------------------------------------
(* The search over base and delta: what each thread lists, put together.   *)

\* Parts that lie one after the other are together one ascending list.
LEMMA OrderedJoin ==
  ASSUME NEW N \in Nat, NEW k \in Nat, NEW H, \A t \in 1 .. k : H[t] \subseteq 1 .. N,
         \A t, u \in 1 .. k : t < u => \A x \in H[t], y \in H[u] : x < y,
         NEW parts \in Seq(Seq(1 .. N)), Len(parts) = k, \A t \in 1 .. k : parts[t] = SortedIds(H[t]),
         NEW all, \A x : x \in all <=> \E t \in 1 .. k : x \in H[t]
  PROVE  Ascending(FlattenSeq(parts), all)
<1> DEFINE U(i) == UNION {H[t] : t \in 1 .. i}
<1>1. PICK g \in [0 .. k -> Seq(1 .. N)] : Joins(g, parts) /\ FlattenSeq(parts) = g[k]
  <2>1. \E g \in [0 .. Len(parts) -> Seq(1 .. N)] : Joins(g, parts) /\ FlattenSeq(parts) = g[Len(parts)]
    BY FlattenJoins
  <2>2. QED BY <2>1
<1>2. g[0] = <<>> /\ \A i \in 1 .. k : g[i] = g[i - 1] \o parts[i]
  BY <1>1 DEF Joins
<1> DEFINE T == {i \in 0 .. k : Ascending(g[i], U(i))}
<1>3. 0 \in T
  <2>1. U(0) = {}
    OBVIOUS
  <2>2. Ascending(<<>>, {})
    BY DEF Ascending
  <2> HIDE DEF U
  <2>3. g[0] = <<>> /\ 0 \in 0 .. k
    BY <1>2
  <2>4. Ascending(g[0], U(0))
    BY <2>1, <2>2, <2>3, Zenon
  <2>5. QED BY <2>3, <2>4
<1>4. ASSUME NEW i \in 0 .. k - 1, i \in T PROVE i + 1 \in T
  <2>1. i + 1 \in 1 .. k /\ i + 1 \in 0 .. k /\ (i + 1) - 1 = i /\ i \in 0 .. k
    OBVIOUS
  <2>2. g[i + 1] = g[i] \o SortedIds(H[i + 1])
    <3>1. g[i + 1] = g[(i + 1) - 1] \o parts[i + 1]
      BY <2>1, <1>2
    <3>2. QED BY <2>1, <3>1
  <2>3. Ascending(g[i], U(i))
    BY <1>4
  <2>4. H[i + 1] \subseteq 1 .. N
    BY <2>1
  <2>5. Ascending(SortedIds(H[i + 1]), H[i + 1])
    <3> DEFINE h == H[i + 1]
    <3>1. h \subseteq 1 .. N
      BY <2>4
    <3> HIDE DEF h
    <3>2. Ascending(SortedIds(h), h)
      BY <3>1, SortedIdsAscend
    <3>3. QED BY <3>2 DEF h
  <2>6. \A t \in 1 .. i : t \in 1 .. k /\ t < i + 1
    BY <2>1
  <2>7. ASSUME NEW x \in U(i), NEW y \in H[i + 1] PROVE x < y
    <3>1. PICK t \in 1 .. i : x \in H[t]
      OBVIOUS
    <3>2. QED BY <2>1, <2>6, <3>1
  <2>8. U(i) \subseteq Nat /\ H[i + 1] \subseteq Nat
    <3>1. \A t \in 1 .. i : H[t] \subseteq Nat
      BY <2>6
    <3>2. QED BY <3>1, <2>4
  <2>9. U(i + 1) = U(i) \cup H[i + 1]
    <3>1. \A t : t \in 1 .. i + 1 <=> t \in 1 .. i \/ t = i + 1
      BY <2>1
    <3>2. QED BY <3>1
  <2> HIDE DEF U
  <2>10. Ascending(g[i] \o SortedIds(H[i + 1]), U(i) \cup H[i + 1])
    <3> DEFINE h == H[i + 1]   s == SortedIds(h)   u == U(i)   a == g[i]
    <3>1. Ascending(a, u) /\ Ascending(s, h) /\ u \subseteq Nat /\ h \subseteq Nat /\ \A x \in u, y \in h : x < y
      BY <2>3, <2>5, <2>7, <2>8
    <3> HIDE DEF h, s, u, a
    <3>2. Ascending(a \o s, u \cup h)
      BY <3>1, AscendingJoin
    <3>3. QED BY <3>2 DEF h, s, u, a
  <2>11. QED BY <2>1, <2>2, <2>9, <2>10
<1> HIDE DEF T
<1>5. \A i \in 0 .. k : i \in T
  BY <1>3, <1>4, UpTo
<1>6. k \in T
  BY <1>5
<1>7. U(k) = all
  <2>1. \A x : x \in U(k) <=> x \in all
    OBVIOUS
  <2>2. QED BY <2>1
<1>8. Ascending(g[k], U(k))
  BY <1>6 DEF T
<1> HIDE DEF U
<1>9. QED BY <1>1, <1>7, <1>8

-----------------------------------------------------------------------------
(* Where names lie in the arena, and what a thread finds in its share.     *)

\* off tells where each name of the base begins.
Offsets(l, off) ==
  /\ \A f \in 1 .. l.baseFiles + 1 : off[f] \in Nat
  /\ off[1] = 0
  /\ \A f \in 1 .. l.baseFiles : off[f + 1] = off[f] + Len(l.files[f].name)

LEMMA NameOffIs ==
  ASSUME NEW l, InRange(l)
  PROVE  Offsets(l, NameOff(l))
<1> DEFINE B == l.baseFiles
           size == [f \in 1 .. B |-> Len(l.files[f].name)]
           off[f \in 1 .. l.baseFiles + 1] == IF f = 1 THEN 0 ELSE off[f - 1] + Len(l.files[f - 1].name)
           G == [i \in 0 .. B |-> [x \in Nat |-> IF i = 0 THEN x ELSE x + size[i]]]
<1>1. B \in Nat /\ \A f \in 1 .. B : Len(l.files[f].name) \in Nat
  <2>1. B \in Nat /\ BaseFiles(l) \subseteq DOMAIN l.files
    BY SnapshotParts
  <2>2. ASSUME NEW f \in 1 .. B PROVE Len(l.files[f].name) \in Nat
    <3>1. f \in DOMAIN l.files
      BY <2>1 DEF BaseFiles
    <3>2. l.files[f].name \in Seq(Byte)
      BY <3>1, NamesAreTexts, SeqMonotonic DEF Char
    <3>3. QED BY <3>2, LenProperties
  <2>3. QED BY <2>1, <2>2
<1>2. \A f \in 1 .. B : size[f] = Len(l.files[f].name) /\ size[f] \in Nat
  BY <1>1
<1> HIDE DEF size, B
<1>3. G \in [0 .. B -> [Nat -> Nat]] /\ \A i \in 1 .. B : \A x \in Nat : G[i][x] = x + size[i]
  <2>1. \A i \in 0 .. B : \A x \in Nat : (IF i = 0 THEN x ELSE x + size[i]) \in Nat
    BY <1>1, <1>2
  <2>2. \A i \in 0 .. B : [x \in Nat |-> IF i = 0 THEN x ELSE x + size[i]] \in [Nat -> Nat]
    BY <2>1
  <2>3. G \in [0 .. B -> [Nat -> Nat]]
    BY <2>2
  <2>4. \A i \in 1 .. B : i \in 0 .. B /\ i # 0
    BY <1>1
  <2>5. QED BY <2>3, <2>4
<1> HIDE DEF G
<1>4. PICK g \in [0 .. B -> Nat] : \A i \in 0 .. B : g[i] = IF i = 0 THEN 0 ELSE G[i][g[i - 1]]
  <2>1. Stepwise(B, Nat, 0, G)
    <3>1. 0 \in Nat
      OBVIOUS
    <3>2. QED BY <1>1, <1>3, <3>1, StepwiseExists
  <2>2. QED BY <2>1 DEF Stepwise
<1>5. g[0] = 0 /\ \A i \in 1 .. B : g[i] = g[i - 1] + size[i]
  <2>1. 0 \in 0 .. B
    BY <1>1
  <2>2. g[0] = 0
    BY <2>1, <1>4
  <2>3. ASSUME NEW i \in 1 .. B PROVE g[i] = g[i - 1] + size[i]
    <3>1. i \in 0 .. B /\ i # 0 /\ i - 1 \in 0 .. B
      BY <1>1
    <3>2. g[i] = G[i][g[i - 1]] /\ g[i - 1] \in Nat
      BY <3>1, <1>4
    <3>3. QED BY <3>2, <1>3
  <2>4. QED BY <2>2, <2>3
<1> DEFINE f == [i \in 1 .. B + 1 |-> g[i - 1]]
<1>6. \A i \in 1 .. B + 1 : f[i] = g[i - 1] /\ i - 1 \in 0 .. B
  BY <1>1
<1> HIDE DEF f
<1>7. ASSUME NEW i \in 1 .. B + 1
      PROVE  f[i] = IF i = 1 THEN 0 ELSE f[i - 1] + Len(l.files[i - 1].name)
  <2>1. CASE i = 1
    <3>1. f[1] = g[1 - 1] /\ 1 - 1 = 0
      BY <2>1, <1>6
    <3>2. QED BY <2>1, <3>1, <1>5
  <2>2. CASE i # 1
    <3>1. i - 1 \in 1 .. B /\ i - 1 \in 1 .. B + 1
      BY <2>2, <1>1
    <3>2. f[i] = g[i - 1] /\ f[i - 1] = g[(i - 1) - 1]
      BY <3>1, <1>6
    <3>3. g[i - 1] = g[(i - 1) - 1] + size[i - 1]
      BY <3>1, <1>5
    <3>4. size[i - 1] = Len(l.files[i - 1].name)
      BY <3>1, <1>2
    <3>5. QED BY <2>2, <3>2, <3>3, <3>4
  <2>3. QED BY <2>1, <2>2
<1>8. f = [i \in 1 .. B + 1 |-> IF i = 1 THEN 0 ELSE f[i - 1] + Len(l.files[i - 1].name)]
  <2>1. f = [i \in 1 .. B + 1 |-> f[i]]
    BY DEF f
  <2>2. QED BY <2>1, <1>7
<1>9. off = [i \in 1 .. l.baseFiles + 1 |-> IF i = 1 THEN 0 ELSE off[i - 1] + Len(l.files[i - 1].name)]
  BY <1>8 DEF B
<1>10. NameOff(l) = off
  BY DEF NameOff
<1> HIDE DEF off
<1>11. \A i \in 1 .. B + 1 : off[i] = IF i = 1 THEN 0 ELSE off[i - 1] + Len(l.files[i - 1].name)
  BY <1>9 DEF B
<1> DEFINE T == {i \in 0 .. B : off[i + 1] \in Nat}
<1>12. off[1] = 0
  <2>1. 1 \in 1 .. B + 1
    BY <1>1
  <2>2. QED BY <2>1, <1>11
<1>13. \A i \in 1 .. B : off[i + 1] = off[i] + Len(l.files[i].name)
  <2> SUFFICES ASSUME NEW i \in 1 .. B PROVE off[i + 1] = off[i] + Len(l.files[i].name)
    OBVIOUS
  <2>1. i + 1 \in 1 .. B + 1 /\ i + 1 # 1 /\ (i + 1) - 1 = i
    BY <1>1
  <2>2. off[i + 1] = off[(i + 1) - 1] + Len(l.files[(i + 1) - 1].name)
    BY <2>1, <1>11
  <2>3. QED BY <2>1, <2>2
<1>14. 0 \in T
  BY <1>1, <1>12
<1>15. ASSUME NEW i \in 0 .. B - 1, i \in T PROVE i + 1 \in T
  <2>1. i + 1 \in 1 .. B /\ i + 1 \in 0 .. B
    BY <1>1
  <2>2. off[(i + 1) + 1] = off[i + 1] + Len(l.files[i + 1].name) /\ Len(l.files[i + 1].name) \in Nat
    BY <2>1, <1>1, <1>13 DEF B
  <2>3. off[i + 1] \in Nat
    BY <1>15
  <2>4. QED BY <2>1, <2>2, <2>3
<1> HIDE DEF T
<1>16. \A i \in 0 .. B : i \in T
  BY <1>1, <1>14, <1>15, UpTo
<1>17. \A i \in 1 .. B + 1 : off[i] \in Nat
  <2> SUFFICES ASSUME NEW i \in 1 .. B + 1 PROVE off[i] \in Nat
    OBVIOUS
  <2>1. i - 1 \in 0 .. B /\ (i - 1) + 1 = i
    BY <1>1
  <2>2. i - 1 \in T
    BY <2>1, <1>16
  <2>3. off[(i - 1) + 1] \in Nat
    BY <2>2 DEF T
  <2>4. QED BY <2>1, <2>3
<1>18. QED BY <1>10, <1>12, <1>13, <1>17 DEF Offsets, B

LEMMA OffsetsGrow ==
  ASSUME NEW l, InRange(l), NEW off, Offsets(l, off)
  PROVE  \A f, g \in 1 .. l.baseFiles + 1 : f <= g => off[f] <= off[g]
<1> DEFINE B == l.baseFiles
<1>1. B \in Nat /\ \A f \in 1 .. B : Len(l.files[f].name) \in Nat
  <2>1. B \in Nat /\ BaseFiles(l) \subseteq DOMAIN l.files
    BY SnapshotParts
  <2>2. ASSUME NEW f \in 1 .. B PROVE Len(l.files[f].name) \in Nat
    <3>1. f \in DOMAIN l.files
      BY <2>1 DEF BaseFiles
    <3>2. l.files[f].name \in Seq(Byte)
      BY <3>1, NamesAreTexts, SeqMonotonic DEF Char
    <3>3. QED BY <3>2, LenProperties
  <2>3. QED BY <2>1, <2>2
<1> HIDE DEF B
<1>2. /\ \A f \in 1 .. B + 1 : off[f] \in Nat
      /\ \A f \in 1 .. B : off[f + 1] = off[f] + Len(l.files[f].name)
  BY DEF Offsets, B
<1> DEFINE T == {g \in 0 .. B : \A f \in 1 .. g + 1 : off[f] <= off[g + 1]}
<1>3. 0 \in T
  <2>1. \A f \in 1 .. 0 + 1 : f = 0 + 1 /\ f \in 1 .. B + 1
    BY <1>1
  <2>2. \A f \in 1 .. 0 + 1 : off[f] <= off[0 + 1]
    BY <2>1, <1>2
  <2>3. QED BY <2>2, <1>1
<1>4. ASSUME NEW g \in 0 .. B - 1, g \in T PROVE g + 1 \in T
  <2>1. g + 1 \in 1 .. B /\ g + 1 \in 0 .. B /\ g + 1 \in 1 .. B + 1 /\ (g + 1) + 1 \in 1 .. B + 1
    BY <1>1
  <2>2. off[(g + 1) + 1] = off[g + 1] + Len(l.files[g + 1].name) /\ Len(l.files[g + 1].name) \in Nat
    BY <2>1, <1>1, <1>2
  <2>3. off[g + 1] \in Nat /\ off[(g + 1) + 1] \in Nat
    BY <2>1, <1>2
  <2>4. off[g + 1] <= off[(g + 1) + 1]
    BY <2>2, <2>3
  <2>5. ASSUME NEW f \in 1 .. (g + 1) + 1 PROVE off[f] <= off[(g + 1) + 1]
    <3>1. CASE f = (g + 1) + 1
      BY <3>1, <2>3
    <3>2. CASE f # (g + 1) + 1
      <4>1. f \in 1 .. g + 1 /\ f \in 1 .. B + 1
        BY <3>2, <1>1
      <4>2. off[f] <= off[g + 1] /\ off[f] \in Nat
        BY <4>1, <1>2, <1>4
      <4>3. QED BY <4>2, <2>3, <2>4
    <3>3. QED BY <3>1, <3>2
  <2>6. QED BY <2>1, <2>5
<1> HIDE DEF T
<1>5. \A g \in 0 .. B : g \in T
  BY <1>1, <1>3, <1>4, UpTo
<1>6. ASSUME NEW f \in 1 .. B + 1, NEW g \in 1 .. B + 1, f <= g PROVE off[f] <= off[g]
  <2>1. g - 1 \in 0 .. B /\ (g - 1) + 1 = g /\ f \in 1 .. (g - 1) + 1
    BY <1>1, <1>6
  <2>2. g - 1 \in T
    BY <2>1, <1>5
  <2>3. off[f] <= off[(g - 1) + 1]
    BY <2>1, <2>2 DEF T
  <2>4. QED BY <2>1, <2>3
<1>7. QED BY <1>6 DEF B

\* f gives what is found in a share from each place on.
FindRun(arena, anchor, start, chunk, end, f) ==
  \A p \in start + 1 .. end + Len(anchor) :
    f[p] = IF p + Len(anchor) - 1 > end \/ p > start + chunk THEN {}
           ELSE IF OccursAt(arena, anchor, p) THEN {p} \cup f[p + Len(anchor)] ELSE f[p + 1]

ShareEnd(arena, anchor, start, chunk) == Min({start + chunk + Len(anchor) - 1, Len(arena)})

LEMMA FindsRun ==
  ASSUME NEW arena \in Seq(Byte), NEW anchor \in Seq(Byte), anchor # <<>>,
         NEW start \in Nat, NEW chunk \in Nat, start < Len(arena)
  PROVE  LET end == ShareEnd(arena, anchor, start, chunk)
         IN  /\ end \in Nat /\ start <= end /\ end <= Len(arena) /\ end <= start + chunk + Len(anchor) - 1
             /\ end = Len(arena) \/ end = start + chunk + Len(anchor) - 1
             /\ \E f : FindRun(arena, anchor, start, chunk, end, f) /\ Finds(arena, anchor, start, chunk) = f[start + 1]
<1> DEFINE n == Len(anchor)
           end == ShareEnd(arena, anchor, start, chunk)
           lo == start + 1   hi == end + n
           from[p \in start + 1 .. end + Len(anchor)] ==
             IF p + Len(anchor) - 1 > end \/ p > start + chunk THEN {}
             ELSE IF OccursAt(arena, anchor, p) THEN {p} \cup from[p + Len(anchor)] ELSE from[p + 1]
           Stop(p) == p + n - 1 > end \/ p > start + chunk
           Occ(p) == OccursAt(arena, anchor, p)
           S == SUBSET Nat
           ahead == [p \in lo .. hi - 1 |-> IF ~Stop(p) /\ Occ(p) THEN p + n ELSE p + 1]
           G == [p \in lo .. hi - 1 |-> [x \in S |-> IF Stop(p) THEN {} ELSE IF Occ(p) THEN {p} \cup x ELSE x]]
<1>1. n \in Nat /\ n >= 1
  <2>1. n # 0
    BY EmptySeq
  <2>2. QED BY <2>1, LenProperties
<1>2. Len(arena) \in Nat
  BY LenProperties
<1>3. /\ end \in Nat /\ start <= end /\ end <= Len(arena) /\ end <= start + chunk + n - 1
      /\ end = Len(arena) \/ end = start + chunk + n - 1
  <2> DEFINE a == start + chunk + n - 1   b == Len(arena)
  <2>1. a \in Nat /\ b \in Nat /\ start <= a /\ start < b
    BY <1>1, <1>2
  <2>2. end = Min({a, b})
    BY DEF ShareEnd
  <2> HIDE DEF a, b, end
  <2>3. Min({a, b}) \in {a, b} /\ Min({a, b}) <= a /\ Min({a, b}) <= b
    <3>1. a \in Int /\ b \in Int
      BY <2>1
    <3>2. QED BY <3>1, MinOfTwo
  <2>4. end \in Nat /\ start <= end /\ end <= b /\ end <= a /\ (end = b \/ end = a)
    BY <2>1, <2>2, <2>3
  <2>5. QED BY <2>4 DEF a, b
<1> HIDE DEF end, n
<1>4. lo \in Int /\ hi \in Int /\ lo <= hi
  BY <1>1, <1>3
<1>5. \A p \in lo .. hi - 1 : ahead[p] \in p + 1 .. hi /\ ahead[p] = IF ~Stop(p) /\ Occ(p) THEN p + n ELSE p + 1
  <2> SUFFICES ASSUME NEW p \in lo .. hi - 1
               PROVE  ahead[p] \in p + 1 .. hi /\ ahead[p] = IF ~Stop(p) /\ Occ(p) THEN p + n ELSE p + 1
    OBVIOUS
  <2>1. ahead[p] = IF ~Stop(p) /\ Occ(p) THEN p + n ELSE p + 1
    OBVIOUS
  <2>2. p + 1 \in p + 1 .. hi
    BY <1>1, <1>3
  <2>3. ~Stop(p) => p + n \in p + 1 .. hi
    BY <1>1, <1>3
  <2> HIDE DEF ahead, Stop, Occ
  <2>4. QED BY <2>1, <2>2, <2>3
<1>6. \A p \in lo .. hi - 1 : \A x \in S :
        /\ G[p][x] \in S
        /\ G[p][x] = IF Stop(p) THEN {} ELSE IF Occ(p) THEN {p} \cup x ELSE x
  <2> SUFFICES ASSUME NEW p \in lo .. hi - 1, NEW x \in S
               PROVE  /\ G[p][x] \in S
                      /\ G[p][x] = IF Stop(p) THEN {} ELSE IF Occ(p) THEN {p} \cup x ELSE x
    OBVIOUS
  <2>1. G[p][x] = IF Stop(p) THEN {} ELSE IF Occ(p) THEN {p} \cup x ELSE x
    OBVIOUS
  <2>2. {p} \cup x \in S /\ {} \in S
    BY <1>3
  <2> HIDE DEF G, Stop, Occ, S
  <2>3. QED BY <2>1, <2>2
<1> HIDE DEF ahead, G
<1>7. PICK f \in [lo .. hi -> S] : \A p \in lo .. hi : f[p] = IF p = hi THEN {} ELSE G[p][f[ahead[p]]]
  <2>1. {} \in S
    OBVIOUS
  <2>2. \A p \in lo .. hi - 1 : ahead[p] \in p + 1 .. hi
    BY <1>5
  <2>3. \A p \in lo .. hi - 1 : \A x \in S : G[p][x] \in S
    BY <1>6
  <2> HIDE DEF S, lo, hi
  <2>4. Later(lo, hi, S, {}, ahead, G)
    BY <1>4, <2>1, <2>2, <2>3, LaterExists
  <2>5. QED BY <2>4 DEF Later
<1>8. ASSUME NEW p \in lo .. hi
      PROVE  f[p] = IF Stop(p) THEN {} ELSE IF Occ(p) THEN {p} \cup f[p + n] ELSE f[p + 1]
  <2>1. CASE p = hi
    <3>1. Stop(p)
      BY <2>1, <1>1, <1>3
    <3>2. f[p] = {}
      BY <2>1, <1>7
    <3> HIDE DEF Stop
    <3>3. QED BY <3>1, <3>2
  <2>2. CASE p # hi
    <3>1. p \in lo .. hi - 1
      BY <2>2, <1>1, <1>3
    <3>2. ahead[p] \in lo .. hi
      <4>1. ahead[p] \in p + 1 .. hi
        BY <3>1, <1>5
      <4>2. QED BY <4>1, <3>1, <1>1, <1>3
    <3>3. f[ahead[p]] \in S
      BY <3>2, <1>7
    <3>4. f[p] = G[p][f[ahead[p]]]
      BY <2>2, <1>7
    <3> DEFINE x == f[ahead[p]]
    <3>5. f[p] = IF Stop(p) THEN {} ELSE IF Occ(p) THEN {p} \cup x ELSE x
      BY <3>1, <3>3, <3>4, <1>6
    <3>6. ahead[p] = IF ~Stop(p) /\ Occ(p) THEN p + n ELSE p + 1
      BY <3>1, <1>5
    <3> HIDE DEF Stop, Occ
    <3>7. QED BY <3>5, <3>6
  <2>3. QED BY <2>1, <2>2
<1>9. f = [p \in start + 1 .. end + Len(anchor) |->
             IF p + Len(anchor) - 1 > end \/ p > start + chunk THEN {}
             ELSE IF OccursAt(arena, anchor, p) THEN {p} \cup f[p + Len(anchor)] ELSE f[p + 1]]
  <2>1. f = [p \in lo .. hi |-> IF Stop(p) THEN {} ELSE IF Occ(p) THEN {p} \cup f[p + n] ELSE f[p + 1]]
    <3> HIDE DEF Stop, Occ, S, lo, hi
    <3>1. QED BY <1>7, <1>8
  <2>2. QED BY <2>1 DEF n
<1>10. from = [p \in start + 1 .. end + Len(anchor) |->
             IF p + Len(anchor) - 1 > end \/ p > start + chunk THEN {}
             ELSE IF OccursAt(arena, anchor, p) THEN {p} \cup from[p + Len(anchor)] ELSE from[p + 1]]
  BY <1>9
<1>11. Finds(arena, anchor, start, chunk) = from[start + 1]
  <2>1. ~(start >= Len(arena))
    BY <1>2
  <2>2. QED BY <2>1 DEF Finds, ShareEnd, end
<1> HIDE DEF from
<1>12. FindRun(arena, anchor, start, chunk, end, from)
  BY <1>10 DEF FindRun
<1>13. QED BY <1>3, <1>11, <1>12 DEF end, n

\* What is found in a share begins in it.
LEMMA FindsIn ==
  ASSUME NEW arena \in Seq(Byte), NEW anchor \in Seq(Byte), anchor # <<>>,
         NEW start \in Nat, NEW chunk \in Nat
  PROVE  \A p \in Finds(arena, anchor, start, chunk) :
           p \in start + 1 .. start + chunk /\ OccursAt(arena, anchor, p)
<1> DEFINE n == Len(anchor)
           end == ShareEnd(arena, anchor, start, chunk)
           Good(X) == \A r \in X : r \in start + 1 .. start + chunk /\ OccursAt(arena, anchor, r)
<1>1. CASE start >= Len(arena)
  BY <1>1 DEF Finds
<1>2. CASE ~(start >= Len(arena))
  <2>1. n \in Nat /\ n >= 1 /\ Len(arena) \in Nat /\ start < Len(arena)
    <3>1. n # 0
      BY EmptySeq
    <3>2. QED BY <3>1, <1>2, LenProperties
  <2>2. PICK f : /\ FindRun(arena, anchor, start, chunk, end, f)
                 /\ Finds(arena, anchor, start, chunk) = f[start + 1]
    BY <2>1, FindsRun
  <2>3. end \in Nat /\ start <= end
    BY <2>1, FindsRun
  <2>4. \A p \in start + 1 .. end + n :
          f[p] = IF p + n - 1 > end \/ p > start + chunk THEN {}
                 ELSE IF OccursAt(arena, anchor, p) THEN {p} \cup f[p + n] ELSE f[p + 1]
    BY <2>2 DEF FindRun
  <2> DEFINE T == {p \in start + 1 .. end + n : Good(f[p])}
  <2> HIDE DEF n, end
  <2>5. end + n \in T
    <3>1. end + n \in start + 1 .. end + n /\ (end + n) + n - 1 > end
      BY <2>1, <2>3
    <3>2. f[end + n] = {}
      BY <2>4, <3>1
    <3>3. QED BY <3>1, <3>2
  <2>6. ASSUME NEW p \in start + 1 .. (end + n) - 1, \A j \in p + 1 .. end + n : j \in T PROVE p \in T
    <3>1. p \in start + 1 .. end + n
      BY <2>1, <2>3
    <3>2. CASE p + n - 1 > end \/ p > start + chunk
      <4>1. f[p] = {}
        BY <2>4, <3>1, <3>2
      <4>2. QED BY <3>1, <4>1
    <3>3. CASE ~(p + n - 1 > end \/ p > start + chunk) /\ OccursAt(arena, anchor, p)
      <4>1. p + n \in p + 1 .. end + n /\ p \in start + 1 .. start + chunk
        BY <2>1, <2>3, <3>3
      <4>2. Good(f[p + n])
        BY <2>6, <4>1
      <4>3. f[p] = {p} \cup f[p + n]
        BY <2>4, <3>1, <3>3
      <4>4. QED BY <3>1, <3>3, <4>1, <4>2, <4>3
    <3>4. CASE ~(p + n - 1 > end \/ p > start + chunk) /\ ~OccursAt(arena, anchor, p)
      <4>1. p + 1 \in p + 1 .. end + n
        BY <2>1, <2>3, <3>4
      <4>2. Good(f[p + 1])
        BY <2>6, <4>1
      <4>3. f[p] = f[p + 1]
        BY <2>4, <3>1, <3>4
      <4>4. QED BY <3>1, <4>2, <4>3
    <3>5. QED BY <3>2, <3>3, <3>4
  <2> DEFINE lo == start + 1   hi == end + n
  <2>7. lo \in Int /\ hi \in Int /\ lo <= hi
    BY <2>1, <2>3
  <2> HIDE DEF T
  <2>8. \A p \in lo .. hi : p \in T
    <3> HIDE DEF lo, hi
    <3>1. hi \in T
      BY <2>5 DEF hi
    <3>2. \A p \in lo .. hi - 1 : (\A j \in p + 1 .. hi : j \in T) => p \in T
      BY <2>6 DEF lo, hi
    <3>3. QED BY <2>7, <3>1, <3>2, DownTo
  <2>9. start + 1 \in T
    BY <2>7, <2>8
  <2>10. QED BY <2>2, <2>9 DEF T
<1>3. QED BY <1>1, <1>2

\* An occurrence that begins in a share is found, or overlaps one that is found
\* before it.
LEMMA FindsReach ==
  ASSUME NEW arena \in Seq(Byte), NEW anchor \in Seq(Byte), anchor # <<>>,
         NEW start \in Nat, NEW chunk \in Nat,
         NEW p \in start + 1 .. start + chunk, OccursAt(arena, anchor, p)
  PROVE  \E x \in Finds(arena, anchor, start, chunk) : x <= p /\ p < x + Len(anchor)
<1> DEFINE n == Len(anchor)   m == Len(arena)
           end == ShareEnd(arena, anchor, start, chunk)
           Occ(r) == OccursAt(arena, anchor, r)
           All(r, X) == \A s \in r .. start + chunk : Occ(s) => \E x \in X : x <= s /\ s < x + n
<1>1. n \in Nat /\ n >= 1 /\ m \in Nat /\ DOMAIN arena = 1 .. m
  <2>1. n # 0
    BY EmptySeq
  <2>2. QED BY <2>1, LenProperties
<1>2. \A s : Occ(s) => s + n - 1 <= m
  BY DEF OccursAt
<1>3. start < m
  <2>1. p + n - 1 <= m
    BY <1>2
  <2>2. QED BY <2>1, <1>1
<1>4. PICK f : /\ FindRun(arena, anchor, start, chunk, end, f)
               /\ Finds(arena, anchor, start, chunk) = f[start + 1]
  BY <1>3, FindsRun
<1>5. end \in Nat /\ start <= end /\ end <= m /\ (end = m \/ end = start + chunk + n - 1)
  BY <1>3, FindsRun
<1>6. \A r \in start + 1 .. end + n :
        f[r] = IF r + n - 1 > end \/ r > start + chunk THEN {}
               ELSE IF Occ(r) THEN {r} \cup f[r + n] ELSE f[r + 1]
  BY <1>4 DEF FindRun
<1> DEFINE T == {r \in start + 1 .. end + n : All(r, f[r])}
<1> HIDE DEF n, end, m, Occ
<1>8. ASSUME NEW r \in start + 1 .. end + n, r + n - 1 > end, NEW s \in r .. start + chunk, Occ(s) PROVE FALSE
  <2>1. s + n - 1 <= m
    BY <1>2, <1>8
  <2>2. QED BY <2>1, <1>1, <1>5, <1>8
<1>9. end + n \in T
  <2>1. end + n \in start + 1 .. end + n /\ (end + n) + n - 1 > end
    BY <1>1, <1>5
  <2>2. \A s \in end + n .. start + chunk : ~Occ(s)
    BY <2>1, <1>8
  <2>3. QED BY <2>1, <2>2
<1>10. ASSUME NEW r \in start + 1 .. (end + n) - 1, \A j \in r + 1 .. end + n : j \in T PROVE r \in T
  <2>1. r \in start + 1 .. end + n /\ r \in Nat
    BY <1>1, <1>5
  <2>2. CASE r + n - 1 > end \/ r > start + chunk
    <3>1. \A s \in r .. start + chunk : ~Occ(s)
      <4>1. CASE r + n - 1 > end
        BY <2>1, <4>1, <1>8
      <4>2. CASE r > start + chunk
        BY <2>1, <4>2
      <4>3. QED BY <2>2, <4>1, <4>2
    <3>2. QED BY <2>1, <3>1
  <2>3. CASE ~(r + n - 1 > end \/ r > start + chunk) /\ Occ(r)
    <3>1. r + n \in r + 1 .. end + n /\ r \in 1 .. m
      BY <1>1, <1>5, <2>3
    <3>2. All(r + n, f[r + n])
      BY <1>10, <3>1
    <3>3. f[r] = {r} \cup f[r + n]
      BY <1>6, <2>1, <2>3
    <3>4. ASSUME NEW s \in r .. start + chunk, Occ(s)
          PROVE  \E x \in f[r] : x <= s /\ s < x + n
      <4>1. CASE s < r + n
        <5>1. r \in f[r] /\ r <= s
          BY <2>1, <3>3
        <5>2. QED BY <4>1, <5>1
      <4>2. CASE ~(s < r + n)
        <5>1. s \in r + n .. start + chunk
          BY <4>2, <1>1, <2>1
        <5>2. QED BY <5>1, <3>2, <3>3, <3>4
      <4>3. QED BY <4>1, <4>2
    <3>5. QED BY <2>1, <3>4
  <2>4. CASE ~(r + n - 1 > end \/ r > start + chunk) /\ ~Occ(r)
    <3>1. r + 1 \in r + 1 .. end + n
      BY <1>1, <1>5, <2>4
    <3>2. All(r + 1, f[r + 1])
      BY <1>10, <3>1
    <3>3. f[r] = f[r + 1]
      BY <1>6, <2>1, <2>4
    <3>4. ASSUME NEW s \in r .. start + chunk, Occ(s)
          PROVE  \E x \in f[r] : x <= s /\ s < x + n
      <4>1. s # r
        BY <2>4, <3>4
      <4>2. s \in r + 1 .. start + chunk
        BY <4>1, <2>1
      <4>3. QED BY <4>2, <3>2, <3>3, <3>4
    <3>5. QED BY <2>1, <3>4
  <2>5. QED BY <2>2, <2>3, <2>4
<1> DEFINE lo == start + 1   hi == end + n
<1>11. lo \in Int /\ hi \in Int /\ lo <= hi
  BY <1>1, <1>5
<1> HIDE DEF T
<1>12. \A r \in lo .. hi : r \in T
  <2> HIDE DEF lo, hi
  <2>1. hi \in T
    BY <1>9 DEF hi
  <2>2. \A r \in lo .. hi - 1 : (\A j \in r + 1 .. hi : j \in T) => r \in T
    BY <1>10 DEF lo, hi
  <2>3. QED BY <1>11, <2>1, <2>2, DownTo
<1>13. start + 1 \in T
  BY <1>11, <1>12
<1>14. All(start + 1, f[start + 1])
  BY <1>13 DEF T
<1>15. QED BY <1>4, <1>14 DEF Occ, n

\* The arena holds the names of the base in lower case, each at its offset.
LEMMA ArenaIs ==
  ASSUME NEW l, InRange(l), NEW off, Offsets(l, off)
  PROVE  /\ Arena(l) \in Seq(Byte) /\ Len(Arena(l)) = off[l.baseFiles + 1]
         /\ \A f \in BaseFiles(l) :
              /\ l.files[f].name \in Seq(Byte)
              /\ \A j \in 1 .. Len(l.files[f].name) : Arena(l)[off[f] + j] = Lower(l.files[f].name[j])
<1> DEFINE B == l.baseFiles
           parts == [f \in BaseFiles(l) |-> l.files[f].name]
           all == FlattenSeq(parts)
<1>1. B \in Nat /\ BaseFiles(l) \subseteq DOMAIN l.files /\ BaseFiles(l) = 1 .. B
  BY SnapshotParts DEF BaseFiles
<1>2. \A f \in 1 .. B : l.files[f].name \in Seq(Byte)
  <2> SUFFICES ASSUME NEW f \in 1 .. B PROVE l.files[f].name \in Seq(Byte)
    OBVIOUS
  <2>1. f \in DOMAIN l.files
    BY <1>1
  <2>2. QED BY <2>1, NamesAreTexts, SeqMonotonic DEF Char
<1>3. parts \in Seq(Seq(Byte)) /\ Len(parts) = B /\ \A f \in 1 .. B : parts[f] = l.files[f].name
  <2> DEFINE Q == Seq(Byte)
  <2>1. parts \in [1 .. B -> Q]
    BY <1>1, <1>2
  <2>2. \A f \in 1 .. B : parts[f] = l.files[f].name
    BY <1>1
  <2> HIDE DEF Q, parts, B
  <2>3. parts \in Seq(Q) /\ Len(parts) = B
    BY <1>1, <2>1, FunctionIsSeq
  <2>4. QED BY <2>2, <2>3 DEF Q
<1> HIDE DEF parts, B
<1>4. PICK g \in [0 .. B -> Seq(Byte)] : Joins(g, parts) /\ all = g[B]
  <2>1. \E g \in [0 .. Len(parts) -> Seq(Byte)] : Joins(g, parts) /\ FlattenSeq(parts) = g[Len(parts)]
    BY <1>3, FlattenJoins
  <2>2. QED BY <1>3, <2>1
<1>5. g[0] = <<>> /\ \A i \in 1 .. B : g[i] = g[i - 1] \o parts[i]
  BY <1>3, <1>4 DEF Joins
<1>6. /\ \A f \in 1 .. B + 1 : off[f] \in Nat
      /\ off[1] = 0
      /\ \A f \in 1 .. B : off[f + 1] = off[f] + Len(l.files[f].name)
  BY DEF Offsets, B
<1>7. \A f, h \in 1 .. B + 1 : f <= h => off[f] <= off[h]
  BY OffsetsGrow DEF B
<1> DEFINE Held(s, f) == \A j \in 1 .. Len(l.files[f].name) : s[off[f] + j] = l.files[f].name[j]
           T == {i \in 0 .. B : Len(g[i]) = off[i + 1] /\ \A f \in 1 .. i : Held(g[i], f)}
<1>8. 0 \in T
  <2>1. Len(g[0]) = 0 /\ off[0 + 1] = 0 /\ 0 \in 0 .. B
    BY <1>1, <1>5, <1>6
  <2>2. \A f \in 1 .. 0 : FALSE
    OBVIOUS
  <2> HIDE DEF Held
  <2>3. QED BY <2>1, <2>2
<1>9. ASSUME NEW i \in 0 .. B - 1, i \in T PROVE i + 1 \in T
  <2>1. /\ i + 1 \in 1 .. B /\ i + 1 \in 0 .. B /\ (i + 1) - 1 = i /\ i \in 0 .. B
        /\ i + 1 \in 1 .. B + 1 /\ (i + 1) + 1 \in 1 .. B + 1
    BY <1>1
  <2> DEFINE a == g[i]   b == l.files[i + 1].name   c == g[i + 1]
  <2>2. a \in Seq(Byte) /\ b \in Seq(Byte) /\ c = a \o b
    <3>1. g[i + 1] = g[(i + 1) - 1] \o parts[i + 1]
      BY <1>5, <2>1
    <3>2. QED BY <1>2, <1>3, <2>1, <3>1
  <2>3. Len(a) = off[i + 1] /\ \A f \in 1 .. i : Held(a, f)
    BY <1>9
  <2>4. off[(i + 1) + 1] = off[i + 1] + Len(b) /\ off[i + 1] \in Nat
    BY <1>6, <2>1
  <2> HIDE DEF a, b, c
  <2>5. /\ Len(c) = Len(a) + Len(b)
        /\ \A x \in 1 .. Len(a) : c[x] = a[x]
        /\ \A x \in 1 .. Len(b) : c[Len(a) + x] = b[x]
        /\ Len(a) \in Nat /\ Len(b) \in Nat
    <3>1. /\ a \o b \in Seq(Byte)
          /\ DOMAIN (a \o b) = 1 .. Len(a) + Len(b)
          /\ DOMAIN a = 1 .. Len(a) /\ DOMAIN b = 1 .. Len(b) /\ Len(a) \in Nat /\ Len(b) \in Nat
          /\ \A x \in DOMAIN a : (a \o b)[x] = a[x]
          /\ \A x \in DOMAIN b : (a \o b)[Len(a) + x] = b[x]
      BY <2>2, Joined
    <3>2. Len(a \o b) = Len(a) + Len(b)
      BY <2>2, ConcatProperties
    <3>3. QED BY <2>2, <3>1, <3>2
  <2>6. Len(c) = off[(i + 1) + 1]
    BY <2>3, <2>4, <2>5
  <2>7. Held(c, i + 1)
    BY <2>3, <2>5 DEF b
  <2>8. ASSUME NEW f \in 1 .. i PROVE Held(c, f)
    <3>1. f \in 1 .. B /\ f + 1 \in 1 .. B + 1 /\ f + 1 <= i + 1 /\ f \in 1 .. B + 1
      BY <1>1, <2>1
    <3>2. off[f + 1] <= off[i + 1] /\ off[f + 1] = off[f] + Len(l.files[f].name) /\ off[f] \in Nat
      BY <1>6, <1>7, <2>1, <3>1
    <3>3. Len(l.files[f].name) \in Nat
      BY <1>2, <3>1, LenProperties
    <3>4. ASSUME NEW j \in 1 .. Len(l.files[f].name) PROVE c[off[f] + j] = l.files[f].name[j]
      <4>1. off[f] + j \in 1 .. Len(a)
        <5> DEFINE k == Len(l.files[f].name)   o == off[f]   e == off[i + 1]
        <5>1. k \in Nat /\ o \in Nat /\ e \in Nat /\ o + k <= e /\ j \in 1 .. k
          <6>1. off[f + 1] \in Nat
            BY <1>6, <3>1
          <6>2. QED BY <2>4, <3>2, <3>3, <6>1
        <5> HIDE DEF k, o, e
        <5>2. o + j \in 1 .. e
          BY <5>1
        <5>3. Len(a) = e
          BY <2>3 DEF e
        <5>4. QED BY <5>2, <5>3 DEF o
      <4>2. c[off[f] + j] = a[off[f] + j]
        BY <2>5, <4>1
      <4>3. a[off[f] + j] = l.files[f].name[j]
        BY <2>3
      <4>4. QED BY <4>2, <4>3
    <3>5. QED BY <3>4
  <2> HIDE DEF Held
  <2>9. \A f \in 1 .. i + 1 : f \in 1 .. i \/ f = i + 1
    BY <2>1
  <2>10. QED BY <2>1, <2>6, <2>7, <2>8, <2>9 DEF c
<1> HIDE DEF T
<1>10. \A i \in 0 .. B : i \in T
  BY <1>1, <1>8, <1>9, UpTo
<1>11. B \in T
  BY <1>1, <1>10
<1> HIDE DEF all
<1>12. all \in Seq(Byte) /\ Len(all) = off[B + 1] /\ \A f \in 1 .. B : Held(all, f)
  <2>1. g[B] \in Seq(Byte)
    BY <1>1
  <2>2. Len(g[B]) = off[B + 1] /\ \A f \in 1 .. B : Held(g[B], f)
    BY <1>11 DEF T
  <2> HIDE DEF Held
  <2>3. QED BY <1>4, <2>1, <2>2
<1>13. /\ LowerAll(all) \in Seq(Byte) /\ Len(LowerAll(all)) = Len(all) /\ DOMAIN all = 1 .. Len(all)
       /\ \A x \in DOMAIN all : LowerAll(all)[x] = Lower(all[x])
  BY <1>12, LowerAllIs
<1>14. Arena(l) = LowerAll(all)
  BY DEF Arena, all, parts
<1>15. ASSUME NEW f \in 1 .. B, NEW j \in 1 .. Len(l.files[f].name)
       PROVE  LowerAll(all)[off[f] + j] = Lower(l.files[f].name[j])
  <2>1. f \in 1 .. B + 1 /\ f + 1 \in 1 .. B + 1 /\ B + 1 \in 1 .. B + 1 /\ f + 1 <= B + 1
    BY <1>1
  <2>2. off[f + 1] <= off[B + 1] /\ off[f + 1] = off[f] + Len(l.files[f].name) /\ off[f] \in Nat /\ off[B + 1] \in Nat
    BY <1>6, <1>7, <2>1
  <2>3. Len(l.files[f].name) \in Nat
    BY <1>2, LenProperties
  <2>4. off[f] + j \in 1 .. off[B + 1]
    BY <2>2, <2>3
  <2>5. off[f] + j \in DOMAIN all
    BY <2>4, <1>12, <1>13
  <2>6. all[off[f] + j] = l.files[f].name[j]
    BY <1>12
  <2>7. QED BY <2>5, <2>6, <1>13
<1>16. QED BY <1>1, <1>2, <1>12, <1>13, <1>14, <1>15 DEF B

\* An occurrence is met letter by letter.
LEMMA OccursHere ==
  ASSUME NEW arena \in Seq(Byte), NEW w \in Seq(Byte), NEW i \in Nat
  PROVE  OccursAt(arena, w, i + 1) <=> i + Len(w) <= Len(arena) /\ \A j \in 1 .. Len(w) : arena[i + j] = w[j]
<1> DEFINE n == Len(w)   s == SubSeq(arena, i + 1, i + n)
<1>1. n \in Nat /\ Len(arena) \in Nat /\ (i + 1) + n - 1 = i + n
  BY LenProperties
<1>2. OccursAt(arena, w, i + 1) <=> i + n <= Len(arena) /\ s = w
  <2>1. OccursAt(arena, w, i + 1) <=> (i + 1) + Len(w) - 1 <= Len(arena) /\ SubSeq(arena, i + 1, (i + 1) + Len(w) - 1) = w
    BY DEF OccursAt
  <2>2. QED BY <2>1, <1>1
<1>3. ASSUME i + n <= Len(arena) PROVE s = w <=> \A j \in 1 .. n : arena[i + j] = w[j]
  <2>1. \A x \in i + 1 .. i + n : arena[x] \in Byte
    <3>1. \A x \in 1 .. Len(arena) : arena[x] \in Byte
      BY LenProperties, ElementOfSeq
    <3>2. QED BY <1>1, <1>3, <3>1
  <2>2. s \in Seq(Byte) /\ Len(s) = (i + n) - i /\ \A j \in 1 .. (i + n) - i : s[j] = arena[i + j]
    <3> DEFINE m == i + n
    <3>1. m \in Nat /\ i <= m /\ \A x \in i + 1 .. m : arena[x] \in Byte
      BY <1>1, <2>1
    <3>2. s = SubSeq(arena, i + 1, m)
      OBVIOUS
    <3> HIDE DEF m, s, n
    <3>3. /\ SubSeq(arena, i + 1, m) \in Seq(Byte) /\ Len(SubSeq(arena, i + 1, m)) = m - i
          /\ \A j \in 1 .. m - i : SubSeq(arena, i + 1, m)[j] = arena[i + j]
      BY <3>1, Ending
    <3>4. QED BY <3>2, <3>3 DEF m
  <2> HIDE DEF s, n
  <2>3. (i + n) - i = n
    BY <1>1
  <2>4. Len(s) = Len(w) /\ Len(w) = n /\ \A j \in 1 .. n : s[j] = arena[i + j]
    BY <2>2, <2>3 DEF n
  <2>5. s = w <=> \A j \in 1 .. n : s[j] = w[j]
    BY <2>2, <2>4, SeqEqual
  <2>6. QED BY <2>4, <2>5
<1> HIDE DEF s
<1>4. QED BY <1>2, <1>3 DEF n

-----------------------------------------------------------------------------
(* The anchor of a query.                                                  *)

LEMMA TermAnchorIs ==
  ASSUME NEW word \in Seq(Byte)
  PROVE  Term(word).anchor \in Seq(Byte) /\ Term(word).pat \in Seq(Byte) /\ Term(word).pat = LowerAll(word)
<1> DEFINE w == LowerAll(word)
<1>1. w \in Seq(Byte)
  BY LowerAllIs
<1>2. Term(word).pat = w
  BY DEF Term
<1>3. TrailingLiteral(w) \in Seq(Byte)
  <2> HIDE DEF w
  <2>1. PICK f \in [1 .. Len(w) + 1 -> Tails] :
          TrailingLiteral(w) = IF Contains(f[1].text, Slash) THEN <<>> ELSE f[1].text
    BY <1>1, TailRuns
  <2>2. 1 \in 1 .. Len(w) + 1
    BY <1>1, LenProperties
  <2>3. f[1].text \in Seq(Byte)
    BY <2>2 DEF Tails
  <2>4. <<>> \in Seq(Byte)
    OBVIOUS
  <2>5. QED BY <2>1, <2>3, <2>4
<1>4. Term(word).anchor = TrailingLiteral(w) \/ Term(word).anchor = <<>>
  BY DEF Term
<1>5. <<>> \in Seq(Byte)
  OBVIOUS
<1>6. QED BY <1>1, <1>2, <1>3, <1>4, <1>5

\* What a word gives for the anchor.
Literal(word, opts) ==
  LET t == Term(word) IN IF ToPath(t, opts) \/ t.glob THEN t.anchor ELSE t.pat

LEMMA AnchorIs ==
  ASSUME NEW words \in Seq(Seq(Byte)), NEW opts
  PROVE  LET a == Anchor(ParseOpts(words, opts))
         IN  a \in Seq(Byte) /\ (a = <<>> \/ \E i \in DOMAIN words : a = Literal(words[i], opts))
<1> DEFINE q == ParseOpts(words, opts)
           InPath(i) == ToPath(Term(words[i]), opts)
           NameAnchor(t) == IF t.glob THEN t.anchor ELSE t.pat
           a == [i \in DOMAIN q.terms |-> NameAnchor(q.terms[i])]
           b == [i \in DOMAIN q.paths |-> q.paths[i].anchor]
           all == a \o b
           longest == {i \in DOMAIN all : \A j \in DOMAIN all : Len(all[j]) <= Len(all[i])}
           L == {Literal(words[i], opts) : i \in DOMAIN words}
<1>1. /\ \A x : (\E k \in DOMAIN q.terms : q.terms[k] = x) <=> \E i \in DOMAIN words : ~InPath(i) /\ Term(words[i]) = x
      /\ \A x : (\E k \in DOMAIN q.paths : q.paths[k] = x) <=> \E i \in DOMAIN words : InPath(i) /\ Term(words[i]) = x
      /\ \E m \in Nat : DOMAIN q.terms = 1 .. m
      /\ \E m \in Nat : DOMAIN q.paths = 1 .. m
  <2>1. /\ \A x : (\E k \in DOMAIN q.terms : q.terms[k] = x)
                    <=> \E i \in DOMAIN words : ~ToPath(Term(words[i]), opts) /\ Term(words[i]) = x
        /\ \A x : (\E k \in DOMAIN q.paths : q.paths[k] = x)
                    <=> \E i \in DOMAIN words : ToPath(Term(words[i]), opts) /\ Term(words[i]) = x
        /\ IsEmpty(q) <=> words = <<>>
        /\ q.type = opts.type
        /\ \E m \in Nat : DOMAIN q.terms = 1 .. m
        /\ \E m \in Nat : DOMAIN q.paths = 1 .. m
    BY QueryIs
  <2> HIDE DEF q
  <2>2. QED BY <2>1
<1>2. Anchor(q) = IF longest = {} THEN <<>> ELSE all[Max(longest)]
  BY DEF Anchor
<1> HIDE DEF q
<1>3. PICK m \in Nat : DOMAIN q.terms = 1 .. m
  BY <1>1
<1>4. PICK n \in Nat : DOMAIN q.paths = 1 .. n
  BY <1>1
<1>5. \A i \in DOMAIN words : /\ InPath(i) => Literal(words[i], opts) = Term(words[i]).anchor
                              /\ ~InPath(i) => Literal(words[i], opts) = NameAnchor(Term(words[i]))
  BY DEF Literal
<1> HIDE DEF InPath, NameAnchor
<1>6. \A k \in DOMAIN q.terms : NameAnchor(q.terms[k]) \in L
  <2> SUFFICES ASSUME NEW k \in DOMAIN q.terms PROVE NameAnchor(q.terms[k]) \in L
    OBVIOUS
  <2>1. PICK i \in DOMAIN words : ~InPath(i) /\ Term(words[i]) = q.terms[k]
    BY <1>1
  <2>2. NameAnchor(q.terms[k]) = Literal(words[i], opts)
    BY <2>1, <1>5
  <2>3. QED BY <2>2
<1>7. \A k \in DOMAIN q.paths : q.paths[k].anchor \in L
  <2> SUFFICES ASSUME NEW k \in DOMAIN q.paths PROVE q.paths[k].anchor \in L
    OBVIOUS
  <2>1. PICK i \in DOMAIN words : InPath(i) /\ Term(words[i]) = q.paths[k]
    BY <1>1
  <2>2. q.paths[k].anchor = Literal(words[i], opts)
    BY <2>1, <1>5
  <2>3. QED BY <2>2
<1>8. a \in Seq(L) /\ b \in Seq(L)
  <2>1. a \in [1 .. m -> L]
    BY <1>3, <1>6
  <2>2. b \in [1 .. n -> L]
    BY <1>4, <1>7
  <2> HIDE DEF a, b, L
  <2>3. QED BY <2>1, <2>2, FunctionIsSeq
<1>9. \A i \in DOMAIN words : Literal(words[i], opts) \in Seq(Byte)
  <2> SUFFICES ASSUME NEW i \in DOMAIN words PROVE Literal(words[i], opts) \in Seq(Byte)
    OBVIOUS
  <2>1. words[i] \in Seq(Byte)
    BY LenProperties, ElementOfSeq
  <2>2. QED BY <2>1, TermAnchorIs DEF Literal
<1> HIDE DEF a, b
<1>10. all \in Seq(L)
  <2> HIDE DEF L
  <2>1. QED BY <1>8, ConcatProperties
<1>11. CASE longest = {}
  <2>1. Anchor(q) = <<>> /\ <<>> \in Seq(Byte)
    BY <1>2, <1>11
  <2>2. QED BY <2>1 DEF q
<1>12. CASE longest # {}
  <2> DEFINE N == Len(all)
  <2>1. N \in Nat /\ DOMAIN all = 1 .. N
    BY <1>10, LenProperties
  <2>2. longest \subseteq 0 .. N
    BY <2>1
  <2>3. longest \subseteq DOMAIN all
    OBVIOUS
  <2> HIDE DEF longest, all, N
  <2>4. Max(longest) \in longest
    BY <1>12, <2>1, <2>2, MaxOf
  <2>5. Max(longest) \in 1 .. N
    BY <2>1, <2>3, <2>4
  <2>6. all[Max(longest)] \in L
    <3> HIDE DEF L
    <3>1. QED BY <2>5, <1>10, ElementOfSeq DEF N
  <2>7. Anchor(q) \in L
    BY <1>2, <1>12, <2>6
  <2>8. PICK i \in DOMAIN words : Anchor(q) = Literal(words[i], opts)
    BY <2>7
  <2>9. QED BY <2>8, <1>9 DEF q
<1>13. QED BY <1>11, <1>12

\* The name of a file that hits holds the anchor.
LEMMA AnchorInName ==
  ASSUME NEW l, InRange(l), NEW words \in Seq(Seq(Byte)), NEW opts, NEW f \in DOMAIN l.files,
         FileHit(l, ParseOpts(words, opts), f)
  PROVE  ContainsCi(l.files[f].name, Anchor(ParseOpts(words, opts)))
<1> DEFINE q == ParseOpts(words, opts)   name == l.files[f].name   w == Anchor(q)
           InPath(i) == ToPath(Term(words[i]), opts)
<1>1. name \in Seq(Byte)
  BY NamesAreTexts, SeqMonotonic DEF Char
<1>2. \A i \in DOMAIN words : words[i] \in Seq(Byte)
  BY LenProperties, ElementOfSeq
<1>3. Matches(q, name) /\ NamePrefilter(q, name)
  BY DEF FileHit
<1>4. w \in Seq(Byte) /\ (w = <<>> \/ \E i \in DOMAIN words : w = Literal(words[i], opts))
  BY AnchorIs
<1> HIDE DEF name
<1>5. /\ Matches(q, name) <=> \A i \in DOMAIN words : ~InPath(i) => Meets(words[i], name)
      /\ PathOkDir(q, name) <=> \A i \in DOMAIN words : InPath(i) => Meets(words[i], name)
      /\ NamePrefilter(q, name)
           <=> \A i \in DOMAIN words : InPath(i) => ContainsCi(name, Term(words[i]).anchor)
  BY <1>1, TermsMeet
<1> HIDE DEF q, w, InPath
<1>6. ASSUME NEW i \in DOMAIN words PROVE ContainsCi(name, Literal(words[i], opts))
  <2>1. CASE InPath(i)
    <3>1. Literal(words[i], opts) = Term(words[i]).anchor
      BY <2>1 DEF Literal, InPath
    <3>2. QED BY <2>1, <3>1, <1>3, <1>5
  <2>2. CASE ~InPath(i) /\ Term(words[i]).glob
    <3>1. Literal(words[i], opts) = Term(words[i]).anchor
      BY <2>2 DEF Literal
    <3>2. Meets(words[i], name)
      BY <2>2, <1>3, <1>5
    <3>3. <<>> \o name = name /\ <<>> \in Seq(Byte)
      BY <1>1, ConcatEmptySeq
    <3>4. Meets(words[i], <<>> \o name)
      BY <3>2, <3>3
    <3>5. ContainsCi(name, Term(words[i]).anchor)
      <4> DEFINE front == <<>>
      <4>1. front \in Seq(Byte) /\ front = <<>> /\ Meets(words[i], front \o name) /\ words[i] \in Seq(Byte)
        BY <1>2, <3>3, <3>4
      <4> HIDE DEF front
      <4>2. QED BY <1>1, <4>1, PrefilterSound
    <3>6. QED BY <3>1, <3>5
  <2>3. CASE ~InPath(i) /\ ~Term(words[i]).glob
    <3>1. Literal(words[i], opts) = LowerAll(words[i]) /\ LowerAll(words[i]) \in Seq(Byte)
      BY <2>3, <1>2, TermAnchorIs DEF Literal, InPath
    <3>2. Meets(words[i], name)
      BY <2>3, <1>3, <1>5
    <3>3. ~HasGlobChars(LowerAll(words[i]))
      BY <2>3 DEF Term
    <3>4. \E k \in Nat : OccursIn(LowerAll(name), LowerAll(words[i]), k)
      BY <3>2, <3>3 DEF Meets
    <3>5. QED BY <3>1, <3>4, <1>1, ContainsIs
  <2>4. QED BY <2>1, <2>2, <2>3
<1>7. CASE w = <<>>
  <2>1. \E i \in 0 .. Len(name) - Len(w) : \A j \in DOMAIN w : Lower(name[i + j]) = w[j]
    <3>1. Len(w) = 0 /\ DOMAIN w = {} /\ Len(name) \in Nat
      BY <1>1, <1>7, LenProperties
    <3>2. 0 \in 0 .. Len(name) - Len(w)
      BY <3>1
    <3>3. QED BY <3>1, <3>2
  <2>2. QED BY <2>1 DEF ContainsCi, name, w, q
<1>8. CASE w # <<>>
  <2>1. ContainsCi(name, w)
    BY <1>4, <1>6, <1>8
  <2>2. QED BY <2>1 DEF name, w, q
<1>9. QED BY <1>7, <1>8

-----------------------------------------------------------------------------
(* The files that the threads compare.                                     *)

\* Which share a place is in.
LEMMA ShareAt ==
  ASSUME NEW c \in Nat, NEW t \in Nat \ {0}, NEW p \in (t - 1) * c + 1 .. (t - 1) * c + c
  PROVE  (p - 1) \div c = t - 1
<1> DEFINE lo == (t - 1) * c   q == (p - 1) \div c   r == (p - 1) % c   k == q * c
<1>1. lo \in Nat /\ t * c = lo + c /\ \A u \in Nat : u > t => t * c <= (u - 1) * c
  BY ShareBounds
<1>2. p \in lo + 1 .. lo + c
  OBVIOUS
<1> HIDE DEF lo
<1>3. c > 0 /\ p - 1 \in Nat
  BY <1>1, <1>2
<1>4. q \in Nat /\ r \in 0 .. c - 1 /\ p - 1 = c * q + r
  <2> DEFINE m == p - 1
  <2>1. m \in Nat
    BY <1>3
  <2> HIDE DEF m
  <2>2. m \div c \in Nat /\ m % c \in 0 .. c - 1 /\ m = c * (m \div c) + (m % c)
    BY <1>3, <2>1
  <2>3. QED BY <2>2 DEF m
<1> HIDE DEF q, r
<1>5. p - 1 = k + r /\ k \in Nat
  BY <1>4
<1>6. ASSUME q < t - 1 PROVE FALSE
  <2>1. q + 1 \in Nat \ {0} /\ t \in Nat /\ t > q + 1 /\ (q + 1) - 1 = q
    BY <1>4, <1>6
  <2>2. (q + 1) * c = ((q + 1) - 1) * c + c /\ (q + 1) * c <= (t - 1) * c
    <3> DEFINE s == q + 1
    <3>1. s \in Nat \ {0} /\ t \in Nat /\ t > s
      BY <2>1
    <3> HIDE DEF s
    <3>2. s * c = (s - 1) * c + c /\ \A u \in Nat : u > s => s * c <= (u - 1) * c
      BY <3>1, ShareBounds
    <3>3. QED BY <3>1, <3>2 DEF s
  <2>3. k + c <= lo
    BY <2>1, <2>2 DEF lo
  <2> HIDE DEF k
  <2>4. QED BY <2>3, <1>1, <1>2, <1>3, <1>4, <1>5
<1>7. ASSUME q > t - 1 PROVE FALSE
  <2>1. q + 1 \in Nat /\ q + 1 > t /\ (q + 1) - 1 = q
    BY <1>4, <1>7
  <2>2. t * c <= ((q + 1) - 1) * c
    BY <2>1, <1>1
  <2>3. lo + c <= k
    BY <2>1, <2>2, <1>1
  <2> HIDE DEF k
  <2>4. QED BY <2>3, <1>1, <1>2, <1>3, <1>4, <1>5
<1>8. q = t - 1
  BY <1>4, <1>6, <1>7
<1>9. QED BY <1>8 DEF q

\* A thread compares a file for an occurrence that begins in its share and
\* lies in the file's name.
LEMMA AnchoredIs ==
  ASSUME NEW l, InRange(l), NEW w \in Seq(Byte), w # <<>>, NEW t \in 1 .. NThreads, NEW f \in Anchored(l, w, t)
  PROVE  LET off == NameOff(l)
             c == CeilDiv(Len(Arena(l)), NThreads)
         IN  /\ f \in BaseFiles(l)
             /\ \E p \in (t - 1) * c + 1 .. (t - 1) * c + c :
                  off[f] < p /\ p + Len(w) - 1 <= off[f + 1] /\ OccursAt(Arena(l), w, p)
<1> DEFINE off == NameOff(l)   A == Arena(l)   c == CeilDiv(Len(A), NThreads)   start == (t - 1) * c
<1>1. Offsets(l, off)
  BY NameOffIs
<1>2. A \in Seq(Byte)
  BY <1>1, ArenaIs
<1>3. c \in Nat /\ t \in Nat \ {0}
  <2> DEFINE n == Len(A)
  <2>1. n \in Nat
    BY <1>2, LenProperties
  <2> HIDE DEF n
  <2>2. CeilDiv(n, NThreads) \in Nat
    BY <2>1, ShareLength
  <2>3. QED BY <2>2 DEF n
<1>4. f \in BaseFiles(l) /\ \E p \in Finds(A, w, start, c) : off[f] < p /\ p + Len(w) - 1 <= off[f + 1]
  BY DEF Anchored
<1> HIDE DEF off, A, c
<1>5. start \in Nat
  BY <1>3, ShareBounds
<1> HIDE DEF start
<1>6. \A p \in Finds(A, w, start, c) : p \in start + 1 .. start + c /\ OccursAt(A, w, p)
  BY <1>2, <1>3, <1>5, FindsIn
<1>7. \E p \in start + 1 .. start + c : off[f] < p /\ p + Len(w) - 1 <= off[f + 1] /\ OccursAt(A, w, p)
  BY <1>4, <1>6
<1>8. QED BY <1>4, <1>7 DEF off, A, c, start

\* Unless a name holds occurrences that begin in two shares, each thread
\* compares files behind those of the ones before it.
LEMMA AnchoredApart ==
  ASSUME NEW l, InRange(l), NEW w \in Seq(Byte), w # <<>>, ~Spread(l, w),
         NEW t \in 1 .. NThreads, NEW u \in 1 .. NThreads, t < u,
         NEW f \in Anchored(l, w, t), NEW g \in Anchored(l, w, u)
  PROVE  f < g
<1> DEFINE off == NameOff(l)   A == Arena(l)   c == CeilDiv(Len(A), NThreads)   n == Len(w)
           B == l.baseFiles
           lo == (t - 1) * c   hi == (u - 1) * c
<1>1. Offsets(l, off) /\ A \in Seq(Byte)
  BY NameOffIs, ArenaIs
<1>2. c \in Nat /\ t \in Nat \ {0} /\ u \in Nat \ {0}
  <2> DEFINE m == Len(A)
  <2>1. m \in Nat
    BY <1>1, LenProperties
  <2> HIDE DEF m
  <2>2. CeilDiv(m, NThreads) \in Nat
    BY <2>1, ShareLength
  <2>3. QED BY <2>2 DEF m
<1>3. PICK p \in lo + 1 .. lo + c : off[f] < p /\ p + n - 1 <= off[f + 1] /\ OccursAt(A, w, p)
  BY AnchoredIs
<1>4. PICK r \in hi + 1 .. hi + c : off[g] < r /\ r + n - 1 <= off[g + 1] /\ OccursAt(A, w, r)
  BY AnchoredIs
<1>5. f \in 1 .. B /\ g \in 1 .. B /\ B \in Nat
  <2>1. f \in BaseFiles(l) /\ g \in BaseFiles(l)
    BY AnchoredIs
  <2>2. B \in Nat
    BY SnapshotParts
  <2>3. QED BY <2>1, <2>2 DEF BaseFiles
<1>6. /\ \A x \in 1 .. B + 1 : off[x] \in Nat
      /\ \A x, y \in 1 .. B + 1 : x <= y => off[x] <= off[y]
  <2>1. \A x, y \in 1 .. l.baseFiles + 1 : x <= y => off[x] <= off[y]
    BY <1>1, OffsetsGrow
  <2>2. QED BY <2>1, <1>1 DEF Offsets
<1>7. n \in Nat
  BY LenProperties
<1>8. ~\E x \in BaseFiles(l) : \E a, b \in {s \in off[x] + 1 .. off[x + 1] + 1 - n : OccursAt(A, w, s)} :
          (a - 1) \div c # (b - 1) \div c
  BY DEF Spread, PlacesIn
<1>9. lo \in Nat /\ hi \in Nat /\ lo + c <= hi
  <2>1. lo \in Nat /\ t * c = lo + c /\ \A v \in Nat : v > t => t * c <= (v - 1) * c
    BY <1>2, ShareBounds
  <2>2. hi \in Nat
    BY <1>2, ShareBounds
  <2>3. t * c <= hi
    BY <1>2, <2>1
  <2> HIDE DEF lo, hi
  <2>4. QED BY <2>1, <2>2, <2>3
<1>10. (p - 1) \div c = t - 1
  BY <1>2, ShareAt
<1>11. (r - 1) \div c = u - 1
  BY <1>2, ShareAt
<1> HIDE DEF off, A, c, n, B, lo, hi
<1>12. p < r /\ p \in Nat /\ r \in Nat
  BY <1>2, <1>9
<1>13. ASSUME f = g PROVE FALSE
  <2>1. off[f] \in Nat /\ off[f + 1] \in Nat
    <3>1. f \in 1 .. B + 1 /\ f + 1 \in 1 .. B + 1
      BY <1>5
    <3>2. QED BY <3>1, <1>6
  <2>2. p \in off[f] + 1 .. off[f + 1] + 1 - n /\ r \in off[f] + 1 .. off[f + 1] + 1 - n
    BY <1>3, <1>4, <1>7, <1>12, <1>13, <2>1
  <2>3. f \in BaseFiles(l)
    BY <1>5 DEF BaseFiles, B
  <2>4. (p - 1) \div c = (r - 1) \div c
    BY <1>3, <1>4, <1>8, <2>2, <2>3
  <2>5. t - 1 = u - 1
    BY <2>4, <1>10, <1>11
  <2>6. QED BY <2>5, <1>2
<1>14. ASSUME g < f PROVE FALSE
  <2>1. g + 1 \in 1 .. B + 1 /\ f \in 1 .. B + 1 /\ g + 1 <= f
    BY <1>5, <1>14
  <2>2. off[g + 1] <= off[f] /\ off[g + 1] \in Nat /\ off[f] \in Nat
    BY <2>1, <1>6
  <2>3. n >= 1
    <3>1. Len(w) # 0
      BY EmptySeq
    <3>2. QED BY <3>1, <1>7 DEF n
  <2>4. r <= off[g + 1]
    BY <1>4, <1>7, <1>12, <2>2, <2>3
  <2>5. QED BY <1>3, <1>12, <2>2, <2>4
<1>15. QED BY <1>5, <1>13, <1>14

LEMMA CandidatesApart ==
  ASSUME NEW l, InRange(l), NEW q, Anchor(q) \in Seq(Byte), ~Spread(l, Anchor(q)),
         NEW t \in 1 .. NThreads, NEW u \in 1 .. NThreads, t < u,
         NEW f \in Candidates(l, q, t), NEW g \in Candidates(l, q, u)
  PROVE  f < g
<1>1. CASE Anchor(q) # <<>>
  <2>1. f \in Anchored(l, Anchor(q), t) /\ g \in Anchored(l, Anchor(q), u)
    BY <1>1 DEF Candidates
  <2>2. QED BY <1>1, <2>1, AnchoredApart
<1>2. CASE Anchor(q) = <<>>
  <2> DEFINE n == l.baseFiles   c == CeilDiv(n, NThreads)   a == (t - 1) + 1   b == (u - 1) + 1
  <2>1. n \in Nat
    BY SnapshotParts
  <2>2. a = t /\ b = u /\ t - 1 \in Nat /\ u - 1 \in Nat /\ t \in Nat \ {0} /\ u \in Nat
    BY SearchAssumption
  <2>3. f \in ShareOf(n, t) /\ g \in ShareOf(n, u)
    BY <1>2 DEF Candidates
  <2>4. f \in 1 .. n /\ g \in 1 .. n
    BY <2>1, <2>3, ShareInRange
  <2>5. /\ c \in Nat
        /\ \A x \in Nat, h \in Nat : h \in ShareOf(n, x + 1) <=> x * c < h /\ h <= n /\ h <= (x + 1) * c
    BY <2>1, SharesCover
  <2> HIDE DEF c
  <2>6. f <= t * c
    <3> DEFINE x == t - 1
    <3>1. x \in Nat /\ x + 1 = t /\ f \in Nat
      BY <2>1, <2>2, <2>4
    <3> HIDE DEF x
    <3>2. f \in ShareOf(n, x + 1) <=> x * c < f /\ f <= n /\ f <= (x + 1) * c
      BY <2>5, <3>1
    <3>3. f \in ShareOf(n, x + 1)
      BY <2>3, <3>1
    <3>4. f <= (x + 1) * c
      BY <3>2, <3>3
    <3>5. QED BY <3>1, <3>4
  <2>7. (u - 1) * c < g
    <3> DEFINE x == u - 1
    <3>1. x \in Nat /\ x + 1 = u /\ g \in Nat
      BY <2>1, <2>2, <2>4
    <3> HIDE DEF x
    <3>2. g \in ShareOf(n, x + 1) <=> x * c < g /\ g <= n /\ g <= (x + 1) * c
      BY <2>5, <3>1
    <3>3. g \in ShareOf(n, x + 1)
      BY <2>3, <3>1
    <3>4. x * c < g
      BY <3>2, <3>3
    <3>5. QED BY <3>4 DEF x
  <2> USE DEF c
  <2>8. t * c \in Nat /\ t * c <= (u - 1) * c
    BY <2>2, <2>5, ShareBounds
  <2>9. (u - 1) * c \in Nat
    <3>1. u \in Nat \ {0}
      BY <2>2
    <3>2. QED BY <3>1, <2>5, ShareBounds
  <2> DEFINE x == t * c   y == (u - 1) * c
  <2>10. f <= x /\ x <= y /\ y < g /\ x \in Nat /\ y \in Nat /\ f \in Nat /\ g \in Nat
    BY <2>1, <2>4, <2>6, <2>7, <2>8, <2>9
  <2> HIDE DEF x, y
  <2>11. QED BY <2>10
<1>3. QED BY <1>1, <1>2

\* All files that the search finds, whoever finds them.
LiveFiles(l, q) == (UNION {BaseHits(l, q, t) : t \in 1 .. NThreads}) \cup DeltaHits(l, q)

\* The parts as lists of the ids of sets.
LEMMA LivePartsAre ==
  ASSUME NEW l, InRange(l), NEW q, WantsFiles(q)
  PROVE  /\ NThreads \in Nat /\ Len(LiveParts(l, q)) = NThreads + 1
         /\ \A t \in 1 .. NThreads : LiveParts(l, q)[t] = SortedIds(BaseHits(l, q, t))
         /\ LiveParts(l, q)[NThreads + 1] = SortedIds(DeltaHits(l, q))
         /\ LiveParts(l, q) \in Seq(Seq(DOMAIN l.files))
         /\ LiveFiles(l, q) \subseteq DOMAIN l.files
<1> DEFINE Q == Seq(DOMAIN l.files)   base == SearchBaseFiles(l, q)   last == SortedIds(DeltaHits(l, q))
<1>1. NThreads \in Nat
  BY SearchAssumption
<1>2. base = [t \in 1 .. NThreads |-> SortedIds(BaseHits(l, q, t))]
  BY DEF SearchBaseFiles, BaseHits
<1>3. LiveParts(l, q) = Append(base, last)
  BY DEF LiveParts
<1>4. /\ \A t \in 1 .. NThreads : SortedIds(BaseHits(l, q, t)) \in Q /\ BaseHits(l, q, t) \subseteq DOMAIN l.files
      /\ last \in Q /\ DeltaHits(l, q) \subseteq DOMAIN l.files
  <2>1. BaseFiles(l) \subseteq DOMAIN l.files
    BY SnapshotParts
  <2>2. ASSUME NEW t \in 1 .. NThreads
        PROVE  SortedIds(BaseHits(l, q, t)) \in Q /\ BaseHits(l, q, t) \subseteq DOMAIN l.files
    <3>1. Ascending(SortedIds(BaseHits(l, q, t)), BaseHits(l, q, t)) /\ BaseHits(l, q, t) \subseteq BaseFiles(l)
      BY SearchParts
    <3>2. SortedIds(BaseHits(l, q, t)) \in Seq(BaseHits(l, q, t)) /\ BaseHits(l, q, t) \subseteq DOMAIN l.files
      BY <2>1, <3>1 DEF Ascending
    <3>3. QED BY <3>2, SeqMonotonic
  <2>3. Ascending(last, DeltaHits(l, q)) /\ DeltaHits(l, q) \subseteq DOMAIN l.files \ BaseFiles(l)
    BY SearchParts
  <2>4. last \in Seq(DeltaHits(l, q)) /\ DeltaHits(l, q) \subseteq DOMAIN l.files
    BY <2>3 DEF Ascending
  <2>5. last \in Q
    BY <2>4, SeqMonotonic
  <2>6. QED BY <2>2, <2>4, <2>5
<1> HIDE DEF Q, base, last
<1>5. base \in [1 .. NThreads -> Q]
  BY <1>2, <1>4
<1>6. base \in Seq(Q) /\ Len(base) = NThreads
  BY <1>1, <1>5, FunctionIsSeq
<1>7. /\ Append(base, last) \in Seq(Q) /\ Len(Append(base, last)) = NThreads + 1
      /\ \A t \in 1 .. NThreads : Append(base, last)[t] = base[t]
      /\ Append(base, last)[NThreads + 1] = last
  BY <1>4, <1>6, AppendProperties
<1>8. \A t \in 1 .. NThreads : base[t] = SortedIds(BaseHits(l, q, t))
  BY <1>2
<1>9. LiveFiles(l, q) \subseteq DOMAIN l.files
  BY <1>4 DEF LiveFiles
<1>10. QED BY <1>1, <1>3, <1>7, <1>8, <1>9 DEF Q, last

\* Unless names are spread, the parts are together the list of all that was
\* found, each once.
LEMMA LiveJoin ==
  ASSUME NEW l, InRange(l), NEW q, WantsFiles(q), Anchor(q) \in Seq(Byte), ~Spread(l, Anchor(q))
  PROVE  Ascending(FlattenSeq(LiveParts(l, q)), LiveFiles(l, q))
<1> DEFINE N == Len(l.files)   k == NThreads + 1   parts == LiveParts(l, q)
           H == [t \in 1 .. k |-> IF t = k THEN DeltaHits(l, q) ELSE BaseHits(l, q, t)]
<1>1. N \in Nat /\ DOMAIN l.files = 1 .. N /\ BaseFiles(l) = 1 .. l.baseFiles /\ l.baseFiles \in Nat /\ l.baseFiles <= N
  BY SnapshotParts DEF BaseFiles
<1>2. /\ NThreads \in Nat /\ Len(parts) = k
      /\ \A t \in 1 .. NThreads : parts[t] = SortedIds(BaseHits(l, q, t))
      /\ parts[k] = SortedIds(DeltaHits(l, q))
      /\ parts \in Seq(Seq(DOMAIN l.files))
  BY LivePartsAre
<1>3. k \in Nat /\ \A t \in 1 .. k : t \in 1 .. NThreads \/ t = k
  BY <1>2
<1>4. H[k] = DeltaHits(l, q) /\ \A t \in 1 .. NThreads : t \in 1 .. k /\ H[t] = BaseHits(l, q, t)
  <2>1. k \in 1 .. k /\ \A t \in 1 .. NThreads : t \in 1 .. k /\ t # k
    BY <1>2
  <2>2. QED BY <2>1
<1>5. /\ \A t \in 1 .. NThreads : BaseHits(l, q, t) \subseteq BaseFiles(l)
      /\ DeltaHits(l, q) \subseteq DOMAIN l.files \ BaseFiles(l)
  BY SearchParts
<1> HIDE DEF H, parts, N
<1>6. \A t \in 1 .. k : H[t] \subseteq 1 .. N
  <2>1. 1 .. l.baseFiles \subseteq 1 .. N
    BY <1>1
  <2> HIDE DEF k
  <2>2. QED BY <2>1, <1>1, <1>3, <1>4, <1>5
<1>7. ASSUME NEW t \in 1 .. k, NEW u \in 1 .. k, t < u, NEW x \in H[t], NEW y \in H[u] PROVE x < y
  <2>1. t \in 1 .. NThreads /\ x \in BaseHits(l, q, t)
    <3>1. t # k
      BY <1>2, <1>7
    <3>2. QED BY <3>1, <1>3, <1>4
  <2>2. CASE u = k
    <3>1. x \in 1 .. l.baseFiles /\ y \in 1 .. N /\ y \notin 1 .. l.baseFiles
      BY <1>1, <1>4, <1>5, <2>1, <2>2
    <3>2. QED BY <1>1, <3>1
  <2>3. CASE u # k
    <3>1. u \in 1 .. NThreads /\ y \in BaseHits(l, q, u)
      BY <1>3, <1>4, <2>3
    <3>2. x \in Candidates(l, q, t) /\ y \in Candidates(l, q, u)
      BY <2>1, <3>1 DEF BaseHits
    <3>3. QED BY <1>7, <2>1, <3>1, <3>2, CandidatesApart
  <2>4. QED BY <2>2, <2>3
<1>8. \A t \in 1 .. k : parts[t] = SortedIds(H[t])
  BY <1>2, <1>3, <1>4
<1>9. parts \in Seq(Seq(1 .. N))
  BY <1>1, <1>2
<1> DEFINE U == UNION {H[t] : t \in 1 .. k}
<1>10. Ascending(FlattenSeq(parts), U)
  <2>1. N \in Nat
    BY <1>1
  <2>2. Len(parts) = k
    BY <1>2
  <2>3. k \in Nat
    BY <1>3
  <2> HIDE DEF k
  <2>4. \A t, u \in 1 .. k : t < u => \A x \in H[t], y \in H[u] : x < y
    BY <1>7
  <2>5. \A x : x \in U <=> \E t \in 1 .. k : x \in H[t]
    OBVIOUS
  <2> HIDE DEF U
  <2>6. QED BY <1>6, <1>8, <1>9, <2>1, <2>2, <2>3, <2>4, <2>5, OrderedJoin
<1>11. U = LiveFiles(l, q)
  <2>1. ASSUME NEW x PROVE x \in U <=> x \in LiveFiles(l, q)
    <3>1. x \in U <=> \E t \in 1 .. k : x \in H[t]
      OBVIOUS
    <3>2. x \in LiveFiles(l, q) <=> (\E t \in 1 .. NThreads : x \in BaseHits(l, q, t)) \/ x \in DeltaHits(l, q)
      BY DEF LiveFiles
    <3>3. k \in 1 .. k
      BY <1>2
    <3> HIDE DEF k, U
    <3>4. QED BY <3>1, <3>2, <3>3, <1>3, <1>4
  <2> HIDE DEF U
  <2>2. QED BY <2>1
<1>12. QED BY <1>10, <1>11 DEF parts

\* Unless find_iter jumps over it, a thread compares each base file that hits.
LEMMA HitsAreCompared ==
  ASSUME NEW l, InRange(l), NEW q, Anchor(q) \in Seq(Byte),
         NEW f \in BaseFiles(l) \ Hidden(l, Anchor(q)), ContainsCi(l.files[f].name, Anchor(q))
  PROVE  \E t \in 1 .. NThreads : f \in Candidates(l, q, t)
<1> DEFINE w == Anchor(q)   B == l.baseFiles
<1>1. NThreads \in Nat /\ NThreads >= 1 /\ B \in Nat /\ f \in 1 .. B
  BY SnapshotParts, SearchAssumption DEF BaseFiles
<1>2. ASSUME NEW n \in Nat, NEW p \in 1 .. n
      PROVE  LET c == CeilDiv(n, NThreads)
             IN  c \in Nat /\ \E t \in 1 .. NThreads : /\ p \in (t - 1) * c + 1 .. (t - 1) * c + c
                                                      /\ p \in ShareOf(n, t)
  <2> DEFINE c == CeilDiv(n, NThreads)
             T == {t \in Nat : p <= t * c}
  <2>1. /\ c \in Nat /\ n <= NThreads * c
        /\ \A t \in Nat : t * c \in Nat /\ (t + 1) * c = t * c + c
        /\ \A t \in Nat, g \in Nat : g \in ShareOf(n, t + 1) <=> t * c < g /\ g <= n /\ g <= (t + 1) * c
    BY SharesCover
  <2> HIDE DEF c
  <2>2. NThreads \in T
    <3> DEFINE x == NThreads * c
    <3>1. n <= x /\ x \in Nat
      BY <1>1, <2>1
    <3> HIDE DEF x
    <3>2. p <= x
      BY <3>1
    <3>3. QED BY <1>1, <3>2 DEF x
  <2>3. PICK s \in T : \A r \in T : s <= r
    <3>1. T \subseteq Nat /\ T # {}
      BY <2>2
    <3> HIDE DEF T
    <3>2. QED BY <3>1, LeastOf
  <2>4. s \in Nat /\ p <= s * c /\ s <= NThreads
    BY <2>2, <2>3
  <2>5. s # 0
    <3>1. 0 * c = 0
      BY <2>1
    <3>2. QED BY <2>4, <3>1
  <2>6. s - 1 \in Nat /\ s \in 1 .. NThreads /\ (s - 1) + 1 = s
    BY <2>4, <2>5, <1>1
  <2>7. (s - 1) * c < p
    <3>1. s - 1 \notin T
      <4>1. ~(s <= s - 1)
        BY <2>4
      <4>2. QED BY <2>3, <4>1
    <3>2. (s - 1) * c \in Nat
      BY <2>1, <2>6
    <3> DEFINE x == (s - 1) * c
    <3>3. ~(p <= x) /\ x \in Nat
      BY <2>6, <3>1, <3>2
    <3> HIDE DEF x
    <3>4. x < p
      BY <3>3
    <3>5. QED BY <3>4 DEF x
  <2>8. s * c = (s - 1) * c + c /\ (s - 1) * c \in Nat
    <3>1. ((s - 1) + 1) * c = (s - 1) * c + c
      BY <2>1, <2>6
    <3>2. QED BY <2>1, <2>6, <3>1
  <2>9. p \in (s - 1) * c + 1 .. (s - 1) * c + c
    <3> DEFINE x == (s - 1) * c
    <3>1. x \in Nat /\ x < p /\ p <= x + c
      BY <2>4, <2>7, <2>8
    <3> HIDE DEF x
    <3>2. p \in x + 1 .. x + c
      BY <2>1, <3>1
    <3>3. QED BY <3>2 DEF x
  <2>10. p \in ShareOf(n, s)
    <3>1. p \in ShareOf(n, (s - 1) + 1) <=> (s - 1) * c < p /\ p <= n /\ p <= ((s - 1) + 1) * c
      BY <2>1, <2>6
    <3>2. QED BY <2>4, <2>6, <2>7, <3>1
  <2>11. QED BY <2>1, <2>6, <2>9, <2>10 DEF c
<1>3. CASE w = <<>>
  <2>1. \E t \in 1 .. NThreads : f \in ShareOf(B, t)
    BY <1>1, <1>2
  <2>2. QED BY <1>3, <2>1 DEF Candidates
<1>4. CASE w # <<>>
  <2> DEFINE off == NameOff(l)   A == Arena(l)   name == l.files[f].name   c == CeilDiv(Len(A), NThreads)
             n == Len(w)
  <2>1. Offsets(l, off)
    BY NameOffIs
  <2>2. /\ A \in Seq(Byte) /\ Len(A) = off[B + 1] /\ name \in Seq(Byte)
        /\ \A j \in 1 .. Len(name) : A[off[f] + j] = Lower(name[j])
    BY <2>1, ArenaIs
  <2>3. PICK i \in 0 .. Len(name) - n : \A j \in DOMAIN w : Lower(name[i + j]) = w[j]
    BY DEF ContainsCi
  <2>4. Len(name) \in Nat /\ n \in Nat /\ DOMAIN w = 1 .. n
    BY <2>2, LenProperties
  <2>5. n >= 1
    <3>1. n # 0
      BY <1>4, EmptySeq
    <3>2. QED BY <2>4, <3>1
  <2>6. /\ off[f] \in Nat /\ off[f + 1] = off[f] + Len(name) /\ off[f + 1] <= off[B + 1] /\ off[B + 1] \in Nat
    <3>1. f \in 1 .. B + 1 /\ f + 1 \in 1 .. B + 1 /\ B + 1 \in 1 .. B + 1 /\ f + 1 <= B + 1
      BY <1>1
    <3>2. \A x, y \in 1 .. B + 1 : x <= y => off[x] <= off[y]
      BY <2>1, OffsetsGrow
    <3>3. QED BY <1>1, <2>1, <3>1, <3>2 DEF Offsets
  <2> HIDE DEF off, A, name, n, c
  <2> DEFINE o == off[f] + i   p == o + 1
  <2>7. o \in Nat /\ off[f] < p /\ p + n - 1 <= off[f + 1] /\ o + n <= Len(A) /\ p \in 1 .. Len(A)
    <3>1. i \in Nat /\ i + n <= Len(name)
      BY ONLY <2>3, <2>4
    <3>2. PICK s, t, top, m, k \in Nat :
            s = off[f] /\ t = off[f + 1] /\ top = off[B + 1] /\ m = Len(name) /\ k = n
      BY ONLY <2>4, <2>6
    <3>3. t = s + m /\ t <= top /\ k >= 1 /\ i + k <= m /\ Len(A) = top
      BY ONLY <2>2, <2>5, <2>6, <3>1, <3>2
    <3>4. o = s + i /\ p = s + i + 1
      BY ONLY <3>2
    <3>5. /\ s + i \in Nat /\ s < s + i + 1 /\ s + i + 1 + k - 1 <= t /\ s + i + k <= top
          /\ s + i + 1 \in 1 .. top
      BY ONLY <3>1, <3>3
    <3> HIDE DEF o, p
    <3>6. QED BY ONLY <3>2, <3>3, <3>4, <3>5
  <2>8. ASSUME NEW j \in 1 .. n PROVE A[o + j] = w[j]
    <3>1. i + j \in 1 .. Len(name) /\ off[f] + (i + j) = o + j
      BY <2>3, <2>4, <2>6
    <3>2. A[off[f] + (i + j)] = Lower(name[i + j])
      BY <2>2, <3>1
    <3>3. QED BY <2>3, <2>4, <3>1, <3>2
  <2> HIDE DEF o
  <2>9. OccursAt(A, w, p)
    BY <2>2, <2>7, <2>8, OccursHere DEF n
  <2> HIDE DEF p
  <2>10. p \in PlacesIn(l, w, f)
    <3>1. p \in off[f] + 1 .. off[f + 1] + 1 - n
      BY <2>4, <2>6, <2>7
    <3>2. QED BY <2>9, <3>1 DEF PlacesIn, off, A, n
  <2>11. PICK v \in PlacesIn(l, w, f) : \A r \in DOMAIN A : OccursAt(A, w, r) => ~(r <= off[f] /\ v < r + n)
    BY <2>10 DEF Hidden, off, A, n, w
  <2>12. v \in off[f] + 1 .. off[f + 1] + 1 - n /\ OccursAt(A, w, v)
    BY <2>11 DEF PlacesIn, off, A, n
  <2>13. Len(A) \in Nat /\ v \in 1 .. Len(A)
    BY <2>2, <2>4, <2>5, <2>6, <2>12, LenProperties
  <2>14. PICK t \in 1 .. NThreads : v \in (t - 1) * c + 1 .. (t - 1) * c + c
    BY <1>2, <2>13 DEF c
  <2>15. \E x \in Finds(A, w, (t - 1) * c, c) : off[f] < x /\ x + n - 1 <= off[f + 1]
    <3> DEFINE y == (t - 1) * c
    <3>1. c \in Nat /\ t \in Nat \ {0}
      BY <1>2, <2>13 DEF c
    <3>2. y \in Nat
      BY <3>1, ShareBounds
    <3>3. v \in y + 1 .. y + c
      BY <2>14
    <3> HIDE DEF y
    <3>4. PICK x \in Finds(A, w, y, c) : x <= v /\ v < x + n
      BY <1>4, <2>2, <2>12, <3>1, <3>2, <3>3, FindsReach DEF n
    <3>5. x \in y + 1 .. y + c /\ OccursAt(A, w, x)
      BY <1>4, <2>2, <3>1, <3>2, <3>4, FindsIn
    <3>6. x \in DOMAIN A
      <4>1. x \in 1 .. Len(A)
        BY <2>12, <2>13, <3>2, <3>4, <3>5
      <4>2. QED BY <2>2, <4>1, LenProperties
    <3>7. ~(x <= off[f])
      BY <2>11, <3>4, <3>5, <3>6
    <3>8. x + n - 1 <= off[f + 1]
      BY <2>4, <2>6, <2>12, <3>2, <3>4, <3>5
    <3>9. off[f] < x
      BY <2>6, <3>2, <3>5, <3>7
    <3>10. QED BY <3>4, <3>8, <3>9 DEF y
  <2>16. f \in Anchored(l, w, t)
    BY <2>15 DEF Anchored, off, A, c, n
  <2>17. f \in Candidates(l, q, t)
    BY <1>4, <2>16 DEF Candidates
  <2>18. QED BY <2>17
<1>5. QED BY <1>3, <1>4

\* When find_iter jumps over no file that hits, the search finds what hits.
LEMMA LiveFilesAre ==
  ASSUME NEW l, InRange(l), NEW words \in Seq(Seq(Byte)), NEW opts \in Options,
         WantsFiles(ParseOpts(words, opts)),
         Hidden(l, Anchor(ParseOpts(words, opts))) \cap AliveHits(l, ParseOpts(words, opts)) = {}
  PROVE  LiveFiles(l, ParseOpts(words, opts)) = AliveHits(l, ParseOpts(words, opts))
<1> DEFINE q == ParseOpts(words, opts)
<1>1. Anchor(q) \in Seq(Byte)
  BY AnchorIs
<1>2. \A f \in DOMAIN l.files : FileHit(l, q, f) => ContainsCi(l.files[f].name, Anchor(q))
  BY AnchorInName
<1>3. \A f \in BaseFiles(l) \ Hidden(l, Anchor(q)) :
        ContainsCi(l.files[f].name, Anchor(q)) => \E t \in 1 .. NThreads : f \in Candidates(l, q, t)
  BY <1>1, HitsAreCompared
<1>4. /\ \A t \in 1 .. NThreads : BaseHits(l, q, t) \subseteq BaseFiles(l)
      /\ BaseFiles(l) \subseteq DOMAIN l.files
  BY SearchParts, SnapshotParts
<1>5. /\ \A f : f \in AliveHits(l, q) <=> f \in DOMAIN l.files /\ f \notin l.deadFiles /\ FileHit(l, q, f)
      /\ Hidden(l, Anchor(q)) \cap AliveHits(l, q) = {}
  BY DEF AliveHits, AliveFiles
<1> HIDE DEF q
<1>6. ASSUME NEW f \in AliveHits(l, q) PROVE f \in LiveFiles(l, q)
  <2>1. CASE f \in BaseFiles(l)
    <3>1. PICK t \in 1 .. NThreads : f \in Candidates(l, q, t)
      BY <1>2, <1>3, <1>5, <2>1
    <3>2. f \in BaseHits(l, q, t)
      BY <1>5, <3>1 DEF BaseHits
    <3>3. QED BY <3>2 DEF LiveFiles
  <2>2. CASE f \notin BaseFiles(l)
    <3>1. f \in DeltaHits(l, q)
      BY <1>5, <2>2 DEF DeltaHits, AliveFiles
    <3>2. QED BY <3>1 DEF LiveFiles
  <2>3. QED BY <2>1, <2>2
<1>7. ASSUME NEW f \in LiveFiles(l, q) PROVE f \in AliveHits(l, q)
  <2>1. CASE f \in DeltaHits(l, q)
    BY <1>5, <2>1 DEF DeltaHits, AliveFiles
  <2>2. CASE f \notin DeltaHits(l, q)
    <3>1. PICK t \in 1 .. NThreads : f \in BaseHits(l, q, t)
      BY <2>2 DEF LiveFiles
    <3>2. f \in DOMAIN l.files
      BY <1>4, <3>1
    <3>3. QED BY <1>5, <3>1, <3>2 DEF BaseHits
  <2>3. QED BY <2>1, <2>2
<1>8. LiveFiles(l, q) = AliveHits(l, q)
  BY <1>6, <1>7
<1>9. QED BY <1>8 DEF q

\* The answer of the daemon, with any limit.
LEMMA LiveSearchIs ==
  ASSUME NEW l, InRange(l), WellNamed(l), NEW words \in Seq(Seq(Byte)), NEW opts \in Options, Plain(l, words),
         Hidden(l, Anchor(ParseOpts(words, opts))) \cap Answer(l, words, opts).files = {},
         ~Spread(l, Anchor(ParseOpts(words, opts))), NEW n \in Nat
  PROVE  LiveSearch(l, ParseOpts(words, opts), n) = AnswerHits(l, words, opts, n)
<1> DEFINE q == ParseOpts(words, opts)   parts == LiveParts(l, q)
<1>1. IsEmpty(q) <=> words = <<>>
  BY QueryIs
<1>2. LiveSearch(l, q, n) = IF IsEmpty(q) THEN NoHits
                            ELSE Limit(SortedIds(LiveDirs(l, q)), Gather(parts, n), n)
  BY SearchesAre
<1>3. CASE words = <<>>
  <2>1. LiveSearch(l, q, n) = NoHits
    BY <1>1, <1>2, <1>3
  <2>2. QED BY <1>3, <2>1, NothingAsked
<1>4. CASE words # <<>>
  <2>1. Ascending(FlattenSeq(parts), AliveHits(l, q))
    <3>1. CASE WantsFiles(q)
      <4>1. Anchor(q) \in Seq(Byte)
        BY AnchorIs
      <4>2. Ascending(FlattenSeq(parts), LiveFiles(l, q))
        BY <3>1, <4>1, LiveJoin
      <4>3. Hidden(l, Anchor(q)) \cap AliveHits(l, q) = {}
        <5>1. Answer(l, words, opts) = [dirs |-> LiveDirs(l, q), files |-> AliveHits(l, q)]
          BY <1>4, AnswerIs
        <5>2. QED BY <5>1
      <4>4. LiveFiles(l, q) = AliveHits(l, q)
        BY <3>1, <4>3, LiveFilesAre
      <4>5. QED BY <4>2, <4>4
    <3>2. CASE ~WantsFiles(q)
      <4>1. AliveHits(l, q) = {} /\ parts = <<>>
        BY <3>2 DEF AliveHits, LiveParts
      <4>2. Ascending(<<>>, {})
        BY DEF Ascending
      <4>3. QED BY <4>1, <4>2, FlattenNone
    <3>3. QED BY <3>1, <3>2
  <2>2. parts \in Seq(Seq(DOMAIN l.files))
    BY PartsAreIds
  <2> HIDE DEF parts
  <2>3. Limit(SortedIds(LiveDirs(l, q)), Gather(parts, n), n) = AnswerHits(l, words, opts, n)
    BY <1>4, <2>1, <2>2, PartsMakeAnswer
  <2>4. QED BY <1>1, <1>2, <1>4, <2>3
<1>5. QED BY <1>3, <1>4
=============================================================================
