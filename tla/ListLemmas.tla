------------------------------ MODULE ListLemmas ------------------------------
(***************************************************************************)
(* What the proofs need to know of numbers, finite sets, sequences and     *)
(* functions that are defined by recursion.                                *)
(***************************************************************************)
EXTENDS Integers, Sequences, FiniteSets, SequencesExt,
        SequenceTheorems, FiniteSetTheorems, WellFoundedInduction, TLAPS

\* A non-empty set of naturals has a least element.
LEMMA LeastOf ==
  ASSUME NEW T, T \subseteq Nat, T # {}
  PROVE  \E i \in T : \A j \in T : i <= j
<1>1. PICK i \in T : \A j \in T : ~ (<<j, i>> \in OpToRel(<, Nat))
  BY WFMin, NatLessThanWellFounded
<1>2. \A j \in T : ~ (j < i)
  BY <1>1 DEF OpToRel
<1>3. QED BY <1>2

\* A bounded one has a greatest.
LEMMA GreatestOf ==
  ASSUME NEW n \in Nat, NEW T, T \subseteq 0 .. n, T # {}
  PROVE  \E i \in T : \A j \in T : j <= i
<1> DEFINE U == {m \in 0 .. n : n - m \in T}
<1>1. U \subseteq Nat
  OBVIOUS
<1>2. U # {}
  <2>1. PICK j \in T : TRUE
    OBVIOUS
  <2>2. n - j \in 0 .. n /\ n - (n - j) = j
    BY <2>1
  <2>3. n - j \in U
    BY <2>1, <2>2
  <2>4. QED BY <2>3
<1>3. PICK m \in U : \A k \in U : m <= k
  BY <1>1, <1>2, LeastOf
<1>4. ASSUME NEW j \in T PROVE j <= n - m
  <2>1. j \in 0 .. n /\ n - j \in 0 .. n /\ n - (n - j) = j
    BY <1>4
  <2>2. n - j \in U
    BY <2>1, <1>4
  <2>3. m <= n - j /\ m \in 0 .. n
    BY <2>2, <1>3
  <2>4. QED BY <2>1, <2>3
<1>5. n - m \in T
  BY <1>3
<1>6. QED BY <1>4, <1>5

\* What holds of 0 and of the next number whenever it holds of one, up to n,
\* holds up to n; T is the set of the numbers that it holds of.
LEMMA UpTo ==
  ASSUME NEW n \in Nat, NEW T, 0 \in T, \A i \in 0 .. n - 1 : i \in T => i + 1 \in T
  PROVE  \A i \in 0 .. n : i \in T
<1> DEFINE U == {i \in 0 .. n : i \notin T}
<1> SUFFICES ASSUME U # {} PROVE FALSE
  OBVIOUS
<1>1. U \subseteq Nat
  OBVIOUS
<1>2. PICK m \in U : \A k \in U : m <= k
  <2> HIDE DEF U
  <2>1. QED BY <1>1, LeastOf
<1>3. m \in 0 .. n /\ m \notin T /\ m # 0
  OBVIOUS
<1>4. m - 1 \in 0 .. n - 1 /\ (m - 1) + 1 = m /\ ~(m <= m - 1)
  BY <1>3
<1>5. m - 1 \in T
  BY <1>2, <1>4
<1>6. QED BY <1>3, <1>4, <1>5

\* What holds of a number whenever it holds of all below, up to n.
LEMMA UpToAll ==
  ASSUME NEW n \in Nat, NEW T, \A i \in 0 .. n : (\A j \in 0 .. i - 1 : j \in T) => i \in T
  PROVE  \A i \in 0 .. n : i \in T
<1> DEFINE U == {i \in 0 .. n : i \notin T}
<1> SUFFICES ASSUME U # {} PROVE FALSE
  OBVIOUS
<1>1. U \subseteq Nat
  OBVIOUS
<1>2. PICK m \in U : \A k \in U : m <= k
  <2> HIDE DEF U
  <2>1. QED BY <1>1, LeastOf
<1>3. m \in 0 .. n /\ m \notin T
  OBVIOUS
<1>4. ASSUME NEW j \in 0 .. m - 1 PROVE j \in T
  <2>1. j \in 0 .. n /\ ~(m <= j)
    BY <1>3
  <2>2. QED BY <1>2, <2>1
<1>5. QED BY <1>3, <1>4

-----------------------------------------------------------------------------
(* Functions defined by recursion.                                         *)

Earlier(N, S, a, back, G) ==
  \E f \in [0 .. N -> S] : \A i \in 0 .. N : f[i] = IF i = 0 THEN a ELSE G[i][f[back[i]]]

\* A function on 0..N can be defined from its value at 0 and, for each further
\* argument, a step from its value at an earlier one.
LEMMA EarlierExists ==
  ASSUME NEW N \in Nat, NEW S, NEW a \in S, NEW back, \A i \in 1 .. N : back[i] \in 0 .. i - 1,
         NEW G, \A i \in 1 .. N : \A x \in S : G[i][x] \in S
  PROVE  Earlier(N, S, a, back, G)
<1> DEFINE Fits(f, n) == \A i \in 0 .. n : f[i] = IF i = 0 THEN a ELSE G[i][f[back[i]]]
           T == {n \in 0 .. N : \E f \in [0 .. n -> S] : Fits(f, n)}
<1>1. 0 \in T
  <2> DEFINE f == [i \in 0 .. 0 |-> a]
  <2>1. f \in [0 .. 0 -> S] /\ \A i \in 0 .. 0 : f[i] = a /\ i = 0
    OBVIOUS
  <2> HIDE DEF f
  <2>2. Fits(f, 0)
    BY <2>1
  <2>3. QED BY <2>1, <2>2
<1>2. ASSUME NEW n \in 0 .. N - 1, n \in T PROVE n + 1 \in T
  <2>1. PICK f \in [0 .. n -> S] : Fits(f, n)
    BY <1>2
  <2>2. n + 1 \in 1 .. N /\ n \in Nat
    OBVIOUS
  <2>3. back[n + 1] \in 0 .. n
    <3>1. back[n + 1] \in 0 .. (n + 1) - 1
      BY <2>2
    <3>2. QED BY <3>1, <2>2
  <2> DEFINE v == G[n + 1][f[back[n + 1]]]
             g == [i \in 0 .. n + 1 |-> IF i = n + 1 THEN v ELSE f[i]]
  <2>4. v \in S
    <3>1. f[back[n + 1]] \in S
      BY <2>1, <2>3
    <3>2. QED BY <3>1, <2>2
  <2>5. g[n + 1] = v /\ \A i \in 0 .. n : g[i] = f[i]
    BY <2>2
  <2>6. g \in [0 .. n + 1 -> S]
    <3> HIDE DEF v
    <3>1. QED BY <2>1, <2>2, <2>4
  <2> HIDE DEF g
  <2>7. ASSUME NEW i \in 0 .. n + 1 PROVE g[i] = IF i = 0 THEN a ELSE G[i][g[back[i]]]
    <3>1. CASE i = n + 1
      <4>1. g[back[n + 1]] = f[back[n + 1]]
        BY <2>3, <2>5
      <4>2. QED BY <3>1, <4>1, <2>2, <2>5
    <3>2. CASE i # n + 1 /\ i # 0
      <4>1. i \in 1 .. N /\ i \in 0 .. n /\ 0 .. i - 1 \subseteq 0 .. n
        BY <3>2, <2>2
      <4>2. back[i] \in 0 .. n
        BY <4>1
      <4>3. g[i] = f[i] /\ g[back[i]] = f[back[i]]
        BY <4>1, <4>2, <2>5
      <4>4. f[i] = G[i][f[back[i]]]
        BY <2>1, <3>2, <4>1
      <4>5. QED BY <3>2, <4>3, <4>4
    <3>3. CASE i = 0
      <4>1. f[0] = a
        BY <2>1, <2>2
      <4>2. QED BY <4>1, <3>3, <2>2, <2>5
    <3>4. QED BY <3>1, <3>2, <3>3
  <2>8. Fits(g, n + 1)
    BY <2>7
  <2>9. QED BY <2>2, <2>6, <2>8
<1> HIDE DEF T
<1>3. N \in T
  <2>1. \A i \in 0 .. N : i \in T
    BY <1>1, <1>2, UpTo
  <2>2. QED BY <2>1
<1>4. QED BY <1>3 DEF T, Earlier

Stepwise(N, S, a, G) ==
  \E f \in [0 .. N -> S] : \A i \in 0 .. N : f[i] = IF i = 0 THEN a ELSE G[i][f[i-1]]

\* The same with a step from the value just before.
LEMMA StepwiseExists ==
  ASSUME NEW N \in Nat, NEW S, NEW a \in S, NEW G \in [0 .. N -> [S -> S]]
  PROVE  Stepwise(N, S, a, G)
<1> DEFINE back == [i \in 1 .. N |-> i - 1]
<1>1. \A i \in 1 .. N : back[i] \in 0 .. i - 1
  OBVIOUS
<1>2. \A i \in 1 .. N : \A x \in S : G[i][x] \in S
  OBVIOUS
<1>3. \A i \in 0 .. N : i # 0 => back[i] = i - 1
  OBVIOUS
<1> HIDE DEF back
<1>4. Earlier(N, S, a, back, G)
  BY <1>1, <1>2, EarlierExists
<1>5. PICK f \in [0 .. N -> S] : \A i \in 0 .. N : f[i] = IF i = 0 THEN a ELSE G[i][f[back[i]]]
  BY <1>4 DEF Earlier
<1>6. \A i \in 0 .. N : f[i] = IF i = 0 THEN a ELSE G[i][f[i-1]]
  BY <1>3, <1>5
<1>7. QED BY <1>6 DEF Stepwise

Later(lo, hi, S, a, ahead, G) ==
  \E f \in [lo .. hi -> S] : \A i \in lo .. hi : f[i] = IF i = hi THEN a ELSE G[i][f[ahead[i]]]

\* And one downwards, each step from the value at a later argument.
LEMMA LaterExists ==
  ASSUME NEW lo \in Int, NEW hi \in Int, lo <= hi, NEW S, NEW a \in S,
         NEW ahead, \A i \in lo .. hi - 1 : ahead[i] \in i + 1 .. hi,
         NEW G, \A i \in lo .. hi - 1 : \A x \in S : G[i][x] \in S
  PROVE  Later(lo, hi, S, a, ahead, G)
<1> DEFINE N == hi - lo
           back == [k \in 1 .. N |-> hi - ahead[hi - k]]
           H == [k \in 1 .. N |-> G[hi - k]]
<1>1. N \in Nat /\ \A k \in 1 .. N : hi - k \in lo .. hi - 1
  OBVIOUS
<1>2. ASSUME NEW k \in 1 .. N PROVE back[k] \in 0 .. k - 1
  <2>1. hi - k \in lo .. hi - 1 /\ k \in Int
    BY <1>1
  <2>2. ahead[hi - k] \in hi - k + 1 .. hi
    BY <2>1
  <2>3. hi - ahead[hi - k] \in 0 .. k - 1
    BY <2>1, <2>2
  <2>4. QED BY <2>3
<1>3. \A k \in 1 .. N : \A x \in S : H[k][x] \in S
  BY <1>1
<1>4. PICK g \in [0 .. N -> S] : \A k \in 0 .. N : g[k] = IF k = 0 THEN a ELSE H[k][g[back[k]]]
  <2> HIDE DEF N, back, H
  <2>1. Earlier(N, S, a, back, H)
    BY <1>1, <1>2, <1>3, EarlierExists
  <2>2. QED BY <2>1 DEF Earlier
<1> DEFINE f == [i \in lo .. hi |-> g[hi - i]]
<1>5. \A i \in lo .. hi : hi - i \in 0 .. N /\ f[i] = g[hi - i]
  OBVIOUS
<1>6. f \in [lo .. hi -> S]
  BY <1>5
<1>7. ASSUME NEW i \in lo .. hi PROVE f[i] = IF i = hi THEN a ELSE G[i][f[ahead[i]]]
  <2>1. CASE i = hi
    <3>1. hi - i = 0 /\ 0 \in 0 .. N
      BY <2>1, <1>1
    <3>2. f[i] = g[0] /\ g[0] = a
      BY <3>1, <1>4, <1>5
    <3>3. QED BY <2>1, <3>2
  <2>2. CASE i # hi
    <3>1. hi - i \in 1 .. N /\ hi - i # 0 /\ hi - (hi - i) = i /\ i \in lo .. hi - 1
      BY <2>2
    <3>2. ahead[i] \in i + 1 .. hi
      BY <3>1
    <3>3. ahead[i] \in lo .. hi
      BY <3>2
    <3>4. back[hi - i] = hi - ahead[i] /\ H[hi - i] = G[i]
      BY <3>1
    <3>5. f[ahead[i]] = g[hi - ahead[i]]
      BY <3>3, <1>5
    <3>6. g[hi - i] = H[hi - i][g[back[hi - i]]]
      <4> DEFINE k == hi - i
      <4>1. k \in 0 .. N /\ k # 0
        BY <3>1, <1>1
      <4> HIDE DEF k, H, back, N
      <4>2. g[k] = H[k][g[back[k]]]
        BY <4>1, <1>4
      <4>3. QED BY <4>2 DEF k
    <3>7. g[hi - i] = G[i][f[ahead[i]]]
      BY <3>4, <3>5, <3>6
    <3>8. QED BY <3>7, <1>5, <2>2
  <2>3. QED BY <2>1, <2>2
<1>8. QED BY <1>6, <1>7 DEF Later

\* What holds of hi, and of a number whenever it holds of all later ones.
LEMMA DownTo ==
  ASSUME NEW lo \in Int, NEW hi \in Int, lo <= hi, NEW T, hi \in T,
         \A i \in lo .. hi - 1 : (\A j \in i + 1 .. hi : j \in T) => i \in T
  PROVE  \A i \in lo .. hi : i \in T
<1> DEFINE U == {k \in 0 .. hi - lo : \A j \in hi - k .. hi : j \in T}
           N == hi - lo
<1>1. N \in Nat
  OBVIOUS
<1>2. 0 \in U
  <2>1. \A j \in hi - 0 .. hi : j = hi
    OBVIOUS
  <2>2. 0 \in 0 .. N
    BY <1>1
  <2>3. QED BY <2>1, <2>2
<1>3. ASSUME NEW k \in 0 .. N - 1, k \in U PROVE k + 1 \in U
  <2>1. k + 1 \in 0 .. N /\ hi - (k + 1) \in lo .. hi - 1 /\ hi - (k + 1) + 1 = hi - k
    BY <1>1
  <2>2. \A j \in hi - k .. hi : j \in T
    BY <1>3
  <2>3. hi - (k + 1) \in T
    BY <2>1, <2>2
  <2>4. \A j \in hi - (k + 1) .. hi : j = hi - (k + 1) \/ j \in hi - k .. hi
    OBVIOUS
  <2>5. \A j \in hi - (k + 1) .. hi : j \in T
    BY <2>2, <2>3, <2>4
  <2>6. QED BY <2>1, <2>5
<1> HIDE DEF U
<1>4. \A k \in 0 .. N : k \in U
  <2> HIDE DEF N
  <2>1. QED BY <1>1, <1>2, <1>3, UpTo
<1>5. N \in U /\ hi - N = lo
  BY <1>1, <1>4
<1>6. QED BY <1>5 DEF U

Loops(M, stuck, acc, succ) ==
  \E A \in SUBSET M : \A s \in M : s \in A <=> IF s \in stuck THEN s \in acc ELSE succ[s] \in A

\* A loop that goes from state to state until it is stuck has a set of states
\* from which it ends well: those with a way to one that is accepted.
LEMMA LoopsExist ==
  ASSUME NEW M, NEW stuck, NEW acc, acc \subseteq stuck, NEW succ, \A s \in M \ stuck : succ[s] \in M
  PROVE  Loops(M, stuck, acc, succ)
<1> DEFINE Way(s, k, u) == /\ u \in [0 .. k -> M] /\ u[0] = s /\ u[k] \in acc
                           /\ \A i \in 0 .. k - 1 : u[i] \notin stuck /\ u[i + 1] = succ[u[i]]
           A == {s \in M : \E k \in Nat : \E u : Way(s, k, u)}
<1>1. ASSUME NEW s \in M, s \in stuck, s \in acc PROVE s \in A
  <2> DEFINE u == [i \in 0 .. 0 |-> s]
  <2>1. u \in [0 .. 0 -> M] /\ u[0] = s /\ \A i \in 0 .. 0 - 1 : FALSE
    BY <1>1
  <2> HIDE DEF u
  <2>2. Way(s, 0, u)
    BY <2>1, <1>1
  <2>3. QED BY <2>2, 0 \in Nat
<1>2. ASSUME NEW s \in M, s \in stuck, s \in A PROVE s \in acc
  <2>0. PICK k \in Nat : \E u : Way(s, k, u)
    BY <1>2
  <2>1. PICK u : Way(s, k, u)
    BY <2>0
  <2>2. k = 0
    <3>1. k # 0 => 0 \in 0 .. k - 1
      BY <2>1
    <3>2. QED BY <3>1, <2>1, <1>2
  <2>3. QED BY <2>1, <2>2
<1>3. ASSUME NEW s \in M, s \notin stuck, succ[s] \in A PROVE s \in A
  <2>0. PICK k \in Nat : \E u : Way(succ[s], k, u)
    BY <1>3
  <2>1. PICK u : Way(succ[s], k, u)
    BY <2>0
  <2> DEFINE v == [i \in 0 .. k + 1 |-> IF i = 0 THEN s ELSE u[i - 1]]
  <2>2. \A i \in 0 .. k + 1 : v[i] = IF i = 0 THEN s ELSE u[i - 1]
    OBVIOUS
  <2>3. v \in [0 .. k + 1 -> M]
    <3>1. \A i \in 0 .. k + 1 : i # 0 => i - 1 \in 0 .. k
      BY <2>1
    <3>2. QED BY <3>1, <2>1
  <2> HIDE DEF v
  <2>4. v[0] = s /\ v[k + 1] = u[k]
    BY <2>1, <2>2
  <2>5. ASSUME NEW i \in 0 .. (k + 1) - 1 PROVE v[i] \notin stuck /\ v[i + 1] = succ[v[i]]
    <3>1. CASE i = 0
      <4>1. v[0 + 1] = u[0]
        BY <2>1, <2>2
      <4>2. QED BY <3>1, <4>1, <2>1, <2>4, <1>3
    <3>2. CASE i # 0
      <4>1. i - 1 \in 0 .. k - 1 /\ (i - 1) + 1 = i /\ (i + 1) - 1 = i /\ i + 1 # 0 /\ i \in 0 .. k + 1 /\ i + 1 \in 0 .. k + 1
        BY <3>2, <2>1
      <4>2. v[i] = u[i - 1] /\ v[i + 1] = u[i]
        BY <4>1, <3>2, <2>2
      <4>3. u[i - 1] \notin stuck /\ u[i] = succ[u[i - 1]]
        BY <4>1, <2>1
      <4>4. QED BY <4>2, <4>3
    <3>3. QED BY <3>1, <3>2
  <2>6. Way(s, k + 1, v)
    BY <2>1, <2>3, <2>4, <2>5
  <2>7. k + 1 \in Nat
    BY <2>1
  <2> HIDE DEF Way
  <2>8. QED BY <2>6, <2>7
<1>4. ASSUME NEW s \in M, s \notin stuck, s \in A PROVE succ[s] \in A
  <2>0. PICK k \in Nat : \E u : Way(s, k, u)
    BY <1>4
  <2>1. PICK u : Way(s, k, u)
    BY <2>0
  <2>2. k # 0 /\ k - 1 \in Nat
    <3>1. k # 0
      BY <2>1, <1>4
    <3>2. QED BY <3>1, <2>1
  <2> DEFINE v == [i \in 0 .. k - 1 |-> u[i + 1]]
  <2>3. v \in [0 .. k - 1 -> M] /\ \A i \in 0 .. k - 1 : v[i] = u[i + 1]
    BY <2>1, <2>2
  <2> HIDE DEF v
  <2>4. v[0] = succ[s]
    <3>1. 0 \in 0 .. k - 1 /\ 0 + 1 = 1
      BY <2>2
    <3>2. v[0] = u[1] /\ u[1] = succ[u[0]]
      BY <3>1, <2>1, <2>3
    <3>3. QED BY <3>2, <2>1
  <2>5. v[k - 1] = u[k]
    <3>1. k - 1 \in 0 .. k - 1 /\ (k - 1) + 1 = k
      BY <2>2
    <3>2. QED BY <3>1, <2>3
  <2>6. ASSUME NEW i \in 0 .. (k - 1) - 1 PROVE v[i] \notin stuck /\ v[i + 1] = succ[v[i]]
    <3>1. i \in 0 .. k - 1 /\ i + 1 \in 0 .. k - 1
      BY <2>2
    <3>2. v[i] = u[i + 1] /\ v[i + 1] = u[(i + 1) + 1]
      BY <3>1, <2>3
    <3>3. QED BY <3>1, <3>2, <2>1
  <2>7. Way(succ[s], k - 1, v)
    BY <2>1, <2>3, <2>4, <2>5, <2>6
  <2>8. succ[s] \in M
    BY <1>4
  <2> HIDE DEF Way
  <2>9. QED BY <2>2, <2>7, <2>8
<1> HIDE DEF A
<1>5. \A s \in M : s \in A <=> IF s \in stuck THEN s \in acc ELSE succ[s] \in A
  BY <1>1, <1>2, <1>3, <1>4
<1>6. A \in SUBSET M
  BY DEF A
<1>7. QED BY <1>5, <1>6 DEF Loops

-----------------------------------------------------------------------------
(* Sequences.                                                              *)

\* A function on 1..n is a sequence of length n.
LEMMA FunctionIsSeq ==
  ASSUME NEW S, NEW n \in Nat, NEW f \in [1 .. n -> S]
  PROVE  f \in Seq(S) /\ Len(f) = n
OBVIOUS

\* Appending n elements keeps what was there and the type.
LEMMA Appended ==
  ASSUME NEW S, NEW s \in Seq(S), NEW n \in Nat, NEW f \in [1 .. n -> S]
  PROVE  /\ s \o f \in Seq(S)
         /\ Len(s \o f) = Len(s) + n
         /\ DOMAIN (s \o f) = 1 .. Len(s) + n
         /\ \A i \in 1 .. Len(s) : (s \o f)[i] = s[i]
         /\ \A i \in 1 .. n : (s \o f)[Len(s) + i] = f[i]
<1>1. f \in Seq(S) /\ Len(f) = n
  BY FunctionIsSeq
<1>2. Len(s) \in Nat
  BY LenProperties
<1>3. /\ s \o f \in Seq(S)
      /\ Len(s \o f) = Len(s) + n
      /\ \A i \in 1 .. Len(s) + n : (s \o f)[i] = IF i <= Len(s) THEN s[i] ELSE f[i - Len(s)]
  BY <1>1, ConcatProperties
<1>4. DOMAIN (s \o f) = 1 .. Len(s) + n
  BY <1>3, LenProperties
<1>5. \A i \in 1 .. Len(s) : (s \o f)[i] = s[i]
  BY <1>2, <1>3
<1>6. \A i \in 1 .. n : (s \o f)[Len(s) + i] = f[i]
  BY <1>2, <1>3
<1>7. QED BY <1>3, <1>4, <1>5, <1>6

\* SetToSeq lists a finite set.
LEMMA ListOfSet ==
  ASSUME NEW S, IsFiniteSet(S)
  PROVE  Cardinality(S) \in Nat /\ SetToSeq(S) \in [1 .. Cardinality(S) -> S]
<1>1. Cardinality(S) \in Nat
  BY FS_CardinalityType
<1>2. \E f \in [1 .. Cardinality(S) -> S] : IsInjective(f)
  <2>1. \E f : f \in Bijection(1 .. Cardinality(S), S)
    BY FS_CardinalityType DEF ExistsBijection
  <2>2. PICK f : f \in Bijection(1 .. Cardinality(S), S)
    BY <2>1
  <2>3. QED BY <2>2 DEF Bijection, Injection, Surjection, IsInjective
<1>3. QED BY <1>1, <1>2 DEF SetToSeq

\* SetToSeq lists each element once.
LEMMA ListedOnce ==
  ASSUME NEW S, IsFiniteSet(S)
  PROVE  \A i, j \in 1 .. Cardinality(S) : SetToSeq(S)[i] = SetToSeq(S)[j] => i = j
<1>1. \E f \in [1 .. Cardinality(S) -> S] : IsInjective(f)
  <2>1. \E f : f \in Bijection(1 .. Cardinality(S), S)
    BY FS_CardinalityType DEF ExistsBijection
  <2>2. QED BY <2>1 DEF Bijection, Injection, Surjection, IsInjective
<1>2. SetToSeq(S) \in [1 .. Cardinality(S) -> S] /\ IsInjective(SetToSeq(S))
  BY <1>1 DEF SetToSeq
<1>3. QED BY <1>2 DEF IsInjective

\* As many different elements as a set has are all of them.
LEMMA OntoSet ==
  ASSUME NEW S, IsFiniteSet(S), NEW f \in [1 .. Cardinality(S) -> S],
         \A i, j \in 1 .. Cardinality(S) : f[i] = f[j] => i = j
  PROVE  \A x \in S : \E i \in 1 .. Cardinality(S) : f[i] = x
<1> DEFINE I == 1 .. Cardinality(S)
<1>1. Cardinality(S) \in Nat
  BY FS_CardinalityType
<1>2. IsFiniteSet(I) /\ Cardinality(I) = Cardinality(S)
  BY <1>1, FS_Interval
<1> HIDE DEF I
<1>3. f \in Injection(I, S)
  BY DEF Injection, IsInjective, I
<1>4. f \in Surjection(I, S)
  BY <1>2, <1>3, FS_Injection
<1>5. QED BY <1>4 DEF Surjection, I

\* SetToSeq lists every element.
LEMMA ListedAll ==
  ASSUME NEW S, IsFiniteSet(S)
  PROVE  \A x \in S : \E i \in 1 .. Cardinality(S) : SetToSeq(S)[i] = x
BY ListOfSet, ListedOnce, OntoSet

\* The beginning of a sequence.
LEMMA Beginning ==
  ASSUME NEW S, NEW s, NEW n \in Nat, \A i \in 1 .. n : s[i] \in S
  PROVE  /\ SubSeq(s, 1, n) \in Seq(S) /\ Len(SubSeq(s, 1, n)) = n
         /\ \A i \in 1 .. n : SubSeq(s, 1, n)[i] = s[i]
<1>1. /\ SubSeq(s, 1, n) \in Seq(S)
      /\ Len(SubSeq(s, 1, n)) = (IF 1 <= n THEN n - 1 + 1 ELSE 0)
      /\ \A i \in 1 .. n - 1 + 1 : SubSeq(s, 1, n)[i] = s[1 + i - 1]
  BY SubSeqProperties
<1>2. QED BY <1>1

\* The end of a sequence.
LEMMA Ending ==
  ASSUME NEW S, NEW s, NEW m \in Nat, NEW n \in Nat, n <= m,
         \A i \in n + 1 .. m : s[i] \in S
  PROVE  /\ SubSeq(s, n + 1, m) \in Seq(S) /\ Len(SubSeq(s, n + 1, m)) = m - n
         /\ \A i \in 1 .. m - n : SubSeq(s, n + 1, m)[i] = s[n + i]
<1> DEFINE b == SubSeq(s, n + 1, m)
<1>1. /\ b \in Seq(S)
      /\ Len(b) = (IF n + 1 <= m THEN m - (n + 1) + 1 ELSE 0)
      /\ \A i \in 1 .. m - (n + 1) + 1 : b[i] = s[(n + 1) + i - 1]
  BY SubSeqProperties
<1> HIDE DEF b
<1>2. Len(b) = m - n
  BY <1>1
<1>3. ASSUME NEW i \in 1 .. m - n PROVE b[i] = s[n + i]
  <2>1. i \in 1 .. m - (n + 1) + 1 /\ (n + 1) + i - 1 = n + i
    OBVIOUS
  <2>2. b[i] = s[(n + 1) + i - 1]
    BY <2>1, <1>1
  <2>3. QED BY <2>1, <2>2
<1>4. QED BY <1>1, <1>2, <1>3 DEF b

\* A sequence whose elements are those of two others.
LEMMA SetOfTwo ==
  ASSUME NEW s, NEW a, NEW b,
         \A i \in DOMAIN s : \/ \E j \in DOMAIN a : s[i] = a[j]
                             \/ \E j \in DOMAIN b : s[i] = b[j],
         \A j \in DOMAIN a : \E i \in DOMAIN s : s[i] = a[j],
         \A j \in DOMAIN b : \E i \in DOMAIN s : s[i] = b[j]
  PROVE  ToSet(s) = ToSet(a) \cup ToSet(b)
BY DEF ToSet

\* The last element and what is before it.
LEMMA FrontLast ==
  ASSUME NEW S, NEW s \in Seq(S), s # <<>>
  PROVE  /\ Len(s) \in Nat \ {0}
         /\ Last(s) \in S /\ Last(s) = s[Len(s)]
         /\ Front(s) \in Seq(S) /\ Len(Front(s)) = Len(s) - 1
         /\ \A i \in 1 .. Len(s) - 1 : Front(s)[i] = s[i]
<1>1. Len(s) \in Nat \ {0}
  BY EmptySeq
<1>2. \A i \in 1 .. Len(s) - 1 : s[i] \in S
  BY ElementOfSeq, <1>1
<1>3. /\ Front(s) \in Seq(S) /\ Len(Front(s)) = Len(s) - 1
      /\ \A i \in 1 .. Len(s) - 1 : Front(s)[i] = s[i]
  <2> DEFINE n == Len(s) - 1
  <2>1. n \in Nat /\ \A i \in 1 .. n : s[i] \in S
    BY <1>1, <1>2
  <2> HIDE DEF n
  <2>2. /\ SubSeq(s, 1, n) \in Seq(S) /\ Len(SubSeq(s, 1, n)) = n
        /\ \A i \in 1 .. n : SubSeq(s, 1, n)[i] = s[i]
    BY <2>1, Beginning
  <2>3. Front(s) = SubSeq(s, 1, n)
    BY DEF Front, n
  <2>4. QED BY <2>2, <2>3 DEF n
<1>4. s[Len(s)] \in S
  BY ElementOfSeq, <1>1
<1>5. QED BY <1>1, <1>3, <1>4 DEF Last

\* Another last element.
LEMMA OtherLast ==
  ASSUME NEW S, NEW s \in Seq(S), s # <<>>, NEW f \in S
  PROVE  LET t == Append(Front(s), f)
         IN  /\ t \in Seq(S) /\ t # <<>> /\ Len(t) = Len(s) /\ DOMAIN t = 1 .. Len(s)
             /\ Last(t) = f /\ t[Len(s)] = f /\ Front(t) = Front(s)
             /\ \A i \in 1 .. Len(s) : i # Len(s) => t[i] = s[i]
<1> DEFINE t == Append(Front(s), f)
<1>1. /\ Len(s) \in Nat \ {0}
      /\ Front(s) \in Seq(S) /\ Len(Front(s)) = Len(s) - 1
      /\ \A i \in 1 .. Len(s) - 1 : Front(s)[i] = s[i]
  BY FrontLast
<1>2. /\ t \in Seq(S) /\ t # <<>> /\ Len(t) = Len(s)
      /\ \A i \in 1 .. Len(s) - 1 : t[i] = s[i]
      /\ t[Len(s)] = f
  BY <1>1, AppendProperties
<1>3. DOMAIN t = 1 .. Len(s) /\ Last(t) = f
  BY <1>2, LenProperties DEF Last
<1>4. Front(t) = Front(s)
  <2>1. /\ Front(t) \in Seq(S) /\ Len(Front(t)) = Len(s) - 1
        /\ \A i \in 1 .. Len(s) - 1 : Front(t)[i] = t[i]
    BY <1>2, FrontLast
  <2>2. QED BY <2>1, <1>1, <1>2, SeqEqual
<1>5. QED BY <1>1, <1>2, <1>3, <1>4

\* What a sequence has at its head, and behind it.
LEMMA HeadAndTail ==
  ASSUME NEW S, NEW s \in Seq(S), s # <<>>
  PROVE  /\ Head(s) \in S /\ Tail(s) \in Seq(S)
         /\ ToSet(s) = {Head(s)} \cup ToSet(Tail(s))
         /\ Head(s) = s[1] /\ 1 \in DOMAIN s
         /\ \A i \in DOMAIN Tail(s) : i + 1 \in DOMAIN s /\ i + 1 # 1 /\ Tail(s)[i] = s[i + 1]
<1>1. /\ Head(s) \in S /\ Tail(s) \in Seq(S) /\ Len(Tail(s)) = Len(s) - 1
      /\ \A i \in 1 .. Len(Tail(s)) : Tail(s)[i] = s[i + 1]
  BY HeadTailProperties
<1>2. Len(s) \in Nat \ {0} /\ DOMAIN s = 1 .. Len(s) /\ DOMAIN Tail(s) = 1 .. Len(s) - 1
  BY <1>1, EmptySeq, LenProperties
<1>3. Head(s) = s[1]
  OBVIOUS
<1>4. \A i \in DOMAIN s : i = 1 \/ (i - 1 \in DOMAIN Tail(s) /\ s[i] = Tail(s)[i - 1])
  BY <1>1, <1>2
<1>5. \A i \in DOMAIN Tail(s) : i + 1 \in DOMAIN s /\ i + 1 # 1 /\ Tail(s)[i] = s[i + 1]
  BY <1>1, <1>2
<1>6. ToSet(s) = {Head(s)} \cup ToSet(Tail(s))
  <2> DEFINE t == Tail(s)
  <2>1. 1 \in DOMAIN s
    BY <1>2
  <2>2. \A i \in DOMAIN t : i + 1 \in DOMAIN s /\ t[i] = s[i + 1]
    BY <1>5
  <2>3. \A i \in DOMAIN s : i = 1 \/ \E j \in DOMAIN t : s[i] = t[j]
    BY <1>4
  <2> HIDE DEF t
  <2>4. ToSet(s) = {s[1]} \cup ToSet(t)
    BY <2>1, <2>2, <2>3 DEF ToSet
  <2>5. QED BY <2>4, <1>3 DEF t
<1>7. QED BY <1>1, <1>2, <1>3, <1>5, <1>6

\* One more at the end.
LEMMA AppendedOne ==
  ASSUME NEW S, NEW s \in Seq(S), NEW e \in S
  PROVE  /\ Append(s, e) \in Seq(S)
         /\ ToSet(Append(s, e)) = ToSet(s) \cup {e}
         /\ DOMAIN Append(s, e) = 1 .. Len(s) + 1 /\ DOMAIN s = 1 .. Len(s) /\ Len(s) \in Nat
         /\ \A i \in DOMAIN s : Append(s, e)[i] = s[i]
         /\ Append(s, e)[Len(s) + 1] = e
<1>1. /\ Append(s, e) \in Seq(S) /\ Len(Append(s, e)) = Len(s) + 1
      /\ \A i \in 1 .. Len(s) : Append(s, e)[i] = s[i]
      /\ Append(s, e)[Len(s) + 1] = e
  BY AppendProperties
<1>2. /\ DOMAIN Append(s, e) = 1 .. Len(s) + 1 /\ DOMAIN s = 1 .. Len(s) /\ Len(s) \in Nat
  BY <1>1, LenProperties
<1>3. \A i \in DOMAIN Append(s, e) : i \in DOMAIN s \/ i = Len(s) + 1
  BY <1>2
<1>4. ToSet(Append(s, e)) = ToSet(s) \cup {e}
  BY <1>1, <1>2, <1>3 DEF ToSet
<1>5. QED BY <1>1, <1>2, <1>4

\* The members of a sequence, by position.
LEMMA SetOfSeq ==
  ASSUME NEW S, NEW s \in Seq(S)
  PROVE  ToSet(s) \subseteq S /\ (\A x : x \in ToSet(s) <=> \E i \in DOMAIN s : s[i] = x)
BY ElementOfSeq, LenProperties DEF ToSet

\* A sequence cut in two.
LEMMA CutInTwo ==
  ASSUME NEW S, NEW s \in Seq(S), NEW n \in 0 .. Len(s)
  PROVE  LET a == SubSeq(s, 1, n)
             b == SubSeq(s, n + 1, Len(s))
         IN  /\ a \in Seq(S) /\ b \in Seq(S)
             /\ DOMAIN a = 1 .. n /\ DOMAIN b = 1 .. Len(s) - n
             /\ Len(s) \in Nat /\ DOMAIN s = 1 .. Len(s)
             /\ \A i \in DOMAIN a : a[i] = s[i]
             /\ \A i \in DOMAIN b : b[i] = s[n + i]
             /\ ToSet(s) = ToSet(a) \cup ToSet(b)
<1> DEFINE a == SubSeq(s, 1, n)
           b == SubSeq(s, n + 1, Len(s))
<1>1. Len(s) \in Nat /\ DOMAIN s = 1 .. Len(s) /\ \A i \in 1 .. Len(s) : s[i] \in S
  BY LenProperties, ElementOfSeq
<1>2. a \in Seq(S) /\ Len(a) = n /\ \A i \in 1 .. n : a[i] = s[i]
  BY <1>1, Beginning
<1>3. b \in Seq(S) /\ Len(b) = Len(s) - n /\ \A i \in 1 .. Len(s) - n : b[i] = s[n + i]
  <2> DEFINE m == Len(s)
  <2>1. m \in Nat /\ n \in Nat /\ n <= m /\ \A i \in n + 1 .. m : s[i] \in S
    BY <1>1
  <2> HIDE DEF m
  <2>2. /\ SubSeq(s, n + 1, m) \in Seq(S) /\ Len(SubSeq(s, n + 1, m)) = m - n
        /\ \A i \in 1 .. m - n : SubSeq(s, n + 1, m)[i] = s[n + i]
    BY <2>1, Ending
  <2>3. QED BY <2>2 DEF m
<1>4. DOMAIN a = 1 .. n /\ DOMAIN b = 1 .. Len(s) - n
  BY <1>2, <1>3, LenProperties
<1> HIDE DEF a, b
<1>5. ToSet(s) = ToSet(a) \cup ToSet(b)
  <2>1. ASSUME NEW i \in DOMAIN s
        PROVE  \/ \E j \in DOMAIN a : s[i] = a[j]
               \/ \E j \in DOMAIN b : s[i] = b[j]
    <3>1. CASE i <= n
      BY <3>1, <1>1, <1>2, <1>4
    <3>2. CASE ~(i <= n)
      <4>1. i - n \in 1 .. Len(s) - n /\ n + (i - n) = i
        BY <3>2, <1>1
      <4>2. b[i - n] = s[n + (i - n)]
        BY <4>1, <1>3
      <4>3. QED BY <4>1, <4>2, <1>4
    <3>3. QED BY <3>1, <3>2
  <2>2. \A j \in DOMAIN a : j \in DOMAIN s /\ s[j] = a[j]
    BY <1>1, <1>2, <1>4
  <2>3. \A j \in DOMAIN b : n + j \in DOMAIN s /\ s[n + j] = b[j]
    BY <1>1, <1>3, <1>4
  <2>4. QED BY <2>1, <2>2, <2>3, SetOfTwo
<1>6. QED BY <1>1, <1>2, <1>3, <1>4, <1>5 DEF a, b

\* One sequence behind another.
LEMMA Joined ==
  ASSUME NEW S, NEW s \in Seq(S), NEW t \in Seq(S)
  PROVE  /\ s \o t \in Seq(S)
         /\ DOMAIN (s \o t) = 1 .. Len(s) + Len(t)
         /\ DOMAIN s = 1 .. Len(s) /\ DOMAIN t = 1 .. Len(t) /\ Len(s) \in Nat /\ Len(t) \in Nat
         /\ \A i \in DOMAIN s : (s \o t)[i] = s[i]
         /\ \A i \in DOMAIN t : (s \o t)[Len(s) + i] = t[i]
         /\ ToSet(s \o t) = ToSet(s) \cup ToSet(t)
<1>1. /\ s \o t \in Seq(S) /\ Len(s \o t) = Len(s) + Len(t)
      /\ \A i \in 1 .. Len(s) + Len(t) : (s \o t)[i] = IF i <= Len(s) THEN s[i] ELSE t[i - Len(s)]
  BY ConcatProperties
<1>2. DOMAIN s = 1 .. Len(s) /\ DOMAIN t = 1 .. Len(t) /\ Len(s) \in Nat /\ Len(t) \in Nat
  BY LenProperties
<1>3. DOMAIN (s \o t) = 1 .. Len(s) + Len(t)
  BY <1>1, LenProperties
<1>4. \A i \in DOMAIN s : i \in DOMAIN (s \o t) /\ (s \o t)[i] = s[i]
  BY <1>1, <1>2, <1>3
<1>5. \A i \in DOMAIN t : Len(s) + i \in DOMAIN (s \o t) /\ (s \o t)[Len(s) + i] = t[i]
  BY <1>1, <1>2, <1>3
<1>6. \A i \in DOMAIN (s \o t) : i \in DOMAIN s \/ (i - Len(s) \in DOMAIN t /\ (s \o t)[i] = t[i - Len(s)])
  BY <1>1, <1>2, <1>3
<1>7. ToSet(s \o t) = ToSet(s) \cup ToSet(t)
  <2> DEFINE c == s \o t
  <2>1. \A i \in DOMAIN c : \/ \E j \in DOMAIN s : c[i] = s[j]
                            \/ \E j \in DOMAIN t : c[i] = t[j]
    BY <1>4, <1>6
  <2>2. /\ \A j \in DOMAIN s : \E i \in DOMAIN c : c[i] = s[j]
        /\ \A j \in DOMAIN t : \E i \in DOMAIN c : c[i] = t[j]
    BY <1>4, <1>5
  <2> HIDE DEF c
  <2>3. ToSet(c) = ToSet(s) \cup ToSet(t)
    <3>1. \A x \in ToSet(c) : x \in ToSet(s) \cup ToSet(t)
      BY <2>1 DEF ToSet
    <3>2. \A x \in ToSet(s) \cup ToSet(t) : x \in ToSet(c)
      BY <2>2 DEF ToSet
    <3>3. QED BY <3>1, <3>2
  <2>4. QED BY <2>3 DEF c
<1>8. QED BY <1>1, <1>2, <1>3, <1>4, <1>5, <1>7


-----------------------------------------------------------------------------
(* Sequences of sequences.                                                 *)

\* f holds what the first parts make together, for each number of them.
Joins(f, parts) ==
  f[0] = <<>> /\ \A i \in 1 .. Len(parts) : f[i] = f[i - 1] \o parts[i]

\* FlattenSeq puts the parts behind each other.
LEMMA FlattenJoins ==
  ASSUME NEW S, NEW parts \in Seq(Seq(S))
  PROVE  \E f \in [0 .. Len(parts) -> Seq(S)] : Joins(f, parts) /\ FlattenSeq(parts) = f[Len(parts)]
<1> DEFINE n == Len(parts)
           G == [i \in 0 .. n |-> [x \in Seq(S) |-> IF i = 0 THEN x ELSE x \o parts[i]]]
           flatten[i \in 1 .. n] == IF i = 1 THEN parts[i] ELSE flatten[i-1] \o parts[i]
<1>1. n \in Nat /\ \A i \in 1 .. n : parts[i] \in Seq(S)
  BY LenProperties, ElementOfSeq
<1>2. FlattenSeq(parts) = IF n = 0 THEN parts ELSE flatten[n]
  BY DEF FlattenSeq
<1> HIDE DEF n
<1>3. <<>> \in Seq(S) /\ G \in [0 .. n -> [Seq(S) -> Seq(S)]]
  <2>1. ASSUME NEW i \in 1 .. n, NEW x \in Seq(S) PROVE x \o parts[i] \in Seq(S)
    <3>1. parts[i] \in Seq(S)
      BY <1>1
    <3>2. QED BY <3>1, ConcatProperties
  <2>2. \A i \in 0 .. n : i # 0 => i \in 1 .. n
    BY <1>1
  <2>3. QED BY <2>1, <2>2
<1>4. PICK f \in [0 .. n -> Seq(S)] : \A i \in 0 .. n : f[i] = IF i = 0 THEN <<>> ELSE G[i][f[i-1]]
  <2> HIDE DEF G
  <2>1. Stepwise(n, Seq(S), <<>>, G)
    BY <1>1, <1>3, StepwiseExists
  <2>2. QED BY <2>1 DEF Stepwise
<1>5. f[0] = <<>> /\ \A i \in 1 .. n : f[i] = f[i - 1] \o parts[i]
  <2>1. \A i \in 1 .. n : i \in 0 .. n /\ i # 0 /\ i - 1 \in 0 .. n
    BY <1>1
  <2>2. f[0] = <<>>
    <3>1. 0 \in 0 .. n
      BY <1>1
    <3> HIDE DEF G
    <3>2. QED BY <3>1, <1>4
  <2>3. ASSUME NEW i \in 1 .. n PROVE f[i] = f[i - 1] \o parts[i]
    <3>1. f[i] = G[i][f[i-1]] /\ f[i-1] \in Seq(S)
      <4> HIDE DEF G
      <4>1. QED BY <2>1, <1>4
    <3>2. G[i][f[i-1]] = f[i-1] \o parts[i]
      BY <2>1, <3>1
    <3>3. QED BY <3>1, <3>2
  <2>4. QED BY <2>2, <2>3
<1>6. CASE n = 0
  <2>1. parts = <<>>
    BY <1>6, EmptySeq DEF n
  <2>2. FlattenSeq(parts) = f[n]
    BY <2>1, <1>2, <1>5, <1>6
  <2>3. QED BY <2>2, <1>5 DEF Joins, n
<1>7. CASE n # 0
  <2>0. f[1] = parts[1]
    <3>1. 1 \in 1 .. n /\ 1 - 1 = 0
      BY <1>1, <1>7
    <3>2. f[1] = f[0] \o parts[1] /\ parts[1] \in Seq(S)
      BY <3>1, <1>1, <1>5
    <3>3. QED BY <3>2, <1>5, ConcatEmptySeq
  <2> DEFINE g == [i \in 1 .. n |-> f[i]]
  <2>1. g = [i \in 1 .. n |-> IF i = 1 THEN parts[i] ELSE g[i-1] \o parts[i]]
    <3>1. ASSUME NEW i \in 1 .. n PROVE g[i] = IF i = 1 THEN parts[i] ELSE g[i-1] \o parts[i]
      <4>1. CASE i = 1
        <5>1. g[i] = f[1]
          BY <4>1
        <5>2. QED BY <4>1, <5>1, <2>0
      <4>2. CASE i # 1
        <5>1. i - 1 \in 1 .. n
          BY <4>2, <1>1
        <5>2. QED BY <4>2, <5>1, <1>5
      <4>3. QED BY <4>1, <4>2
    <3> HIDE DEF g
    <3>2. g \in [1 .. n -> {g[i] : i \in 1 .. n}]
      BY DEF g
    <3>3. QED BY <3>1, <3>2
  <2>2. flatten = [i \in 1 .. n |-> IF i = 1 THEN parts[i] ELSE flatten[i-1] \o parts[i]]
    <3> HIDE DEF g
    <3>1. QED BY <2>1
  <2> HIDE DEF flatten, g
  <2> DEFINE T == {i \in 0 .. n : i # 0 => flatten[i] = f[i]}
  <2>3. 0 \in T
    BY <1>1
  <2>4. ASSUME NEW i \in 0 .. n - 1, i \in T PROVE i + 1 \in T
    <3>1. i + 1 \in 1 .. n /\ i + 1 \in 0 .. n /\ (i + 1) - 1 = i /\ i \in Nat
      BY <1>1
    <3>2. CASE i = 0
      <4>1. i + 1 = 1 /\ 1 \in 1 .. n
        BY <3>1, <3>2
      <4>2. flatten[1] = parts[1]
        BY <4>1, <2>2
      <4>3. QED BY <3>1, <4>1, <4>2, <2>0
    <3>3. CASE i # 0
      <4>1. flatten[i] = f[i] /\ i + 1 # 1
        BY <2>4, <3>1, <3>3
      <4>2. flatten[i + 1] = flatten[i] \o parts[i + 1] /\ f[i + 1] = f[i] \o parts[i + 1]
        BY <3>1, <4>1, <2>2, <1>5
      <4>3. QED BY <3>1, <4>1, <4>2
    <3>4. QED BY <3>2, <3>3
  <2> HIDE DEF T
  <2>5. \A i \in 0 .. n : i \in T
    BY <1>1, <2>3, <2>4, UpTo
  <2>6. flatten[n] = f[n]
    <3>1. n \in T
      BY <2>5, <1>1
    <3>2. QED BY <3>1, <1>7 DEF T
  <2>7. FlattenSeq(parts) = f[n]
    BY <1>2, <1>7, <2>6 DEF flatten
  <2>8. QED BY <2>7, <1>5 DEF Joins, n
<1>8. QED BY <1>6, <1>7

\* Nothing, put together.
LEMMA FlattenNone == FlattenSeq(<<>>) = <<>>
<1>1. <<>> \in Seq(Seq({})) /\ Len(<<>>) = 0
  OBVIOUS
<1>2. \E f \in [0 .. Len(<<>>) -> Seq({})] : Joins(f, <<>>) /\ FlattenSeq(<<>>) = f[Len(<<>>)]
  BY <1>1, FlattenJoins
<1>3. QED BY <1>1, <1>2 DEF Joins

\* Finitely many numbers have a bound.
LEMMA BoundOf ==
  ASSUME NEW n \in Nat, NEW f, \A i \in 1 .. n : f[i] \in Nat
  PROVE  \E b \in Nat : \A i \in 1 .. n : f[i] <= b
<1> DEFINE T == {k \in 0 .. n : \E b \in Nat : \A i \in 1 .. k : f[i] <= b}
<1>1. 0 \in T
  OBVIOUS
<1>2. ASSUME NEW k \in 0 .. n - 1, k \in T PROVE k + 1 \in T
  <2>1. PICK b \in Nat : \A i \in 1 .. k : f[i] <= b
    BY <1>2
  <2>2. k + 1 \in 1 .. n
    OBVIOUS
  <2>3. f[k + 1] \in Nat
    BY <2>2
  <2>4. b + f[k + 1] \in Nat /\ \A i \in 1 .. k + 1 : f[i] <= b + f[k + 1]
    <3>1. \A i \in 1 .. k + 1 : i \in 1 .. n /\ (i \in 1 .. k \/ i = k + 1)
      OBVIOUS
    <3>2. \A i \in 1 .. k + 1 : f[i] \in Nat /\ (f[i] <= b \/ f[i] = f[k + 1])
      BY <2>1, <3>1
    <3>3. QED BY <2>3, <3>2
  <2>5. QED BY <2>2, <2>4
<1> HIDE DEF T
<1>3. \A k \in 0 .. n : k \in T
  BY <1>1, <1>2, UpTo
<1>4. n \in T
  BY <1>3
<1>5. QED BY <1>4 DEF T

\* The largest member.
LEMMA MaxOf ==
  ASSUME NEW n \in Nat, NEW T, T \subseteq 0 .. n, T # {}
  PROVE  Max(T) \in T /\ \A x \in T : x <= Max(T)
<1>1. PICK m \in T : \A x \in T : x <= m
  BY GreatestOf
<1>2. m \in Nat /\ \A x \in T : x \in Nat
  OBVIOUS
<1>3. \A x \in T : m >= x
  BY <1>1, <1>2
<1>4. \E y \in T : \A x \in T : y >= x
  BY <1>3
<1>5. Max(T) \in T /\ \A x \in T : Max(T) >= x
  BY <1>4 DEF Max
<1>6. QED BY <1>2, <1>5

-----------------------------------------------------------------------------
(* Parts and wholes.                                                       *)

\* Where the parts lie in a whole that they make together: part s from behind
\* place o[s - 1] to place o[s].
Places(o, parts, whole) ==
  /\ o \in [0 .. Len(parts) -> Nat] /\ o[0] = 0 /\ o[Len(parts)] = Len(whole)
  /\ \A s \in 1 .. Len(parts) :
       /\ o[s] = o[s - 1] + Len(parts[s]) /\ o[s] <= Len(whole)
       /\ \A j \in 1 .. Len(parts[s]) : whole[o[s - 1] + j] = parts[s][j]
  /\ \A k \in 1 .. Len(whole) : \E s \in 1 .. Len(parts) : \E j \in 1 .. Len(parts[s]) : k = o[s - 1] + j

\* FlattenSeq puts each part at its place.
LEMMA FlattenPlaces ==
  ASSUME NEW S, NEW parts \in Seq(Seq(S))
  PROVE  /\ FlattenSeq(parts) \in Seq(S)
         /\ \E o : /\ Places(o, parts, FlattenSeq(parts))
                   /\ \A m \in 0 .. Len(parts) : Len(FlattenSeq(SubSeq(parts, 1, m))) = o[m]
<1> DEFINE N == Len(parts)   Q == Seq(S)
<1>1. N \in Nat /\ \A s \in 1 .. N : parts[s] \in Q
  BY LenProperties, ElementOfSeq
<1>2. PICK f \in [0 .. N -> Q] : Joins(f, parts) /\ FlattenSeq(parts) = f[N]
  BY FlattenJoins
<1> DEFINE o == [m \in 0 .. N |-> Len(f[m])]
<1>3. f[0] = <<>> /\ \A s \in 1 .. N : f[s] = f[s - 1] \o parts[s]
  BY <1>2 DEF Joins
<1>4. \A m \in 0 .. N : f[m] \in Q /\ Len(f[m]) \in Nat
  BY <1>2, LenProperties
<1>5. o[0] = 0
  <2>1. Len(<<>>) = 0 /\ 0 \in 0 .. N
    BY <1>1, EmptySeq
  <2> HIDE DEF N
  <2>2. QED BY <2>1, <1>3
<1>6. ASSUME NEW s \in 1 .. N
      PROVE  /\ o[s] = o[s - 1] + Len(parts[s]) /\ Len(parts[s]) \in Nat /\ o[s - 1] \in Nat /\ o[s] \in Nat
             /\ \A i \in 1 .. o[s] : f[s][i] = IF i <= o[s - 1] THEN f[s - 1][i] ELSE parts[s][i - o[s - 1]]
  <2>1. s - 1 \in 0 .. N /\ s \in 0 .. N
    BY <1>1
  <2>2. f[s - 1] \in Seq(S) /\ parts[s] \in Seq(S)
    BY <2>1, <1>1, <1>4
  <2>3. /\ Len(f[s - 1] \o parts[s]) = Len(f[s - 1]) + Len(parts[s])
        /\ \A i \in 1 .. Len(f[s - 1]) + Len(parts[s]) :
             (f[s - 1] \o parts[s])[i] = IF i <= Len(f[s - 1]) THEN f[s - 1][i] ELSE parts[s][i - Len(f[s - 1])]
    BY <2>2, ConcatProperties
  <2>4. o[s] = Len(f[s]) /\ o[s - 1] = Len(f[s - 1]) /\ f[s] = f[s - 1] \o parts[s] /\ Len(parts[s]) \in Nat
    BY <2>1, <2>2, <1>3, LenProperties
  <2>5. Len(f[s]) \in Nat /\ Len(f[s - 1]) \in Nat
    BY <2>1, <1>4
  <2> HIDE DEF o, N
  <2>6. QED BY <2>3, <2>4, <2>5
<1> DEFINE Placed(m) == /\ \A s \in 1 .. m : o[s] <= o[m] /\ \A j \in 1 .. Len(parts[s]) : f[m][o[s - 1] + j] = parts[s][j]
                        /\ \A k \in 1 .. o[m] : \E s \in 1 .. m : \E j \in 1 .. Len(parts[s]) : k = o[s - 1] + j
           T == {m \in 0 .. N : Placed(m)}
<1>7. \A m \in 0 .. N : o[m] = Len(f[m]) /\ o[m] \in Nat
  BY <1>4
<1> HIDE DEF o, N
<1>8. 0 \in T
  BY <1>1, <1>5
<1>9. ASSUME NEW m \in 0 .. N - 1, m \in T PROVE m + 1 \in T
  <2>1. m + 1 \in 1 .. N /\ m + 1 \in 0 .. N /\ (m + 1) - 1 = m /\ m \in 0 .. N /\ m \in Nat
    BY <1>1
  <2> DEFINE t == m + 1   n == Len(parts[m + 1])
  <2>2. /\ o[t] = o[m] + n /\ n \in Nat /\ o[m] \in Nat /\ o[t] \in Nat
        /\ \A i \in 1 .. o[t] : f[t][i] = IF i <= o[m] THEN f[m][i] ELSE parts[t][i - o[m]]
    <3>1. t \in 1 .. N
      BY <2>1
    <3>2. /\ o[t] = o[t - 1] + Len(parts[t]) /\ Len(parts[t]) \in Nat /\ o[t - 1] \in Nat /\ o[t] \in Nat
          /\ \A i \in 1 .. o[t] : f[t][i] = IF i <= o[t - 1] THEN f[t - 1][i] ELSE parts[t][i - o[t - 1]]
      BY ONLY <3>1, <1>6
    <3>3. t - 1 = m
      BY <2>1
    <3>4. QED BY <3>2, <3>3
  <2>3. Placed(m)
    BY <1>9
  <2> HIDE DEF n
  <2>4. ASSUME NEW s \in 1 .. t
        PROVE  o[s] <= o[t] /\ \A j \in 1 .. Len(parts[s]) : f[t][o[s - 1] + j] = parts[s][j]
    <3>1. CASE s = t
      <4>1. \A j \in 1 .. n : ~(o[m] + j <= o[m]) /\ (o[m] + j) - o[m] = j /\ o[m] + j \in 1 .. o[t]
        BY <2>2
      <4>2. \A j \in 1 .. n : f[t][o[m] + j] = parts[t][j]
        BY <2>2, <4>1
      <4>3. s - 1 = m /\ Len(parts[s]) = n
        BY <3>1, <2>1 DEF n
      <4>4. QED BY <3>1, <2>2, <4>2, <4>3
    <3>2. CASE s # t
      <4>1. s \in 1 .. m /\ s \in 1 .. N /\ s \in 0 .. N
        BY <3>2, <2>1, <1>1
      <4>2. o[s] = o[s - 1] + Len(parts[s]) /\ Len(parts[s]) \in Nat /\ o[s - 1] \in Nat /\ o[s] <= o[m] /\ o[s] \in Nat
        BY <4>1, <1>6, <2>3
      <4>3. \A j \in 1 .. Len(parts[s]) : o[s - 1] + j \in 1 .. o[t] /\ o[s - 1] + j <= o[m]
        <5> DEFINE x == o[s - 1]   l == Len(parts[s])   y == o[m]   z == o[t]
        <5>1. x \in Nat /\ l \in Nat /\ y \in Nat /\ z \in Nat /\ x + l <= y /\ y <= z
          BY <4>2, <2>2
        <5> HIDE DEF x, l, y, z
        <5>2. \A j \in 1 .. l : x + j \in 1 .. z /\ x + j <= y
          BY <5>1
        <5>3. QED BY <5>2 DEF x, l, y, z
      <4>4. \A j \in 1 .. Len(parts[s]) : f[t][o[s - 1] + j] = f[m][o[s - 1] + j]
        BY <4>3, <2>2
      <4>5. QED BY <4>1, <4>2, <4>4, <2>2, <2>3
    <3>3. QED BY <3>1, <3>2
  <2>5. ASSUME NEW k \in 1 .. o[t]
        PROVE  \E s \in 1 .. t : \E j \in 1 .. Len(parts[s]) : k = o[s - 1] + j
    <3>1. CASE k <= o[m]
      <4>1. k \in 1 .. o[m]
        BY <3>1, <2>2
      <4>2. PICK s \in 1 .. m : \E j \in 1 .. Len(parts[s]) : k = o[s - 1] + j
        BY <4>1, <2>3
      <4>3. s \in 1 .. t
        BY <2>1
      <4>4. QED BY <4>2, <4>3
    <3>2. CASE ~(k <= o[m])
      <4>1. k - o[m] \in 1 .. n /\ k = o[m] + (k - o[m])
        BY <3>2, <2>2
      <4>2. t \in 1 .. t /\ t - 1 = m /\ Len(parts[t]) = n
        BY <2>1 DEF n
      <4>3. \E j \in 1 .. Len(parts[t]) : k = o[t - 1] + j
        BY <4>1, <4>2
      <4>4. QED BY <4>2, <4>3
    <3>3. QED BY <3>1, <3>2
  <2>6. Placed(t)
    BY <2>4, <2>5
  <2> HIDE DEF Placed
  <2>7. QED BY <2>1, <2>6
<1>10. Placed(N)
  <2> HIDE DEF T
  <2>1. \A m \in 0 .. N : m \in T
    BY <1>1, <1>8, <1>9, UpTo
  <2>2. N \in T
    BY <1>1, <2>1
  <2> HIDE DEF Placed
  <2>3. QED BY <2>2 DEF T
<1>11. o[N] = Len(f[N]) /\ f[N] \in Seq(S)
  <2>1. N \in 0 .. N
    BY <1>1
  <2>2. QED BY <2>1, <1>4, <1>7
<1>12. Places(o, parts, f[N])
  <2>1. o \in [0 .. N -> Nat]
    <3>1. o = [m \in 0 .. N |-> Len(f[m])]
      BY DEF o
    <3>2. QED BY <3>1, <1>4
  <2>2. \A s \in 1 .. N : o[s] = o[s - 1] + Len(parts[s])
    BY <1>6
  <2>3. /\ \A s \in 1 .. N : o[s] <= Len(f[N]) /\ \A j \in 1 .. Len(parts[s]) : f[N][o[s - 1] + j] = parts[s][j]
        /\ \A k \in 1 .. Len(f[N]) : \E s \in 1 .. N : \E j \in 1 .. Len(parts[s]) : k = o[s - 1] + j
    BY <1>10, <1>11
  <2> HIDE DEF Placed
  <2>4. QED BY <2>1, <2>2, <2>3, <1>5, <1>11 DEF Places, N
<1>13. ASSUME NEW m \in 0 .. N PROVE Len(FlattenSeq(SubSeq(parts, 1, m))) = o[m]
  <2> DEFINE b == SubSeq(parts, 1, m)
  <2>1. m \in Nat /\ m <= N /\ \A s \in 1 .. m : s \in 1 .. N
    BY <1>1
  <2>2. \A s \in 1 .. m : parts[s] \in Q
    BY <2>1, <1>1
  <2>3. b \in Seq(Q) /\ Len(b) = m /\ \A s \in 1 .. m : b[s] = parts[s]
    <3> HIDE DEF Q
    <3>1. QED BY <2>1, <2>2, Beginning
  <2> HIDE DEF b
  <2>4. PICK g \in [0 .. Len(b) -> Q] : Joins(g, b) /\ FlattenSeq(b) = g[Len(b)]
    BY <2>3, FlattenJoins
  <2>5. g[0] = <<>> /\ \A s \in 1 .. m : g[s] = g[s - 1] \o parts[s]
    BY <2>3, <2>4 DEF Joins
  <2> DEFINE U == {s \in 0 .. m : g[s] = f[s]}
  <2>6. 0 \in U
    BY <2>1, <2>5, <1>3
  <2>7. ASSUME NEW s \in 0 .. m - 1, s \in U PROVE s + 1 \in U
    <3>1. s + 1 \in 1 .. m /\ s + 1 \in 1 .. N /\ (s + 1) - 1 = s /\ s + 1 \in 0 .. m
      BY <2>1, <1>1
    <3>2. g[s + 1] = g[(s + 1) - 1] \o parts[s + 1] /\ f[s + 1] = f[(s + 1) - 1] \o parts[s + 1]
      BY <3>1, <2>5, <1>3
    <3>3. QED BY <3>1, <3>2, <2>7
  <2> HIDE DEF U
  <2>8. \A s \in 0 .. m : s \in U
    BY <2>1, <2>6, <2>7, UpTo
  <2>9. g[m] = f[m]
    BY <2>1, <2>8 DEF U
  <2>10. QED BY <2>3, <2>4, <2>9, <1>7 DEF b
<1>14. QED BY <1>2, <1>11, <1>12, <1>13 DEF N

\* What Places says, and that later parts lie behind earlier ones.
LEMMA PlacesGrow ==
  ASSUME NEW S, NEW parts \in Seq(Seq(S)), NEW whole \in Seq(S), NEW o, Places(o, parts, whole)
  PROVE  /\ Len(parts) \in Nat /\ Len(whole) \in Nat /\ \A s \in 1 .. Len(parts) : Len(parts[s]) \in Nat
         /\ \A s \in 0 .. Len(parts) : o[s] \in Nat
         /\ \A s \in 1 .. Len(parts) : \A j \in 1 .. Len(parts[s]) : o[s - 1] + j \in 1 .. Len(whole)
         /\ \A s, t \in 1 .. Len(parts) : s < t => o[s] <= o[t - 1]
<1> DEFINE N == Len(parts)
<1>1. N \in Nat /\ Len(whole) \in Nat /\ \A s \in 1 .. N : Len(parts[s]) \in Nat
  <2>1. \A s \in 1 .. N : parts[s] \in Seq(S)
    BY LenProperties, ElementOfSeq
  <2>2. QED BY <2>1, LenProperties
<1>2. \A s \in 0 .. N : o[s] \in Nat
  BY DEF Places
<1>3. \A s \in 1 .. N : o[s] = o[s - 1] + Len(parts[s]) /\ o[s] <= Len(whole)
  BY DEF Places
<1> HIDE DEF N
<1>4. ASSUME NEW s \in 1 .. N, NEW j \in 1 .. Len(parts[s]) PROVE o[s - 1] + j \in 1 .. Len(whole)
  <2>1. o[s - 1] \in Nat /\ o[s] = o[s - 1] + Len(parts[s]) /\ o[s] <= Len(whole)
    <3>1. s - 1 \in 0 .. N
      BY <1>1
    <3>2. QED BY <3>1, <1>2, <1>3
  <2> DEFINE x == o[s - 1]   l == Len(parts[s])   z == Len(whole)
  <2>2. x \in Nat /\ l \in Nat /\ z \in Nat /\ x + l <= z /\ j \in 1 .. l
    BY <2>1, <1>1
  <2> HIDE DEF x, l, z
  <2>3. x + j \in 1 .. z
    BY <2>2
  <2>4. QED BY <2>3 DEF x, z
<1>5. ASSUME NEW s \in 1 .. N, NEW t \in 1 .. N, s < t PROVE o[s] <= o[t - 1]
  <2> DEFINE n == t - 1 - s
             T == {k \in 0 .. n : o[s] <= o[s + k]}
  <2>1. n \in Nat /\ s + 0 = s /\ s + n = t - 1 /\ s \in 0 .. N
    BY <1>1, <1>5
  <2>2. 0 \in T
    BY <2>1, <1>2
  <2>3. ASSUME NEW k \in 0 .. n - 1, k \in T PROVE k + 1 \in T
    <3>1. s + k + 1 \in 1 .. N /\ (s + k + 1) - 1 = s + k /\ s + k \in 0 .. N /\ k + 1 \in 0 .. n /\ s + (k + 1) = s + k + 1
      BY <2>1, <1>1
    <3>2. o[s + k + 1] = o[(s + k + 1) - 1] + Len(parts[s + k + 1]) /\ Len(parts[s + k + 1]) \in Nat
      BY <3>1, <1>1, <1>3
    <3>3. o[s + k] \in Nat /\ o[s] \in Nat /\ o[s] <= o[s + k]
      BY <3>1, <2>1, <1>2, <2>3
    <3>4. o[s] <= o[s + k + 1]
      <4> DEFINE x == o[s]   y == o[s + k]   z == o[s + k + 1]   l == Len(parts[s + k + 1])
      <4>1. z = y + l /\ l \in Nat /\ x \in Nat /\ y \in Nat /\ x <= y
        BY <3>1, <3>2, <3>3
      <4> HIDE DEF x, y, z, l
      <4>2. x <= z
        BY <4>1
      <4>3. QED BY <4>2 DEF x, z
    <3>5. QED BY <3>1, <3>4
  <2> HIDE DEF T, n
  <2>4. \A k \in 0 .. n : k \in T
    BY <2>1, <2>2, <2>3, UpTo
  <2>5. o[s] <= o[s + n]
    <3>1. n \in T
      BY <2>1, <2>4
    <3>2. \A k \in T : o[s] <= o[s + k]
      BY DEF T
    <3>3. QED BY <3>1, <3>2
  <2>6. QED BY <2>1, <2>5
<1>6. QED BY <1>1, <1>2, <1>4, <1>5 DEF N

\* No two parts share a place.
LEMMA PlacesApart ==
  ASSUME NEW S, NEW parts \in Seq(Seq(S)), NEW whole \in Seq(S), NEW o, Places(o, parts, whole),
         NEW s \in 1 .. Len(parts), NEW t \in 1 .. Len(parts),
         NEW i \in 1 .. Len(parts[s]), NEW j \in 1 .. Len(parts[t]), o[s - 1] + i = o[t - 1] + j
  PROVE  s = t /\ i = j
<1>1. /\ Len(parts) \in Nat /\ Len(parts[s]) \in Nat /\ Len(parts[t]) \in Nat
      /\ \A k \in 0 .. Len(parts) : o[k] \in Nat
      /\ s < t => o[s] <= o[t - 1]
      /\ t < s => o[t] <= o[s - 1]
  BY PlacesGrow
<1>2. s - 1 \in 0 .. Len(parts) /\ t - 1 \in 0 .. Len(parts)
  BY <1>1
<1>3. o[s] = o[s - 1] + Len(parts[s]) /\ o[t] = o[t - 1] + Len(parts[t]) /\ o[s - 1] \in Nat /\ o[t - 1] \in Nat
  BY <1>1, <1>2 DEF Places
<1> DEFINE x == o[s - 1]   y == o[t - 1]   m == Len(parts[s])   n == Len(parts[t])
<1>4. /\ x \in Nat /\ y \in Nat /\ m \in Nat /\ n \in Nat /\ i \in 1 .. m /\ j \in 1 .. n /\ x + i = y + j
      /\ s < t => x + m <= y
      /\ t < s => y + n <= x
  BY <1>1, <1>3
<1>5. s = t => x = y
  OBVIOUS
<1>6. s \in Int /\ t \in Int
  BY <1>1
<1> HIDE DEF x, y, m, n
<1>7. QED BY <1>4, <1>5, <1>6

\* Parts of the same lengths lie at the same places.
LEMMA PlacesSame ==
  ASSUME NEW a, NEW b, NEW v, NEW w, NEW o, NEW p, Places(o, a, v), Places(p, b, w),
         Len(a) \in Nat, Len(a) = Len(b), \A s \in 1 .. Len(a) : Len(a[s]) = Len(b[s])
  PROVE  Len(v) = Len(w) /\ \A s \in 0 .. Len(a) : o[s] = p[s]
<1> DEFINE N == Len(a)
           T == {s \in 0 .. N : o[s] = p[s]}
<1>1. o[0] = 0 /\ p[0] = 0 /\ o[N] = Len(v) /\ p[N] = Len(w)
  BY DEF Places
<1>2. \A s \in 1 .. N : o[s] = o[s - 1] + Len(a[s]) /\ p[s] = p[s - 1] + Len(a[s])
  BY DEF Places
<1>3. N \in Nat
  OBVIOUS
<1> HIDE DEF N
<1>4. 0 \in T
  BY <1>1, <1>3
<1>5. ASSUME NEW s \in 0 .. N - 1, s \in T PROVE s + 1 \in T
  <2>1. s + 1 \in 1 .. N /\ (s + 1) - 1 = s /\ s + 1 \in 0 .. N
    BY <1>3
  <2>2. o[s + 1] = o[(s + 1) - 1] + Len(a[s + 1]) /\ p[s + 1] = p[(s + 1) - 1] + Len(a[s + 1])
    BY <2>1, <1>2
  <2>3. QED BY <2>1, <2>2, <1>5
<1> HIDE DEF T
<1>6. \A s \in 0 .. N : s \in T
  BY <1>3, <1>4, <1>5, UpTo
<1>7. \A s \in 0 .. N : o[s] = p[s]
  BY <1>6 DEF T
<1>8. QED BY <1>1, <1>3, <1>7 DEF N

\* A whole has what its parts have, and each once if the parts do.
LEMMA FlattenHolds ==
  ASSUME NEW S, NEW parts \in Seq(Seq(S))
  PROVE  /\ FlattenSeq(parts) \in Seq(S)
         /\ \A x : x \in ToSet(FlattenSeq(parts))
                   <=> \E s \in 1 .. Len(parts) : \E i \in 1 .. Len(parts[s]) : x = parts[s][i]
         /\ (\A s, t \in 1 .. Len(parts) : \A i \in 1 .. Len(parts[s]) : \A j \in 1 .. Len(parts[t]) :
               parts[s][i] = parts[t][j] => s = t /\ i = j)
            => IsInjective(FlattenSeq(parts))
<1> DEFINE whole == FlattenSeq(parts)
<1>1. whole \in Seq(S) /\ \E o : Places(o, parts, whole)
  BY FlattenPlaces
<1>2. PICK o : Places(o, parts, whole)
  BY <1>1
<1> HIDE DEF whole
<1>3. DOMAIN whole = 1 .. Len(whole)
  BY <1>1, LenProperties
<1>4. \A s \in 1 .. Len(parts) : \A j \in 1 .. Len(parts[s]) :
        o[s - 1] + j \in 1 .. Len(whole) /\ whole[o[s - 1] + j] = parts[s][j]
  <2>1. \A s \in 1 .. Len(parts) : \A j \in 1 .. Len(parts[s]) : o[s - 1] + j \in 1 .. Len(whole)
    BY <1>1, <1>2, PlacesGrow
  <2>2. \A s \in 1 .. Len(parts) : \A j \in 1 .. Len(parts[s]) : whole[o[s - 1] + j] = parts[s][j]
    BY <1>2 DEF Places
  <2>3. QED BY <2>1, <2>2
<1>5. \A k \in 1 .. Len(whole) : \E s \in 1 .. Len(parts) : \E j \in 1 .. Len(parts[s]) : k = o[s - 1] + j
  BY <1>2 DEF Places
<1>6. \A x : x \in ToSet(whole) <=> \E k \in 1 .. Len(whole) : whole[k] = x
  BY <1>3 DEF ToSet
<1>7. ASSUME NEW x
      PROVE  x \in ToSet(whole) <=> \E s \in 1 .. Len(parts) : \E i \in 1 .. Len(parts[s]) : x = parts[s][i]
  <2>1. ASSUME x \in ToSet(whole)
        PROVE  \E s \in 1 .. Len(parts) : \E i \in 1 .. Len(parts[s]) : x = parts[s][i]
    <3>1. PICK k \in 1 .. Len(whole) : whole[k] = x
      BY <1>6, <2>1
    <3>2. PICK s \in 1 .. Len(parts) : \E j \in 1 .. Len(parts[s]) : k = o[s - 1] + j
      BY <1>5
    <3>3. PICK j \in 1 .. Len(parts[s]) : k = o[s - 1] + j
      BY <3>2
    <3>4. x = parts[s][j]
      BY <1>4, <3>1, <3>3
    <3>5. QED BY <3>4
  <2>2. ASSUME NEW s \in 1 .. Len(parts), NEW i \in 1 .. Len(parts[s]), x = parts[s][i]
        PROVE  x \in ToSet(whole)
    BY <1>4, <1>6, <2>2
  <2>3. QED BY <2>1, <2>2
<1>8. ASSUME \A s, t \in 1 .. Len(parts) : \A i \in 1 .. Len(parts[s]) : \A j \in 1 .. Len(parts[t]) :
               parts[s][i] = parts[t][j] => s = t /\ i = j
      PROVE  IsInjective(whole)
  <2> SUFFICES ASSUME NEW k \in 1 .. Len(whole), NEW m \in 1 .. Len(whole), whole[k] = whole[m]
               PROVE  k = m
    BY <1>3 DEF IsInjective
  <2>1. PICK s \in 1 .. Len(parts) : \E j \in 1 .. Len(parts[s]) : k = o[s - 1] + j
    BY <1>5
  <2>2. PICK i \in 1 .. Len(parts[s]) : k = o[s - 1] + i
    BY <2>1
  <2>3. PICK t \in 1 .. Len(parts) : \E j \in 1 .. Len(parts[t]) : m = o[t - 1] + j
    BY <1>5
  <2>4. PICK j \in 1 .. Len(parts[t]) : m = o[t - 1] + j
    BY <2>3
  <2>5. whole[k] = parts[s][i] /\ whole[m] = parts[t][j]
    BY <1>4, <2>2, <2>4
  <2>6. parts[s][i] = parts[t][j] => s = t /\ i = j
    BY <1>8, Zenon
  <2>8. s = t /\ i = j
    BY <2>5, <2>6
  <2>7. QED BY <2>2, <2>4, <2>8
<1>9. QED BY <1>1, <1>7, <1>8 DEF whole

\* A piece of an arena.
LEMMA PieceOf ==
  ASSUME NEW S, NEW whole \in Seq(S), NEW off \in Nat, NEW len \in Nat, off + len <= Len(whole)
  PROVE  LET piece == SubSeq(whole, off + 1, off + len)
         IN  piece \in Seq(S) /\ Len(piece) = len /\ \A j \in 1 .. len : piece[j] = whole[off + j]
<1> DEFINE m == off + len   n == Len(whole)
<1>1. n \in Nat /\ \A i \in 1 .. n : whole[i] \in S
  BY LenProperties, ElementOfSeq
<1>2. off \in Nat /\ m \in Nat /\ off <= m /\ m - off = len /\ m <= n
  BY <1>1
<1> HIDE DEF m, n
<1>3. \A i \in off + 1 .. m : whole[i] \in S
  <2>1. \A i \in off + 1 .. m : i \in 1 .. n
    BY <1>1, <1>2
  <2>2. QED BY <1>1, <2>1
<1>4. /\ SubSeq(whole, off + 1, m) \in Seq(S) /\ Len(SubSeq(whole, off + 1, m)) = m - off
      /\ \A i \in 1 .. m - off : SubSeq(whole, off + 1, m)[i] = whole[off + i]
  BY <1>2, <1>3, Ending
<1>5. QED BY <1>2, <1>4 DEF m

-----------------------------------------------------------------------------
(* Numbers in order.                                                       *)

\* How many numbers come before a point, where the smaller ones do.
LEMMA PointOf ==
  ASSUME NEW n \in Nat, NEW T, T \subseteq 1 .. n, \A i \in T : \A j \in 1 .. i : j \in T
  PROVE  LET U == {0} \cup {k \in 1 .. n : \A i \in 1 .. k : i \in T}
         IN  Max(U) \in 0 .. n /\ \A i \in 1 .. n : i \in T <=> i <= Max(U)
<1> DEFINE U == {0} \cup {k \in 1 .. n : \A i \in 1 .. k : i \in T}
           m == Max(U)
<1>1. U \subseteq 0 .. n /\ U # {}
  OBVIOUS
<1>2. m \in U /\ \A x \in U : x <= m
  <2> HIDE DEF U
  <2>1. QED BY <1>1, MaxOf
<1>3. m \in 0 .. n
  BY <1>1, <1>2
<1> HIDE DEF m
<1>4. ASSUME NEW i \in 1 .. n, i \in T PROVE i <= m
  BY <1>2, <1>4
<1>5. ASSUME NEW i \in 1 .. n, i <= m PROVE i \in T
  BY <1>2, <1>3, <1>5
<1> HIDE DEF U
<1>6. QED BY <1>3, <1>4, <1>5 DEF m, U

\* Where the entries begin whose parent is i, and where they end.
StartsAt(lo, n, parent, i) == lo = Max({0} \cup {k \in 1 .. n : \A j \in 1 .. k : parent[j] < i})
EndsAt(hi, n, parent, i)   == hi = Max({0} \cup {k \in 1 .. n : \A j \in 1 .. k : parent[j] <= i})

LEMMA PointsOf ==
  ASSUME NEW n \in Nat, NEW parent, \A k \in 1 .. n : parent[k] \in Nat,
         \A k, m \in 1 .. n : k < m => parent[k] <= parent[m], NEW i \in Nat,
         NEW first, NEW last, StartsAt(first, n, parent, i), EndsAt(last, n, parent, i)
  PROVE  /\ first \in 0 .. n /\ last \in 0 .. n /\ first <= last
         /\ \A k \in 1 .. n : parent[k] = i <=> first < k /\ k <= last
<1> DEFINE L == {k \in 1 .. n : parent[k] < i}
           H == {k \in 1 .. n : parent[k] <= i}
           lo == Max({0} \cup {k \in 1 .. n : \A j \in 1 .. k : j \in L})
           hi == Max({0} \cup {k \in 1 .. n : \A j \in 1 .. k : j \in H})
<1>1. L \subseteq 1 .. n /\ \A k \in L : \A j \in 1 .. k : j \in L
  <2> SUFFICES ASSUME NEW k \in L, NEW j \in 1 .. k PROVE j \in L
    OBVIOUS
  <2>1. j \in 1 .. n /\ k \in 1 .. n /\ (j = k \/ j < k)
    OBVIOUS
  <2>2. parent[j] <= parent[k] /\ parent[k] < i /\ parent[j] \in Nat /\ parent[k] \in Nat
    BY <2>1
  <2>3. QED BY <2>1, <2>2
<1>2. H \subseteq 1 .. n /\ \A k \in H : \A j \in 1 .. k : j \in H
  <2> SUFFICES ASSUME NEW k \in H, NEW j \in 1 .. k PROVE j \in H
    OBVIOUS
  <2>1. j \in 1 .. n /\ k \in 1 .. n /\ (j = k \/ j < k)
    OBVIOUS
  <2>2. parent[j] <= parent[k] /\ parent[k] <= i /\ parent[j] \in Nat /\ parent[k] \in Nat
    BY <2>1
  <2>3. QED BY <2>1, <2>2
<1>3. \A k \in 1 .. n : parent[k] = i <=> k \in H /\ k \notin L
  <2> SUFFICES ASSUME NEW k \in 1 .. n PROVE parent[k] = i <=> k \in H /\ k \notin L
    OBVIOUS
  <2>1. parent[k] \in Nat
    OBVIOUS
  <2>2. QED BY <2>1
<1>4. \A k \in L : k \in H
  <2> SUFFICES ASSUME NEW k \in L PROVE k \in H
    OBVIOUS
  <2>1. parent[k] \in Nat
    OBVIOUS
  <2>2. QED BY <2>1
<1>5. Max({0} \cup {k \in 1 .. n : \A j \in 1 .. k : parent[j] < i}) = lo
  <2>1. {k \in 1 .. n : \A j \in 1 .. k : parent[j] < i} = {k \in 1 .. n : \A j \in 1 .. k : j \in L}
    <3>1. \A k \in 1 .. n : \A j \in 1 .. k : j \in L <=> parent[j] < i
      OBVIOUS
    <3> HIDE DEF L
    <3>2. QED BY <3>1
  <2>2. QED BY <2>1
<1>6. Max({0} \cup {k \in 1 .. n : \A j \in 1 .. k : parent[j] <= i}) = hi
  <2>1. {k \in 1 .. n : \A j \in 1 .. k : parent[j] <= i} = {k \in 1 .. n : \A j \in 1 .. k : j \in H}
    <3>1. \A k \in 1 .. n : \A j \in 1 .. k : j \in H <=> parent[j] <= i
      OBVIOUS
    <3> HIDE DEF H
    <3>2. QED BY <3>1
  <2>2. QED BY <2>1
<1> HIDE DEF L, H
<1>7. lo \in 0 .. n /\ \A k \in 1 .. n : k \in L <=> k <= lo
  BY <1>1, PointOf
<1>8. hi \in 0 .. n /\ \A k \in 1 .. n : k \in H <=> k <= hi
  BY <1>2, PointOf
<1> HIDE DEF lo, hi
<1>9. lo <= hi
  <2>1. CASE lo = 0
    BY <1>8, <2>1
  <2>2. CASE lo # 0
    <3>1. lo \in 1 .. n /\ lo \in L
      BY <1>7, <2>2
    <3>2. lo \in H
      BY <1>4, <3>1
    <3>3. QED BY <1>8, <3>1, <3>2
  <2>3. QED BY <2>1, <2>2
<1>10. \A k \in 1 .. n : parent[k] = i <=> lo < k /\ k <= hi
  <2> SUFFICES ASSUME NEW k \in 1 .. n PROVE parent[k] = i <=> lo < k /\ k <= hi
    OBVIOUS
  <2>1. (k \in L <=> k <= lo) /\ (k \in H <=> k <= hi) /\ (parent[k] = i <=> k \in H /\ k \notin L)
    BY <1>3, <1>7, <1>8
  <2>2. QED BY <2>1, <1>7
<1>11. first = lo /\ last = hi
  BY <1>5, <1>6 DEF StartsAt, EndsAt
<1>12. QED BY <1>7, <1>8, <1>9, <1>10, <1>11
=============================================================================
