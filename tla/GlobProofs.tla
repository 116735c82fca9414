----------------------------- MODULE GlobProofs -----------------------------
(***************************************************************************)
(* What the operators of Glob return, for every pattern and text: the      *)
(* matcher of the code, with its one backtrack point, accepts what the     *)
(* wildcards mean, and nothing else.                                       *)
(***************************************************************************)
EXTENDS Glob, ListLemmas

\* The smallest member.
LEMMA MinOf ==
  ASSUME NEW T, T \subseteq Nat, T # {}
  PROVE  Min(T) \in T /\ \A x \in T : Min(T) <= x
<1>1. \E x \in T : \A y \in T : x <= y
  BY LeastOf
<1>2. QED BY <1>1 DEF Min

LEMMA LowerIsByte ==
  ASSUME NEW b \in Byte
  PROVE  Lower(b) \in Byte /\ Lower(Lower(b)) = Lower(b)
BY DEF Byte, Lower

-----------------------------------------------------------------------------
(* Character sets.                                                         *)

IsRange(pat, i) == i + 2 <= Len(pat) /\ pat[i + 1] = Dash /\ pat[i + 2] # Close

Accepts(pat, i, ch) ==
  LET last == IF IsRange(pat, i) THEN i + 2 ELSE i
  IN  Lower(pat[i]) <= Lower(ch) /\ Lower(ch) <= Lower(pat[last])

Ahead(pat, i) == IF IsRange(pat, i) THEN i + 3 ELSE i + 1

\* f gives what is found of a set from each of its members on.
ClassRun(pat, start, ch, f) ==
  \A i \in FirstMember(pat, start) .. Len(pat) + 1 :
    f[i] = IF i > Len(pat) THEN [next |-> 0, hit |-> FALSE]
           ELSE IF pat[i] = Close /\ i # FirstMember(pat, start) THEN [next |-> i + 1, hit |-> FALSE]
           ELSE [f[Ahead(pat, i)] EXCEPT !.hit = @ \/ Accepts(pat, i, ch)]

LEMMA FirstMemberIs ==
  ASSUME NEW pat \in Seq(Byte), NEW start \in 1 .. Len(pat)
  PROVE  FirstMember(pat, start) \in start + 1 .. Len(pat) + 1
<1>1. Len(pat) \in Nat
  BY LenProperties
<1>2. QED BY <1>1 DEF FirstMember, Negated

LEMMA AheadIs ==
  ASSUME NEW pat \in Seq(Byte), NEW i \in 1 .. Len(pat)
  PROVE  Ahead(pat, i) \in i + 1 .. Len(pat) + 1
<1>1. Len(pat) \in Nat
  BY LenProperties
<1>2. QED BY <1>1 DEF Ahead, IsRange

LEMMA ClassRuns ==
  ASSUME NEW pat \in Seq(Byte), NEW start \in 1 .. Len(pat), NEW ch
  PROVE  \E f \in [FirstMember(pat, start) .. Len(pat) + 1 -> [next : Nat, hit : BOOLEAN]] :
           /\ ClassRun(pat, start, ch, f)
           /\ ClassMatch(pat, start, ch) = [f[FirstMember(pat, start)] EXCEPT !.hit = (@ # Negated(pat, start))]
<1> DEFINE first == FirstMember(pat, start)
           n == Len(pat)
           S == [next : Nat, hit : BOOLEAN]
           none == [next |-> 0, hit |-> FALSE]
           Stops(i) == pat[i] = Close /\ i # first
           from[i \in first .. n + 1] ==
             IF i > n THEN none
             ELSE IF Stops(i) THEN [next |-> i + 1, hit |-> FALSE]
             ELSE [from[Ahead(pat, i)] EXCEPT !.hit = @ \/ Accepts(pat, i, ch)]
           ahead == [i \in first .. n |-> Ahead(pat, i)]
           G == [i \in first .. n |-> [x \in S |->
                   IF Stops(i) THEN [next |-> i + 1, hit |-> FALSE]
                   ELSE [x EXCEPT !.hit = @ \/ Accepts(pat, i, ch)]]]
<1>1. n \in Nat /\ first \in Nat /\ first >= 1 /\ first <= n + 1 /\ start \in Nat
  BY LenProperties, FirstMemberIs
<1>2. \A i \in first .. n : ahead[i] \in i + 1 .. n + 1
  <2>1. ASSUME NEW i \in first .. n PROVE ahead[i] \in i + 1 .. n + 1
    <3>1. i \in 1 .. n
      BY <1>1
    <3>2. QED BY <3>1, AheadIs
  <2>2. QED BY <2>1
<1>3. none \in S /\ \A i \in first .. n : \A x \in S : G[i][x] \in S
  <2>1. \A i \in first .. n : i + 1 \in Nat
    BY <1>1
  <2>2. QED BY <2>1
<1> HIDE DEF S, G, none
<1>4. PICK f \in [first .. n + 1 -> S] :
        \A i \in first .. n + 1 : f[i] = IF i = n + 1 THEN none ELSE G[i][f[ahead[i]]]
  <2> HIDE DEF first, n, ahead
  <2>1. first \in Int /\ n + 1 \in Int /\ (n + 1) - 1 = n
    BY <1>1
  <2>2. Later(first, n + 1, S, none, ahead, G)
    BY <1>1, <1>2, <1>3, <2>1, LaterExists
  <2>3. QED BY <2>2 DEF Later
<1>5. ASSUME NEW i \in first .. n + 1
      PROVE  f[i] = IF i > n THEN none
                    ELSE IF Stops(i) THEN [next |-> i + 1, hit |-> FALSE]
                    ELSE [f[Ahead(pat, i)] EXCEPT !.hit = @ \/ Accepts(pat, i, ch)]
  <2>1. CASE i = n + 1
    <3>1. i > n
      BY <2>1, <1>1
    <3>2. QED BY <2>1, <3>1, <1>4
  <2>2. CASE i # n + 1
    <3>1. i \in first .. n /\ ~(i > n)
      BY <2>2, <1>1
    <3>2. ahead[i] = Ahead(pat, i) /\ Ahead(pat, i) \in first .. n + 1
      <4>1. ahead[i] = Ahead(pat, i) /\ ahead[i] \in i + 1 .. n + 1
        BY <3>1, <1>2
      <4>2. QED BY <4>1, <3>1, <1>1
    <3>3. f[Ahead(pat, i)] \in S
      BY <3>2
    <3>4. f[i] = G[i][f[Ahead(pat, i)]]
      BY <2>2, <3>2, <1>4
    <3>5. G[i][f[Ahead(pat, i)]] = IF Stops(i) THEN [next |-> i + 1, hit |-> FALSE]
                                   ELSE [f[Ahead(pat, i)] EXCEPT !.hit = @ \/ Accepts(pat, i, ch)]
      BY <3>1, <3>3 DEF G
    <3>6. QED BY <3>1, <3>4, <3>5
  <2>3. QED BY <2>1, <2>2
<1>6. f = [i \in first .. n + 1 |->
             IF i > n THEN none
             ELSE IF Stops(i) THEN [next |-> i + 1, hit |-> FALSE]
             ELSE [f[Ahead(pat, i)] EXCEPT !.hit = @ \/ Accepts(pat, i, ch)]]
  <2> HIDE DEF Stops, first, n
  <2>1. QED BY <1>4, <1>5
<1>7. from = [i \in first .. n + 1 |->
                IF i > n THEN none
                ELSE IF Stops(i) THEN [next |-> i + 1, hit |-> FALSE]
                ELSE [from[Ahead(pat, i)] EXCEPT !.hit = @ \/ Accepts(pat, i, ch)]]
  <2> HIDE DEF Stops, first, n
  <2>1. QED BY <1>6
<1>8. ClassMatch(pat, start, ch) = [from[first] EXCEPT !.hit = (@ # Negated(pat, start))]
  BY DEF ClassMatch, Ahead, Accepts, IsRange, none
<1> HIDE DEF from
<1>9. ASSUME NEW i \in first .. n + 1
      PROVE  from[i] = IF i > n THEN none
                       ELSE IF Stops(i) THEN [next |-> i + 1, hit |-> FALSE]
                       ELSE [from[Ahead(pat, i)] EXCEPT !.hit = @ \/ Accepts(pat, i, ch)]
  <2> HIDE DEF Stops, first, n
  <2>1. QED BY <1>7
<1>10. \A i \in first .. n + 1 : from[i] \in S
  <2> DEFINE T == {i \in first .. n + 1 : from[i] \in S}
  <2>1. n + 1 \in T
    <3>1. n + 1 \in first .. n + 1 /\ n + 1 > n
      BY <1>1
    <3>2. QED BY <3>1, <1>3, <1>9
  <2>2. ASSUME NEW i \in first .. n, \A j \in i + 1 .. n + 1 : j \in T PROVE i \in T
    <3>1. i \in first .. n + 1 /\ ~(i > n) /\ i + 1 \in Nat
      BY <1>1
    <3>2. Ahead(pat, i) \in T
      BY <1>2, <2>2
    <3>3. from[Ahead(pat, i)] \in S
      BY <3>2
    <3>4. [from[Ahead(pat, i)] EXCEPT !.hit = @ \/ Accepts(pat, i, ch)] \in S
      BY <3>3 DEF S
    <3>5. [next |-> i + 1, hit |-> FALSE] \in S
      BY <3>1 DEF S
    <3>6. from[i] \in S
      BY <3>1, <3>4, <3>5, <1>9
    <3>7. QED BY <3>1, <3>6
  <2> HIDE DEF T
  <2>3. \A i \in first .. n + 1 : i \in T
    <3> HIDE DEF first, n
    <3>1. first \in Int /\ n + 1 \in Int /\ (n + 1) - 1 = n
      BY <1>1
    <3>2. QED BY <1>1, <2>1, <2>2, <3>1, DownTo
  <2>4. QED BY <2>3 DEF T
<1>11. from \in [first .. n + 1 -> S]
  <2>1. \E g : from = [i \in first .. n + 1 |-> g[i]]
    <3>1. from = [i \in first .. n + 1 |-> from[i]]
      <4> HIDE DEF first, n, Stops
      <4>1. QED BY <1>7
    <3>2. QED BY <3>1
  <2>2. QED BY <2>1, <1>10
<1>12. ClassRun(pat, start, ch, from)
  <2>1. none = [next |-> 0, hit |-> FALSE]
    BY DEF none
  <2>2. QED BY <1>9, <2>1 DEF ClassRun
<1>13. QED BY <1>8, <1>11, <1>12 DEF S

\* class_match ends a set where class_end does, whatever the character; so the
\* matcher and trailing_literal read a pattern alike.
LEMMA ClassMatchIs ==
  ASSUME NEW pat \in Seq(Byte), NEW start \in 1 .. Len(pat), NEW ch
  PROVE  /\ ClassMatch(pat, start, ch).next = ClassEnd(pat, start)
         /\ ClassMatch(pat, start, ch).hit \in BOOLEAN
         /\ ClassEnd(pat, start) = 0 \/ ClassEnd(pat, start) \in start + 2 .. Len(pat) + 1
<1> DEFINE first == FirstMember(pat, start)
           n == Len(pat)
           S == [next : Nat, hit : BOOLEAN]
           Ends(i) == {j \in i .. n : pat[j] = Close}
           Closing(i) == IF Ends(i) = {} THEN 0 ELSE Min(Ends(i)) + 1
           Open1(i) == IF i = first THEN first + 1 ELSE i
<1>1. n \in Nat /\ first \in Nat /\ first >= 1 /\ first <= n + 1 /\ start \in Nat /\ first >= start + 1
  BY LenProperties, FirstMemberIs
<1>2. PICK f \in [first .. n + 1 -> S] :
        /\ ClassRun(pat, start, ch, f)
        /\ ClassMatch(pat, start, ch) = [f[first] EXCEPT !.hit = (@ # Negated(pat, start))]
  BY ClassRuns
<1>3. first \in first .. n + 1
  BY <1>1
<1>4. ClassMatch(pat, start, ch).next = f[first].next /\ ClassMatch(pat, start, ch).hit \in BOOLEAN
  <2>1. f[first] \in S
    BY <1>3
  <2> HIDE DEF first
  <2>2. QED BY <1>2, <2>1
<1>5. ClassEnd(pat, start) = Closing(first + 1)
  BY DEF ClassEnd
<1>6. \A i \in Nat : Closing(i) = 0 \/ Closing(i) \in i + 1 .. n + 1
  <2>1. ASSUME NEW i \in Nat, Ends(i) # {} PROVE Min(Ends(i)) + 1 \in i + 1 .. n + 1
    <3>1. Ends(i) \subseteq Nat /\ \A x \in Ends(i) : x \in i .. n
      BY <1>1
    <3> HIDE DEF Ends
    <3>2. Min(Ends(i)) \in i .. n
      BY <3>1, <2>1, MinOf
    <3>3. QED BY <3>2, <1>1
  <2>2. QED BY <2>1
<1>7. ASSUME NEW i \in Nat, NEW k \in Nat, i <= k, \A j \in i .. k - 1 : j \in 1 .. n => pat[j] # Close, i >= 1
      PROVE  Closing(i) = Closing(k)
  <2>1. Ends(i) = Ends(k)
    BY <1>7, <1>1
  <2>2. QED BY <2>1
<1>8. ASSUME NEW i \in Nat, i \in 1 .. n, pat[i] = Close PROVE Closing(i) = i + 1
  <2>1. i \in Ends(i) /\ Ends(i) \subseteq Nat /\ \A x \in Ends(i) : i <= x
    BY <1>8, <1>1
  <2>2. Min(Ends(i)) = i
    <3> HIDE DEF Ends
    <3>1. Min(Ends(i)) \in Ends(i) /\ Min(Ends(i)) <= i
      BY <2>1, MinOf
    <3>2. QED BY <3>1, <2>1
  <2>3. QED BY <2>1, <2>2
<1>9. Closing(n + 1) = 0
  BY <1>1
<1> DEFINE T == {i \in first .. n + 1 : f[i].next = Closing(Open1(i))}
<1> HIDE DEF Closing
<1>10. n + 1 \in T
  <2>1. n + 1 \in first .. n + 1 /\ n + 1 > n
    BY <1>1
  <2>2. f[n + 1].next = 0
    BY <2>1, <1>2 DEF ClassRun
  <2>3. Closing(Open1(n + 1)) = 0
    <3>1. CASE n + 1 = first
      <4>1. Open1(n + 1) = n + 2
        BY <3>1, <1>1
      <4>2. Closing(n + 2) = 0
        BY <1>6, <1>1
      <4>3. QED BY <4>1, <4>2
    <3>2. CASE n + 1 # first
      BY <3>2, <1>9
    <3>3. QED BY <3>1, <3>2
  <2>4. QED BY <2>1, <2>2, <2>3
<1>11. ASSUME NEW i \in first .. n, \A j \in i + 1 .. n + 1 : j \in T PROVE i \in T
  <2>1. i \in first .. n + 1 /\ ~(i > n) /\ i \in 1 .. n /\ i \in Nat
    BY <1>1
  <2>2. CASE pat[i] = Close /\ i # first
    <3>1. f[i].next = i + 1
      BY <2>1, <2>2, <1>2 DEF ClassRun
    <3>2. Closing(Open1(i)) = i + 1
      BY <2>1, <2>2, <1>8
    <3>3. QED BY <2>1, <3>1, <3>2
  <2>3. CASE ~(pat[i] = Close /\ i # first)
    <3> DEFINE k == Ahead(pat, i)
    <3>1. k \in i + 1 .. n + 1
      BY <2>1, AheadIs
    <3>2. k \in T /\ k \in first .. n + 1 /\ k # first /\ k \in Nat
      BY <3>1, <1>11, <1>1
    <3>3. f[i] = [f[k] EXCEPT !.hit = @ \/ Accepts(pat, i, ch)]
      BY <2>1, <2>3, <1>2 DEF ClassRun
    <3>4. f[i].next = f[k].next
      <4>1. f[k] \in S
        BY <3>2
      <4> HIDE DEF k
      <4>2. QED BY <3>3, <4>1
    <3>5. \A j \in i + 1 .. k - 1 : pat[j] # Close
      <4>1. CASE IsRange(pat, i)
        <5>1. k = i + 3 /\ pat[i + 1] = Dash /\ pat[i + 2] # Close
          BY <4>1 DEF Ahead, IsRange
        <5>2. \A j \in i + 1 .. k - 1 : j = i + 1 \/ j = i + 2
          BY <5>1, <2>1
        <5>3. QED BY <5>1, <5>2 DEF Dash, Close
      <4>2. CASE ~IsRange(pat, i)
        <5>1. k = i + 1
          BY <4>2 DEF Ahead
        <5>2. QED BY <5>1, <2>1
      <4>3. QED BY <4>1, <4>2
    <3>6. \A j \in Open1(i) .. k - 1 : pat[j] # Close
      <4>1. CASE i = first
        BY <4>1, <3>5
      <4>2. CASE i # first
        <5>1. \A j \in i .. k - 1 : j = i \/ j \in i + 1 .. k - 1
          BY <2>1
        <5>2. QED BY <5>1, <3>5, <2>3, <4>2
      <4>3. QED BY <4>1, <4>2
    <3>7. Open1(i) \in Nat /\ Open1(i) <= k /\ Open1(i) >= 1
      BY <3>1, <2>1
    <3>8. Closing(Open1(i)) = Closing(k)
      <4> DEFINE o == Open1(i)
      <4> HIDE DEF o, k
      <4>1. o \in Nat /\ k \in Nat /\ o <= k /\ o >= 1 /\ \A j \in o .. k - 1 : pat[j] # Close
        BY <3>2, <3>6, <3>7 DEF o
      <4>2. Closing(o) = Closing(k)
        BY <4>1, <1>7
      <4>3. QED BY <4>2 DEF o
    <3>9. f[k].next = Closing(k)
      BY <3>2
    <3>10. QED BY <2>1, <3>4, <3>8, <3>9
  <2>4. QED BY <2>2, <2>3
<1>12. first \in T
  <2> HIDE DEF T, first, n
  <2>1. first \in Int /\ n + 1 \in Int /\ (n + 1) - 1 = n
    BY <1>1
  <2>2. \A i \in first .. n + 1 : i \in T
    BY <1>1, <1>10, <1>11, <2>1, DownTo
  <2>3. QED BY <2>2, <1>3
<1>13. f[first].next = Closing(first + 1)
  BY <1>12
<1>14. Closing(first + 1) = 0 \/ Closing(first + 1) \in start + 2 .. n + 1
  <2>1. first + 1 \in Nat /\ first + 2 >= start + 2 /\ (first + 1) + 1 = first + 2
    BY <1>1
  <2>2. Closing(first + 1) = 0 \/ Closing(first + 1) \in first + 2 .. n + 1
    BY <2>1, <1>6
  <2>3. QED BY <2>1, <2>2, <1>1
<1>15. QED BY <1>4, <1>5, <1>13, <1>14

\* A set takes a letter in either case.
LEMMA ClassMatchFolds ==
  ASSUME NEW pat \in Seq(Byte), NEW start \in 1 .. Len(pat), NEW ch \in Byte
  PROVE  ClassMatch(pat, start, Lower(ch)) = ClassMatch(pat, start, ch)
<1> DEFINE first == FirstMember(pat, start)
           n == Len(pat)
           S == [next : Nat, hit : BOOLEAN]
<1>1. n \in Nat /\ first \in Nat /\ first >= 1 /\ first <= n + 1
  BY LenProperties, FirstMemberIs
<1>2. PICK f \in [first .. n + 1 -> S] :
        /\ ClassRun(pat, start, ch, f)
        /\ ClassMatch(pat, start, ch) = [f[first] EXCEPT !.hit = (@ # Negated(pat, start))]
  BY ClassRuns
<1>3. PICK g \in [first .. n + 1 -> S] :
        /\ ClassRun(pat, start, Lower(ch), g)
        /\ ClassMatch(pat, start, Lower(ch)) = [g[first] EXCEPT !.hit = (@ # Negated(pat, start))]
  BY ClassRuns
<1>4. \A i : Accepts(pat, i, Lower(ch)) = Accepts(pat, i, ch)
  BY LowerIsByte DEF Accepts
<1> DEFINE T == {i \in first .. n + 1 : f[i] = g[i]}
<1>5. n + 1 \in T
  <2>1. n + 1 \in first .. n + 1 /\ n + 1 > n
    BY <1>1
  <2>2. QED BY <2>1, <1>2, <1>3 DEF ClassRun
<1>6. ASSUME NEW i \in first .. n, \A j \in i + 1 .. n + 1 : j \in T PROVE i \in T
  <2>1. i \in first .. n + 1 /\ ~(i > n) /\ i \in 1 .. n
    BY <1>1
  <2>2. CASE pat[i] = Close /\ i # first
    BY <2>1, <2>2, <1>2, <1>3 DEF ClassRun
  <2>3. CASE ~(pat[i] = Close /\ i # first)
    <3> DEFINE k == Ahead(pat, i)
    <3>1. k \in T
      BY <2>1, <1>6, AheadIs
    <3>2. /\ f[i] = [f[k] EXCEPT !.hit = @ \/ Accepts(pat, i, ch)]
          /\ g[i] = [g[k] EXCEPT !.hit = @ \/ Accepts(pat, i, Lower(ch))]
      BY <2>1, <2>3, <1>2, <1>3 DEF ClassRun
    <3>3. f[k] = g[k]
      BY <3>1
    <3> HIDE DEF k
    <3>4. QED BY <2>1, <3>2, <3>3, <1>4
  <2>4. QED BY <2>2, <2>3
<1>7. first \in T
  <2> HIDE DEF T, first, n
  <2>1. first \in Int /\ n + 1 \in Int /\ (n + 1) - 1 = n
    BY <1>1
  <2>2. \A i \in first .. n + 1 : i \in T
    BY <1>1, <1>5, <1>6, <2>1, DownTo
  <2>3. first \in first .. n + 1
    BY <1>1
  <2>4. QED BY <2>2, <2>3
<1>8. f[first] = g[first]
  BY <1>7
<1>9. QED BY <1>2, <1>3, <1>8

-----------------------------------------------------------------------------
(* The items of a pattern.                                                 *)

\* Where the item at p ends, whatever it takes.
ItemEnd(pat, p) ==
  IF pat[p] = Open /\ ClassEnd(pat, p) # 0 THEN ClassEnd(pat, p)
  ELSE IF pat[p] = Escape /\ p < Len(pat) THEN p + 2
  ELSE p + 1

LEMMA StepIs ==
  ASSUME NEW pat \in Seq(Byte), NEW p \in 1 .. Len(pat), NEW ch
  PROVE  /\ ItemEnd(pat, p) \in p + 1 .. Len(pat) + 1
         /\ Step(pat, p, ch) = 0 \/ Step(pat, p, ch) = ItemEnd(pat, p)
<1> DEFINE class == ClassMatch(pat, p, ch)
<1>1. Len(pat) \in Nat /\ p \in Nat
  BY LenProperties
<1>2. /\ class.next = ClassEnd(pat, p)
      /\ ClassEnd(pat, p) = 0 \/ ClassEnd(pat, p) \in p + 2 .. Len(pat) + 1
  BY ClassMatchIs
<1>3. ItemEnd(pat, p) \in p + 1 .. Len(pat) + 1
  BY <1>1, <1>2 DEF ItemEnd
<1> HIDE DEF class
<1>4. CASE pat[p] = Question
  <2>1. Step(pat, p, ch) = p + 1 /\ ItemEnd(pat, p) = p + 1
    BY <1>4 DEF Step, ItemEnd, Question, Open, Escape
  <2>2. QED BY <2>1, <1>3
<1>5. CASE pat[p] = Open
  <2>1. Step(pat, p, ch) = AfterClass(class, AfterLiteral(Open, ch, p + 1))
    <3>1. pat[p] # Question /\ pat[p] # Escape
      BY <1>5 DEF Question, Open, Escape
    <3>2. Step(pat, p, ch) = AfterClass(ClassMatch(pat, p, ch), AfterLiteral(Open, ch, p + 1))
      BY <1>5, <3>1 DEF Step
    <3>3. QED BY <3>2 DEF class
  <2>2. ItemEnd(pat, p) = IF ClassEnd(pat, p) # 0 THEN ClassEnd(pat, p) ELSE p + 1
    BY <1>5 DEF ItemEnd, Open, Escape
  <2>3. QED BY <2>1, <2>2, <1>2, <1>3 DEF AfterClass, AfterLiteral
<1>6. CASE pat[p] = Escape /\ p < Len(pat)
  <2>1. Step(pat, p, ch) = AfterLiteral(pat[p + 1], ch, p + 2) /\ ItemEnd(pat, p) = p + 2
    BY <1>6 DEF Step, ItemEnd, Question, Open, Escape
  <2>2. QED BY <2>1, <1>3 DEF AfterLiteral
<1>7. CASE pat[p] # Question /\ pat[p] # Open /\ ~(pat[p] = Escape /\ p < Len(pat))
  <2>1. Step(pat, p, ch) = AfterLiteral(pat[p], ch, p + 1) /\ ItemEnd(pat, p) = p + 1
    BY <1>7 DEF Step, ItemEnd
  <2>2. QED BY <2>1, <1>3 DEF AfterLiteral
<1>8. QED BY <1>4, <1>5, <1>6, <1>7

LEMMA StepFolds ==
  ASSUME NEW pat \in Seq(Byte), NEW p \in 1 .. Len(pat), NEW ch \in Byte
  PROVE  Step(pat, p, Lower(ch)) = Step(pat, p, ch)
<1>1. Lower(Lower(ch)) = Lower(ch)
  BY LowerIsByte
<1>2. ClassMatch(pat, p, Lower(ch)) = ClassMatch(pat, p, ch)
  BY ClassMatchFolds
<1>3. \A c, next : AfterLiteral(c, Lower(ch), next) = AfterLiteral(c, ch, next)
  BY <1>1 DEF AfterLiteral
<1>4. QED BY <1>2, <1>3 DEF Step

-----------------------------------------------------------------------------
(* From which positions of the pattern the rest of a text fits.            *)

Goes(pat, p, ch) == IF p > Len(pat) THEN {}
                    ELSE IF pat[p] = Star THEN {p} ELSE {Step(pat, p, ch)} \ {0}

\* b gives these positions for the rest from each character on.
Ways(pat, text, b) ==
  /\ b \in [1 .. Len(text) + 1 -> SUBSET (1 .. Len(pat) + 1)]
  /\ b[Len(text) + 1] = {p \in 1 .. Len(pat) + 1 : \A i \in p .. Len(pat) : pat[i] = Star}
  /\ \A t \in 1 .. Len(text) :
       b[t] = {p \in 1 .. Len(pat) + 1 :
                 \E q \in PastStars(pat, {p}) : Goes(pat, q, text[t]) \cap b[t + 1] # {}}

LEMMA WaysExist ==
  ASSUME NEW pat \in Seq(Byte), NEW text \in Seq(Byte)
  PROVE  \E b : Ways(pat, text, b)
<1> DEFINE n == Len(text)
           S == SUBSET (1 .. Len(pat) + 1)
           a == {p \in 1 .. Len(pat) + 1 : \A i \in p .. Len(pat) : pat[i] = Star}
           Before(t, X) == {p \in 1 .. Len(pat) + 1 :
                              \E q \in PastStars(pat, {p}) : Goes(pat, q, text[t]) \cap X # {}}
           ahead == [i \in 1 .. n |-> i + 1]
           G == [i \in 1 .. n |-> [X \in S |-> Before(i, X)]]
<1>1. n \in Nat /\ 1 \in Int /\ n + 1 \in Int /\ 1 <= n + 1 /\ (n + 1) - 1 = n
  BY LenProperties
<1>2. a \in S /\ \A i \in 1 .. n : \A X \in S : G[i][X] \in S
  OBVIOUS
<1>3. \A i \in 1 .. n : ahead[i] = i + 1 /\ ahead[i] \in i + 1 .. n + 1
  BY <1>1
<1>4. \A i \in 1 .. n : \A X \in S : G[i][X] = Before(i, X)
  OBVIOUS
<1> HIDE DEF ahead, G, a, S, Before
<1>5. PICK b \in [1 .. n + 1 -> S] :
        \A i \in 1 .. n + 1 : b[i] = IF i = n + 1 THEN a ELSE G[i][b[ahead[i]]]
  <2> HIDE DEF n
  <2>1. Later(1, n + 1, S, a, ahead, G)
    BY <1>1, <1>2, <1>3, LaterExists
  <2>2. QED BY <2>1 DEF Later
<1>6. b[n + 1] = a
  BY <1>1, <1>5
<1>7. ASSUME NEW t \in 1 .. n PROVE b[t] = Before(t, b[t + 1])
  <2>1. t \in 1 .. n + 1 /\ t # n + 1 /\ t + 1 \in 1 .. n + 1
    BY <1>1
  <2>2. b[t] = G[t][b[t + 1]] /\ b[t + 1] \in S
    BY <2>1, <1>3, <1>5
  <2>3. QED BY <2>2, <1>4
<1>8. QED BY <1>5, <1>6, <1>7 DEF Ways, a, S, Before

LEMMA GoesInside ==
  ASSUME NEW pat \in Seq(Byte), NEW p \in 1 .. Len(pat) + 1, NEW ch
  PROVE  Goes(pat, p, ch) \subseteq 1 .. Len(pat) + 1
<1>1. Len(pat) \in Nat
  BY LenProperties
<1>2. CASE p \in 1 .. Len(pat)
  <2>1. /\ ItemEnd(pat, p) \in 1 .. Len(pat) + 1
        /\ Step(pat, p, ch) = 0 \/ Step(pat, p, ch) = ItemEnd(pat, p)
    BY <1>1, <1>2, StepIs
  <2>2. QED BY <2>1 DEF Goes
<1>3. CASE p \notin 1 .. Len(pat)
  BY <1>1, <1>3 DEF Goes
<1>4. QED BY <1>2, <1>3

\* Fits goes through a text from its beginning, Ways from its end.
LEMMA FitsByWays ==
  ASSUME NEW pat \in Seq(Byte), NEW text \in Seq(Byte), NEW b, Ways(pat, text, b)
  PROVE  Fits(pat, text) <=> 1 \in b[1]
<1> DEFINE n == Len(text)
           m == Len(pat)
           S == SUBSET (1 .. m + 1)
           Next(t, X) == UNION {Goes(pat, p, text[t]) : p \in X}
           at[t \in 0 .. n] == PastStars(pat, IF t = 0 THEN {1} ELSE Next(t, at[t - 1]))
           G == [t \in 0 .. n |-> [X \in S |-> PastStars(pat, Next(t, X))]]
           x == [t \in 0 .. n |-> IF t = 0 THEN {1} ELSE Next(t, at[t - 1])]
<1>1. n \in Nat /\ m \in Nat
  BY LenProperties
<1>2. PastStars(pat, {1}) \in S /\ G \in [0 .. n -> [S -> S]]
  BY DEF PastStars
<1>3. PICK f \in [0 .. n -> S] : \A t \in 0 .. n : f[t] = IF t = 0 THEN PastStars(pat, {1}) ELSE G[t][f[t-1]]
  <2> HIDE DEF G, S, n
  <2>1. Stepwise(n, S, PastStars(pat, {1}), G)
    BY <1>1, <1>2, StepwiseExists
  <2>2. QED BY <2>1 DEF Stepwise
<1>4. f = [t \in 0 .. n |-> PastStars(pat, IF t = 0 THEN {1} ELSE Next(t, f[t - 1]))]
  <2>1. \A t \in 0 .. n : t # 0 => t - 1 \in 0 .. n
    BY <1>1
  <2>2. \A t \in 0 .. n : t # 0 => G[t][f[t-1]] = PastStars(pat, Next(t, f[t-1]))
    BY <1>3, <2>1
  <2> HIDE DEF G, S, n, Next
  <2>3. QED BY <1>3, <2>2
<1>5. at = [t \in 0 .. n |-> PastStars(pat, IF t = 0 THEN {1} ELSE Next(t, at[t - 1]))]
  <2> HIDE DEF Next, n
  <2>1. QED BY <1>4
<1>6. Fits(pat, text) <=> m + 1 \in at[n]
  BY DEF Fits, Goes
<1> HIDE DEF at, G
<1>7. \A t \in 0 .. n : at[t] = PastStars(pat, x[t])
  <2> HIDE DEF Next
  <2>1. QED BY <1>5
<1>8. x[0] = {1} /\ \A t \in 0 .. n - 1 : x[t + 1] = Next(t + 1, at[t])
  BY <1>1
<1> HIDE DEF x
<1>13. \A t \in 0 .. n : x[t] \subseteq 1 .. m + 1
  <2>1. ASSUME NEW t \in 0 .. n - 1 PROVE x[t + 1] \subseteq 1 .. m + 1
    <3>1. x[t + 1] = UNION {Goes(pat, p, text[t + 1]) : p \in at[t]}
      BY <1>8
    <3>2. at[t] \subseteq 1 .. m + 1
      BY <1>7 DEF PastStars
    <3>3. \A p \in 1 .. m + 1 : Goes(pat, p, text[t + 1]) \subseteq 1 .. m + 1
      BY GoesInside
    <3>4. QED BY <3>1, <3>2, <3>3
  <2>2. x[0] \subseteq 1 .. m + 1
    BY <1>1, <1>8
  <2>3. \A t \in 0 .. n : t = 0 \/ (t - 1 \in 0 .. n - 1 /\ (t - 1) + 1 = t)
    BY <1>1
  <2>4. QED BY <2>1, <2>2, <2>3
<1> DEFINE T == {t \in 0 .. n : 1 \in b[1] <=> \E r \in x[t] : r \in b[t + 1]}
<1>9. 0 \in T
  BY <1>1, <1>8
<1>10. ASSUME NEW t \in 0 .. n - 1, t \in T PROVE t + 1 \in T
  <2>1. t + 1 \in 1 .. n /\ t + 1 \in 0 .. n /\ t \in 0 .. n
    BY <1>1
  <2>2. b[t + 1] = {p \in 1 .. m + 1 : \E q \in PastStars(pat, {p}) : Goes(pat, q, text[t + 1]) \cap b[(t + 1) + 1] # {}}
    BY <2>1 DEF Ways
  <2> DEFINE Goal(q) == Goes(pat, q, text[t + 1]) \cap b[(t + 1) + 1] # {}
  <2>3. x[t] \subseteq 1 .. m + 1
    BY <2>1, <1>13
  <2>4. (\E r \in x[t] : r \in b[t + 1]) <=> \E q \in at[t] : Goal(q)
    <3>1. \A r \in 1 .. m + 1 : r \in b[t + 1] <=> \E q \in PastStars(pat, {r}) : Goal(q)
      BY <2>2
    <3>2. at[t] = PastStars(pat, x[t])
      BY <2>1, <1>7
    <3> HIDE DEF Goal
    <3>3. \A q : q \in at[t] <=> \E r \in x[t] : q \in PastStars(pat, {r})
      BY <3>2 DEF PastStars
    <3>4. QED BY <2>3, <3>1, <3>3
  <2>5. (\E q \in at[t] : Goal(q)) <=> \E r \in x[t + 1] : r \in b[(t + 1) + 1]
    <3>1. x[t + 1] = UNION {Goes(pat, q, text[t + 1]) : q \in at[t]}
      BY <1>8
    <3>2. QED BY <3>1
  <2>6. QED BY <2>1, <2>4, <2>5, <1>10
<1> HIDE DEF T
<1>11. n \in T
  <2> HIDE DEF n
  <2>1. \A t \in 0 .. n : t \in T
    BY <1>1, <1>9, <1>10, UpTo
  <2>2. QED BY <2>1, <1>1
<1>12. 1 \in b[1] <=> \E r \in x[n] : r \in b[n + 1]
  BY <1>11 DEF T
<1>14. m + 1 \in at[n] <=> \E r \in x[n] : r \in b[n + 1]
  <2>1. at[n] = PastStars(pat, x[n]) /\ x[n] \subseteq 1 .. m + 1
    BY <1>1, <1>7, <1>13
  <2>2. b[n + 1] = {p \in 1 .. m + 1 : \A i \in p .. m : pat[i] = Star}
    BY DEF Ways
  <2>3. m + 1 \in at[n] <=> \E r \in x[n] : r <= m + 1 /\ \A i \in r .. (m + 1) - 1 : pat[i] = Star
    BY <2>1, <1>1 DEF PastStars
  <2>4. (m + 1) - 1 = m /\ \A r \in x[n] : r <= m + 1
    BY <1>1, <2>1
  <2> HIDE DEF n, m
  <2>5. QED BY <2>1, <2>2, <2>3, <2>4
<1>15. QED BY <1>6, <1>12, <1>14

LEMMA PastStarsAre ==
  ASSUME NEW pat \in Seq(Byte), NEW p \in 1 .. Len(pat) + 1
  PROVE  /\ p = Len(pat) + 1 \/ pat[p] # Star => PastStars(pat, {p}) = {p}
         /\ p # Len(pat) + 1 /\ pat[p] = Star => /\ p + 1 \in 1 .. Len(pat) + 1
                                                 /\ PastStars(pat, {p}) = {p} \cup PastStars(pat, {p + 1})
<1> DEFINE m == Len(pat)
           Past(k) == {q \in 1 .. m + 1 : k <= q /\ \A i \in k .. q - 1 : pat[i] = Star}
<1>1. m \in Nat /\ p \in 1 .. m + 1 /\ p \in Nat
  BY LenProperties
<1>2. \A k : PastStars(pat, {k}) = Past(k)
  BY DEF PastStars
<1> HIDE DEF m
<1>3. ASSUME p = m + 1 \/ pat[p] # Star PROVE Past(p) = {p}
  <2>1. p \in Past(p)
    BY <1>1
  <2>2. ASSUME NEW q \in Past(p), q # p PROVE FALSE
    <3>1. p \in p .. q - 1 /\ q \in 1 .. m + 1 /\ p < q
      BY <2>2, <1>1
    <3>2. pat[p] = Star
      BY <3>1
    <3>3. p # m + 1
      BY <3>1, <1>1
    <3>4. QED BY <3>2, <3>3, <1>3
  <2> HIDE DEF Past
  <2>3. QED BY <2>1, <2>2
<1>4. ASSUME p # m + 1, pat[p] = Star PROVE p + 1 \in 1 .. m + 1 /\ Past(p) = {p} \cup Past(p + 1)
  <2>1. p + 1 \in 1 .. m + 1 /\ p \in Past(p)
    BY <1>1, <1>4
  <2>2. ASSUME NEW q \in Past(p), q # p PROVE q \in Past(p + 1)
    <3>1. q \in 1 .. m + 1 /\ p + 1 <= q /\ \A i \in p + 1 .. q - 1 : i \in p .. q - 1
      BY <2>2, <1>1
    <3>2. QED BY <3>1, <2>2
  <2>3. ASSUME NEW q \in Past(p + 1) PROVE q \in Past(p)
    <3>1. q \in 1 .. m + 1 /\ p <= q /\ \A i \in p .. q - 1 : i = p \/ i \in p + 1 .. q - 1
      BY <2>3, <1>1
    <3>2. QED BY <3>1, <2>3, <1>4
  <2> HIDE DEF Past
  <2>4. QED BY <2>1, <2>2, <2>3
<1>5. QED BY <1>2, <1>3, <1>4 DEF m

\* How the positions go back by one character.
LEMMA WaysGoBack ==
  ASSUME NEW pat \in Seq(Byte), NEW text \in Seq(Byte), NEW b, Ways(pat, text, b)
  PROVE  /\ \A t \in 1 .. Len(text) + 1 : b[t] \subseteq 1 .. Len(pat) + 1
         /\ \A p \in 1 .. Len(pat) + 1 :
              p \in b[Len(text) + 1] <=> \A i \in p .. Len(pat) : pat[i] = Star
         /\ \A t \in 1 .. Len(text) : Len(pat) + 1 \notin b[t]
         /\ \A t \in 1 .. Len(text), p \in 1 .. Len(pat) :
              pat[p] # Star => (p \in b[t] <=> Step(pat, p, text[t]) # 0 /\ Step(pat, p, text[t]) \in b[t + 1])
         /\ \A t \in 1 .. Len(text), p \in 1 .. Len(pat) :
              pat[p] = Star => (p \in b[t] <=> p + 1 \in b[t] \/ p \in b[t + 1])
<1> DEFINE n == Len(text)
           m == Len(pat)
<1>1. n \in Nat /\ m \in Nat
  BY LenProperties
<1>2. \A t \in 1 .. n + 1 : b[t] \subseteq 1 .. m + 1
  BY DEF Ways
<1>3. \A p \in 1 .. m + 1 : p \in b[n + 1] <=> \A i \in p .. m : pat[i] = Star
  BY DEF Ways
<1>4. \A t \in 1 .. n, p \in 1 .. m + 1 :
        p \in b[t] <=> \E q \in PastStars(pat, {p}) : Goes(pat, q, text[t]) \cap b[t + 1] # {}
  <2> SUFFICES ASSUME NEW t \in 1 .. n, NEW p \in 1 .. m + 1
               PROVE  p \in b[t] <=> \E q \in PastStars(pat, {p}) : Goes(pat, q, text[t]) \cap b[t + 1] # {}
    OBVIOUS
  <2>1. b[t] = {r \in 1 .. m + 1 : \E q \in PastStars(pat, {r}) : Goes(pat, q, text[t]) \cap b[t + 1] # {}}
    BY DEF Ways
  <2> HIDE DEF m, n
  <2>2. QED BY <2>1
<1>5. ASSUME NEW t \in 1 .. n PROVE m + 1 \notin b[t]
  <2>1. m + 1 \in 1 .. m + 1 /\ m + 1 > m
    BY <1>1
  <2>2. PastStars(pat, {m + 1}) = {m + 1}
    BY <2>1, PastStarsAre
  <2>3. Goes(pat, m + 1, text[t]) = {}
    BY <2>1 DEF Goes
  <2>4. QED BY <2>1, <2>2, <2>3, <1>4
<1>6. ASSUME NEW t \in 1 .. n, NEW p \in 1 .. m, pat[p] # Star
      PROVE  p \in b[t] <=> Step(pat, p, text[t]) # 0 /\ Step(pat, p, text[t]) \in b[t + 1]
  <2>1. p \in 1 .. m + 1 /\ ~(p > m)
    BY <1>1
  <2>2. PastStars(pat, {p}) = {p}
    BY <2>1, <1>6, PastStarsAre
  <2>3. Goes(pat, p, text[t]) = {Step(pat, p, text[t])} \ {0}
    BY <2>1, <1>6 DEF Goes
  <2>4. p \in b[t] <=> Goes(pat, p, text[t]) \cap b[t + 1] # {}
    BY <2>1, <2>2, <1>4
  <2>5. QED BY <2>3, <2>4
<1>7. ASSUME NEW t \in 1 .. n, NEW p \in 1 .. m, pat[p] = Star
      PROVE  p \in b[t] <=> p + 1 \in b[t] \/ p \in b[t + 1]
  <2>1. p \in 1 .. m + 1 /\ ~(p > m) /\ p # m + 1
    BY <1>1
  <2>2. p + 1 \in 1 .. m + 1 /\ PastStars(pat, {p}) = {p} \cup PastStars(pat, {p + 1})
    BY <2>1, <1>7, PastStarsAre
  <2>3. Goes(pat, p, text[t]) = {p}
    BY <2>1, <1>7 DEF Goes
  <2>4. p \in b[t] <=> \/ Goes(pat, p, text[t]) \cap b[t + 1] # {}
                       \/ \E q \in PastStars(pat, {p + 1}) : Goes(pat, q, text[t]) \cap b[t + 1] # {}
    BY <2>1, <2>2, <1>4
  <2>5. p + 1 \in b[t] <=> \E q \in PastStars(pat, {p + 1}) : Goes(pat, q, text[t]) \cap b[t + 1] # {}
    BY <2>2, <1>4
  <2>6. QED BY <2>3, <2>4, <2>5
<1>8. QED BY <1>2, <1>3, <1>5, <1>6, <1>7

-----------------------------------------------------------------------------
(* The matcher's loop.                                                     *)

AtStar(pat, s) == s[1] <= Len(pat) /\ pat[s[1]] = Star
Took(pat, text, s) == IF s[1] <= Len(pat) THEN Step(pat, s[1], text[s[2]]) ELSE 0

\* The state after the next round.
AfterStar(s)      == <<s[1] + 1, s[2], s[1], s[2]>>
AfterItem(s, next) == <<next, s[2] + 1, s[3], s[4]>>
BackAtStar(s)     == <<s[3] + 1, s[4] + 1, s[3], s[4] + 1>>

MatchRun(pat, text, run) ==
  \A s \in Matching(pat, text) :
    run[s] = IF s[2] > Len(text) THEN \A i \in s[1] .. Len(pat) : pat[i] = Star
             ELSE IF AtStar(pat, s) THEN run[AfterStar(s)]
             ELSE IF Took(pat, text, s) # 0 THEN run[AfterItem(s, Took(pat, text, s))]
             ELSE IF s[3] # 0 THEN run[BackAtStar(s)]
             ELSE FALSE

LEMMA MatchingIs ==
  ASSUME NEW pat \in Seq(Byte), NEW text \in Seq(Byte)
  PROVE  /\ \A s \in Matching(pat, text) :
              /\ s[1] \in 1 .. Len(pat) + 1 /\ s[2] \in 1 .. Len(text) + 1
              /\ s[3] \in 0 .. Len(pat) /\ s[4] \in 0 .. s[2]
         /\ \A p \in 1 .. Len(pat) + 1, t \in 1 .. Len(text) + 1, sp \in 0 .. Len(pat) : \A st \in 0 .. t :
              <<p, t, sp, st>> \in Matching(pat, text)
<1>1. Len(pat) \in Nat /\ Len(text) \in Nat
  BY LenProperties
<1>2. Matching(pat, text) =
        {s \in (1 .. Len(pat) + 1) \X (1 .. Len(text) + 1) \X (0 .. Len(pat)) \X (0 .. Len(text) + 1) : s[4] <= s[2]}
  BY DEF Matching
<1>3. ASSUME NEW s \in Matching(pat, text)
      PROVE  /\ s[1] \in 1 .. Len(pat) + 1 /\ s[2] \in 1 .. Len(text) + 1
             /\ s[3] \in 0 .. Len(pat) /\ s[4] \in 0 .. s[2]
  <2>1. /\ s \in (1 .. Len(pat) + 1) \X (1 .. Len(text) + 1) \X (0 .. Len(pat)) \X (0 .. Len(text) + 1)
        /\ s[4] <= s[2]
    BY <1>2
  <2>2. /\ s[1] \in 1 .. Len(pat) + 1 /\ s[2] \in 1 .. Len(text) + 1
        /\ s[3] \in 0 .. Len(pat) /\ s[4] \in 0 .. Len(text) + 1
    BY <2>1
  <2>3. QED BY <1>1, <2>1, <2>2
<1>4. ASSUME NEW p \in 1 .. Len(pat) + 1, NEW t \in 1 .. Len(text) + 1, NEW sp \in 0 .. Len(pat), NEW st \in 0 .. t
      PROVE  <<p, t, sp, st>> \in Matching(pat, text)
  <2>1. st \in 0 .. Len(text) + 1 /\ st <= t
    BY <1>1
  <2>2. QED BY <2>1, <1>2
<1>5. QED BY <1>3, <1>4

LEMMA MatchingGoesOn ==
  ASSUME NEW pat \in Seq(Byte), NEW text \in Seq(Byte), NEW s \in Matching(pat, text), ~(s[2] > Len(text))
  PROVE  /\ s[2] \in 1 .. Len(text)
         /\ AtStar(pat, s) => AfterStar(s) \in Matching(pat, text)
         /\ Took(pat, text, s) # 0 => /\ s[1] \in 1 .. Len(pat)
                                      /\ Took(pat, text, s) = ItemEnd(pat, s[1])
                                      /\ Took(pat, text, s) \in s[1] + 1 .. Len(pat) + 1
                                      /\ AfterItem(s, Took(pat, text, s)) \in Matching(pat, text)
         /\ s[3] # 0 => BackAtStar(s) \in Matching(pat, text)
<1> DEFINE m == Len(pat)   n == Len(text)   p == s[1]   t == s[2]   sp == s[3]   st == s[4]
           next == Took(pat, text, s)
<1>1. m \in Nat /\ n \in Nat
  BY LenProperties
<1>2. p \in 1 .. m + 1 /\ t \in 1 .. n + 1 /\ sp \in 0 .. m /\ st \in 0 .. t
  BY MatchingIs
<1>3. t \in 1 .. n /\ st \in 0 .. n /\ t + 1 \in 1 .. n + 1 /\ st + 1 \in 1 .. n + 1 /\ st \in 0 .. t + 1
      /\ st + 1 \in 0 .. st + 1 /\ t \in 0 .. t /\ t \in 1 .. n + 1
  <2> HIDE DEF n, t, st
  <2>1. t \in Nat /\ t <= n
    BY <1>1, <1>2 DEF n, t
  <2>2. QED BY <1>1, <1>2, <2>1
<1>4. \A q \in 1 .. m + 1, u \in 1 .. n + 1, sq \in 0 .. m : \A su \in 0 .. u :
        <<q, u, sq, su>> \in Matching(pat, text)
  BY MatchingIs
<1>5. ASSUME AtStar(pat, s) PROVE AfterStar(s) \in Matching(pat, text)
  <2>1. p \in 0 .. m /\ p + 1 \in 1 .. m + 1
    BY <1>1, <1>2, <1>5 DEF AtStar
  <2> HIDE DEF m, n, p, t, sp, st
  <2>2. <<p + 1, t, p, t>> \in Matching(pat, text)
    BY <2>1, <1>3, <1>4
  <2>3. QED BY <2>2 DEF AfterStar, p, t
<1>6. ASSUME next # 0
      PROVE  /\ p \in 1 .. m /\ next = ItemEnd(pat, p) /\ next \in p + 1 .. m + 1
             /\ AfterItem(s, next) \in Matching(pat, text)
  <2>1. p <= m /\ next = Step(pat, p, text[t])
    BY <1>6 DEF Took
  <2>2. p \in 1 .. m
    BY <2>1, <1>1, <1>2
  <2>3. next = ItemEnd(pat, p) /\ next \in p + 1 .. m + 1
    BY <2>1, <2>2, <1>6, StepIs
  <2>4. next \in 1 .. m + 1
    BY <2>2, <2>3, <1>1
  <2> HIDE DEF m, n, p, t, sp, st, next
  <2>5. <<next, t + 1, sp, st>> \in Matching(pat, text)
    BY <2>4, <1>2, <1>3, <1>4
  <2>6. AfterItem(s, next) = <<next, t + 1, sp, st>>
    BY DEF AfterItem, t, sp, st
  <2>7. QED BY <2>2, <2>3, <2>5, <2>6
<1>7. ASSUME sp # 0 PROVE BackAtStar(s) \in Matching(pat, text)
  <2>1. sp + 1 \in 1 .. m + 1
    BY <1>1, <1>2, <1>7
  <2> HIDE DEF m, n, p, t, sp, st
  <2>2. <<sp + 1, st + 1, sp, st + 1>> \in Matching(pat, text)
    BY <2>1, <1>2, <1>3, <1>4
  <2>3. QED BY <2>2 DEF BackAtStar, sp, st
<1>8. QED BY <1>3, <1>5, <1>6, <1>7

LEMMA GlobMatchRuns ==
  ASSUME NEW pat \in Seq(Byte), NEW text \in Seq(Byte)
  PROVE  \E run : MatchRun(pat, text, run) /\ GlobMatch(pat, text) = run[<<1, 1, 0, 0>>]
<1> DEFINE M == Matching(pat, text)
           Over(s) == s[2] > Len(text)
           Rest(s) == \A i \in s[1] .. Len(pat) : pat[i] = Star
           Next(s) == Took(pat, text, s)
           Star1(s) == AtStar(pat, s)
           stuck == {s \in M : Over(s) \/ ~(Star1(s) \/ Next(s) # 0 \/ s[3] # 0)}
           acc == {s \in stuck : Over(s) /\ Rest(s)}
           succ == [s \in M |-> IF Star1(s) THEN AfterStar(s)
                                ELSE IF Next(s) # 0 THEN AfterItem(s, Next(s)) ELSE BackAtStar(s)]
           run[s \in Matching(pat, text)] ==
             IF Over(s) THEN Rest(s)
             ELSE IF Star1(s) THEN run[AfterStar(s)]
             ELSE IF Next(s) # 0 THEN run[AfterItem(s, Next(s))]
             ELSE IF s[3] # 0 THEN run[BackAtStar(s)]
             ELSE FALSE
<1>1. ASSUME NEW s \in M \ stuck PROVE succ[s] \in M
  <2>1. ~Over(s) /\ (Star1(s) \/ Next(s) # 0 \/ s[3] # 0)
    OBVIOUS
  <2>2. /\ Star1(s) => AfterStar(s) \in M
        /\ Next(s) # 0 => AfterItem(s, Next(s)) \in M
        /\ s[3] # 0 => BackAtStar(s) \in M
    BY <2>1, MatchingGoesOn
  <2>3. succ[s] = IF Star1(s) THEN AfterStar(s) ELSE IF Next(s) # 0 THEN AfterItem(s, Next(s)) ELSE BackAtStar(s)
    OBVIOUS
  <2> HIDE DEF succ, M, Star1, Next
  <2>4. QED BY <2>1, <2>2, <2>3
<1>2. acc \subseteq stuck
  OBVIOUS
<1>3. PICK A \in SUBSET M : \A s \in M : s \in A <=> IF s \in stuck THEN s \in acc ELSE succ[s] \in A
  <2> HIDE DEF M, stuck, acc, succ
  <2>1. Loops(M, stuck, acc, succ)
    BY <1>1, <1>2, LoopsExist
  <2>2. QED BY <2>1 DEF Loops
<1> DEFINE f == [s \in M |-> IF s \in A THEN TRUE ELSE FALSE]
<1>4. ASSUME NEW s \in M
      PROVE  f[s] = IF Over(s) THEN Rest(s)
                    ELSE IF Star1(s) THEN f[AfterStar(s)]
                    ELSE IF Next(s) # 0 THEN f[AfterItem(s, Next(s))]
                    ELSE IF s[3] # 0 THEN f[BackAtStar(s)]
                    ELSE FALSE
  <2>1. f[s] = IF s \in A THEN TRUE ELSE FALSE
    OBVIOUS
  <2>2. CASE Over(s)
    <3>1. s \in stuck /\ (s \in acc <=> Rest(s))
      BY <2>2
    <3>2. s \in A <=> Rest(s)
      BY <3>1, <1>3
    <3> HIDE DEF f
    <3>3. f[s] = Rest(s)
      BY <2>1, <3>2
    <3> HIDE DEF f, Over, Rest, Star1, Next
    <3>4. QED BY <2>2, <3>3
  <2>3. CASE ~Over(s) /\ ~(Star1(s) \/ Next(s) # 0 \/ s[3] # 0)
    <3>1. s \in stuck /\ s \notin acc
      BY <2>3
    <3>2. s \notin A
      BY <3>1, <1>3
    <3>3. f[s] = FALSE
      BY <2>1, <3>2
    <3> HIDE DEF f, Over, Rest, Star1, Next
    <3>4. QED BY <2>3, <3>3
  <2>4. CASE ~Over(s) /\ (Star1(s) \/ Next(s) # 0 \/ s[3] # 0)
    <3>1. s \notin stuck
      BY <2>4
    <3>2. s \in A <=> succ[s] \in A
      BY <3>1, <1>3
    <3>3. succ[s] \in M
      BY <3>1, <1>1
    <3>4. f[succ[s]] = IF succ[s] \in A THEN TRUE ELSE FALSE
      BY <3>3
    <3>5. f[s] = f[succ[s]]
      BY <2>1, <3>2, <3>4
    <3>6. succ[s] = IF Star1(s) THEN AfterStar(s) ELSE IF Next(s) # 0 THEN AfterItem(s, Next(s)) ELSE BackAtStar(s)
      OBVIOUS
    <3> HIDE DEF f, succ, M, Over, Star1, Next, Rest, stuck
    <3>7. CASE Star1(s)
      BY <3>5, <3>6, <3>7, <2>4
    <3>8. CASE ~Star1(s) /\ Next(s) # 0
      BY <3>5, <3>6, <3>8, <2>4
    <3>9. CASE ~Star1(s) /\ Next(s) = 0
      BY <3>5, <3>6, <3>9, <2>4
    <3>10. QED BY <3>7, <3>8, <3>9
  <2>5. QED BY <2>2, <2>3, <2>4
<1>5. f = [s \in M |-> IF Over(s) THEN Rest(s)
                       ELSE IF Star1(s) THEN f[AfterStar(s)]
                       ELSE IF Next(s) # 0 THEN f[AfterItem(s, Next(s))]
                       ELSE IF s[3] # 0 THEN f[BackAtStar(s)]
                       ELSE FALSE]
  <2>1. f = [s \in M |-> f[s]]
    OBVIOUS
  <2> DEFINE g == [s \in M |-> IF Over(s) THEN Rest(s)
                       ELSE IF Star1(s) THEN f[AfterStar(s)]
                       ELSE IF Next(s) # 0 THEN f[AfterItem(s, Next(s))]
                       ELSE IF s[3] # 0 THEN f[BackAtStar(s)]
                       ELSE FALSE]
  <2> HIDE DEF M, Over, Star1, Next, Rest
  <2>2. \A s \in M : f[s] = g[s]
    BY <1>4
  <2>3. f = [s \in M |-> f[s]] /\ g = [s \in M |-> g[s]]
    BY <2>1
  <2>4. QED BY <2>2, <2>3
<1>6. run = [s \in M |-> IF Over(s) THEN Rest(s)
                       ELSE IF Star1(s) THEN run[AfterStar(s)]
                       ELSE IF Next(s) # 0 THEN run[AfterItem(s, Next(s))]
                       ELSE IF s[3] # 0 THEN run[BackAtStar(s)]
                       ELSE FALSE]
  <2> HIDE DEF f, Over, Star1, Next, Rest
  <2>1. QED BY <1>5
<1>7. GlobMatch(pat, text) = run[<<1, 1, 0, 0>>]
  BY DEF GlobMatch, AtStar, Took, AfterStar, AfterItem, BackAtStar
<1> HIDE DEF run
<1>8. MatchRun(pat, text, run)
  <2> HIDE DEF f
  <2>1. QED BY <1>6 DEF MatchRun
<1>9. QED BY <1>7, <1>8

\* A star fits wherever what follows it fits later.
LEMMA StarWays ==
  ASSUME NEW pat \in Seq(Byte), NEW text \in Seq(Byte), NEW b, Ways(pat, text, b),
         NEW p \in 1 .. Len(pat), pat[p] = Star
  PROVE  \A t \in 1 .. Len(text) + 1 : p \in b[t] <=> \E u \in t .. Len(text) + 1 : p + 1 \in b[u]
<1> DEFINE n == Len(text)
           m == Len(pat)
           T == {t \in 1 .. n + 1 : p \in b[t] <=> \E u \in t .. n + 1 : p + 1 \in b[u]}
<1>1. n \in Nat /\ m \in Nat /\ 1 \in Int /\ n + 1 \in Int /\ 1 <= n + 1 /\ (n + 1) - 1 = n
  BY LenProperties
<1>2. \A q \in 1 .. m + 1 : q \in b[n + 1] <=> \A i \in q .. m : pat[i] = Star
  BY WaysGoBack
<1>3. \A t \in 1 .. n : p \in b[t] <=> p + 1 \in b[t] \/ p \in b[t + 1]
  BY WaysGoBack
<1>4. n + 1 \in T
  <2>1. \A u \in n + 1 .. n + 1 : u = n + 1
    BY <1>1
  <2>2. n + 1 \in n + 1 .. n + 1 /\ n + 1 \in 1 .. n + 1
    BY <1>1
  <2>3. p \in 1 .. m + 1 /\ p + 1 \in 1 .. m + 1 /\ \A i \in p .. m : i = p \/ i \in p + 1 .. m
    BY <1>1
  <2>4. \A i \in p + 1 .. m : i \in p .. m
    BY <1>1
  <2>5. p \in b[n + 1] <=> p + 1 \in b[n + 1]
    BY <2>3, <2>4, <1>2
  <2>6. QED BY <2>1, <2>2, <2>5
<1>5. ASSUME NEW t \in 1 .. n, \A j \in t + 1 .. n + 1 : j \in T PROVE t \in T
  <2>1. t + 1 \in t + 1 .. n + 1 /\ t \in t .. n + 1 /\ t \in 1 .. n + 1
    BY <1>1
  <2>2. p \in b[t + 1] <=> \E u \in t + 1 .. n + 1 : p + 1 \in b[u]
    BY <2>1, <1>5
  <2>3. /\ \A u \in t .. n + 1 : u = t \/ u \in t + 1 .. n + 1
        /\ \A u \in t + 1 .. n + 1 : u \in t .. n + 1
    BY <1>1
  <2>4. (\E u \in t .. n + 1 : p + 1 \in b[u]) <=> p + 1 \in b[t] \/ \E u \in t + 1 .. n + 1 : p + 1 \in b[u]
    BY <2>1, <2>3
  <2>5. QED BY <2>1, <2>2, <2>4, <1>3
<1> HIDE DEF T
<1>6. \A t \in 1 .. n + 1 : t \in T
  <2> HIDE DEF n
  <2>1. QED BY <1>1, <1>4, <1>5, DownTo
<1>7. QED BY <1>6 DEF T

\* Of some states one is the latest: by its star, by what the star took, and by
\* its place in the pattern.
LEMMA LatestState ==
  ASSUME NEW n \in Nat, NEW T, T # {}, \A s \in T : s[1] \in 0 .. n /\ s[3] \in 0 .. n /\ s[4] \in 0 .. n
  PROVE  \E s \in T : \A r \in T : \/ r[3] < s[3]
                                   \/ r[3] = s[3] /\ r[4] < s[4]
                                   \/ r[3] = s[3] /\ r[4] = s[4] /\ r[1] <= s[1]
<1>1. PICK x \in {s[3] : s \in T} : \A y \in {s[3] : s \in T} : y <= x
  <2> DEFINE X == {s[3] : s \in T}
  <2>1. X \subseteq 0 .. n /\ X # {}
    OBVIOUS
  <2> HIDE DEF X
  <2>2. \E x \in X : \A y \in X : y <= x
    BY <2>1, GreatestOf
  <2>3. QED BY <2>2 DEF X
<1> DEFINE T3 == {s \in T : s[3] = x}
<1>2. PICK z \in {s[4] : s \in T3} : \A y \in {s[4] : s \in T3} : y <= z
  <2> DEFINE X == {s[4] : s \in T3}
  <2>1. X \subseteq 0 .. n /\ X # {}
    BY <1>1
  <2> HIDE DEF X
  <2>2. \E a \in X : \A y \in X : y <= a
    BY <2>1, GreatestOf
  <2>3. QED BY <2>2 DEF X
<1> DEFINE T4 == {s \in T3 : s[4] = z}
<1>3. PICK w \in {s[1] : s \in T4} : \A y \in {s[1] : s \in T4} : y <= w
  <2> DEFINE X == {s[1] : s \in T4}
  <2>1. X \subseteq 0 .. n /\ X # {}
    BY <1>2
  <2> HIDE DEF X
  <2>2. \E a \in X : \A y \in X : y <= a
    BY <2>1, GreatestOf
  <2>3. QED BY <2>2 DEF X
<1>4. PICK s \in T4 : s[1] = w
  BY <1>3
<1>5. s \in T /\ s[3] = x /\ s[4] = z
  BY <1>4
<1>6. ASSUME NEW r \in T
      PROVE  \/ r[3] < s[3]
             \/ r[3] = s[3] /\ r[4] < s[4]
             \/ r[3] = s[3] /\ r[4] = s[4] /\ r[1] <= s[1]
  <2>1. r[3] <= x /\ (r \in T3 => r[4] <= z) /\ (r \in T4 => r[1] <= w)
    BY <1>1, <1>2, <1>3
  <2>2. r[3] \in Int /\ r[4] \in Int /\ r[1] \in Int /\ x \in Int /\ z \in Int
    BY <1>5
  <2>3. (r[3] = x => r \in T3) /\ (r[3] = x /\ r[4] = z => r \in T4)
    OBVIOUS
  <2> HIDE DEF T3, T4
  <2>4. QED BY <2>1, <2>2, <2>3, <1>4, <1>5
<1>7. QED BY <1>5, <1>6

-----------------------------------------------------------------------------
(* One backtrack point is enough.                                          *)

\* In the state <<p, t, sp, st>> the text fits if it does from here, or from
\* the last star with one character more; and wherever what follows that star
\* fits, the place reached since fits as many characters later, so that no
\* earlier star need be tried.
MatchInv(pat, text, b, p, t, sp, st) ==
  /\ sp # 0 => pat[sp] = Star /\ sp < p /\ st >= 1
  /\ 1 \in b[1] <=> p \in b[t] \/ (sp # 0 /\ st <= Len(text) /\ sp \in b[st + 1])
  /\ sp # 0 => \A u \in st .. Len(text) + 1 : sp + 1 \in b[u] =>
                 u + (t - st) <= Len(text) + 1 /\ p \in b[u + (t - st)]

LEMMA StarKeeps ==
  ASSUME NEW pat \in Seq(Byte), NEW text \in Seq(Byte), NEW b, Ways(pat, text, b),
         NEW p \in 1 .. Len(pat), NEW t \in 1 .. Len(text), NEW sp \in 0 .. Len(pat), NEW st \in 0 .. t,
         MatchInv(pat, text, b, p, t, sp, st), pat[p] = Star
  PROVE  MatchInv(pat, text, b, p + 1, t, p, t)
<1> DEFINE n == Len(text)
           m == Len(pat)
<1>1. n \in Nat /\ m \in Nat /\ p \in Nat /\ t \in Nat /\ st \in Nat /\ p # 0 /\ t <= n /\ t \in 1 .. n + 1
  BY LenProperties
<1>2. \A x \in 1 .. n + 1 : p \in b[x] <=> \E u \in x .. n + 1 : p + 1 \in b[u]
  BY StarWays
<1>3. p \in b[t] <=> p + 1 \in b[t] \/ p \in b[t + 1]
  BY WaysGoBack
<1>4. ASSUME sp # 0, st <= n, sp \in b[st + 1] PROVE p \in b[t]
  <2>1. sp \in 1 .. m /\ pat[sp] = Star /\ st + 1 \in 1 .. n + 1
    BY <1>1, <1>4 DEF MatchInv
  <2>2. PICK u \in st + 1 .. n + 1 : sp + 1 \in b[u]
    <3>1. sp \in b[st + 1] <=> \E u \in st + 1 .. n + 1 : sp + 1 \in b[u]
      BY <2>1, StarWays
    <3>2. QED BY <3>1, <1>4
  <2>3. u \in st .. n + 1 /\ u \in Nat
    BY <1>1, <2>2
  <2>4. u + (t - st) <= n + 1 /\ p \in b[u + (t - st)]
    BY <2>2, <2>3, <1>4 DEF MatchInv
  <2> DEFINE x == u + (t - st)
  <2>5. x \in t .. n + 1 /\ x \in 1 .. n + 1
    BY <1>1, <2>2, <2>3, <2>4
  <2>6. p \in b[x]
    BY <2>4
  <2> HIDE DEF x, n, m
  <2>7. PICK v \in x .. n + 1 : p + 1 \in b[v]
    BY <2>5, <2>6, <1>2
  <2>8. v \in t .. n + 1
    BY <2>5, <1>1
  <2>9. QED BY <2>7, <2>8, <1>1, <1>2
<1>5. 1 \in b[1] <=> p \in b[t]
  BY <1>4 DEF MatchInv
<1>6. \A u \in t .. n + 1 : u + (t - t) = u /\ u <= n + 1
  BY <1>1
<1>7. p < p + 1 /\ t >= 1
  BY <1>1
<1> HIDE DEF n, m
<1>8. 1 \in b[1] <=> p + 1 \in b[t] \/ (p # 0 /\ t <= n /\ p \in b[t + 1])
  BY <1>1, <1>3, <1>5
<1>9. QED BY <1>1, <1>6, <1>7, <1>8 DEF MatchInv, n

LEMMA ItemKeeps ==
  ASSUME NEW pat \in Seq(Byte), NEW text \in Seq(Byte), NEW b, Ways(pat, text, b),
         NEW p \in 1 .. Len(pat), NEW t \in 1 .. Len(text), NEW sp \in 0 .. Len(pat), NEW st \in 0 .. t,
         MatchInv(pat, text, b, p, t, sp, st), pat[p] # Star, Step(pat, p, text[t]) # 0
  PROVE  MatchInv(pat, text, b, Step(pat, p, text[t]), t + 1, sp, st)
<1> DEFINE n == Len(text)
           m == Len(pat)
           e == ItemEnd(pat, p)
<1>1. n \in Nat /\ m \in Nat /\ p \in Nat /\ t \in Nat /\ st \in Nat /\ sp \in Nat
  BY LenProperties
<1>2. Step(pat, p, text[t]) = e /\ e \in p + 1 .. m + 1
  BY StepIs
<1>3. p \in b[t] <=> e \in b[t + 1]
  BY <1>2, WaysGoBack
<1>4. ASSUME sp # 0, NEW u \in st .. n + 1, sp + 1 \in b[u]
      PROVE  u + (t + 1 - st) <= n + 1 /\ e \in b[u + (t + 1 - st)]
  <2> DEFINE x == u + (t - st)
  <2>1. st >= 1 /\ x <= n + 1 /\ p \in b[x]
    BY <1>4 DEF MatchInv
  <2>2. x \in 1 .. n + 1 /\ u + (t + 1 - st) = x + 1
    BY <1>1, <2>1, <1>4
  <2> HIDE DEF x
  <2>3. x # n + 1
    <3>1. p \in 1 .. m + 1 /\ p \in p .. m
      BY <1>1
    <3>2. p \notin b[n + 1]
      BY <3>1, WaysGoBack
    <3>3. QED BY <2>1, <3>2
  <2>4. x \in 1 .. n /\ x + 1 <= n + 1
    BY <2>2, <2>3, <1>1
  <2>5. Step(pat, p, text[x]) # 0 /\ Step(pat, p, text[x]) \in b[x + 1]
    BY <2>1, <2>4, WaysGoBack
  <2>6. Step(pat, p, text[x]) = e
    BY <2>5, StepIs
  <2>7. QED BY <2>2, <2>4, <2>5, <2>6
<1>5. sp # 0 => pat[sp] = Star /\ sp < e /\ st >= 1
  <2>1. sp # 0 => pat[sp] = Star /\ sp < p /\ st >= 1
    BY DEF MatchInv
  <2>2. QED BY <2>1, <1>1, <1>2
<1>6. 1 \in b[1] <=> e \in b[t + 1] \/ (sp # 0 /\ st <= n /\ sp \in b[st + 1])
  BY <1>3 DEF MatchInv
<1> HIDE DEF e, n, m
<1>7. MatchInv(pat, text, b, e, t + 1, sp, st)
  BY <1>4, <1>5, <1>6 DEF MatchInv, n
<1>8. QED BY <1>2, <1>7

LEMMA BackKeeps ==
  ASSUME NEW pat \in Seq(Byte), NEW text \in Seq(Byte), NEW b, Ways(pat, text, b),
         NEW p, NEW t \in 1 .. Len(text), NEW sp \in 0 .. Len(pat), NEW st \in 0 .. t,
         MatchInv(pat, text, b, p, t, sp, st), p \notin b[t], sp # 0
  PROVE  MatchInv(pat, text, b, sp + 1, st + 1, sp, st + 1)
<1> DEFINE n == Len(text)
           m == Len(pat)
           k == st + 1
<1>1. n \in Nat /\ m \in Nat /\ t \in Nat /\ st \in Nat /\ sp \in 1 .. m /\ st <= n
  BY LenProperties
<1>2. k \in 1 .. n + 1 /\ k >= 1 /\ k \in Nat
  BY <1>1
<1>3. pat[sp] = Star /\ (1 \in b[1] <=> sp \in b[k])
  BY <1>1 DEF MatchInv
<1> HIDE DEF k, n, m
<1>4. sp \in b[k] <=> sp + 1 \in b[k] \/ (k <= n /\ sp \in b[k + 1])
  <2>1. CASE k <= n
    <3>1. k \in 1 .. n
      BY <2>1, <1>2
    <3>2. QED BY <3>1, <2>1, <1>1, <1>3, WaysGoBack DEF n, m
  <2>2. CASE ~(k <= n)
    <3>1. k = n + 1 /\ \A u \in k .. n + 1 : u = k
      BY <2>2, <1>1, <1>2
    <3>2. k \in k .. n + 1
      BY <3>1, <1>2
    <3>3. sp \in b[k] <=> \E u \in k .. n + 1 : sp + 1 \in b[u]
      BY <1>1, <1>2, <1>3, StarWays DEF n, m
    <3>4. QED BY <3>1, <3>2, <3>3, <2>2
  <2>3. QED BY <2>1, <2>2
<1>5. \A u \in k .. n + 1 : u + (k - k) = u /\ u <= n + 1
  BY <1>1, <1>2
<1>6. sp < sp + 1
  BY <1>1
<1>7. MatchInv(pat, text, b, sp + 1, k, sp, k)
  BY <1>2, <1>3, <1>4, <1>5, <1>6 DEF MatchInv, n
<1>8. QED BY <1>7 DEF k

LEMMA OverSays ==
  ASSUME NEW pat \in Seq(Byte), NEW text \in Seq(Byte), NEW b, Ways(pat, text, b),
         NEW p \in 1 .. Len(pat) + 1, NEW t, t = Len(text) + 1, NEW sp \in 0 .. Len(pat), NEW st \in 0 .. t,
         MatchInv(pat, text, b, p, t, sp, st)
  PROVE  1 \in b[1] <=> \A i \in p .. Len(pat) : pat[i] = Star
<1> DEFINE n == Len(text)
           m == Len(pat)
<1>1. n \in Nat /\ m \in Nat /\ t = n + 1 /\ st \in Nat
  BY LenProperties
<1>2. p \in b[t] <=> \A i \in p .. m : pat[i] = Star
  BY WaysGoBack
<1>3. ASSUME sp # 0, st <= n, sp \in b[st + 1] PROVE FALSE
  <2>1. sp \in 1 .. m /\ pat[sp] = Star /\ st + 1 \in 1 .. n + 1
    BY <1>1, <1>3 DEF MatchInv
  <2>2. PICK u \in st + 1 .. n + 1 : sp + 1 \in b[u]
    <3>1. sp \in b[st + 1] <=> \E u \in st + 1 .. n + 1 : sp + 1 \in b[u]
      BY <2>1, StarWays
    <3>2. QED BY <3>1, <1>3
  <2>3. u \in st .. n + 1 /\ u \in Nat
    BY <1>1, <2>2
  <2>4. u + (t - st) <= n + 1
    BY <2>2, <2>3, <1>3 DEF MatchInv
  <2>5. QED BY <1>1, <2>2, <2>3, <2>4
<1>4. QED BY <1>2, <1>3 DEF MatchInv

\* Whether the text fits, as a value.
Verdict(b) == IF 1 \in b[1] THEN TRUE ELSE FALSE

Holds(pat, text, b, s) == MatchInv(pat, text, b, s[1], s[2], s[3], s[4])

\* A round ends the loop with the right answer, or leads to a later state where
\* the invariant holds again.
LEMMA RoundKeeps ==
  ASSUME NEW pat \in Seq(Byte), NEW text \in Seq(Byte), NEW b, Ways(pat, text, b),
         NEW run, MatchRun(pat, text, run),
         NEW s \in Matching(pat, text), Holds(pat, text, b, s), run[s] # Verdict(b)
  PROVE  \E r \in Matching(pat, text) :
           /\ Holds(pat, text, b, r)
           /\ run[r] # Verdict(b)
           /\ ~ (\/ r[3] < s[3]
                 \/ r[3] = s[3] /\ r[4] < s[4]
                 \/ r[3] = s[3] /\ r[4] = s[4] /\ r[1] <= s[1])
<1> DEFINE m == Len(pat)   n == Len(text)   p == s[1]   t == s[2]   sp == s[3]   st == s[4]
           next == Took(pat, text, s)
           Rest == \A i \in p .. m : pat[i] = Star
<1>1. m \in Nat /\ n \in Nat
  BY LenProperties
<1>2. p \in 1 .. m + 1 /\ t \in 1 .. n + 1 /\ sp \in 0 .. m /\ st \in 0 .. t
  BY MatchingIs
<1>3. run[s] = IF t > n THEN Rest
               ELSE IF AtStar(pat, s) THEN run[AfterStar(s)]
               ELSE IF next # 0 THEN run[AfterItem(s, next)]
               ELSE IF sp # 0 THEN run[BackAtStar(s)]
               ELSE FALSE
  BY DEF MatchRun
<1>4. MatchInv(pat, text, b, p, t, sp, st)
  BY DEF Holds
<1>5. CASE t > n
  <2>1. t = n + 1
    BY <1>1, <1>2, <1>5
  <2>2. 1 \in b[1] <=> Rest
    BY <2>1, <1>2, <1>4, OverSays
  <2>3. run[s] = Rest
    BY <1>3, <1>5
  <2> HIDE DEF Rest
  <2>4. QED BY <2>2, <2>3 DEF Verdict, Rest
<1>6. CASE ~(t > n) /\ AtStar(pat, s)
  <2>1. t \in 1 .. n /\ AfterStar(s) \in Matching(pat, text)
    BY <1>6, MatchingGoesOn
  <2>2. p \in 1 .. m /\ pat[p] = Star
    BY <1>1, <1>2, <1>6 DEF AtStar
  <2>3. MatchInv(pat, text, b, p + 1, t, p, t)
    BY <2>1, <2>2, <1>2, <1>4, StarKeeps
  <2>4. Holds(pat, text, b, AfterStar(s))
    BY <2>3 DEF Holds, AfterStar
  <2>5. sp # 0 => sp < p
    BY <1>4 DEF MatchInv
  <2>6. sp < p
    BY <2>5, <2>2, <1>1, <1>2
  <2>7. AfterStar(s)[3] = p
    BY DEF AfterStar
  <2>8. run[s] = run[AfterStar(s)]
    BY <1>3, <1>6
  <2>9. ~(p < sp) /\ p # sp
    BY <2>6, <1>1, <1>2
  <2> HIDE DEF p, t, sp, st
  <2>10. QED BY <2>1, <2>4, <2>7, <2>8, <2>9 DEF sp
<1>7. CASE ~(t > n) /\ ~AtStar(pat, s) /\ next # 0
  <2>1. t \in 1 .. n /\ p \in 1 .. m /\ next \in p + 1 .. m + 1 /\ AfterItem(s, next) \in Matching(pat, text)
    BY <1>7, MatchingGoesOn
  <2>2. pat[p] # Star /\ next = Step(pat, p, text[t])
    BY <2>1, <1>1, <1>7 DEF AtStar, Took
  <2>3. MatchInv(pat, text, b, Step(pat, p, text[t]), t + 1, sp, st)
    BY <2>1, <2>2, <1>2, <1>4, <1>7, ItemKeeps
  <2>4. Holds(pat, text, b, AfterItem(s, next))
    BY <2>2, <2>3 DEF Holds, AfterItem
  <2>5. run[s] = run[AfterItem(s, next)]
    BY <1>3, <1>7
  <2>6. AfterItem(s, next)[3] = sp /\ AfterItem(s, next)[4] = st /\ AfterItem(s, next)[1] = next
    BY DEF AfterItem
  <2>7. ~(sp < sp) /\ ~(st < st) /\ ~(next <= p)
    BY <2>1, <1>1, <1>2
  <2> HIDE DEF p, t, sp, st, next
  <2>8. QED BY <2>1, <2>4, <2>5, <2>6, <2>7 DEF p, sp, st
<1>8. CASE ~(t > n) /\ ~AtStar(pat, s) /\ next = 0
  <2>1. t \in 1 .. n
    BY <1>8, MatchingGoesOn
  <2>2. p \notin b[t]
    <3>1. CASE p \in 1 .. m
      <4>1. pat[p] # Star /\ Step(pat, p, text[t]) = 0
        BY <3>1, <1>1, <1>8 DEF AtStar, Took
      <4>2. QED BY <4>1, <3>1, <2>1, WaysGoBack
    <3>2. CASE p \notin 1 .. m
      <4>1. p = m + 1
        BY <3>2, <1>1, <1>2
      <4>2. QED BY <4>1, <2>1, WaysGoBack
    <3>3. QED BY <3>1, <3>2
  <2>3. CASE sp # 0
    <3>1. BackAtStar(s) \in Matching(pat, text)
      BY <2>3, <1>8, MatchingGoesOn
    <3>2. MatchInv(pat, text, b, sp + 1, st + 1, sp, st + 1)
      BY <2>1, <2>2, <2>3, <1>2, <1>4, BackKeeps
    <3>3. Holds(pat, text, b, BackAtStar(s))
      BY <3>2 DEF Holds, BackAtStar
    <3>4. run[s] = run[BackAtStar(s)]
      BY <1>3, <1>8, <2>3
    <3>5. BackAtStar(s)[3] = sp /\ BackAtStar(s)[4] = st + 1
      BY DEF BackAtStar
    <3>6. ~(sp < sp) /\ ~(st + 1 < st) /\ st + 1 # st
      BY <1>1, <1>2
    <3> HIDE DEF p, t, sp, st, next
    <3>7. QED BY <3>1, <3>3, <3>4, <3>5, <3>6 DEF p, sp, st
  <2>4. CASE sp = 0
    <3>1. run[s] = FALSE
      BY <1>3, <1>8, <2>4
    <3>2. 1 \notin b[1]
      BY <1>4, <2>2, <2>4 DEF MatchInv
    <3>3. QED BY <3>1, <3>2 DEF Verdict
  <2>5. QED BY <2>3, <2>4
<1>9. QED BY <1>5, <1>6, <1>7, <1>8

\* The wildcard matcher, which remembers only the last star it met, accepts the
\* texts that fit the pattern and no others (glob_match).
THEOREM MatcherIsExact ==
  \A pat, text \in Seq(Byte) : GlobMatch(pat, text) <=> Fits(pat, text)
<1> SUFFICES ASSUME NEW pat \in Seq(Byte), NEW text \in Seq(Byte)
             PROVE  GlobMatch(pat, text) <=> Fits(pat, text)
  OBVIOUS
<1> DEFINE m == Len(pat)   n == Len(text)   k == m + n + 1   M == Matching(pat, text)
<1>1. m \in Nat /\ n \in Nat /\ k \in Nat
  BY LenProperties
<1>2. PICK b : Ways(pat, text, b)
  BY WaysExist
<1>3. PICK run : MatchRun(pat, text, run) /\ GlobMatch(pat, text) = run[<<1, 1, 0, 0>>]
  BY GlobMatchRuns
<1> DEFINE Bad == {s \in M : Holds(pat, text, b, s) /\ run[s] # Verdict(b)}
<1>4. ASSUME Bad # {} PROVE FALSE
  <2>1. \A s \in Bad : s[1] \in 0 .. k /\ s[3] \in 0 .. k /\ s[4] \in 0 .. k
    <3>1. \A s \in M : s[1] \in 1 .. m + 1 /\ s[2] \in 1 .. n + 1 /\ s[3] \in 0 .. m /\ s[4] \in 0 .. s[2]
      BY MatchingIs
    <3> HIDE DEF M
    <3>2. QED BY <3>1, <1>1
  <2> HIDE DEF k, Bad
  <2>2. PICK s \in Bad : \A r \in Bad : \/ r[3] < s[3]
                                        \/ r[3] = s[3] /\ r[4] < s[4]
                                        \/ r[3] = s[3] /\ r[4] = s[4] /\ r[1] <= s[1]
    BY <1>1, <1>4, <2>1, LatestState
  <2>3. s \in M /\ Holds(pat, text, b, s) /\ run[s] # Verdict(b)
    BY DEF Bad
  <2>4. \E r \in M : /\ Holds(pat, text, b, r)
                     /\ run[r] # Verdict(b)
                     /\ ~ (\/ r[3] < s[3]
                           \/ r[3] = s[3] /\ r[4] < s[4]
                           \/ r[3] = s[3] /\ r[4] = s[4] /\ r[1] <= s[1])
    BY <2>3, <1>2, <1>3, RoundKeeps
  <2>5. QED BY <2>2, <2>4 DEF Bad
<1>5. <<1, 1, 0, 0>> \in M
  <2>1. 1 \in 1 .. m + 1 /\ 1 \in 1 .. n + 1 /\ 0 \in 0 .. m /\ 0 \in 0 .. 1
    BY <1>1
  <2>2. QED BY <2>1, MatchingIs
<1>6. Holds(pat, text, b, <<1, 1, 0, 0>>)
  BY DEF Holds, MatchInv
<1>7. run[<<1, 1, 0, 0>>] = Verdict(b)
  BY <1>4, <1>5, <1>6
<1>8. GlobMatch(pat, text) = Verdict(b)
  BY <1>3, <1>7
<1>9. Fits(pat, text) <=> 1 \in b[1]
  BY <1>2, FitsByWays
<1>10. QED BY <1>8, <1>9 DEF Verdict

LEMMA LowerAllIs ==
  ASSUME NEW text \in Seq(Byte)
  PROVE  /\ LowerAll(text) \in Seq(Byte) /\ Len(LowerAll(text)) = Len(text)
         /\ DOMAIN LowerAll(text) = DOMAIN text /\ DOMAIN text = 1 .. Len(text) /\ Len(text) \in Nat
         /\ \A i \in DOMAIN text : LowerAll(text)[i] = Lower(text[i]) /\ text[i] \in Byte
<1>1. Len(text) \in Nat /\ DOMAIN text = 1 .. Len(text) /\ \A i \in 1 .. Len(text) : text[i] \in Byte
  BY LenProperties, ElementOfSeq
<1> DEFINE n == Len(text)   low == LowerAll(text)
<1>2. low = [i \in 1 .. n |-> Lower(text[i])]
  BY <1>1 DEF LowerAll
<1>3. \A i \in 1 .. n : Lower(text[i]) \in Byte
  BY <1>1, LowerIsByte
<1> HIDE DEF n, low
<1>4. low \in [1 .. n -> Byte] /\ n \in Nat /\ DOMAIN low = 1 .. n /\ \A i \in 1 .. n : low[i] = Lower(text[i])
  BY <1>1, <1>2, <1>3 DEF n
<1>5. low \in Seq(Byte) /\ Len(low) = n
  BY <1>4, FunctionIsSeq, LenProperties
<1>6. QED BY <1>1, <1>4, <1>5 DEF n, low

\* Case makes no difference to the text.
LEMMA FitsFolds ==
  ASSUME NEW pat \in Seq(Byte), NEW text \in Seq(Byte)
  PROVE  Fits(pat, LowerAll(text)) <=> Fits(pat, text)
<1> DEFINE low == LowerAll(text)   n == Len(text)   m == Len(pat)
<1>1. low \in Seq(Byte) /\ Len(low) = n /\ \A t \in 1 .. n : low[t] = Lower(text[t]) /\ text[t] \in Byte
  BY LowerAllIs
<1>2. n \in Nat /\ m \in Nat
  BY LenProperties
<1> HIDE DEF low
<1>3. PICK b : Ways(pat, low, b)
  BY <1>1, WaysExist
<1>4. ASSUME NEW t \in 1 .. n, NEW q \in 1 .. m + 1
      PROVE  Goes(pat, q, low[t]) = Goes(pat, q, text[t])
  <2>1. CASE q \in 1 .. m
    <3>1. Step(pat, q, low[t]) = Step(pat, q, text[t])
      BY <1>1, <2>1, StepFolds
    <3>2. QED BY <3>1 DEF Goes
  <2>2. CASE q \notin 1 .. m
    <3>1. q > m
      BY <2>2, <1>2
    <3>2. QED BY <3>1 DEF Goes
  <2>3. QED BY <2>1, <2>2
<1>5. Ways(pat, text, b)
  <2>1. /\ b \in [1 .. n + 1 -> SUBSET (1 .. m + 1)]
        /\ b[n + 1] = {p \in 1 .. m + 1 : \A i \in p .. m : pat[i] = Star}
    BY <1>1, <1>3 DEF Ways
  <2>2. ASSUME NEW t \in 1 .. n
        PROVE  b[t] = {p \in 1 .. m + 1 : \E q \in PastStars(pat, {p}) : Goes(pat, q, text[t]) \cap b[t + 1] # {}}
    <3>1. b[t] = {p \in 1 .. m + 1 : \E q \in PastStars(pat, {p}) : Goes(pat, q, low[t]) \cap b[t + 1] # {}}
      BY <1>1, <1>3 DEF Ways
    <3>2. \A p : PastStars(pat, {p}) \subseteq 1 .. m + 1
      BY DEF PastStars
    <3>3. \A p : \A q \in PastStars(pat, {p}) : Goes(pat, q, low[t]) = Goes(pat, q, text[t])
      BY <3>2, <1>4
    <3> HIDE DEF n, m
    <3>4. \A p : (\E q \in PastStars(pat, {p}) : Goes(pat, q, low[t]) \cap b[t + 1] # {})
                 <=> (\E q \in PastStars(pat, {p}) : Goes(pat, q, text[t]) \cap b[t + 1] # {})
      BY <3>3
    <3>5. QED BY <3>1, <3>4
  <2>3. QED BY <2>1, <2>2 DEF Ways
<1>6. (Fits(pat, low) <=> 1 \in b[1]) /\ (Fits(pat, text) <=> 1 \in b[1])
  BY <1>1, <1>3, <1>5, FitsByWays
<1>7. QED BY <1>6 DEF low

-----------------------------------------------------------------------------
(* The literal end of a pattern.                                           *)

WildAt(pat, i) == pat[i] \in {Star, Question} \/ (pat[i] = Open /\ ClassEnd(pat, i) # 0)
EscapedAt(pat, i) == pat[i] = Escape /\ i < Len(pat)
CharAt(pat, i) == IF EscapedAt(pat, i) THEN pat[i + 1] ELSE pat[i]

Tails == [literal : BOOLEAN, text : Seq(Byte)]
NoTail == [literal |-> TRUE, text |-> <<>>]

\* The end of a pattern from its item at i on, by that of what follows.
Grown(pat, i, rest) ==
  IF WildAt(pat, i) THEN [rest EXCEPT !.literal = FALSE]
  ELSE IF rest.literal THEN [rest EXCEPT !.text = <<CharAt(pat, i)>> \o @] ELSE rest

TailRun(pat, f) ==
  \A i \in 1 .. Len(pat) + 1 : f[i] = IF i > Len(pat) THEN NoTail ELSE Grown(pat, i, f[ItemEnd(pat, i)])

LEMMA GrownIs ==
  ASSUME NEW pat \in Seq(Byte), NEW i \in 1 .. Len(pat), NEW rest \in Tails
  PROVE  Grown(pat, i, rest) \in Tails /\ CharAt(pat, i) \in Byte
<1>1. CharAt(pat, i) \in Byte
  <2>1. Len(pat) \in Nat /\ \A k \in 1 .. Len(pat) : pat[k] \in Byte
    BY LenProperties, ElementOfSeq
  <2>2. i < Len(pat) => i + 1 \in 1 .. Len(pat)
    BY <2>1
  <2>3. QED BY <2>1, <2>2 DEF CharAt, EscapedAt
<1>2. <<CharAt(pat, i)>> \o rest.text \in Seq(Byte)
  <2>1. <<CharAt(pat, i)>> \in Seq(Byte) /\ rest.text \in Seq(Byte)
    BY <1>1 DEF Tails
  <2>2. QED BY <2>1, ConcatProperties
<1>3. QED BY <1>1, <1>2 DEF Grown, Tails

LEMMA TailRuns ==
  ASSUME NEW pat \in Seq(Byte)
  PROVE  \E f \in [1 .. Len(pat) + 1 -> Tails] :
           /\ TailRun(pat, f)
           /\ TrailingLiteral(pat) = IF Contains(f[1].text, Slash) THEN <<>> ELSE f[1].text
<1> DEFINE n == Len(pat)
           Wild(i) == pat[i] \in {Star, Question} \/ (pat[i] = Open /\ ClassEnd(pat, i) # 0)
           Escaped(i) == pat[i] = Escape /\ i < Len(pat)
           Ahead1(i) == IF pat[i] = Open THEN ClassEnd(pat, i) ELSE i + 1
           Ahead2(i) == IF Escaped(i) THEN i + 2 ELSE i + 1
           One(i, rest) == IF rest.literal
                           THEN [rest EXCEPT !.text = <<(IF Escaped(i) THEN pat[i + 1] ELSE pat[i])>> \o @]
                           ELSE rest
           tail[i \in 1 .. Len(pat) + 1] ==
             IF i > Len(pat) THEN [literal |-> TRUE, text |-> <<>>]
             ELSE IF Wild(i) THEN [tail[Ahead1(i)] EXCEPT !.literal = FALSE]
             ELSE One(i, tail[Ahead2(i)])
           ahead == [i \in 1 .. n |-> ItemEnd(pat, i)]
           G == [i \in 1 .. n |-> [x \in Tails |-> Grown(pat, i, x)]]
<1>1. n \in Nat /\ 1 \in Int /\ n + 1 \in Int /\ 1 <= n + 1 /\ (n + 1) - 1 = n
  BY LenProperties
<1>2. \A i \in 1 .. n : ahead[i] = ItemEnd(pat, i) /\ ahead[i] \in i + 1 .. n + 1
  BY StepIs
<1>3. NoTail \in Tails /\ \A i \in 1 .. n : \A x \in Tails : G[i][x] = Grown(pat, i, x) /\ G[i][x] \in Tails
  BY GrownIs DEF NoTail, Tails
<1> HIDE DEF ahead, G
<1>4. PICK f \in [1 .. n + 1 -> Tails] :
        \A i \in 1 .. n + 1 : f[i] = IF i = n + 1 THEN NoTail ELSE G[i][f[ahead[i]]]
  <2> HIDE DEF n
  <2>1. Later(1, n + 1, Tails, NoTail, ahead, G)
    BY <1>1, <1>2, <1>3, LaterExists
  <2>2. QED BY <2>1 DEF Later
<1>5. TailRun(pat, f)
  <2>1. ASSUME NEW i \in 1 .. n + 1 PROVE f[i] = IF i > n THEN NoTail ELSE Grown(pat, i, f[ItemEnd(pat, i)])
    <3>1. CASE i = n + 1
      <4>1. i > n
        BY <3>1, <1>1
      <4>2. QED BY <3>1, <4>1, <1>4
    <3>2. CASE i # n + 1
      <4>1. i \in 1 .. n /\ ~(i > n)
        BY <3>2, <1>1
      <4>2. ahead[i] = ItemEnd(pat, i) /\ ItemEnd(pat, i) \in 1 .. n + 1
        <5>1. ahead[i] = ItemEnd(pat, i) /\ ahead[i] \in i + 1 .. n + 1
          BY <4>1, <1>2
        <5>2. QED BY <5>1, <4>1, <1>1
      <4>3. f[ItemEnd(pat, i)] \in Tails
        BY <4>2
      <4>4. f[i] = G[i][f[ItemEnd(pat, i)]]
        BY <3>2, <4>2, <1>4
      <4>5. QED BY <4>1, <4>3, <4>4, <1>3
    <3>3. QED BY <3>1, <3>2
  <2>2. QED BY <2>1 DEF TailRun
<1>6. ASSUME NEW i \in 1 .. n + 1
      PROVE  f[i] = IF i > Len(pat) THEN [literal |-> TRUE, text |-> <<>>]
                    ELSE IF Wild(i) THEN [f[Ahead1(i)] EXCEPT !.literal = FALSE]
                    ELSE One(i, f[Ahead2(i)])
  <2>1. f[i] = IF i > n THEN NoTail ELSE Grown(pat, i, f[ItemEnd(pat, i)])
    BY <1>5 DEF TailRun
  <2>2. Wild(i) => ItemEnd(pat, i) = Ahead1(i)
    BY DEF ItemEnd, Star, Question, Open, Escape
  <2>3. ~Wild(i) => ItemEnd(pat, i) = Ahead2(i)
    BY DEF ItemEnd
  <2>4. \A rest : Grown(pat, i, rest) = IF Wild(i) THEN [rest EXCEPT !.literal = FALSE] ELSE One(i, rest)
    BY DEF Grown, WildAt, CharAt, EscapedAt
  <2> HIDE DEF Wild, Ahead1, Ahead2, One
  <2>5. QED BY <2>1, <2>2, <2>3, <2>4 DEF NoTail
<1>7. f = [i \in 1 .. Len(pat) + 1 |->
             IF i > Len(pat) THEN [literal |-> TRUE, text |-> <<>>]
             ELSE IF Wild(i) THEN [f[Ahead1(i)] EXCEPT !.literal = FALSE]
             ELSE One(i, f[Ahead2(i)])]
  <2> HIDE DEF Wild, Ahead1, Ahead2, One
  <2>1. QED BY <1>4, <1>6
<1>8. tail = [i \in 1 .. Len(pat) + 1 |->
             IF i > Len(pat) THEN [literal |-> TRUE, text |-> <<>>]
             ELSE IF Wild(i) THEN [tail[Ahead1(i)] EXCEPT !.literal = FALSE]
             ELSE One(i, tail[Ahead2(i)])]
  <2> HIDE DEF Wild, Ahead1, Ahead2, One
  <2>1. QED BY <1>7
<1>9. TrailingLiteral(pat) = IF Contains(tail[1].text, Slash) THEN <<>> ELSE tail[1].text
  BY DEF TrailingLiteral
<1> HIDE DEF tail
<1>10. ASSUME NEW i \in 1 .. n + 1
      PROVE  tail[i] = IF i > n THEN NoTail ELSE Grown(pat, i, tail[ItemEnd(pat, i)])
  <2>1. tail[i] = IF i > Len(pat) THEN [literal |-> TRUE, text |-> <<>>]
                  ELSE IF Wild(i) THEN [tail[Ahead1(i)] EXCEPT !.literal = FALSE]
                  ELSE One(i, tail[Ahead2(i)])
    <3> HIDE DEF Wild, Ahead1, Ahead2, One
    <3>1. QED BY <1>8
  <2>2. Wild(i) => ItemEnd(pat, i) = Ahead1(i)
    BY DEF ItemEnd, Star, Question, Open, Escape
  <2>3. ~Wild(i) => ItemEnd(pat, i) = Ahead2(i)
    BY DEF ItemEnd
  <2>4. \A rest : Grown(pat, i, rest) = IF Wild(i) THEN [rest EXCEPT !.literal = FALSE] ELSE One(i, rest)
    BY DEF Grown, WildAt, CharAt, EscapedAt
  <2> HIDE DEF Wild, Ahead1, Ahead2, One
  <2>5. QED BY <2>1, <2>2, <2>3, <2>4 DEF NoTail
<1>11. \A i \in 1 .. n + 1 : tail[i] \in Tails
  <2> DEFINE T == {i \in 1 .. n + 1 : tail[i] \in Tails}
  <2>1. n + 1 \in T
    <3>1. n + 1 \in 1 .. n + 1 /\ n + 1 > n
      BY <1>1
    <3>2. QED BY <3>1, <1>3, <1>10
  <2>2. ASSUME NEW i \in 1 .. n, \A j \in i + 1 .. n + 1 : j \in T PROVE i \in T
    <3>1. i \in 1 .. n + 1 /\ ~(i > n)
      BY <1>1
    <3>2. ItemEnd(pat, i) \in T
      BY <1>2, <2>2
    <3>3. Grown(pat, i, tail[ItemEnd(pat, i)]) \in Tails
      BY <3>2, GrownIs
    <3>4. QED BY <3>1, <3>3, <1>10
  <2> HIDE DEF T
  <2>3. \A i \in 1 .. n + 1 : i \in T
    <3> HIDE DEF n
    <3>1. QED BY <1>1, <2>1, <2>2, DownTo
  <2>4. QED BY <2>3 DEF T
<1>12. tail \in [1 .. n + 1 -> Tails]
  <2>1. tail = [i \in 1 .. n + 1 |-> tail[i]]
    <3> HIDE DEF Wild, Ahead1, Ahead2, One
    <3>1. QED BY <1>8
  <2>2. QED BY <2>1, <1>11
<1>13. TailRun(pat, tail)
  BY <1>10 DEF TailRun
<1>14. QED BY <1>9, <1>12, <1>13

\* The text from t on ends with lit.
EndsIn(text, t, lit) ==
  /\ Len(lit) <= Len(text) + 1 - t
  /\ \A j \in 1 .. Len(lit) : text[Len(text) - Len(lit) + j] = lit[j]

\* A text without capitals.
IsLower(text) == \A i \in DOMAIN text : Lower(text[i]) = text[i]

LEMMA LiteralStep ==
  ASSUME NEW pat \in Seq(Byte), NEW i \in 1 .. Len(pat), NEW ch, ~WildAt(pat, i), Step(pat, i, ch) # 0
  PROVE  Lower(CharAt(pat, i)) = Lower(ch)
<1>1. pat[i] # Question /\ pat[i] # Star /\ (pat[i] = Open => ClassEnd(pat, i) = 0)
  BY DEF WildAt
<1>2. CASE pat[i] = Open
  <2>1. ClassMatch(pat, i, ch).next = 0
    BY <1>1, <1>2, ClassMatchIs
  <2>2. CharAt(pat, i) = Open
    BY <1>2 DEF CharAt, EscapedAt, Open, Escape
  <2>3. Step(pat, i, ch) = AfterClass(ClassMatch(pat, i, ch), AfterLiteral(Open, ch, i + 1))
    BY <1>1, <1>2 DEF Step, Open, Escape
  <2>4. Step(pat, i, ch) = AfterLiteral(Open, ch, i + 1)
    BY <2>1, <2>3 DEF AfterClass
  <2>5. QED BY <2>2, <2>4 DEF AfterLiteral
<1>3. CASE pat[i] # Open /\ EscapedAt(pat, i)
  <2>1. Step(pat, i, ch) = AfterLiteral(pat[i + 1], ch, i + 2)
    BY <1>1, <1>3 DEF Step, EscapedAt
  <2>2. QED BY <2>1, <1>3 DEF AfterLiteral, CharAt
<1>4. CASE pat[i] # Open /\ ~EscapedAt(pat, i)
  <2>1. Step(pat, i, ch) = AfterLiteral(pat[i], ch, i + 1)
    BY <1>1, <1>4 DEF Step, EscapedAt
  <2>2. QED BY <2>1, <1>4 DEF AfterLiteral, CharAt
<1>5. QED BY <1>2, <1>3, <1>4

LEMMA TailFits ==
  ASSUME NEW pat \in Seq(Byte), IsLower(pat), NEW text \in Seq(Byte), IsLower(text),
         NEW b, Ways(pat, text, b), NEW f \in [1 .. Len(pat) + 1 -> Tails], TailRun(pat, f)
  PROVE  \A i \in 1 .. Len(pat) + 1, t \in 1 .. Len(text) + 1 :
           i \in b[t] => /\ EndsIn(text, t, f[i].text)
                         /\ f[i].literal => Len(f[i].text) = Len(text) + 1 - t
<1> DEFINE m == Len(pat)   n == Len(text)
           Good(i, t) == /\ EndsIn(text, t, f[i].text)
                         /\ f[i].literal => Len(f[i].text) = n + 1 - t
           T == {i \in 1 .. m + 1 : \A t \in 1 .. n + 1 : i \in b[t] => Good(i, t)}
<1>1. m \in Nat /\ n \in Nat /\ 1 \in Int /\ m + 1 \in Int /\ 1 <= m + 1 /\ (m + 1) - 1 = m
  BY LenProperties
<1>2. \A i \in 1 .. m + 1 : f[i] \in Tails /\ f[i].text \in Seq(Byte) /\ Len(f[i].text) \in Nat /\ f[i].literal \in BOOLEAN
  <2>1. \A x \in Tails : x.text \in Seq(Byte) /\ x.literal \in BOOLEAN
    BY DEF Tails
  <2>2. QED BY <2>1, LenProperties
<1>3. m + 1 \in T
  <2>1. f[m + 1] = NoTail /\ m + 1 \in 1 .. m + 1
    BY <1>1 DEF TailRun
  <2>2. ASSUME NEW t \in 1 .. n + 1, m + 1 \in b[t] PROVE t = n + 1
    <3>1. t \notin 1 .. n
      BY <2>2, WaysGoBack
    <3>2. QED BY <3>1, <1>1
  <2>3. f[m + 1].text = <<>> /\ Len(f[m + 1].text) = 0
    BY <2>1 DEF NoTail
  <2>4. Good(m + 1, n + 1)
    BY <2>3, <1>1 DEF EndsIn
  <2> HIDE DEF Good
  <2>5. QED BY <2>1, <2>2, <2>4
<1>4. ASSUME NEW i \in 1 .. m, \A j \in i + 1 .. m + 1 : j \in T PROVE i \in T
  <2>1. i \in 1 .. m + 1 /\ ~(i > m) /\ i + 1 \in i + 1 .. m + 1 /\ i \in i .. m
    BY <1>1
  <2> DEFINE e == ItemEnd(pat, i)
  <2>2. e \in i + 1 .. m + 1 /\ e \in 1 .. m + 1
    <3>1. e \in i + 1 .. m + 1
      BY StepIs
    <3>2. QED BY <3>1, <1>1
  <2>3. f[i] = Grown(pat, i, f[e])
    BY <2>1 DEF TailRun
  <2> SUFFICES ASSUME NEW t \in 1 .. n + 1, i \in b[t] PROVE Good(i, t)
    BY <2>1
  <2> HIDE DEF e
  <2>4. ASSUME pat[i] # Star
        PROVE  t \in 1 .. n /\ t + 1 \in 1 .. n + 1 /\ Step(pat, i, text[t]) # 0 /\ Good(e, t + 1)
    <3>1. t # n + 1
      <4>1. i \in b[n + 1] => pat[i] = Star
        BY <2>1, WaysGoBack
      <4>2. QED BY <4>1, <2>4
    <3>2. t \in 1 .. n /\ t + 1 \in 1 .. n + 1
      BY <3>1, <1>1
    <3>3. Step(pat, i, text[t]) # 0 /\ Step(pat, i, text[t]) \in b[t + 1]
      BY <3>2, <2>4, WaysGoBack
    <3>4. e \in b[t + 1]
      BY <3>3, StepIs DEF e
    <3> HIDE DEF Good, n, m
    <3>5. Good(e, t + 1)
      BY <3>2, <3>4, <2>2, <1>4
    <3>6. QED BY <3>2, <3>3, <3>5
  <2>5. CASE WildAt(pat, i)
    <3>1. f[i].text = f[e].text /\ f[i].literal = FALSE
      <4>1. f[e] \in Tails
        BY <2>2, <1>2
      <4>2. QED BY <4>1, <2>3, <2>5 DEF Grown, Tails
    <3>2. PICK u \in 1 .. n + 1 : u >= t /\ EndsIn(text, u, f[e].text)
      <4>1. CASE pat[i] = Star
        <5>1. PICK u \in t .. n + 1 : i + 1 \in b[u]
          <6>1. i \in b[t] <=> \E u \in t .. n + 1 : i + 1 \in b[u]
            BY <4>1, StarWays
          <6>2. QED BY <6>1
        <5>2. e = i + 1
          BY <4>1 DEF e, ItemEnd, Star, Open, Escape
        <5>3. u \in 1 .. n + 1 /\ u >= t
          BY <1>1
        <5>4. EndsIn(text, u, f[i + 1].text)
          BY <5>1, <5>3, <2>1, <1>4
        <5>5. QED BY <5>2, <5>3, <5>4
      <4>2. CASE pat[i] # Star
        <5>1. t + 1 \in 1 .. n + 1 /\ t + 1 >= t /\ EndsIn(text, t + 1, f[e].text)
          BY <2>4, <4>2, <1>1
        <5>2. QED BY <5>1
      <4>3. QED BY <4>1, <4>2
    <3>3. Len(f[e].text) \in Nat
      BY <2>2, <1>2
    <3>4. EndsIn(text, t, f[e].text)
      <4> DEFINE x == Len(f[e].text)
      <4>1. x <= n + 1 - u /\ \A j \in 1 .. x : text[n - x + j] = f[e].text[j]
        BY <3>2 DEF EndsIn
      <4>2. x <= n + 1 - t
        <5>1. x \in Nat /\ x <= n + 1 - u
          BY <3>3, <4>1
        <5> HIDE DEF x
        <5>2. QED BY <5>1, <3>2, <1>1
      <4>3. QED BY <4>1, <4>2 DEF EndsIn
    <3>5. QED BY <3>1, <3>4
  <2>6. CASE ~WildAt(pat, i)
    <3>1. pat[i] # Star
      BY <2>6 DEF WildAt
    <3>2. t \in 1 .. n /\ Step(pat, i, text[t]) # 0 /\ Good(e, t + 1)
      BY <3>1, <2>4
    <3> DEFINE c == CharAt(pat, i)
               rest == f[e]
               lit == rest.text
    <3>3. c = text[t]
      <4>1. Lower(c) = Lower(text[t])
        BY <3>2, <2>6, LiteralStep
      <4>2. Lower(text[t]) = text[t]
        <5>1. t \in DOMAIN text
          BY <3>2, LenProperties
        <5>2. QED BY <5>1 DEF IsLower
      <4>3. Lower(c) = c
        <5>1. i \in DOMAIN pat /\ (i < m => i + 1 \in DOMAIN pat)
          BY <1>1, LenProperties
        <5>2. c = pat[i] \/ (i < m /\ c = pat[i + 1])
          BY DEF CharAt, EscapedAt
        <5>3. QED BY <5>1, <5>2 DEF IsLower
      <4>4. QED BY <4>1, <4>2, <4>3
    <3>4. rest \in Tails /\ lit \in Seq(Byte) /\ Len(lit) \in Nat /\ c \in Byte
      BY <2>2, <1>2, GrownIs
    <3>5. CASE rest.literal
      <4> DEFINE long == <<c>> \o lit   k == Len(lit)
      <4>1. f[i].text = long
        BY <3>4, <3>5, <2>3, <2>6 DEF Grown, Tails
      <4>2. <<c>> \in Seq(Byte) /\ Len(<<c>>) = 1
        BY <3>4
      <4>3. Len(long) = 1 + Len(lit) /\ \A j \in 1 .. 1 + Len(lit) : long[j] = IF j <= 1 THEN <<c>>[j] ELSE lit[j - 1]
        BY <4>2, <3>4, ConcatProperties
      <4>4. k = n + 1 - (t + 1) /\ \A j \in 1 .. k : text[n - k + j] = lit[j]
        BY <3>2, <3>5 DEF EndsIn
      <4>5. k \in Nat
        BY <3>4
      <4> HIDE DEF long, k, lit, rest, c
      <4>6. Len(long) = k + 1 /\ k + 1 = n + 1 - t /\ n - (k + 1) + 1 = t
        BY <4>3, <4>4, <4>5, <1>1 DEF k
      <4>7. ASSUME NEW j \in 1 .. k + 1 PROVE text[n - (k + 1) + j] = long[j]
        <5>1. CASE j = 1
          <6>1. long[1] = c
            BY <4>3, <4>5, <4>6
          <6>2. QED BY <5>1, <6>1, <4>6, <3>3
        <5>2. CASE j # 1
          <6>1. j - 1 \in 1 .. k /\ n - k + (j - 1) = n - (k + 1) + j /\ ~(j <= 1) /\ j \in 1 .. 1 + k
            BY <5>2, <4>5, <1>1
          <6>2. long[j] = lit[j - 1]
            BY <6>1, <4>3 DEF k
          <6>3. text[n - k + (j - 1)] = lit[j - 1]
            BY <6>1, <4>4
          <6>4. QED BY <6>1, <6>2, <6>3
        <5>3. QED BY <5>1, <5>2
      <4>8. Len(long) <= n + 1 - t /\ \A j \in 1 .. Len(long) : text[n - Len(long) + j] = long[j]
        BY <4>6, <4>7, <4>5, <1>1
      <4>9. EndsIn(text, t, long) /\ Len(long) = n + 1 - t
        BY <4>6, <4>8 DEF EndsIn
      <4>10. QED BY <4>1, <4>9
    <3>6. CASE ~rest.literal
      <4>1. f[i] = f[e]
        BY <2>3, <2>6, <3>6 DEF Grown
      <4>2. EndsIn(text, t + 1, lit)
        BY <3>2
      <4>3. EndsIn(text, t, lit)
        <5> DEFINE x == Len(lit)
        <5>1. x <= n + 1 - (t + 1) /\ \A j \in 1 .. x : text[n - x + j] = lit[j]
          BY <4>2 DEF EndsIn
        <5>2. x <= n + 1 - t
          <6>1. x \in Nat /\ x <= n + 1 - (t + 1)
            BY <3>4, <5>1
          <6> HIDE DEF x
          <6>2. QED BY <6>1, <3>2, <1>1
        <5>3. QED BY <5>1, <5>2 DEF EndsIn
      <4>4. QED BY <4>1, <4>3, <3>6
    <3>7. QED BY <3>5, <3>6
  <2>7. QED BY <2>5, <2>6
<1> HIDE DEF T
<1>5. \A i \in 1 .. m + 1 : i \in T
  <2> HIDE DEF m
  <2>1. QED BY <1>1, <1>3, <1>4, DownTo
<1>6. QED BY <1>5 DEF T

\* Every text that fits ends with the literal end of the pattern, which does not
\* reach into the name before.
LEMMA FittingEnds ==
  ASSUME NEW pat \in Seq(Byte), IsLower(pat), NEW text \in Seq(Byte), IsLower(text), Fits(pat, text)
  PROVE  /\ TrailingLiteral(pat) \in Seq(Byte)
         /\ EndsIn(text, 1, TrailingLiteral(pat))
         /\ ~Contains(TrailingLiteral(pat), Slash)
<1>1. PICK b : Ways(pat, text, b)
  BY WaysExist
<1>2. PICK f \in [1 .. Len(pat) + 1 -> Tails] :
        /\ TailRun(pat, f)
        /\ TrailingLiteral(pat) = IF Contains(f[1].text, Slash) THEN <<>> ELSE f[1].text
  BY TailRuns
<1>3. Len(pat) \in Nat /\ Len(text) \in Nat /\ 1 \in 1 .. Len(pat) + 1 /\ 1 \in 1 .. Len(text) + 1
  BY LenProperties
<1>4. 1 \in b[1]
  BY <1>1, FitsByWays
<1>5. EndsIn(text, 1, f[1].text)
  BY <1>1, <1>2, <1>3, <1>4, TailFits
<1>6. f[1].text \in Seq(Byte)
  BY <1>3 DEF Tails
<1>7. EndsIn(text, 1, <<>>) /\ ~Contains(<<>>, Slash) /\ <<>> \in Seq(Byte)
  BY <1>3 DEF EndsIn, Contains
<1>8. QED BY <1>2, <1>5, <1>6, <1>7
=============================================================================
