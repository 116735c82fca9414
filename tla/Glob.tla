-------------------------------- MODULE Glob --------------------------------
(***************************************************************************)
(* Text matching of search.rs: the substring search, the wildcard matcher  *)
(* and the literal end of a pattern that the scan uses as its anchor.      *)
(*                                                                         *)
(* A text is a sequence of bytes.  Positions count from 1, and 0 stands    *)
(* for the code's None.  Recursion is by recursive functions.              *)
(***************************************************************************)
EXTENDS Naturals, Sequences, SequencesExt, FiniteSetsExt

Byte == 0 .. 255

Bang == 33   Star == 42   Dash == 45   Slash == 47   Question == 63
Open == 91   Escape == 92   Close == 93   Caret == 94

\* Only ASCII letters are folded.
Lower(b) == IF b \in 65 .. 90 THEN b + 32 ELSE b
LowerAll(text) == [i \in DOMAIN text |-> Lower(text[i])]

\* contains_ci: the needle is in lower case already.
ContainsCi(hay, needle) ==
  \E i \in 0 .. Len(hay) - Len(needle) :
    \A j \in DOMAIN needle : Lower(hay[i + j]) = needle[j]

HasGlobChars(t) == \E i \in DOMAIN t : t[i] \in {Star, Question, Open}

-----------------------------------------------------------------------------
(* Character sets: [abc], [a-c], [!abc], []abc].                           *)

Negated(pat, start) == start < Len(pat) /\ pat[start + 1] \in {Bang, Caret}

\* The first member, which may be a closing bracket.
FirstMember(pat, start) == IF Negated(pat, start) THEN start + 2 ELSE start + 1

\* class_end: the position behind the closing bracket, 0 if there is none.
ClassEnd(pat, start) ==
  LET ends == {i \in FirstMember(pat, start) + 1 .. Len(pat) : pat[i] = Close}
  IN  IF ends = {} THEN 0 ELSE Min(ends) + 1

\* class_match: the position behind the set, and whether it accepts ch.
ClassMatch(pat, start, ch) ==
  LET first == FirstMember(pat, start)
      IsRange(i) == i + 2 <= Len(pat) /\ pat[i + 1] = Dash /\ pat[i + 2] # Close
      Accepts(i) == LET last == IF IsRange(i) THEN i + 2 ELSE i
                    IN  Lower(pat[i]) <= Lower(ch) /\ Lower(ch) <= Lower(pat[last])
      from[i \in first .. Len(pat) + 1] ==
        IF i > Len(pat) THEN [next |-> 0, hit |-> FALSE]
        ELSE IF pat[i] = Close /\ i # first THEN [next |-> i + 1, hit |-> FALSE]
        ELSE LET rest == from[IF IsRange(i) THEN i + 3 ELSE i + 1]
             IN  [rest EXCEPT !.hit = @ \/ Accepts(i)]
      all == from[first]
  IN  [all EXCEPT !.hit = (@ # Negated(pat, start))]

-----------------------------------------------------------------------------
(* The matcher.                                                            *)

\* Where the pattern goes on when the literal c, or a set, takes the character,
\* or 0.  A set without its end is a literal.
AfterLiteral(c, ch, next) == IF Lower(c) = Lower(ch) THEN next ELSE 0
AfterClass(class, literal) ==
  IF class.next = 0 THEN literal ELSE IF class.hit THEN class.next ELSE 0

\* The same of the item at p.
Step(pat, p, ch) ==
  CASE pat[p] = Question -> p + 1
    [] pat[p] = Open -> AfterClass(ClassMatch(pat, p, ch), AfterLiteral(Open, ch, p + 1))
    [] pat[p] = Escape /\ p < Len(pat) -> AfterLiteral(pat[p + 1], ch, p + 2)
    [] OTHER -> AfterLiteral(pat[p], ch, p + 1)

\* The matcher's state: where it is in the pattern and in the text, the last
\* star met (0 before any) and where in the text that one ended.
Matching(pat, text) ==
  {s \in (1 .. Len(pat) + 1) \X (1 .. Len(text) + 1) \X (0 .. Len(pat)) \X (0 .. Len(text) + 1) : s[4] <= s[2]}

\* Mutant: the matcher goes back to the first star, not to the last one.
GlobMatchFirstStar(pat, text) ==
  LET run[s \in Matching(pat, text)] ==
        LET p == s[1]   t == s[2]   starP == s[3]   starT == s[4]
            next == IF p <= Len(pat) THEN Step(pat, p, text[t]) ELSE 0
        IN  IF t > Len(text) THEN \A i \in p .. Len(pat) : pat[i] = Star
            ELSE IF p <= Len(pat) /\ pat[p] = Star
              THEN IF starP = 0 THEN run[<<p + 1, t, p, t>>] ELSE run[<<p + 1, t, starP, starT>>]
            ELSE IF next # 0 THEN run[<<next, t + 1, starP, starT>>]
            ELSE IF starP # 0 THEN run[<<starP + 1, starT + 1, starP, starT + 1>>]
            ELSE FALSE
  IN  run[<<1, 1, 0, 0>>]

\* glob_match: one backtrack point, the last star met, which takes one more
\* character whenever what follows it does not fit.
GlobMatch(pat, text) ==
  LET run[s \in Matching(pat, text)] ==
        LET p == s[1]   t == s[2]   starP == s[3]   starT == s[4]
            next == IF p <= Len(pat) THEN Step(pat, p, text[t]) ELSE 0
        IN  IF t > Len(text) THEN \A i \in p .. Len(pat) : pat[i] = Star
            ELSE IF p <= Len(pat) /\ pat[p] = Star THEN run[<<p + 1, t, p, t>>]
            ELSE IF next # 0 THEN run[<<next, t + 1, starP, starT>>]
            ELSE IF starP # 0 THEN run[<<starP + 1, starT + 1, starP, starT + 1>>]
            ELSE FALSE
  IN  run[<<1, 1, 0, 0>>]

\* trailing_literal: what every text that fits must end with, <<>> when the
\* pattern ends in a wildcard or the end could reach into a directory's name.
TrailingLiteral(pat) ==
  LET Wild(i) == pat[i] \in {Star, Question} \/ (pat[i] = Open /\ ClassEnd(pat, i) # 0)
      Escaped(i) == pat[i] = Escape /\ i < Len(pat)
      tail[i \in 1 .. Len(pat) + 1] ==
        IF i > Len(pat) THEN [literal |-> TRUE, text |-> <<>>]
        ELSE IF Wild(i)
          THEN [tail[IF pat[i] = Open THEN ClassEnd(pat, i) ELSE i + 1] EXCEPT !.literal = FALSE]
        ELSE LET rest == tail[IF Escaped(i) THEN i + 2 ELSE i + 1]
                 c    == IF Escaped(i) THEN pat[i + 1] ELSE pat[i]
             IN  IF rest.literal THEN [rest EXCEPT !.text = <<c>> \o @] ELSE rest
      text == tail[1].text
  IN  IF Contains(text, Slash) THEN <<>> ELSE text

-----------------------------------------------------------------------------
(* What the wildcards mean: every way to divide the text among the items   *)
(* of the pattern is tried at once.                                        *)

\* The positions of the pattern that these and the stars at them lead to.
PastStars(pat, ps) ==
  {q \in 1 .. Len(pat) + 1 : \E p \in ps : p <= q /\ \A i \in p .. q - 1 : pat[i] = Star}

Fits(pat, text) ==
  LET Goes(p, ch) == IF p > Len(pat) THEN {}
                     ELSE IF pat[p] = Star THEN {p} ELSE {Step(pat, p, ch)} \ {0}
      at[t \in 0 .. Len(text)] ==
        PastStars(pat, IF t = 0 THEN {1} ELSE UNION {Goes(p, text[t]) : p \in at[t - 1]})
  IN  Len(pat) + 1 \in at[Len(text)]
=============================================================================
