------------------------------ MODULE MCClient ------------------------------
(***************************************************************************)
(* Instances of Client for TLC.                                            *)
(***************************************************************************)
EXTENDS Client

a == 97   b == 98

Dir(name, parent)  == [name |-> name, parent |-> parent]
File(name, parent) == [name |-> name, parent |-> parent]

\* An index of the root /a: a directory with the name b that holds aba, an id
\* left unused, and the files Ab and b.
Tree == BaseOf([dirs  |-> <<Dir(<<Slash, a>>, NoDir), Dir(<<b>>, 1), Dir(<<>>, NoDir)>>,
                files |-> <<File(<<65, b>>, 1), File(<<b>>, 1), File(<<a, b, a>>, 2)>>])

\* The same with b gone and a file ba and a directory [a with a file in it new.
Changed ==
  LET kept == Kill(Tree, {}, {2})
      one  == PushFiles(kept, 2, {<<b, a>>})
  IN  Graft(one, 1, [dirs  |-> <<Dir(<<Open, a>>, 0)>>, files |-> <<File(<<Dash>>, 1)>>])

\* An index of the root /, with a line break and an EOT in names.
Odd == BaseOf([dirs  |-> <<Dir(<<Slash>>, NoDir), Dir(<<a, EOT>>, 1)>>,
               files |-> <<File(<<a, Newline, b>>, 1), File(<<b, Close>>, 2)>>])

\* The file aa after the file ba: the arena holds aa across the two names, so
\* that the next search begins behind the first a of the second one, and with
\* three threads the second one also lies in two shares.
Twins == BaseOf([dirs  |-> <<Dir(<<Slash, b>>, NoDir)>>,
                 files |-> <<File(<<b, a>>, 1), File(<<a, a>>, 1), File(<<b, b, b, b>>, 1)>>])

Nothing == {}
SomeSnapshots == {Tree, Changed, Odd, Twins}
NamesUsed == UNION {NamesOf(l.dirs, DOMAIN l.dirs) \cup NamesOf(l.files, DOMAIN l.files) : l \in SomeSnapshots}
SomeFiles == {Tree, Odd}

AnyOptions == [whole_path |-> FALSE, basename |-> FALSE, type |-> "all"]
WithPath   == [AnyOptions EXCEPT !.whole_path = TRUE]
WithName   == [AnyOptions EXCEPT !.basename = TRUE]

Of(lines, opts, limit, null, count) ==
  [lines |-> lines, opts |-> opts, limit |-> limit, null |-> null, count |-> count]

\* The texts over an alphabet.
TextsOf(alphabet, n) == UNION {[1 .. k -> alphabet] : k \in 1 .. n}

Patterns == TextsOf({a, b, Star, Question, Open, Close, Bang, Dash, Slash, Escape}, 3)
            \cup TextsOf({a, b, Star}, 4) \cup TextsOf({a, Open, Close, Bang}, 4)
FewWords == {<<a>>, <<b>>, <<a, b>>, <<Slash>>, <<a, Slash, b>>, <<Star, a>>, <<b, Star>>}

\* Every pattern alone, and two words together.
ManyCommands ==
  {Of(<< <<w>> >>, o, 0, FALSE, FALSE) : w \in Patterns, o \in {AnyOptions, WithPath, WithName}}
  \cup {Of(<< <<v, w>> >>, [AnyOptions EXCEPT !.type = t], 0, FALSE, FALSE) :
          v \in FewWords, w \in FewWords, t \in {"all", "dirs", "files"}}

A == <<a>>
StarB == <<Star, b>>
OfA == Of(<< <<A>> >>, AnyOptions, 0, FALSE, FALSE)
FewCommands ==
  {OfA, [OfA EXCEPT !.limit = 1], [OfA EXCEPT !.count = TRUE], [OfA EXCEPT !.null = TRUE],
   Of(<< <<A, StarB>> >>, AnyOptions, 2, FALSE, FALSE), Of(<< <<A>>, <<StarB>> >>, AnyOptions, 0, FALSE, FALSE)}

\* Many queries while nothing else goes on, and a few among everything.
Quiet == [commands |-> ManyCommands, peers |-> {"none"}, lives |-> {Tree, Changed},
          files |-> {Tree}, moves |-> 0]
Asked == [commands |-> FewCommands, peers |-> {"none", "old", "new"}, lives |-> {Tree, Odd},
          files |-> {Tree}, moves |-> 2]
SomeScenarios == {Quiet, [Quiet EXCEPT !.lives = {Odd, Twins}, !.files = {Odd}], Asked}

OnlyTwins == {Twins}
DaemonUp == [commands |-> {Of(<< <<w>> >>, AnyOptions, 0, FALSE, FALSE) : w \in TextsOf({a, b, Star}, 3)},
             peers |-> {"new"}, lives |-> {Twins}, files |-> {Twins}, moves |-> 0]
OnlyDaemonUp == {DaemonUp}
=============================================================================
