------------------------------ MODULE MCUpdater ------------------------------
(***************************************************************************)
(* Instances of Updater for TLC: two names and trees of depth two; one     *)
(* more level for DeepStart and SwapStart, and a third name for the latter. *)
(***************************************************************************)
EXTENDS Updater

CONSTANTS a, b, c

TwoNames   == {a, b}
ThreeNames == {a, b, c}

A == <<a>>
B == <<b>>
AB == <<a, b>>

DiskWith(dirs, files) ==
  [p \in Paths |-> IF p \in dirs THEN "dir" ELSE IF p \in files THEN "file" ELSE "none"]

\* The scan of a directory a that holds a directory b (ids 1, 2, 3).
NestedStart ==
  [disk  |-> DiskWith({A, AB}, {}),
   index |-> BaseOf([dirs  |-> <<[name |-> a, parent |-> NoDir],
                                 [name |-> a, parent |-> 1], [name |-> b, parent |-> 2]>>,
                     files |-> <<>>])]

\* The scan of a directory a with a directory b with a file a.
DeepStart ==
  [disk  |-> DiskWith({A, AB}, {<<a, b, a>>}),
   index |-> BaseOf([dirs  |-> <<[name |-> a, parent |-> NoDir],
                                 [name |-> a, parent |-> 1], [name |-> b, parent |-> 2]>>,
                     files |-> <<[name |-> a, parent |-> 3]>>])]

\* An empty root.
EmptyStart ==
  [disk  |-> DiskWith({}, {}),
   index |-> BaseOf([dirs |-> <<[name |-> a, parent |-> NoDir]>>, files |-> <<>>])]

\* Directories a and b that each hold a directory a; the one in a holds a file.
SwapStart ==
  [disk  |-> DiskWith({A, B, <<a, a>>, <<b, a>>}, {<<a, a, a>>}),
   index |-> BaseOf([dirs  |-> <<[name |-> a, parent |-> NoDir],
                                 [name |-> a, parent |-> 1], [name |-> b, parent |-> 1],
                                 [name |-> a, parent |-> 2], [name |-> a, parent |-> 3]>>,
                     files |-> <<[name |-> a, parent |-> 4]>>])]

NestedOnly == {NestedStart}
EmptyOnly == {EmptyStart}
SwapOnly == {SwapStart}
DeepOrEmpty == {DeepStart, EmptyStart}
BothStarts == {NestedStart, EmptyStart}
NoneIgnored == {}
BIgnored == {B}
=============================================================================
