------------------------------- MODULE MCScan -------------------------------
(***************************************************************************)
(* Instances of Scan and IndexFile for TLC: a root with two directories,   *)
(* one of which holds a mount point and a directory that holds one more.   *)
(***************************************************************************)
EXTENDS IndexFile

CONSTANTS w1, w2, w3, top, left, right, leaf, deep, mount

SixDirs == {top, left, right, leaf, deep, mount}
Tree == [d \in SixDirs |-> CASE d = top   -> <<left, right>>
                              [] d = right -> <<leaf, mount>>
                              [] d = leaf  -> <<deep>>
                              [] OTHER     -> <<>>]
Letters == {"t", "l", "m", "r", "d", "e"}
\* Names of different lengths, in the root, in two siblings and at the bottom.
Names == [d \in SixDirs |-> CASE d = top   -> << <<"t">> >>
                               [] d = left  -> << <<"l", "l">>, <<"m">> >>
                               [] d = right -> << <<"r">> >>
                               [] d = deep  -> << <<"d", "d", "d">>, <<"e">> >>
                               [] OTHER     -> <<>>]
TwoWorkers == {w1, w2}
ThreeWorkers == {w1, w2, w3}
Mount == {mount}
\* A directory without subdirectories, and one with, of which reading may lose it.
Some == {left, leaf}
=============================================================================
