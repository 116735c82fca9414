------------------------------ MODULE Traversal ------------------------------
(***************************************************************************)
(* What a scan promises: directories are taken in any order, each is       *)
(* listed at most once, and the scan ends when none is left.  Nothing is   *)
(* said of workers, queues or ids; Scan implements it.  The rebuild of     *)
(* Updater (ScanOne) is this traversal over a disk that moves.             *)
(***************************************************************************)
CONSTANTS Dir,       \* directories
          Top,       \* where the scan starts
          Inside,    \* the directories directly inside each directory
          Foreign,   \* the directories that are mount points of other volumes
          Flaky      \* the directories that may fail to open, or to be listed in full

VARIABLES pending,   \* directories known and not yet taken
          listed,    \* directories listed
          finished   \* has the scan declared itself over?

Init == pending = {Top} /\ listed = {} /\ finished = FALSE

\* A directory is listed, in full unless listing it failed on the way.
List(d) ==
  /\ ~finished
  /\ d \in pending \ listed
  /\ \E found \in SUBSET Inside[d] :
       /\ found = Inside[d] \/ d \in Flaky
       /\ pending' = (pending \ {d}) \cup found
  /\ listed' = listed \cup {d}
  /\ UNCHANGED finished

\* A directory is passed over.
Pass(d) ==
  /\ ~finished
  /\ d \in pending \cap (Flaky \cup Foreign)
  /\ pending' = pending \ {d}
  /\ UNCHANGED <<listed, finished>>

Finish == /\ pending = {} /\ ~finished
          /\ finished' = TRUE
          /\ UNCHANGED <<pending, listed>>

Next == (\E d \in Dir : List(d) \/ Pass(d)) \/ Finish

Spec == Init /\ [][Next]_<<pending, listed, finished>>
-----------------------------------------------------------------------------

\* In the end the start is listed, and with a directory that did not fail
\* everything inside it, but for what is on other volumes and what failed.
Complete ==
  finished => /\ Top \in listed \cup Flaky
              /\ \A d \in listed \ Flaky : Inside[d] \subseteq listed \cup Flaky \cup Foreign
=============================================================================
