------------------------------ MODULE MCResume ------------------------------
(***************************************************************************)
(* Instances of Resume for TLC.                                            *)
(***************************************************************************)
EXTENDS Resume

CONSTANTS d1, d2, c1, c2

TwoDirs     == {d1, d2}
TwoContents == {c1, c2}

AloneOrBeside == {AllFaults \ {"index"}, {"overflow"}, {"index", "reset"}}
IndexOnly     == {{"index"}}
ResetOnly     == {{"reset"}}
DropAndFail   == {{"overflow", "fail"}}
=============================================================================
