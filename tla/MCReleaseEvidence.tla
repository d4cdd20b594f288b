--------------------------- MODULE MCReleaseEvidence ---------------------------
(* Instances of ReleaseEvidence for TLC.                                   *)
EXTENDS ReleaseEvidence

CONSTANTS t1, b1, r1, r2, r3

SomeGateFaults == {{}, {"test"}}
=============================================================================
