------------------------- MODULE MCPrivilegedWorkflows -------------------------
(* Instances of PrivilegedWorkflows for TLC.                               *)
EXTENDS PrivilegedWorkflows, TLC

CONSTANTS w1, w2, w3

WorkflowSymmetry == Permutations({w1, w2, w3})
=============================================================================
