----------------------------- MODULE MCVerifyGates -----------------------------
(* Instances of VerifyGates for TLC.                                       *)
EXTENDS VerifyGates

\* What other steps repair, a step that needs the providers, one with OPA, and
\* the last one.
SomeDefective ==
    {"fmt-check", "lockfile-check", "docs-diff", "test", "opa-policy", "integration"}
=============================================================================
