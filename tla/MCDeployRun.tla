----------------------------- MODULE MCDeployRun ------------------------------
(* Instances of DeployRun for TLC.                                         *)
EXTENDS DeployRun, FiniteSets

CONSTANTS r1, r2, c1, c2

TwoRuns == {r1, r2}

\* Every combination of inputs, and of secrets where they are read.
AllInputs == {i \in InputSpace : i.mode # "s3" => i.secrets = "ok"}

\* Runs that reach terraform on the shared state: plan-only and applying, with
\* and without an overlay.
SharedInputs ==
    [mode : {"s3"}, ref : {"sha"}, overlay : BOOLEAN, secrets : {"ok"},
     tfvars : {"ok"}, upload : {FALSE}, apply : BOOLEAN]

\* Two runs on the shared state (the first applies if any does: the runs are
\* alike), or one with any inputs beside one whose state mode is unknown and whose
\* steps are therefore all skipped.
Paired ==
    \/ in \in [Runs -> SharedInputs] /\ (in[r2].apply => in[r1].apply)
    \/ in[r2] = [mode |-> "other", ref |-> "sha", overlay |-> FALSE, secrets |-> "ok",
                 tfvars |-> "none", upload |-> FALSE, apply |-> FALSE]

PairedInit == Init /\ Paired

PairedSpec == PairedInit /\ [][Next]_vars /\ \A r \in Runs : WF_vars(RunStep(r))
=============================================================================
