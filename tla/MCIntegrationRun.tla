---------------------------- MODULE MCIntegrationRun ----------------------------
(* Instances of IntegrationRun for TLC.                                    *)
EXTENDS IntegrationRun

\* The case of tools/ci/config.toml.
BasicCase == {[tfvars |-> TRUE, tflint |-> TRUE, inside |-> TRUE]}
=============================================================================
