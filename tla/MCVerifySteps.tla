------------------------------ MODULE MCVerifySteps ------------------------------
(***************************************************************************)
(* verify.py and the steps it runs that have modules of their own, side by *)
(* side: each behaviour follows one of them, and the others stay put.      *)
(***************************************************************************)
EXTENDS MCVerifyGates, TLC

CONSTANTS
    Deepest,                        \* RunInputScan
    Cases, Absent, Slips,           \* IntegrationRun
    RuleSlips, ChartSlips, Guards,  \* ChartGates
    Required,                       \* DocumentGates
    MaxEdits

\* With everything, with nothing that is optional, and with a name that leads out
\* of artifact_root.
SomeCases ==
    {[tfvars |-> TRUE, tflint |-> TRUE, inside |-> TRUE],
     [tfvars |-> FALSE, tflint |-> FALSE, inside |-> TRUE],
     [tfvars |-> TRUE, tflint |-> TRUE, inside |-> FALSE]}

\* With two values, without one, and with one but not another.
SomeGuards ==
    {[with |-> {"vault", "storage"}, without |-> {}], [with |-> {}, without |-> {"net_bind"}],
     [with |-> {"vault"}, without |-> {"storage"}]}

Sections == <<"Context", "Decision Outcome", "Consequences">>

ASSUME MaxEditsAssumption == MaxEdits \in Nat

\* REQUIRED_SECTIONS is a tuple of strings.
ASSUME RequiredAssumption == Required \in Seq(STRING)

\* No chart loses or gains one of the four snippets by which the conditional parts are
\* known, other than with the part itself.
ASSUME ChartSlipsAssumption ==
    ChartSlips \cap {"VaultStaticSecret", "PersistentVolumeClaim", "token",
                     "NET_BIND_SERVICE"} = {}

VARIABLES
    focus,
    line, active, flagged, block, due, nested, first,
    role, src, iEdits, ws, case, step, copied, iFault, iVerdict,
    deny, text, golden, given, cEdits, cTarget, cTodo, cFault, cVerdict,
    files, root, tracked, bom, linked, named, heads, rows, manifest, git, dEdits, promised,
    behind, cloned

inputs == <<line, active, flagged, block, due, nested, first>>
integration == <<role, src, iEdits, ws, case, step, copied, iFault, iVerdict>>
charts == <<deny, text, golden, given, cEdits, cTarget, cTodo, cFault, cVerdict>>
documents == <<files, root, tracked, bom, linked, named, heads, rows, manifest, git, dEdits,
               promised, behind, cloned>>

stepsVars == <<focus, vars, inputs, integration, charts, documents>>

R == INSTANCE RunInputScan
I == INSTANCE IntegrationRun
        WITH edits <- iEdits, fault <- iFault, verdict <- iVerdict
C == INSTANCE ChartGates
        WITH edits <- cEdits, target <- cTarget, todo <- cTodo, fault <- cFault, verdict <- cVerdict
D == INSTANCE DocumentGates WITH edits <- dEdits

StepsInit ==
    /\ focus \in {"targets", "inputs", "integration", "charts", "documents"}
    /\ Init /\ (focus # "targets" => module /\ defects = {})
    /\ R!Init /\ (focus # "inputs" => line.indent = 0)
    /\ I!Init /\ (focus # "integration" => role = "framework" /\ case = CHOOSE c \in Cases : TRUE)
    /\ C!Init
    /\ D!Init /\ (focus # "documents" => git)

StepsNext ==
    \/ focus = "targets" /\ Next
         /\ UNCHANGED <<focus, inputs, integration, charts, documents>>
    \/ focus = "inputs" /\ R!Next
         /\ UNCHANGED <<focus, vars, integration, charts, documents>>
    \/ focus = "integration" /\ I!Next
         /\ UNCHANGED <<focus, vars, inputs, charts, documents>>
    \/ focus = "charts" /\ C!Next
         /\ UNCHANGED <<focus, vars, inputs, integration, documents>>
    \/ focus = "documents" /\ D!Next
         /\ UNCHANGED <<focus, vars, inputs, integration, charts>>

StepsSpec == StepsInit /\ [][StepsNext]_stepsVars

\* As in VerifyGates.
FairSteps == StepsSpec /\ WF_vars(Harness) /\ WF_vars(Deadline)

-----------------------------------------------------------------------------
(* The properties of the modules, which state and explain them.            *)

\* RunInputScan: every interpolation into a plain script is reported.
PlainScriptsReported == [][focus = "inputs" => R!ReportsScript]_inputs

\* RunInputScan: what is reported wrongly is text of another key.
OddReportsExplained == [][focus = "inputs" => R!ReportExplained]_inputs

\* IntegrationRun: the gates look at the checkout, not at an earlier workspace.
AssembledFresh == focus = "integration" => I!AssembledFresh

\* IntegrationRun: green means that no gate of the case refuses a file.
GreenMeansSound == focus = "integration" => I!GreenMeansSound

\* IntegrationRun: red has a reason in the checkout or in a tool.
RefusalExplained == focus = "integration" => I!RefusalExplained

\* ChartGates: green chart-policy means that the rules still guard.
RulesGuarded == focus = "charts" => C!RulesGuarded

\* ChartGates: green ci means that the golden chart is admitted in each combination.
ChartAdmissible == focus = "charts" => C!ChartAdmissible

\* ChartGates: a tool that breaks down is no denial.
FailureIsNoDenial == focus = "charts" => C!FailureIsNoDenial

\* ChartGates: charts, policies and expectations agree.
ExpectationsAgree == focus = "charts" => C!ExpectationsAgree

\* DocumentGates: no record is lost on the way into a commit that the checks accept.
NoRecordLeftBehind == focus = "documents" => D!NoRecordLeftBehind

\* DocumentGates: no section of an accepted record is met before its turn.
RecordsSound == focus = "documents" => D!RecordsSound

\* DocumentGates: an accepted manifest is accepted in a checkout of its commit.
ManifestSurvivesCommit == focus = "documents" => D!ManifestSurvivesCommit
=============================================================================
