------------------------------ MODULE VerifyGates ------------------------------
(***************************************************************************)
(* tools/verify.py: the gates of a checkout, run one after the other until *)
(* one fails, and the watchdog over OPA.                                   *)
(*                                                                         *)
(* A checkout is known by its defects: a step of that name would report    *)
(* it.  Some steps also change the checkout and remove a defect that       *)
(* another step looks for.  The checkout outlives an invocation.           *)
(***************************************************************************)
EXTENDS Naturals, Sequences

CONSTANT Defective      \* the steps whose subject may be defective

Steps == {"fmt", "fmt-check", "init", "validate", "tflint", "ruff", "yamllint",
          "actionlint", "markdownlint", "test", "workflow-helper-tests",
          "workflow-bom-check", "chart-schema", "chart-policy",
          "privileged-workflows", "opa-test", "opa-policy", "opa-plan",
          "manifest-check", "lockfile-check", "docs", "docs-diff",
          "docs-layout", "adr-schema", "integration"}

\* opa-plan only prints.
ASSUME DefectiveAssumption == Defective \subseteq Steps \ {"opa-plan"}

Groups == {"lint", "policy", "docs-check", "ci", "verify", "scaffold"}

\* Mutant: the files are formatted before their format is checked.
Lint_Fmt == <<"fmt", "fmt-check", "init", "validate", "tflint", "ruff", "yamllint">>

\* Mutant: the module is validated before its providers are there.
Lint_ValidateFirst == <<"fmt-check", "validate", "init", "tflint", "ruff", "yamllint">>

Lint == <<"fmt-check", "init", "validate", "tflint", "ruff", "yamllint">>

\* scaffold: what the CI job runs while there is no Terraform module.
TARGETS == [g \in Groups |->
    CASE g = "lint"       -> Lint
      [] g = "policy"     -> <<"opa-test", "opa-policy", "opa-plan">>
      [] g = "docs-check" -> <<"docs-diff", "docs-layout", "adr-schema">>
      [] g = "ci"         -> <<"lint", "actionlint", "workflow-bom-check", "test",
                               "chart-schema", "chart-policy", "workflow-helper-tests",
                               "privileged-workflows", "policy", "markdownlint",
                               "docs-check", "manifest-check", "lockfile-check">>
      [] g = "verify"     -> <<"ci", "integration">>
      [] OTHER            -> <<"workflow-bom-check", "workflow-helper-tests",
                               "privileged-workflows", "opa-test", "opa-policy",
                               "manifest-check", "docs-layout", "adr-schema">>]

Names == Steps \cup Groups
OpaSteps == {"opa-test", "opa-policy"}
NeedsModule == {"fmt", "fmt-check", "init", "validate", "tflint", "test",
                "lockfile-check", "docs", "docs-diff", "integration"}
NeedsInit == {"validate", "test"}

\* These call no tool that could fail by itself.
Pure == {"opa-plan", "workflow-bom-check", "lockfile-check"}

\* The steps a target comes down to.
Parts(n) == IF n \in Groups THEN {TARGETS[n][i] : i \in DOMAIN TARGETS[n]} ELSE {n}
Leaves(n) == UNION {UNION {Parts(b) : b \in Parts(a)} : a \in Parts(n)}

\* Groups are nested at most three deep.
ASSUME NestingAssumption == \A n \in Names : Leaves(n) \subseteq Steps

VARIABLES
    module,       \* there is a Terraform module in the checkout
    defects,      \* steps that would report a defect of the checkout
    initialised,  \* terraform/.terraform holds the providers
    target,       \* the target of the last invocation
    atStart,      \* defects when it was invoked
    todo,         \* names left to execute
    fault,        \* a tool failed for a reason outside the checkout
    verdict,      \* of the invocation
    pc,           \* where the invocation is
    proc,         \* the OPA process
    late,         \* time.monotonic() > deadline
    killed        \* killed_reason is set

checkout == <<module, defects, initialised>>
watch == <<proc, late, killed>>
vars == <<module, defects, initialised, target, atStart, todo, fault, verdict, pc,
          proc, late, killed>>

Alive == {"loading", "reading", "evaluating"}
Writing == {"write", "write much"}
InOpa == {"write", "write much", "poll", "check", "wait"}

TypeOK ==
    /\ module \in BOOLEAN /\ initialised \in BOOLEAN /\ fault \in BOOLEAN
    /\ defects \subseteq Defective /\ atStart \subseteq Defective
    /\ target \in Names
    /\ todo \in Seq(Names)
    /\ verdict \in {"none", "running", "green", "red"}
    /\ pc \in {"idle", "execute"} \cup InOpa
    /\ pc = "idle" <=> verdict # "running"
    /\ pc \in InOpa => todo # <<>> /\ Head(todo) \in OpaSteps
    /\ proc \in Alive \cup {"none", "ok", "failed", "killed"}
    /\ late \in BOOLEAN /\ killed \in BOOLEAN

Init ==
    /\ module \in BOOLEAN /\ defects \in SUBSET Defective
    /\ initialised = FALSE
    /\ target = "verify" /\ atStart = {} /\ todo = <<>>
    /\ fault = FALSE /\ verdict = "none" /\ pc = "idle"
    /\ proc = "none" /\ late = FALSE /\ killed = FALSE

-----------------------------------------------------------------------------
(* Around an invocation.                                                   *)

\* No invocation: what belongs to one is as in the initial state.
Rest ==
    /\ target' = "verify" /\ atStart' = {} /\ todo' = <<>>
    /\ fault' = FALSE /\ verdict' = "none" /\ pc' = "idle"
    /\ proc' = "none" /\ late' = FALSE /\ killed' = FALSE

\* A new checkout, of any commit.
Checkout ==
    /\ pc = "idle"
    /\ module' \in BOOLEAN /\ defects' \in SUBSET Defective /\ initialised' = FALSE
    /\ Rest

\* Someone makes or mends a defect.
Edit(d) ==
    /\ pc = "idle"
    /\ defects' = IF d \in defects THEN defects \ {d} ELSE defects \cup {d}
    /\ Rest /\ UNCHANGED <<module, initialised>>

Invoke(n) ==
    /\ pc = "idle"
    /\ n = "scaffold" => ~module
    /\ target' = n /\ todo' = <<n>> /\ atStart' = defects
    /\ fault' = FALSE /\ verdict' = "running" /\ pc' = "execute"
    /\ UNCHANGED <<checkout, watch>>

\* Ctrl-C, or the end of the job: it reaches OPA as well.
Interrupt ==
    /\ verdict = "running"
    /\ Rest /\ UNCHANGED checkout

-----------------------------------------------------------------------------
(* execute                                                                 *)

End(v) == verdict' = v /\ pc' = "idle"

\* SystemExit: nothing after it is executed.
Stop == End("red") /\ todo' = <<>> /\ UNCHANGED <<checkout, target, atStart>>

\* The step returns, and the next one is executed.
Return ==
    /\ todo' = Tail(todo) /\ pc' = "execute"
    /\ UNCHANGED <<target, atStart, fault, verdict>>

Expand ==
    /\ pc = "execute" /\ todo # <<>> /\ Head(todo) \in Groups
    /\ todo' = TARGETS[Head(todo)] \o Tail(todo)
    /\ UNCHANGED <<checkout, target, atStart, fault, verdict, pc, watch>>

Finish ==
    /\ pc = "execute" /\ todo = <<>>
    /\ End("green")
    /\ UNCHANGED <<checkout, target, atStart, todo, fault, watch>>

\* The step has what it needs and finds nothing.
Accepts(s) ==
    /\ s \notin defects
    /\ s \in NeedsModule => module
    /\ s \in NeedsInit => initialised

\* What a step removes from the defects of the checkout: terraform fmt rewrites
\* the files, init writes a missing lock file, docs regenerates the reference.
Repaired(s) ==
    CASE s = "fmt"  -> {"fmt-check"}
      [] s = "init" -> {"lockfile-check"}
      [] s = "docs" -> {"docs-diff"}
      [] OTHER      -> {}

\* A tool that is not OPA, the pip install before it included.
RunStep(s) ==
    /\ pc = "execute" /\ todo # <<>> /\ Head(todo) = s /\ s \notin OpaSteps
    /\ \/ /\ Accepts(s)
          /\ defects' = defects \ Repaired(s)
          /\ initialised' = (initialised \/ s = "init")
          /\ Return /\ UNCHANGED module
       \/ ~Accepts(s) /\ Stop /\ UNCHANGED fault
       \/ s \notin Pure /\ fault' = TRUE /\ Stop
    /\ UNCHANGED watch

-----------------------------------------------------------------------------
(* run_opa                                                                 *)

\* opa-policy has an input, built by a tool that may fail; opa-test has none.
\* The executable may be missing.
StartOpa(s) ==
    /\ pc = "execute" /\ todo # <<>> /\ Head(todo) = s /\ s \in OpaSteps
    /\ \/ /\ pc' \in (IF s = "opa-policy" THEN Writing ELSE {"poll"})
          /\ proc' = (IF s = "opa-policy" THEN "loading" ELSE "evaluating")
          /\ late' = FALSE /\ killed' = FALSE
          /\ UNCHANGED <<checkout, target, atStart, todo, fault, verdict>>
       \/ fault' = TRUE /\ Stop /\ UNCHANGED watch

\* A small input fits into the pipe, for a larger one the harness waits until OPA reads.
Blocked == pc = "write much" /\ proc = "loading"

\* stdin.write and close.  The deadline is set afterwards.
WriteInput ==
    /\ pc \in Writing /\ proc \in {"loading", "reading"} /\ ~Blocked
    /\ pc' = "poll"
    /\ proc' = (IF proc = "reading" THEN "evaluating" ELSE proc)
    /\ UNCHANGED <<checkout, target, atStart, todo, fault, verdict, late, killed>>

\* OPA has ended before it read its input: the write raises.
BrokenPipe ==
    /\ pc \in Writing /\ proc = "failed"
    /\ Stop /\ proc' = "none"
    /\ UNCHANGED <<fault, late, killed>>

\* Mutant: the deadline is set anew in every round.
Poll_NewDeadline ==
    /\ pc = "poll"
    /\ pc' = (IF proc \in Alive THEN "check" ELSE "wait")
    /\ late' = FALSE
    /\ UNCHANGED <<checkout, target, atStart, todo, fault, verdict, proc, killed>>

Poll ==
    /\ pc = "poll"
    /\ pc' = (IF proc \in Alive THEN "check" ELSE "wait")
    /\ UNCHANGED <<checkout, target, atStart, todo, fault, verdict, watch>>

\* Mutant: the harness gives up without stopping OPA.
Check_Leave ==
    /\ pc = "check"
    /\ \/ ~late /\ pc' = "poll" /\ UNCHANGED <<todo, fault, verdict, watch>>
       \/ late /\ fault' = TRUE /\ End("red") /\ UNCHANGED <<todo, watch>>
    /\ UNCHANGED <<checkout, target, atStart>>

\* The memory is looked at on Windows only.  OPA may have ended since the poll:
\* kill does nothing then, and the reason stands.
Check ==
    /\ pc = "check"
    /\ \/ ~late /\ pc' = "poll" /\ UNCHANGED <<proc, killed>>
       \/ /\ late \/ proc \in Alive
          /\ killed' = TRUE /\ pc' = "wait"
          /\ proc' = (IF proc \in Alive THEN "killed" ELSE proc)
    /\ UNCHANGED <<checkout, target, atStart, todo, fault, verdict, late>>

Deadline ==
    /\ pc \in {"poll", "check"} /\ ~late
    /\ late' = TRUE
    /\ UNCHANGED <<checkout, target, atStart, todo, fault, verdict, pc, proc, killed>>

\* Mutant: whatever OPA gave, what was not killed has passed.
Wait_NoCode ==
    /\ pc = "wait"
    /\ proc' = "none" /\ late' = FALSE /\ killed' = FALSE
    /\ \/ ~killed /\ Return /\ UNCHANGED checkout
       \/ killed /\ fault' = TRUE /\ Stop

Wait ==
    /\ pc = "wait"
    /\ proc' = "none" /\ late' = FALSE /\ killed' = FALSE
    /\ \/ ~killed /\ proc = "ok" /\ Return /\ UNCHANGED checkout
       \/ ~killed /\ proc # "ok" /\ Stop /\ UNCHANGED fault
       \/ killed /\ fault' = TRUE /\ Stop

\* OPA loads the policies, reads its input to the end, and evaluates.
OpaReads ==
    /\ proc = "loading"
    /\ proc' = (IF pc \in Writing THEN "reading" ELSE "evaluating")
    /\ UNCHANGED <<checkout, target, atStart, todo, fault, verdict, pc, late, killed>>

\* It may fail at any time, and only an evaluation without a finding succeeds.
OpaEnds ==
    /\ proc \in Alive
    /\ \/ proc = "evaluating" /\ Head(todo) \notin defects /\ proc' = "ok" /\ UNCHANGED fault
       \/ Head(todo) \in defects /\ proc' = "failed" /\ UNCHANGED fault
       \/ proc' = "failed" /\ fault' = TRUE
    /\ UNCHANGED <<checkout, target, atStart, todo, verdict, pc, late, killed>>

Harness ==
    \/ Expand \/ Finish
    \/ \E s \in Steps : RunStep(s) \/ StartOpa(s)
    \/ WriteInput \/ BrokenPipe \/ Poll \/ Check \/ Wait

Next ==
    \/ Checkout \/ (\E d \in Defective : Edit(d)) \/ Interrupt
    \/ (\E n \in Names : Invoke(n)) \/ Harness
    \/ Deadline \/ OpaReads \/ OpaEnds

Spec == Init /\ [][Next]_vars

\* The harness and the tools it waits for go on, except OPA, which need neither read
\* nor end.
FairSpec == Spec /\ WF_vars(Harness) /\ WF_vars(Deadline)

-----------------------------------------------------------------------------
(* Properties.                                                             *)

\* A green target leaves a checkout in which each of its steps finds nothing.
GreenMeansClean == verdict = "green" => Leaves(target) \cap defects = {}

\* And each found nothing in the checkout as it was, except that the lock file
\* may have been missing: no other step is undercut by an earlier one.
OnlyLockfileRepaired ==
    verdict = "green" => Leaves(target) \cap atStart \subseteq {"lockfile-check"}

\* A missing lock file fails every target that has the lock file check.
LockfileFailsClosed ==
    verdict = "green" => "lockfile-check" \notin Leaves(target) \cap atStart

\* A group of steps turns red only for a defect of its own or a tool's failure,
\* never because its steps are in an order that cannot work.
RedHasReason ==
    verdict = "red" /\ target \in Groups /\ (module \/ target = "scaffold") =>
        fault \/ Leaves(target) \cap atStart # {}

\* No OPA process is left behind by a step that ended, however it ended.
NoOrphan == proc \in Alive => pc \in InOpa

\* Every invocation ends, also when OPA does not; the one way to wait for good is in the
\* write of an input that fills the pipe, to an OPA that neither reads nor ends: the
\* deadline is not set yet.
VerifyEnds == <>[]Blocked \/ (verdict = "running" ~> verdict # "running")
=============================================================================
