# Verification of the Rancher Terraform framework

TLA+ modules for the parts of this repository that have state, order and failures, TLC runs that
check them on small instances, and TLAPS proofs of what matters most for every instance. Paths
are relative to the repository. `PROJECT.json` maps every definition to the lines it models and
lists the runs, the hazards they are aimed at, one mutation per property that breaks it, and the
theorems.

## 1. The system

The repository is a framework that *runner* repositories call to give a tenant a Rancher project,
namespaces and Helm releases, plus the gates that keep the framework itself in order. Its parts:

| Part | State it keeps | Operations | Interacts with |
|---|---|---|---|
| Reusable deploy workflow (`.github/workflows/reusable-terraform-deploy.yaml`, `tools/ci/*.sh`) | job status, step outputs, saved plan, artifacts; the Terraform state object and its lock | 14 steps with conditions, cancellation, 20-minute limit | other runs, through state and lock only |
| Terraform root, `envelope`, `deploy` (`terraform/`) | project, namespaces, reconcile ServiceAccount, Role, RoleBinding, releases | create, update, destroy for each workload of `all_workloads` | Rancher, Kubernetes, Helm |
| Workload contract and built-in chart (`terraform/variables.tf`, `charts/platform-workload`) | the accepted list; Deployment, autoscaler, disruption budget, volume claim | validation, install, upgrade, rollback, scaling, eviction | Kubernetes' controllers, each on its own, under the quota of the envelope |
| Release evidence (`reusable-release-evidence.yaml`, `release.yaml`) | gate results, evidence files, release assets | gates, bundle, attach | runs of the same ref, `release-please` |
| `tools/verify.py` | the checkout; an OPA process | targets made of steps; a watchdog with deadline and memory cap | 25 tools, OPA through a pipe |
| Privileged workflow checker (`tools/check_privileged_workflows.py`) | cache, recursion chain, findings | depth-first scan of the call graph | workflow files |
| Run input checker (`tools/ci/check_workflow_run_inputs.py`) | indentation of the active `run` block | scan, line by line | workflow files |
| Integration runner (`tools/ci/run_integration.py`) | a workspace per case, which outlives the run | empty it, copy the sources in order, six gates | terraform and tflint, through files |
| Kyverno policies and the chart gates (`policies/kyverno`, `chart-schema` and `chart-policy` of `verify.py`) | the rules, the charts and what is expected of both | render, compare, apply policies, case by case | Helm, kubeconform, kyverno |
| Document and manifest checkers (`tools/check_adr_schema.py`, `check_docs_layout.py`, `check_baseline_manifest.py`) | the working tree and what of it is committed | pure checks | git |
| Overlay script, OPA policy inputs, remaining workflows | files | copies, pure functions, calls of other repositories | see section 8 |

What is hard in it, and where:

* **Runs on one state.** The deploy job has no concurrency group. Plan and apply are two
  Terraform operations with the lock released in between; the plan waits five minutes for the
  lock, the apply not at all; a run can be killed anywhere, with the lock held and resources half
  changed.
* **Conditions at a distance.** A step runs if the job's status and outputs of steps long before
  it say so. `always()` steps run after anything.
* **Partial applies.** Terraform runs operations in parallel in the order of references; failures,
  interruptions and kills leave any part of the plan done, in the state or not, and the next plan
  starts there.
* **Controllers against each other.** Quota, rolling update, autoscaler, disruption budget and
  Helm's timeout and rollback are numbers in five places that nothing relates.
* **Queues that forget.** A GitHub concurrency group keeps one pending run and cancels the one
  before, whatever its task; a dispatch may be lost; an upload of two files is not atomic, and goes to
  the release of the ref's short name.
* **Shared caches and checkouts.** A recursion shares a cache over cyclic graphs; gates run in
  one checkout that some of them change; an integration workspace is there when the next run
  begins, half copied if the last one broke off.
* **Checks that guard each other.** Policies, charts, probes and expected snippets change one by
  one, and each gate sees a part of them; a record is known to two checkers that look in different
  places; a file that a checker finds may not be in the commit.

What makes each part correct is stated in sections 3 and 4.

## 2. Modules

| Module | Models | Abstract specification | Instance for TLC | Proofs |
|---|---|---|---|---|
| `DeployRun` | any number of deploy runs on a shared S3 state or local ones | `StateLog`: an append-only log with compare-and-swap commits | `MCDeployRun` | `DeployRun_proofs` |
| `TenantApply` | `terraform apply` of the tenant over a changing list | `Inventory`: resources with needs, put, taken and lost on the way to a target | `MCTenantApply` | `TenantApply_proofs` |
| `WorkloadRollout` | from the accepted list to running pods | `AtomicRelease`: a release at rest only with settings that are rolled out | `MCWorkloadRollout` | `WorkloadRollout_proofs` |
| `ReleaseEvidence` | evidence runs, their concurrency groups and uploads | | `MCReleaseEvidence` | `ReleaseEvidence_proofs` |
| `VerifyGates` | invocations of `verify.py`, OPA and its watchdog | | `MCVerifyGates`, `MCVerifySteps` | `VerifySteps_proofs` |
| `PrivilegedWorkflows` | the scan of workflow call graphs | `Reach`, reachability as a set | `MCPrivilegedWorkflows` | `PrivilegedWorkflows_proofs` |
| `RunInputScan` | the line scan beside YAML's block scalars | `Inside`, `Interpolates`: what the runner sees | `MCVerifySteps` | `RunInputScan_proofs`, `VerifySteps_proofs` |
| `IntegrationRun` | integration runs over their workspaces | `Final`: the file that the case calls for | `MCIntegrationRun`, `MCVerifySteps` | `IntegrationRun_proofs`, `VerifySteps_proofs` |
| `ChartGates` | policies, charts and the two gates that hold them against each other | | `MCVerifySteps`, itself | `VerifySteps_proofs` |
| `DocumentGates` | the working tree, its commit and three checkers | | `MCVerifySteps` | `VerifySteps_proofs` |

A definition called `X_Something` next to `X`, with a comment that begins `Mutant:`, is a
plausible mistake in that definition. It is not used by the specification; putting it in the
place of `X` breaks the property that `PROJECT.json` names for it.

`TenantApply` and `WorkloadRollout` are two views of one apply. The first has every resource of the
envelope, the order of operations and who is authorised for them, with a release as a single
operation that works, fails or is left half done. The second has what such an operation is made of,
and of the envelope only the namespaces and their quota. `DeployRun` is one level above: to it an
apply is a locked interval that ends in a written state, or in one that could not be written.

`MCVerifySteps` puts `VerifyGates` side by side with four of the programs it runs, by `INSTANCE`.
To a target such a program is a step that finds a defect or not, so they share no state: each
behaviour follows one of them, which `focus` names, and the others stay where they are.

## 3. How the state corresponds to the code

**`DeployRun`.** `pc[r]` is the step of run `r`; `planning` and `applying` are the times when
terraform holds the lock. `If(r, s)` is the `if:` of step `s`, `AlwaysSteps` the two with
`always()`, and `Due` adds the implicit `success()`. One action per step, each with its ways to
fail; `CancelGracefully`, `Kill` and `LoseRunner` are the 20-minute limit, a cancellation and a
lost machine. `store` is the state object (serial and recorded configuration), `infra` what
really exists: an apply that fails or dies leaves `Partial` there. Terraform may also be unable to
save what it did: it exits with an error, removes the lock or fails to, and the `errored.tfstate`
that it leaves is lost with the runner (`BreakOff`). `unsaved` remembers such runs; `hist` and
`forced` are history variables as well. Inputs and secrets are the fields the conditions read. A ref
is a SHA, a branch, or a branch that has changed the script that validates it: the script is taken
from the checkout of the ref it is asked about, so such a branch passes (`"lenient"`).

**`TenantApply`.** `Refs` is the reference graph of the resources: the release refers to the
namespaces alone (`terraform/resources.tf:33`). `PlanFor` is the difference between `have`/`chart`
and the list (`Changed` and `Dropped` are the parts that `lifecycle` blocks could switch off);
`Before` orders operations (creations after what they refer to, destructions before); `todo` and
`failed` drive the graph walk. `HelmMay` is what the one Helm provider (`providers.tf:46`) is
authorised for. A failed operation has changed nothing; or the object is there and the answer was
lost (`Unanswered`); or a release could not be taken back either, or a destruction was not seen to
be done (`HalfDone`). `Interrupt` lets what is at work end. `Kill` loses what was made since the last
save: those objects are `stray`, in no state, and stand in the way of their own creation, and upgrades
at work stay under operation (`Pending`). Nothing in the code clears either; `Repair` is somebody who
does, and nobody has to. To `Inventory` the target is what `goal` has of every resource (`Stock`), the
content what there is of it, and fresh is what is not saved yet.

**`WorkloadRollout`.** `StorageOK` to `RequestUnderLimit` are the validations of `variables.tf`,
in their order, on quantities with a number and a unit, as `Millicores` and `Mebibytes` read them;
`Amount` is Kubernetes' reading. `Replicas` is what Helm's three-way merge does to
`spec.replicas`, which the chart leaves out while the autoscaler is on. `PodFits`, `VolumeFits`
and `NamespacesFit` are the quotas. The remaining actions are the controllers'. An operation of helm
takes several steps: it begins (`Deploy`), and ends when its pods are ready (`HelmDone`) or at a timeout
(`HelmTimeout`). Then an upgrade is rolled back, which is an operation of its own: the former
settings are put back (`HelmRestore`) or refused (`HelmRefused`), and their pods waited for, again
until a timeout, after which the release is `failed`. A killed helm (`HelmKilled`) leaves it `stuck`
until somebody frees it. `Release(w)` is the release of one workload as `AtomicRelease` sees it: what
is listed, what it is set to, what was last rolled out, what helm is at, and whether the pods are
ready.

**`ReleaseEvidence`.** A ref is a tag or a branch and stands for its commit. `Queue` is a concurrency
group, which is by full ref and takes runs of either task: it cancels the pending run and keeps the
running one. `TagOf` is the release that a run attaches to, by the short name of its ref: that of a
branch (`named`) may be a tag's. `Dispatch` starts either task on any ref; `release-please` holds the
group and makes no evidence. `Upload` adds one file at a time and is refused by a file of the same
name.

**`VerifyGates`.** A checkout is a set of *defects* named after the step that finds them. `todo`
is the nested expansion of `TARGETS`; `Repaired` is what a step does to the checkout (`init`
writes a missing lock file). `pc` and `proc` are the harness and the OPA process, `late` the
passed deadline. An input is small or fills the pipe (`"write much"`): then the write ends when OPA
reads or dies, and the deadline is not set before that (`Blocked`).

**`PrivilegedWorkflows`.** `stack` is the Python call stack with the chain of each frame, `cache`
the shared result cache. `via` and its rewriting are `Relay`.

**`RunInputScan`.** `active` is `active_run_indent`; `block` is the scalar the YAML parser
is in, a block scalar or a plain or quoted value that goes on over several lines, and whether the
scanner follows it. A line has one of seven forms, and an expression written as the scanner
looks for it, in another way, or none. One line is read per step, so files have any length.

**`IntegrationRun`.** `src` has the files of each source at the place they are copied to, `ws` the
workspace of each case, which no action but `Reset` empties. `step` is where `main` is and `After`
its order; `copied` are the files of the current source that are there already. A file is its place
and its version, which is the name of the gate that refuses it, or `"good"`. `Passes` is what a gate
makes of the workspace, and `init` adds `.terraform`, which the later gates need. `Interrupt` ends a
run anywhere, `Removed` is an `rmtree` that breaks off at its first or its last file, and `fault`
says that a tool or a copy failed for a reason of its own.

**`ChartGates`.** A manifest is a set of *marks*, the kinds and fields that some rule, probe or
expected snippet tells apart. `deny` is what each rule denies, `text` the marks of the fixture
charts, `golden` those of the golden chart, each with the values it shows with and those it shows
without, `given` the values that the gates still switch on. `SchemaCases` and `PolicyCases` are the
cases of the two functions in their order; `Judge(works)` is one of them, with a tool that works or
ends with an error of its own.

**`DocumentGates`.** `files` and `tracked` are the Markdown files of the working tree and of git's
index; `heads`, `rows`, `linked`, `named` and `manifest` the text that the checks look at. An entry of
`Authors` is an approved handle, one that only contains such a handle (`@nwarila-evil`), nothing, or
another, as the unanchored search of the checker tells them apart. `Commit` makes a checkout of what
git tracks and remembers in `promised` which checks passed before, in `behind` what is not in it.

## 4. Runs

| Run | Instance | Distinct states | Result |
|---|---|---|---|
| `deploy_shared` | 2 runs, 2 configurations; S3 or local state, plan-only or applying, with and without an overlay; or one run with all 360 combinations of inputs and secrets beside an idle one | 993 623 | passes |
| `tenant_admin` | 2 workloads, 2 charts, 2 lists, 1 change, 2 faults (operations that fail or half fail, interruptions, kills) | 493 207 | passes |
| `tenant_scoped` | 2 workloads, Helm with one namespace's identity | 908 | finding |
| `rollout_mixed` | 2 workloads of 3 + 2 accepted kinds and 4 refused ones, 2 quotas, 3 edits, 1 scaling, 1 fault (early timeout, refused rollback or kill), 1 drain | 129 140 | passes |
| `rollout_drain` | the default workload in the default quota | 273 | finding |
| `rollout_update` | the default workload in the default quota | 125 | finding |
| `release_runs` | 1 tag, a branch that may have its name, 2 tasks, 3 run slots, 1 fault | 1 849 172 | passes |
| `scan_graphs` | 3 workflows, all call graphs, all roots, clean, flagged or broken, up to symmetry | 905 768 | passes |
| `verify_steps` | every target with 6 defects that come and go; files of any length with 7 depths of indentation; integration runs of 3 cases, charts and policies, and documents, each with 2 edits | 876 119 | passes |
| `verify_lockfile` | every target, without fairness | about 48 700 | finding |
| `integration_basic` | the case of `tools/ci/config.toml` in the repository as it is | 38 | finding |
| `policy_dangers` | the policies and charts of the repository as they are | 60 | finding |

### What they show

**Deploying** (`deploy_shared`). *LockedWork*: terraform works on a state only under its lock.
*StateDescribesInfra*: state and resources differ only behind a held lock, until somebody forces it,
or after an apply that could not save the state, and then that run is red: never without a trace
that an operator can see. *GreenMeansDeployed*: a green run that was asked to apply has put its own
tree in the version right after the one it planned on, or found it there. *ImplementsStateLog*: the
state is a log in which every version is built on its predecessor. *GatedWrites*: no version is
written unless every earlier gate passed, for each combination of inputs; the gate of the ref lets a
branch pass that has changed it. *LocalStateOffered*: a written local state is always offered for
upload. *Termination*: every run ends, also behind a dead run's lock. Two runs are enough for each
interaction here, as a third can only be another holder or another committer; the proofs have any
number. Inputs that end a run before it reaches terraform do not meet another run, so one run has
them alone (`Paired`).

**The tenant's resources** (`tenant_admin`). *ImplementsInventory*: a resource is made or changed
only as planned and after all it needs, taken away only after all that needs it, and lost from the
state only if a killed apply had just made it, in every step of every apply. *OkMeansApplied*: a green
apply left exactly what was planned. *FailuresContained*: when an apply ends by itself, each operation
it gives up waits, at once or through others it gives up, for one that failed, and a release that
cannot be installed or upgraded takes nothing with it. *Converges*: when the list and the cluster calm
down, running the workflow again reaches the list, from any mixture that failures and interruptions
have left; after a kill, if what it left in the way is removed for good (`Unobstructed`), which
nothing in the code does. Two workloads are needed for the references that go to all namespaces; two
faults for a failure in the apply that repairs a failure, or for a kill after one.

**From list to pods** (`rollout_mixed`). *WithinCaps*: nothing runs above the platform's caps as
Kubernetes reads the quantities. *ImplementsAtomicRelease*: a release comes to rest only with
settings whose pods are ready, the new ones or, put back and waited for, the former ones, whatever
is edited, scaled or drained meanwhile; a rollback that fails leaves it `failed`, a killed operation
`stuck`, and neither passes for rest. *RoomyWorkloadsServed*: what fits, with room for one more pod,
is deployed and has its replicas in the end, whatever was updated, scaled, timed out, drained or
left half done by a failed rollback. *RoomyDrainsEnd*: its drains end. `Roomy` was found with TLC: a
pod of a failed update that fills the quota stays in the way of its own rollback, so there has to be
room for the pods that are still there.

**Evidence** (`release_runs`). *EvidenceProves*: what is attached to a framework's release was made
from a commit that passes the gates, the release's own or the head of a branch that has the tag's name,
and no other. *OneRun*: the files made from one ref come from one run. *GreenMeansAttached*: a green
run attached both of its own, to the release its ref is named like. *EvidenceUnlessBroken*: every
release gets its evidence, although newer runs cancel pending ones, unless a step breaks, a dispatch
is lost, a `release-please` task on the tag cancels the pending evidence, or the namesake branch was
there first; each of these four does happen in the run. Three slots are a running, a pending and a
newer run, and ended runs' slots are used again.

**Gates** (`verify_steps`). *GreenMeansClean*: green means that no step of the target finds
anything in the checkout it leaves. *OnlyLockfileRepaired*: nor did it in the checkout as it was,
but for the lock file. *RedHasReason*: red has a defect or a failed tool behind it, never the order
of steps. *NoOrphan*: no OPA survives its step. *VerifyEnds*: every invocation ends, also
when OPA does not, unless the harness is blocked for good in the write of an input that OPA does not
read; that is the only such wait. The six
defects are those that other steps repair, one that needs the providers, one of OPA and the last
step; the remaining steps behave as these do.

**Integration runs** (`verify_steps`). *AssembledFresh*: what the gates look at is the checkout as
it is, file by file, each in the version of the topmost source, and nothing that an earlier or an
interrupted run has left in the workspace. *GreenMeansSound*: after a green run no gate of the case
would refuse a file it looks at. *RefusalExplained*: a red run has a missing source, a refused file
or a failed tool behind it, never the order of its steps. Two edits are a fault that is brought in
and taken out again, or one in each of two sources of the same file; of the gates the last one has
faults (`Slips`), as a fault of an earlier one ends the run earlier. The proofs have any cases,
faults and number of edits.

**Charts and policies** (`verify_steps`). *RulesGuarded*: what a green `chart-policy` shows of the
rules, whatever charts, probes and rules have become. It is less than one might think: pinned images
pass, five kinds of others are denied in containers but only a bare one in init and ephemeral
containers, the six probed kinds are decided as asked, and of every rule it is shown that it denies
something of the hostile chart. *ChartAdmissible*: a green `ci` means that the golden chart is admitted
with every combination of its conditional values, although it is rendered with none and with all.
Excepted is what shows with one value and without another, which neither render has; what
depends on several values, or on the lack of several, is covered. *FailureIsNoDenial*: a tool that
breaks down is never taken for an expected denial. *ExpectationsAgree*: without an edit only a broken
tool makes the gates red. Two edits are a slip and a second one that could hide it: a rule and the
fixture that would show it, or a mark of the chart and the value that switches it on. A rule may come
to deny what the golden chart has, a pinned image or a workload kind (`RuleSlips`); a chart may gain
two marks that the schema gate stops and one that the policies do (`ChartSlips`), in the golden chart
with two values, without one, or with one and not another (`Guards`). A part is known by its snippet
alone; a part that got the snippet of another one would be taken for it, so such edits are left out,
and *ChartAdmissible* is stated under that condition.

**Documents** (`verify_steps`). The checks of the documents look at the directory and never ask git.
*NoRecordLeftBehind*: even so, when both pass where a commit is made and pass again in its checkout,
every record of a scope, the index and `docs/README.md` are in the commit: an ignored record is missed
through the index, which was committed with the link to it. *RecordsSound*: the sections of an accepted
record can be read in the order of ADR-0001, and none is met before its turn, however headings are
repeated and moved. *ManifestSurvivesCommit*: a manifest that was accepted where git works is accepted
in a checkout of the commit, even if a source was there and ignored. Two edits are a file and the
entry, link or directory that should go with it.

**Scanners** (`scan_graphs`, `verify_steps`). *ReportExact*: the report is of exactly the faulty
workflows that a privileged one reaches, cycles or not. *Attributed*: each finding names a
privileged workflow that really reaches it. *ExactWhenAcyclic*: without cycles the cache is as good
as scanning anew. Three workflows have every shape of cycle the guard can meet with an entry from
outside. *PlainScriptsReported*: every input written `${{ inputs.` in a block script or on the line
of a `run:` key is reported, and what is missed has one of four reasons: the expression is written
in another way; the key or the block header is; the script begins on the line of its key and goes on
below; or a line of it looks like a `run:` key. *OddReportsExplained*: which reports are not about a
script. A key, its block, a key in that block and text below it are four depths; `Deepest` leaves
three more.

## 5. Fairness

Every fairness assumption is weak fairness of something the code or its platform goes on doing.

* `DeployRun`: a started step ends. Each has a limit of its own or the job's.
* `TenantApply`: terraform goes on with what can run, and the caller runs the workflow again while
  its plan is not empty. Faults and changes are bounded, so that they pass. Nobody has to `Repair`.
* `WorkloadRollout`: the same for applies; controllers reconcile; Helm sees a finished rollout, and
  times out once nothing can move (`MaxFaults` bounds timeouts before that); a rollback is carried
  out; a refused eviction is tried again. Nothing is assumed of edits, load, drains or the freeing of
  a stuck release. A second pod on a ReadWriteOnce volume
  may never start.
* `ReleaseEvidence`: a job is carried through, and an idle group starts its pending run.
* `VerifyGates`: the harness and its clock go on. Nothing is assumed of OPA, which need neither read
  nor end.

`IntegrationRun`, `ChartGates` and `DocumentGates` state no liveness and need none: what they run is
a fixed list that the next action shortens.

Bounds (`MaxChanges`, `MaxFaults`, `MaxEdits`, `MaxLoad`, `MaxDrains`) are constants that
guard an action. `CHECK_DEADLOCK` is off for `WorkloadRollout`, which rests when nobody changes
anything; in the other modules there is always a next invocation or an explicit step for rest.

## 6. Where code and documents disagree

* `tenant_scoped`: one Helm provider with one scoped identity deploys all workloads, and each
  namespace authorises its own ServiceAccount only. The releases of the others are refused for
  ever, against ADR-repo/0006 and 0009.
* `rollout_drain`: with the defaults the autoscaler may ask for three pods where two fit. The
  budget counts from three, so no pod may be evicted: the deadlock that
  `charts/platform-workload/values.yaml:27` means to avoid.
* `rollout_update`: with the defaults two pods fill the namespace, the rolling update adds one
  before it takes one away, and every update is rolled back.
* `verify_lockfile`: `lint` runs `terraform init`, which writes a missing lock file before
  `lockfile-check` looks for it, so `ci` does not fail closed as `docs/explanation/threat-model.md:38`
  says.
* `integration_basic`: the one case of `tools/ci/config.toml` (line 9) names a tfvars file below
  `examples/`, which the repository does not have. The copy fails, so the step that
  `docs/explanation/architecture.md:59` describes is red in every checkout.
* `policy_dangers`: no rule of `policies/kyverno` looks at `automountServiceAccountToken`, which
  ADR-repo/0002 lists as denied by Kyverno (lines 104 and 118-119). The ADR excepts an approved
  escape hatch, which the property leaves out: what is missing is the rule itself.

Smaller ones met on the way, without a run:

* `plan_status` is empty after failures before terraform's exit code
  (`reusable-terraform-deploy.yaml:137` lists three words).
* The ref is validated after its checkout, and by a script of that checkout
  (`docs/reference/runner-protocol.md:14-16`); the overlay script does not look for symbolic links
  (51-52).
* A chart may be installed before the RoleBinding of its namespace exists (ADR-repo/0009:198).
* After an upload that broke off, every later evidence run of that release is refused
  (`reusable-release-evidence.yaml:303`).
* `TAG` is a tag's name "either way" (`reusable-release-evidence.yaml:293-295`); on a dispatch it is
  the name of the branch, and if a tag has that name the release gets the evidence of the branch.
* A manual dispatch of `release-please`, the default task, on a tag cancels the pending evidence run of
  that tag (`release.yaml:19` and 30-32).
* `run_opa` "bounds it so OPA aborts with a clear error instead of wedging the machine"
  (`tools/verify.py:110-113`), but the input is written before the deadline is set (131-135).
* Authors "must come from an approved-author allowlist" (`tools/check_adr_schema.py:20-22`), but
  `@nwarila-evil` has the approved handle in it, and a comma alone has no author to refuse.
* `check_workflow_run_inputs.py` rejects "inputs interpolated directly inside shell run blocks"
  (line 2), but not `${{inputs.x}}` or `${{ github.event.inputs.x }}`, nor what follows on the next
  lines of a script that begins on the line of its key.

## 7. Proofs

All theorems are of the specification without fairness, for every value of the constants that the
module's `ASSUME`s admit. Those say that distinct things are distinct and that bounds are natural
numbers. Besides, `WorkloadRollout` assumes what the variable types of `variables.tf` say,
`VerifyGates` that targets nest two deep, a fact of its table that TLC evaluates, and
`MCVerifySteps` that the bound on edits is a number, that the required sections are a sequence of
strings and that `ChartSlips` has none of the four snippets by which conditional parts are known
(see *ChartAdmissible* in section 4).

* **`DeployRun_proofs`**: `TypeCorrect`, `LockedWorkHolds`, `LinearHistoryHolds`,
  `StateDescribesInfraHolds`, `GatedWritesHolds`, `GreenMeansDeployedHolds`,
  `LocalStateOfferedHolds` and the refinement `DeployImplementsStateLog`. The invariant ties the
  length of `hist` to the serial, says that a saved plan's base is not in the future, and that an
  applying run planned on the present version. Steps are sorted into kinds (quiet, beginning,
  ending, writing) so that each kind is looked at once. `StateDescribesInfra` needs that the lock of
  a state is changed only by its holder or by force (`LocksOwn`), that a difference without a lock
  is from a run that could not save (`DifferenceIsLocked`), and that such a run never turns green
  (`UnsavedIsRed`); it says nothing of what later plans make of that difference. `GatedWrites` needs
  that a job that is still successful has passed each gate behind it (`Gated`) and that whoever
  wrote a version is past its plan (`WritersLate`), so that nothing the version was written for
  changes any more. `GreenMeansDeployed` needs that the store is the last version of the history
  (`StoreIsLast`) and that versions are added, never changed (`Grows`). `LocalStateOffered` needs
  that whoever wrote a version wrote it into the state of its own mode (`WrittenHere`): a state on a
  run's runner is then that run's own work, which has passed the mode check and asked for an apply,
  so its upload is due. The refinement maps a state to its history and a run to the base of its
  plan; every step is a snapshot, a commit or a stutter.
* **`TenantApply_proofs`**: `TenantTypeCorrect`, `NestedHolds`, `OkMeansAppliedHolds`,
  `FailuresContainedHolds`, the refinement `ApplyKeepsInventory` and its consequence
  `SupportedHolds`. The invariant's `PlanCovers` says that what exists differs from the goal exactly
  by `todo` and `failed`, so an operation that nothing precedes has all it needs (`CreateAfterRefs`)
  or nothing that needs it (`DestroyAfterReferrers`). From these the nesting is kept, and each
  operation is a `Put`, `Spoil` or `Take` of the inventory or changes nothing of it. A kill is a `Lose`:
  what needs an object made since the last save was itself made since then (`Fresh`), so that what is
  lost takes nothing with it that is still in the state. `NotStuck` shows that some
  operation can run as long as nothing failed, which makes a green end complete. References have a
  height of at most four (`BeforeIsLower`), so what is left at the end waits for a failure within
  three steps.
* **`WorkloadRollout_proofs`**: `RolloutTypeCorrect`, `WithinCapsHolds`, the refinement
  `ReleaseIsAtomic` and its consequence `ReleasesAtRestHolds`. A release's settings, and those it
  may return to, were once accepted, and what is accepted is within the caps in Kubernetes' reading
  (`Reading`, `AcceptedGood`); the merge, the autoscaler and the rollback keep the number of
  replicas in range. The types need that a workload's settings are its own (`OwnSettings`), so that
  every pod is of a template its workload has. The refinement needs besides that a release has
  settings to return to exactly when it was rolled out once, and runs these when it is deployed
  (`Kept`); each end of an operation is then one of the abstract release: a completion, a purge, the
  turn to a rollback, its rest, its failure or the death of helm (`TroubleShows`).
  `ReleasesAtRestHolds` is about releases that helm holds for deployed or for none; a failed or
  stuck one is not at rest.
* **`ReleaseEvidence_proofs`**: `ReleaseTypeCorrect`, `EvidenceProvesHolds`, `OneRunHolds`,
  `GreenMeansAttachedHolds`. Needed besides: one run of a full ref at a time (`Mutex`), a run past
  the gates has passed them, files still to upload are not attached, and a slot is used again only
  when nothing of its last run is left (`Owned`). Branches may have any names, so a branch and a tag
  that share one may be at work at once: `EvidenceProvesHolds` and `OneRunHolds` say of each file
  the ref it was made from, and that is where their promise ends.
* **`PrivilegedWorkflows_proofs`**: `ScanTypeCorrect`, `ReportExactHolds`, `AttributedHolds`,
  `ExactWhenAcyclicHolds`. The classical argument of depth-first search with a cache that may be
  incomplete inside a cycle: what a finished workflow lacks is reached from a workflow still on the
  stack (`Explored`, `Kept`), so nothing is lacking when the stack is empty. For the last two the
  stack is a path of the call graph from a privileged workflow (`Nested`); findings that are passed
  on are of workflows that the caller reaches (`Said`), and without cycles the guard never cuts, as
  a call to the chain would close one, so that nothing is lacking at any time (`Told`).
* **`RunInputScan_proofs`**: `LinesTypeCorrect`, `PlainScriptsReportedHolds`,
  `OddReportsExplainedHolds`, from an invariant that relates `active` to the scalar of the runner.
  The first says of every other input that it is one of the four kinds in `Unseen`.
* **`IntegrationRun_proofs`**: `IntegrationTypeCorrect`, `AssembledFreshHolds`,
  `GreenMeansSoundHolds`, `RefusalExplainedHolds`. The invariant follows the workspace while it is
  put together: a file is there if a source that is done, or the copied part of the current one, has
  it, in the version of the topmost of these (`Assembling`); every gate behind `step` found nothing
  (`Passed`), and after `init` the providers are there (`Prepared`).
* **`VerifySteps_proofs`**, about `VerifyGates` and then about the composition `MCVerifySteps`:
  * `VerifyTypeCorrect`, `GreenMeansCleanHolds`, `NoOrphanHolds`, `OnlyLockfileRepairedHolds`,
    `RedHasReasonHolds`. `Covered` says that each step of the target is still to come or finds
    nothing any more; that no step brings in a defect closes the argument. For the last two: no
    group holds `fmt` or `docs` (`LeavesGrouped`), so that no step takes away what another step of
    the target would find, but for the lock file (`NoneUndercut`), and the providers are there
    before a step that needs them (`Orderly`).
  * `StepsImplement`: a behaviour of the composition is one of each module by itself, so what is
    proved of `RunInputScan` and `IntegrationRun` in their own modules is cited here for the
    properties of the run.
  * Documents: `NoRecordLeftBehindHolds` is inductive by itself: a commit keeps the links of the
    index, which were those of the records that were there, so that the check of the checkout refuses
    one that stayed behind, and any edit ends the promise.
    `RecordsSoundHolds` rests on the types of the texts (`DocumentsTypeCorrect`): the first place of
    each required section (`FirstAtIs`) witnesses the order, and a heading before it has its own first
    place before. `ManifestSurvivesCommitHolds` is inductive by itself: a commit keeps what the check
    looks at, and any edit ends the promise.
  * Charts: the invariant `ChartsInv` says that, while a target runs, every one of its cases is
    still to come or is accepted with the charts and policies as they are (`Judged`), and that these
    differ from the repository's by `RuleSlips` and `ChartSlips` alone (`ChartsTyped`). With the
    repository's own, every case is accepted if its tool works (`Agreement`, rule by rule and chart
    by chart). `RulesGuardedHolds` reads off a rule's mark from its probe or from the hostile chart
    (`ProbeTells`). `ChartAdmissibleHolds` is that what shows in some combination shows in one of
    the two renders: with all values if it depends on values, with none if on their lack
    (`RendersTell`), and that the gates' values are still all of them, as each of the four snippets
    was seen (`ValuesTell`); it holds for any `Guards`, and says nothing of marks that depend on
    both. `FailureIsNoDenialHolds` is that no case is accepted when its tool fails (`NeedsTool`),
    and `ExpectationsAgreeHolds` is `Agreement` after no edit.

All properties of the passing runs that are not about liveness are proved. Model-checked only are
*Termination*, *Converges*, *EvidenceUnlessBroken*, *VerifyEnds*, *RoomyWorkloadsServed* and
*RoomyDrainsEnd*: they rest on fairness, which the prover does not reach. Proved and in no run, as
the refinement or another property says it on the instance: *LinearHistory*, *Nested*,
*ReleasesAtRest* and the type invariants of the modules but `WorkloadRollout`.

## 8. Not modelled, and what is left

| Part | Why |
|---|---|
| Overlay script | a step of `DeployRun` that succeeds or fails. It copies entry by entry, but a failure ends the job before anything looks at the files |
| Lists of the reconcile Role | a constant table; its life is in `TenantApply` |
| Patterns of the Kyverno rules | text that kyverno matches; `ChartGates` has what each rule tells apart, as the probes and fixtures do |
| `repo_hygiene.rego`, `build_opa_input.py`, `build_plan_input.py` | pure functions of files; steps of `VerifyGates` that find a defect or not |
| Names, labels, Service, Ingress and Vault secrets of the chart | text without state or order; truncated names may collide, which is a fact about strings |
| Tests of the workflow checker | comparisons of exit codes on fixture directories |
| Template, drift, security, merge workflows | logic in other repositories |
| Tool installation | downloads and checksums in a fixed order |
| Terraform backend and moved addresses | declarations; the moves act once, on older states |

Within the modelled parts, these are left out:

* `TenantApply`: an object other than a release that terraform holds for tainted after a failure, a
  second project after a killed apply (project names are not unique, so it is in nobody's way), the
  state lock that a killed apply leaves (`DeployRun` has it), `terraform import`, and a failed install
  whose purge fails too, as far as it differs from a broken release.
* `WorkloadRollout`: quotas of requests (`modules/envelope/resources.tf:65-80`) beside those of limits;
  the purge of a failed install, which succeeds.
* `DocumentGates`: the fields `Date` and `Review-by` of a record; a tracked symbolic link to an
  ignored file.
* `IntegrationRun`: names of cases that share a workspace, `.` or one inside another
  (`tools/ci/run_integration.py:59-66`); the configured one is neither.
* `ReleaseEvidence`: a branch whose short name begins with `refs/`, for which the upload is skipped.

What would add most from here:

1. The overlay as a module of entries copied one by one, composed with `DeployRun` through the tree
   it assembles.
2. `DeployRun` over `Inventory`: an apply that puts and takes resources in the place of one that
   writes a configuration, or a part of it.
3. `WorkloadRollout`: scaling of old and new pods in proportion during a rollout; requests beside
   limits in the quota. `TenantApply`: a tainted object. `ReleaseEvidence`: the workflow artifact
   beside the release assets.
4. Proofs: an abstract specification of a release's evidence (files of one run, in order, after the
   gates) that `ReleaseEvidence` implements; that `TenantApply` is never without a step before it is
   settled, the safety half of *Converges*; *LinearHistory* as a consequence of the refinement.
