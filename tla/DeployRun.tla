------------------------------ MODULE DeployRun -------------------------------
(***************************************************************************)
(* Concurrent runs of .github/workflows/reusable-terraform-deploy.yaml.    *)
(*                                                                         *)
(* Each run is one job: an ordered list of steps, each with the condition  *)
(* of its "if:" key.  The runs share nothing but the Terraform state they  *)
(* name (one S3 object, or a private local file) and the lock beside it.   *)
(* The workflow declares no concurrency group, so the runs interleave      *)
(* freely; a run may be cancelled or time out (timeout-minutes: 20) in any *)
(* step, and its runner may be lost.                                       *)
(*                                                                         *)
(* The lock, the stale-plan check and the write at the end of an apply are *)
(* those of the terraform CLI, modelled from the flags the workflow gives  *)
(* it (-lock-timeout=300s -out=tfplan -detailed-exitcode; apply tfplan).   *)
(***************************************************************************)
EXTENDS Naturals, Sequences

CONSTANTS
    Runs,       \* workflow runs (every re-run attempt is a run of its own)
    S3State,    \* the location of the S3 state object the runs share
    Configs,    \* consumer configurations an overlay can bring in
    BaseConfig, \* the framework tree with no overlay: it declares no resource
    Partial,    \* what a half-done apply leaves behind
    Inputs,     \* the workflow inputs considered, a subset of InputSpace
    None        \* no run, no saved plan

\* The inputs and secrets that decide which steps run and which fail.
InputSpace ==
    [mode    : {"local", "s3", "other"},
     ref     : {"sha", "floating", "lenient"},   \* a SHA; a branch or tag; a branch
                                                 \* whose own validation accepts it
     overlay : BOOLEAN,                          \* overlay_paths # ''
     secrets : {"ok", "missing", "malformed"},   \* the S3/OIDC secrets
     tfvars  : {"none", "ok", "rejected"},       \* tfvars_file
     upload  : BOOLEAN,                          \* upload_plan_artifact
     apply   : BOOLEAN]

ASSUME ConstantsAssumption ==
    /\ Inputs \subseteq InputSpace
    /\ S3State \notin Runs
    /\ None \notin Runs
    /\ None \notin Nat
    /\ BaseConfig \notin Configs
    /\ Partial \notin Configs \cup {BaseConfig}

VARIABLES
    in,        \* inputs of each run, fixed when it is triggered
    pc,        \* the step a run is in
    status,    \* job status, as success(), failure() and cancelled() see it
    tree,      \* the configuration assembled in framework/
    planOut,   \* steps.plan.outputs.plan_status
    base,      \* serial the saved plan was computed on, None without a plan
    uploaded,  \* artifacts a run has uploaded
    lock,      \* per state: the run that holds the lock file, or None
    store,     \* per state: the serial and the configuration it records
    infra,     \* per state: the configuration the resources really have
    forced,    \* per state: an operator has removed a dead run's lock
    unsaved,   \* per state: the runs that changed resources and could not save that
    hist       \* per state: who wrote each version, and on which base

job == <<in, tree, planOut, base, uploaded>>
shared == <<lock, store, infra, forced, unsaved, hist>>
vars == <<in, pc, status, tree, planOut, base, uploaded,
          lock, store, infra, forced, unsaved, hist>>

Steps == {"mode", "framework", "ref", "consumer", "overlay", "setup",
          "backend", "creds", "init", "plan", "uploadPlan", "apply",
          "verify", "uploadState"}

\* "planning" and "applying": terraform is running and holds the lock.
Locked == {"planning", "applying"}

After == [mode |-> "framework", framework |-> "ref", ref |-> "consumer",
          consumer |-> "overlay", overlay |-> "setup", setup |-> "backend",
          backend |-> "creds", creds |-> "init", init |-> "plan",
          plan |-> "uploadPlan", planning |-> "uploadPlan",
          uploadPlan |-> "apply", apply |-> "verify", applying |-> "verify",
          verify |-> "uploadState", uploadState |-> "done"]

JobStatus == {"success", "failure", "cancelled"}
Recorded == Configs \cup {BaseConfig, Partial}
States == Runs \cup {S3State}

\* The state a run works on: a local backend's state dies with its runner.
Loc(r) == IF in[r].mode = "s3" THEN S3State ELSE r

TypeOK ==
    /\ in \in [Runs -> Inputs]
    /\ pc \in [Runs -> Steps \cup Locked \cup {"done"}]
    /\ status \in [Runs -> JobStatus]
    /\ tree \in [Runs -> Configs \cup {BaseConfig}]
    /\ planOut \in [Runs -> {"", "no-changes", "has-changes", "failed"}]
    /\ base \in [Runs -> Nat \cup {None}]
    /\ uploaded \in [Runs -> SUBSET {"tfplan", "tfstate"}]
    /\ lock \in [States -> Runs \cup {None}]
    /\ store \in [States -> [serial : Nat, cfg : Recorded]]
    /\ infra \in [States -> Recorded]
    /\ forced \in [States -> BOOLEAN]
    /\ unsaved \in [States -> SUBSET Runs]
    /\ hist \in [States -> Seq([run : Runs, base : Nat, cfg : Recorded])]

Init ==
    /\ in \in [Runs -> Inputs]
    /\ pc = [r \in Runs |-> "mode"]
    /\ status = [r \in Runs |-> "success"]
    /\ tree = [r \in Runs |-> BaseConfig]
    /\ planOut = [r \in Runs |-> ""]
    /\ base = [r \in Runs |-> None]
    /\ uploaded = [r \in Runs |-> {}]
    /\ lock = [l \in States |-> None]
    /\ store = [l \in States |-> [serial |-> 0, cfg |-> BaseConfig]]
    /\ infra = [l \in States |-> BaseConfig]
    /\ forced = [l \in States |-> FALSE]
    /\ unsaved = [l \in States |-> {}]
    /\ hist = [l \in States |-> <<>>]

-----------------------------------------------------------------------------
(* The runner: which step runs next.                                       *)

\* Mutant: the state upload without always().
AlwaysSteps_PlanOnly == {"uploadPlan"}

\* Steps whose condition contains always(): they run whatever came before.
AlwaysSteps == {"uploadPlan", "uploadState"}

\* Mutant: the apply step forgets plan_status == 'has-changes'.
If_AnyPlan(r, s) ==
    /\ s = "overlay" => in[r].overlay
    /\ s \in {"backend", "creds"} => in[r].mode = "s3"
    /\ s = "uploadPlan" => in[r].upload
    /\ s = "apply" => in[r].apply
    /\ s = "verify" => in[r].apply /\ in[r].mode = "s3"
    /\ s = "uploadState" => in[r].apply /\ in[r].mode = "local"

\* The rest of each step's "if:" condition.
If(r, s) ==
    /\ s = "overlay" => in[r].overlay
    /\ s \in {"backend", "creds"} => in[r].mode = "s3"
    /\ s = "uploadPlan" => in[r].upload
    /\ s = "apply" => in[r].apply /\ planOut[r] = "has-changes"
    /\ s = "verify" => in[r].apply /\ in[r].mode = "s3"
    /\ s = "uploadState" => in[r].apply /\ in[r].mode = "local"

Due(r, s) ==
    /\ pc[r] = s
    /\ status[r] = "success" \/ s \in AlwaysSteps
    /\ If(r, s)

GoTo(r, s, st) ==
    /\ pc' = [pc EXCEPT ![r] = s]
    /\ status' = [status EXCEPT ![r] = st]

Pass(r) == GoTo(r, After[pc[r]], status[r])

\* A failing step never turns a cancelled job back into a failed one.
Fail(r) ==
    GoTo(r, After[pc[r]], IF status[r] = "cancelled" THEN "cancelled" ELSE "failure")

\* A step whose condition is false is skipped.
Skip(r) ==
    /\ pc[r] \in Steps
    /\ ~Due(r, pc[r])
    /\ Pass(r)
    /\ UNCHANGED <<job, shared>>

-----------------------------------------------------------------------------
(* The steps before terraform plan.                                        *)

ValidateMode(r) ==
    /\ Due(r, "mode")
    /\ IF in[r].mode \in {"local", "s3"} THEN Pass(r) ELSE Fail(r)
    /\ UNCHANGED <<job, shared>>

\* Checks out the ref as given; git accepts a branch or tag as well as a SHA.
CheckoutFramework(r) ==
    /\ Due(r, "framework")
    /\ Pass(r) \/ Fail(r)
    /\ UNCHANGED <<job, shared>>

\* The script is the one of the checkout, so a branch that changed it can let
\* itself through.
ValidateRef(r) ==
    /\ Due(r, "ref")
    /\ IF in[r].ref # "floating" THEN Pass(r) ELSE Fail(r)
    /\ UNCHANGED <<job, shared>>

CheckoutConsumer(r) ==
    /\ Due(r, "consumer")
    /\ Pass(r) \/ Fail(r)
    /\ UNCHANGED <<job, shared>>

\* consumer_ref may be a branch, so the tree is whatever it points to by now.
\* A failing entry leaves the tree assembled only in part, and fails the job.
ApplyOverlay(r) ==
    /\ Due(r, "overlay")
    /\ \/ Pass(r) /\ \E c \in Configs : tree' = [tree EXCEPT ![r] = c]
       \/ Fail(r) /\ UNCHANGED tree
    /\ UNCHANGED <<in, planOut, base, uploaded, shared>>

SetupTerraform(r) ==
    /\ Due(r, "setup")
    /\ Pass(r) \/ Fail(r)
    /\ UNCHANGED <<job, shared>>

PrepareBackend(r) ==
    /\ Due(r, "backend")
    /\ IF in[r].secrets = "ok" THEN Pass(r) ELSE Fail(r)
    /\ UNCHANGED <<job, shared>>

ConfigureCredentials(r) ==
    /\ Due(r, "creds")
    /\ Pass(r) \/ Fail(r)
    /\ UNCHANGED <<job, shared>>

TerraformInit(r) ==
    /\ Due(r, "init")
    /\ Pass(r) \/ Fail(r)
    /\ UNCHANGED <<job, shared>>

-----------------------------------------------------------------------------
(* terraform plan -input=false -lock-timeout=300s -out=tfplan              *)

\* terraform_tfvars_args.sh fails under set -e, before plan_status is set.
RejectTfvars(r) ==
    /\ Due(r, "plan")
    /\ in[r].tfvars = "rejected"
    /\ Fail(r)
    /\ UNCHANGED <<job, shared>>

BeginPlan(r) ==
    /\ Due(r, "plan")
    /\ in[r].tfvars # "rejected"
    /\ lock[Loc(r)] = None
    /\ lock' = [lock EXCEPT ![Loc(r)] = r]
    /\ GoTo(r, "planning", status[r])
    /\ UNCHANGED <<job, store, infra, forced, unsaved, hist>>

\* Mutant: no -lock-timeout bound, the plan waits as long as the lock is held.
PlanLockTimeout_Unbounded(r) == Due(r, "plan") /\ FALSE

\* The lock is still held after 300 seconds: plan exits 1.
PlanLockTimeout(r) ==
    /\ Due(r, "plan")
    /\ in[r].tfvars # "rejected"
    /\ lock[Loc(r)] # None
    /\ planOut' = [planOut EXCEPT ![r] = "failed"]
    /\ Fail(r)
    /\ UNCHANGED <<in, tree, base, uploaded, shared>>

Release(l) == lock' = [lock EXCEPT ![l] = None]

\* A terraform that fails may fail to remove its lock as well.
TryRelease(l) == Release(l) \/ UNCHANGED lock

\* What the plan finds: the refreshed resources against the assembled tree.
PlanDiff(r) ==
    IF infra[Loc(r)] = tree[r] /\ store[Loc(r)].cfg = tree[r]
    THEN "no-changes" ELSE "has-changes"

PlanSucceeds(r) ==
    /\ pc[r] = "planning"
    /\ planOut' = [planOut EXCEPT ![r] = PlanDiff(r)]
    /\ base' = [base EXCEPT ![r] = store[Loc(r)].serial]
    /\ Release(Loc(r))
    /\ Pass(r)
    /\ UNCHANGED <<in, tree, uploaded, store, infra, forced, unsaved, hist>>

PlanFails(r) ==
    /\ pc[r] = "planning"
    /\ planOut' = [planOut EXCEPT ![r] = "failed"]
    /\ TryRelease(Loc(r))
    /\ Fail(r)
    /\ UNCHANGED <<in, tree, base, uploaded, store, infra, forced, unsaved, hist>>

\* if-no-files-found: warn, so without a saved plan the step passes.
UploadPlan(r) ==
    /\ Due(r, "uploadPlan")
    /\ \/ /\ Pass(r)
          /\ uploaded' = [uploaded EXCEPT ![r] =
                            IF base[r] # None THEN @ \cup {"tfplan"} ELSE @]
       \/ Fail(r) /\ UNCHANGED uploaded
    /\ UNCHANGED <<in, tree, planOut, base, shared>>

-----------------------------------------------------------------------------
(* terraform apply -input=false tfplan                                     *)

\* No -lock-timeout: a lock held by somebody else fails the apply at once.
ApplyLockBusy(r) ==
    /\ Due(r, "apply")
    /\ lock[Loc(r)] # None
    /\ Fail(r)
    /\ UNCHANGED <<job, shared>>

\* Under the lock, terraform compares the plan's serial with the state's.
ApplyStale(r) ==
    /\ Due(r, "apply")
    /\ lock[Loc(r)] = None
    /\ base[r] # store[Loc(r)].serial
    /\ Fail(r)
    /\ UNCHANGED <<job, shared>>

\* Mutant: terraform apply -lock=false.
BeginApply_NoLock(r) ==
    /\ Due(r, "apply")
    /\ base[r] = store[Loc(r)].serial
    /\ lock' = [lock EXCEPT ![Loc(r)] = r]
    /\ GoTo(r, "applying", status[r])
    /\ UNCHANGED <<job, store, infra, forced, unsaved, hist>>

\* Mutant: the plan is applied whatever happened to the state since.
BeginApply_Stale(r) ==
    /\ Due(r, "apply")
    /\ lock[Loc(r)] = None
    /\ lock' = [lock EXCEPT ![Loc(r)] = r]
    /\ GoTo(r, "applying", status[r])
    /\ UNCHANGED <<job, store, infra, forced, unsaved, hist>>

BeginApply(r) ==
    /\ Due(r, "apply")
    /\ lock[Loc(r)] = None
    /\ base[r] = store[Loc(r)].serial
    /\ lock' = [lock EXCEPT ![Loc(r)] = r]
    /\ GoTo(r, "applying", status[r])
    /\ UNCHANGED <<job, store, infra, forced, unsaved, hist>>

\* Writes version serial + 1 of the state and makes the resources match it.
Write(r, c) ==
    LET l == Loc(r)
    IN  /\ store' = [store EXCEPT ![l] = [serial |-> store[l].serial + 1, cfg |-> c]]
        /\ infra' = [infra EXCEPT ![l] = c]
        /\ hist' = [hist EXCEPT ![l] =
                      Append(@, [run |-> r, base |-> base[r], cfg |-> c])]

ApplySucceeds(r) ==
    /\ pc[r] = "applying"
    /\ Write(r, tree[r])
    /\ Release(Loc(r))
    /\ Pass(r)
    /\ UNCHANGED <<job, forced, unsaved>>

\* An apply breaks off.  What was done by then is recorded in the state; or
\* nothing was done; or the state cannot be saved, and errored.tfstate is lost
\* with the runner.
BreakOff(r) ==
    \/ Write(r, Partial) /\ UNCHANGED unsaved
    \/ UNCHANGED <<store, infra, unsaved, hist>>
    \/ /\ \E c \in {Partial, tree[r]} : infra' = [infra EXCEPT ![Loc(r)] = c]
       /\ unsaved' = [unsaved EXCEPT ![Loc(r)] = @ \cup {r}]
       /\ UNCHANGED <<store, hist>>

\* Mutant: the apply step swallows terraform's exit code.
ApplyFails_Swallowed(r) ==
    /\ pc[r] = "applying"
    /\ BreakOff(r)
    /\ TryRelease(Loc(r))
    /\ Pass(r)
    /\ UNCHANGED <<job, forced>>

\* Some resources failed, or the state could not be saved: apply exits 1.
ApplyFails(r) ==
    /\ pc[r] = "applying"
    /\ BreakOff(r)
    /\ TryRelease(Loc(r))
    /\ Fail(r)
    /\ UNCHANGED <<job, forced>>

-----------------------------------------------------------------------------
(* The steps after terraform apply.                                        *)

\* aws s3api head-object fails without a state object, or on a service error.
VerifyState(r) ==
    /\ Due(r, "verify")
    /\ (store[Loc(r)].serial > 0 /\ Pass(r)) \/ Fail(r)
    /\ UNCHANGED <<job, shared>>

UploadState(r) ==
    /\ Due(r, "uploadState")
    /\ \/ /\ Pass(r)
          /\ uploaded' = [uploaded EXCEPT ![r] =
                            IF store[Loc(r)].serial > 0 THEN @ \cup {"tfstate"} ELSE @]
       \/ Fail(r) /\ UNCHANGED uploaded
    /\ UNCHANGED <<in, tree, planOut, base, shared>>

-----------------------------------------------------------------------------
(* Cancellation, the 20-minute timeout, and loss of the runner.            *)

\* Terraform gets the signal in time: it stops, saves and unlocks, if it can.
CancelGracefully(r) ==
    /\ pc[r] # "done"
    /\ status[r] # "cancelled"
    /\ GoTo(r, After[pc[r]], "cancelled")
    /\ IF pc[r] = "applying" THEN BreakOff(r) ELSE UNCHANGED <<store, infra, unsaved, hist>>
    /\ IF pc[r] \in Locked THEN TryRelease(Loc(r)) ELSE UNCHANGED lock
    /\ UNCHANGED <<job, forced>>

\* Terraform is killed: the lock file stays, and the state misses whatever
\* had been changed by then.  The always() steps run unless the runner is
\* gone too.
Kill(r) ==
    /\ pc[r] \in Locked
    /\ \/ GoTo(r, After[pc[r]], "cancelled")
       \/ GoTo(r, "done", "cancelled")
    /\ \/ /\ pc[r] = "applying"
          /\ \E c \in {Partial, tree[r]} : infra' = [infra EXCEPT ![Loc(r)] = c]
       \/ UNCHANGED infra
    /\ UNCHANGED <<job, lock, store, forced, unsaved, hist>>

\* The runner is lost outside terraform plan and apply.
LoseRunner(r) ==
    /\ pc[r] \in Steps
    /\ GoTo(r, "done", "cancelled")
    /\ UNCHANGED <<job, shared>>

\* terraform force-unlock by an operator, once the holder is known dead.
ForceUnlock(l) ==
    /\ lock[l] # None
    /\ pc[lock[l]] \notin Locked
    /\ Release(l)
    /\ forced' = [forced EXCEPT ![l] = TRUE]
    /\ UNCHANGED <<job, pc, status, store, infra, unsaved, hist>>

-----------------------------------------------------------------------------

\* Everything the runner itself makes a run do.
RunStep(r) ==
    \/ Skip(r)
    \/ ValidateMode(r) \/ CheckoutFramework(r) \/ ValidateRef(r)
    \/ CheckoutConsumer(r) \/ ApplyOverlay(r) \/ SetupTerraform(r)
    \/ PrepareBackend(r) \/ ConfigureCredentials(r) \/ TerraformInit(r)
    \/ RejectTfvars(r) \/ BeginPlan(r) \/ PlanLockTimeout(r)
    \/ PlanSucceeds(r) \/ PlanFails(r) \/ UploadPlan(r)
    \/ ApplyLockBusy(r) \/ ApplyStale(r) \/ BeginApply(r)
    \/ ApplySucceeds(r) \/ ApplyFails(r)
    \/ VerifyState(r) \/ UploadState(r)

Disturb(r) == CancelGracefully(r) \/ Kill(r) \/ LoseRunner(r)

\* All runs are over: nothing is left to do.
Finished ==
    /\ \A r \in Runs : pc[r] = "done"
    /\ \A l \in States : lock[l] = None
    /\ UNCHANGED vars

Next ==
    \/ \E r \in Runs : RunStep(r) \/ Disturb(r)
    \/ \E l \in States : ForceUnlock(l)
    \/ Finished

Spec == Init /\ [][Next]_vars

\* A started step ends: it completes, fails, or its own time limit ends it.
FairSpec == Spec /\ \A r \in Runs : WF_vars(RunStep(r))

-----------------------------------------------------------------------------
(* Properties.                                                             *)

\* Terraform works on a state only while holding its lock, so no two runs ever
\* plan or apply on the same state at once, whatever was killed or unlocked.
LockedWork ==
    \A r \in Runs : pc[r] \in Locked => lock[Loc(r)] = r

\* Every version of a state was written by a run that was asked to apply, with
\* a framework ref its validation let through, an accepted tfvars path, complete backend secrets, the
\* requested overlay in place, and a plan that found changes.  This is what the
\* implicit success() of the apply step, six steps further on, is there for.
GatedWrites ==
    \A l \in States : \A i \in DOMAIN hist[l] :
        LET r == hist[l][i].run
        IN  /\ in[r].apply
            /\ in[r].ref # "floating"
            /\ in[r].tfvars # "rejected"
            /\ in[r].mode = "s3" => in[r].secrets = "ok"
            /\ in[r].overlay => tree[r] # BaseConfig
            /\ planOut[r] = "has-changes"

\* The state and the resources it describes differ only while its lock is held
\* (by a live apply or a killed one), until an operator forces that lock, or
\* because of an apply that could not save the state and whose run is red: a plan
\* is computed on a wrong state only after somebody could know of it.
StateDescribesInfra ==
    \A l \in States : infra[l] # store[l].cfg =>
        \/ lock[l] # None
        \/ forced[l]
        \/ \E r \in unsaved[l] : status[r] # "success"

\* The configuration recorded by version n of a state.
VersionCfg(l, n) == IF n = 0 THEN BaseConfig ELSE hist[l][n].cfg

\* A green run that was asked to apply has done so: either the version right
\* after the one it planned on is its own tree, or that version already was its
\* tree and needed nothing; on S3 the verified state object exists.
GreenMeansDeployed ==
    \A r \in Runs :
        LET l == Loc(r)
        IN  pc[r] = "done" /\ status[r] = "success" /\ in[r].apply =>
              /\ base[r] \in Nat
              /\ IF planOut[r] = "has-changes"
                   THEN /\ base[r] < Len(hist[l])
                        /\ hist[l][base[r] + 1] =
                             [run |-> r, base |-> base[r], cfg |-> tree[r]]
                   ELSE VersionCfg(l, base[r]) = tree[r]
              /\ l = S3State => store[l].serial > 0

\* The state a run wrote on its own runner is offered for upload, not skipped.
OffersState(r) ==
    pc[r] = "uploadState" /\ Loc(r) = r /\ store[r].serial > 0 => ~Skip(r)

\* A run that wrote a local state never skips the upload that is the only way
\* to keep it, even when the apply failed half-way or the job was cancelled.
LocalStateOffered == [][\A r \in Runs : OffersState(r)]_vars

\* The state's history is that of a log with compare-and-swap commits: each
\* version is built on the version before it, each saved plan is used once.
Log(l) == INSTANCE StateLog WITH
    Values <- Recorded, NoSnap <- None,
    log <- hist[l], snap <- [r \in Runs |-> IF Loc(r) = l THEN base[r] ELSE None]

ImplementsStateLog ==
    /\ \A l \in States : Log(l)!Init
    /\ [][\A l \in States : [Log(l)!Next]_(Log(l)!vars)]_vars

\* What the log promises, as a property of the deploy runs.
LinearHistory == \A l \in States : Log(l)!Linear /\ Log(l)!AppliedOnce

\* Every run ends, also when a dead run's lock is never removed: the plan's wait
\* for the lock is bounded by -lock-timeout=300s, and the apply does not wait.
Termination == \A r \in Runs : <>(pc[r] = "done")
=============================================================================
