--------------------------- MODULE DeployRun_proofs ---------------------------
(***************************************************************************)
(* Proofs about DeployRun for any number of runs, inputs and               *)
(* configurations: terraform works under the lock, the history of a state  *)
(* is linear, a state with its runs implements the abstract StateLog, only *)
(* gated runs write, green runs deployed, and local states are uploaded.   *)
(***************************************************************************)
EXTENDS DeployRun, TLAPS

\* The steps up to the end of terraform plan: no saved plan exists yet.
Early == {"mode", "framework", "ref", "consumer", "overlay", "setup",
          "backend", "creds", "init", "plan", "planning"}

NoPlanYet == \A r \in Runs : pc[r] \in Early => base[r] = None

\* An apply in progress still has the newest version as its base.
ApplyIsCurrent ==
    \A r \in Runs : pc[r] = "applying" => base[r] = store[Loc(r)].serial

\* Each version remembers the base of the run that wrote it.
HistoryOwned ==
    \A l \in States : \A i \in DOMAIN hist[l] :
        base[hist[l][i].run] = hist[l][i].base

HistoryCounted == \A l \in States : Len(hist[l]) = store[l].serial

HistoryLinear ==
    \A l \in States : \A i \in DOMAIN hist[l] : hist[l][i].base = i - 1

Inv ==
    /\ TypeOK
    /\ LockedWork
    /\ NoPlanYet
    /\ ApplyIsCurrent
    /\ HistoryOwned
    /\ HistoryCounted
    /\ HistoryLinear

\* A step that runs no terraform: it leaves locks, states and plans alone.
Quiet(r) ==
    /\ pc[r] \in Steps
    /\ \E s \in Steps \cup {"done"}, st \in JobStatus :
         GoTo(r, s, st) /\ (s \in Early => pc[r] \in Early)
    /\ tree' \in [Runs -> Configs \cup {BaseConfig}]
    /\ planOut' \in [Runs -> {"", "no-changes", "has-changes", "failed"}]
    /\ uploaded' \in [Runs -> SUBSET {"tfplan", "tfstate"}]
    /\ UNCHANGED <<in, base, shared>>

-----------------------------------------------------------------------------

LEMMA AfterType ==
    ASSUME NEW s \in Steps \cup Locked
    PROVE  /\ After[s] \in Steps \cup {"done"}
           /\ After[s] \in Early => s \in Early \ {"plan", "planning"}
  BY DEF Steps, Locked, After, Early

LEMMA LocType == ASSUME TypeOK, NEW r \in Runs PROVE Loc(r) \in States
  BY DEF Loc, States

LEMMA EntryType ==
    ASSUME TypeOK, NEW l \in States, NEW i \in DOMAIN hist[l]
    PROVE  i \in Nat /\ hist[l][i].run \in Runs /\ hist[l][i].base \in Nat
  <1> DEFINE R == [run : Runs, base : Nat, cfg : Recorded]
  <1>1. hist[l] \in Seq(R)
    BY DEF TypeOK
  <1> HIDE DEF R
  <1>2. hist[l][i] \in R /\ i \in Nat
    BY <1>1
  <1> QED
    BY <1>2 DEF R

LEMMA InitInv == Init => Inv
  <1> SUFFICES ASSUME Init PROVE Inv
    OBVIOUS
  <1>1. TypeOK
    <2>1. hist \in [States -> Seq([run : Runs, base : Nat, cfg : Recorded])]
      <3>1. <<>> \in Seq([run : Runs, base : Nat, cfg : Recorded])
        OBVIOUS
      <3> QED
        BY <3>1 DEF Init
    <2>2. store \in [States -> [serial : Nat, cfg : Recorded]]
      BY DEF Init, Recorded
    <2> QED
      BY <2>1, <2>2 DEF Init, TypeOK, Steps, JobStatus, Recorded
  <1>2. LockedWork /\ NoPlanYet /\ ApplyIsCurrent
    BY DEF Init, LockedWork, NoPlanYet, ApplyIsCurrent, Locked
  <1>3. \A l \in States : hist[l] = <<>> /\ store[l].serial = 0
    BY DEF Init
  <1>4. HistoryOwned /\ HistoryLinear
    BY <1>3 DEF HistoryOwned, HistoryLinear
  <1>5. HistoryCounted
    BY <1>3 DEF HistoryCounted
  <1> QED
    BY <1>1, <1>2, <1>4, <1>5 DEF Inv

LEMMA PassOrFail ==
    ASSUME TypeOK, NEW r \in Runs, pc[r] \in Steps, Pass(r) \/ Fail(r)
    PROVE  \E s \in Steps \cup {"done"}, st \in JobStatus :
             GoTo(r, s, st) /\ (s \in Early => pc[r] \in Early)
  <1>1. /\ After[pc[r]] \in Steps \cup {"done"}
        /\ After[pc[r]] \in Early => pc[r] \in Early
    BY AfterType
  <1>2. "cancelled" \in JobStatus /\ "failure" \in JobStatus /\ status[r] \in JobStatus
    BY DEF JobStatus, TypeOK
  <1> QED
    BY <1>1, <1>2 DEF Pass, Fail

\* The steps around terraform plan and apply are quiet.
LEMMA QuietSteps ==
    ASSUME TypeOK, NEW r \in Runs,
           \/ Skip(r)
           \/ ValidateMode(r) \/ CheckoutFramework(r) \/ ValidateRef(r)
           \/ CheckoutConsumer(r) \/ ApplyOverlay(r) \/ SetupTerraform(r)
           \/ PrepareBackend(r) \/ ConfigureCredentials(r) \/ TerraformInit(r)
           \/ RejectTfvars(r) \/ PlanLockTimeout(r) \/ UploadPlan(r)
           \/ ApplyLockBusy(r) \/ ApplyStale(r)
           \/ VerifyState(r) \/ UploadState(r) \/ LoseRunner(r)
    PROVE  Quiet(r)
  <1>1. pc[r] \in Steps
    BY DEF Skip, ValidateMode, CheckoutFramework, ValidateRef, CheckoutConsumer,
           ApplyOverlay, SetupTerraform, PrepareBackend, ConfigureCredentials,
           TerraformInit, RejectTfvars, PlanLockTimeout, UploadPlan,
           ApplyLockBusy, ApplyStale, VerifyState, UploadState, LoseRunner, Due, Steps
  <1>2. \/ Pass(r)
        \/ Fail(r)
        \/ GoTo(r, "done", "cancelled")
    BY DEF Skip, ValidateMode, CheckoutFramework, ValidateRef, CheckoutConsumer,
           ApplyOverlay, SetupTerraform, PrepareBackend, ConfigureCredentials,
           TerraformInit, RejectTfvars, PlanLockTimeout, UploadPlan,
           ApplyLockBusy, ApplyStale, VerifyState, UploadState, LoseRunner
  <1>3. \E s \in Steps \cup {"done"}, st \in JobStatus :
          GoTo(r, s, st) /\ (s \in Early => pc[r] \in Early)
    <2>1. CASE Pass(r) \/ Fail(r)
      BY <1>1, <2>1, PassOrFail
    <2>2. CASE GoTo(r, "done", "cancelled")
      BY <2>2 DEF JobStatus, Early
    <2> QED
      BY <1>2, <2>1, <2>2
  <1>4. UNCHANGED <<in, base, shared>>
    BY DEF Skip, ValidateMode, CheckoutFramework, ValidateRef, CheckoutConsumer,
           ApplyOverlay, SetupTerraform, PrepareBackend, ConfigureCredentials,
           TerraformInit, RejectTfvars, PlanLockTimeout, UploadPlan,
           ApplyLockBusy, ApplyStale, VerifyState, UploadState, LoseRunner, job
  <1>5. tree' \in [Runs -> Configs \cup {BaseConfig}]
    BY DEF Skip, ValidateMode, CheckoutFramework, ValidateRef, CheckoutConsumer,
           ApplyOverlay, SetupTerraform, PrepareBackend, ConfigureCredentials,
           TerraformInit, RejectTfvars, PlanLockTimeout, UploadPlan,
           ApplyLockBusy, ApplyStale, VerifyState, UploadState, LoseRunner, job, TypeOK
  <1>6. planOut' \in [Runs -> {"", "no-changes", "has-changes", "failed"}]
    BY DEF Skip, ValidateMode, CheckoutFramework, ValidateRef, CheckoutConsumer,
           ApplyOverlay, SetupTerraform, PrepareBackend, ConfigureCredentials,
           TerraformInit, RejectTfvars, PlanLockTimeout, UploadPlan,
           ApplyLockBusy, ApplyStale, VerifyState, UploadState, LoseRunner, job, TypeOK
  <1>7. uploaded' \in [Runs -> SUBSET {"tfplan", "tfstate"}]
    <2>1. \/ UNCHANGED uploaded
          \/ uploaded' = [uploaded EXCEPT ![r] = @ \cup {"tfplan"}]
          \/ uploaded' = [uploaded EXCEPT ![r] = @]
          \/ uploaded' = [uploaded EXCEPT ![r] = @ \cup {"tfstate"}]
      <3>1. CASE UploadPlan(r)
        BY <3>1 DEF UploadPlan
      <3>2. CASE UploadState(r)
        BY <3>2 DEF UploadState
      <3>3. CASE ~UploadPlan(r) /\ ~UploadState(r)
        BY <3>3 DEF Skip, ValidateMode, CheckoutFramework, ValidateRef,
             CheckoutConsumer, ApplyOverlay, SetupTerraform, PrepareBackend,
             ConfigureCredentials, TerraformInit, RejectTfvars, PlanLockTimeout,
             ApplyLockBusy, ApplyStale, VerifyState, LoseRunner, job
      <3> QED
        BY <3>1, <3>2, <3>3
    <2>2. ASSUME NEW a \in {"tfplan", "tfstate"},
                 uploaded' = [uploaded EXCEPT ![r] = @ \cup {a}]
          PROVE  uploaded' \in [Runs -> SUBSET {"tfplan", "tfstate"}]
      <3>1. uploaded[r] \cup {a} \in SUBSET {"tfplan", "tfstate"}
        BY <2>2 DEF TypeOK
      <3> QED
        BY <2>2, <3>1 DEF TypeOK
    <2> QED
      BY ZenonT(40), <2>1, <2>2 DEF TypeOK
  <1> QED
    BY <1>1, <1>3, <1>4, <1>5, <1>6, <1>7 DEF Quiet

LEMMA QuietInv ==
    ASSUME Inv, NEW r \in Runs, Quiet(r)
    PROVE  Inv'
  <1> USE DEF Inv
  <1>1. PICK s \in Steps \cup {"done"}, st \in JobStatus :
          GoTo(r, s, st) /\ (s \in Early => pc[r] \in Early)
    BY DEF Quiet
  <1>2. UNCHANGED <<in, base, lock, store, infra, forced, unsaved, hist>>
    BY DEF Quiet, shared
  <1>3. TypeOK'
    BY <1>1, <1>2 DEF Quiet, TypeOK, GoTo
  <1>4. \A q \in Runs : pc'[q] \in Locked => pc'[q] = pc[q]
    BY <1>1 DEF GoTo, TypeOK, Steps, Locked
  <1>5. \A q \in Runs : pc'[q] \in Early => pc[q] \in Early
    BY <1>1 DEF GoTo, TypeOK
  <1>6. LockedWork' /\ ApplyIsCurrent'
    BY <1>2, <1>4 DEF LockedWork, ApplyIsCurrent, Loc, Locked
  <1>7. NoPlanYet'
    BY <1>2, <1>5 DEF NoPlanYet
  <1>8. HistoryOwned' /\ HistoryCounted' /\ HistoryLinear'
    BY <1>2 DEF HistoryOwned, HistoryCounted, HistoryLinear
  <1> QED
    BY <1>3, <1>6, <1>7, <1>8

-----------------------------------------------------------------------------
(* Terraform plan and apply: the lock is taken, held and released.         *)

LEMMA BeginInv ==
    ASSUME Inv, NEW r \in Runs, BeginPlan(r) \/ BeginApply(r)
    PROVE  Inv'
  <1> USE DEF Inv
  <1>1. /\ pc[r] \in {"plan", "apply"}
        /\ pc' = [pc EXCEPT ![r] = IF pc[r] = "plan" THEN "planning" ELSE "applying"]
        /\ pc[r] = "apply" => base[r] = store[Loc(r)].serial
        /\ status' = [status EXCEPT ![r] = status[r]]
        /\ lock[Loc(r)] = None
        /\ lock' = [lock EXCEPT ![Loc(r)] = r]
        /\ UNCHANGED <<in, tree, planOut, base, uploaded, store, infra, forced, unsaved, hist>>
    BY DEF BeginPlan, BeginApply, Due, GoTo, job
  <1>2. TypeOK'
    BY <1>1, LocType DEF TypeOK, Locked, Steps
  <1>3. LockedWork'
    <2> SUFFICES ASSUME NEW q \in Runs, pc'[q] \in Locked
                 PROVE  lock'[Loc(q)'] = q
      BY DEF LockedWork
    <2>1. Loc(q)' = Loc(q)
      BY <1>1 DEF Loc
    <2>2. CASE q = r
      BY ZenonT(40), <1>1, <2>1, <2>2, LocType DEF TypeOK
    <2>3. CASE q # r
      <3>1. lock[Loc(q)] = q
        BY <1>1, <2>3 DEF LockedWork, TypeOK
      <3>2. Loc(q) # Loc(r)
        BY <1>1, <3>1, ConstantsAssumption
      <3> QED
        BY <1>1, <2>1, <3>1, <3>2, LocType DEF TypeOK
    <2> QED
      BY <2>2, <2>3
  <1>4. NoPlanYet'
    BY <1>1 DEF NoPlanYet, TypeOK, Early
  <1>5. ApplyIsCurrent'
    BY <1>1 DEF ApplyIsCurrent, TypeOK, Loc
  <1>6. HistoryOwned' /\ HistoryCounted' /\ HistoryLinear'
    BY <1>1 DEF HistoryOwned, HistoryCounted, HistoryLinear
  <1> QED
    BY <1>2, <1>3, <1>4, <1>5, <1>6

\* The end of a plan or apply that writes nothing; dead or alive.
Ends(r) ==
    /\ pc[r] \in Locked
    /\ \E s \in Steps \cup {"done"}, st \in JobStatus :
         GoTo(r, s, st) /\ s \notin Early
    /\ planOut' \in [Runs -> {"", "no-changes", "has-changes", "failed"}]
    /\ \/ UNCHANGED base
       \/ (pc[r] = "planning" /\ base' = [base EXCEPT ![r] = store[Loc(r)].serial])
    /\ TryRelease(Loc(r))
    /\ infra' \in [States -> Recorded]
    /\ \A l \in States : l # Loc(r) => infra'[l] = infra[l]
    /\ \/ (UNCHANGED infra \/ UNCHANGED lock) /\ UNCHANGED unsaved
       \/ unsaved' = [unsaved EXCEPT ![Loc(r)] = @ \cup {r}] /\ status'[r] # "success"
    /\ UNCHANGED <<in, tree, uploaded, store, forced, hist>>

\* The end of an apply that writes a version.
Writes(r) ==
    /\ pc[r] = "applying"
    /\ \E s \in Steps \cup {"done"}, st \in JobStatus :
         GoTo(r, s, st) /\ s \notin Early
    /\ \E c \in Recorded : Write(r, c)
    /\ TryRelease(Loc(r))
    /\ UNCHANGED <<job, forced, unsaved>>

LEMMA PassOrFailLocked ==
    ASSUME TypeOK, NEW r \in Runs, pc[r] \in Locked,
           \/ Pass(r)
           \/ Fail(r)
           \/ GoTo(r, After[pc[r]], "cancelled")
           \/ GoTo(r, "done", "cancelled")
    PROVE  \E s \in Steps \cup {"done"}, st \in JobStatus :
             GoTo(r, s, st) /\ s \notin Early
  <1>1. After[pc[r]] \in Steps \ Early /\ "done" \notin Early
    BY DEF Locked, After, Steps, Early
  <1>2. "cancelled" \in JobStatus /\ "failure" \in JobStatus /\ status[r] \in JobStatus
    BY DEF JobStatus, TypeOK
  <1> QED
    BY <1>1, <1>2 DEF Pass, Fail

LEMMA EndSteps ==
    ASSUME TypeOK, NEW r \in Runs,
           \/ PlanSucceeds(r) \/ PlanFails(r) \/ ApplySucceeds(r) \/ ApplyFails(r)
           \/ Kill(r)
           \/ (CancelGracefully(r) /\ pc[r] \in Locked)
    PROVE  Ends(r) \/ Writes(r)
  <1>1. pc[r] \in Locked
    BY DEF PlanSucceeds, PlanFails, ApplySucceeds, ApplyFails, Kill, Locked
  <1>2. \E s \in Steps \cup {"done"}, st \in JobStatus :
          GoTo(r, s, st) /\ s \notin Early
    BY <1>1, PassOrFailLocked
       DEF PlanSucceeds, PlanFails, ApplySucceeds, ApplyFails, Kill, CancelGracefully
  <1>3. tree[r] \in Recorded /\ Partial \in Recorded
    BY DEF TypeOK, Recorded
  <1>4. CASE PlanSucceeds(r)
    BY <1>1, <1>2, <1>4 DEF PlanSucceeds, Ends, TryRelease, TypeOK, PlanDiff
  <1>5. CASE PlanFails(r)
    BY <1>1, <1>2, <1>5 DEF PlanFails, Ends, TypeOK
  <1>6. CASE ApplySucceeds(r)
    BY <1>1, <1>2, <1>3, <1>6 DEF ApplySucceeds, Writes, TryRelease
  <1>10. ASSUME pc[r] = "applying", BreakOff(r), TryRelease(Loc(r)), status'[r] # "success",
                UNCHANGED <<job, forced>>
         PROVE  Ends(r) \/ Writes(r)
    <2>1. CASE Write(r, Partial) /\ UNCHANGED unsaved
      BY <1>2, <1>3, <1>10, <2>1 DEF Writes
    <2>2. CASE UNCHANGED <<store, infra, unsaved, hist>>
      BY <1>1, <1>2, <1>10, <2>2 DEF Ends, TypeOK, job
    <2>3. CASE /\ \E c \in {Partial, tree[r]} : infra' = [infra EXCEPT ![Loc(r)] = c]
               /\ unsaved' = [unsaved EXCEPT ![Loc(r)] = @ \cup {r}]
               /\ UNCHANGED <<store, hist>>
      <3>1. PICK c \in Recorded : infra' = [infra EXCEPT ![Loc(r)] = c]
        BY <1>3, <2>3
      <3>2. /\ infra' \in [States -> Recorded]
            /\ \A l \in States : l # Loc(r) => infra'[l] = infra[l]
        BY ZenonT(40), <3>1 DEF TypeOK
      <3> QED
        BY <1>1, <1>2, <1>10, <2>3, <3>2 DEF Ends, TypeOK, job
    <2> QED
      BY <1>10, <2>1, <2>2, <2>3 DEF BreakOff
  <1>7. CASE ApplyFails(r)
    <2>1. status'[r] # "success"
      BY <1>7 DEF ApplyFails, Fail, GoTo, TypeOK
    <2> QED
      BY <1>7, <1>10, <2>1 DEF ApplyFails
  <1>8. CASE Kill(r)
    <2>1. /\ infra' \in [States -> Recorded]
          /\ \A l \in States : l # Loc(r) => infra'[l] = infra[l]
      <3>1. \/ UNCHANGED infra
            \/ \E c \in Recorded : infra' = [infra EXCEPT ![Loc(r)] = c]
        BY <1>3, <1>8 DEF Kill
      <3> QED
        BY ZenonT(40), <3>1 DEF TypeOK
    <2> QED
      BY <1>1, <1>2, <1>8, <2>1 DEF Kill, Ends, TryRelease, TypeOK, job
  <1>9. CASE CancelGracefully(r)
    <2>1. status'[r] # "success"
      BY <1>9 DEF CancelGracefully, GoTo, TypeOK
    <2>2. CASE pc[r] = "applying"
      BY <1>1, <1>9, <1>10, <2>1, <2>2 DEF CancelGracefully
    <2>3. CASE pc[r] # "applying"
      BY <1>1, <1>2, <1>9, <2>3 DEF CancelGracefully, Ends, TypeOK, job
    <2> QED
      BY <2>2, <2>3
  <1> QED
    BY <1>4, <1>5, <1>6, <1>7, <1>8, <1>9

LEMMA EndsInv ==
    ASSUME Inv, NEW r \in Runs, Ends(r)
    PROVE  Inv'
  <1> USE DEF Inv
  <1>1. PICK s \in Steps \cup {"done"}, st \in JobStatus :
          GoTo(r, s, st) /\ s \notin Early
    BY DEF Ends
  <1>2. UNCHANGED <<in, tree, uploaded, store, forced, hist>>
    BY DEF Ends
  <1>3. base' \in [Runs -> Nat \cup {None}]
    BY ZenonT(40), LocType DEF Ends, TypeOK
  <1>4. /\ lock' \in [States -> Runs \cup {None}]
        /\ unsaved' \in [States -> SUBSET Runs]
    <2>1. lock' \in [States -> Runs \cup {None}]
      BY DEF Ends, TryRelease, Release, TypeOK
    <2>2. \/ UNCHANGED unsaved
          \/ unsaved' = [unsaved EXCEPT ![Loc(r)] = unsaved[Loc(r)] \cup {r}]
      BY DEF Ends
    <2>3. unsaved[Loc(r)] \cup {r} \in SUBSET Runs
      BY LocType DEF TypeOK
    <2>4. unsaved' \in [States -> SUBSET Runs]
      BY ZenonT(40), <2>2, <2>3 DEF TypeOK
    <2> QED
      BY <2>1, <2>4
  <1>5. TypeOK'
    BY <1>1, <1>2, <1>3, <1>4 DEF Ends, TypeOK, GoTo
  <1>6. \A q \in Runs : pc'[q] \in Locked => q # r /\ pc'[q] = pc[q]
    BY <1>1 DEF GoTo, TypeOK, Steps, Locked
  <1>7. \A q \in Runs : q # r => base'[q] = base[q]
    BY DEF Ends, TypeOK
  <1>8. \A q \in Runs : Loc(q)' = Loc(q)
    BY <1>2 DEF Loc
  <1>9. LockedWork'
    <2> SUFFICES ASSUME NEW q \in Runs, pc'[q] \in Locked
                 PROVE  lock'[Loc(q)'] = q
      BY DEF LockedWork
    <2>1. lock[Loc(q)] = q /\ lock[Loc(r)] = r
      BY <1>6 DEF LockedWork, Ends
    <2>2. Loc(q) # Loc(r) /\ Loc(q) \in States
      BY <1>6, <2>1, LocType
    <2>3. lock'[Loc(q)] = lock[Loc(q)]
      BY <2>2 DEF Ends, TryRelease, Release, TypeOK
    <2> QED
      BY <1>8, <2>1, <2>3
  <1>10. NoPlanYet'
    BY <1>1, <1>7 DEF NoPlanYet, GoTo, TypeOK
  <1>11. ApplyIsCurrent'
    BY <1>2, <1>6, <1>7, <1>8 DEF ApplyIsCurrent, Locked
  <1>12. HistoryOwned'
    <2> SUFFICES ASSUME NEW l \in States, NEW i \in DOMAIN hist[l]
                 PROVE  base'[hist[l][i].run] = hist[l][i].base
      BY <1>2 DEF HistoryOwned
    <2>1. hist[l][i].run \in Runs /\ hist[l][i].base \in Nat
      BY EntryType
    <2>2. base[hist[l][i].run] \in Nat
      BY <2>1 DEF HistoryOwned
    <2>3. base'[hist[l][i].run] = base[hist[l][i].run]
      <3>1. CASE UNCHANGED base
        BY <3>1
      <3>2. CASE pc[r] = "planning"
        <4>1. base[r] = None
          BY <3>2 DEF NoPlanYet, Early
        <4> QED
          BY <1>7, <2>1, <2>2, <4>1, ConstantsAssumption
      <3> QED
        BY <3>1, <3>2 DEF Ends
    <2> QED
      BY <2>3 DEF HistoryOwned
  <1>13. HistoryCounted' /\ HistoryLinear'
    BY <1>2 DEF HistoryCounted, HistoryLinear
  <1> QED
    BY <1>5, <1>9, <1>10, <1>11, <1>12, <1>13

LEMMA WritesInv ==
    ASSUME Inv, NEW r \in Runs, Writes(r)
    PROVE  Inv'
  <1> USE DEF Inv
  <1> DEFINE l == Loc(r)
  <1>1. PICK s \in Steps \cup {"done"}, st \in JobStatus :
          GoTo(r, s, st) /\ s \notin Early
    BY DEF Writes
  <1>2. PICK c \in Recorded : Write(r, c)
    BY DEF Writes
  <1>3. /\ pc[r] = "applying"
        /\ lock' = [lock EXCEPT ![l] = None] \/ UNCHANGED lock
        /\ UNCHANGED <<in, tree, planOut, base, uploaded, forced, unsaved>>
    BY DEF Writes, TryRelease, Release, job
  <1> DEFINE e == [run |-> r, base |-> base[r], cfg |-> c]
  <1>4. /\ l \in States
        /\ base[r] = store[l].serial /\ base[r] \in Nat
        /\ lock[l] = r
    BY <1>3, LocType DEF ApplyIsCurrent, TypeOK, LockedWork, Locked
  <1>5. /\ store' = [store EXCEPT ![l] = [serial |-> base[r] + 1, cfg |-> c]]
        /\ infra' = [infra EXCEPT ![l] = c]
        /\ hist' = [hist EXCEPT ![l] = Append(hist[l], e)]
    BY <1>2, <1>4 DEF Write
  <1> HIDE DEF l
  <1>6. e \in [run : Runs, base : Nat, cfg : Recorded]
    BY <1>4
  <1>7. hist[l] \in Seq([run : Runs, base : Nat, cfg : Recorded])
    BY <1>4 DEF TypeOK
  <1> HIDE DEF e
  <1>8. /\ Append(hist[l], e) \in Seq([run : Runs, base : Nat, cfg : Recorded])
        /\ Len(Append(hist[l], e)) = Len(hist[l]) + 1
        /\ \A i \in DOMAIN Append(hist[l], e) :
             \/ i \in DOMAIN hist[l] /\ Append(hist[l], e)[i] = hist[l][i]
             \/ i = Len(hist[l]) + 1 /\ Append(hist[l], e)[i] = e
    BY <1>6, <1>7
  <1>9. TypeOK'
    <2>1. hist' \in [States -> Seq([run : Runs, base : Nat, cfg : Recorded])]
      BY <1>5, <1>8 DEF TypeOK
    <2>2. store' \in [States -> [serial : Nat, cfg : Recorded]]
      <3>1. [serial |-> base[r] + 1, cfg |-> c] \in [serial : Nat, cfg : Recorded]
        BY <1>4
      <3> QED
        BY <1>5, <3>1 DEF TypeOK
    <2>3. infra' \in [States -> Recorded]
      BY <1>5 DEF TypeOK
    <2>4. lock' \in [States -> Runs \cup {None}]
      BY <1>3 DEF TypeOK
    <2>5. pc' \in [Runs -> Steps \cup Locked \cup {"done"}] /\ status' \in [Runs -> JobStatus]
      BY <1>1 DEF TypeOK, GoTo
    <2> QED
      BY <1>3, <2>1, <2>2, <2>3, <2>4, <2>5 DEF TypeOK
  <1>10. \A q \in Runs : pc'[q] \in Locked => q # r /\ pc'[q] = pc[q] /\ Loc(q) # l
    BY <1>1, <1>4 DEF GoTo, TypeOK, Steps, Locked, LockedWork
  <1>11. \A q \in Runs : Loc(q)' = Loc(q)
    BY <1>3 DEF Loc
  <1>12. LockedWork'
    BY ZenonT(40), <1>3, <1>10, <1>11, LocType DEF LockedWork, TypeOK
  <1>13. NoPlanYet'
    BY <1>1, <1>3 DEF NoPlanYet, GoTo, TypeOK
  <1>14. ApplyIsCurrent'
    <2> SUFFICES ASSUME NEW q \in Runs, pc'[q] = "applying"
                 PROVE  base'[q] = store'[Loc(q)'].serial
      BY DEF ApplyIsCurrent
    <2>1. pc[q] = "applying" /\ Loc(q) # l /\ Loc(q) \in States
      BY <1>10, LocType DEF Locked
    <2>2. store'[Loc(q)] = store[Loc(q)]
      BY <1>5, <2>1 DEF TypeOK
    <2> QED
      BY <1>3, <1>11, <2>1, <2>2 DEF ApplyIsCurrent
  <1>15. \A m \in States : m # l => hist'[m] = hist[m] /\ store'[m] = store[m]
    BY <1>5 DEF TypeOK
  <1>16. hist'[l] = Append(hist[l], e) /\ store'[l].serial = base[r] + 1
    BY <1>4, <1>5 DEF TypeOK
  <1>17. e.run = r /\ e.base = base[r]
    BY DEF e
  <1>18. Len(hist[l]) = base[r]
    BY <1>4 DEF HistoryCounted
  <1>19. HistoryOwned'
    <2> SUFFICES ASSUME NEW m \in States, NEW i \in DOMAIN hist'[m]
                 PROVE  base'[hist'[m][i].run] = hist'[m][i].base
      BY DEF HistoryOwned
    <2>1. CASE m # l
      BY <1>3, <1>15, <2>1 DEF HistoryOwned
    <2>2. CASE m = l
      <3>1. hist'[m] = Append(hist[l], e)
        BY <1>16, <2>2
      <3>2. CASE i \in DOMAIN hist[l] /\ Append(hist[l], e)[i] = hist[l][i]
        BY <1>3, <1>4, <3>1, <3>2 DEF HistoryOwned
      <3>3. CASE i = Len(hist[l]) + 1 /\ Append(hist[l], e)[i] = e
        BY <1>3, <1>17, <3>1, <3>3
      <3> QED
        BY <1>8, <3>1, <3>2, <3>3
    <2> QED
      BY <2>1, <2>2
  <1>20. HistoryCounted'
    BY <1>8, <1>15, <1>16, <1>18 DEF HistoryCounted
  <1>21. HistoryLinear'
    <2> SUFFICES ASSUME NEW m \in States, NEW i \in DOMAIN hist'[m]
                 PROVE  hist'[m][i].base = i - 1
      BY DEF HistoryLinear
    <2>1. CASE m # l
      BY <1>15, <2>1 DEF HistoryLinear
    <2>2. CASE m = l
      <3>1. hist'[m] = Append(hist[l], e)
        BY <1>16, <2>2
      <3>2. CASE i \in DOMAIN hist[l] /\ Append(hist[l], e)[i] = hist[l][i]
        BY <1>4, <3>1, <3>2 DEF HistoryLinear
      <3>3. CASE i = Len(hist[l]) + 1 /\ Append(hist[l], e)[i] = e
        BY <1>4, <1>17, <1>18, <3>1, <3>3
      <3> QED
        BY <1>8, <3>1, <3>2, <3>3
    <2> QED
      BY <2>1, <2>2
  <1> QED
    BY <1>9, <1>12, <1>13, <1>14, <1>19, <1>20, <1>21

LEMMA ForceUnlockInv ==
    ASSUME Inv, NEW l \in States, ForceUnlock(l)
    PROVE  Inv'
  <1> USE DEF Inv
  <1>1. /\ lock[l] # None /\ pc[lock[l]] \notin Locked
        /\ lock' = [lock EXCEPT ![l] = None]
        /\ forced' = [forced EXCEPT ![l] = TRUE]
        /\ UNCHANGED <<in, pc, status, tree, planOut, base, uploaded, store, infra, unsaved, hist>>
    BY DEF ForceUnlock, Release, job
  <1>2. TypeOK'
    BY <1>1 DEF TypeOK
  <1>3. LockedWork'
    BY <1>1, LocType DEF LockedWork, TypeOK, Loc
  <1>4. NoPlanYet' /\ ApplyIsCurrent'
    BY <1>1 DEF NoPlanYet, ApplyIsCurrent, Loc
  <1>5. HistoryOwned' /\ HistoryCounted' /\ HistoryLinear'
    BY <1>1 DEF HistoryOwned, HistoryCounted, HistoryLinear
  <1> QED
    BY <1>2, <1>3, <1>4, <1>5

-----------------------------------------------------------------------------
(* Every step of the system is one of the kinds above.                     *)

StepKind ==
    \/ \E r \in Runs : Quiet(r)
    \/ \E r \in Runs : BeginPlan(r) \/ BeginApply(r)
    \/ \E r \in Runs : Ends(r)
    \/ \E r \in Runs : Writes(r)
    \/ \E l \in States : ForceUnlock(l)
    \/ UNCHANGED vars

LEMMA CancelQuiet ==
    ASSUME TypeOK, NEW r \in Runs, CancelGracefully(r), pc[r] \notin Locked
    PROVE  Quiet(r)
  <1>1. pc[r] \in Steps
    BY DEF CancelGracefully, TypeOK
  <1>2. /\ After[pc[r]] \in Steps \cup {"done"}
        /\ After[pc[r]] \in Early => pc[r] \in Early
    BY <1>1, AfterType
  <1>3. "cancelled" \in JobStatus
    BY DEF JobStatus
  <1>4. UNCHANGED <<job, shared>>
    BY DEF CancelGracefully, Locked, shared
  <1> QED
    BY <1>1, <1>2, <1>3, <1>4 DEF CancelGracefully, Quiet, TypeOK, job

LEMMA NextKind == ASSUME TypeOK, [Next]_vars PROVE StepKind
  <1>1. ASSUME NEW r \in Runs, RunStep(r) PROVE StepKind
    <2>1. CASE BeginPlan(r) \/ BeginApply(r)
      BY <2>1 DEF StepKind
    <2>2. CASE PlanSucceeds(r) \/ PlanFails(r) \/ ApplySucceeds(r) \/ ApplyFails(r)
      BY <2>2, EndSteps DEF StepKind
    <2>3. CASE \/ Skip(r)
               \/ ValidateMode(r) \/ CheckoutFramework(r) \/ ValidateRef(r)
               \/ CheckoutConsumer(r) \/ ApplyOverlay(r) \/ SetupTerraform(r)
               \/ PrepareBackend(r) \/ ConfigureCredentials(r) \/ TerraformInit(r)
               \/ RejectTfvars(r) \/ PlanLockTimeout(r) \/ UploadPlan(r)
               \/ ApplyLockBusy(r) \/ ApplyStale(r)
               \/ VerifyState(r) \/ UploadState(r)
      <3>1. Quiet(r)
        BY <2>3, QuietSteps
      <3> QED
        BY <3>1 DEF StepKind
    <2> QED
      BY <1>1, <2>1, <2>2, <2>3 DEF RunStep
  <1>2. ASSUME NEW r \in Runs, Disturb(r) PROVE StepKind
    <2>1. CASE LoseRunner(r)
      <3>1. Quiet(r)
        BY <2>1, QuietSteps
      <3> QED
        BY <3>1 DEF StepKind
    <2>2. CASE Kill(r)
      BY <2>2, EndSteps DEF StepKind
    <2>3. CASE CancelGracefully(r)
      <3>1. CASE pc[r] \in Locked
        BY <2>3, <3>1, EndSteps DEF StepKind
      <3>2. CASE pc[r] \notin Locked
        BY <2>3, <3>2, CancelQuiet DEF StepKind
      <3> QED
        BY <3>1, <3>2
    <2> QED
      BY <1>2, <2>1, <2>2, <2>3 DEF Disturb
  <1>3. CASE \E l \in States : ForceUnlock(l)
    BY <1>3 DEF StepKind
  <1>4. CASE UNCHANGED vars
    BY <1>4 DEF StepKind
  <1> QED
    BY <1>1, <1>2, <1>3, <1>4 DEF Next, Finished

LEMMA StutterInv == ASSUME Inv, UNCHANGED vars PROVE Inv'
  BY DEF Inv, vars, TypeOK, LockedWork, NoPlanYet, ApplyIsCurrent, HistoryOwned,
         HistoryCounted, HistoryLinear, Loc

LEMMA StepInv == Inv /\ [Next]_vars => Inv'
  <1> SUFFICES ASSUME Inv, [Next]_vars PROVE Inv'
    OBVIOUS
  <1>1. StepKind
    BY NextKind DEF Inv
  <1> QED
    BY <1>1, QuietInv, BeginInv, EndsInv, WritesInv, ForceUnlockInv, StutterInv
       DEF StepKind

-----------------------------------------------------------------------------
(* The theorems.                                                           *)

\* The inductive invariant holds in every state of every deploy history.
THEOREM Invariance == Spec => []Inv
  BY InitInv, StepInv, PTL DEF Spec

\* Every variable keeps its type.
THEOREM TypeCorrect == Spec => []TypeOK
  <1>1. Inv => TypeOK
    BY DEF Inv
  <1> QED
    BY <1>1, Invariance, PTL

\* Terraform runs only under the lock of its state: BeginPlan and BeginApply
\* wait for a free lock, and nobody removes the lock of a live run.
THEOREM LockedWorkHolds == Spec => []LockedWork
  <1>1. Inv => LockedWork
    BY DEF Inv
  <1> QED
    BY <1>1, Invariance, PTL

\* No version of a state is lost or built on a version other than the one just
\* before it, and no run writes two versions.
THEOREM LinearHistoryHolds == Spec => []LinearHistory
  <1>1. Inv => LinearHistory
    <2> SUFFICES ASSUME Inv, NEW l \in States
                 PROVE  Log(l)!Linear /\ Log(l)!AppliedOnce
      BY DEF LinearHistory
    <2>1. Log(l)!Linear
      BY DEF Inv, HistoryLinear, Log!Linear
    <2>2. ASSUME NEW i \in DOMAIN hist[l], NEW j \in DOMAIN hist[l],
                 hist[l][i].run = hist[l][j].run
          PROVE  i = j
      <3>1. hist[l][i].base = hist[l][j].base
        BY <2>2 DEF Inv, HistoryOwned
      <3>2. i - 1 = j - 1
        BY <3>1 DEF Inv, HistoryLinear
      <3>3. i \in Nat /\ j \in Nat
        BY EntryType DEF Inv
      <3> QED
        BY <3>2, <3>3
    <2> QED
      BY <2>1, <2>2 DEF Log!AppliedOnce
  <1> QED
    BY <1>1, Invariance, PTL

\* The difference between a state and its resources is kept behind the lock of
\* the run that was killed while making it, or known from a run that could not save.
DifferenceIsLocked ==
    \A l \in States : infra[l] # store[l].cfg =>
        \/ forced[l] \/ unsaved[l] # {}
        \/ lock[l] # None /\ pc[lock[l]] \notin Locked

\* A run that could not save its state is not a green one.
UnsavedIsRed == \A l \in States : \A r \in unsaved[l] : status[r] # "success"

\* A job that has failed or was cancelled stays so.
LEMMA RedStays ==
    ASSUME TypeOK, [Next]_vars, NEW q \in Runs, status[q] # "success"
    PROVE  status'[q] # "success"
  <1>1. ASSUME NEW r \in Runs,
               \/ Pass(r) \/ Fail(r)
               \/ \E s : GoTo(r, s, status[r]) \/ GoTo(r, s, "cancelled")
        PROVE  status'[q] # "success"
    BY <1>1 DEF Pass, Fail, GoTo, TypeOK
  <1>2. ASSUME NEW r \in Runs, RunStep(r) PROVE status'[q] # "success"
    <2>1. Pass(r) \/ Fail(r) \/ \E s : GoTo(r, s, status[r])
      BY <1>2 DEF RunStep, Skip, ValidateMode, CheckoutFramework, ValidateRef, CheckoutConsumer,
           ApplyOverlay, SetupTerraform, PrepareBackend, ConfigureCredentials,
           TerraformInit, RejectTfvars, BeginPlan, PlanLockTimeout, PlanSucceeds, PlanFails,
           UploadPlan, ApplyLockBusy, ApplyStale, BeginApply, ApplySucceeds, ApplyFails,
           VerifyState, UploadState
    <2> QED
      BY <1>1, <2>1
  <1>3. ASSUME NEW r \in Runs, Disturb(r) PROVE status'[q] # "success"
    BY <1>1, <1>3 DEF Disturb, CancelGracefully, Kill, LoseRunner
  <1>4. CASE UNCHANGED vars \/ \E l \in States : ForceUnlock(l)
    BY <1>4 DEF vars, ForceUnlock
  <1> QED
    BY <1>2, <1>3, <1>4 DEF Next, Finished

LEMMA UnsavedStep ==
    ASSUME Inv, UnsavedIsRed, [Next]_vars
    PROVE  UnsavedIsRed'
  <1>1. TypeOK /\ StepKind
    BY NextKind DEF Inv
  <1>2. ASSUME NEW l \in States, NEW q \in unsaved'[l]
        PROVE  q \in unsaved[l] \/ (q \in Runs /\ status'[q] # "success")
    <2>1. \/ UNCHANGED unsaved
          \/ \E r \in Runs : /\ unsaved' = [unsaved EXCEPT ![Loc(r)] = @ \cup {r}]
                             /\ status'[r] # "success"
      BY <1>1 DEF StepKind, Quiet, BeginPlan, BeginApply, Ends, Writes, ForceUnlock, vars, shared
    <2>2. ASSUME NEW r \in Runs, status'[r] # "success",
                 unsaved' = [unsaved EXCEPT ![Loc(r)] = @ \cup {r}]
          PROVE  q \in unsaved[l] \/ q = r
      BY <1>1, <1>2, <2>2 DEF TypeOK
    <2> QED
      BY <1>2, <2>1, <2>2
  <1>3. \A l \in States : unsaved[l] \subseteq Runs
    BY <1>1 DEF TypeOK
  <1> QED
    BY <1>1, <1>2, <1>3, RedStays DEF UnsavedIsRed

\* A run locks no state but its own.
LocksOwn == \A l \in States : lock[l] # None => lock[l] \in Runs /\ Loc(lock[l]) = l

LEMMA LocksOwnStep ==
    ASSUME Inv, LocksOwn, [Next]_vars
    PROVE  LocksOwn'
  <1>1. TypeOK /\ StepKind
    BY NextKind DEF Inv
  <1>2. UNCHANGED in
    BY <1>1 DEF StepKind, Quiet, BeginPlan, BeginApply, Ends, Writes, ForceUnlock, job, vars
  <1>3. \/ UNCHANGED lock
        \/ \E l \in States : lock' = [lock EXCEPT ![l] = None]
        \/ \E r \in Runs : lock' = [lock EXCEPT ![Loc(r)] = r]
    BY <1>1, LocType
       DEF StepKind, Quiet, BeginPlan, BeginApply, Ends, Writes, ForceUnlock, TryRelease, Release, vars,
           shared
  <1> QED
    BY ZenonT(40), <1>1, <1>2, <1>3 DEF LocksOwn, TypeOK, Loc

LEMMA DifferenceStep ==
    ASSUME Inv, LocksOwn, DifferenceIsLocked, [Next]_vars
    PROVE  DifferenceIsLocked'
  <1>1. TypeOK /\ StepKind
    BY NextKind DEF Inv
  <1> SUFFICES ASSUME NEW l \in States, infra'[l] # store'[l].cfg
               PROVE  forced'[l] \/ unsaved'[l] # {} \/ (lock'[l] # None /\ pc'[lock'[l]] \notin Locked)
    BY DEF DifferenceIsLocked
  <1> DEFINE Kept == forced'[l] \/ unsaved'[l] # {} \/ (lock'[l] # None /\ pc'[lock'[l]] \notin Locked)
  <1>2. lock[l] # None => lock[l] \in Runs /\ Loc(lock[l]) = l
    BY DEF LocksOwn
  <1>3. infra[l] # store[l].cfg =>
          forced[l] \/ unsaved[l] # {} \/ (lock[l] # None /\ pc[lock[l]] \notin Locked)
    BY DEF DifferenceIsLocked
  <1>4. ASSUME NEW r \in Runs, Quiet(r) PROVE Kept
    <2>1. UNCHANGED <<lock, store, infra, forced, unsaved>>
      BY <1>4 DEF Quiet, shared
    <2>2. \A q \in Runs : pc'[q] \in Locked => pc'[q] = pc[q]
      BY <1>1, <1>4 DEF Quiet, GoTo, TypeOK, Steps, Locked
    <2> QED
      BY <1>2, <1>3, <2>1, <2>2
  <1>5. ASSUME NEW r \in Runs, BeginPlan(r) \/ BeginApply(r) PROVE Kept
    <2>1. /\ UNCHANGED <<store, infra, forced, unsaved>>
          /\ lock[Loc(r)] = None /\ lock' = [lock EXCEPT ![Loc(r)] = r]
          /\ \A q \in Runs : q # r => pc'[q] = pc[q]
      BY <1>1, <1>5 DEF BeginPlan, BeginApply, GoTo, TypeOK
    <2>2. CASE forced[l] \/ unsaved[l] # {}
      BY <2>1, <2>2
    <2>3. CASE ~(forced[l] \/ unsaved[l] # {})
      <3>1. lock[l] # None /\ pc[lock[l]] \notin Locked
        BY <1>3, <2>1, <2>3
      <3>2. l # Loc(r) /\ lock[l] # r
        BY <1>2, <2>1, <3>1
      <3>3. lock'[l] = lock[l]
        BY <1>1, <2>1, <3>2 DEF TypeOK
      <3> QED
        BY <1>2, <2>1, <3>1, <3>2, <3>3
    <2> QED
      BY <2>2, <2>3
  <1>6. ASSUME NEW r \in Runs, Writes(r) PROVE Kept
    <2>1. PICK c \in Recorded : Write(r, c)
      BY <1>6 DEF Writes
    <2>2. Loc(r) \in States
      BY <1>1, LocType
    <2>3. CASE l = Loc(r)
      BY <1>1, <2>1, <2>3 DEF Write, TypeOK
    <2>4. CASE l # Loc(r)
      <3>1. /\ UNCHANGED <<forced, unsaved>>
            /\ lock'[l] = lock[l] /\ infra'[l] = infra[l] /\ store'[l] = store[l]
        BY <1>1, <1>6, <2>1, <2>4 DEF Writes, Write, TryRelease, Release, TypeOK
      <3>2. lock[l] # None => pc'[lock[l]] = pc[lock[l]]
        BY <1>1, <1>2, <1>6, <2>4 DEF Writes, GoTo, TypeOK
      <3> QED
        BY <1>3, <3>1, <3>2
    <2> QED
      BY <2>3, <2>4
  <1>7. ASSUME NEW r \in Runs, Ends(r) PROVE Kept
    <2>1. Loc(r) \in States /\ lock[Loc(r)] = r
      BY <1>1, <1>7, LocType DEF Ends, Inv, LockedWork
    <2>2. UNCHANGED <<store, forced>> /\ pc'[r] \notin Locked /\ r # None
      BY <1>1, <1>7, ConstantsAssumption DEF Ends, GoTo, TypeOK, Steps, Locked
    <2>3. CASE l = Loc(r)
      <3>1. CASE unsaved' = [unsaved EXCEPT ![Loc(r)] = @ \cup {r}]
        BY <1>1, <2>1, <2>3, <3>1 DEF TypeOK
      <3>2. CASE UNCHANGED unsaved /\ UNCHANGED lock
        BY <2>1, <2>2, <2>3, <3>2
      <3>3. CASE UNCHANGED unsaved /\ UNCHANGED infra
        BY <1>3, <1>7, <2>1, <2>2, <2>3, <3>3 DEF Ends
      <3> QED
        BY <1>7, <3>1, <3>2, <3>3 DEF Ends
    <2>4. CASE l # Loc(r)
      <3>1. lock'[l] = lock[l] /\ infra'[l] = infra[l] /\ unsaved'[l] = unsaved[l]
        BY <1>1, <1>7, <2>1, <2>4 DEF Ends, TryRelease, Release, TypeOK
      <3>2. lock[l] # None => pc'[lock[l]] = pc[lock[l]]
        BY <1>1, <1>2, <1>7, <2>4 DEF Ends, GoTo, TypeOK
      <3> QED
        BY <1>3, <2>2, <3>1, <3>2
    <2> QED
      BY <2>3, <2>4
  <1>8. ASSUME NEW m \in States, ForceUnlock(m) PROVE Kept
    <2>1. CASE l = m
      BY <1>1, <1>8, <2>1 DEF ForceUnlock, TypeOK
    <2>2. CASE l # m
      BY <1>1, <1>3, <1>8, <2>2 DEF ForceUnlock, Release, TypeOK
    <2> QED
      BY <2>1, <2>2
  <1>9. CASE UNCHANGED vars
    BY <1>3, <1>9 DEF vars
  <1> QED
    BY <1>1, <1>4, <1>5, <1>6, <1>7, <1>8, <1>9 DEF StepKind

\* A state and the resources it describes differ only behind a lock, until an
\* operator forces it, or after a red run that could not save the state.
THEOREM StateDescribesInfraHolds == Spec => []StateDescribesInfra
  <1> DEFINE I == LocksOwn /\ DifferenceIsLocked /\ UnsavedIsRed
  <1>1. Init => Inv /\ I
    <2> SUFFICES ASSUME Init PROVE Inv /\ I
      OBVIOUS
    <2>1. \A l \in States : lock[l] = None /\ infra[l] = store[l].cfg /\ unsaved[l] = {}
      BY DEF Init
    <2> QED
      BY InitInv, <2>1 DEF LocksOwn, DifferenceIsLocked, UnsavedIsRed
  <1>2. Inv /\ I /\ [Next]_vars => Inv' /\ I'
    BY StepInv, LocksOwnStep, DifferenceStep, UnsavedStep
  <1>3. Inv /\ I => StateDescribesInfra
    BY DEF DifferenceIsLocked, UnsavedIsRed, StateDescribesInfra
  <1> QED
    BY <1>1, <1>2, <1>3, PTL DEF Spec

-----------------------------------------------------------------------------
(* Refinement: each state, with the runs that work on it, is a StateLog.   *)

Snap(l) == [r \in Runs |-> IF Loc(r) = l THEN base[r] ELSE None]

LEMMA LogInit == ASSUME Init, NEW l \in States PROVE Log(l)!Init
  BY DEF Init, Log!Init

LEMMA LogStep ==
    ASSUME Inv, [Next]_vars, NEW l \in States
    PROVE  [Log(l)!Next]_(Log(l)!vars)
  <1>1. TypeOK /\ StepKind
    BY NextKind DEF Inv
  <1>2. ASSUME UNCHANGED <<in, base, hist>>
        PROVE  UNCHANGED Log(l)!vars
    BY <1>2 DEF Log!vars, Loc
  <1>3. ASSUME NEW r \in Runs, Ends(r) PROVE [Log(l)!Next]_(Log(l)!vars)
    <2>1. UNCHANGED <<in, hist>>
      BY <1>3 DEF Ends
    <2>2. CASE UNCHANGED base
      BY <1>2, <2>1, <2>2
    <2>3. CASE pc[r] = "planning" /\ base' = [base EXCEPT ![r] = store[Loc(r)].serial]
      <3>1. base[r] = None
        BY <2>3 DEF Inv, NoPlanYet, Early
      <3>2. \A q \in Runs : Loc(q)' = Loc(q)
        BY <2>1 DEF Loc
      <3>3. CASE Loc(r) = l
        <4>1. base' = [base EXCEPT ![r] = Len(hist[l])]
          BY <2>3, <3>3 DEF Inv, HistoryCounted
        <4>2. Snap(l)' = [Snap(l) EXCEPT ![r] = Len(hist[l])]
          BY <1>1, <3>2, <3>3, <4>1 DEF Snap, TypeOK
        <4>3. Snap(l)[r] = None
          BY <3>1, <3>3 DEF Snap
        <4>4. Log(l)!Snapshot(r)
          BY <2>1, <4>2, <4>3 DEF Log!Snapshot, Snap
        <4> QED
          BY <4>4 DEF Log!Next
      <3>4. CASE Loc(r) # l
        <4>1. Snap(l)' = Snap(l)
          BY <1>1, <2>3, <3>2, <3>4 DEF Snap, TypeOK
        <4> QED
          BY <2>1, <4>1 DEF Log!vars, Snap
      <3> QED
        BY <3>3, <3>4
    <2> QED
      BY <1>3, <2>2, <2>3 DEF Ends
  <1>4. ASSUME NEW r \in Runs, Writes(r) PROVE [Log(l)!Next]_(Log(l)!vars)
    <2>1. UNCHANGED <<in, base>>
      BY <1>4 DEF Writes, job
    <2>2. PICK c \in Recorded : Write(r, c)
      BY <1>4 DEF Writes
    <2>3. Snap(l)' = Snap(l)
      BY <2>1 DEF Snap, Loc
    <2>4. CASE Loc(r) = l
      <3>1. hist'[l] = Append(hist[l], [run |-> r, base |-> base[r], cfg |-> c])
        BY <1>1, <2>2, <2>4 DEF Write, TypeOK
      <3>2. Snap(l)[r] = base[r] /\ base[r] = Len(hist[l])
        BY <1>4, <2>4 DEF Snap, Writes, Inv, ApplyIsCurrent, HistoryCounted
      <3>3. Log(l)!Commit(r)
        BY <2>3, <3>1, <3>2 DEF Log!Commit, Snap
      <3> QED
        BY <3>3 DEF Log!Next
    <2>5. CASE Loc(r) # l
      <3>1. hist'[l] = hist[l]
        BY <1>1, <2>2, <2>5 DEF Write, TypeOK
      <3> QED
        BY <2>3, <3>1 DEF Log!vars, Snap
    <2> QED
      BY <2>4, <2>5
  <1>5. CASE \E r \in Runs : Quiet(r)
    BY <1>2, <1>5 DEF Quiet, shared
  <1>6. CASE \E r \in Runs : BeginPlan(r) \/ BeginApply(r)
    BY <1>2, <1>6 DEF BeginPlan, BeginApply, job
  <1>7. CASE \E m \in States : ForceUnlock(m)
    BY <1>2, <1>7 DEF ForceUnlock, job
  <1>8. CASE UNCHANGED vars
    BY <1>2, <1>8 DEF vars
  <1> QED
    BY <1>1, <1>3, <1>4, <1>5, <1>6, <1>7, <1>8 DEF StepKind

\* Every Terraform state, with the runs that plan and apply on it, behaves as the
\* abstract log with compare-and-swap commits.
THEOREM DeployImplementsStateLog == Spec => ImplementsStateLog
  <1>1. Init => \A l \in States : Log(l)!Init
    BY LogInit
  <1>2. Inv /\ [Next]_vars => [\A l \in States : [Log(l)!Next]_(Log(l)!vars)]_vars
    BY LogStep
  <1> QED
    BY <1>1, <1>2, Invariance, PTL DEF Spec, ImplementsStateLog
-----------------------------------------------------------------------------
(* The gates: success() carries them from step to step.                    *)

UpToRef == {"mode", "framework", "ref"}
UpToOverlay == UpToRef \cup {"consumer", "overlay"}
UpToBackend == UpToOverlay \cup {"setup", "backend"}

\* As long as a job is successful, every step behind it has done its part.
Gated(r) ==
    /\ pc[r] \in Locked => status[r] = "success"
    /\ status[r] = "success" =>
         /\ pc[r] # "mode" => in[r].mode \in {"local", "s3"}
         /\ pc[r] \notin UpToRef => in[r].ref # "floating"
         /\ pc[r] \notin UpToOverlay /\ in[r].overlay => tree[r] # BaseConfig
         /\ pc[r] \notin UpToBackend /\ in[r].mode = "s3" => in[r].secrets = "ok"
         /\ pc[r] \notin Early \ {"planning"} => in[r].tfvars # "rejected"
         /\ pc[r] \notin Early => planOut[r] \in {"no-changes", "has-changes"} /\ base[r] \in Nat
         /\ pc[r] = "applying" => in[r].apply /\ planOut[r] = "has-changes"

\* Who has written a version is past its plan and has nothing left to change.
WritersLate ==
    \A l \in States : \A i \in DOMAIN hist[l] : pc[hist[l][i].run] \notin Early

\* Every version was written by a run of a known mode that works on that state.
WrittenHere ==
    \A l \in States : \A i \in DOMAIN hist[l] :
        Loc(hist[l][i].run) = l /\ in[hist[l][i].run].mode \in {"local", "s3"}

GatesInv == (\A r \in Runs : Gated(r)) /\ WritersLate /\ WrittenHere /\ GatedWrites

\* Where a step takes its run.
LEMMA Moves ==
    ASSUME TypeOK, NEW r \in Runs, NEW s, NEW st, GoTo(r, s, st)
    PROVE  /\ pc'[r] = s /\ status'[r] = st
           /\ \A q \in Runs \ {r} : pc'[q] = pc[q] /\ status'[q] = status[q]
  BY DEF TypeOK, GoTo

LEMMA AfterOpen ==
    ASSUME NEW s \in Steps \cup Locked
    PROVE  After[s] \notin Locked
  BY DEF Steps, Locked, After

\* A step of one run changes nothing of another, and what is past its plan keeps
\* tree and plan.
LEMMA OwnStep ==
    ASSUME TypeOK, NEW q \in Runs, RunStep(q) \/ Disturb(q), NEW r \in Runs
    PROVE  /\ in' = in
           /\ r # q => /\ pc'[r] = pc[r] /\ status'[r] = status[r] /\ tree'[r] = tree[r]
                       /\ planOut'[r] = planOut[r] /\ base'[r] = base[r]
           /\ pc[r] \notin Early => /\ pc'[r] \notin Early /\ tree'[r] = tree[r]
                                    /\ planOut'[r] = planOut[r] /\ base'[r] = base[r]
  <1>1. pc[q] \in Steps \cup Locked \cup {"done"}
    BY DEF TypeOK
  <1>2. pc[q] \in Steps \cup Locked =>
          /\ pc[q] \notin Early => After[pc[q]] \notin Early
    BY AfterType
  <1>3. CASE Skip(q) \/ ValidateMode(q) \/ CheckoutFramework(q) \/ ValidateRef(q)
             \/ CheckoutConsumer(q) \/ SetupTerraform(q)
             \/ PrepareBackend(q) \/ ConfigureCredentials(q) \/ TerraformInit(q)
             \/ RejectTfvars(q) \/ ApplyLockBusy(q) \/ ApplyStale(q) \/ VerifyState(q)
    <2>1. UNCHANGED job /\ pc[q] \in Steps /\ (Pass(q) \/ Fail(q))
      BY <1>3 DEF Skip, ValidateMode, CheckoutFramework, ValidateRef, CheckoutConsumer,
                  SetupTerraform, PrepareBackend, ConfigureCredentials, TerraformInit,
                  RejectTfvars, ApplyLockBusy, ApplyStale, VerifyState, Due, Steps
    <2> QED
      BY <1>2, <2>1 DEF Pass, Fail, GoTo, job, TypeOK
  <1>4. CASE ApplyOverlay(q) \/ PlanLockTimeout(q) \/ UploadPlan(q) \/ UploadState(q)
    <2>1. pc[q] \in Steps /\ (Pass(q) \/ Fail(q)) /\ UNCHANGED <<in, base>>
      BY <1>4 DEF ApplyOverlay, PlanLockTimeout, UploadPlan, UploadState, Due, Steps
    <2>2. UNCHANGED <<tree, planOut>> \/ pc[q] \in Early
      BY <1>4 DEF ApplyOverlay, PlanLockTimeout, UploadPlan, UploadState, Due, Early
    <2>3. r # q => tree'[r] = tree[r] /\ planOut'[r] = planOut[r]
      BY <1>4 DEF ApplyOverlay, PlanLockTimeout, UploadPlan, UploadState, TypeOK
    <2> QED
      BY <1>2, <2>1, <2>2, <2>3 DEF Pass, Fail, GoTo, TypeOK
  <1>5. CASE BeginPlan(q) \/ BeginApply(q)
    BY <1>5 DEF BeginPlan, BeginApply, Due, GoTo, job, Early, TypeOK
  <1>6. CASE PlanSucceeds(q) \/ PlanFails(q)
    BY <1>6 DEF PlanSucceeds, PlanFails, Pass, Fail, GoTo, Early, TypeOK
  <1>7. CASE ApplySucceeds(q) \/ ApplyFails(q)
    <2>1. After["applying"] \notin Early /\ "applying" \in Steps \cup Locked
      BY DEF After, Early, Locked
    <2>2. pc[q] = "applying" /\ UNCHANGED job /\ (Pass(q) \/ Fail(q))
      BY <1>7 DEF ApplySucceeds, ApplyFails
    <2>3. PICK st \in {status[q], "cancelled", "failure"} : GoTo(q, After["applying"], st)
      BY <2>2 DEF Pass, Fail
    <2> QED
      BY <2>1, <2>2, <2>3, Moves DEF job
  <1>8. CASE Disturb(q)
    <2>1. UNCHANGED job /\ (pc[q] \in Steps \cup Locked)
          /\ (GoTo(q, After[pc[q]], "cancelled") \/ GoTo(q, "done", "cancelled"))
      BY <1>1, <1>8 DEF Disturb, CancelGracefully, Kill, LoseRunner
    <2>2. "done" \notin Early
      BY DEF Early
    <2> QED
      BY <1>2, <2>1, <2>2 DEF GoTo, job, TypeOK
  <1> QED
    BY <1>3, <1>4, <1>5, <1>6, <1>7, <1>8 DEF RunStep

\* A run that goes on is behind no gate it has not passed.
LEMMA GatedStep ==
    ASSUME TypeOK, NEW r \in Runs, Gated(r), RunStep(r) \/ Disturb(r)
    PROVE  Gated(r)'
  <1> DEFINE Sets == <<UpToRef, UpToOverlay, UpToBackend>>
  <1>1. in' = in
    BY OwnStep
  <1>2. ASSUME status'[r] # "success", pc'[r] \notin Locked PROVE Gated(r)'
    BY <1>2 DEF Gated
  <1>3. ASSUME pc[r] \in Steps \cup Locked, NEW st \in JobStatus, st # "success",
               GoTo(r, After[pc[r]], st) \/ GoTo(r, "done", st)
        PROVE  Gated(r)'
    <2>1. pc'[r] \notin Locked /\ status'[r] # "success"
      BY <1>3, AfterOpen, Moves DEF Locked
    <2> QED
      BY <1>2, <2>1
  <1>4. ASSUME pc[r] \in Steps \cup Locked, Fail(r) PROVE Gated(r)'
    BY <1>3, <1>4 DEF Fail, JobStatus
  <1>5. CASE Disturb(r)
    <2>1. pc[r] \in Steps \cup Locked
      BY <1>5 DEF Disturb, CancelGracefully, Kill, LoseRunner, TypeOK
    <2>2. GoTo(r, After[pc[r]], "cancelled") \/ GoTo(r, "done", "cancelled")
      BY <1>5 DEF Disturb, CancelGracefully, Kill, LoseRunner
    <2> QED
      BY <1>3, <2>1, <2>2 DEF JobStatus
  <1>6. ASSUME pc[r] \in Steps, Pass(r), UNCHANGED <<tree, planOut, base>>,
               status[r] = "success" =>
                  /\ pc[r] = "mode" => in[r].mode \in {"local", "s3"}
                  /\ pc[r] = "ref" => in[r].ref # "floating"
                  /\ pc[r] = "overlay" => ~in[r].overlay
                  /\ pc[r] = "backend" => in[r].mode # "s3" \/ in[r].secrets = "ok"
                  /\ pc[r] # "plan"
        PROVE  Gated(r)'
    <2>1. pc'[r] = After[pc[r]] /\ status'[r] = status[r] /\ pc'[r] \notin Locked
      BY <1>6, AfterOpen, Moves DEF Pass
    <2>2. /\ After[pc[r]] \notin UpToRef => pc[r] \notin UpToRef \ {"ref"}
          /\ After[pc[r]] \notin UpToOverlay => pc[r] \notin UpToOverlay \ {"overlay"}
          /\ After[pc[r]] \notin UpToBackend => pc[r] \notin UpToBackend \ {"backend"}
          /\ After[pc[r]] \notin Early => pc[r] \notin Early \ {"plan"}
          /\ After[pc[r]] \notin Early \ {"planning"} => pc[r] \notin Early \ {"plan"}
          /\ After[pc[r]] # "applying"
      BY <1>6 DEF Steps, After, UpToRef, UpToOverlay, UpToBackend, Early
    <2> QED
      BY <1>1, <1>6, <2>1, <2>2 DEF Gated
  <1>7. CASE Skip(r)
    <2>1. status[r] = "success" => ~If(r, pc[r])
      BY <1>7 DEF Skip, Due
    <2> QED
      BY <1>6, <1>7, <2>1 DEF Skip, If, job
  <1>8. CASE \/ ValidateMode(r) \/ CheckoutFramework(r) \/ ValidateRef(r)
             \/ CheckoutConsumer(r) \/ SetupTerraform(r) \/ PrepareBackend(r)
             \/ ConfigureCredentials(r) \/ TerraformInit(r) \/ VerifyState(r)
    <2>1. pc[r] \in Steps \ {"plan", "overlay"} /\ UNCHANGED <<tree, planOut, base>>
      BY <1>8 DEF ValidateMode, CheckoutFramework, ValidateRef, CheckoutConsumer,
                  SetupTerraform, PrepareBackend, ConfigureCredentials, TerraformInit,
                  VerifyState, Due, Steps, job
    <2>2. Fail(r) \/ (Pass(r) /\ (pc[r] = "mode" => in[r].mode \in {"local", "s3"})
                              /\ (pc[r] = "ref" => in[r].ref # "floating")
                              /\ (pc[r] = "backend" => in[r].secrets = "ok"))
      BY <1>8 DEF ValidateMode, CheckoutFramework, ValidateRef, CheckoutConsumer,
                  SetupTerraform, PrepareBackend, ConfigureCredentials, TerraformInit,
                  VerifyState, Due
    <2> QED
      BY <1>4, <1>6, <2>1, <2>2
  <1>9. CASE \/ RejectTfvars(r) \/ PlanLockTimeout(r) \/ PlanFails(r)
             \/ ApplyLockBusy(r) \/ ApplyStale(r) \/ ApplyFails(r)
    <2>1. pc[r] \in Steps \cup Locked /\ Fail(r)
      BY <1>9 DEF RejectTfvars, PlanLockTimeout, PlanFails, ApplyLockBusy, ApplyStale,
                  ApplyFails, Due, Steps, Locked
    <2> QED
      BY <1>4, <2>1
  <1>10. CASE ApplyOverlay(r)
    <2>1. pc[r] = "overlay" /\ pc[r] \in Steps
      BY <1>10 DEF ApplyOverlay, Due, Steps
    <2>2. CASE Pass(r) /\ \E c \in Configs : tree' = [tree EXCEPT ![r] = c]
      <3>1. /\ pc'[r] = "setup" /\ status'[r] = status[r] /\ tree'[r] # BaseConfig
            /\ pc[r] \notin UpToRef /\ "setup" \in UpToBackend /\ "setup" \in Early
            /\ "setup" \notin Locked
        <4>1. After["overlay"] = "setup"
          BY DEF After
        <4>2. pc'[r] = "setup" /\ status'[r] = status[r]
          BY <2>1, <2>2, <4>1, Moves DEF Pass
        <4>3. tree'[r] # BaseConfig
          <5>1. PICK c \in Configs : tree' = [tree EXCEPT ![r] = c]
            BY <2>2
          <5>2. tree'[r] = c
            BY <5>1 DEF TypeOK
          <5> QED
            BY <5>2, ConstantsAssumption
        <4> QED
          BY <2>1, <4>2, <4>3 DEF UpToRef, UpToOverlay, UpToBackend, Early, Locked
      <3> QED
        BY <1>1, <2>1, <3>1 DEF Gated, Locked
    <2> QED
      BY <1>4, <1>10, <2>1, <2>2 DEF ApplyOverlay
  <1>11. CASE UploadPlan(r) \/ UploadState(r)
    <2>1. pc[r] \in {"uploadPlan", "uploadState"} /\ UNCHANGED <<tree, planOut, base>>
      BY <1>11 DEF UploadPlan, UploadState, Due
    <2>2. Pass(r) \/ Fail(r)
      BY <1>11 DEF UploadPlan, UploadState
    <2> QED
      BY <1>4, <1>6, <2>1, <2>2 DEF Steps
  <1>12. CASE BeginPlan(r)
    <2>1. /\ pc[r] = "plan" /\ pc'[r] = "planning" /\ status[r] = "success"
          /\ status'[r] = "success" /\ in[r].tfvars # "rejected"
          /\ UNCHANGED <<tree, planOut, base>>
      BY <1>12 DEF BeginPlan, Due, AlwaysSteps, GoTo, TypeOK, job
    <2>2. /\ "plan" \notin UpToBackend /\ "plan" \notin UpToOverlay /\ "plan" \notin UpToRef
          /\ "planning" \in Early
      BY DEF UpToRef, UpToOverlay, UpToBackend, Early
    <2> QED
      BY <1>1, <2>1, <2>2 DEF Gated
  <1>13. CASE PlanSucceeds(r)
    <2>1. /\ pc[r] = "planning" /\ pc'[r] = "uploadPlan" /\ status'[r] = status[r]
          /\ planOut'[r] \in {"no-changes", "has-changes"} /\ base'[r] \in Nat
          /\ UNCHANGED tree
      <3>1. store[Loc(r)].serial \in Nat
        BY LocType DEF TypeOK
      <3>2. After["planning"] = "uploadPlan"
        BY DEF After
      <3>3. pc'[r] = "uploadPlan" /\ status'[r] = status[r]
        BY <1>13, <3>2, Moves DEF PlanSucceeds, Pass
      <3> QED
        BY <1>13, <3>1, <3>3 DEF PlanSucceeds, TypeOK, PlanDiff
    <2>2. /\ "planning" \notin UpToBackend /\ "planning" \notin UpToOverlay
          /\ "planning" \notin UpToRef /\ "uploadPlan" \notin Locked
          /\ "uploadPlan" \notin Early /\ "planning" \in Locked
      BY DEF UpToRef, UpToOverlay, UpToBackend, Early, Locked
    <2> QED
      BY <1>1, <2>1, <2>2 DEF Gated
  <1>14. CASE BeginApply(r)
    <2>1. /\ pc[r] = "apply" /\ pc'[r] = "applying" /\ status[r] = "success"
          /\ status'[r] = "success" /\ in[r].apply /\ planOut[r] = "has-changes"
          /\ UNCHANGED <<tree, planOut, base>>
      BY <1>14 DEF BeginApply, Due, If, AlwaysSteps, GoTo, TypeOK, job
    <2>2. /\ "apply" \notin UpToBackend /\ "apply" \notin UpToOverlay
          /\ "apply" \notin UpToRef /\ "apply" \notin Early
      BY DEF UpToRef, UpToOverlay, UpToBackend, Early
    <2> QED
      BY <1>1, <2>1, <2>2 DEF Gated
  <1>15. CASE ApplySucceeds(r)
    <2>1. /\ pc[r] = "applying" /\ pc'[r] = "verify" /\ status'[r] = status[r]
          /\ UNCHANGED <<tree, planOut, base>>
      <3>1. After["applying"] = "verify"
        BY DEF After
      <3> QED
        BY <1>15, <3>1, Moves DEF ApplySucceeds, Pass, job
    <2>2. /\ "applying" \notin UpToBackend /\ "applying" \notin UpToOverlay
          /\ "applying" \notin UpToRef /\ "applying" \notin Early /\ "verify" \notin Locked
      BY DEF UpToRef, UpToOverlay, UpToBackend, Early, Locked
    <2> QED
      BY <1>1, <2>1, <2>2 DEF Gated
  <1> QED
    BY <1>5, <1>7, <1>8, <1>9, <1>10, <1>11, <1>12, <1>13, <1>14, <1>15 DEF RunStep

\* What a run's step does to the histories: nothing, or one version more.
LEMMA HistStep ==
    ASSUME TypeOK, NEW r \in Runs, RunStep(r) \/ Disturb(r)
    PROVE  \/ UNCHANGED <<hist, store>>
           \/ pc[r] = "applying" /\ \E c \in Recorded : Write(r, c)
  <1>1. tree[r] \in Recorded /\ Partial \in Recorded
    BY DEF TypeOK, Recorded
  <1>2. CASE ApplySucceeds(r)
    BY <1>1, <1>2 DEF ApplySucceeds
  <1>3. CASE ApplyFails(r)
    BY <1>1, <1>3 DEF ApplyFails, BreakOff
  <1>4. CASE CancelGracefully(r)
    BY <1>1, <1>4 DEF CancelGracefully, BreakOff
  <1>5. CASE Kill(r) \/ LoseRunner(r)
    BY <1>5 DEF Kill, LoseRunner, shared
  <1>6. CASE BeginPlan(r) \/ PlanSucceeds(r) \/ PlanFails(r) \/ BeginApply(r)
    BY <1>6 DEF BeginPlan, PlanSucceeds, PlanFails, BeginApply
  <1>7. CASE \/ Skip(r)
             \/ ValidateMode(r) \/ CheckoutFramework(r) \/ ValidateRef(r)
             \/ CheckoutConsumer(r) \/ ApplyOverlay(r) \/ SetupTerraform(r)
             \/ PrepareBackend(r) \/ ConfigureCredentials(r) \/ TerraformInit(r)
             \/ RejectTfvars(r) \/ PlanLockTimeout(r) \/ UploadPlan(r)
             \/ ApplyLockBusy(r) \/ ApplyStale(r)
             \/ VerifyState(r) \/ UploadState(r)
    <2>1. Quiet(r)
      BY <1>7, QuietSteps
    <2> QED
      BY <2>1 DEF Quiet, shared
  <1> QED
    BY <1>2, <1>3, <1>4, <1>5, <1>6, <1>7 DEF RunStep, Disturb

\* A written version is added at the end.
LEMMA WriteAppends ==
    ASSUME TypeOK, NEW r \in Runs, NEW c \in Recorded, Write(r, c), NEW l \in States
    PROVE  /\ l # Loc(r) => hist'[l] = hist[l] /\ store'[l] = store[l]
           /\ l = Loc(r) =>
                /\ Len(hist'[l]) = Len(hist[l]) + 1
                /\ DOMAIN hist'[l] = DOMAIN hist[l] \cup {Len(hist[l]) + 1}
                /\ hist'[l][Len(hist[l]) + 1] = [run |-> r, base |-> base[r], cfg |-> c]
                /\ store'[l] = [serial |-> store[l].serial + 1, cfg |-> c]
           /\ \A i \in DOMAIN hist[l] : hist'[l][i] = hist[l][i]
           /\ Len(hist[l]) \in Nat /\ DOMAIN hist[l] = 1 .. Len(hist[l])
  <1> DEFINE e == [run |-> r, base |-> base[r], cfg |-> c]
             h == hist[l]
             R == [run : Runs, base : Nat, cfg : Recorded]
  <1>1. h \in Seq(R)
    BY DEF TypeOK
  <1>2. /\ l # Loc(r) => hist'[l] = h /\ store'[l] = store[l]
        /\ l = Loc(r) => hist'[l] = Append(h, e)
                         /\ store'[l] = [serial |-> store[l].serial + 1, cfg |-> c]
    BY DEF Write, TypeOK
  <1> HIDE DEF e, h, R
  <1>3. /\ Len(Append(h, e)) = Len(h) + 1
        /\ DOMAIN Append(h, e) = DOMAIN h \cup {Len(h) + 1}
        /\ Append(h, e)[Len(h) + 1] = e
        /\ \A i \in DOMAIN h : Append(h, e)[i] = h[i]
        /\ Len(h) \in Nat /\ DOMAIN h = 1 .. Len(h)
    BY <1>1
  <1> QED
    BY <1>2, <1>3 DEF e, h

\* The new version comes right after the last one.
LEMMA WriteLands ==
    ASSUME TypeOK, NEW r \in Runs, NEW c \in Recorded, Write(r, c), Loc(r) \in States
    PROVE  /\ Len(hist'[Loc(r)]) = Len(hist[Loc(r)]) + 1
           /\ hist'[Loc(r)][Len(hist[Loc(r)]) + 1] =
                [run |-> r, base |-> base[r], cfg |-> c]
  <1> DEFINE e == [run |-> r, base |-> base[r], cfg |-> c]
             h == hist[Loc(r)]
             R == [run : Runs, base : Nat, cfg : Recorded]
  <1>1. h \in Seq(R)
    BY DEF TypeOK
  <1>2. hist'[Loc(r)] = Append(h, e)
    BY DEF Write, TypeOK
  <1> HIDE DEF e, h, R
  <1>3. Len(Append(h, e)) = Len(h) + 1 /\ Append(h, e)[Len(h) + 1] = e
    BY <1>1
  <1> QED
    BY <1>2, <1>3 DEF e, h

\* What a writer has passed, at the end and ever after.
Entitled(r) ==
    /\ in[r].apply
    /\ in[r].mode \in {"local", "s3"}
    /\ in[r].ref # "floating"
    /\ in[r].tfvars # "rejected"
    /\ in[r].mode = "s3" => in[r].secrets = "ok"
    /\ in[r].overlay => tree[r] # BaseConfig
    /\ planOut[r] = "has-changes"

LEMMA GatesStep == ASSUME Inv, GatesInv, [Next]_vars PROVE GatesInv'
  <1>1. TypeOK
    BY DEF Inv
  <1>2. ASSUME NEW q \in Runs, RunStep(q) \/ Disturb(q) PROVE GatesInv'
    <2>1. ASSUME NEW r \in Runs PROVE Gated(r)'
      <3>1. CASE r = q
        BY <1>1, <1>2, <3>1, GatedStep DEF GatesInv
      <3>2. CASE r # q
        BY <1>1, <1>2, <3>2, OwnStep DEF GatesInv, Gated
      <3> QED
        BY <3>1, <3>2
    <2>2. ASSUME NEW r \in Runs, pc[r] \notin Early
          PROVE  /\ pc'[r] \notin Early /\ in'[r] = in[r]
                 /\ tree'[r] = tree[r] /\ planOut'[r] = planOut[r]
      BY <1>1, <1>2, <2>2, OwnStep
    <2>3. ASSUME pc[q] = "applying" PROVE pc[q] \notin Early /\ Entitled(q)
      BY <2>3 DEF GatesInv, Gated, Entitled, Locked, Early, UpToRef, UpToOverlay, UpToBackend
    <2>4. ASSUME NEW l \in States, NEW i \in DOMAIN hist'[l]
          PROVE  \E r \in Runs : /\ r = hist'[l][i].run /\ Loc(r) = l
                                 /\ pc[r] \notin Early /\ Entitled(r)
      <3>1. CASE i \in DOMAIN hist[l] /\ hist'[l][i] = hist[l][i]
        <4>1. hist[l][i].run \in Runs
          BY <1>1, <3>1, EntryType
        <4>2. /\ pc[hist[l][i].run] \notin Early /\ Entitled(hist[l][i].run)
              /\ Loc(hist[l][i].run) = l
          BY <3>1 DEF GatesInv, WritersLate, WrittenHere, GatedWrites, Entitled
        <4> QED
          BY <3>1, <4>1, <4>2
      <3>2. CASE pc[q] = "applying" /\ hist'[l][i].run = q /\ Loc(q) = l
        BY <2>3, <3>2
      <3>3. CASE UNCHANGED <<hist, store>>
        BY <3>1, <3>3
      <3>4. CASE pc[q] = "applying" /\ \E c \in Recorded : Write(q, c)
        <4>1. PICK c \in Recorded : Write(q, c)
          BY <3>4
        <4>2. CASE i \in DOMAIN hist[l]
          BY <1>1, <3>1, <4>1, <4>2, WriteAppends
        <4>3. CASE i \notin DOMAIN hist[l]
          <5>1. /\ l # Loc(q) => hist'[l] = hist[l]
                /\ l = Loc(q) =>
                     /\ DOMAIN hist'[l] = DOMAIN hist[l] \cup {Len(hist[l]) + 1}
                     /\ hist'[l][Len(hist[l]) + 1] = [run |-> q, base |-> base[q], cfg |-> c]
            BY <1>1, <4>1, WriteAppends
          <5>2. hist'[l][i].run = q /\ l = Loc(q)
            BY <4>3, <5>1
          <5> QED
            BY <3>2, <3>4, <5>2
        <4> QED
          BY <4>2, <4>3
      <3> QED
        BY <1>1, <1>2, <3>3, <3>4, HistStep
    <2>5. WritersLate'
      BY <2>2, <2>4 DEF WritersLate
    <2>6. GatedWrites'
      <3> SUFFICES ASSUME NEW l \in States, NEW i \in DOMAIN hist'[l]
                   PROVE  \E r \in Runs :
                            /\ r = hist'[l][i].run
                            /\ in'[r].apply
                            /\ in'[r].ref # "floating"
                            /\ in'[r].tfvars # "rejected"
                            /\ in'[r].mode = "s3" => in'[r].secrets = "ok"
                            /\ in'[r].overlay => tree'[r] # BaseConfig
                            /\ planOut'[r] = "has-changes"
        BY DEF GatedWrites
      <3>1. PICK r \in Runs : r = hist'[l][i].run /\ pc[r] \notin Early /\ Entitled(r)
        BY <2>4
      <3> QED
        BY <2>2, <3>1 DEF Entitled
    <2>7. WrittenHere'
      <3> SUFFICES ASSUME NEW l \in States, NEW i \in DOMAIN hist'[l]
                   PROVE  \E r \in Runs : /\ r = hist'[l][i].run
                                          /\ Loc(r)' = l /\ in'[r].mode \in {"local", "s3"}
        BY DEF WrittenHere, States
      <3>1. PICK r \in Runs : r = hist'[l][i].run /\ Loc(r) = l
                              /\ pc[r] \notin Early /\ Entitled(r)
        BY <2>4
      <3>2. in'[r] = in[r]
        BY <2>2, <3>1
      <3> QED
        BY <3>1, <3>2 DEF Entitled, Loc
    <2> QED
      BY <2>1, <2>5, <2>6, <2>7 DEF GatesInv
  <1>3. ASSUME UNCHANGED <<job, pc, status, hist>> PROVE GatesInv'
    BY <1>3 DEF GatesInv, Gated, WritersLate, WrittenHere, Loc, GatedWrites, job
  <1>4. CASE \E l \in States : ForceUnlock(l)
    BY <1>3, <1>4 DEF ForceUnlock
  <1>5. CASE UNCHANGED vars
    BY <1>3, <1>5 DEF vars, job
  <1> QED
    BY <1>2, <1>4, <1>5 DEF Next, Finished

\* No run has done anything yet, and there is no version.
LEMMA InitGates == Init => GatesInv
  <1> SUFFICES ASSUME Init PROVE GatesInv
    OBVIOUS
  <1>1. \A l \in States : hist[l] = <<>>
    BY DEF Init
  <1>2. \A r \in Runs : pc[r] = "mode"
    BY DEF Init
  <1>3. \A r \in Runs : Gated(r)
    BY <1>2 DEF Gated, Locked, UpToRef, UpToOverlay, UpToBackend, Early
  <1> QED
    BY <1>1, <1>3 DEF GatesInv, WritersLate, WrittenHere, GatedWrites

\* Whoever writes a version has passed every gate before the apply step: success()
\* of that step stands for all of them.
THEOREM GatedWritesHolds == Spec => []GatedWrites
  <1>1. Init => GatesInv
    BY InitGates
  <1>2. Inv /\ GatesInv /\ [Next]_vars => GatesInv'
    BY GatesStep
  <1>3. GatesInv => GatedWrites
    BY DEF GatesInv
  <1> QED
    BY <1>1, <1>2, <1>3, Invariance, PTL DEF Spec
-----------------------------------------------------------------------------
(* A green run has deployed.                                               *)

AfterApply == {"verify", "uploadState", "done"}
AfterVerify == {"uploadState", "done"}

\* A state records the configuration of its last version.
StoreIsLast == \A l \in States : store[l].cfg = VersionCfg(l, Len(hist[l]))

\* What a run has found or done that is successful so far.
FoundDone(r) ==
    pc[r] \notin Early /\ planOut[r] = "no-changes" =>
        base[r] <= Len(hist[Loc(r)]) /\ VersionCfg(Loc(r), base[r]) = tree[r]

Applied(r) ==
    pc[r] \in AfterApply /\ planOut[r] = "has-changes" =>
        /\ base[r] < Len(hist[Loc(r)])
        /\ hist[Loc(r)][base[r] + 1] = [run |-> r, base |-> base[r], cfg |-> tree[r]]

Verified(r) == pc[r] \in AfterVerify /\ in[r].mode = "s3" => store[Loc(r)].serial > 0

Deploys(r) == status[r] = "success" /\ in[r].apply => FoundDone(r) /\ Applied(r) /\ Verified(r)

DeployInv == StoreIsLast /\ \A r \in Runs : Deploys(r)

\* Versions are added, never changed.
Grows(l) ==
    /\ Len(hist[l]) \in Nat /\ DOMAIN hist[l] = 1 .. Len(hist[l])
    /\ Len(hist'[l]) \in Nat /\ Len(hist[l]) <= Len(hist'[l])
    /\ \A i \in 1 .. Len(hist[l]) : hist'[l][i] = hist[l][i]
    /\ store[l].serial \in Nat /\ store'[l].serial \in Nat
    /\ store[l].serial <= store'[l].serial

LEMMA StateTypes ==
    ASSUME TypeOK, NEW l \in States
    PROVE  /\ Len(hist[l]) \in Nat /\ DOMAIN hist[l] = 1 .. Len(hist[l])
           /\ store[l].serial \in Nat
  <1> DEFINE R == [run : Runs, base : Nat, cfg : Recorded]
  <1>1. hist[l] \in Seq(R) /\ store[l].serial \in Nat
    BY DEF TypeOK
  <1> HIDE DEF R
  <1> QED
    BY <1>1

LEMMA StepGrows ==
    ASSUME TypeOK, NEW q \in Runs, RunStep(q) \/ Disturb(q), NEW l \in States
    PROVE  Grows(l)
  <1>1. CASE UNCHANGED <<hist, store>>
    BY <1>1, StateTypes DEF Grows
  <1>2. CASE \E c \in Recorded : Write(q, c)
    <2>1. PICK c \in Recorded : Write(q, c)
      BY <1>2
    <2>2. /\ l # Loc(q) => hist'[l] = hist[l] /\ store'[l] = store[l]
          /\ l = Loc(q) => /\ Len(hist'[l]) = Len(hist[l]) + 1
                           /\ store'[l] = [serial |-> store[l].serial + 1, cfg |-> c]
          /\ \A i \in DOMAIN hist[l] : hist'[l][i] = hist[l][i]
      BY <2>1, WriteAppends
    <2> QED
      BY <2>2, StateTypes DEF Grows
  <1> QED
    BY <1>1, <1>2, HistStep

\* What a run has found or done stays so while others write.
LEMMA DeploysKept ==
    ASSUME TypeOK, NEW r \in Runs, Gated(r), Deploys(r), Grows(Loc(r)),
           in' = in, tree'[r] = tree[r], planOut'[r] = planOut[r], base'[r] = base[r],
           status'[r] = "success" => status[r] = "success",
           pc'[r] \notin Early => pc[r] \notin Early,
           status'[r] = "success" /\ in[r].apply =>
              /\ pc'[r] \in AfterApply /\ planOut[r] = "has-changes" =>
                    pc[r] \in AfterApply \/ Applied(r)'
              /\ pc'[r] \in AfterVerify /\ in[r].mode = "s3" =>
                    pc[r] \in AfterVerify \/ store[Loc(r)].serial > 0
    PROVE  Deploys(r)'
  <1> SUFFICES ASSUME status'[r] = "success", in[r].apply
               PROVE  FoundDone(r)' /\ Applied(r)' /\ Verified(r)'
    BY DEF Deploys
  <1>1. Loc(r)' = Loc(r)
    BY DEF Loc
  <1>2. FoundDone(r) /\ Applied(r) /\ Verified(r)
    BY DEF Deploys
  <1>3. pc[r] \notin Early => base[r] \in Nat
    BY DEF Gated
  <1>4. FoundDone(r)'
    BY <1>1, <1>2, <1>3 DEF FoundDone, VersionCfg, Grows
  <1>5. Applied(r)'
    <2>1. CASE pc[r] \in AfterApply
      <3>1. pc[r] \notin Early
        BY <2>1 DEF AfterApply, Early
      <3> QED
        BY SMTT(30), <1>1, <1>2, <1>3, <2>1, <3>1 DEF Applied, Grows
    <2> QED
      BY <2>1 DEF Applied
  <1>6. Verified(r)'
    BY <1>1, <1>2 DEF Verified, Grows
  <1> QED
    BY <1>4, <1>5, <1>6

\* Where a successful run may go when its plan is done.
LEMMA LateSteps ==
    ASSUME TypeOK, NEW r \in Runs, RunStep(r) \/ Disturb(r), status'[r] = "success"
    PROVE  /\ status[r] = "success"
           /\ \/ pc'[r] \in Early
              \/ PlanSucceeds(r)
              \/ ApplySucceeds(r)
              \/ BeginApply(r)
              \/ /\ pc[r] \in Steps \ Early /\ pc'[r] = After[pc[r]]
                 /\ pc[r] = "apply" => ~(in[r].apply /\ planOut[r] = "has-changes")
                 /\ pc[r] = "verify" => \/ ~(in[r].apply /\ in[r].mode = "s3")
                                        \/ store[Loc(r)].serial > 0
  <1>1. CASE Disturb(r)
    BY <1>1, Moves DEF Disturb, CancelGracefully, Kill, LoseRunner
  <1>2. CASE Fail(r)
    BY <1>2, Moves DEF Fail
  <1>3. ASSUME Pass(r) PROVE pc'[r] = After[pc[r]] /\ status[r] = "success"
    BY <1>3, Moves DEF Pass
  <1>4. ASSUME pc[r] \in Early \cap Steps, pc[r] # "plan", Pass(r)
        PROVE  pc'[r] \in Early /\ status[r] = "success"
    BY <1>3, <1>4 DEF Early, Steps, After
  <1>5. CASE Skip(r)
    <2>1. pc[r] \in Steps /\ Pass(r) /\ ~If(r, pc[r])
      BY <1>3, <1>5 DEF Skip, Due
    <2>2. pc[r] # "plan"
      BY <2>1 DEF If
    <2>3. CASE pc[r] \in Early
      BY <1>4, <2>1, <2>2, <2>3
    <2>4. CASE pc[r] \notin Early
      BY <1>3, <2>1, <2>4 DEF If
    <2> QED
      BY <2>3, <2>4
  <1>6. CASE \/ ValidateMode(r) \/ CheckoutFramework(r) \/ ValidateRef(r)
             \/ CheckoutConsumer(r) \/ ApplyOverlay(r) \/ SetupTerraform(r) \/ PrepareBackend(r)
             \/ ConfigureCredentials(r) \/ TerraformInit(r)
    <2>1. pc[r] \in Early \cap Steps /\ pc[r] # "plan"
      BY <1>6 DEF ValidateMode, CheckoutFramework, ValidateRef, CheckoutConsumer,
                  ApplyOverlay, SetupTerraform, PrepareBackend, ConfigureCredentials,
                  TerraformInit, Due, Early, Steps
    <2>2. Pass(r) \/ Fail(r)
      BY <1>6 DEF ValidateMode, CheckoutFramework, ValidateRef, CheckoutConsumer,
                  ApplyOverlay, SetupTerraform, PrepareBackend, ConfigureCredentials,
                  TerraformInit
    <2> QED
      BY <1>2, <1>4, <2>1, <2>2
  <1>7. CASE \/ RejectTfvars(r) \/ PlanLockTimeout(r) \/ PlanFails(r)
             \/ ApplyLockBusy(r) \/ ApplyStale(r) \/ ApplyFails(r)
    BY <1>2, <1>7 DEF RejectTfvars, PlanLockTimeout, PlanFails, ApplyLockBusy, ApplyStale,
                      ApplyFails
  <1>8. CASE UploadPlan(r) \/ UploadState(r)
    BY <1>2, <1>3, <1>8 DEF UploadPlan, UploadState, Due, Steps, Early
  <1>9. CASE VerifyState(r)
    BY <1>2, <1>3, <1>9 DEF VerifyState, Due, Steps, Early
  <1>10. CASE BeginPlan(r)
    <2>1. pc'[r] = "planning" /\ status'[r] = status[r]
      BY <1>10, Moves DEF BeginPlan
    <2> QED
      BY <2>1 DEF Early
  <1>11. CASE PlanSucceeds(r) \/ ApplySucceeds(r)
    BY <1>3, <1>11 DEF PlanSucceeds, ApplySucceeds
  <1>12. CASE BeginApply(r)
    BY <1>12, Moves DEF BeginApply
  <1> QED
    BY <1>1, <1>5, <1>6, <1>7, <1>8, <1>9, <1>10, <1>11, <1>12 DEF RunStep

LEMMA StoreStep == ASSUME TypeOK, StoreIsLast, NEW q \in Runs, RunStep(q) \/ Disturb(q)
                   PROVE  StoreIsLast'
  <1> SUFFICES ASSUME NEW l \in States
               PROVE  store'[l].cfg = IF Len(hist'[l]) = 0 THEN BaseConfig
                                      ELSE hist'[l][Len(hist'[l])].cfg
    BY DEF StoreIsLast, VersionCfg
  <1>1. CASE UNCHANGED <<hist, store>>
    BY <1>1 DEF StoreIsLast, VersionCfg
  <1>2. CASE \E c \in Recorded : Write(q, c)
    <2>1. PICK c \in Recorded : Write(q, c)
      BY <1>2
    <2>2. /\ l # Loc(q) => hist'[l] = hist[l] /\ store'[l] = store[l]
          /\ l = Loc(q) =>
               /\ Len(hist'[l]) = Len(hist[l]) + 1
               /\ hist'[l][Len(hist[l]) + 1] = [run |-> q, base |-> base[q], cfg |-> c]
               /\ store'[l] = [serial |-> store[l].serial + 1, cfg |-> c]
      BY <2>1, WriteAppends
    <2> QED
      BY <2>2, StateTypes DEF StoreIsLast, VersionCfg
  <1> QED
    BY <1>1, <1>2, HistStep

LEMMA DeploysStep ==
    ASSUME Inv, NEW r \in Runs, Gated(r), Deploys(r), StoreIsLast, RunStep(r) \/ Disturb(r)
    PROVE  Deploys(r)'
  <1>1. TypeOK /\ Loc(r) \in States /\ Grows(Loc(r)) /\ in' = in /\ Loc(r)' = Loc(r)
    BY LocType, StepGrows, OwnStep DEF Inv, Loc
  <1> SUFFICES ASSUME status'[r] = "success", in[r].apply PROVE Deploys(r)'
    BY <1>1 DEF Deploys
  <1>2. status[r] = "success"
    BY <1>1, LateSteps
  <1>3. ASSUME pc[r] \notin Early
        PROVE  tree'[r] = tree[r] /\ planOut'[r] = planOut[r] /\ base'[r] = base[r]
    BY <1>1, <1>3, OwnStep
  <1>4. CASE pc'[r] \in Early
    BY <1>4 DEF Deploys, FoundDone, Applied, Verified, AfterApply, AfterVerify, Early
  <1>5. CASE PlanSucceeds(r)
    <2>1. After["planning"] = "uploadPlan"
      BY DEF After
    <2>2. pc'[r] = "uploadPlan"
      BY <1>1, <1>5, <2>1, Moves DEF PlanSucceeds, Pass
    <2>3. /\ UNCHANGED <<hist, store, tree>> /\ base'[r] = store[Loc(r)].serial
          /\ planOut'[r] = "no-changes" => store[Loc(r)].cfg = tree[r]
      BY <1>1, <1>5 DEF PlanSucceeds, PlanDiff, TypeOK
    <2>4. base'[r] = Len(hist[Loc(r)])
      BY <1>1, <2>3 DEF Inv, HistoryCounted
    <2>5. FoundDone(r)'
      BY <1>1, <2>3, <2>4 DEF FoundDone, StoreIsLast, VersionCfg, Grows
    <2> QED
      BY <2>2, <2>5 DEF Deploys, Applied, Verified, AfterApply, AfterVerify
  <1>6. CASE ApplySucceeds(r)
    <2>1. After["applying"] = "verify"
      BY DEF After
    <2>2. pc'[r] = "verify" /\ pc[r] = "applying" /\ pc[r] \notin Early
      BY <1>1, <1>6, <2>1, Moves DEF ApplySucceeds, Pass, Early
    <2>3. base[r] = Len(hist[Loc(r)])
      BY <1>1, <2>2 DEF Inv, ApplyIsCurrent, HistoryCounted
    <2>4. Write(r, tree[r]) /\ tree[r] \in Recorded
      BY <1>1, <1>6 DEF ApplySucceeds, TypeOK, Recorded
    <2>5. /\ Len(hist'[Loc(r)]) = Len(hist[Loc(r)]) + 1
          /\ hist'[Loc(r)][Len(hist[Loc(r)]) + 1] =
               [run |-> r, base |-> base[r], cfg |-> tree[r]]
      BY <1>1, <2>4, WriteLands
    <2>6. Applied(r)'
      BY <1>1, <1>3, <2>2, <2>3, <2>5 DEF Applied, Grows
    <2>7. pc'[r] \notin AfterVerify
      BY <2>2 DEF AfterVerify
    <2> QED
      BY <1>1, <1>2, <1>3, <2>2, <2>6, <2>7, DeploysKept
  <1>7. CASE BeginApply(r)
    <2>1. pc[r] \notin Early /\ pc'[r] \notin AfterApply /\ pc'[r] \notin AfterVerify
      BY <1>1, <1>7, Moves DEF BeginApply, Due, Early, AfterApply, AfterVerify
    <2> QED
      BY <1>1, <1>2, <1>3, <2>1, DeploysKept
  <1>8. CASE /\ pc[r] \in Steps \ Early /\ pc'[r] = After[pc[r]]
             /\ pc[r] = "apply" => ~(in[r].apply /\ planOut[r] = "has-changes")
             /\ pc[r] = "verify" => \/ ~(in[r].apply /\ in[r].mode = "s3")
                                    \/ store[Loc(r)].serial > 0
    <2>1. /\ pc'[r] \in AfterApply => pc[r] \in AfterApply \cup {"apply"}
          /\ pc'[r] \in AfterVerify => pc[r] \in AfterVerify \cup {"verify"}
      BY <1>8 DEF Steps, Early, After, AfterApply, AfterVerify
    <2> QED
      BY <1>1, <1>2, <1>3, <1>8, <2>1, DeploysKept
  <1> QED
    BY <1>1, <1>4, <1>5, <1>6, <1>7, <1>8, LateSteps

LEMMA DeployStep == ASSUME Inv, GatesInv, DeployInv, [Next]_vars PROVE DeployInv'
  <1>1. TypeOK
    BY DEF Inv
  <1>2. ASSUME NEW q \in Runs, RunStep(q) \/ Disturb(q) PROVE DeployInv'
    <2>1. ASSUME NEW r \in Runs PROVE Deploys(r)'
      <3>1. CASE r = q
        BY <1>2, <3>1, DeploysStep DEF GatesInv, DeployInv
      <3>2. CASE r # q
        <4>1. Grows(Loc(r)) /\ Gated(r) /\ Deploys(r)
          BY <1>1, <1>2, LocType, StepGrows DEF GatesInv, DeployInv
        <4>2. /\ in' = in /\ pc'[r] = pc[r] /\ status'[r] = status[r] /\ tree'[r] = tree[r]
              /\ planOut'[r] = planOut[r] /\ base'[r] = base[r]
          BY <1>1, <1>2, <3>2, OwnStep
        <4> QED
          BY <1>1, <4>1, <4>2, DeploysKept
      <3> QED
        BY <3>1, <3>2
    <2>2. StoreIsLast'
      BY <1>1, <1>2, StoreStep DEF DeployInv
    <2> QED
      BY <2>1, <2>2 DEF DeployInv
  <1>3. ASSUME UNCHANGED <<job, pc, status, hist, store>> PROVE DeployInv'
    BY <1>3 DEF DeployInv, StoreIsLast, VersionCfg, Deploys, FoundDone, Applied, Verified, Loc, job
  <1>4. CASE \E l \in States : ForceUnlock(l)
    BY <1>3, <1>4 DEF ForceUnlock
  <1>5. CASE UNCHANGED vars
    BY <1>3, <1>5 DEF vars, job
  <1> QED
    BY <1>2, <1>4, <1>5 DEF Next, Finished

\* A green run that was asked to apply has put its tree in the version right after
\* the one it planned on, or has found it there.
THEOREM GreenMeansDeployedHolds == Spec => []GreenMeansDeployed
  <1>1. Init => GatesInv /\ DeployInv
    <2> SUFFICES ASSUME Init PROVE DeployInv
      BY InitGates
    <2>1. \A l \in States : hist[l] = <<>> /\ store[l].cfg = BaseConfig
      BY DEF Init
    <2>2. \A r \in Runs : pc[r] = "mode"
      BY DEF Init
    <2>3. \A r \in Runs : Deploys(r)
      BY <2>2 DEF Deploys, FoundDone, Applied, Verified, Early, AfterApply, AfterVerify
    <2>4. StoreIsLast
      BY <2>1 DEF StoreIsLast, VersionCfg
    <2> QED
      BY <2>3, <2>4 DEF DeployInv
  <1>2. Inv /\ GatesInv /\ DeployInv /\ [Next]_vars => GatesInv' /\ DeployInv'
    BY GatesStep, DeployStep
  <1>3. Inv /\ GatesInv /\ DeployInv => GreenMeansDeployed
    <2> SUFFICES ASSUME Inv, GatesInv, DeployInv, NEW r \in Runs,
                        pc[r] = "done", status[r] = "success", in[r].apply
                 PROVE  /\ base[r] \in Nat
                        /\ IF planOut[r] = "has-changes"
                             THEN /\ base[r] < Len(hist[Loc(r)])
                                  /\ hist[Loc(r)][base[r] + 1] =
                                       [run |-> r, base |-> base[r], cfg |-> tree[r]]
                             ELSE VersionCfg(Loc(r), base[r]) = tree[r]
                        /\ Loc(r) = S3State => store[Loc(r)].serial > 0
      BY DEF GreenMeansDeployed
    <2>1. Gated(r) /\ Deploys(r)
      BY DEF GatesInv, DeployInv
    <2>2. Loc(r) = S3State => in[r].mode = "s3"
      BY ConstantsAssumption DEF Loc
    <2>3. base[r] \in Nat /\ planOut[r] \in {"no-changes", "has-changes"}
      BY <2>1 DEF Gated, Early
    <2> QED
      BY <2>1, <2>2, <2>3 DEF Deploys, FoundDone, Applied, Verified, AfterApply, AfterVerify, Early
  <1> QED
    BY <1>1, <1>2, <1>3, Invariance, PTL DEF Spec

-----------------------------------------------------------------------------
(* The local state is kept.                                                *)

\* A state on a run's own runner was written by that run, which has therefore passed
\* the mode check and asked for an apply: it is a local run, whose upload is due.
LEMMA OwnStateOffered ==
    ASSUME Inv, GatesInv, NEW r \in Runs, pc[r] = "uploadState", Loc(r) = r,
           store[r].serial > 0
    PROVE  Due(r, "uploadState")
  <1>1. r \in States /\ TypeOK
    BY DEF States, Inv
  <1>2. hist[r] \in Seq([run : Runs, base : Nat, cfg : Recorded]) /\ Len(hist[r]) > 0
    BY <1>1 DEF TypeOK, Inv, HistoryCounted
  <1>3. 1 \in DOMAIN hist[r]
    BY <1>2
  <1> DEFINE w == hist[r][1].run
  <1>4. w \in Runs /\ Loc(w) = r /\ in[w].mode \in {"local", "s3"} /\ in[w].apply
    BY <1>1, <1>3, EntryType DEF GatesInv, WrittenHere, GatedWrites
  <1>5. w = r /\ in[w].mode = "local"
    BY <1>4, ConstantsAssumption DEF Loc
  <1> QED
    BY <1>4, <1>5 DEF Due, If, AlwaysSteps

\* A run that wrote a local state never skips the upload that is the only way to keep
\* it, whatever became of the apply and of the job: always() and the mode decide.
THEOREM LocalStateOfferedHolds == Spec => LocalStateOffered
  <1>1. Inv /\ GatesInv => \A r \in Runs : OffersState(r)
    BY OwnStateOffered DEF OffersState, Skip
  <1>2. Inv /\ GatesInv /\ [Next]_vars => [\A r \in Runs : OffersState(r)]_vars
    BY <1>1
  <1>3. Inv /\ GatesInv /\ [Next]_vars => GatesInv'
    BY GatesStep
  <1>4. Init => GatesInv
    BY InitGates
  <1> QED
    BY <1>2, <1>3, <1>4, Invariance, PTL DEF Spec, LocalStateOffered
=============================================================================
