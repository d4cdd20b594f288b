------------------------------ MODULE TenantApply ------------------------------
(***************************************************************************)
(* terraform apply of the Rancher root module: the platform envelope       *)
(* (project, namespaces, reconcile ServiceAccount/Role/RoleBinding) and    *)
(* the tenant's Helm releases, over a changing list all_workloads.         *)
(*                                                                         *)
(* A plan is a set of operations on resource instances.  Terraform runs    *)
(* them in parallel in the order of the references between the resources:  *)
(* a create or update waits for every instance of each resource it refers  *)
(* to, a destroy waits for the destroys of everything that refers to it,   *)
(* and whatever waits for a failed operation is not run.                   *)
(*                                                                         *)
(* An apply may be cut short.  Interrupted, it lets what is at work end    *)
(* and saves its state; killed, it loses what it made since its last save: *)
(* those objects are there but no state has them, and their creation is    *)
(* refused from then on until somebody removes them.  The next apply plans *)
(* again from what the state has.                                          *)
(***************************************************************************)
EXTENDS Naturals, FiniteSets

CONSTANTS
    Keys,       \* workload keys
    Charts,     \* versions of a workload's chart and values
    Tenant,     \* the tenant project
    NoChart,    \* the workload is not listed / has no release
    Broken,     \* a release that failed and could not be rolled back either
    Pending,    \* a release whose upgrade was killed: Helm still takes it for at work
    Admin,      \* a Helm identity that no RoleBinding limits
    HelmIdentity, \* scoped_deploy_kubernetes: Admin, or the ServiceAccount of
                  \* one workload's namespace, named by its key
    Lists,      \* bound: the lists that all_workloads is set to
    MaxChanges, \* bound: changes of all_workloads
    MaxFaults   \* bound: operations that fail for a passing reason, applies cut short

ASSUME TenantAssumption ==
    /\ Charts \cap {NoChart, Broken, Pending} = {}
    /\ NoChart # Broken /\ NoChart # Pending /\ Broken # Pending
    /\ Admin \notin Keys
    /\ HelmIdentity \in Keys \cup {Admin}
    /\ MaxChanges \in Nat /\ MaxFaults \in Nat

VARIABLES
    want,       \* all_workloads now: the chart of each listed workload
    phase,      \* "idle" or "applying"
    goal,       \* all_workloads as planned by the current or last apply
    todo,       \* operations of the plan not done yet
    failed,     \* operations of the plan that failed
    have,       \* resource instances that exist and are in the state
    unsaved,    \* those of them made since the state was last saved
    stray,      \* objects that exist and are in no state
    chart,      \* the chart each release runs
    result,     \* outcome of the last apply
    changes, faults

vars == <<want, phase, goal, todo, failed, have, unsaved, stray, chart, result,
          changes, faults>>

\* Mutant: the RoleBinding names its account and role by literals.
Refs_LiteralNames ==
    [project   |-> {},
     namespace |-> {"project"},
     account   |-> {"namespace"},
     role      |-> {"namespace"},
     binding   |-> {"namespace"},
     release   |-> {"namespace"}]

\* Mutant: the RBAC is made to wait for the release.
Refs_ReleaseFirst ==
    [project   |-> {},
     namespace |-> {"project"},
     account   |-> {"namespace", "release"},
     role      |-> {"namespace"},
     binding   |-> {"namespace", "account", "role"},
     release   |-> {"namespace"}]

\* What each resource refers to.  The release refers to its namespace only,
\* through the output namespace_names.
Refs ==
    [project   |-> {},
     namespace |-> {"project"},
     account   |-> {"namespace"},
     role      |-> {"namespace"},
     binding   |-> {"namespace", "account", "role"},
     release   |-> {"namespace"}]

PerWorkload == {"namespace", "account", "role", "binding", "release"}
Project == <<"project", Tenant>>
Addresses == {Project} \cup (PerWorkload \X Keys)

Listed(w) == {k \in Keys : w[k] # NoChart}
Wanted(w) == {Project} \cup (PerWorkload \X Listed(w))

\* Accepted workload lists: the envelope module refuses an empty one.
Configs == {w \in [Keys -> Charts \cup {NoChart}] : Listed(w) # {}}

ASSUME ListsAssumption == Lists \subseteq Configs

Ops == [do : {"create", "update", "destroy"}, at : Addresses]

TypeOK ==
    /\ want \in [Keys -> Charts \cup {NoChart}] /\ Listed(want) # {}
    /\ goal \in [Keys -> Charts \cup {NoChart}]
    /\ phase \in {"idle", "applying"}
    /\ todo \subseteq Ops /\ failed \subseteq Ops
    /\ have \subseteq Addresses /\ unsaved \subseteq have
    /\ stray \subseteq Addresses \ {Project}
    /\ chart \in [Keys -> Charts \cup {NoChart, Broken, Pending}]
    /\ result \in {"none", "ok", "failed"}
    /\ changes \in 0 .. MaxChanges /\ faults \in 0 .. MaxFaults

Init ==
    /\ want \in Lists /\ goal = want
    /\ phase = "idle"
    /\ todo = {} /\ failed = {}
    /\ have = {} /\ unsaved = {} /\ stray = {}
    /\ chart = [k \in Keys |-> NoChart]
    /\ result = "none"
    /\ changes = 0 /\ faults = 0

-----------------------------------------------------------------------------

\* A change of all_workloads is merged, also while an apply runs.
ChangeWorkloads ==
    /\ changes < MaxChanges
    /\ \E w \in Lists \ {want} : want' = w
    /\ changes' = changes + 1
    /\ UNCHANGED <<phase, goal, todo, failed, have, unsaved, stray, chart, result, faults>>

\* Mutant: lifecycle ignore_changes on the chart and values of a release.
Changed_Ignored(w) == {}

\* The releases whose chart or values differ from the list w.
Changed(w) ==
    {<<"release", k>> : k \in {j \in Listed(w) : <<"release", j>> \in have /\ chart[j] # w[j]}}

\* Mutant: lifecycle prevent_destroy on a namespace.
Dropped_KeepNamespaces(w) == {a \in have \ Wanted(w) : a[1] # "namespace"}

\* The instances that no for_each over w has any more.
Dropped(w) == have \ Wanted(w)

\* The plan from what exists to the list w.
PlanFor(w) ==
    {[do |-> "create", at |-> a] : a \in Wanted(w) \ have}
    \cup {[do |-> "destroy", at |-> a] : a \in Dropped(w)}
    \cup {[do |-> "update", at |-> a] : a \in Changed(w)}

Plan ==
    /\ phase = "idle"
    /\ PlanFor(want) # {}
    /\ phase' = "applying"
    /\ goal' = want
    /\ todo' = PlanFor(want)
    /\ failed' = {}
    /\ UNCHANGED <<want, have, unsaved, stray, chart, result, changes, faults>>

\* Operation p must be done before operation op.
Before(p, op) ==
    \/ /\ op.do # "destroy" /\ p.do # "destroy"
       /\ p.at[1] \in Refs[op.at[1]]
    \/ /\ op.do = "destroy" /\ p.do = "destroy"
       /\ op.at[1] \in Refs[p.at[1]]

Ready(op) ==
    /\ phase = "applying"
    /\ op \in todo
    /\ \A p \in todo \cup failed : ~Before(p, op)

\* The Helm provider has one identity.  A namespace-local ServiceAccount is
\* authorised where a RoleBinding names it: in its own namespace.
HelmMay(k) ==
    HelmIdentity = Admin \/ (HelmIdentity = k /\ <<"binding", k>> \in have \cup stray)

Allowed(op) == op.at[1] = "release" => HelmMay(op.at[2])

\* What an operation would make is there already, outside the state, or the release
\* is locked by an upgrade that will never end.
Blocked(op) ==
    \/ op.do = "create" /\ op.at \in stray
    \/ op.do = "update" /\ chart[op.at[2]] = Pending

\* A namespace and all there can be in it.
Inside(k) == PerWorkload \X {k}

\* What an operation does that goes through, a release being put to version c; a
\* namespace takes with it whatever else is in it.
Do(op, c) ==
    /\ have' = CASE op.do = "create"  -> have \cup {op.at}
                 [] op.do = "update"  -> have
                 [] op.do = "destroy" -> have \ {op.at}
    /\ unsaved' = CASE op.do = "create"  -> unsaved \cup {op.at}
                    [] op.do = "update"  -> unsaved
                    [] op.do = "destroy" -> unsaved \ {op.at}
    /\ stray' = IF op.do = "destroy" /\ op.at[1] = "namespace"
                THEN stray \ Inside(op.at[2]) ELSE stray
    /\ chart' = IF op.at[1] # "release" THEN chart
                ELSE [chart EXCEPT ![op.at[2]] = IF op.do = "destroy" THEN NoChart ELSE c]

Succeed(op) ==
    /\ Ready(op)
    /\ Allowed(op) /\ ~Blocked(op)
    /\ todo' = todo \ {op}
    /\ Do(op, goal[op.at[2]])
    /\ UNCHANGED <<want, phase, goal, failed, result, changes, faults>>

\* The operation has changed nothing: it was refused, or a failed install or upgrade of a
\* release was undone (atomic = true).
Undone == UNCHANGED <<have, unsaved, stray, chart>>

\* The object is made, but the answer that says so is lost.
Unanswered(op) ==
    /\ op.do = "create" /\ op.at \notin {Project} \cup ({"release"} \X Keys)
    /\ stray' = stray \cup {op.at}
    /\ UNCHANGED <<have, unsaved, chart>>

\* A failed install or upgrade of a release whose undoing failed too; or an object is
\* gone, but not seen to be gone.
HalfDone(op) == (op.at[1] = "release" \/ op.do = "destroy") /\ Do(op, Broken)

\* An operation fails because it is not authorised or what it needs is taken, or for a
\* passing reason.
FailOp(op) ==
    /\ Ready(op)
    /\ \/ /\ ~Allowed(op) \/ Blocked(op)
          /\ Undone
          /\ UNCHANGED faults
       \/ /\ Allowed(op) /\ ~Blocked(op)
          /\ faults < MaxFaults /\ faults' = faults + 1
          /\ Undone \/ Unanswered(op) \/ HalfDone(op)
    /\ todo' = todo \ {op}
    /\ failed' = failed \cup {op}
    /\ UNCHANGED <<want, phase, goal, result, changes>>

EndApply(res) ==
    /\ phase' = "idle"
    /\ result' = res
    /\ todo' = {} /\ failed' = {}
    /\ unsaved' = {}
    /\ UNCHANGED <<want, goal, changes>>

\* Nothing is left that can run.
Finish ==
    /\ phase = "applying"
    /\ \A op \in todo : ~Ready(op)
    /\ EndApply(IF failed = {} THEN "ok" ELSE "failed")
    /\ UNCHANGED <<have, stray, chart, faults>>

\* The job is cancelled; what is at work ends, and the state is saved.
Interrupt ==
    /\ phase = "applying"
    /\ faults < MaxFaults /\ faults' = faults + 1
    /\ EndApply("failed")
    /\ UNCHANGED <<have, stray, chart>>

\* The last objects made in this apply: with an object goes whatever was made after it
\* because it refers to it.
Unsaved == {s \in SUBSET unsaved : \A a \in s, b \in unsaved : a[1] \in Refs[b[1]] => b \in s}

\* The job is killed: lost are the last objects made (one whose creation was at work is
\* as one made and not saved), and the upgrades at work are left as they are.  A lost
\* project is in nobody's way, as the names of projects are not unique.
Kill ==
    /\ phase = "applying"
    /\ faults < MaxFaults /\ faults' = faults + 1
    /\ \E lost \in Unsaved,
          cut \in SUBSET {op \in todo : op.do = "update" /\ Ready(op) /\ Allowed(op) /\ ~Blocked(op)} :
         /\ have' = have \ lost
         /\ stray' = stray \cup (lost \ {Project})
         /\ chart' = [k \in Keys |->
                IF <<"release", k>> \in lost THEN NoChart
                ELSE IF \E op \in cut : op.at = <<"release", k>> THEN Pending ELSE chart[k]]
    /\ EndApply("failed")

\* Between applies somebody removes a workload's objects that are in no state, and frees
\* its release from an upgrade that was killed.
Repair ==
    /\ phase = "idle"
    /\ \E k \in Keys :
         /\ stray \cap Inside(k) # {} \/ chart[k] = Pending
         /\ stray' = stray \ Inside(k)
         /\ chart' = [chart EXCEPT ![k] = IF @ = Pending THEN Broken ELSE @]
    /\ UNCHANGED <<want, phase, goal, todo, failed, have, unsaved, result, changes, faults>>

Work == Plan \/ Finish \/ \E op \in todo : Succeed(op) \/ FailOp(op)

\* The deployed workloads match the list and nobody changes it.
Settled ==
    /\ phase = "idle" /\ PlanFor(want) = {}
    /\ changes = MaxChanges
    /\ UNCHANGED vars

Next == ChangeWorkloads \/ Work \/ Interrupt \/ Kill \/ Repair \/ Settled

Spec == Init /\ [][Next]_vars

\* Callers run the workflow again until its plan is empty, and an apply goes on.
FairSpec == Spec /\ WF_vars(Work)

-----------------------------------------------------------------------------
(* Properties.                                                             *)

\* Nothing exists without what it refers to: no namespace outside the project,
\* no account, role or release without its namespace, and no binding without
\* both its account and its role, whatever was interrupted or removed before.
Nested ==
    \A k \in Keys :
        /\ <<"namespace", k>> \in have => Project \in have
        /\ \A t \in {"account", "role", "release"} :
             <<t, k>> \in have => <<"namespace", k>> \in have
        /\ <<"binding", k>> \in have =>
             {<<"namespace", k>>, <<"account", k>>, <<"role", k>>} \subseteq have
        /\ <<"release", k>> \in have <=> chart[k] # NoChart

\* What a resource cannot be without: the project around a namespace, the namespace around
\* everything in it, and the two ends of a binding.
Needs == [a \in Addresses |->
    CASE a[1] = "project"   -> {}
      [] a[1] = "namespace" -> {Project}
      [] a[1] = "binding"   -> {"namespace", "account", "role"} \X {a[2]}
      [] OTHER              -> {<<"namespace", a[2]>>}]

\* The resources in a set, each with what there is to say of it: a release has a chart.
Stock(set, charts) == [a \in Addresses |->
    IF a \in set THEN {IF a[1] = "release" THEN charts[a[2]] ELSE Tenant} ELSE {}]

Managed == INSTANCE Inventory WITH
    Things <- Addresses, Harmed <- {Broken, Pending},
    target <- Stock(Wanted(goal), goal), content <- Stock(have, chart), fresh <- unsaved

\* Applies, however many fail half-way, are cut short or killed, look after the tenant's
\* resources as the abstract inventory says: nothing is made before what it needs, unmade
\* before what needs it, touched against the plan, or lost from the state except what a
\* killed apply has made itself (the references of modules/envelope/resources.tf and
\* modules/deploy/resources.tf).
ImplementsInventory == Managed!Spec

\* A green apply left exactly the planned workloads, each on its chart.
OkMeansApplied ==
    phase = "idle" /\ result = "ok" =>
        have = Wanted(goal) /\ \A k \in Keys : chart[k] = goal[k]

\* Operation op waits for p, at once or behind others that were never run.
Behind(op, p) ==
    \/ Before(p, op)
    \/ \E q \in todo : /\ Before(p, q)
                       /\ Before(q, op) \/ \E r \in todo : Before(q, r) /\ Before(r, op)

\* What is left when an apply ends by itself waits for an operation that failed,
\* and that operation is no install or upgrade of a release.
Contained ==
    Finish => \A op \in todo : \E p \in failed :
        Behind(op, p) /\ (p.at[1] = "release" => p.do = "destroy")

\* An apply that ends by itself gives up only what waits for a failed operation, at
\* once or through others it gives up; and a release that cannot be installed or
\* upgraded takes nothing else with it.
FailuresContained == [][Contained]_vars

\* Nothing a killed apply has left stands in the way of the list.
Unobstructed ==
    /\ stray \cap Wanted(want) = {}
    /\ \A k \in Listed(want) : chart[k] # Pending

\* When the list stays as it is, faults pass, and what killed applies have left in the way
\* of the list is once removed for good, re-running the workflow reaches the listed
\* workloads and leaves nothing else behind: no failure that is over, a broken release
\* included, needs anybody's hand.
Converges ==
    <>[]Unobstructed => <>[](have = Wanted(want) /\ \A k \in Keys : chart[k] = want[k])

\* Each workload entry gets its Helm release, deployed with the scoped identity
\* of one of the listed workloads.
WorkloadsDeployed ==
    <>[](HelmIdentity \in Listed(want) => \A k \in Listed(want) : chart[k] = want[k])
=============================================================================
