---------------------------- MODULE WorkloadRollout ----------------------------
(***************************************************************************)
(* From the tenant's workload list to running pods.  The root module       *)
(* accepts a list (terraform/variables.tf), the envelope gives every       *)
(* workload a namespace with a fixed quota inside the quota of the         *)
(* project, and the deploy module installs the built-in chart with         *)
(* atomic = wait = true.  The chart leaves a Deployment, a                 *)
(* HorizontalPodAutoscaler, a PodDisruptionBudget and a volume claim to    *)
(* Kubernetes, whose controllers, each on its own, add, remove and evict   *)
(* pods under the quota.  Nothing in the code relates the numbers a tenant *)
(* may ask for (platform_caps) to the quota they have to fit in: what      *)
(* follows from that is the subject of this module.                        *)
(*                                                                         *)
(* CPU and memory are validated and counted in the same way: one resource  *)
(* with a request and a limit stands for both.  Validations of hosts,      *)
(* paths, secrets and names concern no number and are left out.            *)
(***************************************************************************)
EXTENDS Integers, FiniteSets, Functions

CONSTANTS
    Workloads,  \* keys a tenant may use
    Inputs,     \* Inputs[w]: the settings a tenant may write for w
    Caps,       \* platform_caps
    Quotas,     \* the platform_resource_quota values to choose from
    None,       \* no workload, no volume, no release
    MaxEdits,   \* bound: changes of the list
    MaxLoad,    \* bound: scalings the load calls for
    MaxFaults,  \* bound: helm timeouts while the cluster still makes progress, rollbacks
                \* that are refused, helm processes that are killed
    MaxDrains   \* bound: node drains

Settings == UNION {Inputs[w] : w \in Workloads}

\* What the types of variables.tf:16-78 and 303-312 say.
ASSUME RolloutAssumption ==
    /\ DOMAIN Inputs = Workloads /\ None \notin Settings
    /\ \A s \in Settings :
         /\ s.hpa \in BOOLEAN /\ {s.replicas, s.min, s.max} \subseteq Nat
         /\ {s.request.n, s.limit.n} \subseteq Nat
    /\ {Caps.replicas, Caps.hpa, Caps.request.n, Caps.limit.n} \subseteq Nat
    /\ {MaxEdits, MaxLoad, MaxFaults, MaxDrains} \subseteq Nat

VARIABLES
    quota,      \* platform_resource_quota of this tenant
    list,       \* all_workloads, as accepted: settings or None for each key
    namespaces, \* workloads that have a namespace
    release,    \* the helm release of each workload
    desired,    \* spec.replicas of each Deployment
    pods,       \* pods[w][t]: pods of template t, ready and starting
    draining,   \* workloads with a pod on a node that is being drained
    left        \* what is left of the bounds

vars == <<quota, list, namespaces, release, desired, pods, draining, left>>

----------------------------------------------------------------------------
(* Quantities: a number and a unit, as in the tfvars.                      *)

\* local.cpu_quantity_pattern; cores may be written as zero, millicores not.
WellFormed(q) == \/ q.unit = "cores"
                 \/ q.unit = "m" /\ q.n > 0

\* try(..., -1): what terraform makes of a quantity.
Millicores(q) == CASE q.unit = "m" -> q.n
                   [] q.unit = "cores" -> q.n * 1000
                   [] OTHER -> -1

\* What Kubernetes makes of it; it knows a unit that the pattern refuses.
Amount(q) == q.n * [m |-> 1, cores |-> 1000, k |-> 1000000][q.unit]

\* A volume size in MiB: local.memory_quantity_pattern, then the arithmetic.
Mebibytes(q) == q.n * (IF q.unit = "Gi" THEN 1024 ELSE 1)

----------------------------------------------------------------------------
(* The validations of variables.tf.                                        *)

StorageOK(s) ==
    s.storage # None => /\ s.storage.n > 0
                        /\ Mebibytes(s.storage) <= Mebibytes(Caps.storage)

ReplicasOK(s) == s.replicas \in 1..Caps.replicas

HpaOK(s) == /\ s.min >= 1
            /\ s.max >= s.min
            /\ s.max <= Caps.hpa

ResourcesOK(s) == \A q \in {s.request, s.limit} : WellFormed(q) /\ Millicores(q) > 0

\* Mutant: only the request is compared with its cap.
UnderCaps_RequestOnly(s) ==
    /\ WellFormed(Caps.request) /\ WellFormed(Caps.limit)
    /\ Millicores(s.request) <= Millicores(Caps.request)

UnderCaps(s) ==
    /\ WellFormed(Caps.request) /\ WellFormed(Caps.limit)
    /\ Millicores(s.request) <= Millicores(Caps.request)
    /\ Millicores(s.limit) <= Millicores(Caps.limit)

\* try(request - limit, 1) <= 0
RequestUnderLimit(s) ==
    /\ Millicores(s.request) # -1 /\ Millicores(s.limit) # -1
    /\ Millicores(s.request) - Millicores(s.limit) <= 0

Accepts(l) ==
    /\ \E w \in Workloads : l[w] # None
    /\ \A w \in Workloads : l[w] # None =>
         /\ StorageOK(l[w]) /\ ReplicasOK(l[w]) /\ HpaOK(l[w])
         /\ ResourcesOK(l[w]) /\ UnderCaps(l[w]) /\ RequestUnderLimit(l[w])

----------------------------------------------------------------------------
(* What the chart renders.                                                 *)

\* The pod template of the Deployment; `image' stands for all it takes from values.
Template(s) == [image |-> s.image, limit |-> Amount(s.limit), volume |-> s.storage # None]

Templates(w) == {Template(s) : s \in Inputs[w]}

Floor(s) == IF s.hpa THEN s.min ELSE s.replicas
Ceiling(s) == IF s.hpa THEN s.max ELSE s.replicas

\* Mutant: a manifest without the field leaves no number at all.
Replicas_Null(old, new, current) ==
    CASE ~new.hpa -> new.replicas
      [] new.hpa /\ old # None /\ old.hpa -> current
      [] OTHER -> None

\* spec.replicas after helm has merged manifest `new' over `old': with the autoscaler on,
\* the chart leaves the field out; taking it out of a manifest resets it to 1.
Replicas(old, new, current) ==
    CASE ~new.hpa -> new.replicas
      [] new.hpa /\ old # None /\ old.hpa -> current
      [] OTHER -> 1

\* Mutant: a strategy that adds no pod, next to one that takes none away.
Surge_Down(n) == n \div 4

\* The strategy is the default one: 25% more pods, rounded up, 25% fewer, rounded down.
Surge(n) == (n + 3) \div 4

Unavailable(n) == n \div 4

\* Mutant: minAvailable set to the number of replicas.
MayDisrupt_MinAvailable(healthy, expected) == healthy - expected > 0

\* pdb.maxUnavailable; healthy and expected pods of the budget's selector.
MayDisrupt(healthy, expected) == healthy - (expected - 1) > 0

----------------------------------------------------------------------------
(* Pods and quota.                                                         *)

NoPods(w) == [t \in Templates(w) |-> [ready |-> 0, starting |-> 0]]

Ready(w) == SumFunction([t \in Templates(w) |-> pods[w][t].ready])
Count(w) == SumFunction([t \in Templates(w) |-> pods[w][t].ready + pods[w][t].starting])
Of(w, t) == pods[w][t].ready + pods[w][t].starting

UsedLimit(w) ==
    SumFunction([t \in Templates(w) |-> t.limit * (pods[w][t].ready + pods[w][t].starting)])

\* The namespace's ResourceQuota admits one more pod of template t.
PodFits(w, t) == /\ Count(w) < quota.namespace.pods
                 /\ UsedLimit(w) + t.limit <= quota.namespace.limit

VolumeFits(s) ==
    s.storage # None => /\ quota.namespace.claims >= 1
                        /\ Mebibytes(s.storage) <= quota.namespace.storage

\* Rancher admits another namespace limit into the project limit.
NamespacesFit(n) == \A r \in DOMAIN quota.namespace : n * quota.namespace[r] <= quota.project[r]

Exists(w) == release[w].status # "none"
Busy(w) == release[w].status \in {"installing", "upgrading", "rolling back"}
Current(w) == Template(release[w].spec)

NoRelease == [status |-> "none", spec |-> None, last |-> None]

----------------------------------------------------------------------------
(* The tenant, terraform and helm.                                         *)

Init ==
    /\ quota \in Quotas
    /\ list = [w \in Workloads |-> None]
    /\ namespaces = {}
    /\ release = [w \in Workloads |-> NoRelease]
    /\ desired = [w \in Workloads |-> 0]
    /\ pods = [w \in Workloads |-> NoPods(w)]
    /\ draining = {}
    /\ left = [edits |-> MaxEdits, load |-> MaxLoad, faults |-> MaxFaults, drains |-> MaxDrains]

Spend(b) == left[b] > 0 /\ left' = [left EXCEPT ![b] = @ - 1]

\* The tenant changes one workload; a list that is not accepted changes nothing.
Edit(w) ==
    /\ Spend("edits")
    /\ \E s \in Inputs[w] \cup {None} :
          /\ list' = [list EXCEPT ![w] = s]
          /\ list' # list
    /\ Accepts(list')
    /\ UNCHANGED <<quota, namespaces, release, desired, pods, draining>>

CreateNamespace(w) ==
    /\ list[w] # None /\ w \notin namespaces
    /\ NamespacesFit(Cardinality(namespaces) + 1)
    /\ namespaces' = namespaces \cup {w}
    /\ UNCHANGED <<quota, list, release, desired, pods, draining, left>>

\* helm install or upgrade of what is listed; helm compares with what was deployed last, and
\* refuses a release whose operation never ended ("stuck").  A claim over the quota fails it at once, and
\* atomic takes it back: nothing changes, so there is no step for it.
Deploy(w) ==
    /\ list[w] # None /\ w \in namespaces /\ ~Busy(w)
    /\ \/ release[w].status = "failed"
       \/ release[w].status \in {"none", "deployed"} /\ release[w].spec # list[w]
    /\ VolumeFits(list[w])
    /\ release' = [release EXCEPT ![w].status = IF Exists(w) THEN "upgrading" ELSE "installing",
                                  ![w].spec = list[w]]
    /\ desired' = [desired EXCEPT ![w] = Replicas(release[w].last, list[w], @)]
    /\ UNCHANGED <<quota, list, namespaces, pods, draining, left>>

Uninstall(w) ==
    /\ release' = [release EXCEPT ![w] = NoRelease]
    /\ desired' = [desired EXCEPT ![w] = 0]
    /\ pods' = [pods EXCEPT ![w] = NoPods(w)]
    /\ draining' = draining \ {w}

\* terraform destroys the release of a workload that is no longer listed, then its namespace.
Remove(w) ==
    /\ list[w] = None /\ Exists(w) /\ ~Busy(w)
    /\ Uninstall(w)
    /\ UNCHANGED <<quota, list, namespaces, left>>

RemoveNamespace(w) ==
    /\ list[w] = None /\ w \in namespaces /\ ~Exists(w)
    /\ namespaces' = namespaces \ {w}
    /\ UNCHANGED <<quota, list, release, desired, pods, draining, left>>

----------------------------------------------------------------------------
(* Kubernetes' controllers.                                                *)

CanCreate(w) ==
    /\ Exists(w)
    /\ Of(w, Current(w)) < desired[w]
    /\ Count(w) < desired[w] + Surge(desired[w])
    /\ PodFits(w, Current(w))

\* The Deployment controller adds a pod of the current template.
CreatePod(w) ==
    /\ CanCreate(w)
    /\ pods' = [pods EXCEPT ![w][Current(w)].starting = @ + 1]
    /\ UNCHANGED <<quota, list, namespaces, release, desired, draining, left>>

\* It takes a pod of template t away: too many pods in all, too many of the current
\* template, or an old one that the strategy can spare.
Spare(w, t, state) ==
    LET floor == desired[w] - Unavailable(desired[w])
        cur == Current(w)
    IN  \/ Count(w) > desired[w] + Surge(desired[w])
        \/ t = cur /\ Of(w, t) > desired[w]
        \/ t # cur /\ IF state = "starting" THEN Count(w) - floor - pods[w][cur].starting > 0
                                            ELSE Ready(w) > floor

CanDelete(w, t, state) ==
    /\ Exists(w)
    /\ pods[w][t][state] > 0
    /\ state = "ready" => pods[w][t].starting = 0
    /\ Spare(w, t, state)

DeletePod(w, t, state) ==
    /\ CanDelete(w, t, state)
    /\ pods' = [pods EXCEPT ![w][t][state] = @ - 1]
    /\ draining' \in {draining, draining \ {w}}   \* it may be the pod on the drained node
    /\ UNCHANGED <<quota, list, namespaces, release, desired, left>>

\* A pod becomes ready.  A volume is ReadWriteOnce: while another pod uses it, that takes a
\* place on the same node, which nothing promises.
BecomeReady(w, t) ==
    /\ pods[w][t].starting > 0
    /\ pods' = [pods EXCEPT ![w][t].starting = @ - 1, ![w][t].ready = @ + 1]
    /\ UNCHANGED <<quota, list, namespaces, release, desired, draining, left>>

WillStart(w, t) == pods[w][t].starting > 0 /\ (t.volume => Ready(w) = 0)

Scaled(w) == Exists(w) /\ release[w].spec.hpa

OutOfRange(w) == Scaled(w) /\ desired[w] \notin release[w].spec.min..release[w].spec.max

\* The autoscaler brings the number of replicas into its range ...
Clamp(w) ==
    /\ OutOfRange(w)
    /\ desired' = [desired EXCEPT ![w] = IF @ < release[w].spec.min THEN release[w].spec.min
                                                                     ELSE release[w].spec.max]
    /\ UNCHANGED <<quota, list, namespaces, release, pods, draining, left>>

\* ... and follows the load within it.
Scale(w) ==
    /\ Scaled(w) /\ Spend("load")
    /\ \E n \in release[w].spec.min..release[w].spec.max :
          n # desired[w] /\ desired' = [desired EXCEPT ![w] = n]
    /\ UNCHANGED <<quota, list, namespaces, release, pods, draining>>

\* An operator drains a node with a ready pod of w on it ...
StartDrain(w) ==
    /\ w \notin draining /\ Ready(w) > 0 /\ Spend("drains")
    /\ draining' = draining \cup {w}
    /\ UNCHANGED <<quota, list, namespaces, release, desired, pods>>

\* ... and asks again until the budget lets the pod be evicted.
Evict(w, t) ==
    /\ w \in draining /\ pods[w][t].ready > 0
    /\ MayDisrupt(Ready(w), desired[w])
    /\ pods' = [pods EXCEPT ![w][t].ready = @ - 1]
    /\ draining' = draining \ {w}
    /\ UNCHANGED <<quota, list, namespaces, release, desired, left>>

----------------------------------------------------------------------------
(* The end of a helm operation: wait = true, atomic = true.                *)

\* What helm waits for: ready pods of the current template.
RolledOut(w) ==
    pods[w][Current(w)].ready >= desired[w] - Unavailable(desired[w])

Settled(w) ==
    /\ ~CanCreate(w) /\ ~OutOfRange(w)
    /\ \A t \in Templates(w) :
          ~WillStart(w, t) /\ \A state \in {"ready", "starting"} : ~CanDelete(w, t, state)

\* A rollback that has not put the former settings back yet.
Unrestored(w) == release[w].status = "rolling back" /\ release[w].spec # release[w].last

HelmDone(w) ==
    /\ Busy(w) /\ ~Unrestored(w) /\ RolledOut(w)
    /\ release' = [release EXCEPT ![w].status = "deployed", ![w].last = release[w].spec]
    /\ UNCHANGED <<quota, list, namespaces, desired, pods, draining, left>>

\* Mutant: atomic is left out, a failed upgrade stays as it is.
HelmTimeout_NotAtomic(w) ==
    /\ Busy(w) /\ ~Unrestored(w) /\ ~RolledOut(w)
    /\ IF Settled(w) THEN UNCHANGED left ELSE Spend("faults")
    /\ release' = [release EXCEPT ![w].status = "failed"]
    /\ UNCHANGED <<quota, list, namespaces, desired, pods, draining>>

\* The default timeout of five minutes: an install is purged, an upgrade begins to be rolled
\* back, a rollback is given up and the release left as it is.  A cluster that makes progress
\* takes longer than that only rarely.
HelmTimeout(w) ==
    /\ Busy(w) /\ ~Unrestored(w) /\ ~RolledOut(w)
    /\ IF Settled(w) THEN UNCHANGED left ELSE Spend("faults")
    /\ IF release[w].status = "installing" THEN Uninstall(w)
       ELSE /\ release' = [release EXCEPT ![w].status =
                              IF @ = "upgrading" THEN "rolling back" ELSE "failed"]
            /\ UNCHANGED <<desired, pods, draining>>
    /\ UNCHANGED <<quota, list, namespaces>>

\* The rollback puts the former settings back, and then waits as an upgrade does ...
HelmRestore(w) ==
    /\ Unrestored(w)
    /\ release' = [release EXCEPT ![w].spec = release[w].last]
    /\ desired' = [desired EXCEPT ![w] = Replicas(release[w].spec, release[w].last, @)]
    /\ UNCHANGED <<quota, list, namespaces, pods, draining, left>>

\* ... or the cluster refuses it, and the update stays half done.
HelmRefused(w) ==
    /\ Unrestored(w) /\ Spend("faults")
    /\ release' = [release EXCEPT ![w].status = "failed"]
    /\ UNCHANGED <<quota, list, namespaces, desired, pods, draining>>

\* Helm dies with its job: the release is left as it is and stays under operation ...
HelmKilled(w) ==
    /\ Busy(w) /\ Spend("faults")
    /\ release' = [release EXCEPT ![w].status = "stuck"]
    /\ UNCHANGED <<quota, list, namespaces, desired, pods, draining>>

\* ... until an operator uninstalls it or rolls it back.
Free(w) ==
    /\ release[w].status = "stuck"
    /\ IF release[w].last = None THEN Uninstall(w)
       ELSE /\ release' = [release EXCEPT ![w].status = "rolling back"]
            /\ UNCHANGED <<desired, pods, draining>>
    /\ UNCHANGED <<quota, list, namespaces, left>>

Apply(w) == CreateNamespace(w) \/ Deploy(w) \/ Remove(w) \/ RemoveNamespace(w)
Helm(w) == HelmDone(w) \/ HelmTimeout(w) \/ HelmRestore(w) \/ HelmRefused(w) \/ HelmKilled(w)
Delete(w) == \E t \in Templates(w), state \in {"ready", "starting"} : DeletePod(w, t, state)
Drain(w) == \E t \in Templates(w) : Evict(w, t)

Next ==
    \E w \in Workloads :
        \/ Edit(w) \/ Apply(w) \/ Helm(w) \/ Free(w)
        \/ CreatePod(w) \/ Delete(w) \/ \E t \in Templates(w) : BecomeReady(w, t)
        \/ Clamp(w) \/ Scale(w) \/ StartDrain(w) \/ Drain(w)

Spec == Init /\ [][Next]_vars

\* The workflow is run again until it is green, controllers reconcile, helm answers or times
\* out and a drain is retried.  Edits, load, drains and the freeing of a release that helm
\* thinks is under operation are nobody's duty.
FairSpec ==
    /\ Spec
    /\ \A w \in Workloads :
         /\ WF_vars(Apply(w)) /\ WF_vars(HelmDone(w)) /\ WF_vars(HelmRestore(w))
         /\ WF_vars(HelmTimeout(w) /\ Settled(w))
         /\ WF_vars(CreatePod(w)) /\ WF_vars(Delete(w)) /\ WF_vars(Clamp(w))
         /\ WF_vars(Drain(w))
         /\ \A t \in Templates(w) : WF_vars(BecomeReady(w, t) /\ WillStart(w, t))

----------------------------------------------------------------------------
(* Properties.                                                             *)

MostReplicas == IF Caps.replicas > Caps.hpa THEN Caps.replicas ELSE Caps.hpa

TypeOK ==
    /\ quota \in Quotas
    /\ list \in [Workloads -> Settings \cup {None}]
    /\ namespaces \subseteq Workloads
    /\ release \in [Workloads ->
         [status : {"none", "installing", "upgrading", "rolling back", "deployed", "failed",
                   "stuck"},
          spec : Settings \cup {None}, last : Settings \cup {None}]]
    /\ desired \in [Workloads -> Nat]
    /\ \A w \in Workloads : pods[w] \in [Templates(w) -> [ready : Nat, starting : Nat]]
    /\ draining \subseteq Workloads
    /\ left \in [edits : Nat, load : Nat, faults : Nat, drains : Nat]

\* Whatever was listed, merged, rolled back or scaled, no workload runs more than the platform
\* allows (variables.tf:173-298): no release with a limit above the cap, or a request above its
\* limit, as Kubernetes reads the quantities, and no Deployment above the larger replica cap.
WithinCaps ==
    \A w \in Workloads :
        Exists(w) =>
             /\ Amount(release[w].spec.request) <= Amount(release[w].spec.limit)
             /\ Amount(release[w].spec.limit) <= Amount(Caps.limit)
             /\ desired[w] \in 1..MostReplicas

\* What the status that helm keeps is to the abstract release.
Mode(status) == CASE status \in {"installing", "upgrading"} -> "forward"
                  [] status = "rolling back" -> "back"
                  [] status = "failed" -> "broken"
                  [] status = "stuck" -> "stuck"
                  [] OTHER -> "rest"

Release(w) == INSTANCE AtomicRelease WITH
    Settings <- Inputs[w],
    listed <- list[w], running <- release[w].spec, good <- release[w].last,
    mode <- Mode(release[w].status), out <- Exists(w) /\ RolledOut(w)

\* Helm leaves each release as the abstract one: it comes to rest only with settings whose
\* pods are ready, those it was given or, put back in full, those it had before; an update
\* that cannot be taken back either is left as failed, a killed one as under operation, and
\* neither is ever taken for a release at rest (modules/deploy/resources.tf:19-20).
ImplementsAtomicRelease ==
    /\ \A w \in Workloads : Release(w)!Init
    /\ [][\A w \in Workloads : [Release(w)!Next]_(Release(w)!vars)]_vars

\* What the abstract release promises, as a property of the releases.
ReleasesAtRest == \A w \in Workloads : Release(w)!AtRest

\* There is room for what w asks for at its largest, with the pod a rolling update adds,
\* next to pods of what it ran before or was on the way to: a pod of an update that fills the
\* quota stays in the way of its own rollback.  And no volume: a second pod may wait for it.
\* Nor has a killed helm left the release under operation.
Roomy(w) ==
    LET specs == {list[w], release[w].spec, release[w].last} \ {None}
        most == CHOOSE n \in {Ceiling(s) : s \in specs} : \A s \in specs : n >= Ceiling(s)
        size == most + Surge(most)
    IN  /\ list[w] # None /\ release[w].status # "stuck"
        /\ NamespacesFit(Cardinality({v \in Workloads : list[v] # None \/ v \in namespaces}))
        /\ size <= quota.namespace.pods
        /\ \A s \in specs : s.storage = None /\ size * Amount(s.limit) <= quota.namespace.limit
        /\ \A t \in Templates(w) : Of(w, t) > 0 => size * t.limit <= quota.namespace.limit

Served(w) ==
    /\ release[w].status = "deployed" /\ release[w].spec = list[w]
    /\ pods[w][Current(w)].ready >= Floor(list[w])

\* A workload that fits is deployed and served in the end, whatever was updated, scaled,
\* drained, timed out or left half done on the way (modules/deploy/resources.tf:8-22).
RoomyWorkloadsServed ==
    \A w \in Workloads : <>[]Roomy(w) => <>[]Served(w)

\* The budget never stands in the way of a drain for ever while the replicas fit
\* (charts/platform-workload/values.yaml:27, templates/pdb.yaml).
RoomyDrainsEnd ==
    \A w \in Workloads : <>[]Roomy(w) => []<>(w \notin draining)

\* values.yaml:27 `Prefer maxUnavailable over minAvailable so HPA scale changes do not
\* deadlock drains': a drain ends, whatever the autoscaler asked for.
DrainsEnd == \A w \in Workloads : []<>(w \notin draining)

\* ADR-repo/0010:93 `common workloads can be deployed from one tfvars file': what stays listed
\* gets deployed (ADR-repo/0006:90, one release for each workload).
ListedDeployed ==
    \A w \in Workloads :
        [](list[w] # None => <>(\/ list[w] = None
                                \/ release[w].status = "deployed" /\ release[w].spec = list[w]))

=============================================================================
