------------------------- MODULE WorkloadRollout_proofs -------------------------
(***************************************************************************)
(* Proofs about WorkloadRollout for any workloads, settings, caps and      *)
(* quotas: types, the caps, and that each release implements the abstract  *)
(* AtomicRelease.                                                          *)
(***************************************************************************)
EXTENDS WorkloadRollout, TLAPS

\* What the validations promise of settings, in Kubernetes' reading of them.
Good(s) ==
    /\ s \in Settings
    /\ Amount(s.request) <= Amount(s.limit)
    /\ Amount(s.limit) <= Amount(Caps.limit)
    /\ s.replicas \in 1..MostReplicas
    /\ s.min \in 1..MostReplicas /\ s.max \in 1..MostReplicas

Status ==
    {"none", "installing", "upgrading", "rolling back", "deployed", "failed", "stuck"}
Releases == [status : Status, spec : Settings \cup {None}, last : Settings \cup {None}]

ReleaseType ==
    /\ list \in [Workloads -> Settings \cup {None}]
    /\ release \in [Workloads -> Releases]
    /\ desired \in [Workloads -> Nat]

ListGood == \A w \in Workloads : list[w] # None => Good(list[w])

\* What helm keeps of a release: it has settings, of the list or of an earlier list; settings
\* to return to if and only if there was a rollout; and these are its own when it is deployed.
Kept(r) ==
    /\ r.status = "none" => r.spec = None
    /\ r.status # "none" => Good(r.spec)
    /\ r.last # None => Good(r.last)
    /\ r.status \in {"none", "installing"} => r.last = None
    /\ r.status \in {"upgrading", "rolling back", "deployed", "failed"} => r.last # None
    /\ r.status = "deployed" => r.spec = r.last

SpecGood ==
    \A w \in Workloads : /\ Kept(release[w])
                         /\ Exists(w) => desired[w] \in 1..MostReplicas

Inv == ReleaseType /\ ListGood /\ SpecGood

-----------------------------------------------------------------------------
(* The arithmetic of the validations.                                      *)

LEMMA Reading ==
    ASSUME NEW q, q.n \in Nat, WellFormed(q)
    PROVE  Millicores(q) = Amount(q) /\ Amount(q) \in Nat
  <1>1. CASE q.unit = "m"
    BY <1>1 DEF Millicores, Amount
  <1>2. CASE q.unit = "cores"
    BY <1>2 DEF Millicores, Amount
  <1> QED
    BY <1>1, <1>2 DEF WellFormed

LEMMA MostFacts ==
    MostReplicas \in Nat /\ Caps.replicas <= MostReplicas /\ Caps.hpa <= MostReplicas
  BY RolloutAssumption DEF MostReplicas

LEMMA AcceptedGood ==
    ASSUME NEW l \in [Workloads -> Settings \cup {None}], Accepts(l),
           NEW w \in Workloads, l[w] # None
    PROVE  Good(l[w])
  <1> DEFINE s == l[w]
  <1>1. s \in Settings
    OBVIOUS
  <1>2. ReplicasOK(s) /\ HpaOK(s) /\ ResourcesOK(s) /\ UnderCaps(s) /\ RequestUnderLimit(s)
    BY DEF Accepts
  <1>3. /\ s.replicas \in Nat /\ s.min \in Nat /\ s.max \in Nat
        /\ s.request.n \in Nat /\ s.limit.n \in Nat
        /\ Caps.limit.n \in Nat /\ Caps.replicas \in Nat /\ Caps.hpa \in Nat
    BY <1>1, RolloutAssumption
  <1>4. WellFormed(s.request) /\ WellFormed(s.limit) /\ WellFormed(Caps.limit)
    BY <1>2 DEF ResourcesOK, UnderCaps
  <1>5. /\ Millicores(s.request) = Amount(s.request) /\ Amount(s.request) \in Nat
        /\ Millicores(s.limit) = Amount(s.limit) /\ Amount(s.limit) \in Nat
        /\ Millicores(Caps.limit) = Amount(Caps.limit) /\ Amount(Caps.limit) \in Nat
    BY <1>3, <1>4, Reading
  <1>6. Amount(s.limit) <= Amount(Caps.limit)
    BY <1>2, <1>5 DEF UnderCaps
  <1>7. Amount(s.request) - Amount(s.limit) <= 0
    BY <1>2, <1>5 DEF RequestUnderLimit
  <1>8. Amount(s.request) <= Amount(s.limit)
    BY <1>5, <1>7
  <1>9. s.replicas \in 1..MostReplicas
    BY <1>2, <1>3, MostFacts DEF ReplicasOK
  <1>10. s.min \in 1..MostReplicas /\ s.max \in 1..MostReplicas
    BY <1>2, <1>3, MostFacts DEF HpaOK
  <1> QED
    BY <1>1, <1>6, <1>8, <1>9, <1>10 DEF Good

\* What helm's merge leaves is in range.
LEMMA ReplicasGood ==
    ASSUME NEW old, NEW new, Good(new), NEW n \in Nat,
           old # None /\ old.hpa => n \in 1..MostReplicas
    PROVE  Replicas(old, new, n) \in 1..MostReplicas
  <1>1. new.hpa \in BOOLEAN /\ new.replicas \in 1..MostReplicas /\ 1 \in 1..MostReplicas
    BY RolloutAssumption, MostFacts DEF Good
  <1> QED
    BY <1>1 DEF Replicas

LEMMA NoneIsNotGood == ~Good(None)
  BY RolloutAssumption DEF Good

-----------------------------------------------------------------------------
(* The inductive invariant.                                                *)

LEMMA InitInv == Init => Inv
  <1> SUFFICES ASSUME Init PROVE Inv
    OBVIOUS
  <1>1. ReleaseType
    BY DEF Init, ReleaseType, Releases, Status, NoRelease
  <1>2. ListGood
    BY DEF Init, ListGood
  <1>3. SpecGood
    BY DEF Init, SpecGood, Kept, NoRelease, Exists
  <1> QED
    BY <1>1, <1>2, <1>3 DEF Inv

\* One release replaced, and a release put together.
Set(w, r) == [v \in Workloads |-> IF v = w THEN r ELSE release[v]]
Record(a, b, c) == [status |-> a, spec |-> b, last |-> c]

\* A step that touches the release of w alone, and leaves it good, keeps the invariant.
LEMMA OneRelease ==
    ASSUME Inv, NEW w \in Workloads, NEW r \in Releases, NEW n \in Nat,
           release' = Set(w, r),
           desired' = [desired EXCEPT ![w] = n], list' = list,
           Kept(r), r.status # "none" => n \in 1..MostReplicas
    PROVE  Inv'
  <1>1. ReleaseType'
    BY DEF Inv, ReleaseType, Set
  <1>2. ListGood'
    BY DEF Inv, ListGood, Good
  <1>3. \A v \in Workloads : /\ release'[v] = IF v = w THEN r ELSE release[v]
                             /\ desired'[v] = IF v = w THEN n ELSE desired[v]
    BY DEF Inv, ReleaseType, Set
  <1>4. SpecGood'
    <2> SUFFICES ASSUME NEW v \in Workloads
                 PROVE  /\ Kept(release[v])'
                        /\ Exists(v)' => desired'[v] \in 1..MostReplicas
      BY DEF SpecGood
    <2>1. CASE v = w
      BY <1>3, <2>1 DEF Exists, Kept, Good
    <2>2. CASE v # w
      BY <1>3, <2>2 DEF Inv, SpecGood, Exists, Kept, Good
    <2> QED
      BY <2>1, <2>2
  <1> QED
    BY <1>1, <1>2, <1>4 DEF Inv

\* A step that touches neither list nor release may set desired within the range.
LEMMA OneDesired ==
    ASSUME Inv, NEW w \in Workloads, NEW n \in 1..MostReplicas,
           UNCHANGED <<list, release>>, desired' = [desired EXCEPT ![w] = n]
    PROVE  Inv'
  <1>1. n \in Nat
    BY MostFacts
  <1>2. ReleaseType'
    BY <1>1 DEF Inv, ReleaseType
  <1>3. \A v \in Workloads : desired'[v] = IF v = w THEN n ELSE desired[v]
    BY DEF Inv, ReleaseType
  <1>4. ListGood'
    BY DEF Inv, ListGood, Good
  <1>5. SpecGood'
    BY <1>3 DEF Inv, SpecGood, Exists, Kept, Good
  <1> QED
    BY <1>2, <1>4, <1>5 DEF Inv

LEMMA Unmoved ==
    ASSUME Inv, UNCHANGED <<list, release, desired>>
    PROVE  Inv'
  BY DEF Inv, ReleaseType, ListGood, SpecGood, Exists, Kept, Good

\* The forms in which the actions change one release.
LEMMA ReleaseReplaced ==
    ASSUME ReleaseType, NEW w \in Workloads, NEW c
    PROVE  [release EXCEPT ![w] = c] = Set(w, c) /\ Set(w, c)[w] = c
  BY DEF ReleaseType, Set

LEMMA StatusUpdate ==
    ASSUME ReleaseType, NEW w \in Workloads, NEW a
    PROVE  [release EXCEPT ![w].status = a] = Set(w, Record(a, release[w].spec, release[w].last))
  <1>1. [release[w] EXCEPT !.status = a] = Record(a, release[w].spec, release[w].last)
    BY DEF ReleaseType, Releases, Record
  <1> QED
    BY <1>1, ReleaseReplaced

LEMMA SpecUpdate ==
    ASSUME ReleaseType, NEW w \in Workloads
    PROVE  \A a, b : [release EXCEPT ![w].status = a, ![w].spec = b]
                       = Set(w, Record(a, b, release[w].last))
  <1> SUFFICES ASSUME NEW a, NEW b
               PROVE  [release EXCEPT ![w].status = a, ![w].spec = b]
                        = Set(w, Record(a, b, release[w].last))
    OBVIOUS
  <1> DEFINE r == Record(a, release[w].spec, release[w].last)
  <1>1. [release EXCEPT ![w].status = a] = Set(w, r) /\ Set(w, r)[w] = r
    BY StatusUpdate, ReleaseReplaced
  <1>2. [r EXCEPT !.spec = b] = Record(a, b, release[w].last)
    BY DEF Record
  <1>3. \A c : [Set(w, r) EXCEPT ![w] = c] = Set(w, c)
    BY DEF Set
  <1> HIDE DEF r
  <1> QED
    BY <1>1, <1>2, <1>3

LEMMA LastUpdate ==
    ASSUME ReleaseType, NEW w \in Workloads
    PROVE  \A a, b : [release EXCEPT ![w].status = a, ![w].last = b]
                       = Set(w, Record(a, release[w].spec, b))
  <1> SUFFICES ASSUME NEW a, NEW b
               PROVE  [release EXCEPT ![w].status = a, ![w].last = b]
                        = Set(w, Record(a, release[w].spec, b))
    OBVIOUS
  <1> DEFINE r == Record(a, release[w].spec, release[w].last)
  <1>1. [release EXCEPT ![w].status = a] = Set(w, r) /\ Set(w, r)[w] = r
    BY StatusUpdate, ReleaseReplaced
  <1>2. [r EXCEPT !.last = b] = Record(a, release[w].spec, b)
    BY DEF Record
  <1>3. \A c : [Set(w, r) EXCEPT ![w] = c] = Set(w, c)
    BY DEF Set
  <1> HIDE DEF r
  <1> QED
    BY <1>1, <1>2, <1>3

LEMMA UninstallInv ==
    ASSUME Inv, NEW w \in Workloads, Uninstall(w), list' = list
    PROVE  Inv'
  <1>1. NoRelease \in Releases /\ NoRelease.status = "none" /\ Kept(NoRelease)
    BY DEF NoRelease, Releases, Status, Kept
  <1>2. release' = Set(w, NoRelease)
    BY ReleaseReplaced DEF Uninstall, Inv
  <1> QED
    BY <1>1, <1>2, OneRelease DEF Uninstall

LEMMA EditInv ==
    ASSUME Inv, NEW w \in Workloads, Edit(w)
    PROVE  Inv'
  <1>1. UNCHANGED <<release, desired>> /\ Accepts(list')
    BY DEF Edit
  <1>2. list' \in [Workloads -> Settings \cup {None}]
    BY RolloutAssumption DEF Edit, Inv, ReleaseType, Settings
  <1>3. ReleaseType'
    BY <1>1, <1>2 DEF Inv, ReleaseType
  <1>4. \A v \in Workloads : list'[v] # None => Good(list'[v])
    BY <1>1, <1>2, AcceptedGood
  <1>5. ListGood'
    BY <1>4 DEF ListGood, Good
  <1>6. SpecGood'
    BY <1>1 DEF Inv, SpecGood, Exists, Kept, Good
  <1> QED
    BY <1>3, <1>5, <1>6 DEF Inv

LEMMA DeployInv ==
    ASSUME Inv, NEW w \in Workloads, Deploy(w)
    PROVE  Inv'
  <1> DEFINE status == IF Exists(w) THEN "upgrading" ELSE "installing"
             r == Record(status, list[w], release[w].last)
             n == Replicas(release[w].last, list[w], desired[w])
  <1>1. Good(list[w]) /\ list[w] \in Settings
    BY DEF Inv, ListGood, Good, Deploy
  <1>2. release[w] \in Releases /\ desired[w] \in Nat /\ ReleaseType
    BY DEF Inv, ReleaseType
  <1>3. r \in Releases /\ r.status \in {"upgrading", "installing"}
    BY <1>1, <1>2 DEF Releases, Status, Record
  <1>4. release' = Set(w, r)
    <2>1. [release EXCEPT ![w].status = status, ![w].spec = list[w]] = Set(w, r)
      BY <1>2, SpecUpdate
    <2> QED
      BY <2>1 DEF Deploy
  <1>5. release[w].last # None => desired[w] \in 1..MostReplicas
    BY DEF Inv, SpecGood, Kept, Exists
  <1>6. n \in 1..MostReplicas /\ n \in Nat
    BY <1>1, <1>2, <1>5, ReplicasGood, MostFacts
  <1>7. Kept(r)
    <2>1. Kept(release[w]) /\ release[w].status \in {"none", "deployed", "failed"}
      BY DEF Inv, SpecGood, Deploy
    <2>2. r.status = status /\ r.spec = list[w] /\ r.last = release[w].last
      BY DEF Record
    <2> QED
      BY <1>1, <2>1, <2>2, NoneIsNotGood DEF Kept, Exists
  <1>8. desired' = [desired EXCEPT ![w] = n] /\ list' = list
    BY <1>2 DEF Deploy, ReleaseType
  <1> HIDE DEF r, n
  <1> QED
    BY <1>3, <1>4, <1>6, <1>7, <1>8, OneRelease

LEMMA HelmDoneInv ==
    ASSUME Inv, NEW w \in Workloads, HelmDone(w)
    PROVE  Inv'
  <1> DEFINE r == Record("deployed", release[w].spec, release[w].spec)
             n == desired[w]
  <1>1. release[w] \in Releases /\ desired[w] \in Nat /\ ReleaseType
    BY DEF Inv, ReleaseType
  <1>2. Good(release[w].spec) /\ n \in 1..MostReplicas
    BY DEF Inv, SpecGood, Kept, HelmDone, Busy, Exists
  <1>3. r \in Releases
    BY <1>1 DEF Releases, Status, Record
  <1>4. release' = Set(w, r)
    <2>1. [release EXCEPT ![w].status = "deployed", ![w].last = release[w].spec] = Set(w, r)
      BY <1>1, LastUpdate
    <2> QED
      BY <2>1 DEF HelmDone
  <1>5. desired' = [desired EXCEPT ![w] = n] /\ list' = list
    BY <1>1 DEF HelmDone, ReleaseType
  <1>6. Kept(r)
    <2>1. r.status = "deployed" /\ r.spec = release[w].spec /\ r.last = release[w].spec
      BY DEF Record
    <2> QED
      BY <1>2, <2>1, NoneIsNotGood DEF Kept
  <1> HIDE DEF r
  <1> QED
    BY <1>1, <1>2, <1>3, <1>4, <1>5, <1>6, OneRelease

\* A step that changes the status of a release and nothing else of it.
Moved(w, to) ==
    /\ release' = Set(w, Record(to, release[w].spec, release[w].last))
    /\ list' = list /\ desired' = desired

LEMMA MovedIf ==
    ASSUME ReleaseType, NEW w \in Workloads, NEW to,
           release' = [release EXCEPT ![w].status = to], list' = list, desired' = desired
    PROVE  Moved(w, to)
  BY StatusUpdate DEF Moved

\* How an operation goes on that does not get there, is refused, killed or freed.
LEMMA TroubleCases ==
    ASSUME ReleaseType, NEW w \in Workloads
    PROVE  /\ HelmTimeout(w) =>
                \/ release[w].status = "installing" /\ Uninstall(w) /\ list' = list
                \/ release[w].status = "upgrading" /\ Moved(w, "rolling back")
                \/ /\ release[w].status = "rolling back" /\ release[w].spec = release[w].last
                   /\ Moved(w, "failed")
           /\ HelmRefused(w) => release[w].status = "rolling back" /\ Moved(w, "failed")
           /\ HelmKilled(w) => Busy(w) /\ Moved(w, "stuck")
           /\ Free(w) =>
                /\ release[w].status = "stuck"
                /\ \/ release[w].last = None /\ Uninstall(w) /\ list' = list
                   \/ release[w].last # None /\ Moved(w, "rolling back")
  <1>1. ASSUME HelmTimeout(w), release[w].status = "upgrading" PROVE Moved(w, "rolling back")
    BY <1>1, MovedIf DEF HelmTimeout
  <1>2. ASSUME HelmTimeout(w), release[w].status = "rolling back"
        PROVE  release[w].spec = release[w].last /\ Moved(w, "failed")
    BY <1>2, MovedIf DEF HelmTimeout, Unrestored
  <1>3. ASSUME HelmTimeout(w), release[w].status = "installing"
        PROVE  Uninstall(w) /\ list' = list
    BY <1>3 DEF HelmTimeout
  <1>4. HelmTimeout(w) => release[w].status \in {"installing", "upgrading", "rolling back"}
    BY DEF HelmTimeout, Busy
  <1>5. HelmRefused(w) => release[w].status = "rolling back" /\ Moved(w, "failed")
    BY MovedIf DEF HelmRefused, Unrestored
  <1>6. HelmKilled(w) => Busy(w) /\ Moved(w, "stuck")
    BY MovedIf DEF HelmKilled
  <1>7. ASSUME Free(w), release[w].last # None PROVE Moved(w, "rolling back")
    BY <1>7, MovedIf DEF Free
  <1>8. Free(w) => /\ release[w].status = "stuck" /\ list' = list
                   /\ release[w].last = None => Uninstall(w)
    BY DEF Free
  <1> QED
    BY <1>1, <1>2, <1>3, <1>4, <1>5, <1>6, <1>7, <1>8

LEMMA MovedInv ==
    ASSUME Inv, NEW w \in Workloads, NEW to \in Status \ {"none", "installing", "deployed"},
           Moved(w, to), Exists(w), to # "stuck" => release[w].last # None
    PROVE  Inv'
  <1> DEFINE r == Record(to, release[w].spec, release[w].last)
             n == desired[w]
  <1>1. release[w] \in Releases /\ desired[w] \in Nat /\ ReleaseType
    BY DEF Inv, ReleaseType
  <1>2. r \in Releases
    BY <1>1 DEF Releases, Record
  <1>3. r.status = to /\ r.spec = release[w].spec /\ r.last = release[w].last
    BY DEF Record
  <1>4. Kept(release[w]) /\ n \in 1..MostReplicas
    BY DEF Inv, SpecGood
  <1>5. Kept(r)
    BY <1>3, <1>4 DEF Kept, Exists, Status
  <1>6. release' = Set(w, r) /\ list' = list /\ desired' = [desired EXCEPT ![w] = n]
    BY <1>1 DEF Moved, ReleaseType
  <1> HIDE DEF r
  <1> QED
    BY <1>1, <1>2, <1>4, <1>5, <1>6, OneRelease

LEMMA TroubleInv ==
    ASSUME Inv, NEW w \in Workloads,
           HelmTimeout(w) \/ HelmRefused(w) \/ HelmKilled(w) \/ Free(w)
    PROVE  Inv'
  <1>1. ReleaseType /\ Kept(release[w])
    BY DEF Inv, SpecGood
  <1>2. CASE Uninstall(w) /\ list' = list
    BY <1>2, UninstallInv
  <1>3. CASE \E to \in {"rolling back", "failed", "stuck"} :
                /\ Moved(w, to)
                /\ \/ release[w].status \in {"upgrading", "rolling back"}
                   \/ release[w].status = "installing" /\ to = "stuck"
                   \/ release[w].status = "stuck" /\ release[w].last # None
    <2>1. PICK to \in {"rolling back", "failed", "stuck"} :
                /\ Moved(w, to)
                /\ \/ release[w].status \in {"upgrading", "rolling back"}
                   \/ release[w].status = "installing" /\ to = "stuck"
                   \/ release[w].status = "stuck" /\ release[w].last # None
      BY <1>3
    <2>2. Exists(w) /\ (to # "stuck" => release[w].last # None)
      BY <1>1, <2>1 DEF Kept, Exists
    <2>3. to \in Status \ {"none", "installing", "deployed"}
      BY DEF Status
    <2> QED
      BY <2>1, <2>2, <2>3, MovedInv
  <1> QED
    BY <1>1, <1>2, <1>3, TroubleCases DEF Busy

LEMMA RestoreFacts ==
    ASSUME ReleaseType, NEW w \in Workloads, HelmRestore(w)
    PROVE  /\ release[w].status = "rolling back" /\ list' = list
           /\ release' = Set(w, Record("rolling back", release[w].last, release[w].last))
  <1>1. release[w].status = "rolling back" /\ list' = list
    BY DEF HelmRestore, Unrestored
  <1>2. [release[w] EXCEPT !.spec = release[w].last]
          = Record("rolling back", release[w].last, release[w].last)
    <2>1. ASSUME NEW c
          PROVE  [release[w] EXCEPT !.spec = c] = Record(release[w].status, c, release[w].last)
      BY DEF ReleaseType, Releases, Record
    <2> QED
      BY <1>1, <2>1
  <1> QED
    BY <1>1, <1>2, ReleaseReplaced DEF HelmRestore

LEMMA RestoreInv ==
    ASSUME Inv, NEW w \in Workloads, HelmRestore(w)
    PROVE  Inv'
  <1> DEFINE last == release[w].last
             r == Record("rolling back", last, last)
             n == Replicas(release[w].spec, last, desired[w])
  <1>1. release[w] \in Releases /\ desired[w] \in Nat /\ ReleaseType
    BY DEF Inv, ReleaseType
  <1>2. release' = Set(w, r) /\ list' = list /\ release[w].status = "rolling back"
    BY <1>1, RestoreFacts
  <1>3. Good(last) /\ last # None /\ desired[w] \in 1..MostReplicas
    BY <1>2 DEF Inv, SpecGood, Kept, Exists
  <1>4. r \in Releases
    BY <1>1 DEF Releases, Status, Record
  <1>5. n \in 1..MostReplicas
    BY <1>1, <1>3, ReplicasGood
  <1>6. n \in Nat
    BY <1>5, MostFacts
  <1>7. desired' = [desired EXCEPT ![w] = n]
    BY <1>1 DEF HelmRestore, ReleaseType
  <1>8. Kept(r)
    BY <1>3 DEF Record, Kept
  <1> HIDE DEF r, n
  <1> QED
    BY <1>2, <1>4, <1>5, <1>6, <1>7, <1>8, OneRelease

LEMMA ScalingInv ==
    ASSUME Inv, NEW w \in Workloads, Clamp(w) \/ Scale(w)
    PROVE  Inv'
  <1>1. Scaled(w) /\ UNCHANGED <<list, release>> /\ desired \in [Workloads -> Nat]
    BY DEF Clamp, Scale, OutOfRange, Inv, ReleaseType
  <1>2. Good(release[w].spec)
    BY <1>1 DEF Inv, SpecGood, Kept, Scaled, Exists
  <1>3. PICK n \in release[w].spec.min..release[w].spec.max \cup
                   {release[w].spec.min, release[w].spec.max} :
            desired' = [desired EXCEPT ![w] = n]
    BY <1>1 DEF Clamp, Scale
  <1>4. n \in 1..MostReplicas
    BY <1>2, <1>3, MostFacts DEF Good
  <1> QED
    BY <1>1, <1>3, <1>4, OneDesired

LEMMA NextInv == Inv /\ [Next]_vars => Inv'
  <1> SUFFICES ASSUME Inv, [Next]_vars PROVE Inv'
    OBVIOUS
  <1>1. ASSUME NEW w \in Workloads, Edit(w) PROVE Inv'
    BY <1>1, EditInv
  <1>2. ASSUME NEW w \in Workloads, Apply(w) PROVE Inv'
    <2>1. CASE CreateNamespace(w) \/ RemoveNamespace(w)
      BY <2>1, Unmoved DEF CreateNamespace, RemoveNamespace
    <2>2. CASE Deploy(w)
      BY <2>2, DeployInv
    <2>3. CASE Remove(w)
      BY <2>3, UninstallInv DEF Remove
    <2> QED
      BY <1>2, <2>1, <2>2, <2>3 DEF Apply
  <1>3. ASSUME NEW w \in Workloads, Helm(w) \/ Free(w) PROVE Inv'
    BY <1>3, HelmDoneInv, RestoreInv, TroubleInv DEF Helm
  <1>4. ASSUME NEW w \in Workloads, CreatePod(w) \/ Delete(w) \/ Drain(w) \/ StartDrain(w)
        PROVE  Inv'
    BY <1>4, Unmoved DEF CreatePod, Delete, DeletePod, Drain, Evict, StartDrain
  <1>5. ASSUME NEW w \in Workloads, NEW t \in Templates(w), BecomeReady(w, t) PROVE Inv'
    BY <1>5, Unmoved DEF BecomeReady
  <1>6. ASSUME NEW w \in Workloads, Clamp(w) \/ Scale(w) PROVE Inv'
    BY <1>6, ScalingInv
  <1>7. CASE UNCHANGED vars
    BY <1>7, Unmoved DEF vars
  <1> QED
    BY <1>1, <1>2, <1>3, <1>4, <1>5, <1>6, <1>7 DEF Next

LEMMA InvImplies == Inv => WithinCaps
  BY DEF Inv, SpecGood, Kept, Exists, WithinCaps, Good

-----------------------------------------------------------------------------
(* The results.                                                            *)

\* Every release keeps to the caps as Kubernetes reads them, and every Deployment to the
\* replica caps, through all edits, updates, rollbacks and scalings.
THEOREM WithinCapsHolds == Spec => []WithinCaps
  <1>1. Inv => WithinCaps
    BY InvImplies
  <1> QED
    BY <1>1, InitInv, NextInv, PTL DEF Spec

-----------------------------------------------------------------------------
(* Types.  A workload's settings are its own, so that the template of its  *)
(* release is one of its templates, and no pod is taken away that is not   *)
(* there.                                                                  *)

OwnSettings ==
    \A w \in Workloads : {list[w], release[w].spec, release[w].last} \subseteq Inputs[w] \cup {None}

Numbers == [ready : Nat, starting : Nat]

PodsType ==
    /\ DOMAIN pods = Workloads
    /\ \A w \in Workloads : pods[w] \in [Templates(w) -> Numbers]

RestType ==
    /\ quota \in Quotas /\ namespaces \subseteq Workloads /\ draining \subseteq Workloads
    /\ left \in [edits : Nat, load : Nat, faults : Nat, drains : Nat]

Typed == OwnSettings /\ PodsType /\ RestType

\* The template of a release is one of its workload's.
LEMMA CurrentType ==
    ASSUME Inv, OwnSettings, NEW w \in Workloads, Exists(w)
    PROVE  Current(w) \in Templates(w)
  <1>1. release[w].spec # None
    BY NoneIsNotGood DEF Inv, SpecGood, Kept, Exists
  <1>2. release[w].spec \in Inputs[w]
    BY <1>1 DEF OwnSettings
  <1> QED
    BY <1>2 DEF Current, Templates

LEMMA NoPodsType == ASSUME NEW w \in Workloads PROVE NoPods(w) \in [Templates(w) -> Numbers]
  BY DEF NoPods, Numbers

LEMMA PodsReplaced ==
    ASSUME PodsType, NEW w \in Workloads, NEW f \in [Templates(w) -> Numbers],
           pods' = [pods EXCEPT ![w] = f]
    PROVE  PodsType'
  BY DEF PodsType, Templates, Numbers

\* One more or one fewer pod of a template.
LEMMA PodsChanged ==
    ASSUME PodsType, NEW w \in Workloads, NEW t \in Templates(w), NEW p \in Numbers,
           pods' = [pods EXCEPT ![w] = [pods[w] EXCEPT ![t] = p]]
    PROVE  PodsType'
  <1>1. [pods[w] EXCEPT ![t] = p] \in [Templates(w) -> Numbers]
    BY DEF PodsType
  <1> QED
    BY <1>1, PodsReplaced

LEMMA CountsType ==
    ASSUME PodsType, NEW w \in Workloads, NEW t \in Templates(w)
    PROVE  /\ pods[w][t] \in Numbers /\ pods[w][t].ready \in Nat /\ pods[w][t].starting \in Nat
           /\ \A n \in Nat : [pods[w][t] EXCEPT !.ready = n] \in Numbers
           /\ \A n \in Nat : [pods[w][t] EXCEPT !.starting = n] \in Numbers
  BY DEF PodsType, Numbers

LEMMA SpendType ==
    ASSUME RestType, NEW b \in {"edits", "load", "faults", "drains"}, Spend(b)
    PROVE  left' \in [edits : Nat, load : Nat, faults : Nat, drains : Nat]
  <1>1. left[b] \in Nat
    BY DEF RestType
  <1>2. left[b] - 1 \in Nat
    BY <1>1 DEF Spend
  <1> QED
    BY <1>2 DEF RestType, Spend

LEMMA CreatePodType ==
    ASSUME Inv, Typed, NEW w \in Workloads, CreatePod(w)
    PROVE  PodsType'
  <1> DEFINE t == Current(w)
             n == pods[w][t].starting + 1
  <1>1. t \in Templates(w)
    BY CurrentType DEF CreatePod, CanCreate, Typed
  <1>2. pods[w][t].starting \in Nat
    BY <1>1, CountsType DEF Typed
  <1>3. n \in Nat
    BY <1>2
  <1>4. pods' = [pods EXCEPT ![w] = [pods[w] EXCEPT ![t] = [pods[w][t] EXCEPT !.starting = n]]]
    BY DEF CreatePod
  <1> HIDE DEF n, t
  <1>5. [pods[w][t] EXCEPT !.starting = n] \in Numbers
    BY <1>1, <1>3, CountsType DEF Typed
  <1> QED
    BY <1>1, <1>4, <1>5, PodsChanged DEF Typed

LEMMA DeletePodType ==
    ASSUME Typed, NEW w \in Workloads, NEW t \in Templates(w),
           NEW state \in {"ready", "starting"}, DeletePod(w, t, state)
    PROVE  PodsType'
  <1>1. pods[w][t][state] \in Nat /\ pods[w][t][state] > 0
    BY CountsType DEF DeletePod, CanDelete, Typed
  <1> DEFINE n == pods[w][t][state] - 1
  <1>2. n \in Nat
    BY <1>1
  <1>3. [pods[w][t] EXCEPT ![state] = n] \in Numbers
    BY <1>2, CountsType DEF Typed, Numbers
  <1>4. pods' = [pods EXCEPT ![w] = [pods[w] EXCEPT ![t] = [pods[w][t] EXCEPT ![state] = n]]]
    BY DEF DeletePod
  <1> QED
    BY <1>3, <1>4, PodsChanged DEF Typed

LEMMA EvictType ==
    ASSUME Typed, NEW w \in Workloads, NEW t \in Templates(w), Evict(w, t)
    PROVE  PodsType'
  <1> DEFINE n == pods[w][t].ready - 1
  <1>1. pods[w][t].ready \in Nat
    BY CountsType DEF Typed
  <1>2. pods[w][t].ready > 0
    BY DEF Evict
  <1>3. n \in Nat
    BY <1>1, <1>2
  <1>4. pods' = [pods EXCEPT ![w] = [pods[w] EXCEPT ![t] = [pods[w][t] EXCEPT !.ready = n]]]
    BY DEF Evict
  <1> HIDE DEF n
  <1>5. [pods[w][t] EXCEPT !.ready = n] \in Numbers
    BY <1>3, CountsType DEF Typed
  <1> QED
    BY <1>4, <1>5, PodsChanged DEF Typed

LEMMA OneReady ==
    ASSUME NEW r \in Numbers
    PROVE  LET q == [r EXCEPT !.starting = r.starting - 1]
           IN  [q EXCEPT !.ready = q.ready + 1] = [ready |-> r.ready + 1, starting |-> r.starting - 1]
  <1>1. PICK a \in Nat, b \in Nat : r = [ready |-> a, starting |-> b]
    BY DEF Numbers
  <1>2. [r EXCEPT !.starting = r.starting - 1] = [ready |-> a, starting |-> b - 1]
    BY <1>1
  <1> DEFINE q == [ready |-> a, starting |-> b - 1]
  <1>3. [q EXCEPT !.ready = q.ready + 1] = [ready |-> a + 1, starting |-> b - 1]
    OBVIOUS
  <1> QED
    BY <1>1, <1>2, <1>3

LEMMA BecomeReadyType ==
    ASSUME Typed, NEW w \in Workloads, NEW t \in Templates(w), BecomeReady(w, t)
    PROVE  PodsType'
  <1> DEFINE p == [ready |-> pods[w][t].ready + 1, starting |-> pods[w][t].starting - 1]
  <1>1. p \in Numbers /\ pods[w][t] \in Numbers
    BY CountsType DEF BecomeReady, Typed, Numbers
  <1>2. pods' = [pods EXCEPT ![w] = [pods[w] EXCEPT ![t] = p]]
    <2> DEFINE q == [pods[w][t] EXCEPT !.starting = pods[w][t].starting - 1]
               one == [pods EXCEPT ![w] = [pods[w] EXCEPT ![t] = q]]
    <2>1. one[w] = [pods[w] EXCEPT ![t] = q] /\ one[w][t] = q
      BY DEF Typed, PodsType
    <2>2. [q EXCEPT !.ready = q.ready + 1] = p
      BY <1>1, OneReady
    <2>3. pods' = [one EXCEPT ![w] = [one[w] EXCEPT ![t] = [q EXCEPT !.ready = q.ready + 1]]]
      BY <2>1 DEF BecomeReady
    <2> HIDE DEF p, q
    <2>4. [one EXCEPT ![w] = [one[w] EXCEPT ![t] = p]] = [pods EXCEPT ![w] = [pods[w] EXCEPT ![t] = p]]
      BY <2>1
    <2> QED
      BY <2>2, <2>3, <2>4
  <1> QED
    BY <1>1, <1>2, PodsChanged DEF Typed

\* Steps of the tenant, terraform and helm leave each workload its own settings.
LEMMA SettingsStep == ASSUME Inv, OwnSettings, [Next]_vars PROVE OwnSettings'
  <1>1. ReleaseType
    BY DEF Inv
  <1>2. ASSUME UNCHANGED <<list, release>> PROVE OwnSettings'
    BY <1>2 DEF OwnSettings
  <1>3. ASSUME NEW w \in Workloads, list' = list, NEW a,
               NEW b \in Inputs[w] \cup {None}, NEW c \in Inputs[w] \cup {None},
               release' = Set(w, Record(a, b, c))
        PROVE  OwnSettings'
    <2>1. \A v \in Workloads : release'[v] = IF v = w THEN Record(a, b, c) ELSE release[v]
      BY <1>3 DEF Set
    <2> QED
      BY <1>3, <2>1 DEF OwnSettings, Record
  <1>4. ASSUME NEW w \in Workloads, Uninstall(w), list' = list PROVE OwnSettings'
    <2>1. release' = Set(w, Record("none", None, None))
      BY <1>1, <1>4, ReleaseReplaced DEF Uninstall, NoRelease, Record
    <2> QED
      BY <1>3, <1>4, <2>1
  <1>5. ASSUME NEW w \in Workloads, Edit(w) PROVE OwnSettings'
    BY <1>1, <1>5 DEF Edit, OwnSettings, ReleaseType
  <1>6. ASSUME NEW w \in Workloads, Deploy(w) PROVE OwnSettings'
    <2> DEFINE status == IF Exists(w) THEN "upgrading" ELSE "installing"
    <2>1. [release EXCEPT ![w].status = status, ![w].spec = list[w]]
            = Set(w, Record(status, list[w], release[w].last))
      BY <1>1, SpecUpdate
    <2>2. release' = Set(w, Record(status, list[w], release[w].last)) /\ list' = list
      BY <1>6, <2>1 DEF Deploy
    <2> HIDE DEF status
    <2> QED
      BY <1>3, <2>2 DEF OwnSettings
  <1>7. ASSUME NEW w \in Workloads, HelmDone(w) PROVE OwnSettings'
    <2>1. [release EXCEPT ![w].status = "deployed", ![w].last = release[w].spec]
            = Set(w, Record("deployed", release[w].spec, release[w].spec))
      BY <1>1, LastUpdate
    <2>2. /\ release' = Set(w, Record("deployed", release[w].spec, release[w].spec))
          /\ list' = list
      BY <1>7, <2>1 DEF HelmDone
    <2> QED
      BY <1>3, <2>2 DEF OwnSettings
  <1>8. ASSUME NEW w \in Workloads,
               HelmTimeout(w) \/ HelmRefused(w) \/ HelmKilled(w) \/ Free(w)
        PROVE  OwnSettings'
    <2>1. ASSUME NEW to, Moved(w, to) PROVE OwnSettings'
      <3>1. release' = Set(w, Record(to, release[w].spec, release[w].last)) /\ list' = list
        BY <2>1 DEF Moved
      <3> QED
        BY <1>3, <3>1 DEF OwnSettings
    <2> QED
      BY <1>1, <1>4, <1>8, <2>1, TroubleCases
  <1>12. ASSUME NEW w \in Workloads, HelmRestore(w) PROVE OwnSettings'
    BY <1>1, <1>3, <1>12, RestoreFacts DEF OwnSettings
  <1>9. ASSUME NEW w \in Workloads,
               \/ CreateNamespace(w) \/ RemoveNamespace(w) \/ CreatePod(w) \/ Delete(w)
               \/ Drain(w) \/ StartDrain(w) \/ Clamp(w) \/ Scale(w)
               \/ \E t \in Templates(w) : BecomeReady(w, t)
        PROVE  OwnSettings'
    BY <1>2, <1>9 DEF CreateNamespace, RemoveNamespace, CreatePod, Delete, DeletePod, Drain,
                      Evict, StartDrain, Clamp, Scale, BecomeReady
  <1>10. CASE UNCHANGED vars
    BY <1>2, <1>10 DEF vars
  <1>11. ASSUME NEW w \in Workloads, Remove(w) PROVE OwnSettings'
    BY <1>4, <1>11 DEF Remove
  <1> QED
    BY <1>5, <1>6, <1>7, <1>8, <1>9, <1>10, <1>11, <1>12 DEF Next, Apply, Helm

LEMMA TypedStep == ASSUME Inv, Typed, [Next]_vars PROVE Typed'
  <1>1. OwnSettings'
    BY SettingsStep DEF Typed
  <1>2. ASSUME UNCHANGED pods PROVE PodsType'
    BY <1>2 DEF Typed, PodsType, Templates, Numbers
  <1>3. ASSUME NEW w \in Workloads, Uninstall(w)
        PROVE  PodsType' /\ draining' \subseteq Workloads
    BY <1>3, NoPodsType, PodsReplaced DEF Uninstall, Typed, RestType
  <1>4. ASSUME NEW w \in Workloads, Edit(w) \/ Scale(w) \/ StartDrain(w)
        PROVE  PodsType' /\ RestType'
    BY <1>2, <1>4, SpendType DEF Edit, Scale, StartDrain, Typed, RestType
  <1>5. ASSUME NEW w \in Workloads,
               \/ CreateNamespace(w) \/ RemoveNamespace(w) \/ Deploy(w) \/ Clamp(w)
               \/ HelmDone(w) \/ HelmRestore(w)
        PROVE  PodsType' /\ RestType'
    BY <1>2, <1>5 DEF CreateNamespace, RemoveNamespace, Deploy, Clamp, HelmDone, HelmRestore,
                      Typed, RestType
  <1>6. ASSUME NEW w \in Workloads, Remove(w) PROVE PodsType' /\ RestType'
    BY <1>3, <1>6 DEF Remove, Typed, RestType
  <1>7. ASSUME NEW w \in Workloads, HelmTimeout(w) PROVE PodsType' /\ RestType'
    <2>1. left' \in [edits : Nat, load : Nat, faults : Nat, drains : Nat]
      BY <1>7, SpendType DEF HelmTimeout, Typed, RestType
    <2>2. PodsType' /\ draining' \subseteq Workloads
      BY <1>2, <1>3, <1>7 DEF HelmTimeout, Busy, Typed, RestType
    <2> QED
      BY <1>7, <2>1, <2>2 DEF HelmTimeout, Typed, RestType
  <1>10. ASSUME NEW w \in Workloads, HelmRefused(w) \/ HelmKilled(w) PROVE PodsType' /\ RestType'
    BY <1>2, <1>10, SpendType DEF HelmRefused, HelmKilled, Typed, RestType
  <1>11. ASSUME NEW w \in Workloads, Free(w) PROVE PodsType' /\ RestType'
    <2>1. PodsType' /\ draining' \subseteq Workloads
      BY <1>2, <1>3, <1>11 DEF Free, Typed, RestType
    <2> QED
      BY <1>11, <2>1 DEF Free, Typed, RestType
  <1>8. ASSUME NEW w \in Workloads,
               CreatePod(w) \/ Delete(w) \/ Drain(w) \/ \E t \in Templates(w) : BecomeReady(w, t)
        PROVE  PodsType' /\ RestType'
    <2>1. PodsType'
      BY <1>8, CreatePodType, DeletePodType, EvictType, BecomeReadyType DEF Delete, Drain
    <2>2. RestType'
      BY <1>8 DEF CreatePod, Delete, DeletePod, Drain, Evict, BecomeReady, Typed, RestType
    <2> QED
      BY <2>1, <2>2
  <1>9. ASSUME UNCHANGED vars PROVE PodsType' /\ RestType'
    BY <1>2, <1>9 DEF vars, Typed, RestType
  <1> QED
    BY <1>1, <1>4, <1>5, <1>6, <1>7, <1>8, <1>9, <1>10, <1>11 DEF Typed, Next, Apply, Helm

\* Every variable keeps its type: no pod is counted below nothing or under a template
\* its workload never had.
THEOREM RolloutTypeCorrect == Spec => []TypeOK
  <1>1. Init => Typed
    <2> SUFFICES ASSUME Init PROVE Typed
      OBVIOUS
    <2>1. PodsType
      BY NoPodsType DEF Init, PodsType
    <2>2. OwnSettings
      BY DEF Init, OwnSettings, NoRelease
    <2>3. RestType
      BY RolloutAssumption DEF Init, RestType
    <2> QED
      BY <2>1, <2>2, <2>3 DEF Typed
  <1>2. Inv /\ Typed /\ [Next]_vars => Inv' /\ Typed'
    BY NextInv, TypedStep
  <1>3. Inv /\ Typed => TypeOK
    BY DEF Inv, ReleaseType, Releases, Status, Typed, PodsType, Numbers, RestType, TypeOK
  <1> QED
    BY <1>1, <1>2, <1>3, InitInv, PTL DEF Spec

-----------------------------------------------------------------------------
(* Each release implements the abstract one.                               *)

\* The modes of the abstract release.
LEMMA Modes ==
    /\ Mode("none") = "rest" /\ Mode("deployed") = "rest"
    /\ Mode("installing") = "forward" /\ Mode("upgrading") = "forward"
    /\ Mode("rolling back") = "back" /\ Mode("failed") = "broken" /\ Mode("stuck") = "stuck"
  BY DEF Mode

\* A step that leaves the list and the release of v as they are.
LEMMA Drifts ==
    ASSUME NEW v \in Workloads, list'[v] = list[v], release'[v] = release[v]
    PROVE  Release(v)!Next
  BY DEF Release!Next, Release!Drift

\* A step on the release of w is nothing to the others.
LEMMA OneReleaseStep ==
    ASSUME NEW w \in Workloads, NEW r, release' = Set(w, r), list' = list, Release(w)!Next
    PROVE  \A v \in Workloads : Release(v)!Next
  <1>1. ASSUME NEW v \in Workloads, v # w PROVE Release(v)!Next
    BY <1>1, Drifts DEF Set
  <1> QED
    BY <1>1

\* The release of w before and after.
LEMMA ThisRelease ==
    ASSUME NEW w \in Workloads, NEW a, NEW b, NEW c, release' = Set(w, Record(a, b, c))
    PROVE  release'[w].status = a /\ release'[w].spec = b /\ release'[w].last = c
  BY DEF Set, Record

LEMMA DeployStarts ==
    ASSUME Inv, NEW w \in Workloads, Deploy(w)
    PROVE  Release(w)!Start /\ list' = list /\ \E r : release' = Set(w, r)
  <1> DEFINE status == IF Exists(w) THEN "upgrading" ELSE "installing"
             last == release[w].last
  <1>1. release' = Set(w, Record(status, list[w], last))
    BY SpecUpdate DEF Deploy, Inv
  <1>2. /\ release[w].status \in {"none", "deployed", "failed"}
        /\ list[w] # None /\ list' = list
    BY DEF Deploy
  <1>3. status \in {"installing", "upgrading"}
    OBVIOUS
  <1>4. release'[w].status = status /\ release'[w].spec = list[w] /\ release'[w].last = last
    BY <1>1, ThisRelease
  <1> HIDE DEF status
  <1>5. Mode(release[w].status) \in {"rest", "broken"} /\ Mode(release'[w].status) = "forward"
    BY <1>2, <1>3, <1>4, Modes
  <1>6. Release(w)!Start
    BY <1>2, <1>4, <1>5 DEF Release!Start
  <1> QED
    BY <1>1, <1>2, <1>6

\* Helm is done with what is rolled out: the new settings, or the former ones once more.
LEMMA DoneRests ==
    ASSUME Inv, NEW w \in Workloads, HelmDone(w)
    PROVE  /\ Release(w)!Complete \/ Release(w)!BackAtRest
           /\ list' = list /\ \E r : release' = Set(w, r)
  <1> DEFINE spec == release[w].spec
  <1>1. release' = Set(w, Record("deployed", spec, spec))
    BY LastUpdate DEF HelmDone, Inv
  <1>2. /\ list' = list /\ Busy(w) /\ ~Unrestored(w)
        /\ Exists(w) /\ RolledOut(w)
    BY DEF HelmDone, Busy, Exists
  <1>3. /\ release'[w].status = "deployed" /\ release'[w].spec = spec /\ release'[w].last = spec
    BY <1>1, ThisRelease
  <1>4. Mode(release'[w].status) = "rest"
    BY <1>3, Modes
  <1>5. CASE release[w].status \in {"installing", "upgrading"}
    <2>1. Mode(release[w].status) = "forward"
      BY <1>5, Modes
    <2> QED
      BY <1>1, <1>2, <1>3, <1>4, <2>1 DEF Release!Complete
  <1>6. CASE release[w].status = "rolling back"
    <2>1. Mode(release[w].status) = "back" /\ spec = release[w].last
      BY <1>2, <1>6, Modes DEF Unrestored
    <2> QED
      BY <1>1, <1>2, <1>3, <1>4, <2>1 DEF Release!BackAtRest
  <1> QED
    BY <1>2, <1>5, <1>6 DEF Busy

\* To uninstall is to remove a release that is not listed, or to purge one that was never
\* rolled out.
LEMMA UninstallEnds ==
    ASSUME Inv, NEW w \in Workloads, Uninstall(w), list' = list,
           \/ list[w] = None /\ ~Busy(w)
           \/ /\ release[w].status \in {"installing", "stuck"} /\ release[w].last = None
              /\ release[w].status = "installing" => ~RolledOut(w)
    PROVE  (Release(w)!Purge \/ Release(w)!Remove) /\ \E r : release' = Set(w, r)
  <1>1. release' = Set(w, Record("none", None, None))
    BY ReleaseReplaced DEF Uninstall, NoRelease, Record, Inv
  <1>2. release'[w].status = "none" /\ release'[w].spec = None /\ release'[w].last = None
    BY <1>1, ThisRelease
  <1>3. Mode(release'[w].status) = "rest"
    BY <1>2, Modes
  <1>4. CASE list[w] = None /\ ~Busy(w)
    <2>1. release[w].status \in {"none", "deployed", "failed", "stuck"}
      BY <1>4 DEF Inv, ReleaseType, Releases, Status, Busy
    <2>2. Mode(release[w].status) \notin {"forward", "back"}
      BY <2>1, Modes
    <2> QED
      BY <1>1, <1>2, <1>3, <1>4, <2>2 DEF Release!Remove
  <1>5. CASE /\ release[w].status \in {"installing", "stuck"} /\ release[w].last = None
             /\ release[w].status = "installing" => ~RolledOut(w)
    <2>1. /\ Mode(release[w].status) \in {"forward", "stuck"}
          /\ Mode(release[w].status) = "forward" => ~RolledOut(w)
      BY <1>5, Modes
    <2> QED
      BY <1>1, <1>2, <1>3, <1>5, <2>1 DEF Release!Purge
  <1> QED
    BY <1>4, <1>5

\* What does not get there turns back, or is left broken or stuck.
LEMMA TroubleShows ==
    ASSUME Inv, NEW w \in Workloads,
           HelmTimeout(w) \/ HelmRefused(w) \/ HelmKilled(w) \/ Free(w)
    PROVE  Release(w)!Next /\ list' = list /\ \E r : release' = Set(w, r)
  <1>1. ReleaseType /\ Kept(release[w])
    BY DEF Inv, SpecGood
  <1>2. ASSUME NEW to, Moved(w, to)
        PROVE  /\ list' = list /\ \E r : release' = Set(w, r)
               /\ release'[w].status = to
               /\ release'[w].spec = release[w].spec /\ release'[w].last = release[w].last
    BY <1>2, ThisRelease DEF Moved
  <1>3. HelmTimeout(w) => ~RolledOut(w)
    BY DEF HelmTimeout
  <1>4. CASE HelmTimeout(w) /\ release[w].status = "upgrading" /\ Moved(w, "rolling back")
    <2>1. Mode(release[w].status) = "forward" /\ Mode(release'[w].status) = "back"
      BY <1>2, <1>4, Modes
    <2>2. Release(w)!TurnBack
      BY <1>1, <1>2, <1>3, <1>4, <2>1 DEF Release!TurnBack, Kept
    <2> QED
      BY <1>2, <1>4, <2>2 DEF Release!Next
  <1>5. CASE /\ HelmTimeout(w) /\ release[w].status = "rolling back"
             /\ release[w].spec = release[w].last /\ Moved(w, "failed")
    <2>1. Mode(release[w].status) = "back" /\ Mode(release'[w].status) = "broken"
      BY <1>2, <1>5, Modes
    <2>2. Release(w)!GiveUp
      BY <1>2, <1>3, <1>5, <2>1 DEF Release!GiveUp
    <2> QED
      BY <1>2, <1>5, <2>2 DEF Release!Next
  <1>6. CASE HelmRefused(w)
    <2>1. /\ release[w].status = "rolling back" /\ Moved(w, "failed")
          /\ release[w].spec # release[w].last
      BY <1>1, <1>6, TroubleCases DEF HelmRefused, Unrestored
    <2>2. Mode(release[w].status) = "back" /\ Mode(release'[w].status) = "broken"
      BY <1>2, <2>1, Modes
    <2>3. Release(w)!GiveUp
      BY <1>2, <2>1, <2>2 DEF Release!GiveUp
    <2> QED
      BY <1>2, <2>1, <2>3 DEF Release!Next
  <1>7. CASE HelmKilled(w)
    <2>1. Busy(w) /\ Moved(w, "stuck")
      BY <1>1, <1>7, TroubleCases
    <2>2. Mode(release[w].status) \in {"forward", "back"} /\ Mode(release'[w].status) = "stuck"
      BY <1>2, <2>1, Modes DEF Busy
    <2>3. Release(w)!Die
      BY <1>2, <2>1, <2>2 DEF Release!Die
    <2> QED
      BY <1>2, <2>1, <2>3 DEF Release!Next
  <1>8. CASE Free(w) /\ release[w].last # None
    <2>1. release[w].status = "stuck" /\ Moved(w, "rolling back")
      BY <1>1, <1>8, TroubleCases
    <2>2. Mode(release[w].status) = "stuck" /\ Mode(release'[w].status) = "back"
      BY <1>2, <2>1, Modes
    <2>3. Release(w)!TurnBack
      BY <1>2, <1>8, <2>1, <2>2 DEF Release!TurnBack
    <2> QED
      BY <1>2, <2>1, <2>3 DEF Release!Next
  <1>9. CASE /\ Uninstall(w) /\ list' = list /\ release[w].status \in {"installing", "stuck"}
             /\ release[w].last = None
             /\ release[w].status = "installing" => HelmTimeout(w)
    BY <1>3, <1>9, UninstallEnds DEF Release!Next
  <1>10. CASE HelmTimeout(w) /\ release[w].status = "installing"
    <2>1. Uninstall(w) /\ list' = list /\ release[w].last = None
      BY <1>1, <1>10, TroubleCases DEF Kept
    <2> QED
      BY <1>9, <1>10, <2>1
  <1>11. CASE Free(w) /\ release[w].last = None
    BY <1>1, <1>9, <1>11, TroubleCases
  <1>12. HelmTimeout(w) =>
            \/ release[w].status = "installing"
            \/ release[w].status = "upgrading" /\ Moved(w, "rolling back")
            \/ /\ release[w].status = "rolling back" /\ release[w].spec = release[w].last
               /\ Moved(w, "failed")
    BY <1>1, TroubleCases
  <1> QED
    BY <1>4, <1>5, <1>6, <1>7, <1>8, <1>10, <1>11, <1>12

LEMMA RestorePutsBack ==
    ASSUME Inv, NEW w \in Workloads, HelmRestore(w)
    PROVE  Release(w)!PutBack /\ list' = list /\ \E r : release' = Set(w, r)
  <1>1. /\ release[w].status = "rolling back" /\ list' = list
        /\ release' = Set(w, Record("rolling back", release[w].last, release[w].last))
    BY RestoreFacts DEF Inv
  <1>2. /\ release'[w].status = "rolling back"
        /\ release'[w].spec = release[w].last /\ release'[w].last = release[w].last
    <2> DEFINE Is(a, b, c) == release'[w].status = a /\ release'[w].spec = b /\ release'[w].last = c
    <2>1. ASSUME NEW a, NEW b, NEW c, release' = Set(w, Record(a, b, c)) PROVE Is(a, b, c)
      BY <2>1, ThisRelease
    <2>2. Is("rolling back", release[w].last, release[w].last)
      <3> HIDE DEF Is
      <3> QED
        BY <1>1, <2>1
    <2> QED
      BY <2>2
  <1>3. Mode(release[w].status) = "back" /\ Mode(release'[w].status) = "back"
    BY <1>1, <1>2, Modes
  <1>4. Release(w)!PutBack
    BY <1>1, <1>2, <1>3 DEF Release!PutBack
  <1> QED
    BY <1>1, <1>4

LEMMA EditLists ==
    ASSUME Inv, NEW w \in Workloads, Edit(w)
    PROVE  \A v \in Workloads : Release(v)!Next
  <1>1. UNCHANGED release /\ ReleaseType
    BY DEF Edit, Inv
  <1>2. PICK s \in Inputs[w] \cup {None} : list' = [list EXCEPT ![w] = s]
    BY DEF Edit
  <1>3. list'[w] = s /\ \A v \in Workloads \ {w} : list'[v] = list[v]
    BY <1>1, <1>2 DEF ReleaseType
  <1>4. Release(w)!List
    BY <1>1, <1>3 DEF Release!List
  <1>5. ASSUME NEW v \in Workloads, v # w PROVE Release(v)!Next
    BY <1>1, <1>3, <1>5, Drifts
  <1> QED
    BY <1>4, <1>5 DEF Release!Next

LEMMA ReleaseStep ==
    ASSUME Inv, [Next]_vars
    PROVE  \A w \in Workloads : [Release(w)!Next]_(Release(w)!vars)
  <1> DEFINE Goal == \A w \in Workloads : Release(w)!Next
  <1>1. ASSUME UNCHANGED <<list, release>> PROVE Goal
    BY <1>1, Drifts
  <1>2. ASSUME NEW w \in Workloads, Edit(w) PROVE Goal
    BY <1>2, EditLists
  <1>3. ASSUME NEW w \in Workloads, Helm(w) \/ Free(w) PROVE Goal
    <2>1. Release(w)!Next /\ list' = list /\ \E r : release' = Set(w, r)
      BY <1>3, DoneRests, RestorePutsBack, TroubleShows DEF Helm, Release!Next
    <2> QED
      BY <2>1, OneReleaseStep
  <1>4. ASSUME NEW w \in Workloads, Apply(w) PROVE Goal
    <2>1. CASE Deploy(w)
      <3>1. Release(w)!Next /\ list' = list /\ \E r : release' = Set(w, r)
        BY <2>1, DeployStarts DEF Release!Next
      <3> QED
        BY <3>1, OneReleaseStep
    <2>2. CASE Remove(w)
      <3>1. Uninstall(w) /\ list' = list /\ list[w] = None /\ ~Busy(w)
        BY <2>2 DEF Remove
      <3>2. Release(w)!Next /\ \E r : release' = Set(w, r)
        BY <3>1, UninstallEnds DEF Release!Next
      <3> QED
        BY <3>1, <3>2, OneReleaseStep
    <2> QED
      BY <1>1, <1>4, <2>1, <2>2 DEF Apply, CreateNamespace, RemoveNamespace
  <1>5. ASSUME NEW w \in Workloads,
               \/ CreatePod(w) \/ Delete(w) \/ \E t \in Templates(w) : BecomeReady(w, t)
               \/ Clamp(w) \/ Scale(w) \/ StartDrain(w) \/ Drain(w)
        PROVE  Goal
    BY <1>1, <1>5 DEF CreatePod, Delete, DeletePod, BecomeReady, Clamp, Scale, StartDrain,
                      Drain, Evict
  <1>6. CASE UNCHANGED vars
    BY <1>1, <1>6 DEF vars
  <1> QED
    BY <1>2, <1>3, <1>4, <1>5, <1>6 DEF Next

\* Whatever is edited, updated, timed out, rolled back, killed or removed, each workload's
\* release behaves as the abstract one: helm with atomic and wait leaves it at rest only with
\* settings that are rolled out, and shows what it could not take back.
THEOREM ReleaseIsAtomic == Spec => ImplementsAtomicRelease
  <1>1. Init => \A w \in Workloads : Release(w)!Init
    <2>1. ASSUME Init, NEW w \in Workloads PROVE Release(w)!Init
      <3>1. list[w] = None /\ release[w] = NoRelease
        BY <2>1 DEF Init
      <3>2. release[w].status = "none"
        BY <3>1 DEF NoRelease
      <3>3. Mode(release[w].status) = "rest"
        BY <3>2 DEF Mode
      <3> QED
        BY <3>1, <3>3 DEF NoRelease, Release!Init
    <2> QED
      BY <2>1
  <1>2. Inv /\ [Next]_vars => [\A w \in Workloads : [Release(w)!Next]_(Release(w)!vars)]_vars
    BY ReleaseStep
  <1> QED
    BY <1>1, <1>2, InitInv, NextInv, PTL DEF Spec, ImplementsAtomicRelease

\* A release that helm holds for deployed, or for none, has the settings it last rolled out,
\* or is gone with what it had; one whose rollback failed or was killed is not so held.
THEOREM ReleasesAtRestHolds == Spec => []ReleasesAtRest
  <1>1. Inv => ReleasesAtRest
    <2> SUFFICES ASSUME Inv, NEW w \in Workloads, Mode(release[w].status) = "rest"
                 PROVE  release[w].spec = release[w].last
      BY DEF ReleasesAtRest, Release!AtRest
    <2>1. release[w].status \in {"none", "deployed"}
      BY Modes DEF Inv, ReleaseType, Releases, Status
    <2> QED
      BY <2>1 DEF Inv, SpecGood, Kept
  <1> QED
    BY <1>1, InitInv, NextInv, PTL DEF Spec
=============================================================================
