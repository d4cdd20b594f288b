-------------------------- MODULE TenantApply_proofs ---------------------------
(***************************************************************************)
(* Proofs about TenantApply for any set of workloads and charts: resources *)
(* stay nested and are kept as the abstract inventory says, a green apply  *)
(* leaves what was planned, and a failure takes only what waits for it.    *)
(***************************************************************************)
EXTENDS TenantApply, TLAPS

Create(a) == [do |-> "create", at |-> a]
Destroy(a) == [do |-> "destroy", at |-> a]
Update(a) == [do |-> "update", at |-> a]

\* An operation that the plan says is still needed.
Sound(op) ==
    CASE op.do = "create"  -> op.at \in Wanted(goal) \ have
      [] op.do = "destroy" -> op.at \in have \ Wanted(goal)
      [] op.do = "update"  -> /\ op.at \in have \cap Wanted(goal)
                              /\ op.at[1] = "release"

\* While an apply runs, whatever separates what exists from the planned list
\* is an operation that is still to do or has failed, and all there is to do does.
PlanCovers ==
    phase = "applying" =>
        /\ todo \cap failed = {}
        /\ \A op \in todo : Sound(op)
        /\ \A a \in Wanted(goal) \ have : Create(a) \in todo \cup failed
        /\ \A a \in have \ Wanted(goal) : Destroy(a) \in todo \cup failed
        /\ \A k \in Listed(goal) :
             <<"release", k>> \in have /\ chart[k] # goal[k] =>
                \/ Update(<<"release", k>>) \in todo \cup failed
                \/ Create(<<"release", k>>) \in failed

\* Between applies nothing is left to do or to save.
Idle == phase = "idle" => todo = {} /\ failed = {} /\ unsaved = {}

\* What needs an object made since the last save was itself made since then.
Fresh == \A b \in have : \A a \in Needs[b] : a \in unsaved => b \in unsaved

Inv == TypeOK /\ PlanCovers /\ Idle /\ Nested /\ Fresh /\ OkMeansApplied

-----------------------------------------------------------------------------
(* Addresses and the order of operations.                                  *)

LEMMA WantedFacts ==
    ASSUME NEW w \in [Keys -> Charts \cup {NoChart}]
    PROVE  /\ Project \in Wanted(w)
           /\ Wanted(w) \subseteq Addresses
           /\ \A t \in PerWorkload, k \in Keys :
                <<t, k>> \in Wanted(w) <=> k \in Listed(w)
  <1>1. "project" \notin PerWorkload
    BY DEF PerWorkload
  <1> QED
    BY <1>1 DEF Wanted, Addresses, Project, Listed

LEMMA AddressCases ==
    ASSUME NEW a \in Addresses
    PROVE  \/ a = Project /\ a[1] = "project"
           \/ \E t \in PerWorkload, k \in Keys : a = <<t, k>> /\ a[1] = t /\ a[2] = k
  BY DEF Addresses, Project

LEMMA OpFacts ==
    ASSUME NEW op \in Ops
    PROVE  /\ op.at \in Addresses
           /\ op.do \in {"create", "update", "destroy"}
           /\ op.do = "create" => op = Create(op.at)
           /\ op.do = "destroy" => op = Destroy(op.at)
           /\ op.do = "update" => op = Update(op.at)
  BY DEF Ops, Create, Destroy, Update

LEMMA MakeOps ==
    ASSUME NEW a \in Addresses
    PROVE  /\ Create(a) \in Ops /\ Create(a).do = "create" /\ Create(a).at = a
           /\ Destroy(a) \in Ops /\ Destroy(a).do = "destroy" /\ Destroy(a).at = a
           /\ Update(a) \in Ops /\ Update(a).do = "update" /\ Update(a).at = a
  BY DEF Ops, Create, Destroy, Update

\* A resource is created only when everything it refers to exists.
LEMMA CreateAfterRefs ==
    ASSUME Inv, NEW op \in todo, Ready(op), op.do = "create",
           NEW a \in Wanted(goal), a[1] \in Refs[op.at[1]]
    PROVE  a \in have
  <1>1. phase = "applying" /\ goal \in [Keys -> Charts \cup {NoChart}]
    BY DEF Inv, TypeOK, Ready
  <1>2. a \in Addresses
    BY <1>1, WantedFacts
  <1>3. SUFFICES ASSUME a \notin have PROVE FALSE
    OBVIOUS
  <1>4. Create(a) \in todo \cup failed
    BY <1>1, <1>3 DEF Inv, PlanCovers
  <1>5. Before(Create(a), op)
    BY <1>2, MakeOps DEF Before
  <1> QED
    BY <1>4, <1>5 DEF Ready

\* A resource is destroyed only when nothing refers to it any more.
LEMMA DestroyAfterReferrers ==
    ASSUME Inv, NEW op \in todo, Ready(op), op.do = "destroy",
           NEW a \in Addresses \ Wanted(goal), op.at[1] \in Refs[a[1]]
    PROVE  a \notin have
  <1>1. phase = "applying"
    BY DEF Ready
  <1>2. SUFFICES ASSUME a \in have PROVE FALSE
    OBVIOUS
  <1>3. Destroy(a) \in todo \cup failed
    BY <1>1, <1>2 DEF Inv, PlanCovers
  <1>4. Before(Destroy(a), op)
    BY MakeOps DEF Before
  <1> QED
    BY <1>3, <1>4 DEF Ready

\* The references have no cycle: as long as nothing has failed, some operation
\* can run.
LEMMA NotStuck ==
    ASSUME phase = "applying", todo \subseteq Ops, todo # {}, failed = {}
    PROVE  \E op \in todo : Ready(op)
  <1>1. \A op \in todo : op.at[1] \in {"project"} \cup PerWorkload
    BY OpFacts, AddressCases
  <1>2. CASE \E op \in todo : op.do # "destroy"
    <2> DEFINE Has(t) == \E op \in todo : op.do # "destroy" /\ op.at[1] = t
    <2>1. ASSUME NEW t \in {"project"} \cup PerWorkload, Has(t), \A d \in Refs[t] : ~Has(d)
          PROVE  \E op \in todo : Ready(op)
      BY <2>1 DEF Ready, Before
    <2>2. CASE Has("project")
      BY <2>1, <2>2 DEF Refs
    <2>3. CASE ~Has("project") /\ Has("namespace")
      BY <2>1, <2>3 DEF Refs, PerWorkload
    <2>4. CASE ~Has("project") /\ ~Has("namespace") /\ Has("account")
      BY <2>1, <2>4 DEF Refs, PerWorkload
    <2>5. CASE ~Has("project") /\ ~Has("namespace") /\ Has("role")
      BY <2>1, <2>5 DEF Refs, PerWorkload
    <2>6. CASE ~Has("project") /\ ~Has("namespace") /\ Has("release")
      BY <2>1, <2>6 DEF Refs, PerWorkload
    <2>7. CASE /\ ~Has("project") /\ ~Has("namespace") /\ ~Has("account") /\ ~Has("role")
               /\ Has("binding")
      BY <2>1, <2>7 DEF Refs, PerWorkload
    <2>8. Has("project") \/ Has("namespace") \/ Has("account") \/ Has("role")
            \/ Has("binding") \/ Has("release")
      BY <1>1, <1>2 DEF PerWorkload
    <2> QED
      BY <2>2, <2>3, <2>4, <2>5, <2>6, <2>7, <2>8
  <1>3. CASE \A op \in todo : op.do = "destroy"
    <2> DEFINE Has(t) == \E op \in todo : op.at[1] = t
    <2>1. ASSUME NEW t \in {"project"} \cup PerWorkload, Has(t),
                 \A u \in {"project"} \cup PerWorkload : t \in Refs[u] => ~Has(u)
          PROVE  \E op \in todo : Ready(op)
      BY <1>1, <1>3, <2>1 DEF Ready, Before
    <2>2. CASE Has("binding")
      BY <2>1, <2>2 DEF Refs, PerWorkload
    <2>3. CASE Has("release")
      BY <2>1, <2>3 DEF Refs, PerWorkload
    <2>4. CASE ~Has("binding") /\ Has("account")
      BY <2>1, <2>4 DEF Refs, PerWorkload
    <2>5. CASE ~Has("binding") /\ Has("role")
      BY <2>1, <2>5 DEF Refs, PerWorkload
    <2>6. CASE ~Has("binding") /\ ~Has("account") /\ ~Has("role") /\ ~Has("release")
               /\ Has("namespace")
      BY <2>1, <2>6 DEF Refs, PerWorkload
    <2>7. CASE /\ ~Has("binding") /\ ~Has("account") /\ ~Has("role") /\ ~Has("release")
               /\ ~Has("namespace") /\ Has("project")
      BY <2>1, <2>7 DEF Refs, PerWorkload
    <2>8. Has("project") \/ Has("namespace") \/ Has("account") \/ Has("role")
            \/ Has("binding") \/ Has("release")
      BY <1>1, <1>3 DEF PerWorkload
    <2> QED
      BY <2>2, <2>3, <2>4, <2>5, <2>6, <2>7, <2>8
  <1> QED
    BY <1>2, <1>3

LEMMA NeedsAre ==
    ASSUME NEW t \in PerWorkload, NEW k \in Keys
    PROVE  /\ <<t, k>> \in Addresses
           /\ t = "namespace" => Needs[<<t, k>>] = {Project}
           /\ t = "binding" => Needs[<<t, k>>] =
                                 {<<"namespace", k>>, <<"account", k>>, <<"role", k>>}
           /\ t \notin {"namespace", "binding"} => Needs[<<t, k>>] = {<<"namespace", k>>}
  <1> DEFINE a == <<t, k>>
  <1>1. a \in Addresses /\ a[1] = t /\ a[2] = k /\ t # "project"
    BY DEF Addresses, PerWorkload
  <1> HIDE DEF a
  <1>2. Needs[a] = IF t = "namespace" THEN {Project}
                   ELSE IF t = "binding" THEN {"namespace", "account", "role"} \X {k}
                   ELSE {<<"namespace", k>>}
    BY <1>1 DEF Needs
  <1>3. {"namespace", "account", "role"} \X {k} =
            {<<"namespace", k>>, <<"account", k>>, <<"role", k>>}
    OBVIOUS
  <1> QED
    BY <1>1, <1>2, <1>3 DEF a

\* What a resource needs it refers to, is wanted along with it, and is there when it is.
LEMMA NeedsFacts ==
    ASSUME NEW a \in Addresses
    PROVE  /\ Needs[a] \subseteq Addresses
           /\ \A b \in Needs[a] : b[1] \in Refs[a[1]]
           /\ \A w \in [Keys -> Charts \cup {NoChart}] :
                a \in Wanted(w) => Needs[a] \subseteq Wanted(w)
           /\ Nested /\ a \in have => Needs[a] \subseteq have
  <1>1. CASE a = Project
    <2>1. Needs[a] = {}
      BY <1>1 DEF Needs, Project
    <2> QED
      BY <2>1
  <1>2. ASSUME NEW t \in PerWorkload, NEW k \in Keys, a = <<t, k>>
        PROVE  /\ Needs[a] \subseteq Addresses
               /\ \A b \in Needs[a] : b[1] \in Refs[a[1]]
               /\ \A w \in [Keys -> Charts \cup {NoChart}] :
                    a \in Wanted(w) => Needs[a] \subseteq Wanted(w)
               /\ Nested /\ a \in have => Needs[a] \subseteq have
    <2>1. /\ t = "namespace" => Needs[a] = {Project}
          /\ t = "binding" => Needs[a] = {<<"namespace", k>>, <<"account", k>>, <<"role", k>>}
          /\ t \notin {"namespace", "binding"} => Needs[a] = {<<"namespace", k>>}
      BY <1>2, NeedsAre
    <2>2. \A b \in Needs[a] : b \in Addresses /\ b[1] \in Refs[t]
      BY <2>1 DEF PerWorkload, Addresses, Refs, Project
    <2>3. ASSUME NEW w \in [Keys -> Charts \cup {NoChart}], a \in Wanted(w)
          PROVE  Needs[a] \subseteq Wanted(w)
      BY <1>2, <2>1, <2>3, WantedFacts DEF PerWorkload
    <2>4. Nested /\ a \in have => Needs[a] \subseteq have
      <3> SUFFICES ASSUME Nested, a \in have PROVE Needs[a] \subseteq have
        OBVIOUS
      <3>1. CASE t \in {"namespace", "binding"}
        BY <1>2, <2>1, <3>1 DEF Nested
      <3>2. CASE t \in {"account", "role", "release"}
        BY <1>2, <2>1, <3>2 DEF Nested
      <3> QED
        BY <3>1, <3>2 DEF PerWorkload
    <2> QED
      BY <1>2, <2>2, <2>3, <2>4
  <1> QED
    BY <1>1, <1>2, AddressCases

\* A set of resources that has what each of them needs is nested.
LEMMA NestedIf ==
    ASSUME NEW set, \A a \in Addresses : a \in set => Needs[a] \subseteq set, NEW k \in Keys
    PROVE  /\ <<"namespace", k>> \in set => Project \in set
           /\ \A t \in {"account", "role", "release"} :
                <<t, k>> \in set => <<"namespace", k>> \in set
           /\ <<"binding", k>> \in set =>
                {<<"namespace", k>>, <<"account", k>>, <<"role", k>>} \subseteq set
  <1>1. ASSUME NEW t \in PerWorkload, <<t, k>> \in set, NEW b \in Needs[<<t, k>>]
        PROVE  b \in set
    BY <1>1, NeedsAre
  <1>2. Needs[<<"namespace", k>>] = {Project}
    BY NeedsAre DEF PerWorkload
  <1>3. Needs[<<"binding", k>>] = {<<"namespace", k>>, <<"account", k>>, <<"role", k>>}
    BY NeedsAre DEF PerWorkload
  <1>4. \A t \in {"account", "role", "release"} :
           t \in PerWorkload /\ Needs[<<t, k>>] = {<<"namespace", k>>}
    BY NeedsAre DEF PerWorkload
  <1>5. "namespace" \in PerWorkload /\ "binding" \in PerWorkload
    BY DEF PerWorkload
  <1> QED
    BY <1>1, <1>2, <1>3, <1>4, <1>5

-----------------------------------------------------------------------------
(* The steps that plan and that end an apply.                              *)

LEMMA InitInv == Init => Inv
  <1> SUFFICES ASSUME Init PROVE Inv
    OBVIOUS
  <1>1. TypeOK
    BY TenantAssumption, ListsAssumption DEF Init, TypeOK, Configs
  <1>2. PlanCovers /\ Idle /\ Fresh /\ OkMeansApplied
    BY DEF Init, PlanCovers, Idle, Fresh, OkMeansApplied
  <1>3. Nested
    BY DEF Init, Nested
  <1> QED
    BY <1>1, <1>2, <1>3 DEF Inv

LEMMA ChangeInv == Inv /\ ChangeWorkloads => Inv'
  <1> SUFFICES ASSUME Inv, ChangeWorkloads PROVE Inv'
    OBVIOUS
  <1>1. TypeOK'
    BY TenantAssumption, ListsAssumption DEF Inv, TypeOK, ChangeWorkloads, Configs
  <1>2. PlanCovers'
    BY DEF Inv, PlanCovers, ChangeWorkloads, Sound
  <1>3. Idle' /\ Nested' /\ Fresh' /\ OkMeansApplied'
    BY DEF Inv, Idle, Nested, Fresh, OkMeansApplied, ChangeWorkloads
  <1> QED
    BY <1>1, <1>2, <1>3 DEF Inv

LEMMA PlanInv == Inv /\ Plan => Inv'
  <1> SUFFICES ASSUME Inv, Plan PROVE Inv'
    OBVIOUS
  <1>1. want \in [Keys -> Charts \cup {NoChart}] /\ have \subseteq Addresses
    BY DEF Inv, TypeOK
  <1>2. Wanted(want) \subseteq Addresses
    BY <1>1, WantedFacts
  <1>3. \A k \in Listed(want) : <<"release", k>> \in Wanted(want)
    BY DEF Wanted, PerWorkload
  <1>4. \A k \in Listed(want) : <<"release", k>> \in Addresses
    BY <1>2, <1>3
  <1>5. PlanFor(want) \subseteq Ops
    <2>1. \A a \in Wanted(want) \ have : [do |-> "create", at |-> a] \in Ops
      BY <1>2, MakeOps DEF Create
    <2>2. \A a \in have \ Wanted(want) : [do |-> "destroy", at |-> a] \in Ops
      BY <1>1, MakeOps DEF Destroy
    <2>3. \A k \in Listed(want) : [do |-> "update", at |-> <<"release", k>>] \in Ops
      BY <1>4, MakeOps DEF Update
    <2> QED
      BY <2>1, <2>2, <2>3 DEF PlanFor, Changed, Dropped
  <1>6. TypeOK'
    BY <1>5 DEF Inv, TypeOK, Plan
  <1>7. PlanCovers'
    <2>1. \A op \in PlanFor(want) : Sound(op)'
      <3> SUFFICES ASSUME NEW op \in PlanFor(want) PROVE Sound(op)'
        OBVIOUS
      <3>1. goal' = want /\ have' = have
        BY DEF Plan
      <3>2. CASE \E a \in Wanted(want) \ have : op = [do |-> "create", at |-> a]
        BY <3>1, <3>2 DEF Sound, Wanted
      <3>3. CASE \E a \in have \ Wanted(want) : op = [do |-> "destroy", at |-> a]
        BY <3>1, <3>3 DEF Sound, Wanted
      <3>4. CASE \E k \in Listed(want) : /\ <<"release", k>> \in have
                                         /\ op = [do |-> "update", at |-> <<"release", k>>]
        BY <1>3, <3>1, <3>4 DEF Sound, Wanted
      <3> QED
        BY <3>2, <3>3, <3>4 DEF PlanFor, Changed, Dropped
    <2>2. \A a \in Wanted(want) \ have : Create(a) \in PlanFor(want)
      BY DEF PlanFor, Changed, Dropped, Create
    <2>3. \A a \in have \ Wanted(want) : Destroy(a) \in PlanFor(want)
      BY DEF PlanFor, Changed, Dropped, Destroy
    <2>4. \A k \in Listed(want) : <<"release", k>> \in have /\ chart[k] # want[k]
            => Update(<<"release", k>>) \in PlanFor(want)
      BY DEF PlanFor, Changed, Dropped, Update, Listed
    <2>5. /\ goal' = want /\ have' = have /\ chart' = chart
          /\ todo' = PlanFor(want) /\ failed' = {}
      BY DEF Plan
    <2> QED
      BY <2>1, <2>2, <2>3, <2>4, <2>5
         DEF PlanCovers, Wanted, Listed, Create, Destroy, Update
  <1>8. Idle' /\ Nested' /\ Fresh' /\ OkMeansApplied'
    BY DEF Inv, Plan, Idle, Nested, Fresh, OkMeansApplied
  <1> QED
    BY <1>6, <1>7, <1>8 DEF Inv

\* When nothing failed, nothing is left to do, so the list is applied.
LEMMA FinishInv == Inv /\ Finish => Inv'
  <1> SUFFICES ASSUME Inv, Finish PROVE Inv'
    OBVIOUS
  <1>1. /\ want' = want /\ goal' = goal /\ have' = have /\ chart' = chart
        /\ changes' = changes /\ faults' = faults
        /\ phase' = "idle" /\ todo' = {} /\ failed' = {} /\ unsaved' = {} /\ stray' = stray
        /\ result' \in {"ok", "failed"}
    BY DEF Finish, EndApply
  <1>2. TypeOK'
    BY <1>1 DEF Inv, TypeOK, Listed
  <1>3. PlanCovers' /\ Idle' /\ Nested' /\ Fresh'
    BY <1>1 DEF Inv, PlanCovers, Idle, Nested, Fresh
  <1>4. OkMeansApplied'
    <2> SUFFICES ASSUME result' = "ok"
                 PROVE  have = Wanted(goal) /\ \A k \in Keys : chart[k] = goal[k]
      BY <1>1 DEF OkMeansApplied, Wanted, Listed
    <2>1. failed = {}
      BY DEF Finish, EndApply
    <2>2. todo = {}
      BY <2>1, NotStuck DEF Finish, Inv, TypeOK
    <2>3. PlanCovers /\ phase = "applying"
      BY DEF Finish, Inv
    <2>4. have = Wanted(goal)
      BY <2>1, <2>2, <2>3 DEF PlanCovers
    <2>5. \A k \in Listed(goal) : chart[k] = goal[k]
      <3> SUFFICES ASSUME NEW k \in Listed(goal) PROVE chart[k] = goal[k]
        OBVIOUS
      <3>1. <<"release", k>> \in have
        BY <2>4 DEF Wanted, PerWorkload
      <3> QED
        BY <2>1, <2>2, <2>3, <3>1 DEF PlanCovers
    <2>6. \A k \in Keys \ Listed(goal) : chart[k] = goal[k]
      <3> SUFFICES ASSUME NEW k \in Keys \ Listed(goal) PROVE chart[k] = goal[k]
        OBVIOUS
      <3>1. goal \in [Keys -> Charts \cup {NoChart}]
        BY DEF Inv, TypeOK
      <3>2. <<"release", k>> \notin have
        BY <2>4, <3>1, WantedFacts DEF PerWorkload
      <3> QED
        BY <3>2 DEF Inv, Nested, Listed
    <2> QED
      BY <2>4, <2>5, <2>6
  <1> QED
    BY <1>2, <1>3, <1>4 DEF Inv

LEMMA InterruptInv == Inv /\ Interrupt => Inv'
  <1> SUFFICES ASSUME Inv, Interrupt PROVE Inv'
    OBVIOUS
  <1>1. /\ want' = want /\ goal' = goal /\ have' = have /\ chart' = chart
        /\ changes' = changes /\ faults' = faults + 1 /\ faults < MaxFaults
        /\ phase' = "idle" /\ todo' = {} /\ failed' = {} /\ unsaved' = {} /\ stray' = stray
        /\ result' = "failed"
    BY DEF Interrupt, EndApply
  <1>2. TypeOK'
    BY <1>1, TenantAssumption DEF Inv, TypeOK, Listed
  <1>3. PlanCovers' /\ Idle' /\ Nested' /\ Fresh' /\ OkMeansApplied'
    BY <1>1 DEF Inv, PlanCovers, Idle, Nested, Fresh, OkMeansApplied
  <1> QED
    BY <1>2, <1>3 DEF Inv

-----------------------------------------------------------------------------
(* The steps of one operation.                                             *)

\* An operation has its effect, a release being put to version c: because it succeeds, or
\* half-way before it fails.
Effect(op, c) ==
    /\ Ready(op) /\ Do(op, c)
    /\ \/ c = goal[op.at[2]] /\ failed' = failed
       \/ /\ op.at[1] = "release" \/ op.do = "destroy"
          /\ c = Broken /\ failed' = failed \cup {op}
    /\ todo' = todo \ {op}
    /\ faults' \in 0 .. MaxFaults
    /\ UNCHANGED <<want, phase, goal, result, changes>>

LEMMA SucceedEffect ==
    ASSUME Inv, NEW op \in todo, Succeed(op) PROVE Effect(op, goal[op.at[2]])
  BY DEF Succeed, Effect, Inv, TypeOK

\* A failed operation has its effect half-way, or leaves all the state has as it is.
LEMMA FailEffect ==
    ASSUME Inv, NEW op \in todo, FailOp(op)
    PROVE  \/ Effect(op, Broken)
           \/ /\ Ready(op)
              /\ UNCHANGED <<want, phase, goal, have, unsaved, chart, result, changes>>
              /\ stray' \subseteq Addresses \ {Project}
              /\ todo' = todo \ {op} /\ failed' = failed \cup {op}
              /\ faults' \in 0 .. MaxFaults
  <1>1. /\ Ready(op) /\ op \in Ops /\ op.at \in Addresses
        /\ todo' = todo \ {op} /\ failed' = failed \cup {op}
        /\ UNCHANGED <<want, phase, goal, result, changes>>
    BY OpFacts DEF FailOp, Inv, TypeOK
  <1>2. faults' \in 0 .. MaxFaults
    BY TenantAssumption DEF FailOp, Inv, TypeOK
  <1>3. Undone \/ Unanswered(op) \/ HalfDone(op)
    BY DEF FailOp
  <1>4. CASE Undone
    BY <1>1, <1>2, <1>4 DEF Undone, Inv, TypeOK
  <1>5. CASE Unanswered(op)
    BY <1>1, <1>2, <1>5 DEF Unanswered, Inv, TypeOK
  <1>6. CASE HalfDone(op)
    BY <1>1, <1>2, <1>6 DEF HalfDone, Effect
  <1> QED
    BY <1>3, <1>4, <1>5, <1>6

\* A failed operation that has had no effect is not to do any more.
LEMMA UndoneInv ==
    ASSUME Inv, NEW op \in todo, Ready(op),
           UNCHANGED <<want, phase, goal, have, unsaved, chart, result, changes>>,
           stray' \subseteq Addresses \ {Project},
           todo' = todo \ {op}, failed' = failed \cup {op}, faults' \in 0 .. MaxFaults
    PROVE  Inv'
  <1>1. /\ want' = want /\ goal' = goal /\ have' = have /\ chart' = chart
        /\ unsaved' = unsaved /\ changes' = changes /\ phase' = phase /\ result' = result
        /\ phase = "applying"
    BY DEF Ready
  <1>2. TypeOK'
    BY <1>1 DEF Inv, TypeOK, Listed
  <1>3. todo' \cup failed' = todo \cup failed /\ failed \subseteq failed' /\ todo' \subseteq todo
    OBVIOUS
  <1>4. PlanCovers'
    <2>1. /\ todo \cap failed = {}
          /\ \A p \in todo : Sound(p)
          /\ \A a \in Wanted(goal) \ have : Create(a) \in todo \cup failed
          /\ \A a \in have \ Wanted(goal) : Destroy(a) \in todo \cup failed
          /\ \A k \in Listed(goal) :
               <<"release", k>> \in have /\ chart[k] # goal[k] =>
                  \/ Update(<<"release", k>>) \in todo \cup failed
                  \/ Create(<<"release", k>>) \in failed
      BY <1>1 DEF Inv, PlanCovers
    <2>2. Wanted(goal)' = Wanted(goal) /\ Listed(goal)' = Listed(goal)
      BY <1>1 DEF Wanted, Listed
    <2>3. \A p \in todo' : Sound(p)'
      BY <1>1, <1>3, <2>1, <2>2 DEF Sound
    <2>4. todo' \cap failed' = {}
      BY <2>1
    <2> QED
      BY <1>1, <1>3, <2>1, <2>2, <2>3, <2>4 DEF PlanCovers, Create, Destroy, Update
  <1>5. Idle' /\ Nested' /\ Fresh' /\ OkMeansApplied'
    BY <1>1 DEF Inv, Idle, Nested, Fresh, OkMeansApplied
  <1> QED
    BY <1>2, <1>4, <1>5 DEF Inv

\* After an operation has its effect the rest of the plan covers what is left.
LEMMA EffectCovers ==
    ASSUME Inv, NEW op \in todo, NEW c, Effect(op, c)
    PROVE  TypeOK' /\ PlanCovers' /\ Idle' /\ OkMeansApplied'
  <1>1. /\ want' = want /\ goal' = goal /\ phase' = phase /\ result' = result
        /\ \/ failed' = failed /\ c = goal[op.at[2]]
           \/ failed' = failed \cup {op}
        /\ todo' = todo \ {op}
        /\ phase = "applying"
        /\ changes' = changes /\ faults' \in 0 .. MaxFaults
        /\ have' = CASE op.do = "create"  -> have \cup {op.at}
                     [] op.do = "update"  -> have
                     [] op.do = "destroy" -> have \ {op.at}
        /\ chart' = IF op.at[1] # "release" THEN chart
                    ELSE [chart EXCEPT ![op.at[2]] =
                            IF op.do = "destroy" THEN NoChart ELSE c]
        /\ unsaved' = CASE op.do = "create"  -> unsaved \cup {op.at}
                        [] op.do = "update"  -> unsaved
                        [] op.do = "destroy" -> unsaved \ {op.at}
        /\ stray' \subseteq stray
    BY DEF Effect, Do, Ready
  <1>2. op \in Ops
    BY DEF Inv, TypeOK
  <1>3. TypeOK'
    <2>1. op.at[1] = "release" /\ op.do # "destroy" => c \in Charts \cup {NoChart, Broken, Pending}
      BY <1>2, OpFacts, AddressCases DEF Effect, Inv, TypeOK
    <2>2. chart' \in [Keys -> Charts \cup {NoChart, Broken, Pending}]
      BY <1>1, <1>2, <2>1, OpFacts, AddressCases DEF Inv, TypeOK
    <2>3. have' \subseteq Addresses
      BY <1>1, <1>2, OpFacts DEF Inv, TypeOK
    <2>4. unsaved' \subseteq have'
      BY <1>1, <1>2, OpFacts DEF Inv, TypeOK
    <2> QED
      BY <1>1, <1>2, <2>2, <2>3, <2>4 DEF Inv, TypeOK, Listed
  <1>4. Idle' /\ OkMeansApplied'
    BY <1>1 DEF Idle, OkMeansApplied
  <1>5. \A p \in (todo \cup failed) \ {op} : p \in Ops /\ (p.do # op.do \/ p.at # op.at)
    BY <1>2, OpFacts DEF Inv, TypeOK
  <1>6. /\ (todo \cup failed) \ {op} \subseteq todo' \cup failed'
        /\ todo' \cap failed' = {}
        /\ failed \subseteq failed'
        /\ Sound(op)
    BY <1>1 DEF Inv, PlanCovers
  <1>7. Wanted(goal)' = Wanted(goal) /\ Listed(goal)' = Listed(goal)
    BY <1>1 DEF Wanted, Listed
  <1>8. \A p \in todo' : Sound(p)'
    <2> SUFFICES ASSUME NEW p \in todo' PROVE Sound(p)'
      OBVIOUS
    <2>1. /\ Sound(p) /\ p.do \in {"create", "update", "destroy"}
          /\ p.do # op.do \/ p.at # op.at
      BY <1>1, <1>5, OpFacts DEF Inv, PlanCovers
    <2>2. CASE op.do = "create"
      BY <1>1, <1>6, <1>7, <2>1, <2>2 DEF Sound
    <2>3. CASE op.do = "update"
      BY <1>1, <1>6, <1>7, <2>1, <2>3 DEF Sound
    <2>4. CASE op.do = "destroy"
      BY <1>1, <1>6, <1>7, <2>1, <2>4 DEF Sound
    <2> QED
      BY <1>2, <2>2, <2>3, <2>4, OpFacts
  <1>9. \A a \in Wanted(goal) \ have' : Create(a) \in (todo \cup failed) \ {op}
    <2> SUFFICES ASSUME NEW a \in Wanted(goal) \ have'
                 PROVE  Create(a) \in (todo \cup failed) \ {op}
      OBVIOUS
    <2>1. op.do \in {"create", "update", "destroy"}
      BY <1>2, OpFacts
    <2>2. a \notin have
      BY <1>1, <1>6, <2>1 DEF Sound
    <2>3. Create(a) \in todo \cup failed
      BY <1>1, <2>2 DEF Inv, PlanCovers
    <2>4. Create(a) # op
      BY <1>1 DEF Create
    <2> QED
      BY <2>3, <2>4
  <1>10. \A a \in have' \ Wanted(goal) : Destroy(a) \in (todo \cup failed) \ {op}
    <2> SUFFICES ASSUME NEW a \in have' \ Wanted(goal)
                 PROVE  Destroy(a) \in (todo \cup failed) \ {op}
      OBVIOUS
    <2>1. op.do \in {"create", "update", "destroy"}
      BY <1>2, OpFacts
    <2>2. a \in have
      BY <1>1, <1>6, <2>1 DEF Sound
    <2>3. Destroy(a) \in todo \cup failed
      BY <1>1, <2>2 DEF Inv, PlanCovers
    <2>4. Destroy(a) # op
      BY <1>1 DEF Destroy
    <2> QED
      BY <2>3, <2>4
  <1>11. \A k \in Listed(goal) : <<"release", k>> \in have' /\ chart'[k] # goal[k] =>
            \/ Update(<<"release", k>>) \in (todo \cup failed) \ {op}
            \/ Update(<<"release", k>>) \in failed'
            \/ Create(<<"release", k>>) \in failed'
    <2> SUFFICES ASSUME NEW k \in Listed(goal),
                        <<"release", k>> \in have', chart'[k] # goal[k]
                 PROVE  \/ Update(<<"release", k>>) \in (todo \cup failed) \ {op}
                        \/ Update(<<"release", k>>) \in failed'
                        \/ Create(<<"release", k>>) \in failed'
      OBVIOUS
    <2>1. op.do \in {"create", "update", "destroy"} /\ op.at \in Addresses
      BY <1>2, OpFacts
    <2>2. k \in Keys /\ <<"release", k>> \in Wanted(goal)
      BY DEF Wanted, Listed, PerWorkload
    <2>3. CASE op.at = <<"release", k>>
      <3>1. op.do # "destroy"
        BY <1>6, <2>2, <2>3 DEF Sound
      <3>2. chart'[k] = c
        BY <1>1, <2>2, <2>3, <3>1 DEF Inv, TypeOK
      <3>3. op \in failed'
        BY <1>1, <2>3, <3>2
      <3>4. op = Create(op.at) \/ op = Update(op.at)
        BY <1>2, <2>1, <3>1, OpFacts
      <3> QED
        BY <2>3, <3>3, <3>4
    <2>4. CASE op.at # <<"release", k>>
      <3>1. chart'[k] = chart[k]
        BY <1>1, <2>1, <2>2, <2>4, AddressCases DEF Inv, TypeOK
      <3>2. <<"release", k>> \in have
        BY <1>1, <2>1, <2>4
      <3>3. \/ Update(<<"release", k>>) \in todo \cup failed
            \/ Create(<<"release", k>>) \in failed
        BY <1>1, <3>1, <3>2 DEF Inv, PlanCovers
      <3>4. Update(<<"release", k>>) # op
        BY <2>4 DEF Update
      <3> QED
        BY <1>6, <3>3, <3>4
    <2> QED
      BY <2>3, <2>4
  <1>12. PlanCovers'
    BY <1>1, <1>6, <1>7, <1>8, <1>9, <1>10, <1>11
       DEF PlanCovers, Create, Destroy, Update
  <1> QED
    BY <1>3, <1>4, <1>12

\* Creating keeps Nested because what the new resource refers to is there,
\* destroying keeps it because what refers to the old resource is gone.
LEMMA EffectNested ==
    ASSUME Inv, NEW op \in todo, NEW c, Effect(op, c)
    PROVE  Nested' /\ Fresh'
  <1>1. /\ phase = "applying" /\ Ready(op)
        /\ op \in Ops /\ Sound(op) /\ op.at \in Addresses
        /\ goal \in [Keys -> Charts \cup {NoChart}]
        /\ chart \in [Keys -> Charts \cup {NoChart, Broken, Pending}]
        /\ c = goal[op.at[2]] \/ c = Broken
    BY OpFacts DEF Inv, TypeOK, PlanCovers, Effect, Ready
  <1>2. have' = CASE op.do = "create"  -> have \cup {op.at}
                  [] op.do = "update"  -> have
                  [] op.do = "destroy" -> have \ {op.at}
    BY DEF Effect, Do
  <1>3. chart' = IF op.at[1] # "release" THEN chart
                 ELSE [chart EXCEPT ![op.at[2]] =
                         IF op.do = "destroy" THEN NoChart ELSE c]
    BY DEF Effect, Do
  <1>4. \A t \in PerWorkload, k \in Keys :
            <<t, k>> \in Wanted(goal) => k \in Listed(goal)
    BY <1>1, WantedFacts
  <1>5. Project \in Wanted(goal)
    BY <1>1, WantedFacts
  <1>6. ASSUME NEW k \in Keys PROVE <<"release", k>> \in have' <=> chart'[k] # NoChart
    <2>1. <<"release", k>> \in have <=> chart[k] # NoChart
      BY <1>6 DEF Inv, Nested
    <2>2. CASE op.at = <<"release", k>>
      <3>1. CASE op.do = "destroy"
        BY <1>1, <1>2, <1>3, <2>2, <3>1
      <3>2. CASE op.do # "destroy"
        <4>1. <<"release", k>> \in Wanted(goal)
          BY <1>1, <2>2, <3>2, OpFacts DEF Sound
        <4>2. c # NoChart
          BY <1>1, <1>4, <2>2, <4>1, TenantAssumption DEF PerWorkload, Listed
        <4>3. chart'[k] = c
          BY <1>1, <1>3, <2>2, <3>2
        <4>4. <<"release", k>> \in have'
          BY <1>1, <1>2, <2>2, <3>2, OpFacts DEF Sound
        <4> QED
          BY <4>2, <4>3, <4>4
      <3> QED
        BY <3>1, <3>2
    <2>3. CASE op.at # <<"release", k>>
      <3>1. chart'[k] = chart[k]
        BY <1>1, <1>3, <2>3, AddressCases
      <3>2. <<"release", k>> \in have' <=> <<"release", k>> \in have
        BY <1>1, <1>2, <2>3, OpFacts
      <3> QED
        BY <2>1, <3>1, <3>2
    <2> QED
      BY <2>2, <2>3
  <1>7. ASSUME NEW a \in Addresses
        PROVE  /\ \A b \in Needs[a] : b \in Addresses /\ b[1] \in Refs[a[1]]
               /\ a \in Wanted(goal) => Needs[a] \subseteq Wanted(goal)
               /\ a \in have => Needs[a] \subseteq have
    BY <1>1, NeedsFacts DEF Inv
  <1>8. ASSUME NEW a \in Addresses, a \in have', NEW b \in Needs[a]
        PROVE  b \in have'
    <2>1. b \in Addresses /\ b[1] \in Refs[a[1]]
      BY <1>7
    <2>2. CASE op.do = "create"
      <3>1. CASE op.at = a
        <4>1. b \in Wanted(goal)
          BY <1>1, <1>7, <2>2, <3>1 DEF Sound
        <4>2. b \in have
          BY <1>1, <2>1, <2>2, <3>1, <4>1, CreateAfterRefs
        <4> QED
          BY <1>2, <2>2, <4>2
      <3>2. CASE op.at # a
        BY <1>2, <1>7, <1>8, <2>2, <3>2
      <3> QED
        BY <3>1, <3>2
    <2>3. CASE op.do = "update"
      BY <1>2, <1>7, <1>8, <2>3
    <2>4. CASE op.do = "destroy"
      <3>1. a \in have /\ b \in have
        BY <1>2, <1>7, <1>8, <2>4
      <3>2. ASSUME op.at = b PROVE FALSE
        <4>1. b \notin Wanted(goal)
          BY <1>1, <2>4, <3>2 DEF Sound
        <4>2. a \notin Wanted(goal)
          BY <1>7, <4>1
        <4> QED
          BY <1>1, <2>1, <2>4, <3>1, <3>2, <4>2, DestroyAfterReferrers
      <3> QED
        BY <1>2, <2>4, <3>1, <3>2
    <2> QED
      BY <1>1, <2>2, <2>3, <2>4, OpFacts
  <1>9. \A k \in Keys :
            /\ <<"namespace", k>> \in have' => Project \in have'
            /\ \A t \in {"account", "role", "release"} :
                 <<t, k>> \in have' => <<"namespace", k>> \in have'
            /\ <<"binding", k>> \in have' =>
                 {<<"namespace", k>>, <<"account", k>>, <<"role", k>>} \subseteq have'
    <2>1. \A a \in Addresses : a \in have' => Needs[a] \subseteq have'
      BY <1>8
    <2> HIDE DEF Needs
    <2> QED
      BY <2>1, NestedIf
  <1>10. Nested'
    BY <1>6, <1>9 DEF Nested
  <1>11. Fresh'
    <2> SUFFICES ASSUME NEW b \in have', NEW a \in Needs[b], a \in unsaved'
                 PROVE  b \in unsaved'
      BY DEF Fresh
    <2>1. /\ have \subseteq Addresses /\ unsaved \subseteq have
          /\ unsaved' = CASE op.do = "create"  -> unsaved \cup {op.at}
                          [] op.do = "update"  -> unsaved
                          [] op.do = "destroy" -> unsaved \ {op.at}
      BY DEF Inv, TypeOK, Effect, Do
    <2>2. op.do \in {"create", "update", "destroy"}
      BY <1>1, OpFacts
    <2>3. b \in have /\ a \in unsaved => b \in unsaved
      BY DEF Inv, Fresh
    <2>4. b \in have => a \in have
      BY <1>7, <2>1
    <2>5. op.do = "create" => op.at \notin have
      BY <1>1 DEF Sound
    <2>6. op.do = "destroy" => b # op.at
      BY <1>2
    <2> QED
      BY <1>2, <2>1, <2>2, <2>3, <2>4, <2>5, <2>6
  <1> QED
    BY <1>10, <1>11

LEMMA OpInv == ASSUME Inv, NEW op \in todo, Succeed(op) \/ FailOp(op) PROVE Inv'
  <1>1. ASSUME NEW c, Effect(op, c) PROVE Inv'
    BY <1>1, EffectCovers, EffectNested DEF Inv
  <1>2. CASE Succeed(op)
    BY <1>1, <1>2, SucceedEffect
  <1>3. CASE FailOp(op)
    <2>1. CASE Effect(op, Broken)
      BY <1>1, <2>1
    <2> QED
      BY <1>3, <2>1, FailEffect, UndoneInv
  <1> QED
    BY <1>2, <1>3

-----------------------------------------------------------------------------
(* Killed applies and repairs.                                             *)

\* What a killed apply loses leaves nothing behind that needs it.
LEMMA LostFacts ==
    ASSUME Inv, NEW lost \in Unsaved
    PROVE  /\ lost \subseteq unsaved /\ lost \subseteq have
           /\ \A b \in have \ lost : Needs[b] \subseteq have \ lost
  <1>1. lost \subseteq unsaved /\ unsaved \subseteq have /\ have \subseteq Addresses
    BY DEF Unsaved, Inv, TypeOK
  <1>2. ASSUME NEW b \in have \ lost, NEW a \in Needs[b] PROVE a \in have \ lost
    <2>1. a \in have /\ a[1] \in Refs[b[1]]
      BY <1>1, NeedsFacts DEF Inv
    <2>2. a \in unsaved => b \in unsaved
      BY DEF Inv, Fresh
    <2>3. a \in lost => b \in lost
      BY <1>1, <2>1, <2>2 DEF Unsaved
    <2> QED
      BY <2>1, <2>3
  <1> QED
    BY <1>1, <1>2

\* What a kill leaves of the releases.
Cut == {op \in todo : op.do = "update" /\ Ready(op) /\ Allowed(op) /\ ~Blocked(op)}
After(lost, cut) == [k \in Keys |->
    IF <<"release", k>> \in lost THEN NoChart
    ELSE IF \E op \in cut : op.at = <<"release", k>> THEN Pending ELSE chart[k]]

LEMMA KillFacts ==
    ASSUME Inv, Kill
    PROVE  /\ want' = want /\ goal' = goal /\ changes' = changes
           /\ faults' \in 0 .. MaxFaults
           /\ phase = "applying" /\ phase' = "idle" /\ result' = "failed"
           /\ todo' = {} /\ failed' = {} /\ unsaved' = {}
           /\ \E lost \in Unsaved, cut \in SUBSET Cut :
                /\ have' = have \ lost
                /\ stray' = stray \cup (lost \ {Project})
                /\ chart' = After(lost, cut)
  <1>1. /\ want' = want /\ goal' = goal /\ changes' = changes
        /\ phase = "applying" /\ phase' = "idle" /\ result' = "failed"
        /\ todo' = {} /\ failed' = {} /\ unsaved' = {}
    BY DEF Kill, EndApply
  <1>2. faults' \in 0 .. MaxFaults
    BY TenantAssumption DEF Kill, Inv, TypeOK
  <1>3. \E lost \in Unsaved, cut \in SUBSET Cut :
                /\ have' = have \ lost
                /\ stray' = stray \cup (lost \ {Project})
                /\ chart' = After(lost, cut)
    BY DEF Kill, Cut, After
  <1> QED
    BY <1>1, <1>2, <1>3

LEMMA KillInv == Inv /\ Kill => Inv'
  <1> SUFFICES ASSUME Inv, Kill PROVE Inv'
    OBVIOUS
  <1>1. PICK lost \in Unsaved, cut \in SUBSET Cut :
            /\ have' = have \ lost
            /\ stray' = stray \cup (lost \ {Project})
            /\ chart' = After(lost, cut)
    BY KillFacts
  <1>2. /\ have \subseteq Addresses /\ chart \in [Keys -> Charts \cup {NoChart, Broken, Pending}]
        /\ stray \subseteq Addresses \ {Project}
    BY DEF Inv, TypeOK
  <1>3. After(lost, cut) \in [Keys -> Charts \cup {NoChart, Broken, Pending}]
    BY <1>2 DEF After
  <1>4. TypeOK'
    BY <1>1, <1>2, <1>3, KillFacts, LostFacts DEF Inv, TypeOK, Listed
  <1>5. PlanCovers' /\ Idle' /\ Fresh' /\ OkMeansApplied'
    BY KillFacts DEF PlanCovers, Idle, Fresh, OkMeansApplied
  <1>6. \A k \in Keys : <<"release", k>> \in have' <=> chart'[k] # NoChart
    <2> SUFFICES ASSUME NEW k \in Keys PROVE <<"release", k>> \in have' <=> chart'[k] # NoChart
      OBVIOUS
    <2>1. <<"release", k>> \in have <=> chart[k] # NoChart
      BY DEF Inv, Nested
    <2>2. \A op \in cut : op.at \in have
      BY OpFacts, KillFacts DEF Cut, Inv, PlanCovers, Sound
    <2>3. chart'[k] = IF <<"release", k>> \in lost THEN NoChart
                      ELSE IF \E op \in cut : op.at = <<"release", k>> THEN Pending ELSE chart[k]
      BY <1>1 DEF After
    <2> QED
      BY <1>1, <2>1, <2>2, <2>3, LostFacts, TenantAssumption
  <1>7. Nested'
    <2>1. \A a \in Addresses : a \in have' => Needs[a] \subseteq have'
      BY <1>1, LostFacts
    <2>2. \A k \in Keys :
              /\ <<"namespace", k>> \in have' => Project \in have'
              /\ \A t \in {"account", "role", "release"} :
                   <<t, k>> \in have' => <<"namespace", k>> \in have'
              /\ <<"binding", k>> \in have' =>
                   {<<"namespace", k>>, <<"account", k>>, <<"role", k>>} \subseteq have'
      <3> HIDE DEF Needs
      <3> QED
        BY <2>1, NestedIf
    <2> QED
      BY <1>6, <2>2 DEF Nested
  <1> QED
    BY <1>4, <1>5, <1>7 DEF Inv

LEMMA RepairInv == Inv /\ Repair => Inv'
  <1> SUFFICES ASSUME Inv, Repair PROVE Inv'
    OBVIOUS
  <1>1. PICK k \in Keys : /\ stray' = stray \ Inside(k)
                          /\ chart' = [chart EXCEPT ![k] = IF @ = Pending THEN Broken ELSE @]
    BY DEF Repair
  <1>2. /\ want' = want /\ goal' = goal /\ have' = have /\ unsaved' = unsaved
        /\ todo' = todo /\ failed' = failed /\ phase' = phase /\ phase = "idle"
        /\ result' = result /\ changes' = changes /\ faults' = faults
    BY DEF Repair
  <1>3. /\ chart \in [Keys -> Charts \cup {NoChart, Broken, Pending}]
        /\ goal \in [Keys -> Charts \cup {NoChart}]
    BY DEF Inv, TypeOK
  <1>4. \A j \in Keys : chart'[j] = IF j = k /\ chart[j] = Pending THEN Broken ELSE chart[j]
    BY <1>1, <1>3
  <1>5. TypeOK'
    BY <1>1, <1>2, <1>3 DEF Inv, TypeOK, Listed
  <1>6. PlanCovers' /\ Idle' /\ Fresh'
    BY <1>2 DEF Inv, PlanCovers, Idle, Fresh
  <1>7. Nested'
    BY <1>2, <1>4, TenantAssumption DEF Inv, Nested
  <1>8. OkMeansApplied'
    <2>1. Wanted(goal)' = Wanted(goal)
      BY <1>2 DEF Wanted, Listed
    <2>2. ASSUME \A j \in Keys : chart[j] = goal[j] PROVE \A j \in Keys : chart'[j] = goal[j]
      BY <1>3, <1>4, <2>2, TenantAssumption
    <2> QED
      BY <1>2, <2>1, <2>2 DEF Inv, OkMeansApplied
  <1> QED
    BY <1>5, <1>6, <1>7, <1>8 DEF Inv

-----------------------------------------------------------------------------
(* The theorems.                                                           *)

LEMMA InvHolds == Spec => []Inv
  <1>1. Inv /\ [Next]_vars => Inv'
    <2> SUFFICES ASSUME Inv, [Next]_vars PROVE Inv'
      OBVIOUS
    <2>1. CASE UNCHANGED vars
      <3>1. /\ want' = want /\ phase' = phase /\ goal' = goal /\ todo' = todo
            /\ failed' = failed /\ have' = have /\ chart' = chart
            /\ unsaved' = unsaved /\ stray' = stray
            /\ result' = result /\ changes' = changes /\ faults' = faults
        BY <2>1 DEF vars
      <3>2. TypeOK'
        BY <3>1 DEF Inv, TypeOK, Listed
      <3>3. PlanCovers'
        BY <3>1 DEF Inv, PlanCovers, Sound, Wanted, Listed, Create, Destroy, Update
      <3>4. Idle' /\ Nested' /\ Fresh'
        BY <3>1 DEF Inv, Idle, Nested, Fresh
      <3>5. OkMeansApplied'
        BY <3>1 DEF Inv, OkMeansApplied, Wanted, Listed
      <3> QED
        BY <3>2, <3>3, <3>4, <3>5 DEF Inv
    <2>2. CASE ChangeWorkloads
      BY <2>2, ChangeInv
    <2>3. CASE Plan
      BY <2>3, PlanInv
    <2>4. CASE Finish
      BY <2>4, FinishInv
    <2>5. CASE Interrupt
      BY <2>5, InterruptInv
    <2>6. ASSUME NEW op \in todo, Succeed(op) \/ FailOp(op) PROVE Inv'
      BY <2>6, OpInv
    <2>7. CASE Kill \/ Repair
      BY <2>7, KillInv, RepairInv
    <2>8. CASE Settled
      BY <2>1, <2>8 DEF Settled
    <2> QED
      BY <2>1, <2>2, <2>3, <2>4, <2>5, <2>6, <2>7, <2>8 DEF Next, Work
  <1> QED
    BY InitInv, <1>1, PTL DEF Spec

\* Every state that applies reach is well typed.
THEOREM TenantTypeCorrect == Spec => []TypeOK
  <1>1. Inv => TypeOK
    BY DEF Inv
  <1> QED
    BY InvHolds, <1>1, PTL

\* Whatever workloads come and go, and wherever applies fail or are cut short,
\* nothing in the tenant exists without the resources it refers to.
THEOREM NestedHolds == Spec => []Nested
  <1>1. Inv => Nested
    BY DEF Inv
  <1> QED
    BY InvHolds, <1>1, PTL

\* An apply that ends green left exactly the workloads of its plan.
THEOREM OkMeansAppliedHolds == Spec => []OkMeansApplied
  <1>1. Inv => OkMeansApplied
    BY DEF Inv
  <1> QED
    BY InvHolds, <1>1, PTL

-----------------------------------------------------------------------------
(* What an apply gives up.                                                 *)

\* How many operations can be in a row before op.
Level(t) == CASE t = "project" -> 0 [] t = "namespace" -> 1 [] t = "binding" -> 3 [] OTHER -> 2
Height(op) == IF op.do = "destroy" THEN 3 - Level(op.at[1]) ELSE Level(op.at[1])

LEMMA BeforeIsLower ==
    ASSUME NEW op \in Ops, NEW p \in Ops, Before(p, op)
    PROVE  Height(p) \in 0 .. 3 /\ Height(op) \in 0 .. 3 /\ Height(p) < Height(op)
  <1> DEFINE T == {"project"} \cup PerWorkload
  <1>1. op.at[1] \in T /\ p.at[1] \in T
    BY OpFacts, AddressCases
  <1>2. \A t \in T : Level(t) \in 0 .. 3
    BY DEF Level, PerWorkload
  <1>3. \A t, u \in T : u \in Refs[t] => Level(u) < Level(t)
    BY DEF Level, Refs, PerWorkload
  <1> HIDE DEF T
  <1>4. CASE op.do # "destroy" /\ p.do # "destroy" /\ p.at[1] \in Refs[op.at[1]]
    BY <1>1, <1>2, <1>3, <1>4 DEF Height
  <1>5. CASE op.do = "destroy" /\ p.do = "destroy" /\ op.at[1] \in Refs[p.at[1]]
    <2>1. Level(op.at[1]) \in 0 .. 3 /\ Level(p.at[1]) \in 0 .. 3 /\ Level(op.at[1]) < Level(p.at[1])
      BY <1>1, <1>2, <1>3, <1>5
    <2> QED
      BY <1>5, <2>1 DEF Height
  <1> QED
    BY <1>4, <1>5 DEF Before

\* Nothing waits for the install or the upgrade of a release.
LEMMA NothingWaitsForRelease ==
    ASSUME NEW op \in Ops, NEW p \in Ops, Before(p, op), p.at[1] = "release"
    PROVE  p.do = "destroy"
  <1>1. op.at[1] \in {"project"} \cup PerWorkload
    BY OpFacts, AddressCases
  <1>2. \A t \in {"project"} \cup PerWorkload : "release" \notin Refs[t]
    BY DEF Refs, PerWorkload
  <1> QED
    BY <1>1, <1>2 DEF Before

\* An apply that ends by itself gives up only what waits for a failed operation, and
\* no release that fails takes anything else with it (the references between the
\* resources of the root, envelope and deploy modules).
THEOREM FailuresContainedHolds == Spec => FailuresContained
  <1>1. TypeOK => Contained
    <2> SUFFICES ASSUME TypeOK, Finish, NEW op \in todo
                 PROVE  \E p \in failed :
                            Behind(op, p) /\ (p.at[1] = "release" => p.do = "destroy")
      BY DEF Contained
    <2>1. todo \subseteq Ops /\ failed \subseteq Ops
      BY DEF TypeOK
    <2>2. ASSUME NEW q \in todo PROVE \E p \in todo \cup failed : Before(p, q)
      BY <2>2 DEF Finish, Ready
    <2>3. \A q \in todo : \A p \in todo \cup failed : Before(p, q) => Height(p) \in 0 .. 3
                                  /\ Height(q) \in 0 .. 3 /\ Height(p) < Height(q)
      BY <2>1, BeforeIsLower
    <2>4. \E p \in failed : Behind(op, p)
      <3>1. PICK p1 \in todo \cup failed : Before(p1, op)
        BY <2>2
      <3>2. CASE p1 \in failed
        BY <3>1, <3>2 DEF Behind
      <3>3. CASE p1 \in todo
        <4>1. PICK p2 \in todo \cup failed : Before(p2, p1)
          BY <2>2, <3>3
        <4>2. CASE p2 \in failed
          BY <3>1, <3>3, <4>1, <4>2 DEF Behind
        <4>3. CASE p2 \in todo
          <5>1. PICK p3 \in todo \cup failed : Before(p3, p2)
            BY <2>2, <4>3
          <5>2. CASE p3 \in failed
            BY <3>1, <3>3, <4>1, <4>3, <5>1, <5>2 DEF Behind
          <5>3. CASE p3 \in todo
            <6>1. PICK p4 \in todo \cup failed : Before(p4, p3)
              BY <2>2, <5>3
            <6>2. /\ Height(op) \in 0 .. 3 /\ Height(p1) \in 0 .. 3 /\ Height(p2) \in 0 .. 3
                  /\ Height(p3) \in 0 .. 3 /\ Height(p4) \in 0 .. 3
                  /\ Height(p4) < Height(p3) /\ Height(p3) < Height(p2)
                  /\ Height(p2) < Height(p1) /\ Height(p1) < Height(op)
              BY <2>3, <3>1, <3>3, <4>1, <4>3, <5>1, <5>3, <6>1
            <6> QED
              BY <6>2
          <5> QED
            BY <5>2, <5>3
        <4> QED
          BY <4>2, <4>3
      <3> QED
        BY <3>2, <3>3
    <2>5. \A p \in failed : Behind(op, p) => \E q \in Ops : Before(p, q)
      BY <2>1 DEF Behind
    <2> QED
      BY <2>1, <2>4, <2>5, NothingWaitsForRelease
  <1>2. TypeOK /\ [Next]_vars => [Contained]_vars
    BY <1>1
  <1> QED
    BY <1>2, TenantTypeCorrect, PTL DEF Spec, FailuresContained

-----------------------------------------------------------------------------
(* Applies look after the tenant as the abstract inventory says.           *)

\* What a stock says of an address, apart from the others.
LEMMA StockAt ==
    ASSUME NEW a \in Addresses, NEW set, NEW charts
    PROVE  /\ a \in set => Stock(set, charts)[a] =
                {IF a[1] = "release" THEN charts[a[2]] ELSE Tenant}
           /\ a \notin set => Stock(set, charts)[a] = {}
           /\ Stock(set, charts)[a] # {} <=> a \in set
  BY DEF Stock

\* Whatever list is planned, its resources have what they need.
LEMMA WantedClosed ==
    ASSUME NEW w \in [Keys -> Charts \cup {NoChart}]
    PROVE  \A a \in Addresses : Stock(Wanted(w), w)[a] # {} =>
              \A b \in Needs[a] : Stock(Wanted(w), w)[b] # {}
  BY NeedsFacts, StockAt

LEMMA InitAims == Init => Managed!Init
  <1> SUFFICES ASSUME Init PROVE Managed!Init
    OBVIOUS
  <1>1. goal \in [Keys -> Charts \cup {NoChart}] /\ have = {} /\ unsaved = {}
    BY ListsAssumption DEF Init, Configs
  <1>2. Managed!Closed(Stock(Wanted(goal), goal))
    BY <1>1, WantedClosed DEF Managed!Closed
  <1>3. Stock(have, chart) = [a \in Addresses |-> {}]
    BY <1>1 DEF Stock
  <1> QED
    BY <1>1, <1>2, <1>3 DEF Managed!Init

\* Planning sets the target, and it is one that can be reached.
LEMMA PlanAims == Inv /\ Plan => Managed!Aim
  <1> SUFFICES ASSUME Inv, Plan PROVE Managed!Aim
    OBVIOUS
  <1>1. /\ want \in [Keys -> Charts \cup {NoChart}]
        /\ goal' = want /\ have' = have /\ chart' = chart
        /\ unsaved = {} /\ unsaved' = unsaved
    BY DEF Inv, TypeOK, Plan, Idle
  <1>2. Stock(Wanted(goal), goal)' = Stock(Wanted(want), want)
    BY <1>1 DEF Stock, Wanted, Listed
  <1>3. Managed!Closed(Stock(Wanted(goal), goal)')
    BY <1>1, <1>2, WantedClosed DEF Managed!Closed
  <1>4. Stock(have, chart)' = Stock(have, chart)
    BY <1>1 DEF Stock
  <1> QED
    BY <1>1, <1>3, <1>4 DEF Managed!Aim

\* What an operation does to the stock: it concerns its own address alone.
LEMMA EffectStock ==
    ASSUME Inv, NEW op \in todo, NEW c, Effect(op, c)
    PROVE  /\ op.at \in Addresses /\ Sound(op) /\ Ready(op)
           /\ op.do \in {"create", "update", "destroy"}
           /\ UNCHANGED Stock(Wanted(goal), goal)
           /\ Stock(have, chart)' =
                [Stock(have, chart) EXCEPT ![op.at] =
                    IF op.do = "destroy" THEN {}
                    ELSE {IF op.at[1] = "release" THEN c ELSE Tenant}]
           /\ unsaved' = IF op.do = "destroy" THEN unsaved \ {op.at}
                         ELSE IF Stock(have, chart)[op.at] = {} THEN unsaved \cup {op.at}
                         ELSE unsaved
  <1>1. /\ op \in Ops /\ op.at \in Addresses /\ Sound(op) /\ Ready(op)
        /\ op.do \in {"create", "update", "destroy"}
        /\ chart \in [Keys -> Charts \cup {NoChart, Broken, Pending}]
    BY OpFacts DEF Inv, TypeOK, PlanCovers, Effect, Ready
  <1>2. /\ goal' = goal
        /\ have' = CASE op.do = "create"  -> have \cup {op.at}
                     [] op.do = "update"  -> have
                     [] op.do = "destroy" -> have \ {op.at}
        /\ unsaved' = CASE op.do = "create"  -> unsaved \cup {op.at}
                        [] op.do = "update"  -> unsaved
                        [] op.do = "destroy" -> unsaved \ {op.at}
        /\ chart' = IF op.at[1] # "release" THEN chart
                    ELSE [chart EXCEPT ![op.at[2]] = IF op.do = "destroy" THEN NoChart ELSE c]
    BY DEF Effect, Do
  <1>3. UNCHANGED Stock(Wanted(goal), goal)
    BY <1>2 DEF Stock, Wanted, Listed
  <1>4. ASSUME NEW a \in Addresses
        PROVE  Stock(have', chart')[a] =
                 IF a = op.at THEN IF op.do = "destroy" THEN {}
                                   ELSE {IF op.at[1] = "release" THEN c ELSE Tenant}
                 ELSE Stock(have, chart)[a]
    <2>1. CASE a # op.at
      <3>1. a \in have' <=> a \in have
        BY <1>1, <1>2, <2>1
      <3>2. a[1] = "release" => chart'[a[2]] = chart[a[2]]
        BY <1>1, <1>2, <2>1, AddressCases
      <3>3. CASE a \in have
        <4>1. /\ Stock(have', chart')[a] = {IF a[1] = "release" THEN chart'[a[2]] ELSE Tenant}
              /\ Stock(have, chart)[a] = {IF a[1] = "release" THEN chart[a[2]] ELSE Tenant}
          BY <3>1, <3>3, StockAt
        <4> QED
          BY <2>1, <3>2, <4>1
      <3>4. CASE a \notin have
        BY <2>1, <3>1, <3>4, StockAt
      <3> QED
        BY <3>3, <3>4
    <2>2. CASE a = op.at /\ op.do = "destroy"
      <3>1. a \notin have'
        BY <1>2, <2>2
      <3> QED
        BY <2>2, <3>1, StockAt
    <2>3. CASE a = op.at /\ op.do # "destroy"
      <3>1. a \in have'
        BY <1>1, <1>2, <2>3 DEF Sound
      <3>2. a[1] = "release" => chart'[a[2]] = c
        BY <1>1, <1>2, <2>3, AddressCases
      <3>3. Stock(have', chart')[a] = {IF a[1] = "release" THEN chart'[a[2]] ELSE Tenant}
        BY <3>1, StockAt
      <3> QED
        BY <2>3, <3>2, <3>3
    <2> QED
      BY <2>1, <2>2, <2>3
  <1>5. Stock(have, chart)' = Stock(have', chart')
    BY DEF Stock
  <1>6. Stock(have', chart') =
            [Stock(have, chart) EXCEPT ![op.at] =
                IF op.do = "destroy" THEN {}
                ELSE {IF op.at[1] = "release" THEN c ELSE Tenant}]
    BY <1>1, <1>4 DEF Stock
  <1>7. unsaved' = IF op.do = "destroy" THEN unsaved \ {op.at}
                   ELSE IF Stock(have, chart)[op.at] = {} THEN unsaved \cup {op.at}
                   ELSE unsaved
    <2>1. Stock(have, chart)[op.at] = {} <=> op.at \notin have
      BY <1>1, StockAt
    <2> QED
      BY <1>1, <1>2, <2>1 DEF Sound
  <1> QED
    BY <1>1, <1>3, <1>5, <1>6, <1>7

\* A create or an update puts a resource, or harms it, where all it needs is there already.
LEMMA MakingPuts ==
    ASSUME Inv, NEW op \in todo, NEW c, Effect(op, c), op.do # "destroy"
    PROVE  Managed!Put(op.at) \/ Managed!Spoil(op.at)
  <1>1. /\ op \in Ops /\ goal \in [Keys -> Charts \cup {NoChart}]
        /\ op.do \in {"create", "update"} /\ Nested
    BY OpFacts DEF Inv, TypeOK
  <1>2. op.at \in Addresses /\ Sound(op) /\ Ready(op) /\ op.at \in Wanted(goal)
    BY <1>1, EffectStock DEF Sound
  <1>3. \A b \in Needs[op.at] : b \in Addresses /\ b \in have
    <2> SUFFICES ASSUME NEW b \in Needs[op.at] PROVE b \in Addresses /\ b \in have
      OBVIOUS
    <2>1. b \in Addresses /\ b \in Wanted(goal) /\ b[1] \in Refs[op.at[1]]
      BY <1>1, <1>2, NeedsFacts
    <2>2. CASE op.do = "create"
      BY <1>2, <2>1, <2>2, CreateAfterRefs
    <2>3. CASE op.do = "update"
      BY <1>1, <1>2, <2>1, <2>3, NeedsFacts DEF Sound
    <2> QED
      BY <1>1, <2>2, <2>3
  <1>4. /\ Stock(Wanted(goal), goal)[op.at] =
             {IF op.at[1] = "release" THEN goal[op.at[2]] ELSE Tenant}
        /\ \A b \in Needs[op.at] : Stock(have, chart)[b] # {}
    BY <1>2, <1>3, StockAt
  <1>5. Managed!Become(op.at, {IF op.at[1] = "release" THEN c ELSE Tenant})
    BY <1>1, <1>4, EffectStock DEF Managed!Become
  <1>6. c = goal[op.at[2]] \/ (op.at[1] = "release" /\ c = Broken)
    BY <1>1 DEF Effect
  <1> QED
    BY <1>4, <1>5, <1>6 DEF Managed!Put, Managed!Spoil

\* A destroy takes a resource that nothing there needs.
LEMMA DestroyingTakes ==
    ASSUME Inv, NEW op \in todo, NEW c, Effect(op, c), op.do = "destroy"
    PROVE  Managed!Take(op.at)
  <1>1. goal \in [Keys -> Charts \cup {NoChart}]
    BY DEF Inv, TypeOK
  <1>2. op.at \in Addresses /\ Ready(op) /\ op.at \notin Wanted(goal)
    BY EffectStock DEF Sound
  <1>3. ASSUME NEW b \in Addresses, op.at \in Needs[b] PROVE b \notin have
    <2>1. b \notin Wanted(goal) /\ op.at[1] \in Refs[b[1]]
      BY <1>1, <1>2, <1>3, NeedsFacts
    <2> QED
      BY <1>2, <2>1, DestroyAfterReferrers
  <1>4. /\ Stock(Wanted(goal), goal)[op.at] = {}
        /\ \A b \in Addresses : op.at \in Needs[b] => Stock(have, chart)[b] = {}
    BY <1>2, <1>3, StockAt
  <1> QED
    BY <1>4, EffectStock DEF Managed!Take

\* A killed apply loses what it has made, and harms what it was changing.
LEMMA KillLoses == Inv /\ Kill => Managed!Lose
  <1> SUFFICES ASSUME Inv, Kill PROVE Managed!Lose
    OBVIOUS
  <1>1. PICK lost \in Unsaved, cut \in SUBSET Cut :
            have' = have \ lost /\ chart' = After(lost, cut)
    BY KillFacts
  <1>2. /\ goal' = goal /\ unsaved' = {} /\ phase = "applying"
        /\ have \subseteq Addresses /\ lost \subseteq have /\ lost \subseteq unsaved
    BY KillFacts, LostFacts DEF Inv, TypeOK
  <1>3. Stock(have, chart)' = Stock(have', chart')
    BY DEF Stock
  <1>4. ASSUME NEW a \in Addresses
        PROVE  /\ a \in lost => Stock(have', chart')[a] = {}
               /\ a \notin lost =>
                    \/ Stock(have', chart')[a] = Stock(have, chart)[a]
                    \/ /\ a \in have /\ a \in Wanted(goal)
                       /\ Stock(have', chart')[a] = {Pending}
    <2>1. CASE a \notin have'
      <3>1. a \notin lost => a \notin have
        BY <1>1, <2>1
      <3>2. Stock(have', chart')[a] = {} /\ (a \notin have => Stock(have, chart)[a] = {})
        BY <2>1, StockAt
      <3> QED
        BY <3>1, <3>2
    <2>2. CASE a \in have'
      <3>1. a \in have /\ a \notin lost
        BY <1>1, <2>2
      <3>2. /\ Stock(have', chart')[a] = {IF a[1] = "release" THEN chart'[a[2]] ELSE Tenant}
            /\ Stock(have, chart)[a] = {IF a[1] = "release" THEN chart[a[2]] ELSE Tenant}
        BY <2>2, <3>1, StockAt
      <3>3. CASE a[1] = "release"
        <4>1. PICK k \in Keys : a = <<"release", k>> /\ a[2] = k
          BY <3>3, AddressCases DEF Project
        <4>2. chart'[k] = IF \E op \in cut : op.at = a THEN Pending ELSE chart[k]
          BY <1>1, <3>1, <4>1 DEF After
        <4>3. (\E op \in cut : op.at = a) => a \in Wanted(goal)
          BY <1>2 DEF Cut, Inv, PlanCovers, Sound
        <4> QED
          BY <3>1, <3>2, <3>3, <4>1, <4>2, <4>3
      <3>4. CASE a[1] # "release"
        BY <3>1, <3>2, <3>4
      <3> QED
        BY <3>3, <3>4
    <2> QED
      BY <2>1, <2>2
  <1>5. Managed!Lost = lost
    <2>1. \A a \in Addresses : Stock(have, chart)[a] # {} <=> a \in have
      BY StockAt
    <2>2. \A a \in Addresses : Stock(have', chart')[a] = {} <=> a \notin have'
      BY StockAt
    <2> QED
      BY <1>1, <1>2, <1>3, <2>1, <2>2 DEF Managed!Lost
  <1>6. \A a \in Addresses \ lost :
            /\ Stock(have, chart)[a] # {} => Needs[a] \cap lost = {}
            /\ \/ Stock(have', chart')[a] = Stock(have, chart)[a]
               \/ /\ Stock(Wanted(goal), goal)[a] # {} /\ Stock(have, chart)[a] # {}
                  /\ Stock(have', chart')[a] = {Pending}
    BY <1>4, LostFacts, StockAt
  <1>7. UNCHANGED Stock(Wanted(goal), goal)
    BY <1>2 DEF Stock, Wanted, Listed
  <1>8. Stock(have', chart') = [a \in Addresses |-> Stock(have', chart')[a]]
    BY DEF Stock
  <1> QED
    BY <1>2, <1>3, <1>5, <1>6, <1>7, <1>8 DEF Managed!Lose

\* Freeing a release leaves it harmed.
LEMMA RepairMends == Inv /\ Repair => UNCHANGED Managed!vars \/ \E a \in Addresses : Managed!Mend(a)
  <1> SUFFICES ASSUME Inv, Repair
               PROVE  UNCHANGED Managed!vars \/ \E a \in Addresses : Managed!Mend(a)
    OBVIOUS
  <1>1. PICK k \in Keys : chart' = [chart EXCEPT ![k] = IF @ = Pending THEN Broken ELSE @]
    BY DEF Repair
  <1>2. /\ goal' = goal /\ have' = have /\ unsaved' = unsaved
        /\ chart \in [Keys -> Charts \cup {NoChart, Broken, Pending}]
    BY DEF Repair, Inv, TypeOK
  <1>3. UNCHANGED Stock(Wanted(goal), goal)
    BY <1>2 DEF Stock, Wanted, Listed
  <1>4. CASE chart[k] # Pending
    <2>1. chart' = chart
      BY <1>1, <1>2, <1>4
    <2> QED
      BY <1>2, <1>3, <2>1 DEF Managed!vars, Stock
  <1>5. CASE chart[k] = Pending
    <2> DEFINE r == <<"release", k>>
    <2>1. r \in Addresses /\ r \in have /\ r[1] = "release" /\ r[2] = k
      BY <1>5, TenantAssumption DEF Inv, Nested, Addresses, PerWorkload
    <2>2. Stock(have, chart)[r] = {Pending}
      BY <1>5, <2>1, StockAt
    <2>3. ASSUME NEW a \in Addresses
          PROVE  Stock(have', chart')[a] = IF a = r THEN {Broken} ELSE Stock(have, chart)[a]
      <3>1. CASE a = r
        <4>1. chart'[k] = Broken
          BY <1>1, <1>2, <1>5
        <4> QED
          BY <1>2, <2>1, <3>1, <4>1, StockAt
      <3>2. CASE a # r
        <4>1. a[1] = "release" => chart'[a[2]] = chart[a[2]]
          BY <1>1, <1>2, <3>2, AddressCases
        <4>2. CASE a \in have
          <5>1. /\ Stock(have', chart')[a] = {IF a[1] = "release" THEN chart'[a[2]] ELSE Tenant}
                /\ Stock(have, chart)[a] = {IF a[1] = "release" THEN chart[a[2]] ELSE Tenant}
            BY <1>2, <4>2, StockAt
          <5> QED
            BY <3>2, <4>1, <5>1
        <4>3. CASE a \notin have
          BY <1>2, <3>2, <4>3, StockAt
        <4> QED
          BY <4>2, <4>3
      <3> QED
        BY <3>1, <3>2
    <2>4. Stock(have, chart)' = [Stock(have, chart) EXCEPT ![r] = {Broken}]
      BY <2>1, <2>3 DEF Stock
    <2> QED
      BY <1>2, <1>3, <2>1, <2>2, <2>4 DEF Managed!Mend
  <1> QED
    BY <1>4, <1>5

LEMMA InventoryStep == Inv /\ [Next]_vars => [Managed!Next]_(Managed!vars)
  <1> SUFFICES ASSUME Inv, [Next]_vars PROVE [Managed!Next]_(Managed!vars)
    OBVIOUS
  <1>1. ASSUME goal' = goal, have' = have, chart' = chart
        PROVE  UNCHANGED <<Stock(Wanted(goal), goal), Stock(have, chart)>>
    BY <1>1 DEF Stock, Wanted, Listed
  <1>2. CASE UNCHANGED vars \/ ChangeWorkloads \/ Settled
    <2>1. goal' = goal /\ have' = have /\ chart' = chart /\ unsaved' = unsaved
      BY <1>2 DEF vars, ChangeWorkloads, Settled
    <2> QED
      BY <1>1, <2>1 DEF Managed!vars
  <1>3. CASE Finish \/ Interrupt
    <2>1. goal' = goal /\ have' = have /\ chart' = chart /\ unsaved' = {}
      BY <1>3 DEF Finish, Interrupt, EndApply
    <2> QED
      BY <1>1, <2>1 DEF Managed!Next, Managed!Settle
  <1>4. CASE Plan
    BY <1>4, PlanAims DEF Managed!Next
  <1>5. ASSUME NEW op \in todo, NEW c, Effect(op, c) PROVE Managed!Next
    <2>1. op.at \in Addresses
      BY <1>5, EffectStock
    <2> QED
      BY <1>5, <2>1, MakingPuts, DestroyingTakes DEF Managed!Next
  <1>6. ASSUME NEW op \in todo, Succeed(op) PROVE Managed!Next
    BY <1>5, <1>6, SucceedEffect
  <1>7. ASSUME NEW op \in todo, FailOp(op) PROVE [Managed!Next]_(Managed!vars)
    <2>1. CASE Effect(op, Broken)
      BY <1>5, <2>1
    <2>2. CASE UNCHANGED <<want, phase, goal, have, unsaved, chart, result, changes>>
      BY <1>1, <2>2 DEF Managed!vars
    <2> QED
      BY <1>7, <2>1, <2>2, FailEffect
  <1>8. CASE Kill
    BY <1>8, KillLoses DEF Managed!Next
  <1>9. CASE Repair
    BY <1>9, RepairMends DEF Managed!Next
  <1> QED
    BY <1>2, <1>3, <1>4, <1>6, <1>7, <1>8, <1>9 DEF Next, Work

\* However workloads come and go, and wherever applies fail, are cut short or killed, the
\* tenant's resources are made and unmade as the abstract inventory allows (the
\* references of the envelope and deploy modules).
THEOREM ApplyKeepsInventory == Spec => ImplementsInventory
  BY InitAims, InventoryStep, InvHolds, PTL DEF Spec, ImplementsInventory, Managed!Spec

\* So what exists always has all it needs.
THEOREM SupportedHolds == Spec => []Managed!Supported
  <1>1. Inv => Managed!Supported
    BY NeedsFacts, StockAt DEF Inv, Managed!Supported
  <1> QED
    BY <1>1, InvHolds, PTL
=============================================================================
