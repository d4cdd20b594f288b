-------------------------- MODULE VerifySteps_proofs ---------------------------
(***************************************************************************)
(* Proofs about verify.py and the steps that have modules of their own.    *)
(*                                                                         *)
(* First VerifyGates, for checkouts with any defects; of the table of      *)
(* targets the proofs use only that a target is done when its parts are.   *)
(* Then MCVerifySteps: in the composition each module behaves as its own   *)
(* specification says, so that what is proved about RunInputScan and       *)
(* IntegrationRun holds there.  Then the charts and the documents, for any *)
(* edits of them.                                                          *)
(***************************************************************************)
EXTENDS MCVerifySteps, SequenceTheorems, WellFoundedInduction, TLAPS

\* fmt and docs, which rewrite what other steps look at, belong to no group.
Grouped == Names \ {"fmt", "docs"}

LEMMA TargetsType == ASSUME NEW g \in Groups PROVE TARGETS[g] \in Seq(Grouped)
  <1> DEFINE Ns == Grouped
  <1>1. /\ "fmt-check" \in Ns /\ "init" \in Ns /\ "validate" \in Ns /\ "tflint" \in Ns
        /\ "ruff" \in Ns /\ "yamllint" \in Ns /\ "opa-test" \in Ns /\ "opa-policy" \in Ns
        /\ "opa-plan" \in Ns /\ "docs-diff" \in Ns /\ "docs-layout" \in Ns
        /\ "adr-schema" \in Ns /\ "integration" \in Ns /\ "ci" \in Ns
        /\ "workflow-bom-check" \in Ns /\ "workflow-helper-tests" \in Ns
        /\ "privileged-workflows" \in Ns /\ "manifest-check" \in Ns /\ "lint" \in Ns
        /\ "actionlint" \in Ns /\ "test" \in Ns /\ "chart-schema" \in Ns
        /\ "chart-policy" \in Ns /\ "policy" \in Ns /\ "markdownlint" \in Ns
        /\ "docs-check" \in Ns /\ "lockfile-check" \in Ns
    BY DEF Grouped, Names, Steps, Groups
  <1> HIDE DEF Ns
  <1>2. Lint \in Seq(Ns)
    BY <1>1 DEF Lint
  <1>3. <<"opa-test", "opa-policy", "opa-plan">> \in Seq(Ns)
    BY <1>1
  <1>4. <<"docs-diff", "docs-layout", "adr-schema">> \in Seq(Ns)
    BY <1>1
  <1>5. <<"lint", "actionlint", "workflow-bom-check", "test", "chart-schema", "chart-policy",
          "workflow-helper-tests", "privileged-workflows", "policy", "markdownlint",
          "docs-check", "manifest-check", "lockfile-check">> \in Seq(Ns)
    BY <1>1
  <1>6. <<"ci", "integration">> \in Seq(Ns)
    BY <1>1
  <1>7. <<"workflow-bom-check", "workflow-helper-tests", "privileged-workflows", "opa-test",
          "opa-policy", "manifest-check", "docs-layout", "adr-schema">> \in Seq(Ns)
    BY <1>1
  <1>8. TARGETS[g] \in Seq(Ns)
    BY <1>2, <1>3, <1>4, <1>5, <1>6, <1>7 DEF TARGETS, Groups
  <1> QED
    BY <1>8 DEF Ns

LEMMA TargetsNames == ASSUME NEW g \in Groups PROVE TARGETS[g] \in Seq(Names)
  BY TargetsType DEF Grouped

\* What is left to execute is a sequence of names before and after a name of it
\* is taken off or replaced by its parts.
LEMMA TodoFacts ==
    ASSUME todo \in Seq(Names), todo # <<>>
    PROVE  /\ Head(todo) \in Names /\ Tail(todo) \in Seq(Names)
           /\ \A i \in DOMAIN todo : todo[i] = Head(todo) \/ \E j \in DOMAIN Tail(todo) :
                                                               Tail(todo)[j] = todo[i]
  <1>1. Head(todo) \in Names /\ Tail(todo) \in Seq(Names) /\ Len(Tail(todo)) = Len(todo) - 1
    OBVIOUS
  <1>2. ASSUME NEW i \in DOMAIN todo, i # 1
        PROVE  i - 1 \in DOMAIN Tail(todo) /\ Tail(todo)[i - 1] = todo[i]
    <2>1. Len(todo) \in Nat /\ i \in 1 .. Len(todo)
      OBVIOUS
    <2>2. i - 1 \in 1 .. Len(todo) - 1 /\ (i - 1) + 1 = i
      BY ONLY <2>1, <1>2
    <2>3. DOMAIN Tail(todo) = 1 .. Len(todo) - 1
      BY <1>1
    <2>4. Tail(todo)[i - 1] = todo[(i - 1) + 1]
      BY <1>1, <2>2
    <2> QED
      BY <2>2, <2>3, <2>4
  <1>3. todo[1] = Head(todo)
    OBVIOUS
  <1> QED
    BY <1>1, <1>2, <1>3

LEMMA StepLeaves == ASSUME NEW s \in Steps PROVE Leaves(s) = {s}
  <1>1. s \notin Groups
    BY DEF Steps, Groups
  <1>2. Parts(s) = {s}
    BY <1>1 DEF Parts
  <1> QED
    BY <1>2 DEF Leaves

\* A step of a group is a step of one of its parts.
LEMMA GroupLeaves ==
    ASSUME NEW g \in Groups, NEW s \in Leaves(g)
    PROVE  \E i \in DOMAIN TARGETS[g] : s \in Leaves(TARGETS[g][i])
  <1>1. PICK a \in Parts(g) : \E b \in Parts(a) : s \in Parts(b)
    BY DEF Leaves
  <1>2. PICK b \in Parts(a) : s \in Parts(b)
    BY <1>1
  <1>3. s \in Steps
    BY NestingAssumption DEF Names
  <1>4. Parts(s) = {s}
    BY <1>3 DEF Parts, Steps, Groups
  <1>5. s \in UNION {Parts(c) : c \in Parts(b)}
    BY <1>2, <1>4
  <1>6. s \in Leaves(a)
    BY <1>2, <1>5 DEF Leaves
  <1>7. PICK i \in DOMAIN TARGETS[g] : a = TARGETS[g][i]
    BY DEF Parts
  <1> QED
    BY <1>6, <1>7

\* What a target executes belongs to groups, unless the target is a step.
LEMMA LeavesGrouped ==
    ASSUME NEW n \in Names
    PROVE  Leaves(n) = {n} \/ Leaves(n) \subseteq Grouped
<1>1. ASSUME NEW g \in Grouped PROVE Parts(g) \subseteq Grouped
  <2>1. CASE g \in Groups
    BY <2>1, TargetsType DEF Parts
  <2>2. CASE g \notin Groups
    BY <2>2 DEF Parts
  <2> QED  BY <2>1, <2>2
<1>2. CASE n \in Groups
  <2>1. n \in Grouped
    BY <1>2 DEF Grouped, Names, Groups
  <2> QED  BY <1>1, <2>1 DEF Leaves
<1>3. CASE n \notin Groups
  BY <1>3, StepLeaves DEF Names
<1> QED  BY <1>2, <1>3

\* No step of a target removes what another of its steps finds, but init.
LEMMA NoneUndercut ==
    ASSUME NEW n \in Names, NEW s \in Leaves(n)
    PROVE  Leaves(n) \cap Repaired(s) \subseteq {"lockfile-check"}
<1>1. CASE Leaves(n) = {n}
  BY <1>1 DEF Repaired
<1>2. CASE s \in Grouped
  BY <1>2 DEF Grouped, Repaired
<1> QED  BY <1>1, <1>2, LeavesGrouped

-----------------------------------------------------------------------------
\* OPA is there only while a step of its own is executed.
OpaInStep == pc \notin InOpa => proc = "none"

\* An OPA that succeeded has judged the checkout.
OpaJudged == proc = "ok" => Head(todo) \notin defects

\* A step of the target that would report a defect is still to be executed.
Left(s) == \E i \in DOMAIN todo : s \in Leaves(todo[i])
Covered == verdict = "running" => \A s \in Leaves(target) \cap defects : Left(s)

Inv == TypeOK /\ OpaInStep /\ OpaJudged /\ Covered /\ GreenMeansClean

LEMMA InitInv == Init => Inv
  <1> SUFFICES ASSUME Init PROVE Inv
    OBVIOUS
  <1>1. todo \in Seq(Names) /\ target \in Names
    BY DEF Init, Names, Groups
  <1>2. TypeOK
    BY <1>1 DEF Init, TypeOK, InOpa
  <1> QED
    BY <1>2 DEF Init, Inv, OpaInStep, OpaJudged, Covered, GreenMeansClean

\* After Rest the invariant holds again.
LEMMA RestInv ==
    ASSUME Inv, Rest, module' \in BOOLEAN, initialised' \in BOOLEAN, defects' \subseteq Defective
    PROVE  Inv'
  <1>1. todo' \in Seq(Names) /\ target' \in Names
    BY DEF Rest, Names, Groups
  <1>2. TypeOK'
    BY <1>1 DEF Rest, TypeOK, InOpa
  <1> QED
    BY <1>2 DEF Rest, Inv, OpaInStep, OpaJudged, Covered, GreenMeansClean

\* A step that ends the invocation with red.
LEMMA StopInv ==
    ASSUME Inv, Stop, fault' \in BOOLEAN, late' \in BOOLEAN, killed' \in BOOLEAN,
           proc' = "none"
    PROVE  Inv'
  <1>1. todo' \in Seq(Names)
    BY DEF Stop
  <1>2. TypeOK'
    BY <1>1 DEF Stop, End, checkout, Inv, TypeOK, InOpa
  <1> QED
    BY <1>2 DEF Stop, End, Inv, OpaInStep, OpaJudged, Covered, GreenMeansClean

\* A step that returns has found nothing, and what it repairs it does not break.
LEMMA ReturnInv ==
    ASSUME Inv, Return, verdict = "running", todo # <<>>, Head(todo) \in Steps,
           Head(todo) \notin defects, defects' \subseteq defects,
           module' \in BOOLEAN, initialised' \in BOOLEAN,
           late' \in BOOLEAN, killed' \in BOOLEAN, proc' = "none"
    PROVE  Inv'
  <1>1. todo \in Seq(Names) /\ todo' = Tail(todo) /\ target' = target /\ verdict' = verdict
    BY DEF Inv, TypeOK, Return
  <1>2. todo' \in Seq(Names)
    BY <1>1, TodoFacts
  <1>3. TypeOK'
    BY <1>2 DEF Inv, TypeOK, Return, InOpa
  <1>4. Covered'
    <2> SUFFICES ASSUME NEW s \in Leaves(target)', s \in defects' PROVE Left(s)'
      BY DEF Covered
    <2>1. s \in Leaves(target) /\ s \in defects
      BY <1>1 DEF Leaves, Parts
    <2>2. PICK i \in DOMAIN todo : s \in Leaves(todo[i])
      BY <2>1 DEF Inv, Covered, Left
    <2>3. todo[i] # Head(todo)
      BY <2>1, <2>2, StepLeaves
    <2>4. PICK j \in DOMAIN Tail(todo) : Tail(todo)[j] = todo[i]
      BY <1>1, <2>3, TodoFacts
    <2>5. j \in DOMAIN todo' /\ s \in Leaves(todo'[j])
      BY <1>1, <2>2, <2>4
    <2> QED
      BY <2>5 DEF Left, Leaves, Parts
  <1> QED
    BY <1>1, <1>3, <1>4 DEF Inv, OpaInStep, OpaJudged, GreenMeansClean, Return, InOpa

LEMMA InvokeInv == ASSUME Inv, NEW n \in Names, Invoke(n) PROVE Inv'
  <1>1. todo' = <<n>> /\ todo' \in Seq(Names) /\ 1 \in DOMAIN todo' /\ todo'[1] = n
    BY DEF Invoke
  <1>2. TypeOK'
    BY <1>1 DEF Inv, TypeOK, Invoke, checkout, watch, InOpa
  <1>3. Covered'
    BY <1>1 DEF Covered, Left, Invoke, Leaves, Parts
  <1> QED
    BY <1>2, <1>3 DEF Inv, Invoke, checkout, watch, OpaInStep, OpaJudged, TypeOK,
                      GreenMeansClean, InOpa

LEMMA ExpandInv == ASSUME Inv, Expand PROVE Inv'
  <1> DEFINE g == Head(todo)
  <1>1. /\ todo \in Seq(Names) /\ todo # <<>> /\ g \in Groups
        /\ todo' = TARGETS[g] \o Tail(todo)
    BY DEF Inv, TypeOK, Expand
  <1>2. TARGETS[g] \in Seq(Names) /\ Tail(todo) \in Seq(Names)
    BY <1>1, TargetsNames, TodoFacts
  <1>3. todo' \in Seq(Names)
    BY <1>1, <1>2
  <1>4. /\ UNCHANGED <<checkout, target, atStart, fault, verdict, watch>>
        /\ pc' = "execute" /\ pc = "execute"
    BY DEF Expand
  <1>5. TypeOK'
    BY <1>3, <1>4 DEF Inv, TypeOK, checkout, watch, InOpa
  <1>6. Covered'
    <2> SUFFICES ASSUME verdict = "running", NEW s \in Leaves(target), s \in defects
                 PROVE  Left(s)'
      BY <1>4 DEF Covered, checkout, Leaves, Parts
    <2>1. PICK i \in DOMAIN todo : s \in Leaves(todo[i])
      BY DEF Inv, Covered, Left
    <2>2. CASE todo[i] = g
      <3>1. PICK j \in DOMAIN TARGETS[g] : s \in Leaves(TARGETS[g][j])
        BY <1>1, <2>1, <2>2, GroupLeaves
      <3>2. j \in DOMAIN todo' /\ todo'[j] = TARGETS[g][j]
        BY <1>1, <1>2, <3>1
      <3> QED
        BY <3>1, <3>2 DEF Left, Leaves, Parts
    <2>3. CASE todo[i] # g
      <3>1. PICK j \in DOMAIN Tail(todo) : Tail(todo)[j] = todo[i]
        BY <1>1, <2>3, TodoFacts
      <3>2. j + Len(TARGETS[g]) \in DOMAIN todo' /\ todo'[j + Len(TARGETS[g])] = Tail(todo)[j]
        BY SMTT(30), <1>1, <1>2, <3>1
      <3> QED
        BY <2>1, <3>1, <3>2 DEF Left, Leaves, Parts
    <2> QED
      BY <2>2, <2>3
  <1> QED
    BY <1>4, <1>5, <1>6 DEF Inv, OpaInStep, OpaJudged, GreenMeansClean, TypeOK, checkout,
                            watch, InOpa

LEMMA FinishInv == ASSUME Inv, Finish PROVE Inv'
  <1>1. TypeOK'
    BY DEF Inv, TypeOK, Finish, End, checkout, watch, InOpa
  <1>2. \A s \in Leaves(target) \cap defects : FALSE
    BY DEF Inv, Covered, Left, Finish, TypeOK
  <1> QED
    BY <1>1, <1>2 DEF Inv, Finish, End, OpaInStep, OpaJudged, GreenMeansClean, Covered,
                      TypeOK, checkout, watch, InOpa, Leaves, Parts

LEMMA RunStepInv == ASSUME Inv, NEW s \in Steps, RunStep(s) PROVE Inv'
  <1>1. /\ pc = "execute" /\ verdict = "running" /\ todo # <<>> /\ Head(todo) = s
        /\ proc = "none" /\ late \in BOOLEAN /\ killed \in BOOLEAN /\ fault \in BOOLEAN
        /\ module \in BOOLEAN /\ initialised \in BOOLEAN
    BY DEF RunStep, Inv, TypeOK, OpaInStep, InOpa
  <1>2. proc' = "none" /\ late' \in BOOLEAN /\ killed' \in BOOLEAN
    BY <1>1 DEF RunStep, watch
  <1>3. CASE Accepts(s) /\ defects' = defects \ Repaired(s) /\ Return
             /\ initialised' = (initialised \/ s = "init") /\ UNCHANGED module
    BY <1>1, <1>2, <1>3, ReturnInv DEF Accepts
  <1>4. CASE Stop /\ fault' \in BOOLEAN
    BY <1>2, <1>4, StopInv
  <1> QED
    BY <1>1, <1>3, <1>4 DEF RunStep

LEMMA StartOpaInv == ASSUME Inv, NEW s \in Steps, StartOpa(s) PROVE Inv'
  <1>1. /\ pc = "execute" /\ verdict = "running" /\ todo # <<>> /\ Head(todo) = s
        /\ s \in OpaSteps /\ proc = "none" /\ late \in BOOLEAN /\ killed \in BOOLEAN
    BY DEF StartOpa, Inv, TypeOK, OpaInStep, InOpa
  <1>2. CASE fault' = TRUE /\ Stop /\ UNCHANGED watch
    BY <1>1, <1>2, StopInv DEF watch
  <1>3. CASE /\ pc' \in {"write", "write much", "poll"} /\ proc' \in {"loading", "evaluating"}
             /\ late' = FALSE /\ killed' = FALSE
             /\ UNCHANGED <<checkout, target, atStart, todo, fault, verdict>>
    <2>1. TypeOK'
      BY <1>1, <1>3 DEF Inv, TypeOK, checkout, InOpa, Alive
    <2>2. verdict' = verdict /\ target' = target /\ todo' = todo /\ defects' = defects
      BY <1>3 DEF checkout
    <2>3. OpaInStep' /\ OpaJudged'
      BY <1>3 DEF OpaInStep, OpaJudged, InOpa
    <2>4. Covered' /\ GreenMeansClean'
      BY <2>2 DEF Inv, Covered, Left, GreenMeansClean, Leaves, Parts
    <2> QED
      BY <2>1, <2>3, <2>4 DEF Inv
  <1> QED
    BY <1>2, <1>3 DEF StartOpa, Writing

\* A step between the start and the end of an OPA step.
LEMMA WatchInv ==
    ASSUME Inv, pc \in InOpa, pc' \in InOpa,
           UNCHANGED <<checkout, target, atStart, todo, verdict>>,
           fault' \in BOOLEAN, late' \in BOOLEAN, killed' \in BOOLEAN,
           proc' \in Alive \cup {"none", "ok", "failed", "killed"},
           proc' = "ok" => Head(todo) \notin defects
    PROVE  Inv'
  <1>1. TypeOK'
    BY DEF Inv, TypeOK, checkout, InOpa
  <1> QED
    BY <1>1 DEF Inv, OpaInStep, OpaJudged, Covered, Left, GreenMeansClean, checkout,
                Leaves, Parts

LEMMA BrokenPipeInv == ASSUME Inv, BrokenPipe PROVE Inv'
  BY StopInv DEF BrokenPipe, Inv, TypeOK

LEMMA WaitInv == ASSUME Inv, Wait PROVE Inv'
  <1>1. /\ pc = "wait" /\ verdict = "running" /\ todo # <<>> /\ Head(todo) \in OpaSteps
        /\ proc' = "none" /\ late' = FALSE /\ killed' = FALSE
        /\ fault \in BOOLEAN /\ module \in BOOLEAN /\ initialised \in BOOLEAN
    BY DEF Wait, Inv, TypeOK, InOpa
  <1>2. CASE Stop /\ fault' \in BOOLEAN
    BY <1>1, <1>2, StopInv
  <1>3. CASE proc = "ok" /\ Return /\ UNCHANGED checkout
    <2>1. Head(todo) \in Steps /\ Head(todo) \notin defects
      BY <1>1, <1>3 DEF Inv, OpaJudged, OpaSteps, Steps
    <2> QED
      BY <1>1, <1>3, <2>1, ReturnInv DEF checkout
  <1> QED
    BY <1>1, <1>2, <1>3 DEF Wait

LEMMA NextInv == ASSUME Inv, Next PROVE Inv'
  <1>0. /\ module \in BOOLEAN /\ initialised \in BOOLEAN /\ defects \subseteq Defective
        /\ fault \in BOOLEAN /\ late \in BOOLEAN /\ killed \in BOOLEAN
        /\ proc \in Alive \cup {"none", "ok", "failed", "killed"}
    BY DEF Inv, TypeOK
  <1>1. CASE Checkout
    BY <1>1, RestInv DEF Checkout
  <1>2. ASSUME NEW d \in Defective, Edit(d) PROVE Inv'
    BY <1>0, <1>2, RestInv DEF Edit
  <1>3. CASE Interrupt
    BY <1>0, <1>3, RestInv DEF Interrupt, checkout
  <1>4. CASE WriteInput
    <2>1. pc \in InOpa /\ pc' \in InOpa
      BY <1>4 DEF WriteInput, Writing, InOpa
    <2> QED
      BY <1>0, <1>4, <2>1, WatchInv DEF WriteInput, Alive, Inv, OpaJudged
  <1>5. CASE Poll
    BY <1>0, <1>5, WatchInv DEF Poll, InOpa, Inv, OpaJudged, watch
  <1>6. CASE Check
    BY <1>0, <1>6, WatchInv DEF Check, InOpa, Inv, OpaJudged, Alive
  <1>7. CASE Deadline
    BY <1>0, <1>7, WatchInv DEF Deadline, InOpa, Inv, OpaJudged
  <1>8. CASE OpaReads
    <2>1. pc \in InOpa
      BY <1>8 DEF OpaReads, Inv, OpaInStep
    <2> QED
      BY <1>0, <1>8, <2>1, WatchInv DEF OpaReads, Alive
  <1>9. CASE OpaEnds
    <2>1. pc \in InOpa
      BY <1>9 DEF OpaEnds, Inv, OpaInStep, Alive
    <2> QED
      BY <1>0, <1>9, <2>1, WatchInv DEF OpaEnds
  <1>10. CASE Harness
    BY <1>4, <1>5, <1>6, <1>10, ExpandInv, FinishInv, RunStepInv, StartOpaInv,
       BrokenPipeInv, WaitInv DEF Harness
  <1> QED
    BY <1>1, <1>2, <1>3, <1>7, <1>8, <1>9, <1>10, InvokeInv DEF Next

LEMMA InvHolds == Spec => []Inv
  <1>1. Inv /\ UNCHANGED vars => Inv'
    BY DEF vars, Inv, TypeOK, OpaInStep, OpaJudged, Covered, Left, GreenMeansClean, Leaves, Parts
  <1>2. Inv /\ [Next]_vars => Inv'
    BY <1>1, NextInv
  <1> QED
    BY InitInv, <1>2, PTL DEF Spec

\* Every state of an invocation is well typed.
THEOREM VerifyTypeCorrect == Spec => []TypeOK
  <1>1. Inv => TypeOK
    BY DEF Inv
  <1> QED
    BY InvHolds, <1>1, PTL

\* A green target leaves a checkout in which each of its steps finds nothing.
THEOREM GreenMeansCleanHolds == Spec => []GreenMeansClean
  <1>1. Inv => GreenMeansClean
    BY DEF Inv
  <1> QED
    BY InvHolds, <1>1, PTL

\* No OPA process outlives the step that started it.
THEOREM NoOrphanHolds == Spec => []NoOrphan
  <1>1. Inv => NoOrphan
    BY DEF Inv, OpaInStep, NoOrphan, Alive
  <1> QED
    BY InvHolds, <1>1, PTL
-----------------------------------------------------------------------------
(* A green invocation has found nothing in the checkout as it was.         *)

\* What is left to execute belongs to the target.
InTarget == verdict = "running" => \A i \in DOMAIN todo : Leaves(todo[i]) \subseteq Leaves(target)

\* What the target would have found at first it would find now, but for the lock file.
Kept ==
    verdict \in {"running", "green"} =>
        Leaves(target) \cap atStart \subseteq defects \cup {"lockfile-check"}

KeptInv == InTarget /\ Kept

\* The same of the next state, in terms of its variables.
LEMMA InTargetNext ==
    ASSUME verdict' = "running" => \A i \in DOMAIN todo' :
                                      Leaves(todo'[i]) \subseteq Leaves(target')
    PROVE  InTarget'
  BY Zenon DEF InTarget, Leaves, Parts

LEMMA KeptNow ==
    ASSUME verdict' \in {"running", "green"} =>
             Leaves(target') \cap atStart' \subseteq defects' \cup {"lockfile-check"}
    PROVE  Kept'
  BY DEF Kept, Leaves, Parts

\* A step of a part of a group is a step of the group.
LEMMA PartLeaves ==
    ASSUME NEW g \in Groups, NEW j \in DOMAIN TARGETS[g]
    PROVE  Leaves(TARGETS[g][j]) \subseteq Leaves(g)
  <1> DEFINE a == TARGETS[g][j]
  <1>1. a \in Parts(g)
    BY DEF Parts
  <1> SUFFICES ASSUME NEW s \in Leaves(a) PROVE s \in Leaves(g)
    OBVIOUS
  <1>2. PICK b \in Parts(a) : \E c \in Parts(b) : s \in Parts(c)
    BY DEF Leaves
  <1>3. PICK c \in Parts(b) : s \in Parts(c)
    BY <1>2
  <1>4. c \in Leaves(g)
    BY <1>1, <1>2, <1>3 DEF Leaves
  <1>5. c \in Steps /\ c \notin Groups
    BY <1>4, NestingAssumption DEF Names, Steps, Groups
  <1>6. s = c
    BY <1>3, <1>5 DEF Parts
  <1> QED
    BY <1>4, <1>6

\* No invocation is running or green.
LEMMA KeptOver == ASSUME verdict' \notin {"running", "green"} PROVE KeptInv'
  BY DEF KeptInv, InTarget, Kept

\* What is left to execute, the target and the checkout stay as they are.
LEMMA KeptStill ==
    ASSUME KeptInv, UNCHANGED <<target, atStart, todo, defects, verdict>>
    PROVE  KeptInv'
  BY InTargetNext, KeptNow DEF KeptInv, InTarget, Kept

LEMMA KeptReturn ==
    ASSUME TypeOK, KeptInv, Return, verdict = "running", todo # <<>>,
           defects \subseteq defects' \cup Repaired(Head(todo)), Head(todo) \in Steps
    PROVE  KeptInv'
  <1>1. /\ todo \in Seq(Names) /\ todo' = Tail(todo) /\ target' = target
        /\ atStart' = atStart /\ target \in Names
    BY DEF TypeOK, Return
  <1>2. ASSUME NEW i \in DOMAIN Tail(todo)
        PROVE  i + 1 \in DOMAIN todo /\ todo[i + 1] = Tail(todo)[i]
    BY <1>1
  <1>3. InTarget'
    BY <1>1, <1>2, InTargetNext DEF KeptInv, InTarget, Return
  <1>4. 1 \in DOMAIN todo /\ todo[1] = Head(todo)
    BY <1>1
  <1>5. Head(todo) \in Leaves(target)
    BY <1>4, StepLeaves DEF KeptInv, InTarget
  <1>6. Leaves(target) \cap Repaired(Head(todo)) \subseteq {"lockfile-check"}
    BY <1>1, <1>5, NoneUndercut
  <1>7. Kept'
    BY <1>1, <1>6 DEF KeptInv, Kept, Leaves, Parts
  <1> QED
    BY <1>3, <1>7 DEF KeptInv

LEMMA KeptInvoke == ASSUME NEW n \in Names, Invoke(n) PROVE KeptInv'
  <1>1. todo' = <<n>> /\ target' = n /\ DOMAIN todo' = {1} /\ todo'[1] = n
    BY DEF Invoke
  <1> QED
    BY <1>1 DEF KeptInv, InTarget, Kept, Invoke, checkout, Leaves, Parts

LEMMA KeptExpand == ASSUME TypeOK, KeptInv, Expand PROVE KeptInv'
  <1> DEFINE g == Head(todo)
  <1>1. /\ todo \in Seq(Names) /\ todo # <<>> /\ g \in Groups
        /\ todo' = TARGETS[g] \o Tail(todo)
        /\ UNCHANGED <<target, atStart, verdict, defects>>
    BY DEF TypeOK, Expand, checkout
  <1>2. TARGETS[g] \in Seq(Names) /\ Tail(todo) \in Seq(Names)
    BY <1>1, TargetsNames, TodoFacts
  <1>3. ASSUME verdict = "running", NEW i \in DOMAIN todo'
        PROVE  Leaves(todo'[i]) \subseteq Leaves(target)
    <2>1. CASE i <= Len(TARGETS[g])
      <3>1. i \in DOMAIN TARGETS[g] /\ todo'[i] = TARGETS[g][i]
        BY <1>1, <1>2, <1>3, <2>1
      <3>2. 1 \in DOMAIN todo /\ todo[1] = g
        BY <1>1
      <3> QED
        BY <1>1, <1>3, <3>1, <3>2, PartLeaves DEF KeptInv, InTarget
    <2>2. CASE i > Len(TARGETS[g])
      <3>1. /\ i - Len(TARGETS[g]) \in DOMAIN Tail(todo)
            /\ todo'[i] = Tail(todo)[i - Len(TARGETS[g])]
        BY <1>1, <1>2, <1>3, <2>2
      <3>2. i - Len(TARGETS[g]) + 1 \in DOMAIN todo /\ todo'[i] = todo[i - Len(TARGETS[g]) + 1]
        BY <1>1, <3>1
      <3> QED
        BY <1>3, <3>2 DEF KeptInv, InTarget
    <2> QED
      BY <1>1, <1>2, <1>3, <2>1, <2>2
  <1> QED
    BY <1>1, <1>3, InTargetNext, KeptNow DEF KeptInv, Kept

LEMMA KeptNext == ASSUME Inv, KeptInv, Next PROVE KeptInv'
  <1>1. TypeOK
    BY DEF Inv
  <1>2. CASE Checkout \/ (\E d \in Defective : Edit(d)) \/ Interrupt
    BY <1>2, KeptOver DEF Checkout, Edit, Interrupt, Rest
  <1>3. CASE \E s \in Steps : RunStep(s)
    <2>1. PICK s \in Steps : RunStep(s)
      BY <1>3
    <2>2. verdict = "running" /\ todo # <<>> /\ Head(todo) = s
      BY <1>1, <2>1 DEF RunStep, TypeOK
    <2>3. CASE Stop
      BY <2>3, KeptOver DEF Stop, End
    <2>4. CASE defects' = defects \ Repaired(s) /\ Return
      BY <1>1, <2>2, <2>4, KeptReturn
    <2> QED
      BY <2>1, <2>3, <2>4 DEF RunStep
  <1>4. CASE \E s \in Steps : StartOpa(s)
    <2>1. CASE Stop
      BY <2>1, KeptOver DEF Stop, End
    <2> QED
      BY <1>4, <2>1, KeptStill DEF StartOpa, checkout
  <1>5. CASE Finish
    BY <1>1, <1>5 DEF Finish, End, KeptInv, InTarget, Kept, checkout, Leaves, Parts, TypeOK
  <1>6. CASE BrokenPipe
    BY <1>6, KeptOver DEF BrokenPipe, Stop, End
  <1>7. CASE Wait
    <2>1. CASE Stop
      BY <2>1, KeptOver DEF Stop, End
    <2>2. CASE Return /\ UNCHANGED checkout
      <3>1. verdict = "running" /\ todo # <<>> /\ Head(todo) \in Steps
        BY <1>1, <1>7 DEF Wait, TypeOK, InOpa, OpaSteps, Steps
      <3> QED
        BY <1>1, <2>2, <3>1, KeptReturn DEF checkout
    <2> QED
      BY <1>7, <2>1, <2>2 DEF Wait
  <1>8. CASE WriteInput \/ Poll \/ Check \/ Deadline \/ OpaReads \/ OpaEnds
    BY <1>8, KeptStill DEF WriteInput, Poll, Check, Deadline, OpaReads, OpaEnds, checkout
  <1> QED
    BY <1>1, <1>2, <1>3, <1>4, <1>5, <1>6, <1>7, <1>8, KeptInvoke, KeptExpand DEF Next, Harness

\* Each step of a green target found nothing in the checkout as it was, but for a
\* lock file that init has written.
THEOREM OnlyLockfileRepairedHolds == Spec => []OnlyLockfileRepaired
  <1>1. Init => KeptInv
    BY KeptOver DEF Init, KeptInv, InTarget, Kept
  <1>2. Inv /\ KeptInv /\ [Next]_vars => KeptInv'
    BY KeptNext, KeptStill DEF vars
  <1>3. Inv /\ KeptInv => OnlyLockfileRepaired
    BY DEF Inv, GreenMeansClean, KeptInv, Kept, OnlyLockfileRepaired
  <1> QED
    BY <1>1, <1>2, <1>3, InvHolds, PTL DEF Spec
-----------------------------------------------------------------------------
(* A red invocation of a group has a reason.                               *)

\* These initialise the module, and their providers are there for what follows.
Initialising == {"init", "lint", "ci", "verify"}

\* What needs the providers comes after something that initialises.
Ordered(q) == \A j \in DOMAIN q : q[j] \in NeedsInit => \E k \in 1 .. j - 1 : q[k] \in Initialising

\* A group, with a module for it to look at or made to do without one.
Sensible == target \in Groups /\ (module \/ target = "scaffold")

Orderly ==
    verdict = "running" /\ Sensible =>
        defects \subseteq atStart /\ (initialised \/ Ordered(todo))

\* OPA is there for the whole of its step; it has ended when the harness waits for
\* it, and has failed for a reason.
OpaSound ==
    /\ pc \in InOpa => proc # "none"
    /\ pc = "wait" => proc \notin Alive
    /\ proc = "killed" => killed
    /\ proc = "failed" => fault \/ Head(todo) \in defects

ReasonInv == Orderly /\ OpaSound /\ RedHasReason

\* The table of targets is in an order that works.
LEMMA TargetsOrdered ==
    ASSUME NEW g \in Groups
    PROVE  /\ Ordered(TARGETS[g])
           /\ g \in Initialising => \E k \in DOMAIN TARGETS[g] : TARGETS[g][k] \in Initialising
  BY DEF Groups, TARGETS, Lint, Ordered, NeedsInit, Initialising

\* The gates of a checkout without a module do without one.
LEMMA ScaffoldNeedsNone == Leaves("scaffold") \cap NeedsModule = {}
  <1>1. "scaffold" \in Groups /\ "scaffold" \in Names
    BY DEF Groups, Names
  <1>2. DOMAIN TARGETS["scaffold"] = 1 .. 8
    BY <1>1 DEF TARGETS
  <1>3. \A i \in 1 .. 8 : TARGETS["scaffold"][i] \in Steps \ NeedsModule
    BY <1>1 DEF TARGETS, Steps, NeedsModule
  <1>4. Parts("scaffold") \subseteq Steps \ NeedsModule
    BY <1>1, <1>2, <1>3 DEF Parts
  <1>5. \A a \in Steps : Parts(a) = {a}
    BY DEF Parts, Steps, Groups
  <1> QED
    BY <1>4, <1>5 DEF Leaves

\* Something of the step in front was found in the checkout as it was.
LEMMA FoundAtStart ==
    ASSUME TypeOK, KeptInv, Orderly, Sensible, verdict = "running", todo # <<>>,
           Head(todo) \in Steps, Head(todo) \in defects
    PROVE  Leaves(target) \cap atStart # {}
  <1>1. 1 \in DOMAIN todo /\ todo[1] = Head(todo)
    BY DEF TypeOK
  <1>2. Head(todo) \in Leaves(target)
    BY <1>1, StepLeaves DEF KeptInv, InTarget
  <1> QED
    BY <1>2 DEF Orderly

\* The step in front has what it needs.
LEMMA HasNeeds ==
    ASSUME TypeOK, KeptInv, Orderly, Sensible, verdict = "running", todo # <<>>,
           Head(todo) \in Steps
    PROVE  /\ Head(todo) \in NeedsModule => module
           /\ Head(todo) \in NeedsInit => initialised
  <1>1. 1 \in DOMAIN todo /\ todo[1] = Head(todo)
    BY DEF TypeOK
  <1>2. Head(todo) \in Leaves(target)
    BY <1>1, StepLeaves DEF KeptInv, InTarget
  <1>3. Head(todo) \in NeedsInit => initialised
    BY <1>1 DEF Orderly, Ordered
  <1> QED
    BY <1>2, <1>3, ScaffoldNeedsNone DEF Sensible

LEMMA ReasonNow ==
    ASSUME (verdict' = "red" /\ target' \in Groups /\ (module' \/ target' = "scaffold")) =>
             fault' \/ Leaves(target') \cap atStart' # {}
    PROVE  RedHasReason'
  BY Zenon DEF RedHasReason, Leaves, Parts

\* No invocation.
LEMMA ReasonRest == ASSUME Rest PROVE ReasonInv'
  BY ReasonNow DEF Rest, ReasonInv, Orderly, OpaSound, InOpa, Alive

\* The invocation ends in red, for a reason.
LEMMA ReasonStop ==
    ASSUME Stop, proc' = "none", Sensible => fault' \/ Leaves(target) \cap atStart # {}
    PROVE  ReasonInv'
  <1>1. RedHasReason'
    BY ReasonNow DEF Stop, checkout, Sensible
  <1> QED
    BY <1>1 DEF ReasonInv, Stop, End, Orderly, OpaSound, InOpa

LEMMA ReasonReturn ==
    ASSUME TypeOK, ReasonInv, Return, verdict = "running", todo # <<>>, Head(todo) \in Steps,
           proc' = "none", defects' \subseteq defects, UNCHANGED module,
           initialised' = (initialised \/ Head(todo) = "init")
    PROVE  ReasonInv'
  <1>1. todo \in Seq(Names) /\ todo' = Tail(todo) /\ todo[1] = Head(todo) /\ Len(todo) \in Nat
    BY DEF TypeOK, Return
  <1>2. Head(todo) \in Initialising => Head(todo) = "init"
    BY DEF Initialising, Steps
  <1>3. ASSUME Ordered(todo), Head(todo) # "init" PROVE Ordered(todo')
    <2> SUFFICES ASSUME NEW j \in DOMAIN todo', todo'[j] \in NeedsInit
                 PROVE  \E k \in 1 .. j - 1 : todo'[k] \in Initialising
      BY DEF Ordered
    <2>1. j \in 1 .. Len(todo) - 1 /\ j + 1 \in DOMAIN todo /\ todo'[j] = todo[j + 1]
      BY <1>1
    <2>2. PICK k \in 1 .. (j + 1) - 1 : todo[k] \in Initialising
      BY <1>3, <2>1 DEF Ordered
    <2>3. k # 1
      BY <1>1, <1>2, <1>3, <2>2
    <2>4. k - 1 \in 1 .. j - 1 /\ todo'[k - 1] = todo[k]
      BY <1>1, <2>1, <2>2, <2>3
    <2> QED
      BY <2>2, <2>4
  <1>4. Orderly'
    BY <1>3 DEF ReasonInv, Orderly, Sensible, Return
  <1>5. RedHasReason'
    BY ReasonNow DEF Return
  <1> QED
    BY <1>4, <1>5 DEF ReasonInv, OpaSound, Return, InOpa

LEMMA ReasonInvoke == ASSUME OpaInStep, NEW n \in Names, Invoke(n) PROVE ReasonInv'
  <1>1. n \in Groups => n \notin NeedsInit
    BY DEF Groups, NeedsInit
  <1>2. Orderly'
    BY <1>1 DEF Invoke, Orderly, Sensible, Ordered, checkout
  <1>3. RedHasReason'
    BY ReasonNow DEF Invoke
  <1>4. OpaSound'
    BY DEF Invoke, OpaInStep, OpaSound, InOpa, watch
  <1> QED
    BY <1>2, <1>3, <1>4 DEF ReasonInv

LEMMA ReasonExpand == ASSUME TypeOK, OpaInStep, ReasonInv, Expand PROVE ReasonInv'
  <1> DEFINE g == Head(todo)
             n == Len(TARGETS[g])
  <1>1. /\ todo \in Seq(Names) /\ todo # <<>> /\ g \in Groups /\ todo[1] = g
        /\ todo' = TARGETS[g] \o Tail(todo)
        /\ pc = "execute" /\ verdict = "running"
        /\ UNCHANGED <<checkout, target, atStart, fault, verdict, pc, watch>>
    BY DEF TypeOK, Expand
  <1>2. TARGETS[g] \in Seq(Names) /\ Tail(todo) \in Seq(Names)
    BY <1>1, TargetsNames, TodoFacts
  <1>3. ASSUME Ordered(todo) PROVE Ordered(todo')
    <2> SUFFICES ASSUME NEW j \in DOMAIN todo', todo'[j] \in NeedsInit
                 PROVE  \E k \in 1 .. j - 1 : todo'[k] \in Initialising
      BY DEF Ordered
    <2>0. n \in Nat /\ j \in Nat
      BY <1>1, <1>2
    <2>1. CASE j <= n
      <3>1. j \in DOMAIN TARGETS[g] /\ todo'[j] = TARGETS[g][j]
        BY <1>1, <1>2, <2>1
      <3>2. PICK k \in 1 .. j - 1 : TARGETS[g][k] \in Initialising
        BY <1>1, <3>1, TargetsOrdered DEF Ordered
      <3>3. todo'[k] = TARGETS[g][k]
        BY <1>1, <1>2, <2>0, <2>1, <3>2
      <3> QED
        BY <3>2, <3>3
    <2>2. CASE j > n
      <3>1. j - n + 1 \in DOMAIN todo /\ todo'[j] = todo[j - n + 1]
        BY <1>1, <1>2, <2>2
      <3>2. PICK k \in 1 .. j - n : todo[k] \in Initialising
        BY <1>3, <2>0, <2>2, <3>1 DEF Ordered
      <3>3. CASE k = 1
        <4>1. PICK m \in DOMAIN TARGETS[g] : TARGETS[g][m] \in Initialising
          BY <1>1, <3>2, <3>3, TargetsOrdered
        <4>2. m \in 1 .. j - 1 /\ todo'[m] = TARGETS[g][m]
          BY SMTT(30), <1>1, <1>2, <2>0, <2>2, <4>1
        <4> QED
          BY <4>1, <4>2
      <3>4. CASE k # 1
        <4>1. k + n - 1 \in 1 .. j - 1 /\ k + n - 1 > n
          BY <2>0, <3>2, <3>4
        <4>2. todo'[k + n - 1] = todo[k]
          BY <1>1, <1>2, <2>0, <3>1, <3>2, <3>4, <4>1
        <4> QED
          BY <3>2, <4>1, <4>2
      <3> QED
        BY <3>3, <3>4
    <2> QED
      BY <2>0, <2>1, <2>2
  <1>4. Orderly'
    BY <1>1, <1>3 DEF ReasonInv, Orderly, Sensible, checkout
  <1>5. RedHasReason'
    BY <1>1, ReasonNow
  <1> QED
    BY <1>1, <1>4, <1>5 DEF ReasonInv, OpaSound, OpaInStep, InOpa, watch

\* A step between the start and the end of an OPA step.
LEMMA ReasonWatch ==
    ASSUME TypeOK, ReasonInv, pc \in InOpa, OpaSound',
           UNCHANGED <<checkout, target, atStart, todo, verdict>>
    PROVE  ReasonInv'
  <1>1. verdict = "running"
    BY DEF TypeOK, InOpa
  <1>2. RedHasReason'
    BY <1>1, ReasonNow
  <1> QED
    BY <1>2 DEF ReasonInv, Orderly, Sensible, checkout

LEMMA ReasonNext == ASSUME Inv, KeptInv, ReasonInv, Next PROVE ReasonInv'
  <1>1. TypeOK /\ OpaInStep /\ Orderly /\ OpaSound
    BY DEF Inv, ReasonInv
  <1>2. CASE Checkout \/ (\E d \in Defective : Edit(d)) \/ Interrupt
    BY <1>2, ReasonRest DEF Checkout, Edit, Interrupt
  <1>3. ASSUME NEW s \in Steps, RunStep(s) PROVE ReasonInv'
    <2>1. verdict = "running" /\ todo # <<>> /\ Head(todo) = s /\ proc' = "none"
      BY <1>1, <1>3 DEF RunStep, TypeOK, OpaInStep, InOpa, watch
    <2>2. CASE Accepts(s) /\ Return /\ defects' = defects \ Repaired(s) /\ UNCHANGED module
               /\ initialised' = (initialised \/ s = "init")
      BY <1>1, <2>1, <2>2, ReasonReturn
    <2>3. CASE ~Accepts(s) /\ Stop
      BY <1>1, <2>1, <2>3, FoundAtStart, HasNeeds, ReasonStop DEF Accepts
    <2>4. CASE fault' = TRUE /\ Stop
      BY <2>1, <2>4, ReasonStop
    <2> QED
      BY <1>3, <2>2, <2>3, <2>4 DEF RunStep
  <1>4. ASSUME NEW s \in Steps, StartOpa(s) PROVE ReasonInv'
    <2>1. proc = "none" /\ pc = "execute" /\ verdict = "running"
      BY <1>1, <1>4 DEF StartOpa, OpaInStep, InOpa, TypeOK
    <2>2. CASE fault' = TRUE /\ Stop /\ UNCHANGED watch
      BY <2>1, <2>2, ReasonStop DEF watch
    <2>3. CASE /\ pc' \in {"write", "write much", "poll"} /\ proc' \in {"loading", "evaluating"}
               /\ UNCHANGED <<checkout, target, atStart, todo, fault, verdict>>
      <3>1. RedHasReason'
        BY <2>1, <2>3, ReasonNow
      <3> QED
        BY <2>3, <3>1 DEF ReasonInv, Orderly, Sensible, OpaSound, checkout
    <2> QED
      BY <1>4, <2>2, <2>3 DEF StartOpa, Writing
  <1>5. CASE Finish
    <2>1. RedHasReason'
      BY <1>5, ReasonNow DEF Finish, End
    <2> QED
      BY <1>1, <1>5, <2>1 DEF Finish, End, ReasonInv, Orderly, OpaSound, OpaInStep, InOpa, watch
  <1>6. CASE BrokenPipe
    <2>1. Head(todo) \in Steps /\ todo # <<>> /\ verdict = "running"
      BY <1>1, <1>6 DEF BrokenPipe, TypeOK, Writing, InOpa, OpaSteps, Steps
    <2>2. fault \/ Head(todo) \in defects
      BY <1>1, <1>6 DEF BrokenPipe, OpaSound
    <2> QED
      BY <1>1, <1>6, <2>1, <2>2, FoundAtStart, ReasonStop DEF BrokenPipe
  <1>7. CASE Wait
    <2>1. Head(todo) \in Steps /\ todo # <<>> /\ verdict = "running" /\ proc' = "none"
      BY <1>1, <1>7 DEF Wait, TypeOK, InOpa, OpaSteps, Steps
    <2>2. Head(todo) # "init"
      BY <1>1, <1>7 DEF Wait, TypeOK, InOpa, OpaSteps
    <2>3. CASE Return /\ UNCHANGED checkout
      <3>1. initialised' = (initialised \/ Head(todo) = "init")
        BY <1>1, <2>2, <2>3 DEF checkout, TypeOK
      <3> QED
        BY <1>1, <2>1, <2>3, <3>1, ReasonReturn DEF checkout
    <2>4. CASE ~killed /\ proc # "ok" /\ Stop /\ UNCHANGED fault
      <3>1. proc = "failed"
        BY <1>1, <1>7, <2>4 DEF Wait, TypeOK, OpaSound, InOpa
      <3>2. fault \/ Head(todo) \in defects
        BY <1>1, <3>1 DEF OpaSound
      <3> QED
        BY <1>1, <2>1, <2>4, <3>2, FoundAtStart, ReasonStop
    <2>5. CASE fault' = TRUE /\ Stop
      BY <2>1, <2>5, ReasonStop
    <2> QED
      BY <1>7, <2>3, <2>4, <2>5 DEF Wait
  <1>8. CASE WriteInput \/ Poll \/ Check \/ Deadline
    <2>1. pc \in InOpa
      BY <1>8 DEF WriteInput, Writing, Poll, Check, Deadline, InOpa
    <2>2. OpaSound'
      BY <1>1, <1>8 DEF WriteInput, Poll, Check, Deadline, OpaSound, InOpa, Alive, checkout, watch
    <2>3. UNCHANGED <<checkout, target, atStart, todo, verdict>>
      BY <1>8 DEF WriteInput, Poll, Check, Deadline
    <2> QED
      BY <1>1, <2>1, <2>2, <2>3, ReasonWatch
  <1>9. CASE OpaReads \/ OpaEnds
    <2>1. pc \in InOpa /\ pc # "wait"
      BY <1>1, <1>9 DEF OpaReads, OpaEnds, OpaInStep, OpaSound, Alive
    <2>2. OpaSound'
      BY <1>1, <1>9, <2>1 DEF OpaReads, OpaEnds, OpaSound, Alive, checkout
    <2>3. UNCHANGED <<checkout, target, atStart, todo, verdict>>
      BY <1>9 DEF OpaReads, OpaEnds
    <2> QED
      BY <1>1, <2>1, <2>2, <2>3, ReasonWatch
  <1> QED
    BY <1>1, <1>2, <1>3, <1>4, <1>5, <1>6, <1>7, <1>8, <1>9, ReasonInvoke, ReasonExpand
       DEF Next, Harness

\* A group turns red for a defect of the checkout as it was, or for a tool, never
\* because its steps are in an order that cannot work.
THEOREM RedHasReasonHolds == Spec => []RedHasReason
  <1>1. Init => ReasonInv
    BY DEF Init, ReasonInv, Orderly, OpaSound, RedHasReason, InOpa
  <1>2. Init => KeptInv
    BY DEF Init, KeptInv, InTarget, Kept
  <1>3. ReasonInv /\ UNCHANGED vars => ReasonInv'
    <2>1. UNCHANGED vars /\ RedHasReason => RedHasReason'
      BY ReasonNow DEF vars, RedHasReason
    <2>2. UNCHANGED vars /\ OpaSound => OpaSound'
      BY DEF vars, OpaSound
    <2>3. UNCHANGED vars /\ Orderly => Orderly'
      BY DEF vars, Orderly, Sensible, Ordered
    <2> QED
      BY <2>1, <2>2, <2>3 DEF ReasonInv
  <1>4. Inv /\ KeptInv /\ ReasonInv /\ [Next]_vars => KeptInv' /\ ReasonInv'
    BY <1>3, KeptNext, KeptStill, ReasonNext DEF vars
  <1>5. ReasonInv => RedHasReason
    BY DEF ReasonInv
  <1> QED
    BY <1>1, <1>2, <1>4, <1>5, InvHolds, PTL DEF Spec

-----------------------------------------------------------------------------
(* The composition.                                                        *)

\* The theorems about the components, for the variables of the composition.
RP == INSTANCE RunInputScan_proofs
IP == INSTANCE IntegrationRun_proofs
        WITH edits <- iEdits, fault <- iFault, verdict <- iVerdict

\* A step of the whole is a step of each module or leaves its variables alone.
LEMMA StepsProject ==
    [StepsNext]_stepsVars =>
        /\ [Next]_vars /\ [R!Next]_(R!vars) /\ [I!Next]_(I!vars)
        /\ [C!Next]_(C!vars) /\ [D!Next]_(D!vars)
  <1> SUFFICES ASSUME [StepsNext]_stepsVars
               PROVE  /\ [Next]_vars /\ [R!Next]_(R!vars) /\ [I!Next]_(I!vars)
                      /\ [C!Next]_(C!vars) /\ [D!Next]_(D!vars)
    OBVIOUS
  <1>1. UNCHANGED inputs => UNCHANGED R!vars
    BY DEF inputs, R!vars
  <1>2. UNCHANGED integration => UNCHANGED I!vars
    BY DEF integration, I!vars
  <1>3. UNCHANGED charts => UNCHANGED C!vars
    BY DEF charts, C!vars
  <1>4. UNCHANGED documents => UNCHANGED D!vars
    BY DEF documents, D!vars, D!texts
  <1> QED
    BY <1>1, <1>2, <1>3, <1>4, Zenon DEF StepsNext, stepsVars

\* In the composition every module behaves as its own specification says: no step
\* of one of them touches what another one relies on.
THEOREM StepsImplement ==
    StepsSpec => Spec /\ R!Spec /\ I!Spec /\ C!Spec /\ D!Spec
  <1>1. StepsInit => Init /\ R!Init /\ I!Init /\ C!Init /\ D!Init
    BY DEF StepsInit
  <1> QED
    BY <1>1, StepsProject, PTL DEF StepsSpec, Spec, R!Spec, I!Spec, C!Spec, D!Spec

-----------------------------------------------------------------------------
(* Run inputs and integration: what their own modules prove.  The two      *)
(* instances of a module define the same, one operator at a time.          *)

LEMMA SameScanSteps ==
    /\ R!Init => RP!Init
    /\ [R!Next]_(R!vars) => [RP!Next]_(RP!vars)
    /\ R!ReportsScript <=> RP!ReportsScript
    /\ R!ReportExplained <=> RP!ReportExplained
    /\ R!vars = RP!vars
  <1> USE DEF R!Indents, RP!Indents, R!Lines, RP!Lines, R!Forms, RP!Forms,
              R!NoBlock, RP!NoBlock, R!None, RP!None, R!vars, RP!vars,
              R!Inside, RP!Inside, R!Interpolates, RP!Interpolates, R!Column, RP!Column,
              R!Opens, RP!Opens, R!BlockAfter, RP!BlockAfter, R!Kept, RP!Kept,
              R!Flags, RP!Flags, R!ActiveAfter, RP!ActiveAfter,
              R!Expressions, RP!Expressions, R!Unseen, RP!Unseen,
              R!WellFormed, RP!WellFormed, R!ReadLine, RP!ReadLine
  <1>1. R!Init => RP!Init
    BY DEF R!Init, RP!Init
  <1>2. [R!Next]_(R!vars) => [RP!Next]_(RP!vars)
    BY DEF R!Next, RP!Next
  <1>3. (R!ReportsScript <=> RP!ReportsScript) /\ (R!ReportExplained <=> RP!ReportExplained)
    BY DEF R!ReportsScript, RP!ReportsScript, R!ReportExplained, RP!ReportExplained
  <1> QED
    BY <1>1, <1>2, <1>3

LEMMA SameScan == R!Spec => RP!Spec
  BY SameScanSteps, PTL DEF R!Spec, RP!Spec

LEMMA SameRun ==
    /\ I!Spec => IP!Spec
    /\ IP!AssembledFresh => I!AssembledFresh
    /\ IP!GreenMeansSound => I!GreenMeansSound
    /\ IP!RefusalExplained => I!RefusalExplained
  <1> USE DEF I!Inner, IP!Inner, I!Outer, IP!Outer, I!Files, IP!Files, I!Ignored, IP!Ignored,
              I!Gates, IP!Gates, I!Sources, IP!Sources, I!Good, IP!Good, I!With, IP!With,
              I!Without, IP!Without, I!SourcesOf, IP!SourcesOf, I!GatesOf, IP!GatesOf,
              I!After, IP!After, I!NeedInit, IP!NeedInit, I!Looks, IP!Looks, I!Room, IP!Room,
              I!Versions, IP!Versions, I!Missing, IP!Missing, I!ToCopy, IP!ToCopy,
              I!vars, IP!vars
  <1>1. I!Init => IP!Init
    BY DEF I!Init, IP!Init
  <1>2. [I!Next]_(I!vars) => [IP!Next]_(IP!vars)
    BY DEF I!Next, IP!Next, I!Edit, IP!Edit, I!End, IP!End, I!Invoke, IP!Invoke,
           I!Fail, IP!Fail, I!Reset, IP!Reset, I!Removed, IP!Removed, I!CopyFile, IP!CopyFile,
           I!SourceDone, IP!SourceDone, I!Passes, IP!Passes, I!Gate, IP!Gate,
           I!Finish, IP!Finish, I!Interrupt, IP!Interrupt
  <1>3. I!Spec => IP!Spec
    BY <1>1, <1>2, PTL DEF I!Spec, IP!Spec
  <1> USE DEF I!Offering, IP!Offering, I!Final, IP!Final
  <1>4. IP!AssembledFresh => I!AssembledFresh
    BY DEF I!AssembledFresh, IP!AssembledFresh, I!UnderTest, IP!UnderTest
  <1>5. IP!GreenMeansSound => I!GreenMeansSound
    BY DEF I!GreenMeansSound, IP!GreenMeansSound
  <1>6. IP!RefusalExplained => I!RefusalExplained
    BY DEF I!RefusalExplained, IP!RefusalExplained, I!Faulty, IP!Faulty
  <1> QED
    BY <1>3, <1>4, <1>5, <1>6

\* Every input written `${{ inputs.' in a block script that the scanner follows, or on the
\* line of a run key, is reported, at whatever indentation (check_workflow_run_inputs.py).
THEOREM PlainScriptsReportedHolds == StepsSpec => PlainScriptsReported
  <1>1. [RP!ReportsScript]_(RP!vars) => [focus = "inputs" => R!ReportsScript]_inputs
    BY SameScanSteps DEF RP!vars, inputs
  <1> QED
    BY <1>1, RP!PlainScriptsReportedHolds, SameScan, StepsImplement, PTL
       DEF PlainScriptsReported, RP!PlainScriptsReported

\* A line is reported wrongly only for one of two reasons (the same scan).
THEOREM OddReportsExplainedHolds == StepsSpec => OddReportsExplained
  <1>1. [RP!ReportExplained]_(RP!vars) => [focus = "inputs" => R!ReportExplained]_inputs
    BY SameScanSteps DEF RP!vars, inputs
  <1> QED
    BY <1>1, RP!OddReportsExplainedHolds, SameScan, StepsImplement, PTL
       DEF OddReportsExplained, RP!OddReportsExplained

\* The gates of an integration run see the checkout as it is and nothing that an
\* earlier run left in its workspace (run_integration.py).
THEOREM AssembledFreshHolds == StepsSpec => []AssembledFresh
  <1>1. I!AssembledFresh => AssembledFresh
    BY DEF AssembledFresh
  <1> QED
    BY <1>1, IP!AssembledFreshHolds, SameRun, StepsImplement, PTL

\* A green integration run means that no gate refuses a file of the case.
THEOREM GreenMeansSoundHolds == StepsSpec => []GreenMeansSound
  <1>1. I!GreenMeansSound => GreenMeansSound
    BY DEF GreenMeansSound
  <1> QED
    BY <1>1, IP!GreenMeansSoundHolds, SameRun, StepsImplement, PTL

\* A red integration run has its reason in the checkout or in a tool.
THEOREM RefusalExplainedHolds == StepsSpec => []RefusalExplained
  <1>1. I!RefusalExplained => RefusalExplained
    BY DEF RefusalExplained
  <1> QED
    BY <1>1, IP!RefusalExplainedHolds, SameRun, StepsImplement, PTL

-----------------------------------------------------------------------------
(* Documents.                                                              *)

\* The least element of a set of positions.
LEMMA Least ==
    ASSUME NEW S \in SUBSET Nat, S # {}
    PROVE  \E m \in S : \A k \in S : m <= k
  <1> DEFINE Less == OpToRel(<, Nat)
  <1>1. \A x, y \in Nat : <<y, x>> \in Less <=> y < x
    BY DEF OpToRel
  <1>2. PICK m \in S : \A k \in S : ~(<<k, m>> \in Less)
    BY NatLessThanWellFounded, WFMin
  <1>3. ASSUME NEW k \in S PROVE m <= k
    <2>1. m \in Nat /\ k \in Nat
      OBVIOUS
    <2>2. ~(k < m)
      BY <1>1, <1>2, <2>1
    <2> QED
      BY <2>1, <2>2
  <1> QED
    BY <1>3

Manifests == [version : {"1", "2"}, keys : {"1", "2"},
              byte_identical : Seq(D!Entries), scaffold_starter : Seq(D!Entries)]

\* The texts that are looked into, and the rest of a working tree.
TextsTyped ==
    /\ heads \in Seq(D!ToSet(Required)) /\ rows \in Seq(SUBSET D!Authors)
    /\ manifest \in Manifests

TreeTyped ==
    /\ files \subseteq D!Files /\ tracked \subseteq D!Files
    /\ bom \subseteq D!Files /\ linked \subseteq D!Scoped
    /\ named \subseteq {"how-to", "decision-records"}
    /\ git \in BOOLEAN /\ cloned \in BOOLEAN
    /\ dEdits \in 0 .. MaxEdits /\ promised \subseteq D!Checks
    /\ root \in BOOLEAN /\ behind \subseteq D!Files

LEMMA DocumentsTyped == TextsTyped /\ TreeTyped => D!TypeOK
  <1>1. TextsTyped => \A i \in DOMAIN heads : heads[i] \in D!ToSet(Required)
    BY DEF TextsTyped
  <1>2. TextsTyped => \A i \in DOMAIN rows : rows[i] \subseteq D!Authors
    BY DEF TextsTyped
  <1>3. TextsTyped => manifest.version \in {"1", "2"} /\ manifest.keys \in {"1", "2"}
    BY DEF TextsTyped, Manifests
  <1> QED
    BY <1>1, <1>2, <1>3 DEF TreeTyped, D!TypeOK

\* What a sequence is, whatever is added or taken out.
LEMMA Spliced ==
    ASSUME NEW S, NEW s \in Seq(S), NEW e \in S
    PROVE  /\ \A i \in DOMAIN s : D!RemoveAt(s, i) \in Seq(S)
           /\ \A i \in 1 .. Len(s) + 1 : D!InsertAt(s, i, e) \in Seq(S)
  <1>1. Len(s) \in Nat /\ DOMAIN s = 1 .. Len(s) /\ \A i \in 1 .. Len(s) : s[i] \in S
    OBVIOUS
  <1>2. ASSUME NEW m \in Int, NEW n \in Int, m >= 1, n <= Len(s)
        PROVE  SubSeq(s, m, n) \in Seq(S)
    <2>1. \A i \in m .. n : s[i] \in S
      BY <1>1, <1>2
    <2> QED
      BY <2>1, SubSeqProperties
  <1>3. ASSUME NEW i \in DOMAIN s PROVE D!RemoveAt(s, i) \in Seq(S)
    <2>1. SubSeq(s, 1, i - 1) \in Seq(S) /\ SubSeq(s, i + 1, Len(s)) \in Seq(S)
      BY <1>1, <1>2
    <2> QED
      BY <2>1, ConcatProperties DEF D!RemoveAt
  <1>4. ASSUME NEW i \in 1 .. Len(s) + 1 PROVE D!InsertAt(s, i, e) \in Seq(S)
    <2>1. SubSeq(s, 1, i - 1) \in Seq(S) /\ SubSeq(s, i, Len(s)) \in Seq(S) /\ <<e>> \in Seq(S)
      BY <1>1, <1>2
    <2> QED
      BY <2>1, ConcatProperties DEF D!InsertAt
  <1> QED
    BY <1>3, <1>4

\* What a manifest is, whatever is edited in it.
LEMMA Revised ==
    ASSUME NEW m \in Manifests
    PROVE  /\ \A e \in D!Entries : \A k \in {"byte_identical", "scaffold_starter"} :
                  [m EXCEPT ![k] = Append(@, e)] \in Manifests
           /\ m.byte_identical # <<>> => [m EXCEPT !.byte_identical = Tail(@)] \in Manifests
           /\ [m EXCEPT !.version = IF @ = "1" THEN "2" ELSE "1"] \in Manifests
           /\ [m EXCEPT !.version = "1", !.keys = "1", !.scaffold_starter = <<>>] \in Manifests
  <1>1. ASSUME NEW e \in D!Entries, NEW k \in {"byte_identical", "scaffold_starter"}
        PROVE  [m EXCEPT ![k] = Append(@, e)] \in Manifests
    <2>1. CASE k = "byte_identical"
      BY <2>1 DEF Manifests
    <2>2. CASE k = "scaffold_starter"
      BY SMTT(30), <2>2 DEF Manifests
    <2> QED
      BY <2>1, <2>2
  <1>2. ASSUME m.byte_identical # <<>>
        PROVE  [m EXCEPT !.byte_identical = Tail(@)] \in Manifests
    BY SMTT(30), <1>2 DEF Manifests
  <1>3. [m EXCEPT !.version = IF @ = "1" THEN "2" ELSE "1"] \in Manifests
    BY DEF Manifests
  <1>4. [m EXCEPT !.version = "1", !.keys = "1", !.scaffold_starter = <<>>] \in Manifests
    <2> DEFINE a == [m EXCEPT !.version = "1"]
               b == [a EXCEPT !.keys = "1"]
    <2>1. a \in Manifests
      BY DEF Manifests
    <2> HIDE DEF a
    <2>2. b \in Manifests
      BY <2>1 DEF Manifests
    <2> HIDE DEF b
    <2>3. <<>> \in Seq(D!Entries)
      BY EmptySeq
    <2>4. [b EXCEPT !.scaffold_starter = <<>>] \in Manifests
      BY <2>2, <2>3 DEF Manifests
    <2> QED
      BY <2>4 DEF a, b
  <1> QED
    BY <1>1, <1>2, <1>3, <1>4

LEMMA InitTexts == D!Init => TextsTyped /\ TreeTyped
  <1> SUFFICES ASSUME D!Init PROVE TextsTyped /\ TreeTyped
    OBVIOUS
  <1>1. Required \in Seq(D!ToSet(Required))
    BY RequiredAssumption DEF D!ToSet
  <1>2. heads \in Seq(D!ToSet(Required)) /\ rows \in Seq(SUBSET D!Authors)
    BY <1>1 DEF D!Init, D!Authors
  <1>3. manifest \in Manifests
    BY DEF D!Init, D!Entries, Manifests
  <1>4. TreeTyped
    <2>1. dEdits \in 0 .. MaxEdits
      BY MaxEditsAssumption DEF D!Init
    <2> QED
      BY <2>1
       DEF D!Init, TreeTyped, D!Files, D!Decisions, D!Scoped,
           D!Draft, D!Index, D!Plain, D!Readme, D!Guide, D!Checks
  <1> QED
    BY <1>2, <1>3, <1>4 DEF TextsTyped

LEMMA NextTexts == TextsTyped /\ TreeTyped /\ [D!Next]_(D!vars) => TextsTyped' /\ TreeTyped'
  <1> SUFFICES ASSUME TextsTyped, TreeTyped, [D!Next]_(D!vars)
               PROVE  TextsTyped' /\ TreeTyped'
    OBVIOUS
  <1>1. D!Edit => dEdits' \in 0 .. MaxEdits /\ promised' \subseteq D!Checks
                  /\ git' \in BOOLEAN /\ cloned' \in BOOLEAN /\ behind' \subseteq D!Files
    <2>1. D!Edit => dEdits' \in 0 .. MaxEdits
      BY MaxEditsAssumption DEF TreeTyped, D!Edit
    <2> QED
      BY <2>1 DEF TreeTyped, D!Edit
  <1>2. ASSUME NEW S, NEW T \in SUBSET S, NEW x \in S PROVE D!Toggled(T, x) \subseteq S
    BY DEF D!Toggled
  <1>3. ASSUME NEW f \in D!Files, D!EditFile(f) \/ D!Stage(f) PROVE TextsTyped' /\ TreeTyped'
    BY <1>1, <1>2, <1>3 DEF D!EditFile, D!Stage, D!texts, TextsTyped, TreeTyped
  <1>4. CASE D!EditText
    <2>1. bom' \subseteq D!Files
      BY <1>2, <1>4 DEF D!EditText, TreeTyped
    <2>2. linked' \subseteq D!Scoped
      BY <1>2, <1>4 DEF D!EditText, TreeTyped
    <2>3. named' \subseteq {"how-to", "decision-records"}
      <3>1. named \subseteq {"how-to", "decision-records"}
        BY DEF TreeTyped
      <3>2. \A d \in {"how-to", "decision-records"} :
                D!Toggled(named, d) \subseteq {"how-to", "decision-records"}
        BY <1>2, <3>1
      <3>3. named' = named \/ \E d \in {"how-to", "decision-records"} : named' = D!Toggled(named, d)
        BY <1>4 DEF D!EditText
      <3> QED
        BY <3>1, <3>2, <3>3
    <2> QED
      BY <1>1, <1>4, <2>1, <2>2, <2>3 DEF D!EditText, TextsTyped, TreeTyped
  <1>5. CASE D!EditDraft
    <2>1. heads' \in Seq(D!ToSet(Required))
      BY <1>5, Spliced DEF D!EditDraft, TextsTyped
    <2>2. rows' \in Seq(SUBSET D!Authors)
      BY <1>5 DEF D!EditDraft, TextsTyped
    <2> QED
      BY <1>1, <1>5, <2>1, <2>2 DEF D!EditDraft, TextsTyped, TreeTyped
  <1>6. CASE D!EditManifest
    <2>5. manifest' \in Manifests
      BY ZenonT(40), <1>6, Revised DEF D!EditManifest, TextsTyped
    <2> QED
      BY <1>1, <1>6, <2>5 DEF D!EditManifest, TextsTyped, TreeTyped
  <1>7. CASE D!Commit
    BY <1>7 DEF D!Commit, D!texts, TextsTyped, TreeTyped
  <1>8. CASE UNCHANGED D!vars
    BY <1>8 DEF D!vars, D!texts, TextsTyped, TreeTyped
  <1> QED
    BY <1>3, <1>4, <1>5, <1>6, <1>7, <1>8 DEF D!Next

\* Every variable of the documents keeps its type.
LEMMA DocumentsTypeCorrect == D!Spec => [](TextsTyped /\ TreeTyped)
  BY InitTexts, NextTexts, PTL DEF D!Spec

\* What both checks accepted before the commit and accept after it (index and links of
\* check_adr_schema.py, docs/README.md of check_docs_layout.py) has come along.
THEOREM NoRecordLeftBehindHolds == StepsSpec => []NoRecordLeftBehind
  <1>1. D!Init => D!NoRecordLeftBehind
    BY DEF D!Init, D!NoRecordLeftBehind
  <1>2. D!NoRecordLeftBehind /\ [D!Next]_(D!vars) => D!NoRecordLeftBehind'
    <2> SUFFICES ASSUME D!NoRecordLeftBehind, [D!Next]_(D!vars),
                        cloned', {"adr-schema", "docs-layout"} \subseteq promised',
                        D!AdrSchemaOk', D!LayoutOk'
                 PROVE  (behind \cap (D!Scoped \cup {D!Index, D!Readme}) = {})'
      BY DEF D!NoRecordLeftBehind
    <2>1. CASE D!Commit
      <3>1. linked' = linked /\ files' = files \cap tracked /\ behind' = files \ tracked
        BY <2>1 DEF D!Commit, D!texts
      <3>2. D!Passing("adr-schema") /\ D!Passing("docs-layout")
        BY <2>1 DEF D!Commit
      <3>3. linked = files \cap D!Scoped
        BY <3>2 DEF D!Passing, D!AdrSchemaOk, D!IndexOk
      <3>4. D!Index \in files' /\ linked' = files' \cap D!Scoped /\ D!Readme \in files'
        BY DEF D!AdrSchemaOk, D!IndexOk, D!LayoutOk, D!Index, D!Scoped, D!Readme
      <3> QED
        BY <3>1, <3>3, <3>4 DEF D!Scoped, D!Index, D!Readme
    <2>2. CASE UNCHANGED D!vars
      <3>1. /\ UNCHANGED <<files, root, bom, linked, named, heads, rows>>
            /\ UNCHANGED <<promised, behind, cloned>>
        BY <2>2 DEF D!vars, D!texts
      <3>2. (D!AdrSchemaOk' <=> D!AdrSchemaOk) /\ (D!LayoutOk' <=> D!LayoutOk)
        BY <3>1 DEF D!AdrSchemaOk, D!SectionsOk, D!AuthorsOk, D!IndexOk, D!LayoutOk, D!FirstAt
      <3> QED
        BY <3>1, <3>2 DEF D!NoRecordLeftBehind, D!Scoped, D!Index, D!Readme
    <2>3. CASE cloned' = FALSE
      BY <2>3
    <2> QED
      BY <2>1, <2>2, <2>3
         DEF D!Next, D!EditFile, D!Stage, D!EditText, D!EditDraft, D!EditManifest, D!Edit
  <1>3. D!NoRecordLeftBehind => NoRecordLeftBehind
    BY DEF NoRecordLeftBehind
  <1> QED
    BY <1>1, <1>2, <1>3, StepsImplement, PTL DEF D!Spec

\* The place where the first heading of a name is.
LEMMA FirstAtIs ==
    ASSUME TextsTyped, NEW h \in D!ToSet(heads)
    PROVE  /\ D!FirstAt(h) \in DOMAIN heads /\ heads[D!FirstAt(h)] = h
           /\ \A k \in DOMAIN heads : heads[k] = h => D!FirstAt(h) <= k
  <1> DEFINE S == {i \in DOMAIN heads : heads[i] = h}
  <1>1. S \in SUBSET Nat /\ S # {} /\ DOMAIN heads = 1 .. Len(heads)
    BY DEF TextsTyped, D!ToSet
  <1>2. PICK m \in S : \A k \in S : m <= k
    BY <1>1, Least
  <1>3. \A j \in 1 .. m - 1 : heads[j] # h
    BY <1>1, <1>2
  <1> DEFINE least == D!FirstAt(h)
  <1>4. least \in DOMAIN heads /\ heads[least] = h /\ \A j \in 1 .. least - 1 : heads[j] # h
    BY <1>2, <1>3 DEF D!FirstAt
  <1> HIDE DEF least
  <1>5. ASSUME NEW k \in DOMAIN heads, heads[k] = h PROVE least <= k
    <2>1. k \in Nat /\ least \in Nat /\ k >= 1 /\ Len(heads) \in Nat
      BY <1>1, <1>4
    <2>2. k \notin 1 .. least - 1
      BY <1>4, <1>5
    <2> QED
      BY ONLY <2>1, <2>2
  <1> QED
    BY <1>4, <1>5 DEF least

\* In an accepted record no section is met before its turn: heading by heading, what stands
\* before the place of a section belongs to earlier ones (validate_record of
\* check_adr_schema.py, which compares the first places only).
THEOREM RecordsSoundHolds == StepsSpec => []RecordsSound
  <1>1. TextsTyped => RecordsSound
    <2> SUFFICES ASSUME TextsTyped, D!AdrSchemaOk, D!Draft \in files
                 PROVE  \E at \in [DOMAIN Required -> DOMAIN heads] :
                           \A i \in DOMAIN Required :
                              /\ heads[at[i]] = Required[i]
                              /\ \A k \in 1 .. at[i] - 1 :
                                    \E j \in 1 .. i - 1 : heads[k] = Required[j]
      BY DEF RecordsSound, D!RecordsSound
    <2>1. D!SectionsOk
      BY DEF D!AdrSchemaOk
    <2> DEFINE at == [i \in DOMAIN Required |-> D!FirstAt(Required[i])]
    <2>2. ASSUME NEW i \in DOMAIN Required
          PROVE  /\ at[i] \in DOMAIN heads /\ heads[at[i]] = Required[i]
                 /\ \A k \in DOMAIN heads : heads[k] = Required[i] => at[i] <= k
      BY <2>1, FirstAtIs DEF D!SectionsOk, D!ToSet
    <2>3. \A i, j \in DOMAIN Required : i < j => at[i] < at[j]
      BY <2>1 DEF D!SectionsOk
    <2>4. at \in [DOMAIN Required -> DOMAIN heads]
      BY <2>2
    <2> HIDE DEF at
    <2>5. /\ DOMAIN Required = 1 .. Len(Required) /\ Len(Required) \in Nat
          /\ DOMAIN heads = 1 .. Len(heads) /\ Len(heads) \in Nat
      BY RequiredAssumption DEF TextsTyped
    <2>6. ASSUME NEW i \in DOMAIN Required, NEW k \in 1 .. at[i] - 1
          PROVE  \E j \in 1 .. i - 1 : heads[k] = Required[j]
      <3>1. k \in DOMAIN heads /\ k < at[i] /\ at[i] \in Nat /\ k \in Nat
        BY <2>2, <2>5
      <3>2. PICK j \in DOMAIN Required : heads[k] = Required[j]
        BY <3>1 DEF TextsTyped, D!ToSet
      <3>3. at[j] <= k /\ at[j] \in Nat
        BY <2>2, <2>5, <3>1, <3>2
      <3>4. ~(i < j) /\ i # j
        BY <2>3, <3>1, <3>3
      <3>5. j \in 1 .. i - 1
        BY <2>5, <3>4
      <3> QED
        BY <3>2, <3>5
    <2> QED
      BY <2>2, <2>4, <2>6
  <1> QED
    BY <1>1, DocumentsTypeCorrect, StepsImplement, PTL

\* A manifest that was accepted where git works is accepted in every checkout of
\* the commit (check_baseline_manifest.py, git ls-files).
THEOREM ManifestSurvivesCommitHolds == StepsSpec => []ManifestSurvivesCommit
  <1>1. D!Init => D!ManifestSurvivesCommit
    BY DEF D!Init, D!ManifestSurvivesCommit
  <1>2. D!ManifestSurvivesCommit /\ [D!Next]_(D!vars) => D!ManifestSurvivesCommit'
    <2> SUFFICES ASSUME D!ManifestSurvivesCommit, [D!Next]_(D!vars),
                        (cloned /\ git /\ "manifest-check" \in promised)'
                 PROVE  D!ManifestOk'
      BY DEF D!ManifestSurvivesCommit
    <2>1. CASE D!Commit
      <3>1. UNCHANGED <<manifest, git>> /\ files' = files \cap tracked /\ tracked' = files'
        BY <2>1 DEF D!Commit, D!texts
      <3>2. "manifest-check" \in D!Checks /\ D!Passing("manifest-check")
        BY <2>1 DEF D!Commit
      <3>3. D!ManifestOk /\ git
        BY <3>1, <3>2 DEF D!Passing
      <3>4. D!ShapeOk' <=> D!ShapeOk
        BY <3>1 DEF D!ShapeOk
      <3>5. D!Sources' = D!Sources
        BY <3>1 DEF D!Sources
      <3> QED
        BY <3>1, <3>3, <3>4, <3>5 DEF D!ManifestOk
    <2>2. CASE UNCHANGED D!vars
      BY <2>2 DEF D!vars, D!texts, D!ManifestSurvivesCommit, D!ManifestOk, D!ShapeOk, D!Sources
    <2>3. CASE cloned' = FALSE
      BY <2>3
    <2> QED
      BY <2>1, <2>2, <2>3
         DEF D!Next, D!EditFile, D!Stage, D!EditText, D!EditDraft, D!EditManifest, D!Edit
  <1>3. D!ManifestSurvivesCommit => ManifestSurvivesCommit
    BY DEF ManifestSurvivesCommit
  <1> QED
    BY <1>1, <1>2, <1>3, StepsImplement, PTL DEF D!Spec

-----------------------------------------------------------------------------
(* Charts: the cases of a target as sets.                                  *)

CaseSet(t) == C!ToSet(C!CasesOf(t))

Pinned == {"digest", "tag and digest"}
Unpinned ==
    {"lookalike org", "no repository", "tag only", "foreign registry", "bare",
     "init bare", "ephemeral bare"}

SchemaCases ==
    {C!Chart("schema", "default", {}),
     C!Chart("schema", "all", {"VaultStaticSecret", "PersistentVolumeClaim", "token",
                               "NET_BIND_SERVICE"}),
     C!Chart("schema", "compliant", {"Deployment", "Service"}),
     C!Chart("schema", "statefulset", {"StatefulSet", "Service", "headless"}),
     C!Chart("schema", "hostile", {"Deployment", "Service", "LoadBalancer", "externalIPs",
                                   "ExternalName", "Role", "RoleBinding", "Secret",
                                   "hostPath"})}

ImageCases ==
    {C!ImageProbe(i, TRUE) : i \in Pinned} \cup {C!ImageProbe(i, FALSE) : i \in Unpinned}

KindCases ==
    {C!Probe("kinds", {k}, TRUE) : k \in {"StatefulSet", "Job", "CronJob"}}
        \cup {C!Probe("kinds", {k}, FALSE) : k \in {"DaemonSet", "Pod", "ReplicaSet"}}

RenderCases ==
    {C!Chart("policy", "default", {}),
     C!Chart("policy", "all", {"PersistentVolumeClaim", "token", "NET_BIND_SERVICE"}),
     C!Chart("policy", "compliant", {"Deployment", "Service", "digest"}),
     C!Chart("policy", "statefulset", {"StatefulSet", "Service", "headless", "digest"}),
     C!Hostile}

\* The set of the elements of s is S.
Lists(s, S) == s \in Seq(S) /\ C!ToSet(s) = S

LEMMA ListsConcat ==
    ASSUME NEW S, NEW s, Lists(s, S), NEW T, NEW t, Lists(t, T)
    PROVE  Lists(s \o t, S \cup T)
  <1>0. s \in Seq(S) /\ C!ToSet(s) = S /\ t \in Seq(T) /\ C!ToSet(t) = T
    BY DEF Lists
  <1>1. s \in Seq(S \cup T) /\ t \in Seq(S \cup T)
    BY <1>0, SeqMonotonic
  <1>2. /\ Len(s) \in Nat /\ DOMAIN s = 1 .. Len(s)
        /\ Len(t) \in Nat /\ DOMAIN t = 1 .. Len(t)
    BY <1>0
  <1>3. /\ s \o t \in Seq(S \cup T)
        /\ Len(s \o t) = Len(s) + Len(t)
        /\ \A i \in 1 .. Len(s) + Len(t) :
               (s \o t)[i] = IF i <= Len(s) THEN s[i] ELSE t[i - Len(s)]
    BY <1>1, ConcatProperties
  <1>4. DOMAIN (s \o t) = 1 .. Len(s) + Len(t)
    BY <1>3
  <1>5. ASSUME NEW x \in C!ToSet(s \o t) PROVE x \in C!ToSet(s) \cup C!ToSet(t)
    <2>1. PICK i \in 1 .. Len(s) + Len(t) : x = (s \o t)[i]
      BY <1>4 DEF C!ToSet
    <2>2. CASE i <= Len(s)
      BY <1>2, <1>3, <2>1, <2>2 DEF C!ToSet
    <2>3. CASE ~(i <= Len(s))
      <3>1. i - Len(s) \in 1 .. Len(t)
        BY <1>2, <2>3
      <3> QED
        BY <1>2, <1>3, <2>1, <2>3, <3>1 DEF C!ToSet
    <2> QED
      BY <2>2, <2>3
  <1>6. ASSUME NEW i \in 1 .. Len(s) PROVE s[i] \in C!ToSet(s \o t)
    <2>1. i \in 1 .. Len(s) + Len(t) /\ (s \o t)[i] = s[i]
      BY <1>2, <1>3
    <2> QED
      BY <1>4, <2>1 DEF C!ToSet
  <1>7. ASSUME NEW i \in 1 .. Len(t) PROVE t[i] \in C!ToSet(s \o t)
    <2>1. i + Len(s) \in 1 .. Len(s) + Len(t) /\ ~(i + Len(s) <= Len(s)) /\ i + Len(s) - Len(s) = i
      BY <1>2
    <2>2. (s \o t)[i + Len(s)] = t[i]
      BY <1>3, <2>1
    <2> QED
      BY <1>4, <2>1, <2>2 DEF C!ToSet
  <1>8. C!ToSet(s \o t) = C!ToSet(s) \cup C!ToSet(t)
    BY <1>2, <1>5, <1>6, <1>7 DEF C!ToSet
  <1> QED
    BY <1>8, <1>0, <1>3 DEF Lists

LEMMA ListsPair ==
    ASSUME NEW a, NEW b PROVE Lists(<<a, b>>, {a, b})
  BY DEF C!ToSet, Lists

LEMMA ListsFive ==
    ASSUME NEW a, NEW b, NEW c, NEW d, NEW e
    PROVE  Lists(<<a, b, c, d, e>>, {a, b, c, d, e})
  <1>1. \A i \in 1 .. 5 : i = 1 \/ i = 2 \/ i = 3 \/ i = 4 \/ i = 5
    OBVIOUS
  <1>2. DOMAIN <<a, b, c, d, e>> = 1 .. 5
    OBVIOUS
  <1>3. C!ToSet(<<a, b, c, d, e>>) = {a, b, c, d, e}
    BY <1>1, <1>2 DEF C!ToSet
  <1> QED
    BY <1>3 DEF Lists

LEMMA ListsSix ==
    ASSUME NEW a, NEW b, NEW c, NEW d, NEW e, NEW f
    PROVE  Lists(<<a, b, c, d, e, f>>, {a, b, c, d, e, f})
  <1>1. \A i \in 1 .. 6 : i = 1 \/ i = 2 \/ i = 3 \/ i = 4 \/ i = 5 \/ i = 6
    OBVIOUS
  <1>2. DOMAIN <<a, b, c, d, e, f>> = 1 .. 6
    OBVIOUS
  <1>3. C!ToSet(<<a, b, c, d, e, f>>) = {a, b, c, d, e, f}
    BY <1>1, <1>2 DEF C!ToSet
  <1> QED
    BY <1>3 DEF Lists

LEMMA ListsSeven ==
    ASSUME NEW a, NEW b, NEW c, NEW d, NEW e, NEW f, NEW g
    PROVE  Lists(<<a, b, c, d, e, f, g>>, {a, b, c, d, e, f, g})
  <1>1. \A i \in 1 .. 7 : i = 1 \/ i = 2 \/ i = 3 \/ i = 4 \/ i = 5 \/ i = 6 \/ i = 7
    OBVIOUS
  <1>2. DOMAIN <<a, b, c, d, e, f, g>> = 1 .. 7
    OBVIOUS
  <1>3. C!ToSet(<<a, b, c, d, e, f, g>>) = {a, b, c, d, e, f, g}
    BY <1>1, <1>2 DEF C!ToSet
  <1> QED
    BY <1>3 DEF Lists

LEMMA SchemaSet == Lists(C!SchemaCases, SchemaCases)
  BY ListsFive DEF C!SchemaCases, SchemaCases

LEMMA KindSet == Lists(C!KindProbes, KindCases)
  <1> DEFINE p(k, pass) == C!Probe("kinds", {k}, pass)
  <1>1. KindCases = {p("StatefulSet", TRUE), p("Job", TRUE), p("CronJob", TRUE),
                 p("DaemonSet", FALSE), p("Pod", FALSE), p("ReplicaSet", FALSE)}
    BY DEF KindCases
  <1> QED
    BY <1>1, ListsSix DEF C!KindProbes

LEMMA DeniedSet == Lists(C!DeniedImages, Unpinned)
  BY ListsSeven DEF C!DeniedImages, Unpinned

LEMMA ImageSet == Lists(C!ImageProbes, ImageCases)
  <1> DEFINE good == <<C!ImageProbe("digest", TRUE), C!ImageProbe("tag and digest", TRUE)>>
             bad == [i \in DOMAIN C!DeniedImages |-> C!ImageProbe(C!DeniedImages[i], FALSE)]
             G == {C!ImageProbe(i, TRUE) : i \in Pinned}
             B == {C!ImageProbe(i, FALSE) : i \in Unpinned}
  <1>1. Lists(good, G)
    <2>1. G = {C!ImageProbe("digest", TRUE), C!ImageProbe("tag and digest", TRUE)}
      BY DEF Pinned
    <2> QED
      BY <2>1, ListsPair
  <1>2. /\ DOMAIN C!DeniedImages = 1 .. Len(C!DeniedImages) /\ Len(C!DeniedImages) \in Nat
        /\ {C!DeniedImages[i] : i \in DOMAIN C!DeniedImages} = Unpinned
    BY DeniedSet DEF Lists, C!ToSet
  <1>3. DOMAIN bad = 1 .. Len(C!DeniedImages) /\ C!ToSet(bad) = B
    BY <1>2 DEF C!ToSet
  <1>4. Lists(bad, B)
    <2>1. bad \in [1 .. Len(C!DeniedImages) -> B]
      BY <1>2, <1>3 DEF C!ToSet
    <2> HIDE DEF bad, B
    <2> QED
      BY <1>2, <1>3, <2>1 DEF Lists
  <1> HIDE DEF good, bad, G, B
  <1>5. Lists(good \o bad, G \cup B)
    BY <1>1, <1>4, ListsConcat
  <1> QED
    BY <1>5 DEF good, bad, G, B, C!ImageProbes, ImageCases

LEMMA PolicySet == Lists(C!PolicyCases, ImageCases \cup KindCases \cup RenderCases)
  <1> DEFINE last == <<C!Chart("policy", "default", {}),
                       C!Chart("policy", "all", {"PersistentVolumeClaim", "token",
                                                 "NET_BIND_SERVICE"}),
                       C!Chart("policy", "compliant", {"Deployment", "Service", "digest"}),
                       C!Chart("policy", "statefulset", {"StatefulSet", "Service",
                                                         "headless", "digest"}),
                       C!Hostile>>
  <1>1. Lists(last, RenderCases)
    BY ListsFive DEF RenderCases
  <1> HIDE DEF last
  <1>2. Lists(C!ImageProbes \o C!KindProbes, ImageCases \cup KindCases)
    BY ImageSet, KindSet, ListsConcat
  <1>3. Lists((C!ImageProbes \o C!KindProbes) \o last, (ImageCases \cup KindCases) \cup RenderCases)
    BY <1>1, <1>2, ListsConcat
  <1> QED
    BY <1>3 DEF last, C!PolicyCases

\* The cases of each target.
LEMMA CaseSets ==
    /\ CaseSet("chart-schema") = SchemaCases
    /\ CaseSet("chart-policy") = ImageCases \cup KindCases \cup RenderCases
    /\ CaseSet("ci") = SchemaCases \cup ImageCases \cup KindCases \cup RenderCases
    /\ \A t \in C!Targets : Lists(C!CasesOf(t), CaseSet(t))
  <1>1. Lists(C!SchemaCases \o C!PolicyCases,
              SchemaCases \cup (ImageCases \cup KindCases \cup RenderCases))
    BY SchemaSet, PolicySet, ListsConcat
  <1>2. C!CasesOf("chart-schema") = C!SchemaCases /\ C!CasesOf("chart-policy") = C!PolicyCases
        /\ C!CasesOf("ci") = C!SchemaCases \o C!PolicyCases
    BY DEF C!CasesOf
  <1>3. \A s, S : Lists(s, S) => C!ToSet(s) = S
    BY DEF Lists
  <1> QED
    BY <1>1, <1>2, <1>3, SchemaSet, PolicySet DEF C!Targets, CaseSet

AllCases == SchemaCases \cup ImageCases \cup KindCases \cup RenderCases

LEMMA ProbeIs ==
    ASSUME NEW rule, NEW marks, NEW pass \in BOOLEAN, NEW c, c = C!Probe(rule, marks, pass)
    PROVE  /\ c.gate = "probe" /\ c.shows = marks /\ c.needs = {} /\ c.rules = {rule}
           /\ c.pass = pass /\ (pass => c.names = {}) /\ (~pass => c.names = {rule})
  BY DEF C!Probe

\* The manifest of a bare pod, but for its image.
Bare == {"Pod", "no seccomp", "no limits", "writable root"}

LEMMA ImageProbeIs ==
    ASSUME NEW c \in ImageCases
    PROVE  \E i \in Pinned \cup Unpinned, pass \in BOOLEAN :
              c = C!Probe("images", {i} \cup Bare, pass) /\ (pass <=> i \in Pinned)
  <1>1. \A i, pass : C!ImageProbe(i, pass) = C!Probe("images", {i} \cup Bare, pass)
    <2>1. \A i : {i} \cup Bare = {i, "Pod", "no seccomp", "no limits", "writable root"}
      BY DEF Bare
    <2> QED
      BY <2>1 DEF C!ImageProbe
  <1>2. Pinned \cap Unpinned = {}
    BY DEF Pinned, Unpinned
  <1>3. CASE c \in {C!ImageProbe(i, TRUE) : i \in Pinned}
    BY <1>1, <1>3
  <1>4. CASE c \in {C!ImageProbe(i, FALSE) : i \in Unpinned}
    BY <1>1, <1>2, <1>4
  <1> QED
    BY <1>3, <1>4 DEF ImageCases

LEMMA KindProbeIs ==
    ASSUME NEW c \in KindCases
    PROVE  \E k \in {"StatefulSet", "Job", "CronJob", "DaemonSet", "Pod", "ReplicaSet"} :
           \E pass \in BOOLEAN :
              /\ c = C!Probe("kinds", {k}, pass)
              /\ pass <=> k \in {"StatefulSet", "Job", "CronJob"}
  BY DEF KindCases

\* Where no tool has to work, a denial is expected, and by name.
LEMMA NeedsTool == ASSUME NEW c \in AllCases PROVE ~C!Accepted(c, FALSE)
  <1>1. CASE c \in SchemaCases
    <2>1. c.gate = "schema"
      BY <1>1 DEF SchemaCases, C!Chart
    <2> QED
      BY <2>1 DEF C!Accepted
  <1>2. CASE c \in ImageCases \cup KindCases
    <2>1. c.gate = "probe" /\ c.pass \in BOOLEAN /\ (c.pass = FALSE => c.names # {})
      <3>1. CASE c \in ImageCases
        <4>1. PICK i \in Pinned \cup Unpinned, pass \in BOOLEAN :
                  c = C!Probe("images", {i} \cup Bare, pass) /\ (pass <=> i \in Pinned)
          BY <3>1, ImageProbeIs
        <4> QED
          BY <4>1, ProbeIs
      <3>2. CASE c \in KindCases
        <4>1. PICK k \in {"StatefulSet", "Job", "CronJob", "DaemonSet", "Pod", "ReplicaSet"},
                   pass \in BOOLEAN :
                  /\ c = C!Probe("kinds", {k}, pass)
                  /\ pass <=> k \in {"StatefulSet", "Job", "CronJob"}
          BY <3>2, KindProbeIs
        <4> QED
          BY <4>1, ProbeIs
      <3> QED
        BY <1>2, <3>1, <3>2
    <2> QED
      BY <2>1 DEF C!Accepted, C!Applied
  <1>3. CASE c = C!Hostile
    <2>1. c.gate = "policy" /\ c.pass = FALSE /\ c.names = C!Rules
      BY <1>3 DEF C!Hostile, C!Chart
    <2>2. "images" \in C!Rules
      BY DEF C!Rules, C!Policies
    <2> QED
      BY <2>1, <2>2 DEF C!Accepted, C!Applied
  <1>4. CASE c \in RenderCases \ {C!Hostile}
    <2>1. c.gate = "policy" /\ c.pass = TRUE
      BY <1>4 DEF RenderCases, C!Chart
    <2> QED
      BY <2>1 DEF C!Accepted, C!Applied
  <1> QED
    BY <1>1, <1>2, <1>3, <1>4 DEF AllCases

-----------------------------------------------------------------------------
(* The repository as it is.                                                *)

Harmless ==
    {"Deployment", "Service", "digest", "StatefulSet", "headless", "VaultStaticSecret",
     "PersistentVolumeClaim", "token", "NET_BIND_SERVICE"}

LEMMA RulesAre ==
    C!Rules = {"pss", "seccomp", "readonly", "limits", "types", "externalIPs", "kinds", "images"}
  BY DEF C!Rules, C!Policies

\* What verify-images denies, in all lists of containers.
Refused ==
    Unpinned \cup {"mutable tag", "init lookalike org", "init no repository", "init tag only",
                  "init foreign registry", "ephemeral lookalike org",
                  "ephemeral no repository", "ephemeral tag only", "ephemeral foreign registry"}

LEMMA PoliciesAre ==
    /\ C!Policies["pss"] = {"privileged", "hostPath", "host namespaces", "root", "SYS_ADMIN"}
    /\ C!Policies["seccomp"] = {"no seccomp"}
    /\ C!Policies["readonly"] = {"writable root"}
    /\ C!Policies["limits"] = {"no limits"}
    /\ C!Policies["types"] = {"LoadBalancer", "NodePort", "ExternalName"}
    /\ C!Policies["externalIPs"] = {"externalIPs"}
    /\ C!Policies["kinds"] = {"DaemonSet", "Pod", "ReplicaSet", "Secret", "Role", "RoleBinding"}
    /\ C!Policies["images"] = Refused
  <1>1. C!Policies["images"] = Refused
    BY DEF C!Policies, C!Images, Refused, Unpinned
  <1> QED
    BY <1>1 DEF C!Policies, C!Kinds

LEMMA HarmlessPasses ==
    /\ \A r \in C!Rules : C!Policies[r] \cap Harmless = {}
    /\ Harmless \cap {"invalid", "unrenderable"} = {}
  <1> DEFINE ok(r) == C!Policies[r] \cap Harmless = {}
  <1>1. ok("pss") /\ ok("seccomp") /\ ok("readonly") /\ ok("limits")
    BY PoliciesAre DEF Harmless
  <1>2. ok("types") /\ ok("externalIPs") /\ ok("kinds")
    BY PoliciesAre DEF Harmless
  <1>3. ok("images")
    BY PoliciesAre DEF Harmless, Refused, Unpinned
  <1>4. Harmless \cap {"invalid", "unrenderable"} = {}
    BY DEF Harmless
  <1> QED
    BY <1>1, <1>2, <1>3, <1>4, RulesAre

LEMMA ChartsAre ==
    /\ DOMAIN C!Charts = {"compliant", "statefulset", "hostile"}
    /\ C!Charts["compliant"] = {"Deployment", "Service", "digest"}
    /\ C!Charts["statefulset"] = {"StatefulSet", "Service", "headless", "digest"}
  BY DEF C!Charts

\* The golden chart without and with its four values.
LEMMA GoldenIs ==
    ASSUME golden = C!GoldenChart
    PROVE  /\ C!Golden({}) = {"Deployment", "Service", "digest"}
           /\ C!Golden(C!Conditional) = {"Deployment", "Service", "digest", "VaultStaticSecret",
                                         "PersistentVolumeClaim", "token", "NET_BIND_SERVICE"}
  <1> DEFINE Always == {C!Entry("Deployment", {}, {}), C!Entry("Service", {}, {}),
                        C!Entry("digest", {}, {})}
             Parts4 == {C!Entry("VaultStaticSecret", {"vault"}, {}),
                       C!Entry("PersistentVolumeClaim", {"storage"}, {}),
                       C!Entry("token", {"token"}, {}),
                       C!Entry("NET_BIND_SERVICE", {"net_bind"}, {})}
  <1>1. golden = Always \cup Parts4
    BY DEF C!GoldenChart
  <1>2. /\ \A e \in Always \cup Parts4 : e.without = {}
        /\ \A e \in Always : e.with = {}
        /\ \A e \in Parts4 : e.with # {} /\ e.with \subseteq C!Conditional
    BY DEF C!Entry, C!Conditional
  <1>3. /\ {e.mark : e \in Always} = {"Deployment", "Service", "digest"}
        /\ {e.mark : e \in Parts4} = {"VaultStaticSecret", "PersistentVolumeClaim", "token",
                                     "NET_BIND_SERVICE"}
    BY DEF C!Entry
  <1> HIDE DEF Always, Parts4
  <1>4. C!Showing({}) = Always /\ C!Showing(C!Conditional) = Always \cup Parts4
    BY <1>1, <1>2 DEF C!Showing
  <1>5. {e.mark : e \in Always \cup Parts4} = {e.mark : e \in Always} \cup {e.mark : e \in Parts4}
    OBVIOUS
  <1> QED
    BY <1>3, <1>4, <1>5 DEF C!Golden

LEMMA HostileIs ==
    /\ \A r \in C!Rules : C!Policies[r] \cap C!Charts["hostile"] # {}
    /\ {"Deployment", "Service", "privileged", "hostPath", "host namespaces", "root",
        "writable root", "SYS_ADMIN", "externalIPs", "ExternalName", "LoadBalancer",
        "Secret", "Role", "RoleBinding", "mutable tag"} \subseteq C!Charts["hostile"]
    /\ C!Charts["hostile"] \cap {"invalid", "unrenderable"} = {}
  <1> DEFINE Six == C!Rules \ {"kinds", "images", "types"}
             Others == {"Deployment", "Service", "LoadBalancer", "ExternalName",
                      "Secret", "Role", "RoleBinding", "token", "mutable tag"}
             H == C!Charts["hostile"]
  <1>1. H = (UNION {C!Policies[r] : r \in Six}) \cup Others
    BY DEF C!Charts
  <1>2. Six = {"pss", "seccomp", "readonly", "limits", "externalIPs"}
    BY RulesAre
  <1>3. /\ Others \cap {"invalid", "unrenderable"} = {}
        /\ "Secret" \in C!Policies["kinds"] \cap Others
        /\ "mutable tag" \in C!Policies["images"] \cap Others
        /\ "LoadBalancer" \in C!Policies["types"] \cap Others
    <2>1. "mutable tag" \in C!Policies["images"]
      BY PoliciesAre DEF Refused
    <2> QED
      BY <2>1, PoliciesAre
  <1>4. /\ {"privileged", "hostPath", "host namespaces", "root", "SYS_ADMIN"} = C!Policies["pss"]
        /\ {"writable root"} = C!Policies["readonly"] /\ {"no seccomp"} = C!Policies["seccomp"]
        /\ {"externalIPs"} = C!Policies["externalIPs"] /\ {"no limits"} = C!Policies["limits"]
    BY PoliciesAre
  <1>5. {"Deployment", "Service", "ExternalName", "LoadBalancer", "Secret", "Role", "RoleBinding",
         "mutable tag"} \subseteq Others
    OBVIOUS
  <1> HIDE DEF Six, Others, H
  <1>6. Others \subseteq H /\ \A r \in Six : C!Policies[r] \subseteq H
    <2>1. ASSUME NEW r \in Six, NEW m \in C!Policies[r]
          PROVE  m \in UNION {C!Policies[q] : q \in Six}
      OBVIOUS
    <2> QED
      BY <1>1, <2>1
  <1>7. \A r \in Six : C!Policies[r] # {} /\ C!Policies[r] \cap {"invalid", "unrenderable"} = {}
    BY <1>2, <1>4
  <1>8. H \cap {"invalid", "unrenderable"} = {}
    <2>1. ASSUME NEW m \in UNION {C!Policies[r] : r \in Six}
          PROVE  m \notin {"invalid", "unrenderable"}
      BY <1>7
    <2> QED
      BY <1>1, <1>3, <2>1
  <1>9. \A r \in C!Rules : C!Policies[r] \cap H # {}
    BY <1>2, <1>3, <1>6, <1>7, RulesAre
  <1>10. {"privileged", "hostPath", "host namespaces", "root", "SYS_ADMIN", "writable root",
          "externalIPs"} \subseteq H
    BY <1>2, <1>4, <1>6
  <1> QED
    BY <1>5, <1>6, <1>8, <1>9, <1>10 DEF H

\* Charts, policies, probes and expected snippets agree with each other.
LEMMA Agreement ==
    ASSUME deny = C!Policies, text = C!Charts, golden = C!GoldenChart,
           given = C!Conditional, NEW c \in AllCases
    PROVE  C!Accepted(c, TRUE)
  <1>1. C!Golden(given) = {"Deployment", "Service", "digest", "VaultStaticSecret",
                           "PersistentVolumeClaim", "token", "NET_BIND_SERVICE"}
    BY GoldenIs
  <1>2. \A marks \in SUBSET Harmless : C!Denying(C!Rules, marks) = {}
    BY HarmlessPasses DEF C!Denying
  <1>3. Harmless \cap {"invalid", "unrenderable"} = {}
    BY HarmlessPasses
  <1>4. ASSUME c.gate \in {"schema", "policy"},
               c.shows \in {"default", "all", "compliant", "statefulset"},
               c.pass = TRUE, c.rules = C!Rules, c.needs \subseteq C!Shown(c)
        PROVE  C!Accepted(c, TRUE)
    <2>1. c.gate # "probe"
      BY <1>4
    <2>2. C!Shown(c) \subseteq Harmless
      <3>1. C!Golden({}) = {"Deployment", "Service", "digest"}
        BY GoldenIs
      <3> QED
        BY <1>1, <1>4, <2>1, <3>1, ChartsAre DEF C!Shown, Harmless
    <2>3. C!Denying(c.rules, C!Shown(c)) = {}
      BY <1>2, <1>4, <2>2
    <2>4. "unrenderable" \notin C!Shown(c) /\ "invalid" \notin C!Shown(c)
      BY <1>3, <2>2
    <2> QED
      BY <1>4, <2>1, <2>3, <2>4 DEF C!Accepted, C!Applied
  <1>6. CASE c \in RenderCases \ {C!Hostile}
    <2>1. CASE c = C!Chart("policy", "default", {})
      <3>1. /\ c.gate = "policy" /\ c.shows = "default" /\ c.pass = TRUE /\ c.rules = C!Rules
            /\ c.needs = {}
        BY <2>1 DEF C!Chart
      <3>3. c.needs \subseteq C!Shown(c)
        BY <3>1
      <3> QED
        BY <1>4, <3>1, <3>3
    <2>2. CASE c = C!Chart("policy", "all", {"PersistentVolumeClaim", "token", "NET_BIND_SERVICE"})
      <3>1. /\ c.gate = "policy" /\ c.shows = "all" /\ c.pass = TRUE /\ c.rules = C!Rules
            /\ c.needs = {"PersistentVolumeClaim", "token", "NET_BIND_SERVICE"}
        BY <2>2 DEF C!Chart
      <3>2. C!Shown(c) = C!Golden(given)
        BY <3>1 DEF C!Shown
      <3>3. c.needs \subseteq C!Shown(c)
        BY <1>1, <3>1, <3>2, ChartsAre
      <3> QED
        BY <1>4, <3>1, <3>3
    <2>3. CASE c = C!Chart("policy", "compliant", {"Deployment", "Service", "digest"})
      <3>1. /\ c.gate = "policy" /\ c.shows = "compliant" /\ c.pass = TRUE /\ c.rules = C!Rules
            /\ c.needs = {"Deployment", "Service", "digest"}
        BY <2>3 DEF C!Chart
      <3>2. C!Shown(c) = C!Charts["compliant"]
        BY <3>1 DEF C!Shown
      <3>3. c.needs \subseteq C!Shown(c)
        BY <1>1, <3>1, <3>2, ChartsAre
      <3> QED
        BY <1>4, <3>1, <3>3
    <2>4. CASE c = C!Chart("policy", "statefulset",
                           {"StatefulSet", "Service", "headless", "digest"})
      <3>1. /\ c.gate = "policy" /\ c.shows = "statefulset" /\ c.pass = TRUE /\ c.rules = C!Rules
            /\ c.needs = {"StatefulSet", "Service", "headless", "digest"}
        BY <2>4 DEF C!Chart
      <3>2. C!Shown(c) = C!Charts["statefulset"]
        BY <3>1 DEF C!Shown
      <3>3. c.needs \subseteq C!Shown(c)
        BY <1>1, <3>1, <3>2, ChartsAre
      <3> QED
        BY <1>4, <3>1, <3>3
    <2> QED
      BY <1>6, <2>1, <2>2, <2>3, <2>4 DEF RenderCases
  <1>7. CASE c \in SchemaCases
    <2>1. CASE c = C!Chart("schema", "default", {})
      <3>1. /\ c.gate = "schema" /\ c.shows = "default" /\ c.pass = TRUE /\ c.rules = C!Rules
            /\ c.needs = {}
        BY <2>1 DEF C!Chart
      <3>3. c.needs \subseteq C!Shown(c)
        BY <3>1
      <3> QED
        BY <1>4, <3>1, <3>3
    <2>2. CASE c = C!Chart("schema", "all",
                           {"VaultStaticSecret", "PersistentVolumeClaim", "token", "NET_BIND_SERVICE"})
      <3>1. /\ c.gate = "schema" /\ c.shows = "all" /\ c.pass = TRUE /\ c.rules = C!Rules
            /\ c.needs = {"VaultStaticSecret", "PersistentVolumeClaim", "token", "NET_BIND_SERVICE"}
        BY <2>2 DEF C!Chart
      <3>2. C!Shown(c) = C!Golden(given)
        BY <3>1 DEF C!Shown
      <3>3. c.needs \subseteq C!Shown(c)
        BY <1>1, <3>1, <3>2, ChartsAre
      <3> QED
        BY <1>4, <3>1, <3>3
    <2>3. CASE c = C!Chart("schema", "compliant", {"Deployment", "Service"})
      <3>1. /\ c.gate = "schema" /\ c.shows = "compliant" /\ c.pass = TRUE /\ c.rules = C!Rules
            /\ c.needs = {"Deployment", "Service"}
        BY <2>3 DEF C!Chart
      <3>2. C!Shown(c) = C!Charts["compliant"]
        BY <3>1 DEF C!Shown
      <3>3. c.needs \subseteq C!Shown(c)
        BY <1>1, <3>1, <3>2, ChartsAre
      <3> QED
        BY <1>4, <3>1, <3>3
    <2>4. CASE c = C!Chart("schema", "statefulset", {"StatefulSet", "Service", "headless"})
      <3>1. /\ c.gate = "schema" /\ c.shows = "statefulset" /\ c.pass = TRUE /\ c.rules = C!Rules
            /\ c.needs = {"StatefulSet", "Service", "headless"}
        BY <2>4 DEF C!Chart
      <3>2. C!Shown(c) = C!Charts["statefulset"]
        BY <3>1 DEF C!Shown
      <3>3. c.needs \subseteq C!Shown(c)
        BY <1>1, <3>1, <3>2, ChartsAre
      <3> QED
        BY <1>4, <3>1, <3>3
    <2>5. CASE c = C!Chart("schema", "hostile",
                           {"Deployment", "Service", "LoadBalancer", "externalIPs",
                            "ExternalName", "Role", "RoleBinding", "Secret", "hostPath"})
      <3>1. c.gate = "schema" /\ C!Shown(c) = C!Charts["hostile"]
        BY <2>5 DEF C!Shown, C!Chart
      <3>2. c.needs \subseteq C!Charts["hostile"]
        BY <2>5, HostileIs DEF C!Chart
      <3> QED
        BY <3>1, <3>2, HostileIs DEF C!Accepted
    <2> QED
      BY <1>7, <2>1, <2>2, <2>3, <2>4, <2>5 DEF SchemaCases
  <1>8. CASE c = C!Hostile
    <2>1. /\ c.gate = "policy" /\ c.needs \subseteq C!Charts["hostile"] /\ c.shows = "hostile"
          /\ c.pass = FALSE /\ c.names = C!Rules /\ c.rules = C!Rules
      BY <1>8, HostileIs DEF C!Hostile, C!Chart
    <2>2. C!Shown(c) = C!Charts["hostile"]
      BY <2>1 DEF C!Shown
    <2>3. C!Denying(C!Rules, C!Charts["hostile"]) = C!Rules
      BY HostileIs DEF C!Denying
    <2> QED
      BY <2>1, <2>2, <2>3, RulesAre, HostileIs DEF C!Accepted, C!Applied
  <1>9. ASSUME NEW rule \in C!Rules, NEW marks, NEW pass \in BOOLEAN,
               c = C!Probe(rule, marks, pass), pass <=> C!Policies[rule] \cap marks = {}
        PROVE  C!Accepted(c, TRUE)
    <2>1. /\ c.gate = "probe" /\ c.shows = marks /\ c.needs = {} /\ c.rules = {rule}
          /\ c.pass = pass /\ (pass => c.names = {}) /\ (~pass => c.names = {rule})
      BY <1>9, ProbeIs
    <2>2. (pass => C!Denying({rule}, marks) = {}) /\ (~pass => C!Denying({rule}, marks) = {rule})
      BY <1>9 DEF C!Denying
    <2>3. C!Shown(c) = marks
      BY <2>1 DEF C!Shown
    <2> QED
      BY <2>1, <2>2, <2>3 DEF C!Accepted, C!Applied
  <1>10. CASE c \in KindCases
    <2>1. PICK k \in {"StatefulSet", "Job", "CronJob", "DaemonSet", "Pod", "ReplicaSet"},
               pass \in BOOLEAN :
              /\ c = C!Probe("kinds", {k}, pass)
              /\ pass <=> k \in {"StatefulSet", "Job", "CronJob"}
      BY <1>10, KindProbeIs
    <2>2. pass <=> C!Policies["kinds"] \cap {k} = {}
      BY <2>1, PoliciesAre
    <2> QED
      BY <1>9, <2>1, <2>2, RulesAre
  <1>11. CASE c \in ImageCases
    <2>1. PICK i \in Pinned \cup Unpinned, pass \in BOOLEAN :
              c = C!Probe("images", {i} \cup Bare, pass) /\ (pass <=> i \in Pinned)
      BY <1>11, ImageProbeIs
    <2>2. Pinned \cap C!Policies["images"] = {} /\ Bare \cap C!Policies["images"] = {}
      BY PoliciesAre DEF Pinned, Refused, Unpinned, Bare
    <2>3. Unpinned \subseteq C!Policies["images"]
      BY PoliciesAre DEF Refused
    <2>4. pass <=> C!Policies["images"] \cap ({i} \cup Bare) = {}
      BY <2>1, <2>2, <2>3
    <2> QED
      BY <1>9, <2>1, <2>4, RulesAre
  <1> QED
    BY <1>6, <1>7, <1>8, <1>10, <1>11 DEF AllCases

-----------------------------------------------------------------------------
(* A run of the chart gates: each case of the target is accepted by the    *)
(* charts and policies as they are, or is still to be judged.              *)

ChartsTyped ==
    /\ DOMAIN deny = C!Rules
    /\ \A r \in C!Rules : deny[r] \subseteq C!Policies[r] \cup RuleSlips
    /\ DOMAIN text = DOMAIN C!Charts
    /\ \A p \in DOMAIN C!Charts : text[p] \subseteq C!Charts[p] \cup ChartSlips
    /\ golden \subseteq C!GoldenChart \cup C!Slipped
    /\ given \subseteq C!Conditional
    /\ cTarget \in C!Targets /\ cFault \in BOOLEAN
    /\ cVerdict \in {"none", "running", "green", "red"}

Unedited ==
    cEdits = 0 => /\ deny = C!Policies /\ text = C!Charts
                  /\ golden = C!GoldenChart /\ given = C!Conditional

CasesLeft ==
    /\ cTodo \in Seq(CaseSet(cTarget))
    /\ cVerdict # "running" => cTodo = <<>>

Judged ==
    cVerdict \in {"running", "green"} =>
        /\ ~cFault
        /\ \A c \in CaseSet(cTarget) : C!Accepted(c, TRUE) \/ c \in C!ToSet(cTodo)

ChartsInv ==
    /\ ChartsTyped /\ cEdits \in Nat /\ Unedited /\ CasesLeft /\ Judged
    /\ C!ExpectationsAgree

LEMMA AllCasesOfTarget == ASSUME NEW t \in C!Targets PROVE CaseSet(t) \subseteq AllCases
  BY CaseSets DEF C!Targets, AllCases

\* What a case is judged by.
LEMMA JudgedBy ==
    ASSUME UNCHANGED <<deny, text, golden, given>>, NEW c, NEW works
    PROVE  C!Accepted(c, works)' <=> C!Accepted(c, works)
  BY DEF C!Accepted, C!Applied, C!Denying, C!Shown, C!Golden, C!Showing

LEMMA InitCharts == C!Init => ChartsInv
  <1> SUFFICES ASSUME C!Init PROVE ChartsInv
    OBVIOUS
  <1>1. deny = C!Policies /\ text = C!Charts /\ golden = C!GoldenChart /\ given = C!Conditional
    BY DEF C!Init
  <1>2. DOMAIN C!Policies = C!Rules
    BY DEF C!Rules
  <1>4. ChartsTyped
    BY <1>1, <1>2 DEF C!Init, ChartsTyped, C!Targets
  <1>5. cTodo = <<>> /\ cVerdict = "none" /\ cEdits = 0
    BY DEF C!Init
  <1> QED
    BY <1>1, <1>4, <1>5 DEF ChartsInv, Unedited, CasesLeft, Judged, C!ExpectationsAgree

\* Between invocations something is edited.
LEMMA EditedInv ==
    ASSUME ChartsInv, C!Edited, ChartsTyped' PROVE ChartsInv'
  <1>1. /\ cEdits' = cEdits + 1 /\ cEdits \in Nat /\ cVerdict' = "none"
        /\ cVerdict # "running" /\ UNCHANGED <<cTarget, cTodo>>
    BY DEF ChartsInv, C!Edited
  <1>2. cEdits' \in Nat /\ cEdits' # 0
    BY <1>1
  <1>3. CasesLeft'
    BY <1>1 DEF ChartsInv, CasesLeft, CaseSet
  <1> QED
    BY <1>1, <1>2, <1>3 DEF ChartsInv, Unedited, Judged, C!ExpectationsAgree

LEMMA InvokeCharts == ASSUME ChartsInv, NEW t \in C!Targets, C!Invoke(t) PROVE ChartsInv'
  <1>1. /\ cTarget' = t /\ cTodo' = C!CasesOf(t) /\ cFault' = FALSE /\ cVerdict' = "running"
        /\ UNCHANGED <<deny, text, golden, given, cEdits>>
    BY DEF C!Invoke
  <1>2. cTodo' \in Seq(CaseSet(t)) /\ C!ToSet(cTodo') = CaseSet(t)
    BY <1>1, CaseSets DEF Lists
  <1>3. CaseSet(cTarget)' = CaseSet(t) /\ C!ToSet(cTodo)' = C!ToSet(cTodo')
    BY <1>1 DEF CaseSet, C!ToSet
  <1>4. Judged'
    BY <1>1, <1>2, <1>3 DEF Judged
  <1>5. ChartsTyped'
    BY <1>1 DEF ChartsInv, ChartsTyped
  <1> QED
    BY <1>1, <1>2, <1>3, <1>4, <1>5 DEF ChartsInv, Unedited, CasesLeft, C!ExpectationsAgree

\* What is left of a list when its head is taken off.
LEMMA HeadOff ==
    ASSUME NEW S, NEW s \in Seq(S), s # <<>>
    PROVE  /\ Head(s) \in S /\ Tail(s) \in Seq(S)
           /\ \A x \in C!ToSet(s) : x = Head(s) \/ x \in C!ToSet(Tail(s))
  <1>1. /\ Head(s) \in S /\ Tail(s) \in Seq(S) /\ Len(Tail(s)) = Len(s) - 1
        /\ \A i \in 1 .. Len(Tail(s)) : Tail(s)[i] = s[i + 1]
    BY HeadTailProperties
  <1>2. Len(s) \in Nat /\ DOMAIN s = 1 .. Len(s) /\ DOMAIN Tail(s) = 1 .. Len(Tail(s))
    BY <1>1
  <1>3. ASSUME NEW i \in DOMAIN s, i # 1 PROVE s[i] \in C!ToSet(Tail(s))
    <2>1. i - 1 \in 1 .. Len(Tail(s)) /\ (i - 1) + 1 = i
      BY <1>1, <1>2, <1>3
    <2>2. Tail(s)[i - 1] = s[i]
      BY <1>1, <2>1
    <2> QED
      BY <1>2, <2>1, <2>2 DEF C!ToSet
  <1>4. Head(s) = s[1]
    OBVIOUS
  <1> QED
    BY <1>1, <1>3, <1>4 DEF C!ToSet

LEMMA JudgeCharts == ASSUME ChartsInv, NEW works \in BOOLEAN, C!Judge(works) PROVE ChartsInv'
  <1>1. /\ cTodo # <<>> /\ cFault' = (cFault \/ ~works)
        /\ UNCHANGED <<deny, text, golden, given, cEdits, cTarget>>
        /\ \/ C!Accepted(Head(cTodo), works) /\ cTodo' = Tail(cTodo) /\ UNCHANGED cVerdict
           \/ ~C!Accepted(Head(cTodo), works) /\ cTodo' = <<>> /\ cVerdict' = "red"
    BY DEF C!Judge
  <1>2. /\ cTodo \in Seq(CaseSet(cTarget)) /\ cVerdict = "running" /\ cTarget \in C!Targets
        /\ cFault \in BOOLEAN /\ ~cFault
        /\ \A c \in CaseSet(cTarget) : C!Accepted(c, TRUE) \/ c \in C!ToSet(cTodo)
    BY <1>1 DEF ChartsInv, ChartsTyped, CasesLeft, Judged
  <1>3. /\ Head(cTodo) \in CaseSet(cTarget) /\ Tail(cTodo) \in Seq(CaseSet(cTarget))
        /\ \A x \in C!ToSet(cTodo) : x = Head(cTodo) \/ x \in C!ToSet(Tail(cTodo))
    BY <1>1, <1>2, HeadOff
  <1>4. Head(cTodo) \in AllCases
    BY <1>2, <1>3, AllCasesOfTarget
  <1>5. ChartsTyped' /\ Unedited' /\ cEdits' \in Nat
    BY <1>1 DEF ChartsInv, ChartsTyped, Unedited
  <1>6. CaseSet(cTarget)' = CaseSet(cTarget)
    BY <1>1 DEF CaseSet
  <1>7. CASE C!Accepted(Head(cTodo), works)
    <2>1. works = TRUE
      BY <1>4, <1>7, NeedsTool
    <2>2. cTodo' = Tail(cTodo) /\ cVerdict' = "running" /\ ~cFault'
      BY <1>1, <1>2, <1>7, <2>1
    <2>3. C!ToSet(cTodo)' = C!ToSet(Tail(cTodo))
      BY <2>2 DEF C!ToSet
    <2>4. \A c \in CaseSet(cTarget) : C!Accepted(c, TRUE) \/ c \in C!ToSet(Tail(cTodo))
      BY <1>2, <1>3, <1>7, <2>1
    <2>5. \A c : C!Accepted(c, TRUE)' <=> C!Accepted(c, TRUE)
      BY <1>1, JudgedBy
    <2>6. Judged'
      BY <1>6, <2>2, <2>3, <2>4, <2>5 DEF Judged
    <2> QED
      BY <1>3, <1>5, <1>6, <2>2, <2>6 DEF ChartsInv, CasesLeft, C!ExpectationsAgree
  <1>8. CASE ~C!Accepted(Head(cTodo), works)
    <2>1. cTodo' = <<>> /\ cVerdict' = "red"
      BY <1>1, <1>8
    <2>2. cEdits = 0 => works = FALSE
      BY <1>4, <1>8, Agreement DEF ChartsInv, Unedited
    <2>3. cEdits' = 0 => cFault'
      BY <1>1, <2>2
    <2> QED
      BY <1>5, <2>1, <2>3 DEF ChartsInv, CasesLeft, Judged, C!ExpectationsAgree
  <1> QED
    BY <1>7, <1>8

LEMMA NextCharts == ChartsInv /\ [C!Next]_(C!vars) => ChartsInv'
  <1> SUFFICES ASSUME ChartsInv, [C!Next]_(C!vars) PROVE ChartsInv'
    OBVIOUS
  <1>1. ASSUME NEW r \in C!Rules, NEW m \in C!Policies[r] \cup RuleSlips, C!EditRule(r, m)
        PROVE  ChartsInv'
    <2>1. C!Toggled(deny[r], m) \subseteq C!Policies[r] \cup RuleSlips
      BY DEF C!Toggled, ChartsInv, ChartsTyped
    <2>2. C!Edited /\ deny' = [deny EXCEPT ![r] = C!Toggled(@, m)] /\ UNCHANGED <<text, golden, given>>
      BY <1>1 DEF C!EditRule
    <2>3. cTarget' = cTarget /\ cVerdict' = "none" /\ cFault' = FALSE
      BY <2>2 DEF C!Edited
    <2>4. ChartsTyped'
      BY <2>1, <2>2, <2>3 DEF ChartsInv, ChartsTyped
    <2> QED
      BY <2>2, <2>4, EditedInv
  <1>2. ASSUME NEW p \in DOMAIN C!Charts, NEW m \in C!Charts[p] \cup ChartSlips, C!EditChart(p, m)
        PROVE  ChartsInv'
    <2>1. C!Toggled(text[p], m) \subseteq C!Charts[p] \cup ChartSlips
      BY DEF C!Toggled, ChartsInv, ChartsTyped
    <2>2. C!Edited /\ text' = [text EXCEPT ![p] = C!Toggled(@, m)] /\ UNCHANGED <<deny, golden, given>>
      BY <1>2 DEF C!EditChart
    <2>3. cTarget' = cTarget /\ cVerdict' = "none" /\ cFault' = FALSE
      BY <2>2 DEF C!Edited
    <2>4. ChartsTyped'
      BY <2>1, <2>2, <2>3 DEF ChartsInv, ChartsTyped
    <2> QED
      BY <2>2, <2>4, EditedInv
  <1>3. ASSUME NEW p \in C!Conditional, C!EditValues(p) PROVE ChartsInv'
    <2>1. C!Edited /\ given' = C!Toggled(given, p) /\ UNCHANGED <<deny, text, golden>>
      BY <1>3 DEF C!EditValues
    <2>2. given' \subseteq C!Conditional
      BY <2>1 DEF C!Toggled, ChartsInv, ChartsTyped
    <2>3. cTarget' = cTarget /\ cVerdict' = "none" /\ cFault' = FALSE
      BY <2>1 DEF C!Edited
    <2>4. ChartsTyped'
      BY <2>1, <2>2, <2>3 DEF ChartsInv, ChartsTyped
    <2> QED
      BY <2>1, <2>4, EditedInv
  <1>7. ASSUME NEW e \in C!GoldenChart \cup C!Slipped, C!EditGolden(e) PROVE ChartsInv'
    <2>1. C!Edited /\ golden' = C!Toggled(golden, e) /\ UNCHANGED <<deny, text, given>>
      BY <1>7 DEF C!EditGolden
    <2>2. golden' \subseteq C!GoldenChart \cup C!Slipped
      BY <2>1 DEF C!Toggled, ChartsInv, ChartsTyped
    <2>3. cTarget' = cTarget /\ cVerdict' = "none" /\ cFault' = FALSE
      BY <2>1 DEF C!Edited
    <2>4. ChartsTyped'
      BY <2>1, <2>2, <2>3 DEF ChartsInv, ChartsTyped
    <2> QED
      BY <2>1, <2>4, EditedInv
  <1>4. CASE C!HelmFails
    BY <1>4 DEF C!HelmFails, ChartsInv, ChartsTyped, Unedited, CasesLeft, Judged,
                C!ExpectationsAgree, CaseSet
  <1>5. CASE C!Finish
    <2>1. /\ cVerdict = "running" /\ cTodo = <<>> /\ cVerdict' = "green"
          /\ UNCHANGED <<deny, text, golden, given, cEdits, cTarget, cTodo, cFault>>
      BY <1>5 DEF C!Finish
    <2>2. \A c : C!Accepted(c, TRUE)' <=> C!Accepted(c, TRUE)
      BY <2>1, JudgedBy
    <2>3. CaseSet(cTarget)' = CaseSet(cTarget) /\ C!ToSet(cTodo)' = C!ToSet(cTodo)
      BY <2>1 DEF CaseSet, C!ToSet
    <2>4. Judged'
      BY <2>1, <2>2, <2>3 DEF ChartsInv, Judged
    <2>5. ChartsTyped' /\ Unedited' /\ CasesLeft'
      BY <2>1, <2>3 DEF ChartsInv, ChartsTyped, Unedited, CasesLeft
    <2> QED
      BY <2>1, <2>4, <2>5 DEF ChartsInv, C!ExpectationsAgree
  <1>6. CASE UNCHANGED C!vars
    <2>1. UNCHANGED <<deny, text, golden, given, cEdits, cTarget, cTodo, cFault, cVerdict>>
      BY <1>6 DEF C!vars
    <2>2. \A c : C!Accepted(c, TRUE)' <=> C!Accepted(c, TRUE)
      BY <2>1, JudgedBy
    <2>3. CaseSet(cTarget)' = CaseSet(cTarget) /\ C!ToSet(cTodo)' = C!ToSet(cTodo)
      BY <2>1 DEF CaseSet, C!ToSet
    <2>4. Judged'
      BY <2>1, <2>2, <2>3 DEF ChartsInv, Judged
    <2> QED
      BY <2>1, <2>3, <2>4 DEF ChartsInv, ChartsTyped, Unedited, CasesLeft, C!ExpectationsAgree
  <1> QED
    BY <1>1, <1>2, <1>3, <1>4, <1>5, <1>6, <1>7, InvokeCharts, JudgeCharts DEF C!Next

LEMMA ChartsInvariance == C!Spec => []ChartsInv
  BY InitCharts, NextCharts, PTL DEF C!Spec

-----------------------------------------------------------------------------
(* What a green run of the gates says.                                     *)

\* Each case of the target is accepted.
LEMMA GreenAccepts ==
    ASSUME ChartsInv, cVerdict = "green", NEW c \in CaseSet(cTarget)
    PROVE  C!Accepted(c, TRUE)
  <1>1. cTodo = <<>>
    BY DEF ChartsInv, CasesLeft
  <1>2. C!ToSet(cTodo) = {}
    BY <1>1 DEF C!ToSet
  <1> QED
    BY <1>2 DEF ChartsInv, Judged

\* A rule denies what a probe expects it to, and nothing of what it expects to pass.
LEMMA ProbeTells ==
    ASSUME NEW rule, NEW marks
    PROVE  /\ C!Accepted(C!Probe(rule, marks, TRUE), TRUE) => deny[rule] \cap marks = {}
           /\ C!Accepted(C!Probe(rule, marks, FALSE), TRUE) => deny[rule] \cap marks # {}
  <1>1. ASSUME NEW pass \in BOOLEAN, NEW c, c = C!Probe(rule, marks, pass), C!Accepted(c, TRUE)
        PROVE  (pass => deny[rule] \cap marks = {}) /\ (~pass => deny[rule] \cap marks # {})
    <2>1. /\ c.gate = "probe" /\ c.shows = marks /\ c.rules = {rule}
          /\ c.pass = pass /\ (~pass => c.names = {rule})
      BY <1>1, ProbeIs
    <2>2. C!Shown(c) = marks
      BY <2>1 DEF C!Shown
    <2>3. /\ (pass => C!Denying({rule}, marks) = {})
          /\ (~pass => {rule} \subseteq C!Denying({rule}, marks))
      BY <1>1, <2>1, <2>2 DEF C!Accepted, C!Applied
    <2> QED
      BY <2>3 DEF C!Denying
  <1>2. C!Accepted(C!Probe(rule, marks, TRUE), TRUE) => deny[rule] \cap marks = {}
    BY <1>1
  <1>3. C!Accepted(C!Probe(rule, marks, FALSE), TRUE) => deny[rule] \cap marks # {}
    BY <1>1
  <1> QED
    BY <1>2, <1>3

\* While chart-policy is green the rules for images and kinds decide as they are probed, and
\* each rule denies something of the hostile chart, whatever has been edited (chart_policy).
THEOREM RulesGuardedHolds == StepsSpec => []RulesGuarded
  <1>1. ChartsInv => RulesGuarded
    <2> SUFFICES ASSUME ChartsInv, C!PolicyGreen
                 PROVE  /\ {"digest", "tag and digest"} \cap deny["images"] = {}
                        /\ C!Images.containers \ {"mutable tag"} \subseteq deny["images"]
                        /\ {"init bare", "ephemeral bare"} \subseteq deny["images"]
                        /\ {"StatefulSet", "Job", "CronJob"} \cap deny["kinds"] = {}
                        /\ {"DaemonSet", "Pod", "ReplicaSet"} \subseteq deny["kinds"]
                        /\ \A r \in C!Rules : deny[r] \cap text["hostile"] # {}
      BY DEF RulesGuarded, C!RulesGuarded
    <2>1. ImageCases \cup KindCases \cup RenderCases \subseteq CaseSet(cTarget)
      BY CaseSets DEF ChartsInv, ChartsTyped, C!Targets, C!PolicyGreen
    <2>2. \A c \in ImageCases \cup KindCases \cup RenderCases : C!Accepted(c, TRUE)
      BY <2>1, GreenAccepts DEF C!PolicyGreen
    <2>3. \A i, pass : C!ImageProbe(i, pass) = C!Probe("images", {i} \cup Bare, pass)
      <3>1. \A i : {i} \cup Bare = {i, "Pod", "no seccomp", "no limits", "writable root"}
        BY DEF Bare
      <3> QED
        BY <3>1 DEF C!ImageProbe
    <2>4. \A i \in Pinned : deny["images"] \cap ({i} \cup Bare) = {}
      BY <2>2, <2>3, ProbeTells DEF ImageCases
    <2>5. ASSUME NEW i \in Unpinned PROVE deny["images"] \cap ({i} \cup Bare) # {}
      <3>1. C!ImageProbe(i, FALSE) \in ImageCases
        BY DEF ImageCases
      <3>2. C!Accepted(C!ImageProbe(i, FALSE), TRUE)
        BY <2>2, <3>1
      <3>3. C!Accepted(C!Probe("images", {i} \cup Bare, FALSE), TRUE)
        BY <2>3, <3>2, Zenon
      <3> QED
        BY <3>3, ProbeTells, Zenon
    <2>6. /\ {"digest", "tag and digest"} \cap deny["images"] = {}
          /\ C!Images.containers \ {"mutable tag"} \subseteq deny["images"]
          /\ {"init bare", "ephemeral bare"} \subseteq deny["images"]
      <3>1. Pinned \cap deny["images"] = {} /\ Bare \cap deny["images"] = {}
        BY <2>4 DEF Pinned
      <3>2. Unpinned \subseteq deny["images"]
        BY <2>5, <3>1
      <3> QED
        BY <3>1, <3>2 DEF C!Images, Pinned, Unpinned
    <2>7. ASSUME NEW k \in {"DaemonSet", "Pod", "ReplicaSet"} PROVE k \in deny["kinds"]
      <3>1. C!Probe("kinds", {k}, FALSE) \in KindCases
        BY DEF KindCases
      <3>2. C!Accepted(C!Probe("kinds", {k}, FALSE), TRUE)
        BY <2>2, <3>1
      <3>3. deny["kinds"] \cap {k} # {}
        BY <3>2, ProbeTells, Zenon
      <3> QED
        BY <3>3
    <2>9. ASSUME NEW k \in {"StatefulSet", "Job", "CronJob"} PROVE k \notin deny["kinds"]
      <3>1. C!Probe("kinds", {k}, TRUE) \in KindCases
        BY DEF KindCases
      <3>2. C!Accepted(C!Probe("kinds", {k}, TRUE), TRUE)
        BY <2>2, <3>1
      <3>3. deny["kinds"] \cap {k} = {}
        BY <3>2, ProbeTells, Zenon
      <3> QED
        BY <3>3
    <2>8. \A r \in C!Rules : deny[r] \cap text["hostile"] # {}
      <3>1. C!Accepted(C!Hostile, TRUE)
        BY <2>2 DEF RenderCases
      <3>2. /\ C!Hostile.gate = "policy" /\ C!Hostile.shows = "hostile" /\ C!Hostile.pass = FALSE
            /\ C!Hostile.names = C!Rules /\ C!Hostile.rules = C!Rules
        BY DEF C!Hostile, C!Chart
      <3>3. C!Shown(C!Hostile) = text["hostile"]
        BY <3>2 DEF C!Shown
      <3>4. C!Rules \subseteq C!Denying(C!Rules, text["hostile"])
        BY <3>1, <3>2, <3>3 DEF C!Accepted, C!Applied
      <3> QED
        BY <3>4 DEF C!Denying
    <2> QED
      BY <2>6, <2>7, <2>8, <2>9
  <1> QED
    BY <1>1, ChartsInvariance, StepsImplement, PTL

\* A manifest that no gate objects to.
Passed(marks) ==
    "invalid" \notin marks /\ "unrenderable" \notin marks /\ C!Denying(C!Rules, marks) = {}

\* What the two gates say of a render of the golden chart.
Rendered(render) == IF render = "default" THEN C!Golden({}) ELSE C!Golden(given)

LEMMA RendersTell ==
    ASSUME NEW render \in {"default", "all"}, NEW needs, NEW fewer,
           C!Accepted(C!Chart("schema", render, needs), TRUE),
           C!Accepted(C!Chart("policy", render, fewer), TRUE)
    PROVE  needs \subseteq Rendered(render) /\ Passed(Rendered(render))
  <1> DEFINE schema == C!Chart("schema", render, needs)
             policy == C!Chart("policy", render, fewer)
  <1>1. /\ schema.gate = "schema" /\ schema.shows = render /\ schema.needs = needs
        /\ policy.gate = "policy" /\ policy.shows = render /\ policy.pass = TRUE
        /\ policy.rules = C!Rules
    BY DEF C!Chart
  <1>2. C!Accepted(schema, TRUE) /\ C!Accepted(policy, TRUE)
    OBVIOUS
  <1> HIDE DEF schema, policy
  <1>3. C!Shown(schema) = Rendered(render) /\ C!Shown(policy) = Rendered(render)
    BY <1>1 DEF C!Shown, Rendered
  <1>4. /\ needs \subseteq Rendered(render)
        /\ "unrenderable" \notin Rendered(render) /\ "invalid" \notin Rendered(render)
    BY <1>1, <1>2, <1>3 DEF C!Accepted
  <1>5. C!Denying(C!Rules, Rendered(render)) = {}
    BY <1>1, <1>2, <1>3 DEF C!Accepted, C!Applied
  <1> QED
    BY <1>4, <1>5 DEF Passed

\* The snippets by which the parts are known are there only if the four values are given.
LEMMA ValuesTell ==
    ASSUME given \subseteq C!Conditional, golden \subseteq C!GoldenChart \cup C!Slipped,
           {"VaultStaticSecret", "PersistentVolumeClaim", "token", "NET_BIND_SERVICE"}
               \subseteq C!Golden(given)
    PROVE  given = C!Conditional
  <1>1. ASSUME NEW m \in {"VaultStaticSecret", "PersistentVolumeClaim", "token",
                          "NET_BIND_SERVICE"}
        PROVE  \E e \in C!GoldenChart : e.mark = m /\ e.with \subseteq given
    <2>1. PICK e \in golden : e.mark = m /\ e.with \subseteq given
      BY <1>1 DEF C!Golden, C!Showing
    <2>2. e \notin C!Slipped
      <3>1. \A x \in C!Slipped : x.mark \in ChartSlips
        BY DEF C!Slipped, C!Entry
      <3> QED
        BY <2>1, <3>1, ChartSlipsAssumption
    <2> QED
      BY <2>1, <2>2
  <1>2. "vault" \in given
    BY <1>1 DEF C!GoldenChart, C!Entry
  <1>3. "storage" \in given
    BY <1>1 DEF C!GoldenChart, C!Entry
  <1>4. "token" \in given
    BY <1>1 DEF C!GoldenChart, C!Entry
  <1>5. "net_bind" \in given
    BY <1>1 DEF C!GoldenChart, C!Entry
  <1> QED
    BY <1>2, <1>3, <1>4, <1>5 DEF C!Conditional

\* What shows with some values only, or without some only, is admitted in each combination of
\* the four values, though two renders are judged (chart_schema, chart_policy).
THEOREM ChartAdmissibleHolds == StepsSpec => []ChartAdmissible
  <1>1. ChartsInv => ChartAdmissible
    <2> SUFFICES ASSUME ChartsInv, cVerdict = "green", cTarget = "ci",
                        NEW values \in SUBSET C!Conditional
                 PROVE  Passed({e.mark : e \in {f \in C!Showing(values) : C!Seen(f)}})
      BY DEF ChartAdmissible, C!ChartAdmissible, Passed
    <2> DEFINE known == {"VaultStaticSecret", "PersistentVolumeClaim", "token", "NET_BIND_SERVICE"}
               fewer == {"PersistentVolumeClaim", "token", "NET_BIND_SERVICE"}
    <2>1. /\ C!Chart("schema", "default", {}) \in CaseSet(cTarget)
          /\ C!Chart("policy", "default", {}) \in CaseSet(cTarget)
          /\ C!Chart("schema", "all", known) \in CaseSet(cTarget)
          /\ C!Chart("policy", "all", fewer) \in CaseSet(cTarget)
      BY CaseSets DEF SchemaCases, RenderCases
    <2> HIDE DEF known, fewer
    <2>6. \A c \in CaseSet(cTarget) : C!Accepted(c, TRUE)
      BY GreenAccepts
    <2>2. Passed(C!Golden({}))
      <3>1. /\ C!Accepted(C!Chart("schema", "default", {}), TRUE)
            /\ C!Accepted(C!Chart("policy", "default", {}), TRUE)
        BY <2>1, <2>6
      <3>2. Passed(Rendered("default"))
        BY <3>1, RendersTell
      <3> QED
        BY <3>2 DEF Rendered
    <2>3. known \subseteq C!Golden(given) /\ Passed(C!Golden(given))
      <3>1. /\ C!Accepted(C!Chart("schema", "all", known), TRUE)
            /\ C!Accepted(C!Chart("policy", "all", fewer), TRUE)
        BY <2>1, <2>6
      <3>2. known \subseteq Rendered("all") /\ Passed(Rendered("all"))
        BY <3>1, RendersTell
      <3> QED
        BY <3>2 DEF Rendered
    <2>4. given = C!Conditional
      BY <2>3, ValuesTell DEF ChartsInv, ChartsTyped, known
    <2>5. ASSUME NEW e \in C!Showing(values), C!Seen(e)
          PROVE  e.mark \in C!Golden({}) \cup C!Golden(given)
      <3>1. e \in golden /\ e.with \subseteq values /\ e.without \cap values = {}
        BY DEF C!Showing
      <3>2. CASE e.with = {}
        <4>1. e \in C!Showing({})
          BY <3>1, <3>2 DEF C!Showing
        <4> QED
          BY <4>1 DEF C!Golden
      <3>3. CASE e.without = {}
        <4>1. e \in C!Showing(given)
          BY <2>4, <3>1, <3>3 DEF C!Showing
        <4> QED
          BY <4>1 DEF C!Golden
      <3> QED
        BY <2>5, <3>2, <3>3 DEF C!Seen
    <2> QED
      BY <2>2, <2>3, <2>5 DEF Passed, C!Denying
  <1> QED
    BY <1>1, ChartsInvariance, StepsImplement, PTL

\* Green is never owed to a tool that broke down (run_kyverno_apply).
THEOREM FailureIsNoDenialHolds == StepsSpec => []FailureIsNoDenial
  <1>1. ChartsInv => FailureIsNoDenial
    BY DEF ChartsInv, Judged, FailureIsNoDenial, C!FailureIsNoDenial
  <1> QED
    BY <1>1, ChartsInvariance, StepsImplement, PTL

\* Charts, policies, probes and expected snippets agree (chart_schema, chart_policy).
THEOREM ExpectationsAgreeHolds == StepsSpec => []ExpectationsAgree
  <1>1. ChartsInv => ExpectationsAgree
    BY DEF ChartsInv, ExpectationsAgree
  <1> QED
    BY <1>1, ChartsInvariance, StepsImplement, PTL
=============================================================================
