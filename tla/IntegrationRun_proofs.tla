-------------------------- MODULE IntegrationRun_proofs --------------------------
(***************************************************************************)
(* Proofs about IntegrationRun, for any cases, missing sources, defects    *)
(* and number of edits.                                                    *)
(*                                                                         *)
(* The inductive invariant follows the workspace while it is put together: *)
(* each file is there if a source that is done, or the part of the current *)
(* one that is copied, has it, in the version of the topmost of these.     *)
(***************************************************************************)
EXTENDS IntegrationRun, TLAPS

\* Sources that are in the workspace as a whole before step s.
Done(c, s) ==
    CASE s \in {"none", "reset", "module", "overlay"} -> {}
      [] s = "framework" -> {"overlay"}
      [] s = "tfvars"    -> SourcesOf(c) \ {"tfvars"}
      [] OTHER           -> SourcesOf(c)

\* Sources that have put f into the workspace so far.
Providers(f) ==
    {s \in Done(case, step) : f \in ToCopy(s)}
        \cup IF step \in Sources /\ f \in copied THEN {step} ELSE {}

\* The source that lies over the others.
Top(S) ==
    IF "tfvars" \in S THEN "tfvars"
    ELSE IF "framework" \in S THEN "framework"
    ELSE IF "overlay" \in S THEN "overlay" ELSE "module"

\* Gates that found nothing before step s, if the case has them.
Cleared(s) ==
    CASE s = "init"     -> {"fmt"}
      [] s = "validate" -> {"fmt", "init"}
      [] s = "tflint"   -> {"fmt", "init", "validate"}
      [] s = "plan"     -> {"fmt", "init", "validate", "tflint"}
      [] s = "test"     -> Gates \ {"test"}
      [] s = "end"      -> Gates
      [] OTHER          -> {}

Tested(s) == s \in Gates \cup {"end"}

\* The step is one of the case, and only a source is half copied.
Placed ==
    /\ step \in Sources => step \in SourcesOf(case) /\ copied \subseteq ToCopy(step)
    /\ step \in Gates => step \in GatesOf(case)
    /\ step \notin Sources => copied = {}

Assembling ==
    step \notin {"none", "reset"} =>
        \A f \in Files \ {".terraform"} :
            /\ f \in DOMAIN ws[case] <=> Providers(f) # {}
            /\ f \in DOMAIN ws[case] => ws[case][f] = src[Top(Providers(f))][f]

\* The directory that init makes.
Prepared ==
    /\ step \in NeedInit \cup {"end"} => ".terraform" \in DOMAIN ws[case]
    /\ step \notin {"none", "reset"} /\ ".terraform" \in DOMAIN ws[case] =>
           ws[case][".terraform"] = "good"

Passed ==
    \A g \in GatesOf(case) \cap Cleared(step) :
        \A f \in DOMAIN ws[case] \cap Looks(g) : ws[case][f] # g

Inv ==
    /\ TypeOK /\ Placed /\ Assembling /\ Prepared /\ Passed
    /\ GreenMeansSound /\ RefusalExplained

-----------------------------------------------------------------------------
(* The order of the steps.                                                 *)

\* The next step is one of the case.
LEMMA AfterPlaced ==
    ASSUME NEW s \in {"reset"} \cup SourcesOf(case) \cup GatesOf(case)
    PROVE  /\ After(case, s) \in Steps \ {"none", "reset"}
           /\ After(case, s) \in Sources => After(case, s) \in SourcesOf(case)
           /\ After(case, s) \in Gates => After(case, s) \in GatesOf(case)
  BY DEF After, SourcesOf, GatesOf, Steps, Sources, Gates

\* After a source the next step has it among those done.
LEMMA AfterSource ==
    ASSUME NEW s \in SourcesOf(case)
    PROVE  Done(case, After(case, s)) = Done(case, s) \cup {s}
<1>1. CASE role = "framework"
  BY <1>1 DEF After, Done, SourcesOf
<1>2. CASE role # "framework"
  BY <1>2 DEF After, Done, SourcesOf
<1> QED  BY <1>1, <1>2

LEMMA AfterReset == Done(case, After(case, "reset")) = {}
  BY DEF After, Done

\* After a gate all sources stay done, and at most this gate is cleared anew.
LEMMA AfterGate ==
    ASSUME NEW g \in GatesOf(case)
    PROVE  /\ Done(case, g) = SourcesOf(case)
           /\ Done(case, After(case, g)) = SourcesOf(case)
           /\ GatesOf(case) \cap Cleared(After(case, g)) \subseteq Cleared(g) \cup {g}
           /\ After(case, g) \in Gates \cup {"end"}
<1>1. g \in Gates
  BY DEF GatesOf
<1>2. After(case, g) \in (Gates \ {"fmt"}) \cup {"end"}
  BY <1>1 DEF After, Gates
<1>3. Done(case, g) = SourcesOf(case) /\ Done(case, After(case, g)) = SourcesOf(case)
  BY <1>1, <1>2 DEF Done, Gates
<1>4. GatesOf(case) \cap Cleared(After(case, g)) \subseteq Cleared(g) \cup {g}
  BY <1>1 DEF After, GatesOf, Cleared, Gates
<1> QED  BY <1>2, <1>3, <1>4

\* Nothing is cleared before the second gate.
LEMMA NoneCleared ==
    ASSUME NEW s \in {"reset"} \cup SourcesOf(case)
    PROVE  Cleared(After(case, s)) = {} /\ After(case, s) \notin NeedInit \cup {"end"}
  BY DEF After, SourcesOf, Cleared, NeedInit, Gates

-----------------------------------------------------------------------------
(* Trees and sources.                                                      *)

\* Sources are copied to places that the module knows, none of them init's.
LEMMA CopiedFiles ==
    ASSUME TypeOK, NEW s \in Sources
    PROVE  ToCopy(s) \subseteq DOMAIN src[s] /\ ToCopy(s) \subseteq Files \ {".terraform"}
  BY DEF TypeOK, ToCopy, Room, Sources, Inner, Outer, Files, Ignored

\* What is copied next lies over what is there.
LEMMA TopStep ==
    ASSUME NEW s \in SourcesOf(case), NEW S \in SUBSET Done(case, s)
    PROVE  Top(S \cup {s}) = s
<1>1. CASE role = "framework"
  BY <1>1 DEF Top, Done, SourcesOf
<1>2. CASE role # "framework"
  BY <1>2 DEF Top, Done, SourcesOf
<1> QED  BY <1>1, <1>2

\* When everything is copied, what lies on top is the version called for.
LEMMA TopIsFinal ==
    ASSUME NEW f, Offering(case, f) # {}
    PROVE  src[Top(Offering(case, f))][f] = Final(case, f)
<1> DEFINE S == Offering(case, f)
<1>1. S \subseteq SourcesOf(case) /\ S # {}
  BY DEF Offering
<1>2. CASE "tfvars" \in S
  BY <1>2 DEF Top, Final
<1>3. CASE "tfvars" \notin S /\ "framework" \in S
  BY <1>3 DEF Top, Final
<1>4. CASE "tfvars" \notin S /\ "framework" \notin S
  <2>1. S = {"module"} \/ S = {"overlay"}
    BY <1>1, <1>4 DEF SourcesOf
  <2>2. (CHOOSE t \in S : TRUE) = Top(S)
    BY <2>1, <1>4 DEF Top
  <2> QED  BY <2>2, <1>4 DEF Final
<1> QED  BY <1>2, <1>3, <1>4

-----------------------------------------------------------------------------
(* Types.                                                                  *)

LEMMA GoodTree ==
    ASSUME NEW S
    PROVE  DOMAIN Good(S) = S /\ Good(S) \in [S -> Versions]
  BY DEF Good, Versions

LEMMA InitTypes == Init => TypeOK
<1> SUFFICES ASSUME Init PROVE TypeOK
  OBVIOUS
<1>1. ASSUME NEW s \in Sources
      PROVE  DOMAIN src[s] \subseteq Room(s) /\ src[s] \in [DOMAIN src[s] -> Versions]
  <2>1. \E S \in SUBSET Room(s) : src[s] = Good(S)
    BY DEF Init, Room, Sources, Inner, Outer
  <2> QED  BY <2>1, GoodTree
<1>2. ASSUME NEW c \in Cases
      PROVE  DOMAIN ws[c] \subseteq Files /\ ws[c] \in [DOMAIN ws[c] -> Versions]
  BY GoodTree DEF Init
<1> QED  BY <1>1, <1>2 DEF Init, TypeOK, Steps

\* A tree that gains a file keeps the type of a tree.
LEMMA WithType ==
    ASSUME NEW t, NEW R, NEW f \in R, NEW v \in Versions,
           DOMAIN t \subseteq R, t \in [DOMAIN t -> Versions]
    PROVE  DOMAIN With(t, f, v) \subseteq R /\ With(t, f, v) \in [DOMAIN With(t, f, v) -> Versions]
  BY DEF With

LEMMA WithoutType ==
    ASSUME NEW t, NEW R, NEW f, DOMAIN t \subseteq R, t \in [DOMAIN t -> Versions]
    PROVE  /\ DOMAIN Without(t, f) \subseteq R
           /\ Without(t, f) \in [DOMAIN Without(t, f) -> Versions]
  BY DEF Without

\* The workspace of the case may be put in another state.
LEMMA WsType ==
    ASSUME TypeOK, NEW t, DOMAIN t \subseteq Files, t \in [DOMAIN t -> Versions],
           ws' = [ws EXCEPT ![case] = t]
    PROVE  /\ DOMAIN ws' = Cases /\ ws'[case] = t
           /\ \A c \in Cases : DOMAIN ws'[c] \subseteq Files /\ ws'[c] \in [DOMAIN ws'[c] -> Versions]
<1>1. DOMAIN ws' = Cases /\ case \in Cases
  BY DEF TypeOK
<1>2. ASSUME NEW c \in Cases PROVE ws'[c] = IF c = case THEN t ELSE ws[c]
  BY <1>1 DEF TypeOK
<1> QED  BY <1>1, <1>2 DEF TypeOK

\* What is left when rmtree breaks off.
LEMMA RemovedType ==
    ASSUME TypeOK, Removed
    PROVE  /\ DOMAIN ws' = Cases
           /\ \A c \in Cases : DOMAIN ws'[c] \subseteq Files /\ ws'[c] \in [DOMAIN ws'[c] -> Versions]
<1>1. CASE UNCHANGED ws
  BY <1>1 DEF TypeOK
<1>2. ASSUME NEW f \in DOMAIN ws[case], ws' = [ws EXCEPT ![case] = [g \in {f} |-> @[g]]]
      PROVE  /\ DOMAIN ws' = Cases
             /\ \A c \in Cases : DOMAIN ws'[c] \subseteq Files /\ ws'[c] \in [DOMAIN ws'[c] -> Versions]
  <2> DEFINE t == [g \in {f} |-> ws[case][g]]
  <2>1. case \in Cases /\ f \in Files /\ ws[case][f] \in Versions
    BY DEF TypeOK
  <2>2. DOMAIN t \subseteq Files /\ t \in [DOMAIN t -> Versions]
    BY <2>1
  <2>3. ws' = [ws EXCEPT ![case] = t]
    BY <1>2
  <2> HIDE DEF t
  <2> QED  BY <2>2, <2>3, WsType
<1> QED  BY <1>1, <1>2 DEF Removed

LEMMA NextTypes == Inv /\ [Next]_vars => TypeOK'
<1> SUFFICES ASSUME Inv, [Next]_vars PROVE TypeOK'
  OBVIOUS
<1> USE DEF Inv
<1>1. ASSUME NEW s \in Sources, NEW f \in Room(s), Edit(s, f) PROVE TypeOK'
  <2>1. PICK t : /\ src' = [src EXCEPT ![s] = t]
                 /\ DOMAIN t \subseteq Room(s) /\ t \in [DOMAIN t -> Versions]
    <3>1. DOMAIN src[s] \subseteq Room(s) /\ src[s] \in [DOMAIN src[s] -> Versions]
      BY DEF TypeOK
    <3>2. CASE \E v \in Versions : src' = [src EXCEPT ![s] = With(@, f, v)]
      BY <3>1, <3>2, WithType
    <3>3. CASE src' = [src EXCEPT ![s] = Without(@, f)]
      BY <3>1, <3>3, WithoutType
    <3> QED  BY <1>1, <3>2, <3>3 DEF Edit
  <2>2. DOMAIN src' = Sources
    BY <2>1 DEF TypeOK
  <2>3. ASSUME NEW r \in Sources
        PROVE  DOMAIN src'[r] \subseteq Room(r) /\ src'[r] \in [DOMAIN src'[r] -> Versions]
    <3>1. CASE r = s
      BY <3>1, <2>1 DEF TypeOK
    <3>2. CASE r # s
      <4>1. src'[r] = src[r]
        BY <3>2, <2>1 DEF TypeOK
      <4> QED  BY <4>1 DEF TypeOK
    <3> QED  BY <3>1, <3>2
  <2>4. edits' = edits + 1 /\ verdict # "running" /\ verdict' = "none" /\ fault' = FALSE
        /\ UNCHANGED <<role, ws, case, step, copied>>
    BY <1>1 DEF Edit
  <2>5. \A c \in Cases : DOMAIN ws'[c] \subseteq Files /\ ws'[c] \in [DOMAIN ws'[c] -> Versions]
    BY <2>4 DEF TypeOK
  <2>6. edits' \in Nat /\ DOMAIN ws' = Cases
    BY <2>4 DEF TypeOK
  <2>7. /\ role' \in {"framework", "runner"} /\ case' \in Cases /\ step' \in Steps
        /\ copied' \subseteq Files /\ fault' \in BOOLEAN
        /\ verdict' \in {"none", "running", "green", "red"}
        /\ step' = "none" <=> verdict' # "running"
    BY <2>4 DEF TypeOK
  <2> QED  BY <2>2, <2>3, <2>5, <2>6, <2>7 DEF TypeOK
<1>2. ASSUME NEW c \in Cases, Invoke(c) PROVE TypeOK'
  BY <1>2 DEF Invoke, End, TypeOK, Steps
<1>3. CASE Fail /\ fault' \in BOOLEAN
  BY <1>3 DEF Fail, End, TypeOK, Steps
<1>4. CASE Reset
  <2>1. CASE case.inside /\ ws' = [ws EXCEPT ![case] = Good({})] /\ step' = After(case, step)
             /\ UNCHANGED <<role, src, edits, case, copied, fault, verdict>>
    <3>1. After(case, "reset") \in Steps \ {"none"}
      BY AfterPlaced
    <3>2. DOMAIN Good({}) \subseteq Files /\ Good({}) \in [DOMAIN Good({}) -> Versions]
      BY GoodTree
    <3> QED  BY <1>4, <2>1, <3>1, <3>2, WsType DEF Reset, TypeOK
  <2>2. CASE Removed /\ fault' = TRUE /\ End("red") /\ UNCHANGED <<role, src, edits, case>>
    BY <2>2, RemovedType DEF End, TypeOK, Steps
  <2> QED  BY <1>4, <2>1, <2>2, <1>3 DEF Reset
<1>5. ASSUME NEW s \in Sources, NEW f \in Files, CopyFile(s, f) PROVE TypeOK'
  <2>1. f \in ToCopy(s) /\ ToCopy(s) \subseteq DOMAIN src[s] /\ src[s] \in [DOMAIN src[s] -> Versions]
    BY <1>5, CopiedFiles DEF CopyFile, TypeOK
  <2>2. src[s][f] \in Versions /\ case \in Cases
    BY <2>1 DEF TypeOK
  <2>3. DOMAIN ws[case] \subseteq Files /\ ws[case] \in [DOMAIN ws[case] -> Versions]
    BY <2>2 DEF TypeOK
  <2>4. ws' = [ws EXCEPT ![case] = With(ws[case], f, src[s][f])]
    BY <1>5 DEF CopyFile
  <2> QED  BY <1>5, <2>2, <2>3, <2>4, WithType, WsType DEF CopyFile, TypeOK
<1>6. ASSUME NEW s \in Sources, SourceDone(s) PROVE TypeOK'
  <2>1. CASE ToCopy(s) \subseteq copied /\ step' = After(case, step) /\ copied' = {}
             /\ UNCHANGED <<role, src, edits, ws, case, fault, verdict>>
    <3>1. step = s /\ s \in SourcesOf(case) /\ s # "none"
      BY <1>6 DEF SourceDone, Placed, Sources
    <3>2. After(case, step) \in Steps \ {"none"}
      BY <3>1, AfterPlaced
    <3> QED  BY <2>1, <3>1, <3>2 DEF TypeOK
  <2>2. CASE Fail /\ (UNCHANGED fault \/ fault' = TRUE)
    BY <2>2, <1>3 DEF TypeOK
  <2> QED  BY <1>6, <2>1, <2>2 DEF SourceDone
<1>7. ASSUME NEW g \in Gates, Gate(g) PROVE TypeOK'
  <2>1. CASE /\ ws' = IF g = "init" THEN [ws EXCEPT ![case] = With(@, ".terraform", "good")] ELSE ws
             /\ step' = After(case, step)
             /\ UNCHANGED <<role, src, edits, case, copied, fault, verdict>>
    <3>1. step = g /\ g \in GatesOf(case) /\ g # "none"
      BY <1>7 DEF Gate, Placed, Gates
    <3>2. After(case, step) \in Steps \ {"none"}
      BY <3>1, AfterPlaced
    <3>3. case \in Cases /\ DOMAIN ws[case] \subseteq Files /\ ws[case] \in [DOMAIN ws[case] -> Versions]
      BY DEF TypeOK
    <3>4. ".terraform" \in Files /\ "good" \in Versions
      BY DEF Files, Outer, Versions
    <3>5. CASE g = "init"
      BY <2>1, <3>1, <3>2, <3>3, <3>4, <3>5, WithType, WsType DEF TypeOK
    <3>6. CASE g # "init"
      BY <2>1, <3>1, <3>2, <3>6 DEF TypeOK
    <3> QED  BY <3>5, <3>6
  <2>2. CASE Fail /\ (UNCHANGED fault \/ fault' = TRUE)
    BY <2>2, <1>3 DEF TypeOK
  <2> QED  BY <1>7, <2>1, <2>2 DEF Gate
<1>8. CASE Finish \/ Interrupt
  <2>1. UNCHANGED ws \/ Removed
    BY <1>8 DEF Finish, Interrupt
  <2>2. /\ DOMAIN ws' = Cases
        /\ \A c \in Cases : DOMAIN ws'[c] \subseteq Files /\ ws'[c] \in [DOMAIN ws'[c] -> Versions]
    BY <2>1, RemovedType DEF TypeOK
  <2> QED  BY <1>8, <2>2 DEF Finish, Interrupt, End, TypeOK, Steps
<1>9. CASE UNCHANGED vars
  BY <1>9 DEF vars, TypeOK
<1> QED  BY <1>1, <1>2, <1>4, <1>5, <1>6, <1>7, <1>8, <1>9 DEF Next

-----------------------------------------------------------------------------
(* The workspace.                                                          *)

Building == Placed /\ Assembling /\ Prepared /\ Passed

\* Between runs and before a reset there is nothing to say of the workspace.
LEMMA NothingBuilt ==
    ASSUME step \in {"none", "reset"}, copied = {}
    PROVE  Building
  BY DEF Building, Placed, Assembling, Prepared, Passed, Sources, Gates, NeedInit, Cleared

\* The same after a step.
LEMMA NothingBuiltNext ==
    ASSUME step' \in {"none", "reset"}, copied' = {}
    PROVE  Building'
  BY DEF Building, Placed, Assembling, Prepared, Passed, Sources, Gates, NeedInit, Cleared

\* Which gates a case has, and what a source or a case is, only their variables decide.
LEMMA SameCase ==
    ASSUME UNCHANGED <<role, src, case>>
    PROVE  /\ SourcesOf(case)' = SourcesOf(case) /\ GatesOf(case)' = GatesOf(case)
           /\ \A s : ToCopy(s)' = ToCopy(s) /\ Missing(s)' = Missing(s)
           /\ \A s : Done(case, s)' = Done(case, s)
           /\ \A f : Offering(case, f)' = Offering(case, f) /\ Final(case, f)' = Final(case, f)
  BY DEF SourcesOf, GatesOf, ToCopy, Missing, Done, Offering, Final

\* The workspace is empty when the first source comes.
LEMMA ResetBuilds == Inv /\ Reset => Building'
<1> SUFFICES ASSUME Inv, Reset PROVE Building'
  OBVIOUS
<1>1. CASE Fail
  BY <1>1, NothingBuiltNext DEF Fail, End
<1>2. CASE /\ ws' = [ws EXCEPT ![case] = Good({})] /\ step' = After(case, step)
           /\ UNCHANGED <<role, src, edits, case, copied, fault, verdict>>
  <2>1. step = "reset" /\ copied = {} /\ copied' = {}
    BY <1>2 DEF Reset, Inv, Placed, Sources
  <2>2. DOMAIN ws'[case] = {}
    BY <1>2, GoodTree DEF Inv, TypeOK
  <2>3. Done(case, step') = {} /\ step' \notin NeedInit \cup {"end"} /\ Cleared(step') = {}
    BY <1>2, <2>1, AfterReset, NoneCleared
  <2>4. Placed'
    BY <1>2, <2>1, AfterPlaced, SameCase DEF Placed
  <2>5. Assembling'
    BY <1>2, <2>1, <2>2, <2>3, SameCase DEF Assembling, Providers
  <2>6. Prepared' /\ Passed'
    BY <1>2, <2>2, <2>3, SameCase DEF Prepared, Passed
  <2> QED  BY <2>4, <2>5, <2>6 DEF Building
<1>3. CASE End("red")
  BY <1>3, NothingBuiltNext DEF End
<1> QED  BY <1>1, <1>2, <1>3 DEF Reset

\* A copied file lies over those of the sources before it.
LEMMA CopyBuilds ==
    ASSUME Inv, NEW s \in Sources, NEW f \in Files, CopyFile(s, f)
    PROVE  Building'
<1>1. /\ step = s /\ f \in ToCopy(s) /\ f \notin copied
      /\ ws' = [ws EXCEPT ![case] = With(@, f, src[s][f])]
      /\ copied' = copied \cup {f}
      /\ UNCHANGED <<role, src, edits, case, step, fault, verdict>>
  BY DEF CopyFile
<1>2. s \in SourcesOf(case) /\ copied \subseteq ToCopy(s)
  BY <1>1 DEF Inv, Placed
<1>3. f \in Files \ {".terraform"}
  BY <1>1, CopiedFiles DEF Inv
<1>4. /\ DOMAIN ws'[case] = DOMAIN ws[case] \cup {f}
      /\ ws'[case][f] = src[s][f]
      /\ \A g \in DOMAIN ws[case] \ {f} : ws'[case][g] = ws[case][g]
  <2>1. ws'[case] = With(ws[case], f, src[s][f])
    BY <1>1 DEF Inv, TypeOK
  <2> QED  BY <2>1 DEF With
<1>5. s \notin {"none", "reset"} /\ s \notin Gates /\ s \notin NeedInit \cup {"end"}
      /\ Cleared(s) = {}
  BY DEF Sources, Gates, NeedInit, Cleared
<1>6. Placed'
  BY <1>1, <1>2, <1>5, SameCase DEF Placed
<1>7. Assembling'
  <2>1. ASSUME NEW g \in Files \ {".terraform"}
        PROVE  /\ g \in DOMAIN ws'[case] <=> Providers(g)' # {}
               /\ g \in DOMAIN ws'[case] => ws'[case][g] = src[Top(Providers(g)')][g]
    <3>1. /\ g \in DOMAIN ws[case] <=> Providers(g) # {}
          /\ g \in DOMAIN ws[case] => ws[case][g] = src[Top(Providers(g))][g]
      BY <1>1, <1>5 DEF Inv, Assembling
    <3>2. CASE g = f
      <4> DEFINE D == {t \in Done(case, step) : f \in ToCopy(t)}
      <4>1. Providers(f)' = D \cup {s}
        BY <1>1, SameCase DEF Providers
      <4>2. D \in SUBSET Done(case, s)
        BY <1>1
      <4>3. Top(D \cup {s}) = s
        BY <1>2, <4>2, TopStep
      <4> QED  BY <3>2, <1>4, <4>1, <4>3
    <3>3. CASE g # f
      <4>1. Providers(g)' = Providers(g)
        BY <1>1, <3>3, SameCase DEF Providers
      <4> QED  BY <3>1, <3>3, <1>4, <4>1
    <3> QED  BY <3>2, <3>3
  <2> QED  BY <2>1, <1>1 DEF Assembling
<1>8. Prepared' /\ Passed'
  <2>1. step' = s
    BY <1>1
  <2>2. ".terraform" \in DOMAIN ws'[case] => ws'[case][".terraform"] = "good"
    BY <1>1, <1>3, <1>4, <1>5 DEF Inv, Prepared
  <2> QED  BY <1>1, <1>5, <2>1, <2>2 DEF Prepared, Passed
<1> QED  BY <1>6, <1>7, <1>8 DEF Building

\* A source that is copied is one of those done.
LEMMA SourceBuilds ==
    ASSUME Inv, NEW s \in Sources, SourceDone(s)
    PROVE  Building'
<1>1. CASE Fail
  BY <1>1, NothingBuiltNext DEF Fail, End
<1>2. CASE /\ ToCopy(s) \subseteq copied
           /\ step' = After(case, step) /\ copied' = {}
           /\ UNCHANGED <<role, src, edits, ws, case, fault, verdict>>
  <2>1. step = s /\ s \in SourcesOf(case) /\ copied = ToCopy(s)
    BY <1>2 DEF SourceDone, Inv, Placed
  <2>2. s \notin {"none", "reset"}
    BY DEF Sources
  <2>3. /\ Done(case, step') = Done(case, s) \cup {s}
        /\ step' \notin NeedInit \cup {"end"} /\ Cleared(step') = {}
    BY <1>2, <2>1, AfterSource, NoneCleared
  <2>4. Placed'
    BY <1>2, <2>1, AfterPlaced, SameCase DEF Placed
  <2>5. ASSUME NEW f PROVE Providers(f)' = Providers(f)
    BY <1>2, <2>1, <2>3, SameCase DEF Providers
  <2>6. Assembling'
    BY <1>2, <2>1, <2>2, <2>5 DEF Inv, Assembling
  <2>7. Prepared' /\ Passed'
    BY <1>2, <2>1, <2>2, <2>3 DEF Inv, Prepared, Passed
  <2> QED  BY <2>4, <2>6, <2>7 DEF Building
<1> QED  BY <1>1, <1>2 DEF SourceDone

\* A gate that passes has found nothing, and leaves the files as they are.
LEMMA GateBuilds ==
    ASSUME Inv, NEW g \in Gates, Gate(g)
    PROVE  Building'
<1>1. CASE Fail
  BY <1>1, NothingBuiltNext DEF Fail, End
<1>2. CASE /\ Passes(g)
           /\ ws' = IF g = "init" THEN [ws EXCEPT ![case] = With(@, ".terraform", "good")] ELSE ws
           /\ step' = After(case, step)
           /\ UNCHANGED <<role, src, edits, case, copied, fault, verdict>>
  <2>1. step = g /\ g \in GatesOf(case) /\ copied = {} /\ copied' = {}
    BY <1>2 DEF Gate, Inv, Placed, Gates, Sources
  <2>2. /\ Done(case, g) = SourcesOf(case) /\ Done(case, step') = SourcesOf(case)
        /\ GatesOf(case) \cap Cleared(step') \subseteq Cleared(g) \cup {g}
        /\ step' \in Gates \cup {"end"}
    BY <1>2, <2>1, AfterGate
  <2>3. /\ g \notin {"none", "reset"} /\ g \notin Sources
        /\ step' \notin {"none", "reset"} /\ step' \notin Sources
    BY <2>2 DEF Gates, Sources
  <2>4. /\ DOMAIN ws'[case] = DOMAIN ws[case] \cup IF g = "init" THEN {".terraform"} ELSE {}
        /\ \A f \in DOMAIN ws[case] \ {".terraform"} : ws'[case][f] = ws[case][f]
        /\ ".terraform" \in DOMAIN ws'[case] => ws'[case][".terraform"] = "good"
    <3>1. CASE g = "init"
      <4>1. ws'[case] = With(ws[case], ".terraform", "good")
        BY <1>2, <3>1 DEF Inv, TypeOK
      <4> QED  BY <3>1, <4>1 DEF With
    <3>2. CASE g # "init"
      BY <1>2, <3>2, <2>1, <2>3 DEF Inv, Prepared
    <3> QED  BY <3>1, <3>2
  <2>5. Placed'
    BY <1>2, <2>1, <2>3, AfterPlaced, SameCase DEF Placed
  <2>6. Assembling'
    <3>1. ASSUME NEW f PROVE Providers(f)' = Providers(f)
      BY <1>2, <2>1, <2>2, <2>3, SameCase DEF Providers
    <3> QED  BY <1>2, <2>1, <2>3, <2>4, <3>1 DEF Inv, Assembling
  <2>7. Prepared'
    <3>1. step' \in NeedInit \cup {"end"} => g = "init" \/ g \in NeedInit
      BY <1>2, <2>1 DEF After, NeedInit, Gates
    <3>2. g \in NeedInit => ".terraform" \in DOMAIN ws[case]
      BY <2>1 DEF Inv, Prepared
    <3> QED  BY <1>2, <2>4, <3>1, <3>2 DEF Prepared
  <2>8. Passed'
    <3>1. ASSUME NEW h \in GatesOf(case) \cap Cleared(step'),
                 NEW f \in DOMAIN ws'[case] \cap Looks(h)
          PROVE  ws'[case][f] # h
      <4>1. CASE f = ".terraform"
        BY <4>1, <2>4 DEF GatesOf, Gates
      <4>2. CASE f # ".terraform"
        <5>1. f \in DOMAIN ws[case] /\ ws'[case][f] = ws[case][f]
          BY <4>2, <2>4
        <5>2. ws[case][f] # h
          BY <1>2, <2>1, <2>2, <5>1 DEF Inv, Passed, Passes
        <5> QED  BY <5>1, <5>2
      <4> QED  BY <4>1, <4>2
    <3> QED  BY <1>2, <3>1, SameCase DEF Passed
  <2> QED  BY <2>5, <2>6, <2>7, <2>8 DEF Building
<1> QED  BY <1>1, <1>2 DEF Gate

LEMMA NextBuilds == Inv /\ [Next]_vars => Building'
<1> SUFFICES ASSUME Inv, [Next]_vars PROVE Building'
  OBVIOUS
<1>1. ASSUME NEW s \in Sources, NEW f \in Room(s), Edit(s, f) PROVE Building'
  <2>1. step' = "none" /\ copied' = {}
    BY <1>1 DEF Edit, Inv, TypeOK, Placed, Sources
  <2> QED  BY <2>1, NothingBuiltNext
<1>2. ASSUME NEW c \in Cases, Invoke(c) PROVE Building'
  BY <1>2, NothingBuiltNext DEF Invoke, End
<1>3. CASE Finish \/ Interrupt
  BY <1>3, NothingBuiltNext DEF Finish, Interrupt, End
<1>4. CASE UNCHANGED vars
  BY <1>4, SameCase DEF vars, Inv, Building, Placed, Assembling, Providers, Prepared, Passed
<1> QED  BY <1>1, <1>2, <1>3, <1>4, ResetBuilds, CopyBuilds, SourceBuilds, GateBuilds DEF Next

-----------------------------------------------------------------------------
(* Verdicts.                                                               *)

\* At a gate, and behind the last one, the workspace is what the case calls for.
LEMMA BuiltIsFinal ==
    ASSUME TypeOK, Placed, Assembling, Tested(step), NEW f \in Files \ {".terraform"}
    PROVE  /\ f \in DOMAIN ws[case] <=> Offering(case, f) # {}
           /\ f \in DOMAIN ws[case] => ws[case][f] = Final(case, f)
<1>1. step \notin {"none", "reset"} /\ step \notin Sources
  BY DEF Tested, Gates, Sources
<1>2. Done(case, step) = SourcesOf(case)
  BY DEF Tested, Gates, Done
<1>3. Providers(f) = Offering(case, f)
  BY <1>1, <1>2 DEF Providers, Offering
<1> QED  BY <1>1, <1>3, TopIsFinal DEF Assembling

\* The directory of init is in no source.
LEMMA NotOffered == TypeOK => Offering(case, ".terraform") = {}
  BY CopiedFiles DEF Offering, SourcesOf, Sources

\* What is not good in the workspace is not good in a source of the case.
LEMMA FaultFromSource ==
    ASSUME TypeOK, Placed, Assembling, Prepared, Tested(step),
           NEW f \in DOMAIN ws[case], ws[case][f] # "good"
    PROVE  Faulty
<1>1. f \in Files \ {".terraform"}
  BY DEF TypeOK, Prepared, Tested, Gates
<1>2. Offering(case, f) # {} /\ ws[case][f] = Final(case, f)
  BY <1>1, BuiltIsFinal
<1>3. Top(Offering(case, f)) \in Offering(case, f)
  BY <1>2 DEF Top, Offering, SourcesOf
<1>4. PICK s \in SourcesOf(case) : f \in ToCopy(s) /\ src[s][f] # "good"
  BY <1>2, <1>3, TopIsFinal DEF Offering
<1>5. s \in Sources
  BY DEF SourcesOf, Sources
<1> QED  BY <1>4, <1>5, CopiedFiles DEF Faulty

\* A verdict stays true of the checkout as long as that is the same.
LEMMA VerdictStays ==
    ASSUME UNCHANGED <<role, src, case>>
    PROVE  /\ UNCHANGED verdict /\ GreenMeansSound => GreenMeansSound'
           /\ UNCHANGED <<verdict, fault>> /\ RefusalExplained => RefusalExplained'
           /\ Faulty' = Faulty
           /\ (\E s \in SourcesOf(case) : Missing(s))' = \E s \in SourcesOf(case) : Missing(s)
<1>1. Faulty' = Faulty
  BY SameCase DEF Faulty
<1>2. (\E s \in SourcesOf(case) : Missing(s))' = \E s \in SourcesOf(case) : Missing(s)
  BY SameCase
<1>3. UNCHANGED verdict /\ GreenMeansSound => GreenMeansSound'
  BY SameCase DEF GreenMeansSound, Looks
<1>4. UNCHANGED <<verdict, fault>> /\ RefusalExplained => RefusalExplained'
  BY <1>1, <1>2 DEF RefusalExplained
<1> QED  BY <1>1, <1>2, <1>3, <1>4

LEMMA FinishSound == Inv /\ Finish => GreenMeansSound'
<1> SUFFICES ASSUME Inv, Finish, NEW g \in GatesOf(case), NEW f \in Looks(g),
                    Offering(case, f) # {}
             PROVE  Final(case, f) # g
  BY SameCase DEF GreenMeansSound, Finish, Looks
<1>1. step = "end" /\ Tested(step) /\ Cleared(step) = Gates
  BY DEF Finish, Tested, Cleared
<1>2. f \in Files \ {".terraform"}
  BY NotOffered DEF Inv, Looks, Files, Inner, Outer
<1>3. f \in DOMAIN ws[case] /\ ws[case][f] = Final(case, f)
  BY <1>1, <1>2, BuiltIsFinal DEF Inv
<1>4. ws[case][f] # g
  BY <1>1, <1>3 DEF Inv, Passed, GatesOf
<1> QED  BY <1>3, <1>4

\* A gate that refuses without a fault has found a file of a source.
LEMMA GateExplained ==
    ASSUME Inv, NEW g \in Gates, Gate(g)
    PROVE  GreenMeansSound' /\ RefusalExplained'
<1>1. step = g /\ verdict = "running" /\ UNCHANGED <<role, src, case>>
  BY DEF Gate, Fail, Inv, TypeOK, Gates
<1>2. verdict' # "green"
  BY <1>1 DEF Gate, Fail, End
<1>3. CASE UNCHANGED verdict
  BY <1>1, <1>3 DEF GreenMeansSound, RefusalExplained
<1>4. CASE ~Passes(g)
  <2>1. g \in NeedInit => ".terraform" \in DOMAIN ws[case]
    BY <1>1 DEF Inv, Prepared
  <2>2. PICK f \in DOMAIN ws[case] \cap Looks(g) : ws[case][f] = g
    BY <1>4, <2>1 DEF Passes
  <2>3. g # "good" /\ Tested(step)
    BY <1>1 DEF Gates, Tested
  <2>4. Faulty
    BY <2>2, <2>3, FaultFromSource DEF Inv
  <2> QED  BY <1>1, <1>2, <2>4, VerdictStays DEF GreenMeansSound, RefusalExplained
<1>5. CASE fault' = TRUE
  BY <1>2, <1>5 DEF GreenMeansSound, RefusalExplained
<1> QED  BY <1>2, <1>3, <1>4, <1>5 DEF Gate, GreenMeansSound

LEMMA NextVerdicts == Inv /\ [Next]_vars => GreenMeansSound' /\ RefusalExplained'
<1> SUFFICES ASSUME Inv, [Next]_vars PROVE GreenMeansSound' /\ RefusalExplained'
  OBVIOUS
<1>1. ASSUME NEW s \in Sources, NEW f \in Room(s), Edit(s, f)
      PROVE  GreenMeansSound' /\ RefusalExplained'
  BY <1>1 DEF Edit, GreenMeansSound, RefusalExplained
<1>2. ASSUME NEW c \in Cases, Invoke(c) PROVE GreenMeansSound' /\ RefusalExplained'
  BY <1>2 DEF Invoke, End, GreenMeansSound, RefusalExplained
<1>3. CASE Reset
  <2>1. verdict' # "green" /\ (verdict' = "red" => fault')
    BY <1>3 DEF Reset, Fail, End, Inv, TypeOK
  <2> QED  BY <2>1 DEF GreenMeansSound, RefusalExplained
<1>4. CASE Finish
  BY <1>4, FinishSound DEF Finish, End, RefusalExplained
<1>5. CASE Interrupt
  BY <1>5 DEF Interrupt, End, GreenMeansSound, RefusalExplained
<1>6. ASSUME NEW s \in Sources, NEW f \in Files, CopyFile(s, f)
      PROVE  GreenMeansSound' /\ RefusalExplained'
  BY <1>6, VerdictStays DEF CopyFile, Inv
<1>7. ASSUME NEW s \in Sources, SourceDone(s) PROVE GreenMeansSound' /\ RefusalExplained'
  <2>1. step = s /\ s \in SourcesOf(case) /\ verdict = "running" /\ UNCHANGED <<role, src, case>>
    BY <1>7 DEF SourceDone, Fail, Inv, TypeOK, Placed, Sources
  <2>2. verdict' # "green" /\ (verdict' = "red" => fault' \/ Missing(s))
    BY <1>7, <2>1 DEF SourceDone, Fail, End
  <2> QED  BY <2>1, <2>2, VerdictStays DEF GreenMeansSound, RefusalExplained
<1>8. CASE UNCHANGED vars
  BY <1>8, VerdictStays DEF vars, Inv
<1> QED  BY <1>1, <1>2, <1>3, <1>4, <1>5, <1>6, <1>7, <1>8, GateExplained DEF Next

-----------------------------------------------------------------------------
(* Theorems.                                                               *)

LEMMA InitInv == Init => Inv
<1> SUFFICES ASSUME Init PROVE Inv
  OBVIOUS
<1>1. Building
  BY NothingBuilt DEF Init
<1> QED  BY <1>1, InitTypes DEF Init, Inv, Building, GreenMeansSound, RefusalExplained

LEMMA NextInv == Inv /\ [Next]_vars => Inv'
  BY NextTypes, NextBuilds, NextVerdicts DEF Inv, Building

\* The invariant holds in every state of a run, of any cases and sources.
THEOREM IntegrationInvariance == Spec => []Inv
  BY InitInv, NextInv, PTL DEF Spec

\* Every variable keeps its type (the state of run_integration.py and its files).
THEOREM IntegrationTypeCorrect == Spec => []TypeOK
<1>1. Inv => TypeOK
  BY DEF Inv
<1> QED  BY <1>1, IntegrationInvariance, PTL

\* The gates see the checkout and nothing that an earlier run has left behind
\* (reset_workspace, copy_contents, copy_tfvars).
THEOREM AssembledFreshHolds == Spec => []AssembledFresh
<1>1. Inv => AssembledFresh
  BY BuiltIsFinal DEF Inv, AssembledFresh, UnderTest, Tested
<1> QED  BY <1>1, IntegrationInvariance, PTL

\* No gate of the case would refuse a file of a green checkout (run_terraform_gates).
THEOREM GreenMeansSoundHolds == Spec => []GreenMeansSound
<1>1. Inv => GreenMeansSound
  BY DEF Inv
<1> QED  BY <1>1, IntegrationInvariance, PTL

\* A red run has its reason in the checkout or in a tool (main, its order of steps).
THEOREM RefusalExplainedHolds == Spec => []RefusalExplained
<1>1. Inv => RefusalExplained
  BY DEF Inv
<1> QED  BY <1>1, IntegrationInvariance, PTL
=============================================================================
