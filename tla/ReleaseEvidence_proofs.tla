------------------------- MODULE ReleaseEvidence_proofs -------------------------
(***************************************************************************)
(* Proofs about ReleaseEvidence for any number of releases and runs: what  *)
(* is attached to a release is the evidence of commits that pass the       *)
(* gates, one run for each commit, and a green run attached all of it.     *)
(***************************************************************************)
EXTENDS ReleaseEvidence, TLAPS

\* The concurrency group: one run of a ref at a time.
Mutex ==
    \A x, y \in Runs : Running(x) /\ Running(y) /\ ref[x] = ref[y] => x = y

\* A framework's run gets past the gates only on a commit that passes them.
Passed ==
    repoType = "framework" =>
        \A r \in Runs :
            /\ pc[r] = "gates" => bad[ref[r]] \subseteq failing[r]
            /\ pc[r] \in {"package", "attach", "uploading"} => bad[ref[r]] = {}

\* A file on a release belongs to a run for that release whose slot is not reused.
Owned ==
    \A t \in Tags : \A a \in assets[t] :
        /\ ref[a.run] = a.sha /\ TagOf(a.sha) = t
        /\ pc[a.run] \in {"uploading", "green", "red"}
        /\ repoType = "framework" => bad[a.sha] = {}

\* While a run uploads, the release has no other files of the same ref.
Uploads ==
    \A r \in Runs : pc[r] = "uploading" =>
        /\ TagOf(ref[r]) \in published /\ left[r] # {}
        /\ \A a \in assets[TagOf(ref[r])] : a.sha = ref[r] => a.run = r
        /\ Files(r, TagOf(ref[r])) = Names \ left[r]

Inv == TypeOK /\ Mutex /\ Passed /\ Owned /\ Uploads /\ OneRun /\ GreenMeansAttached

-----------------------------------------------------------------------------

LEMMA InitInv == Init => Inv
  <1> SUFFICES ASSUME Init PROVE Inv
    OBVIOUS
  <1>1. TypeOK
    <2>1. (CHOOSE b \in Branches : TRUE) \in Branches
      BY ReleaseAssumption
    <2> QED
      BY <2>1, ReleaseAssumption DEF Init, TypeOK, Tasks, Refs
  <1>2. Mutex /\ Passed /\ Owned /\ Uploads /\ OneRun /\ GreenMeansAttached
    BY DEF Init, Mutex, Passed, Owned, Uploads, OneRun, GreenMeansAttached, Running, Active
  <1> QED
    BY <1>1, <1>2 DEF Inv

\* What queueing a run does to the others: at most one pending run is cancelled.
LEMMA QueueFacts ==
    ASSUME TypeOK, NEW r \in Runs, NEW rf \in Refs, NEW tk \in Tasks, Queue(r, rf, tk)
    PROVE  /\ pc' \in [Runs -> Active \cup Ended \cup {"none", "pending"}]
           /\ ref' \in [Runs -> Refs]
           /\ task' \in [Runs -> Tasks]
           /\ displaced' \subseteq Tags
           /\ failing' \in [Runs -> SUBSET Gates]
           /\ left' \in [Runs -> SUBSET Names]
           /\ pc'[r] = "pending" /\ ref'[r] = rf
           /\ \A x \in Runs : x # r =>
                /\ ref'[x] = ref[x] /\ failing'[x] = failing[x] /\ left'[x] = left[x]
                /\ pc'[x] = pc[x] \/ (pc[x] = "pending" /\ pc'[x] = "cancelled")
           /\ \A t \in Tags : \A a \in assets[t] : a.run # r \/ pc[r] = "none"
  <1>1. pc' = [x \in Runs |->
                IF x = r THEN "pending"
                ELSE IF x \in Waiting(rf) THEN "cancelled" ELSE pc[x]]
    BY DEF Queue
  <1>2. /\ ref' = [ref EXCEPT ![r] = rf] /\ task' = [task EXCEPT ![r] = tk]
        /\ failing' = [failing EXCEPT ![r] = {}]
        /\ left' = [left EXCEPT ![r] = {}]
    BY DEF Queue
  <1>3. \A t \in Tags : \A a \in assets[t] : a.run # r \/ pc[r] = "none"
    BY DEF Queue, Free
  <1>4. pc' \in [Runs -> Active \cup Ended \cup {"none", "pending"}]
    BY <1>1 DEF TypeOK, Ended
  <1>5. /\ pc'[r] = "pending"
        /\ \A x \in Runs : x # r =>
             pc'[x] = pc[x] \/ (pc[x] = "pending" /\ pc'[x] = "cancelled")
    BY <1>1 DEF Waiting
  <1>6. /\ task' \in [Runs -> Tasks] /\ displaced' \subseteq Tags
    BY <1>2 DEF TypeOK, Queue
  <1>7. /\ ref' \in [Runs -> Refs] /\ failing' \in [Runs -> SUBSET Gates]
        /\ left' \in [Runs -> SUBSET Names] /\ ref'[r] = rf
        /\ \A x \in Runs : x # r =>
             ref'[x] = ref[x] /\ failing'[x] = failing[x] /\ left'[x] = left[x]
    BY <1>2 DEF TypeOK
  <1> QED
    BY <1>3, <1>4, <1>5, <1>6, <1>7

LEMMA QueueInv ==
    ASSUME Inv, NEW r \in Runs, NEW rf \in Refs, NEW tk \in Tasks, Queue(r, rf, tk),
           published \subseteq published', published' \subseteq Tags,
           UNCHANGED <<repoType, named, bad, assets, faults>>
    PROVE  Inv'
  <1>1. TypeOK
    BY DEF Inv
  <1>2. /\ pc' \in [Runs -> Active \cup Ended \cup {"none", "pending"}]
        /\ ref' \in [Runs -> Refs]
        /\ task' \in [Runs -> Tasks]
        /\ displaced' \subseteq Tags
        /\ failing' \in [Runs -> SUBSET Gates]
        /\ left' \in [Runs -> SUBSET Names]
    BY <1>1, QueueFacts
  <1>3. \A x \in Runs : pc'[x] \in Active \cup {"green", "red"} =>
            /\ x # r /\ pc'[x] = pc[x] /\ ref'[x] = ref[x]
            /\ failing'[x] = failing[x] /\ left'[x] = left[x]
    <2>1. pc'[r] = "pending"
      BY <1>1, QueueFacts
    <2>2. \A x \in Runs : x # r =>
            /\ ref'[x] = ref[x] /\ failing'[x] = failing[x] /\ left'[x] = left[x]
            /\ pc'[x] = pc[x] \/ (pc[x] = "pending" /\ pc'[x] = "cancelled")
      BY <1>1, QueueFacts
    <2> QED
      BY <2>1, <2>2 DEF Active
  <1>4. \A t \in Tags : \A a \in assets[t] :
            /\ a.run \in Runs /\ a.run # r
            /\ ref'[a.run] = ref[a.run] /\ pc'[a.run] = pc[a.run]
    <2> SUFFICES ASSUME NEW t \in Tags, NEW a \in assets[t]
                 PROVE  /\ a.run \in Runs /\ a.run # r
                        /\ ref'[a.run] = ref[a.run] /\ pc'[a.run] = pc[a.run]
      OBVIOUS
    <2>1. a.run \in Runs
      BY <1>1 DEF TypeOK
    <2>2. pc[a.run] \in {"uploading", "green", "red"}
      BY DEF Inv, Owned
    <2>3. a.run # r
      BY <1>1, <2>2, QueueFacts
    <2> QED
      BY <1>1, <2>1, <2>2, <2>3, QueueFacts
  <1>5. TypeOK'
    BY <1>1, <1>2 DEF TypeOK
  <1>6. Mutex'
    BY <1>3 DEF Inv, Mutex, Running
  <1>7. Passed'
    BY <1>3 DEF Inv, Passed, Active
  <1>8. Owned'
    BY <1>4 DEF Inv, Owned, TagOf
  <1>9. Uploads'
    BY <1>3 DEF Inv, Uploads, Files, TagOf, Active
  <1>10. OneRun'
    BY DEF Inv, OneRun
  <1>11. GreenMeansAttached'
    BY <1>3 DEF Inv, GreenMeansAttached, Files, TagOf
  <1> QED
    BY <1>5, <1>6, <1>7, <1>8, <1>9, <1>10, <1>11 DEF Inv

LEMMA PublishInv == ASSUME Inv, NEW t \in Tags, Publish(t) PROVE Inv'
  <1>1. /\ published' = published \cup {t}
        /\ repoType' = repoType /\ named' = named /\ bad' = bad /\ assets' = assets
    BY DEF Publish
  <1>2. published \subseteq published' /\ published' \subseteq Tags /\ t \in Refs
    BY <1>1 DEF Inv, TypeOK, Refs
  <1>3. ASSUME NEW r \in Runs, Queue(r, t, "release-evidence"), UNCHANGED faults PROVE Inv'
    <2>1. "release-evidence" \in Tasks
      BY DEF Tasks
    <2> QED
      BY <1>1, <1>2, <1>3, <2>1, QueueInv
  <1>4. CASE faults < MaxFaults /\ faults' = faults + 1 /\ UNCHANGED <<pc, ref, task, failing, left, displaced>>
    <2>1. TypeOK'
      BY <1>1, <1>2, <1>4, ReleaseAssumption DEF Inv, TypeOK
    <2>2. Mutex' /\ Passed' /\ Owned' /\ OneRun' /\ GreenMeansAttached'
      BY <1>1, <1>4 DEF Inv, Mutex, Passed, Owned, OneRun, GreenMeansAttached, Running,
         Files, TagOf
    <2>3. Uploads'
      BY <1>1, <1>4 DEF Inv, Uploads, Files, TagOf
    <2> QED
      BY <2>1, <2>2, <2>3 DEF Inv
  <1> QED
    BY <1>3, <1>4 DEF Publish

LEMMA DispatchInv == ASSUME Inv, NEW rf \in Refs, Dispatch(rf) PROVE Inv'
  <1>1. PICK r \in Runs, tk \in Tasks : Queue(r, rf, tk)
    BY DEF Dispatch
  <1>2. UNCHANGED <<repoType, named, bad, published, assets, faults>> /\ published \subseteq Tags
    BY DEF Dispatch, Inv, TypeOK
  <1> QED
    BY <1>1, <1>2, QueueInv

-----------------------------------------------------------------------------
(* Steps of a job that do not touch the release.                           *)

\* A run moves to another step and may record failed gates or files to upload.
Move(r, step, fs, ns) ==
    /\ Goto(r, step)
    /\ failing' = [failing EXCEPT ![r] = fs]
    /\ left' = [left EXCEPT ![r] = ns]
    /\ faults' \in 0 .. MaxFaults
    /\ UNCHANGED <<repoType, named, bad, published, assets, ref, task, displaced>>
    /\ pc[r] \in Active \cup {"pending"}
    /\ pc[r] = "uploading" => step = "red"
    /\ step \in Active /\ ~Running(r) => \A x \in Runs : Running(x) => ref[x] # ref[r]
    /\ repoType = "framework" =>
         /\ step = "gates" => bad[ref[r]] \subseteq fs
         /\ step \in {"package", "attach", "uploading"} => bad[ref[r]] = {}
    /\ step = "uploading" => TagOf(ref[r]) \in published /\ ns = Names /\ assets[TagOf(ref[r])] = {}

LEMMA MoveInv ==
    ASSUME Inv, NEW r \in Runs, NEW step \in Active \cup {"red", "released"},
           NEW fs \in SUBSET Gates, NEW ns \in SUBSET Names, Move(r, step, fs, ns)
    PROVE  Inv'
  <1> USE DEF Move
  <1>1. TypeOK
    BY DEF Inv
  <1>2. /\ pc' = [pc EXCEPT ![r] = step]
        /\ repoType' = repoType /\ named' = named /\ bad' = bad /\ published' = published
        /\ assets' = assets /\ ref' = ref /\ task' = task /\ displaced' = displaced
    BY DEF Goto
  <1>3. /\ pc'[r] = step /\ failing'[r] = fs /\ left'[r] = ns
        /\ \A x \in Runs : x # r =>
             pc'[x] = pc[x] /\ failing'[x] = failing[x] /\ left'[x] = left[x]
    BY <1>1, <1>2 DEF TypeOK
  <1>4. TypeOK'
    BY <1>1, <1>2 DEF TypeOK, Ended
  <1>5. Mutex'
    BY <1>2, <1>3 DEF Inv, Mutex, Running, Active
  <1>6. Passed'
    BY <1>2, <1>3 DEF Inv, Passed
  <1>7. Owned'
    <2> SUFFICES ASSUME NEW t \in Tags, NEW a \in assets[t]
                 PROVE  pc'[a.run] \in {"uploading", "green", "red"}
      BY <1>2 DEF Inv, Owned, TagOf
    <2>1. a.run \in Runs /\ pc[a.run] \in {"uploading", "green", "red"} 
      BY <1>1 DEF TypeOK, Inv, Owned
    <2>2. CASE a.run # r
      BY <1>3, <2>1, <2>2
    <2>3. CASE a.run = r
      <3>1. pc[r] = "uploading"
        BY <2>1, <2>3 DEF Active
      <3> QED
        BY <1>3, <2>3, <3>1
    <2> QED
      BY <2>2, <2>3
  <1>8. Uploads'
    <2> SUFFICES ASSUME NEW x \in Runs, pc'[x] = "uploading"
                 PROVE  /\ TagOf(ref[x]) \in published /\ left'[x] # {}
                        /\ \A a \in assets[TagOf(ref[x])] : a.sha = ref[x] => a.run = x
                        /\ Files(x, TagOf(ref[x])) = Names \ left'[x]
      BY <1>2 DEF Uploads, Files, TagOf
    <2>1. CASE x # r
      BY <1>3, <2>1 DEF Inv, Uploads
    <2>2. CASE x = r
      <3>1. /\ assets[TagOf(ref[x])] = {} /\ left'[x] = Names
            /\ TagOf(ref[x]) \in published
        BY <1>3, <2>2
      <3>2. Files(x, TagOf(ref[x])) = {}
        BY <3>1 DEF Files
      <3> QED
        BY <3>1, <3>2 DEF Names
    <2> QED
      BY <2>1, <2>2
  <1>9. OneRun'
    BY <1>2 DEF Inv, OneRun
  <1>10. GreenMeansAttached'
    <2>1. \A x \in Runs : pc'[x] = "green" => pc[x] = "green"
      BY <1>3 DEF Active
    <2> QED
      BY <1>2, <2>1 DEF Inv, GreenMeansAttached, Files, TagOf
  <1> QED
    BY <1>4, <1>5, <1>6, <1>7, <1>8, <1>9, <1>10 DEF Inv

LEMMA StartInv == ASSUME Inv, NEW r \in Runs, Start(r) PROVE Inv'
  <1> DEFINE step == IF task[r] = "release-please" THEN "releasing"
                     ELSE IF repoType \in Known THEN "generate" ELSE "red"
  <1>1. /\ pc[r] = "pending" /\ Goto(r, step)
        /\ \A x \in Runs : Running(x) => ref[x] # ref[r]
        /\ UNCHANGED <<repoType, named, bad, published, assets, ref, task, failing, left, displaced, faults>>
    BY DEF Start, Group
  <1>2. step \in Active \cup {"red"} /\ step \notin {"gates", "package", "attach", "uploading"}
    BY DEF Active
  <1>3. /\ failing[r] \in SUBSET Gates /\ failing' = [failing EXCEPT ![r] = failing[r]]
        /\ left[r] \in SUBSET Names /\ left' = [left EXCEPT ![r] = left[r]]
        /\ faults' \in 0 .. MaxFaults
    BY <1>1 DEF Inv, TypeOK
  <1>4. Move(r, step, failing[r], left[r])
    BY <1>1, <1>2, <1>3 DEF Move
  <1> HIDE DEF step
  <1> QED
    BY <1>2, <1>3, <1>4, MoveInv

LEMMA GenerateInv == ASSUME Inv, NEW r \in Runs, Generate(r) PROVE Inv'
  <1>1. /\ pc[r] = "generate" /\ pc[r] \in Active /\ Running(r)
        /\ UNCHANGED <<repoType, named, bad, published, assets, ref, task, left, displaced>>
    BY DEF Generate, Active, Running
  <1>2. /\ left[r] \in SUBSET Names /\ left' = [left EXCEPT ![r] = left[r]]
        /\ failing[r] \in SUBSET Gates /\ bad[ref[r]] \in SUBSET Gates
        /\ faults \in 0 .. MaxFaults
    BY <1>1, ReleaseAssumption DEF Inv, TypeOK
  <1>3. "package" \in Active /\ "gates" \in Active
    BY DEF Active
  <1>4. CASE repoType # "framework"
    <2>1. Goto(r, "package") /\ UNCHANGED <<failing, faults>>
      BY <1>4 DEF Generate
    <2>2. failing' = [failing EXCEPT ![r] = failing[r]]
      BY <2>1 DEF Inv, TypeOK
    <2>3. Move(r, "package", failing[r], left[r])
      BY <1>1, <1>2, <1>4, <2>1, <2>2 DEF Move
    <2> QED
      BY <1>2, <1>3, <2>3, MoveInv
  <1>5. CASE repoType = "framework"
    <2>1. Goto(r, "gates")
      BY <1>5 DEF Generate
    <2>2. CASE failing' = [failing EXCEPT ![r] = bad[ref[r]]] /\ UNCHANGED faults
      <3>1. Move(r, "gates", bad[ref[r]], left[r])
        BY <1>1, <1>2, <2>1, <2>2 DEF Move
      <3> QED
        BY <1>2, <1>3, <3>1, MoveInv
    <2>3. CASE /\ faults < MaxFaults /\ faults' = faults + 1
               /\ failing' = [failing EXCEPT ![r] =
                                 bad[ref[r]] \cup {"init", "validate", "test"}]
      <3>1. bad[ref[r]] \cup {"init", "validate", "test"} \in SUBSET Gates
        BY <1>2 DEF Gates
      <3>2. faults' \in 0 .. MaxFaults
        BY <1>2, <2>3, ReleaseAssumption
      <3>3. Move(r, "gates", bad[ref[r]] \cup {"init", "validate", "test"}, left[r])
        BY <1>1, <1>2, <2>1, <2>3, <3>1, <3>2 DEF Move
      <3> QED
        BY <1>2, <1>3, <3>1, <3>3, MoveInv
    <2> QED
      BY <1>5, <2>2, <2>3 DEF Generate
  <1> QED
    BY <1>4, <1>5

LEMMA MoveOnInv ==
    ASSUME Inv, NEW r \in Runs, FailGates(r) \/ Package(r)
    PROVE  Inv'
  <1> DEFINE step == IF pc[r] = "gates"
                     THEN IF failing[r] # {} THEN "red" ELSE "package"
                     ELSE "attach"
  <1>1. /\ pc[r] \in {"gates", "package"} /\ Goto(r, step)
        /\ UNCHANGED <<repoType, named, bad, published, assets, ref, task, failing, left, displaced, faults>>
    BY DEF FailGates, Package
  <1>2. /\ step \in Active \cup {"red"} /\ step \notin {"gates", "uploading"}
        /\ Running(r) /\ pc[r] \in Active /\ pc[r] # "uploading"
    BY <1>1 DEF Active, Running
  <1>3. repoType = "framework" /\ step # "red" => bad[ref[r]] = {}
    BY <1>1 DEF Inv, Passed
  <1>4. /\ failing[r] \in SUBSET Gates /\ failing' = [failing EXCEPT ![r] = failing[r]]
        /\ left[r] \in SUBSET Names /\ left' = [left EXCEPT ![r] = left[r]]
        /\ faults' \in 0 .. MaxFaults
    BY <1>1 DEF Inv, TypeOK
  <1>5. Move(r, step, failing[r], left[r])
    BY <1>1, <1>2, <1>3, <1>4 DEF Move
  <1> HIDE DEF step
  <1> QED
    BY <1>2, <1>4, <1>5, MoveInv

LEMMA ReleasePleaseInv == ASSUME Inv, NEW r \in Runs, ReleasePlease(r) PROVE Inv'
  <1>1. /\ pc[r] = "releasing" /\ pc[r] \in Active /\ Running(r) /\ Goto(r, "released")
        /\ UNCHANGED <<repoType, named, bad, published, assets, ref, task, failing, left,
                       displaced, faults>>
    BY DEF ReleasePlease, Active, Running
  <1>2. /\ failing[r] \in SUBSET Gates /\ failing' = [failing EXCEPT ![r] = failing[r]]
        /\ left[r] \in SUBSET Names /\ left' = [left EXCEPT ![r] = left[r]]
        /\ faults' \in 0 .. MaxFaults
    BY <1>1 DEF Inv, TypeOK
  <1>3. Move(r, "released", failing[r], left[r])
    BY <1>1, <1>2 DEF Move, Active
  <1> QED
    BY <1>2, <1>3, MoveInv

LEMMA AttachInv == ASSUME Inv, NEW r \in Runs, Attach(r) PROVE Inv'
  <1>1. /\ pc[r] = "attach" /\ pc[r] \in Active /\ Running(r)
        /\ UNCHANGED <<repoType, named, bad, published, assets, ref, task, failing, displaced, faults>>
    BY DEF Attach, Active, Running
  <1>2. repoType = "framework" => bad[ref[r]] = {}
    BY <1>1 DEF Inv, Passed
  <1>3. /\ failing[r] \in SUBSET Gates /\ failing' = [failing EXCEPT ![r] = failing[r]]
        /\ left[r] \in SUBSET Names /\ Names \in SUBSET Names
        /\ faults' \in 0 .. MaxFaults
    BY <1>1 DEF Inv, TypeOK
  <1>4. "uploading" \in Active
    BY DEF Active
  <1>5. CASE TagOf(ref[r]) \in published /\ assets[TagOf(ref[r])] = {}
    <2>1. Goto(r, "uploading") /\ left' = [left EXCEPT ![r] = Names]
      BY <1>5 DEF Attach
    <2>2. Move(r, "uploading", failing[r], Names)
      BY <1>1, <1>2, <1>3, <1>5, <2>1 DEF Move
    <2> QED
      BY <1>3, <1>4, <2>2, MoveInv
  <1>6. CASE ~(TagOf(ref[r]) \in published /\ assets[TagOf(ref[r])] = {})
    <2>1. Goto(r, "red") /\ UNCHANGED left
      BY <1>6 DEF Attach
    <2>2. left' = [left EXCEPT ![r] = left[r]]
      BY <2>1 DEF Inv, TypeOK
    <2>3. Move(r, "red", failing[r], left[r])
      BY <1>1, <1>3, <2>1, <2>2 DEF Move, Active
    <2> QED
      BY <1>3, <2>3, MoveInv
  <1> QED
    BY <1>5, <1>6

LEMMA BreakInv == ASSUME Inv, NEW r \in Runs, Break(r) PROVE Inv'
  <1>1. /\ Running(r) /\ pc[r] \in Active /\ Goto(r, "red")
        /\ faults < MaxFaults /\ faults' = faults + 1
        /\ UNCHANGED <<repoType, named, bad, published, assets, ref, task, failing, left, displaced>>
    BY DEF Break, Running
  <1>2. faults' \in 0 .. MaxFaults
    BY <1>1, ReleaseAssumption DEF Inv, TypeOK
  <1>3. /\ failing[r] \in SUBSET Gates /\ failing' = [failing EXCEPT ![r] = failing[r]]
        /\ left[r] \in SUBSET Names /\ left' = [left EXCEPT ![r] = left[r]]
    BY <1>1 DEF Inv, TypeOK
  <1>4. Move(r, "red", failing[r], left[r])
    BY <1>1, <1>2, <1>3 DEF Move, Active
  <1> QED
    BY <1>3, <1>4, MoveInv

-----------------------------------------------------------------------------
(* The upload.                                                             *)

\* A refused file ends the run.  Otherwise the release had no file of the run's ref
\* but the run's own, so it still has none, and when none is left it has them all.
LEMMA UploadInv == ASSUME Inv, NEW r \in Runs, Upload(r) PROVE Inv'
  <1> DEFINE rf == ref[r]
             t == TagOf(rf)
  <1>1. PICK n \in left[r] :
           IF \E a \in assets[t] : a.name = n
           THEN Goto(r, "red") /\ UNCHANGED <<assets, left>>
           ELSE /\ assets' = [assets EXCEPT ![t] =
                                @ \cup {[name |-> n, run |-> r, sha |-> rf]}]
                /\ left' = [left EXCEPT ![r] = @ \ {n}]
                /\ IF left[r] = {n} THEN Goto(r, "green") ELSE UNCHANGED pc
    BY DEF Upload
  <1>2. /\ pc[r] = "uploading"
        /\ repoType' = repoType /\ named' = named /\ bad' = bad /\ published' = published
        /\ ref' = ref /\ task' = task /\ failing' = failing /\ displaced' = displaced
        /\ faults' = faults
    BY DEF Upload
  <1>3. /\ TypeOK /\ t \in published /\ t \in Tags /\ rf \in Refs /\ n \in Names
        /\ \A a \in assets[t] : a.sha = rf => a.run = r
        /\ Files(r, t) = Names \ left[r]
        /\ left[r] \in SUBSET Names
    BY <1>2 DEF Inv, Uploads, TypeOK
  <1>4. CASE \E a \in assets[t] : a.name = n
    <2>1. Goto(r, "red") /\ assets' = assets /\ left' = left
      BY <1>1, <1>4
    <2>2. /\ failing[r] \in SUBSET Gates /\ failing' = [failing EXCEPT ![r] = failing[r]]
          /\ left' = [left EXCEPT ![r] = left[r]] /\ faults' \in 0 .. MaxFaults
      BY <1>2, <1>3, <2>1 DEF TypeOK
    <2>3. Move(r, "red", failing[r], left[r])
      BY <1>2, <2>1, <2>2 DEF Move, Active
    <2> QED
      BY <1>3, <2>2, <2>3, MoveInv
  <1>5. CASE ~(\E a \in assets[t] : a.name = n)
    <2> DEFINE f == [name |-> n, run |-> r, sha |-> rf]
               step == IF left[r] = {n} THEN "green" ELSE "uploading"
    <2>0. /\ assets' = [assets EXCEPT ![t] = @ \cup {f}]
          /\ left' = [left EXCEPT ![r] = @ \ {n}]
          /\ IF left[r] = {n} THEN Goto(r, "green") ELSE UNCHANGED pc
      BY <1>1, <1>5
    <2>4. /\ assets'[t] = assets[t] \cup {f}
          /\ \A u \in Tags : u # t => assets'[u] = assets[u]
          /\ left'[r] = left[r] \ {n} /\ \A x \in Runs : x # r => left'[x] = left[x]
          /\ left' \in [Runs -> SUBSET Names]
      BY <1>3, <2>0 DEF TypeOK
    <2>5. /\ pc' = [pc EXCEPT ![r] = step] /\ step \in {"green", "uploading"}
          /\ pc'[r] = step /\ \A x \in Runs : x # r => pc'[x] = pc[x]
      BY <1>2, <1>3, <2>0 DEF TypeOK, Goto
    <2>6. /\ f.name = n /\ f.run = r /\ f.sha = rf
          /\ f \in [name : Names, run : Runs, sha : Refs]
      BY <1>3
    <2>7. assets' \in [Tags -> SUBSET [name : Names, run : Runs, sha : Refs]]
      BY <1>3, <2>0, <2>6 DEF TypeOK
    <2> HIDE DEF f
    <2>8. \A x \in Runs, u \in Tags : Files(x, u)' = IF x = r /\ u = t
                                                  THEN Files(x, u) \cup {n} ELSE Files(x, u)
      <3> SUFFICES ASSUME NEW x \in Runs, NEW u \in Tags
                   PROVE  Files(x, u)' = IF x = r /\ u = t
                                         THEN Files(x, u) \cup {n} ELSE Files(x, u)
        OBVIOUS
      <3>1. CASE u # t
        BY <2>4, <3>1 DEF Files
      <3>2. CASE u = t /\ x # r
        <4>1. {b \in assets'[u] : b.run = x} = {b \in assets[u] : b.run = x}
          BY <2>4, <2>6, <3>2
        <4> QED
          BY <3>2, <4>1 DEF Files
      <3>3. CASE u = t /\ x = r
        <4>1. {b \in assets'[u] : b.run = x} = {b \in assets[u] : b.run = x} \cup {f}
          BY <2>4, <2>6, <3>3
        <4> QED
          BY <2>6, <3>3, <4>1 DEF Files
      <3> QED
        BY <3>1, <3>2, <3>3
    <2>9. TypeOK'
      <3>1. \A u \in Tags : assets'[u] # {} => u \in published
        BY <1>3, <2>4 DEF TypeOK
      <3>2. pc' \in [Runs -> Active \cup Ended \cup {"none", "pending"}]
        BY <1>3, <2>5 DEF TypeOK, Active, Ended
      <3> QED
        BY <1>2, <1>3, <2>4, <2>7, <3>1, <3>2 DEF TypeOK
    <2>10. Mutex'
      BY <1>2, <2>5 DEF Inv, Mutex, Running, Active
    <2>11. Passed'
      BY <1>2, <2>5 DEF Inv, Passed
    <2>12. Owned'
      <3> SUFFICES ASSUME NEW u \in Tags, NEW a \in assets'[u]
                   PROVE  /\ ref[a.run] = a.sha /\ TagOf(a.sha) = u
                          /\ pc'[a.run] \in {"uploading", "green", "red"}
                          /\ repoType = "framework" => bad[a.sha] = {}
        BY <1>2 DEF Owned, TagOf
      <3>1. CASE a \in assets[u]
        <4>1. a.run \in Runs
          BY <1>3, <3>1 DEF TypeOK
        <4> QED
          BY <2>5, <3>1, <4>1 DEF Inv, Owned
      <3>2. CASE u = t /\ a = f
        BY <1>2, <2>5, <2>6, <3>2 DEF Inv, Passed
      <3> QED
        BY <2>4, <3>1, <3>2
    <2>13. Uploads'
      <3> SUFFICES ASSUME NEW x \in Runs, pc'[x] = "uploading"
                   PROVE  /\ TagOf(ref[x]) \in published /\ left'[x] # {}
                          /\ \A a \in assets'[TagOf(ref[x])] : a.sha = ref[x] => a.run = x
                          /\ Files(x, TagOf(ref[x]))' = Names \ left'[x]
        BY <1>2 DEF Uploads, TagOf, Files
      <3>1. CASE x # r
        <4>1. pc[x] = "uploading" /\ TagOf(ref[x]) \in Tags
          BY <1>3, <2>5, <3>1 DEF Inv, Uploads, TypeOK
        <4>2. ref[x] # rf
          BY <1>2, <3>1, <4>1 DEF Inv, Mutex, Running, Active
        <4>3. left'[x] = left[x] /\ Files(x, TagOf(ref[x]))' = Files(x, TagOf(ref[x]))
          BY <1>2, <2>4, <2>8, <3>1, <4>1 DEF TagOf, Files
        <4>4. \A a \in assets'[TagOf(ref[x])] : a.sha = ref[x] => a \in assets[TagOf(ref[x])]
          BY <2>4, <2>6, <4>1, <4>2
        <4> QED
          BY <4>1, <4>3, <4>4 DEF Inv, Uploads
      <3>2. CASE x = r
        <4>1. left'[r] # {}
          BY <2>4, <2>5, <3>2
        <4>2. Files(r, t)' = Names \ left'[r]
          <5>1. Files(r, t)' = Files(r, t) \cup {n}
            BY <1>2, <1>3, <2>8 DEF TagOf, Files
          <5> QED
            BY <1>3, <2>4, <5>1
        <4> QED
          BY <1>2, <1>3, <2>4, <2>6, <3>2, <4>1, <4>2 DEF Files, TagOf
      <3> QED
        BY <3>1, <3>2
    <2>14. OneRun'
      <3> SUFFICES ASSUME NEW u \in Tags, NEW a \in assets'[u], NEW b \in assets'[u],
                          a.sha = b.sha
                   PROVE  a.run = b.run
        BY DEF OneRun
      <3>1. CASE a.sha = rf /\ u = t
        BY <1>3, <2>4, <2>6, <3>1
      <3>2. CASE ~(a.sha = rf /\ u = t)
        BY <2>4, <2>6, <3>2 DEF Inv, OneRun
      <3> QED
        BY <3>1, <3>2
    <2>15. GreenMeansAttached'
      <3> SUFFICES ASSUME NEW x \in Runs, pc'[x] = "green"
                   PROVE  TagOf(ref[x]) \in Tags /\ Files(x, TagOf(ref[x]))' = Names
        BY <1>2 DEF GreenMeansAttached, TagOf, Files
      <3>1. CASE x # r
        <4>1. TagOf(ref[x]) \in Tags /\ Files(x, TagOf(ref[x])) = Names
          BY <2>5, <3>1 DEF Inv, GreenMeansAttached
        <4>2. Files(x, TagOf(ref[x]))' = Files(x, TagOf(ref[x]))
          BY <1>2, <2>8, <3>1, <4>1 DEF Files, TagOf
        <4> QED
          BY <4>1, <4>2
      <3>2. CASE x = r
        <4>1. left[r] = {n}
          BY <2>5, <3>2
        <4>2. Files(r, t)' = Names
          <5>1. Files(r, t)' = Files(r, t) \cup {n}
            BY <1>2, <1>3, <2>8 DEF TagOf, Files
          <5> QED
            BY <1>3, <4>1, <5>1
        <4> QED
          BY <1>2, <1>3, <3>2, <4>2 DEF Files, TagOf
      <3> QED
        BY <3>1, <3>2
    <2> QED
      BY <2>9, <2>10, <2>11, <2>12, <2>13, <2>14, <2>15 DEF Inv
  <1> QED
    BY <1>4, <1>5

-----------------------------------------------------------------------------
(* The theorems.                                                           *)

LEMMA InvHolds == Spec => []Inv
  <1>1. Inv /\ UNCHANGED vars => Inv'
    <2> SUFFICES ASSUME Inv, UNCHANGED vars PROVE Inv'
      OBVIOUS
    <2>1. /\ repoType' = repoType /\ named' = named /\ bad' = bad /\ published' = published
          /\ assets' = assets /\ pc' = pc /\ ref' = ref /\ failing' = failing
          /\ left' = left /\ faults' = faults /\ task' = task /\ displaced' = displaced
      BY DEF vars
    <2>2. TypeOK' /\ Mutex' /\ Passed' /\ Owned'
      BY <2>1 DEF Inv, TypeOK, Mutex, Passed, Owned, Running, TagOf
    <2>3. Uploads' /\ OneRun' /\ GreenMeansAttached'
      BY <2>1 DEF Inv, Uploads, OneRun, GreenMeansAttached, Files, TagOf
    <2> QED
      BY <2>2, <2>3 DEF Inv
  <1>2. Inv /\ [Next]_vars => Inv'
    BY <1>1, PublishInv, DispatchInv, StartInv, ReleasePleaseInv, GenerateInv, MoveOnInv, AttachInv,
       UploadInv, BreakInv DEF Next, Work, Quiet
  <1> QED
    BY InitInv, <1>2, PTL DEF Spec

\* Every state of the release runs is well typed, and only published releases
\* have files.
THEOREM ReleaseTypeCorrect == Spec => []TypeOK
  <1>1. Inv => TypeOK
    BY DEF Inv
  <1> QED
    BY InvHolds, <1>1, PTL

\* What is attached to a framework's release proves that the commit it was generated
\* from passes every gate; that commit is the release's own, or the head of a branch
\* with the tag's name.
THEOREM EvidenceProvesHolds == Spec => []EvidenceProves
  <1>1. Inv => EvidenceProves
    BY DEF Inv, TypeOK, Owned, EvidenceProves, TagOf, Refs
  <1> QED
    BY InvHolds, <1>1, PTL

\* The files of a release from one ref come from one run, whatever broke off before.
THEOREM OneRunHolds == Spec => []OneRun
  <1>1. Inv => OneRun
    BY DEF Inv
  <1> QED
    BY InvHolds, <1>1, PTL

\* A green run has attached both of its files.
THEOREM GreenMeansAttachedHolds == Spec => []GreenMeansAttached
  <1>1. Inv => GreenMeansAttached
    BY DEF Inv
  <1> QED
    BY InvHolds, <1>1, PTL
=============================================================================
