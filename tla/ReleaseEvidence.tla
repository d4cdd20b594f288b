---------------------------- MODULE ReleaseEvidence ----------------------------
(***************************************************************************)
(* release.yaml and reusable-release-evidence.yaml: the workflow runs that *)
(* generate the evidence of a release and attach it.                       *)
(*                                                                         *)
(* Runs of one full ref share a concurrency group, whatever their task:    *)
(* one runs, one is pending, and a newer run cancels the pending one.  The *)
(* files go to the release of the ref's short name, which a branch may     *)
(* share with a tag.  gh release upload refuses when the release already   *)
(* has a file of the same name, and is not atomic over its two files.      *)
(***************************************************************************)
EXTENDS Naturals, FiniteSets

CONSTANTS
    Tags,       \* release tags
    Branches,   \* branches; as a full ref, a tag or a branch also stands for its commit
    NoTag,      \* the short name of a branch that no tag has
    Runs,       \* slots for workflow runs
    RepoTypes,  \* what callers pass as repo_type
    GateFaults, \* which sets of gates a commit may fail
    MaxFaults   \* bound: broken steps, cancelled jobs, lost dispatches

Gates == {"fmt", "init", "validate", "test", "docs"}
Names == {"bundle", "sbom"}
Known == {"framework", "runner", "template"}     \* what Validate repo type lets through
Tasks == {"release-evidence", "release-please"}
Refs == Tags \cup Branches      \* github.ref

ASSUME ReleaseAssumption ==
    /\ Tags \cap Branches = {} /\ NoTag \notin Tags
    /\ Branches # {}
    /\ GateFaults \subseteq SUBSET Gates
    /\ MaxFaults \in Nat

VARIABLES
    repoType,   \* input repo_type
    named,      \* the tag that each branch has its short name in common with, or NoTag
    bad,        \* the gates that each commit fails
    published,  \* tags with a published release
    assets,     \* evidence files attached to each release
    pc,         \* where each run is
    ref,        \* github.ref of each run, also the commit it checks out
    task,       \* what each run is to do
    failing,    \* gates recorded as failed by each run
    left,       \* files that each run has still to upload
    displaced,  \* tags whose pending evidence run another task has cancelled
    faults

vars == <<repoType, named, bad, published, assets, pc, ref, task, failing, left, displaced, faults>>

Active == {"generate", "gates", "package", "attach", "uploading", "releasing"}
Ended == {"green", "red", "cancelled", "released"}
Running(r) == pc[r] \in Active

TypeOK ==
    /\ repoType \in RepoTypes
    /\ named \in [Branches -> Tags \cup {NoTag}]
    /\ bad \in [Refs -> GateFaults]
    /\ published \subseteq Tags
    /\ assets \in [Tags -> SUBSET [name : Names, run : Runs, sha : Refs]]
    /\ \A t \in Tags : assets[t] # {} => t \in published
    /\ pc \in [Runs -> Active \cup Ended \cup {"none", "pending"}]
    /\ ref \in [Runs -> Refs]
    /\ task \in [Runs -> Tasks]
    /\ failing \in [Runs -> SUBSET Gates]
    /\ left \in [Runs -> SUBSET Names]
    /\ displaced \subseteq Tags
    /\ faults \in 0 .. MaxFaults

Init ==
    /\ repoType \in RepoTypes
    /\ named \in [Branches -> Tags \cup {NoTag}]
    /\ bad \in [Refs -> GateFaults]
    /\ published = {}
    /\ assets = [t \in Tags |-> {}]
    /\ pc = [r \in Runs |-> "none"]
    /\ ref = [r \in Runs |-> CHOOSE b \in Branches : TRUE]
    /\ task = [r \in Runs |-> "release-evidence"]
    /\ failing = [r \in Runs |-> {}]
    /\ left = [r \in Runs |-> {}]
    /\ displaced = {}
    /\ faults = 0

-----------------------------------------------------------------------------
(* Events that queue a run.                                                *)

\* A slot is used again once nothing of its last run is left.
Free(r) ==
    \/ pc[r] = "none"
    \/ pc[r] \in Ended /\ \A t \in Tags : \A a \in assets[t] : a.run # r

\* Mutant: one concurrency group for all releases.
Group_One(rf) == NoTag

\* concurrency.group
Group(rf) == rf

\* TAG: the tag of the release event, or github.ref_name.
TagOf(rf) == IF rf \in Tags THEN rf ELSE named[rf]

Waiting(rf) == {x \in Runs : pc[x] = "pending" /\ Group(ref[x]) = Group(rf)}

\* A run of rf becomes pending and cancels the run that was pending.
Queue(r, rf, tk) ==
    /\ Free(r)
    /\ pc' = [x \in Runs |-> IF x = r THEN "pending"
                            ELSE IF x \in Waiting(rf) THEN "cancelled" ELSE pc[x]]
    /\ ref' = [ref EXCEPT ![r] = rf]
    /\ task' = [task EXCEPT ![r] = tk]
    /\ failing' = [failing EXCEPT ![r] = {}]
    /\ left' = [left EXCEPT ![r] = {}]
    /\ displaced' = displaced \cup
         {t \in Tags : tk = "release-please"
                        /\ \E x \in Waiting(rf) : task[x] = "release-evidence" /\ ref[x] = t}

\* A release is published: by a person (on: release), or by release-please,
\* which dispatches the evidence task on the tag and may die before it does.
Publish(t) ==
    /\ t \notin published
    /\ published' = published \cup {t}
    /\ \/ /\ \E r \in Runs : Queue(r, t, "release-evidence")
          /\ UNCHANGED faults
       \/ /\ faults < MaxFaults /\ faults' = faults + 1
          /\ UNCHANGED <<pc, ref, task, failing, left, displaced>>
    /\ UNCHANGED <<repoType, named, bad, assets>>

\* workflow_dispatch of either task, on any branch or tag.
Dispatch(rf) ==
    /\ \E r \in Runs, tk \in Tasks : Queue(r, rf, tk)
    /\ UNCHANGED <<repoType, named, bad, published, assets, faults>>

-----------------------------------------------------------------------------
(* The job.                                                                *)

Goto(r, step) == pc' = [pc EXCEPT ![r] = step]

\* The group is free.  An evidence run checks out the ref and validates the
\* repository type.
Start(r) ==
    /\ pc[r] = "pending"
    /\ \A x \in Runs : Running(x) => Group(ref[x]) # Group(ref[r])
    /\ Goto(r, IF task[r] = "release-please" THEN "releasing"
               ELSE IF repoType \in Known THEN "generate" ELSE "red")
    /\ UNCHANGED <<repoType, named, bad, published, assets, ref, task, failing, left, displaced, faults>>

\* The release-please job is done, without evidence.
ReleasePlease(r) ==
    /\ pc[r] = "releasing"
    /\ Goto(r, "released")
    /\ UNCHANGED <<repoType, named, bad, published, assets, ref, task, failing, left, displaced, faults>>

\* Every gate runs and is recorded, whatever the ones before it gave.  A
\* provider download that fails takes validate and test with it.
Generate(r) ==
    /\ pc[r] = "generate"
    /\ IF repoType # "framework"
       THEN Goto(r, "package") /\ UNCHANGED <<failing, faults>>
       ELSE /\ Goto(r, "gates")
            /\ \/ /\ failing' = [failing EXCEPT ![r] = bad[ref[r]]]
                  /\ UNCHANGED faults
               \/ /\ faults < MaxFaults /\ faults' = faults + 1
                  /\ failing' = [failing EXCEPT ![r] =
                                    bad[ref[r]] \cup {"init", "validate", "test"}]
    /\ UNCHANGED <<repoType, named, bad, published, assets, ref, task, left, displaced>>

\* Mutant: failed gates are only summarised.
FailGates_Advisory(r) ==
    /\ pc[r] = "gates"
    /\ Goto(r, "package")
    /\ UNCHANGED <<repoType, named, bad, published, assets, ref, task, failing, left, displaced, faults>>

FailGates(r) ==
    /\ pc[r] = "gates"
    /\ Goto(r, IF failing[r] # {} THEN "red" ELSE "package")
    /\ UNCHANGED <<repoType, named, bad, published, assets, ref, task, failing, left, displaced, faults>>

\* Bundle, SBOM, attestations and the workflow artifact.
Package(r) ==
    /\ pc[r] = "package"
    /\ Goto(r, "attach")
    /\ UNCHANGED <<repoType, named, bad, published, assets, ref, task, failing, left, displaced, faults>>

\* Mutant: only the bundle's own name is looked for.
Attach_BundleOnly(r) ==
    /\ pc[r] = "attach"
    /\ IF TagOf(ref[r]) \in published /\ \A a \in assets[TagOf(ref[r])] : a.name # "bundle"
       THEN Goto(r, "uploading") /\ left' = [left EXCEPT ![r] = Names]
       ELSE Goto(r, "red") /\ UNCHANGED left
    /\ UNCHANGED <<repoType, named, bad, published, assets, ref, task, failing, displaced, faults>>

\* Mutant: a refused upload passes for an earlier success.
Attach_RefusedGreen(r) ==
    /\ pc[r] = "attach"
    /\ IF TagOf(ref[r]) \in published /\ assets[TagOf(ref[r])] = {}
       THEN Goto(r, "uploading") /\ left' = [left EXCEPT ![r] = Names]
       ELSE Goto(r, "green") /\ UNCHANGED left
    /\ UNCHANGED <<repoType, named, bad, published, assets, ref, task, failing, displaced, faults>>

\* gh release upload: the release must exist and have neither of the files.
Attach(r) ==
    /\ pc[r] = "attach"
    /\ IF TagOf(ref[r]) \in published /\ assets[TagOf(ref[r])] = {}
       THEN Goto(r, "uploading") /\ left' = [left EXCEPT ![r] = Names]
       ELSE Goto(r, "red") /\ UNCHANGED left
    /\ UNCHANGED <<repoType, named, bad, published, assets, ref, task, failing, displaced, faults>>

\* The files are uploaded one by one, in either order.  A file that the release
\* has got meanwhile is refused.
Upload(r) ==
    /\ pc[r] = "uploading"
    /\ \E n \in left[r] :
         IF \E a \in assets[TagOf(ref[r])] : a.name = n
         THEN Goto(r, "red") /\ UNCHANGED <<assets, left>>
         ELSE /\ assets' = [assets EXCEPT ![TagOf(ref[r])] =
                              @ \cup {[name |-> n, run |-> r, sha |-> ref[r]]}]
              /\ left' = [left EXCEPT ![r] = @ \ {n}]
              /\ IF left[r] = {n} THEN Goto(r, "green") ELSE UNCHANGED pc
    /\ UNCHANGED <<repoType, named, bad, published, ref, task, failing, displaced, faults>>

\* A step breaks, or the job is cancelled or times out.
Break(r) ==
    /\ Running(r)
    /\ faults < MaxFaults /\ faults' = faults + 1
    /\ Goto(r, "red")
    /\ UNCHANGED <<repoType, named, bad, published, assets, ref, task, failing, left, displaced>>

Work(r) ==
    ReleasePlease(r) \/ Generate(r) \/ FailGates(r) \/ Package(r) \/ Attach(r) \/ Upload(r)

\* Nothing happens for a while.
Quiet == (\A r \in Runs : pc[r] \in Ended \cup {"none"}) /\ UNCHANGED vars

Next ==
    \/ \E t \in Tags : Publish(t)
    \/ \E rf \in Refs : Dispatch(rf)
    \/ \E r \in Runs : Start(r) \/ Work(r) \/ Break(r)
    \/ Quiet

Spec == Init /\ [][Next]_vars

\* A job is carried through, and a group that is idle starts its pending run.
FairSpec ==
    /\ Spec
    /\ \A r \in Runs : WF_vars(Work(r))
    /\ \A rf \in Refs : WF_vars(\E r \in Runs : ref[r] = rf /\ Start(r))

-----------------------------------------------------------------------------
(* Properties.                                                             *)

\* What is attached to a release proves, in a framework, that the commit it was
\* generated from passes every gate; and that is the release's own commit, unless
\* the task was dispatched on a branch with the tag's name
\* (reusable-release-evidence.yaml:246-255, 296).
EvidenceProves ==
    \A t \in Tags : \A a \in assets[t] :
        /\ repoType = "framework" => bad[a.sha] = {}
        /\ a.sha = t \/ (a.sha \in Branches /\ named[a.sha] = t)

\* Files of a release that were generated from the same ref come from one run, so a
\* bundle and an SBOM of the tag's own commit describe each other, even when an
\* earlier run broke off between the two.
OneRun ==
    \A t \in Tags : \A a, b \in assets[t] : a.sha = b.sha => a.run = b.run

Files(r, t) == {a.name : a \in {b \in assets[t] : b.run = r}}

\* An evidence run that ends green has attached both files, its own, to the release
\* of its ref's name.
GreenMeansAttached ==
    \A r \in Runs : pc[r] = "green" =>
        TagOf(ref[r]) \in Tags /\ Files(r, TagOf(ref[r])) = Names

Complete(t) == {a.name : a \in {b \in assets[t] : b.sha = t}} = Names
Taken(t) == \E a \in assets[t] : a.sha # t

\* A published release whose commit passes the gates gets its evidence, although a newer
\* run cancels a pending one (release.yaml:30-32); unless a step breaks, a dispatch is
\* lost, a release-please task on the tag cancels the pending evidence, or a branch of
\* the tag's name has its evidence attached first.
EvidenceUnlessBroken ==
    \A t \in Tags :
        (t \in published /\ bad[t] = {} /\ repoType \in Known)
            ~> (Complete(t) \/ faults > 0 \/ t \in displaced \/ Taken(t))
=============================================================================
