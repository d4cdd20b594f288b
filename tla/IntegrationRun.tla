----------------------------- MODULE IntegrationRun -----------------------------
(***************************************************************************)
(* tools/ci/run_integration.py: a Terraform module is put together in a    *)
(* workspace below artifact_root and goes through terraform's gates there. *)
(* A workspace outlives its run, whether that ended or broke off.          *)
(*                                                                         *)
(* Of a file only its place in the workspace matters and its version: the  *)
(* gate that refuses it, or "good".                                        *)
(***************************************************************************)
EXTENDS Naturals

CONSTANTS
    Cases,     \* cases of tools/ci/config.toml
    Absent,    \* sources that the repository does not have
    Slips,     \* the gates whose defects come and go
    MaxEdits

\* Below module_path, where a runner has the framework, and elsewhere.
Inner == {"modules/framework/main.tf", "modules/framework/versions.tf"}
Outer == {"main.tf", "terraform.tfvars", "old.tfstate", ".terraform"}
Files == Inner \cup Outer

Ignored == {"old.tfstate", ".terraform"}

Gates == {"fmt", "init", "validate", "tflint", "plan", "test"}
Sources == {"module", "overlay", "framework", "tfvars"}

\* Of a tree that holds the files of S, all of them good.
Good(S) == [f \in S |-> "good"]

With(t, f, v) == [g \in DOMAIN t \cup {f} |-> IF g = f THEN v ELSE t[g]]
Without(t, f) == [g \in DOMAIN t \ {f} |-> t[g]]

VARIABLES
    role,     \* repo_role
    src,      \* the files of each source, at the place they are copied to
    edits,
    ws,       \* the files in the workspace of each case
    case,     \* of the last invocation
    step,     \* what main() does next
    copied,   \* files of the current source that are in the workspace
    fault,    \* a tool or a copy failed for a reason outside the files, or the
              \* configuration names no such case, source or workspace
    verdict

vars == <<role, src, edits, ws, case, step, copied, fault, verdict>>

SourcesOf(c) ==
    (IF role = "framework" THEN {"module"} ELSE {"overlay", "framework"})
        \cup IF c.tfvars THEN {"tfvars"} ELSE {}

GatesOf(c) == Gates \ IF c.tflint THEN {} ELSE {"tflint"}

\* Mutant: the module is validated before its providers are there.
After_ValidateFirst(c, s) ==
    CASE s = "reset"     -> IF role = "framework" THEN "module" ELSE "overlay"
      [] s = "overlay"   -> "framework"
      [] s \in {"module", "framework"} -> IF c.tfvars THEN "tfvars" ELSE "fmt"
      [] s = "tfvars"    -> "fmt"
      [] s = "fmt"       -> "validate"
      [] s = "validate"  -> "init"
      [] s = "init"      -> IF c.tflint THEN "tflint" ELSE "plan"
      [] s = "tflint"    -> "plan"
      [] s = "plan"      -> "test"
      [] OTHER           -> "end"

\* main: the order in which the workspace is put together and gone over.
After(c, s) ==
    CASE s = "reset"     -> IF role = "framework" THEN "module" ELSE "overlay"
      [] s = "overlay"   -> "framework"
      [] s \in {"module", "framework"} -> IF c.tfvars THEN "tfvars" ELSE "fmt"
      [] s = "tfvars"    -> "fmt"
      [] s = "fmt"       -> "init"
      [] s = "init"      -> "validate"
      [] s = "validate"  -> IF c.tflint THEN "tflint" ELSE "plan"
      [] s = "tflint"    -> "plan"
      [] s = "plan"      -> "test"
      [] OTHER           -> "end"

NeedInit == {"validate", "tflint", "plan", "test"}

\* fmt is recursive, and terraform loads the modules that are called; tflint and
\* test look at the directory they are given.
Looks(g) == IF g \in {"tflint", "test"} THEN Outer ELSE Files

\* Where the files of a source can be.
Room(s) ==
    CASE s = "module"    -> Outer
      [] s = "overlay"   -> {"main.tf", "terraform.tfvars", "modules/framework/main.tf"}
      [] s = "framework" -> Inner
      [] OTHER           -> {"terraform.tfvars"}

Steps == {"none", "reset", "end"} \cup Sources \cup Gates
Versions == {"good"} \cup Slips

TypeOK ==
    /\ role \in {"framework", "runner"}
    /\ DOMAIN src = Sources /\ DOMAIN ws = Cases
    /\ \A s \in Sources : DOMAIN src[s] \subseteq Room(s) /\ src[s] \in [DOMAIN src[s] -> Versions]
    /\ \A c \in Cases : DOMAIN ws[c] \subseteq Files /\ ws[c] \in [DOMAIN ws[c] -> Versions]
    /\ edits \in Nat
    /\ case \in Cases
    /\ step \in Steps
    /\ copied \subseteq Files
    /\ fault \in BOOLEAN
    /\ verdict \in {"none", "running", "green", "red"}
    /\ step = "none" <=> verdict # "running"

Init ==
    /\ role \in {"framework", "runner"}
    /\ src = [s \in Sources |->
                CASE s \in Absent    -> Good({})
                  [] s = "module"    -> Good({"main.tf", "old.tfstate", ".terraform"})
                  [] s = "overlay"   -> Good({"main.tf", "modules/framework/main.tf"})
                  [] s = "framework" -> Good(Inner)
                  [] OTHER           -> Good({"terraform.tfvars"})]
    /\ edits = 0
    /\ ws = [c \in Cases |-> Good({})]
    /\ case \in Cases
    /\ step = "none" /\ copied = {} /\ fault = FALSE /\ verdict = "none"

-----------------------------------------------------------------------------
(* Between invocations.                                                    *)

\* Someone changes, adds or removes a file of a source.
Edit(s, f) ==
    /\ verdict # "running" /\ edits < MaxEdits
    /\ \/ \E v \in Versions : src' = [src EXCEPT ![s] = With(@, f, v)]
       \/ src' = [src EXCEPT ![s] = Without(@, f)]
    /\ edits' = edits + 1 /\ verdict' = "none" /\ fault' = FALSE
    /\ UNCHANGED <<role, ws, case, step, copied>>

-----------------------------------------------------------------------------
(* main                                                                    *)

End(v) == verdict' = v /\ step' = "none" /\ copied' = {}

\* select_case finds the case, or raises.
Invoke(c) ==
    /\ verdict # "running"
    /\ case' = c
    /\ \/ /\ verdict' = "running" /\ fault' = FALSE /\ copied' = {}
          /\ step' = "reset"
       \/ fault' = TRUE /\ End("red")
    /\ UNCHANGED <<role, src, edits, ws>>

Fail == End("red") /\ UNCHANGED <<role, src, edits, ws, case>>

\* Mutant: the workspace of an earlier run is used again.
Reset_Keep ==
    /\ step = "reset"
    /\ step' = After(case, step)
    /\ UNCHANGED <<role, src, edits, ws, case, copied, fault, verdict>>

\* rmtree breaks off, at the first file or (for all that are in between) at the last.
Removed ==
    \/ UNCHANGED ws
    \/ \E f \in DOMAIN ws[case] : ws' = [ws EXCEPT ![case] = [g \in {f} |-> @[g]]]

\* A name that leads out of artifact_root is refused before anything is removed.
Reset ==
    /\ step = "reset"
    /\ \/ /\ case.inside
          /\ ws' = [ws EXCEPT ![case] = Good({})]
          /\ step' = After(case, step)
          /\ UNCHANGED <<role, src, edits, case, copied, fault, verdict>>
       \/ /\ case.inside /\ Removed
          /\ fault' = TRUE /\ End("red")
          /\ UNCHANGED <<role, src, edits, case>>
       \/ ~case.inside /\ fault' = TRUE /\ Fail

\* A directory or file that is not there, as git keeps no empty directories; a
\* framework is known by its versions.tf.
Missing(s) ==
    IF s = "framework" THEN "modules/framework/versions.tf" \notin DOMAIN src[s]
    ELSE DOMAIN src[s] = {}

\* should_ignore_name applies to trees, not to the tfvars file.
ToCopy(s) == IF s = "tfvars" THEN DOMAIN src[s] ELSE DOMAIN src[s] \ Ignored

\* One file, over what an earlier source put in its place.
CopyFile(s, f) ==
    /\ step = s /\ ~Missing(s)
    /\ f \in ToCopy(s) \ copied
    /\ ws' = [ws EXCEPT ![case] = With(@, f, src[s][f])]
    /\ copied' = copied \cup {f}
    /\ UNCHANGED <<role, src, edits, case, step, fault, verdict>>

SourceDone(s) ==
    /\ step = s
    /\ \/ /\ ~Missing(s) /\ ToCopy(s) \subseteq copied
          /\ step' = After(case, step) /\ copied' = {}
          /\ UNCHANGED <<role, src, edits, ws, case, fault, verdict>>
       \/ Missing(s) /\ Fail /\ UNCHANGED fault
       \/ fault' = TRUE /\ Fail

\* Mutant: tests are not among the reasons to stop.
Passes_Untested(g) ==
    /\ g # "test" => g \notin {ws[case][f] : f \in DOMAIN ws[case] \cap Looks(g)}
    /\ g \in NeedInit => ".terraform" \in DOMAIN ws[case]

\* The gate finds nothing in the workspace, and what it needs is there.
Passes(g) ==
    /\ g \notin {ws[case][f] : f \in DOMAIN ws[case] \cap Looks(g)}
    /\ g \in NeedInit => ".terraform" \in DOMAIN ws[case]

\* run(check=True): the first command that fails ends the run.
Gate(g) ==
    /\ step = g
    /\ \/ /\ Passes(g)
          /\ ws' = IF g = "init" THEN [ws EXCEPT ![case] = With(@, ".terraform", "good")] ELSE ws
          /\ step' = After(case, step)
          /\ UNCHANGED <<role, src, edits, case, copied, fault, verdict>>
       \/ ~Passes(g) /\ Fail /\ UNCHANGED fault
       \/ fault' = TRUE /\ Fail

Finish ==
    /\ step = "end"
    /\ End("green") /\ UNCHANGED <<role, src, edits, ws, case, fault>>

\* Ctrl-C, or the end of the job.
Interrupt ==
    /\ verdict = "running"
    /\ End("none") /\ UNCHANGED <<role, src, edits, case, fault>>
    /\ IF step = "reset" /\ case.inside THEN Removed ELSE UNCHANGED ws

Next ==
    \/ \E s \in Sources : \E f \in Room(s) : Edit(s, f)
    \/ \E c \in Cases : Invoke(c)
    \/ Reset \/ Finish \/ Interrupt
    \/ \E s \in Sources : SourceDone(s) \/ \E f \in Files : CopyFile(s, f)
    \/ \E g \in Gates : Gate(g)

Spec == Init /\ [][Next]_vars

-----------------------------------------------------------------------------
(* Properties.                                                             *)

\* The sources of case c that put file f into the workspace.
Offering(c, f) == {s \in SourcesOf(c) : f \in ToCopy(s)}

\* A runner's framework lies over its overlay, the tfvars file over everything.
Final(c, f) ==
    LET S == Offering(c, f)
        s == CASE "tfvars" \in S    -> "tfvars"
               [] "tfvars" \notin S /\ "framework" \in S -> "framework"
               [] OTHER             -> CHOOSE t \in S : TRUE
    IN  src[s][f]

UnderTest == step \in Gates

\* What the gates look at is the checkout as it is and nothing that an earlier run,
\* ended or broken off, has left: each file is there in the version that the case
\* calls for, and no other file is.
AssembledFresh ==
    UnderTest =>
        \A f \in Files \ {".terraform"} :
            /\ f \in DOMAIN ws[case] <=> Offering(case, f) # {}
            /\ f \in DOMAIN ws[case] => ws[case][f] = Final(case, f)

\* A green run means that no gate of the case would refuse a file it looks at.
GreenMeansSound ==
    verdict = "green" =>
        \A g \in GatesOf(case) : \A f \in Looks(g) :
            Offering(case, f) # {} => Final(case, f) # g

\* The sources of the case have a file that some gate refuses.
Faulty == \E s \in SourcesOf(case) : \E f \in DOMAIN src[s] : src[s][f] # "good"

\* A red run has a missing source, a refused file or a failed tool behind it,
\* never what is left of another run or the order of its own steps.
RefusalExplained ==
    verdict = "red" => fault \/ Faulty \/ \E s \in SourcesOf(case) : Missing(s)

\* A framework checkout as it is in the repository, without a faulty file, is not
\* refused by tools that work.
CheckoutAccepted == verdict = "red" /\ role = "framework" /\ edits = 0 => fault
=============================================================================
