-------------------------- MODULE PrivilegedWorkflows --------------------------
(***************************************************************************)
(* tools/check_privileged_workflows.py: the scan of every workflow that    *)
(* runs on pull_request_target and of the local reusable workflows it      *)
(* calls, directly or through others.                                      *)
(*                                                                         *)
(* scan_workflow is a depth-first search: it does not follow a call to a   *)
(* workflow on its chain of callers and keeps the findings of each scanned *)
(* workflow in a cache that all privileged workflows share.  A workflow    *)
(* cached inside a cycle can therefore lack findings its callers have.     *)
(* The recursion is a stack of frames here, its last element on top.       *)
(***************************************************************************)
EXTENDS Naturals, Sequences, FiniteSets

CONSTANTS
    Workflows,  \* workflow files
    Kinds,      \* the kinds of workflow that occur
    None

ASSUME WorkflowsAssumption ==
    /\ None \notin Workflows
    /\ Kinds \subseteq {"clean", "flagged", "broken"}

VARIABLES
    kind,       \* does the file parse, and do its own steps give findings
    uses,       \* the local reusable workflows the jobs of a file use
    privileged, \* the workflows that pull_request_target triggers
    roots,      \* privileged workflows main() has still to scan
    stack,      \* active calls of scan_workflow
    cache,      \* the findings of each workflow scanned so far
    report,     \* all_findings
    exit        \* exit status of the checker

vars == <<kind, uses, privileged, roots, stack, cache, report, exit>>

\* What one workflow file says: nothing of it is known if it does not parse.
Bad(w) == kind[w] # "clean"
Calls(w) == IF kind[w] = "broken" THEN {} ELSE uses[w]

Findings == [at : Workflows, via : Workflows \cup {None}]

Own(w) == IF Bad(w) THEN {[at |-> w, via |-> None]} ELSE {}

\* Mutant: the caller already noted stays.
Relay_Nearest(fs, w) ==
    {[at |-> f.at, via |-> IF f.via = None THEN w ELSE f.via] : f \in fs}

\* Findings of a used workflow, as the using workflow w lists them.
Relay(fs, w) == {[at |-> f.at, via |-> w] : f \in fs}

Frames == [path : Workflows, todo : SUBSET Workflows, found : SUBSET Findings]

\* A call of scan_workflow that has looked at none of the jobs.
Frame(w) == [path |-> w, todo |-> Calls(w), found |-> {}]

Top == stack[Len(stack)]

\* chain: the callers of the active call, without that call itself.
Chain == {stack[i].path : i \in 1 .. Len(stack) - 1}

TypeOK ==
    /\ kind \in [Workflows -> Kinds]
    /\ uses \in [Workflows -> SUBSET Workflows]
    /\ privileged \subseteq Workflows /\ roots \subseteq privileged
    /\ stack \in Seq(Frames)
    /\ \A i \in 1 .. Len(stack) : stack[i].todo \subseteq Calls(stack[i].path)
    /\ DOMAIN cache \subseteq Workflows
    /\ cache \in [DOMAIN cache -> SUBSET Findings]
    /\ report \subseteq Findings
    /\ exit \in {"none", "clean", "findings"}

Init ==
    /\ kind \in [Workflows -> Kinds]
    /\ uses \in [Workflows -> SUBSET Workflows]
    /\ privileged \in SUBSET {w \in Workflows : kind[w] # "broken"}
    /\ roots = privileged
    /\ stack = <<>>
    /\ cache = [w \in {} |-> {}]
    /\ report = {}
    /\ exit = "none"

-----------------------------------------------------------------------------

\* main() scans the next privileged workflow, or takes it from the cache.
ScanRoot ==
    /\ stack = <<>>
    /\ \E w \in roots :
         /\ roots' = roots \ {w}
         /\ IF w \in DOMAIN cache
            THEN report' = report \cup cache[w] /\ UNCHANGED stack
            ELSE stack' = <<Frame(w)>> /\ UNCHANGED report
    /\ UNCHANGED <<kind, uses, privileged, cache, exit>>

\* The active call looks at a job that uses sub, and what it found becomes fs.
NextJob(sub, fs) ==
    [stack EXCEPT ![Len(stack)] =
        [path |-> Top.path, todo |-> Top.todo \ {sub}, found |-> fs]]

\* Mutant: a workflow scanned before is not reported again.
Job_Seen(sub) ==
    /\ stack # <<>> /\ sub \in Top.todo
    /\ stack' = CASE sub \in Chain \/ sub \in DOMAIN cache -> NextJob(sub, Top.found)
                  [] OTHER -> Append(NextJob(sub, Top.found), Frame(sub))
    /\ UNCHANGED <<kind, uses, privileged, roots, cache, report, exit>>

Job(sub) ==
    /\ stack # <<>> /\ sub \in Top.todo
    /\ stack' = CASE sub \in Chain -> NextJob(sub, Top.found)
                  [] sub \notin Chain /\ sub \in DOMAIN cache ->
                       NextJob(sub, Top.found \cup Relay(cache[sub], Top.path))
                  [] OTHER -> Append(NextJob(sub, Top.found), Frame(sub))
    /\ UNCHANGED <<kind, uses, privileged, roots, cache, report, exit>>

\* Mutant: a call returns the findings of its own file only.
Result_OwnOnly == Own(Top.path)

\* The findings of the active call: of the workflows it uses and its own.
Result == Top.found \cup Own(Top.path)

\* All jobs are done: the findings go to the cache and to the caller.
Return ==
    /\ stack # <<>> /\ Top.todo = {}
    /\ cache' = [w \in DOMAIN cache \cup {Top.path} |->
                 IF w = Top.path THEN Result ELSE cache[w]]
    /\ LET n == Len(stack) - 1
           caller == stack[n]
       IN  IF n = 0
           THEN stack' = <<>> /\ report' = report \cup Result
           ELSE /\ stack' = [SubSeq(stack, 1, n) EXCEPT
                       ![n] = [caller EXCEPT !.found = @ \cup Relay(Result, caller.path)]]
                /\ UNCHANGED report
    /\ UNCHANGED <<kind, uses, privileged, roots, exit>>

\* main() prints the report and exits.
Exit ==
    /\ stack = <<>> /\ roots = {} /\ exit = "none"
    /\ exit' = IF report = {} THEN "clean" ELSE "findings"
    /\ UNCHANGED <<kind, uses, privileged, roots, stack, cache, report>>

Ended == exit # "none" /\ UNCHANGED vars

Next == ScanRoot \/ Return \/ Exit \/ Ended \/ \E sub \in Workflows : Job(sub)

Spec == Init /\ [][Next]_vars

-----------------------------------------------------------------------------
(* Properties.                                                             *)

Closed(S) == \A w \in S : Calls(w) \subseteq S

\* The workflows that those of R call, in any number of steps.
Reach(R) == {w \in Workflows : \A S \in SUBSET Workflows : R \subseteq S /\ Closed(S) => w \in S}

\* The report is of exactly the faulty workflows a privileged one can reach:
\* neither the chain guard nor the shared cache loses one for good.
ReportExact ==
    exit # "none" =>
        {f.at : f \in report} = {w \in Reach(privileged) : Bad(w)}

\* Every finding is of a privileged workflow itself, or is said to be reachable
\* from a privileged workflow that does reach it, never from one in between.
Attributed ==
    \A f \in report :
        IF f.via = None THEN f.at \in privileged
        ELSE f.via \in privileged /\ f.at \in Reach({f.via})

Acyclic == \A w \in Workflows : \A v \in Calls(w) : w \notin Reach({v})

\* When no workflow calls itself through others, each privileged workflow is
\* reported with everything it reaches: the cache is as good as scanning anew.
ExactWhenAcyclic ==
    exit # "none" /\ Acyclic =>
        \A r \in privileged : \A w \in Reach({r}) : Bad(w) =>
            [at |-> w, via |-> IF w = r THEN None ELSE r] \in report
=============================================================================
