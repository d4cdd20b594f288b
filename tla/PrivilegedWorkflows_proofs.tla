----------------------- MODULE PrivilegedWorkflows_proofs -----------------------
(***************************************************************************)
(* Proofs about PrivilegedWorkflows for any set of workflows and any call  *)
(* graph: the report is of exactly the faulty workflows that a privileged  *)
(* one reaches.                                                            *)
(***************************************************************************)
EXTENDS PrivilegedWorkflows, SequenceTheorems, TLAPS

Scanned == DOMAIN cache
Active == {stack[i].path : i \in 1 .. Len(stack)}
At(fs) == {f.at : f \in fs}
Found == UNION {At(stack[i].found) : i \in 1 .. Len(stack)}

\* What a scanned workflow calls is scanned or being scanned; what an active
\* one calls may also be still to look at.
Explored ==
    /\ \A w \in Scanned : Calls(w) \subseteq Scanned \cup Active
    /\ \A i \in 1 .. Len(stack) :
         Calls(stack[i].path) \subseteq Scanned \cup Active \cup stack[i].todo
    /\ privileged \subseteq roots \cup Scanned \cup Active

\* The findings of a scanned workflow are reported, or an active call has them.
Kept == \A w \in Scanned : Bad(w) => w \in At(report) \cup Found

\* Only faulty workflows that a privileged one reaches are found or scanned.
Due == {w \in Reach(privileged) : Bad(w)}

InReach ==
    /\ At(report) \subseteq Due
    /\ \A w \in Scanned : At(cache[w]) \subseteq Due
    /\ \A i \in 1 .. Len(stack) :
         stack[i].path \in Reach(privileged) /\ At(stack[i].found) \subseteq Due

Ending == exit # "none" => stack = <<>> /\ roots = {}

Inv == TypeOK /\ Explored /\ Kept /\ InReach /\ Ending

-----------------------------------------------------------------------------
(* Reachability and findings.                                              *)

LEMMA ReachFacts ==
    ASSUME NEW R \in SUBSET Workflows
    PROVE  /\ Reach(R) \subseteq Workflows
           /\ R \subseteq Reach(R)
           /\ \A w \in Reach(R) : \A v \in Calls(w) \cap Workflows : v \in Reach(R)
           /\ \A S \in SUBSET Workflows : R \subseteq S /\ Closed(S) => Reach(R) \subseteq S
  BY DEF Reach, Closed

LEMMA CallsType == TypeOK => \A w \in Workflows : Calls(w) \subseteq Workflows
  BY DEF TypeOK, Calls

LEMMA RelayFacts ==
    ASSUME NEW fs \in SUBSET Findings, NEW w \in Workflows
    PROVE  Relay(fs, w) \in SUBSET Findings /\ At(Relay(fs, w)) = At(fs)
  <1>1. \A f \in fs : [at |-> f.at, via |-> w] \in Findings
    BY DEF Findings
  <1>2. Relay(fs, w) \in SUBSET Findings
    BY <1>1 DEF Relay
  <1>3. \A f \in fs : [at |-> f.at, via |-> w].at = f.at
    OBVIOUS
  <1>4. At(Relay(fs, w)) = At(fs)
    BY <1>3 DEF Relay, At
  <1> QED
    BY <1>2, <1>4

LEMMA OwnFacts ==
    ASSUME NEW w \in Workflows
    PROVE  /\ Own(w) \in SUBSET Findings
           /\ At(Own(w)) = IF Bad(w) THEN {w} ELSE {}
  <1>1. [at |-> w, via |-> None] \in Findings /\ [at |-> w, via |-> None].at = w
    BY DEF Findings
  <1> QED
    BY <1>1 DEF Own, At

LEMMA AtUnion ==
    ASSUME NEW S, NEW T
    PROVE  At(S \cup T) = At(S) \cup At(T)
  BY DEF At

LEMMA FrameFacts ==
    ASSUME TypeOK, NEW w \in Workflows
    PROVE  /\ Frame(w) \in Frames
           /\ Frame(w).path = w /\ Frame(w).todo = Calls(w) /\ Frame(w).found = {}
  BY CallsType DEF Frame, Frames

LEMMA StackFacts ==
    ASSUME TypeOK
    PROVE  /\ Len(stack) \in Nat
           /\ \A i \in 1 .. Len(stack) :
                /\ stack[i] \in Frames
                /\ stack[i].path \in Workflows
                /\ stack[i].todo \in SUBSET Workflows
                /\ stack[i].found \in SUBSET Findings
           /\ stack # <<>> => Len(stack) \in 1 .. Len(stack)
  <1>1. stack \in Seq(Frames) /\ Len(stack) \in Nat
    BY DEF TypeOK
  <1>2. \A i \in 1 .. Len(stack) : stack[i] \in Frames
    BY <1>1
  <1>3. \A f \in Frames : /\ f.path \in Workflows
                          /\ f.todo \in SUBSET Workflows
                          /\ f.found \in SUBSET Findings
    BY DEF Frames
  <1>4. stack # <<>> => Len(stack) \in 1 .. Len(stack)
    BY <1>1
  <1> QED
    BY <1>1, <1>2, <1>3, <1>4

-----------------------------------------------------------------------------
(* main().                                                                 *)

LEMMA InitInv == Init => Inv
  <1> SUFFICES ASSUME Init PROVE Inv
    OBVIOUS
  <1>1. stack \in Seq(Frames) /\ Len(stack) = 0
    BY DEF Init
  <1>2. DOMAIN cache = {} /\ cache \in [DOMAIN cache -> SUBSET Findings]
    BY DEF Init
  <1>3. TypeOK
    BY <1>1, <1>2 DEF Init, TypeOK
  <1>4. Explored /\ Kept /\ InReach /\ Ending
    BY <1>1, <1>2 DEF Init, Explored, Kept, InReach, Ending, Scanned, At
  <1> QED
    BY <1>3, <1>4 DEF Inv

LEMMA ScanRootInv == Inv /\ ScanRoot => Inv'
  <1> SUFFICES ASSUME Inv, ScanRoot PROVE Inv'
    OBVIOUS
  <1>1. PICK w \in roots :
           /\ roots' = roots \ {w}
           /\ IF w \in DOMAIN cache
              THEN report' = report \cup cache[w] /\ UNCHANGED stack
              ELSE stack' = <<Frame(w)>> /\ UNCHANGED report
    BY DEF ScanRoot
  <1>2. /\ stack = <<>> /\ Len(stack) = 0
        /\ kind' = kind /\ uses' = uses /\ privileged' = privileged
        /\ cache' = cache /\ exit' = exit
    BY DEF ScanRoot
  <1>3. TypeOK /\ w \in Workflows /\ w \in privileged
    BY DEF Inv, TypeOK
  <1>4. exit' = "none"
    BY <1>1, <1>2 DEF Inv, Ending, TypeOK
  <1>5. w \in Reach(privileged)
    BY <1>3, ReachFacts DEF TypeOK
  <1>6. CASE w \in DOMAIN cache
    <2>1. report' = report \cup cache[w] /\ stack' = stack
      BY <1>1, <1>6
    <2>2. cache[w] \subseteq Findings
      BY <1>3, <1>6 DEF TypeOK
    <2>3. TypeOK'
      BY <1>1, <1>2, <2>1, <2>2 DEF Inv, TypeOK, Calls
    <2>4. Explored'
      BY <1>1, <1>2, <1>6, <2>1 DEF Inv, Explored, Scanned, Active, Calls
    <2>5. Kept'
      BY <1>2, <2>1, AtUnion DEF Inv, Kept, Scanned, Found, Bad
    <2>6. InReach'
      BY <1>2, <1>6, <2>1, AtUnion
         DEF Inv, InReach, Scanned, Due, Reach, Closed, Calls, Bad
    <2> QED
      BY <1>4, <2>3, <2>4, <2>5, <2>6 DEF Inv, Ending
  <1>7. CASE w \notin DOMAIN cache
    <2>1. report' = report /\ stack' = <<Frame(w)>> /\ Frame(w) \in Frames
      BY <1>1, <1>3, <1>7, FrameFacts
    <2>2. stack' \in Seq(Frames) /\ Len(stack') = 1 /\ stack'[1] = Frame(w)
      BY <2>1
    <2>3. stack'[1].path = w /\ stack'[1].todo = Calls(w) /\ stack'[1].found = {}
      BY <1>3, <2>2, FrameFacts
    <2>4. TypeOK'
      BY <1>1, <1>2, <2>1, <2>2, <2>3 DEF Inv, TypeOK, Calls
    <2>5. Active' = {w} /\ Active = {}
      BY <1>2, <2>2, <2>3 DEF Active
    <2>6. Explored'
      BY <1>1, <1>2, <2>2, <2>3, <2>5 DEF Inv, Explored, Scanned, Calls
    <2>7. Kept'
      BY <1>2, <2>1 DEF Inv, Kept, Scanned, Found, Bad
    <2>8. InReach'
      BY <1>2, <1>5, <2>1, <2>2, <2>3
         DEF Inv, InReach, Scanned, Due, Reach, Closed, Calls, Bad, At
    <2> QED
      BY <1>4, <2>4, <2>6, <2>7, <2>8 DEF Inv, Ending
  <1> QED
    BY <1>6, <1>7

-----------------------------------------------------------------------------
(* scan_workflow looks at a job.                                           *)

LEMMA NextJobFacts ==
    ASSUME TypeOK, stack # <<>>, NEW sub \in Workflows, NEW fs \in SUBSET Findings,
           NEW s, s = NextJob(sub, fs)
    PROVE  /\ s \in Seq(Frames) /\ Len(s) = Len(stack) /\ Len(s) \in 1 .. Len(s)
           /\ \A i \in 1 .. Len(s) : s[i].path = stack[i].path
           /\ \A i \in 1 .. Len(s) : i # Len(s) => s[i] = stack[i]
           /\ s[Len(s)].todo = Top.todo \ {sub}
           /\ s[Len(s)].found = fs
  <1> DEFINE n == Len(stack)
             f == [path |-> Top.path, todo |-> Top.todo \ {sub}, found |-> fs]
  <1>1. n \in 1 .. n /\ stack[n] \in Frames
    BY StackFacts
  <1>2. f \in Frames /\ f.path = stack[n].path /\ f.todo = Top.todo \ {sub} /\ f.found = fs
    BY <1>1 DEF Frames, Top
  <1>3. s = [stack EXCEPT ![n] = f]
    BY DEF NextJob
  <1> HIDE DEF f
  <1>4. stack \in Seq(Frames)
    BY DEF TypeOK
  <1>5. /\ s \in Seq(Frames) /\ Len(s) = n /\ s[n] = f
        /\ \A i \in 1 .. n : i # n => s[i] = stack[i]
    BY <1>1, <1>2, <1>3, <1>4
  <1> QED
    BY <1>1, <1>2, <1>5 DEF Top

\* A job whose workflow is active or scanned takes no further call.
LEMMA StayInv ==
    ASSUME Inv, stack # <<>>, NEW sub \in Top.todo, sub \in Scanned \cup Active,
           NEW fs \in SUBSET Findings, Top.found \subseteq fs, At(fs) \subseteq Due,
           stack' = NextJob(sub, fs),
           UNCHANGED <<kind, uses, privileged, roots, cache, report, exit>>
    PROVE  Inv'
  <1> DEFINE n == Len(stack)
  <1>1. TypeOK /\ n \in 1 .. n /\ sub \in Workflows
    BY StackFacts DEF Inv, Top
  <1>2. /\ stack' \in Seq(Frames) /\ Len(stack') = n
        /\ \A i \in 1 .. n : stack'[i].path = stack[i].path
        /\ \A i \in 1 .. n : i # n => stack'[i] = stack[i]
        /\ stack'[n].todo = Top.todo \ {sub} /\ stack'[n].found = fs
    BY <1>1, NextJobFacts
  <1>3. /\ kind' = kind /\ uses' = uses /\ privileged' = privileged /\ roots' = roots
        /\ cache' = cache /\ report' = report /\ exit' = exit
    OBVIOUS
  <1>4. TypeOK'
    <2>1. \A i \in 1 .. n : stack'[i].todo \subseteq Calls(stack[i].path)
      BY <1>1, <1>2 DEF TypeOK, Top
    <2> QED
      BY <1>1, <1>2, <1>3, <2>1 DEF TypeOK, Calls
  <1>5. Active' = Active /\ Scanned' = Scanned
    BY <1>2, <1>3 DEF Active, Scanned
  <1>6. Explored'
    <2>1. \A i \in 1 .. n : Calls(stack[i].path)
                              \subseteq Scanned \cup Active \cup stack'[i].todo
      BY <1>1, <1>2 DEF Inv, Explored, Top
    <2> QED
      BY <1>2, <1>3, <1>5, <2>1 DEF Inv, Explored, Calls
  <1>7. Found \subseteq Found'
    <2>1. \A i \in 1 .. n : At(stack[i].found) \subseteq At(stack'[i].found)
      BY <1>1, <1>2 DEF At, Top
    <2> QED
      BY <1>2, <2>1 DEF Found
  <1>8. Kept'
    BY <1>3, <1>7 DEF Inv, Kept, Scanned, Bad, At
  <1>9. Due' = Due /\ Reach(privileged)' = Reach(privileged)
    BY <1>3 DEF Due, Reach, Closed, Calls, Bad
  <1>10. InReach'
    BY <1>1, <1>2, <1>3, <1>9 DEF Inv, InReach, Scanned, At
  <1>11. Ending'
    BY <1>3 DEF Inv, Ending
  <1> QED
    BY <1>4, <1>6, <1>8, <1>10, <1>11 DEF Inv

\* A job whose workflow was not met yet starts a call for it.
LEMMA DescendInv ==
    ASSUME Inv, stack # <<>>, NEW sub \in Top.todo, sub \notin Scanned,
           stack' = Append(NextJob(sub, Top.found), Frame(sub)),
           UNCHANGED <<kind, uses, privileged, roots, cache, report, exit>>
    PROVE  Inv'
  <1> DEFINE n == Len(stack)
             s == NextJob(sub, Top.found)
  <1>1. /\ TypeOK /\ n \in 1 .. n /\ n \in Nat /\ sub \in Workflows
        /\ Top.found \in SUBSET Findings
    BY StackFacts DEF Inv, Top
  <1>2. /\ s \in Seq(Frames) /\ Len(s) = n
        /\ \A i \in 1 .. n : s[i].path = stack[i].path
        /\ \A i \in 1 .. n : i # n => s[i] = stack[i]
        /\ s[n].todo = Top.todo \ {sub} /\ s[n].found = Top.found
    BY <1>1, NextJobFacts
  <1>3. Frame(sub) \in Frames /\ Frame(sub).path = sub /\ Frame(sub).todo = Calls(sub)
          /\ Frame(sub).found = {}
    BY <1>1, FrameFacts
  <1> HIDE DEF s
  <1>4. /\ stack' \in Seq(Frames) /\ Len(stack') = n + 1
        /\ \A i \in 1 .. n : stack'[i] = s[i]
        /\ stack'[n + 1] = Frame(sub)
    BY <1>1, <1>2, <1>3 DEF s
  <1>5. \A i \in 1 .. n + 1 : i \in 1 .. n \/ i = n + 1
    BY <1>1
  <1>6. /\ \A i \in 1 .. n : /\ stack'[i].path = stack[i].path
                             /\ stack'[i].found = stack[i].found
                             /\ stack'[i].todo \subseteq stack[i].todo
                             /\ stack[i].todo \subseteq stack'[i].todo \cup {sub}
        /\ stack'[n + 1].path = sub /\ stack'[n + 1].todo = Calls(sub)
        /\ stack'[n + 1].found = {}
    BY <1>2, <1>3, <1>4 DEF Top
  <1>7. /\ kind' = kind /\ uses' = uses /\ privileged' = privileged /\ roots' = roots
        /\ cache' = cache /\ report' = report /\ exit' = exit
    OBVIOUS
  <1>8. TypeOK'
    <2>1. \A i \in 1 .. n + 1 : stack'[i].todo \subseteq Calls(stack'[i].path)
      BY <1>1, <1>5, <1>6 DEF TypeOK
    <2> QED
      BY <1>1, <1>4, <1>7, <2>1 DEF TypeOK, Calls
  <1>9. Active' = Active \cup {sub} /\ Scanned' = Scanned
    BY <1>1, <1>4, <1>5, <1>6, <1>7 DEF Active, Scanned
  <1>10. Explored'
    <2>1. \A i \in 1 .. n + 1 : Calls(stack'[i].path)
                                  \subseteq Scanned \cup Active \cup {sub} \cup stack'[i].todo
      BY <1>1, <1>5, <1>6 DEF Inv, Explored
    <2>2. Len(stack') = n + 1
      BY <1>4
    <2>3. \A i \in 1 .. Len(stack') : Calls(stack'[i].path)
                                  \subseteq Scanned' \cup Active' \cup stack'[i].todo
      BY <1>9, <2>1, <2>2
    <2>4. \A w \in Scanned' : Calls(w) \subseteq Scanned' \cup Active'
      BY <1>9 DEF Inv, Explored
    <2>5. privileged' \subseteq roots' \cup Scanned' \cup Active'
      BY <1>7, <1>9 DEF Inv, Explored
    <2> QED
      BY <1>7, <2>3, <2>4, <2>5 DEF Explored, Calls
  <1>11. Found \subseteq Found'
    BY <1>1, <1>4, <1>6 DEF Found, At
  <1>12. Kept'
    BY <1>7, <1>11 DEF Inv, Kept, Scanned, Bad, At
  <1>13. Due' = Due /\ Reach(privileged)' = Reach(privileged)
    BY <1>7 DEF Due, Reach, Closed, Calls, Bad
  <1>14. sub \in Reach(privileged)
    <2>1. stack[n].path \in Reach(privileged)
      BY <1>1 DEF Inv, InReach
    <2>2. sub \in Calls(stack[n].path) \cap Workflows
      BY <1>1 DEF TypeOK, Top
    <2>3. privileged \in SUBSET Workflows
      BY <1>1 DEF TypeOK
    <2> QED
      BY <2>1, <2>2, <2>3, ReachFacts
  <1>15. InReach'
    BY <1>1, <1>4, <1>5, <1>6, <1>7, <1>13, <1>14 DEF Inv, InReach, Scanned, At
  <1>16. Ending'
    BY <1>1, <1>7 DEF Inv, Ending
  <1> QED
    BY <1>8, <1>10, <1>12, <1>15, <1>16 DEF Inv

LEMMA JobInv == ASSUME Inv, NEW sub \in Workflows, Job(sub) PROVE Inv'
  <1>1. /\ TypeOK /\ stack # <<>> /\ sub \in Top.todo /\ Top.path \in Workflows
        /\ Top.found \in SUBSET Findings /\ At(Top.found) \subseteq Due
        /\ UNCHANGED <<kind, uses, privileged, roots, cache, report, exit>>
    BY StackFacts DEF Job, Inv, InReach, Top
  <1>2. CASE sub \in Chain
    <2>1. stack' = NextJob(sub, Top.found)
      BY <1>2 DEF Job
    <2>2. sub \in Active
      BY <1>1, <1>2, StackFacts DEF Chain, Active
    <2> QED
      BY <1>1, <2>1, <2>2, StayInv
  <1>3. CASE sub \notin Chain /\ sub \in DOMAIN cache
    <2> DEFINE fs == Top.found \cup Relay(cache[sub], Top.path)
    <2>1. stack' = NextJob(sub, fs)
      BY <1>3 DEF Job
    <2>2. cache[sub] \in SUBSET Findings
      BY <1>1, <1>3 DEF TypeOK
    <2>5. /\ Relay(cache[sub], Top.path) \in SUBSET Findings
          /\ At(Relay(cache[sub], Top.path)) = At(cache[sub])
      BY <1>1, <2>2, RelayFacts
    <2>6. At(cache[sub]) \subseteq Due
      BY <1>3 DEF Inv, InReach, Scanned
    <2>7. At(fs) = At(Top.found) \cup At(Relay(cache[sub], Top.path))
      BY AtUnion
    <2>3. fs \in SUBSET Findings /\ At(fs) \subseteq Due
      BY <1>1, <2>5, <2>6, <2>7
    <2> HIDE DEF fs
    <2>4. Top.found \subseteq fs
      BY DEF fs
    <2> QED
      BY <1>1, <1>3, <2>1, <2>3, <2>4, StayInv DEF Scanned
  <1>4. CASE sub \notin Chain /\ sub \notin DOMAIN cache
    <2>1. stack' = Append(NextJob(sub, Top.found), Frame(sub))
      BY <1>4 DEF Job
    <2> QED
      BY <1>1, <1>4, <2>1, DescendInv DEF Scanned
  <1> QED
    BY <1>2, <1>3, <1>4

-----------------------------------------------------------------------------
(* scan_workflow returns.                                                  *)

LEMMA InRange == \A k \in Nat : k # 0 => k \in 1 .. k /\ 1 \in 1 .. k
  OBVIOUS

\* The stack and the report after a return.
LEMMA ReturnFacts ==
    ASSUME TypeOK, Return, NEW n \in Nat, n = Len(stack) - 1
    PROVE  /\ stack' \in Seq(Frames) /\ Len(stack') = n
           /\ \A i \in 1 .. n : stack'[i].path = stack[i].path /\ stack'[i].todo = stack[i].todo
           /\ \A i \in 1 .. n : i # n => stack'[i].found = stack[i].found
           /\ n # 0 => /\ stack'[n].found = stack[n].found \cup Relay(Result, stack[n].path)
                       /\ report' = report
           /\ n = 0 => report' = report \cup Result
  <1> DEFINE below == SubSeq(stack, 1, n)
             g == [stack[n] EXCEPT !.found = @ \cup Relay(Result, stack[n].path)]
  <1>1. /\ stack \in Seq(Frames) /\ Len(stack) \in Nat /\ n + 1 = Len(stack)
        /\ Top.path \in Workflows /\ Top.found \in SUBSET Findings
    BY StackFacts DEF TypeOK, Top, Return
  <1>2. CASE n = 0
    <2>1. stack' = <<>> /\ report' = report \cup Result
      BY <1>2 DEF Return
    <2>2. <<>> \in Seq(Frames) /\ Len(<<>>) = 0
      OBVIOUS
    <2>3. \A i \in 1 .. n : FALSE
      <3> SUFFICES ASSUME NEW i \in 1 .. 0 PROVE FALSE
        BY <1>2
      <3> QED
        OBVIOUS
    <2> QED
      BY <1>2, <2>1, <2>2, <2>3
  <1>3. CASE n # 0
    <2>1. stack' = [below EXCEPT ![n] = g] /\ report' = report
      BY <1>3 DEF Return
    <2>2. n \in 1 .. Len(stack) /\ 1 <= n
      BY <1>1, <1>3
    <2>3. stack[n] \in Frames /\ stack[n].path \in Workflows /\ stack[n].found \in SUBSET Findings
      BY <2>2, StackFacts
    <2>4. Result \in SUBSET Findings
      BY <1>1, OwnFacts DEF Result
    <2>5. Relay(Result, stack[n].path) \in SUBSET Findings
      BY <2>3, <2>4, RelayFacts
    <2>6. /\ g \in Frames /\ g.path = stack[n].path /\ g.todo = stack[n].todo
          /\ g.found = stack[n].found \cup Relay(Result, stack[n].path)
      BY <2>3, <2>5 DEF Frames
    <2>7. below \in Seq(Frames) /\ Len(below) = n /\ \A i \in 1 .. n : below[i] = stack[i]
      <3>1. /\ stack \in Seq(Frames) /\ 1 \in 1 .. Len(stack) + 1
            /\ n \in 1 - 1 .. Len(stack)
        BY <1>1, <2>2
      <3>2. /\ below \in Seq(Frames)
            /\ Len(below) = IF 1 <= n THEN n - 1 + 1 ELSE 0
            /\ \A i \in 1 .. n - 1 + 1 : below[i] = stack[1 + i - 1]
        BY <3>1, SubSeqProperties
      <3> QED
        BY <2>2, <3>2
    <2> HIDE DEF g, below
    <2>8. /\ stack' \in Seq(Frames) /\ Len(stack') = n /\ stack'[n] = g
          /\ \A i \in 1 .. n : i # n => stack'[i] = stack[i]
      BY <2>1, <2>2, <2>6, <2>7
    <2> QED
      BY <1>3, <2>1, <2>6, <2>8
  <1> QED
    BY <1>2, <1>3

\* The scanned workflow moves from the active to the scanned ones; its findings
\* move to its caller or to the report.
LEMMA ReturnInv == Inv /\ Return => Inv'
  <1> SUFFICES ASSUME Inv, Return PROVE Inv'
    OBVIOUS
  <1> DEFINE m == Len(stack)
             n == Len(stack) - 1
             p == Top.path
  <1>1. /\ TypeOK /\ m \in 1 .. m /\ m \in Nat /\ n \in Nat /\ p \in Workflows
        /\ p = stack[m].path /\ Top = stack[m] /\ Top.todo = {}
        /\ Top.found \in SUBSET Findings /\ stack # <<>>
    BY StackFacts DEF Return, Inv, Top
  <1>2. /\ kind' = kind /\ uses' = uses /\ privileged' = privileged /\ roots' = roots
        /\ exit' = exit
    BY DEF Return
  <1>3. /\ Scanned' = Scanned \cup {p}
        /\ cache' = [w \in Scanned \cup {p} |-> IF w = p THEN Result ELSE cache[w]]
    BY DEF Return, Scanned
  <1>4. Result \in SUBSET Findings
    BY <1>1, OwnFacts DEF Result
  <1>5. At(Result) = At(Top.found) \cup (IF Bad(p) THEN {p} ELSE {})
    <2>1. At(Result) = At(Top.found) \cup At(Own(p))
      BY AtUnion DEF Result
    <2> QED
      BY <1>1, <2>1, OwnFacts
  <1>6. Due' = Due /\ Reach(privileged)' = Reach(privileged)
    BY <1>2 DEF Due, Reach, Closed, Calls, Bad
  <1>7. At(Result) \subseteq Due
    <2>1. p \in Reach(privileged) /\ At(Top.found) \subseteq Due
      BY <1>1 DEF Inv, InReach
    <2> QED
      BY <1>5, <2>1 DEF Due
  <1>8. cache' \in [Scanned' -> SUBSET Findings] /\ Scanned' \subseteq Workflows
    BY <1>1, <1>3, <1>4 DEF TypeOK, Scanned
  <1>9. \A w \in Scanned' : At(cache'[w]) \subseteq Due
    BY <1>3, <1>7 DEF Inv, InReach
  \* What the caller's frame, or the report, is afterwards.
  <1>10. /\ stack' \in Seq(Frames) /\ Len(stack') = n
         /\ \A i \in 1 .. n : /\ stack'[i].path = stack[i].path
                              /\ stack'[i].todo = stack[i].todo
                              /\ At(stack[i].found) \subseteq At(stack'[i].found)
                              /\ At(stack'[i].found) \subseteq At(stack[i].found) \cup At(Result)
         /\ n # 0 => At(Result) \subseteq At(stack'[n].found) /\ report' = report
         /\ n = 0 => report' = report \cup Result
    <2>1. \A i \in 1 .. n : i \in 1 .. m /\ stack[i].path \in Workflows
      BY <1>1, StackFacts
    <2>2. /\ stack' \in Seq(Frames) /\ Len(stack') = n
          /\ \A i \in 1 .. n : stack'[i].path = stack[i].path /\ stack'[i].todo = stack[i].todo
          /\ \A i \in 1 .. n : i # n => stack'[i].found = stack[i].found
          /\ n # 0 => /\ stack'[n].found = stack[n].found \cup Relay(Result, stack[n].path)
                      /\ report' = report
          /\ n = 0 => report' = report \cup Result
      BY <1>1, ReturnFacts
    <2>3. n # 0 => At(stack'[n].found) = At(stack[n].found) \cup At(Result)
      <3> SUFFICES ASSUME n # 0 PROVE At(stack'[n].found) = At(stack[n].found) \cup At(Result)
        OBVIOUS
      <3>1. n \in 1 .. n
        BY <1>1, InRange
      <3> HIDE DEF n
      <3>2. At(Relay(Result, stack[n].path)) = At(Result)
        BY <1>4, <2>1, <3>1, RelayFacts
      <3> QED
        BY <2>2, <3>2, AtUnion
    <2> HIDE DEF n
    <2> QED
      BY <2>2, <2>3
  <1>11. \A i \in 1 .. m : i \in 1 .. n \/ i = m
    BY <1>1
  <1>12. Active' \cup {p} = Active
    <2>1. Active' = {stack[i].path : i \in 1 .. n}
      BY <1>1, <1>10 DEF Active
    <2>2. Active = {stack[i].path : i \in 1 .. n} \cup {stack[m].path}
      BY <1>1, <1>11 DEF Active
    <2> QED
      BY <1>1, <2>1, <2>2
  <1>13. report' \subseteq Findings
    BY <1>1, <1>4, <1>10 DEF TypeOK
  <1>14. TypeOK'
    <2>1. \A i \in 1 .. n : stack'[i].todo \subseteq Calls(stack'[i].path)
      BY <1>1, <1>10 DEF TypeOK
    <2>2. \A i \in 1 .. Len(stack') : (stack[i].todo \subseteq Calls(stack[i].path))'
      BY <1>2, <1>10, <2>1 DEF Calls
    <2>3. DOMAIN cache' \subseteq Workflows /\ cache' \in [DOMAIN cache' -> SUBSET Findings]
      BY <1>8 DEF Scanned
    <2> QED
      BY <1>1, <1>2, <1>10, <1>13, <2>2, <2>3 DEF TypeOK
  <1>15. Explored'
    <2>1. Scanned' \cup Active' = Scanned \cup Active
      BY <1>3, <1>12
    <2>2. \A w \in Scanned' : Calls(w) \subseteq Scanned' \cup Active'
      BY <1>1, <1>3, <2>1 DEF Inv, Explored
    <2>3. \A i \in 1 .. Len(stack') :
            Calls(stack'[i].path) \subseteq Scanned' \cup Active' \cup stack'[i].todo
      BY <1>1, <1>10, <2>1 DEF Inv, Explored
    <2>4. privileged' \subseteq roots' \cup Scanned' \cup Active'
      BY <1>2, <2>1 DEF Inv, Explored
    <2> QED
      BY <1>2, <2>2, <2>3, <2>4 DEF Explored, Calls
  <1>16. At(report) \cup Found \cup At(Result) \subseteq At(report') \cup Found'
    <2>1. At(report) \subseteq At(report') /\ (n = 0 => At(Result) \subseteq At(report'))
      BY <1>1, <1>10, AtUnion
    <2>2. n # 0 => At(Result) \subseteq Found'
      BY <1>1, <1>10 DEF Found
    <2>3. \A i \in 1 .. n : At(stack[i].found) \subseteq Found'
      BY <1>10 DEF Found
    <2>4. At(stack[m].found) \subseteq At(Result)
      BY <1>1, <1>5
    <2>5. Found \subseteq Found' \cup At(Result)
      BY <1>11, <2>3, <2>4 DEF Found
    <2> QED
      BY <2>1, <2>2, <2>5
  <1>17. Kept'
    <2>1. \A w \in Scanned' : Bad(w) => w \in At(report) \cup Found \cup At(Result)
      BY <1>3, <1>5 DEF Inv, Kept
    <2> QED
      BY <1>2, <1>16, <2>1 DEF Kept, Bad, At
  <1>18. InReach'
    <2>1. At(report') \subseteq Due
      BY <1>1, <1>7, <1>10, AtUnion DEF Inv, InReach
    <2>2. \A i \in 1 .. Len(stack') :
            stack'[i].path \in Reach(privileged) /\ At(stack'[i].found) \subseteq Due
      BY <1>1, <1>7, <1>10 DEF Inv, InReach
    <2> QED
      BY <1>6, <1>9, <2>1, <2>2 DEF InReach, At
  <1>19. Ending'
    BY <1>1, <1>2 DEF Inv, Ending
  <1> QED
    BY <1>14, <1>15, <1>17, <1>18, <1>19 DEF Inv

-----------------------------------------------------------------------------
(* Whose findings are reported as whose.                                   *)

\* The call graph, which no step changes.
Reached == [w \in Workflows |-> Reach({w})]
Called == [w \in Workflows |-> Calls(w)]
Faulty == {w \in Workflows : Bad(w)}
NoCycle == \A w \in Workflows : \A v \in Called[w] : w \notin Reached[v]

\* Findings that a call for w collects from others, and those it returns.
Relayed(fs, w) == \A f \in fs : f.via = w /\ f.at \in Reached[w]
Listed(fs, w) ==
    \A f \in fs : IF f.via = None THEN f.at = w ELSE f.via = w /\ f.at \in Reached[w]

\* What a call for w should return, and what it should have of a workflow v it calls.
Wanted(w) == {[at |-> x, via |-> IF x = w THEN None ELSE w] : x \in Reached[w] \cap Faulty}
Share(v, w) == {[at |-> x, via |-> w] : x \in Reached[v] \cap Faulty}

\* The stack is a path from a privileged workflow.
Nested ==
    /\ \A i, j \in 1 .. Len(stack) : i <= j => stack[j].path \in Reached[stack[i].path]
    /\ stack # <<>> => stack[1].path \in privileged

Said ==
    /\ \A w \in Scanned : Listed(cache[w], w)
    /\ \A i \in 1 .. Len(stack) : Relayed(stack[i].found, stack[i].path)
    /\ \A f \in report : \E r \in privileged : Listed({f}, r)

\* A scanned workflow has all its findings, an active call those of the workflows
\* it is done with, and the report those of each privileged workflow.
Told ==
    /\ \A w \in Scanned : Wanted(w) \subseteq cache[w]
    /\ \A i \in 1 .. Len(stack) : \A v \in Called[stack[i].path] \ stack[i].todo :
         \/ i < Len(stack) /\ v = stack[i + 1].path
         \/ Share(v, stack[i].path) \subseteq stack[i].found
    /\ \A r \in privileged \ roots :
         \/ stack # <<>> /\ r = stack[1].path
         \/ Wanted(r) \subseteq report

AttrInv == Nested /\ Said /\ (NoCycle => Told)

LEMMA GraphKept ==
    ASSUME kind' = kind, uses' = uses
    PROVE  Reached' = Reached /\ Called' = Called /\ Faulty' = Faulty /\ NoCycle' = NoCycle
  <1>1. Reached' = Reached
    BY DEF Reached, Reach, Closed, Calls
  <1>2. Called' = Called /\ Faulty' = Faulty
    BY DEF Called, Faulty, Calls, Bad
  <1> QED
    BY <1>1, <1>2 DEF NoCycle

LEMMA GraphFacts ==
    ASSUME TypeOK
    PROVE  /\ Called \in [Workflows -> SUBSET Workflows]
           /\ Reached \in [Workflows -> SUBSET Workflows]
           /\ \A w \in Workflows : w \in Reached[w] /\ Called[w] \subseteq Reached[w]
           /\ \A w \in Workflows : \A v \in Reached[w] : Reached[v] \subseteq Reached[w]
           /\ \A w \in Workflows : \A x \in Reached[w] :
                x = w \/ \E v \in Called[w] : x \in Reached[v]
  <1>1. Called \in [Workflows -> SUBSET Workflows] /\ \A w \in Workflows : Called[w] = Calls(w)
    BY CallsType DEF Called
  <1>2. \A w \in Workflows : Reached[w] = Reach({w})
    BY DEF Reached
  <1>3. ASSUME NEW w \in Workflows
        PROVE  /\ Reach({w}) \subseteq Workflows /\ w \in Reach({w})
               /\ \A x \in Reach({w}) : Calls(x) \subseteq Reach({w})
               /\ \A S \in SUBSET Workflows : w \in S /\ Closed(S) => Reach({w}) \subseteq S
    <2>1. {w} \in SUBSET Workflows
      OBVIOUS
    <2>2. /\ Reach({w}) \subseteq Workflows
          /\ {w} \subseteq Reach({w})
          /\ \A x \in Reach({w}) : \A v \in Calls(x) \cap Workflows : v \in Reach({w})
          /\ \A S \in SUBSET Workflows : {w} \subseteq S /\ Closed(S) => Reach({w}) \subseteq S
      BY <2>1, ReachFacts
    <2> QED
      BY <1>1, <2>2
  <1>4. Reached \in [Workflows -> SUBSET Workflows]
    BY <1>3 DEF Reached
  <1>5. ASSUME NEW w \in Workflows
        PROVE  /\ Reached[w] \subseteq Workflows /\ w \in Reached[w]
               /\ Called[w] \subseteq Reached[w] /\ Closed(Reached[w])
               /\ \A S \in SUBSET Workflows : w \in S /\ Closed(S) => Reached[w] \subseteq S
    <2>1. Reached[w] = Reach({w}) /\ Called[w] = Calls(w)
      BY <1>1, <1>2
    <2> QED
      BY <1>3, <2>1 DEF Closed
  <1>6. ASSUME NEW w \in Workflows, NEW v \in Reached[w] PROVE Reached[v] \subseteq Reached[w]
    <2>1. v \in Workflows /\ Reached[w] \in SUBSET Workflows
      BY <1>5, <1>6
    <2>2. Closed(Reached[w]) /\ v \in Reached[w]
      BY <1>5, <1>6
    <2> QED
      BY <1>5, <2>1, <2>2
  <1>7. ASSUME NEW w \in Workflows, NEW x \in Reached[w]
        PROVE  x = w \/ \E v \in Called[w] : x \in Reached[v]
    <2> DEFINE S == {w} \cup UNION {Reached[v] : v \in Called[w]}
    <2>1. Called[w] \subseteq Workflows /\ \A v \in Called[w] : Reached[v] \subseteq Workflows
      BY <1>1, <1>5
    <2>2. S \in SUBSET Workflows
      BY <2>1
    <2>3. Closed(S)
      <3> SUFFICES ASSUME NEW y \in S, NEW z \in Calls(y) PROVE z \in S
        BY DEF Closed
      <3>1. CASE y = w
        <4>1. z \in Called[w] /\ z \in Workflows
          BY <1>1, <2>1, <3>1
        <4>2. z \in Reached[z]
          BY <1>5, <4>1
        <4> QED
          BY <4>1, <4>2
      <3>2. ASSUME NEW v \in Called[w], y \in Reached[v] PROVE z \in S
        <4>1. v \in Workflows
          BY <2>1
        <4>2. Closed(Reached[v])
          BY <1>5, <4>1
        <4>3. z \in Reached[v]
          BY <3>2, <4>2 DEF Closed
        <4> QED
          BY <4>3
      <3> QED
        BY <3>1, <3>2
    <2>4. x \in S
      <3> HIDE DEF S
      <3>1. w \in S
        BY DEF S
      <3>2. Reached[w] \subseteq S
        BY <1>5, <2>2, <2>3, <3>1
      <3> QED
        BY <1>7, <3>2
    <2> QED
      BY <2>4
  <1> QED
    BY <1>1, <1>4, <1>5, <1>6, <1>7

\* A caller relays what the called workflow returned.
LEMMA RelayListed ==
    ASSUME TypeOK, NEW w \in Workflows, NEW v \in Reached[w], NEW fs, Listed(fs, v)
    PROVE  Relayed(Relay(fs, w), w)
  <1>1. v \in Workflows /\ v \in Reached[v]
    BY GraphFacts
  <1>2. ASSUME NEW f \in fs PROVE f.at \in Reached[w]
    BY <1>1, <1>2, GraphFacts DEF Listed
  <1> QED
    BY <1>2 DEF Relayed, Relay

LEMMA RelayWanted ==
    ASSUME NEW w, NEW v, NEW fs, Wanted(v) \subseteq fs
    PROVE  Share(v, w) \subseteq Relay(fs, w)
  <1> SUFFICES ASSUME NEW x \in Reached[v] \cap Faulty PROVE [at |-> x, via |-> w] \in Relay(fs, w)
    BY DEF Share
  <1> DEFINE f == [at |-> x, via |-> IF x = v THEN None ELSE v]
  <1>1. f \in fs /\ f.at = x
    BY DEF Wanted
  <1> QED
    BY <1>1 DEF Relay

\* What a call returns.
LEMMA ResultListed ==
    ASSUME TypeOK, Top.path \in Workflows, Relayed(Top.found, Top.path)
    PROVE  Listed(Result, Top.path)
  <1>1. \A f \in Own(Top.path) : f.via = None /\ f.at = Top.path
    BY DEF Own
  <1>2. Top.path # None
    BY WorkflowsAssumption
  <1> QED
    BY <1>1, <1>2 DEF Listed, Relayed, Result

LEMMA ResultWanted ==
    ASSUME TypeOK, NoCycle, Top.path \in Workflows,
           \A v \in Called[Top.path] : Share(v, Top.path) \subseteq Top.found
    PROVE  Wanted(Top.path) \subseteq Result
  <1> DEFINE p == Top.path
  <1>1. ASSUME NEW x \in Reached[p] \cap Faulty
        PROVE  [at |-> x, via |-> IF x = p THEN None ELSE p] \in Result
    <2>1. CASE x = p
      BY <1>1, <2>1 DEF Result, Own, Faulty
    <2>2. CASE x # p
      <3>1. PICK v \in Called[p] : x \in Reached[v]
        BY <1>1, <2>2, GraphFacts
      <3>2. [at |-> x, via |-> p] \in Share(v, p)
        BY <1>1, <3>1 DEF Share
      <3> QED
        BY <2>2, <3>1, <3>2 DEF Result
    <2> QED
      BY <2>1, <2>2
  <1> QED
    BY <1>1 DEF Wanted

\* The steps.  No step changes the call graph, and only a return adds to the cache.
LEMMA AttrUnmoved ==
    ASSUME AttrInv, kind' = kind, uses' = uses, privileged' = privileged, roots' = roots,
           stack' = stack, cache' = cache, report' = report
    PROVE  AttrInv'
  <1>1. Reached' = Reached /\ Called' = Called /\ Faulty' = Faulty /\ NoCycle' = NoCycle
    BY GraphKept
  <1>2. Nested' /\ Said'
    BY <1>1 DEF AttrInv, Nested, Said, Scanned, Listed, Relayed
  <1>3. Told => Told'
    BY <1>1 DEF Told, Scanned, Wanted, Share
  <1> QED
    BY <1>1, <1>2, <1>3 DEF AttrInv

LEMMA AttrRoot == ASSUME Inv, AttrInv, ScanRoot PROVE AttrInv'
  <1>1. PICK w \in roots :
           /\ roots' = roots \ {w}
           /\ IF w \in DOMAIN cache
              THEN report' = report \cup cache[w] /\ UNCHANGED stack
              ELSE stack' = <<Frame(w)>> /\ UNCHANGED report
    BY DEF ScanRoot
  <1>2. /\ stack = <<>> /\ Len(stack) = 0
        /\ kind' = kind /\ uses' = uses /\ privileged' = privileged /\ cache' = cache
    BY DEF ScanRoot
  <1>3. TypeOK /\ w \in Workflows /\ w \in privileged
    BY DEF Inv, TypeOK
  <1>4. Reached' = Reached /\ Called' = Called /\ Faulty' = Faulty /\ NoCycle' = NoCycle
    BY <1>2, GraphKept
  <1>5. CASE w \in DOMAIN cache
    <2>1. report' = report \cup cache[w] /\ stack' = stack
      BY <1>1, <1>5
    <2>2. Nested'
      BY <1>2, <1>4, <2>1 DEF AttrInv, Nested
    <2>3. Said'
      <3>1. \A f \in cache[w] : Listed({f}, w)
        BY <1>5 DEF AttrInv, Said, Scanned, Listed
      <3>2. \A f \in report' : \E r \in privileged : Listed({f}, r)
        BY <1>3, <2>1, <3>1 DEF AttrInv, Said
      <3> QED
        BY <1>2, <1>4, <2>1, <3>2 DEF AttrInv, Said, Scanned, Listed, Relayed
    <2>4. NoCycle => Told'
      <3> SUFFICES ASSUME Told PROVE Told'
        BY DEF AttrInv
      <3>1. Wanted(w) \subseteq report'
        BY <1>5, <2>1 DEF Told, Scanned
      <3>2. \A r \in privileged \ roots' : Wanted(r) \subseteq report'
        BY <1>1, <1>2, <2>1, <3>1 DEF Told
      <3> QED
        BY <1>2, <1>4, <2>1, <3>2 DEF Told, Scanned, Wanted, Share
    <2> QED
      BY <1>4, <2>2, <2>3, <2>4 DEF AttrInv
  <1>6. CASE w \notin DOMAIN cache
    <2>1. report' = report /\ stack' = <<Frame(w)>>
      BY <1>1, <1>6
    <2>2. Len(stack') = 1 /\ stack'[1] = Frame(w)
      BY <2>1
    <2>3. stack'[1].path = w /\ stack'[1].todo = Calls(w) /\ stack'[1].found = {}
      BY <1>3, <2>2, FrameFacts
    <2>4. w \in Reached[w] /\ Called[w] = Calls(w)
      BY <1>3, GraphFacts DEF Called
    <2>5. \A i \in 1 .. Len(stack') : i = 1
      BY <2>2
    <2>6. Nested'
      BY <1>2, <1>3, <1>4, <2>3, <2>4, <2>5 DEF Nested
    <2>7. Said'
      BY <1>2, <1>4, <2>1, <2>3, <2>5 DEF AttrInv, Said, Scanned, Listed, Relayed
    <2>8. NoCycle => Told'
      <3> SUFFICES ASSUME Told PROVE Told'
        BY DEF AttrInv
      <3>1. stack' # <<>>
        BY <2>1
      <3>2. \A r \in privileged \ roots' : r = w \/ Wanted(r) \subseteq report
        BY <1>1, <1>2 DEF Told
      <3>3. \A i \in 1 .. Len(stack') : Called[stack'[i].path] \ stack'[i].todo = {}
        BY <2>3, <2>4, <2>5
      <3> QED
        BY <1>2, <1>4, <2>1, <2>3, <3>1, <3>2, <3>3 DEF Told, Scanned, Wanted, Share
    <2> QED
      BY <1>4, <2>6, <2>7, <2>8 DEF AttrInv
  <1> QED
    BY <1>5, <1>6

\* A job whose workflow is scanned, or on the chain of callers.
LEMMA AttrStay ==
    ASSUME Inv, AttrInv, stack # <<>>, NEW sub \in Top.todo, NEW fs \in SUBSET Findings,
           stack' = NextJob(sub, fs), Top.found \subseteq fs, Relayed(fs, Top.path),
           NoCycle => Share(sub, Top.path) \subseteq fs,
           UNCHANGED <<kind, uses, privileged, roots, cache, report>>
    PROVE  AttrInv'
  <1> DEFINE n == Len(stack)
  <1>1. TypeOK /\ n \in 1 .. n /\ n \in Nat /\ sub \in Workflows
    BY StackFacts DEF Inv, Top
  <1>2. /\ Len(stack') = n
        /\ \A i \in 1 .. n : stack'[i].path = stack[i].path
        /\ \A i \in 1 .. n : i # n => stack'[i] = stack[i]
        /\ stack'[n].todo = Top.todo \ {sub} /\ stack'[n].found = fs
    BY <1>1, NextJobFacts
  <1>3. /\ kind' = kind /\ uses' = uses /\ privileged' = privileged /\ roots' = roots
        /\ cache' = cache /\ report' = report
    OBVIOUS
  <1>4. Reached' = Reached /\ Called' = Called /\ Faulty' = Faulty /\ NoCycle' = NoCycle
    BY <1>3, GraphKept
  <1>5. Nested'
    BY <1>1, <1>2, <1>3, <1>4 DEF AttrInv, Nested
  <1>6. Said'
    <2>1. \A i \in 1 .. n : Relayed(stack'[i].found, stack[i].path)
      BY <1>1, <1>2 DEF AttrInv, Said, Top
    <2> QED
      BY <1>2, <1>3, <1>4, <2>1 DEF AttrInv, Said, Scanned, Listed, Relayed
  <1>7. NoCycle => Told'
    <2> SUFFICES ASSUME NoCycle, Told PROVE Told'
      BY DEF AttrInv
    <2>1. stack' # <<>> /\ stack'[1].path = stack[1].path
      BY <1>1, <1>2
    <2>2. ASSUME NEW i \in 1 .. n, NEW v \in Called[stack[i].path] \ stack'[i].todo
          PROVE  \/ i < n /\ v = stack[i + 1].path
                 \/ Share(v, stack[i].path) \subseteq stack'[i].found
      BY <1>1, <1>2, <2>2 DEF Told, Top
    <2>3. \A i \in 1 .. n : i < n => stack'[i + 1].path = stack[i + 1].path
      BY <1>1, <1>2
    <2> QED
      BY <1>2, <1>3, <1>4, <2>1, <2>2, <2>3 DEF Told, Scanned, Wanted, Share
  <1> QED
    BY <1>4, <1>5, <1>6, <1>7 DEF AttrInv

\* A job whose workflow is not scanned yet.
LEMMA AttrDescend ==
    ASSUME Inv, AttrInv, stack # <<>>, NEW sub \in Top.todo,
           stack' = Append(NextJob(sub, Top.found), Frame(sub)),
           UNCHANGED <<kind, uses, privileged, roots, cache, report>>
    PROVE  AttrInv'
  <1> DEFINE n == Len(stack)
             s == NextJob(sub, Top.found)
  <1>1. /\ TypeOK /\ n \in 1 .. n /\ n \in Nat /\ sub \in Workflows
        /\ Top.found \in SUBSET Findings /\ Top.path \in Workflows
        /\ \A i \in 1 .. n : stack[i].path \in Workflows
    BY StackFacts DEF Inv, Top
  <1>2. /\ s \in Seq(Frames) /\ Len(s) = n
        /\ \A i \in 1 .. n : s[i].path = stack[i].path
        /\ \A i \in 1 .. n : i # n => s[i] = stack[i]
        /\ s[n].todo = Top.todo \ {sub} /\ s[n].found = Top.found
    BY <1>1, NextJobFacts
  <1>3. Frame(sub) \in Frames /\ Frame(sub).path = sub /\ Frame(sub).todo = Calls(sub)
          /\ Frame(sub).found = {}
    BY <1>1, FrameFacts
  <1> HIDE DEF s
  <1>4. /\ Len(stack') = n + 1 /\ stack'[n + 1] = Frame(sub)
        /\ \A i \in 1 .. n : stack'[i] = s[i]
    BY <1>1, <1>2, <1>3 DEF s
  <1>5. \A i \in 1 .. n + 1 : i \in 1 .. n \/ i = n + 1
    BY <1>1
  <1>6. /\ \A i \in 1 .. n : stack'[i].path = stack[i].path /\ stack'[i].found = stack[i].found
        /\ \A i \in 1 .. n : i # n => stack'[i].todo = stack[i].todo
        /\ stack'[n].todo = stack[n].todo \ {sub}
        /\ stack'[n + 1].path = sub /\ stack'[n + 1].todo = Calls(sub)
        /\ stack'[n + 1].found = {}
    BY <1>1, <1>2, <1>3, <1>4 DEF Top
  <1>7. /\ kind' = kind /\ uses' = uses /\ privileged' = privileged /\ roots' = roots
        /\ cache' = cache /\ report' = report
    OBVIOUS
  <1>8. Reached' = Reached /\ Called' = Called /\ Faulty' = Faulty /\ NoCycle' = NoCycle
    BY <1>7, GraphKept
  <1>9. /\ sub \in Reached[stack[n].path] /\ sub \in Reached[sub] /\ Called[sub] = Calls(sub)
        /\ \A w \in Workflows : \A v \in Reached[w] : Reached[v] \subseteq Reached[w]
    <2>1. sub \in Calls(stack[n].path) /\ Calls(stack[n].path) = Called[stack[n].path]
      BY <1>1 DEF TypeOK, Top, Called
    <2>2. Called[sub] = Calls(sub)
      BY <1>1 DEF Called
    <2> QED
      BY <1>1, <2>1, <2>2, GraphFacts
  <1>10. Nested'
    <2>1. \A i \in 1 .. n : sub \in Reached[stack[i].path]
      <3> SUFFICES ASSUME NEW i \in 1 .. n PROVE sub \in Reached[stack[i].path]
        OBVIOUS
      <3>1. stack[n].path \in Reached[stack[i].path]
        BY <1>1 DEF AttrInv, Nested
      <3> QED
        BY <1>1, <1>9, <3>1
    <2>2. \A i, j \in 1 .. n + 1 : i <= j => stack'[j].path \in Reached[stack'[i].path]
      <3> SUFFICES ASSUME NEW i \in 1 .. n + 1, NEW j \in 1 .. n + 1, i <= j
                   PROVE  stack'[j].path \in Reached[stack'[i].path]
        OBVIOUS
      <3>1. CASE i \in 1 .. n /\ j \in 1 .. n
        BY <1>6, <3>1 DEF AttrInv, Nested
      <3>2. CASE i \in 1 .. n /\ j = n + 1
        BY <1>6, <2>1, <3>2
      <3>3. CASE i = n + 1 /\ j = n + 1
        BY <1>6, <1>9, <3>3
      <3> QED
        <4>1. ~ (i = n + 1 /\ j \in 1 .. n)
          BY <1>1
        <4> QED
          BY <1>5, <3>1, <3>2, <3>3, <4>1
    <2>3. stack'[1].path = stack[1].path
      BY <1>1, <1>6
    <2> QED
      BY <1>4, <1>7, <1>8, <2>2, <2>3 DEF AttrInv, Nested
  <1>11. Said'
    <2>1. \A i \in 1 .. n + 1 : Relayed(stack'[i].found, stack'[i].path)
      BY <1>1, <1>5, <1>6 DEF AttrInv, Said, Relayed
    <2> QED
      BY <1>4, <1>7, <1>8, <2>1 DEF AttrInv, Said, Scanned, Listed, Relayed
  <1>12. NoCycle => Told'
    <2> SUFFICES ASSUME Told PROVE Told'
      BY DEF AttrInv
    <2>1. stack' # <<>> /\ stack'[1].path = stack[1].path
      BY <1>1, <1>4, <1>6
    <2>2. ASSUME NEW i \in 1 .. n + 1, NEW v \in Called[stack'[i].path] \ stack'[i].todo
          PROVE  \/ i < n + 1 /\ v = stack'[i + 1].path
                 \/ Share(v, stack'[i].path) \subseteq stack'[i].found
      <3>1. CASE i = n + 1
        BY <1>6, <1>9, <2>2, <3>1
      <3>2. CASE i = n
        <4>1. v = sub \/ v \in Called[stack[n].path] \ stack[n].todo
          BY <1>1, <1>6, <2>2, <3>2
        <4>2. v \in Called[stack[n].path] \ stack[n].todo => Share(v, stack[n].path) \subseteq stack[n].found
          BY <1>1 DEF Told
        <4>3. n < n + 1
          BY <1>1
        <4> QED
          BY <1>1, <1>6, <3>2, <4>1, <4>2, <4>3
      <3>3. CASE i \in 1 .. n /\ i # n
        <4>1. i + 1 \in 1 .. n /\ i < n /\ i < n + 1
          BY <1>1, <3>3
        <4> QED
          BY <1>6, <2>2, <3>3, <4>1 DEF Told
      <3> QED
        BY <1>5, <3>1, <3>2, <3>3
    <2> QED
      BY <1>4, <1>7, <1>8, <2>1, <2>2 DEF Told, Scanned, Wanted, Share
  <1> QED
    BY <1>8, <1>10, <1>11, <1>12 DEF AttrInv

LEMMA AttrJob == ASSUME Inv, AttrInv, NEW sub \in Workflows, Job(sub) PROVE AttrInv'
  <1> DEFINE n == Len(stack)
  <1>1. /\ TypeOK /\ stack # <<>> /\ sub \in Top.todo /\ n \in 1 .. n /\ n \in Nat
        /\ Top.path \in Workflows /\ Top.found \in SUBSET Findings /\ Top = stack[n]
        /\ UNCHANGED <<kind, uses, privileged, roots, cache, report>>
    BY StackFacts DEF Job, Inv, Top
  <1>2. Relayed(Top.found, Top.path)
    BY <1>1 DEF AttrInv, Said
  <1>3. sub \in Called[Top.path] /\ sub \in Reached[Top.path]
    <2>1. sub \in Called[Top.path]
      BY <1>1 DEF TypeOK, Called
    <2> QED
      BY <1>1, <2>1, GraphFacts
  <1>4. CASE sub \in Chain
    <2>1. stack' = NextJob(sub, Top.found)
      BY <1>4 DEF Job
    <2>2. ~ NoCycle
      <3>1. PICK i \in 1 .. n - 1 : sub = stack[i].path
        BY <1>4 DEF Chain
      <3>2. i \in 1 .. n /\ i <= n
        BY <1>1, <3>1
      <3>3. Top.path \in Reached[sub]
        BY <1>1, <3>1, <3>2 DEF AttrInv, Nested
      <3> QED
        BY <1>1, <1>3, <3>3 DEF NoCycle
    <2> QED
      BY <1>1, <1>2, <2>1, <2>2, AttrStay
  <1>5. CASE sub \notin Chain /\ sub \in DOMAIN cache
    <2> DEFINE fs == Top.found \cup Relay(cache[sub], Top.path)
    <2>1. stack' = NextJob(sub, fs)
      BY <1>5 DEF Job
    <2>2. cache[sub] \in SUBSET Findings
      BY <1>1, <1>5 DEF TypeOK
    <2>3. Relay(cache[sub], Top.path) \in SUBSET Findings
      BY <1>1, <2>2, RelayFacts
    <2>4. Relayed(Relay(cache[sub], Top.path), Top.path)
      <3>1. Listed(cache[sub], sub)
        BY <1>5 DEF AttrInv, Said, Scanned
      <3> QED
        BY <1>1, <1>3, <3>1, RelayListed
    <2>5. NoCycle => Share(sub, Top.path) \subseteq Relay(cache[sub], Top.path)
      <3> SUFFICES ASSUME NoCycle PROVE Share(sub, Top.path) \subseteq Relay(cache[sub], Top.path)
        OBVIOUS
      <3>1. Wanted(sub) \subseteq cache[sub]
        BY <1>5 DEF AttrInv, Told, Scanned
      <3> QED
        BY <3>1, RelayWanted
    <2>6. fs \in SUBSET Findings /\ Top.found \subseteq fs /\ Relayed(fs, Top.path)
      BY <1>1, <1>2, <2>3, <2>4 DEF Relayed
    <2>7. NoCycle => Share(sub, Top.path) \subseteq fs
      BY <2>5
    <2> HIDE DEF fs
    <2> QED
      BY <1>1, <2>1, <2>6, <2>7, AttrStay
  <1>6. CASE sub \notin Chain /\ sub \notin DOMAIN cache
    <2>1. stack' = Append(NextJob(sub, Top.found), Frame(sub))
      BY <1>6 DEF Job
    <2> QED
      BY <1>1, <2>1, AttrDescend
  <1> QED
    BY <1>4, <1>5, <1>6

LEMMA AttrReturn == ASSUME Inv, AttrInv, Return PROVE AttrInv'
  <1> DEFINE m == Len(stack)
             n == Len(stack) - 1
             p == Top.path
  <1>1. /\ TypeOK /\ m \in 1 .. m /\ m \in Nat /\ n \in Nat /\ p \in Workflows
        /\ p = stack[m].path /\ Top = stack[m] /\ Top.todo = {} /\ stack # <<>>
    BY StackFacts DEF Return, Inv, Top
  <1>2. \A i \in 1 .. n : i \in 1 .. m /\ i < m /\ stack[i].path \in Workflows
    BY <1>1, StackFacts
  <1>3. /\ kind' = kind /\ uses' = uses /\ privileged' = privileged /\ roots' = roots
    BY DEF Return
  <1>4. Reached' = Reached /\ Called' = Called /\ Faulty' = Faulty /\ NoCycle' = NoCycle
    BY <1>3, GraphKept
  <1>5. /\ Scanned' = Scanned \cup {p}
        /\ cache' = [w \in Scanned \cup {p} |-> IF w = p THEN Result ELSE cache[w]]
    BY DEF Return, Scanned
  <1>6. /\ Len(stack') = n
        /\ \A i \in 1 .. n : stack'[i].path = stack[i].path /\ stack'[i].todo = stack[i].todo
        /\ \A i \in 1 .. n : i # n => stack'[i].found = stack[i].found
        /\ n # 0 => /\ stack'[n].found = stack[n].found \cup Relay(Result, stack[n].path)
                    /\ report' = report
        /\ n = 0 => report' = report \cup Result
    BY <1>1, ReturnFacts
  <1>7. Listed(Result, p)
    BY <1>1, ResultListed DEF AttrInv, Said
  <1>8. NoCycle => Wanted(p) \subseteq Result
    <2> SUFFICES ASSUME NoCycle PROVE Wanted(p) \subseteq Result
      OBVIOUS
    <2>1. \A v \in Called[p] : Share(v, p) \subseteq Top.found
      BY <1>1 DEF AttrInv, Told
    <2> QED
      BY <1>1, <2>1, ResultWanted
  <1>9. /\ \A w \in Scanned' : Listed(cache'[w], w)
        /\ NoCycle => \A w \in Scanned' : Wanted(w) \subseteq cache'[w]
    BY <1>5, <1>7, <1>8 DEF AttrInv, Said, Told
  <1>10. n # 0 => /\ n \in 1 .. n
                  /\ Relayed(Relay(Result, stack[n].path), stack[n].path)
                  /\ NoCycle => Share(p, stack[n].path) \subseteq Relay(Result, stack[n].path)
    <2> SUFFICES ASSUME n # 0
                 PROVE  /\ n \in 1 .. n
                        /\ Relayed(Relay(Result, stack[n].path), stack[n].path)
                        /\ NoCycle => Share(p, stack[n].path) \subseteq Relay(Result, stack[n].path)
      OBVIOUS
    <2>1. n \in 1 .. n
      BY <1>1, InRange
    <2>2. n \in 1 .. m /\ n <= m /\ stack[n].path \in Workflows
      BY <1>1, <1>2, <2>1
    <2>3. p \in Reached[stack[n].path]
      BY <1>1, <2>2 DEF AttrInv, Nested
    <2> HIDE DEF n, p
    <2>4. Relayed(Relay(Result, stack[n].path), stack[n].path)
      BY <1>1, <1>7, <2>2, <2>3, RelayListed
    <2> QED
      BY <1>8, <2>1, <2>4, RelayWanted
  <1>11. Nested'
    <2>1. \A i, j \in 1 .. n : i <= j => stack'[j].path \in Reached[stack'[i].path]
      BY <1>2, <1>6 DEF AttrInv, Nested
    <2>2. stack' # <<>> => stack'[1].path \in privileged
      <3> SUFFICES ASSUME stack' # <<>> PROVE stack'[1].path \in privileged
        OBVIOUS
      <3>1. n # 0
        BY <1>1, <1>6, ReturnFacts
      <3>2. 1 \in 1 .. n
        BY <1>1, <3>1, InRange
      <3> QED
        BY <1>1, <1>6, <3>2 DEF AttrInv, Nested
    <2> QED
      BY <1>3, <1>4, <1>6, <2>1, <2>2 DEF Nested
  <1>12. Said'
    <2>1. \A i \in 1 .. n : Relayed(stack'[i].found, stack'[i].path)
      <3> SUFFICES ASSUME NEW i \in 1 .. n PROVE Relayed(stack'[i].found, stack'[i].path)
        OBVIOUS
      <3>1. Relayed(stack[i].found, stack[i].path)
        BY <1>2 DEF AttrInv, Said
      <3>2. n # 0
        BY <1>1
      <3> HIDE DEF n
      <3> QED
        BY <1>6, <1>10, <3>1, <3>2 DEF Relayed
    <2>2. \A f \in report' : \E r \in privileged : Listed({f}, r)
      <3>1. CASE n = 0
        <4>1. m = 1
          BY <1>1, <3>1
        <4>3. p \in privileged
          BY <1>1, <4>1 DEF AttrInv, Nested
        <4>2. \A f \in Result : Listed({f}, p)
          BY <1>7 DEF Listed
        <4> QED
          BY <1>6, <3>1, <4>2, <4>3 DEF AttrInv, Said
      <3>2. CASE n # 0
        BY <1>6, <3>2 DEF AttrInv, Said
      <3> QED
        BY <3>1, <3>2
    <2> QED
      BY <1>3, <1>4, <1>6, <1>9, <2>1, <2>2 DEF Said, Listed, Relayed
  <1>13. NoCycle => Told'
    <2> SUFFICES ASSUME NoCycle, Told PROVE Told'
      BY DEF AttrInv
    <2>1. ASSUME NEW i \in 1 .. n, NEW v \in Called[stack[i].path] \ stack[i].todo
          PROVE  \/ i < n /\ v = stack'[i + 1].path
                 \/ Share(v, stack[i].path) \subseteq stack'[i].found
      <3>1. \/ i < m /\ v = stack[i + 1].path
            \/ Share(v, stack[i].path) \subseteq stack[i].found
        BY <1>2, <2>1 DEF Told
      <3>2. CASE i = n
        <4>1. n # 0 /\ i + 1 = m
          BY <1>1, <3>2
        <4>2. v = p \/ Share(v, stack[i].path) \subseteq stack[i].found
          BY <1>1, <3>1, <4>1
        <4> HIDE DEF n, p
        <4> QED
          BY <1>6, <1>10, <3>2, <4>1, <4>2
      <3>3. CASE i # n
        <4>1. i + 1 \in 1 .. n /\ i < n
          BY <1>1, <3>3
        <4> QED
          BY <1>6, <3>1, <3>3, <4>1
      <3> QED
        BY <3>2, <3>3
    <2>2. ASSUME NEW r \in privileged \ roots
          PROVE  \/ stack' # <<>> /\ r = stack'[1].path
                 \/ Wanted(r) \subseteq report'
      <3>1. r = stack[1].path \/ Wanted(r) \subseteq report
        BY DEF Told
      <3>2. CASE n = 0
        <4>1. m = 1
          BY <1>1, <3>2
        <4>2. p = stack[1].path
          BY <1>1, <4>1
        <4> QED
          BY <1>6, <1>8, <3>1, <3>2, <4>2
      <3>3. CASE n # 0
        <4>1. 1 \in 1 .. n /\ stack' # <<>>
          BY <1>1, <1>6, <3>3
        <4> QED
          BY <1>6, <3>1, <3>3, <4>1
      <3> QED
        BY <3>2, <3>3
    <2>3. \A w \in Scanned' : Wanted(w) \subseteq cache'[w]
      BY <1>9
    <2> QED
      BY <1>3, <1>4, <1>6, <2>1, <2>2, <2>3 DEF Told, Wanted, Share
  <1> QED
    BY <1>4, <1>11, <1>12, <1>13 DEF AttrInv

-----------------------------------------------------------------------------
(* The theorems.                                                           *)

LEMMA ExitInv == Inv /\ Exit => Inv'
  <1> SUFFICES ASSUME Inv, Exit PROVE Inv'
    OBVIOUS
  <1>1. /\ kind' = kind /\ uses' = uses /\ privileged' = privileged /\ roots' = roots
        /\ stack' = stack /\ cache' = cache /\ report' = report
        /\ stack = <<>> /\ roots = {} /\ exit' \in {"clean", "findings"}
    BY DEF Exit
  <1>2. TypeOK'
    BY <1>1 DEF Inv, TypeOK, Calls
  <1>3. Explored'
    BY <1>1 DEF Inv, Explored, Scanned, Active, Calls
  <1>4. Kept' /\ Ending'
    BY <1>1 DEF Inv, Kept, Ending, Scanned, Found, Bad, At
  <1>5. InReach'
    BY <1>1 DEF Inv, InReach, Scanned, Due, Reach, Closed, Calls, Bad, At
  <1> QED
    BY <1>2, <1>3, <1>4, <1>5 DEF Inv

LEMMA InvHolds == Spec => []Inv
  <1>1. Inv /\ UNCHANGED vars => Inv'
    <2> SUFFICES ASSUME Inv, UNCHANGED vars PROVE Inv'
      OBVIOUS
    <2>1. /\ kind' = kind /\ uses' = uses /\ privileged' = privileged /\ roots' = roots
          /\ stack' = stack /\ cache' = cache /\ report' = report /\ exit' = exit
      BY DEF vars
    <2>2. TypeOK'
      BY <2>1 DEF Inv, TypeOK, Calls
    <2>3. Explored'
      BY <2>1 DEF Inv, Explored, Scanned, Active, Calls
    <2>4. Kept' /\ Ending'
      BY <2>1 DEF Inv, Kept, Ending, Scanned, Found, Bad, At
    <2>5. InReach'
      BY <2>1 DEF Inv, InReach, Scanned, Due, Reach, Closed, Calls, Bad, At
    <2> QED
      BY <2>2, <2>3, <2>4, <2>5 DEF Inv
  <1>2. Inv /\ [Next]_vars => Inv'
    BY <1>1, ScanRootInv, JobInv, ReturnInv, ExitInv DEF Next, Ended
  <1> QED
    BY InitInv, <1>2, PTL DEF Spec

\* Every state of the checker is well typed.
THEOREM ScanTypeCorrect == Spec => []TypeOK
  <1>1. Inv => TypeOK
    BY DEF Inv
  <1> QED
    BY InvHolds, <1>1, PTL

\* When the checker exits, its report is of exactly the faulty workflows that a
\* privileged one reaches, whatever the call graph and the order of the scans.
THEOREM ReportExactHolds == Spec => []ReportExact
  <1>1. Inv => ReportExact
    <2> SUFFICES ASSUME Inv, exit # "none"
                 PROVE  {f.at : f \in report} = Due
      BY DEF ReportExact, Due
    <2>1. stack = <<>> /\ roots = {} /\ Active = {} /\ Found = {} /\ TypeOK
      BY DEF Inv, Ending, Active, Found
    <2>2. Closed(Scanned) /\ privileged \subseteq Scanned /\ Scanned \in SUBSET Workflows
      BY <2>1 DEF Inv, Explored, Closed, TypeOK, Scanned
    <2>3. Reach(privileged) \subseteq Scanned
      BY <2>1, <2>2, ReachFacts DEF TypeOK
    <2>4. Due \subseteq At(report)
      BY <2>1, <2>3 DEF Inv, Kept, Due
    <2>5. At(report) \subseteq Due
      BY DEF Inv, InReach
    <2> QED
      BY <2>4, <2>5 DEF At
  <1> QED
    BY InvHolds, <1>1, PTL

LEMMA AttrHolds == Spec => [](Inv /\ AttrInv)
  <1>1. Init => Inv /\ AttrInv
    <2> SUFFICES ASSUME Init PROVE AttrInv
      BY InitInv
    <2>1. stack = <<>> /\ Len(stack) = 0 /\ Scanned = {} /\ report = {} /\ roots = privileged
      BY DEF Init, Scanned
    <2> QED
      BY <2>1 DEF AttrInv, Nested, Said, Told
  <1>2. Inv /\ AttrInv /\ [Next]_vars => AttrInv'
    <2> SUFFICES ASSUME Inv, AttrInv, [Next]_vars PROVE AttrInv'
      OBVIOUS
    <2>1. CASE Exit \/ UNCHANGED vars
      BY <2>1, AttrUnmoved DEF Exit, vars
    <2> QED
      BY <2>1, AttrRoot, AttrJob, AttrReturn DEF Next, Ended
  <1> QED
    BY InvHolds, <1>1, <1>2, PTL DEF Spec

\* Every finding is reported as a privileged workflow's own, or as reached from a
\* privileged workflow that does reach it.
THEOREM AttributedHolds == Spec => []Attributed
  <1>1. Inv /\ AttrInv => Attributed
    <2> SUFFICES ASSUME Inv, AttrInv, NEW f \in report
                 PROVE  IF f.via = None THEN f.at \in privileged
                        ELSE f.via \in privileged /\ f.at \in Reach({f.via})
      BY DEF Attributed
    <2>1. PICK r \in privileged : Listed({f}, r)
      BY DEF AttrInv, Said
    <2>2. Reached[r] = Reach({r})
      BY DEF Inv, TypeOK, Reached
    <2> QED
      BY <2>1, <2>2 DEF Listed
  <1> QED
    BY AttrHolds, <1>1, PTL

\* Without cycles of calls the cache loses nothing: each privileged workflow is reported
\* with every faulty workflow it reaches.
THEOREM ExactWhenAcyclicHolds == Spec => []ExactWhenAcyclic
  <1>1. Inv /\ AttrInv => ExactWhenAcyclic
    <2> SUFFICES ASSUME Inv, AttrInv, exit # "none", Acyclic,
                        NEW r \in privileged, NEW w \in Reach({r}), Bad(w)
                 PROVE  [at |-> w, via |-> IF w = r THEN None ELSE r] \in report
      BY DEF ExactWhenAcyclic
    <2>1. TypeOK /\ stack = <<>> /\ roots = {} /\ r \in Workflows
      BY DEF Inv, Ending, TypeOK
    <2>2. \A v \in Workflows : Called[v] = Calls(v) /\ Reached[v] = Reach({v})
      BY DEF Called, Reached
    <2>3. NoCycle
      <3> SUFFICES ASSUME NEW x \in Workflows, NEW v \in Called[x] PROVE x \notin Reached[v]
        BY DEF NoCycle
      <3>1. v \in Calls(x) /\ v \in Workflows
        BY <2>1, <2>2, CallsType
      <3> QED
        BY <2>2, <3>1 DEF Acyclic
    <2>4. w \in Reached[r] \cap Faulty
      BY <2>1, <2>2, GraphFacts DEF Faulty
    <2> QED
      BY <2>1, <2>3, <2>4 DEF AttrInv, Told, Wanted
  <1> QED
    BY AttrHolds, <1>1, PTL
=============================================================================
