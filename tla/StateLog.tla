------------------------------- MODULE StateLog -------------------------------
(***************************************************************************)
(* What the deploy workflow promises of one Terraform state: a log of      *)
(* versions, each committed by a run against exactly the version that run  *)
(* planned on.  A run takes a snapshot (terraform plan -out=tfplan) and    *)
(* may later commit (terraform apply tfplan); a commit on an outdated      *)
(* snapshot is impossible, so no version is ever built on a version other  *)
(* than its predecessor, and no saved plan is applied twice.               *)
(***************************************************************************)
EXTENDS Naturals, Sequences

CONSTANTS
    Runs,      \* workflow runs that share the state
    Values,    \* what a version of the state may record
    NoSnap     \* "this run holds no saved plan"

VARIABLES
    log,       \* the versions written so far, oldest first
    snap       \* for each run, the version its saved plan was computed on

vars == <<log, snap>>

Entry == [run : Runs, base : Nat, cfg : Values]

Init ==
    /\ log = <<>>
    /\ snap = [r \in Runs |-> NoSnap]

\* A run plans on the newest version, once.
Snapshot(r) ==
    /\ snap[r] = NoSnap
    /\ snap' = [snap EXCEPT ![r] = Len(log)]
    /\ UNCHANGED log

\* A run writes the next version, provided nobody wrote since its snapshot.
Commit(r) ==
    /\ snap[r] = Len(log)
    /\ \E c \in Values :
         log' = Append(log, [run |-> r, base |-> snap[r], cfg |-> c])
    /\ UNCHANGED snap

Next == \E r \in Runs : Snapshot(r) \/ Commit(r)

Spec == Init /\ [][Next]_vars

-----------------------------------------------------------------------------

\* Every version was computed from the version just before it: the history is
\* linear and no run overwrites a write it has not seen (no lost update).
Linear == \A i \in DOMAIN log : log[i].base = i - 1

\* A saved plan is applied at most once: no run owns two versions.
AppliedOnce ==
    \A i, j \in DOMAIN log : log[i].run = log[j].run => i = j
=============================================================================
