----------------------------- MODULE AtomicRelease -----------------------------
(***************************************************************************)
(* What `atomic = true' and `wait = true' of the deploy module promise of  *)
(* the release of one workload (modules/deploy/resources.tf:19-20).  An    *)
(* operation takes up the settings that are listed and ends at rest only   *)
(* with settings that are rolled out: the new ones, or, once they are put  *)
(* back, the former ones, or none when there were none.  What does not end *)
(* so is not hidden: a release whose way back failed is broken, one whose  *)
(* operation was killed is stuck until somebody frees it.                  *)
(***************************************************************************)
CONSTANTS
    Settings,   \* what a tenant may write for the workload
    None        \* not listed, not released

VARIABLES
    listed,     \* the settings in the list, or None
    running,    \* the settings of the release
    good,       \* the settings last rolled out
    mode,       \* "rest", "forward" or "back", "broken" or "stuck"
    out         \* the pods that the settings of the release ask for are ready

vars == <<listed, running, good, mode, out>>

Init == listed = None /\ running = None /\ good = None /\ mode = "rest"

List ==
    /\ listed' \in Settings \cup {None}
    /\ UNCHANGED <<running, good, mode>>

\* Pods become ready, fail and are evicted.
Drift == UNCHANGED <<listed, running, good, mode>>

Start ==
    /\ mode \in {"rest", "broken"} /\ listed # None
    /\ running' = listed /\ mode' = "forward"
    /\ UNCHANGED <<listed, good>>

Complete ==
    /\ mode = "forward" /\ out
    /\ good' = running /\ mode' = "rest"
    /\ UNCHANGED <<listed, running>>

\* A first operation that does not get there leaves nothing behind.
Purge ==
    /\ mode \in {"forward", "stuck"} /\ good = None
    /\ mode = "forward" => ~out
    /\ running' = None /\ mode' = "rest"
    /\ UNCHANGED <<listed, good>>

TurnBack ==
    /\ mode \in {"forward", "stuck"} /\ good # None
    /\ mode = "forward" => ~out
    /\ mode' = "back"
    /\ UNCHANGED <<listed, running, good>>

PutBack ==
    /\ mode = "back" /\ running' = good
    /\ UNCHANGED <<listed, good, mode>>

BackAtRest ==
    /\ mode = "back" /\ running = good /\ out
    /\ mode' = "rest"
    /\ UNCHANGED <<listed, running, good>>

GiveUp ==
    /\ mode = "back" /\ (running = good => ~out)
    /\ mode' = "broken"
    /\ UNCHANGED <<listed, running, good>>

Die ==
    /\ mode \in {"forward", "back"} /\ mode' = "stuck"
    /\ UNCHANGED <<listed, running, good>>

Remove ==
    /\ mode \notin {"forward", "back"} /\ listed = None
    /\ running' = None /\ good' = None /\ mode' = "rest"
    /\ UNCHANGED listed

Next ==
    \/ List \/ Drift \/ Start \/ Complete \/ Purge \/ TurnBack \/ PutBack \/ BackAtRest
    \/ GiveUp \/ Die \/ Remove

Spec == Init /\ [][Next]_vars

-----------------------------------------------------------------------------

\* A release at rest has the settings that were last rolled out, or none.
AtRest == mode = "rest" => running = good
=============================================================================
