------------------------------- MODULE Inventory -------------------------------
(***************************************************************************)
(* What applies promise of the resources they look after: one at a time,   *)
(* a resource is put to what the target says of it, or fails to be, once   *)
(* all it needs is there, and a resource the target no longer has is taken *)
(* away once nothing that is there needs it.  Only what is fresh can be    *)
(* lost, together with what needs it.  Nothing else ever changes a         *)
(* resource, and the target may be set anew when nothing is fresh.         *)
(***************************************************************************)
CONSTANTS
    Things,     \* the resources there can be
    Needs,      \* Needs[a]: the resources without which a cannot be
    Harmed      \* what a resource can be that no target says

VARIABLES
    target,     \* target[a]: {what a should be}, or {} if a should not be
    content,    \* content[a]: {what a is}, or {} if a is not there
    fresh       \* the resources put since it was last settled what is there

vars == <<target, content, fresh>>

\* A target that has a resource has what the resource needs.
Closed(t) == \A a \in Things : t[a] # {} => \A b \in Needs[a] : t[b] # {}

Init == Closed(target) /\ content = [a \in Things |-> {}] /\ fresh = {}

Aim == Closed(target') /\ fresh = {} /\ UNCHANGED <<content, fresh>>

\* Resource a comes to be c.
Become(a, c) ==
    /\ target[a] # {}
    /\ \A b \in Needs[a] : content[b] # {}
    /\ content' = [content EXCEPT ![a] = c]
    /\ fresh' = IF content[a] = {} THEN fresh \cup {a} ELSE fresh
    /\ UNCHANGED target

Put(a) == Become(a, target[a])

Spoil(a) == \E h \in Harmed : Become(a, {h})

Take(a) ==
    /\ target[a] = {}
    /\ \A b \in Things : a \in Needs[b] => content[b] = {}
    /\ content' = [content EXCEPT ![a] = {}]
    /\ fresh' = fresh \ {a}
    /\ UNCHANGED target

\* The resources a step takes away.
Lost == {a \in Things : content[a] # {} /\ content'[a] = {}}

\* Resources that were put last are lost, others that were being put are harmed.
Lose ==
    /\ Lost \subseteq fresh
    /\ \A a \in Things \ Lost :
         /\ content[a] # {} => Needs[a] \cap Lost = {}
         /\ \/ content'[a] = content[a]
            \/ target[a] # {} /\ content[a] # {} /\ \E h \in Harmed : content'[a] = {h}
    /\ content' = [a \in Things |-> content'[a]]
    /\ fresh' = {}
    /\ UNCHANGED target

Settle == fresh' = {} /\ UNCHANGED <<target, content>>

\* Somebody looks after a harmed resource, which need not make it what it should be.
Mend(a) ==
    /\ \E h, g \in Harmed : content[a] = {h} /\ content' = [content EXCEPT ![a] = {g}]
    /\ UNCHANGED <<target, fresh>>

Next ==
    \/ Aim \/ Settle \/ Lose
    \/ \E a \in Things : Put(a) \/ Spoil(a) \/ Take(a) \/ Mend(a)

Spec == Init /\ [][Next]_vars

-----------------------------------------------------------------------------

\* What is there has all it needs.
Supported == \A a \in Things : content[a] # {} => \A b \in Needs[a] : content[b] # {}
=============================================================================
