--------------------------- MODULE MCWorkloadRollout ---------------------------
(* Instances of WorkloadRollout for TLC.                                    *)
EXTENDS WorkloadRollout

CONSTANTS w1, w2

Q(n, unit) == [n |-> n, unit |-> unit]

\* The defaults of terraform/variables.tf: hpa 2..4, 100m of 500m.
Default == [image |-> "a", hpa |-> TRUE, replicas |-> 2, min |-> 2, max |-> 4,
            request |-> Q(100, "m"), limit |-> Q(500, "m"), storage |-> None]

DefaultCaps == [replicas |-> 10, hpa |-> 10, request |-> Q(500, "m"), limit |-> Q(1, "cores"),
                storage |-> Q(10, "Gi")]

DefaultQuota ==
    [namespace |-> [limit |-> 1000, pods |-> 10, claims |-> 1, storage |-> 5 * 1024],
     project   |-> [limit |-> 2000, pods |-> 20, claims |-> 1, storage |-> 10 * 1024]]

DefaultQuotas == {DefaultQuota}

DefaultInputs == [w \in {w1} |-> {Default, [Default EXCEPT !.image = "b"]}]

\* Small and large, fixed and scaled, with quantities over a cap or malformed, with a
\* volume that fits the cap and not the quota.
Small == [Default EXCEPT !.limit = Q(250, "m"), !.max = 3]
Fixed == [Small EXCEPT !.image = "b", !.hpa = FALSE, !.replicas = 2]
Large == [Default EXCEPT !.limit = Q(1, "cores"), !.min = 1, !.max = 2]
Refused == {[Fixed EXCEPT !.limit = q] : q \in {Q(2, "cores"), Q(1, "k")}}
           \cup {[Small EXCEPT !.max = 4], [Fixed EXCEPT !.replicas = 4]}
Volume(size) == [Fixed EXCEPT !.replicas = 1, !.storage = size]

MixedInputs == [w \in {w1, w2} |->
    IF w = w1 THEN {Small, Fixed, Large} \cup Refused
              ELSE {Volume(Q(1, "Gi")), Volume(Q(8, "Gi"))}]

MixedCaps == [DefaultCaps EXCEPT !.replicas = 3, !.hpa = 3]

WideQuota == [DefaultQuota EXCEPT !.project.claims = 2]
MixedQuotas == {DefaultQuota, WideQuota}
=============================================================================
