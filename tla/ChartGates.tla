------------------------------- MODULE ChartGates -------------------------------
(***************************************************************************)
(* tools/verify.py: chart-schema and chart-policy, which hold the golden   *)
(* chart, the fixture charts and the Kyverno policies against each other.  *)
(*                                                                         *)
(* A manifest is known by its marks: the kinds and the fields in it that   *)
(* a schema, a policy or an expected snippet of the gates can tell.        *)
(***************************************************************************)
EXTENDS Naturals, Sequences, SequencesExt

CONSTANTS
    RuleSlips,     \* marks that a rule may come to deny, or no longer deny
    ChartSlips,    \* marks that a chart may gain or lose
    Guards,        \* the values that a new mark of the golden chart may depend on
    MaxEdits

\* Images that are not pinned or not the organisation's, in each list of containers; the one
\* of the hostile chart is neither.
Images ==
    [containers          |-> {"lookalike org", "no repository", "tag only",
                              "foreign registry", "bare", "mutable tag"},
     initContainers      |-> {"init lookalike org", "init no repository", "init tag only",
                              "init foreign registry", "init bare"},
     ephemeralContainers |-> {"ephemeral lookalike org", "ephemeral no repository",
                              "ephemeral tag only", "ephemeral foreign registry",
                              "ephemeral bare"}]

Kinds == {"Deployment", "StatefulSet", "Job", "CronJob", "Service",
          "PersistentVolumeClaim", "VaultStaticSecret",
          "DaemonSet", "Pod", "ReplicaSet", "Secret", "Role", "RoleBinding"}

\* policies/kyverno: what each rule denies; two of them name what they allow.
Policies ==
    [pss         |-> {"privileged", "hostPath", "host namespaces", "root", "SYS_ADMIN"},
     seccomp     |-> {"no seccomp"},
     readonly    |-> {"writable root"},
     limits      |-> {"no limits"},
     types       |-> {"LoadBalancer", "NodePort", "ExternalName"},
     externalIPs |-> {"externalIPs"},
     kinds       |-> Kinds \ {"Deployment", "StatefulSet", "Job", "CronJob", "Service",
                              "PersistentVolumeClaim", "VaultStaticSecret"},
     images      |-> Images.containers \cup Images.initContainers
                        \cup Images.ephemeralContainers]

Rules == DOMAIN Policies

\* The values that switch a part of the golden chart on.
Conditional == {"vault", "storage", "token", "net_bind"}

\* The golden chart: each mark shows with all of some values and without any of others.
Entry(m, with, without) == [mark |-> m, with |-> with, without |-> without]

GoldenChart ==
    {Entry("Deployment", {}, {}), Entry("Service", {}, {}), Entry("digest", {}, {}),
     Entry("VaultStaticSecret", {"vault"}, {}), Entry("PersistentVolumeClaim", {"storage"}, {}),
     Entry("token", {"token"}, {}), Entry("NET_BIND_SERVICE", {"net_bind"}, {})}

Slipped == {Entry(m, g.with, g.without) : m \in ChartSlips, g \in Guards}

\* The fixture charts.
Charts ==
    [compliant   |-> {"Deployment", "Service", "digest"},
     statefulset |-> {"StatefulSet", "Service", "headless", "digest"},
     hostile     |-> (UNION {Policies[r] : r \in Rules \ {"kinds", "images", "types"}})
                        \cup {"Deployment", "Service", "LoadBalancer", "ExternalName",
                              "Secret", "Role", "RoleBinding", "token", "mutable tag"}]

VARIABLES
    deny,       \* what each rule denies
    text,       \* the marks in each fixture chart
    golden,     \* the marks in the golden chart, with what they depend on
    given,      \* values that PLATFORM_WORKLOAD_CONDITIONAL_VALUES switches on
    edits,
    target,     \* of the last invocation
    todo,       \* cases left
    fault,      \* a tool failed for a reason outside the checkout
    verdict

vars == <<deny, text, golden, given, edits, target, todo, fault, verdict>>

Targets == {"chart-schema", "chart-policy", "ci"}

-----------------------------------------------------------------------------
(* The cases.                                                              *)

\* A resource of its own against the file of one rule.
Probe(rule, marks, pass) ==
    [gate |-> "probe", shows |-> marks, needs |-> {}, rules |-> {rule}, pass |-> pass,
     names |-> IF pass THEN {} ELSE {rule}]

\* Mutant: the policy path is left out, so that all policies are applied.
ImageProbe_AllPolicies(image, pass) ==
    [Probe("images", {image, "Pod", "no seccomp", "no limits", "writable root"}, pass)
        EXCEPT !.rules = Rules]

\* A bare pod, which other rules would deny.
ImageProbe(image, pass) ==
    Probe("images", {image, "Pod", "no seccomp", "no limits", "writable root"}, pass)

Chart(gate, chart, needs) ==
    [gate |-> gate, shows |-> chart, needs |-> needs, rules |-> Rules, pass |-> TRUE,
     names |-> {}]

\* chart_schema: which snippets each render must have.
SchemaCases ==
    <<Chart("schema", "default", {}),
      Chart("schema", "all", {"VaultStaticSecret", "PersistentVolumeClaim", "token",
                              "NET_BIND_SERVICE"}),
      Chart("schema", "compliant", {"Deployment", "Service"}),
      Chart("schema", "statefulset", {"StatefulSet", "Service", "headless"}),
      Chart("schema", "hostile", {"Deployment", "Service", "LoadBalancer", "externalIPs",
                                  "ExternalName", "Role", "RoleBinding", "Secret", "hostPath"})>>

DeniedImages ==
    <<"lookalike org", "no repository", "tag only", "foreign registry", "bare",
      "init bare", "ephemeral bare">>

\* Mutant: containers are probed, the two other lists of them are not.
ImageProbes_Containers ==
    <<ImageProbe("digest", TRUE), ImageProbe("tag and digest", TRUE)>>
        \o [i \in 1 .. 5 |-> ImageProbe(DeniedImages[i], FALSE)]

ImageProbes ==
    <<ImageProbe("digest", TRUE), ImageProbe("tag and digest", TRUE)>>
        \o [i \in DOMAIN DeniedImages |-> ImageProbe(DeniedImages[i], FALSE)]

KindProbes ==
    <<Probe("kinds", {"StatefulSet"}, TRUE), Probe("kinds", {"Job"}, TRUE),
      Probe("kinds", {"CronJob"}, TRUE), Probe("kinds", {"DaemonSet"}, FALSE),
      Probe("kinds", {"Pod"}, FALSE), Probe("kinds", {"ReplicaSet"}, FALSE)>>

\* Every rule is expected to speak up against the hostile chart.
Hostile ==
    [Chart("policy", "hostile",
           {"privileged", "hostPath", "host namespaces", "root", "writable root",
            "SYS_ADMIN", "externalIPs", "ExternalName", "Secret", "Role", "RoleBinding",
            "mutable tag"})
        EXCEPT !.pass = FALSE, !.names = Rules]

\* Mutant: the golden chart is held against the policies with its defaults only.
PolicyCases_Default ==
    ImageProbes \o KindProbes \o
    <<Chart("policy", "default", {}),
      Chart("policy", "compliant", {"Deployment", "Service", "digest"}),
      Chart("policy", "statefulset", {"StatefulSet", "Service", "headless", "digest"}),
      Hostile>>

\* chart_policy: the probes, then the charts against all policies.
PolicyCases ==
    ImageProbes \o KindProbes \o
    <<Chart("policy", "default", {}),
      Chart("policy", "all", {"PersistentVolumeClaim", "token", "NET_BIND_SERVICE"}),
      Chart("policy", "compliant", {"Deployment", "Service", "digest"}),
      Chart("policy", "statefulset", {"StatefulSet", "Service", "headless", "digest"}),
      Hostile>>

CasesOf(t) ==
    CASE t = "chart-schema" -> SchemaCases
      [] t = "chart-policy" -> PolicyCases
      [] OTHER              -> SchemaCases \o PolicyCases

TypeOK ==
    /\ \A r \in Rules : deny[r] \subseteq Policies[r] \cup RuleSlips
    /\ \A p \in DOMAIN Charts : text[p] \subseteq Charts[p] \cup ChartSlips
    /\ golden \subseteq GoldenChart \cup Slipped
    /\ given \subseteq Conditional
    /\ edits \in 0 .. MaxEdits
    /\ target \in Targets
    /\ IsSuffix(todo, CasesOf(target))
    /\ fault \in BOOLEAN
    /\ verdict \in {"none", "running", "green", "red"}

Init ==
    /\ deny = Policies /\ text = Charts /\ golden = GoldenChart /\ given = Conditional
    /\ edits = 0
    /\ target = "ci" /\ todo = <<>> /\ fault = FALSE /\ verdict = "none"

-----------------------------------------------------------------------------
(* Between invocations.                                                    *)

Toggled(S, m) == IF m \in S THEN S \ {m} ELSE S \cup {m}

Edited ==
    /\ verdict # "running" /\ edits < MaxEdits
    /\ edits' = edits + 1 /\ verdict' = "none" /\ fault' = FALSE
    /\ UNCHANGED <<target, todo>>

EditRule(r, m) ==
    /\ Edited /\ m \in Policies[r] \cup RuleSlips
    /\ deny' = [deny EXCEPT ![r] = Toggled(@, m)]
    /\ UNCHANGED <<text, golden, given>>

EditChart(p, m) ==
    /\ Edited /\ m \in Charts[p] \cup ChartSlips
    /\ text' = [text EXCEPT ![p] = Toggled(@, m)]
    /\ UNCHANGED <<deny, golden, given>>

EditGolden(e) ==
    /\ Edited /\ e \in GoldenChart \cup Slipped
    /\ golden' = Toggled(golden, e)
    /\ UNCHANGED <<deny, text, given>>

\* A value of the chart is renamed, or the gates follow.
EditValues(p) ==
    /\ Edited
    /\ given' = Toggled(given, p)
    /\ UNCHANGED <<deny, text, golden>>

Invoke(t) ==
    /\ verdict # "running"
    /\ target' = t /\ todo' = CasesOf(t)
    /\ fault' = FALSE /\ verdict' = "running"
    /\ UNCHANGED <<deny, text, golden, given, edits>>

-----------------------------------------------------------------------------
(* chart_schema and chart_policy                                           *)

\* The golden chart rendered with some of the values.
Showing(values) == {e \in golden : e.with \subseteq values /\ e.without \cap values = {}}
Golden(values) == {e.mark : e \in Showing(values)}

\* What the case holds against the schemas or the policies.
Shown(c) ==
    IF c.gate = "probe" THEN c.shows
    ELSE CASE c.shows = "default" -> Golden({})
           [] c.shows = "all"     -> Golden(given)
           [] OTHER               -> text[c.shows]

Denying(rules, marks) == {r \in rules : deny[r] \cap marks # {}}

\* Mutant: any failure of kyverno will do where one is expected.
Applied_AnyFailure(c, works) ==
    IF c.pass THEN works /\ Denying(c.rules, Shown(c)) = {}
    ELSE works => Denying(c.rules, Shown(c)) # {}

\* run_kyverno_apply: a failure must name the expected rules.
Applied(c, works) ==
    LET named == IF works THEN Denying(c.rules, Shown(c)) ELSE {}
    IN  IF c.pass THEN works /\ named = {} ELSE c.names \subseteq named /\ (works => named # {})

\* helm renders the chart, the render has the expected snippets, and kubeconform
\* or kyverno says what it should.
Accepted(c, works) ==
    /\ c.gate # "probe" => "unrenderable" \notin Shown(c) /\ c.needs \subseteq Shown(c)
    /\ IF c.gate = "schema" THEN works /\ "invalid" \notin Shown(c) ELSE Applied(c, works)

\* The tool that judges the case works, or ends with an error of its own.
Judge(works) ==
    /\ todo # <<>>
    /\ fault' = (fault \/ ~works)
    /\ \/ Accepted(Head(todo), works) /\ todo' = Tail(todo) /\ UNCHANGED verdict
       \/ ~Accepted(Head(todo), works) /\ todo' = <<>> /\ verdict' = "red"
    /\ UNCHANGED <<deny, text, golden, given, edits, target>>

\* helm or a missing executable.
HelmFails ==
    /\ todo # <<>> /\ Head(todo).gate # "probe"
    /\ fault' = TRUE /\ todo' = <<>> /\ verdict' = "red"
    /\ UNCHANGED <<deny, text, golden, given, edits, target>>

Finish ==
    /\ verdict = "running" /\ todo = <<>>
    /\ verdict' = "green"
    /\ UNCHANGED <<deny, text, golden, given, edits, target, todo, fault>>

Next ==
    \/ \E r \in Rules : \E m \in Policies[r] \cup RuleSlips : EditRule(r, m)
    \/ \E p \in DOMAIN Charts : \E m \in Charts[p] \cup ChartSlips : EditChart(p, m)
    \/ \E e \in GoldenChart \cup Slipped : EditGolden(e)
    \/ \E p \in Conditional : EditValues(p)
    \/ \E t \in Targets : Invoke(t)
    \/ \E works \in BOOLEAN : Judge(works)
    \/ HelmFails \/ Finish

Spec == Init /\ [][Next]_vars

-----------------------------------------------------------------------------
(* Properties.                                                             *)

PolicyGreen == verdict = "green" /\ target # "chart-schema"

\* Whatever the policies and the fixtures have become: as long as chart-policy is green, the
\* rules for images and kinds decide as their probes ask.  Pinned images pass and five kinds of
\* others are denied in containers; the two other lists are still looked at, which a bare
\* image shows, and what else is denied there may be lost; the workload kinds pass and the
\* three that are probed are denied.  Of each rule no more is shown than that it denies
\* something of the hostile chart.
RulesGuarded ==
    PolicyGreen =>
        /\ {"digest", "tag and digest"} \cap deny["images"] = {}
        /\ Images.containers \ {"mutable tag"} \subseteq deny["images"]
        /\ {"init bare", "ephemeral bare"} \subseteq deny["images"]
        /\ {"StatefulSet", "Job", "CronJob"} \cap deny["kinds"] = {}
        /\ {"DaemonSet", "Pod", "ReplicaSet"} \subseteq deny["kinds"]
        /\ \A r \in Rules : deny[r] \cap text["hostile"] # {}

\* A mark that depends on some values, or on the lack of some, not on both.
Seen(e) == e.with = {} \/ e.without = {}

\* A green ci means that with each combination of its four conditional values the golden chart
\* renders, fits the schemas and passes every rule, though it was rendered with none and with
\* all of them only, and though the values may no longer switch a part on.  Excepted is what
\* shows with one value and without another: neither render has it.
ChartAdmissible ==
    verdict = "green" /\ target = "ci" =>
        \A values \in SUBSET Conditional :
            LET marks == {e.mark : e \in {f \in Showing(values) : Seen(f)}}
            IN  marks \cap {"invalid", "unrenderable"} = {} /\ Denying(Rules, marks) = {}

\* A tool that breaks down is never taken for a denial that was expected.
FailureIsNoDenial == verdict = "green" => ~fault

\* The charts, policies, probes and expectations of the repository agree: without an
\* edit only a tool that breaks down makes these gates red.
ExpectationsAgree == verdict = "red" /\ edits = 0 => fault

\* What a tenant chart must be denied according to ADR-repo/0002.
Dangerous ==
    {"Secret", "Role", "RoleBinding", "token", "LoadBalancer", "NodePort", "hostPath",
     "host namespaces", "privileged", "SYS_ADMIN", "writable root", "no limits"}

\* The policies that chart-policy accepts deny all of it.
DangerousDenied == PolicyGreen => Dangerous \subseteq UNION {deny[r] : r \in Rules}
=============================================================================
