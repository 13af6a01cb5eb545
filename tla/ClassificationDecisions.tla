----------------------- MODULE ClassificationDecisions -----------------------
(***************************************************************************)
(* The manifests and decisions of the workload classification scripts:     *)
(* contracts/test-workload-classification.mjs checks the conditional rules *)
(* of the manifest schema on copies of a base manifest, and                *)
(* contracts/test-classification-decision-cases.mjs an oracle of the       *)
(* decision table on a suite of cases.                                     *)
(*                                                                         *)
(* A manifest is a record of the fields those rules read, and the set of   *)
(* the required fields that it has.                                        *)
(***************************************************************************)
EXTENDS LeaseRules, FiniteSets, SequencesExt

CONSTANT RequiredFields

Services == {"container_service", "vm", "ai_service", "critical_service"}

\* The allOf of contracts/compute/workload-manifest.schema.json.
ManifestValid(m) ==
    /\ RequiredFields \subseteq m.fields
    /\ m.workloadClass \in Services => m.objectives
    /\ m.vmImage = (m.workloadClass = "vm")
    /\ m.workloadClass = "hpc_mpi" => m.tightlyCoupled /\ m.networkProfile
    /\ m.criticality \in {"critical", "safety_records_authority"} => m.objectives /\ ~m.preemptible

\* The cases are copies of the base with these changes.
MustBeInvalid(base) ==
    {[base EXCEPT !.fields = @ \ {f}] : f \in RequiredFields}
    \cup {[base EXCEPT !.workloadClass = "container_service"],
          [base EXCEPT !.criticality = "critical", !.objectives = TRUE],
          [base EXCEPT !.workloadClass = "vm", !.objectives = TRUE],
          [base EXCEPT !.workloadClass = "hpc_mpi", !.tightlyCoupled = TRUE]}

MustBeValid(base) ==
    {base, [base EXCEPT !.workloadClass = "container_service", !.objectives = TRUE],
     [base EXCEPT !.workloadClass = "vm", !.vmImage = TRUE, !.objectives = TRUE],
     [base EXCEPT !.workloadClass = "hpc_mpi", !.tightlyCoupled = TRUE, !.networkProfile = TRUE]}

ManifestRulesHold(base) ==
    (\A m \in MustBeValid(base) : ManifestValid(m)) /\ \A m \in MustBeInvalid(base) : ~ManifestValid(m)

----------------------------------------------------------------------------
Defaults ==
    [opportunistic_task |-> <<"task">>, independent_task_graph |-> <<"task">>,
     parameter_sweep |-> <<"task">>, container_service |-> <<"kubernetes">>,
     vm |-> <<"openstack">>, hpc_mpi |-> <<"slurm">>, ai_inference |-> <<"kubernetes">>,
     ai_service |-> <<"kubernetes">>, critical_service |-> <<"kubernetes", "openstack">>]

Dispositions == {"eligible", "denied", "unschedulable", "unavailable"}

Refused(disposition, code) ==
    [disposition |-> disposition, backends |-> << >>, reasonCodes |-> <<code>>]

Backends(m) == SelectSeq(Defaults[m.workloadClass], LAMBDA b : b \in m.backendPreferences)

\* The refusals that apply, in the order in which they are tried.
Refusals(m, context) ==
    LET Refusal(applies, disposition, code) ==
            IF applies THEN <<Refused(disposition, code)>> ELSE << >>
    IN  Refusal(context.policy = "deny", "denied", "POLICY_DENIED")
        \o Refusal(context.policy = "timeout", "unavailable", "POLICY_UNAVAILABLE")
        \o Refusal(context.scope = "external_unapproved", "denied", "SCOPE_NOT_APPROVED")
        \o Refusal(m.criticality = "critical" /\ context.scope # "production_local",
                   "unschedulable", "PRODUCTION_POOL_REQUIRED")
        \o Refusal(context.capability = "stale", "unschedulable", "CAPABILITY_STALE")
        \o Refusal(context.capability = "revoked", "unschedulable", "CAPABILITY_REVOKED")
        \o Refusal(Backends(m) = << >>, "unschedulable", "BACKEND_INCOMPATIBLE")

Eligible(m) == [disposition |-> "eligible", backends |-> Backends(m), reasonCodes |-> << >>]

\* The last refusal instead of the first, a fault.
LastRefusal(m, context) ==
    LET refusals == Refusals(m, context)
    IN  IF refusals = << >> THEN Eligible(m) ELSE Last(refusals)

ExpectedDecision(m, context) ==
    LET refusals == Refusals(m, context)
    IN  IF refusals = << >> THEN Eligible(m) ELSE Head(refusals)

----------------------------------------------------------------------------
\* merge: the patch wins; it takes nothing away.
Merged(base, patch) ==
    [field \in DOMAIN base |-> IF field \in DOMAIN patch THEN patch[field] ELSE base[field]]

CaseSound(base, case) ==
    LET m == Merged(base, case.manifestPatch)
        expected == case.expected
    IN  /\ ManifestValid(m)
        /\ expected.disposition \in Dispositions
        /\ IsInjective(expected.backends) /\ IsInjective(expected.reasonCodes)
        /\ ToSet(expected.backends) \subseteq ToSet(Defaults[m.workloadClass]) \cap m.backendPreferences
        /\ (expected.backends # << >>) = (expected.disposition = "eligible")
        /\ (expected.reasonCodes = << >>) = (expected.disposition = "eligible")
        /\ expected = ExpectedDecision(m, case.context)

EligibleClasses(base, cases) ==
    {Merged(base, c.manifestPatch).workloadClass :
        c \in {d \in ToSet(cases) : d.expected.disposition = "eligible"}}

SuiteSound(base, cases) ==
    /\ \A i, j \in DOMAIN cases : cases[i].id = cases[j].id => i = j
    /\ \A i \in DOMAIN cases : CaseSound(base, cases[i])
    /\ EligibleClasses(base, cases) = DOMAIN Defaults
    /\ {cases[i].expected.disposition : i \in DOMAIN cases} = Dispositions

============================================================================
