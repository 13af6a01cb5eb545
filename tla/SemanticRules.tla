--------------------------- MODULE SemanticRules ---------------------------
(***************************************************************************)
(* What contracts/validate-contracts.mjs asks of a schema-valid instance:  *)
(* validateSemantics, validateReasonRules, and of the reason registry,     *)
(* validateRegistry.  Each message that these can print is a rule with a   *)
(* name; those of the neighbours of all timelines are one, `ordering', and *)
(* so are those of an entry of the registry.                               *)
(*                                                                         *)
(* An instance is a record of what its schema's rules read; times is the   *)
(* function from JSON pointers to timestamps of LeaseRules.  A registry is *)
(* a sequence of entries and a target such as lease:revoked a pair; how a  *)
(* code is spelled is left out.                                            *)
(***************************************************************************)
EXTENDS LeaseRules, FiniteSets, SequencesExt

ASSUME AbsentAssumption == Absent # {"preempted"}

Unlisted == [category |-> "", appliesTo |-> {}, usageOutcomes |-> Absent, providerFault |-> FALSE]

PreemptionCategories == {"owner_reclaim", "capacity_reclaim", "drain_deadline"}
Categories == PreemptionCategories \cup {"normal", "timeout", "revocation_for_cause", "fault"}

Broken(rules) == {name \in DOMAIN rules : ~rules[name]}

----------------------------------------------------------------------------
(* The registry.  reasonsByCode is a Map: a later entry of a code wins.    *)
Entries(registry, code) == {i \in DOMAIN registry : registry[i].code = code}

Entry(registry, code) ==
    IF Entries(registry, code) = {} THEN Unlisted
    ELSE registry[CHOOSE i \in Entries(registry, code) :
                      \A j \in Entries(registry, code) : j <= i]

Registered(registry, code) == Entries(registry, code) # {}
LeaseTargets(entry) == {target[2] : target \in {t \in entry.appliesTo : t[1] = "lease"}}

\* Without its last rule, a fault.
EntryClassified(entry) == entry.category \in Categories /\ entry.appliesTo # {}

EntrySound(entry) ==
    /\ entry.category \in Categories /\ entry.appliesTo # {}
    /\ (entry.category \in PreemptionCategories /\ LeaseTargets(entry) # {})
           => entry.usageOutcomes = {"preempted"}

RegistrySound(registry) ==
    /\ \A i, j \in DOMAIN registry : registry[i].code = registry[j].code => i = j
    /\ \A i \in DOMAIN registry : EntrySound(registry[i])

----------------------------------------------------------------------------
Timelines ==
    [authorization_decision |-> {<<"issuedAt", "expiresAt">>},
     signed_object_envelope |-> {<<"signedAt", "expiresAt">>},
     event_envelope         |-> {<<"time", "expiresat">>},
     capability             |-> {<<"observedAt", "expiresAt">>, <<"drain/requestedAt", "observedAt">>},
     workload_manifest      |-> {<<"submittedAt", "schedule/deadline">>},
     offer                  |-> {<<"availableFrom", "expiresAt">>},
     usage_receipt          |-> {<<"interval/startedAt", "interval/endedAt", "recordedAt">>},
     placement              |-> {<<"issuedAt", "expiresAt">>},
     path                   |-> {<<"observedAt", "expiresAt">>},
     reservation            |-> {<<"issuedAt", "activateBy", "expiresAt">>, <<"issuedAt", "terminalAt">>},
     kms_operation_grant    |-> {<<"notBefore", "expiresAt">>, <<"notBefore", "revocation/revokedAt">>},
     settlement_batch       |-> {<<"window/startedAt", "window/endedAt", "createdAt", "disputeDeadline">>},
     ledger_commitment      |-> {<<"submittedAt", "finalizedAt">>},
     dispute_case           |-> {<<"openedAt", "responseDueAt">>, <<"openedAt", "resolvedAt">>}]

TimeAt(d, pointer) == IF pointer \in DOMAIN d.times THEN d.times[pointer] ELSE Absent

TimelineSound(schemaId, d) ==
    schemaId \in DOMAIN Timelines =>
        \A pointers \in Timelines[schemaId] :
            Ordered([i \in DOMAIN pointers |-> TimeAt(d, pointers[i])])

LeaseRulesOf(d, registry) ==
    LET g == d.activationGrant
        appliesTo == [c \in {registry[n].code : n \in DOMAIN registry} |-> LeaseTargets(Entry(registry, c))]
    IN  [ordering     |-> TimesSound(d),
         reason       |-> ReasonGiven(d),
         registered   |-> ReasonRegistered(d, appliesTo),
         applies      |-> ReasonApplies(d, appliesTo),
         duration     |-> DurationSound(d),
         disconnected |-> DisconnectedSound(d),
         generation   |-> g # Absent => g.generation = d.generation,
         window       |-> g # Absent => ~GrantExceedsWindow(g, d),
         cap          |-> g # Absent => GrantWithinCap(g, d),
         bound        |-> g # Absent => GrantCoversDisconnected(g, d)]

ReceiptRules(d, registry) ==
    LET entry == Entry(registry, d.code) IN
    [registered |-> d.code # Absent => Registered(registry, d.code),
     consistent |-> entry.usageOutcomes # Absent => d.outcome \in entry.usageOutcomes,
     preemption |-> d.outcome = "preempted" => entry.category \in PreemptionCategories]

AdjudicationRules(d, registry) ==
    LET determined == Entry(registry, d.determined)
        confirmed == d.status = "confirmed"
    IN  [adjudicator |-> d.adjudicatorId # d.providerId,
         determined  |-> confirmed => LeaseTargets(determined) # {},
         fault       |-> confirmed /\ d.providerFault => determined.providerFault,
         penalty     |-> confirmed /\ d.settlementDisposition = "penalty_review" => d.providerFault,
         policy      |-> confirmed => d.policyOutcome = "allow"]

DrainSound(d, registry) ==
    d.drain # Absent => <<"capability", "draining">> \in Entry(registry, d.drain).appliesTo

DurabilityRules(d) ==
    [providers |-> d.minimumHealthyProviders <= d.providers,
     repair    |-> d.repairThreshold <= d.targetHealthyProviders]

\* A delta is a whole number of 10^-9 IRU, or Unreadable.
DeltasSound(d) ==
    /\ \A i \in DOMAIN d.deltas : d.deltas[i] # Unreadable
    /\ FoldSeq(+, 0, d.deltas) = 0

OwnRules(schemaId, d, registry) ==
    CASE schemaId = "lease" -> LeaseRulesOf(d, registry)
      [] schemaId = "usage_receipt" -> ReceiptRules(d, registry)
      [] schemaId = "reason_adjudication" -> AdjudicationRules(d, registry)
      [] schemaId = "capability" -> [drain |-> DrainSound(d, registry)]
      [] schemaId = "path" -> [bandwidth |-> d.available <= d.capacity]
      [] schemaId = "placement" -> DurabilityRules(d)
      [] schemaId = "settlement_batch" ->
            [range |-> d.start <= d.end, balance |-> DeltasSound(d)]
      [] OTHER -> << >>

Violations(schemaId, d, registry) ==
    Broken(OwnRules(schemaId, d, registry))
        \cup Broken([ordering |-> TimelineSound(schemaId, d)])

============================================================================
