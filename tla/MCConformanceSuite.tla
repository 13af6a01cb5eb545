------------------------- MODULE MCConformanceSuite -------------------------
(* Files that pass, and every set of files one change away from them: one  *)
(* more, one other or one missing fixture, another registry, another live  *)
(* document, another trace, vector or decision.                            *)
EXTENDS ConformanceSuite

MCSchemas == {"workload_manifest", "workload_submitted_data", "event_envelope", "lease",
              "usage_receipt", "reason_adjudication", "settlement_batch", "capability"}
MCProductionSchemas == {"workload_manifest", "lease", "reason_adjudication"}
MCC0Schemas == {"event_envelope"}
MCC0NegativeError == [c0 |-> "enum"]

Fixture(id, category, schemaId, errors, violation, instance) ==
    [wrapped |-> TRUE, tainted |-> FALSE, fixtureId |-> id, category |-> category,
     schemaId |-> schemaId, errors |-> errors, instance |-> instance,
     expected |-> [schemaValid |-> errors = {}, violation |-> violation], asserted |-> {}]

Plain(data) == [times |-> << >>, data |-> data]
Envelope(data) == [times |-> [time |-> 1, expiresat |-> 2], data |-> data, subject |-> "w",
                   described |-> "submitted"]

Lease(status, by, activated, end, reason, granted, seconds, disconnected) ==
    [times |-> << >>, status |-> status, generation |-> 1, issuedAt |-> 0, activateBy |-> by,
     activatedAt |-> activated, renewalDeadline |-> Absent, expiresAt |-> end,
     leaseDurationSeconds |-> 2, maximumDisconnectedSeconds |-> disconnected, reason |-> reason,
     activationGrant |-> [generation |-> 1, grantedAt |-> granted,
                          remainingDurationSeconds |-> seconds]]
GoodLease == Lease("active", 2, 1, 3, Absent, 1, 2, 1)

Receipt(outcome, code, ended) ==
    [times |-> ("interval/startedAt" :> 1 @@ "interval/endedAt" :> ended @@ "recordedAt" :> 2),
     outcome |-> outcome, code |-> code]

Adjudication(by, code, fault, disposition) ==
    [times |-> << >>, adjudicatorId |-> by, providerId |-> "p", status |-> "confirmed",
     determined |-> code, providerFault |-> fault, settlementDisposition |-> disposition,
     policyOutcome |-> "allow"]

Batch(start, deltas) == [times |-> << >>, start |-> start, end |-> 2, deltas |-> deltas]
Capability(drain) == [times |-> << >>, drain |-> drain]

Entry1(code, category, targets, outcomes) ==
    [code |-> code, category |-> category, appliesTo |-> targets, usageOutcomes |-> outcomes,
     providerFault |-> category = "revocation_for_cause"]
GoodRegistry ==
    <<Entry1("OWNER_RECLAIM", "owner_reclaim", {<<"lease", "revoked">>}, {"preempted"}),
      Entry1("TRUST_LOST", "revocation_for_cause", {<<"lease", "revoked">>}, {"failed"}),
      Entry1("LEASE_EXPIRED", "timeout", {<<"lease", "expired">>}, {"lost", "failed"}),
      Entry1("DRAIN_MAINTENANCE", "capacity_reclaim", {<<"capability", "draining">>}, Absent)>>

GoodFiles ==
    <<Fixture("manifest", "positive", "workload_manifest", {}, Absent, Plain({<<"workloadId", "w">>})),
      Fixture("broken", "negative", "workload_manifest", {"required"}, Absent, Plain({})),
      Fixture("data", "positive", "workload_submitted_data", {}, Absent, Plain({<<"workloadId", "w">>})),
      Fixture("envelope", "positive", "event_envelope", {}, Absent, Envelope({<<"workloadId", "w">>})),
      Fixture("c0", "negative", "event_envelope", {"enum"}, Absent, Envelope({})),
      Fixture("lease", "positive", "lease", {}, Absent, GoodLease),
      Fixture("expired", "timeout", "lease", {}, Absent,
              Lease("expired", 2, 1, 3, "LEASE_EXPIRED", 1, 2, 1)),
      Fixture("reclaim", "retry", "usage_receipt", {}, Absent, Receipt("preempted", "OWNER_RECLAIM", 2)),
      Fixture("lost", "revocation", "usage_receipt", {}, Absent, Receipt("failed", "TRUST_LOST", 2)),
      Fixture("rejected", "failure", "settlement_batch", {}, Absent, Batch(1, <<3, -2, -1>>)),
      Fixture("ruling", "positive", "reason_adjudication", {}, Absent,
              Adjudication("a", "TRUST_LOST", TRUE, "penalty_review"))>>

GoodLive ==
    [commands |-> <<[action |-> "activate", classification |-> "external_command",
                     apiAction |-> "activate", requiresExpectedGeneration |-> TRUE],
                    [action |-> "expire", classification |-> "timer_trigger",
                     apiAction |-> Absent, requiresExpectedGeneration |-> TRUE]>>,
     classifications |-> {"external_command", "timer_trigger"},
     registered |-> [machineId |-> "compute.lease.v1", operationId |-> "transitionLease",
                     requestBody |-> "Lease"],
     machine |-> [machineId |-> "compute.lease.v1", actions |-> {"activate", "expire"}],
     operation |-> [operationId |-> "transitionLease", actions |-> {"activate"}, requestBody |-> "Lease"],
     bodies |-> [Lease |-> [required |-> {"authorizationDecisionId", "reason", "expectedGeneration"},
                            minimum |-> 1, challenge |-> TRUE],
                 Provider |-> [required |-> {"authorizationDecisionId", "reason"},
                               minimum |-> Absent, challenge |-> FALSE]],
     trace |-> [says |-> [interface |-> "workload.submit", request |-> "manifest"],
                documents |-> [interface |-> "workload.submit", request |-> "manifest"],
                governed |-> {<<"interface", "workload.submit">>}, event |-> "submitted",
                fixtures |-> [positiveManifest |-> "manifest", negativeManifest |-> "broken",
                              positiveEventData |-> "data", positiveEventEnvelope |-> "envelope"]],
     adjudication |-> [says |-> "adjudication", documents |-> "adjudication", fixture |-> "ruling"]]

----------------------------------------------------------------------------
\* Leases around the edges of every rule, unreadable times included.
Leases ==
    {Lease("active", by, a, e, Absent, g, n, d) :
        by \in {1, 2, Unreadable}, a \in {Absent, 1, 2, Unreadable}, e \in {2, 3, Unreadable},
        g \in {-1, 0, 1, 2, Unreadable}, n \in {1, 2}, d \in {0, 2}}
    \cup {Lease("revoked", 2, 1, 3, r, 1, 2, 1) : r \in {"OWNER_RECLAIM", "LEASE_EXPIRED", Absent}}

Receipts == {Receipt(o, c, t) : o \in {"preempted", "failed", "lost"}, t \in {1, 3},
    c \in {"OWNER_RECLAIM", "TRUST_LOST", "DRAIN_MAINTENANCE", "UNKNOWN", Absent}}
Others ==
    {<<"reason_adjudication", Adjudication(a, c, f, d)>> : a \in {"a", "p"}, f \in BOOLEAN,
        c \in {"TRUST_LOST", "OWNER_RECLAIM", "DRAIN_MAINTENANCE"}, d \in {"penalty_review", "none"}}
    \cup {<<"settlement_batch", Batch(b, d)>> : b \in {2, 3},
        d \in {<<1, -1>>, <<1, 1, -1>>, <<1, Unreadable>>}}
    \cup {<<"capability", Capability(d)>> : d \in {Absent, "DRAIN_MAINTENANCE", "TRUST_LOST"}}

\* More fixtures, and the fixtures that the loop is to reject.
Extra == [Fixture("extra", "failure", "lease", {}, Absent, GoodLease) EXCEPT !.category = "negative"]
Bad ==
    {[Extra EXCEPT !.wrapped = FALSE], [Extra EXCEPT !.tainted = TRUE],
     [Extra EXCEPT !.fixtureId = "lease"], [Extra EXCEPT !.fixtureId = "manifest"],
     [Extra EXCEPT !.schemaId = "unknown"], [Extra EXCEPT !.expected.schemaValid = FALSE],
     [Extra EXCEPT !.errors = {"required"}], [Extra EXCEPT !.fixtureId = "c0"],
     [Extra EXCEPT !.asserted = {[observed |-> "active", expected |-> "revoked"]}],
     [Extra EXCEPT !.expected.violation = {"generation"}],
     [Extra EXCEPT !.errors = {"required"}, !.expected.schemaValid = FALSE],
     [Extra EXCEPT !.expected.violation = {"window", "cap"}, !.instance = Lease("active", 2, 1, 3, Absent, 2, 2, 1)],
     [Extra EXCEPT !.expected.violation = {"bound"}, !.instance = Lease("active", 2, 1, 3, Absent, 2, 2, 1)],
     [Extra EXCEPT !.expected.violation = {"ordering"}, !.instance = Lease("active", 2, 1, 3, Absent, 2, 2, 1)]}

ExtraInstances ==
    {[Extra EXCEPT !.instance = l] : l \in Leases}
    \cup {[Extra EXCEPT !.schemaId = "usage_receipt", !.instance = r] : r \in Receipts}
    \cup {[Extra EXCEPT !.schemaId = o[1], !.instance = o[2]] : o \in Others}

\* The changes of a case, a function from what is changed to its new value.
\* A fixture is a change of the file at its position or goes in after it.
Replaced ==
    {4 :> [GoodFiles[4] EXCEPT !.instance = e] : e \in
        {Envelope({}), Envelope({<<"workloadId", "w">>, <<"purpose", "private">>}),
         Envelope({<<"purpose", "private">>}), Envelope({<<"workloadId", "v">>})}}
    \cup {i :> [GoodFiles[i] EXCEPT !.category = c] : i \in DOMAIN GoodFiles,
                                                     c \in {"positive", "failure"}}
    \cup {1 :> [GoodFiles[1] EXCEPT !.instance = Plain({}), !.errors = {"required"}]
            @@ 3 :> [GoodFiles[3] EXCEPT !.instance = Plain({}), !.errors = {"required"}]
            @@ 4 :> [GoodFiles[4] EXCEPT !.instance = [Envelope(d) EXCEPT !.subject = Absent]] :
                d \in {{}, {<<"purpose", "private">>}}}

Registries ==
    {[GoodRegistry EXCEPT ![i].category = c] : i \in DOMAIN GoodRegistry,
         c \in {"owner_reclaim", "normal", "other"}}
    \cup {[GoodRegistry EXCEPT ![i].usageOutcomes = o] : i \in DOMAIN GoodRegistry,
             o \in {Absent, {"preempted"}, {"preempted", "failed"}, {"failed"}}}
    \cup {[GoodRegistry EXCEPT ![i].appliesTo = {}] : i \in DOMAIN GoodRegistry}
    \cup {Append(GoodRegistry, GoodRegistry[i]) : i \in DOMAIN GoodRegistry}

Lives ==
    {[GoodLive EXCEPT !.commands[1].apiAction = a] : a \in {Absent, "start"}}
    \cup {[GoodLive EXCEPT !.commands[1].action = a] : a \in {"expire", "start"}}
    \cup {[GoodLive EXCEPT !.commands[2].classification = c] : c \in {"external_command", "other"}}
    \cup {[GoodLive EXCEPT !.commands[2].requiresExpectedGeneration = FALSE],
          [GoodLive EXCEPT !.commands = Append(@, [GoodLive.commands[2] EXCEPT !.action = "renew"])],
          [GoodLive EXCEPT !.machine.actions = @ \cup {"renew"}],
          [GoodLive EXCEPT !.machine.machineId = "compute.offer.v1"],
          [GoodLive EXCEPT !.registered.machineId = "compute.offer.v1"],
          [GoodLive EXCEPT !.registered.requestBody = "Provider"],
          [GoodLive EXCEPT !.operation.requestBody = "Provider"],
          [GoodLive EXCEPT !.operation.operationId = "other"],
          [GoodLive EXCEPT !.operation.actions = {}],
          [GoodLive EXCEPT !.operation.actions = @ \cup {"renew"}],
          [GoodLive EXCEPT !.bodies["Lease"].required = {"authorizationDecisionId", "reason"}],
          [GoodLive EXCEPT !.bodies["Lease"].minimum = 0],
          [GoodLive EXCEPT !.bodies["Lease"].challenge = FALSE],
          [GoodLive EXCEPT !.trace.documents.request = "offer"],
          [GoodLive EXCEPT !.trace.says.interface = "other", !.trace.documents.interface = "other"],
          [GoodLive EXCEPT !.trace.event = "changed"],
          [GoodLive EXCEPT !.trace.fixtures["positiveManifest"] = "broken"],
          [GoodLive EXCEPT !.trace.fixtures["positiveManifest"] = "none"],
          [GoodLive EXCEPT !.adjudication.documents = "receipt"],
          [GoodLive EXCEPT !.adjudication.fixture = "lease"]}

----------------------------------------------------------------------------
\* Traces of three events of one scope around MaxExact = 4, with what either
\* consumer answers for expectations; the same sequence with and without a
\* point; expiries of every form, before, at and after the time of observation
\* and within its millisecond; and others whose first case differs.
Event(id, key, n, t) == [scope |-> "s", id |-> id, key |-> key, sequence |-> n, expiresat |-> t]
Plainly(n) == [n |-> n, point |-> FALSE]
MCMaxExact == 4
MCMillisecond == 2
MCObservationTime == 4

Text(at) == [at |-> at, read |-> Languages]
Expiries == {Absent} \cup [at : 3..6, read : SUBSET Languages]

EventTraces ==
    {<<Event("a", "a", Plainly(n), Absent), Event(i, i, Plainly(o), Absent), Event(j, j, Plainly(p), Absent)>> :
        n \in {2, 3, 4, 6}, o \in 3..7, p \in {4, 5, 6, 8}, i \in {"a", "b"}, j \in {"a", "b", "c"}}
    \cup {<<Event("a", "a", [n |-> n, point |-> p], Absent), Event(i, "b", [n |-> o, point |-> q], Absent)>> :
             n \in {3, 6}, o \in {3, 4, 7, 8}, p \in BOOLEAN, q \in BOOLEAN, i \in {"a", "b"}}
    \cup {<<Event("a", "a", Plainly(1), t), Event(i, k, Plainly(o), u)>> : t \in {Absent, Text(6), Text(5), Text(2)},
             o \in {1, 2}, u \in Expiries, i \in {"a", "b"}, k \in {"a", "b"}}

Answers(events, Consumer(_, _)) == FoldLeft(Consumer, Empty, events).answers

TraceOf(events, answers, name) ==
    [cases |-> [i \in DOMAIN events |->
                    [id |-> IF i = 1 THEN name ELSE "next", event |-> events[i], expected |-> answers[i]]],
     expectedAppliedCount |-> Cardinality({i \in DOMAIN answers : answers[i] = "applied"})]

GoodTrace == LET e == <<Event("a", "a", Plainly(1), Absent), Event("b", "b", Plainly(2), Text(6))>>
             IN  TraceOf(e, Answers(e, InPython), "first")

Traces ==
    {TraceOf(e, Answers(e, InPython), "first") : e \in EventTraces}
    \cup {TraceOf(e, Answers(e, InJavaScript), "first") : e \in EventTraces}
    \cup {[GoodTrace EXCEPT !.cases[1].id = "next"], [GoodTrace EXCEPT !.expectedAppliedCount = 3],
          [GoodTrace EXCEPT !.cases = << >>, !.expectedAppliedCount = 0]}

Vector(time, start, end, revoked, valid, may) ==
    [time |-> time, start |-> start, end |-> end, revokedAt |-> revoked, valid |-> valid,
     expectedCryptographicValidity |-> TRUE, expectedNewAuthorization |-> may]
Vectors ==
    {{Vector(t, s, 3, r, v, m)} : t \in {1, 2, 3, Unreadable}, s \in {2, 3}, r \in {Absent, 2, 3, Unreadable},
                                  v \in BOOLEAN, m \in BOOLEAN}
    \cup {{Vector(t, 1, 2, Absent, TRUE, m), Vector(t, 2, 3, Absent, TRUE, n)} :
             t \in 1..3, m \in BOOLEAN, n \in BOOLEAN}

MCRequiredFields == {"criticality", "budgetCeiling"}
BaseManifest ==
    [fields |-> MCRequiredFields, workloadClass |-> "opportunistic_task", criticality |-> "experimental",
     objectives |-> FALSE, vmImage |-> FALSE, tightlyCoupled |-> FALSE, networkProfile |-> FALSE,
     preemptible |-> TRUE, backendPreferences |-> {"task"}]
Manifests ==
    {[BaseManifest EXCEPT !.preemptible = FALSE], [BaseManifest EXCEPT !.objectives = TRUE],
     [BaseManifest EXCEPT !.networkProfile = TRUE], [BaseManifest EXCEPT !.fields = {"criticality"}],
     [BaseManifest EXCEPT !.criticality = "important"], [BaseManifest EXCEPT !.backendPreferences = {"slurm"}]}

Fresh == [policy |-> "allow", capability |-> "fresh", scope |-> "local"]
Decision(id, patch, context, expected) ==
    [id |-> id, manifestPatch |-> patch, context |-> context, expected |-> expected]
Placed(backends) == [disposition |-> "eligible", backends |-> backends, reasonCodes |-> << >>]

Patch(class) ==
    [workloadClass |-> class, backendPreferences |-> {Defaults[class][1]}, objectives |-> class \in Services,
     vmImage |-> class = "vm", tightlyCoupled |-> class = "hpc_mpi", networkProfile |-> class = "hpc_mpi",
     criticality |-> IF class = "critical_service" THEN "critical" ELSE "experimental",
     preemptible |-> class # "critical_service"]
Place(class) ==
    Decision(class, Patch(class),
             IF class = "critical_service" THEN [Fresh EXCEPT !.scope = "production_local"] ELSE Fresh,
             Placed(<<Defaults[class][1]>>))
Classes == <<"opportunistic_task", "independent_task_graph", "parameter_sweep", "container_service",
             "vm", "hpc_mpi", "ai_inference", "ai_service", "critical_service">>
GoodDecisions ==
    [i \in DOMAIN Classes |-> Place(Classes[i])]
    \o <<Decision("deny", << >>, [Fresh EXCEPT !.policy = "deny"], Refused("denied", "POLICY_DENIED")),
         Decision("timeout", << >>, [Fresh EXCEPT !.policy = "timeout"],
                  Refused("unavailable", "POLICY_UNAVAILABLE")),
         Decision("stale", << >>, [Fresh EXCEPT !.capability = "stale"],
                  Refused("unschedulable", "CAPABILITY_STALE"))>>

MCDecisions ==
    {Append(GoodDecisions, Decision("extra", patch, [policy |-> p, capability |-> c, scope |-> s], e)) :
        patch \in {<< >>, [criticality |-> "critical", objectives |-> TRUE, preemptible |-> FALSE],
                   [workloadClass |-> "critical_service", objectives |-> TRUE,
                    backendPreferences |-> {"openstack", "kubernetes"}]},
        p \in {"allow", "deny", "timeout", "unknown"}, c \in {"fresh", "revoked", "expired"}, s \in {"lab", "external_unapproved"},
        e \in {Placed(<<"task">>), Placed(<<"kubernetes", "openstack">>), Placed(<<"openstack", "kubernetes">>),
               Refused("denied", "POLICY_DENIED"), Refused("denied", "SCOPE_NOT_APPROVED"),
               Refused("unavailable", "POLICY_UNAVAILABLE"),
               Refused("unschedulable", "PRODUCTION_POOL_REQUIRED"),
               Refused("unschedulable", "CAPABILITY_REVOKED")}}
    \cup {RemoveAt(GoodDecisions, i) : i \in DOMAIN GoodDecisions}
    \cup {Append(GoodDecisions, GoodDecisions[1])}

----------------------------------------------------------------------------
MCCases ==
    {[insert |-> <<Len(GoodFiles), f>>] : f \in ExtraInstances}
    \cup {[insert |-> <<i, f>>] : i \in 0..Len(GoodFiles), f \in Bad}
    \cup {[remove |-> i] : i \in DOMAIN GoodFiles}
    \cup {[replace |-> f] : f \in Replaced}
    \cup {[registry |-> r, insert |-> <<Len(GoodFiles), [Extra EXCEPT !.schemaId = "usage_receipt",
                                                                    !.instance = i]>>] :
             r \in Registries, i \in Receipts}
    \cup {[live |-> l] : l \in {GoodLive} \cup Lives}
    \cup {[trace |-> t] : t \in Traces} \cup {[vectors |-> v] : v \in Vectors}
    \cup {[interpreter |-> FALSE]} \cup {[manifest |-> m] : m \in Manifests}
    \cup {[decisions |-> d] : d \in MCDecisions}

MCInputOf(case) ==
    LET Given(field, otherwise) == IF field \in DOMAIN case THEN case[field] ELSE otherwise
        replaced == Given("replace", << >>) @@ GoodFiles
        base == [i \in DOMAIN GoodFiles |-> replaced[i]]
    IN  [files |-> IF "insert" \in DOMAIN case THEN InsertAt(base, case.insert[1] + 1, case.insert[2])
                   ELSE IF "remove" \in DOMAIN case THEN RemoveAt(base, case.remove) ELSE base,
         registry |-> Given("registry", GoodRegistry), live |-> Given("live", GoodLive),
         trace |-> Given("trace", GoodTrace), interpreter |-> Given("interpreter", TRUE),
         vectors |-> Given("vectors", {Vector(2, 2, 3, Absent, TRUE, TRUE)}),
         manifest |-> Given("manifest", BaseManifest), decisions |-> Given("decisions", GoodDecisions)]
============================================================================
