------------------------- MODULE ContractDocuments -------------------------
(***************************************************************************)
(* contracts/validate-contracts.mjs as `npm run test:contracts' runs it on *)
(* a directory of fixtures, the reason registry and the documents that     *)
(* bind the compute interface together: the loop over the fixtures (201-   *)
(* 275), the coverage it requires (277-300), the lease commands (423-448)  *)
(* and the bindings of contracts/validate-contract-bindings.mjs.  The      *)
(* lifecycle part in between is LifecycleValidator.                        *)
(*                                                                         *)
(* The input is fixed when the script starts; failures are collected and   *)
(* the verdict is given at the end.  What AJV says of a fixture is in its  *)
(* record: wrapped (the wrapper is valid), errors (the constraints its     *)
(* instance breaks).  ConformanceSuite runs the script: Open is its start, *)
(* Validate its next-state relation.                                       *)
(***************************************************************************)
EXTENDS SemanticRules

CONSTANTS
    Cases, InputOf(_), \* the inputs: records of files, registry, live documents
                       \* and what the later scripts read
    Schemas,           \* every registered schema
    ProductionSchemas, C0Schemas,
    C0NegativeError    \* fixture id -> the one constraint it may break

ASSUME InputAssumption ==
    \A case \in Cases : LET given == InputOf(case).files IN
        /\ Len(given) \in Nat /\ DOMAIN given = 1..Len(given)
        /\ DOMAIN InputOf(case).registry \subseteq Nat

\* What compute/lease.schema.json requires of an instance that AJV calls valid.
ASSUME LeaseSchemaAssumption ==
    \A case \in Cases : \A i \in DOMAIN InputOf(case).files :
        LET f == InputOf(case).files[i]  l == f.instance  g == l.activationGrant
        IN  (f.schemaId = "lease" /\ f.errors = {}) =>
                /\ {l.issuedAt, l.activateBy, l.expiresAt} \subseteq Int \cup {Unreadable}
                /\ l.activatedAt \in Int \cup {Absent, Unreadable}
                /\ g # Absent => /\ g.grantedAt \in Int \cup {Unreadable}
                                 /\ g.remainingDurationSeconds \in Int

\* The data of an event, whatever JSON value it is, has finitely many fields, and
\* a valid manifest has a workload id.
ASSUME WorkloadSchemaAssumption ==
    \A case \in Cases : \A i \in DOMAIN InputOf(case).files :
        LET f == InputOf(case).files[i]  fields == f.instance.data IN
        f.errors = {} =>
            /\ f.schemaId = "event_envelope" =>
                  IsFiniteSet(fields) /\ \A field \in fields : field = <<field[1], field[2]>>
            /\ f.schemaId = "workload_manifest" =>
                  /\ \E field \in fields : field[1] = "workloadId"
                  /\ \A field \in fields : field[2] # Absent

VARIABLES
    input, pc,
    next,              \* position of the next fixture file
    fixtureIds, categories, positiveCoverage, negativeCoverage,
    failures           \* names of the checks that failed

coverage == <<fixtureIds, categories, positiveCoverage, negativeCoverage>>
documents == <<input, pc, next, coverage, failures>>

Stages == {"registry", "fixtures", "coverage", "commands", "bindings", "verdict",
           "passed", "failed"}
RequiredCategories == {"positive", "negative", "timeout", "retry", "revocation", "failure"}

files == input.files
live  == input.live
file  == files[next]
Valid(f) == f.errors = {}

Open ==
    /\ \E case \in Cases : input = InputOf(case)
    /\ pc = "registry" /\ next = 1
    /\ fixtureIds = {} /\ categories = {}
    /\ positiveCoverage = {} /\ negativeCoverage = {}
    /\ failures = {}

Report(names, stage) == failures' = failures \cup names /\ pc' = stage
Check(rules, stage) == Report(Broken(rules), stage) /\ UNCHANGED <<input, next, coverage>>

----------------------------------------------------------------------------
ValidateRegistry ==
    /\ pc = "registry"
    /\ Check([registry |-> RegistrySound(input.registry)], "fixtures")

(* One fixture file.  Those the loop leaves early by `continue' count for  *)
(* no coverage and are looked at no further.                               *)

\* An institution's name in a common fixture, looked for before anything else.
Tainted(f) == IF f.tainted THEN {"institution"} ELSE {}

RejectWrapper ==
    /\ pc = "fixtures" /\ next <= Len(files)
    /\ ~file.wrapped
    /\ Report(Tainted(file) \cup {"wrapper"}, pc)
    /\ next' = next + 1
    /\ UNCHANGED <<input, coverage>>

\* The skip without the failure, a fault.
SkipDuplicate ==
    /\ pc = "fixtures" /\ next <= Len(files)
    /\ file.wrapped /\ file.fixtureId \in fixtureIds
    /\ Report(Tainted(file), pc)
    /\ next' = next + 1
    /\ UNCHANGED <<input, coverage>>

RejectDuplicate ==
    /\ pc = "fixtures" /\ next <= Len(files)
    /\ file.wrapped /\ file.fixtureId \in fixtureIds
    /\ Report(Tainted(file) \cup {"duplicate"}, pc)
    /\ next' = next + 1
    /\ UNCHANGED <<input, coverage>>

Admit(f) ==
    /\ pc = "fixtures" /\ next <= Len(files)
    /\ f.wrapped /\ f.fixtureId \notin fixtureIds
    /\ fixtureIds' = fixtureIds \cup {f.fixtureId}
    /\ categories' = categories \cup {f.category}
    /\ next' = next + 1
    /\ UNCHANGED input

RejectSchema ==
    /\ Admit(file) /\ file.schemaId \notin Schemas
    /\ Report(Tainted(file) \cup {"schemaId"}, pc)
    /\ UNCHANGED <<positiveCoverage, negativeCoverage>>

\* A text expected of a violation is the set of the messages that contain it,
\* and excuses all violations of its fixture.
AsExpected(f, violations) ==
    IF f.expected.violation = Absent THEN Valid(f) => violations = {}
    ELSE Valid(f) /\ f.expected.violation \cap violations # {}

FixtureRules(f, registry) ==
    [schemaValid |-> Valid(f) = f.expected.schemaValid,
     intended    |-> f.fixtureId \in DOMAIN C0NegativeError =>
                         f.errors = {C0NegativeError[f.fixtureId]},
     semantic    |-> AsExpected(f, IF Valid(f) THEN Violations(f.schemaId, f.instance, registry)
                                               ELSE {}),
     asserted    |-> \A pair \in f.asserted : pair.observed = pair.expected]

Examine ==
    /\ Admit(file) /\ file.schemaId \in Schemas
    /\ positiveCoverage' = positiveCoverage \cup
           {s \in {file.schemaId} : file.category = "positive" /\ Valid(file)}
    /\ negativeCoverage' = negativeCoverage \cup
           {s \in {file.schemaId} : file.category = "negative" /\ ~Valid(file)}
    /\ Report(Tainted(file) \cup Broken(FixtureRules(file, input.registry)), pc)

\* One file too early, a fault.
EndBeforeLast ==
    /\ pc = "fixtures" /\ next >= Len(files)
    /\ Check(<< >>, "coverage")

EndOfFixtures ==
    /\ pc = "fixtures" /\ next > Len(files)
    /\ Check(<< >>, "coverage")

CoverageRules ==
    [production |-> ProductionSchemas \subseteq positiveCoverage,
     c0         |-> C0Schemas \subseteq positiveCoverage \cap negativeCoverage,
     categories |-> RequiredCategories \subseteq categories]

CheckCoverage == pc = "coverage" /\ Check(CoverageRules, "commands")

----------------------------------------------------------------------------
(* The registry of lease commands against the table and the API.  live is  *)
(* what the scripts read of the documents: the commands with the operation *)
(* and body they are registered for, the table, the API's operation with   *)
(* its actions and body, the bodies by name, and the trace, a function     *)
(* from what it says to the value that the document named by it holds.     *)

Commands == {live.commands[i] : i \in DOMAIN live.commands}
ExternalActions == {c.apiAction : c \in {d \in Commands : d.classification = "external_command"}}
Body(name) == IF name \in DOMAIN live.bodies THEN live.bodies[name]
              ELSE [required |-> {}, minimum |-> Absent, challenge |-> FALSE]
RegisteredBody == Body(live.registered.requestBody)

CommandRules ==
    [once       |-> \A i, j \in DOMAIN live.commands :
                        live.commands[i].action = live.commands[j].action => i = j,
     classified |-> \A c \in Commands : c.classification \in live.classifications,
     actions    |-> {c.action : c \in Commands} = live.machine.actions,
     external   |-> \A c \in Commands :
                        (c.classification = "external_command") = (c.apiAction # Absent),
     expects    |-> \A c \in Commands : c.requiresExpectedGeneration,
     operation  |-> live.operation.operationId = live.registered.operationId,
     enum       |-> live.operation.actions = ExternalActions,
     body       |-> {"authorizationDecisionId", "reason", "expectedGeneration"}
                        \subseteq RegisteredBody.required,
     minimum    |-> RegisteredBody.minimum = 1]

CheckCommands == pc = "commands" /\ Check(CommandRules, "bindings")

(* validateLeaseCommandBindings and validateReasonAdjudicationBinding.     *)

\* The first half only, a fault.
BoundByName == live.operation.operationId = live.registered.operationId

Bound ==
    /\ live.operation.operationId = live.registered.operationId
    /\ live.operation.requestBody = live.registered.requestBody

CommandsBound ==
    /\ live.registered.machineId = live.machine.machineId
    /\ live.machine.machineId = "compute.lease.v1"
    /\ Bound
    /\ "expectedGeneration" \in RegisteredBody.required
    /\ RegisteredBody.minimum = 1 /\ RegisteredBody.challenge

(* validateWorkloadSubmitTrace: the trace is the governed one and says of  *)
(* each live document what that document says; the four fixtures it names. *)
(* fixtureById is a Map: a later file of an id wins.                       *)

TraceBound ==
    /\ live.trace.says = live.trace.documents
    /\ live.trace.governed \subseteq {<<field, live.trace.says[field]>> :
                                          field \in DOMAIN live.trace.says}

FixtureById(id) ==
    LET at == {i \in DOMAIN files : files[i].fixtureId = id}
    IN  IF at = {} THEN Absent ELSE files[CHOOSE i \in at : \A j \in at : j <= i]

Names(kind) == FixtureById(live.trace.fixtures[kind])

TracedFixtures ==
    [positiveManifest |-> <<"workload_manifest", TRUE>>,
     negativeManifest |-> <<"workload_manifest", FALSE>>,
     positiveEventData |-> <<"workload_submitted_data", TRUE>>,
     positiveEventEnvelope |-> <<"event_envelope", TRUE>>]

FixturesTraced ==
    \A kind \in DOMAIN TracedFixtures :
        /\ Names(kind) # Absent
        /\ <<Names(kind).schemaId, Names(kind).expected.schemaValid>> = TracedFixtures[kind]

\* An instance's data is the set of its fields, as pairs of name and value; a
\* workload id that is not there is `undefined', and so is its text in a subject.
WorkloadId(kind) ==
    LET ids == {field[2] : field \in {f \in Names(kind).instance.data : f[1] = "workloadId"}}
    IN  IF ids = {} THEN Absent ELSE CHOOSE id \in ids : TRUE

\* Some field instead of one, a fault.
HasData(data) == data # {}
Bounded(data) == Cardinality(data) = 1

EventNamesManifest ==
    LET envelope == Names("positiveEventEnvelope").instance IN
    /\ envelope.described = live.trace.event
    /\ WorkloadId("positiveEventEnvelope") = WorkloadId("positiveEventData")
    /\ WorkloadId("positiveEventData") = WorkloadId("positiveManifest")
    /\ Bounded(envelope.data)
    /\ envelope.subject = WorkloadId("positiveManifest")

AdjudicationBound ==
    /\ live.adjudication.says = live.adjudication.documents
    /\ LET f == FixtureById(live.adjudication.fixture) IN
          f # Absent /\ f.schemaId = "reason_adjudication" /\ f.instance.status = "confirmed"

BindingRules ==
    [trace    |-> TraceBound,
     fixtures |-> FixturesTraced,
     event    |-> FixturesTraced => EventNamesManifest,
     commands |-> CommandsBound,
     adjudication |-> AdjudicationBound]

CheckBindings == pc = "bindings" /\ Check(BindingRules, "verdict")

GiveVerdict ==
    /\ pc = "verdict"
    /\ pc' = IF failures = {} THEN "passed" ELSE "failed"
    /\ UNCHANGED <<input, next, coverage, failures>>

Validate ==
    \/ ValidateRegistry
    \/ RejectWrapper \/ RejectDuplicate \/ RejectSchema \/ Examine \/ EndOfFixtures
    \/ CheckCoverage \/ CheckCommands \/ CheckBindings \/ GiveVerdict

----------------------------------------------------------------------------
TypeOK ==
    /\ pc \in Stages
    /\ next \in 1..Len(files) + 1
    /\ fixtureIds \subseteq {files[i].fixtureId : i \in 1..next - 1}
    /\ categories \subseteq {files[i].category : i \in 1..next - 1}
    /\ positiveCoverage \cup negativeCoverage \subseteq Schemas
    /\ pc \in {"passed", "failed"} => next = Len(files) + 1

Covered(schemaId, category, valid) ==
    \E i \in DOMAIN files : files[i].schemaId = schemaId /\ files[i].category = category
                                /\ Valid(files[i]) = valid

FixtureCorrect(f, registry) ==
    /\ f.wrapped /\ ~f.tainted /\ f.schemaId \in Schemas
    /\ \A name \in DOMAIN FixtureRules(f, registry) : FixtureRules(f, registry)[name]

\* A directory that ought to pass, whatever the order of its files.
DirectoryCorrect ==
    /\ RegistrySound(input.registry)
    /\ \A i \in DOMAIN files :
         /\ FixtureCorrect(files[i], input.registry)
         /\ \A j \in DOMAIN files : files[i].fixtureId = files[j].fixtureId => i = j
    /\ \A s \in ProductionSchemas \cup C0Schemas : Covered(s, "positive", TRUE)
    /\ \A s \in C0Schemas : Covered(s, "negative", FALSE)
    /\ \A c \in RequiredCategories : \E i \in DOMAIN files : files[i].category = c

DocumentFailures == {"once", "classified", "actions", "external", "expects", "operation", "enum",
                     "body", "minimum", "trace", "fixtures", "event", "commands", "adjudication"}

\* The verdict does not depend on the order the directory is walked in, nor on
\* what the loop skips after a `continue' (lines 221-236): a run passes only a
\* directory that is correct as a whole, and fails no other.
VerdictIsRight ==
    /\ pc = "passed" => DirectoryCorrect
    /\ pc = "failed" => ~DirectoryCorrect \/ failures \cap DocumentFailures # {}

Accepted(schemaId) ==
    {f.instance : f \in {files[i] : i \in {n \in DOMAIN files :
        files[n].schemaId = schemaId /\ Valid(files[n]) /\ files[n].expected.violation = Absent}}}

\* No timestamp that Date.parse cannot read, and no absent one, lets a grant
\* out of its lease: NaN passes the comparisons of lines 138 and 144, and
\* compareOrdered (62-73) sees neighbours only.
GrantFits(l) ==
    l.activationGrant # Absent =>
        /\ \A t \in {l.issuedAt, l.activateBy, l.expiresAt, GrantedAt(l)} : Readable(t)
        /\ l.issuedAt <= GrantedAt(l)
        /\ GrantedAt(l) + l.activationGrant.remainingDurationSeconds <= l.expiresAt
        /\ l.activatedAt # Absent =>
              GrantedAt(l) <= l.activatedAt /\ l.activatedAt <= l.activateBy

\* An eviction is settled as one: a receipt that names a lease's preemption
\* code says so, by a rule on the registry (175) and one on the receipt (133)
\* together, and a receipt says so under no code of another category (134).
EvictionNamed(r) ==
    \A i \in DOMAIN input.registry : input.registry[i].code = r.code =>
        LET entry == input.registry[i] IN
        /\ r.outcome = "preempted" => entry.category \in PreemptionCategories
        /\ (entry.category \in PreemptionCategories /\ LeaseTargets(entry) # {})
               => r.outcome = "preempted"

AcceptedInstancesHold ==
    pc = "passed" =>
        /\ \A l \in Accepted("lease") : GrantFits(l)
        /\ \A r \in Accepted("usage_receipt") : EvictionNamed(r)

\* After a pass, every action a client may send leads through a registered
\* command to an action of the table, and the body the operation really takes
\* is fenced by a generation: lines 439-447 look at the body the registry
\* names, and only validateLeaseCommandBindings (55-62) ties it to the API.
EveryCommandIsFenced ==
    pc = "passed" =>
        /\ \A a \in live.operation.actions :
              \E c \in Commands : c.apiAction = a /\ c.action \in live.machine.actions
        /\ \A a \in live.machine.actions : Cardinality({c \in Commands : c.action = a}) = 1
        /\ "expectedGeneration" \in Body(live.operation.requestBody).required
        /\ Body(live.operation.requestBody).minimum = 1

\* After a pass, the published event is a reference and nothing else: its one
\* field is the workload id of a manifest that AJV found valid.  `undefined'
\* equals `undefined' (bindings, 44), so the loop's verdict on the manifest
\* (239) is needed for it.
EventIsReference ==
    pc = "passed" =>
        LET manifest == Names("positiveManifest") IN
        /\ Valid(manifest)
        /\ \E id \in {field[2] : field \in manifest.instance.data} :
              Names("positiveEventEnvelope").instance.data = {<<"workloadId", id>>}

============================================================================
