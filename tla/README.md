# Verification of the PSDC contract tooling

PSDC's architecture repository is mostly prose, schemas and decision records.
What runs is under `src/contracts`: an executable event consumer (with a twin in
Python) that fixes how events are processed, the scripts that build, attest and
verify the contract bundle, the lifecycle tables with the validator that checks
them, the rules on leases and their activation, and the conformance suite
that runs fixture, trace, key and classification checks one after another. This directory models
that code in TLA+, checks the models with TLC and proves the main results with
TLAPS. Line numbers below are those of the sources; `PROJECT.json` maps every
definition that models code to its lines.

## Inventory

| Component | State | Operations | What is hard | What makes it correct |
|---|---|---|---|---|
| Event consumer, `test-event-delivery.mjs` 16-44, `test-event-delivery.py` 24-54 | `scopes` (last sequence per scope), `seenIds`, `seenKeys` (digest per identity, per key), `applied` | `receive(event)` with seven answers, in two languages | any order, any number of times, any event; three maps that must agree; two languages whose numbers and dates differ | effects at most once, per scope consecutive, the answer "duplicate" exact; the two languages agree |
| Delivery around it (producer, broker; not in the repository, used through the trace and `events/README.md` 24-42) | published, in flight, acknowledged, dead letters | publish, deliver, lose an acknowledgement, retry, quarantine | reordering, redelivery, expiry, bounded retries racing late events | nothing lost silently, nothing dropped without a cause, gaps close |
| Bundle build, `build-contract-bundle.mjs` | the bundle directory, `manifest.json` | check, create, copy each file, write the manifest | concurrent builds, killed builds, sources that change | one build's output, or no manifest; same text, same manifest |
| Bundle attestation, `attest-contract-bundle.mjs` | `attestation.json` | check, verify, exclusive create, sign | two attesters; change between check and signature | one attestation, of what was verified |
| Bundle verification, `verify-contract-bundle.mjs` | none of its own | read manifest, list, read files, read attestation | reads of a tree that others write | accept only one build's output, signed by a trusted key; never reject an intact bundle |
| Toolchain SBOM evidence, `check-toolchain-sbom.mjs` | snapshot, metadata; reads lockfile and dated checks | `--write`, `--refresh`, `--check` | two files written one after the other; lockfile read twice | metadata describes the snapshot it stands beside |
| Lifecycle tables, `state-machines/*.json`, and their validator, `validate-contracts.mjs` 302-391 | a state per object; sets of reachable states | events of 13 tables; the checks and the reachability loop | a check that passes too much; state kept from one table to the next | the verdict is that of the rules; the loop finds the reachable states and ends |
| Lease activation, `validate-contracts.mjs` 136-148, `compute/lease.schema.json` 22-26, `state-machines/lease.machine.json` | the lease document and its signed copies, the requests sent, the worker's timer, last contact and held document | activate, renew, expire, release, revoke, fail; challenge, accept, heartbeat, stop, reboot | two machines; late, lost, repeated and reordered messages | a worker stops before its lease ends, and soon after a revocation it cannot hear of; one grant per generation |
| Semantic and reason-code rules, fixture loop, `validate-contracts.mjs` 62-300 | ids seen, categories, coverage, findings | one fixture after another, with early `continue`s; registry; required coverage | comparisons with absent or unreadable times; rules split over two files; what a `continue` skips | the verdict is that of the whole directory; an accepted lease holds its grant, an accepted receipt its reason |
| Lease commands and bindings, `validate-contracts.mjs` 423-448, `validate-contract-bindings.mjs` | none | checks across registry, table, API and fixtures | two documents name the same body; `undefined` equals `undefined` | every command is fenced by a generation; the event is a reference only |
| Key lifecycle, `test-key-lifecycle.mjs` 16-24; classification, `test-workload-classification.mjs`, `test-classification-decision-cases.mjs` 35-72 | none | decisions on vectors and cases | boundaries of intervals; precedence of refusals | what passes fails closed |
| Conformance suite, `npm run test:contracts` | which script runs | the scripts in their order, joined by `&&` | what one script leaves unchecked another must check | what a pass of the scripts together guarantees |
| Acceptance matrix, schemas and OpenAPI/AsyncAPI documents | none | shape checks, third-party validators | nothing that a state model reaches | - |

The components meet in few places. The consumer meets the transport only through
`receive` and its answer. The three bundle scripts share nothing but the file
system: each is a process of its own, with no lock, which may be run by several
people or jobs at once and killed at any point. The attester and the verifier
share `verifyCandidateContents`. The
scripts of the suite run one after another over the same files, each reading them
anew, and the first that fails ends the suite. Authority and worker of a lease
share only messages and the rules on the signed document. `PROJECT.json` lists each hazard at the line where it bites, with the
properties that would notice, or the reason none covers it yet.

## The models

### `EventEnvelope`, `EventConsumer`, `EffectiveProcessing`

`EventEnvelope` declares the constants (producers, scopes, ids, keys, the set of
events that can arrive, the observation time) and the three composite keys of
lines 23-25. A producer stands for the pair (institution, source). Everything the
consumer does not look at is one field, `data`. The digest that
the maps keep is the canonical text of the event itself (26), so the model lets them
hold the event. Two texts that a language reads as one event are the subject of
`EventTwins`.

`EventConsumer` has the consumer's three maps and counter under the names
`lastSequence` (`scopes` in the code), `seenIds`, `seenKeys`, `applied`. An absent
map entry is `None`. `answer` is the last event and what `receive` returned.
`log`, a history variable, is what each scope applied. `receive` has no `await`
and no callback, so a call is one step. Each return path is one action:
`ReceiveDuplicate` (27-32), `ReceiveIdConflict` (27-29),
`ReceiveIdempotencyConflict` (30-32), `ReceiveExpired` (33), `ReceiveStale` (35),
`ReceiveGap` (36), `Apply` (37-41). `Next` delivers any event at any time: the
consumer must be right whatever the transport does. The Python twin has the same
ladder; its `None` entries and its order of rungs are those modelled. Its numbers
and dates are not JavaScript's: see `EventTwins`.

`EffectiveProcessing` is the abstract specification. Its only state is the log of
effects; an event may take effect if no earlier effect has its identity or key
and it is the direct successor of the last effect of its scope.
`EventConsumer` implements it under the identity mapping of `log`: the maps, which
remember one entry per key, decide as the whole history would.

### `EventDelivery`

The consumer composed with producers and a transport. Neither is in the
repository. They are modelled from what the trace replays and what
`events/README.md` says of them: identities and keys are not reused, the events of
a scope are published in sequence order, delivery is at least once and in any
order, acknowledgement follows the effect and may be lost, a gap is retried
`MaxRetries` times ("bound retries", "a retry is bounded", 25 and 40) and the event is
then a poison event, which is quarantined, and any other refusal goes to quarantine at
once. `Publish`, `DeliverAndAcknowledge`, `DeliverUnacknowledged`, `DeliverForRetry`,
`DeliverAsPoison` and `DeliverAndReject` are its actions; each delivery contains a whole
`Receive`. `gaps` counts the answers "gap" of each event.

Fairness: weak fairness on publishing and on delivering each event. "At least
once" means that an event which stays in flight is delivered again; nothing more
is assumed. In particular no acknowledgement is assumed ever to arrive, no
order of deliveries, and no wait between retries: all retries of an event may be used
up before its predecessor is delivered once. `GapsClose` says what is left under that
bound. The event a scope waits for is always applied, since it is not answered "gap";
an event behind it takes effect in its turn, unless the scope is `Halted` at an event
that has expired or is poison, and then what lies behind is set aside.

### `ContractBundle`

One bundle directory, the source tree, and any number of builders, attesters and
verifiers. A step is one file operation. `writeFileSync` is two: the file is
truncated (`Partial`), then filled; a second process that fills it in between may
leave a mixture, which is `Partial` again (`Filled`). The builder's steps are
`CheckAbsent` (13-15), `MakeRoot` (36, which succeeds on an existing directory),
`OpenCopy` and `FillCopy` for each file (38-50), `OpenManifest` and `FillManifest`
(52-64). Attester and verifier share `ReadManifest`, `ListFiles`, `ReadFile`
(`verifyCandidateContents`, 18-58); the attester adds `CheckUnattested`,
`CreateAttestation` (flag `wx`) and `FillAttestation`, the verifier
`CheckAttestation`. `Edit`, `Alter` and `AddStray` are what people and the tests do
around them.

A killed process takes no further step and leaves what it wrote; as the
specification has no fairness, every process may be killed at every point, and no
action for it is needed.

Data: a content is a model value, `Normalised` maps a content to its LF form
(idempotent, not the identity), a digest stands for its bytes, a signature for
its signer and the signed bytes. A manifest is the function from files to
contents. `Trusted` are the attesters whose key and key id the verifier
was told to expect.

### `LifecycleValidator`

The part of `validate-contracts.mjs` that reads the lifecycle tables and the
transition cases (302-391). It is sequential, so its steps are the turns of its
loops: `ReadMalformed` (309-312) and `ReadMachine` (314-327) with their early
`continue`s, `CheckStates` (328-337), `CheckTransition` (338-348), the reachability
loop `StartScan`, `ScanTransition`, `ScanAgain`, `CheckReachable` (350-363),
`ReadCases` (366-373), `CheckCase` (374-387), `CheckCoverage` (388-391) and
`GiveVerdict` (522-526, of the failures of this part). A table or case file that
its JSON schema rejects has `wellFormed` false; `enum` is the list of states that
`contractSchemaId` and `statePointer` lead to, or `None`. Failures are kept by kind,
without their text. `machineIds` is the set of ids with an entry in
`machinesById`. `VerdictIsRight` compares the outcome with `GoodTables`, which says
what `state-machines/README.md` 14-17 says, with `GoodCases`, and with two readings of
coverage: `BothKinds`, a case of kind "positive" and one of kind "negative" for each
machine, is what line 389 asks for; `BothAnswers`, "at least one allowed and one denied
case for every current machine", is what `state-machines/README.md` 38-39 says of the
case file. The two agree only if a positive case is one that is allowed and a negative
one is denied (`KindsTell`), which nothing checks. So an accepted suite has
`BothAnswers` provided that its kinds tell, and the inputs hold mislabelled suites that
are accepted without it.
Fairness: weak fairness of the whole, as the validator is one thread that waits for
nobody.

### `SbomEvidence`

`check-toolchain-sbom.mjs` in its three modes, any number of processes at once.
Every process reads the lockfile through npm (`Generate`, 22-28), again for its
digest (`DigestLock`, 33) and asserts licenses and catalog (`Admit`, 35-71). A checker
goes on with `ReadMetadata`, `ReadSnapshot`, `ReadChecks` (73-91), a writer with
`CheckAbsent` (94, `--write` only) and the two halves of each `writeFileSync`
(108-109). `Edit`, `Checkout`, `Modify` and `RenewChecks` are what people and Git do.
A snapshot is its normalized graph, a stamp (creation time and namespace, unique to
a run of npm) and line endings; `Graph` stands for npm, `Licensed` for the assertions
of `normalized()`, `Summary` for the counts. `disturbed`, a history variable, holds
the processes since whose start somebody else edited the lockfile's text or wrote
evidence. A process is killed as in `ContractBundle`. The two `existsSync` of line 94
are one step: a writer makes the snapshot before the metadata, so looking at them
one after the other finds no more than looking at both.

### `LeaseRules`, `LeaseActivation`

`LeaseRules` holds what the validator asks of a lease beyond its schema:
`compareOrdered` (62-73) as `PairOrdered` and `Ordered`, the five timelines of a
lease, and the rules on reason, grant and durations (136-148). A timestamp is the
second it denotes, `Absent`, or `Unreadable` where `Date.parse` answers `NaN`;
every comparison with the last is false, which is how `Exceeds` reads. The rules
are used twice: by the protocol here, by the fixture loop in `ContractDocuments`.

`LeaseActivation` asks whether those rules are enough. The authority moves the
document along the transitions of `lease.machine.json`, one action each
(`Activate`, `RequestRenewal`, `Renew`, `ActivationTimeout`, `Expire`,
`RenewalTimeout`, `Release`, `Revoke`, `Fail`), signs only documents that
`LeaseSound` admits, and compares the generation a command expects. The worker is
the one `lease.schema.json` 22-26 describes: it starts its monotonic timer before
it sends the challenge (`Ask`), accepts a signed document that answers its
outstanding challenge (`Accept`), runs while the timer is below
`remainingDurationSeconds` and its last contact (`Hear`, `Attest`) is no older than
`maximumDisconnectedSeconds`, and forgets its authorisation at a reboot. `signed` and
`requests` are sets that never shrink: a message may be lost, delayed, repeated
and reordered. Authority and worker are runtime components outside the repository
and marked external in `PROJECT.json`; the rules and the table are the repository's.

The documents differ on renewals. `compute/README.md` 75-76 asks for a new generation
and a new challenge, and the model's renewals carry one;
`compute-control-plane.openapi.json` 86 says that actions other than activate omit
`activationChallengeId`, and no other field of the request could carry it. The model
follows the README, without which a renewed grant would answer no challenge.
`HeldAdvances` is what the worker gets from it: it exchanges a document only for one of a
later generation.

### `SemanticRules`, `ContractDocuments`

`SemanticRules` is `validateSemantics`, `validateReasonRules` and
`validateRegistry` (62-179): the timelines of every schema, the rules of each kind
of document, and the registry with its `Map` semantics, a later entry of a code
replacing an earlier one. Each message is a rule with a name of its own (those of the
neighbours of all timelines are one, `ordering`). The text that a fixture expects (258)
is the set of the messages that contain it, and the fixture is as expected if one of
them is printed.

`ContractDocuments` is `validate-contracts.mjs` without its lifecycle part: the
registry, then each fixture file (`RejectWrapper`, `RejectDuplicate`,
`RejectSchema` for the early `continue`s of 201-236, `Examine` for the rest), the
coverage (277-300), the lease commands (423-448), the bindings of
`validate-contract-bindings.mjs`, and the verdict. Findings are kept by name. What
AJV says of a file is in its record (`wrapped`, `errors`). References that must be
equal across documents are compared as wholes (`says` against `documents`).

### `EventTwins`, `KeyLifecycle`, `ClassificationDecisions`, `ConformanceSuite`

`EventTwins` runs the two consumers on one trace. JavaScript's numbers are doubles:
`MaxExact` stands for 2^53, up to which every integer is exact; beyond it, up to
twice as much, `Double` keeps even integers and rounds odd ones to a multiple of
four, the tie to the even mantissa. `JSON.parse` rounds a sequence, and the sum
`last + 1` rounds again. A number is also written with a point or without: `canonicalize`
writes 1.0 as 1, so that JavaScript forgets the point, while `json.loads` makes a double
of it, `json.dumps` writes it again, and every sum with it rounds. An expiry is the
instant that its text denotes and the set of the languages that read the text, as
`Date.parse` and `datetime.fromisoformat` accept different forms. A Date is whole
milliseconds (`Millisecond` instants each), a datetime keeps the instant. What JavaScript
cannot read never expires (`NaN` compares false); what Python cannot read, or not
compare, raises (`"raised"`), but only for an event that got as far as the expiry.
`TwinsAgree` has the four limits within which the twins agree: no point, at most 2^53,
whole milliseconds, read by both.

`KeyLifecycle` is the decision of `test-key-lifecycle.mjs` on one vector with the
assertions around it; `ClassificationDecisions` the conditional rules of the
manifest schema with the cases of `test-workload-classification.mjs`, and the oracle
of the decision table with its order of refusals and required coverage. The context of a
case is not restricted, as nothing in the code restricts it: a policy or a capability
that the oracle does not know is among the inputs.

`ConformanceSuite` composes them all: the first six scripts of
`npm run test:contracts`, each a process, in order. `RunValidate` and
`ValidateExits` are the first; `ReceiveInJavaScript`, `JavaScriptExits` the trace
in JavaScript; `FindInterpreter`, `ReceiveInPython`, `PythonExits`,
`RefuseMutatedTrace` the cross-language test, which also requires that the Python
model refuse a trace with a wrong expectation; `CheckKeys`, `CheckManifests` and
`CheckDecisions` the rest. An assertion that fails ends the suite as `"failed"`.

### Faulty variants

Some definitions come with a variant of the same parameters (`UnseenById`,
`FillCopyRaw`, ...) that carries a plausible fault. No specification uses them.
`PROJECT.json` pairs each property with one, and TLC finds the property violated
when the variant replaces the original.

## The runs

| Run | Instance | Shows |
|---|---|---|
| `event_consumer` | 2 producers, 2 scopes, 3 ids, 3 keys, sequences 0-2, expiry before, at and after the observation time, an altered copy | type, contiguity, agreement of the maps, at most once, nothing forgotten, duplicates exact, and the refinement |
| `event_delivery` | one producer, a scope of three reorderable events, a scope whose middle event has just expired, one retry | conservation, what may be dropped and why, closing of gaps |
| `event_delivery_reordered` | one scope of three events, one retry | finding: late predecessor never takes effect |
| `event_delivery_expired` | one scope, the middle event expired, one retry | finding: successors of an expired event never take effect |
| `contract_bundle` | 2 builders, 2 attesters of whom one is trusted, 1 verifier, 2 files, 3 contents, one edit, one alteration | evidence is one build, one attestation, completed by its creator with what it verified, manifest last, reproducibility, no false alarm |
| `contract_bundle_overwrite` | 2 builders, no changes by others | finding: the overwrite check is not atomic |
| `lifecycle_validator` | one table of 4 states with every list of up to 3 of 6 transitions and two sets of initial states; two tables in 9 forms each with 10 suites of cases, mislabelled ones among them, well formed or not | reachability loop right and finite, verdict right |
| `sbom_evidence` | a `--write`, a `--refresh`, a `--check`; a lockfile in 5 forms, one edit, one modification, any checkouts | what passes is one run's evidence, current when quiet; no false alarm |
| `sbom_evidence_overwrite` | two `--write`, no changes by others | finding: the overwrite check is not atomic |
| `lease_activation` | two leases, one that may disconnect for two seconds and one that may not; a clock to 5, two challenges, five reason codes of which one is unregistered | the worker keeps inside its window and its exposure, one grant per generation, and never a document of an earlier or the same generation for the one it holds |
| `conformance_suite` | a set of files that passes, and every set one change away from it: a fixture more, other or missing, another registry, document, trace, vector or decision | what a pass of the scripts together guarantees; the two languages agree |
| `hard_controls` | the same files, whose decisions include unknown policies, expired capabilities and a critical service in a lab | finding: unknown and expired controls are admitted, a critical service leaves the production pool |

Bounds. The consumer treats scopes, identities and keys uniformly and a step
touches one of each, so two of each with shared and unshared keys give every way
two events can collide; three consecutive sequence numbers are needed for a gap
and its closing. In `EventDelivery`, three events give first, missing and waiting, and
`MaxRetries` = 1 gives an event that is retried with success, one that is retried in
vain and one that is never retried.
In `ContractBundle`, two files are the least for which a mixture of two builds can
be told from either, two builders and two attesters the least that can race, and
an untrusted attester the least that can be confused with a trusted one.
`MaxEdits` and `MaxAlterations` bound what other people do, not the scripts.
The source tree of that instance starts with one text; by symmetry of contents
nothing is lost but the initial CRLF checkout, which an edit brings in.
In `LifecycleValidator`, three transitions in the least favourable order need as
many scans and one more; each check of the code has a table or a suite that only it
rejects. In `SbomEvidence`, two writers are the least whose halves can be mixed, and
one edit falls between the two lockfile reads of any process, of several at once,
or between processes. Its five lockfiles are one with both line endings, one with
another graph, one with another text but the same graph, and one without license.

In `LeaseActivation`, two challenges are the least of which one can be answered late
by the other's grant or by a renewal, and a clock to 5 lets a lease end, renew and
end again; with a clock to 4 and three challenges TLC finds no error either
(1.87 million states), in more time than a run should take. In `ConformanceSuite`,
`MaxExact` is 4 and the largest sequence 8: the traces cross the limit from below, at
it and above it, with and without a point. `Millisecond` is 2 and the observation at 4,
a whole millisecond as in the trace: expiries lie before, at and after it and at half a
millisecond, read by both languages, one or none. Each limit of `TwinsAgree` is needed:
with any one of them left out, or with `MaxExact + 1`, TLC finds traces on which the
languages differ. The input of a run is fixed, and one change at a time lets each check
be the only one that fails; two sets change several fixtures at once, which all lack a
workload id.

The fairness assumed is that of `EventDelivery` and `LifecycleValidator` above. The
other modules have none: their scripts may be killed, a worker may be
switched off, and no liveness is claimed of them.

Deadlock is not checked where the system really stops: a finite stream that is
settled, scripts that have ended, a clock at its bound. `event_consumer` checks it.

### What the findings say

* `event_delivery_reordered`. The first event of a scope to arrive becomes its
  baseline (34-37), whatever its sequence. One published before and delivered
  after is `stale` and is quarantined at its first delivery. `events/README.md` 42
  promises exactly-once *effective* processing; `EffectivelyOnce` leaves out events that
  have expired and poison events, whose retries were used up. `OnlyBaselinesDrop` proves
  that nothing else drops an event that has not expired.
* `event_delivery_expired`. `expired` advances nothing (33), and only the direct
  successor is applied (36), so an expired event stops its scope for good: what follows
  is a gap at each of its retries and ends as poison.
  `events/README.md` 38-39 asks for a *monotonic* sequence and a rejection of the
  expired event, not of those behind it.
* `contract_bundle_overwrite`. `existsSync` (13) and `mkdirSync(recursive)` (36)
  are apart, so two overlapping builds both pass "Refusing to overwrite existing
  bundle directory". `contract_bundle` shows that this never yields a signed or
  accepted mixture: verification catches it; the theorem `OverwriteNeedsRace` that
  this race is the only way.
* `sbom_evidence_overwrite`. The same gap between line 94 and lines 108-109 of
  `check-toolchain-sbom.mjs`. `sbom_evidence` shows that no mixture passes a check,
  and a second `OverwriteNeedsRace` that there is no other way to overwrite.
* `hard_controls`. Two divergences from
  `docs/roadmap/H-006-Workload-Classification-Handoff.md`. The oracle of
  `test-classification-decision-cases.mjs` refuses the values of policy and capability
  that it knows (36-37, 42-43) and admits every other: a case whose capability is
  "expired" or whose policy is "unknown" is eligible and passes the suite, against
  "False, unknown, expired or unavailable hard controls fail closed" (89). And it
  requires the production pool when `criticality` is `critical` (39), never because the
  class is `critical_service`, and the manifest schema does not tie the two: a case that
  places such a manifest in a lab passes the suite, although 74 excludes a lab and an
  unapproved partner for that class and 80-82 say that the cases encode the table. Each
  of the three conjuncts of `ControlsHold` is violated by itself. `KnownControlsHold`
  proves that there is no other way: a passed decision keeps every workload of
  criticality `critical` on local production, and `HardControlsHold` holds of a suite
  whose values are all known to the oracle and whose critical services say so in their
  criticality.

## What is proved

Proofs hold for every value of the constants that meets the named assumptions
of the modules.

`EventConsumerProofs`. The inductive invariant `IInv` joins the type invariant with
`LogIsContiguous` and `MapsAgree`. Neither is inductive alone: contiguity needs
that `lastSequence` is the number of the log's last event, and at-most-once needs
that an unseen identity and key occur in no log, which is what `MapsAgree` says in
the contrapositive (`UnseenIsNew`). From `IInv` follow `TypeCorrectness`,
`Contiguity`, `Agreement`, `AtMostOnce`, the two action properties `Remembrance` and
`DuplicateIsSound`, and `Implementation`: `Spec => Effective!Spec`. Assumptions: the
events are envelopes, the observation time is an integer, `None` is neither.

`EventDeliveryProofs`. `DInv` adds to `IInv` that everything published is in flight,
quarantined or applied. `Conservation`, `DropsHaveCause` and
`DeliveryTypeCorrectness` hold for every stream that satisfies `StreamAssumption` and
any number of retries (`RetryAssumption`).
The argument for the second is that in a rule-abiding stream an event's identity
and key are its own, so that the two conflict answers never occur and `stale`
means behind the scope's first application: by contiguity, everything between the
first and the last application was applied. For the same reason a poison event lies
beyond the first application by more than one. The composition is tied to the
component below it: `ComposedConsumer` says that every behaviour of `DSpec` is one of
the consumer's `Spec`, so that `ComposedImplementation` and `ComposedAtMostOnce`
carry the refinement over to a transport that repeats, delays and reorders.
`OnlyBaselinesDrop` delimits the finding `event_delivery_reordered`: if each scope is
opened by the first of its events that has not expired, every such event is in
flight until it is applied or its retries are used up.

The same module proves of `GapsClose` what can be proved of it. Its safety parts
are that the event a scope waits for is in flight, unless the scope is `Halted`
(`GapCanClose`, by contiguity and because producers publish in order), stays awaited
until it is applied, which each delivery does (`AwaitedIsApplied`), and that a scope
passes no event: what it has not reached stays ahead of it until it is applied, and a
scope that is `Halted` never moves again (`NoneIsPassed`). Its liveness parts take the
transport's fairness as `Redelivered(f)`: if `f` is awaited from some time on, it is
delivered again and again. From that, `AwaitedEventually` says that an awaited event
takes effect and `GapShrinks` that the scope comes one event nearer or to a stop.

`ContractBundleProofs`. The inductive invariant says, for each kind of process at
each label, what it has read: a builder's digests so far, an inspector's verified
prefix of the manifest it holds; that a manifest or an attestation on disk or in
hand comes from the process that completed it; and that at most one attester is
past the exclusive creation. `EvidenceIsOneBuild` needs the second part (a
manifest that can be read is one builder's finished `seen`), `OneAttestation` and
`AttestationStands` the third: what is completed is what its creator verified, and while
a truncated attestation is there nobody else comes to write. `BundleTypeCorrectness`, `OneBuildOnly`, `OneAttester`
and `AttestationIsFinal` hold for any number of processes, files and contents, and
for any number of edits and alterations. A second invariant, `LInv`, follows what is
on disk when one builder is alone past its check: `DigestsInv` says that until
the text is edited a builder's `seen` is the normal form of the sources, `MakerInv` says whose output a
complete manifest is, `LoneInv` that the files of a lone builder are what it has
copied. From it come `ManifestWrittenLast`, `BuildsAgree` (`Reproducible`) and
`IntactAccepted` (`NoFalseRejection`). Both invariants together give what an
acceptance is worth: `VerifiersAgree` (any two acceptors saw the same bytes, those
that the attestation on disk signs), `AcceptanceIsFinal` (no step changes that
attestation again) and `AcceptedIsOnDisk` (the files of a lone builder that nobody
altered are still those that were accepted). `OverwriteNeedsRace` delimits the finding
`contract_bundle_overwrite`: in a run in which no two builders are between the check
and the creation at once, `RefusesToOverwrite` holds. Its invariant `RootInv` says that
the directory exists once a builder is past its creation, so that whoever checks
later stops.

`LifecycleValidatorProofs`. `ScanInv` is the loop invariant: what is found is in every
closed set that contains the initial states, and if the scan has added nothing so
far, the transitions it has passed lead nowhere new. At the end of such a scan the
set is closed, hence the least one: `LoopFindsTheReachable`, for tables of any size
and order, with `ValidatorTypeCorrectness`. The assumption is that the inputs have
the form their schemas admit. `VerdictOfTheRules` rests on `WInv`: an entry under an
id is a table with that id, as long as there is no failure everything looked at is
good, and every failure points to a defect. At acceptance both kinds are there of every
machine, and `KindsTell` turns them into both answers. The early `continue`s are why it is
needed: what they skip must already have failed. `EveryStepDescends` gives a measure
for `Termination`: files left, the stage within a file, states not found yet, scans
due and transitions left in the scan, five natural numbers whose lexicographic
order every step descends. A scan is repeated only after one that found a state.

`LeaseActivationProofs`. `LInv` says of every signed document that the rules hold of
it and that its grant was made after its challenge, for a request that expected the
generation before it (`SignedInv`); that grants of one generation are one grant
(`Unique`, `CurrentInv`); and that nothing is granted and no heartbeat answered after
the end (`TerminalInv`). `WindowKept` then is arithmetic: the timer began no later than
the grant, the grant leaves no more than the window. `ExposureBounded`,
`GrantsUnique` and `TypeCorrect` hold for any
horizon, any number of challenges and any leases that the rules admit. `NewerInv`
follows what the worker holds and what is still under way to it: `NeverOlder`
(`HeldAdvances`) says that a worker never falls back to an earlier generation, nor to another document of its own,
`GenerationFences` that documents of one generation have one grant, and
`NothingAfterTheEnd` that the authority signs and attests nothing once the lease has
ended.

`SbomEvidenceProofs`. `SInv` says that metadata on disk or in a checker's hands come
from a writer that has finished, that what a checker compared is equal, and that a
process nobody disturbed finds the evidence as it left or read it. `PassesOneRunOnly`,
`QuietPassCurrent`, `QuietWriteCurrent`, `NoAlarmIsFalse` and
`EvidenceTypeCorrect` follow for any number of writers, checkers and edits.
`OnlyLicensed` adds that neither the evidence on disk, unless it was changed by hand,
nor the lockfile of a check that passes has an unlicensed package, whatever is
interrupted. `OverwriteNeedsRace` delimits
`sbom_evidence_overwrite` as its namesake does for builders: with no two writers
between the check and the opening of the snapshot at once, `--write` overwrites
nothing (`OneWriterInv`).

`ContractDocumentsProofs`, `ConformanceSuiteProofs`. `DInv` says that the coverage
sets are those of the files looked at (`Exact`) as long as nothing failed, that then
everything looked at is correct (`NoneInv`), and that in a correct directory only
checks of the live documents can have failed. It gives `VerdictRight`, `AcceptedHold`,
`CommandsFenced` and `EventRefersOnly`, for any directory in any order. `TwinInv`
carries the sequence of memories the JavaScript consumer went through, which the
Python one repeats while the trace keeps the four limits; at `MaxExact` the rounded
successor makes no difference because the event is stale in both (`SameStep`), and whole
milliseconds are before the observation exactly if their quotients are. `TraceInv` says that
what the Python consumer applied of a scope is consecutive and that both met every
expectation so far; so a passed trace is exact in JavaScript too (`PassedIsExact`).
`LastInv` keeps what the last scripts have checked, for `PassedFailsClosed`.
`DedupInv` holds of each language by itself, with what that language sees of an event
and of numbers: also beyond 2^53, where they differ, each applies an identity and a
key once and answers `duplicate` exactly for an event it reads as one already applied
(`EachAppliedOnce`). So the cases of a passed trace say the same
(`PassedTraceDeduplicates`): 1 and 1.0 cannot both stand for a sequence in it.
`KnownControlsHold` delimits the finding `hard_controls`.

The assumptions `InputAssumption`, `LeaseSchemaAssumption`,
`WorkloadSchemaAssumption`, `TraceAssumption` and `VectorAssumption` are what JSON and
the schemas guarantee of a file that AJV accepts, with times in the forms that the
modules distinguish; `ExactAssumption` is the form of a double and of a millisecond; none
restricts a decision's context; `IssueAssumption` is that an authority issues only what the rules admit. The
others say that the marks for "absent" and "unreadable" are no values of the data.
TLC evaluates all of them on the instances.

Only model-checked: `GapsClose` and `Termination` as temporal properties, and the two
violated liveness properties. Of `GapsClose` two things remain: that `Fairness` implies
`Redelivered`, which is about `ENABLED`, and the induction over the distance that
repeats `GapShrinks`. Of `Termination` what remains is the well-founded induction
over the measure and that a step is taken as long as one is possible. Every invariant
and every other property of the passing runs is proved.

## Not modelled

JSON schema validation, OpenAPI and AsyncAPI parsing and the acceptance matrix are
pure, stateless and mostly third-party. Of `validate-contracts.mjs` the vectors of
canonicalization and signatures (393-422) and the parsing of the API documents
(449-494) are left out: what they compute is the text of a canonical form, and the
models take a digest for its document. Of `test-contract-bindings.mjs` the mutations
are among the inputs of `conformance_suite`, the script itself is not modelled; the
scripts of the suite after the sixth are `ContractBundle` and `SbomEvidence` or have
no state.

In the bundle, the set of source files does not change during a build, symbolic
links and altered manifests are left out (a manifest is only ever a complete one, a
truncated one or none), the listing of a directory is one step, and the directory
is never removed. npm, the adoption records and their catalog are one value each in
`SbomEvidence`.

Only the lease table has a described runtime. The other tables are data that the
validator checks; no document relates a state of one table to a state of another,
so there is no composition to model. That a table has no dead end is a rule that no
source states. That a case of kind "negative" is one that is not allowed is stated by
no check; `state-machines/README.md` 38-39 states what would follow from it, and
`VerdictIsRight` says so under that condition. Both gaps are listed as hazards. So is a
fixture whose category disagrees with its directory, which no rule forbids:
`VerdictIsRight` of the fixtures has the code's own reading of coverage.

The clocks of authority and worker run at one rate, and a tick waits for a worker
whose time is up: drift, and the delay of stopping, are not described by the schema.
The consumer of the repository keeps its maps in memory and has no restart. In `EventConsumer`
sequences are exact integers; `EventTwins` is where their width matters.

## Plan

What is modelled follows the code as it is. Further work, in this order:

1. A persisted consumer with crashes between its four assignments
   (`test-event-delivery.mjs` 37-40), once the repository has a consumer that persists.
2. Clock drift and the delay of stopping in `LeaseActivation`, once a document states
   the tolerance the rules must leave.
3. The canonicalization vectors as an operator on nested values, with a reference
   definition.
4. Changes of the set of source files during a build, and the removal of a bundle
   directory, in `ContractBundle`.

Order within each: the module, its instance and type invariant, the properties for
its hazards, the inductive invariant as a run's invariant, then the proof.
