-------------------------- MODULE ConformanceSuite --------------------------
(***************************************************************************)
(* `npm run test:contracts' (package.json): contracts/validate-contracts,  *)
(* then, joined by &&, test-event-delivery, test-cross-language-event,     *)
(* test-key-lifecycle, test-workload-classification and                    *)
(* test-classification-decision-cases.  The scripts after them are in      *)
(* ContractBundle and SbomEvidence or have no state.                       *)
(*                                                                         *)
(* Each script is a process of its own that reads its files anew; the      *)
(* files do not change under the suite.  An assertion that fails ends the  *)
(* script and with it the suite.                                           *)
(***************************************************************************)
EXTENDS ContractDocuments, EventTwins, KeyLifecycle, ClassificationDecisions

ASSUME TraceAssumption ==
    \A case \in Cases : LET c == InputOf(case).trace.cases IN
        /\ Len(c) \in Nat
        /\ \A i \in 1..Len(c) : LET e == c[i].event IN
              /\ e = [scope |-> e.scope, id |-> e.id, key |-> e.key,
                      sequence |-> e.sequence, expiresat |-> e.expiresat]
              /\ e.sequence \in Numbers /\ e.expiresat \in Texts \cup {Absent}

ASSUME VectorAssumption ==
    \A case \in Cases : \A v \in InputOf(case).vectors :
        {v.time, v.start, v.end, v.revokedAt} \subseteq Int \cup {Absent, Unreadable}

VARIABLES
    script,            \* what runs
    js, py             \* memories of the two event consumers

suite == <<script, js, py>>
vars == <<documents, suite>>

cases == input.trace.cases

Init ==
    /\ Open
    /\ script = "validate" /\ js = Empty /\ py = Empty

Continue(holds, to) == script' = IF holds THEN to ELSE "failed"

----------------------------------------------------------------------------
RunValidate ==
    /\ script = "validate" /\ pc \notin {"passed", "failed"}
    /\ Validate
    /\ UNCHANGED suite

ValidateExits ==
    /\ script = "validate" /\ pc \in {"passed", "failed"}
    /\ Continue(pc = "passed", "javascript")
    /\ UNCHANGED <<documents, js, py>>

(* test-event-delivery.mjs: each case, then the count.                     *)

Case(m) == cases[Len(m.answers) + 1]
More(m) == Len(m.answers) < Len(cases)

ReceiveInJavaScript ==
    /\ script = "javascript" /\ More(js)
    /\ js' = InJavaScript(js, Case(js).event)
    /\ Continue(Last(js'.answers) = Case(js).expected, script)
    /\ UNCHANGED <<documents, py>>

JavaScriptExits ==
    /\ script = "javascript" /\ ~More(js)
    /\ Continue(js.applied = input.trace.expectedAppliedCount, "interpreter")
    /\ UNCHANGED <<documents, js, py>>

(* test-cross-language-event.mjs: an interpreter is found, the Python      *)
(* model passes the trace, and refuses it once its first expectation is    *)
(* wrong, with the message that names the case `first'.                    *)

FindInterpreter ==
    /\ script = "interpreter"
    /\ Continue(input.interpreter, "python")
    /\ UNCHANGED <<documents, js, py>>

\* The status of the model not looked at, a fault.
ReceiveUnasserted ==
    /\ script = "python" /\ More(py)
    /\ py' = InPython(py, Case(py).event)
    /\ UNCHANGED <<documents, script, js>>

ReceiveInPython ==
    /\ script = "python" /\ More(py)
    /\ py' = InPython(py, Case(py).event)
    /\ Continue(Last(py'.answers) = Case(py).expected, script)
    /\ UNCHANGED <<documents, js>>

PythonExits ==
    /\ script = "python" /\ ~More(py)
    /\ Continue(py.applied = input.trace.expectedAppliedCount, "mutation")
    /\ UNCHANGED <<documents, js, py>>

RefuseMutatedTrace ==
    /\ script = "mutation"
    /\ Continue(cases # << >> /\ cases[1].id = "first" /\ py.answers[1] = "applied", "keys")
    /\ UNCHANGED <<documents, js, py>>

(* The scripts that look at each case by itself.                           *)

CheckKeys ==
    /\ script = "keys"
    /\ Continue(\A v \in input.vectors : VectorSound(v), "manifests")
    /\ UNCHANGED <<documents, js, py>>

CheckManifests ==
    /\ script = "manifests"
    /\ Continue(ManifestRulesHold(input.manifest), "decisions")
    /\ UNCHANGED <<documents, js, py>>

CheckDecisions ==
    /\ script = "decisions"
    /\ Continue(SuiteSound(input.manifest, input.decisions), "passed")
    /\ UNCHANGED <<documents, js, py>>

Next ==
    \/ RunValidate \/ ValidateExits
    \/ ReceiveInJavaScript \/ JavaScriptExits
    \/ FindInterpreter \/ ReceiveInPython \/ PythonExits \/ RefuseMutatedTrace
    \/ CheckKeys \/ CheckManifests \/ CheckDecisions

Spec == Init /\ [][Next]_vars

----------------------------------------------------------------------------
WholeMilliseconds(text) == text.at % Millisecond = 0

\* The two consumers come to the same answers and the same memory on what is
\* plain: sequences without a point and at most 2^53, and expiries that both
\* languages read and that are whole milliseconds.  Each limit is needed: the
\* digest of 1 is that of 1.0 in JavaScript alone, last + 1 of 2^53 is rounded
\* there and the next sequence reads as 2^53 itself, a Date drops what is
\* finer than a millisecond, and fromisoformat raises where Date.parse does not.
TwinsAgree ==
    (/\ Len(js.answers) = Len(py.answers)
     /\ \A i \in DOMAIN js.answers : LET e == cases[i].event IN
           /\ ~e.sequence.point /\ e.sequence.n <= MaxExact
           /\ e.expiresat # Absent => WholeMilliseconds(e.expiresat) /\ e.expiresat.read = Languages)
        => js = py

Applied(m) == {i \in DOMAIN m.answers : m.answers[i] = "applied"}

\* Cases i and j are of one scope, which applied nothing between them.
Precedes(applied, i, j) ==
    /\ i < j /\ cases[i].event.scope = cases[j].event.scope
    /\ \A k \in applied : (i < k /\ k < j) => cases[k].event.scope # cases[j].event.scope

NotExpired(text) ==
    text # Absent => "Python" \in text.read /\ text.at > ObservationTime

RunsExact(applied) ==
    \A j \in applied : LET e == cases[j].event IN
        /\ NotExpired(e.expiresat)
        /\ \A i \in applied : LET d == cases[i].event IN
              (Precedes(applied, i, j) /\ ~d.sequence.point /\ ~e.sequence.point)
                  => e.sequence.n = d.sequence.n + 1

\* A trace that the suite passes says what it seems to say, beyond 2^53 too:
\* what the JavaScript consumer applied of a scope has consecutive sequences
\* where they are written without a point, and has expiries after the time of
\* observation, finer than a millisecond and in a form that JavaScript does
\* not read too.  JavaScript alone accepts traces of which neither is true;
\* the Python twin is what refuses them.
PassedTraceIsExact == script = "passed" => RunsExact(Applied(js))

Decided(case) == Merged(input.manifest, case.manifestPatch)

\* What the suite passes fails closed.  Keys: at the instant a key's interval
\* ends and its successor's begins only the successor authorises, and nothing
\* does once revoked.  Decisions: a denial by policy is reported as that, not
\* as something to retry, whatever else is wrong; a backend that is named is
\* one the class allows and the manifest asked for, in no unapproved scope and
\* with no stale or revoked capability, and every class has a case that is
\* placed.
VectorsFailClosed ==
    \A u, v \in {w \in input.vectors : w.expectedNewAuthorization} :
        /\ u.time = v.time => u.end # v.start
        /\ u.expectedCryptographicValidity
        /\ u.revokedAt # Absent => u.time < u.revokedAt

DecisionsFailClosed ==
    /\ \A case \in ToSet(input.decisions) :
         /\ case.context.policy = "deny" => case.expected.reasonCodes = <<"POLICY_DENIED">>
         /\ case.context.policy = "timeout" => case.expected.disposition = "unavailable"
         /\ \A b \in ToSet(case.expected.backends) :
              /\ b \in ToSet(Defaults[Decided(case).workloadClass]) \cap Decided(case).backendPreferences
              /\ case.context.scope # "external_unapproved" /\ case.context.capability \notin {"stale", "revoked"}
    /\ \A class \in DOMAIN Defaults : \E case \in ToSet(input.decisions) :
         case.expected.backends # << >> /\ Decided(case).workloadClass = class

PassedSuiteFailsClosed ==
    script = "passed" => VectorsFailClosed /\ DecisionsFailClosed

\* docs/roadmap/H-006-Workload-Classification-Handoff.md:89: "False, unknown,
\* expired or unavailable hard controls fail closed"; and line 74 excludes a lab
\* and an unapproved partner for the class critical_service.  The oracle of
\* test-classification-decision-cases.mjs refuses the values it knows of a
\* control, any other is as good as "allow" or "fresh", and it asks for the
\* manifest's criticality instead of its class.
ControlsHold(m, context) ==
    /\ context.policy = "allow" /\ context.capability = "fresh"
    /\ m.workloadClass = "critical_service" => context.scope = "production_local"

HardControlsHold ==
    script = "passed" =>
        \A case \in ToSet(input.decisions) :
            case.expected.disposition = "eligible" => ControlsHold(Decided(case), case.context)

============================================================================
