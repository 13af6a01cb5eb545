-------------------------- MODULE LeaseActivation --------------------------
(***************************************************************************)
(* A lease between the authority that signs it and the worker that runs    *)
(* under it.  The authority moves the document along the transitions of    *)
(* contracts/state-machines/lease.machine.json, signs none that the rules  *)
(* of LeaseRules reject, and compares the generation a command expects.    *)
(* The worker keeps the timing that compute/lease.schema.json (lines       *)
(* 22-26) describes: its monotonic timer starts before the challenge is    *)
(* sent and is never restarted.  Both are runtime components outside this  *)
(* repository; the module asks whether the rules checked here are enough.  *)
(*                                                                         *)
(* requests and signed are never emptied: a message may be lost (never     *)
(* read), delayed, repeated and reordered.  A challenge is named by the    *)
(* instant it was made at, which is also the start of its timer.  A tick   *)
(* waits for a worker whose time is up to stop; the two clocks run at one  *)
(* rate.                                                                   *)
(*                                                                         *)
(* The documents differ on renewals.  compute/README.md (lines 75-76) asks *)
(* for a new generation and a new challenge, and so does the module;       *)
(* compute-control-plane.openapi.json (line 86) says that actions other    *)
(* than activate omit activationChallengeId, and no other field carries    *)
(* one.                                                                    *)
(***************************************************************************)
EXTENDS LeaseRules, FiniteSets

CONSTANTS
    Codes,         \* reason codes, registered or not
    AppliesTo,     \* registered codes -> the lease statuses they apply to
    IssuedLeases,  \* lease documents the authority may issue at time 0
    Horizon,       \* bound on the clock and on every time and duration
    MaxRequests    \* bound on the challenges of the worker

VARIABLES
    now,
    lease,         \* the authority's document
    signed,        \* every document it has signed, wherever the copies are
    requests,      \* every activation and renewal request sent
    attested,      \* latest heartbeat answered, by its instant, while the lease was live
    challenge,     \* the worker's outstanding challenge, or Absent
    held,          \* the document the worker runs under, or Absent
    contact        \* instant of the last heartbeat known to be answered

authority == <<lease, signed, attested>>
workerVars == <<challenge, held, contact>>
vars == <<now, lease, signed, requests, attested, challenge, held, contact>>

Live == {"active", "renewal_pending"}
Statuses == {"issued"} \cup Live \cup TerminalStatuses
Times == 0..Horizon

Grants == [challengeId : Times, generation : Nat, grantedAt : Times,
           remainingDurationSeconds : Times]
Leases == [status : Statuses, generation : Nat, issuedAt : Times,
           activateBy : Times, activatedAt : Times \cup {Absent},
           renewalDeadline : Times \cup {Absent}, expiresAt : Times,
           leaseDurationSeconds : Times, maximumDisconnectedSeconds : Times,
           activationGrant : Grants \cup {Absent},
           terminalAt : Times \cup {Absent}, reason : Codes \cup {Absent}]
Requests == [action : {"lease.activate", "lease.renew"}, challengeId : Times,
             expectedGeneration : Nat]

ASSUME BoundAssumption == Horizon \in Nat /\ MaxRequests \in Nat
ASSUME CodeAssumption == Absent \notin Codes
ASSUME RecordAssumption == Absent \notin Leases /\ Absent \notin Grants
ASSUME IssueAssumption ==
    \A l \in IssuedLeases :
        /\ l \in Leases
        /\ l.status = "issued" /\ l.generation = 1 /\ l.activationGrant = Absent
        /\ LeaseSound(l, AppliesTo)

----------------------------------------------------------------------------
Init ==
    /\ now = 0
    /\ lease \in IssuedLeases
    /\ signed = {lease}
    /\ requests = {} /\ attested = 0
    /\ challenge = Absent /\ held = Absent /\ contact = 0

(* The authority.                                                          *)

\* The document before the transition published instead of the one after it.
\* This definition, RenewInPlace, MayRunUnheard and AcceptUnasked carry faults
\* that the properties below tell apart from the protocol.
SignFormer(document) ==
    /\ LeaseSound(document, AppliesTo)
    /\ lease' = document
    /\ signed' = signed \cup {lease}
    /\ UNCHANGED <<now, requests, attested, challenge, held, contact>>

Sign(document) ==
    /\ LeaseSound(document, AppliesTo)
    /\ lease' = document
    /\ signed' = signed \cup {document}
    /\ UNCHANGED <<now, requests, attested, challenge, held, contact>>

Fenced(request) == request.expectedGeneration = lease.generation

GrantFor(request, generation, seconds) ==
    [challengeId |-> request.challengeId, generation |-> generation,
     grantedAt |-> now, remainingDurationSeconds |-> seconds]

Activate(request) ==
    /\ request.action = "lease.activate" /\ Fenced(request)
    /\ lease.status = "issued"
    /\ \E seconds \in 1..Horizon :
          Sign([lease EXCEPT !.status = "active", !.activatedAt = now,
                             !.activationGrant = GrantFor(request, lease.generation, seconds)])

RequestRenewal ==
    /\ lease.status = "active"
    /\ Sign([lease EXCEPT !.status = "renewal_pending"])

\* A renewal is a generation of its own: its grant, activation and window are
\* new, as the order of the timestamps demands.
RenewUnder(request, generation) ==
    /\ request.action = "lease.renew" /\ Fenced(request)
    /\ lease.status = "renewal_pending"
    /\ \E seconds \in 1..Horizon, end \in now..Horizon :
          Sign([lease EXCEPT !.status = "active", !.generation = generation,
                             !.activateBy = now, !.activatedAt = now,
                             !.renewalDeadline = Absent, !.expiresAt = end,
                             !.activationGrant = GrantFor(request, generation, seconds)])

RenewInPlace(request) == RenewUnder(request, lease.generation)

Renew(request) == RenewUnder(request, lease.generation + 1)

Terminate(status) ==
    \E code \in Codes :
        Sign([lease EXCEPT !.status = status, !.terminalAt = now, !.reason = code])

ActivationTimeout ==
    lease.status = "issued" /\ now >= lease.activateBy /\ Terminate("expired")

Expire == lease.status = "active" /\ now >= lease.expiresAt /\ Terminate("expired")

RenewalTimeout ==
    /\ lease.status = "renewal_pending"
    /\ now >= IF lease.renewalDeadline = Absent THEN lease.expiresAt ELSE lease.renewalDeadline
    /\ Terminate("expired")

Release == lease.status \in Live /\ Terminate("released")
Revoke  == lease.status \in {"issued"} \cup Live /\ Terminate("revoked")
Fail    == lease.status \in {"issued"} \cup Live /\ Terminate("failed")

\* The worker's heartbeat of an instant reaches the authority now or later.
Attest(instant) ==
    /\ lease.status \in Live
    /\ attested < instant /\ instant <= now
    /\ attested' = instant
    /\ UNCHANGED <<now, lease, signed, requests, challenge, held, contact>>

----------------------------------------------------------------------------
(* The worker.                                                             *)

MayRunUnheard(document, instant, heard) ==
    instant - document.activationGrant.challengeId
        < document.activationGrant.remainingDurationSeconds

\* May it run under a document at an instant, last in contact at another?
MayRun(document, instant, heard) ==
    /\ instant - document.activationGrant.challengeId
           < document.activationGrant.remainingDurationSeconds
    /\ instant - heard <= document.maximumDisconnectedSeconds

\* Starts the timer, then sends its challenge; what it knows of the lease's
\* generation may be old.
Ask(action, generation) ==
    /\ Cardinality(requests) < MaxRequests
    /\ \A request \in requests : request.challengeId # now
    /\ challenge' = now
    /\ requests' = requests \cup {[action |-> action, challengeId |-> now,
                                   expectedGeneration |-> generation]}
    /\ UNCHANGED <<now, authority, held, contact>>

AcceptUnasked(document) ==
    /\ challenge # Absent /\ document.activationGrant # Absent
    /\ MayRun(document, now, challenge)
    /\ held' = document /\ contact' = challenge /\ challenge' = Absent
    /\ UNCHANGED <<now, authority, requests>>

\* A signed document answers the outstanding challenge.  The authority's word
\* is as old as the challenge.
Accept(document) ==
    /\ challenge # Absent /\ document.activationGrant # Absent
    /\ document.activationGrant.challengeId = challenge
    /\ MayRun(document, now, challenge)
    /\ held' = document /\ contact' = challenge /\ challenge' = Absent
    /\ UNCHANGED <<now, authority, requests>>

\* The answer to a heartbeat counts from the instant it was sent at.
Hear(instant) ==
    /\ held # Absent /\ contact < instant /\ instant <= attested
    /\ contact' = instant
    /\ UNCHANGED <<now, authority, requests, challenge, held>>

\* The workload ends, is stopped, or the evidence of a revocation arrives.
Stop ==
    /\ held # Absent /\ held' = Absent
    /\ UNCHANGED <<now, authority, requests, challenge, contact>>

\* A reboot or a suspension ends the local authorisation.
Reboot ==
    /\ held' = Absent /\ challenge' = Absent
    /\ UNCHANGED <<now, authority, requests, contact>>

Tick ==
    /\ now < Horizon
    /\ held # Absent => MayRun(held, now + 1, contact)
    /\ now' = now + 1
    /\ UNCHANGED <<authority, requests, workerVars>>

----------------------------------------------------------------------------
Next ==
    \/ \E request \in requests : Activate(request) \/ Renew(request)
    \/ RequestRenewal \/ ActivationTimeout \/ Expire \/ RenewalTimeout
    \/ Release \/ Revoke \/ Fail
    \/ \E instant \in Times : Attest(instant) \/ Hear(instant)
    \/ \E generation \in 1..lease.generation :
          Ask("lease.activate", generation) \/ Ask("lease.renew", generation)
    \/ \E document \in signed : Accept(document)
    \/ Stop \/ Reboot \/ Tick

Spec == Init /\ [][Next]_vars

----------------------------------------------------------------------------
TypeOK ==
    /\ now \in Times
    /\ lease \in Leases /\ signed \subseteq Leases /\ lease \in signed
    /\ requests \subseteq Requests /\ attested \in Times
    /\ challenge \in Times \cup {Absent}
    /\ held \in signed \cup {Absent}
    /\ contact \in Times

\* However late the answer to a challenge arrives, and however the lease is
\* renewed, ended or answered again meanwhile, the worker has stopped by the
\* expiry of the document it holds: the rule on remainingDurationSeconds
\* (validate-contracts.mjs:144) and a timer started before the request are
\* together enough.
RunsInsideWindow == held # Absent => now < held.expiresAt

\* A worker that cannot be reached runs on after the lease has ended for at
\* most maximumDisconnectedSeconds (Control-Plane-vs-Data-Plane.md:77-79).
BoundedExposure ==
    (held # Absent /\ lease.status \in TerminalStatuses) =>
        now - lease.terminalAt <= held.maximumDisconnectedSeconds

\* Two signed documents carry grants of one generation exactly when they carry
\* the same grant, and a challenge is granted once: a repeated or late request
\* never earns a second period.
OneGrantPerGeneration ==
    \A d, e \in {document \in signed : document.activationGrant # Absent} :
        \/ d.activationGrant = e.activationGrant
        \/ /\ d.generation # e.generation
           /\ d.activationGrant.challengeId # e.activationGrant.challengeId

\* However the answers to its challenges are delayed, repeated and reordered,
\* and whatever generation its requests named, a worker exchanges the document
\* that it runs under only for one of a later generation: a challenge is new
\* for each request (lease.schema.json:22-26, compute/README.md:75-76) and a
\* grant is for the generation of its lease (validate-contracts.mjs:143).
HeldAdvances ==
    [][(held # Absent /\ held' # Absent) =>
         (held' = held \/ held'.generation > held.generation)]_vars

============================================================================
