----------------------- MODULE LeaseActivationProofs -----------------------
(***************************************************************************)
(* The activation protocol, for every lease, horizon and number of         *)
(* requests: what a worker may hold, for how long, and what the authority  *)
(* grants.                                                                 *)
(***************************************************************************)
EXTENDS LeaseActivation, TLAPS

Granted(d) == d.activationGrant # Absent

\* Where a grant comes from: a request that expected the generation it moves
\* the lease from.
Asked(d, request) ==
    /\ request.challengeId = d.activationGrant.challengeId
    /\ \/ request.action = "lease.activate" /\ request.expectedGeneration = d.generation
       \/ request.action = "lease.renew" /\ request.expectedGeneration + 1 = d.generation

\* A grant is made after its challenge and not in the future.
GrantInv(d) ==
    Granted(d) =>
        /\ d.activationGrant.challengeId <= d.activationGrant.grantedAt
        /\ d.activationGrant.grantedAt <= now
        /\ \E request \in requests : Asked(d, request)

SignedInv ==
    \A d \in signed :
        /\ LeaseSound(d, AppliesTo)
        /\ d.generation >= 1 /\ d.generation <= lease.generation
        /\ GrantInv(d)

Same(d, e) ==
    \/ d.activationGrant = e.activationGrant
    \/ /\ d.generation # e.generation
       /\ d.activationGrant.challengeId # e.activationGrant.challengeId

Unique == \A d, e \in signed : (Granted(d) /\ Granted(e)) => Same(d, e)

\* An issued lease has earned no grant, and a generation has the grant of the
\* document in force.
CurrentInv ==
    /\ lease.status = "issued" => \A d \in signed : ~Granted(d)
    /\ \A d \in signed : (Granted(d) /\ d.generation = lease.generation)
           => d.activationGrant = lease.activationGrant

RequestInv ==
    /\ \A q \in requests : q.challengeId <= now
    /\ \A q, r \in requests : q.challengeId = r.challengeId => q = r
    /\ challenge # Absent => challenge <= now
    /\ attested <= now /\ contact <= now

HeldInv == held # Absent => Granted(held) /\ MayRun(held, now, contact)

\* Nothing is granted and no heartbeat answered after the end.
TerminalInv ==
    lease.status \in TerminalStatuses =>
        /\ lease.terminalAt \in Times
        /\ attested <= lease.terminalAt
        /\ held # Absent => contact <= lease.terminalAt
        /\ \A d \in signed : Granted(d) => d.activationGrant.grantedAt <= lease.terminalAt

LInv == TypeOK /\ SignedInv /\ Unique /\ CurrentInv /\ RequestInv /\ HeldInv /\ TerminalInv

----------------------------------------------------------------------------
(* The initial states. *)
LEMMA InitLInv == Init => LInv
<1> SUFFICES ASSUME Init PROVE LInv
  OBVIOUS
<1>1. /\ lease \in Leases /\ lease.status = "issued" /\ lease.generation = 1
      /\ lease.activationGrant = Absent /\ LeaseSound(lease, AppliesTo)
  BY IssueAssumption DEF Init
<1>2. 0 \in Times
  BY BoundAssumption DEF Times
<1>3. TypeOK
  BY <1>1, <1>2 DEF Init, TypeOK
<1>4. SignedInv /\ Unique /\ CurrentInv
  BY <1>1 DEF Init, SignedInv, GrantInv, Unique, CurrentInv, Granted
<1>5. RequestInv /\ HeldInv
  BY DEF Init, RequestInv, HeldInv
<1>6. TerminalInv
  BY <1>1 DEF TerminalInv, TerminalStatuses
<1> QED
  BY <1>3, <1>4, <1>5, <1>6 DEF LInv

----------------------------------------------------------------------------
(* A document that the authority may sign next: of this generation or of   *)
(* the next, with the grant of its generation, and dated if it ends the    *)
(* lease.                                                                  *)
Next1(d) ==
    /\ d \in Leases /\ d.status # "issued"
    /\ d.generation \in {lease.generation, lease.generation + 1}
    /\ GrantInv(d)
    /\ Granted(d) => \A e \in signed : Granted(e) => Same(d, e)
    /\ \A e \in signed : (Granted(e) /\ e.generation = d.generation)
           => e.activationGrant = d.activationGrant
    /\ d.status \in TerminalStatuses => d.terminalAt = now

(* Signing such a document keeps the invariant. *)
LEMMA SignStep ==
    ASSUME LInv, NEW d, Next1(d), Sign(d), lease.status \notin TerminalStatuses
    PROVE  LInv'
<1>1. /\ lease' = d /\ signed' = signed \cup {d} /\ LeaseSound(d, AppliesTo)
      /\ UNCHANGED <<now, requests, attested, challenge, held, contact>>
  BY DEF Sign
<1>2. d \in Leases /\ d.generation \in Nat /\ lease.generation \in Nat /\ lease.generation >= 1
  BY DEF LInv, TypeOK, Next1, Leases, SignedInv
<1>3. TypeOK'
  BY <1>1, <1>2 DEF LInv, TypeOK
<1>4. SignedInv'
  <2>1. d.generation >= lease.generation
    BY <1>2 DEF Next1
  <2>2. ASSUME NEW e \in signed
        PROVE  /\ LeaseSound(e, AppliesTo) /\ e.generation >= 1
               /\ e.generation <= d.generation /\ GrantInv(e)
    <3>1. e.generation \in Nat
      BY DEF LInv, TypeOK, Leases
    <3> QED
      BY <1>2, <2>1, <3>1 DEF LInv, SignedInv
  <2>3. GrantInv(d) /\ d.generation >= 1 /\ d.generation <= d.generation
    BY <1>2, <2>1 DEF Next1
  <2>4. \A e : GrantInv(e)' <=> GrantInv(e)
    BY <1>1 DEF GrantInv
  <2> QED
    BY <1>1, <2>2, <2>3, <2>4 DEF SignedInv
<1>5. Unique'
  BY <1>1 DEF LInv, Unique, Next1, Same
<1>6. CurrentInv'
  BY <1>1 DEF Next1, CurrentInv
<1>7. RequestInv' /\ HeldInv'
  BY <1>1 DEF LInv, RequestInv, HeldInv
<1>8. TerminalInv'
  <2>1. CASE d.status \in TerminalStatuses
    <3>1. d.terminalAt = now /\ now \in Times
      BY <2>1 DEF Next1, LInv, TypeOK
    <3>2. attested <= now /\ contact <= now
      BY DEF LInv, RequestInv
    <3>3. \A e \in signed' : Granted(e) => e.activationGrant.grantedAt <= now
      BY <1>1 DEF LInv, SignedInv, GrantInv, Next1
    <3> QED
      BY <1>1, <3>1, <3>2, <3>3 DEF TerminalInv
  <2>2. CASE d.status \notin TerminalStatuses
    BY <1>1, <2>2 DEF TerminalInv
  <2> QED
    BY <2>1, <2>2
<1> QED
  BY <1>3, <1>4, <1>5, <1>6, <1>7, <1>8 DEF LInv

(* A document with the generation and the grant of the one in force. *)
LEMMA SameGrant ==
    ASSUME LInv, NEW d \in Leases, d.status # "issued", d.generation = lease.generation,
           d.activationGrant = lease.activationGrant,
           d.status \in TerminalStatuses => d.terminalAt = now
    PROVE  Next1(d)
<1>1. lease \in signed
  BY DEF LInv, TypeOK
<1>2. GrantInv(lease)
  BY <1>1 DEF LInv, SignedInv
<1>3. GrantInv(d)
  BY <1>2 DEF GrantInv, Granted, Asked
<1>4. Granted(d) => \A e \in signed : Granted(e) => Same(d, e)
  BY <1>1 DEF LInv, Unique, Granted, Same
<1>5. \A e \in signed : (Granted(e) /\ e.generation = d.generation)
           => e.activationGrant = d.activationGrant
  BY DEF LInv, CurrentInv
<1> QED
  BY <1>3, <1>4, <1>5 DEF Next1

(* The end of a lease. *)
LEMMA TerminateStep ==
    ASSUME LInv, NEW status \in TerminalStatuses, Terminate(status),
           lease.status \notin TerminalStatuses
    PROVE  LInv' /\ lease'.status = status
<1>1. PICK code \in Codes :
          Sign([lease EXCEPT !.status = status, !.terminalAt = now, !.reason = code])
  BY DEF Terminate
<1> DEFINE d == [lease EXCEPT !.status = status, !.terminalAt = now, !.reason = code]
<1>2. lease \in Leases /\ now \in Times /\ status \in Statuses /\ status # "issued"
  BY DEF LInv, TypeOK, Statuses, TerminalStatuses
<1>3. /\ d \in Leases /\ d.status = status /\ d.generation = lease.generation
      /\ d.activationGrant = lease.activationGrant /\ d.terminalAt = now
  BY <1>2 DEF Leases
<1>4. Next1(d)
  <2> HIDE DEF d
  <2> QED
    BY <1>2, <1>3, SameGrant
<1>5. Sign(d)
  BY <1>1
<1> HIDE DEF d
<1>6. LInv'
  BY <1>4, <1>5, SignStep
<1> QED
  BY <1>3, <1>5, <1>6 DEF Sign

----------------------------------------------------------------------------
(* What a request earns is a grant like any other. *)
LEMMA GrantForm ==
    ASSUME LInv, NEW request \in requests, NEW generation \in Nat, NEW seconds \in 1..Horizon
    PROVE  /\ GrantFor(request, generation, seconds) \in Grants
           /\ GrantFor(request, generation, seconds) # Absent
           /\ GrantFor(request, generation, seconds).challengeId = request.challengeId
           /\ GrantFor(request, generation, seconds).grantedAt = now
           /\ request.challengeId <= now
<1>1. request \in Requests /\ now \in Times /\ request.challengeId <= now
  BY DEF LInv, TypeOK, RequestInv
<1>2. request.challengeId \in Times
  BY <1>1 DEF Requests
<1>3. seconds \in Times
  BY BoundAssumption DEF Times
<1>4. GrantFor(request, generation, seconds) \in Grants
  BY <1>1, <1>2, <1>3 DEF GrantFor, Grants
<1>5. Absent \notin Grants
  BY RecordAssumption
<1>6. GrantFor(request, generation, seconds) # Absent
  BY <1>4, <1>5
<1> QED
  BY <1>1, <1>4, <1>6 DEF GrantFor

LEMMA ActivateStep ==
    ASSUME LInv, NEW request \in requests, Activate(request)
    PROVE  LInv' /\ lease.status = "issued" /\ lease'.status = "active"
<1>1. /\ lease.status = "issued" /\ request.action = "lease.activate"
      /\ request.expectedGeneration = lease.generation
  BY DEF Activate, Fenced
<1>2. PICK seconds \in 1..Horizon :
          Sign([lease EXCEPT !.status = "active", !.activatedAt = now,
                             !.activationGrant = GrantFor(request, lease.generation, seconds)])
  BY DEF Activate
<1> DEFINE g == GrantFor(request, lease.generation, seconds)
           d == [lease EXCEPT !.status = "active", !.activatedAt = now, !.activationGrant = g]
<1>3. lease \in Leases /\ lease.generation \in Nat /\ now \in Times
  BY DEF LInv, TypeOK, Leases
<1>4. /\ g \in Grants /\ g # Absent /\ g.challengeId = request.challengeId
      /\ g.grantedAt = now /\ request.challengeId <= now
  BY <1>3, GrantForm
<1> HIDE DEF g
<1>5. "active" \in Statuses /\ "active" \notin TerminalStatuses
  BY DEF Statuses, Live, TerminalStatuses
<1>6. /\ d \in Leases /\ d.status = "active" /\ d.generation = lease.generation
      /\ d.activationGrant = g
  BY <1>3, <1>4, <1>5 DEF Leases
<1>7. Sign(d)
  BY <1>2 DEF g
<1> HIDE DEF d
<1>8. GrantInv(d)
  <2>1. Asked(d, request)
    BY <1>1, <1>4, <1>6 DEF Asked
  <2>2. now <= now
    BY <1>3 DEF Times
  <2> QED
    BY <1>4, <1>6, <2>1, <2>2 DEF GrantInv
<1>9. \A e \in signed : ~Granted(e)
  BY <1>1 DEF LInv, CurrentInv
<1>10. Next1(d)
  BY <1>5, <1>6, <1>8, <1>9 DEF Next1
<1>11. LInv'
  BY <1>1, <1>7, <1>10, SignStep DEF TerminalStatuses
<1> QED
  BY <1>1, <1>6, <1>7, <1>11 DEF Sign

LEMMA RenewStep ==
    ASSUME LInv, NEW request \in requests, Renew(request)
    PROVE  LInv' /\ lease.status = "renewal_pending" /\ lease'.status = "active"
<1>1. /\ lease.status = "renewal_pending" /\ request.action = "lease.renew"
      /\ request.expectedGeneration = lease.generation
  BY DEF Renew, RenewUnder, Fenced
<1>2. PICK seconds \in 1..Horizon, end \in now..Horizon :
          Sign([lease EXCEPT !.status = "active", !.generation = lease.generation + 1,
                             !.activateBy = now, !.activatedAt = now,
                             !.renewalDeadline = Absent, !.expiresAt = end,
                             !.activationGrant = GrantFor(request, lease.generation + 1, seconds)])
  BY DEF Renew, RenewUnder
<1> DEFINE g == GrantFor(request, lease.generation + 1, seconds)
           d == [lease EXCEPT !.status = "active", !.generation = lease.generation + 1,
                              !.activateBy = now, !.activatedAt = now,
                              !.renewalDeadline = Absent, !.expiresAt = end,
                              !.activationGrant = g]
<1>3. lease \in Leases /\ lease.generation \in Nat /\ now \in Times
  BY DEF LInv, TypeOK, Leases
<1>4. /\ g \in Grants /\ g # Absent /\ g.challengeId = request.challengeId
      /\ g.grantedAt = now /\ request.challengeId <= now
  BY <1>3, GrantForm
<1> HIDE DEF g
<1>5. "active" \in Statuses /\ "active" \notin TerminalStatuses
  BY DEF Statuses, Live, TerminalStatuses
<1>6. end \in Times /\ lease.generation + 1 \in Nat
  BY <1>3, BoundAssumption DEF Times
<1>7. /\ d \in Leases /\ d.status = "active" /\ d.generation = lease.generation + 1
      /\ d.activationGrant = g
  <2>1. /\ d.status = "active" /\ d.generation = lease.generation + 1
        /\ d.activationGrant = g
    BY <1>3 DEF Leases
  <2>2. now \in Times \cup {Absent} /\ g \in Grants \cup {Absent} /\ Absent \in Times \cup {Absent}
    BY <1>3, <1>4
  <2> DEFINE d1 == [lease EXCEPT !.status = "active", !.generation = lease.generation + 1,
                                 !.activateBy = now]
             d2 == [d1 EXCEPT !.activatedAt = now, !.renewalDeadline = Absent]
  <2>3. d1 \in Leases
    BY <1>3, <1>5, <1>6 DEF Leases
  <2>4. d2 \in Leases
    <3> HIDE DEF d1
    <3> QED
      BY <2>2, <2>3 DEF Leases
  <2>5. [d2 EXCEPT !.expiresAt = end, !.activationGrant = g] \in Leases
    <3> HIDE DEF d2
    <3> QED
      BY <1>6, <2>2, <2>4 DEF Leases
  <2>6. d = [d2 EXCEPT !.expiresAt = end, !.activationGrant = g]
    OBVIOUS
  <2> QED
    BY <2>1, <2>5, <2>6
<1>8. Sign(d)
  BY <1>2 DEF g
<1> HIDE DEF d
<1>9. GrantInv(d)
  <2>1. Asked(d, request)
    BY <1>1, <1>4, <1>7 DEF Asked
  <2>2. now <= now
    BY <1>3 DEF Times
  <2> QED
    BY <1>4, <1>7, <2>1, <2>2 DEF GrantInv
<1>10. \A e \in signed : e.generation \in Nat /\ e.generation <= lease.generation
  BY DEF LInv, TypeOK, Leases, SignedInv
<1>11. ASSUME NEW e \in signed, Granted(e) PROVE Same(d, e)
  <2>1. PICK q \in requests : Asked(e, q)
    BY <1>11 DEF LInv, SignedInv, GrantInv
  <2>2. q.challengeId # request.challengeId
    <3>1. SUFFICES ASSUME q = request PROVE FALSE
      BY DEF LInv, RequestInv
    <3>2. request.expectedGeneration + 1 = e.generation
      BY <1>1, <2>1, <3>1 DEF Asked
    <3> QED
      BY <1>1, <1>3, <1>10, <3>2
  <2> QED
    BY <1>3, <1>4, <1>7, <1>10, <2>1, <2>2 DEF Same, Asked
<1>12. \A e \in signed : e.generation # d.generation
  BY <1>3, <1>7, <1>10
<1>13. Next1(d)
  BY <1>5, <1>7, <1>9, <1>11, <1>12 DEF Next1
<1>14. LInv'
  BY <1>1, <1>8, <1>13, SignStep DEF TerminalStatuses
<1> QED
  BY <1>1, <1>7, <1>8, <1>14 DEF Sign

LEMMA RequestRenewalStep ==
    ASSUME LInv, RequestRenewal
    PROVE  LInv' /\ lease.status = "active" /\ lease'.status = "renewal_pending"
<1> DEFINE d == [lease EXCEPT !.status = "renewal_pending"]
<1>1. lease.status = "active" /\ Sign(d)
  BY DEF RequestRenewal
<1>2. lease \in Leases
  BY DEF LInv, TypeOK
<1>3. "renewal_pending" \in Statuses /\ "renewal_pending" \notin TerminalStatuses
  BY DEF Statuses, Live, TerminalStatuses
<1>4. /\ d \in Leases /\ d.status = "renewal_pending" /\ d.generation = lease.generation
      /\ d.activationGrant = lease.activationGrant
  BY <1>2, <1>3 DEF Leases
<1> HIDE DEF d
<1>5. Next1(d)
  BY <1>3, <1>4, SameGrant
<1>6. LInv'
  BY <1>1, <1>5, SignStep DEF TerminalStatuses
<1> QED
  BY <1>1, <1>4, <1>6 DEF Sign

----------------------------------------------------------------------------
(* Steps that sign nothing: the authority's documents and the grants in    *)
(* them stay, so only what is about the clock, the requests and the worker *)
(* has to be shown again.                                                  *)
LEMMA UnsignedStep ==
    ASSUME LInv, UNCHANGED <<lease, signed>>, requests \subseteq requests', now <= now',
           now' \in Times, TypeOK', RequestInv', HeldInv', TerminalInv'
    PROVE  LInv'
<1>1. now \in Times /\ \A d \in signed : Granted(d) => d.activationGrant \in Grants
  BY DEF LInv, TypeOK, Leases, Granted
<1>2. ASSUME NEW d \in signed, Granted(d)
      PROVE  GrantInv(d)'
  <2>1. /\ d.activationGrant.challengeId <= d.activationGrant.grantedAt
        /\ d.activationGrant.grantedAt <= now
        /\ \E request \in requests : Asked(d, request)
    BY <1>2 DEF LInv, SignedInv, GrantInv
  <2>2. d.activationGrant.grantedAt <= now'
    BY <1>1, <1>2, <2>1 DEF Times, Grants
  <2>3. \A request : Asked(d, request)' <=> Asked(d, request)
    BY DEF Asked
  <2> QED
    BY <2>1, <2>2, <2>3 DEF GrantInv, Granted
<1>3. SignedInv'
  <2>1. ASSUME NEW d \in signed
        PROVE  LeaseSound(d, AppliesTo) /\ d.generation >= 1 /\ d.generation <= lease.generation
    BY DEF LInv, SignedInv
  <2>2. \A d \in signed : GrantInv(d)'
    BY <1>2 DEF GrantInv, Granted
  <2> QED
    BY <2>1, <2>2 DEF SignedInv
<1>4. Unique' /\ CurrentInv'
  BY DEF LInv, Unique, CurrentInv
<1> QED
  BY <1>3, <1>4 DEF LInv

LEMMA Form ==
    ASSUME LInv
    PROVE  /\ now \in Times /\ now \in Int /\ attested \in Int /\ contact \in Int /\ now <= now
           /\ \A t \in Times : t \in Int /\ t # Absent /\ t # Unreadable
           /\ \A d \in signed : /\ d \in Leases /\ d.maximumDisconnectedSeconds \in Int
                                /\ Granted(d) => /\ d.activationGrant.challengeId \in Int
                                                 /\ d.activationGrant.grantedAt \in Times
                                                 /\ d.activationGrant.remainingDurationSeconds \in Int
<1>1. Times \subseteq Int
  BY BoundAssumption DEF Times
<1>2. now \in Times /\ attested \in Times /\ contact \in Times /\ signed \subseteq Leases
  BY DEF LInv, TypeOK
<1>3. \A d \in signed : d \in Leases /\ d.maximumDisconnectedSeconds \in Times
  BY <1>2 DEF Leases
<1>4. \A d \in signed : Granted(d) => d.activationGrant \in Grants
  BY <1>2 DEF Leases, Granted
<1>5. \A g \in Grants : g.challengeId \in Times /\ g.grantedAt \in Times
                         /\ g.remainingDurationSeconds \in Times
  BY DEF Grants
<1>6. \A t \in Times : t \in Int /\ t # Absent /\ t # Unreadable
  BY <1>1, TimeAssumption
<1>7. now <= now
  BY <1>1, <1>2
<1> QED
  BY <1>1, <1>2, <1>3, <1>4, <1>5, <1>6, <1>7

LEMMA AttestStep ==
    ASSUME LInv, NEW instant \in Times, Attest(instant)
    PROVE  LInv'
<1>1. /\ attested' = instant /\ instant <= now /\ lease.status \in Live
      /\ UNCHANGED <<now, lease, signed, requests, challenge, held, contact>>
  BY DEF Attest
<1>2. TypeOK' /\ RequestInv' /\ HeldInv'
  BY <1>1 DEF LInv, TypeOK, RequestInv, HeldInv
<1>3. TerminalInv'
  BY <1>1 DEF TerminalInv, Live, TerminalStatuses
<1> QED
  BY <1>1, <1>2, <1>3, Form, UnsignedStep

LEMMA HearStep ==
    ASSUME LInv, NEW instant \in Times, Hear(instant)
    PROVE  LInv'
<1>1. /\ held # Absent /\ contact < instant /\ instant <= attested /\ contact' = instant
      /\ UNCHANGED <<now, lease, signed, requests, attested, challenge, held>>
  BY DEF Hear, authority
<1>2. instant \in Int /\ held \in signed /\ attested <= now /\ Granted(held)
      /\ MayRun(held, now, contact)
  BY <1>1, Form DEF LInv, TypeOK, RequestInv, HeldInv
<1>3. TypeOK'
  BY <1>1 DEF LInv, TypeOK
<1>4. RequestInv'
  BY <1>1, <1>2, Form DEF LInv, RequestInv
<1>5. MayRun(held, now, instant)
  BY <1>1, <1>2, Form DEF MayRun
<1>6. HeldInv'
  BY <1>1, <1>2, <1>5 DEF HeldInv, Granted
<1>7. TerminalInv'
  <2>1. SUFFICES ASSUME lease.status \in TerminalStatuses PROVE TerminalInv'
    BY <1>1 DEF TerminalInv
  <2>2. lease.terminalAt \in Times /\ attested <= lease.terminalAt
    BY <2>1 DEF LInv, TerminalInv
  <2>3. attested \in Int /\ lease.terminalAt \in Int
    BY <2>2, Form
  <2>4. instant <= lease.terminalAt
    BY <1>1, <1>2, <2>2, <2>3
  <2> QED
    BY <1>1, <2>1, <2>2, <2>4 DEF LInv, TerminalInv
<1> QED
  BY <1>1, <1>3, <1>4, <1>6, <1>7, Form, UnsignedStep

LEMMA AcceptStep ==
    ASSUME LInv, NEW document \in signed, Accept(document)
    PROVE  LInv'
<1>1. /\ challenge # Absent /\ Granted(document)
      /\ document.activationGrant.challengeId = challenge
      /\ MayRun(document, now, challenge)
      /\ held' = document /\ contact' = challenge /\ challenge' = Absent
      /\ UNCHANGED <<now, lease, signed, requests, attested>>
  BY DEF Accept, authority, Granted
<1>2. challenge \in Times /\ challenge <= now
  BY <1>1 DEF LInv, TypeOK, RequestInv
<1>3. TypeOK'
  BY <1>1, <1>2 DEF LInv, TypeOK
<1>4. RequestInv'
  BY <1>1, <1>2 DEF LInv, RequestInv
<1>5. HeldInv'
  BY <1>1 DEF HeldInv, Granted
<1>6. TerminalInv'
  <2>1. SUFFICES ASSUME lease.status \in TerminalStatuses PROVE TerminalInv'
    BY <1>1 DEF TerminalInv
  <2>2. /\ lease.terminalAt \in Times
        /\ document.activationGrant.grantedAt <= lease.terminalAt
    BY <1>1, <2>1 DEF LInv, TerminalInv
  <2>3. challenge <= document.activationGrant.grantedAt
    BY <1>1 DEF LInv, SignedInv, GrantInv
  <2>4. challenge <= lease.terminalAt
    BY <1>1, <1>2, <2>2, <2>3, Form
  <2> QED
    BY <1>1, <2>1, <2>2, <2>4 DEF LInv, TerminalInv
<1> QED
  BY <1>1, <1>3, <1>4, <1>5, <1>6, Form, UnsignedStep

LEMMA AskStep ==
    ASSUME LInv, NEW generation \in 1..lease.generation,
           NEW action \in {"lease.activate", "lease.renew"}, Ask(action, generation)
    PROVE  LInv'
<1> DEFINE r == [action |-> action, challengeId |-> now, expectedGeneration |-> generation]
<1>1. /\ \A request \in requests : request.challengeId # now
      /\ challenge' = now /\ requests' = requests \cup {r}
      /\ UNCHANGED <<now, lease, signed, attested, held, contact>>
  BY DEF Ask, authority
<1>2. generation \in Nat /\ now \in Times
  BY DEF LInv, TypeOK, Leases
<1>3. r \in Requests /\ r.challengeId = now
  BY <1>2 DEF Requests
<1> HIDE DEF r
<1>4. TypeOK'
  BY <1>1, <1>2, <1>3 DEF LInv, TypeOK
<1>5. RequestInv'
  BY <1>1, <1>3, Form DEF LInv, RequestInv
<1>6. HeldInv' /\ TerminalInv'
  BY <1>1 DEF LInv, HeldInv, TerminalInv
<1> QED
  BY <1>1, <1>2, <1>4, <1>5, <1>6, Form, UnsignedStep

LEMMA StopStep ==
    ASSUME LInv, Stop \/ Reboot
    PROVE  LInv'
<1>1. /\ held' = Absent /\ challenge' \in {challenge, Absent}
      /\ UNCHANGED <<now, lease, signed, requests, attested, contact>>
  BY DEF Stop, Reboot, authority
<1>2. TypeOK'
  BY <1>1 DEF LInv, TypeOK
<1>3. RequestInv' /\ HeldInv' /\ TerminalInv'
  BY <1>1 DEF LInv, RequestInv, HeldInv, TerminalInv
<1> QED
  BY <1>1, <1>2, <1>3, Form, UnsignedStep

LEMMA TickStep ==
    ASSUME LInv, Tick
    PROVE  LInv'
<1>1. /\ now < Horizon /\ now' = now + 1
      /\ held # Absent => MayRun(held, now + 1, contact)
      /\ UNCHANGED <<lease, signed, requests, attested, challenge, held, contact>>
  BY DEF Tick, authority, workerVars
<1>2. now' \in Times /\ now <= now'
  <2>1. now \in Times
    BY Form
  <2> QED
    BY <1>1, <2>1, BoundAssumption DEF Times
<1>3. TypeOK'
  BY <1>1, <1>2 DEF LInv, TypeOK
<1>4. RequestInv'
  <2>1. \A q \in requests : q.challengeId \in Int
    BY Form DEF LInv, TypeOK, Requests
  <2>2. challenge # Absent => challenge \in Int
    BY Form DEF LInv, TypeOK
  <2>3. now \in Int /\ attested \in Int /\ contact \in Int /\ now' = now + 1
    BY <1>1, Form
  <2>4. RequestInv
    BY DEF LInv
  <2>5. UNCHANGED <<requests, challenge, attested, contact>>
    BY <1>1
  <2> QED
    BY <2>1, <2>2, <2>3, <2>4, <2>5 DEF RequestInv
<1>5. HeldInv' /\ TerminalInv'
  <2>1. HeldInv /\ TerminalInv
    BY DEF LInv
  <2>2. HeldInv'
    BY <1>1, <2>1 DEF HeldInv, Granted, MayRun
  <2>3. TerminalInv'
    BY <1>1, <2>1 DEF TerminalInv
  <2> QED
    BY <2>2, <2>3
<1> QED
  BY <1>1, <1>2, <1>3, <1>4, <1>5, UnsignedStep

----------------------------------------------------------------------------
(* Every step keeps the invariant. *)
LEMMA NextStep ==
    ASSUME LInv, [Next]_vars
    PROVE  LInv'
<1>1. CASE \E request \in requests : Activate(request)
  BY <1>1, ActivateStep
<1>2. CASE \E request \in requests : Renew(request)
  BY <1>2, RenewStep
<1>3. CASE RequestRenewal
  BY <1>3, RequestRenewalStep
<1>4. CASE ActivationTimeout \/ Expire \/ RenewalTimeout
  BY <1>4, TerminateStep DEF ActivationTimeout, Expire, RenewalTimeout, TerminalStatuses, Live
<1>5. CASE Release
  BY <1>5, TerminateStep DEF Release, TerminalStatuses, Live
<1>6. CASE Revoke
  BY <1>6, TerminateStep DEF Revoke, TerminalStatuses, Live
<1>7. CASE Fail
  BY <1>7, TerminateStep DEF Fail, TerminalStatuses, Live
<1>8. CASE \E instant \in Times : Attest(instant)
  BY <1>8, AttestStep DEF Attest
<1>9. CASE \E instant \in Times : Hear(instant)
  BY <1>9, HearStep DEF Hear, authority
<1>10. CASE \E generation \in 1..lease.generation :
                Ask("lease.activate", generation) \/ Ask("lease.renew", generation)
  BY <1>10, AskStep DEF Ask, authority
<1>11. CASE \E document \in signed : Accept(document)
  BY <1>11, AcceptStep DEF Accept, authority
<1>12. CASE Stop \/ Reboot
  BY <1>12, StopStep DEF Stop, Reboot, authority
<1>13. CASE Tick
  BY <1>13, TickStep DEF Tick, authority
<1>14. CASE UNCHANGED vars
  BY <1>14 DEF vars, LInv, TypeOK, SignedInv, GrantInv, Asked, Unique, Same, CurrentInv, RequestInv,
               HeldInv, TerminalInv, MayRun, Granted
<1> QED
  BY <1>1, <1>2, <1>3, <1>4, <1>5, <1>6, <1>7, <1>8, <1>9, <1>10, <1>11, <1>12, <1>13, <1>14 DEF Next

THEOREM LInvHolds == Spec => []LInv
<1>1. Init => LInv
  BY InitLInv
<1>2. LInv /\ [Next]_vars => LInv'
  BY NextStep
<1> QED
  BY <1>1, <1>2, PTL DEF Spec

----------------------------------------------------------------------------
(* Every variable keeps its type. *)
THEOREM TypeCorrect == Spec => []TypeOK
<1>1. LInv => TypeOK
  BY DEF LInv
<1> QED
  BY <1>1, LInvHolds, PTL

(* The worker has stopped by the expiry of the document it holds.  Its     *)
(* timer began at the challenge, no later than the grant, and the grant    *)
(* lasts no longer than what was left of the window when it was given.     *)
THEOREM WindowKept == Spec => []RunsInsideWindow
<1>1. LInv => RunsInsideWindow
  <2> SUFFICES ASSUME LInv, held # Absent PROVE now < held.expiresAt
    BY DEF RunsInsideWindow
  <2> DEFINE g == held.activationGrant
  <2>1. held \in signed /\ Granted(held) /\ MayRun(held, now, contact)
    BY DEF LInv, TypeOK, HeldInv
  <2>2. /\ g.challengeId \in Int /\ g.grantedAt \in Times /\ g.remainingDurationSeconds \in Int
        /\ held \in Leases /\ now \in Int
    BY <2>1, Form
  <2>3. held.expiresAt \in Times
    BY <2>2 DEF Leases
  <2>4. g.challengeId <= g.grantedAt /\ LeaseSound(held, AppliesTo)
    BY <2>1 DEF LInv, SignedInv, GrantInv
  <2>5. ~Exceeds(g.remainingDurationSeconds, g.grantedAt, held.expiresAt)
    BY <2>1, <2>4 DEF LeaseSound, GrantSound, GrantExceedsWindow, Granted
  <2>6. Readable(g.grantedAt) /\ Readable(held.expiresAt) /\ g.grantedAt \in Int /\ held.expiresAt \in Int
    BY <2>2, <2>3, Form DEF Readable
  <2>7. g.remainingDurationSeconds <= held.expiresAt - g.grantedAt
    BY <2>2, <2>5, <2>6 DEF Exceeds
  <2>8. now - g.challengeId < g.remainingDurationSeconds
    BY <2>1 DEF MayRun
  <2> HIDE DEF g
  <2> QED
    BY <2>2, <2>4, <2>6, <2>7, <2>8
<1> QED
  BY <1>1, LInvHolds, PTL

(* An unreachable worker outlives its lease by the disconnection bound at  *)
(* most: the last answer it had came from before the end.                  *)
THEOREM ExposureBounded == Spec => []BoundedExposure
<1>1. LInv => BoundedExposure
  <2> SUFFICES ASSUME LInv, held # Absent, lease.status \in TerminalStatuses
               PROVE  now - lease.terminalAt <= held.maximumDisconnectedSeconds
    BY DEF BoundedExposure
  <2>1. held \in signed /\ now - contact <= held.maximumDisconnectedSeconds
    BY DEF LInv, TypeOK, HeldInv, MayRun
  <2>2. lease.terminalAt \in Times /\ contact <= lease.terminalAt
    BY DEF LInv, TerminalInv
  <2>3. /\ now \in Int /\ contact \in Int /\ lease.terminalAt \in Int
        /\ held.maximumDisconnectedSeconds \in Int
    BY <2>1, <2>2, Form
  <2> QED
    BY <2>1, <2>2, <2>3
<1> QED
  BY <1>1, LInvHolds, PTL

(* One generation earns one grant, and one challenge earns one.            *)
THEOREM GrantsUnique == Spec => []OneGrantPerGeneration
<1>1. LInv => OneGrantPerGeneration
  BY DEF LInv, Unique, Same, Granted, OneGrantPerGeneration
<1> QED
  BY <1>1, LInvHolds, PTL

----------------------------------------------------------------------------
(* What the worker may come to hold next.                                  *)

\* The two kinds of step.  A document that is signed has the grant in force,
\* is the first to have one, or is of the next generation.
Signing(d) ==
    /\ lease.status \notin TerminalStatuses
    /\ Sign(d)
    /\ \/ d.generation = lease.generation
          /\ (lease.status = "issued" \/ d.activationGrant = lease.activationGrant)
       \/ d.generation = lease.generation + 1

NotSigning ==
    /\ UNCHANGED <<lease, signed>>
    /\ lease.status \in TerminalStatuses => attested' = attested
    /\ \/ UNCHANGED <<held, challenge>>
       \/ held' = held /\ challenge' = now
          /\ \A request \in requests : request.challengeId # now
       \/ \E document \in signed : Accept(document)
       \/ held' = Absent

LEMMA EndSigns ==
    ASSUME LInv, NEW status \in TerminalStatuses, Terminate(status),
           lease.status \notin TerminalStatuses
    PROVE  \E d : Signing(d)
<1>1. PICK code \in Codes :
          Sign([lease EXCEPT !.status = status, !.terminalAt = now, !.reason = code])
  BY DEF Terminate
<1> DEFINE d == [lease EXCEPT !.status = status, !.terminalAt = now, !.reason = code]
<1>2. d.generation = lease.generation /\ d.activationGrant = lease.activationGrant
  BY DEF LInv, TypeOK, Leases
<1>3. Sign(d)
  BY <1>1
<1> HIDE DEF d
<1> QED
  BY <1>2, <1>3 DEF Signing

LEMMA StepKinds ==
    ASSUME LInv, [Next]_vars
    PROVE  (\E d : Signing(d)) \/ NotSigning
<1>0. lease \in Leases
  BY DEF LInv, TypeOK
<1>1. ASSUME NEW request \in requests, Activate(request)
      PROVE  \E d : Signing(d)
  <2>1. PICK seconds \in 1..Horizon :
            Sign([lease EXCEPT !.status = "active", !.activatedAt = now,
                               !.activationGrant = GrantFor(request, lease.generation, seconds)])
    BY <1>1 DEF Activate
  <2> DEFINE d == [lease EXCEPT !.status = "active", !.activatedAt = now,
                                !.activationGrant = GrantFor(request, lease.generation, seconds)]
  <2>2. d.generation = lease.generation /\ lease.status = "issued" /\ Sign(d)
    BY <1>0, <1>1, <2>1 DEF Activate, Leases
  <2> HIDE DEF d
  <2> QED
    BY <2>2 DEF Signing, TerminalStatuses
<1>2. ASSUME NEW request \in requests, Renew(request)
      PROVE  \E d : Signing(d)
  <2>1. PICK seconds \in 1..Horizon, end \in now..Horizon :
            Sign([lease EXCEPT !.status = "active", !.generation = lease.generation + 1,
                               !.activateBy = now, !.activatedAt = now,
                               !.renewalDeadline = Absent, !.expiresAt = end,
                               !.activationGrant = GrantFor(request, lease.generation + 1, seconds)])
    BY <1>2 DEF Renew, RenewUnder
  <2> DEFINE d == [lease EXCEPT !.status = "active", !.generation = lease.generation + 1,
                                !.activateBy = now, !.activatedAt = now,
                                !.renewalDeadline = Absent, !.expiresAt = end,
                                !.activationGrant = GrantFor(request, lease.generation + 1, seconds)]
  <2>2. d.generation = lease.generation + 1
    BY <1>0 DEF Leases
  <2>3. lease.status = "renewal_pending" /\ Sign(d)
    BY <1>2, <2>1 DEF Renew, RenewUnder
  <2> HIDE DEF d
  <2> QED
    BY <2>2, <2>3 DEF Signing, TerminalStatuses
<1>3. ASSUME RequestRenewal PROVE \E d : Signing(d)
  <2> DEFINE d == [lease EXCEPT !.status = "renewal_pending"]
  <2>1. /\ d.generation = lease.generation /\ d.activationGrant = lease.activationGrant
        /\ lease.status = "active" /\ Sign(d)
    BY <1>0, <1>3 DEF RequestRenewal, Leases
  <2> HIDE DEF d
  <2> QED
    BY <2>1 DEF Signing, TerminalStatuses
<1>4. ASSUME ActivationTimeout \/ Expire \/ RenewalTimeout \/ Release \/ Revoke \/ Fail
      PROVE  \E d : Signing(d)
  <2>1. /\ \E status \in TerminalStatuses : Terminate(status)
        /\ lease.status \in {"issued"} \cup Live
    BY <1>4 DEF ActivationTimeout, Expire, RenewalTimeout, Release, Revoke, Fail,
                Live, TerminalStatuses
  <2>2. lease.status \notin TerminalStatuses
    BY <2>1 DEF Live, TerminalStatuses
  <2> QED
    BY <2>1, <2>2, EndSigns
<1>5. ASSUME NEW instant \in Times, Attest(instant) PROVE NotSigning
  BY <1>5 DEF Attest, NotSigning, Live, TerminalStatuses
<1>6. ASSUME NEW instant \in Times, Hear(instant) PROVE NotSigning
  BY <1>6 DEF Hear, authority, NotSigning
<1>7. ASSUME NEW action, NEW generation, Ask(action, generation) PROVE NotSigning
  BY <1>7 DEF Ask, authority, NotSigning
<1>8. ASSUME NEW document \in signed, Accept(document) PROVE NotSigning
  <2>1. UNCHANGED <<lease, signed, attested>>
    BY <1>8 DEF Accept, authority
  <2> QED
    BY <1>8, <2>1 DEF NotSigning
<1>9. ASSUME Stop \/ Reboot PROVE NotSigning
  BY <1>9 DEF Stop, Reboot, authority, NotSigning
<1>10. ASSUME Tick PROVE NotSigning
  BY <1>10 DEF Tick, authority, workerVars, NotSigning
<1>11. CASE UNCHANGED vars
  BY <1>11 DEF vars, NotSigning
<1> QED
  BY <1>1, <1>2, <1>3, <1>4, <1>5, <1>6, <1>7, <1>8, <1>9, <1>10, <1>11 DEF Next

\* What answers the outstanding challenge is newer than what the worker holds.
NewerInv ==
    (held # Absent /\ challenge # Absent) =>
        \A d \in signed :
            (Granted(d) /\ d.activationGrant.challengeId = challenge)
                => d.generation > held.generation

LEMMA NewerStep ==
    ASSUME LInv, NewerInv, [Next]_vars
    PROVE  NewerInv'
<1>0. /\ lease \in signed /\ lease.generation \in Nat
      /\ held # Absent => /\ held \in signed /\ Granted(held)
                          /\ held.generation \in Nat
                          /\ held.generation <= lease.generation
  BY DEF LInv, TypeOK, HeldInv, SignedInv, Leases
<1>1. ASSUME NEW d, Signing(d) PROVE NewerInv'
  <2>1. /\ signed' = signed \cup {d} /\ held' = held /\ challenge' = challenge
    BY <1>1 DEF Signing, Sign
  <2> SUFFICES ASSUME held # Absent, challenge # Absent, Granted(d),
                      d.activationGrant.challengeId = challenge
               PROVE  d.generation > held.generation
    BY <2>1 DEF NewerInv, Granted
  <2>2. CASE d.generation = lease.generation + 1
    BY <1>0, <2>2
  <2>3. CASE d.generation = lease.generation /\ d.activationGrant = lease.activationGrant
    BY <1>0, <2>3 DEF NewerInv, Granted
  <2>4. CASE lease.status = "issued"
    BY <1>0, <2>4 DEF LInv, CurrentInv
  <2> QED
    BY <1>1, <2>2, <2>3, <2>4 DEF Signing
<1>2. ASSUME NotSigning PROVE NewerInv'
  <2>0. signed' = signed
    BY <1>2 DEF NotSigning
  <2>1. CASE UNCHANGED <<held, challenge>>
    BY <2>0, <2>1 DEF NewerInv
  <2>2. CASE held' = held /\ challenge' = now
             /\ \A request \in requests : request.challengeId # now
    <3>1. \A d \in signed : Granted(d) => d.activationGrant.challengeId # now
      BY <2>2 DEF LInv, SignedInv, GrantInv, Asked
    <3> QED
      BY <2>0, <2>2, <3>1 DEF NewerInv
  <2>3. CASE \E document \in signed : Accept(document)
    BY <2>3 DEF Accept, NewerInv
  <2>4. CASE held' = Absent
    BY <2>4 DEF NewerInv
  <2> QED
    BY <1>2, <2>1, <2>2, <2>3, <2>4 DEF NotSigning
<1> QED
  BY <1>1, <1>2, StepKinds

(* However the answers to its challenges are delayed, repeated and         *)
(* reordered, and whatever generation its requests named, a worker never   *)
(* falls back to an earlier generation, nor to another document of the one *)
(* it runs under (lease.schema.json:22-26, validate-contracts.mjs:143).    *)
THEOREM NeverOlder == Spec => HeldAdvances
<1>1. Init => NewerInv
  BY DEF Init, NewerInv
<1>2. Spec => []NewerInv
  BY <1>1, NewerStep, LInvHolds, PTL DEF Spec
<1>3. LInv /\ NewerInv /\ [Next]_vars =>
        [(held # Absent /\ held' # Absent) =>
            (held' = held \/ held'.generation > held.generation)]_vars
  <2> SUFFICES ASSUME LInv, NewerInv, [Next]_vars, held # Absent, held' # Absent, held' # held
               PROVE  held'.generation > held.generation
    OBVIOUS
  <2>1. NotSigning
    BY StepKinds DEF Signing, Sign
  <2>2. PICK document \in signed : Accept(document)
    BY <2>1 DEF NotSigning
  <2> QED
    BY <2>2 DEF Accept, NewerInv, Granted
<1> QED
  BY <1>2, <1>3, LInvHolds, PTL DEF Spec, HeldAdvances

\* A worker is never ahead of the authority, and one that holds the generation
\* in force holds the grant in force.
HeldIsCurrent ==
    held # Absent =>
        /\ held.generation <= lease.generation
        /\ held.generation = lease.generation =>
             held.activationGrant = lease.activationGrant

(* The generation of a document is enough to fence its holder: two that    *)
(* agree on it agree on the grant (validate-contracts.mjs:143).            *)
THEOREM GenerationFences == Spec => []HeldIsCurrent
<1>1. LInv => HeldIsCurrent
  BY DEF LInv, TypeOK, HeldInv, SignedInv, CurrentInv, HeldIsCurrent
<1> QED
  BY <1>1, LInvHolds, PTL

\* Once the lease has ended, the authority signs and attests nothing more.
EndIsFinal == [][lease.status \in TerminalStatuses => UNCHANGED authority]_vars

(* No request, renewal, timeout or heartbeat that arrives after the end of *)
(* a lease revives it (state-machines/lease.machine.json).                 *)
THEOREM NothingAfterTheEnd == Spec => EndIsFinal
<1>1. LInv /\ [Next]_vars => [lease.status \in TerminalStatuses => UNCHANGED authority]_vars
  <2> SUFFICES ASSUME LInv, [Next]_vars, lease.status \in TerminalStatuses
               PROVE  UNCHANGED authority
    OBVIOUS
  <2>1. NotSigning
    BY StepKinds DEF Signing
  <2> QED
    BY <2>1 DEF NotSigning, authority
<1> QED
  BY <1>1, LInvHolds, PTL DEF Spec, EndIsFinal

============================================================================
