----------------------------- MODULE LeaseRules -----------------------------
(***************************************************************************)
(* What contracts/validate-contracts.mjs asks of a lease document beyond   *)
(* its schema: the order of its timestamps (compareOrdered and the lease   *)
(* row of the timelines), and the rules on its terminal reason and on its  *)
(* activation grant (validateReasonRules).                                 *)
(*                                                                         *)
(* A timestamp is the second it denotes, Absent where the document has     *)
(* none, or Unreadable where Date.parse answers NaN.  The schema's         *)
(* date-time format admits some of the latter, "23:59:60Z" among them.     *)
(***************************************************************************)
EXTENDS Integers, Sequences

CONSTANTS Absent, Unreadable

ASSUME TimeAssumption == Absent \notin Int /\ Unreadable \notin Int /\ Absent # Unreadable

TerminalStatuses == {"released", "expired", "revoked", "failed"}

----------------------------------------------------------------------------
(* compareOrdered looks at neighbours only and skips a pair with an absent *)
(* member; an unreadable neighbour is a failure.                           *)
Readable(t) == t # Absent /\ t # Unreadable

\* An unreadable timestamp let through, a fault.
NotLater(left, right) ==
    (Readable(left) /\ Readable(right)) => left <= right

PairOrdered(left, right) ==
    (left # Absent /\ right # Absent) =>
        (Readable(left) /\ Readable(right) /\ left <= right)

Ordered(times) == \A i \in 1..Len(times) - 1 : PairOrdered(times[i], times[i + 1])

\* n > to - from in seconds; every comparison with NaN is false.
Exceeds(n, from, to) == Readable(from) /\ Readable(to) /\ n > to - from

----------------------------------------------------------------------------
GrantedAt(l) == IF l.activationGrant = Absent THEN Absent
                                              ELSE l.activationGrant.grantedAt

LeaseTimelines(l) ==
    {<<l.issuedAt, l.activateBy, l.expiresAt>>,
     <<l.issuedAt, l.activatedAt, l.expiresAt>>,
     <<l.issuedAt, l.renewalDeadline, l.expiresAt>>,
     <<l.issuedAt, GrantedAt(l), l.activatedAt, l.expiresAt>>,
     <<l.activatedAt, l.activateBy>>}

\* appliesTo maps each registered reason code to the statuses it applies to.
Ended(l) == l.status \in TerminalStatuses

ReasonGiven(l)                 == Ended(l) => l.reason # Absent
ReasonRegistered(l, appliesTo) == Ended(l) /\ l.reason # Absent => l.reason \in DOMAIN appliesTo
ReasonApplies(l, appliesTo)    ==
    Ended(l) /\ l.reason \in DOMAIN appliesTo => l.status \in appliesTo[l.reason]

\* The window measured from the issue of the lease, a fault.
GrantExceedsLifetime(g, l) == Exceeds(g.remainingDurationSeconds, l.issuedAt, l.expiresAt)

GrantExceedsWindow(g, l) == Exceeds(g.remainingDurationSeconds, g.grantedAt, l.expiresAt)

GrantWithinCap(g, l)          == g.remainingDurationSeconds <= l.leaseDurationSeconds
GrantCoversDisconnected(g, l) == l.maximumDisconnectedSeconds <= g.remainingDurationSeconds

GrantSound(g, l) ==
    /\ g.generation = l.generation
    /\ ~GrantExceedsWindow(g, l)
    /\ GrantWithinCap(g, l) /\ GrantCoversDisconnected(g, l)

DurationSound(l)     == ~Exceeds(l.leaseDurationSeconds, l.issuedAt, l.expiresAt)
DisconnectedSound(l) == l.maximumDisconnectedSeconds <= l.leaseDurationSeconds

TimesSound(l) == \A times \in LeaseTimelines(l) : Ordered(times)

LeaseSound(l, appliesTo) ==
    /\ TimesSound(l) /\ DurationSound(l) /\ DisconnectedSound(l)
    /\ ReasonGiven(l) /\ ReasonRegistered(l, appliesTo) /\ ReasonApplies(l, appliesTo)
    /\ l.activationGrant # Absent => GrantSound(l.activationGrant, l)

============================================================================
