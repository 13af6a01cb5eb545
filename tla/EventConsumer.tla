--------------------------- MODULE EventConsumer ---------------------------
(***************************************************************************)
(* The at-least-once event consumer of contracts/test-event-delivery.mjs   *)
(* (consumer, lines 16-44) and of its independent Python twin              *)
(* (contracts/test-event-delivery.py, class Consumer, lines 24-54).        *)
(*                                                                         *)
(* receive(event) runs to completion without yielding, so each of its      *)
(* return paths is one action; whatever may be delivered, in whatever      *)
(* order and however often, is delivered by the environment in Next.       *)
(***************************************************************************)
EXTENDS EventEnvelope

VARIABLES
    lastSequence,  \* scopes:   scope    -> sequence last applied
    seenIds,       \* seenIds:  identity -> digest of the applied event
    seenKeys,      \* seenKeys: key      -> digest of the applied event
    applied,       \* the counter the trace asserts on
    answer,        \* the event last received and what receive returned
    log            \* history: what each scope applied, in order

maps == <<lastSequence, seenIds, seenKeys, applied, log>>
vars == <<lastSequence, seenIds, seenKeys, applied, answer, log>>

Outcomes == {"applied", "duplicate", "id-conflict", "idempotency-conflict",
             "expired", "stale", "gap"}

----------------------------------------------------------------------------
(* The conditions of the early returns.  The digest of an event is its     *)
(* canonical form, so two digests are equal exactly when the events are,   *)
(* and the maps may hold the events themselves.                            *)

\* The variants named here and below carry a fault that a change of the code
\* might bring in; the properties at the end of the module tell them apart.
KeySeenUnaltered(e) == seenKeys[KeyOf(e)] = e

IdSeen(e)  == seenIds[IdentityOf(e)] # None
KeySeen(e) == seenKeys[KeyOf(e)] # None

\* The entry an event is compared with: by identity first, then by key.
Remembered(e) == IF IdSeen(e) THEN seenIds[IdentityOf(e)]
                              ELSE seenKeys[KeyOf(e)]

UnseenById(e)  == ~IdSeen(e)
UnseenByKey(e) == ~KeySeen(e)

Unseen(e) == ~IdSeen(e) /\ ~KeySeen(e)

Expired(e) == e.expiresat # None /\ e.expiresat <= ObservationTime

BehindOnlyIfEqual(e) == e.sequence = lastSequence[ScopeOf(e)]

BehindSuccessor(e) == /\ lastSequence[ScopeOf(e)] # None
                      /\ e.sequence <= lastSequence[ScopeOf(e)] + 1

Behind(e) == /\ lastSequence[ScopeOf(e)] # None
             /\ e.sequence <= lastSequence[ScopeOf(e)]

AheadByTwo(e) == /\ lastSequence[ScopeOf(e)] # None
                 /\ e.sequence > lastSequence[ScopeOf(e)] + 2

AheadOfLast(e) == /\ lastSequence[ScopeOf(e)] # None
                  /\ e.sequence > lastSequence[ScopeOf(e)]

Ahead(e) == /\ lastSequence[ScopeOf(e)] # None
             /\ e.sequence > lastSequence[ScopeOf(e)] + 1

Answer(e, outcome) == answer' = [event |-> e, outcome |-> outcome]

WasApplied(e) == \E n \in 1..Len(log[ScopeOf(e)]) : log[ScopeOf(e)][n] = e

----------------------------------------------------------------------------
InitBeforeFirst ==
    /\ lastSequence = [s \in Scopes |-> -1]
    /\ seenIds = [i \in Identities |-> None]
    /\ seenKeys = [k \in Keys |-> None]
    /\ applied = 0
    /\ answer = None
    /\ log = [s \in Scopes |-> << >>]

Init ==
    /\ lastSequence = [s \in Scopes |-> None]
    /\ seenIds = [i \in Identities |-> None]
    /\ seenKeys = [k \in Keys |-> None]
    /\ applied = 0
    /\ answer = None
    /\ log = [s \in Scopes |-> << >>]

ReceiveDuplicateById(e) == IdSeen(e) /\ Answer(e, "duplicate") /\ UNCHANGED maps

\* The same event again.
ReceiveDuplicate(e) ==
    /\ Remembered(e) = e
    /\ Answer(e, "duplicate")
    /\ UNCHANGED maps

\* Another event under an identity that was applied.
ReceiveIdConflict(e) ==
    /\ IdSeen(e)
    /\ Remembered(e) # e
    /\ Answer(e, "id-conflict")
    /\ UNCHANGED maps

\* Another identity under an idempotency key that was applied in the scope.
ReceiveIdempotencyConflict(e) ==
    /\ ~IdSeen(e)
    /\ KeySeen(e)
    /\ Remembered(e) # e
    /\ Answer(e, "idempotency-conflict")
    /\ UNCHANGED maps

ReceiveExpired(e) ==
    /\ Unseen(e)
    /\ Expired(e)
    /\ Answer(e, "expired")
    /\ UNCHANGED maps

ReceiveStale(e) ==
    /\ Unseen(e)
    /\ ~Expired(e)
    /\ Behind(e)
    /\ Answer(e, "stale")
    /\ UNCHANGED maps

ReceiveGapRemembered(e) ==
    /\ Unseen(e) /\ ~Expired(e) /\ Ahead(e)
    /\ Answer(e, "gap")
    /\ seenIds' = [seenIds EXCEPT ![IdentityOf(e)] = e]
    /\ UNCHANGED <<lastSequence, seenKeys, applied, log>>

ReceiveGap(e) ==
    /\ Unseen(e)
    /\ ~Expired(e)
    /\ Ahead(e)
    /\ Answer(e, "gap")
    /\ UNCHANGED maps

\* The next event of its scope, or the first one, whatever its sequence.
Apply(e) ==
    /\ Unseen(e)
    /\ ~Expired(e)
    /\ ~Behind(e)
    /\ ~Ahead(e)
    /\ lastSequence' = [lastSequence EXCEPT ![ScopeOf(e)] = e.sequence]
    /\ seenIds' = [seenIds EXCEPT ![IdentityOf(e)] = e]
    /\ seenKeys' = [seenKeys EXCEPT ![KeyOf(e)] = e]
    /\ applied' = applied + 1
    /\ log' = [log EXCEPT ![ScopeOf(e)] = Append(@, e)]
    /\ Answer(e, "applied")

Receive(e) ==
    \/ ReceiveDuplicate(e)
    \/ ReceiveIdConflict(e)
    \/ ReceiveIdempotencyConflict(e)
    \/ ReceiveExpired(e)
    \/ ReceiveStale(e)
    \/ ReceiveGap(e)
    \/ Apply(e)

Next == \E e \in Events : Receive(e)

Spec == Init /\ [][Next]_vars

----------------------------------------------------------------------------
TypeOK ==
    /\ lastSequence \in [Scopes -> Nat \cup {None}]
    /\ seenIds \in [Identities -> Events \cup {None}]
    /\ seenKeys \in [Keys -> Events \cup {None}]
    /\ applied \in Nat
    /\ answer \in [event : Events, outcome : Outcomes] \cup {None}
    /\ log \in [Scopes -> Seq(Events)]

\* What a scope applied is a run of consecutive sequence numbers ending in
\* the number the consumer remembers: receive (lines 34-37) never applies an
\* event over a gap, twice, or behind a later one, in any order of delivery.
LogIsContiguous ==
    \A s \in Scopes :
        /\ (log[s] = << >>) <=> (lastSequence[s] = None)
        /\ log[s] # << >> =>
             \A i \in 1..Len(log[s]) :
                log[s][i].sequence = lastSequence[s] - (Len(log[s]) - i)

\* The two deduplication maps agree with each other and with what was applied
\* (lines 38-39): an event that one of them remembers is remembered by both,
\* under its own identity and key, and is in the log of its scope; and every
\* applied event is remembered.  Were it otherwise, a redelivery could be
\* answered by the wrong rung of the ladder, or be applied again.
MapsAgree ==
    /\ \A i \in Identities : seenIds[i] # None =>
         /\ IdentityOf(seenIds[i]) = i
         /\ seenKeys[KeyOf(seenIds[i])] = seenIds[i]
         /\ \E n \in 1..Len(log[ScopeOf(seenIds[i])]) :
               log[ScopeOf(seenIds[i])][n] = seenIds[i]
    /\ \A k \in Keys : seenKeys[k] # None =>
         /\ KeyOf(seenKeys[k]) = k
         /\ seenIds[IdentityOf(seenKeys[k])] = seenKeys[k]
    /\ \A s \in Scopes : \A n \in 1..Len(log[s]) :
         /\ ScopeOf(log[s][n]) = s
         /\ seenIds[IdentityOf(log[s][n])] = log[s][n]

\* Exactly-once effective processing: no two applications share an identity
\* (institution, source, id), even across ordering scopes, and no two of a
\* scope share an idempotency key (lines 27-32).
AppliedAtMostOnce ==
    \A s, t \in Scopes : \A m \in 1..Len(log[s]), n \in 1..Len(log[t]) :
        (s # t \/ m # n) =>
            /\ IdentityOf(log[s][m]) # IdentityOf(log[t][n])
            /\ KeyOf(log[s][m]) # KeyOf(log[t][n])

\* What was applied stays applied and remembered: a later event, whatever it
\* shares with an earlier one, replaces no entry of the maps, and a scope's
\* sequence only moves by one once it is set.
NothingForgotten ==
    [][/\ \A i \in Identities : seenIds[i] # None => seenIds'[i] = seenIds[i]
       /\ \A k \in Keys : seenKeys[k] # None => seenKeys'[k] = seenKeys[k]
       /\ \A s \in Scopes : lastSequence[s] # None =>
             lastSequence'[s] \in {lastSequence[s], lastSequence[s] + 1}]_vars

\* A redelivery of an event that was applied is answered "duplicate", and an
\* event answered "duplicate" was applied before, so that acknowledging one is
\* always right: deduplication comes before the checks of expiry, staleness
\* and gaps (lines 27-36).
DuplicateMeansApplied ==
    [][WasApplied(answer'.event) <=> answer'.outcome = "duplicate"]_vars

----------------------------------------------------------------------------
\* The consumer, seen through its log alone, processes effectively once and in
\* order: its three maps decide exactly as the whole history would.
Effective == INSTANCE EffectiveProcessing

ImplementsEffectiveProcessing == Effective!Spec

============================================================================
