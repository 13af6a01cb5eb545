--------------------------- MODULE EventDelivery ---------------------------
(***************************************************************************)
(* The event consumer behind an at-least-once transport, fed by producers  *)
(* that follow the envelope's rules: each event has an identity and a key  *)
(* of its own, and the events of a scope are numbered consecutively and    *)
(* published in that order.                                                *)
(*                                                                         *)
(* Producer and transport are not in the repository.  They are modelled    *)
(* from what the trace replays (a redelivery, a reordered predecessor, the *)
(* retry of a gap) and from contracts/events/README.md, lines 24-42:       *)
(* delivery at least once and in any order, acknowledgement after the      *)
(* effect, a bounded number of retries, and quarantine of the rest.        *)
(***************************************************************************)
EXTENDS EventConsumer

CONSTANTS
    Stream,            \* the events the producers publish
    MaxRetries         \* retries of an event over a gap before it is given up

ASSUME StreamAssumption ==
    /\ Stream \subseteq Events
    /\ \A e, f \in Stream : e # f =>
         /\ IdentityOf(e) # IdentityOf(f)
         /\ KeyOf(e) # KeyOf(f)
         /\ ScopeOf(e) = ScopeOf(f) => e.sequence # f.sequence

ASSUME RetryAssumption == MaxRetries \in Nat

VARIABLES
    published,         \* events the producers have published
    inFlight,          \* published events the transport still delivers
    acknowledged,      \* events whose acknowledgement arrived
    quarantined,       \* events set aside: rejected ones and poison events
    gaps               \* how often each event was answered "gap"

transport == <<published, inFlight, acknowledged, quarantined, gaps>>
dvars == <<vars, transport>>

DInit ==
    /\ Init
    /\ published = {}
    /\ inFlight = {}
    /\ acknowledged = {}
    /\ quarantined = {}
    /\ gaps = [e \in Stream |-> 0]

Predecessors(e) == {f \in Stream : ScopeOf(f) = ScopeOf(e) /\ f.sequence < e.sequence}

Publish(e) ==
    /\ e \notin published
    /\ Predecessors(e) \subseteq published
    /\ published' = published \cup {e}
    /\ inFlight' = inFlight \cup {e}
    /\ UNCHANGED <<vars, acknowledged, quarantined, gaps>>

Processed == {"applied", "duplicate"}

\* The consumer receives an event in flight, and its acknowledgement arrives,
DeliverAndAcknowledge(e) ==
    /\ e \in inFlight
    /\ Receive(e)
    /\ answer'.outcome \in Processed
    /\ inFlight' = inFlight \ {e}
    /\ acknowledged' = acknowledged \cup {e}
    /\ UNCHANGED <<published, quarantined, gaps>>

\* or is lost, so that the event will be delivered again;
DeliverUnacknowledged(e) ==
    /\ e \in inFlight
    /\ Receive(e)
    /\ answer'.outcome \in Processed
    /\ UNCHANGED transport

\* an event over a gap is retried
DeliverForRetry(e) ==
    /\ e \in inFlight
    /\ Receive(e)
    /\ answer'.outcome = "gap"
    /\ gaps[e] < MaxRetries
    /\ gaps' = [gaps EXCEPT ![e] = @ + 1]
    /\ UNCHANGED <<published, inFlight, acknowledged, quarantined>>

\* until its retries are used up: it is then a poison event;
DeliverAsPoison(e) ==
    /\ e \in inFlight
    /\ Receive(e)
    /\ answer'.outcome = "gap"
    /\ gaps[e] = MaxRetries
    /\ gaps' = [gaps EXCEPT ![e] = @ + 1]
    /\ inFlight' = inFlight \ {e}
    /\ quarantined' = quarantined \cup {e}
    /\ UNCHANGED <<published, acknowledged>>

\* any other answer rejects the event at once.
DeliverAndReject(e) ==
    /\ e \in inFlight
    /\ Receive(e)
    /\ answer'.outcome \notin Processed \cup {"gap"}
    /\ inFlight' = inFlight \ {e}
    /\ quarantined' = quarantined \cup {e}
    /\ UNCHANGED <<published, acknowledged, gaps>>

Deliver(e) ==
    \/ DeliverAndAcknowledge(e)
    \/ DeliverUnacknowledged(e)
    \/ DeliverForRetry(e)
    \/ DeliverAsPoison(e)
    \/ DeliverAndReject(e)

\* A poison event: set aside because it was still over a gap at its last retry.
Poisoned(e) == gaps[e] > MaxRetries

DNext == \E e \in Stream : Publish(e) \/ Deliver(e)

\* An event in flight is delivered again and again until it is settled; that
\* is all "at least once" gives.  A retry may come before any other delivery,
\* so an event can be given up although its predecessor is on its way.
Fairness == \A e \in Stream : WF_dvars(Publish(e)) /\ WF_dvars(Deliver(e))

DSpec == DInit /\ [][DNext]_dvars /\ Fairness

----------------------------------------------------------------------------
DTypeOK ==
    /\ published \in SUBSET Stream
    /\ inFlight \in SUBSET published
    /\ acknowledged \in SUBSET published
    /\ quarantined \in SUBSET published
    /\ gaps \in [Stream -> 0..(MaxRetries + 1)]
    /\ TypeOK

\* Nothing published disappears between the transport and the consumer: it is
\* still being delivered, was set aside, or took effect; what was
\* acknowledged did take effect, what was set aside never did, and a poison
\* event was set aside.
NothingLost ==
    /\ \A e \in published :
         /\ e \in inFlight \/ e \in quarantined \/ WasApplied(e)
         /\ e \in acknowledged => WasApplied(e) /\ e \notin inFlight
         /\ e \in quarantined => ~WasApplied(e) /\ e \notin inFlight
    /\ \A e \in Stream : Poisoned(e) => e \in quarantined

\* A producer that follows the rules is never refused for a conflict: an event
\* of such a stream is set aside only because it has expired, because its scope
\* began, at its first application, behind it, or because its retries were used
\* up while a predecessor within the scope was missing (lines 27-36).
DroppedForCause ==
    \A e \in quarantined :
        \/ Expired(e)
        \/ /\ log[ScopeOf(e)] # << >>
           /\ \/ e.sequence < log[ScopeOf(e)][1].sequence
              \/ Poisoned(e) /\ e.sequence > log[ScopeOf(e)][1].sequence + 1

\* The event a scope waits for, in flight and applicable.
Awaited(e) ==
    /\ e \in inFlight
    /\ ~WasApplied(e)
    /\ ~Expired(e)
    /\ lastSequence[ScopeOf(e)] # None
    /\ e.sequence = lastSequence[ScopeOf(e)] + 1

\* A published event that its scope has not reached.
Due(e) ==
    /\ e \in published
    /\ lastSequence[ScopeOf(e)] # None
    /\ lastSequence[ScopeOf(e)] < e.sequence

\* A scope whose next event will never be applied.
Halted(s) ==
    /\ lastSequence[s] # None
    /\ \E f \in Stream :
          /\ ScopeOf(f) = s
          /\ f.sequence = lastSequence[s] + 1
          /\ Expired(f) \/ Poisoned(f)

\* Once a scope has applied an event, it works through what follows: the event
\* that it waits for is applied, and every later one takes effect in its turn,
\* in whatever order the transport delivers (line 36, the trace's "gap-retry"),
\* unless the scope comes to a stop at an event that has expired or whose
\* retries are used up; what lies behind that event is set aside, not kept.
GapsClose ==
    \A e \in Stream :
        /\ Awaited(e) ~> WasApplied(e)
        /\ Due(e) ~> WasApplied(e) \/ (e \in quarantined /\ Halted(ScopeOf(e)))

\* "handlers provide exactly-once effective processing" (events/README.md,
\* line 42): a published event takes effect, unless it has expired or is a
\* poison event, retried in vain as often as the bound allows (line 40).
EffectivelyOnce ==
    \A e \in Stream :
        (e \in published /\ ~Expired(e)) ~> (WasApplied(e) \/ Poisoned(e))

\* "rejects expired/revoked events, ... enforces monotonic sequence within
\* orderingscope" (events/README.md, lines 38-39): numbers need only increase,
\* so an event in flight that follows rejected ones alone is processed.
ExpiryDoesNotObstruct ==
    \A e \in Stream :
        (/\ e \in inFlight
         /\ ~Expired(e)
         /\ lastSequence[ScopeOf(e)] # None
         /\ lastSequence[ScopeOf(e)] < e.sequence
         /\ \A f \in Predecessors(e) :
               f.sequence > lastSequence[ScopeOf(e)] => Expired(f)) ~> WasApplied(e)

============================================================================
