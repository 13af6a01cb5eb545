-------------------------- MODULE MCEventConsumer --------------------------
(* Instance of EventConsumer with the kinds of events that                  *)
(* events/event-delivery.trace.json replays, here in every order: a scope   *)
(* whose events share ids and keys, a second scope and a second producer    *)
(* that reuse them, an altered copy, and expiry before, at and after the    *)
(* observation time.                                                        *)
EXTENDS EventConsumer

CONSTANTS P1, P2, A, B, D1, D2

MCProducers       == {P1, P2}
MCOrderingScopes  == {A, B}
MCIds             == 1..3
MCIdempotencyKeys == 1..3
MCData            == {D1, D2}
MCObservationTime == 5

Event(p, s, i, k, n, x, d) ==
    [producer |-> p, orderingscope |-> s, id |-> i, idempotencykey |-> k,
     sequence |-> n, expiresat |-> x, data |-> d]

MCEvents ==
       {Event(P1, A, i, k, n, None, D1) :
           i \in MCIds, k \in {1, 2}, n \in 0..2}
  \cup {Event(P1, A, i, 3, 2, None, D1) : i \in MCIds}
  \cup {Event(P1, A, 2, 2, 1, None, D2)}
  \cup {Event(P1, A, 2, 1, 2, x, D1) : x \in 4..6}
  \cup {Event(P1, B, i, 1, i, None, D1) : i \in {1, 2}}
  \cup {Event(P2, A, 1, 1, 2, None, D1)}
============================================================================
