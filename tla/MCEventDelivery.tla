-------------------------- MODULE MCEventDelivery --------------------------
(* Instances of EventDelivery: streams of one producer over two scopes.    *)
EXTENDS EventDelivery

CONSTANTS P, A, B, D

MCProducers       == {P}
MCOrderingScopes  == {A, B}
MCIds             == 1..7
MCIdempotencyKeys == 1..4
MCData            == {D}
MCObservationTime == 5

\* Identities are numbered across the producer's scopes, keys within each.
Event(s, i, n, x) ==
    [producer |-> P, orderingscope |-> s, id |-> i, idempotencykey |-> n,
     sequence |-> n, expiresat |-> x, data |-> D]

\* Three events that may be reordered, and a scope whose middle event has just
\* expired.
MixedStream ==
       {Event(A, n, n, None) : n \in 1..3}
  \cup {Event(B, 5, 1, 6), Event(B, 6, 2, 5), Event(B, 7, 3, None)}

\* One scope, nothing expires.
PlainStream == {Event(A, n, n, None) : n \in 1..3}

\* One scope, the middle event has long expired.
ExpiringStream == {Event(A, 1, 1, None), Event(A, 2, 2, 4), Event(A, 3, 3, None)}
============================================================================
