--------------------------- MODULE EventEnvelope ---------------------------
(***************************************************************************)
(* The part of the event envelope that delivery depends on                 *)
(* (contracts/events/event-envelope.schema.json), and the three composite  *)
(* keys that both consumers form from it.                                  *)
(***************************************************************************)
EXTENDS Integers, Sequences

CONSTANTS
    Producers,         \* pairs (institutionid, source)
    OrderingScopes,    \* values of orderingscope
    Ids,               \* values of id
    IdempotencyKeys,   \* values of idempotencykey
    Data,              \* the rest of the envelope, payload included
    Events,            \* the events that may be delivered
    ObservationTime,   \* "now", read once from the trace
    None               \* an absent map entry, an absent expiresat

Envelope ==
    [producer : Producers, orderingscope : OrderingScopes, id : Ids,
     idempotencykey : IdempotencyKeys, sequence : Nat,
     expiresat : Int \cup {None}, data : Data]

ASSUME EventsAssumption == Events \subseteq Envelope
ASSUME TimeAssumption   == ObservationTime \in Int
ASSUME NoneAssumption   == None \notin Int /\ None \notin Events

Scopes     == Producers \X OrderingScopes
Identities == Producers \X Ids
Keys       == Scopes \X IdempotencyKeys

ScopeOf(e)    == <<e.producer, e.orderingscope>>
IdentityOf(e) == <<e.producer, e.id>>
KeyOf(e)      == <<ScopeOf(e), e.idempotencykey>>

============================================================================
