------------------------ MODULE EffectiveProcessing ------------------------
(***************************************************************************)
(* What a consumer of an at-least-once transport promises                  *)
(* (contracts/events/README.md, "Delivery and processing semantics"):      *)
(* effects happen once and in the order of the producer.  The state is     *)
(* nothing but the effects themselves.                                     *)
(***************************************************************************)
EXTENDS EventEnvelope

VARIABLE log   \* the events that took effect in each scope, in order

Init == log = [s \in Scopes |-> << >>]

\* No earlier effect of the producer has the identity, and none of the scope
\* has the idempotency key.
Fresh(e) ==
    \A s \in Scopes : \A n \in 1..Len(log[s]) :
        /\ IdentityOf(log[s][n]) # IdentityOf(e)
        /\ KeyOf(log[s][n]) # KeyOf(e)

\* The direct successor of the last effect of the scope, if there is one.
InOrder(e) ==
    LET done == log[ScopeOf(e)]
    IN  done # << >> => e.sequence = done[Len(done)].sequence + 1

Process(e) ==
    /\ Fresh(e)
    /\ InOrder(e)
    /\ log' = [log EXCEPT ![ScopeOf(e)] = Append(@, e)]

Next == \E e \in Events : Process(e)

Spec == Init /\ [][Next]_log

============================================================================
