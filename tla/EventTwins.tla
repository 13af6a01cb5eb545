----------------------------- MODULE EventTwins -----------------------------
(***************************************************************************)
(* The two consumers of the event trace side by side: the JavaScript one   *)
(* of contracts/test-event-delivery.mjs and the Python one of              *)
(* contracts/test-event-delivery.py.  EventConsumer models what either     *)
(* does with one event in any order of delivery; here it is what the two   *)
(* read in the same trace, and what they answer to it.                     *)
(*                                                                         *)
(* A sequence number is the integer n that it denotes and whether it is    *)
(* written with a point: 1 or 1.0.  An expiry is Absent, or a text that    *)
(* denotes the instant at, counted in the finest instants that a text can  *)
(* tell apart, and is read by some of the two languages: Date.parse and    *)
(* datetime.fromisoformat accept different forms.                          *)
(*                                                                         *)
(* MaxExact stands for 2^53: up to it a double holds every integer, beyond *)
(* it, up to MaxSequence = 2 * MaxExact, only the even ones.  Millisecond  *)
(* is the number of instants in one.                                       *)
(***************************************************************************)
EXTENDS LeaseRules

CONSTANTS MaxExact, Millisecond, ObservationTime

ASSUME ExactAssumption ==
    /\ MaxExact \in Nat /\ MaxExact > 0 /\ MaxExact % 4 = 0
    /\ Millisecond \in Nat \ {0}
    /\ ObservationTime \in Int

MaxSequence == 2 * MaxExact

Languages == {"JavaScript", "Python"}
Numbers == [n : 0..MaxSequence, point : BOOLEAN]
Texts == [at : Int, read : SUBSET Languages]

\* A double with one bit less, a fault.
Narrow(n) == IF n % 2 = 0 THEN n ELSE CHOOSE k \in {n - 1, n + 1} : k % 4 = 0

\* Ties go to the even mantissa.
Double(n) == IF n <= MaxExact \/ n % 2 = 0 THEN n ELSE CHOOSE k \in {n - 1, n + 1} : k % 4 = 0

----------------------------------------------------------------------------
(* One producer: an event is a record of scope, id, key, sequence and      *)
(* expiresat.  A digest is the event as it was read, the text of its       *)
(* expiry included; answers is a history.                                  *)

Empty == [last |-> << >>, ids |-> << >>, keys |-> << >>, applied |-> 0, answers |-> << >>]

KeyOf(e) == <<e.scope, e.key>>
New(m, e) == e.id \notin DOMAIN m.ids /\ KeyOf(e) \notin DOMAIN m.keys

Conflict(m, e) == IF e.id \in DOMAIN m.ids THEN "id-conflict" ELSE "idempotency-conflict"
Held(m, e)     == IF e.id \in DOMAIN m.ids THEN m.ids[e.id] ELSE m.keys[KeyOf(e)]

Known(m, e)  == e.scope \in DOMAIN m.last
Behind(m, e) == Known(m, e) /\ e.sequence.n <= m.last[e.scope].n

\* The order of the returns; expired and ahead are what the language makes of
\* the expiry and of a comparison with the sum last + 1.
Outcome(m, e, expired, ahead) ==
    CASE ~New(m, e) -> IF Held(m, e) = e THEN "duplicate" ELSE Conflict(m, e)
      [] New(m, e) /\ expired -> "expired"
      [] New(m, e) /\ ~expired /\ Behind(m, e) -> "stale"
      [] New(m, e) /\ ~expired /\ ~Behind(m, e) /\ ahead -> "gap"
      [] OTHER -> "applied"

Put(f, x, y) == [z \in DOMAIN f \cup {x} |-> IF z = x THEN y ELSE f[z]]

After(m, e, outcome) ==
    [m EXCEPT !.answers = Append(@, outcome),
              !.last = IF outcome = "applied" THEN Put(@, e.scope, e.sequence) ELSE @,
              !.ids  = IF outcome = "applied" THEN Put(@, e.id, e) ELSE @,
              !.keys = IF outcome = "applied" THEN Put(@, KeyOf(e), e) ELSE @,
              !.applied = IF outcome = "applied" THEN @ + 1 ELSE @]

(* JSON.parse and every sum round, and canonicalize writes 1.0 as 1.  A    *)
(* Date is whole milliseconds, and a NaN is not <= now.                    *)

ReadInJavaScript(e) == [e EXCEPT !.sequence = [n |-> Double(@.n), point |-> FALSE]]

ExpiredInJavaScript(e) ==
    /\ e.expiresat # Absent /\ "JavaScript" \in e.expiresat.read
    /\ e.expiresat.at \div Millisecond <= ObservationTime \div Millisecond

AheadInJavaScript(m, e) == Known(m, e) /\ e.sequence.n > Double(m.last[e.scope].n + 1)

AnswerInJavaScript(m, e) == Outcome(m, e, ExpiredInJavaScript(e), AheadInJavaScript(m, e))

InJavaScript(m, text) ==
    LET e == ReadInJavaScript(text) IN After(m, e, AnswerInJavaScript(m, e))

(* json.loads makes a double of a number with a point, of which every sum  *)
(* rounds, and json.dumps writes the point again; other integers are       *)
(* exact.  fromisoformat, or the comparison, raises where a text is not    *)
(* read.                                                                   *)

ReadInPython(e) == [e EXCEPT !.sequence.n = IF e.sequence.point THEN Double(@) ELSE @]

Raises(e) == e.expiresat # Absent /\ "Python" \notin e.expiresat.read
ExpiredInPython(e) == e.expiresat # Absent /\ e.expiresat.at <= ObservationTime

Sum(last) == IF last.point THEN Double(last.n + 1) ELSE last.n + 1
AheadInPython(m, e) == Known(m, e) /\ e.sequence.n > Sum(m.last[e.scope])

AnswerInPython(m, e) ==
    IF New(m, e) /\ Raises(e) THEN "raised"
    ELSE Outcome(m, e, ExpiredInPython(e), AheadInPython(m, e))

InPython(m, text) ==
    LET e == ReadInPython(text) IN After(m, e, AnswerInPython(m, e))

============================================================================
