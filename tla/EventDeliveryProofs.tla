------------------------- MODULE EventDeliveryProofs -------------------------
(***************************************************************************)
(* Safety of the consumer behind the transport, for every stream.          *)
(***************************************************************************)
EXTENDS EventDelivery, EventConsumerProofs

\* Only published events of the streams take effect.
LogIsPublished ==
    \A s \in Scopes : \A n \in 1..Len(log[s]) : log[s][n] \in published

DInv == /\ IInv
        /\ DTypeOK
        /\ LogIsPublished
        /\ NothingLost
        /\ DroppedForCause

----------------------------------------------------------------------------
(* Streams consist of deliverable events. *)
LEMMA StreamEvents ==
    ASSUME NEW e \in Stream
    PROVE  e \in Events /\ ScopeOf(e) \in Scopes
PROOF BY StreamAssumption, KeysOfEvents

(* An event that is over a gap is ahead of the first event of its scope, by  *)
(* more than one.                                                            *)
LEMMA GapIsAhead ==
    ASSUME DInv, NEW e \in Stream, ReceiveGap(e)
    PROVE  /\ log[ScopeOf(e)] # << >>
           /\ e.sequence > log[ScopeOf(e)][1].sequence + 1
<1> DEFINE s == ScopeOf(e)
           last == lastSequence[s]
<1>1. /\ s \in Scopes /\ e.sequence \in Nat
      /\ TypeOK /\ LogIsContiguous
  BY StreamEvents, KeysOfEvents DEF DInv, IInv
<1>2. last \in Nat /\ last # None /\ e.sequence > last + 1
  BY <1>1 DEF ReceiveGap, Ahead, TypeOK
<1>3. log[s] # << >> /\ log[s] \in Seq(Events)
  BY <1>1, <1>2 DEF LogIsContiguous, TypeOK
<1>4. Len(log[s]) \in Nat /\ 1 \in 1..Len(log[s])
  BY <1>3
<1>5. log[s][1].sequence = last - (Len(log[s]) - 1)
  BY <1>1, <1>3, <1>4 DEF LogIsContiguous
<1> QED
  BY <1>1, <1>2, <1>3, <1>4, <1>5

(* An applied event is in the log of its scope and was published. *)
LEMMA AppliedIsPublished ==
    ASSUME LogIsPublished, NEW e \in Stream, WasApplied(e)
    PROVE  e \in published
PROOF BY StreamEvents DEF LogIsPublished, WasApplied

(* Apply adds its event to what was applied, and no other. *)
LEMMA ApplyAddsOne ==
    ASSUME IInv, NEW e \in Events, Apply(e), NEW f \in Events
    PROVE  WasApplied(f)' <=> WasApplied(f) \/ f = e
<1> DEFINE s == ScopeOf(f)
           t == ScopeOf(e)
<1>0. TypeOK /\ s \in Scopes /\ t \in Scopes
  BY KeysOfEvents DEF IInv
<1>1. ASSUME WasApplied(f) PROVE WasApplied(f)'
  <2>1. PICK n \in 1..Len(log[s]) : log[s][n] = f
    BY <1>1 DEF WasApplied
  <2>2. Len(log[s]) \in Nat /\ log'[s][n] = f /\ n \in 1..Len(log'[s])
    BY <1>0, <2>1, ApplyLog
  <2> QED
    BY <2>2 DEF WasApplied
<1>2. ASSUME f = e PROVE WasApplied(f)'
  <2>1. /\ Len(log[t]) \in Nat
        /\ Len(log'[t]) = Len(log[t]) + 1
        /\ log'[t][Len(log[t]) + 1] = e
    BY <1>0, ApplyLog
  <2>2. Len(log[t]) + 1 \in 1..Len(log'[t])
    BY <2>1
  <2> QED
    BY <1>2, <2>1, <2>2 DEF WasApplied
<1>3. ASSUME WasApplied(f)', f # e PROVE WasApplied(f)
  <2>1. PICK n \in 1..Len(log'[s]) : log'[s][n] = f
    BY <1>3 DEF WasApplied
  <2>2. CASE s # t
    <3>1. log'[s] = log[s]
      BY <1>0, <2>2, ApplyLog
    <3> QED
      BY <2>1, <3>1 DEF WasApplied
  <2>3. CASE s = t
    <3>1. /\ Len(log[s]) \in Nat
          /\ Len(log'[s]) = Len(log[s]) + 1
          /\ log'[s][Len(log[s]) + 1] = e
          /\ \A i \in 1..Len(log[s]) : log'[s][i] = log[s][i]
      BY <1>0, <2>3, ApplyLog
    <3>2. n # Len(log[s]) + 1
      BY <1>3, <2>1, <3>1
    <3>3. n \in 1..Len(log[s])
      BY <3>1, <3>2
    <3> QED
      BY <2>1, <3>1, <3>3 DEF WasApplied
  <2> QED
    BY <2>2, <2>3
<1> QED
  BY <1>1, <1>2, <1>3

(* The first event a scope applied stays its first. *)
LEMMA FirstStays ==
    ASSUME IInv, NEW e \in Events, Apply(e), NEW s \in Scopes, log[s] # << >>
    PROVE  log'[s] # << >> /\ log'[s][1] = log[s][1]
<1>1. TypeOK /\ log[s] \in Seq(Events)
  BY DEF IInv, TypeOK
<1>2. Len(log[s]) \in Nat /\ 1 \in 1..Len(log[s])
  BY <1>1
<1>3. log'[s][1] = log[s][1]
  BY <1>1, <1>2, ApplyLog
<1>4. CASE s = ScopeOf(e)
  <2>1. Len(log'[s]) = Len(log[s]) + 1
    BY <1>1, <1>4, ApplyLog
  <2> QED
    BY <1>2, <1>3, <2>1
<1>5. CASE s # ScopeOf(e)
  BY <1>1, <1>3, <1>5, ApplyLog
<1> QED
  BY <1>4, <1>5

(* A stale event of a stream lies before the first event its scope applied:  *)
(* were it inside the run that was applied, it would be one of that run.     *)
LEMMA StaleIsEarly ==
    ASSUME DInv, NEW e \in Stream, Unseen(e), Behind(e)
    PROVE  /\ log[ScopeOf(e)] # << >>
           /\ e.sequence < log[ScopeOf(e)][1].sequence
<1> DEFINE s == ScopeOf(e)
           len == Len(log[s])
           last == lastSequence[s]
<1>1. /\ e \in Events /\ s \in Scopes /\ e.sequence \in Nat
      /\ IInv /\ TypeOK /\ LogIsContiguous
  BY StreamEvents, KeysOfEvents DEF DInv, IInv
<1>2. last # None /\ last \in Nat /\ e.sequence <= last
  BY <1>1 DEF Behind, TypeOK
<1>3. log[s] # << >> /\ log[s] \in Seq(Events)
  BY <1>1, <1>2 DEF LogIsContiguous, TypeOK
<1>4. len \in Nat /\ len >= 1
  BY <1>3
<1>5. \A i \in 1..len : log[s][i].sequence = last - (len - i)
  BY <1>1, <1>3 DEF LogIsContiguous
<1>6. log[s][1].sequence = last - (len - 1)
  BY <1>4, <1>5
<1>7. e.sequence < last - (len - 1)
  <2> SUFFICES ASSUME e.sequence >= last - (len - 1) PROVE FALSE
    BY <1>1, <1>2, <1>4
  <2> DEFINE i == len - (last - e.sequence)
  <2>1. i \in 1..len
    BY <1>1, <1>2, <1>4
  <2>2. last - (len - i) = e.sequence
    BY <1>1, <1>2, <1>4
  <2>3. log[s][i].sequence = e.sequence
    BY <1>5, <2>1, <2>2
  <2>4. /\ log[s][i] \in Events
        /\ IdentityOf(log[s][i]) # IdentityOf(e)
    BY <1>1, <2>1, UnseenIsNew
  <2>5. log[s][i] \in Stream /\ ScopeOf(log[s][i]) = s
    BY <1>1, <2>1 DEF DInv, LogIsPublished, DTypeOK, IInv, MapsAgree
  <2> QED
    BY <2>3, <2>4, <2>5, StreamAssumption
<1> QED
  BY <1>3, <1>6, <1>7

(* Events of a stream never conflict. *)
LEMMA NoConflict ==
    ASSUME DInv, NEW e \in Stream
    PROVE  ~ReceiveIdConflict(e) /\ ~ReceiveIdempotencyConflict(e)
<1>1. e \in Events /\ IdentityOf(e) \in Identities /\ KeyOf(e) \in Keys
  BY StreamEvents, KeysOfEvents
<1>2. ASSUME NEW f \in Events, seenIds[IdentityOf(f)] = f, f # None
      PROVE  f \in Stream
  <2>1. IdentityOf(f) \in Identities /\ ScopeOf(f) \in Scopes
    BY KeysOfEvents
  <2>2. \E n \in 1..Len(log[ScopeOf(f)]) : log[ScopeOf(f)][n] = f
    BY <1>2, <2>1 DEF DInv, IInv, MapsAgree
  <2> QED
    BY <2>1, <2>2 DEF DInv, LogIsPublished, DTypeOK
<1>3. ASSUME ReceiveIdConflict(e) PROVE FALSE
  <2> DEFINE f == seenIds[IdentityOf(e)]
  <2>1. f # None /\ f # e /\ f \in Events
    BY <1>1, <1>3 DEF ReceiveIdConflict, IdSeen, Remembered, DInv, IInv, TypeOK
  <2>2. IdentityOf(f) = IdentityOf(e)
    BY <1>1, <2>1 DEF DInv, IInv, MapsAgree
  <2>3. f \in Stream
    BY <1>2, <2>1, <2>2
  <2> QED
    BY <2>1, <2>2, <2>3, StreamAssumption
<1>4. ASSUME ReceiveIdempotencyConflict(e) PROVE FALSE
  <2> DEFINE f == seenKeys[KeyOf(e)]
  <2>1. f # None /\ f # e /\ f \in Events
    BY <1>1, <1>4
       DEF ReceiveIdempotencyConflict, KeySeen, Remembered, DInv, IInv, TypeOK
  <2>2. KeyOf(f) = KeyOf(e) /\ seenIds[IdentityOf(f)] = f
    BY <1>1, <2>1 DEF DInv, IInv, MapsAgree
  <2>3. f \in Stream
    BY <1>2, <2>1, <2>2
  <2> QED
    BY <2>1, <2>2, <2>3, StreamAssumption
<1> QED
  BY <1>3, <1>4

----------------------------------------------------------------------------
LEMMA DInitDInv == DInit => DInv
<1> SUFFICES ASSUME DInit PROVE DInv
  OBVIOUS
<1>1. IInv
  BY InitIInv DEF DInit
<1>2. DTypeOK
  BY <1>1, RetryAssumption DEF DInit, DTypeOK, IInv
<1>3. LogIsPublished
  BY DEF DInit, Init, LogIsPublished
<1>4. NothingLost /\ DroppedForCause
  BY RetryAssumption DEF DInit, NothingLost, DroppedForCause, Poisoned
<1> QED
  BY <1>1, <1>2, <1>3, <1>4 DEF DInv

LEMMA PublishDInv ==
    ASSUME DInv, NEW e \in Stream, Publish(e)
    PROVE  DInv'
<1>1. UNCHANGED vars
  BY DEF Publish
<1>2. IInv'
  BY <1>1, NextIInv DEF DInv
<1>3. DTypeOK'
  BY <1>2 DEF DInv, DTypeOK, IInv, Publish
<1>4. \A f : WasApplied(f)' <=> WasApplied(f)
  BY <1>1 DEF WasApplied, vars
<1>5. LogIsPublished'
  BY <1>1 DEF DInv, LogIsPublished, Publish, vars
<1>6. NothingLost'
  BY <1>4, AppliedIsPublished DEF DInv, NothingLost, Poisoned, DTypeOK, Publish
<1>7. DroppedForCause'
  BY <1>1 DEF DInv, DroppedForCause, Publish, Expired, Poisoned, vars
<1> QED
  BY <1>2, <1>3, <1>5, <1>6, <1>7 DEF DInv

(* What every delivery preserves, whatever becomes of the event. *)
LEMMA DeliveryKeeps ==
    ASSUME DInv, NEW e \in Stream, e \in inFlight, Receive(e),
           published' = published
    PROVE  /\ IInv'
           /\ LogIsPublished'
           /\ \A f \in Stream :
                WasApplied(f)' <=> WasApplied(f) \/ (f = e /\ Apply(e))
           /\ answer'.outcome \in Processed <=> WasApplied(e)'
<1>1. e \in Events /\ IInv /\ TypeOK /\ e \in published
  BY StreamEvents DEF DInv, DTypeOK, IInv
<1>2. Next
  BY <1>1 DEF Next
<1>3. IInv'
  BY <1>1, <1>2, NextIInv
<1>4. CASE Apply(e)
  <2>1. \A f \in Stream : WasApplied(f)' <=> WasApplied(f) \/ f = e
    BY <1>1, <1>4, StreamEvents, ApplyAddsOne
  <2>2. LogIsPublished'
    <3> SUFFICES ASSUME NEW s \in Scopes, NEW n \in 1..Len(log'[s])
                 PROVE  log'[s][n] \in published
      BY DEF LogIsPublished
    <3>1. CASE s = ScopeOf(e)
      <4>1. /\ Len(log[s]) \in Nat
            /\ Len(log'[s]) = Len(log[s]) + 1
            /\ log'[s][Len(log[s]) + 1] = e
            /\ \A i \in 1..Len(log[s]) : log'[s][i] = log[s][i]
        BY <1>1, <1>4, <3>1, ApplyLog
      <4>2. CASE n = Len(log[s]) + 1
        BY <1>1, <4>1, <4>2
      <4>3. CASE n # Len(log[s]) + 1
        <5>1. n \in 1..Len(log[s])
          BY <4>1, <4>3
        <5> QED
          BY <4>1, <5>1 DEF DInv, LogIsPublished
      <4> QED
        BY <4>2, <4>3
    <3>2. CASE s # ScopeOf(e)
      <4>1. log'[s] = log[s]
        BY <1>1, <1>4, <3>2, ApplyLog
      <4> QED
        BY <4>1 DEF DInv, LogIsPublished
    <3> QED
      BY <3>1, <3>2
  <2>3. answer'.outcome = "applied"
    BY <1>4 DEF Apply, Answer
  <2> QED
    BY <1>3, <1>4, <2>1, <2>2, <2>3 DEF Processed
<1>5. CASE ~Apply(e)
  <2>1. UNCHANGED maps /\ answer'.outcome # "applied"
    BY <1>1, <1>5, AnswerOfReceive
  <2>2. \A f : WasApplied(f)' <=> WasApplied(f)
    BY <2>1 DEF WasApplied, maps
  <2>3. LogIsPublished'
    BY <2>1 DEF DInv, LogIsPublished, maps
  <2>4. answer'.outcome = "duplicate" <=> WasApplied(e)
    BY <1>1, AnswerOfReceive, RememberedIsApplied
  <2> QED
    BY <1>3, <1>5, <2>1, <2>2, <2>3, <2>4 DEF Processed
<1> QED
  BY <1>4, <1>5

(* An event already set aside keeps its reason. *)
LEMMA DroppedKeepReason ==
    ASSUME DInv, NEW e \in Stream, e \in inFlight, Receive(e),
           NEW f \in quarantined
    PROVE  \/ Expired(f)
           \/ /\ log'[ScopeOf(f)] # << >>
              /\ \/ f.sequence < log'[ScopeOf(f)][1].sequence
                 \/ /\ Poisoned(f)
                    /\ f.sequence > log'[ScopeOf(f)][1].sequence + 1
<1>1. f \in Stream /\ e \in Events /\ IInv
  BY StreamEvents DEF DInv, DTypeOK
<1>2. ScopeOf(f) \in Scopes
  BY <1>1, StreamEvents
<1>3. CASE Apply(e)
  BY <1>1, <1>2, <1>3, FirstStays DEF DInv, DroppedForCause
<1>4. CASE ~Apply(e)
  <2>1. UNCHANGED log
    BY <1>1, <1>4, AnswerOfReceive DEF maps
  <2> QED
    BY <2>1 DEF DInv, DroppedForCause
<1> QED
  BY <1>3, <1>4

LEMMA DeliverDInv ==
    ASSUME DInv, NEW e \in Stream, Deliver(e)
    PROVE  DInv'
<1>1. e \in inFlight /\ Receive(e) /\ published' = published
  BY DEF Deliver, DeliverAndAcknowledge, DeliverUnacknowledged,
         DeliverForRetry, DeliverAsPoison, DeliverAndReject, transport
<1>2. /\ IInv'
      /\ LogIsPublished'
      /\ \A f \in Stream :
            WasApplied(f)' <=> WasApplied(f) \/ (f = e /\ Apply(e))
      /\ answer'.outcome \in Processed <=> WasApplied(e)'
  BY <1>1, DeliveryKeeps
<1>3. published \in SUBSET Stream /\ e \in published /\ e \notin quarantined
  BY <1>1 DEF DInv, DTypeOK, NothingLost
<1>7. \A f \in Stream : f # e => (Poisoned(f)' <=> Poisoned(f))
  BY <1>1 DEF DInv, DTypeOK, Poisoned, Deliver, DeliverAndAcknowledge,
     DeliverUnacknowledged, DeliverForRetry, DeliverAsPoison, DeliverAndReject,
     transport
<1>8. /\ gaps \in [Stream -> 0..(MaxRetries + 1)]
      /\ gaps' \in [Stream -> 0..(MaxRetries + 1)]
      /\ Poisoned(e)' => DeliverAsPoison(e)
  <2>1. gaps \in [Stream -> 0..(MaxRetries + 1)] /\ MaxRetries \in Nat
    BY RetryAssumption DEF DInv, DTypeOK
  <2>2. ~Poisoned(e) /\ gaps[e] \in 0..MaxRetries
    BY <1>3, <2>1 DEF DInv, NothingLost, Poisoned
  <2>3. CASE DeliverForRetry(e) \/ DeliverAsPoison(e)
    <3>1. gaps' = [gaps EXCEPT ![e] = @ + 1]
      BY <2>3 DEF DeliverForRetry, DeliverAsPoison
    <3>2. gaps'[e] = gaps[e] + 1 /\ gaps[e] + 1 \in 0..(MaxRetries + 1)
      BY <2>1, <2>2, <3>1
    <3>3. gaps' \in [Stream -> 0..(MaxRetries + 1)]
      BY <2>1, <3>1, <3>2
    <3>4. Poisoned(e)' => DeliverAsPoison(e)
      BY <2>1, <2>2, <2>3, <3>2 DEF DeliverForRetry, Poisoned
    <3> QED
      BY <2>1, <3>3, <3>4
  <2>4. CASE ~DeliverForRetry(e) /\ ~DeliverAsPoison(e)
    <3>1. gaps' = gaps
      BY <2>4 DEF Deliver, DeliverAndAcknowledge, DeliverUnacknowledged,
         DeliverAndReject, transport
    <3> QED
      BY <2>1, <2>2, <3>1 DEF Poisoned
  <2> QED
    BY <2>3, <2>4
<1>4. DTypeOK'
  <2>1. TypeOK'
    BY <1>2 DEF IInv
  <2>2. /\ inFlight' \in SUBSET published /\ acknowledged' \in SUBSET published
        /\ quarantined' \in SUBSET published
    BY <1>1, <1>3
       DEF DInv, DTypeOK, Deliver, DeliverAndAcknowledge, transport,
           DeliverUnacknowledged, DeliverForRetry, DeliverAsPoison,
           DeliverAndReject
  <2> QED
    BY <1>1, <1>3, <1>8, <2>1, <2>2 DEF DTypeOK
<1>5. NothingLost'
  <2>0. ASSUME NEW f \in Stream, Poisoned(f)' PROVE f \in quarantined'
    <3>1. quarantined \subseteq quarantined'
      BY DEF Deliver, DeliverAndAcknowledge, transport, DeliverUnacknowledged,
         DeliverForRetry, DeliverAsPoison, DeliverAndReject
    <3>2. DeliverAsPoison(e) => e \in quarantined'
      BY DEF DeliverAsPoison
    <3>3. Poisoned(f) => f \in quarantined
      BY DEF DInv, NothingLost
    <3> QED
      BY <1>7, <1>8, <2>0, <3>1, <3>2, <3>3
  <2> SUFFICES ASSUME NEW f \in published
               PROVE  /\ f \in inFlight' \/ f \in quarantined' \/ WasApplied(f)'
                      /\ f \in acknowledged' => WasApplied(f)' /\ f \notin inFlight'
                      /\ f \in quarantined' => ~WasApplied(f)' /\ f \notin inFlight'
    BY <1>1, <2>0 DEF NothingLost
  <2>1. f \in Stream
    BY <1>3
  <2>2. /\ f \in inFlight \/ f \in quarantined \/ WasApplied(f)
        /\ f \in acknowledged => WasApplied(f) /\ f \notin inFlight
        /\ f \in quarantined => ~WasApplied(f) /\ f \notin inFlight
    BY DEF DInv, NothingLost
  <2>3. WasApplied(f)' <=> WasApplied(f) \/ (f = e /\ Apply(e))
    BY <1>2, <2>1
  <2>5. CASE DeliverAndAcknowledge(e)
    BY <1>1, <1>2, <1>3, <2>2, <2>3, <2>5 DEF DeliverAndAcknowledge
  <2>6. CASE DeliverUnacknowledged(e) \/ DeliverForRetry(e)
    BY <1>1, <1>3, <2>2, <2>3, <2>6
       DEF DeliverUnacknowledged, DeliverForRetry, transport
  <2>7. CASE DeliverAsPoison(e) \/ DeliverAndReject(e)
    <3>1. ~WasApplied(e)'
      BY <1>2, <2>7 DEF DeliverAsPoison, DeliverAndReject, Processed
    <3> QED
      BY <1>1, <1>2, <1>3, <2>2, <2>3, <2>7, <3>1
         DEF DeliverAsPoison, DeliverAndReject
  <2> QED
    BY <2>5, <2>6, <2>7 DEF Deliver
<1>6. DroppedForCause'
  <2>1. ASSUME NEW f \in quarantined
        PROVE  \/ Expired(f)
               \/ /\ log'[ScopeOf(f)] # << >>
                  /\ \/ f.sequence < log'[ScopeOf(f)][1].sequence
                     \/ /\ Poisoned(f)'
                        /\ f.sequence > log'[ScopeOf(f)][1].sequence + 1
    <3>1. f # e /\ f \in Stream
      BY <1>1, <1>3 DEF DInv, DTypeOK
    <3>2. Poisoned(f)' <=> Poisoned(f)
      BY <1>7, <3>1
    <3> QED
      BY <1>1, <3>2, DroppedKeepReason
  <2>2. CASE DeliverAndReject(e)
    <3>1. answer'.outcome \notin Processed \cup {"gap"}
      BY <2>2 DEF DeliverAndReject
    <3>2. ReceiveExpired(e) \/ ReceiveStale(e)
      BY <1>1, <3>1, NoConflict
         DEF Receive, ReceiveDuplicate, ReceiveGap, Apply, Answer, Processed
    <3>3. CASE ReceiveExpired(e)
      BY <2>1, <2>2, <3>3
         DEF ReceiveExpired, DeliverAndReject, DroppedForCause, Expired
    <3>4. CASE ReceiveStale(e)
      <4>1. /\ log[ScopeOf(e)] # << >>
            /\ e.sequence < log[ScopeOf(e)][1].sequence
        BY <3>4, StaleIsEarly DEF ReceiveStale
      <4>2. log' = log
        BY <3>4 DEF ReceiveStale, maps
      <4> QED
        BY <2>1, <2>2, <4>1, <4>2
           DEF DeliverAndReject, DroppedForCause, Expired
    <3> QED
      BY <3>2, <3>3, <3>4
  <2>3. CASE DeliverAsPoison(e)
    <3>1. ReceiveGap(e)
      BY <1>1, <2>3
         DEF DeliverAsPoison, Receive, ReceiveDuplicate, ReceiveIdConflict,
             ReceiveIdempotencyConflict, ReceiveExpired, ReceiveStale, Apply,
             Answer
    <3>2. /\ log[ScopeOf(e)] # << >>
          /\ e.sequence > log[ScopeOf(e)][1].sequence + 1
      BY <3>1, GapIsAhead
    <3>3. log' = log
      BY <3>1 DEF ReceiveGap, maps
    <3>4. Poisoned(e)'
      BY <1>3, <2>3, RetryAssumption DEF DeliverAsPoison, Poisoned, DInv, DTypeOK
    <3> QED
      BY <2>1, <2>3, <3>2, <3>3, <3>4 DEF DeliverAsPoison, DroppedForCause, Expired
  <2>4. CASE ~DeliverAndReject(e) /\ ~DeliverAsPoison(e)
    <3>1. quarantined' = quarantined
      BY <2>4 DEF Deliver, DeliverAndAcknowledge, DeliverUnacknowledged,
                  DeliverForRetry, transport
    <3> QED
      BY <2>1, <3>1 DEF DroppedForCause, Expired
  <2> QED
    BY <2>2, <2>3, <2>4
<1> QED
  BY <1>2, <1>4, <1>5, <1>6 DEF DInv

THEOREM DeliveryInvariant == DSpec => []DInv
<1>1. DInv /\ [DNext]_dvars => DInv'
  <2> SUFFICES ASSUME DInv, [DNext]_dvars PROVE DInv'
    OBVIOUS
  <2>1. CASE DNext
    BY <2>1, PublishDInv, DeliverDInv DEF DNext
  <2>2. CASE UNCHANGED dvars
    <3>1. UNCHANGED vars /\ UNCHANGED transport
      BY <2>2 DEF dvars
    <3>2. IInv'
      BY <3>1, NextIInv DEF DInv
    <3> QED
      BY <3>1, <3>2
         DEF DInv, DTypeOK, IInv, LogIsPublished, NothingLost,
             DroppedForCause, Poisoned, WasApplied, Expired, vars, transport
  <2> QED
    BY <2>1, <2>2
<1> QED
  BY <1>1, DInitDInv, PTL DEF DSpec

(* Nothing published disappears, and only what took effect is acknowledged   *)
(* (events/README.md lines 37-40 on lines 27-42 of the consumer).            *)
THEOREM Conservation == DSpec => []NothingLost
PROOF BY DeliveryInvariant, PTL DEF DInv

(* An event of a well-behaved producer is set aside only because it has      *)
(* expired, lies before the scope's first application, or has used up its    *)
(* retries while a predecessor within the scope was missing (lines 33-36).   *)
THEOREM DropsHaveCause == DSpec => []DroppedForCause
PROOF BY DeliveryInvariant, PTL DEF DInv

\* No scope began behind an event that it should have applied.
BaselinesAreFirst ==
    \A e \in Stream :
        (~Expired(e) /\ log[ScopeOf(e)] # << >>)
            => log[ScopeOf(e)][1].sequence <= e.sequence

(* A published event that has not expired is delivered until it is applied   *)
(* or its retries are used up, in every run in which each scope is opened by *)
(* the first of its events that has not expired: that a later one opens it,  *)
(* line 34, is the only other way in which such an event is dropped          *)
(* (events/README.md lines 40-42).                                           *)
THEOREM OnlyBaselinesDrop ==
    DSpec /\ []BaselinesAreFirst =>
        [](\A e \in published :
              Expired(e) \/ Poisoned(e) \/ e \in inFlight \/ WasApplied(e))
<1>1. DInv /\ BaselinesAreFirst =>
        \A e \in published :
            Expired(e) \/ Poisoned(e) \/ e \in inFlight \/ WasApplied(e)
  <2> SUFFICES ASSUME DInv, BaselinesAreFirst, NEW e \in published,
                      e \in quarantined, ~Expired(e), ~Poisoned(e)
               PROVE  FALSE
    BY DEF DInv, NothingLost
  <2>1. /\ e \in Stream /\ e.sequence \in Nat
        /\ ScopeOf(e) \in Scopes /\ e \in Events
    BY StreamEvents, KeysOfEvents DEF DInv, DTypeOK
  <2>2. /\ log[ScopeOf(e)] # << >>
        /\ e.sequence < log[ScopeOf(e)][1].sequence
    BY DEF DInv, DroppedForCause
  <2>3. log[ScopeOf(e)][1].sequence \in Nat
    <3>1. log[ScopeOf(e)] \in Seq(Events)
      BY <2>1 DEF DInv, IInv, TypeOK
    <3>2. log[ScopeOf(e)][1] \in Events
      BY <2>2, <3>1
    <3> QED
      BY <3>2, KeysOfEvents
  <2> QED
    BY <2>1, <2>2, <2>3 DEF BaselinesAreFirst
<1> QED
  BY <1>1, DeliveryInvariant, PTL

(* Behind the transport the consumer keeps its invariant: what it promises   *)
(* of every input it promises of this one.                                   *)
THEOREM DeliveryTypeCorrectness == DSpec => []DTypeOK
PROOF BY DeliveryInvariant, PTL DEF DInv

----------------------------------------------------------------------------
(* The transport only chooses what the consumer receives, and when: every    *)
(* behaviour of the composition is one of the consumer.                      *)
THEOREM ComposedConsumer == DSpec => Spec
<1>1. DInit => Init
  BY DEF DInit
<1>2. [DNext]_dvars => [Next]_vars
  <2> SUFFICES ASSUME [DNext]_dvars PROVE [Next]_vars
    OBVIOUS
  <2>1. CASE UNCHANGED dvars
    BY <2>1 DEF dvars
  <2>2. ASSUME NEW e \in Stream, Publish(e) PROVE UNCHANGED vars
    BY <2>2 DEF Publish
  <2>3. ASSUME NEW e \in Stream, Deliver(e) PROVE Next
    BY <2>3, StreamEvents
       DEF Next, Deliver, DeliverAndAcknowledge, DeliverUnacknowledged,
           DeliverForRetry, DeliverAsPoison, DeliverAndReject
  <2> QED
    BY <2>1, <2>2, <2>3 DEF DNext
<1> QED
  BY <1>1, <1>2, PTL DEF DSpec, Spec

(* Whatever the transport repeats, delays, reorders or retries, the effects   *)
(* are those of effective processing (events/README.md lines 24-42, lines    *)
(* 27-42 of the consumer).                                                   *)
THEOREM ComposedImplementation == DSpec => ImplementsEffectiveProcessing
PROOF BY ComposedConsumer, Implementation, PTL

(* In particular no identity and no idempotency key takes effect twice,      *)
(* although each event is delivered until an acknowledgement arrives.        *)
THEOREM ComposedAtMostOnce == DSpec => []AppliedAtMostOnce
PROOF BY ComposedConsumer, AtMostOnce, PTL

----------------------------------------------------------------------------
(* The safety part of GapsClose.                                             *)

\* The producers publish a scope's events in the order of their numbers.
PublishedInOrder == \A e \in published : Predecessors(e) \subseteq published

\* The events of a scope are numbered consecutively.
Consecutive ==
    \A e \in Stream : \A f \in Predecessors(e) :
        f.sequence + 1 < e.sequence =>
            \E g \in Predecessors(e) : g.sequence = f.sequence + 1

(* Publication in order is an invariant of the producers. *)
LEMMA InOrderInvariant == DSpec => []PublishedInOrder
<1>1. DInit => PublishedInOrder
  BY DEF DInit, PublishedInOrder
<1>2. PublishedInOrder /\ [DNext]_dvars => PublishedInOrder'
  <2> SUFFICES ASSUME PublishedInOrder, [DNext]_dvars PROVE PublishedInOrder'
    OBVIOUS
  <2>1. CASE UNCHANGED dvars
    BY <2>1 DEF dvars, transport, PublishedInOrder, Predecessors
  <2>2. ASSUME NEW e \in Stream, Publish(e) PROVE PublishedInOrder'
    BY <2>2 DEF Publish, PublishedInOrder, Predecessors
  <2>3. ASSUME NEW e \in Stream, Deliver(e) PROVE PublishedInOrder'
    BY <2>3
       DEF Deliver, DeliverAndAcknowledge, DeliverUnacknowledged, transport,
           DeliverForRetry, DeliverAsPoison, DeliverAndReject, PublishedInOrder, Predecessors
  <2> QED
    BY <2>1, <2>2, <2>3 DEF DNext
<1> QED
  BY <1>1, <1>2, PTL DEF DSpec

(* A scope has applied nothing beyond the sequence it remembers. *)
LEMMA AppliedIsBehind ==
    ASSUME IInv, NEW e \in Events, WasApplied(e)
    PROVE  /\ lastSequence[ScopeOf(e)] \in Nat
           /\ e.sequence <= lastSequence[ScopeOf(e)]
<1> DEFINE s == ScopeOf(e)
<1>1. s \in Scopes /\ log[s] \in Seq(Events)
  BY KeysOfEvents DEF IInv, TypeOK
<1>2. PICK n \in 1..Len(log[s]) : log[s][n] = e
  BY DEF WasApplied
<1>3. Len(log[s]) \in Nat /\ log[s] # << >>
  BY <1>1, <1>2
<1>4. lastSequence[s] \in Nat
  BY <1>1, <1>3 DEF IInv, TypeOK, LogIsContiguous
<1>5. e.sequence = lastSequence[s] - (Len(log[s]) - n)
  BY <1>1, <1>2, <1>3 DEF IInv, LogIsContiguous
<1> QED
  BY <1>2, <1>3, <1>4, <1>5

(* A scope that has a sequence moves by its direct successor only. *)
LEMMA ApplyIsSuccessor ==
    ASSUME TypeOK, NEW e \in Events, Apply(e), lastSequence[ScopeOf(e)] # None
    PROVE  /\ e.sequence = lastSequence[ScopeOf(e)] + 1
           /\ lastSequence'[ScopeOf(e)] = e.sequence
PROOF BY KeysOfEvents DEF TypeOK, Apply, Behind, Ahead

(* The delivery of the event that its scope waits for applies it.            *)
LEMMA NextIsApplied ==
    ASSUME DInv, NEW f \in Stream, Awaited(f), Deliver(f)
    PROVE  Apply(f)
<1>1. f \in Events /\ ScopeOf(f) \in Scopes /\ IInv /\ TypeOK
  BY StreamEvents DEF DInv, IInv
<1>2. Receive(f)
  BY DEF Deliver, DeliverAndAcknowledge, DeliverUnacknowledged,
         DeliverForRetry, DeliverAsPoison, DeliverAndReject
<1>3. Remembered(f) # f
  BY <1>1, RememberedIsApplied DEF Awaited
<1>4. lastSequence[ScopeOf(f)] \in Nat
  BY <1>1 DEF Awaited, TypeOK
<1>5. ~Expired(f) /\ ~Behind(f) /\ ~Ahead(f)
  BY <1>4 DEF Awaited, Behind, Ahead
<1> QED
  BY <1>2, <1>3, <1>5, NoConflict
     DEF Receive, ReceiveDuplicate, ReceiveExpired, ReceiveStale, ReceiveGap

(* What a step of the composition does to the consumer and to an event in    *)
(* flight other than the one that the step delivers.                         *)
LEMMA DeliverKeepsOthers ==
    ASSUME NEW e \in Stream, Deliver(e), NEW f \in Stream, f # e
    PROVE  /\ published' = published
           /\ f \in inFlight => f \in inFlight'
           /\ Receive(e)
PROOF BY DEF Deliver, DeliverAndAcknowledge, DeliverUnacknowledged,
             DeliverForRetry, DeliverAsPoison, DeliverAndReject, transport

(* The event that a scope waits for is delivered until it is applied, and    *)
(* nothing that happens meanwhile takes its place.                           *)
LEMMA NextStaysInLine ==
    ASSUME DInv, NEW f \in Stream, Awaited(f), [DNext]_dvars
    PROVE  Awaited(f)' \/ WasApplied(f)'
<1> DEFINE s == ScopeOf(f)
<1>0. f \in Events /\ s \in Scopes /\ IInv /\ TypeOK
  BY StreamEvents DEF DInv, IInv
<1>1. CASE UNCHANGED dvars
  BY <1>1 DEF dvars, vars, transport, Awaited, WasApplied, Expired
<1>2. ASSUME NEW e \in Stream, Publish(e) PROVE Awaited(f)'
  BY <1>2 DEF Publish, vars, Awaited, WasApplied, Expired
<1>3. ASSUME NEW e \in Stream, Deliver(e)
      PROVE  Awaited(f)' \/ WasApplied(f)'
  <2>0. e \in Events
    BY StreamEvents
  <2>1. CASE e = f
    <3>1. Apply(f)
      BY <1>3, <2>1, NextIsApplied
    <3> QED
      BY <1>0, <3>1, ApplyAddsOne
  <2>2. CASE e # f
    <3>1. f \in inFlight' /\ Receive(e)
      BY <1>3, <2>2, DeliverKeepsOthers DEF Awaited
    <3>2. CASE ~Apply(e)
      <4>1. UNCHANGED maps
        BY <2>0, <3>1, <3>2, AnswerOfReceive
      <4> QED
        BY <3>1, <4>1 DEF maps, Awaited, WasApplied, Expired
    <3>3. CASE Apply(e)
      <4>1. ScopeOf(e) # s
        <5> SUFFICES ASSUME ScopeOf(e) = s PROVE FALSE
          OBVIOUS
        <5>1. e.sequence = f.sequence
          BY <1>0, <2>0, <3>3, ApplyIsSuccessor DEF Awaited
        <5> QED
          BY <2>2, <5>1, StreamAssumption
      <4>2. lastSequence'[s] = lastSequence[s]
        BY <1>0, <2>0, <3>3, <4>1, KeysOfEvents DEF TypeOK, Apply
      <4>3. WasApplied(f)' <=> WasApplied(f)
        BY <1>0, <2>0, <2>2, <3>3, ApplyAddsOne
      <4> QED
        BY <3>1, <4>2, <4>3 DEF Awaited, Expired
    <3> QED
      BY <3>2, <3>3
  <2> QED
    BY <2>1, <2>2
<1> QED
  BY <1>1, <1>2, <1>3 DEF DNext

\* A delivery of the awaited event applies it, and until then it is awaited.
AwaitedUntilApplied ==
    [][\A f \in Stream : Awaited(f) =>
          /\ Deliver(f) => WasApplied(f)'
          /\ Awaited(f)' \/ WasApplied(f)']_dvars

(* Every delivery of the event that a scope waits for takes effect, and no   *)
(* other step keeps it from doing so (lines 33-39).                          *)
THEOREM AwaitedIsApplied == DSpec => AwaitedUntilApplied
<1>1. DInv /\ [DNext]_dvars =>
        [\A f \in Stream : Awaited(f) =>
            /\ Deliver(f) => WasApplied(f)'
            /\ Awaited(f)' \/ WasApplied(f)']_dvars
  <2> SUFFICES ASSUME DInv, [DNext]_dvars, NEW f \in Stream, Awaited(f)
               PROVE  /\ Deliver(f) => WasApplied(f)'
                      /\ Awaited(f)' \/ WasApplied(f)'
    OBVIOUS
  <2>1. f \in Events /\ IInv
    BY StreamEvents DEF DInv
  <2>2. Deliver(f) => WasApplied(f)'
    BY <2>1, NextIsApplied, ApplyAddsOne
  <2> QED
    BY <2>2, NextStaysInLine
<1> QED
  BY <1>1, DeliveryInvariant, PTL DEF DSpec, AwaitedUntilApplied

(* Of an event that its scope has not reached, the successor of what the     *)
(* scope applied last is in flight, or has halted the scope.                 *)
LEMMA AwaitedOfDue ==
    ASSUME DInv, PublishedInOrder, NEW e \in Stream, Due(e),
           NEW f \in Predecessors(e) \cup {e},
           f.sequence = lastSequence[ScopeOf(e)] + 1
    PROVE  Halted(ScopeOf(e)) \/ Awaited(f)
<1> DEFINE s == ScopeOf(e)
           last == lastSequence[s]
<1>0. /\ e \in Events /\ s \in Scopes /\ e.sequence \in Nat
      /\ IInv /\ TypeOK
  BY StreamEvents, KeysOfEvents DEF DInv, IInv
<1>1. last # None /\ last \in Nat /\ last < e.sequence
  BY <1>0 DEF Due, TypeOK
<1>2. f \in Stream /\ f \in Events /\ ScopeOf(f) = s /\ f \in published
  BY StreamEvents DEF Predecessors, PublishedInOrder, Due
<1>3. CASE Expired(f) \/ Poisoned(f)
  BY <1>1, <1>2, <1>3 DEF Halted
<1>4. CASE ~Expired(f) /\ ~Poisoned(f)
  <2>1. ~WasApplied(f)
    BY <1>0, <1>1, <1>2, AppliedIsBehind
  <2>2. f \notin quarantined
    <3>1. log[s] # << >> /\ log[s] \in Seq(Events)
      BY <1>0, <1>1 DEF IInv, TypeOK, LogIsContiguous
    <3>2. Len(log[s]) \in Nat /\ 1 \in 1..Len(log[s])
      BY <3>1
    <3>3. log[s][1].sequence = last - (Len(log[s]) - 1)
      BY <1>0, <3>1, <3>2 DEF IInv, LogIsContiguous
    <3>4. ~(f.sequence < log[s][1].sequence)
      BY <1>1, <3>2, <3>3
    <3> QED
      BY <1>2, <1>4, <3>4 DEF DInv, DroppedForCause
  <2>3. f \in inFlight
    BY <1>2, <2>1, <2>2 DEF DInv, NothingLost
  <2> QED
    BY <1>1, <1>2, <1>4, <2>1, <2>3 DEF Awaited
<1> QED
  BY <1>3, <1>4

\* While something published lies ahead of a scope, the event that the scope
\* waits for is in flight, or the scope has come to a stop.
AwaitedIsInFlight ==
    Consecutive =>
        \A e \in Stream : Due(e) =>
            \/ Halted(ScopeOf(e))
            \/ \E f \in Predecessors(e) \cup {e} : Awaited(f)

(* A gap never waits for an event that nobody will deliver, unless that      *)
(* event has expired or used up its retries: it has not been dropped for     *)
(* another cause, acknowledged away or left unpublished (line 36, the        *)
(* trace's "gap-retry").                                                     *)
THEOREM GapCanClose == DSpec => []AwaitedIsInFlight
<1>1. DInv /\ PublishedInOrder => AwaitedIsInFlight
  <2> SUFFICES ASSUME DInv, PublishedInOrder, Consecutive,
                      NEW e \in Stream, Due(e)
               PROVE  \E f \in Predecessors(e) \cup {e} :
                         f.sequence = lastSequence[ScopeOf(e)] + 1
    BY AwaitedOfDue DEF AwaitedIsInFlight
  <2> DEFINE s == ScopeOf(e)
             last == lastSequence[s]
             len == Len(log[s])
  <2>0. /\ e \in Events /\ s \in Scopes /\ e.sequence \in Nat
        /\ IInv /\ TypeOK
    BY StreamEvents, KeysOfEvents DEF DInv, IInv
  <2>1. last # None /\ last \in Nat /\ last < e.sequence
    BY <2>0 DEF Due, TypeOK
  <2>2. CASE e.sequence = last + 1
    BY <2>2
  <2>3. CASE e.sequence # last + 1
    <3> DEFINE g == log[s][len]
    <3>1. /\ log[s] # << >> /\ log[s] \in Seq(Events)
          /\ len \in Nat /\ len \in 1..len
      BY <2>0, <2>1 DEF IInv, TypeOK, LogIsContiguous
    <3>2. g.sequence = last - (len - len)
      BY <2>0, <3>1 DEF IInv, LogIsContiguous
    <3>3. g.sequence = last
      BY <2>1, <3>1, <3>2
    <3>4. g \in Stream /\ ScopeOf(g) = s
      BY <2>0, <3>1 DEF DInv, LogIsPublished, DTypeOK, IInv, MapsAgree
    <3>5. g \in Predecessors(e) /\ g.sequence + 1 < e.sequence
      BY <2>0, <2>1, <2>3, <3>3, <3>4 DEF Predecessors
    <3> HIDE DEF g
    <3> QED
      BY <3>3, <3>5 DEF Consecutive
  <2> QED
    BY <2>2, <2>3
<1> QED
  BY <1>1, DeliveryInvariant, InOrderInvariant, PTL

(* An event that its scope has not reached stays ahead of it until it is     *)
(* applied, while the scope moves towards it one event at a time.            *)
LEMMA DueStays ==
    ASSUME DInv, NEW e \in Stream, Due(e), [DNext]_dvars
    PROVE  \/ Due(e)' /\ lastSequence'[ScopeOf(e)] \in
                {lastSequence[ScopeOf(e)], lastSequence[ScopeOf(e)] + 1}
           \/ WasApplied(e)' /\ lastSequence'[ScopeOf(e)] =
                lastSequence[ScopeOf(e)] + 1
<1> DEFINE s == ScopeOf(e)
           last == lastSequence[s]
<1>0. /\ e \in Events /\ s \in Scopes /\ e.sequence \in Nat
      /\ IInv /\ TypeOK
  BY StreamEvents, KeysOfEvents DEF DInv, IInv
<1>1. last # None /\ last \in Nat
  BY <1>0 DEF Due, TypeOK
<1>2. ASSUME lastSequence'[s] = last, published \subseteq published'
      PROVE  Due(e)'
  BY <1>2 DEF Due
<1>3. CASE UNCHANGED dvars
  BY <1>2, <1>3 DEF dvars, vars, transport
<1>4. ASSUME NEW g \in Stream, Publish(g)
      PROVE  Due(e)' /\ lastSequence'[s] = last
  BY <1>2, <1>4 DEF Publish, vars
<1>5. ASSUME NEW g \in Stream, Deliver(g)
      PROVE  \/ Due(e)' /\ lastSequence'[s] \in {last, last + 1}
             \/ WasApplied(e)' /\ lastSequence'[s] = last + 1
  <2>1. g \in Events /\ Receive(g) /\ published' = published
    BY <1>5, StreamEvents
       DEF Deliver, DeliverAndAcknowledge, DeliverUnacknowledged, transport,
           DeliverForRetry, DeliverAsPoison, DeliverAndReject
  <2>2. CASE ~Apply(g)
    BY <1>2, <2>1, <2>2, AnswerOfReceive DEF maps
  <2>3. CASE Apply(g) /\ ScopeOf(g) # s
    <3>1. lastSequence'[s] = last
      BY <1>0, <2>1, <2>3, KeysOfEvents DEF TypeOK, Apply
    <3> QED
      BY <1>2, <2>1, <3>1
  <2>4. CASE Apply(g) /\ ScopeOf(g) = s
    <3>1. g.sequence = last + 1 /\ lastSequence'[s] = g.sequence
      BY <1>0, <1>1, <2>1, <2>4, ApplyIsSuccessor
    <3>2. CASE g = e
      BY <1>0, <2>4, <3>1, <3>2, ApplyAddsOne
    <3>3. CASE g # e
      <4>1. g.sequence # e.sequence
        BY <2>4, <3>3, StreamAssumption
      <4>2. lastSequence'[s] < e.sequence
        BY <1>0, <1>1, <3>1, <4>1 DEF Due
      <4>3. lastSequence'[s] # None
        BY <1>1, <3>1, NoneAssumption, <2>1, KeysOfEvents
      <4>4. Due(e)'
        BY <2>1, <4>2, <4>3 DEF Due
      <4> QED
        BY <3>1, <4>4
    <3> QED
      BY <3>2, <3>3
  <2> QED
    BY <2>2, <2>3, <2>4
<1> QED
  BY <1>3, <1>4, <1>5 DEF DNext, dvars, vars

(* A scope that has come to a stop has done so for good.                     *)
LEMMA HaltedStays ==
    ASSUME DInv, [DNext]_dvars, NEW s \in Scopes, Halted(s)
    PROVE  Halted(s)' /\ lastSequence'[s] = lastSequence[s]
<1>0. IInv /\ TypeOK /\ lastSequence[s] # None
  BY DEF DInv, IInv, Halted
<1>1. PICK f \in Stream : /\ ScopeOf(f) = s
                          /\ f.sequence = lastSequence[s] + 1
                          /\ Expired(f) \/ Poisoned(f)
  BY DEF Halted
<1>2. Poisoned(f) => Poisoned(f)' /\ f \notin inFlight
  <2> SUFFICES ASSUME Poisoned(f) PROVE Poisoned(f)' /\ f \notin inFlight
    OBVIOUS
  <2>1. f \notin inFlight
    <3>1. f \in inFlight => f \in published
      BY DEF DInv, DTypeOK
    <3> QED
      BY <3>1 DEF DInv, NothingLost
  <2>2. gaps \in [Stream -> 0..(MaxRetries + 1)]
    BY DEF DInv, DTypeOK
  <2>3. gaps'[f] = gaps[f]
    BY <2>1, <2>2
       DEF DNext, Publish, Deliver, DeliverAndAcknowledge, DeliverUnacknowledged,
           DeliverForRetry, DeliverAsPoison, DeliverAndReject, dvars, transport
  <2> QED
    BY <2>1, <2>3 DEF Poisoned
<1>3. lastSequence'[s] = lastSequence[s]
  <2>1. CASE UNCHANGED dvars
    BY <2>1 DEF dvars, vars
  <2>2. ASSUME NEW g \in Stream, Publish(g) PROVE lastSequence'[s] = lastSequence[s]
    BY <2>2 DEF Publish, vars
  <2>3. ASSUME NEW g \in Stream, Deliver(g) PROVE lastSequence'[s] = lastSequence[s]
    <3>1. g \in Events /\ Receive(g) /\ g \in inFlight
      BY <2>3, StreamEvents
         DEF Deliver, DeliverAndAcknowledge, DeliverUnacknowledged,
             DeliverForRetry, DeliverAsPoison, DeliverAndReject
    <3>2. CASE ~Apply(g)
      BY <3>1, <3>2, AnswerOfReceive DEF maps
    <3>3. CASE Apply(g) /\ ScopeOf(g) # s
      BY <1>0, <3>1, <3>3, KeysOfEvents DEF TypeOK, Apply
    <3>4. CASE Apply(g) /\ ScopeOf(g) = s
      <4>1. g.sequence = f.sequence
        BY <1>0, <1>1, <3>1, <3>4, ApplyIsSuccessor
      <4>2. g = f
        BY <1>1, <3>4, <4>1, StreamAssumption
      <4>3. ~Expired(f)
        BY <3>4, <4>2 DEF Apply
      <4> QED
        BY <1>1, <1>2, <3>1, <4>2, <4>3
    <3> QED
      BY <3>2, <3>3, <3>4
  <2> QED
    BY <2>1, <2>2, <2>3 DEF DNext
<1>4. Halted(s)'
  BY <1>0, <1>1, <1>2, <1>3 DEF Halted, Expired
<1> QED
  BY <1>3, <1>4

\* A scope never passes an event that it has not reached, and never moves again
\* once its next event has expired or used up its retries.
NothingIsPassed ==
    [][/\ \A e \in Stream : Due(e) => Due(e)' \/ WasApplied(e)'
       /\ \A s \in Scopes : Halted(s) => lastSequence'[s] = lastSequence[s]]_dvars

(* A scope applies its events without leaving one out, so that one which has *)
(* expired or used up its retries stops it for good (lines 33-37).           *)
THEOREM NoneIsPassed == DSpec => NothingIsPassed
<1>1. DInv /\ [DNext]_dvars =>
        [/\ \A e \in Stream : Due(e) => Due(e)' \/ WasApplied(e)'
         /\ \A s \in Scopes : Halted(s) => lastSequence'[s] = lastSequence[s]]_dvars
  BY DueStays, HaltedStays
<1> QED
  BY <1>1, DeliveryInvariant, PTL DEF DSpec, NothingIsPassed

\* The transport's fairness to an event, without ENABLED: an event that its
\* scope waits for from some time on is delivered again and again.
Redelivered(f) == <>[]Awaited(f) => []<><<Deliver(f)>>_dvars

(* The event that a scope waits for takes effect, if only the transport goes *)
(* on delivering it.                                                         *)
THEOREM AwaitedEventually ==
    ASSUME NEW f \in Stream
    PROVE  DSpec /\ Redelivered(f) => (Awaited(f) ~> WasApplied(f))
<1>1. DInv /\ Awaited(f) /\ [DNext]_dvars => Awaited(f)' \/ WasApplied(f)'
  BY NextStaysInLine
<1>2. DInv /\ Awaited(f) /\ <<Deliver(f)>>_dvars => WasApplied(f)'
  BY NextIsApplied, ApplyAddsOne, StreamEvents DEF DInv
<1> QED
  BY <1>1, <1>2, DeliveryInvariant, PTL DEF DSpec, Redelivered

(* A gap closes by one: while something lies ahead of a scope, either the    *)
(* event after the last one that it applied takes effect, if only the        *)
(* transport goes on delivering it, and the scope is one step nearer, or the *)
(* scope comes to a stop.  Repeated from the last sequence of the scope up   *)
(* to the event, this is GapsClose.                                          *)
THEOREM GapShrinks ==
    ASSUME NEW e \in Stream, NEW n \in Nat,
           NEW f \in Predecessors(e) \cup {e}, f.sequence = n + 1
    PROVE  DSpec /\ Redelivered(f) =>
             ((Due(e) /\ lastSequence[ScopeOf(e)] = n)
                ~> (Halted(ScopeOf(e)) \/
                    ((WasApplied(e) \/ Due(e)) /\ lastSequence[ScopeOf(e)] = n + 1)))
<1> DEFINE s == ScopeOf(e)
           Before == Due(e) /\ lastSequence[s] = n
           Nearer == (WasApplied(e) \/ Due(e)) /\ lastSequence[s] = n + 1
           After  == Halted(s) \/ Nearer
<1>0. f \in Stream /\ f \in Events /\ ScopeOf(f) = s
  BY StreamEvents DEF Predecessors
<1>1. DInv /\ PublishedInOrder /\ Before => After \/ Awaited(f)
  <2> SUFFICES ASSUME DInv, PublishedInOrder, Before PROVE Halted(s) \/ Awaited(f)
    OBVIOUS
  <2> HIDE DEF Before
  <2>1. Due(e) /\ lastSequence[s] = n /\ IInv
    BY DEF Before, DInv
  <2> QED
    BY <1>0, <2>1, AwaitedOfDue
<1>2. DInv /\ Before /\ [DNext]_dvars => Before' \/ After'
  <2> SUFFICES ASSUME DInv, Before, [DNext]_dvars PROVE Before' \/ Nearer'
    OBVIOUS
  <2> QED
    BY DueStays
<1>3. DInv /\ Before /\ Awaited(f) /\ <<Deliver(f)>>_dvars => After'
  <2> SUFFICES ASSUME DInv, Before, Awaited(f), Deliver(f) PROVE Nearer'
    OBVIOUS
  <2>1. Apply(f)
    BY <1>0, NextIsApplied
  <2>2. lastSequence'[s] = n + 1
    BY <1>0, <2>1, ApplyIsSuccessor DEF DInv, IInv, Due
  <2>3. [DNext]_dvars
    BY <1>0 DEF DNext
  <2> QED
    BY <2>2, <2>3, DueStays
<1> HIDE DEF Before, Nearer, After
<1>4. DSpec /\ Redelivered(f) => (Before ~> After)
  BY <1>1, <1>2, <1>3, DeliveryInvariant, InOrderInvariant, PTL
     DEF DSpec, Redelivered
<1> QED
  BY <1>4 DEF Before, Nearer, After

============================================================================
