------------------------- MODULE EventConsumerProofs -------------------------
(***************************************************************************)
(* Proofs about EventConsumer for every set of producers, scopes, ids,     *)
(* keys, payloads and events, and every observation time.                  *)
(***************************************************************************)
EXTENDS EventConsumer, TLAPS

\* The maps summarise the log: inductive together.
IInv == TypeOK /\ LogIsContiguous /\ MapsAgree

----------------------------------------------------------------------------
(* The composite keys of a deliverable event lie in the maps' domains, and *)
(* the idempotency key of an event determines its scope.                   *)
LEMMA KeysOfEvents ==
    ASSUME NEW e \in Events
    PROVE  /\ ScopeOf(e) \in Scopes
           /\ IdentityOf(e) \in Identities
           /\ KeyOf(e) \in Keys
           /\ e.sequence \in Nat
           /\ e # None
PROOF BY EventsAssumption, NoneAssumption
      DEF Envelope, Scopes, Identities, Keys, ScopeOf, IdentityOf, KeyOf

(* Equal keys mean equal scopes (the key repeats the scope, line 25). *)
LEMMA KeyHasScope ==
    ASSUME NEW e, NEW f, KeyOf(e) = KeyOf(f)
    PROVE  ScopeOf(e) = ScopeOf(f)
PROOF BY DEF KeyOf, ScopeOf

(* An event that meets an unremembered identity and key was not applied. *)
LEMMA UnseenIsNew ==
    ASSUME IInv, NEW e \in Events, Unseen(e),
           NEW s \in Scopes, NEW n \in 1..Len(log[s])
    PROVE  /\ log[s][n] \in Events
           /\ IdentityOf(log[s][n]) # IdentityOf(e)
           /\ KeyOf(log[s][n]) # KeyOf(e)
<1>1. log[s] \in Seq(Events)
  BY DEF IInv, TypeOK
<1>2. log[s][n] \in Events
  BY <1>1
<1>3. seenIds[IdentityOf(log[s][n])] = log[s][n]
  BY DEF IInv, MapsAgree
<1>4. seenKeys[KeyOf(log[s][n])] = log[s][n]
  BY <1>2, <1>3, KeysOfEvents DEF IInv, MapsAgree
<1>5. log[s][n] # None
  BY <1>2, KeysOfEvents
<1> QED
  BY <1>2, <1>3, <1>4, <1>5 DEF Unseen, IdSeen, KeySeen

----------------------------------------------------------------------------
(* What Apply does to the log of a scope. *)
LEMMA ApplyLog ==
    ASSUME TypeOK, NEW e \in Events, Apply(e), NEW s \in Scopes
    PROVE  /\ s # ScopeOf(e) => log'[s] = log[s]
           /\ s = ScopeOf(e) =>
                /\ Len(log'[s]) = Len(log[s]) + 1
                /\ log'[s][Len(log[s]) + 1] = e
                /\ log'[s] \in Seq(Events)
           /\ \A n \in 1..Len(log[s]) : log'[s][n] = log[s][n]
           /\ Len(log[s]) \in Nat
<1>1. log[s] \in Seq(Events) /\ log \in [Scopes -> Seq(Events)]
  BY DEF TypeOK
<1>2. log' = [log EXCEPT ![ScopeOf(e)] = Append(@, e)]
  BY DEF Apply
<1>3. s # ScopeOf(e) => log'[s] = log[s]
  BY <1>1, <1>2
<1>4. s = ScopeOf(e) => log'[s] = Append(log[s], e)
  BY <1>1, <1>2
<1>5. /\ Len(Append(log[s], e)) = Len(log[s]) + 1
      /\ Append(log[s], e)[Len(log[s]) + 1] = e
      /\ Append(log[s], e) \in Seq(Events)
      /\ \A n \in 1..Len(log[s]) : Append(log[s], e)[n] = log[s][n]
  BY <1>1
<1>6. Len(log[s]) \in Nat
  BY <1>1
<1>7. CASE s = ScopeOf(e)
  <2>1. log'[s] = Append(log[s], e)
    BY <1>4, <1>7
  <2> QED
    BY <1>5, <1>6, <1>7, <2>1
<1>8. CASE s # ScopeOf(e)
  BY <1>3, <1>6, <1>8
<1> QED
  BY <1>7, <1>8

LEMMA ApplyTypeOK ==
    ASSUME TypeOK, NEW e \in Events, Apply(e)
    PROVE  TypeOK'
<1> USE KeysOfEvents DEF TypeOK, Apply
<1>1. lastSequence' \in [Scopes -> Nat \cup {None}]
  OBVIOUS
<1>2. seenIds' \in [Identities -> Events \cup {None}]
  OBVIOUS
<1>3. seenKeys' \in [Keys -> Events \cup {None}]
  OBVIOUS
<1>4. applied' \in Nat
  OBVIOUS
<1>5. answer' \in [event : Events, outcome : Outcomes]
  BY DEF Answer, Outcomes
<1>6. log' \in [Scopes -> Seq(Events)]
  <2>1. Append(log[ScopeOf(e)], e) \in Seq(Events)
    OBVIOUS
  <2> QED
    BY <2>1
<1> QED
  BY <1>1, <1>2, <1>3, <1>4, <1>5, <1>6

(* Apply extends the run of a scope by one, or starts it. *)
LEMMA ApplyLogIsContiguous ==
    ASSUME IInv, NEW e \in Events, Apply(e)
    PROVE  LogIsContiguous'
<1>0. TypeOK /\ TypeOK' /\ LogIsContiguous
  BY ApplyTypeOK DEF IInv
<1> SUFFICES ASSUME NEW s \in Scopes
             PROVE  /\ (log'[s] = << >>) <=> (lastSequence'[s] = None)
                    /\ log'[s] # << >> =>
                         \A i \in 1..Len(log'[s]) :
                            log'[s][i].sequence = lastSequence'[s] - (Len(log'[s]) - i)
  BY DEF LogIsContiguous
<1>1. CASE s # ScopeOf(e)
  <2>1. log'[s] = log[s]
    BY <1>0, <1>1, ApplyLog
  <2>2. lastSequence'[s] = lastSequence[s]
    BY <1>0, <1>1 DEF Apply, TypeOK
  <2> QED
    BY <1>0, <2>1, <2>2 DEF LogIsContiguous
<1>2. CASE s = ScopeOf(e)
  <2> DEFINE len == Len(log[s])
  <2>1. /\ len \in Nat
        /\ Len(log'[s]) = len + 1
        /\ log'[s][len + 1] = e
        /\ \A n \in 1..len : log'[s][n] = log[s][n]
    BY <1>0, <1>2, ApplyLog
  <2>2. lastSequence'[s] = e.sequence /\ e.sequence \in Nat /\ e.sequence # None
    BY <1>0, <1>2, KeysOfEvents, NoneAssumption DEF Apply, TypeOK
  <2>3. log'[s] # << >>
    BY <2>1
  <2>4. ASSUME NEW i \in 1..len
        PROVE  log[s][i].sequence = e.sequence - (len + 1 - i)
    <3>1. log[s] # << >>
      BY <1>0, <2>1, <2>4 DEF TypeOK
    <3>2. lastSequence[s] # None /\ lastSequence[s] \in Nat
      BY <1>0, <3>1 DEF LogIsContiguous, TypeOK
    <3>3. e.sequence = lastSequence[s] + 1
      BY <1>2, <2>2, <3>2 DEF Apply, Behind, Ahead
    <3>4. log[s][i].sequence = lastSequence[s] - (len - i)
      BY <1>0, <3>1 DEF LogIsContiguous
    <3>5. ASSUME NEW x \in Nat, NEW l \in Nat, NEW j \in 1..l
          PROVE  x - (l - j) = (x + 1) - (l + 1 - j)
      OBVIOUS
    <3>6. lastSequence[s] - (len - i) = (lastSequence[s] + 1) - (len + 1 - i)
      BY <2>1, <3>2, <3>5
    <3> QED
      BY <3>3, <3>4, <3>6
  <2>5. ASSUME NEW i \in 1..(len + 1)
        PROVE  log'[s][i].sequence = e.sequence - (len + 1 - i)
    <3>1. CASE i = len + 1
      BY <2>1, <2>2, <3>1
    <3>2. CASE i # len + 1
      <4>1. i \in 1..len
        BY <2>1, <3>2
      <4> QED
        BY <2>1, <2>4, <4>1
    <3> QED
      BY <3>1, <3>2
  <2>6. \A i \in 1..Len(log'[s]) :
            log'[s][i].sequence = lastSequence'[s] - (Len(log'[s]) - i)
    <3> SUFFICES ASSUME NEW i \in 1..Len(log'[s])
                 PROVE  log'[s][i].sequence = lastSequence'[s] - (Len(log'[s]) - i)
      OBVIOUS
    <3>1. i \in 1..(len + 1)
      BY <2>1
    <3>2. log'[s][i].sequence = e.sequence - (len + 1 - i)
      BY <2>5, <3>1
    <3>3. Len(log'[s]) = len + 1
      BY <2>1
    <3>4. lastSequence'[s] = e.sequence
      BY <2>2
    <3> QED
      BY <3>2, <3>3, <3>4
  <2>7. lastSequence'[s] # None
    BY <2>2
  <2> HIDE DEF len
  <2> QED
    BY <2>3, <2>6, <2>7
<1> QED
  BY <1>1, <1>2

(* Apply records its event under both keys and in the log at once. *)
LEMMA ApplyMapsAgree ==
    ASSUME IInv, NEW e \in Events, Apply(e)
    PROVE  MapsAgree'
<1>0. TypeOK /\ TypeOK' /\ MapsAgree /\ Unseen(e)
  BY ApplyTypeOK DEF IInv, Apply
<1>k. /\ ScopeOf(e) \in Scopes
      /\ IdentityOf(e) \in Identities
      /\ KeyOf(e) \in Keys
      /\ e # None
  BY KeysOfEvents
<1>i. ASSUME NEW i \in Identities
      PROVE  seenIds'[i] = IF i = IdentityOf(e) THEN e ELSE seenIds[i]
  BY <1>0 DEF Apply, TypeOK
<1>y. ASSUME NEW k \in Keys
      PROVE  seenKeys'[k] = IF k = KeyOf(e) THEN e ELSE seenKeys[k]
  BY <1>0 DEF Apply, TypeOK
<1>l. ASSUME NEW s \in Scopes, NEW n \in 1..Len(log[s])
      PROVE  n \in 1..Len(log'[s]) /\ log'[s][n] = log[s][n]
  BY <1>0, ApplyLog
<1>e. /\ Len(log[ScopeOf(e)]) + 1 \in 1..Len(log'[ScopeOf(e)])
      /\ log'[ScopeOf(e)][Len(log[ScopeOf(e)]) + 1] = e
  BY <1>0, <1>k, ApplyLog
<1>1. ASSUME NEW i \in Identities, seenIds'[i] # None
      PROVE  /\ IdentityOf(seenIds'[i]) = i
             /\ seenKeys'[KeyOf(seenIds'[i])] = seenIds'[i]
             /\ \E n \in 1..Len(log'[ScopeOf(seenIds'[i])]) :
                   log'[ScopeOf(seenIds'[i])][n] = seenIds'[i]
  <2>1. CASE i = IdentityOf(e)
    <3>1. seenIds'[i] = e
      BY <1>i, <2>1
    <3> QED
      BY <1>k, <1>y, <1>e, <2>1, <3>1
  <2>2. CASE i # IdentityOf(e)
    <3> DEFINE f == seenIds[i]
    <3>1. seenIds'[i] = f /\ f # None /\ f \in Events
      BY <1>0, <1>1, <1>i, <2>2 DEF TypeOK
    <3>2. /\ IdentityOf(f) = i
          /\ seenKeys[KeyOf(f)] = f
          /\ \E n \in 1..Len(log[ScopeOf(f)]) : log[ScopeOf(f)][n] = f
      BY <1>0, <3>1 DEF MapsAgree
    <3>3. KeyOf(f) \in Keys /\ ScopeOf(f) \in Scopes
      BY <3>1, KeysOfEvents
    <3>4. KeyOf(f) # KeyOf(e)
      BY <1>0, <3>1, <3>2 DEF Unseen, KeySeen
    <3>5. seenKeys'[KeyOf(f)] = f
      BY <1>y, <3>2, <3>3, <3>4
    <3> QED
      BY <1>l, <3>1, <3>2, <3>3, <3>5
  <2> QED
    BY <2>1, <2>2
<1>2. ASSUME NEW k \in Keys, seenKeys'[k] # None
      PROVE  /\ KeyOf(seenKeys'[k]) = k
             /\ seenIds'[IdentityOf(seenKeys'[k])] = seenKeys'[k]
  <2>1. CASE k = KeyOf(e)
    BY <1>k, <1>i, <1>y, <2>1
  <2>2. CASE k # KeyOf(e)
    <3> DEFINE f == seenKeys[k]
    <3>1. seenKeys'[k] = f /\ f # None /\ f \in Events
      BY <1>0, <1>2, <1>y, <2>2 DEF TypeOK
    <3>2. KeyOf(f) = k /\ seenIds[IdentityOf(f)] = f
      BY <1>0, <3>1 DEF MapsAgree
    <3>3. IdentityOf(f) \in Identities
      BY <3>1, KeysOfEvents
    <3>4. IdentityOf(f) # IdentityOf(e)
      BY <1>0, <3>1, <3>2 DEF Unseen, IdSeen
    <3> QED
      BY <1>i, <3>1, <3>2, <3>3, <3>4
  <2> QED
    BY <2>1, <2>2
<1>3. ASSUME NEW s \in Scopes, NEW n \in 1..Len(log'[s])
      PROVE  /\ ScopeOf(log'[s][n]) = s
             /\ seenIds'[IdentityOf(log'[s][n])] = log'[s][n]
  <2>1. CASE n \in 1..Len(log[s])
    <3> DEFINE f == log[s][n]
    <3>1. log'[s][n] = f
      BY <1>l, <2>1
    <3>2. f \in Events /\ IdentityOf(f) # IdentityOf(e)
      BY <1>0, <2>1, UnseenIsNew
    <3>3. ScopeOf(f) = s /\ seenIds[IdentityOf(f)] = f
      BY <1>0, <2>1 DEF MapsAgree
    <3>4. IdentityOf(f) \in Identities
      BY <3>2, KeysOfEvents
    <3> QED
      BY <1>i, <3>1, <3>2, <3>3, <3>4
  <2>2. CASE n \notin 1..Len(log[s])
    <3>1. s = ScopeOf(e) /\ n = Len(log[s]) + 1 /\ log'[s][n] = e
      <4>1. Len(log[s]) \in Nat
        BY <1>0, ApplyLog
      <4>2. s = ScopeOf(e)
        BY <1>0, <2>2, ApplyLog
      <4>3. Len(log'[s]) = Len(log[s]) + 1
        BY <1>0, <4>2, ApplyLog
      <4>4. n = Len(log[s]) + 1
        BY <2>2, <4>1, <4>3
      <4> QED
        BY <1>e, <4>2, <4>4
    <3> QED
      BY <1>k, <1>i, <3>1
  <2> QED
    BY <2>1, <2>2
<1> QED
  BY <1>1, <1>2, <1>3 DEF MapsAgree

----------------------------------------------------------------------------
(* The consumer's steps: Apply, or an answer that leaves the maps alone. *)
LEMMA StepCases ==
    ASSUME Next
    PROVE  \E e \in Events :
              \/ Apply(e)
              \/ \E outcome \in Outcomes : Answer(e, outcome) /\ UNCHANGED maps
PROOF BY DEF Next, Receive, ReceiveDuplicate, ReceiveIdConflict,
             ReceiveIdempotencyConflict, ReceiveExpired, ReceiveStale,
             ReceiveGap, Outcomes

LEMMA InitIInv == Init => IInv
<1> SUFFICES ASSUME Init PROVE IInv
  OBVIOUS
<1>1. TypeOK
  BY DEF Init, TypeOK
<1>2. LogIsContiguous
  BY DEF Init, LogIsContiguous
<1>3. MapsAgree
  BY DEF Init, MapsAgree
<1> QED
  BY <1>1, <1>2, <1>3 DEF IInv

LEMMA NextIInv == IInv /\ [Next]_vars => IInv'
<1> SUFFICES ASSUME IInv, [Next]_vars PROVE IInv'
  OBVIOUS
<1>1. CASE Next
  <2>1. PICK e \in Events :
              \/ Apply(e)
              \/ \E outcome \in Outcomes : Answer(e, outcome) /\ UNCHANGED maps
    BY <1>1, StepCases
  <2>2. CASE Apply(e)
    BY <2>2, ApplyTypeOK, ApplyLogIsContiguous, ApplyMapsAgree DEF IInv
  <2>3. CASE \E outcome \in Outcomes : Answer(e, outcome) /\ UNCHANGED maps
    <3>1. UNCHANGED maps /\ answer' \in [event : Events, outcome : Outcomes]
      BY <2>3 DEF Answer
    <3> QED
      BY <3>1 DEF IInv, TypeOK, LogIsContiguous, MapsAgree, maps
  <2> QED
    BY <2>1, <2>2, <2>3
<1>2. CASE UNCHANGED vars
  BY <1>2 DEF IInv, TypeOK, LogIsContiguous, MapsAgree, vars
<1> QED
  BY <1>1, <1>2

----------------------------------------------------------------------------
(* The three conjuncts of the invariant always hold together. *)
THEOREM InductiveInvariant == Spec => []IInv
PROOF BY InitIInv, NextIInv, PTL DEF Spec

(* Type correctness of the consumer (lines 17-20). *)
THEOREM TypeCorrectness == Spec => []TypeOK
PROOF BY InductiveInvariant, PTL DEF IInv

(* Each scope applies a run of consecutive sequence numbers (lines 34-37). *)
THEOREM Contiguity == Spec => []LogIsContiguous
PROOF BY InductiveInvariant, PTL DEF IInv

(* The deduplication maps summarise the log (lines 38-39). *)
THEOREM Agreement == Spec => []MapsAgree
PROOF BY InductiveInvariant, PTL DEF IInv

(* Two entries of the logs are the same entry once they are the same event. *)
LEMMA OneEntryPerEvent ==
    ASSUME IInv,
           NEW s \in Scopes, NEW m \in 1..Len(log[s]),
           NEW t \in Scopes, NEW n \in 1..Len(log[t]),
           log[s][m] = log[t][n]
    PROVE  s = t /\ m = n
<1>1. s = t
  BY DEF IInv, MapsAgree
<1>2. log[s] \in Seq(Events) /\ log[s] # << >> /\ Len(log[s]) \in Nat
  BY DEF IInv, TypeOK
<1>3. lastSequence[s] \in Nat
  BY <1>2 DEF IInv, TypeOK, LogIsContiguous
<1>4. /\ log[s][m].sequence = lastSequence[s] - (Len(log[s]) - m)
      /\ log[s][n].sequence = lastSequence[s] - (Len(log[s]) - n)
  BY <1>1, <1>2 DEF IInv, LogIsContiguous
<1>5. lastSequence[s] - (Len(log[s]) - m) = lastSequence[s] - (Len(log[s]) - n)
  BY <1>1, <1>4
<1> QED
  BY <1>1, <1>2, <1>3, <1>5

(* Exactly-once effective processing (lines 27-32): no identity and no key   *)
(* is applied twice, however often and in whatever order events arrive.      *)
THEOREM AtMostOnce == Spec => []AppliedAtMostOnce
<1>1. IInv => AppliedAtMostOnce
  <2> SUFFICES ASSUME IInv,
                      NEW s \in Scopes, NEW t \in Scopes,
                      NEW m \in 1..Len(log[s]), NEW n \in 1..Len(log[t]),
                      s # t \/ m # n
               PROVE  /\ IdentityOf(log[s][m]) # IdentityOf(log[t][n])
                      /\ KeyOf(log[s][m]) # KeyOf(log[t][n])
    BY DEF AppliedAtMostOnce
  <2>1. log[s][m] # log[t][n]
    BY OneEntryPerEvent
  <2>2. /\ seenIds[IdentityOf(log[s][m])] = log[s][m]
        /\ seenIds[IdentityOf(log[t][n])] = log[t][n]
    BY DEF IInv, MapsAgree
  <2>3. log[s][m] \in Events /\ log[t][n] \in Events
    BY DEF IInv, TypeOK
  <2>4. /\ seenKeys[KeyOf(log[s][m])] = log[s][m]
        /\ seenKeys[KeyOf(log[t][n])] = log[t][n]
    BY <2>2, <2>3, KeysOfEvents DEF IInv, MapsAgree
  <2> QED
    BY <2>1, <2>2, <2>4
<1> QED
  BY <1>1, InductiveInvariant, PTL

----------------------------------------------------------------------------
(* No step replaces an entry of a map, or moves a sequence by more than one  *)
(* (lines 33-39).                                                            *)
THEOREM Remembrance == Spec => NothingForgotten
<1> DEFINE Kept ==
      /\ \A i \in Identities : seenIds[i] # None => seenIds'[i] = seenIds[i]
      /\ \A k \in Keys : seenKeys[k] # None => seenKeys'[k] = seenKeys[k]
      /\ \A s \in Scopes : lastSequence[s] # None =>
            lastSequence'[s] \in {lastSequence[s], lastSequence[s] + 1}
<1>1. IInv /\ [Next]_vars => [Kept]_vars
  <2> SUFFICES ASSUME IInv, Next PROVE Kept
    OBVIOUS
  <2>1. PICK e \in Events :
              \/ Apply(e)
              \/ \E outcome \in Outcomes : Answer(e, outcome) /\ UNCHANGED maps
    BY StepCases
  <2>2. CASE UNCHANGED maps
    BY <2>2 DEF maps
  <2>3. CASE Apply(e)
    <3>1. TypeOK /\ Unseen(e)
      BY <2>3 DEF IInv, Apply
    <3>2. ASSUME NEW i \in Identities, seenIds[i] # None
          PROVE  seenIds'[i] = seenIds[i]
      BY <2>3, <3>1, <3>2 DEF TypeOK, Apply, Unseen, IdSeen
    <3>3. ASSUME NEW k \in Keys, seenKeys[k] # None
          PROVE  seenKeys'[k] = seenKeys[k]
      BY <2>3, <3>1, <3>3 DEF TypeOK, Apply, Unseen, KeySeen
    <3>4. ASSUME NEW s \in Scopes, lastSequence[s] # None
          PROVE  lastSequence'[s] \in {lastSequence[s], lastSequence[s] + 1}
      BY <2>3, <3>1, <3>4, KeysOfEvents DEF TypeOK, Apply, Behind, Ahead
    <3> QED
      BY <3>2, <3>3, <3>4
  <2> QED
    BY <2>1, <2>2, <2>3
<1> QED
  BY <1>1, InductiveInvariant, PTL DEF Spec, NothingForgotten

(* The entry an event is compared with is the event itself exactly if the    *)
(* event was applied.                                                        *)
LEMMA RememberedIsApplied ==
    ASSUME IInv, NEW e \in Events
    PROVE  Remembered(e) = e <=> WasApplied(e)
<1>1. /\ ScopeOf(e) \in Scopes
      /\ IdentityOf(e) \in Identities
      /\ KeyOf(e) \in Keys
      /\ e # None
  BY KeysOfEvents
<1>2. ASSUME Remembered(e) = e PROVE WasApplied(e)
  <2>1. seenIds[IdentityOf(e)] = e
    <3>1. CASE IdSeen(e)
      BY <1>2, <3>1 DEF Remembered
    <3>2. CASE ~IdSeen(e)
      <4>1. seenKeys[KeyOf(e)] = e
        BY <1>2, <3>2 DEF Remembered
      <4> QED
        BY <1>1, <4>1 DEF IInv, MapsAgree
    <3> QED
      BY <3>1, <3>2
  <2> QED
    BY <1>1, <2>1 DEF IInv, MapsAgree, WasApplied
<1>3. ASSUME WasApplied(e) PROVE Remembered(e) = e
  <2>1. seenIds[IdentityOf(e)] = e
    BY <1>1, <1>3 DEF IInv, MapsAgree, WasApplied
  <2> QED
    BY <1>1, <2>1 DEF Remembered, IdSeen
<1> QED
  BY <1>2, <1>3

(* What receive answers tells what it did. *)
LEMMA AnswerOfReceive ==
    ASSUME NEW e \in Events, Receive(e)
    PROVE  /\ answer'.event = e
           /\ answer'.outcome = "applied" <=> Apply(e)
           /\ answer'.outcome = "duplicate" <=> Remembered(e) = e
           /\ answer'.outcome # "applied" => UNCHANGED maps
<1>1. Unseen(e) => Remembered(e) # e
  BY KeysOfEvents DEF Unseen, IdSeen, KeySeen, Remembered
<1>2. ReceiveDuplicate(e) \/ ReceiveIdConflict(e) \/ ReceiveIdempotencyConflict(e)
        => ~Unseen(e)
  BY <1>1 DEF ReceiveDuplicate, ReceiveIdConflict, ReceiveIdempotencyConflict,
              Unseen
<1> QED
  BY <1>1, <1>2
     DEF Receive, ReceiveDuplicate, ReceiveIdConflict,
         ReceiveIdempotencyConflict, ReceiveExpired, ReceiveStale,
         ReceiveGap, Apply, Answer

(* "duplicate" is answered exactly for what was applied (lines 27-36). *)
THEOREM DuplicateIsSound == Spec => DuplicateMeansApplied
<1> DEFINE Sound == WasApplied(answer'.event) <=> answer'.outcome = "duplicate"
<1>1. IInv /\ [Next]_vars => [Sound]_vars
  <2> SUFFICES ASSUME IInv, Next PROVE Sound
    OBVIOUS
  <2>1. PICK e \in Events : Receive(e)
    BY DEF Next
  <2>2. answer'.event = e /\ (answer'.outcome = "duplicate" <=> Remembered(e) = e)
    BY <2>1, AnswerOfReceive
  <2> QED
    BY <2>2, RememberedIsApplied
<1> QED
  BY <1>1, InductiveInvariant, PTL DEF Spec, DuplicateMeansApplied

----------------------------------------------------------------------------
(* Both specifications read the same keys off an envelope.                   *)
LEMMA SameKeys ==
    /\ Effective!Scopes = Scopes
    /\ \A e : /\ Effective!ScopeOf(e) = ScopeOf(e)
             /\ Effective!IdentityOf(e) = IdentityOf(e)
             /\ Effective!KeyOf(e) = KeyOf(e)
PROOF BY DEF Effective!Scopes, Scopes, Effective!ScopeOf, ScopeOf,
             Effective!IdentityOf, IdentityOf, Effective!KeyOf, KeyOf

(* The consumer implements effective processing: its maps admit an event     *)
(* exactly when the whole history does.                                      *)
THEOREM Implementation == Spec => ImplementsEffectiveProcessing
<1>1. Init => Effective!Init
  BY SameKeys DEF Init, Effective!Init
<1>2. IInv /\ [Next]_vars => [Effective!Next]_log
  <2> SUFFICES ASSUME IInv, Next PROVE [Effective!Next]_log
    BY DEF vars
  <2>1. PICK e \in Events :
              \/ Apply(e)
              \/ \E outcome \in Outcomes : Answer(e, outcome) /\ UNCHANGED maps
    BY StepCases
  <2>2. CASE UNCHANGED maps
    BY <2>2 DEF maps
  <2>3. CASE Apply(e)
    <3>1. Unseen(e) /\ ~Behind(e) /\ ~Ahead(e)
      BY <2>3 DEF Apply
    <3>2. Effective!Fresh(e)
      BY <3>1, UnseenIsNew, SameKeys DEF Effective!Fresh
    <3>3. Effective!InOrder(e)
      <4> DEFINE s == ScopeOf(e)
                 done == log[s]
      <4> SUFFICES ASSUME done # << >>
                   PROVE  e.sequence = done[Len(done)].sequence + 1
        BY SameKeys DEF Effective!InOrder
      <4>1. s \in Scopes /\ e.sequence \in Nat
        BY KeysOfEvents
      <4>2. done \in Seq(Events) /\ Len(done) \in 1..Len(done)
        BY <4>1 DEF IInv, TypeOK
      <4>3. lastSequence[s] # None /\ lastSequence[s] \in Nat
        BY <4>1 DEF IInv, TypeOK, LogIsContiguous
      <4>4. done[Len(done)].sequence = lastSequence[s] - (Len(done) - Len(done))
        BY <4>1, <4>2 DEF IInv, LogIsContiguous
      <4>5. done[Len(done)].sequence = lastSequence[s]
        BY <4>2, <4>3, <4>4
      <4>6. e.sequence = lastSequence[s] + 1
        BY <3>1, <4>1, <4>3 DEF Behind, Ahead
      <4> QED
        BY <4>5, <4>6
    <3>4. log' = [log EXCEPT ![ScopeOf(e)] = Append(@, e)]
      BY <2>3 DEF Apply
    <3>5. Effective!Process(e)
      BY <3>2, <3>3, <3>4, SameKeys DEF Effective!Process
    <3> QED
      BY <3>5 DEF Effective!Next
  <2> QED
    BY <2>1, <2>2, <2>3
<1> QED
  BY <1>1, <1>2, InductiveInvariant, PTL
     DEF Spec, ImplementsEffectiveProcessing, Effective!Spec

============================================================================
