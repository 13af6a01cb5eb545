----------------------- MODULE ConformanceSuiteProofs -----------------------
(***************************************************************************)
(* The conformance suite for every directory, registry, set of documents   *)
(* and trace: the invariant of ContractDocumentsProofs carried through the *)
(* suite, and the agreement of the two consumers of the trace.             *)
(***************************************************************************)
EXTENDS ConformanceSuite, ContractDocumentsProofs

LEMMA InitDInv == ASSUME Init PROVE DInv
  BY OpenDInv DEF Init

LEMMA NextDInv == ASSUME DInv, [Next]_vars PROVE DInv'
<1>1. CASE RunValidate
  BY <1>1, ValidateDInv DEF RunValidate
<1>2. CASE UNCHANGED documents
  BY <1>2, StutterDInv
<1> QED
  BY <1>1, <1>2
     DEF Next, vars, ValidateExits, ReceiveInJavaScript, JavaScriptExits, FindInterpreter,
         ReceiveInPython, PythonExits, RefuseMutatedTrace, CheckKeys, CheckManifests,
         CheckDecisions

LEMMA DInvHolds == Spec => []DInv
<1>1. Init => DInv
  BY InitDInv
<1>2. DInv /\ [Next]_vars => DInv'
  BY NextDInv
<1> QED
  BY <1>1, <1>2, PTL DEF Spec

\* The validator looks at each file once, and what it counts is of files that
\* it looked at.
THEOREM SuiteTypeCorrect == Spec => []TypeOK
<1>1. DInv => TypeOK
  BY VerdictFromDInv
<1> QED
  BY <1>1, DInvHolds, PTL

\* Whatever the order of the files and whatever is skipped on the way, a run of
\* validate-contracts.mjs passes only a directory that is correct as a whole,
\* and of such a directory it reports nothing but what the documents got wrong.
THEOREM VerdictRight == Spec => []VerdictIsRight
<1>1. DInv => VerdictIsRight
  BY VerdictFromDInv
<1> QED
  BY <1>1, DInvHolds, PTL

\* A lease that a passing run accepts holds its grant inside its window, though
\* NaN passes the comparisons of lines 138 and 144; a receipt it accepts is
\* settled as the category of its reason says.
THEOREM AcceptedHold == Spec => []AcceptedInstancesHold
<1>1. DInv => AcceptedInstancesHold
  BY InstancesFromDInv
<1> QED
  BY <1>1, DInvHolds, PTL

\* After a pass, every action of the API leads to one registered command of the
\* table, and the body the operation takes is fenced by a generation.
THEOREM CommandsFenced == Spec => []EveryCommandIsFenced
<1>1. DInv => EveryCommandIsFenced
  BY FencedFromDInv
<1> QED
  BY <1>1, DInvHolds, PTL

\* After a pass the published event carries the workload id of a valid manifest
\* and nothing else, whatever fixtures the trace names.
THEOREM EventRefersOnly == Spec => []EventIsReference
<1>1. DInv => EventIsReference
  BY ReferenceFromDInv
<1> QED
  BY <1>1, DInvHolds, PTL

----------------------------------------------------------------------------
(* The two consumers of the trace.                                         *)

LEMMA DoubleExact ==
    /\ \A n \in 0..MaxExact : Double(n) = n
    /\ Double(MaxExact + 1) = MaxExact
<1>1. \A n \in 0..MaxExact : Double(n) = n
  BY ExactAssumption DEF Double
<1>2. (MaxExact + 1) % 2 # 0 /\ MaxExact % 4 = 0 /\ (MaxExact + 2) % 4 # 0
  BY ExactAssumption
<1> DEFINE K == {(MaxExact + 1) - 1, (MaxExact + 1) + 1}
<1>3. Double(MaxExact + 1) = CHOOSE k \in K : k % 4 = 0
  <2>1. ~(MaxExact + 1 <= MaxExact \/ (MaxExact + 1) % 2 = 0)
    BY <1>2, ExactAssumption
  <2> QED
    BY <2>1, Zenon DEF Double
<1>4. K = {MaxExact, MaxExact + 2}
  BY ExactAssumption
<1> HIDE DEF K
<1>5. \E k \in K : k % 4 = 0
  BY <1>2, <1>4
<1>6. \A k \in K : k % 4 = 0 => k = MaxExact
  BY <1>2, <1>4
<1> QED
  BY <1>1, <1>3, <1>5, <1>6

\* What an event denotes in either language.
LEMMA ReadForm ==
    ASSUME NEW e, e = [scope |-> e.scope, id |-> e.id, key |-> e.key,
                       sequence |-> e.sequence, expiresat |-> e.expiresat],
           e.sequence \in Numbers
    PROVE  /\ ReadInPython(e).scope = e.scope /\ ReadInPython(e).expiresat = e.expiresat
           /\ ReadInPython(e).id = e.id /\ ReadInPython(e).key = e.key
           /\ ~e.sequence.point => ReadInPython(e) = e
           /\ ReadInJavaScript(e).sequence = [n |-> Double(e.sequence.n), point |-> FALSE]
  BY DEF ReadInPython, ReadInJavaScript, Numbers

ExactNumbers == [n : 0..MaxExact, point : {FALSE}]

\* The events of which TwinsAgree speaks.
WithinLimits(e) ==
    /\ ~e.sequence.point /\ e.sequence.n <= MaxExact
    /\ e.expiresat # Absent => WholeMilliseconds(e.expiresat) /\ e.expiresat.read = Languages

LEMMA ExactForm ==
    ASSUME NEW e, e.sequence \in Numbers, WithinLimits(e)
    PROVE  e.sequence \in ExactNumbers /\ e.sequence.point = FALSE
<1>1. e.sequence.point \in BOOLEAN /\ ~e.sequence.point
  BY DEF Numbers, WithinLimits
<1>2. e.sequence.point = FALSE
  BY <1>1, Zenon
<1>3. e.sequence.n \in 0..MaxExact
  BY ExactAssumption DEF Numbers, WithinLimits
<1> QED
  BY <1>2, <1>3 DEF Numbers, ExactNumbers

\* Every sequence the memory holds is one that a double holds exactly.
WithinExact(m) == \A s \in DOMAIN m.last : m.last[s] \in ExactNumbers

\* A division of whole milliseconds loses nothing.
LEMMA DivisionForm ==
    ASSUME NEW a \in Int, NEW d \in Nat \ {0}
    PROVE  /\ a \div d \in Int /\ a % d \in 0..d - 1
           /\ a = d * (a \div d) + (a % d)
  OBVIOUS

LEMMA Multiples ==
    ASSUME NEW d \in Nat \ {0}, NEW p \in Int, NEW q \in Int, p < q
    PROVE  d * p + d <= d * q
<1>1. PICK k \in Nat : q = p + 1 + k
  <2>1. q - p - 1 \in Nat /\ q = p + 1 + (q - p - 1)
    OBVIOUS
  <2> QED
    BY <2>1
<1>2. d * q = d * p + d + d * k
  BY <1>1
<1>3. d * k \in Nat /\ d * p \in Int
  BY <1>1
<1> QED
  BY <1>2, <1>3

LEMMA MillisecondsExact ==
    ASSUME NEW a \in Int, a % Millisecond = 0
    PROVE  a \div Millisecond <= ObservationTime \div Millisecond <=> a <= ObservationTime
<1> DEFINE d == Millisecond  q == a \div d  p == ObservationTime \div d  r == ObservationTime % d
<1>1. /\ d \in Nat \ {0} /\ q \in Int /\ p \in Int /\ r \in 0..d - 1
      /\ a = d * q + 0 /\ ObservationTime = d * p + r
  BY ExactAssumption, DivisionForm
<1> HIDE DEF d, q, p, r
<1>2. d * q \in Int /\ d * p \in Int
  BY <1>1
<1>3. q = p \/ q < p \/ p < q
  BY <1>1
<1>4. /\ q = p => d * q = d * p
      /\ q < p => d * q + d <= d * p
      /\ p < q => d * p + d <= d * q
  BY <1>1, Multiples
<1>5. q <= p <=> a <= ObservationTime
  BY <1>1, <1>2, <1>3, <1>4
<1> QED
  BY <1>5 DEF d, q, p

\* The order of the returns.
LEMMA OutcomeForm ==
    ASSUME NEW m, NEW e, NEW expired, NEW ahead
    PROVE  Outcome(m, e, expired, ahead) =
               IF ~New(m, e) THEN IF Held(m, e) = e THEN "duplicate" ELSE Conflict(m, e)
               ELSE IF expired THEN "expired"
               ELSE IF Behind(m, e) THEN "stale"
               ELSE IF ahead THEN "gap" ELSE "applied"
  BY Zenon DEF Outcome

\* One event in either language, on the same memory.
LEMMA SameStep ==
    ASSUME NEW m, WithinExact(m), NEW e,
           e = [scope |-> e.scope, id |-> e.id, key |-> e.key,
                sequence |-> e.sequence, expiresat |-> e.expiresat],
           e.sequence \in Numbers, e.expiresat \in Texts \cup {Absent}, WithinLimits(e)
    PROVE  /\ ReadInJavaScript(e).sequence \in ExactNumbers
           /\ InPython(m, e) = InJavaScript(m, e)
<1>1. e.sequence \in ExactNumbers /\ ReadInPython(e) = e
  BY ExactForm, ReadForm DEF WithinLimits
<1>2. ReadInJavaScript(e) = e
  <2>1. e.sequence = [n |-> Double(e.sequence.n), point |-> FALSE]
    BY <1>1, DoubleExact DEF ExactNumbers
  <2> QED
    BY <2>1 DEF ReadInJavaScript
<1>3. ~Raises(e) /\ (ExpiredInJavaScript(e) <=> ExpiredInPython(e))
  <2>1. CASE e.expiresat = Absent
    BY <2>1 DEF Raises, ExpiredInJavaScript, ExpiredInPython
  <2>2. CASE e.expiresat # Absent
    <3>1. e.expiresat.at \in Int /\ e.expiresat.at % Millisecond = 0 /\ e.expiresat.read = Languages
      BY <2>2 DEF WithinLimits, WholeMilliseconds, Texts
    <3>2. ~Raises(e)
      BY <3>1 DEF Raises, Languages
    <3>3. ExpiredInJavaScript(e) <=> ExpiredInPython(e)
      BY <2>2, <3>1, MillisecondsExact DEF Languages, ExpiredInJavaScript, ExpiredInPython
    <3> QED
      BY <3>2, <3>3
  <2> QED
    BY <2>1, <2>2
<1>4. Behind(m, e) \/ (AheadInJavaScript(m, e) <=> AheadInPython(m, e))
  <2>1. CASE ~Known(m, e)
    BY <2>1 DEF AheadInJavaScript, AheadInPython
  <2>2. CASE Known(m, e)
    <3>1. m.last[e.scope] \in ExactNumbers
      BY <2>2 DEF Known, WithinExact
    <3>2. CASE m.last[e.scope].n = MaxExact
      BY <1>1, <2>2, <3>2, ExactAssumption DEF Behind, ExactNumbers
    <3>3. CASE m.last[e.scope].n # MaxExact
      <4>1. m.last[e.scope].n + 1 \in 0..MaxExact /\ m.last[e.scope].point = FALSE
        <5>1. m.last[e.scope].n + 1 \in 0..MaxExact
          <6>1. m.last[e.scope].n \in 0..MaxExact
            BY <3>1 DEF ExactNumbers
          <6> QED
            BY <3>3, <6>1, ExactAssumption
        <5>2. m.last[e.scope].point \in {FALSE}
          BY <3>1 DEF ExactNumbers
        <5>3. m.last[e.scope].point = FALSE
          BY <5>2, Zenon
        <5> QED
          BY <5>1, <5>3
      <4>2. Double(m.last[e.scope].n + 1) = m.last[e.scope].n + 1
        BY <4>1, DoubleExact
      <4> QED
        BY <4>1, <4>2 DEF AheadInJavaScript, AheadInPython, Sum
    <3> QED
      BY <3>2, <3>3
  <2> QED
    BY <2>1, <2>2
<1>5. AnswerInPython(m, e) = AnswerInJavaScript(m, e)
  <2>1. AnswerInPython(m, e) = Outcome(m, e, ExpiredInPython(e), AheadInPython(m, e))
    BY <1>3 DEF AnswerInPython
  <2>2. Outcome(m, e, ExpiredInPython(e), AheadInPython(m, e)) =
               IF ~New(m, e) THEN IF Held(m, e) = e THEN "duplicate" ELSE Conflict(m, e)
               ELSE IF ExpiredInPython(e) THEN "expired"
               ELSE IF Behind(m, e) THEN "stale"
               ELSE IF AheadInPython(m, e) THEN "gap" ELSE "applied"
    BY OutcomeForm, Zenon
  <2>3. AnswerInJavaScript(m, e) =
               IF ~New(m, e) THEN IF Held(m, e) = e THEN "duplicate" ELSE Conflict(m, e)
               ELSE IF ExpiredInJavaScript(e) THEN "expired"
               ELSE IF Behind(m, e) THEN "stale"
               ELSE IF AheadInJavaScript(m, e) THEN "gap" ELSE "applied"
    BY OutcomeForm, Zenon DEF AnswerInJavaScript
  <2> QED
    BY <1>3, <1>4, <2>1, <2>2, <2>3
<1> QED
  BY <1>1, <1>2, <1>5 DEF InPython, InJavaScript

Answers == {"duplicate", "id-conflict", "idempotency-conflict", "expired", "stale", "gap",
            "applied", "raised"}

Memory(m) == {"last", "answers"} \subseteq DOMAIN m /\ m.answers \in Seq(Answers)

LEMMA EmptyMemory == Memory(Empty) /\ Len(Empty.answers) = 0 /\ WithinExact(Empty)
  BY DEF Memory, Empty, WithinExact

LEMMA OutcomeAnswers ==
    ASSUME NEW m, NEW e
    PROVE  AnswerInJavaScript(m, e) \in Answers /\ AnswerInPython(m, e) \in Answers
  BY OutcomeForm DEF AnswerInJavaScript, AnswerInPython, Conflict, Answers

LEMMA AfterMemory ==
    ASSUME NEW m, Memory(m), NEW e, NEW outcome \in Answers
    PROVE  LET n == After(m, e, outcome) IN
              /\ Memory(n) /\ Len(n.answers) = Len(m.answers) + 1
              /\ WithinExact(m) /\ e.sequence \in ExactNumbers => WithinExact(n)
<1> DEFINE n == After(m, e, outcome)
<1>1. DOMAIN n = DOMAIN m /\ n.answers = Append(m.answers, outcome)
  BY DEF After, Memory
<1>2. n.last = IF outcome = "applied" THEN Put(m.last, e.scope, e.sequence) ELSE m.last
  BY DEF After, Memory
<1> HIDE DEF n
<1>3. Memory(n) /\ Len(n.answers) = Len(m.answers) + 1
  BY <1>1 DEF Memory
<1>4. ASSUME WithinExact(m), e.sequence \in ExactNumbers PROVE WithinExact(n)
  BY <1>2, <1>4 DEF WithinExact, Put
<1> QED
  BY <1>3, <1>4 DEF n

LEMMA JavaScriptMemory ==
    ASSUME NEW m, Memory(m), NEW e
    PROVE  /\ Memory(InJavaScript(m, e)) /\ Len(InJavaScript(m, e).answers) = Len(m.answers) + 1
           /\ WithinExact(m) /\ ReadInJavaScript(e).sequence \in ExactNumbers
                  => WithinExact(InJavaScript(m, e))
  BY AfterMemory, OutcomeAnswers DEF InJavaScript

LEMMA PythonMemory ==
    ASSUME NEW m, Memory(m), NEW e
    PROVE  Memory(InPython(m, e)) /\ Len(InPython(m, e).answers) = Len(m.answers) + 1
  BY AfterMemory, OutcomeAnswers DEF InPython

----------------------------------------------------------------------------
(* h is the JavaScript consumer's memory after each of the cases so far;   *)
(* while the trace is exact, the Python consumer goes through the same.    *)

ExactTo(n) == \A i \in 1..n : WithinLimits(cases[i].event)

Read(m) == Len(m.answers)

History(h) ==
    /\ h[0] = Empty /\ h[Read(js)] = js
    /\ \A i \in 0..Read(js) - 1 : h[i + 1] = InJavaScript(h[i], cases[i + 1].event)
    /\ \A i \in 0..Read(js) : Memory(h[i]) /\ (ExactTo(i) => WithinExact(h[i]))

TwinInv ==
    /\ Given /\ Memory(js) /\ Memory(py)
    /\ Read(js) \in 0..Len(cases) /\ Read(py) \in 0..Read(js)
    /\ script = "validate" => js = Empty
    /\ script \in {"validate", "javascript", "interpreter"} => py = Empty
    /\ script \in {"interpreter", "python"} => Read(js) = Len(cases)
    /\ \E h : History(h) /\ (ExactTo(Read(py)) => py = h[Read(py)])

LEMMA CasesForm ==
    ASSUME Given
    PROVE  /\ Len(cases) \in Nat
           /\ \A i \in 1..Len(cases) : LET e == cases[i].event IN
                 /\ e = [scope |-> e.scope, id |-> e.id, key |-> e.key,
                         sequence |-> e.sequence, expiresat |-> e.expiresat]
                 /\ e.sequence \in Numbers /\ e.expiresat \in Texts \cup {Absent}
  BY TraceAssumption DEF Given, cases

LEMMA InitTwinInv == ASSUME Init PROVE TwinInv
<1>1. Given /\ js = Empty /\ py = Empty /\ script = "validate"
  BY DEF Init, Open, Given
<1>2. Read(js) = 0 /\ Read(py) = 0 /\ Memory(js) /\ Memory(py) /\ Len(cases) \in Nat
  BY <1>1, EmptyMemory, CasesForm DEF Read
<1>3. History([i \in 0..0 |-> Empty])
  BY <1>1, <1>2, EmptyMemory DEF History
<1>4. \E h : History(h) /\ (ExactTo(Read(py)) => py = h[Read(py)])
  <2> DEFINE h == [i \in 0..0 |-> Empty]
  <2>1. h[Read(py)] = py
    BY <1>1, <1>2
  <2> QED
    BY <1>3, <2>1
<1> QED
  BY <1>1, <1>2, <1>4 DEF TwinInv

LEMMA KeepTwinInv ==
    ASSUME TwinInv, input' = input, js' = js, py' = py,
           script' = "validate" => script = "validate",
           script' \in {"validate", "javascript", "interpreter"} => py = Empty,
           script' \in {"interpreter", "python"} => Read(js) = Len(cases)
    PROVE  TwinInv'
<1>1. Given' = Given /\ cases' = cases
  BY DEF Given, cases
<1>2. \A n : ExactTo(n)' = ExactTo(n)
  BY <1>1 DEF ExactTo
<1>3. \A h : History(h)' = History(h)
  BY <1>1, <1>2 DEF History
<1>4. (\E h : History(h) /\ (ExactTo(Read(py)) => py = h[Read(py)]))'
  BY <1>2, <1>3 DEF TwinInv
<1> QED
  BY <1>1, <1>4 DEF TwinInv

LEMMA JavaScriptStep == ASSUME TwinInv, ReceiveInJavaScript PROVE TwinInv'
<1> DEFINE n == Read(js)  e == cases[n + 1].event
<1>1. /\ script = "javascript" /\ n < Len(cases) /\ js' = InJavaScript(js, e)
      /\ script' \in {"javascript", "failed"} /\ input' = input /\ py' = py
  BY DEF ReceiveInJavaScript, More, Case, Continue, Read, documents
<1>2. py = Empty /\ Read(py) = 0 /\ n \in Nat /\ Memory(js) /\ Len(cases) \in Nat
  BY <1>1, EmptyMemory, CasesForm DEF TwinInv, Read
<1>3. Memory(js') /\ Read(js)' = n + 1
  BY <1>1, <1>2, JavaScriptMemory DEF Read
<1>4. Given' = Given /\ cases' = cases
  BY <1>1 DEF Given, cases
<1>5. \A i : ExactTo(i)' = ExactTo(i)
  BY <1>4 DEF ExactTo
<1>6. PICK h : History(h)
  BY DEF TwinInv
<1>7. PICK g : g = [i \in 0..n + 1 |-> IF i = n + 1 THEN js' ELSE h[i]]
  OBVIOUS
<1>8. /\ \A i \in 0..n : g[i] = h[i]
      /\ g[n + 1] = js' /\ g[0] = Empty
  BY <1>2, <1>6, <1>7 DEF History
<1>9. ExactTo(n + 1) => WithinExact(js')
  <2> SUFFICES ASSUME ExactTo(n + 1) PROVE WithinExact(js')
    OBVIOUS
  <2>1. ExactTo(n)
    BY <1>2 DEF ExactTo
  <2>2. WithinExact(js)
    BY <1>2, <1>6, <2>1 DEF History
  <2>3. /\ e.sequence \in Numbers /\ e.expiresat \in Texts \cup {Absent} /\ WithinLimits(e)
        /\ e = [scope |-> e.scope, id |-> e.id, key |-> e.key,
                sequence |-> e.sequence, expiresat |-> e.expiresat]
    BY <1>1, <1>2, CasesForm DEF ExactTo, TwinInv
  <2>4. ReadInJavaScript(e).sequence \in ExactNumbers
    BY <2>2, <2>3, SameStep
  <2> QED
    BY <1>1, <1>2, <2>2, <2>4, JavaScriptMemory
<1>10. History(g)'
  <2>1. g[Read(js)'] = js'
    BY <1>3, <1>8
  <2>2. ASSUME NEW i \in 0..n PROVE g[i + 1] = InJavaScript(g[i], cases[i + 1].event)
    <3>1. CASE i = n
      BY <1>1, <1>2, <1>6, <1>8, <3>1 DEF History
    <3>2. CASE i # n
      <4>1. i \in 0..n - 1 /\ i + 1 \in 0..n
        BY <1>2, <3>2
      <4>2. h[i + 1] = InJavaScript(h[i], cases[i + 1].event)
        BY <1>6, <4>1 DEF History
      <4> QED
        BY <1>8, <4>1, <4>2
    <3> QED
      BY <3>1, <3>2
  <2>3. \A i \in 0..n + 1 : Memory(g[i]) /\ (ExactTo(i) => WithinExact(g[i]))
    BY <1>2, <1>3, <1>6, <1>8, <1>9 DEF History
  <2> QED
    <3>1. Read(js)' - 1 = n
      BY <1>2, <1>3
    <3> QED
      BY <1>3, <1>4, <1>5, <1>8, <2>1, <2>2, <2>3, <3>1 DEF History
<1>Z. (\E k : History(k) /\ (ExactTo(Read(py)) => py = k[Read(py)]))'
  <2>1. g[Read(py)'] = py'
    BY <1>1, <1>2, <1>8 DEF Read
  <2> QED
    BY <1>10, <2>1
<1> QED
  BY <1>1, <1>2, <1>3, <1>4, <1>Z DEF TwinInv, Read

LEMMA PythonStep == ASSUME TwinInv, ReceiveInPython PROVE TwinInv'
<1> DEFINE n == Read(py)  e == cases[n + 1].event
<1>1. /\ script = "python" /\ n < Len(cases) /\ py' = InPython(py, e)
      /\ script' \in {"python", "failed"} /\ input' = input /\ js' = js
  BY DEF ReceiveInPython, More, Case, Continue, Read, documents
<1>2. n \in Nat /\ Memory(py) /\ Len(cases) \in Nat /\ Read(js) = Len(cases)
  BY <1>1, CasesForm DEF TwinInv, Read
<1>3. Memory(py') /\ Read(py)' = n + 1
  BY <1>1, <1>2, PythonMemory DEF Read
<1>4. Given' = Given /\ cases' = cases /\ Read(js)' = Read(js)
  BY <1>1 DEF Given, cases, Read
<1>5. \A i : ExactTo(i)' = ExactTo(i)
  BY <1>4 DEF ExactTo
<1>6. PICK h : History(h) /\ (ExactTo(n) => py = h[n])
  BY DEF TwinInv
<1>7. History(h)'
  BY <1>1, <1>4, <1>5, <1>6 DEF History
<1>8. ExactTo(n + 1) => py' = h[n + 1]
  <2> SUFFICES ASSUME ExactTo(n + 1) PROVE py' = h[n + 1]
    OBVIOUS
  <2>1. ExactTo(n)
    BY <1>2 DEF ExactTo
  <2>2. py = h[n] /\ WithinExact(py) /\ h[n + 1] = InJavaScript(py, e)
    BY <1>1, <1>2, <1>6, <2>1 DEF History
  <2>3. /\ e.sequence \in Numbers /\ e.expiresat \in Texts \cup {Absent} /\ WithinLimits(e)
        /\ e = [scope |-> e.scope, id |-> e.id, key |-> e.key,
                sequence |-> e.sequence, expiresat |-> e.expiresat]
    BY <1>1, <1>2, CasesForm DEF ExactTo, TwinInv
  <2> QED
    BY <1>1, <2>2, <2>3, SameStep
<1>9. (\E k : History(k) /\ (ExactTo(Read(py)) => py = k[Read(py)]))'
  BY <1>3, <1>5, <1>7, <1>8
<1> QED
  BY <1>1, <1>2, <1>3, <1>4, <1>9 DEF TwinInv

LEMMA NextTwinInv == ASSUME TwinInv, [Next]_vars PROVE TwinInv'
<1>1. CASE RunValidate
  <2>1. input' = input
    BY <1>1 DEF RunValidate, Validate, ValidateRegistry, RejectWrapper, RejectDuplicate,
                RejectSchema, Examine, EndOfFixtures, CheckCoverage, CheckCommands,
                CheckBindings, GiveVerdict, Admit, Check
  <2> QED
    BY <1>1, <2>1, KeepTwinInv DEF RunValidate, suite, TwinInv
<1>2. CASE ValidateExits
  BY <1>2, KeepTwinInv DEF ValidateExits, Continue, documents, TwinInv
<1>3. CASE ReceiveInJavaScript
  BY <1>3, JavaScriptStep
<1>4. CASE JavaScriptExits
  <2>1. Read(js) = Len(cases)
    BY <1>4, CasesForm DEF JavaScriptExits, More, Read, TwinInv
  <2> QED
    BY <1>4, <2>1, KeepTwinInv DEF JavaScriptExits, Continue, documents, TwinInv
<1>5. CASE FindInterpreter
  BY <1>5, KeepTwinInv DEF FindInterpreter, Continue, documents, TwinInv
<1>6. CASE ReceiveInPython
  BY <1>6, PythonStep
<1>7. CASE PythonExits \/ RefuseMutatedTrace \/ CheckKeys \/ CheckManifests \/ CheckDecisions
  BY <1>7, KeepTwinInv DEF PythonExits, RefuseMutatedTrace, CheckKeys, CheckManifests,
                           CheckDecisions, Continue, documents, TwinInv
<1>8. CASE UNCHANGED vars
  BY <1>8, KeepTwinInv DEF vars, suite, documents, TwinInv
<1> QED
  BY <1>1, <1>2, <1>3, <1>4, <1>5, <1>6, <1>7, <1>8 DEF Next

\* The JavaScript and the Python consumer agree on every trace, of any length,
\* whose sequences are written without a point and at most 2^53 and whose
\* expiries are whole milliseconds in a form that both languages read, though
\* one rounds every sum and every instant and the other none.
THEOREM TwinsAgreeUpToTheLimit == Spec => []TwinsAgree
<1>1. Init => TwinInv
  BY InitTwinInv
<1>2. TwinInv /\ [Next]_vars => TwinInv'
  BY NextTwinInv
<1>3. TwinInv => TwinsAgree
  <2> SUFFICES ASSUME TwinInv, Read(js) = Read(py),
                      \A i \in DOMAIN js.answers : WithinLimits(cases[i].event)
               PROVE  js = py
    BY DEF TwinsAgree, WithinLimits, Read
  <2>1. DOMAIN js.answers = 1..Read(js)
    BY DEF TwinInv, Memory, Read
  <2>2. ExactTo(Read(py))
    BY <2>1 DEF ExactTo
  <2> QED
    BY <2>2 DEF TwinInv, History
<1> QED
  BY <1>1, <1>2, <1>3, PTL DEF Spec

----------------------------------------------------------------------------
(* What the Python consumer applies is exact, and what the two applied in  *)
(* a trace that passes is the same, as both met its expectations.          *)

LEMMA AppliedMeans ==
    ASSUME NEW m, NEW e, AnswerInPython(m, e) = "applied"
    PROVE  ~Raises(e) /\ ~ExpiredInPython(e) /\ ~Behind(m, e) /\ ~AheadInPython(m, e)
<1>1. Outcome(m, e, ExpiredInPython(e), AheadInPython(m, e)) = "applied" /\ ~(New(m, e) /\ Raises(e))
  BY DEF AnswerInPython
<1> QED
  BY <1>1, OutcomeForm DEF Conflict

\* i is the latest case that the scope s applied.
Latest(applied, i, s) ==
    cases[i].event.scope = s /\ \A k \in applied : k > i => cases[k].event.scope # s

RunInv(applied, last) ==
    /\ \A s \in DOMAIN last : \E i \in applied :
           Latest(applied, i, s) /\ last[s] = ReadInPython(cases[i].event).sequence
    /\ \A k \in applied : cases[k].event.scope \in DOMAIN last
    /\ RunsExact(applied)

LEMMA AppliedForm ==
    ASSUME NEW m, Memory(m)
    PROVE  Len(m.answers) \in Nat /\ Applied(m) \subseteq 1..Len(m.answers)
  BY DEF Memory, Applied

LEMMA RunStep ==
    ASSUME Given, NEW m, Memory(m), Len(m.answers) < Len(cases),
           RunInv(Applied(m), m.last)
    PROVE  LET next_m == InPython(m, cases[Len(m.answers) + 1].event)
           IN  RunInv(Applied(next_m), next_m.last)
<1> DEFINE n == Len(m.answers)  d == cases[n + 1].event  e == ReadInPython(d)
           o == AnswerInPython(m, e)
           N == After(m, e, o)  A == Applied(m)  B == A \cup {n + 1}
<1>1. InPython(m, d) = N
  BY DEF InPython
<1>2. /\ N.answers = Append(m.answers, o)
      /\ N.last = IF o = "applied" THEN Put(m.last, e.scope, e.sequence) ELSE m.last
  BY DEF After, Memory
<1>3. n \in Nat /\ A \subseteq 1..n /\ Len(cases) \in Nat /\ m.answers \in Seq(Answers)
  BY AppliedForm, CasesForm DEF Memory
<1>4. o \in Answers /\ e.scope = d.scope /\ e.expiresat = d.expiresat
  <2>1. n + 1 \in 1..Len(cases)
    BY <1>3
  <2> QED
    BY <2>1, OutcomeAnswers, CasesForm, ReadForm
<1> HIDE DEF e, o, N
<1>5. /\ DOMAIN N.answers = 1..n + 1 /\ N.answers[n + 1] = o
      /\ \A i \in 1..n : N.answers[i] = m.answers[i]
  BY <1>2, <1>3, <1>4
<1>6. Applied(N) = IF o = "applied" THEN B ELSE A
  <2>1. \A i : i \in Applied(N) <=> i \in 1..n + 1 /\ N.answers[i] = "applied"
    BY <1>5 DEF Applied
  <2>2. \A i : i \in A <=> i \in 1..n /\ m.answers[i] = "applied"
    BY <1>3 DEF Applied
  <2>3. \A i : i \in 1..n + 1 <=> i \in 1..n \/ i = n + 1
    BY <1>3
  <2> QED
    BY <1>5, <2>1, <2>2, <2>3
<1>7. CASE o # "applied"
  BY <1>1, <1>2, <1>6, <1>7
<1>8. CASE o = "applied"
  <2>1. ~Raises(e) /\ ~ExpiredInPython(e) /\ ~Behind(m, e) /\ ~AheadInPython(m, e)
    BY <1>8, AppliedMeans DEF o
  <2> DEFINE L == Put(m.last, e.scope, e.sequence)
  <2>2. /\ DOMAIN L = DOMAIN m.last \cup {e.scope} /\ L[e.scope] = e.sequence
        /\ \A s \in DOMAIN m.last : s # e.scope => L[s] = m.last[s]
    BY DEF Put
  <2> HIDE DEF L
  <2>3. ASSUME NEW s \in DOMAIN L
        PROVE  \E i \in B : Latest(B, i, s) /\ L[s] = ReadInPython(cases[i].event).sequence
    <3>1. CASE s = e.scope
      <4>1. Latest(B, n + 1, s)
        BY <1>3, <1>4, <3>1 DEF Latest
      <4> QED
        BY <2>2, <3>1, <4>1 DEF e
    <3>2. CASE s # e.scope
      <4>1. s \in DOMAIN m.last /\ L[s] = m.last[s]
        BY <2>2, <3>2
      <4>2. PICK i \in A : Latest(A, i, s) /\ m.last[s] = ReadInPython(cases[i].event).sequence
        BY <4>1 DEF RunInv
      <4>3. Latest(B, i, s)
        BY <1>4, <3>2, <4>2 DEF Latest
      <4> QED
        BY <4>1, <4>2, <4>3
    <3> QED
      BY <3>1, <3>2
  <2>4. \A k \in B : cases[k].event.scope \in DOMAIN L
    BY <1>4, <2>2 DEF RunInv
  <2>5. ASSUME NEW j \in B
        PROVE  NotExpired(cases[j].event.expiresat)
    <3>1. n + 1 \in 1..Len(cases)
      BY <1>3
    <3>2. d.expiresat \in Texts \cup {Absent}
      BY <3>1, CasesForm
    <3>3. NotExpired(d.expiresat)
      BY <1>4, <2>1, <3>2, ExactAssumption DEF Raises, ExpiredInPython, NotExpired, Texts
    <3> QED
      BY <3>3 DEF RunInv, RunsExact
  <2>6. ASSUME NEW j \in B, NEW i \in B, Precedes(B, i, j),
               ~cases[i].event.sequence.point, ~cases[j].event.sequence.point
        PROVE  cases[j].event.sequence.n = cases[i].event.sequence.n + 1
    <3>1. i \in A
      BY <1>3, <2>6 DEF Precedes
    <3>2. CASE j \in A
      <4>1. Precedes(A, i, j)
        BY <2>6 DEF Precedes
      <4>2. RunsExact(A)
        BY DEF RunInv
      <4> QED
        BY <2>6, <3>1, <3>2, <4>1, <4>2 DEF RunsExact
    <3>3. CASE j = n + 1
      <4>1. cases[i].event.scope = e.scope /\ e.scope \in DOMAIN m.last
        BY <1>4, <2>6, <3>1, <3>3 DEF Precedes, RunInv
      <4>2. PICK k \in A : /\ Latest(A, k, e.scope)
                           /\ m.last[e.scope] = ReadInPython(cases[k].event).sequence
        BY <4>1 DEF RunInv
      <4>3. i = k
        <5>1. i \in Int /\ k \in Int /\ k < n + 1
          BY <1>3, <3>1, <4>2
        <5>2. ~(i > k)
          BY <3>1, <4>1, <4>2 DEF Latest
        <5>3. ~(i < k)
          BY <1>4, <2>6, <3>3, <4>2, <5>1 DEF Precedes, Latest
        <5> QED
          BY <5>1, <5>2, <5>3
      <4>4. /\ m.last[e.scope] = cases[i].event.sequence /\ e.sequence = d.sequence
            /\ cases[i].event.sequence \in Numbers /\ d.sequence \in Numbers
        <5>1. i \in 1..Len(cases) /\ n + 1 \in 1..Len(cases)
          BY <1>3, <3>1
        <5>2. ReadInPython(cases[i].event) = cases[i].event /\ e = d
          BY <2>6, <3>3, <5>1, CasesForm, ReadForm DEF e
        <5> QED
          BY <4>2, <4>3, <5>1, <5>2, CasesForm
      <4>5. /\ ~(e.sequence.n <= m.last[e.scope].n)
            /\ ~(e.sequence.n > m.last[e.scope].n + 1)
        BY <2>1, <2>6, <4>1, <4>4 DEF Behind, AheadInPython, Known, Sum
      <4>6. e.sequence.n \in Int /\ m.last[e.scope].n \in Int
        BY <4>4 DEF Numbers
      <4> QED
        BY <3>3, <4>4, <4>5, <4>6
    <3> QED
      BY <3>2, <3>3
  <2>7. RunsExact(B)
    BY <2>5, <2>6 DEF RunsExact
  <2>8. RunInv(B, L)
    BY <2>3, <2>4, <2>7 DEF RunInv
  <2> QED
    BY <1>1, <1>2, <1>6, <1>8, <2>8 DEF L
<1> QED
  BY <1>7, <1>8

Asserted(m) == \A i \in 1..Read(m) : m.answers[i] = cases[i].expected

TraceInv ==
    /\ RunInv(Applied(py), py.last)
    /\ script # "failed" => Asserted(js) /\ Asserted(py)
    /\ script \in {"mutation", "keys", "manifests", "decisions", "passed"} => Read(py) = Read(js)

LEMMA InitTraceInv == ASSUME Init PROVE TraceInv
<1>1. js = Empty /\ py = Empty /\ script = "validate"
  BY DEF Init
<1>2. DOMAIN Empty.last = {} /\ Applied(Empty) = {} /\ Read(Empty) = 0
  BY DEF Empty, Applied, Read
<1> QED
  BY <1>1, <1>2 DEF TraceInv, RunInv, RunsExact, Asserted

\* The last answer is compared with the case it is the answer to.
LEMMA AssertedStep ==
    ASSUME NEW m, NEW n, Memory(m), Memory(n), Asserted(m), NEW answer,
           n.answers = Append(m.answers, answer),
           Last(n.answers) = cases[Len(m.answers) + 1].expected
    PROVE  Asserted(n)
<1>1. m.answers \in Seq(Answers) /\ n.answers \in Seq(Answers) /\ Len(m.answers) \in Nat
  BY DEF Memory
<1>2. Len(n.answers) = Len(m.answers) + 1 /\ Last(n.answers) = n.answers[Len(n.answers)]
  BY <1>1 DEF Last
<1>3. \A i \in 1..Len(m.answers) : n.answers[i] = m.answers[i]
  BY <1>1
<1>4. \A i \in 1..Len(n.answers) : i \in 1..Len(m.answers) \/ i = Len(m.answers) + 1
  BY <1>1, <1>2
<1> QED
  BY <1>1, <1>2, <1>3, <1>4 DEF Asserted, Read

LEMMA KeepTraceInv ==
    ASSUME TraceInv, input' = input, js' = js, py' = py,
           script = "failed" => script' = "failed",
           script' \in {"mutation", "keys", "manifests", "decisions", "passed"} =>
               Read(py) = Read(js)
    PROVE  TraceInv'
  BY DEF TraceInv, RunInv, RunsExact, Latest, Precedes, Applied, Asserted, Read, cases

LEMMA NextTraceInv == ASSUME TraceInv, TwinInv, [Next]_vars PROVE TraceInv'
<1>1. CASE RunValidate
  <2>1. input' = input
    BY <1>1 DEF RunValidate, Validate, ValidateRegistry, RejectWrapper, RejectDuplicate,
                RejectSchema, Examine, EndOfFixtures, CheckCoverage, CheckCommands,
                CheckBindings, GiveVerdict, Admit, Check
  <2> QED
    BY <1>1, <2>1, KeepTraceInv DEF RunValidate, suite, TraceInv
<1>2. CASE ValidateExits
  BY <1>2, KeepTraceInv DEF ValidateExits, Continue, documents
<1>3. CASE ReceiveInJavaScript
  <2> DEFINE e == Case(js).event
  <2>1. /\ script = "javascript" /\ js' = InJavaScript(js, e) /\ input' = input /\ py' = py
        /\ script' = IF Last(js'.answers) = Case(js).expected THEN script ELSE "failed"
    BY <1>3 DEF ReceiveInJavaScript, Continue, documents
  <2>2. Memory(js) /\ Memory(js') /\ Asserted(py) /\ Asserted(js)
    BY <2>1, JavaScriptMemory DEF TwinInv, TraceInv
  <2>3. js'.answers = Append(js.answers, AnswerInJavaScript(js, ReadInJavaScript(e)))
    BY <2>1, <2>2 DEF InJavaScript, After, Memory
  <2>4. script' # "failed" => Asserted(js')
    BY <2>1, <2>2, <2>3, AssertedStep DEF Case
  <2>5. cases' = cases
    BY <2>1 DEF cases
  <2>6. script' # "failed" => Asserted(js)' /\ Asserted(py)'
    BY <2>1, <2>2, <2>4, <2>5 DEF Asserted, Read
  <2>7. RunInv(Applied(py), py.last)'
    BY <2>1, <2>5 DEF TraceInv, RunInv, RunsExact, Latest, Precedes, Applied
  <2>8. script' \in {"javascript", "failed"}
    BY <2>1
  <2> QED
    BY <2>6, <2>7, <2>8 DEF TraceInv
<1>4. CASE JavaScriptExits \/ FindInterpreter
  BY <1>4, KeepTraceInv DEF JavaScriptExits, FindInterpreter, Continue, documents
<1>5. CASE ReceiveInPython
  <2> DEFINE e == Case(py).event
  <2>1. /\ script = "python" /\ py' = InPython(py, e) /\ input' = input /\ js' = js
        /\ script' = IF Last(py'.answers) = Case(py).expected THEN script ELSE "failed"
        /\ Len(py.answers) < Len(cases)
    BY <1>5 DEF ReceiveInPython, Continue, documents, More
  <2>2. Given /\ Memory(py) /\ Memory(py') /\ Asserted(py) /\ Asserted(js)
    BY <2>1, PythonMemory DEF TwinInv, TraceInv
  <2>3. py'.answers = Append(py.answers, AnswerInPython(py, ReadInPython(e)))
    BY <2>1, <2>2 DEF InPython, After, Memory
  <2>4. script' # "failed" => Asserted(py')
    BY <2>1, <2>2, <2>3, AssertedStep DEF Case
  <2>5. cases' = cases
    BY <2>1 DEF cases
  <2>6. script' # "failed" => Asserted(js)' /\ Asserted(py)'
    BY <2>1, <2>2, <2>4, <2>5 DEF Asserted, Read
  <2>7. RunInv(Applied(py'), py'.last)
    BY <2>1, <2>2, RunStep DEF TraceInv, Case
  <2>8. RunInv(Applied(py), py.last)'
    BY <2>5, <2>7 DEF RunInv, RunsExact, Latest, Precedes, Applied
  <2>9. script' \in {"python", "failed"}
    BY <2>1
  <2> QED
    BY <2>6, <2>8, <2>9 DEF TraceInv
<1>6. CASE PythonExits
  <2>1. ~(Len(py.answers) < Len(cases)) /\ script = "python"
    BY <1>6 DEF PythonExits, More
  <2>2. Read(py) = Read(js)
    BY <2>1, CasesForm DEF TwinInv, Read
  <2> QED
    BY <1>6, <2>2, KeepTraceInv DEF PythonExits, Continue, documents
<1>7. CASE RefuseMutatedTrace \/ CheckKeys \/ CheckManifests \/ CheckDecisions
  BY <1>7, KeepTraceInv DEF RefuseMutatedTrace, CheckKeys, CheckManifests, CheckDecisions,
                            Continue, documents, TraceInv
<1>8. CASE UNCHANGED vars
  BY <1>8, KeepTraceInv DEF vars, suite, documents, TraceInv
<1> QED
  BY <1>1, <1>2, <1>3, <1>4, <1>5, <1>6, <1>7, <1>8 DEF Next

\* In a trace that the suite passes, what the JavaScript consumer applied of a
\* scope is consecutive, beyond 2^53 as well, and expires after the observation,
\* by less than a millisecond or in a form it cannot read as well.
THEOREM PassedIsExact == Spec => []PassedTraceIsExact
<1>1. Init => TwinInv /\ TraceInv
  BY InitTwinInv, InitTraceInv
<1>2. TwinInv /\ TraceInv /\ [Next]_vars => (TwinInv /\ TraceInv)'
  BY NextTwinInv, NextTraceInv
<1>3. TwinInv /\ TraceInv => PassedTraceIsExact
  <2> SUFFICES ASSUME TwinInv, TraceInv, script = "passed" PROVE RunsExact(Applied(js))
    BY DEF PassedTraceIsExact
  <2>1. Read(py) = Read(js) /\ Asserted(js) /\ Asserted(py)
    BY DEF TraceInv
  <2>2. DOMAIN js.answers = 1..Read(js) /\ DOMAIN py.answers = 1..Read(py)
    BY DEF TwinInv, Memory, Read
  <2>3. Applied(js) = Applied(py)
    BY <2>1, <2>2 DEF Applied, Asserted
  <2> QED
    BY <2>3 DEF TraceInv, RunInv
<1> QED
  BY <1>1, <1>2, <1>3, PTL DEF Spec

----------------------------------------------------------------------------
(* The last scripts.                                                       *)

DecisionsOnly == {"denied", "unavailable", "unschedulable"}
Codes == {"POLICY_DENIED", "POLICY_UNAVAILABLE", "SCOPE_NOT_APPROVED", "PRODUCTION_POOL_REQUIRED",
          "CAPABILITY_STALE", "CAPABILITY_REVOKED", "BACKEND_INCOMPATIBLE"}
Refusing == {Refused(d, c) : d \in DecisionsOnly, c \in Codes}

Part(applies, disposition, code) ==
    IF applies THEN <<Refused(disposition, code)>> ELSE << >>

LEMMA PartForm ==
    ASSUME NEW applies, NEW d \in DecisionsOnly, NEW c \in Codes
    PROVE  /\ Part(applies, d, c) \in Seq(Refusing)
           /\ applies => Part(applies, d, c) # << >> /\ Head(Part(applies, d, c)) = Refused(d, c)
           /\ ~applies => Part(applies, d, c) = << >>
<1>1. CASE applies
  <2>1. Part(applies, d, c) = <<Refused(d, c)>>
    BY <1>1, Zenon DEF Part
  <2>2. Refused(d, c) \in Refusing
    BY DEF Refusing
  <2>3. \A x \in Refusing : <<x>> \in Seq(Refusing) /\ <<x>> # << >> /\ Head(<<x>>) = x
    OBVIOUS
  <2> QED
    BY <1>1, <2>1, <2>2, <2>3, Zenon
<1>2. CASE ~applies
  <2>1. Part(applies, d, c) = << >>
    BY <1>2, Zenon DEF Part
  <2>2. << >> \in Seq(Refusing)
    OBVIOUS
  <2> QED
    BY <1>2, <2>1, <2>2, Zenon
<1> QED
  BY <1>1, <1>2

LEMMA Concatenated ==
    ASSUME NEW s \in Seq(Refusing), NEW t \in Seq(Refusing)
    PROVE  /\ s \o t \in Seq(Refusing)
           /\ s # << >> => s \o t # << >> /\ Head(s \o t) = Head(s)
           /\ t # << >> => s \o t # << >>
           /\ s = << >> => s \o t = t
  OBVIOUS

\* The order in which the refusals are tried.
LEMMA FirstRefusal ==
    ASSUME NEW m, NEW context
    PROVE  LET decision == ExpectedDecision(m, context) IN
              /\ context.policy = "deny" => decision = Refused("denied", "POLICY_DENIED")
              /\ context.policy = "timeout" => decision = Refused("unavailable", "POLICY_UNAVAILABLE")
              /\ (\/ context.scope = "external_unapproved"
                  \/ context.capability \in {"stale", "revoked"}
                  \/ m.criticality = "critical" /\ context.scope # "production_local")
                     => decision.disposition # "eligible"
<1> DEFINE p1 == Part(context.policy = "deny", "denied", "POLICY_DENIED")
           p2 == Part(context.policy = "timeout", "unavailable", "POLICY_UNAVAILABLE")
           p3 == Part(context.scope = "external_unapproved", "denied", "SCOPE_NOT_APPROVED")
           p4 == Part(m.criticality = "critical" /\ context.scope # "production_local",
                      "unschedulable", "PRODUCTION_POOL_REQUIRED")
           p5 == Part(context.capability = "stale", "unschedulable", "CAPABILITY_STALE")
           p6 == Part(context.capability = "revoked", "unschedulable", "CAPABILITY_REVOKED")
           p7 == Part(Backends(m) = << >>, "unschedulable", "BACKEND_INCOMPATIBLE")
           q2 == p1 \o p2  q3 == q2 \o p3  q4 == q3 \o p4  q5 == q4 \o p5  q6 == q5 \o p6
           r == q6 \o p7
<1>1. Refusals(m, context) = r
  BY Zenon DEF Refusals, Part
<1>2. /\ p1 \in Seq(Refusing) /\ p2 \in Seq(Refusing) /\ p3 \in Seq(Refusing)
      /\ p4 \in Seq(Refusing) /\ p5 \in Seq(Refusing) /\ p6 \in Seq(Refusing)
      /\ p7 \in Seq(Refusing)
  BY PartForm DEF DecisionsOnly, Codes
<1>3. /\ context.policy = "deny" => p1 # << >> /\ Head(p1) = Refused("denied", "POLICY_DENIED")
      /\ context.policy = "timeout" => /\ p1 = << >> /\ p2 # << >>
                                       /\ Head(p2) = Refused("unavailable", "POLICY_UNAVAILABLE")
      /\ context.scope = "external_unapproved" => p3 # << >>
      /\ m.criticality = "critical" /\ context.scope # "production_local" => p4 # << >>
      /\ context.capability = "stale" => p5 # << >>
      /\ context.capability = "revoked" => p6 # << >>
  BY PartForm DEF DecisionsOnly, Codes
<1> HIDE DEF p1, p2, p3, p4, p5, p6, p7
<1>4. /\ q2 \in Seq(Refusing)
      /\ p1 # << >> => q2 # << >> /\ Head(q2) = Head(p1)
      /\ p1 = << >> => q2 = p2
  BY <1>2, Concatenated
<1> HIDE DEF q2
<1>5. /\ q3 \in Seq(Refusing)
      /\ q2 # << >> => q3 # << >> /\ Head(q3) = Head(q2)
      /\ p3 # << >> => q3 # << >>
  BY <1>2, <1>4, Concatenated
<1> HIDE DEF q3
<1>6. /\ q4 \in Seq(Refusing)
      /\ q3 # << >> => q4 # << >> /\ Head(q4) = Head(q3)
      /\ p4 # << >> => q4 # << >>
  BY <1>2, <1>5, Concatenated
<1> HIDE DEF q4
<1>7. /\ q5 \in Seq(Refusing)
      /\ q4 # << >> => q5 # << >> /\ Head(q5) = Head(q4)
      /\ p5 # << >> => q5 # << >>
  BY <1>2, <1>6, Concatenated
<1> HIDE DEF q5
<1>8. /\ q6 \in Seq(Refusing)
      /\ q5 # << >> => q6 # << >> /\ Head(q6) = Head(q5)
      /\ p6 # << >> => q6 # << >>
  BY <1>2, <1>7, Concatenated
<1> HIDE DEF q6
<1>9. /\ r \in Seq(Refusing)
      /\ q6 # << >> => r # << >> /\ Head(r) = Head(q6)
  BY <1>2, <1>8, Concatenated
<1> HIDE DEF r
<1>10. r # << >> => ExpectedDecision(m, context) = Head(r) /\ Head(r) \in Refusing
  BY <1>1, <1>9 DEF ExpectedDecision
<1>11. \A x \in Refusing : x.disposition # "eligible"
  BY DEF Refusing, Refused, DecisionsOnly
<1>12. q2 # << >> => ExpectedDecision(m, context) = Head(q2)
  BY <1>5, <1>6, <1>7, <1>8, <1>9, <1>10
<1>13. /\ context.policy = "deny" =>
              ExpectedDecision(m, context) = Refused("denied", "POLICY_DENIED")
       /\ context.policy = "timeout" =>
              ExpectedDecision(m, context) = Refused("unavailable", "POLICY_UNAVAILABLE")
  BY <1>3, <1>4, <1>12
<1>14. (\/ context.scope = "external_unapproved"
        \/ context.capability \in {"stale", "revoked"}
        \/ m.criticality = "critical" /\ context.scope # "production_local") => r # << >>
  BY <1>3, <1>5, <1>6, <1>7, <1>8, <1>9
<1> QED
  BY <1>10, <1>11, <1>13, <1>14

LEMMA VectorsFromSound ==
    ASSUME Given, \A v \in input.vectors : VectorSound(v)
    PROVE  VectorsFailClosed
<1> SUFFICES ASSUME NEW u \in input.vectors, u.expectedNewAuthorization,
                    NEW v \in input.vectors, v.expectedNewAuthorization
             PROVE  /\ u.time = v.time => u.end # v.start
                    /\ u.expectedCryptographicValidity
                    /\ u.revokedAt # Absent => u.time < u.revokedAt
  BY DEF VectorsFailClosed
<1>1. /\ VectorSound(u) /\ VectorSound(v) /\ MayAuthorize(u) /\ MayAuthorize(v)
  BY DEF VectorSound
<1>2. /\ {u.time, u.start, u.end, u.revokedAt} \subseteq Int \cup {Absent, Unreadable}
      /\ {v.time, v.start, v.end, v.revokedAt} \subseteq Int \cup {Absent, Unreadable}
  BY VectorAssumption DEF Given
<1>3. /\ u.time \in Int /\ u.end \in Int /\ v.time \in Int /\ v.start \in Int
      /\ u.revokedAt # Absent => u.revokedAt \in Int
  BY <1>1, <1>2 DEF VectorSound, Readable
<1>4. u.time < u.end /\ v.start <= v.time /\ ~Revoked(u)
  BY <1>1 DEF MayAuthorize
<1>5. u.time = v.time => u.end # v.start
  BY <1>3, <1>4
<1>6. u.revokedAt # Absent => u.time < u.revokedAt
  BY <1>3, <1>4 DEF Revoked
<1>7. u.expectedCryptographicValidity
  BY <1>1 DEF VectorSound, MayAuthorize
<1> QED
  BY <1>5, <1>6, <1>7

LEMMA DecisionsFromSound ==
    ASSUME Given, SuiteSound(input.manifest, input.decisions)
    PROVE  DecisionsFailClosed
<1>1. ASSUME NEW case \in ToSet(input.decisions)
      PROVE  CaseSound(input.manifest, case)
  BY DEF SuiteSound, ToSet, Given
<1>2. ASSUME NEW case \in ToSet(input.decisions)
      PROVE  /\ case.context.policy = "deny" => case.expected.reasonCodes = <<"POLICY_DENIED">>
             /\ case.context.policy = "timeout" => case.expected.disposition = "unavailable"
             /\ \A b \in ToSet(case.expected.backends) :
                   /\ b \in ToSet(Defaults[Decided(case).workloadClass])
                               \cap Decided(case).backendPreferences
                   /\ case.context.scope # "external_unapproved"
                   /\ case.context.capability \notin {"stale", "revoked"}
  <2>1. /\ case.expected = ExpectedDecision(Decided(case), case.context)
        /\ (case.expected.backends # << >>) = (case.expected.disposition = "eligible")
        /\ ToSet(case.expected.backends) \subseteq
               ToSet(Defaults[Decided(case).workloadClass]) \cap Decided(case).backendPreferences
    BY <1>1 DEF CaseSound, Decided
  <2>2. /\ case.context.policy = "deny" => case.expected = Refused("denied", "POLICY_DENIED")
        /\ case.context.policy = "timeout" =>
               case.expected = Refused("unavailable", "POLICY_UNAVAILABLE")
        /\ (\/ case.context.scope = "external_unapproved"
            \/ case.context.capability \in {"stale", "revoked"})
               => case.expected.disposition # "eligible"
    BY <2>1, FirstRefusal
  <2>3. case.context.policy = "deny" => case.expected.reasonCodes = <<"POLICY_DENIED">>
    BY <2>2 DEF Refused
  <2>4. case.context.policy = "timeout" => case.expected.disposition = "unavailable"
    BY <2>2 DEF Refused
  <2>5. ASSUME NEW b \in ToSet(case.expected.backends)
        PROVE  /\ case.context.scope # "external_unapproved"
               /\ case.context.capability \notin {"stale", "revoked"}
    <3>1. case.expected.backends # << >>
      BY <2>5 DEF ToSet
    <3> QED
      BY <1>1, <2>1, <2>2, <3>1
  <2> QED
    BY <2>1, <2>3, <2>4, <2>5
<1>3. ASSUME NEW class \in DOMAIN Defaults
      PROVE  \E case \in ToSet(input.decisions) :
                case.expected.backends # << >> /\ Decided(case).workloadClass = class
  <2>1. class \in EligibleClasses(input.manifest, input.decisions)
    BY DEF SuiteSound
  <2>2. PICK case \in ToSet(input.decisions) :
            /\ case.expected.disposition = "eligible"
            /\ Merged(input.manifest, case.manifestPatch).workloadClass = class
    BY <2>1 DEF EligibleClasses
  <2>3. (case.expected.backends # << >>) = (case.expected.disposition = "eligible")
    BY <1>1 DEF CaseSound
  <2> QED
    BY <2>2, <2>3 DEF Decided
<1> QED
  BY <1>2, <1>3 DEF DecisionsFailClosed

LastInv ==
    /\ Given
    /\ script \in {"manifests", "decisions", "passed"} =>
           \A v \in input.vectors : VectorSound(v)
    /\ script = "passed" => SuiteSound(input.manifest, input.decisions)

LEMMA NextLastInv == ASSUME LastInv, DInv, [Next]_vars PROVE LastInv'
<1>1. CASE RunValidate
  <2>1. Given'
    BY <1>1, ValidateDInv DEF RunValidate, DInv
  <2>2. script' = "validate"
    BY <1>1 DEF RunValidate, suite
  <2> QED
    BY <2>1, <2>2 DEF LastInv
<1>2. CASE UNCHANGED vars
  BY <1>2 DEF vars, suite, documents, LastInv, Given
<1>3. CASE \/ ValidateExits \/ ReceiveInJavaScript \/ JavaScriptExits \/ FindInterpreter
           \/ ReceiveInPython \/ PythonExits \/ RefuseMutatedTrace
  <2>1. input' = input /\ script' \notin {"manifests", "decisions", "passed"}
    BY <1>3 DEF ValidateExits, ReceiveInJavaScript, JavaScriptExits, FindInterpreter,
                ReceiveInPython, PythonExits, RefuseMutatedTrace, Continue, documents
  <2> QED
    BY <2>1 DEF LastInv, Given
<1>4. CASE CheckKeys
  <2>1. /\ input' = input /\ script' \in {"manifests", "failed"}
        /\ script' = "manifests" => \A v \in input.vectors : VectorSound(v)
    BY <1>4 DEF CheckKeys, Continue, documents
  <2> QED
    BY <2>1 DEF LastInv, Given
<1>5. CASE CheckManifests
  <2>1. input' = input /\ script = "manifests" /\ script' \in {"decisions", "failed"}
    BY <1>5 DEF CheckManifests, Continue, documents
  <2> QED
    BY <2>1 DEF LastInv, Given
<1>6. CASE CheckDecisions
  <2>1. /\ input' = input /\ script = "decisions" /\ script' \in {"passed", "failed"}
        /\ script' = "passed" => SuiteSound(input.manifest, input.decisions)
    BY <1>6 DEF CheckDecisions, Continue, documents
  <2> QED
    BY <2>1 DEF LastInv, Given
<1> QED
  BY <1>1, <1>2, <1>3, <1>4, <1>5, <1>6 DEF Next

\* Key vectors and placement decisions that the suite passes fail closed: no
\* instant at which two successive keys authorise, a denial by policy reported
\* as that, and no backend named under an unapproved scope or a stale or revoked capability.
THEOREM PassedFailsClosed == Spec => []PassedSuiteFailsClosed
<1>1. Init => LastInv
  BY DEF Init, Open, LastInv, Given
<1>2. LastInv /\ DInv /\ [Next]_vars => LastInv'
  BY NextLastInv
<1>3. LastInv => PassedSuiteFailsClosed
  BY VectorsFromSound, DecisionsFromSound DEF LastInv, PassedSuiteFailsClosed
<1> QED
  BY <1>1, <1>2, <1>3, DInvHolds, PTL DEF Spec

----------------------------------------------------------------------------
(* What the two consumers remember of a trace, in terms of the trace.      *)

JavaScriptSees == [i \in 1..Len(cases) |-> ReadInJavaScript(cases[i].event)]
PythonSees     == [i \in 1..Len(cases) |-> ReadInPython(cases[i].event)]

\* Case i is an event that was applied before.
Repeats(m, sees, i) == \E j \in Applied(m) : j < i /\ sees[j] = sees[i]

OnceEach(m, sees) ==
    \A i, j \in Applied(m) :
        i # j => sees[i].id # sees[j].id /\ KeyOf(sees[i]) # KeyOf(sees[j])

\* Each identity and each idempotency key is applied once, a repetition of what
\* was applied is answered as such and nothing else is, and what is counted is
\* what was applied.
Deduplicates(m, sees) ==
    /\ OnceEach(m, sees)
    /\ \A i \in DOMAIN m.answers : m.answers[i] = "duplicate" <=> Repeats(m, sees, i)
    /\ m.applied = Cardinality(Applied(m))

\* The maps hold what was applied, under its own identity and key.
Remembers(m, sees) ==
    /\ \A i \in Applied(m) :
          /\ sees[i].id \in DOMAIN m.ids /\ m.ids[sees[i].id] = sees[i]
          /\ KeyOf(sees[i]) \in DOMAIN m.keys /\ m.keys[KeyOf(sees[i])] = sees[i]
    /\ \A x \in DOMAIN m.ids : \E i \in Applied(m) : sees[i].id = x
    /\ \A x \in DOMAIN m.keys : \E i \in Applied(m) : KeyOf(sees[i]) = x

CountInv ==
    script \in {"interpreter", "python", "mutation", "keys", "manifests", "decisions", "passed"} =>
        Read(js) = Len(cases) /\ js.applied = input.trace.expectedAppliedCount

\* The expectations of the trace are themselves those of a consumer that applies
\* each event once.
TraceDeduplicates ==
    LET applied == {i \in 1..Len(cases) : cases[i].expected = "applied"} IN
    /\ \A i, j \in applied :
          i # j => /\ cases[i].event.id # cases[j].event.id
                   /\ KeyOf(cases[i].event) # KeyOf(cases[j].event)
    /\ \A sees \in {JavaScriptSees, PythonSees} : \A i \in 1..Len(cases) :
          cases[i].expected = "duplicate" <=> \E j \in applied : j < i /\ sees[j] = sees[i]
    /\ input.trace.expectedAppliedCount = Cardinality(applied)

LEMMA OutcomeMeans ==
    ASSUME NEW m, NEW e,
           NEW o \in {AnswerInJavaScript(m, e), AnswerInPython(m, e)}
    PROVE  /\ o = "applied" => New(m, e)
           /\ o = "duplicate" <=> ~New(m, e) /\ Held(m, e) = e
  BY OutcomeForm DEF AnswerInJavaScript, AnswerInPython, Conflict

DedupInv(m, sees) ==
    /\ Memory(m) /\ {"ids", "keys", "applied"} \subseteq DOMAIN m
    /\ Deduplicates(m, sees) /\ Remembers(m, sees)

LEMMA EmptyDedup == ASSUME NEW sees PROVE DedupInv(Empty, sees)
<1>1. /\ Applied(Empty) = {} /\ DOMAIN Empty.answers = {} /\ DOMAIN Empty.ids = {}
      /\ DOMAIN Empty.keys = {} /\ Empty.applied = 0
      /\ {"ids", "keys", "applied"} \subseteq DOMAIN Empty
  BY DEF Empty, Applied
<1>2. Cardinality({}) = 0
  BY FS_EmptySet
<1> QED
  BY <1>1, <1>2, EmptyMemory DEF DedupInv, Deduplicates, OnceEach, Remembers

\* One event in a language that answers as Outcome does.
LEMMA DedupStep ==
    ASSUME NEW m, NEW sees, DedupInv(m, sees), NEW o \in Answers, NEW e,
           e = sees[Len(m.answers) + 1],
           o = "applied" => New(m, e),
           o = "duplicate" <=> ~New(m, e) /\ Held(m, e) = e
    PROVE  DedupInv(After(m, e, o), sees)
<1> DEFINE n == Len(m.answers)  N == After(m, e, o)  A == Applied(m)  B == A \cup {n + 1}
<1>1. /\ DOMAIN N = DOMAIN m /\ N.answers = Append(m.answers, o)
      /\ N.ids  = IF o = "applied" THEN Put(m.ids, e.id, e) ELSE m.ids
      /\ N.keys = IF o = "applied" THEN Put(m.keys, KeyOf(e), e) ELSE m.keys
      /\ N.applied = IF o = "applied" THEN m.applied + 1 ELSE m.applied
  BY DEF After, DedupInv, Memory
<1>2. Memory(N)
  BY AfterMemory DEF DedupInv
<1> HIDE DEF N
<1>3. n \in Nat /\ A \subseteq 1..n /\ m.answers \in Seq(Answers)
  BY AppliedForm DEF DedupInv, Memory
<1>4. /\ DOMAIN N.answers = 1..n + 1 /\ N.answers[n + 1] = o
      /\ \A i \in 1..n : N.answers[i] = m.answers[i]
  BY <1>1, <1>3
<1>5. Applied(N) = IF o = "applied" THEN B ELSE A
  <2>1. \A i : i \in Applied(N) <=> i \in 1..n + 1 /\ N.answers[i] = "applied"
    BY <1>4 DEF Applied
  <2>2. \A i : i \in A <=> i \in 1..n /\ m.answers[i] = "applied"
    BY <1>3 DEF Applied
  <2>3. \A i : i \in 1..n + 1 <=> i \in 1..n \/ i = n + 1
    BY <1>3
  <2> QED
    BY <1>4, <2>1, <2>2, <2>3
<1>6. n + 1 \notin A /\ IsFiniteSet(A) /\ DOMAIN m.answers = 1..n
  <2>1. n + 1 \notin A /\ DOMAIN m.answers = 1..n
    BY <1>3
  <2>2. IsFiniteSet(1..n)
    BY <1>3, FS_Interval
  <2>3. IsFiniteSet(A)
    BY <1>3, <2>2, FS_Subset
  <2> QED
    BY <2>1, <2>3
<1>7. \A i \in 1..n + 1 : Repeats(N, sees, i) <=> Repeats(m, sees, i)
  <2>1. \A j : (j \in Applied(N) /\ j # n + 1) <=> j \in A
    BY <1>5, <1>6
  <2>2. \A i \in 1..n + 1 : ~(n + 1 < i)
    BY <1>3
  <2>3. \A i \in 1..n + 1 : \A j : j < i => j # n + 1
    BY <2>2
  <2> QED
    BY <2>1, <2>3 DEF Repeats
\* What the answer to this case says of the cases before it.
<1>8. o = "duplicate" <=> Repeats(m, sees, n + 1)
  <2>1. \A j \in A : j < n + 1
    BY <1>3
  <2>2. ASSUME o = "duplicate" PROVE Repeats(m, sees, n + 1)
    <3>1. ~New(m, e) /\ Held(m, e) = e
      BY <2>2
    <3>2. CASE e.id \in DOMAIN m.ids
      <4>1. PICK j \in A : sees[j].id = e.id
        BY <3>2 DEF DedupInv, Remembers
      <4>2. m.ids[e.id] = sees[j] /\ m.ids[e.id] = e
        BY <3>1, <3>2, <4>1 DEF DedupInv, Remembers, Held
      <4> QED
        BY <2>1, <4>2 DEF Repeats
    <3>3. CASE e.id \notin DOMAIN m.ids
      <4>1. KeyOf(e) \in DOMAIN m.keys
        BY <3>1, <3>3 DEF New
      <4>2. PICK j \in A : KeyOf(sees[j]) = KeyOf(e)
        BY <4>1 DEF DedupInv, Remembers
      <4>3. m.keys[KeyOf(e)] = sees[j] /\ m.keys[KeyOf(e)] = e
        <5>1. m.keys[KeyOf(sees[j])] = sees[j]
          BY <4>2, Zenon DEF DedupInv, Remembers
        <5>2. Held(m, e) = m.keys[KeyOf(e)]
          BY <3>3 DEF Held
        <5> QED
          BY <3>1, <4>2, <5>1, <5>2
      <4> QED
        BY <2>1, <4>3 DEF Repeats
    <3> QED
      BY <3>2, <3>3
  <2>3. ASSUME Repeats(m, sees, n + 1) PROVE o = "duplicate"
    <3>1. PICK j \in A : sees[j] = e
      BY <2>3 DEF Repeats
    <3>2. e.id \in DOMAIN m.ids /\ m.ids[e.id] = e
      BY <3>1 DEF DedupInv, Remembers
    <3> QED
      BY <3>2 DEF New, Held
  <2> QED
    BY <2>2, <2>3
<1>9. \A i \in DOMAIN N.answers : N.answers[i] = "duplicate" <=> Repeats(N, sees, i)
  <2>1. \A i \in 1..n : N.answers[i] = "duplicate" <=> Repeats(m, sees, i)
    BY <1>4, <1>6 DEF DedupInv, Deduplicates
  <2>2. \A i \in 1..n + 1 : i \in 1..n \/ i = n + 1
    BY <1>3
  <2> QED
    BY <1>4, <1>7, <1>8, <2>1, <2>2
<1>10. ASSUME o # "applied" PROVE DedupInv(N, sees)
  <2>1. N.ids = m.ids /\ N.keys = m.keys /\ N.applied = m.applied /\ Applied(N) = A
    BY <1>1, <1>5, <1>10
  <2> QED
    BY <1>1, <1>2, <1>9, <2>1 DEF DedupInv, Deduplicates, OnceEach, Remembers
<1>11. ASSUME o = "applied" PROVE DedupInv(N, sees)
  <2>1. New(m, e) /\ Applied(N) = B /\ sees[n + 1] = e
    BY <1>5, <1>11
  <2> DEFINE ids == Put(m.ids, e.id, e)  keys == Put(m.keys, KeyOf(e), e)
  <2>a. N.ids = ids /\ N.keys = keys
    BY <1>1, <1>11
  <2>b. /\ DOMAIN ids = DOMAIN m.ids \cup {e.id} /\ ids[e.id] = e
        /\ \A x \in DOMAIN m.ids : x # e.id => ids[x] = m.ids[x]
    BY DEF Put
  <2>c. /\ DOMAIN keys = DOMAIN m.keys \cup {KeyOf(e)} /\ keys[KeyOf(e)] = e
        /\ \A x \in DOMAIN m.keys : x # KeyOf(e) => keys[x] = m.keys[x]
    BY DEF Put
  <2> HIDE DEF ids, keys
  <2>2. \A j \in A : sees[j].id # e.id /\ KeyOf(sees[j]) # KeyOf(e)
    <3> SUFFICES ASSUME NEW j \in A PROVE sees[j].id # e.id /\ KeyOf(sees[j]) # KeyOf(e)
      OBVIOUS
    <3>1. sees[j].id \in DOMAIN m.ids /\ KeyOf(sees[j]) \in DOMAIN m.keys
      BY DEF DedupInv, Remembers
    <3> QED
      BY <2>1, <3>1, Zenon DEF New
  <2>3. OnceEach(N, sees)
    <3> SUFFICES ASSUME NEW i \in B, NEW j \in B, i # j
                 PROVE  sees[i].id # sees[j].id /\ KeyOf(sees[i]) # KeyOf(sees[j])
      BY <2>1, Zenon DEF OnceEach
    <3>1. CASE i \in A /\ j \in A
      BY <3>1, Zenon DEF DedupInv, Deduplicates, OnceEach
    <3>2. CASE i = n + 1 /\ j \in A
      BY <2>1, <2>2, <3>2, Zenon
    <3>3. CASE j = n + 1 /\ i \in A
      BY <2>1, <2>2, <3>3, Zenon
    <3> QED
      BY <3>1, <3>2, <3>3
  <2>4. N.applied = Cardinality(B)
    <3>1. Cardinality(B) = Cardinality(A) + 1
      BY <1>6, FS_AddElement
    <3>2. m.applied = Cardinality(A) /\ N.applied = m.applied + 1
      BY <1>1, <1>11 DEF DedupInv, Deduplicates
    <3> QED
      BY <3>1, <3>2
  <2>5. ASSUME NEW i \in B
        PROVE  /\ sees[i].id \in DOMAIN N.ids /\ N.ids[sees[i].id] = sees[i]
               /\ KeyOf(sees[i]) \in DOMAIN N.keys /\ N.keys[KeyOf(sees[i])] = sees[i]
    <3>2. CASE i = n + 1
      BY <2>1, <2>a, <2>b, <2>c, <3>2
    <3>3. CASE i \in A
      <4>1. /\ sees[i].id \in DOMAIN m.ids /\ m.ids[sees[i].id] = sees[i]
            /\ KeyOf(sees[i]) \in DOMAIN m.keys /\ m.keys[KeyOf(sees[i])] = sees[i]
        BY <3>3, Zenon DEF DedupInv, Remembers
      <4>2. sees[i].id # e.id /\ KeyOf(sees[i]) # KeyOf(e)
        BY <2>2, <3>3, Zenon
      <4> QED
        BY <2>a, <2>b, <2>c, <4>1, <4>2
    <3> QED
      BY <3>2, <3>3
  <2>6. ASSUME NEW x \in DOMAIN N.ids PROVE \E i \in B : sees[i].id = x
    <3>1. DOMAIN N.ids = DOMAIN m.ids \cup {e.id}
      BY <2>a, <2>b, <2>c
    <3> QED
      BY <2>1, <2>6, <3>1 DEF DedupInv, Remembers
  <2>7. ASSUME NEW x \in DOMAIN N.keys PROVE \E i \in B : KeyOf(sees[i]) = x
    <3>1. DOMAIN N.keys = DOMAIN m.keys \cup {KeyOf(e)}
      BY <2>a, <2>b, <2>c
    <3>2. CASE x = KeyOf(e)
      BY <2>1, <3>2
    <3>3. CASE x \in DOMAIN m.keys
      <4>1. PICK i \in A : KeyOf(sees[i]) = x
        BY <3>3, Zenon DEF DedupInv, Remembers
      <4> QED
        BY <4>1
    <3> QED
      BY <2>7, <3>1, <3>2, <3>3
  <2>8. Remembers(N, sees)
    BY <2>1, <2>5, <2>6, <2>7, Zenon DEF Remembers
  <2> QED
    BY <1>1, <1>2, <1>9, <2>1, <2>3, <2>4, <2>8 DEF DedupInv, Deduplicates
<1> QED
  BY <1>10, <1>11 DEF N

DedupedInv == DedupInv(js, JavaScriptSees) /\ DedupInv(py, PythonSees)

LEMMA DedupedPrimed ==
    DedupInv(js', JavaScriptSees') /\ DedupInv(py', PythonSees') => DedupedInv'
  BY DEF DedupedInv, DedupInv, Memory, Deduplicates, OnceEach, Repeats, Remembers, Applied

LEMMA KeepDedup ==
    ASSUME DedupedInv, input' = input, js' = js, py' = py
    PROVE  DedupedInv'
<1>1. JavaScriptSees' = JavaScriptSees /\ PythonSees' = PythonSees
  BY DEF JavaScriptSees, PythonSees, cases
<1> QED
  BY <1>1, DedupedPrimed DEF DedupedInv

LEMMA JavaScriptDedups ==
    ASSUME DedupedInv, TwinInv, ReceiveInJavaScript
    PROVE  DedupedInv'
<1> DEFINE e == ReadInJavaScript(Case(js).event)  o == AnswerInJavaScript(js, e)
<1>1. /\ js' = After(js, e, o) /\ input' = input /\ py' = py /\ Len(js.answers) < Len(cases)
  BY DEF ReceiveInJavaScript, More, documents, InJavaScript
<1>2. e = JavaScriptSees[Len(js.answers) + 1]
  BY <1>1, CasesForm DEF JavaScriptSees, Case, TwinInv, Read
<1>3. o \in Answers
  BY OutcomeAnswers
<1>4. /\ o = "applied" => New(js, e)
      /\ o = "duplicate" <=> ~New(js, e) /\ Held(js, e) = e
  BY OutcomeMeans
<1> HIDE DEF e, o
<1>5. DedupInv(After(js, e, o), JavaScriptSees)
  BY <1>2, <1>3, <1>4, DedupStep DEF DedupedInv
<1>6. JavaScriptSees' = JavaScriptSees /\ PythonSees' = PythonSees
  BY <1>1 DEF JavaScriptSees, PythonSees, cases
<1> QED
  BY <1>1, <1>5, <1>6, DedupedPrimed DEF DedupedInv

LEMMA PythonDedups ==
    ASSUME DedupedInv, TwinInv, ReceiveInPython
    PROVE  DedupedInv'
<1> DEFINE e == ReadInPython(Case(py).event)  o == AnswerInPython(py, e)
<1>1. /\ py' = After(py, e, o) /\ input' = input /\ js' = js /\ Len(py.answers) < Len(cases)
  BY DEF ReceiveInPython, More, documents, InPython
<1>2. e = PythonSees[Len(py.answers) + 1]
  BY <1>1, CasesForm DEF PythonSees, Case, TwinInv, Read
<1>3. o \in Answers
  BY OutcomeAnswers
<1>4. /\ o = "applied" => New(py, e)
      /\ o = "duplicate" <=> ~New(py, e) /\ Held(py, e) = e
  BY OutcomeMeans
<1> HIDE DEF e, o
<1>5. DedupInv(After(py, e, o), PythonSees)
  BY <1>2, <1>3, <1>4, DedupStep DEF DedupedInv
<1>6. JavaScriptSees' = JavaScriptSees /\ PythonSees' = PythonSees
  BY <1>1 DEF JavaScriptSees, PythonSees, cases
<1> QED
  BY <1>1, <1>5, <1>6, DedupedPrimed DEF DedupedInv

LEMMA NextDedupedInv == ASSUME DedupedInv, TwinInv, [Next]_vars PROVE DedupedInv'
<1>1. CASE RunValidate
  <2>1. input' = input
    BY <1>1 DEF RunValidate, Validate, ValidateRegistry, RejectWrapper, RejectDuplicate,
                RejectSchema, Examine, EndOfFixtures, CheckCoverage, CheckCommands,
                CheckBindings, GiveVerdict, Admit, Check
  <2> QED
    BY <1>1, <2>1, KeepDedup DEF RunValidate, suite
<1>2. CASE ReceiveInJavaScript
  BY <1>2, JavaScriptDedups
<1>3. CASE ReceiveInPython
  BY <1>3, PythonDedups
<1>4. CASE \/ ValidateExits \/ JavaScriptExits \/ FindInterpreter \/ PythonExits
           \/ RefuseMutatedTrace \/ CheckKeys \/ CheckManifests \/ CheckDecisions
           \/ UNCHANGED vars
  BY <1>4, KeepDedup DEF ValidateExits, JavaScriptExits, FindInterpreter, PythonExits,
                         RefuseMutatedTrace, CheckKeys, CheckManifests, CheckDecisions,
                         documents, vars, suite
<1> QED
  BY <1>1, <1>2, <1>3, <1>4 DEF Next

\* In both languages, whatever the trace says and also where the two read it
\* differently: an identity and an idempotency key are applied once, the answer is
\* "duplicate" exactly for what the consumer reads as an event it has applied,
\* and the counter is the number of cases applied.
THEOREM EachAppliedOnce ==
    Spec => [](Deduplicates(js, JavaScriptSees) /\ Deduplicates(py, PythonSees))
<1>1. Init => TwinInv /\ DedupedInv
  BY InitTwinInv, EmptyDedup DEF Init, DedupedInv
<1>2. TwinInv /\ DedupedInv /\ [Next]_vars => (TwinInv /\ DedupedInv)'
  BY NextTwinInv, NextDedupedInv
<1>3. DedupedInv => Deduplicates(js, JavaScriptSees) /\ Deduplicates(py, PythonSees)
  BY DEF DedupedInv, DedupInv
<1> QED
  BY <1>1, <1>2, <1>3, PTL DEF Spec

LEMMA NextCountInv == ASSUME CountInv, TwinInv, [Next]_vars PROVE CountInv'
<1>1. CASE RunValidate
  BY <1>1 DEF RunValidate, suite, CountInv
<1>2. CASE ValidateExits \/ ReceiveInJavaScript
  BY <1>2 DEF ValidateExits, ReceiveInJavaScript, Continue, CountInv
<1>3. CASE JavaScriptExits
  <2>1. Read(js) = Len(cases)
    BY <1>3, CasesForm DEF JavaScriptExits, More, Read, TwinInv
  <2> QED
    BY <1>3, <2>1 DEF JavaScriptExits, Continue, documents, CountInv, Read, cases
<1>4. CASE \/ FindInterpreter \/ ReceiveInPython \/ PythonExits \/ RefuseMutatedTrace
           \/ CheckKeys \/ CheckManifests \/ CheckDecisions \/ UNCHANGED vars
  <2>1. /\ input' = input /\ js' = js
        /\ \/ script' = script \/ script' = "failed"
           \/ script \in {"interpreter", "python", "mutation", "keys", "manifests", "decisions",
                          "passed"}
    BY <1>4 DEF FindInterpreter, ReceiveInPython, PythonExits, RefuseMutatedTrace, CheckKeys,
                CheckManifests, CheckDecisions, Continue, documents, vars, suite
  <2> QED
    BY <2>1 DEF CountInv, Read, cases
<1> QED
  BY <1>1, <1>2, <1>3, <1>4 DEF Next

\* A trace that the suite passes expects what a consumer owes its callers: each
\* identity and key applied once, "duplicate" exactly for an event that reads
\* in either language as one applied before, so that 1 and 1.0 cannot both
\* stand for a sequence in it, and a count that is that of its applied cases.
THEOREM PassedTraceDeduplicates == Spec => [](script = "passed" => TraceDeduplicates)
<1>1. Init => TwinInv /\ TraceInv /\ DedupedInv /\ CountInv
  BY InitTwinInv, InitTraceInv, EmptyDedup DEF Init, DedupedInv, CountInv
<1>2. TwinInv /\ TraceInv /\ DedupedInv /\ CountInv /\ [Next]_vars
          => (TwinInv /\ TraceInv /\ DedupedInv /\ CountInv)'
  BY NextTwinInv, NextTraceInv, NextDedupedInv, NextCountInv
<1>3. TwinInv /\ TraceInv /\ DedupedInv /\ CountInv => (script = "passed" => TraceDeduplicates)
  <2> SUFFICES ASSUME TwinInv, TraceInv, DedupedInv, CountInv, script = "passed"
               PROVE  TraceDeduplicates
    OBVIOUS
  <2>1. /\ Read(js) = Len(cases) /\ Read(py) = Len(cases) /\ Asserted(js) /\ Asserted(py)
        /\ js.applied = input.trace.expectedAppliedCount
    BY DEF TraceInv, CountInv
  <2>2. DOMAIN js.answers = 1..Len(cases) /\ DOMAIN py.answers = 1..Len(cases)
    BY <2>1 DEF TwinInv, Memory, Read
  <2> DEFINE applied == {i \in 1..Len(cases) : cases[i].expected = "applied"}
  <2>3. Applied(js) = applied /\ Applied(py) = applied
    BY <2>1, <2>2 DEF Applied, Asserted
  <2>4. Deduplicates(py, PythonSees) /\ Deduplicates(js, JavaScriptSees)
    BY DEF DedupedInv, DedupInv
  <2>5. \A i \in 1..Len(cases) :
            PythonSees[i].id = cases[i].event.id /\ KeyOf(PythonSees[i]) = KeyOf(cases[i].event)
    <3> SUFFICES ASSUME NEW i \in 1..Len(cases)
                 PROVE  /\ PythonSees[i].id = cases[i].event.id
                        /\ KeyOf(PythonSees[i]) = KeyOf(cases[i].event)
      OBVIOUS
    <3>1. PythonSees[i] = ReadInPython(cases[i].event)
      BY DEF PythonSees
    <3>2. Given
      BY DEF TwinInv
    <3>3. /\ ReadInPython(cases[i].event).id = cases[i].event.id
          /\ ReadInPython(cases[i].event).key = cases[i].event.key
          /\ ReadInPython(cases[i].event).scope = cases[i].event.scope
      BY <3>2, CasesForm, ReadForm
    <3> QED
      BY <3>1, <3>3 DEF KeyOf
  <2>6. \A i \in applied : i \in 1..Len(cases)
    OBVIOUS
  <2>7. input.trace.expectedAppliedCount = Cardinality(applied)
    BY <2>1, <2>3, <2>4 DEF Deduplicates
  <2>8. \A i, j \in applied :
            i # j => /\ cases[i].event.id # cases[j].event.id
                     /\ KeyOf(cases[i].event) # KeyOf(cases[j].event)
    <3> SUFFICES ASSUME NEW i \in applied, NEW j \in applied, i # j
                 PROVE  /\ cases[i].event.id # cases[j].event.id
                        /\ KeyOf(cases[i].event) # KeyOf(cases[j].event)
      OBVIOUS
    <3>1. /\ PythonSees[i].id = cases[i].event.id /\ PythonSees[j].id = cases[j].event.id
          /\ KeyOf(PythonSees[i]) = KeyOf(cases[i].event)
          /\ KeyOf(PythonSees[j]) = KeyOf(cases[j].event)
      BY <2>5, <2>6
    <3>2. /\ PythonSees[i].id # PythonSees[j].id
          /\ KeyOf(PythonSees[i]) # KeyOf(PythonSees[j])
      BY <2>3, <2>4, Zenon DEF Deduplicates, OnceEach
    <3> QED
      BY <3>1, <3>2
  <2>9. ASSUME NEW sees \in {JavaScriptSees, PythonSees}, NEW i \in 1..Len(cases)
        PROVE  cases[i].expected = "duplicate" <=> \E j \in applied : j < i /\ sees[j] = sees[i]
    <3>1. cases[i].expected = "duplicate" <=> Repeats(py, PythonSees, i)
      BY <2>1, <2>2, <2>4 DEF Deduplicates, Asserted
    <3>2. cases[i].expected = "duplicate" <=> Repeats(js, JavaScriptSees, i)
      BY <2>1, <2>2, <2>4 DEF Deduplicates, Asserted
    <3> QED
      BY <2>3, <3>1, <3>2 DEF Repeats
  <2> HIDE DEF applied
  <2> QED
    BY <2>7, <2>8, <2>9 DEF TraceDeduplicates, applied
<1> QED
  BY <1>1, <1>2, <1>3, PTL DEF Spec

----------------------------------------------------------------------------
\* The controls of every case have values that the oracle knows, and a critical
\* service is of that criticality.
KnownControls ==
    \A case \in ToSet(input.decisions) :
        /\ case.context.policy \in {"allow", "deny", "timeout"}
        /\ case.context.capability \in {"fresh", "stale", "revoked"}
        /\ Decided(case).workloadClass = "critical_service" => Decided(case).criticality = "critical"

CriticalStaysLocal ==
    \A case \in ToSet(input.decisions) :
        (Decided(case).criticality = "critical" /\ case.expected.disposition = "eligible")
            => case.context.scope = "production_local"

\* A decision that the suite passes places no workload of criticality critical
\* anywhere but on local production (test-classification-decision-cases.mjs line
\* 39); values that the oracle does not know, and a critical service of another
\* criticality, are the only ways in which HardControlsHold fails.
THEOREM KnownControlsHold ==
    Spec => []((script = "passed" => CriticalStaysLocal) /\ (KnownControls => HardControlsHold))
<1>1. Init => LastInv
  BY DEF Init, Open, LastInv, Given
<1>2. LastInv /\ DInv /\ [Next]_vars => LastInv'
  BY NextLastInv
<1>3. LastInv => (script = "passed" => CriticalStaysLocal) /\ (KnownControls => HardControlsHold)
  <2> SUFFICES ASSUME LastInv, script = "passed"
               PROVE  CriticalStaysLocal /\ (KnownControls => HardControlsHold)
    BY DEF HardControlsHold
  <2>1. ASSUME NEW case \in ToSet(input.decisions), case.expected.disposition = "eligible"
        PROVE  /\ Decided(case).criticality = "critical" => case.context.scope = "production_local"
               /\ case.context.policy \notin {"deny", "timeout"}
               /\ case.context.capability \notin {"stale", "revoked"}
    <3>1. CaseSound(input.manifest, case)
      BY <2>1 DEF LastInv, SuiteSound, ToSet
    <3>2. case.expected = ExpectedDecision(Decided(case), case.context)
      BY <3>1 DEF CaseSound, Decided
    <3> QED
      BY <2>1, <3>2, FirstRefusal DEF Refused
  <2>2. CriticalStaysLocal
    BY <2>1 DEF CriticalStaysLocal
  <2>3. KnownControls => HardControlsHold
    BY <2>1 DEF KnownControls, HardControlsHold, ControlsHold
  <2> QED
    BY <2>2, <2>3
<1> QED
  BY <1>1, <1>2, <1>3, DInvHolds, PTL DEF Spec

=============================================================================
