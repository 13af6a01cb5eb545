---------------------- MODULE LifecycleValidatorProofs ----------------------
(***************************************************************************)
(* The reachability loop of the lifecycle validator, for tables of any     *)
(* size with their transitions in any order, and the validator's verdict,  *)
(* for any number of tables and cases.                                     *)
(***************************************************************************)
EXTENDS LifecycleValidator, FiniteSetTheorems, TLAPS

InTable == pc \in {"states", "transitions", "scan"}

\* What the loop has found is reachable, the initial states are among it, and
\* if this scan has added nothing, what it has passed leads nowhere else.
ScanInv ==
    pc = "scan" =>
        /\ m.initial \subseteq reachable
        /\ \A set \in SUBSET States :
             (m.initial \subseteq set /\ Closed(m, set)) => reachable \subseteq set
        /\ ~changed => \A i \in 1..Len(m.transitions) : i < next =>
             (m.transitions[i].from \in reachable => m.transitions[i].to \in reachable)

VInv == TypeOK /\ ScanInv

----------------------------------------------------------------------------
(* What the validator reads has the form of the input. *)
LEMMA InputForm ==
    ASSUME TypeOK
    PROVE  /\ Len(input.files) \in Nat /\ Len(input.cases) \in Nat
           /\ \A k \in 1..Len(input.files) : input.files[k] \in Machine
           /\ \A n \in 1..Len(input.cases) : input.cases[n] \in Case
<1>1. input \in Input
  BY InputAssumption DEF TypeOK
<1>2. input.files \in Seq(Machine) /\ input.cases \in Seq(Case)
  BY <1>1 DEF Input
<1> QED
  BY <1>2

LEMMA TableForm ==
    ASSUME TypeOK, file <= Len(input.files)
    PROVE  /\ file \in 1..Len(input.files) /\ file + 1 \in 1..(Len(input.files) + 1)
           /\ m \in Machine /\ m.id \in MachineIds
           /\ m.initial \in SUBSET States /\ Len(m.transitions) \in Nat
           /\ \A i \in 1..Len(m.transitions) : m.transitions[i] \in Transition
<1>1. file \in 1..(Len(input.files) + 1)
  BY DEF TypeOK
<1>2. file \in 1..Len(input.files) /\ file + 1 \in 1..(Len(input.files) + 1)
  BY <1>1, InputForm
<1>3. m \in Machine
  BY <1>2, InputForm DEF m
<1>4. m.transitions \in Seq(Transition) /\ m.id \in MachineIds /\ m.initial \in SUBSET States
  BY <1>3 DEF Machine
<1> QED
  BY <1>2, <1>3, <1>4

LEMMA InitVInv == Init => VInv
<1> SUFFICES ASSUME Init PROVE VInv
  OBVIOUS
<1>1. input \in Input
  BY InputAssumption DEF Init
<1>2. Len(input.files) \in Nat
  BY <1>1 DEF Input
<1>3. TypeOK
  <2>1. file \in 1..(Len(input.files) + 1) /\ next \in Nat \ {0}
    BY <1>2 DEF Init
  <2>2. changed \in BOOLEAN
    BY Zenon DEF Init
  <2>3. /\ machinesById \in [MachineIds -> {None} \cup Machine]
        /\ coverage \in [MachineIds -> SUBSET Kinds]
    BY DEF Init
  <2> QED
    BY <2>1, <2>2, <2>3 DEF Init, TypeOK
<1>4. ScanInv
  BY DEF Init, ScanInv
<1> QED
  BY <1>3, <1>4 DEF VInv

----------------------------------------------------------------------------
(* Each step keeps the types. *)
LEMMA NextTypeOK == ASSUME VInv, Next PROVE TypeOK'
<1>0. TypeOK
  BY DEF VInv
<1>n. next + 1 \in Nat \ {0} /\ 1 \in Nat \ {0}
  BY <1>0 DEF TypeOK
<1> USE <1>0, <1>n DEF table, suite
<1>1. ASSUME ReadMalformed PROVE TypeOK'
  BY <1>1, TableForm DEF ReadMalformed, TypeOK, m
<1>2. ASSUME ReadMachine PROVE TypeOK'
  <2>1. m.id \in MachineIds /\ m \in Machine
    BY <1>2, TableForm DEF ReadMachine
  <2>2. machinesById' \in [MachineIds -> {None} \cup Machine]
    BY <1>2, <2>1 DEF ReadMachine, TypeOK
  <2>3. CASE m.enum = None
    BY <1>2, <2>2, <2>3, TableForm DEF ReadMachine, TypeOK
  <2>4. CASE m.enum # None
    <3>1. m' = m /\ file <= Len(input.files) /\ m.wellFormed /\ pc' = "states"
      BY <1>2, <2>4 DEF ReadMachine, m
    <3>2. UNCHANGED <<input, file, next, keys, reachable, changed, suite>>
      BY <1>2, <2>4 DEF ReadMachine
    <3> QED
      BY <2>2, <2>4, <3>1, <3>2 DEF TypeOK
  <2> QED
    BY <2>3, <2>4
<1>3. ASSUME CheckStates PROVE TypeOK'
  BY <1>3 DEF CheckStates, TypeOK, m
<1>4. ASSUME CheckTransition PROVE TypeOK'
  <2>0. file <= Len(input.files) /\ next \in Nat \ {0} /\ next <= Len(m.transitions)
    BY <1>4 DEF CheckTransition, TypeOK
  <2>1. m.transitions[next] \in Transition
    BY <2>0, TableForm
  <2>2. Key(m.transitions[next]) \in States \X Actions \X States
    BY <2>1 DEF Transition, Key
  <2>3. keys' \subseteq States \X Actions \X States
    BY <1>4, <2>2 DEF CheckTransition, TypeOK
  <2>4. m' = m
    BY <1>4 DEF CheckTransition, m
  <2> QED
    BY <1>4, <2>3, <2>4 DEF CheckTransition, TypeOK
<1>5. ASSUME StartScan PROVE TypeOK'
  <2>1. m.initial \subseteq States
    BY <1>5, TableForm DEF StartScan, TypeOK
  <2>2. m' = m
    BY <1>5 DEF StartScan, m
  <2>3. changed' \in BOOLEAN
    BY <1>5, Zenon DEF StartScan
  <2> QED
    BY <1>5, <2>1, <2>2, <2>3 DEF StartScan, TypeOK
<1>6. ASSUME ScanTransition PROVE TypeOK'
  <2>0. file <= Len(input.files) /\ next \in Nat \ {0} /\ next <= Len(m.transitions)
    BY <1>6 DEF ScanTransition, TypeOK
  <2>1. m.transitions[next] \in Transition
    BY <2>0, TableForm
  <2>2. reachable' \subseteq States
    BY <1>6, <2>1 DEF ScanTransition, TypeOK, Transition
  <2>3. changed' = TRUE \/ changed' = changed
    BY <1>6, Zenon DEF ScanTransition
  <2>4. changed' \in BOOLEAN
    BY <2>3, Zenon DEF TypeOK
  <2>5. m' = m /\ pc' = pc /\ next' = next + 1
    BY <1>6 DEF ScanTransition, m
  <2>6. UNCHANGED <<input, file, keys, machinesById, suite>>
    BY <1>6 DEF ScanTransition
  <2> QED
    BY <2>2, <2>4, <2>5, <2>6 DEF TypeOK
<1>7. ASSUME ScanAgain PROVE TypeOK'
  <2>1. m' = m
    BY <1>7 DEF ScanAgain, m
  <2>2. changed' \in BOOLEAN
    BY <1>7, Zenon DEF ScanAgain
  <2>3. UNCHANGED <<input, pc, file, keys, reachable, machinesById, suite>> /\ next' = 1
    BY <1>7 DEF ScanAgain
  <2> QED
    BY <2>1, <2>2, <2>3 DEF TypeOK
<1>8. ASSUME CheckReachable PROVE TypeOK'
  BY <1>8, TableForm DEF CheckReachable, TypeOK
<1>9. ASSUME ReadCases PROVE TypeOK'
  <2>1. pc' \in {"cases", "verdict"}
    BY <1>9 DEF ReadCases
  <2> QED
    BY <1>9, <2>1 DEF ReadCases, TypeOK
<1>10. ASSUME CheckCase PROVE TypeOK'
  <2>0. next \in Nat \ {0} /\ next <= Len(input.cases)
    BY <1>10 DEF CheckCase, TypeOK
  <2>1. input.cases[next] \in Case
    BY <2>0, InputForm
  <2>2. /\ input.cases[next].id \in CaseIds /\ input.cases[next].kind \in Kinds
        /\ input.cases[next].machine \in MachineIds
    BY <2>1 DEF Case
  <2>3. caseIds' \subseteq CaseIds
    BY <1>10, <2>2 DEF CheckCase, TypeOK
  <2>4. coverage' \in [MachineIds -> SUBSET Kinds]
    <3>1. \/ coverage' = coverage
          \/ coverage' = [coverage EXCEPT ![input.cases[next].machine]
                                            = @ \cup {input.cases[next].kind}]
      BY <1>10 DEF CheckCase
    <3> QED
      BY <3>1, <2>2 DEF TypeOK
  <2>5. m' = m /\ next' = next + 1 /\ UNCHANGED <<input, pc, table>>
    BY <1>10 DEF CheckCase, m
  <2> QED
    BY <2>3, <2>4, <2>5 DEF TypeOK
<1>11. ASSUME CheckCoverage \/ GiveVerdict PROVE TypeOK'
  <2>1. pc' \in {"verdict", "accepted", "rejected"}
    BY <1>11 DEF CheckCoverage, GiveVerdict
  <2>2. UNCHANGED <<input, next, table, suite>>
    BY <1>11 DEF CheckCoverage, GiveVerdict
  <2> QED
    BY <2>1, <2>2 DEF TypeOK
<1> QED
  BY <1>1, <1>2, <1>3, <1>4, <1>5, <1>6, <1>7, <1>8, <1>9, <1>10, <1>11 DEF Next

----------------------------------------------------------------------------
(* Each step keeps the invariant of the loop. *)
LEMMA ScanSteps == ASSUME VInv, ScanTransition PROVE ScanInv'
<1>0. TypeOK /\ ScanInv /\ pc = "scan"
  BY DEF VInv, ScanTransition
<1>1. m' = m /\ next' = next + 1
  BY DEF ScanTransition, m
<1> DEFINE t == m.transitions[next]
<1>2. t \in Transition /\ next \in 1..Len(m.transitions) /\ Len(m.transitions) \in Nat
  BY <1>0, TableForm DEF ScanTransition, TypeOK
<1>3. CASE t.from \in reachable /\ t.to \notin reachable
  <2>1. reachable' = reachable \cup {t.to} /\ changed'
    BY <1>3 DEF ScanTransition
  <2>2. ASSUME NEW set \in SUBSET States, m.initial \subseteq set, Closed(m, set)
        PROVE  reachable' \subseteq set
    <3>1. reachable \subseteq set
      BY <1>0, <2>2 DEF ScanInv
    <3>2. t.to \in set
      BY <1>2, <1>3, <2>2, <3>1 DEF Closed
    <3> QED
      BY <2>1, <3>1, <3>2
  <2> QED
    BY <1>0, <1>1, <2>1, <2>2 DEF ScanInv, Closed
<1>4. CASE ~(t.from \in reachable /\ t.to \notin reachable)
  <2>1. reachable' = reachable /\ (changed' = changed)
    BY <1>4, Zenon DEF ScanTransition
  <2>2. ASSUME ~changed, NEW i \in 1..Len(m.transitions), i < next',
               m.transitions[i].from \in reachable
        PROVE  m.transitions[i].to \in reachable
    <3>1. i < next \/ i = next
      BY <1>1, <1>2, <2>2
    <3>2. CASE i < next
      BY <1>0, <2>2, <3>2 DEF ScanInv
    <3>3. CASE i = next
      BY <1>4, <2>2, <3>3
    <3> QED
      BY <3>1, <3>2, <3>3
  <2>3. /\ m.initial \subseteq reachable
        /\ \A set \in SUBSET States :
             (m.initial \subseteq set /\ Closed(m, set)) => reachable \subseteq set
    BY <1>0 DEF ScanInv
  <2> QED
    BY <1>1, <2>1, <2>2, <2>3 DEF ScanInv, Closed
<1> QED
  BY <1>3, <1>4

LEMMA NextScanInv == ASSUME VInv, Next PROVE ScanInv'
<1>0. TypeOK /\ ScanInv
  BY DEF VInv
<1>1. CASE StartScan
  <2>1. m' = m /\ next' = 1 /\ reachable' = m.initial /\ pc = "transitions"
    BY <1>1 DEF StartScan, m
  <2>2. Len(m.transitions) \in Nat
    BY <1>0, <2>1, TableForm DEF TypeOK
  <2> QED
    BY <2>1, <2>2 DEF ScanInv, Closed
<1>2. CASE ScanTransition
  BY <1>2, ScanSteps
<1>3. CASE ScanAgain
  <2>1. m' = m /\ next' = 1 /\ reachable' = reachable /\ pc = "scan"
    BY <1>3 DEF ScanAgain, m
  <2>2. Len(m.transitions) \in Nat
    BY <1>0, <2>1, TableForm DEF TypeOK
  <2>3. /\ m.initial \subseteq reachable
        /\ \A set \in SUBSET States :
             (m.initial \subseteq set /\ Closed(m, set)) => reachable \subseteq set
    BY <1>0, <2>1 DEF ScanInv
  <2> QED
    BY <2>1, <2>2, <2>3 DEF ScanInv, Closed
<1>4. CASE ~(StartScan \/ ScanTransition \/ ScanAgain)
  <2>1. pc' # "scan"
    BY <1>4 DEF Next, ReadMalformed, ReadMachine, CheckStates, CheckTransition,
                CheckReachable, ReadCases, CheckCase, CheckCoverage, GiveVerdict
  <2> QED
    BY <2>1 DEF ScanInv
<1> QED
  BY <1>1, <1>2, <1>3, <1>4

LEMMA StutterVInv == ASSUME VInv, UNCHANGED vars PROVE VInv'
<1>1. /\ UNCHANGED <<input, pc, file, next, keys, reachable, changed>>
      /\ UNCHANGED <<machinesById, caseIds, coverage, failures>>
  BY DEF vars, table, suite
<1>2. m' = m
  BY <1>1 DEF m
<1>3. TypeOK'
  BY <1>1, <1>2 DEF VInv, TypeOK
<1>4. ScanInv'
  BY <1>1, <1>2 DEF VInv, ScanInv, Closed
<1> QED
  BY <1>3, <1>4 DEF VInv

----------------------------------------------------------------------------
\* The inductive invariant holds in every run of the validator, for every set
\* of inputs of the form the two schemas admit.
THEOREM ValidatorInvariant == Spec => []VInv
<1>1. VInv /\ [Next]_vars => VInv'
  BY NextTypeOK, NextScanInv, StutterVInv DEF VInv
<1> QED
  BY InitVInv, <1>1, PTL DEF Spec

\* The validator's variables always have their types; in particular it works
\* on a table only between the schema check that lets it through and the end
\* of its reachability loop (lines 309-363).
THEOREM ValidatorTypeCorrectness == Spec => []TypeOK
<1>1. VInv => TypeOK
  BY DEF VInv
<1> QED
  BY ValidatorInvariant, <1>1, PTL

\* What the loop has found when it ends.
LEMMA ScanEnds ==
    ASSUME VInv, pc = "scan", next > Len(m.transitions), ~changed
    PROVE  reachable = Reachable(m)
<1>1. TypeOK /\ ScanInv
  BY DEF VInv
<1>2. Len(m.transitions) \in Nat /\ next \in Nat
  BY <1>1, TableForm DEF TypeOK
<1>3. \A i \in 1..Len(m.transitions) : i < next
  BY <1>2
<1>4. Closed(m, reachable)
  BY <1>1, <1>3 DEF ScanInv, Closed
<1>5. reachable \in SUBSET States /\ m.initial \subseteq reachable
  BY <1>1 DEF TypeOK, ScanInv
<1>6. reachable \subseteq Reachable(m)
  BY <1>1, <1>5 DEF ScanInv, Reachable
<1>7. Reachable(m) \subseteq reachable
  BY <1>4, <1>5 DEF Reachable
<1> QED
  BY <1>6, <1>7

\* When the loop of lines 352-360 ends it has found exactly the states that can
\* be reached, for a table of any size with its transitions in any order: a
\* scan that adds nothing has looked at every transition with the final set.
THEOREM LoopFindsTheReachable == Spec => []FindsTheReachable
<1>1. VInv => FindsTheReachable
  BY ScanEnds DEF FindsTheReachable
<1> QED
  BY ValidatorInvariant, <1>1, PTL

----------------------------------------------------------------------------
(* The verdict. *)
Good == GoodTables /\ GoodCases /\ BothKinds

GoodStates(machine) ==
    /\ machine.states = machine.enum
    /\ machine.initial \cup machine.terminal \subseteq machine.states

GoodTransition(machine, i) ==
    /\ machine.transitions[i].from \in machine.states \ machine.terminal
    /\ machine.transitions[i].to \in machine.states
    /\ \A j \in 1..(i - 1) :
         Key(machine.transitions[i]) # Key(machine.transitions[j])

\* The tables that the validator has entered into machinesById so far.
Entered(i) == i < file \/ (i = file /\ InTable)

\* An entry is a table with its id, and no table that has been entered is lost.
EntriesInv ==
    /\ \A i \in 1..Len(input.files) :
         Entered(i) /\ input.files[i].wellFormed => machinesById[input.files[i].id] # None
    /\ \A id \in MachineIds : machinesById[id] # None =>
         \E i \in 1..Len(input.files) :
            /\ Entered(i) /\ input.files[i].id = id
            /\ machinesById[id] = input.files[i]

\* Without a failure, the tables read so far are good and their ids distinct,
TablesInv ==
    failures = {} =>
        \A i \in 1..Len(input.files) :
           /\ i < file => GoodTable(input.files[i])
           /\ Entered(i) => \A j \in 1..(i - 1) : input.files[i].id # input.files[j].id

\* and so is what has been looked at of the table in hand.
TableInv ==
    /\ pc \in {"transitions", "scan"} /\ failures = {} => GoodStates(m)
    /\ pc = "transitions" =>
         /\ \A k \in keys : \E i \in 1..Len(m.transitions) :
               i < next /\ k = Key(m.transitions[i])
         /\ \A i \in 1..Len(m.transitions) : i < next => Key(m.transitions[i]) \in keys
    /\ pc \in {"transitions", "scan"} /\ failures = {} =>
         \A i \in 1..Len(m.transitions) :
            (i < next \/ pc = "scan") => GoodTransition(m, i)

\* Ids and coverage are those of the cases replayed so far, and without a
\* failure these cases are good.
CasesInv ==
    /\ InTable \/ pc = "tables" => caseIds = {} /\ coverage = [i \in MachineIds |-> {}]
    /\ pc = "cases" =>
         /\ file > Len(input.files) /\ input.casesWellFormed
         /\ \A id \in caseIds : \E n \in 1..Len(input.cases) :
               n < next /\ input.cases[n].id = id
         /\ \A n \in 1..Len(input.cases) : n < next => input.cases[n].id \in caseIds
         /\ \A i \in MachineIds : \A kind \in coverage[i] :
               \E n \in 1..Len(input.cases) :
                  n < next /\ input.cases[n].machine = i /\ input.cases[n].kind = kind
         /\ \A n \in 1..Len(input.cases) :
               n < next /\ machinesById[input.cases[n].machine] # None
                  => input.cases[n].kind \in coverage[input.cases[n].machine]
         /\ failures = {} => \A n \in 1..Len(input.cases) : n < next =>
               /\ GoodCase(input.cases[n])
               /\ \A k \in 1..(n - 1) : input.cases[n].id # input.cases[k].id

\* A failure means a defect, and at the end no failure means none.
OutcomeInv ==
    /\ failures # {} => ~Good
    /\ pc \in {"verdict", "accepted", "rejected"} /\ failures = {} => Good
    /\ pc = "accepted" => failures = {}
    /\ pc = "rejected" => failures # {}

WInv == EntriesInv /\ TablesInv /\ TableInv /\ CasesInv /\ OutcomeInv

----------------------------------------------------------------------------
LEMMA FailureIf ==
    ASSUME NEW c \in BOOLEAN, NEW k
    PROVE  /\ c => Failure(c, k) = {k}
           /\ ~c => Failure(c, k) = {}
BY Zenon DEF Failure

LEMMA SameGood == ASSUME UNCHANGED input PROVE Good' <=> Good
BY DEF Good, GoodTables, GoodCases, GoodCase, BothKinds, CaseOf

LEMMA SameEntries ==
    ASSUME EntriesInv, UNCHANGED <<input, file, machinesById>>, InTable' <=> InTable
    PROVE  EntriesInv'
BY DEF EntriesInv, Entered

LEMMA SameTables ==
    ASSUME TablesInv, UNCHANGED <<input, file>>, InTable' <=> InTable,
           failures' = {} => failures = {}
    PROVE  TablesInv'
BY DEF TablesInv, Entered

LEMMA SameFresh ==
    ASSUME CasesInv, InTable \/ pc = "tables", pc' # "cases", UNCHANGED suite
    PROVE  CasesInv'
BY DEF CasesInv, suite

LEMMA SameOutcome ==
    ASSUME OutcomeInv, UNCHANGED <<input, failures>>,
           pc' \notin {"verdict", "accepted", "rejected"}
    PROVE  OutcomeInv'
BY SameGood DEF OutcomeInv

LEMMA WorseOutcome ==
    ASSUME UNCHANGED input, ~Good, pc' \notin {"accepted", "rejected"}, failures' # {}
    PROVE  OutcomeInv'
BY SameGood DEF OutcomeInv

----------------------------------------------------------------------------
LEMMA TableSays ==
    ASSUME NEW k \in 1..Len(input.files), GoodTables
    PROVE  /\ input.files[k].wellFormed /\ input.files[k].enum # None
           /\ GoodStates(input.files[k])
           /\ \A i \in 1..Len(input.files[k].transitions) :
                 GoodTransition(input.files[k], i)
           /\ input.files[k].states \subseteq Reachable(input.files[k])
           /\ \A j \in 1..(k - 1) : input.files[k].id # input.files[j].id
BY DEF GoodTables, GoodTable, GoodStates, GoodTransition

LEMMA ReadMalformedKeeps == ASSUME TypeOK, WInv, ReadMalformed PROVE WInv'
<1>1. /\ UNCHANGED <<input, pc, machinesById, suite>> /\ pc = "tables"
      /\ file' = file + 1 /\ failures' # {} /\ file <= Len(input.files) /\ ~m.wellFormed
  BY DEF ReadMalformed
<1>2. file \in 1..Len(input.files) /\ Len(input.files) \in Nat
  BY <1>1, TableForm, InputForm
<1>3. EntriesInv'
  <2>1. \A i \in 1..Len(input.files) : Entered(i)' <=> (Entered(i) \/ i = file)
    BY <1>1, <1>2 DEF Entered, InTable
  <2> QED
    BY <1>1, <2>1 DEF WInv, EntriesInv, m
<1>4. ~Good
  BY <1>1, <1>2, TableSays DEF Good, m
<1>5. TablesInv' /\ TableInv'
  BY <1>1 DEF TablesInv, TableInv
<1>6. CasesInv'
  BY <1>1, SameFresh DEF WInv
<1>7. OutcomeInv'
  BY <1>1, <1>4, WorseOutcome
<1> QED
  BY <1>3, <1>5, <1>6, <1>7 DEF WInv

LEMMA ReadMachineKeeps == ASSUME TypeOK, WInv, ReadMachine PROVE WInv'
<1>1. /\ UNCHANGED <<input, keys, suite>> /\ pc = "tables"
      /\ file <= Len(input.files) /\ m.wellFormed
      /\ machinesById' = [machinesById EXCEPT ![m.id] = m]
      /\ failures' = failures \cup Failure(machinesById[m.id] # None, "duplicate machine")
                              \cup Failure(m.enum = None, "no enum")
      /\ m.enum = None => file' = file + 1 /\ pc' = pc
      /\ m.enum # None => file' = file /\ pc' = "states"
  BY Zenon DEF ReadMachine
<1>2. /\ file \in 1..Len(input.files) /\ Len(input.files) \in Nat
      /\ m.id \in MachineIds /\ m # None
  BY <1>1, TableForm, InputForm, AbsenceAssumption DEF m, TypeOK
<1>b. (file' = file + 1 /\ pc' = "tables") \/ (file' = file /\ pc' = "states")
  BY <1>1
<1>c. file \in Nat /\ pc = "tables"
  <2>1. file \in Nat
    BY <1>2
  <2> QED
    BY <1>1, <2>1
<1>3. \A i \in 1..Len(input.files) : Entered(i)' <=> (Entered(i) \/ i = file)
  BY <1>2, <1>b, <1>c DEF Entered, InTable
<1>a. \A i \in 1..Len(input.files) : Entered(i) <=> i < file
  BY <1>1, <1>2 DEF Entered, InTable
<1>4. /\ machinesById'[m.id] = m
      /\ \A id \in MachineIds : id # m.id => machinesById'[id] = machinesById[id]
  BY <1>1, <1>2 DEF TypeOK
<1>5. EntriesInv'
  <2>1. ASSUME NEW i \in 1..Len(input.files), Entered(i)', input.files[i].wellFormed
        PROVE  machinesById'[input.files[i].id] # None
    <3>1. input.files[i].id \in MachineIds
      BY InputForm DEF Machine
    <3>2. CASE input.files[i].id = m.id
      BY <1>2, <1>4, <3>2
    <3>3. CASE input.files[i].id # m.id
      BY <1>3, <1>4, <2>1, <3>1, <3>3 DEF WInv, EntriesInv, m
    <3> QED
      BY <3>2, <3>3
  <2>2. ASSUME NEW id \in MachineIds, machinesById'[id] # None
        PROVE  \E i \in 1..Len(input.files) :
                  /\ Entered(i)' /\ input.files[i].id = id
                  /\ machinesById'[id] = input.files[i]
    <3>1. CASE id = m.id
      BY <1>2, <1>3, <1>4, <3>1 DEF m
    <3>2. CASE id # m.id
      BY <1>3, <1>4, <2>2, <3>2 DEF WInv, EntriesInv
    <3> QED
      BY <3>1, <3>2
  <2>3. input' = input
    BY <1>1
  <2> QED
    BY <2>1, <2>2, <2>3 DEF EntriesInv
<1>6. machinesById[m.id] # None => ~Good
  <2> SUFFICES ASSUME machinesById[m.id] # None PROVE ~Good
    OBVIOUS
  <2>1. PICK i \in 1..Len(input.files) : Entered(i) /\ input.files[i].id = m.id
    BY <1>2 DEF WInv, EntriesInv
  <2>2. i \in 1..(file - 1)
    BY <1>2, <1>a, <2>1
  <2> QED
    BY <1>2, <2>1, <2>2, TableSays DEF Good, m
<1>7. m.enum = None => ~Good
  BY <1>2, TableSays DEF Good, m
<1>8. /\ failures' = {} => failures = {} /\ machinesById[m.id] = None /\ m.enum # None
      /\ machinesById[m.id] = None /\ m.enum # None => failures' = failures
  BY <1>1, FailureIf
<1>9. TablesInv'
  <2> SUFFICES ASSUME failures' = {}, NEW i \in 1..Len(input.files)
               PROVE  /\ i < file => GoodTable(input.files[i])
                      /\ i <= file => \A j \in 1..(i - 1) :
                            input.files[i].id # input.files[j].id
    <3>1. input' = input
      BY <1>1
    <3>2. failures' = {} => file' = file
      BY <1>1, <1>8
    <3>3. \A i \in 1..Len(input.files) : Entered(i)' <=> i <= file
      BY <1>2, <1>3, <1>a
    <3> QED
      BY <3>1, <3>2, <3>3 DEF TablesInv
  <2>1. failures = {} /\ machinesById[m.id] = None
    BY <1>8
  <2>2. i < file => GoodTable(input.files[i])
    BY <2>1 DEF WInv, TablesInv
  <2>3. CASE i < file
    BY <1>a, <2>1, <2>3 DEF WInv, TablesInv
  <2>4. CASE i = file
    <3> SUFFICES ASSUME NEW j \in 1..(file - 1) PROVE input.files[j].id # m.id
      BY <2>4 DEF m
    <3>1. j \in 1..Len(input.files) /\ j < file
      BY <1>2
    <3>2. GoodTable(input.files[j]) /\ Entered(j)
      BY <1>a, <2>1, <3>1 DEF WInv, TablesInv
    <3>3. machinesById[input.files[j].id] # None
      BY <3>1, <3>2 DEF WInv, EntriesInv, GoodTable
    <3> QED
      BY <2>1, <3>3
  <2> QED
    BY <1>2, <2>2, <2>3, <2>4
<1>10. TableInv'
  BY <1>1 DEF TableInv
<1>11. pc' \in {"tables", "states"}
  BY <1>1
<1>12. CasesInv'
  BY <1>1, <1>11, SameFresh DEF WInv
<1>13. OutcomeInv'
  <2>1. CASE machinesById[m.id] # None \/ m.enum = None
    BY <1>1, <1>6, <1>7, <1>8, <1>11, <2>1, WorseOutcome
  <2>2. CASE machinesById[m.id] = None /\ m.enum # None
    BY <1>1, <1>8, <1>11, <2>2, SameOutcome DEF WInv
  <2> QED
    BY <2>1, <2>2
<1> QED
  BY <1>5, <1>9, <1>10, <1>12, <1>13 DEF WInv

LEMMA CheckStatesKeeps == ASSUME TypeOK, WInv, CheckStates PROVE WInv'
<1>1. /\ UNCHANGED <<input, file, machinesById, suite>> /\ pc = "states"
      /\ pc' = "transitions" /\ next' = 1 /\ keys' = {}
      /\ failures' = failures
           \cup Failure(m.states # m.enum, "enum differs")
           \cup Failure(~(m.initial \cup m.terminal \subseteq m.states),
                        "undeclared initial or terminal")
  BY DEF CheckStates
<1>2. file \in 1..Len(input.files) /\ Len(m.transitions) \in Nat /\ m' = m
  BY <1>1, TableForm DEF TypeOK, m
<1>3. (InTable' <=> InTable) /\ InTable
  BY <1>1 DEF InTable
<1>4. /\ failures' = {} => failures = {} /\ GoodStates(m)
      /\ GoodStates(m) => failures' = failures
  BY <1>1, FailureIf DEF GoodStates
<1>5. EntriesInv' /\ TablesInv'
  BY <1>1, <1>3, <1>4, SameEntries, SameTables DEF WInv
<1>6. TableInv'
  <2>1. pc' = "transitions" /\ next' = 1 /\ keys' = {} /\ m' = m
    BY <1>1, <1>2
  <2>2. \A i \in 1..Len(m.transitions) : ~(i < 1)
    BY <1>2
  <2>3. failures' = {} => GoodStates(m)
    BY <1>4
  <2> QED
    BY <2>1, <2>2, <2>3 DEF TableInv
<1>7. CasesInv'
  BY <1>1, <1>3, SameFresh DEF WInv
<1>8. OutcomeInv'
  <2>1. CASE GoodStates(m)
    BY <1>1, <1>4, <2>1, SameOutcome DEF WInv
  <2>2. CASE ~GoodStates(m)
    <3>1. ~Good
      BY <1>2, <2>2, TableSays DEF Good, m
    <3> QED
      BY <1>1, <1>4, <2>2, <3>1, WorseOutcome
  <2> QED
    BY <2>1, <2>2
<1> QED
  BY <1>5, <1>6, <1>7, <1>8 DEF WInv

LEMMA CheckTransitionKeeps == ASSUME TypeOK, WInv, CheckTransition PROVE WInv'
<1> DEFINE t == m.transitions[next]
<1>1. /\ UNCHANGED <<input, pc, file, machinesById, suite>> /\ pc = "transitions"
      /\ next <= Len(m.transitions) /\ next' = next + 1 /\ keys' = keys \cup {Key(t)}
      /\ failures' = failures
           \cup Failure(~({t.from, t.to} \subseteq m.states), "undeclared state")
           \cup Failure(t.from \in m.terminal, "terminal has outbound")
           \cup Failure(Key(t) \in keys, "duplicate transition")
  BY DEF CheckTransition
<1>a. /\ UNCHANGED <<input, pc, file, machinesById, suite>> /\ pc = "transitions"
      /\ next' = next + 1 /\ keys' = keys \cup {Key(t)}
  BY <1>1
<1>2. /\ file \in 1..Len(input.files) /\ Len(m.transitions) \in Nat /\ m' = m
      /\ next \in 1..Len(m.transitions)
  <2>1. file <= Len(input.files) /\ next \in Nat \ {0} /\ next <= Len(m.transitions)
    BY <1>1 DEF TypeOK
  <2>2. m' = m
    BY <1>1 DEF m
  <2> QED
    BY <2>1, <2>2, TableForm
<1>3. (InTable' <=> InTable) /\ InTable
  BY <1>1 DEF InTable
<1>4. Key(t) \in keys <=> \E j \in 1..(next - 1) : Key(t) = Key(m.transitions[j])
  <2>1. /\ \A k \in keys : \E i \in 1..Len(m.transitions) :
               i < next /\ k = Key(m.transitions[i])
        /\ \A i \in 1..Len(m.transitions) : i < next => Key(m.transitions[i]) \in keys
    BY <1>a DEF WInv, TableInv
  <2>2. \A i : i \in 1..(next - 1) <=> i \in 1..Len(m.transitions) /\ i < next
    BY <1>2
  <2> HIDE DEF t
  <2> QED
    BY <2>1, <2>2
<1>5. /\ failures' = {} => failures = {} /\ GoodTransition(m, next)
      /\ GoodTransition(m, next) => failures' = failures
  <2>1. GoodTransition(m, next) <=>
          /\ {t.from, t.to} \subseteq m.states
          /\ ~(t.from \in m.terminal)
          /\ ~(Key(t) \in keys)
    BY <1>4 DEF GoodTransition
  <2> DEFINE f1 == Failure(~({t.from, t.to} \subseteq m.states), "undeclared state")
             f2 == Failure(t.from \in m.terminal, "terminal has outbound")
             f3 == Failure(Key(t) \in keys, "duplicate transition")
  <2>2. f1 = {} <=> {t.from, t.to} \subseteq m.states
    BY FailureIf
  <2>3. f2 = {} <=> ~(t.from \in m.terminal)
    BY DEF Failure
  <2>4. f3 = {} <=> ~(Key(t) \in keys)
    BY DEF Failure
  <2>5. failures' = failures \cup f1 \cup f2 \cup f3
    BY <1>1
  <2> HIDE DEF t, f1, f2, f3
  <2> QED
    BY <2>1, <2>2, <2>3, <2>4, <2>5
<1>6. EntriesInv' /\ TablesInv'
  BY <1>1, <1>3, <1>5, SameEntries, SameTables DEF WInv
<1>7. TableInv'
  <2>1. \A k \in keys' : \E i \in 1..Len(m.transitions) :
           i < next + 1 /\ k = Key(m.transitions[i])
    <3>1. \A k \in keys : \E i \in 1..Len(m.transitions) :
             i < next /\ k = Key(m.transitions[i])
      BY <1>a DEF WInv, TableInv
    <3> QED
      BY <1>a, <1>2, <3>1
  <2>2. \A i \in 1..Len(m.transitions) : i < next + 1 => Key(m.transitions[i]) \in keys'
    <3>1. \A i \in 1..Len(m.transitions) : i < next => Key(m.transitions[i]) \in keys
      BY <1>a DEF WInv, TableInv
    <3>2. \A i \in 1..Len(m.transitions) : i < next + 1 => i < next \/ i = next
      BY <1>2
    <3> QED
      BY <1>a, <3>1, <3>2
  <2>3. failures' = {} =>
          GoodStates(m) /\ \A i \in 1..Len(m.transitions) : i < next + 1 => GoodTransition(m, i)
    <3>1. failures' = {} => failures = {} /\ GoodTransition(m, next)
      BY <1>5
    <3>2. failures = {} =>
            GoodStates(m) /\ \A i \in 1..Len(m.transitions) : i < next => GoodTransition(m, i)
      BY <1>a DEF WInv, TableInv
    <3>3. \A i \in 1..Len(m.transitions) : i < next + 1 => i < next \/ i = next
      BY <1>2
    <3> QED
      BY <3>1, <3>2, <3>3
  <2>4. pc' = "transitions" /\ next' = next + 1 /\ m' = m
    BY <1>a, <1>2
  <2> QED
    BY <2>1, <2>2, <2>3, <2>4 DEF TableInv
<1>8. CasesInv'
  BY <1>1, <1>3, SameFresh DEF WInv
<1>9. OutcomeInv'
  <2>1. CASE GoodTransition(m, next)
    BY <1>1, <1>5, <2>1, SameOutcome DEF WInv
  <2>2. CASE ~GoodTransition(m, next)
    <3>1. ~Good
      BY <1>2, <2>2, TableSays DEF Good, m
    <3> QED
      BY <1>1, <1>5, <2>2, <3>1, WorseOutcome DEF WInv
  <2> QED
    BY <2>1, <2>2
<1> QED
  BY <1>6, <1>7, <1>8, <1>9 DEF WInv

LEMMA ScanKeeps ==
    ASSUME TypeOK, WInv, StartScan \/ ScanTransition \/ ScanAgain
    PROVE  WInv'
<1>1. /\ UNCHANGED <<input, file, machinesById, suite, failures>> /\ pc' = "scan"
      /\ pc = "scan" \/ (pc = "transitions" /\ next > Len(m.transitions))
  BY DEF StartScan, ScanTransition, ScanAgain
<1>2. m' = m /\ Len(m.transitions) \in Nat /\ next \in Nat
  BY <1>1, TableForm DEF TypeOK, m
<1>3. (InTable' <=> InTable) /\ InTable
  BY <1>1 DEF InTable
<1>4. EntriesInv' /\ TablesInv'
  BY <1>1, <1>3, SameEntries, SameTables DEF WInv
<1>5. TableInv'
  <2>1. failures = {} => GoodStates(m) /\ \A i \in 1..Len(m.transitions) : GoodTransition(m, i)
    BY <1>1, <1>2 DEF WInv, TableInv
  <2> QED
    BY <1>1, <1>2, <2>1 DEF TableInv
<1>6. CasesInv' /\ OutcomeInv'
  BY <1>1, <1>3, SameFresh, SameOutcome DEF WInv
<1> QED
  BY <1>4, <1>5, <1>6 DEF WInv

LEMMA CheckReachableKeeps == ASSUME VInv, WInv, CheckReachable PROVE WInv'
<1>1. /\ UNCHANGED <<input, machinesById, suite>> /\ pc = "scan" /\ pc' = "tables"
      /\ file' = file + 1 /\ next > Len(m.transitions) /\ ~changed
      /\ failures' = failures \cup Failure(~(m.states \subseteq reachable), "unreachable state")
  BY DEF CheckReachable
<1>0. TypeOK
  BY DEF VInv
<1>2. /\ file \in 1..Len(input.files) /\ Len(input.files) \in Nat
      /\ m.wellFormed /\ m.enum # None
  BY <1>0, <1>1, TableForm, InputForm DEF TypeOK
<1>3. \A i \in 1..Len(input.files) : (Entered(i)' <=> Entered(i)) /\ (Entered(i) <=> i <= file)
  <2>1. pc = "scan" /\ pc' = "tables" /\ file' = file + 1
    BY <1>1
  <2> QED
    BY <1>2, <2>1 DEF Entered, InTable
<1>4. reachable = Reachable(m)
  BY <1>1, ScanEnds
<1>5. EntriesInv'
  BY <1>1, <1>3 DEF WInv, EntriesInv
<1>6. /\ failures' = {} => failures = {} /\ m.states \subseteq Reachable(m)
      /\ m.states \subseteq Reachable(m) => failures' = failures
  BY <1>1, <1>4, FailureIf
<1>7. failures' = {} => GoodTable(m)
  BY <1>1, <1>2, <1>6 DEF WInv, TableInv, GoodTable, GoodStates, GoodTransition
<1>8. TablesInv'
  <2>1. failures' = {} => \A i \in 1..Len(input.files) : i < file + 1 => GoodTable(input.files[i])
    BY <1>2, <1>6, <1>7 DEF WInv, TablesInv, m
  <2> QED
    BY <1>1, <1>3, <1>6, <2>1 DEF WInv, TablesInv
<1>9. TableInv' /\ CasesInv'
  BY <1>1, SameFresh DEF WInv, TableInv, InTable
<1>10. OutcomeInv'
  <2>1. CASE m.states \subseteq Reachable(m)
    BY <1>1, <1>6, <2>1, SameOutcome DEF WInv
  <2>2. CASE ~(m.states \subseteq Reachable(m))
    <3>1. ~Good
      BY <1>2, <2>2, TableSays DEF Good, m
    <3> QED
      BY <1>1, <1>6, <2>2, <3>1, WorseOutcome DEF WInv
  <2> QED
    BY <2>1, <2>2
<1> QED
  BY <1>5, <1>8, <1>9, <1>10 DEF WInv

LEMMA ReadCasesKeeps == ASSUME TypeOK, WInv, ReadCases PROVE WInv'
<1>1. /\ UNCHANGED <<input, file, machinesById, suite>> /\ pc = "tables"
      /\ file > Len(input.files) /\ next' = 1
      /\ input.casesWellFormed => pc' = "cases" /\ failures' = failures
      /\ ~input.casesWellFormed => pc' = "verdict" /\ failures' # {}
  <2>1. \/ input.casesWellFormed /\ pc' = "cases" /\ failures' = failures
        \/ ~input.casesWellFormed /\ pc' = "verdict"
             /\ failures' = failures \cup {"malformed cases"}
    BY Zenon DEF ReadCases
  <2> QED
    BY <2>1 DEF ReadCases, table
<1>2. Len(input.files) \in Nat /\ Len(input.cases) \in Nat /\ file \in Nat
  BY InputForm DEF TypeOK
<1>3. (InTable' <=> InTable) /\ ~InTable
  BY <1>1 DEF InTable
<1>4. EntriesInv'
  BY <1>1, <1>3, SameEntries DEF WInv
<1>5. TablesInv' /\ TableInv'
  BY <1>1, <1>3, SameTables DEF WInv, TableInv
<1>6. CasesInv'
  <2>1. caseIds' = {} /\ coverage' = [i \in MachineIds |-> {}]
    BY <1>1 DEF WInv, CasesInv, suite
  <2>2. /\ \A n \in 1..Len(input.cases) : ~(n < 1)
        /\ \A i \in MachineIds : coverage'[i] = {}
    BY <1>2, <2>1
  <2>3. pc' = "cases" => file > Len(input.files) /\ input.casesWellFormed
    BY <1>1
  <2> QED
    BY <1>1, <2>1, <2>2, <2>3 DEF CasesInv
<1>7. OutcomeInv'
  <2>1. CASE input.casesWellFormed
    BY <1>1, <2>1, SameOutcome DEF WInv
  <2>2. CASE ~input.casesWellFormed
    BY <1>1, <2>2, WorseOutcome DEF Good, GoodCases
  <2> QED
    BY <2>1, <2>2
<1> QED
  BY <1>4, <1>5, <1>6, <1>7 DEF WInv

----------------------------------------------------------------------------
\* Once all tables are read, and if they are good, each is the entry of its id.
LEMMA EntriesAreTables ==
    ASSUME TypeOK, WInv, GoodTables, file > Len(input.files),
           NEW i \in 1..Len(input.files)
    PROVE  /\ input.files[i].id \in MachineIds
           /\ machinesById[input.files[i].id] = input.files[i]
           /\ input.files[i] # None
<1>1. Len(input.files) \in Nat /\ input.files[i] \in Machine /\ file \in Nat
  BY InputForm DEF TypeOK
<1>2. input.files[i].id \in MachineIds /\ input.files[i] # None
  BY <1>1, AbsenceAssumption DEF Machine, TypeOK
<1>3. Entered(i) /\ input.files[i].wellFormed
  BY <1>1, TableSays DEF Entered
<1>4. machinesById[input.files[i].id] # None
  BY <1>3 DEF WInv, EntriesInv
<1>5. PICK j \in 1..Len(input.files) :
         input.files[j].id = input.files[i].id /\ machinesById[input.files[i].id] = input.files[j]
  BY <1>2, <1>4 DEF WInv, EntriesInv
<1>6. ~(j < i) /\ ~(i < j)
  <2>1. j < i => j \in 1..(i - 1)
    BY <1>1
  <2>2. i < j => i \in 1..(j - 1)
    BY <1>1
  <2> QED
    BY <1>5, <2>1, <2>2, TableSays
<1>7. i = j
  BY <1>1, <1>6
<1> QED
  BY <1>2, <1>5, <1>7

\* Then the code asks of a case what a good case is.
CodeAccepts(c) ==
    /\ machinesById[c.machine] # None
    /\ c.allowed = Declared(machinesById[c.machine], c)
    /\ ~(c.kind = "replay" /\ NotIdempotent(machinesById[c.machine], c))

LEMMA CaseIsGood ==
    ASSUME TypeOK, WInv, GoodTables, file > Len(input.files), NEW c \in Case
    PROVE  GoodCase(c) <=> CodeAccepts(c)
<1>0. c.machine \in MachineIds /\ c.allowed \in BOOLEAN
  BY DEF Case
<1>1. ASSUME NEW i \in 1..Len(input.files), input.files[i].id = c.machine
      PROVE  /\ machinesById[c.machine] = input.files[i]
             /\ input.files[i] # None
             /\ Len(input.files[i].transitions) \in Nat
             /\ \A k \in 1..Len(input.files[i].transitions) :
                   input.files[i].transitions[k].idempotent \in BOOLEAN
  <2>1. input.files[i] \in Machine
    BY InputForm
  <2>2. input.files[i].transitions \in Seq(Transition)
    BY <2>1 DEF Machine
  <2>3. \A k \in 1..Len(input.files[i].transitions) :
           input.files[i].transitions[k] \in Transition
    BY <2>2
  <2>4. Len(input.files[i].transitions) \in Nat
    BY <2>2
  <2> QED
    BY <1>1, <2>3, <2>4, EntriesAreTables DEF Transition
<1>2. ASSUME GoodCase(c) PROVE CodeAccepts(c)
  <2>1. PICK i \in 1..Len(input.files) :
          /\ input.files[i].id = c.machine
          /\ c.allowed <=> Declared(input.files[i], c)
          /\ c.kind = "replay" => \A k \in 1..Len(input.files[i].transitions) :
                Matches(input.files[i].transitions[k], c)
                   => input.files[i].transitions[k].idempotent
    BY <1>2 DEF GoodCase
  <2>2. c.allowed = Declared(input.files[i], c)
    BY <1>0, <2>1, Zenon DEF Declared
  <2>3. c.kind = "replay" => ~NotIdempotent(input.files[i], c)
    BY <2>1 DEF NotIdempotent
  <2> QED
    BY <1>1, <2>1, <2>2, <2>3 DEF CodeAccepts
<1>3. ASSUME CodeAccepts(c) PROVE GoodCase(c)
  <2>1. PICK i \in 1..Len(input.files) : input.files[i].id = c.machine
    BY <1>0, <1>3 DEF CodeAccepts, WInv, EntriesInv
  <2> DEFINE machine == input.files[i]
  <2>2. machinesById[c.machine] = machine
    BY <1>1, <2>1
  <2>3. c.allowed <=> Declared(machine, c)
    BY <1>3, <2>2, Zenon DEF CodeAccepts
  <2>4. ASSUME c.kind = "replay", NEW k \in 1..Len(machine.transitions),
               Matches(machine.transitions[k], c)
        PROVE  machine.transitions[k].idempotent
    <3>1. ~NotIdempotent(machine, c)
      BY <1>3, <2>2, <2>4 DEF CodeAccepts
    <3>2. ASSUME NEW j \in 1..(k - 1) PROVE ~Matches(machine.transitions[j], c)
      <4>1. Key(machine.transitions[k]) # Key(machine.transitions[j])
        BY TableSays DEF GoodTransition
      <4> QED
        BY <2>4, <4>1 DEF Key, Matches
    <3> QED
      BY <2>4, <3>1, <3>2 DEF NotIdempotent
  <2> QED
    BY <2>1, <2>3, <2>4 DEF GoodCase
<1> QED
  BY <1>2, <1>3

LEMMA CheckCaseKeeps == ASSUME TypeOK, WInv, CheckCase PROVE WInv'
<1> DEFINE c == input.cases[next]
           machine == machinesById[c.machine]
<1>1. /\ UNCHANGED <<input, pc, table>> /\ pc = "cases" /\ next <= Len(input.cases)
      /\ caseIds' = caseIds \cup {c.id} /\ next' = next + 1
  BY DEF CheckCase
<1>2. /\ machine = None => failures' # {} /\ coverage' = coverage
      /\ machine # None =>
           /\ coverage' = [coverage EXCEPT ![c.machine] = @ \cup {c.kind}]
           /\ failures' = failures
                 \cup Failure(c.id \in caseIds, "duplicate case")
                 \cup Failure(c.allowed # Declared(machine, c), "wrong expectation")
                 \cup Failure(c.kind = "replay" /\ NotIdempotent(machine, c),
                              "replay of non-idempotent")
  BY DEF CheckCase
<1>3. /\ next \in 1..Len(input.cases) /\ Len(input.cases) \in Nat /\ c \in Case
      /\ Len(input.files) \in Nat /\ file \in Nat
  <2>1. next \in Nat /\ next > 0 /\ Len(input.cases) \in Nat
    BY InputForm DEF TypeOK
  <2>2. next \in 1..Len(input.cases)
    BY <1>1, <2>1
  <2> QED
    BY <2>1, <2>2, InputForm DEF TypeOK
<1>4. c.id \in CaseIds /\ c.machine \in MachineIds /\ c.kind \in Kinds
  BY <1>3 DEF Case
<1>5. /\ UNCHANGED <<input, file, machinesById, pc>> /\ (InTable' <=> InTable) /\ m' = m
      /\ pc' = "cases" /\ ~InTable'
  BY <1>1 DEF table, InTable, m
<1>6. file > Len(input.files) /\ input.casesWellFormed
  BY <1>1 DEF WInv, CasesInv
<1>7. failures' = {} <=> failures = {} /\ c.id \notin caseIds /\ CodeAccepts(c)
  <2>1. CASE machine = None
    BY <1>2, <2>1 DEF CodeAccepts
  <2>2. CASE machine # None
    <3> DEFINE f1 == Failure(c.id \in caseIds, "duplicate case")
               f2 == Failure(c.allowed # Declared(machine, c), "wrong expectation")
               f3 == Failure(c.kind = "replay" /\ NotIdempotent(machine, c),
                             "replay of non-idempotent")
    <3>1. f1 = {} <=> c.id \notin caseIds
      BY DEF Failure
    <3>2. f2 = {} <=> c.allowed = Declared(machine, c)
      BY DEF Failure
    <3>3. f3 = {} <=> ~(c.kind = "replay" /\ NotIdempotent(machine, c))
      BY DEF Failure
    <3>4. failures' = failures \cup f1 \cup f2 \cup f3
      BY <1>2, <2>2
    <3>5. CodeAccepts(c) <=> f2 = {} /\ f3 = {}
      BY <2>2, <3>2, <3>3 DEF CodeAccepts
    <3> HIDE DEF c, machine, f1, f2, f3
    <3> QED
      BY <3>1, <3>4, <3>5
  <2> QED
    BY <2>1, <2>2
<1> HIDE DEF c
<1>8. failures = {} => GoodTables
  BY <1>3, <1>6 DEF WInv, TablesInv, GoodTables, Entered
<1>9. failures' = {} => GoodCase(c)
  BY <1>3, <1>6, <1>7, <1>8, CaseIsGood
<1>10. c.id \in caseIds <=> \E n \in 1..(next - 1) : input.cases[n].id = c.id
  BY <1>1, <1>3 DEF WInv, CasesInv
<1>11. EntriesInv' /\ TablesInv' /\ TableInv'
  BY <1>5, <1>7, SameEntries, SameTables DEF WInv, TableInv
<1>12. CasesInv'
  <2>0. \A n \in 1..Len(input.cases) : n < next + 1 <=> n < next \/ n = next
    BY <1>3
  <2>1. \A id \in caseIds' : \E n \in 1..Len(input.cases) : n < next + 1 /\ input.cases[n].id = id
    <3>1. \A id \in caseIds : \E n \in 1..Len(input.cases) : n < next /\ input.cases[n].id = id
      BY <1>1 DEF WInv, CasesInv
    <3> QED
      BY <1>1, <1>3, <2>0, <3>1 DEF c
  <2>2. \A n \in 1..Len(input.cases) : n < next + 1 => input.cases[n].id \in caseIds'
    <3>1. \A n \in 1..Len(input.cases) : n < next => input.cases[n].id \in caseIds
      BY <1>1 DEF WInv, CasesInv
    <3> QED
      BY <1>1, <2>0, <3>1 DEF c
  <2>a. /\ \A i \in MachineIds : i # c.machine \/ machine = None => coverage'[i] = coverage[i]
        /\ machine # None => coverage'[c.machine] = coverage[c.machine] \cup {c.kind}
    BY <1>2, <1>4 DEF TypeOK
  <2>3. \A i \in MachineIds : \A kind \in coverage'[i] :
           \E n \in 1..Len(input.cases) :
              n < next + 1 /\ input.cases[n].machine = i /\ input.cases[n].kind = kind
    <3>1. \A i \in MachineIds : \A kind \in coverage[i] :
             \E n \in 1..Len(input.cases) :
                n < next /\ input.cases[n].machine = i /\ input.cases[n].kind = kind
      BY <1>1 DEF WInv, CasesInv
    <3>2. \A i \in MachineIds : \A kind \in coverage'[i] :
             kind \in coverage[i] \/ (i = c.machine /\ kind = c.kind)
      BY <2>a
    <3> QED
      BY <1>3, <2>0, <3>1, <3>2 DEF c
  <2>4. \A n \in 1..Len(input.cases) :
           n < next + 1 /\ machinesById[input.cases[n].machine] # None
              => input.cases[n].kind \in coverage'[input.cases[n].machine]
    <3>1. \A n \in 1..Len(input.cases) :
             n < next /\ machinesById[input.cases[n].machine] # None
                => input.cases[n].kind \in coverage[input.cases[n].machine]
      BY <1>1 DEF WInv, CasesInv
    <3>2. \A n \in 1..Len(input.cases) : input.cases[n].machine \in MachineIds
      BY InputForm DEF Case
    <3>3. \A i \in MachineIds : coverage[i] \subseteq coverage'[i]
      BY <2>a
    <3> QED
      BY <1>3, <2>0, <2>a, <3>1, <3>2, <3>3 DEF c
  <2>5. failures' = {} => \A n \in 1..Len(input.cases) : n < next + 1 =>
           /\ GoodCase(input.cases[n])
           /\ \A k \in 1..(n - 1) : input.cases[n].id # input.cases[k].id
    <3>1. failures = {} => \A n \in 1..Len(input.cases) : n < next =>
             /\ GoodCase(input.cases[n])
             /\ \A k \in 1..(n - 1) : input.cases[n].id # input.cases[k].id
      BY <1>1 DEF WInv, CasesInv
    <3>2. failures' = {} => /\ GoodCase(input.cases[next])
                            /\ \A k \in 1..(next - 1) : input.cases[next].id # input.cases[k].id
      BY <1>7, <1>9, <1>10 DEF c
    <3> QED
      BY <1>7, <2>0, <3>1, <3>2
  <2>6. \A n \in 1..Len(input.cases) : GoodCase(input.cases[n])' <=> GoodCase(input.cases[n])
    BY <1>5 DEF GoodCase
  <2>7. next' = next + 1 /\ UNCHANGED <<input, file, machinesById, pc>> /\ pc = "cases"
    BY <1>1, <1>5
  <2>8. pc' = "cases" => (/\ file > Len(input.files) /\ input.casesWellFormed
                         /\ ~InTable')
    BY <1>5, <1>6
  <2> QED
    BY <2>1, <2>2, <2>3, <2>4, <2>5, <2>6, <2>7, <2>8 DEF CasesInv
<1>13. OutcomeInv'
  <2>1. failures' # {} => ~Good
    <3> SUFFICES ASSUME Good PROVE failures' = {}
      OBVIOUS
    <3>1. failures = {} /\ GoodTables /\ GoodCases
      BY DEF WInv, OutcomeInv, Good
    <3>2. GoodCase(c) /\ \A n \in 1..(next - 1) : input.cases[n].id # c.id
      BY <1>3, <3>1 DEF GoodCases, c
    <3> QED
      BY <1>3, <1>6, <1>7, <1>10, <3>1, <3>2, CaseIsGood
  <2> QED
    BY <1>5, <2>1, SameGood DEF OutcomeInv
<1> QED
  BY <1>11, <1>12, <1>13 DEF WInv

LEMMA CheckCoverageKeeps == ASSUME TypeOK, WInv, CheckCoverage PROVE WInv'
<1>1. /\ UNCHANGED <<input, next, table, suite>> /\ pc = "cases" /\ next > Len(input.cases)
      /\ failures' = failures \cup Failure(\E i \in MachineIds : Uncovered(i), "no coverage")
      /\ pc' = "verdict"
  BY DEF CheckCoverage
<1>2. /\ UNCHANGED <<input, file, machinesById>> /\ (InTable' <=> InTable) /\ ~InTable'
  BY <1>1 DEF table, InTable
<1>3. /\ Len(input.files) \in Nat /\ file \in Nat /\ file > Len(input.files)
      /\ input.casesWellFormed
      /\ \A n \in 1..Len(input.cases) : n < next
  <2>1. Len(input.files) \in Nat /\ Len(input.cases) \in Nat /\ file \in Nat /\ next \in Nat
    BY InputForm DEF TypeOK
  <2>2. file > Len(input.files) /\ input.casesWellFormed
    BY <1>1 DEF WInv, CasesInv
  <2>3. next > Len(input.cases)
    BY <1>1
  <2>4. \A n \in 1..Len(input.cases) : n < next
    BY <2>1, <2>3
  <2> QED
    BY <2>1, <2>2, <2>4
<1>4. /\ failures' = {} => failures = {} /\ ~\E i \in MachineIds : Uncovered(i)
      /\ (~\E i \in MachineIds : Uncovered(i)) => failures' = failures
  BY <1>1 DEF Failure
<1>5. failures = {} => GoodTables
  BY <1>3 DEF WInv, TablesInv, GoodTables, Entered
<1>6. failures' = {} => Good
  <2> SUFFICES ASSUME failures' = {} PROVE GoodCases /\ BothKinds
    BY <1>4, <1>5 DEF Good
  <2>1. GoodTables /\ failures = {}
    BY <1>4, <1>5
  <2>2. ASSUME NEW i \in 1..Len(input.files), NEW kind \in {"positive", "negative"}
        PROVE  \E n \in 1..Len(input.cases) :
                  input.cases[n].machine = input.files[i].id /\ input.cases[n].kind = kind
    <3>1. input.files[i].id \in MachineIds /\ machinesById[input.files[i].id] # None
      BY <1>3, <2>1, EntriesAreTables
    <3>2. kind \in coverage[input.files[i].id]
      BY <1>4, <3>1 DEF Uncovered
    <3>3. \A x \in MachineIds : \A y \in coverage[x] : \E n \in 1..Len(input.cases) :
             n < next /\ input.cases[n].machine = x /\ input.cases[n].kind = y
      BY <1>1 DEF WInv, CasesInv
    <3> QED
      BY <3>1, <3>2, <3>3
  <2>3. \A n \in 1..Len(input.cases) :
           /\ GoodCase(input.cases[n])
           /\ \A k \in 1..(n - 1) : input.cases[n].id # input.cases[k].id
    BY <1>1, <1>3, <2>1 DEF WInv, CasesInv
  <2> QED
    BY <1>3, <2>2, <2>3 DEF GoodCases, BothKinds, CaseOf
<1>7. Good => failures' = {}
  <2> SUFFICES ASSUME Good PROVE ~\E i \in MachineIds : Uncovered(i)
    BY <1>4 DEF WInv, OutcomeInv
  <2> SUFFICES ASSUME NEW i \in MachineIds, machinesById[i] # None,
                      NEW kind \in {"positive", "negative"}
               PROVE  kind \in coverage[i]
    BY DEF Uncovered
  <2>1. PICK k \in 1..Len(input.files) : input.files[k].id = i
    BY DEF WInv, EntriesInv
  <2>2. PICK n \in 1..Len(input.cases) :
           input.cases[n].machine = i /\ input.cases[n].kind = kind
    <3>1. \A x \in 1..Len(input.files), y \in {"positive", "negative"} :
             \E n \in 1..Len(input.cases) :
                input.cases[n].machine = input.files[x].id /\ input.cases[n].kind = y
      BY DEF Good, BothKinds, CaseOf
    <3> QED
      BY <2>1, <3>1
  <2> QED
    BY <1>1, <1>3, <2>2 DEF WInv, CasesInv
<1>8. EntriesInv' /\ TablesInv' /\ TableInv' /\ CasesInv'
  BY <1>1, <1>2, <1>4, SameEntries, SameTables DEF WInv, TableInv, CasesInv
<1>9. OutcomeInv'
  BY <1>1, <1>2, <1>6, <1>7, SameGood DEF OutcomeInv
<1> QED
  BY <1>8, <1>9 DEF WInv

LEMMA GiveVerdictKeeps == ASSUME TypeOK, WInv, GiveVerdict PROVE WInv'
<1>1. /\ UNCHANGED <<input, next, table, suite, failures>> /\ pc = "verdict"
      /\ (pc' = "accepted" /\ failures = {}) \/ (pc' = "rejected" /\ failures # {})
  <2>1. (pc' = "accepted" /\ failures = {}) \/ (pc' = "rejected" /\ failures # {})
    BY Zenon DEF GiveVerdict
  <2> QED
    BY <2>1 DEF GiveVerdict
<1>2. /\ UNCHANGED <<input, file, machinesById>> /\ (InTable' <=> InTable) /\ ~InTable'
  BY <1>1 DEF table, InTable
<1>3. EntriesInv' /\ TablesInv' /\ TableInv' /\ CasesInv'
  BY <1>1, <1>2, SameEntries, SameTables DEF WInv, TableInv, CasesInv
<1>4. OutcomeInv'
  BY <1>1, <1>2, SameGood DEF WInv, OutcomeInv
<1> QED
  BY <1>3, <1>4 DEF WInv

LEMMA StutterWInv == ASSUME WInv, UNCHANGED vars PROVE WInv'
<1>1. /\ UNCHANGED <<input, pc, file, next, keys, machinesById, failures>>
      /\ UNCHANGED <<caseIds, coverage>> /\ UNCHANGED suite
  BY DEF vars, table, suite
<1>2. m' = m /\ (InTable' <=> InTable)
  BY <1>1 DEF m, InTable
<1>3. EntriesInv' /\ TablesInv' /\ TableInv'
  BY <1>1, <1>2, SameEntries, SameTables DEF WInv, TableInv
<1>4. CasesInv'
  BY <1>1, <1>2 DEF WInv, CasesInv, GoodCase
<1>5. OutcomeInv'
  BY <1>1, SameGood DEF WInv, OutcomeInv
<1> QED
  BY <1>3, <1>4, <1>5 DEF WInv

LEMMA InitWInv == Init => WInv
<1> SUFFICES ASSUME Init PROVE WInv
  OBVIOUS
<1>1. /\ pc = "tables" /\ file = 1 /\ failures = {} /\ ~InTable
      /\ machinesById = [i \in MachineIds |-> None]
      /\ caseIds = {} /\ coverage = [i \in MachineIds |-> {}]
  BY DEF Init, InTable
<1>2. TypeOK
  BY InitVInv DEF VInv
<1>3. \A i \in 1..Len(input.files) : ~Entered(i) /\ ~(i < file)
  BY <1>1, <1>2, InputForm DEF Entered
<1>4. EntriesInv
  BY <1>1, <1>3 DEF EntriesInv
<1>5. TablesInv /\ TableInv /\ CasesInv /\ OutcomeInv
  BY <1>1, <1>3 DEF TablesInv, TableInv, CasesInv, OutcomeInv
<1> QED
  BY <1>4, <1>5 DEF WInv

LEMMA NextWInv == ASSUME VInv, WInv, Next PROVE WInv'
<1>1. TypeOK
  BY DEF VInv
<1> QED
  BY <1>1, ReadMalformedKeeps, ReadMachineKeeps, CheckStatesKeeps, CheckTransitionKeeps,
     ScanKeeps, CheckReachableKeeps, ReadCasesKeeps, CheckCaseKeeps, CheckCoverageKeeps,
     GiveVerdictKeeps DEF Next

\* The verdict of the validator is that of the declarative rules, for any number
\* of tables and cases of any size, in any order and with any defects: nothing
\* is let through by an early continue, an overwritten entry or a loop that ends
\* too early, and nothing good is refused (lines 302-391 and 522-526).
THEOREM VerdictOfTheRules == Spec => []VerdictIsRight
<1>0. ASSUME TypeOK, BothKinds, KindsTell PROVE BothAnswers
  <2> SUFFICES ASSUME NEW i \in 1..Len(input.files), NEW answer \in BOOLEAN
               PROVE  \E n \in 1..Len(input.cases) :
                         /\ CaseOf(input.files[i], input.cases[n])
                         /\ input.cases[n].allowed = answer
    BY DEF BothAnswers
  <2>0. \A n \in 1..Len(input.cases) : input.cases[n].allowed \in BOOLEAN
    <3>1. input.cases \in Seq(Case)
      BY <1>0, InputAssumption DEF TypeOK, Input
    <3>2. \A n \in 1..Len(input.cases) : input.cases[n] \in Case
      BY <3>1
    <3> QED
      BY <3>2 DEF Case
  <2>1. CASE answer = TRUE
    <3>1. PICK n \in 1..Len(input.cases) :
             CaseOf(input.files[i], input.cases[n]) /\ input.cases[n].kind = "positive"
      BY <1>0 DEF BothKinds
    <3> QED
      BY <1>0, <2>0, <2>1, <3>1 DEF KindsTell
  <2>2. CASE answer = FALSE
    <3>1. PICK n \in 1..Len(input.cases) :
             CaseOf(input.files[i], input.cases[n]) /\ input.cases[n].kind = "negative"
      BY <1>0 DEF BothKinds
    <3> QED
      BY <1>0, <2>0, <2>2, <3>1 DEF KindsTell
  <2> QED
    BY <2>1, <2>2
<1>1. VInv /\ WInv => VerdictIsRight
  BY <1>0 DEF VInv, WInv, OutcomeInv, VerdictIsRight, Good
<1>2. VInv /\ WInv /\ [Next]_vars => WInv'
  BY NextWInv, StutterWInv
<1> QED
  BY InitWInv, ValidatorInvariant, <1>1, <1>2, PTL DEF Spec

----------------------------------------------------------------------------
(* Termination: what every step brings nearer to the end.                    *)

\* A loop over a list stops one past its end.
IndexInv ==
    /\ pc \in {"transitions", "scan"} => next <= Len(m.transitions) + 1
    /\ pc = "cases" => next <= Len(input.cases) + 1

FilesLeft == Len(input.files) + 1 - file

Stage ==
    CASE pc = "tables" -> 6 [] pc = "states" -> 5 [] pc = "transitions" -> 4
      [] pc = "scan" -> 3 [] pc = "cases" -> 2 [] pc = "verdict" -> 1
      [] OTHER -> 0

\* The transitions that lead to a state the loop has not found.
Unfound ==
    IF pc = "scan"
      THEN {i \in 1..Len(m.transitions) : m.transitions[i].to \notin reachable}
      ELSE {}

ScansDue == IF pc = "scan" /\ changed THEN 1 ELSE 0

TurnsLeft ==
    IF pc \in {"transitions", "scan"} THEN Len(m.transitions) + 1 - next
    ELSE IF pc = "cases" THEN Len(input.cases) + 1 - next
    ELSE 0

Measure == <<FilesLeft, Stage, Cardinality(Unfound), ScansDue, TurnsLeft>>

\* The lexicographic order.
Less(a, b) == \E i \in 1..5 : a[i] < b[i] /\ \A j \in 1..(i - 1) : a[j] = b[j]

LEMMA LessAt ==
    ASSUME NEW a1, NEW a2, NEW a3, NEW a4, NEW a5,
           NEW b1, NEW b2, NEW b3, NEW b4, NEW b5,
           \/ a1 < b1
           \/ a1 = b1 /\ a2 < b2
           \/ a1 = b1 /\ a2 = b2 /\ a3 < b3
           \/ a1 = b1 /\ a2 = b2 /\ a3 = b3 /\ a4 < b4
           \/ a1 = b1 /\ a2 = b2 /\ a3 = b3 /\ a4 = b4 /\ a5 < b5
    PROVE  Less(<<a1, a2, a3, a4, a5>>, <<b1, b2, b3, b4, b5>>)
<1> DEFINE a == <<a1, a2, a3, a4, a5>>
           b == <<b1, b2, b3, b4, b5>>
<1>0. /\ a[1] = a1 /\ a[2] = a2 /\ a[3] = a3 /\ a[4] = a4 /\ a[5] = a5
      /\ b[1] = b1 /\ b[2] = b2 /\ b[3] = b3 /\ b[4] = b4 /\ b[5] = b5
  OBVIOUS
<1> HIDE DEF a, b
<1>1. PICK i \in 1..5 : /\ a[i] < b[i]
                        /\ i > 1 => a[1] = b[1]
                        /\ i > 2 => a[2] = b[2]
                        /\ i > 3 => a[3] = b[3]
                        /\ i > 4 => a[4] = b[4]
  BY <1>0
<1>2. ASSUME NEW j \in 1..(i - 1) PROVE a[j] = b[j]
  <2>1. j \in {1, 2, 3, 4} /\ j < i
    OBVIOUS
  <2> QED
    BY <1>1, <2>1
<1>3. Less(a, b)
  BY <1>1, <1>2 DEF Less
<1> QED
  BY <1>3 DEF a, b

LEMMA InitIndexInv == Init => IndexInv
PROOF BY DEF Init, IndexInv

(* One more turn of a loop of n turns. *)
LEMMA OneTurn ==
    ASSUME NEW n \in Nat, NEW k \in Nat
    PROVE  /\ n + 1 - (k + 1) < n + 1 - k
           /\ k <= n => k + 1 <= n + 1
           /\ 1 <= n + 1
OBVIOUS

LEMMA NextIndexInv ==
    ASSUME VInv, IndexInv, [Next]_vars
    PROVE  IndexInv'
<1>0. TypeOK
  BY DEF VInv
<1>1. CASE ReadMalformed \/ ReadMachine \/ CheckReachable \/ GiveVerdict
           \/ CheckCoverage
  <2>1. pc' \notin {"transitions", "scan", "cases"}
    BY <1>1 DEF ReadMalformed, ReadMachine, CheckReachable, GiveVerdict,
                CheckCoverage
  <2> QED
    BY <2>1 DEF IndexInv
<1>2. CASE CheckStates \/ StartScan \/ ScanAgain
  <2>1. pc' \in {"transitions", "scan"} /\ next' = 1 /\ m' = m
    BY <1>2 DEF CheckStates, StartScan, ScanAgain, m
  <2>2. Len(m.transitions) \in Nat
    BY <1>0, <1>2, TableForm DEF CheckStates, StartScan, ScanAgain, TypeOK
  <2> QED
    BY <2>1, <2>2, OneTurn DEF IndexInv
<1>3. CASE CheckTransition \/ ScanTransition
  <2>1. /\ pc' = pc /\ pc \in {"transitions", "scan"}
        /\ m' = m /\ next' = next + 1 /\ next <= Len(m.transitions)
    BY <1>3 DEF CheckTransition, ScanTransition, m
  <2>2. Len(m.transitions) \in Nat /\ next \in Nat
    BY <1>0, <2>1, TableForm DEF TypeOK
  <2> QED
    BY <2>1, <2>2, OneTurn DEF IndexInv
<1>4. CASE ReadCases
  <2>1. /\ pc' \in {"cases", "verdict"} /\ next' = 1 /\ input' = input
        /\ Len(input.cases) \in Nat
    BY <1>0, <1>4, InputForm DEF ReadCases
  <2> QED
    BY <2>1, OneTurn DEF IndexInv
<1>5. CASE CheckCase
  <2>1. /\ pc' = "cases" /\ next' = next + 1 /\ input' = input
        /\ next <= Len(input.cases)
    BY <1>5 DEF CheckCase
  <2>2. Len(input.cases) \in Nat /\ next \in Nat
    BY <1>0, InputForm DEF TypeOK
  <2> QED
    BY <2>1, <2>2, OneTurn DEF IndexInv
<1>6. CASE UNCHANGED vars
  BY <1>6 DEF vars, table, IndexInv, m
<1> QED
  BY <1>1, <1>2, <1>3, <1>4, <1>5, <1>6 DEF Next

(* The components of the measure are natural numbers, so that it cannot      *)
(* descend for ever.                                                         *)
LEMMA UnfoundFinite ==
    ASSUME TypeOK
    PROVE  IsFiniteSet(Unfound) /\ Cardinality(Unfound) \in Nat
<1>1. CASE pc = "scan"
  <2>1. Len(m.transitions) \in Nat
    BY <1>1, TableForm DEF TypeOK
  <2>2. IsFiniteSet(1..Len(m.transitions)) /\ Unfound \subseteq 1..Len(m.transitions)
    BY <1>1, <2>1, FS_Interval DEF Unfound
  <2> QED
    BY <2>2, FS_Subset, FS_CardinalityType
<1>2. CASE pc # "scan"
  BY <1>2, FS_EmptySet DEF Unfound
<1> QED
  BY <1>1, <1>2

LEMMA MeasureType ==
    ASSUME TypeOK, IndexInv
    PROVE  Measure \in Nat \X Nat \X Nat \X Nat \X Nat
<1>1. FilesLeft \in Nat
  BY InputForm DEF TypeOK, FilesLeft
<1>2. Stage \in Nat
  BY DEF Stage
<1>3. Cardinality(Unfound) \in Nat /\ ScansDue \in Nat
  BY UnfoundFinite DEF ScansDue
<1>4. TurnsLeft \in Nat
  <2>1. pc \in {"transitions", "scan"} => Len(m.transitions) \in Nat
    BY TableForm DEF TypeOK
  <2>2. Len(input.cases) \in Nat /\ next \in Nat
    BY InputForm DEF TypeOK
  <2> QED
    BY <2>1, <2>2 DEF IndexInv, TurnsLeft
<1> QED
  BY <1>1, <1>2, <1>3, <1>4 DEF Measure

(* A turn of the reachability loop either finds a state, or passes on.       *)
LEMMA ScanDescends ==
    ASSUME VInv, ScanTransition
    PROVE  Less(Measure', Measure)
<1> DEFINE t == m.transitions[next]
           len == Len(m.transitions)
<1>0. /\ TypeOK /\ TypeOK' /\ pc = "scan" /\ pc' = "scan"
      /\ m' = m /\ next' = next + 1 /\ UNCHANGED <<input, file>>
  BY NextTypeOK DEF VInv, ScanTransition, Next, m
<1>1. len \in Nat /\ next \in 1..len /\ FilesLeft' = FilesLeft /\ Stage' = Stage
  BY <1>0, TableForm DEF ScanTransition, TypeOK, FilesLeft, Stage
<1>2. CASE t.from \in reachable /\ t.to \notin reachable
  <2>1. reachable' = reachable \cup {t.to}
    BY <1>2 DEF ScanTransition
  <2>2. Unfound' \subseteq Unfound /\ next \in Unfound /\ next \notin Unfound'
    BY <1>0, <1>1, <1>2, <2>1 DEF Unfound
  <2>3. Cardinality(Unfound') < Cardinality(Unfound)
    <3>1. IsFiniteSet(Unfound) /\ Unfound' # Unfound
      BY <1>0, <2>2, UnfoundFinite
    <3> QED
      BY <2>2, <3>1, FS_Subset, FS_CardinalityType
  <2> QED
    BY <1>1, <2>3, LessAt DEF Measure
<1>3. CASE ~(t.from \in reachable /\ t.to \notin reachable)
  <2>1. reachable' = reachable /\ (changed' = changed)
    BY <1>3, Zenon DEF ScanTransition
  <2>2. Unfound' = Unfound /\ ScansDue' = ScansDue
    BY <1>0, <2>1 DEF Unfound, ScansDue
  <2>3. TurnsLeft' < TurnsLeft
    <3>1. TurnsLeft' = len + 1 - (next + 1) /\ TurnsLeft = len + 1 - next
      BY <1>0 DEF TurnsLeft
    <3>2. len \in Nat /\ next \in Nat
      BY <1>1
    <3> HIDE DEF len
    <3> QED
      BY <3>1, <3>2, OneTurn
  <2> QED
    BY <1>1, <2>2, <2>3, LessAt DEF Measure
<1> QED
  BY <1>2, <1>3

LEMMA NextFile ==
    ASSUME Len(input.files) \in Nat, file \in Nat,
           input' = input, file' = file + 1
    PROVE  FilesLeft' < FilesLeft
<1>1. FilesLeft' = Len(input.files) + 1 - (file + 1)
  BY DEF FilesLeft
<1> QED
  BY <1>1, OneTurn DEF FilesLeft

LEMMA NextDescends ==
    ASSUME VInv, IndexInv, Next
    PROVE  Less(Measure', Measure)
<1>0. TypeOK /\ TypeOK'
  BY NextTypeOK DEF VInv
<1>n. /\ Len(input.files) \in Nat /\ Len(input.cases) \in Nat
      /\ file \in Nat /\ next \in Nat
  BY <1>0, InputForm DEF TypeOK
<1>1. CASE ReadMalformed \/ CheckReachable
  <2>1. input' = input /\ file' = file + 1
    BY <1>1 DEF ReadMalformed, CheckReachable
  <2>2. FilesLeft' < FilesLeft
    BY <1>n, <2>1, NextFile
  <2> QED
    BY <2>2, LessAt DEF Measure
<1>2. CASE ReadMachine
  <2>1. CASE m.enum = None
    <3>1. input' = input /\ file' = file + 1
      BY <1>2, <2>1 DEF ReadMachine
    <3>2. FilesLeft' < FilesLeft
      BY <1>n, <3>1, NextFile
    <3> QED
      BY <3>2, LessAt DEF Measure
  <2>2. CASE m.enum # None
    <3>1. UNCHANGED <<input, file>> /\ pc = "tables" /\ pc' = "states"
      BY <1>2, <2>2 DEF ReadMachine
    <3>2. FilesLeft' = FilesLeft /\ Stage' < Stage
      BY <3>1 DEF FilesLeft, Stage
    <3> QED
      BY <3>2, LessAt DEF Measure
  <2> QED
    BY <2>1, <2>2
<1>3. CASE CheckStates \/ StartScan \/ ReadCases \/ CheckCoverage \/ GiveVerdict
  <2>1. UNCHANGED <<input, file>>
    BY <1>3 DEF CheckStates, StartScan, ReadCases, CheckCoverage, GiveVerdict,
                table
  <2>2. \/ pc = "states" /\ pc' = "transitions"
        \/ pc = "transitions" /\ pc' = "scan"
        \/ pc = "tables" /\ pc' \in {"cases", "verdict"}
        \/ pc = "cases" /\ pc' = "verdict"
        \/ pc = "verdict" /\ pc' \in {"accepted", "rejected"}
    BY <1>3 DEF CheckStates, StartScan, ReadCases, CheckCoverage, GiveVerdict
  <2>3. Stage' < Stage
    BY <2>2 DEF Stage
  <2>4. FilesLeft' = FilesLeft
    BY <2>1 DEF FilesLeft
  <2> QED
    BY <2>3, <2>4, LessAt DEF Measure
<1>4. CASE CheckTransition \/ CheckCase
  <2>1. FilesLeft' = FilesLeft /\ Stage' = Stage
    BY <1>4 DEF CheckTransition, CheckCase, table, FilesLeft, Stage
  <2>2. Unfound' = Unfound /\ ScansDue' = ScansDue
    BY <1>4 DEF CheckTransition, CheckCase, Unfound, ScansDue
  <2>3. TurnsLeft' < TurnsLeft
    <3>1. CASE CheckTransition
      <4>1. pc = "transitions" /\ pc' = pc /\ m' = m /\ next' = next + 1
        BY <3>1 DEF CheckTransition, m
      <4>2. Len(m.transitions) \in Nat
        BY <1>0, <4>1, TableForm DEF TypeOK
      <4>3. /\ TurnsLeft' = Len(m.transitions) + 1 - (next + 1)
            /\ TurnsLeft = Len(m.transitions) + 1 - next
        BY <4>1 DEF TurnsLeft
      <4> QED
        BY <1>n, <4>2, <4>3, OneTurn
    <3>2. CASE CheckCase
      <4>1. pc = "cases" /\ pc' = pc /\ input' = input /\ next' = next + 1
        BY <3>2 DEF CheckCase
      <4>2. /\ TurnsLeft' = Len(input.cases) + 1 - (next + 1)
            /\ TurnsLeft = Len(input.cases) + 1 - next
        BY <4>1 DEF TurnsLeft
      <4> QED
        BY <1>n, <4>2, OneTurn
    <3> QED
      BY <1>4, <3>1, <3>2
  <2> QED
    BY <2>1, <2>2, <2>3, LessAt DEF Measure
<1>5. CASE ScanTransition
  BY <1>5, ScanDescends
<1>6. CASE ScanAgain
  <2>1. FilesLeft' = FilesLeft /\ Stage' = Stage
    BY <1>6 DEF ScanAgain, FilesLeft, Stage
  <2>2. Unfound' = Unfound /\ ScansDue' < ScansDue
    BY <1>6 DEF ScanAgain, Unfound, ScansDue, m
  <2> QED
    BY <2>1, <2>2, LessAt DEF Measure
<1> QED
  BY <1>1, <1>2, <1>3, <1>4, <1>5, <1>6 DEF Next

\* Every step of the validator descends a lexicographic measure of five natural
\* numbers: it takes finitely many steps on every input, whatever the tables.
\* The loop of lines 352-360 is the delicate part: a scan is repeated only
\* after one that found a state, and a transition finds a state once.
THEOREM EveryStepDescends ==
    Spec => /\ [](Measure \in Nat \X Nat \X Nat \X Nat \X Nat)
            /\ [][Less(Measure', Measure)]_vars
<1>1. VInv /\ IndexInv /\ [Next]_vars => IndexInv'
  BY NextIndexInv
<1>2. Spec => []IndexInv
  BY <1>1, InitIndexInv, ValidatorInvariant, PTL DEF Spec
<1>3. VInv /\ IndexInv => Measure \in Nat \X Nat \X Nat \X Nat \X Nat
  BY MeasureType DEF VInv
<1>4. VInv /\ IndexInv /\ [Next]_vars => [Less(Measure', Measure)]_vars
  BY NextDescends
<1> QED
  BY <1>2, <1>3, <1>4, ValidatorInvariant, PTL DEF Spec

============================================================================
