------------------------- MODULE LifecycleValidator -------------------------
(***************************************************************************)
(* The lifecycle part of contracts/validate-contracts.mjs (lines 302-391): *)
(* it reads the *.machine.json tables one after another, checks each one,  *)
(* computes the states reachable from its initial states with a loop that  *)
(* scans the transitions until a scan adds nothing, and then replays the   *)
(* transition cases against the tables.  One step is one turn of a loop.   *)
(*                                                                         *)
(* A table or a case file that its JSON schema rejects is one that is not  *)
(* wellFormed; the failures are the kinds of messages pushed.              *)
(***************************************************************************)
EXTENDS Integers, Sequences

CONSTANTS
    States,       \* names of states
    Actions,      \* names of actions
    MachineIds,
    CaseIds,
    Inputs,       \* the files the validator may find
    None          \* no entry; no enum behind the contract and pointer

Kinds == {"positive", "negative", "replay"}

Transition == [from : States, action : Actions, to : States, idempotent : BOOLEAN]

\* enum is what contractSchemaId and statePointer lead to.
Machine ==
    [wellFormed : BOOLEAN, id : MachineIds, enum : {None} \cup SUBSET States,
     states : SUBSET States, initial : SUBSET States, terminal : SUBSET States,
     transitions : Seq(Transition)]

Case ==
    [id : CaseIds, machine : MachineIds, kind : Kinds, from : States,
     action : Actions, to : States, allowed : BOOLEAN]

Input == [files : Seq(Machine), casesWellFormed : BOOLEAN, cases : Seq(Case)]

ASSUME InputAssumption == Inputs \subseteq Input
ASSUME AbsenceAssumption ==
    \A i \in Inputs : \A k \in 1..Len(i.files) : i.files[k] # None

VARIABLES
    input,
    pc,
    file,          \* index of the table in hand
    next,          \* index of the transition or the case looked at next
    keys,          \* transitionKeys
    reachable, changed,
    machinesById,  \* and, by its entries, machineIds
    caseIds, coverage,
    failures

table == <<file, keys, reachable, changed, machinesById>>
suite == <<caseIds, coverage>>
vars  == <<input, pc, next, table, suite, failures>>

m == input.files[file]     \* "machine" in the code

Key(t) == <<t.from, t.action, t.to>>

\* The failure kind, if the condition holds.
Failure(condition, kind) == IF condition THEN {kind} ELSE {}

Init ==
    /\ input \in Inputs
    /\ pc = "tables" /\ file = 1 /\ next = 1
    /\ keys = {} /\ reachable = {} /\ changed = FALSE
    /\ machinesById = [i \in MachineIds |-> None]
    /\ caseIds = {} /\ coverage = [i \in MachineIds |-> {}]
    /\ failures = {}

----------------------------------------------------------------------------
(* One table *)

\* The schema rejects it: nothing else is asked of it.
ReadMalformed ==
    /\ pc = "tables" /\ file <= Len(input.files)
    /\ ~m.wellFormed
    /\ failures' = failures \cup {"malformed table"}
    /\ file' = file + 1
    /\ UNCHANGED <<input, pc, next, keys, reachable, changed, machinesById, suite>>

\* The variants named here and below carry a fault that a change of the code
\* might bring in; the properties at the end of the module tell them apart.
ReadMachineAnyway ==
    /\ pc = "tables" /\ file <= Len(input.files)
    /\ m.wellFormed
    /\ machinesById' = [machinesById EXCEPT ![m.id] = m]
    /\ failures' = failures
         \cup Failure(machinesById[m.id] # None, "duplicate machine")
         \cup Failure(m.enum = None, "no enum")
    /\ pc' = "states"
    /\ UNCHANGED <<input, file, next, keys, reachable, changed, suite>>

\* It is entered under its id, over an earlier one with the same id, even if
\* the states it should have cannot be found.
ReadMachine ==
    /\ pc = "tables" /\ file <= Len(input.files)
    /\ m.wellFormed
    /\ machinesById' = [machinesById EXCEPT ![m.id] = m]
    /\ failures' = failures
         \cup Failure(machinesById[m.id] # None, "duplicate machine")
         \cup Failure(m.enum = None, "no enum")
    /\ IF m.enum = None
         THEN file' = file + 1 /\ UNCHANGED pc
         ELSE pc' = "states" /\ UNCHANGED file
    /\ UNCHANGED <<input, next, keys, reachable, changed, suite>>

CheckStatesKeepingKeys ==
    /\ pc = "states"
    /\ failures' = failures
         \cup Failure(m.states # m.enum, "enum differs")
         \cup Failure(~(m.initial \cup m.terminal \subseteq m.states),
                      "undeclared initial or terminal")
    /\ pc' = "transitions" /\ next' = 1
    /\ UNCHANGED <<input, file, keys, reachable, changed, machinesById, suite>>

CheckStates ==
    /\ pc = "states"
    /\ failures' = failures
         \cup Failure(m.states # m.enum, "enum differs")
         \cup Failure(~(m.initial \cup m.terminal \subseteq m.states),
                      "undeclared initial or terminal")
    /\ pc' = "transitions" /\ next' = 1 /\ keys' = {}
    /\ UNCHANGED <<input, file, reachable, changed, machinesById, suite>>

CheckTransition ==
    /\ pc = "transitions" /\ next <= Len(m.transitions)
    /\ LET t == m.transitions[next] IN
         /\ failures' = failures
              \cup Failure(~({t.from, t.to} \subseteq m.states), "undeclared state")
              \cup Failure(t.from \in m.terminal, "terminal has outbound")
              \cup Failure(Key(t) \in keys, "duplicate transition")
         /\ keys' = keys \cup {Key(t)}
    /\ next' = next + 1
    /\ UNCHANGED <<input, pc, file, reachable, changed, machinesById, suite>>

StartScan ==
    /\ pc = "transitions" /\ next > Len(m.transitions)
    /\ pc' = "scan" /\ next' = 1
    /\ reachable' = m.initial /\ changed' = FALSE
    /\ UNCHANGED <<input, file, keys, machinesById, suite, failures>>

ScanForever ==
    /\ pc = "scan" /\ next <= Len(m.transitions)
    /\ LET t == m.transitions[next] IN
         IF t.from \in reachable
           THEN reachable' = reachable \cup {t.to} /\ changed' = TRUE
           ELSE UNCHANGED <<reachable, changed>>
    /\ next' = next + 1
    /\ UNCHANGED <<input, pc, file, keys, machinesById, suite, failures>>

ScanAndForget ==
    /\ pc = "scan" /\ next <= Len(m.transitions)
    /\ LET t == m.transitions[next] IN
         IF t.from \in reachable /\ t.to \notin reachable
           THEN reachable' = reachable \cup {t.to} /\ changed' = TRUE
           ELSE changed' = FALSE /\ UNCHANGED reachable
    /\ next' = next + 1
    /\ UNCHANGED <<input, pc, file, keys, machinesById, suite, failures>>

ScanTransition ==
    /\ pc = "scan" /\ next <= Len(m.transitions)
    /\ LET t == m.transitions[next] IN
         IF t.from \in reachable /\ t.to \notin reachable
           THEN reachable' = reachable \cup {t.to} /\ changed' = TRUE
           ELSE UNCHANGED <<reachable, changed>>
    /\ next' = next + 1
    /\ UNCHANGED <<input, pc, file, keys, machinesById, suite, failures>>

ScanAgain ==
    /\ pc = "scan" /\ next > Len(m.transitions)
    /\ changed
    /\ next' = 1 /\ changed' = FALSE
    /\ UNCHANGED <<input, pc, file, keys, reachable, machinesById, suite, failures>>

CheckReachable ==
    /\ pc = "scan" /\ next > Len(m.transitions)
    /\ ~changed
    /\ failures' = failures \cup Failure(~(m.states \subseteq reachable), "unreachable state")
    /\ pc' = "tables" /\ file' = file + 1
    /\ UNCHANGED <<input, next, keys, reachable, changed, machinesById, suite>>

----------------------------------------------------------------------------
(* The transition cases *)

ReadCases ==
    /\ pc = "tables" /\ file > Len(input.files)
    /\ IF input.casesWellFormed
         THEN pc' = "cases" /\ UNCHANGED failures
         ELSE pc' = "verdict" /\ failures' = failures \cup {"malformed cases"}
    /\ next' = 1
    /\ UNCHANGED <<input, table, suite>>

\* The first transition of the machine that the case names, if there is one.
Matches(t, c) == t.from = c.from /\ t.action = c.action /\ t.to = c.to

Declared(machine, c) ==
    \E i \in 1..Len(machine.transitions) : Matches(machine.transitions[i], c)

NotIdempotent(machine, c) ==
    \E i \in 1..Len(machine.transitions) :
        /\ Matches(machine.transitions[i], c)
        /\ ~machine.transitions[i].idempotent
        /\ \A j \in 1..(i - 1) : ~Matches(machine.transitions[j], c)

CheckCase ==
    /\ pc = "cases" /\ next <= Len(input.cases)
    /\ LET c == input.cases[next]
           machine == machinesById[c.machine]
       IN  /\ caseIds' = caseIds \cup {c.id}
           /\ \/ /\ machine = None
                 /\ failures' = failures
                      \cup Failure(c.id \in caseIds, "duplicate case")
                      \cup {"unknown machine"}
                 /\ UNCHANGED coverage
              \/ /\ machine # None
                 /\ coverage' = [coverage EXCEPT ![c.machine] = @ \cup {c.kind}]
                 /\ failures' = failures
                      \cup Failure(c.id \in caseIds, "duplicate case")
                      \cup Failure(c.allowed # Declared(machine, c), "wrong expectation")
                      \cup Failure(c.kind = "replay" /\ NotIdempotent(machine, c),
                                   "replay of non-idempotent")
    /\ next' = next + 1
    /\ UNCHANGED <<input, pc, table>>

Uncovered(i) == machinesById[i] # None /\ ~({"positive", "negative"} \subseteq coverage[i])

CheckCoverage ==
    /\ pc = "cases" /\ next > Len(input.cases)
    /\ failures' = failures
         \cup Failure(\E i \in MachineIds : Uncovered(i), "no coverage")
    /\ pc' = "verdict"
    /\ UNCHANGED <<input, next, table, suite>>

GiveVerdict ==
    /\ pc = "verdict"
    /\ pc' = IF failures = {} THEN "accepted" ELSE "rejected"
    /\ UNCHANGED <<input, next, table, suite, failures>>

Next ==
    \/ ReadMalformed \/ ReadMachine \/ CheckStates \/ CheckTransition
    \/ StartScan \/ ScanTransition \/ ScanAgain \/ CheckReachable
    \/ ReadCases \/ CheckCase \/ CheckCoverage \/ GiveVerdict

\* The validator is one thread that waits for nobody.
Spec == Init /\ [][Next]_vars /\ WF_vars(Next)

----------------------------------------------------------------------------
TypeOK ==
    /\ input \in Inputs
    /\ pc \in {"tables", "states", "transitions", "scan", "cases", "verdict",
               "accepted", "rejected"}
    /\ file \in 1..(Len(input.files) + 1)
    /\ pc \in {"states", "transitions", "scan"} =>
         file <= Len(input.files) /\ m.wellFormed /\ m.enum # None
    /\ next \in Nat \ {0}
    /\ keys \subseteq States \X Actions \X States
    /\ reachable \subseteq States
    /\ changed \in BOOLEAN
    /\ machinesById \in [MachineIds -> {None} \cup Machine]
    /\ caseIds \subseteq CaseIds
    /\ coverage \in [MachineIds -> SUBSET Kinds]

Closed(machine, set) ==
    \A i \in 1..Len(machine.transitions) :
        machine.transitions[i].from \in set => machine.transitions[i].to \in set

\* What can be reached: what is in every set that contains the initial states
\* and is closed under the transitions.
Reachable(machine) ==
    {s \in States : \A set \in SUBSET States :
        (machine.initial \subseteq set /\ Closed(machine, set)) => s \in set}

\* When the loop of lines 352-360 ends, whatever the order of the transitions,
\* it has found every state that can be reached and no other.
FindsTheReachable ==
    (pc = "scan" /\ next > Len(m.transitions) /\ ~changed) => reachable = Reachable(m)

\* The tables and cases that state-machines/README.md (lines 14-17) describes.
GoodTable(machine) ==
    /\ machine.wellFormed
    /\ machine.enum # None
    /\ machine.states = machine.enum
    /\ machine.initial \cup machine.terminal \subseteq machine.states
    /\ \A i \in 1..Len(machine.transitions) :
         /\ machine.transitions[i].from \in machine.states \ machine.terminal
         /\ machine.transitions[i].to \in machine.states
         /\ \A j \in 1..(i - 1) :
              Key(machine.transitions[i]) # Key(machine.transitions[j])
    /\ machine.states \subseteq Reachable(machine)

GoodTables ==
    \A i \in 1..Len(input.files) :
        /\ GoodTable(input.files[i])
        /\ \A j \in 1..(i - 1) : input.files[i].id # input.files[j].id

GoodCase(c) ==
    \E i \in 1..Len(input.files) :
        LET machine == input.files[i] IN
        /\ machine.id = c.machine
        /\ c.allowed <=> Declared(machine, c)
        /\ c.kind = "replay" => \A k \in 1..Len(machine.transitions) :
              Matches(machine.transitions[k], c) => machine.transitions[k].idempotent

GoodCases ==
    /\ input.casesWellFormed
    /\ \A n \in 1..Len(input.cases) :
         /\ GoodCase(input.cases[n])
         /\ \A k \in 1..(n - 1) : input.cases[n].id # input.cases[k].id

CaseOf(machine, c) == c.machine = machine.id

\* What the validator asks for (line 389): a positive and a negative case of
\* every machine, whatever these cases expect.
BothKinds ==
    \A i \in 1..Len(input.files), kind \in {"positive", "negative"} :
        \E n \in 1..Len(input.cases) :
            CaseOf(input.files[i], input.cases[n]) /\ input.cases[n].kind = kind

\* What the case file should have (state-machines/README.md, lines 38-39): "at
\* least one allowed and one denied case for every current machine".
BothAnswers ==
    \A i \in 1..Len(input.files), answer \in BOOLEAN :
        \E n \in 1..Len(input.cases) :
            CaseOf(input.files[i], input.cases[n]) /\ input.cases[n].allowed = answer

\* The kinds say what the cases expect, which nothing checks.
KindsTell ==
    \A n \in 1..Len(input.cases) :
        /\ input.cases[n].kind = "positive" => input.cases[n].allowed
        /\ input.cases[n].kind = "negative" => ~input.cases[n].allowed

\* The verdict (lines 522-526) is that of the declarative description of good
\* tables and good cases: no early continue, no table that replaces another
\* under its id and no turn of a loop lets a defect through or invents one.
\* An accepted suite has the allowed and the denied case that the README
\* promises of every machine, provided that its kinds tell the expectation.
VerdictIsRight ==
    /\ pc = "accepted" => GoodTables /\ GoodCases /\ (KindsTell => BothAnswers)
    /\ pc = "rejected" => ~(GoodTables /\ GoodCases /\ BothKinds)

\* The validator ends on every input: each scan but the last finds a state.
Termination == <>(pc \in {"accepted", "rejected"})

============================================================================
