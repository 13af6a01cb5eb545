------------------------ MODULE MCLifecycleValidator ------------------------
(* Instance of LifecycleValidator: one table with every short list of       *)
(* transitions in every order, and two tables of all kinds of defects with  *)
(* all kinds of cases.                                                      *)
EXTENDS LifecycleValidator, SequencesExt

MCStates     == {"a", "b", "c", "d"}
MCActions    == {"x", "y"}
MCMachineIds == {"M", "N"}
MCCaseIds    == {1, 2, 3, 4}

T(from, to) == [from |-> from, action |-> "x", to |-> to, idempotent |-> TRUE]

Table(id, states, initial, terminal, transitions) ==
    [wellFormed |-> TRUE, id |-> id, enum |-> states, states |-> states,
     initial |-> initial, terminal |-> terminal, transitions |-> transitions]

C(n, id, kind, from, to, allowed) ==
    [id |-> n, machine |-> id, kind |-> kind, from |-> from, action |-> "x",
     to |-> to, allowed |-> allowed]

\* A case that is right and one that is wrong unless d leads to a.
Cases(id, n, first) ==
    << C(n, id, "positive", first.from, first.to, TRUE),
       C(n + 1, id, "negative", "d", "a", FALSE) >>

\* One table.  The order of the transitions decides how many scans there are.
Arrows == {T("a", "b"), T("b", "c"), T("c", "d"), T("b", "a"), T("d", "b"), T("d", "a")}

Lists == UNION {[1..n -> Arrows] : n \in 1..3}

OneTable ==
    {[files |-> <<Table("M", MCStates, initial, {"d"}, list)>>,
      casesWellFormed |-> TRUE, cases |-> Cases("M", 1, list[1])] :
        initial \in {{"a"}, {"a", "c"}}, list \in Lists}

\* Two tables.
Good(id) == Table(id, {"a", "d"}, {"a"}, {"d"}, <<T("a", "d")>>)

Tables ==
    { Good("M"), Good("N"),
      [Good("N") EXCEPT !.wellFormed = FALSE],
      [Good("N") EXCEPT !.enum = None],
      [Good("N") EXCEPT !.enum = MCStates],
      [Good("N") EXCEPT !.terminal = {"c"}],
      [Good("N") EXCEPT !.transitions = <<T("a", "d"), T("a", "c")>>],
      [Good("N") EXCEPT !.transitions = <<T("a", "d"), T("a", "d")>>],
      [Good("N") EXCEPT !.transitions[1].idempotent = FALSE] }

GoodSuite == Cases("M", 1, T("a", "d")) \o Cases("N", 3, T("a", "d"))

Suites ==
    { GoodSuite, Tail(GoodSuite), SubSeq(GoodSuite, 1, 2),
      [GoodSuite EXCEPT ![3].id = 1],
      [GoodSuite EXCEPT ![4].allowed = TRUE],
      [GoodSuite EXCEPT ![4] = C(4, "N", "negative", "a", "d", TRUE)],
      [GoodSuite EXCEPT ![4].kind = "positive"],
      Append(GoodSuite, C(4, "N", "replay", "a", "d", TRUE)),
      [GoodSuite EXCEPT ![2].kind = "replay"],
      [GoodSuite EXCEPT ![1].kind = "replay"] }

TwoTables ==
    {[files |-> files, casesWellFormed |-> ok, cases |-> cases] :
        files \in {<<a, b>> : a, b \in Tables} \cup {<<a>> : a \in Tables},
        ok \in BOOLEAN, cases \in Suites}

Replays ==
    {[files |-> <<a>>, casesWellFormed |-> TRUE,
      cases |-> Cases("N", 1, T("a", "d")) \o <<C(3, "N", "replay", "a", "d", TRUE)>>] :
        a \in Tables}

MCInputs == OneTable \cup TwoTables \cup Replays
=============================================================================
