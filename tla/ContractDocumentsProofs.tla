---------------------- MODULE ContractDocumentsProofs ----------------------
(***************************************************************************)
(* What a run of contracts/validate-contracts.mjs establishes of its       *)
(* input, for every directory of fixtures and every set of documents.      *)
(*                                                                         *)
(* DInv says of each stage what the failures so far tell: as long as there *)
(* are none, everything looked at is right and the coverage sets are those *)
(* of the files looked at; if the directory is correct, only the documents *)
(* can have failed.                                                        *)
(***************************************************************************)
EXTENDS ContractDocuments, FiniteSetTheorems, TLAPS

LEMMA BrokenEmpty ==
    ASSUME NEW rules
    PROVE  Broken(rules) = {} <=> \A name \in DOMAIN rules : rules[name]
  BY Zenon DEF Broken

CoverageHolds ==
    /\ ProductionSchemas \subseteq positiveCoverage
    /\ C0Schemas \subseteq positiveCoverage \cap negativeCoverage
    /\ RequiredCategories \subseteq categories

LEMMA CoverageRule == Broken(CoverageRules) = {} <=> CoverageHolds
<1>1. DOMAIN CoverageRules = {"production", "c0", "categories"}
  BY DEF CoverageRules
<1>2. CoverageRules["production"] = (ProductionSchemas \subseteq positiveCoverage)
  BY DEF CoverageRules
<1>3. CoverageRules["c0"] = (C0Schemas \subseteq positiveCoverage \cap negativeCoverage)
  BY DEF CoverageRules
<1>4. CoverageRules["categories"] = (RequiredCategories \subseteq categories)
  BY DEF CoverageRules
<1>5. Broken(CoverageRules) = {} <=> \A name \in DOMAIN CoverageRules : CoverageRules[name]
  BY BrokenEmpty
<1> QED
  BY <1>1, <1>2, <1>3, <1>4, <1>5, Zenon DEF CoverageHolds

LEMMA LiveStable ==
    ASSUME input' = input
    PROVE  /\ files' = files /\ live' = live /\ Commands' = Commands
           /\ ExternalActions' = ExternalActions /\ RegisteredBody' = RegisteredBody
<1>1. files' = files /\ live' = live
  BY DEF files, live
<1>2. Commands' = Commands
  BY <1>1 DEF Commands
<1>3. ExternalActions' = ExternalActions
  BY <1>2 DEF ExternalActions
<1>4. RegisteredBody' = RegisteredBody
  BY <1>1 DEF RegisteredBody, Body
<1> QED
  BY <1>1, <1>2, <1>3, <1>4

LEMMA CommandsStable ==
    ASSUME input' = input
    PROVE  CommandRules' = CommandRules
  BY LiveStable DEF CommandRules

LEMMA CoverageStable ==
    ASSUME UNCHANGED coverage
    PROVE  CoverageRules' = CoverageRules
  BY DEF CoverageRules, coverage

LEMMA NamesStable ==
    ASSUME input' = input
    PROVE  /\ \A id : FixtureById(id)' = FixtureById(id)
           /\ \A kind : Names(kind)' = Names(kind)
           /\ \A kind : WorkloadId(kind)' = WorkloadId(kind)
<1>1. \A id : FixtureById(id)' = FixtureById(id)
  BY LiveStable DEF FixtureById
<1>2. \A kind : Names(kind)' = Names(kind)
  BY LiveStable, <1>1 DEF Names
<1>3. \A kind : WorkloadId(kind)' = WorkloadId(kind)
  BY <1>2 DEF WorkloadId
<1> QED
  BY <1>1, <1>2, <1>3

LEMMA BindingsStable ==
    ASSUME input' = input
    PROVE  BindingRules' = BindingRules
<1>1. TraceBound' = TraceBound
  BY LiveStable DEF TraceBound
<1>2. FixturesTraced' = FixturesTraced
  BY NamesStable DEF FixturesTraced, TracedFixtures
<1>3. EventNamesManifest' = EventNamesManifest
  BY NamesStable, LiveStable DEF EventNamesManifest, Bounded
<1>4. CommandsBound' = CommandsBound
  BY LiveStable DEF CommandsBound, Bound
<1>5. AdjudicationBound' = AdjudicationBound
  BY NamesStable, LiveStable DEF AdjudicationBound
<1> QED
  BY <1>1, <1>2, <1>3, <1>4, <1>5 DEF BindingRules

----------------------------------------------------------------------------
(* The invariant.                                                          *)

Given == \E case \in Cases : input = InputOf(case)

Looked == {files[i] : i \in 1..next - 1}

Exact ==
    /\ fixtureIds = {f.fixtureId : f \in Looked}
    /\ categories = {f.category : f \in Looked}
    /\ positiveCoverage = {f.schemaId : f \in {g \in Looked : g.category = "positive" /\ Valid(g)}}
    /\ negativeCoverage = {f.schemaId : f \in {g \in Looked : g.category = "negative" /\ ~Valid(g)}}

LookedGood ==
    \A i \in 1..next - 1 :
        /\ FixtureCorrect(files[i], input.registry)
        /\ \A j \in 1..next - 1 : files[i].fixtureId = files[j].fixtureId => i = j

StageInv ==
    /\ pc = "registry" => next = 1 /\ failures = {}
    /\ pc \notin {"registry", "fixtures"} => next = Len(files) + 1
    /\ pc = "passed" => failures = {}
    /\ pc = "failed" => failures # {}

NoneInv ==
    failures = {} =>
        /\ pc # "registry" => RegistrySound(input.registry)
        /\ LookedGood
        /\ pc \notin {"registry", "fixtures", "coverage"} => CoverageHolds
        /\ pc \in {"bindings", "verdict", "passed"} => Broken(CommandRules) = {}
        /\ pc \in {"verdict", "passed"} => Broken(BindingRules) = {}

DInv ==
    /\ Given /\ TypeOK /\ StageInv /\ NoneInv
    /\ (failures = {} \/ DirectoryCorrect) => Exact
    /\ DirectoryCorrect => failures \subseteq DocumentFailures

LEMMA FilesForm ==
    ASSUME Given
    PROVE  Len(files) \in Nat /\ DOMAIN files = 1..Len(files)
  BY InputAssumption DEF Given, files

LEMMA DirectoryStable ==
    ASSUME input' = input
    PROVE  /\ Given' = Given /\ DirectoryCorrect' = DirectoryCorrect
<1>1. files' = files
  BY LiveStable
<1>2. DirectoryCorrect' = DirectoryCorrect
  BY <1>1 DEF DirectoryCorrect, Covered
<1> QED
  BY <1>2 DEF Given

LEMMA OpenDInv == ASSUME Open PROVE DInv
<1>1. Given
  BY DEF Open, Given
<1>2. Len(files) \in Nat
  BY <1>1, FilesForm
<1>3. Looked = {}
  BY DEF Open, Looked
<1> QED
  BY <1>1, <1>2, <1>3 DEF Open, DInv, TypeOK, StageInv, NoneInv, LookedGood, Exact, Stages

LEMMA StutterDInv == ASSUME DInv, UNCHANGED documents PROVE DInv'
<1>1. input' = input /\ pc' = pc /\ next' = next /\ failures' = failures /\ UNCHANGED coverage
  BY DEF documents
<1>2. UNCHANGED <<fixtureIds, categories, positiveCoverage, negativeCoverage>>
  BY <1>1 DEF coverage
<1>3. files' = files /\ CommandRules' = CommandRules /\ BindingRules' = BindingRules
  BY <1>1, LiveStable, CommandsStable, BindingsStable
<1>4. Looked' = Looked /\ LookedGood' = LookedGood
  BY <1>1, <1>3 DEF Looked, LookedGood
<1> QED
  BY <1>1, <1>2, <1>3, <1>4, DirectoryStable
     DEF DInv, TypeOK, StageInv, NoneInv, Exact, CoverageHolds

----------------------------------------------------------------------------
(* One lemma per step.                                                     *)

LEMMA Unchanging ==
    ASSUME DInv, input' = input
    PROVE  /\ files' = files /\ Given' /\ DirectoryCorrect' = DirectoryCorrect
           /\ CommandRules' = CommandRules /\ BindingRules' = BindingRules
           /\ Len(files) \in Nat /\ DOMAIN files = 1..Len(files)
           /\ next \in 1..Len(files) + 1
  BY LiveStable, CommandsStable, BindingsStable, DirectoryStable, FilesForm DEF DInv, TypeOK

LEMMA RegistryStep == ASSUME DInv, ValidateRegistry PROVE DInv'
<1> DEFINE R == [registry |-> RegistrySound(input.registry)]
<1>1. /\ pc = "registry" /\ pc' = "fixtures" /\ failures' = failures \cup Broken(R)
      /\ input' = input /\ next' = next /\ UNCHANGED coverage
  BY DEF ValidateRegistry, Check, Report
<1>2. UNCHANGED <<fixtureIds, categories, positiveCoverage, negativeCoverage>>
  BY <1>1 DEF coverage
<1>3. Broken(R) = {} <=> RegistrySound(input.registry)
  <2>1. DOMAIN R = {"registry"} /\ R["registry"] = RegistrySound(input.registry)
    OBVIOUS
  <2> HIDE DEF R
  <2>2. Broken(R) = {} <=> \A name \in DOMAIN R : R[name]
    BY BrokenEmpty
  <2> QED
    BY <2>1, <2>2, Zenon
<1>4. failures = {} /\ next = 1
  BY <1>1 DEF DInv, StageInv
<1>5. Looked = {} /\ Looked' = {}
  BY <1>1, <1>4 DEF Looked
<1> HIDE DEF R
<1>6. TypeOK'
  BY <1>1, <1>2, Unchanging DEF DInv, TypeOK, Stages
<1>7. StageInv'
  BY <1>1, <1>4 DEF StageInv
<1>8. NoneInv'
  BY <1>1, <1>3, <1>4 DEF NoneInv, LookedGood
<1>9. Exact'
  <2>1. Exact
    BY <1>4 DEF DInv
  <2> QED
    BY <2>1, <1>2, <1>5 DEF Exact
<1>10. DirectoryCorrect' => failures' \subseteq DocumentFailures
  BY <1>1, <1>3, <1>4, Unchanging DEF DirectoryCorrect
<1> QED
  BY <1>1, <1>6, <1>7, <1>8, <1>9, <1>10, Unchanging DEF DInv

LEMMA LookedGrows ==
    ASSUME DInv, input' = input, next' = next + 1, next <= Len(files)
    PROVE  /\ Looked' = Looked \cup {file} /\ next \in DOMAIN files
           /\ 1..next' - 1 = 1..next - 1 \cup {next}
           /\ {files'[i].fixtureId : i \in 1..next' - 1}
                  = {files[i].fixtureId : i \in 1..next - 1} \cup {file.fixtureId}
           /\ {files'[i].category : i \in 1..next' - 1}
                  = {files[i].category : i \in 1..next - 1} \cup {file.category}
<1>1. next \in Nat /\ next \in DOMAIN files /\ next >= 1
  BY Unchanging
<1>2. 1..next' - 1 = 1..next - 1 \cup {next}
  BY <1>1
<1>3. files' = files
  BY Unchanging
<1> QED
  BY <1>1, <1>2, <1>3 DEF Looked, file

\* A fixture that is left early makes the failures non-empty and the directory
\* incorrect, and adds to no coverage.
LEMMA LeftEarly ==
    ASSUME DInv, input' = input, pc = "fixtures", pc' = "fixtures",
           next' = next + 1, next <= Len(files),
           fixtureIds' \subseteq fixtureIds \cup {file.fixtureId},
           categories' \subseteq categories \cup {file.category},
           positiveCoverage' = positiveCoverage, negativeCoverage' = negativeCoverage,
           failures' # {}, ~DirectoryCorrect
    PROVE  DInv'
<1>1. TypeOK'
  <2>1. TypeOK
    BY DEF DInv
  <2>2. next' \in 1..Len(files') + 1
    BY Unchanging
  <2>3. fixtureIds' \subseteq {files'[i].fixtureId : i \in 1..next' - 1}
    <3>1. fixtureIds \subseteq {files[i].fixtureId : i \in 1..next - 1}
      BY <2>1 DEF TypeOK
    <3> QED
      BY <3>1, LookedGrows
  <2>4. categories' \subseteq {files'[i].category : i \in 1..next' - 1}
    <3>1. categories \subseteq {files[i].category : i \in 1..next - 1}
      BY <2>1 DEF TypeOK
    <3> QED
      BY <3>1, LookedGrows
  <2> QED
    BY <2>1, <2>2, <2>3, <2>4 DEF TypeOK, Stages
<1>2. StageInv' /\ NoneInv'
  BY DEF StageInv, NoneInv
<1> QED
  BY <1>1, <1>2, Unchanging DEF DInv

LEMMA WrapperStep == ASSUME DInv, RejectWrapper PROVE DInv'
<1>1. /\ pc = "fixtures" /\ next <= Len(files) /\ ~file.wrapped /\ pc' = pc /\ next' = next + 1
      /\ input' = input /\ UNCHANGED coverage /\ "wrapper" \in failures'
  BY DEF RejectWrapper, Report
<1>2. ~DirectoryCorrect
  BY <1>1, LookedGrows DEF DirectoryCorrect, FixtureCorrect, file
<1> QED
  BY <1>1, <1>2, LeftEarly DEF coverage

LEMMA DuplicateStep == ASSUME DInv, RejectDuplicate PROVE DInv'
<1>1. /\ pc = "fixtures" /\ next <= Len(files) /\ file.fixtureId \in fixtureIds
      /\ pc' = pc /\ next' = next + 1
      /\ input' = input /\ UNCHANGED coverage /\ "duplicate" \in failures'
  BY DEF RejectDuplicate, Report
<1>2. PICK i \in 1..next - 1 : files[i].fixtureId = file.fixtureId
  BY <1>1 DEF DInv, TypeOK
<1>3. i \in DOMAIN files /\ next \in DOMAIN files /\ i # next
  BY <1>1, Unchanging
<1>4. ~DirectoryCorrect
  BY <1>2, <1>3 DEF DirectoryCorrect, file
<1> QED
  BY <1>1, <1>4, LeftEarly DEF coverage

LEMMA SchemaStep == ASSUME DInv, RejectSchema PROVE DInv'
<1>1. /\ pc = "fixtures" /\ next <= Len(files) /\ file.schemaId \notin Schemas
      /\ pc' = pc /\ next' = next + 1 /\ input' = input
      /\ fixtureIds' = fixtureIds \cup {file.fixtureId}
      /\ categories' = categories \cup {file.category}
      /\ UNCHANGED <<positiveCoverage, negativeCoverage>> /\ "schemaId" \in failures'
  BY DEF RejectSchema, Admit, Report
<1>2. ~DirectoryCorrect
  BY <1>1, LookedGrows DEF DirectoryCorrect, FixtureCorrect, file
<1> QED
  BY <1>1, <1>2, LeftEarly

LEMMA ExamineStep == ASSUME DInv, Examine PROVE DInv'
<1> DEFINE R == FixtureRules(file, input.registry)
<1>1. /\ pc = "fixtures" /\ next <= Len(files) /\ file.wrapped
      /\ file.fixtureId \notin fixtureIds /\ file.schemaId \in Schemas
      /\ pc' = pc /\ next' = next + 1 /\ input' = input
      /\ fixtureIds' = fixtureIds \cup {file.fixtureId}
      /\ categories' = categories \cup {file.category}
      /\ positiveCoverage' = positiveCoverage \cup
             {s \in {file.schemaId} : file.category = "positive" /\ Valid(file)}
      /\ negativeCoverage' = negativeCoverage \cup
             {s \in {file.schemaId} : file.category = "negative" /\ ~Valid(file)}
      /\ failures' = failures \cup (Tainted(file) \cup Broken(R))
  BY DEF Examine, Admit, Report
<1>2. Broken(R) = {} <=> \A name \in DOMAIN R : R[name]
  BY BrokenEmpty
<1>3. Tainted(file) = {} <=> ~file.tainted
  BY DEF Tainted
<1>4. Tainted(file) \cup Broken(R) = {} <=> FixtureCorrect(file, input.registry)
  BY <1>1, <1>2, <1>3 DEF FixtureCorrect
<1> HIDE DEF R
<1>5. DirectoryCorrect => FixtureCorrect(file, input.registry)
  BY <1>1, LookedGrows DEF DirectoryCorrect, file
<1>6. (failures' = {} \/ DirectoryCorrect) => Exact'
  <2> SUFFICES ASSUME failures' = {} \/ DirectoryCorrect PROVE Exact'
    OBVIOUS
  <2>1. Exact
    BY <1>1 DEF DInv
  <2>2. Looked' = Looked \cup {file}
    BY <1>1, LookedGrows
  <2> QED
    BY <1>1, <2>1, <2>2 DEF Exact
<1>7. NoneInv'
  <2> SUFFICES ASSUME failures' = {} PROVE NoneInv'
    BY DEF NoneInv
  <2>1. failures = {} /\ FixtureCorrect(file, input.registry)
    BY <1>1, <1>4
  <2>2. RegistrySound(input.registry) /\ LookedGood /\ Exact
    BY <1>1, <2>1 DEF DInv, NoneInv
  <2>3. \A i \in 1..next - 1 : files[i].fixtureId # file.fixtureId
    BY <1>1, <2>2 DEF Exact, Looked
  <2>4. LookedGood'
    <3>1. files' = files /\ input.registry' = input.registry /\ 1..next' - 1 = 1..next - 1 \cup {next}
      BY <1>1, Unchanging, LookedGrows
    <3> QED
      BY <1>1, <2>1, <2>2, <2>3, <3>1 DEF LookedGood, file
  <2> QED
    BY <1>1, <2>2, <2>4 DEF NoneInv
<1>8. TypeOK'
  <2>1. TypeOK
    BY DEF DInv
  <2>2. next' \in 1..Len(files') + 1
    BY <1>1, Unchanging
  <2>3. fixtureIds' \subseteq {files'[i].fixtureId : i \in 1..next' - 1}
    <3>1. fixtureIds \subseteq {files[i].fixtureId : i \in 1..next - 1}
      BY <2>1 DEF TypeOK
    <3> QED
      BY <1>1, <3>1, LookedGrows
  <2>4. categories' \subseteq {files'[i].category : i \in 1..next' - 1}
    <3>1. categories \subseteq {files[i].category : i \in 1..next - 1}
      BY <2>1 DEF TypeOK
    <3> QED
      BY <1>1, <3>1, LookedGrows
  <2> QED
    BY <1>1, <2>1, <2>2, <2>3, <2>4 DEF TypeOK, Stages
<1>9. StageInv'
  BY <1>1 DEF StageInv
<1>10. DirectoryCorrect => failures' \subseteq DocumentFailures
  BY <1>1, <1>4, <1>5 DEF DInv
<1> QED
  BY <1>1, <1>6, <1>7, <1>8, <1>9, <1>10, Unchanging DEF DInv

\* The later steps look at no fixture.
LEMMA Settled ==
    ASSUME DInv, input' = input, next' = next, UNCHANGED coverage,
           pc' \in Stages, pc' \notin {"registry", "fixtures"}, next = Len(files) + 1
    PROVE  /\ TypeOK' /\ Exact' = Exact /\ LookedGood' = LookedGood
           /\ CoverageHolds' = CoverageHolds
           /\ pc' \notin {"registry", "fixtures"} => next' = Len(files') + 1
<1>1. UNCHANGED <<fixtureIds, categories, positiveCoverage, negativeCoverage>>
  BY DEF coverage
<1>2. files' = files
  BY Unchanging
<1>3. Looked' = Looked
  BY <1>2 DEF Looked
<1>4. TypeOK'
  BY <1>1, <1>2 DEF DInv, TypeOK
<1>5. Exact' = Exact
  BY <1>1, <1>3 DEF Exact
<1>6. LookedGood' = LookedGood
  BY <1>2 DEF LookedGood
<1> QED
  BY <1>1, <1>2, <1>4, <1>5, <1>6 DEF CoverageHolds

LEMMA EndStep == ASSUME DInv, EndOfFixtures PROVE DInv'
<1>1. Broken(<< >>) = {}
  BY DEF Broken
<1>2. /\ pc = "fixtures" /\ next > Len(files) /\ pc' = "coverage" /\ failures' = failures
      /\ input' = input /\ next' = next /\ UNCHANGED coverage
  BY <1>1 DEF EndOfFixtures, Check, Report
<1>3. next = Len(files) + 1
  BY <1>2, Unchanging
<1> QED
  BY <1>2, <1>3, Settled, Unchanging DEF DInv, StageInv, NoneInv, Stages

LEMMA AllLooked ==
    ASSUME DInv, next = Len(files) + 1, DirectoryCorrect
    PROVE  CoverageHolds
<1>1. DOMAIN files = 1..next - 1 /\ Exact
  BY FilesForm DEF DInv
<1>2. \A s, valid : Covered(s, "positive", valid) /\ valid = TRUE => s \in positiveCoverage
  BY <1>1 DEF Covered, Exact, Looked
<1>3. \A s, valid : Covered(s, "negative", valid) /\ valid = FALSE => s \in negativeCoverage
  BY <1>1 DEF Covered, Exact, Looked
<1>4. \A c \in RequiredCategories : c \in categories
  BY <1>1 DEF DirectoryCorrect, Exact, Looked
<1> QED
  BY <1>2, <1>3, <1>4 DEF DirectoryCorrect, CoverageHolds

LEMMA CoverageStep == ASSUME DInv, CheckCoverage PROVE DInv'
<1>1. /\ pc = "coverage" /\ pc' = "commands" /\ failures' = failures \cup Broken(CoverageRules)
      /\ input' = input /\ next' = next /\ UNCHANGED coverage
  BY DEF CheckCoverage, Check, Report
<1>2. next = Len(files) + 1
  BY <1>1 DEF DInv, StageInv
<1>3. Broken(CoverageRules) = {} <=> CoverageHolds
  BY CoverageRule
<1>4. DirectoryCorrect => CoverageHolds
  BY <1>2, AllLooked
<1> QED
  BY <1>1, <1>2, <1>3, <1>4, Settled, Unchanging DEF DInv, StageInv, NoneInv, Stages

LEMMA CommandsStep == ASSUME DInv, CheckCommands PROVE DInv'
<1>1. /\ pc = "commands" /\ pc' = "bindings" /\ failures' = failures \cup Broken(CommandRules)
      /\ input' = input /\ next' = next /\ UNCHANGED coverage
  BY DEF CheckCommands, Check, Report
<1>2. next = Len(files) + 1
  BY <1>1 DEF DInv, StageInv
<1>3. Broken(CommandRules) \subseteq DocumentFailures
  BY DEF Broken, CommandRules, DocumentFailures
<1> QED
  BY <1>1, <1>2, <1>3, Settled, Unchanging DEF DInv, StageInv, NoneInv, Stages

LEMMA BindingsStep == ASSUME DInv, CheckBindings PROVE DInv'
<1>1. /\ pc = "bindings" /\ pc' = "verdict" /\ failures' = failures \cup Broken(BindingRules)
      /\ input' = input /\ next' = next /\ UNCHANGED coverage
  BY DEF CheckBindings, Check, Report
<1>2. next = Len(files) + 1
  BY <1>1 DEF DInv, StageInv
<1>3. Broken(BindingRules) \subseteq DocumentFailures
  BY DEF Broken, BindingRules, DocumentFailures
<1> QED
  BY <1>1, <1>2, <1>3, Settled, Unchanging DEF DInv, StageInv, NoneInv, Stages

LEMMA VerdictStep == ASSUME DInv, GiveVerdict PROVE DInv'
<1>1. /\ pc = "verdict" /\ pc' = IF failures = {} THEN "passed" ELSE "failed"
      /\ failures' = failures /\ input' = input /\ next' = next /\ UNCHANGED coverage
  BY DEF GiveVerdict
<1>2. next = Len(files) + 1
  BY <1>1 DEF DInv, StageInv
<1> QED
  BY <1>1, <1>2, Settled, Unchanging DEF DInv, StageInv, NoneInv, Stages

LEMMA ValidateDInv == ASSUME DInv, Validate PROVE DInv'
  BY RegistryStep, WrapperStep, DuplicateStep, SchemaStep, ExamineStep, EndStep, CoverageStep,
     CommandsStep, BindingsStep, VerdictStep DEF Validate

----------------------------------------------------------------------------
(* What the invariant gives.                                               *)

LEMMA VerdictFromDInv == ASSUME DInv PROVE TypeOK /\ VerdictIsRight
<1>1. pc = "failed" => ~DirectoryCorrect \/ failures \cap DocumentFailures # {}
  BY DEF DInv, StageInv
<1>2. ASSUME pc = "passed" PROVE DirectoryCorrect
  <2>1. failures = {} /\ next = Len(files) + 1
    BY <1>2 DEF DInv, StageInv
  <2>2. Exact /\ LookedGood /\ CoverageHolds /\ RegistrySound(input.registry)
    BY <1>2, <2>1 DEF DInv, NoneInv
  <2>3. DOMAIN files = 1..next - 1
    BY <2>1, FilesForm DEF DInv
  <2>4. \A s \in positiveCoverage : Covered(s, "positive", TRUE)
    BY <2>2, <2>3 DEF Covered, Exact, Looked, Valid
  <2>5. \A s \in negativeCoverage : Covered(s, "negative", FALSE)
    BY <2>2, <2>3 DEF Covered, Exact, Looked, Valid
  <2>6. \A c \in categories : \E i \in DOMAIN files : files[i].category = c
    BY <2>2, <2>3 DEF Exact, Looked
  <2>7. \A i \in DOMAIN files :
           /\ FixtureCorrect(files[i], input.registry)
           /\ \A j \in DOMAIN files : files[i].fixtureId = files[j].fixtureId => i = j
    BY <2>2, <2>3 DEF LookedGood
  <2>8. /\ \A s \in ProductionSchemas \cup C0Schemas : Covered(s, "positive", TRUE)
        /\ \A s \in C0Schemas : Covered(s, "negative", FALSE)
    BY <2>2, <2>4, <2>5 DEF CoverageHolds
  <2>9. \A c \in RequiredCategories : \E i \in DOMAIN files : files[i].category = c
    BY <2>2, <2>6 DEF CoverageHolds
  <2> QED
    BY <2>2, <2>7, <2>8, <2>9 DEF DirectoryCorrect
<1> QED
  BY <1>1, <1>2 DEF DInv, VerdictIsRight

LEMMA CommandRulesHold ==
    ASSUME Broken(CommandRules) = {}
    PROVE  /\ \A i, j \in DOMAIN live.commands :
                  live.commands[i].action = live.commands[j].action => i = j
           /\ {c.action : c \in Commands} = live.machine.actions
           /\ \A c \in Commands : (c.classification = "external_command") = (c.apiAction # Absent)
           /\ live.operation.actions = ExternalActions
<1>1. \A name \in DOMAIN CommandRules : CommandRules[name]
  BY BrokenEmpty
<1>2. {"once", "actions", "external", "enum"} \subseteq DOMAIN CommandRules
  BY DEF CommandRules
<1>3. CommandRules["once"] = \A i, j \in DOMAIN live.commands :
                                 live.commands[i].action = live.commands[j].action => i = j
  BY Zenon DEF CommandRules
<1>4. CommandRules["actions"] = ({c.action : c \in Commands} = live.machine.actions)
  BY DEF CommandRules
<1>5. CommandRules["external"] = \A c \in Commands :
          (c.classification = "external_command") = (c.apiAction # Absent)
  BY Zenon DEF CommandRules
<1>6. CommandRules["enum"] = (live.operation.actions = ExternalActions)
  BY DEF CommandRules
<1>7. CommandRules["once"] /\ CommandRules["actions"] /\ CommandRules["external"]
          /\ CommandRules["enum"]
  BY <1>1, <1>2
<1> QED
  BY <1>3, <1>4, <1>5, <1>6, <1>7, Zenon

LEMMA BindingRulesHold ==
    ASSUME Broken(BindingRules) = {}
    PROVE  CommandsBound /\ FixturesTraced /\ EventNamesManifest
<1>1. \A name \in DOMAIN BindingRules : BindingRules[name]
  BY BrokenEmpty
<1>2. {"commands", "fixtures", "event"} \subseteq DOMAIN BindingRules
  BY DEF BindingRules
<1>3. BindingRules["commands"] = CommandsBound
  BY DEF BindingRules
<1>4. BindingRules["fixtures"] = FixturesTraced
  BY DEF BindingRules
<1>5. BindingRules["event"] = (FixturesTraced => EventNamesManifest)
  BY DEF BindingRules
<1>6. BindingRules["commands"] /\ BindingRules["fixtures"] /\ BindingRules["event"]
  BY <1>1, <1>2
<1> QED
  BY <1>3, <1>4, <1>5, <1>6, Zenon

LEMMA FencedFromDInv == ASSUME DInv PROVE EveryCommandIsFenced
<1> SUFFICES ASSUME pc = "passed"
             PROVE  /\ \A a \in live.operation.actions :
                          \E c \in Commands : c.apiAction = a /\ c.action \in live.machine.actions
                    /\ \A a \in live.machine.actions :
                          Cardinality({c \in Commands : c.action = a}) = 1
                    /\ "expectedGeneration" \in Body(live.operation.requestBody).required
                    /\ Body(live.operation.requestBody).minimum = 1
  BY DEF EveryCommandIsFenced
<1>1. Broken(CommandRules) = {} /\ Broken(BindingRules) = {}
  BY DEF DInv, StageInv, NoneInv
<1>2. \A a \in live.operation.actions :
         \E c \in Commands : c.apiAction = a /\ c.action \in live.machine.actions
  BY <1>1, CommandRulesHold DEF ExternalActions
<1>3. ASSUME NEW a \in live.machine.actions
      PROVE  Cardinality({c \in Commands : c.action = a}) = 1
  <2>1. PICK c \in Commands : c.action = a
    BY <1>1, CommandRulesHold
  <2>2. \A d \in Commands : d.action = a => d = c
    BY <1>1, <2>1, CommandRulesHold DEF Commands
  <2>3. {d \in Commands : d.action = a} = {c}
    BY <2>1, <2>2
  <2> QED
    BY <2>3, FS_Singleton
<1>4. CommandsBound
  BY <1>1, BindingRulesHold
<1>5. RegisteredBody = Body(live.operation.requestBody)
  BY <1>4 DEF CommandsBound, Bound, RegisteredBody
<1> QED
  BY <1>2, <1>3, <1>4, <1>5 DEF CommandsBound

(* A traced fixture is one of the files, and the loop found it as expected. *)

LEMMA SchemaValidRule ==
    ASSUME NEW f, NEW registry, FixtureCorrect(f, registry)
    PROVE  Valid(f) = f.expected.schemaValid
<1> DEFINE R == FixtureRules(f, registry)
<1>1. R["schemaValid"] = (Valid(f) = f.expected.schemaValid) /\ "schemaValid" \in DOMAIN R
  BY DEF FixtureRules
<1>2. R["schemaValid"]
  BY <1>1 DEF FixtureCorrect
<1> QED
  BY <1>1, <1>2

LEMMA TracedFile ==
    ASSUME DInv, pc = "passed", FixturesTraced, NEW kind \in DOMAIN TracedFixtures,
           TracedFixtures[kind][2] = TRUE
    PROVE  \E i \in DOMAIN files : /\ files[i] = Names(kind) /\ Valid(files[i])
                                  /\ files[i].schemaId = TracedFixtures[kind][1]
<1> DEFINE id == live.trace.fixtures[kind]
           at == {i \in DOMAIN files : files[i].fixtureId = id}
<1>1. /\ Names(kind) # Absent
      /\ <<Names(kind).schemaId, Names(kind).expected.schemaValid>> = TracedFixtures[kind]
  BY DEF FixturesTraced
<1>2. /\ \A i \in DOMAIN files : FixtureCorrect(files[i], input.registry)
      /\ \A i, j \in DOMAIN files : files[i].fixtureId = files[j].fixtureId => i = j
  BY VerdictFromDInv, FilesForm DEF DInv, VerdictIsRight, DirectoryCorrect
<1>3. at # {}
  BY <1>1 DEF Names, FixtureById
<1>4. Names(kind) = files[CHOOSE i \in at : \A j \in at : j <= i]
  BY <1>3 DEF Names, FixtureById
<1>5. PICK i \in at : at = {i}
  BY <1>2, <1>3
<1>6. DOMAIN files \subseteq Int
  BY FilesForm DEF DInv
<1>7. (CHOOSE k \in at : \A j \in at : j <= k) = i
  BY <1>5, <1>6
<1>8. i \in DOMAIN files /\ files[i] = Names(kind)
  BY <1>4, <1>5, <1>7
<1>9. Valid(files[i]) = files[i].expected.schemaValid
  BY <1>2, <1>8, SchemaValidRule
<1> QED
  BY <1>1, <1>8, <1>9

LEMMA ReferenceFromDInv == ASSUME DInv PROVE EventIsReference
<1> SUFFICES ASSUME pc = "passed"
             PROVE  /\ Valid(Names("positiveManifest"))
                    /\ \E id \in {field[2] : field \in Names("positiveManifest").instance.data} :
                          Names("positiveEventEnvelope").instance.data = {<<"workloadId", id>>}
  BY DEF EventIsReference
<1> DEFINE M == Names("positiveManifest")
           E == Names("positiveEventEnvelope")
           ids(f) == {field[2] : field \in {g \in f.instance.data : g[1] = "workloadId"}}
<1>1. FixturesTraced /\ EventNamesManifest
  <2>1. Broken(BindingRules) = {}
    BY DEF DInv, StageInv, NoneInv
  <2> QED
    BY <2>1, BindingRulesHold
<1>2. PICK m \in DOMAIN files : files[m] = M /\ Valid(files[m]) /\ files[m].schemaId = "workload_manifest"
  BY <1>1, TracedFile DEF TracedFixtures
<1>3. PICK e \in DOMAIN files : files[e] = E /\ Valid(files[e]) /\ files[e].schemaId = "event_envelope"
  BY <1>1, TracedFile DEF TracedFixtures
<1>4. /\ \E field \in M.instance.data : field[1] = "workloadId"
      /\ \A field \in M.instance.data : field[2] # Absent
  BY <1>2, WorkloadSchemaAssumption DEF DInv, Given, files, Valid
<1>5. /\ IsFiniteSet(E.instance.data)
      /\ \A field \in E.instance.data : field = <<field[1], field[2]>>
  BY <1>3, WorkloadSchemaAssumption DEF DInv, Given, files, Valid
<1>6. /\ WorkloadId("positiveEventEnvelope") = WorkloadId("positiveManifest")
      /\ Bounded(E.instance.data)
  BY <1>1 DEF EventNamesManifest
<1>7. /\ WorkloadId("positiveManifest") \in ids(M)
      /\ WorkloadId("positiveManifest") # Absent
  <2>1. ids(M) # {}
    BY <1>4
  <2>2. WorkloadId("positiveManifest") = CHOOSE id \in ids(M) : TRUE
    BY <2>1 DEF WorkloadId
  <2>3. WorkloadId("positiveManifest") \in ids(M)
    BY <2>1, <2>2
  <2> QED
    BY <1>4, <2>3
<1>8. WorkloadId("positiveEventEnvelope") \in ids(E)
  <2>1. WorkloadId("positiveEventEnvelope") # Absent
    BY <1>6, <1>7
  <2>2. ids(E) # {}
    BY <2>1 DEF WorkloadId
  <2>3. WorkloadId("positiveEventEnvelope") = CHOOSE id \in ids(E) : TRUE
    BY <2>2 DEF WorkloadId
  <2> QED
    BY <2>2, <2>3
<1>9. PICK field \in E.instance.data : /\ field[1] = "workloadId"
                                      /\ field[2] = WorkloadId("positiveManifest")
  BY <1>6, <1>8
<1>10. E.instance.data = {field}
  BY <1>5, <1>6, <1>9, FS_Singleton DEF Bounded
<1>11. E.instance.data = {<<"workloadId", WorkloadId("positiveManifest")>>}
  BY <1>5, <1>9, <1>10
<1>12. WorkloadId("positiveManifest") \in {f[2] : f \in M.instance.data}
  BY <1>7
<1> QED
  BY <1>2, <1>11, <1>12

----------------------------------------------------------------------------
(* A file that is correct and expects no violation has none.               *)

LEMMA NoViolations ==
    ASSUME NEW f, NEW registry, FixtureCorrect(f, registry),
           Valid(f), f.expected.violation = Absent
    PROVE  /\ Broken(OwnRules(f.schemaId, f.instance, registry)) = {}
           /\ TimelineSound(f.schemaId, f.instance)
<1> DEFINE R == FixtureRules(f, registry)
           V == Violations(f.schemaId, f.instance, registry)
<1>1. R["semantic"] = AsExpected(f, IF Valid(f) THEN V ELSE {}) /\ "semantic" \in DOMAIN R
  BY DEF FixtureRules
<1>2. R["semantic"]
  BY <1>1 DEF FixtureCorrect
<1>3. AsExpected(f, V)
  BY <1>1, <1>2
<1>4. V = {}
  BY <1>3 DEF AsExpected
<1> DEFINE T == [ordering |-> TimelineSound(f.schemaId, f.instance)]
<1>5. DOMAIN T = {"ordering"} /\ T["ordering"] = TimelineSound(f.schemaId, f.instance)
  OBVIOUS
<1>6. V = Broken(OwnRules(f.schemaId, f.instance, registry)) \cup Broken(T)
  BY DEF Violations
<1> HIDE DEF T, V, R
<1>7. Broken(T) = {} <=> \A name \in DOMAIN T : T[name]
  BY BrokenEmpty
<1>8. Broken(T) = {} /\ Broken(OwnRules(f.schemaId, f.instance, registry)) = {}
  BY <1>4, <1>6
<1> QED
  BY <1>5, <1>7, <1>8, Zenon

LEMMA LeaseRulesHold ==
    ASSUME NEW l, NEW registry, Broken(OwnRules("lease", l, registry)) = {}
    PROVE  TimesSound(l) /\ (l.activationGrant # Absent => GrantSound(l.activationGrant, l))
<1> DEFINE R == OwnRules("lease", l, registry)
       g == l.activationGrant
<1>1. R = LeaseRulesOf(l, registry)
  BY DEF OwnRules
<1>2. /\ {"ordering", "generation", "window", "cap", "bound"} \subseteq DOMAIN R
      /\ R["ordering"] = TimesSound(l)
      /\ R["generation"] = (g # Absent => g.generation = l.generation)
      /\ R["window"] = (g # Absent => ~GrantExceedsWindow(g, l))
      /\ R["cap"] = (g # Absent => GrantWithinCap(g, l))
      /\ R["bound"] = (g # Absent => GrantCoversDisconnected(g, l))
  BY <1>1 DEF LeaseRulesOf
<1> HIDE DEF R
<1>3. Broken(R) = {} <=> \A name \in DOMAIN R : R[name]
  BY BrokenEmpty
<1>4. Broken(R) = {}
  BY DEF R
<1>5. R["ordering"] /\ R["generation"] /\ R["window"] /\ R["cap"] /\ R["bound"]
  BY <1>2, <1>3, <1>4
<1> QED
  BY <1>2, <1>5, Zenon DEF GrantSound

LEMMA Pairs ==
    ASSUME NEW l, TimesSound(l)
    PROVE  /\ PairOrdered(l.issuedAt, l.activateBy) /\ PairOrdered(l.activateBy, l.expiresAt)
           /\ PairOrdered(l.issuedAt, GrantedAt(l)) /\ PairOrdered(GrantedAt(l), l.activatedAt)
           /\ PairOrdered(l.activatedAt, l.activateBy)
<1>1. ASSUME NEW a, NEW b, NEW c, Ordered(<<a, b, c>>)
      PROVE  PairOrdered(a, b) /\ PairOrdered(b, c)
  BY <1>1 DEF Ordered
<1>2. ASSUME NEW a, NEW b, NEW c, NEW d, Ordered(<<a, b, c, d>>)
      PROVE  PairOrdered(a, b) /\ PairOrdered(b, c)
  BY <1>2 DEF Ordered
<1>3. ASSUME NEW a, NEW b, Ordered(<<a, b>>) PROVE PairOrdered(a, b)
  BY <1>3 DEF Ordered
<1>4. /\ Ordered(<<l.issuedAt, l.activateBy, l.expiresAt>>)
      /\ Ordered(<<l.issuedAt, GrantedAt(l), l.activatedAt, l.expiresAt>>)
      /\ Ordered(<<l.activatedAt, l.activateBy>>)
  BY Zenon DEF TimesSound, LeaseTimelines
<1> QED
  BY <1>1, <1>2, <1>3, <1>4

LEMMA AcceptedFrom ==
    ASSUME DInv, pc = "passed", NEW schemaId, NEW d \in Accepted(schemaId)
    PROVE  \E i \in DOMAIN files :
              /\ files[i].schemaId = schemaId /\ files[i].instance = d /\ Valid(files[i])
              /\ Broken(OwnRules(schemaId, d, input.registry)) = {}
<1>1. PICK i \in DOMAIN files : /\ files[i].instance = d /\ files[i].schemaId = schemaId
                                /\ Valid(files[i]) /\ files[i].expected.violation = Absent
  BY DEF Accepted
<1>2. FixtureCorrect(files[i], input.registry)
  BY VerdictFromDInv, FilesForm DEF DInv, VerdictIsRight, DirectoryCorrect
<1> QED
  BY <1>1, <1>2, NoViolations

LEMMA GrantsFromDInv ==
    ASSUME DInv, pc = "passed", NEW l \in Accepted("lease"), l.activationGrant # Absent
    PROVE  GrantFits(l)
<1> DEFINE g == l.activationGrant
<1>1. PICK i \in DOMAIN files : /\ files[i].schemaId = "lease" /\ files[i].instance = l
                                /\ Valid(files[i]) /\ Broken(OwnRules("lease", l, input.registry)) = {}
  BY AcceptedFrom
<1>2. /\ {l.issuedAt, l.activateBy, l.expiresAt} \subseteq Int \cup {Unreadable}
      /\ l.activatedAt \in Int \cup {Absent, Unreadable}
      /\ g.grantedAt \in Int \cup {Unreadable} /\ g.remainingDurationSeconds \in Int
  BY <1>1, LeaseSchemaAssumption DEF DInv, Given, files, Valid
<1>3. TimesSound(l) /\ GrantSound(g, l)
  BY <1>1, LeaseRulesHold
<1>4. GrantedAt(l) = g.grantedAt
  BY DEF GrantedAt
<1>5. ASSUME NEW a, NEW b, PairOrdered(a, b), a # Absent, b # Absent
      PROVE  Readable(a) /\ Readable(b) /\ a <= b
  BY <1>5 DEF PairOrdered
<1>6. l.issuedAt # Absent /\ l.activateBy # Absent /\ l.expiresAt # Absent /\ g.grantedAt # Absent
  BY <1>2, TimeAssumption
<1>7. /\ Readable(l.issuedAt) /\ Readable(l.activateBy) /\ Readable(l.expiresAt)
      /\ Readable(g.grantedAt) /\ l.issuedAt <= g.grantedAt
  BY <1>3, <1>4, <1>5, <1>6, Pairs
<1>8. g.grantedAt + g.remainingDurationSeconds <= l.expiresAt
  <2>1. ~Exceeds(g.remainingDurationSeconds, g.grantedAt, l.expiresAt)
    BY <1>3 DEF GrantSound, GrantExceedsWindow
  <2>2. g.grantedAt \in Int /\ l.expiresAt \in Int
    BY <1>2, <1>7 DEF Readable
  <2> QED
    BY <1>2, <1>7, <2>1, <2>2 DEF Exceeds
<1>9. l.activatedAt # Absent => GrantedAt(l) <= l.activatedAt /\ l.activatedAt <= l.activateBy
  BY <1>3, <1>4, <1>5, <1>6, Pairs
<1> QED
  BY <1>4, <1>7, <1>8, <1>9 DEF GrantFits

LEMMA ReceiptRulesHold ==
    ASSUME NEW r, NEW registry, Broken(OwnRules("usage_receipt", r, registry)) = {}
    PROVE  /\ Entry(registry, r.code).usageOutcomes # Absent =>
                  r.outcome \in Entry(registry, r.code).usageOutcomes
           /\ r.outcome = "preempted" => Entry(registry, r.code).category \in PreemptionCategories
<1> DEFINE R == OwnRules("usage_receipt", r, registry)
       entry == Entry(registry, r.code)
<1>1. R = ReceiptRules(r, registry)
  BY DEF OwnRules
<1>2. /\ {"consistent", "preemption"} \subseteq DOMAIN R
      /\ R["consistent"] = (entry.usageOutcomes # Absent => r.outcome \in entry.usageOutcomes)
      /\ R["preemption"] = (r.outcome = "preempted" => entry.category \in PreemptionCategories)
  BY <1>1 DEF ReceiptRules
<1> HIDE DEF R
<1>3. Broken(R) = {} <=> \A name \in DOMAIN R : R[name]
  BY BrokenEmpty
<1>4. Broken(R) = {}
  BY DEF R
<1> QED
  BY <1>2, <1>3, <1>4, Zenon

LEMMA EvictionsFromDInv ==
    ASSUME DInv, pc = "passed", NEW r \in Accepted("usage_receipt")
    PROVE  EvictionNamed(r)
<1> SUFFICES ASSUME NEW i \in DOMAIN input.registry, input.registry[i].code = r.code
             PROVE  /\ r.outcome = "preempted" =>
                           input.registry[i].category \in PreemptionCategories
                    /\ (/\ input.registry[i].category \in PreemptionCategories
                        /\ LeaseTargets(input.registry[i]) # {}) => r.outcome = "preempted"
  BY DEF EvictionNamed
<1>1. RegistrySound(input.registry)
  BY VerdictFromDInv DEF VerdictIsRight, DirectoryCorrect
<1>2. Entries(input.registry, r.code) = {i}
  BY <1>1 DEF RegistrySound, Entries
<1>3. Entry(input.registry, r.code) = input.registry[i]
  <2> DEFINE Latest(n) == \A j \in Entries(input.registry, r.code) : j <= n
             n == CHOOSE m \in Entries(input.registry, r.code) : Latest(m)
  <2>1. i <= i
    <3>1. i \in Nat
      BY InputAssumption DEF DInv, Given
    <3> QED
      BY <3>1
  <2>2. n = i
    BY <1>2, <2>1
  <2>3. Entry(input.registry, r.code) = input.registry[n]
    BY <1>2 DEF Entry
  <2> QED
    BY <2>2, <2>3
<1>4. /\ Entry(input.registry, r.code).usageOutcomes # Absent =>
             r.outcome \in Entry(input.registry, r.code).usageOutcomes
      /\ r.outcome = "preempted" =>
             Entry(input.registry, r.code).category \in PreemptionCategories
  BY AcceptedFrom, ReceiptRulesHold
<1>5. EntrySound(input.registry[i])
  BY <1>1 DEF RegistrySound
<1> QED
  BY <1>3, <1>4, <1>5, AbsentAssumption DEF EntrySound

LEMMA InstancesFromDInv == ASSUME DInv PROVE AcceptedInstancesHold
  BY GrantsFromDInv, EvictionsFromDInv DEF AcceptedInstancesHold, GrantFits

============================================================================
