------------------------- MODULE SbomEvidenceProofs -------------------------
(***************************************************************************)
(* The evidence of the toolchain, for any number of writers and checkers,  *)
(* any lockfiles and any number of edits.                                  *)
(***************************************************************************)
EXTENDS SbomEvidence, TLAPS

\* Metadata comes from a writer that has run to its end, and so does what a
\* checker holds; a checker that goes on has compared it with what it read.
Finished(meta) == \E w \in Writers : pc[w] = "written" /\ meta = MetadataOf(w)

MetadataInv == metadata \in Metadata => Finished(metadata)

CheckerInv ==
    \A c \in Checkers :
        /\ pc[c] \in {"read snapshot", "read checks", "passed"} =>
               held[c] \in Metadata /\ Finished(held[c])
        /\ pc[c] \in {"read checks", "passed"} =>
               held[c].packageLock = lockSha256[c] /\ held[c].snapshot.graph = generated[c]

WriterInv ==
    \A w \in Writers :
        pc[w] \in {"check absent", "open snapshot", "fill snapshot", "open metadata",
                   "fill metadata", "written"} => generated[w] \in Licensed /\ catalogued

\* A process that nobody disturbed has read the lockfile as it still is, finds
\* the evidence as it left it or as it read it.
QuietInv ==
    \A p \in Processes \ disturbed :
        /\ pc[p] # "generate" => generated[p] = Graph[lock]
        /\ pc[p] \notin {"generate", "digest"} => lockSha256[p] = Normalised[lock]

QuietChecker ==
    \A c \in Checkers \ disturbed :
        /\ pc[c] \in {"read snapshot", "read checks", "passed"} => held[c] = metadata
        /\ pc[c] \in {"read checks", "passed"} =>
               snapshot \in Snapshots /\ metadata.snapshot = Canonical(snapshot)

QuietWriter ==
    \A w \in Writers \ disturbed :
        /\ pc[w] = "fill snapshot" => snapshot = Partial
        /\ pc[w] \in {"open metadata", "fill metadata", "written"} =>
               snapshot \in Snapshots /\ Canonical(snapshot) = SnapshotOf(w)
        /\ pc[w] = "fill metadata" => metadata = Partial
        /\ pc[w] = "written" => metadata = MetadataOf(w)

SInv == /\ TypeOK /\ MetadataInv /\ CheckerInv /\ WriterInv
        /\ QuietInv /\ QuietChecker /\ QuietWriter

----------------------------------------------------------------------------
(* The documents.                                                          *)

LEMMA CanonicalForm ==
    ASSUME NEW s \in Snapshots
    PROVE  /\ Canonical(s) \in Snapshots /\ Canonical(s).graph = s.graph
           /\ \A eol \in Eols : /\ [s EXCEPT !.eol = eol] \in Snapshots
                                /\ [s EXCEPT !.eol = eol].graph = s.graph
                                /\ Canonical([s EXCEPT !.eol = eol]) = Canonical(s)
           /\ \A graph \in Graphs : [s EXCEPT !.graph = graph] \in Snapshots
  BY DEF Snapshots, Canonical, Eols

LEMMA WrittenForm ==
    ASSUME NEW w \in Writers, generated[w] \in Graphs, lockSha256[w] \in Locks
    PROVE  /\ SnapshotOf(w) \in Snapshots /\ Canonical(SnapshotOf(w)) = SnapshotOf(w)
           /\ MetadataOf(w) \in Metadata /\ MetadataOf(w).snapshot = SnapshotOf(w)
           /\ MetadataOf(w).packageLock = lockSha256[w] /\ SnapshotOf(w).graph = generated[w]
  BY DEF Snapshots, Metadata, SnapshotOf, MetadataOf, Canonical, Eols

LEMMA InitSInv == ASSUME Init PROVE SInv
<1>1. metadata \notin Metadata
  BY AbsenceAssumption DEF Init
<1>2. TypeOK
  BY BoundAssumption DEF Init, TypeOK, Labels
<1> QED
  BY <1>1, <1>2, ProcessAssumption
     DEF Init, SInv, MetadataInv, CheckerInv, WriterInv, QuietInv, QuietChecker, QuietWriter,
         Processes

----------------------------------------------------------------------------
(* One lemma per step.                                                     *)

\* A process that moves on and reads nothing takes nothing back of what is finished,
LEMMA FinishedStays ==
    ASSUME TypeOK, NEW p \in Processes, NEW label, pc[p] # "written",
           pc' = [pc EXCEPT ![p] = label], UNCHANGED <<generated, lockSha256>>
    PROVE  \A meta : Finished(meta) => Finished(meta)'
<1> SUFFICES ASSUME NEW w \in Writers, pc[w] = "written"
             PROVE  pc'[w] = "written" /\ MetadataOf(w)' = MetadataOf(w)
  BY DEF Finished
<1>1. pc'[w] = pc[w]
  BY DEF TypeOK, Processes
<1> QED
  BY <1>1 DEF MetadataOf, SnapshotOf

\* nor of what the checkers hold,
LEMMA CheckerStays ==
    ASSUME TypeOK, CheckerInv, NEW p \in Processes, NEW label, pc[p] # "written",
           pc' = [pc EXCEPT ![p] = label], UNCHANGED <<generated, lockSha256, held>>,
           p \in Checkers => label \notin {"read snapshot", "read checks", "passed"}
    PROVE  CheckerInv'
<1>1. \A meta : Finished(meta) => Finished(meta)'
  BY FinishedStays
<1> SUFFICES ASSUME NEW c \in Checkers,
                    pc'[c] \in {"read snapshot", "read checks", "passed"}
             PROVE  /\ held[c] \in Metadata /\ Finished(held[c])'
                    /\ pc'[c] \in {"read checks", "passed"} =>
                           /\ held[c].packageLock = lockSha256[c]
                           /\ held[c].snapshot.graph = generated[c]
  BY DEF CheckerInv
<1>2. c \in Processes /\ pc \in [Processes -> Labels]
  BY DEF TypeOK, Processes
<1>3. c # p /\ pc'[c] = pc[c]
  BY <1>2
<1> QED
  BY <1>1, <1>3 DEF CheckerInv

\* and a writer leaves no other process undisturbed that has started.
LEMMA OnlyTheWriterIsQuiet ==
    ASSUME TypeOK, NEW w \in Writers, NEW label, WriteBy(w),
           pc' = [pc EXCEPT ![w] = label], NEW p \in Processes \ disturbed', p # w
    PROVE  p \notin disturbed /\ pc[p] = "generate" /\ pc'[p] = "generate"
  BY DEF TypeOK, WriteBy, Started, Processes

\* A checker's step concerns no writer.
LEMMA WritersUnconcerned ==
    ASSUME TypeOK, MetadataInv, WriterInv, QuietWriter, NEW c \in Checkers, NEW label,
           pc' = [pc EXCEPT ![c] = label],
           UNCHANGED <<evidence, hands, generated, lockSha256, disturbed>>
    PROVE  MetadataInv' /\ WriterInv' /\ QuietWriter'
<1>1. \A w \in Writers : pc'[w] = pc[w]
  BY ProcessAssumption DEF TypeOK, Processes
<1>2. MetadataInv'
  BY <1>1 DEF MetadataInv, Finished, MetadataOf, SnapshotOf, evidence
<1>3. WriterInv'
  BY <1>1 DEF WriterInv, hands
<1>4. QuietWriter'
  BY <1>1 DEF QuietWriter, MetadataOf, SnapshotOf, Canonical, evidence
<1> QED
  BY <1>2, <1>3, <1>4

LEMMA GenerateStep == ASSUME SInv, NEW p \in Processes, Generate(p) PROVE SInv'
<1> USE DEF Generate, Goto, evidence, hands, SInv
<1>1. TypeOK'
  BY LockAssumption DEF TypeOK, Labels
<1>2. MetadataInv'
  BY DEF MetadataInv, Finished, MetadataOf, SnapshotOf, Processes, TypeOK
<1>3. CheckerInv'
  BY DEF CheckerInv, Finished, MetadataOf, SnapshotOf, Processes, TypeOK
<1>4. WriterInv'
  BY DEF WriterInv, Processes, TypeOK
<1>5. QuietInv'
  BY DEF QuietInv, Processes, TypeOK
<1>6. QuietChecker'
  BY DEF QuietChecker, Processes, TypeOK
<1>7. QuietWriter'
  BY DEF QuietWriter, Processes, TypeOK, SnapshotOf, MetadataOf
<1> QED
  BY <1>1, <1>2, <1>3, <1>4, <1>5, <1>6, <1>7

LEMMA DigestStep == ASSUME SInv, NEW p \in Processes, DigestLock(p) PROVE SInv'
<1> USE DEF DigestLock, Goto, evidence, hands, local, SInv
<1>1. TypeOK'
  BY LockAssumption DEF TypeOK, Labels
<1>2. MetadataInv'
  BY DEF MetadataInv, Finished, MetadataOf, SnapshotOf, Processes, TypeOK
<1>3. CheckerInv'
  BY DEF CheckerInv, Finished, MetadataOf, SnapshotOf, Processes, TypeOK
<1>4. WriterInv'
  BY DEF WriterInv, Processes, TypeOK
<1>5. QuietInv'
  BY DEF QuietInv, Processes, TypeOK
<1>6. QuietChecker'
  BY DEF QuietChecker, Processes, TypeOK
<1>7. QuietWriter'
  BY DEF QuietWriter, Processes, TypeOK, SnapshotOf, MetadataOf
<1> QED
  BY <1>1, <1>2, <1>3, <1>4, <1>5, <1>6, <1>7

LEMMA AdmitStep == ASSUME SInv, NEW p \in Processes, Admit(p) PROVE SInv'
<1> USE DEF Admit, Goto, evidence, hands, local, SInv
<1>1. TypeOK'
  BY ProcessAssumption DEF TypeOK, Labels
<1>2. MetadataInv'
  BY ProcessAssumption DEF MetadataInv, Finished, MetadataOf, SnapshotOf, Processes, TypeOK
<1>3. CheckerInv'
  BY CheckerStays
<1>4. WriterInv'
  BY ProcessAssumption DEF WriterInv, Processes, TypeOK
<1>5. QuietInv'
  BY ProcessAssumption DEF QuietInv, Processes, TypeOK
<1>6. QuietChecker'
  BY ProcessAssumption DEF QuietChecker, Processes, TypeOK
<1>7. QuietWriter'
  BY ProcessAssumption DEF QuietWriter, Processes, TypeOK, SnapshotOf, MetadataOf
<1> QED
  BY <1>1, <1>2, <1>3, <1>4, <1>5, <1>6, <1>7

LEMMA ReadMetadataStep == ASSUME SInv, NEW c \in Checkers, ReadMetadata(c) PROVE SInv'
<1> USE DEF ReadMetadata, Goto, evidence, hands, local, SInv
<1>1. TypeOK'
  BY ProcessAssumption DEF TypeOK, Labels
<1>2. MetadataInv'
  BY WritersUnconcerned
<1>3. CheckerInv'
  <2>0. c \in Processes
    BY DEF Processes
  <2>1. \A meta : Finished(meta) => Finished(meta)'
    BY <2>0, FinishedStays
  <2> SUFFICES ASSUME NEW d \in Checkers
               PROVE  /\ pc'[d] \in {"read snapshot", "read checks", "passed"} =>
                            held'[d] \in Metadata /\ Finished(held[d])'
                      /\ pc'[d] \in {"read checks", "passed"} =>
                            /\ held'[d].packageLock = lockSha256[d]
                            /\ held'[d].snapshot.graph = generated[d]
    BY DEF CheckerInv
  <2>2. CASE d = c
    BY <2>1, <2>2 DEF MetadataInv, TypeOK, Processes
  <2>3. CASE d # c
    <3>1. pc'[d] = pc[d] /\ held'[d] = held[d]
      BY <2>3 DEF TypeOK, Processes
    <3> QED
      BY <2>1, <3>1 DEF CheckerInv
  <2> QED
    BY <2>2, <2>3
<1>4. WriterInv'
  BY WritersUnconcerned
<1>5. QuietInv'
  BY ProcessAssumption DEF QuietInv, Processes, TypeOK
<1>6. QuietChecker'
  <2> SUFFICES ASSUME NEW d \in Checkers \ disturbed
               PROVE  /\ pc'[d] \in {"read snapshot", "read checks", "passed"} =>
                            held'[d] = metadata
                      /\ pc'[d] \in {"read checks", "passed"} =>
                            snapshot \in Snapshots /\ metadata.snapshot = Canonical(snapshot)
    BY DEF QuietChecker, Canonical
  <2>1. CASE d = c
    BY <2>1 DEF TypeOK, Processes
  <2>2. CASE d # c
    <3>1. pc'[d] = pc[d] /\ held'[d] = held[d]
      BY <2>2 DEF TypeOK, Processes
    <3> QED
      BY <3>1 DEF QuietChecker
  <2> QED
    BY <2>1, <2>2
<1>7. QuietWriter'
  BY WritersUnconcerned
<1> QED
  BY <1>1, <1>2, <1>3, <1>4, <1>5, <1>6, <1>7

LEMMA ReadSnapshotStep == ASSUME SInv, NEW c \in Checkers, ReadSnapshot(c) PROVE SInv'
<1> USE DEF ReadSnapshot, Agrees, Goto, evidence, hands, local, SInv
<1>1. TypeOK'
  BY ProcessAssumption, CanonicalForm DEF TypeOK, Labels
<1>2. MetadataInv'
  BY WritersUnconcerned
<1>3. CheckerInv'
  <2>0. c \in Processes
    BY DEF Processes
  <2>1. \A meta : Finished(meta) => Finished(meta)'
    BY <2>0, FinishedStays
  <2>2. pc'[c] = "read checks" =>
            held[c].packageLock = lockSha256[c] /\ held[c].snapshot.graph = generated[c]
    BY CanonicalForm DEF Processes, TypeOK
  <2>3. \A d \in Checkers \ {c} : pc'[d] = pc[d]
    BY DEF Processes, TypeOK
  <2>4. pc[c] = "read snapshot" /\ pc'[c] \in {"read checks", "failed"}
    BY DEF Processes, TypeOK
  <2> QED
    BY <2>1, <2>2, <2>3, <2>4 DEF CheckerInv
<1>4. WriterInv'
  BY WritersUnconcerned
<1>5. QuietInv'
  BY ProcessAssumption, CanonicalForm DEF QuietInv, Processes, TypeOK
<1>6. QuietChecker'
  BY ProcessAssumption, CanonicalForm DEF QuietChecker, Processes, TypeOK
<1>7. QuietWriter'
  BY WritersUnconcerned
<1> QED
  BY <1>1, <1>2, <1>3, <1>4, <1>5, <1>6, <1>7

LEMMA ReadChecksStep == ASSUME SInv, NEW c \in Checkers, ReadChecks(c) PROVE SInv'
<1> USE DEF ReadChecks, Goto, evidence, hands, local, SInv
<1>1. TypeOK'
  BY ProcessAssumption DEF TypeOK, Labels
<1>2. MetadataInv'
  BY WritersUnconcerned
<1>3. CheckerInv'
  <2>1. c \in Processes
    BY DEF Processes
  <2>2. \A meta : Finished(meta) => Finished(meta)'
    BY <2>1, FinishedStays
  <2> QED
    BY <2>1, <2>2 DEF CheckerInv, TypeOK, Processes
<1>4. WriterInv'
  BY WritersUnconcerned
<1>5. QuietInv'
  BY ProcessAssumption DEF QuietInv, Processes, TypeOK
<1>6. QuietChecker'
  BY ProcessAssumption DEF QuietChecker, Processes, TypeOK
<1>7. QuietWriter'
  BY WritersUnconcerned
<1> QED
  BY <1>1, <1>2, <1>3, <1>4, <1>5, <1>6, <1>7

LEMMA CheckAbsentStep == ASSUME SInv, NEW w \in Writers, CheckAbsent(w) PROVE SInv'
<1> USE DEF CheckAbsent, Goto, evidence, hands, local, SInv
<1>1. TypeOK'
  BY ProcessAssumption DEF TypeOK, Labels
<1>2. MetadataInv'
  BY ProcessAssumption DEF MetadataInv, Finished, MetadataOf, SnapshotOf, Processes, TypeOK
<1>3. CheckerInv'
  <2>1. w \in Processes /\ w \notin Checkers
    BY ProcessAssumption DEF Processes
  <2> QED
    BY <2>1, CheckerStays
<1>4. WriterInv'
  BY ProcessAssumption DEF WriterInv, Processes, TypeOK
<1>5. QuietInv'
  BY ProcessAssumption DEF QuietInv, Processes, TypeOK
<1>6. QuietChecker'
  BY ProcessAssumption DEF QuietChecker, Processes, TypeOK
<1>7. QuietWriter'
  BY ProcessAssumption DEF QuietWriter, Processes, TypeOK, SnapshotOf, MetadataOf
<1> QED
  BY <1>1, <1>2, <1>3, <1>4, <1>5, <1>6, <1>7

LEMMA OpenSnapshotStep == ASSUME SInv, NEW w \in Writers, OpenSnapshot(w) PROVE SInv'
<1> USE DEF OpenSnapshot, WriteBy, Started, Goto, evidence, hands, local, SInv
<1>1. TypeOK'
  BY ProcessAssumption, AbsenceAssumption, WrittenForm DEF TypeOK, Labels
<1>2. MetadataInv'
  BY ProcessAssumption, AbsenceAssumption, WrittenForm DEF MetadataInv, Finished, MetadataOf, SnapshotOf, Processes, TypeOK
<1>3. CheckerInv'
  <2>1. w \in Processes /\ w \notin Checkers
    BY ProcessAssumption DEF Processes
  <2> QED
    BY <2>1, CheckerStays
<1>4. WriterInv'
  BY ProcessAssumption, AbsenceAssumption, WrittenForm DEF WriterInv, Processes, TypeOK
<1>5. QuietInv'
  BY ProcessAssumption, AbsenceAssumption, WrittenForm DEF QuietInv, Processes, TypeOK
<1>6. QuietChecker'
  BY ProcessAssumption, AbsenceAssumption, WrittenForm DEF QuietChecker, Processes, TypeOK
<1>7. QuietWriter'
  BY ProcessAssumption, AbsenceAssumption, WrittenForm DEF QuietWriter, Processes, TypeOK, SnapshotOf, MetadataOf
<1> QED
  BY <1>1, <1>2, <1>3, <1>4, <1>5, <1>6, <1>7

LEMMA FillSnapshotStep == ASSUME SInv, NEW w \in Writers, FillSnapshot(w) PROVE SInv'
<1> USE DEF FillSnapshot, Filled, WriteBy, Started, Goto, evidence, hands, local, SInv
<1>1. TypeOK'
  <2>1. generated[w] \in Graphs /\ lockSha256[w] \in Locks
    BY DEF TypeOK, Processes
  <2>2. snapshot' \in {SnapshotOf(w), Partial}
    OBVIOUS
  <2>3. snapshot' \in Snapshots \cup {Absent, Partial}
    BY <2>1, <2>2, WrittenForm
  <2> QED
    BY <2>3 DEF TypeOK, Labels, Processes
<1>2. MetadataInv'
  BY ProcessAssumption, AbsenceAssumption, WrittenForm DEF MetadataInv, Finished, MetadataOf, SnapshotOf, Processes, TypeOK
<1>3. CheckerInv'
  <2>1. w \in Processes /\ w \notin Checkers
    BY ProcessAssumption DEF Processes
  <2> QED
    BY <2>1, CheckerStays
<1>4. WriterInv'
  BY ProcessAssumption, AbsenceAssumption, WrittenForm DEF WriterInv, Processes, TypeOK
<1>5. QuietInv'
  BY ProcessAssumption, AbsenceAssumption, WrittenForm DEF QuietInv, Processes, TypeOK
<1>6. QuietChecker'
  BY ProcessAssumption, AbsenceAssumption, WrittenForm DEF QuietChecker, Processes, TypeOK
<1>7. QuietWriter'
  <2> SUFFICES ASSUME NEW v \in Writers \ disturbed'
               PROVE  /\ pc'[v] \notin {"fill snapshot", "fill metadata", "written"}
                      /\ pc'[v] = "open metadata" =>
                             snapshot' \in Snapshots /\ Canonical(snapshot') = SnapshotOf(v)
    BY DEF QuietWriter, SnapshotOf, MetadataOf, Canonical
  <2>1. CASE v # w
    BY <2>1, OnlyTheWriterIsQuiet DEF Processes
  <2>2. CASE v = w
    <3>1. v \notin disturbed /\ pc'[v] = "open metadata"
      BY <2>2 DEF TypeOK, Processes
    <3>2. generated[w] \in Graphs /\ lockSha256[w] \in Locks
      BY DEF TypeOK, Processes
    <3>3. snapshot' = SnapshotOf(w)
      BY <2>2, <3>1 DEF QuietWriter
    <3> QED
      BY <2>2, <3>1, <3>2, <3>3, WrittenForm
  <2> QED
    BY <2>1, <2>2
<1> QED
  BY <1>1, <1>2, <1>3, <1>4, <1>5, <1>6, <1>7

LEMMA OpenMetadataStep == ASSUME SInv, NEW w \in Writers, OpenMetadata(w) PROVE SInv'
<1> USE DEF OpenMetadata, WriteBy, Started, Goto, evidence, hands, local, SInv
<1>1. TypeOK'
  BY ProcessAssumption, AbsenceAssumption, WrittenForm DEF TypeOK, Labels
<1>2. MetadataInv'
  BY ProcessAssumption, AbsenceAssumption, WrittenForm DEF MetadataInv, Finished, MetadataOf, SnapshotOf, Processes, TypeOK
<1>3. CheckerInv'
  <2>1. w \in Processes /\ w \notin Checkers
    BY ProcessAssumption DEF Processes
  <2> QED
    BY <2>1, CheckerStays
<1>4. WriterInv'
  BY ProcessAssumption, AbsenceAssumption, WrittenForm DEF WriterInv, Processes, TypeOK
<1>5. QuietInv'
  BY ProcessAssumption, AbsenceAssumption, WrittenForm DEF QuietInv, Processes, TypeOK
<1>6. QuietChecker'
  BY ProcessAssumption, AbsenceAssumption, WrittenForm DEF QuietChecker, Processes, TypeOK
<1>7. QuietWriter'
  BY ProcessAssumption, AbsenceAssumption, WrittenForm DEF QuietWriter, Processes, TypeOK, SnapshotOf, MetadataOf
<1> QED
  BY <1>1, <1>2, <1>3, <1>4, <1>5, <1>6, <1>7

LEMMA FillMetadataStep == ASSUME SInv, NEW w \in Writers, FillMetadata(w) PROVE SInv'
<1> USE DEF FillMetadata, Filled, WriteBy, Started, Goto, evidence, hands, local, SInv
<1>1. TypeOK'
  <2>1. generated[w] \in Graphs /\ lockSha256[w] \in Locks
    BY DEF TypeOK, Processes
  <2>2. metadata' \in {MetadataOf(w), Partial}
    OBVIOUS
  <2>3. metadata' \in Metadata \cup {Absent, Partial}
    BY <2>1, <2>2, WrittenForm
  <2> QED
    BY <2>3 DEF TypeOK, Labels, Processes
<1>2. MetadataInv'
  BY ProcessAssumption, AbsenceAssumption, WrittenForm DEF MetadataInv, Finished, MetadataOf, SnapshotOf, Processes, TypeOK
<1>3. CheckerInv'
  <2>1. w \in Processes /\ w \notin Checkers
    BY ProcessAssumption DEF Processes
  <2> QED
    BY <2>1, CheckerStays
<1>4. WriterInv'
  BY ProcessAssumption, AbsenceAssumption, WrittenForm DEF WriterInv, Processes, TypeOK
<1>5. QuietInv'
  BY ProcessAssumption, AbsenceAssumption, WrittenForm DEF QuietInv, Processes, TypeOK
<1>6. QuietChecker'
  BY ProcessAssumption, AbsenceAssumption, WrittenForm DEF QuietChecker, Processes, TypeOK
<1>7. QuietWriter'
  <2> SUFFICES ASSUME NEW v \in Writers \ disturbed'
               PROVE  /\ pc'[v] \notin {"fill snapshot", "fill metadata"}
                      /\ pc'[v] \in {"open metadata", "written"} =>
                             snapshot \in Snapshots /\ Canonical(snapshot) = SnapshotOf(v)
                      /\ pc'[v] = "written" => metadata' = MetadataOf(v)
    BY DEF QuietWriter, SnapshotOf, MetadataOf
  <2>1. CASE v # w
    BY <2>1, OnlyTheWriterIsQuiet DEF Processes
  <2>2. CASE v = w
    <3>1. v \notin disturbed /\ pc'[v] = "written"
      BY <2>2 DEF TypeOK, Processes
    <3> QED
      BY <2>2, <3>1 DEF QuietWriter
  <2> QED
    BY <2>1, <2>2
<1> QED
  BY <1>1, <1>2, <1>3, <1>4, <1>5, <1>6, <1>7

LEMMA EditStep == ASSUME SInv, NEW l \in Locks, Edit(l) PROVE SInv'
<1> USE DEF Edit, Started, evidence, hands, local, SInv
<1>1. TypeOK'
  <2>1. edits' \in 0..MaxEdits
    BY BoundAssumption DEF TypeOK
  <2>2. disturbed' \subseteq Processes
    BY DEF TypeOK
  <2> QED
    BY <2>1, <2>2 DEF TypeOK, Labels
<1>2. MetadataInv'
  BY LockAssumption, BoundAssumption DEF MetadataInv, Finished, MetadataOf, SnapshotOf, Processes, TypeOK
<1>3. CheckerInv'
  BY LockAssumption, BoundAssumption DEF CheckerInv, Finished, MetadataOf, SnapshotOf, Processes, TypeOK
<1>4. WriterInv'
  BY LockAssumption, BoundAssumption DEF WriterInv, Processes, TypeOK
<1>5. QuietInv'
  BY LockAssumption, BoundAssumption DEF QuietInv, Processes, TypeOK
<1>6. QuietChecker'
  BY LockAssumption, BoundAssumption DEF QuietChecker, Processes, TypeOK
<1>7. QuietWriter'
  BY LockAssumption, BoundAssumption DEF QuietWriter, Processes, TypeOK, SnapshotOf, MetadataOf
<1> QED
  BY <1>1, <1>2, <1>3, <1>4, <1>5, <1>6, <1>7

LEMMA CheckoutStep == ASSUME SInv, NEW eol \in Eols, Checkout(eol) PROVE SInv'
<1> USE DEF Checkout, evidence, hands, local, SInv
<1>1. TypeOK'
  BY CanonicalForm DEF TypeOK, Labels
<1>2. MetadataInv'
  BY CanonicalForm DEF MetadataInv, Finished, MetadataOf, SnapshotOf, Processes, TypeOK
<1>3. CheckerInv'
  BY CanonicalForm DEF CheckerInv, Finished, MetadataOf, SnapshotOf, Processes, TypeOK
<1>4. WriterInv'
  BY CanonicalForm DEF WriterInv, Processes, TypeOK
<1>5. QuietInv'
  BY CanonicalForm DEF QuietInv, Processes, TypeOK
<1>6. QuietChecker'
  BY CanonicalForm DEF QuietChecker, Processes, TypeOK
<1>7. QuietWriter'
  <2>1. snapshot' \in Snapshots /\ Canonical(snapshot') = Canonical(snapshot) /\ snapshot # Partial
    BY CanonicalForm, AbsenceAssumption
  <2>2. \A w \in Writers : SnapshotOf(w)' = SnapshotOf(w) /\ MetadataOf(w)' = MetadataOf(w)
    BY DEF SnapshotOf, MetadataOf
  <2> QED
    BY <2>1, <2>2 DEF QuietWriter
<1> QED
  BY <1>1, <1>2, <1>3, <1>4, <1>5, <1>6, <1>7

LEMMA ModifyStep == ASSUME SInv, NEW graph \in Graphs, Modify(graph) PROVE SInv'
<1> USE DEF Modify, Started, evidence, hands, local, SInv
<1>1. TypeOK'
  <2>1. modifications' \in 0..MaxModifications
    BY BoundAssumption DEF TypeOK
  <2>2. disturbed' \subseteq Processes
    BY DEF TypeOK
  <2>3. snapshot' \in Snapshots
    BY CanonicalForm
  <2> QED
    BY <2>1, <2>2, <2>3 DEF TypeOK, Labels
<1>2. MetadataInv'
  BY CanonicalForm, BoundAssumption DEF MetadataInv, Finished, MetadataOf, SnapshotOf, Processes, TypeOK
<1>3. CheckerInv'
  BY CanonicalForm, BoundAssumption DEF CheckerInv, Finished, MetadataOf, SnapshotOf, Processes, TypeOK
<1>4. WriterInv'
  BY CanonicalForm, BoundAssumption DEF WriterInv, Processes, TypeOK
<1>5. QuietInv'
  BY CanonicalForm, BoundAssumption DEF QuietInv, Processes, TypeOK
<1>6. QuietChecker'
  BY CanonicalForm, BoundAssumption DEF QuietChecker, Processes, TypeOK
<1>7. QuietWriter'
  BY CanonicalForm, BoundAssumption DEF QuietWriter, Processes, TypeOK, SnapshotOf, MetadataOf
<1> QED
  BY <1>1, <1>2, <1>3, <1>4, <1>5, <1>6, <1>7

LEMMA RenewStep == ASSUME SInv, RenewChecks PROVE SInv'
<1> USE DEF RenewChecks, evidence, hands, local, SInv
<1>1. TypeOK'
  BY DEF TypeOK, Labels
<1>2. MetadataInv'
  BY DEF MetadataInv, Finished, MetadataOf, SnapshotOf, Processes, TypeOK
<1>3. CheckerInv'
  BY DEF CheckerInv, Finished, MetadataOf, SnapshotOf, Processes, TypeOK
<1>4. WriterInv'
  BY DEF WriterInv, Processes, TypeOK
<1>5. QuietInv'
  BY DEF QuietInv, Processes, TypeOK
<1>6. QuietChecker'
  BY DEF QuietChecker, Processes, TypeOK
<1>7. QuietWriter'
  BY DEF QuietWriter, Processes, TypeOK, SnapshotOf, MetadataOf
<1> QED
  BY <1>1, <1>2, <1>3, <1>4, <1>5, <1>6, <1>7

LEMMA StutterStep == ASSUME SInv, UNCHANGED vars PROVE SInv'
<1> USE DEF vars, evidence, hands, local, SInv
<1>1. TypeOK'
  BY DEF TypeOK, Labels
<1>2. MetadataInv'
  BY DEF MetadataInv, Finished, MetadataOf, SnapshotOf, Processes, TypeOK
<1>3. CheckerInv'
  BY DEF CheckerInv, Finished, MetadataOf, SnapshotOf, Processes, TypeOK
<1>4. WriterInv'
  BY DEF WriterInv, Processes, TypeOK
<1>5. QuietInv'
  BY DEF QuietInv, Processes, TypeOK
<1>6. QuietChecker'
  BY DEF QuietChecker, Processes, TypeOK
<1>7. QuietWriter'
  BY DEF QuietWriter, Processes, TypeOK, SnapshotOf, MetadataOf
<1> QED
  BY <1>1, <1>2, <1>3, <1>4, <1>5, <1>6, <1>7

LEMMA NextSInv == ASSUME SInv, [Next]_vars PROVE SInv'
<1>1. CASE \E p \in Processes : Prepare(p)
  BY <1>1, GenerateStep, DigestStep, AdmitStep DEF Prepare
<1>2. CASE \E c \in Checkers : Check(c)
  BY <1>2, ReadMetadataStep, ReadSnapshotStep, ReadChecksStep DEF Check
<1>3. CASE \E w \in Writers : Write(w)
  BY <1>3, CheckAbsentStep, OpenSnapshotStep, FillSnapshotStep, OpenMetadataStep,
     FillMetadataStep DEF Write
<1>4. CASE \E l \in Locks : Edit(l)
  BY <1>4, EditStep
<1>5. CASE \E eol \in Eols : Checkout(eol)
  BY <1>5, CheckoutStep
<1>6. CASE \E graph \in Graphs : Modify(graph)
  BY <1>6, ModifyStep
<1>7. CASE RenewChecks
  BY <1>7, RenewStep
<1>8. CASE UNCHANGED vars
  BY <1>8, StutterStep
<1> QED
  BY <1>1, <1>2, <1>3, <1>4, <1>5, <1>6, <1>7, <1>8 DEF Next

----------------------------------------------------------------------------
\* The inductive invariant holds in every run, for any number of processes.
THEOREM EvidenceInvariant == Spec => []SInv
<1>1. Init => SInv
  BY InitSInv
<1>2. SInv /\ [Next]_vars => SInv'
  BY NextSInv
<1> QED
  BY <1>1, <1>2, PTL DEF Spec

\* The files and what each process has read keep their types: nothing is
\* compared before both readings of the lockfile are done.
THEOREM EvidenceTypeCorrect == Spec => []TypeOK
<1>1. SInv => TypeOK
  BY DEF SInv
<1> QED
  BY <1>1, EvidenceInvariant, PTL

\* What a check passes was written by one process that ran to its end, and that
\* process read of the lockfile what the check read (lines 72-91).
THEOREM PassesOneRunOnly == Spec => []PassIsOneRun
<1>1. ASSUME SInv, NEW c \in Checkers, pc[c] = "passed"
      PROVE  \E w \in Writers :
                /\ pc[w] = "written" /\ held[c] = MetadataOf(w)
                /\ generated[c] = generated[w] /\ lockSha256[c] = lockSha256[w]
  <2>1. PICK w \in Writers : pc[w] = "written" /\ held[c] = MetadataOf(w)
    BY <1>1 DEF SInv, CheckerInv, Finished
  <2>2. generated[w] \in Graphs /\ lockSha256[w] \in Locks
    BY <1>1, <2>1 DEF SInv, TypeOK, Processes
  <2>3. held[c].packageLock = lockSha256[w] /\ held[c].snapshot.graph = generated[w]
    BY <2>1, <2>2, WrittenForm
  <2>4. held[c].packageLock = lockSha256[c] /\ held[c].snapshot.graph = generated[c]
    BY <1>1 DEF SInv, CheckerInv
  <2> QED
    BY <2>1, <2>3, <2>4
<1>2. SInv => PassIsOneRun
  BY <1>1 DEF PassIsOneRun
<1> QED
  BY <1>2, EvidenceInvariant, PTL

\* While nothing is written or edited after it began, a check that has passed
\* has passed the evidence of the lockfile as it is.
THEOREM QuietPassCurrent == Spec => []QuietPassIsCurrent
<1>1. ASSUME SInv, NEW c \in Checkers \ disturbed, pc[c] = "passed" PROVE Describes(lock)
  <2>1. /\ held[c] = metadata /\ snapshot \in Snapshots
        /\ metadata.snapshot = Canonical(snapshot)
    BY <1>1 DEF SInv, QuietChecker
  <2>2. /\ held[c] \in Metadata
        /\ held[c].packageLock = lockSha256[c] /\ held[c].snapshot.graph = generated[c]
    BY <1>1 DEF SInv, CheckerInv
  <2>3. lockSha256[c] = Normalised[lock] /\ generated[c] = Graph[lock]
    BY <1>1 DEF SInv, QuietInv, Processes
  <2>4. Canonical(snapshot).graph = snapshot.graph
    BY <2>1, CanonicalForm
  <2> QED
    BY <2>1, <2>2, <2>3, <2>4 DEF Describes
<1>2. SInv => QuietPassIsCurrent
  BY <1>1 DEF QuietPassIsCurrent
<1> QED
  BY <1>2, EvidenceInvariant, PTL

LEMMA QuietWriteFromSInv ==
    ASSUME SInv, QuietlyWritten
    PROVE  Describes(lock) /\ snapshot.graph \in Licensed /\ catalogued
<1>1. PICK w \in Writers \ disturbed : pc[w] = "written"
  BY DEF QuietlyWritten
<1>2. /\ snapshot \in Snapshots /\ Canonical(snapshot) = SnapshotOf(w) /\ metadata = MetadataOf(w)
  BY <1>1 DEF SInv, QuietWriter
<1>3. lockSha256[w] = Normalised[lock] /\ generated[w] = Graph[lock]
  BY <1>1 DEF SInv, QuietInv, Processes
<1>4. generated[w] \in Graphs /\ lockSha256[w] \in Locks
  BY <1>1 DEF SInv, TypeOK, Processes
<1>5. generated[w] \in Licensed /\ catalogued
  BY <1>1 DEF SInv, WriterInv
<1>6. snapshot.graph = generated[w]
  BY <1>2, <1>4, CanonicalForm, WrittenForm
<1> QED
  BY <1>2, <1>3, <1>4, <1>5, <1>6, WrittenForm DEF Describes

\* A writer that nobody disturbed has left evidence of the lockfile, licensed,
\* whatever was left before it (lines 93-110).
THEOREM QuietWriteCurrent == Spec => []QuietWriteDescribes
<1>1. SInv => QuietWriteDescribes
  BY QuietWriteFromSInv DEF QuietWriteDescribes
<1> QED
  BY <1>1, EvidenceInvariant, PTL

\* No step makes a check fail that nobody disturbs, as long as the evidence was
\* written undisturbed and the dated checks are those of the lockfile: line
\* endings, earlier writers and edits before it raise no alarm.
THEOREM NoAlarmIsFalse == Spec => NoFalseAlarm
<1>1. ASSUME SInv, [Next]_vars, QuietlyWritten, checks = ChecksOf(lock),
             NEW c \in Checkers \ disturbed, pc[c] # "failed"
      PROVE  pc'[c] # "failed"
  <2>1. /\ Describes(lock) /\ snapshot.graph \in Licensed /\ catalogued
    BY <1>1, QuietWriteFromSInv
  <2>2. /\ pc[c] # "generate" => generated[c] = Graph[lock]
        /\ pc[c] \notin {"generate", "digest"} => lockSha256[c] = Normalised[lock]
    BY <1>1 DEF SInv, QuietInv, Processes
  <2>3. pc[c] \in {"read snapshot", "read checks", "passed"} => held[c] = metadata
    BY <1>1 DEF SInv, QuietChecker
  <2>4. pc \in [Processes -> Labels] /\ c \in Processes
    BY <1>1 DEF SInv, TypeOK, Processes
  <2>5. CASE \E p \in Processes : Prepare(p)
    BY <1>1, <2>1, <2>2, <2>4, <2>5 DEF Prepare, Generate, DigestLock, Admit, Goto, Describes
  <2>6. CASE \E d \in Checkers : Check(d)
    <3> PICK d \in Checkers : Check(d)
      BY <2>6
    <3>1. CASE ReadMetadata(d)
      BY <1>1, <2>1, <2>4, <3>1 DEF ReadMetadata, Goto, Describes
    <3>2. CASE ReadSnapshot(d)
      BY <1>1, <2>1, <2>2, <2>3, <2>4, <3>2 DEF ReadSnapshot, Agrees, Goto, Describes
    <3>3. CASE ReadChecks(d)
      BY <1>1, <2>2, <2>4, <3>3 DEF ReadChecks, Goto, ChecksOf
    <3> QED
      BY <3>1, <3>2, <3>3 DEF Check
  <2>7. CASE \E w \in Writers : Write(w)
    BY <1>1, <2>4, <2>7
       DEF Write, CheckAbsent, OpenSnapshot, FillSnapshot, OpenMetadata, FillMetadata, Goto
  <2>8. CASE \/ \E l \in Locks : Edit(l)
             \/ \E eol \in Eols : Checkout(eol)
             \/ \E graph \in Graphs : Modify(graph)
             \/ RenewChecks
             \/ UNCHANGED vars
    BY <1>1, <2>8 DEF Edit, Checkout, Modify, RenewChecks, vars, local
  <2> QED
    BY <1>1, <2>5, <2>6, <2>7, <2>8 DEF Next
<1>2. SInv /\ [Next]_vars =>
         [(QuietlyWritten /\ checks = ChecksOf(lock)) =>
             \A c \in Checkers \ disturbed : pc[c] # "failed" => pc'[c] # "failed"]_vars
  BY <1>1
<1> QED
  BY <1>2, EvidenceInvariant, PTL DEF Spec, NoFalseAlarm

----------------------------------------------------------------------------
(* What reaches the evidence, and how far the refusal to overwrite goes.   *)

\* A snapshot that no other hand has changed is of a licensed graph.
SnapshotInv == (modifications = 0 /\ snapshot \in Snapshots) => snapshot.graph \in Licensed

LEMMA SnapshotKept == ASSUME SInv, SnapshotInv, [Next]_vars PROVE SnapshotInv'
<1>0. modifications \in Nat
  BY BoundAssumption DEF SInv, TypeOK
<1>1. CASE snapshot' = snapshot /\ modifications' = modifications
  BY <1>1 DEF SnapshotInv
<1>2. CASE \E w \in Writers : OpenSnapshot(w)
  BY <1>2, AbsenceAssumption DEF OpenSnapshot, SnapshotInv
<1>3. ASSUME NEW w \in Writers, FillSnapshot(w) PROVE SnapshotInv'
  <2>1. generated[w] \in Graphs /\ lockSha256[w] \in Locks /\ generated[w] \in Licensed
    BY <1>3 DEF FillSnapshot, SInv, TypeOK, WriterInv, Processes
  <2>2. snapshot' \in {SnapshotOf(w), Partial}
    BY <1>3 DEF FillSnapshot, Filled
  <2>3. SnapshotOf(w).graph \in Licensed /\ Partial \notin Snapshots
    BY <2>1, WrittenForm, AbsenceAssumption
  <2> QED
    BY <2>2, <2>3 DEF SnapshotInv
<1>4. ASSUME NEW eol \in Eols, Checkout(eol) PROVE SnapshotInv'
  BY <1>4, CanonicalForm DEF Checkout, hands, SnapshotInv
<1>5. ASSUME NEW graph \in Graphs, Modify(graph) PROVE SnapshotInv'
  BY <1>0, <1>5 DEF Modify, SnapshotInv
<1>6. \/ snapshot' = snapshot /\ modifications' = modifications
      \/ \E w \in Writers : OpenSnapshot(w) \/ FillSnapshot(w)
      \/ \E eol \in Eols : Checkout(eol)
      \/ \E graph \in Graphs : Modify(graph)
  BY DEF Next, Prepare, Generate, DigestLock, Admit, Check, ReadMetadata, ReadSnapshot,
         ReadChecks, Write, CheckAbsent, OpenMetadata, FillMetadata, Edit, RenewChecks,
         vars, evidence, hands
<1> QED
  BY <1>1, <1>2, <1>3, <1>4, <1>5, <1>6

\* Whoever writes it and whatever is interrupted, the evidence is of packages
\* that all have a declared license, and so is the lockfile of a check that
\* passes, even when the snapshot was changed by hand (lines 42 and 72-91).
EvidenceIsLicensed ==
    /\ (modifications = 0 /\ snapshot \in Snapshots) => snapshot.graph \in Licensed
    /\ metadata \in Metadata => metadata.snapshot.graph \in Licensed
    /\ \A c \in Checkers : pc[c] = "passed" => generated[c] \in Licensed

\* The snapshot on disk, unless changed by hand, the metadata on disk and the
\* lockfile of every check that passes are licensed, in every interleaving of
\* writers, checkers and edits.
THEOREM OnlyLicensed == Spec => []EvidenceIsLicensed
<1>1. ASSUME SInv, NEW meta, Finished(meta) PROVE meta.snapshot.graph \in Licensed
  <2>1. PICK w \in Writers : pc[w] = "written" /\ meta = MetadataOf(w)
    BY <1>1 DEF Finished
  <2>2. generated[w] \in Graphs /\ lockSha256[w] \in Locks /\ generated[w] \in Licensed
    BY <1>1, <2>1 DEF SInv, TypeOK, WriterInv, Processes
  <2> QED
    BY <2>1, <2>2, WrittenForm
<1>2. SInv /\ SnapshotInv => EvidenceIsLicensed
  <2> SUFFICES ASSUME SInv, SnapshotInv PROVE EvidenceIsLicensed
    OBVIOUS
  <2>1. metadata \in Metadata => metadata.snapshot.graph \in Licensed
    BY <1>1 DEF SInv, MetadataInv
  <2>2. ASSUME NEW c \in Checkers, pc[c] = "passed" PROVE generated[c] \in Licensed
    <3>1. Finished(held[c]) /\ held[c].snapshot.graph = generated[c]
      BY <2>2 DEF SInv, CheckerInv
    <3> QED
      BY <1>1, <3>1
  <2> QED
    BY <2>1, <2>2 DEF EvidenceIsLicensed, SnapshotInv
<1>3. Init => SnapshotInv
  BY AbsenceAssumption DEF Init, SnapshotInv
<1>4. SInv /\ SnapshotInv /\ [Next]_vars => SnapshotInv'
  BY SnapshotKept
<1> QED
  BY <1>2, <1>3, <1>4, EvidenceInvariant, PTL DEF Spec

\* Two writers that have both found no evidence, neither of which has opened the
\* snapshot (lines 94 and 108): the one race there is.
NoRace ==
    \A u, w \in Writers : (pc[u] = "open snapshot" /\ pc[w] = "open snapshot") => u = w

Opened(w)   == pc[w] \in {"fill snapshot", "open metadata", "fill metadata", "written"}
Admitted(w) == pc[w] = "open snapshot" \/ Opened(w)

\* Without evidence nobody has opened it; a complete snapshot has a writer that
\* went on to the metadata; and one writer was let past the check.
OneWriterInv ==
    /\ snapshot = Absent => \A w \in Writers : ~Opened(w)
    /\ snapshot \in Snapshots =>
           \E w \in Writers : pc[w] \in {"open metadata", "fill metadata", "written"}
    /\ \A u, w \in Writers : Admitted(u) /\ Admitted(w) => u = w

WriteOnly == MaxModifications = 0 /\ \A w \in Writers : Mode[w] = "--write"

LEMMA InitOneWriter == ASSUME Init PROVE OneWriterInv
  BY AbsenceAssumption DEF Init, OneWriterInv, Opened, Admitted, Processes

\* The steps that touch neither the snapshot nor a writer past its checks.
LEMMA OneWriterStays ==
    ASSUME OneWriterInv, snapshot' = snapshot,
           \A w \in Writers : pc'[w] = pc[w] \/ (~Admitted(w) /\ ~Admitted(w)')
    PROVE  OneWriterInv'
  BY DEF OneWriterInv, Opened, Admitted

LEMMA OneWriterKept ==
    ASSUME WriteOnly, SInv, OneWriterInv, NoRace', [Next]_vars
    PROVE  OneWriterInv'
<1>0. /\ pc \in [Processes -> Labels] /\ \A w \in Writers : w \in Processes /\ w \notin Checkers
      /\ snapshot \in Snapshots \cup {Absent, Partial} /\ modifications = 0
  BY ProcessAssumption DEF SInv, TypeOK, Processes, WriteOnly
<1>1. CASE UNCHANGED vars
  BY <1>1, OneWriterStays DEF vars, evidence, local
<1>2. ASSUME NEW p \in Processes, Prepare(p) PROVE OneWriterInv'
  <2>1. snapshot' = snapshot
    BY <1>2 DEF Prepare, Generate, DigestLock, Admit, evidence
  <2>2. \A w \in Writers : pc'[w] = pc[w] \/ (~Admitted(w) /\ ~Admitted(w)')
    BY <1>0, <1>2 DEF Prepare, Generate, DigestLock, Admit, Goto, Admitted, Opened, WriteOnly
  <2> QED
    BY <2>1, <2>2, OneWriterStays
<1>3. ASSUME NEW c \in Checkers, Check(c) PROVE OneWriterInv'
  <2>1. snapshot' = snapshot /\ \A w \in Writers : pc'[w] = pc[w]
    BY <1>0, <1>3 DEF Check, ReadMetadata, ReadSnapshot, ReadChecks, Goto, evidence
  <2> QED
    BY <2>1, OneWriterStays
<1>4. ASSUME NEW w \in Writers, CheckAbsent(w) PROVE OneWriterInv'
  <2>1. /\ pc[w] = "check absent" /\ snapshot' = snapshot
        /\ pc' = [pc EXCEPT ![w] = IF snapshot # Absent \/ metadata # Absent
                                   THEN "refused" ELSE "open snapshot"]
    BY <1>4 DEF CheckAbsent, Goto, evidence
  <2>2. CASE snapshot # Absent \/ metadata # Absent
    <3>1. \A u \in Writers : pc'[u] = pc[u] \/ (~Admitted(u) /\ ~Admitted(u)')
      BY <1>0, <2>1, <2>2 DEF Admitted, Opened
    <3> QED
      BY <2>1, <3>1, OneWriterStays
  <2>3. CASE ~(snapshot # Absent \/ metadata # Absent)
    <3>1. /\ snapshot = Absent /\ pc'[w] = "open snapshot"
          /\ \A u \in Writers : u # w => pc'[u] = pc[u]
      BY <1>0, <2>1, <2>3
    <3>2. \A u \in Writers : ~Opened(u)
      BY <3>1 DEF OneWriterInv
    <3>3. \A u \in Writers : ~Opened(u)'
      BY <3>1, <3>2 DEF Opened
    <3>4. \A u, v \in Writers : Admitted(u)' /\ Admitted(v)' => u = v
      BY <3>3 DEF Admitted, NoRace
    <3>5. snapshot' \notin Snapshots
      BY <2>1, <3>1, AbsenceAssumption
    <3> QED
      BY <3>3, <3>4, <3>5 DEF OneWriterInv
  <2> QED
    BY <2>2, <2>3
<1>5. ASSUME NEW w \in Writers, OpenSnapshot(w) PROVE OneWriterInv'
  <2>1. /\ pc[w] = "open snapshot" /\ snapshot' = Partial
        /\ pc' = [pc EXCEPT ![w] = "fill snapshot"]
    BY <1>5 DEF OpenSnapshot, Goto
  <2>2. \A u \in Writers : Admitted(u)' <=> Admitted(u)
    BY <1>0, <2>1 DEF Admitted, Opened
  <2> QED
    BY <2>1, <2>2, AbsenceAssumption DEF OneWriterInv
<1>6. ASSUME NEW w \in Writers, FillSnapshot(w) PROVE OneWriterInv'
  <2>1. /\ pc[w] = "fill snapshot" /\ snapshot' \in {SnapshotOf(w), Partial}
        /\ pc' = [pc EXCEPT ![w] = "open metadata"]
    BY <1>6 DEF FillSnapshot, Filled, Goto
  <2>2. \A u \in Writers : Admitted(u)' <=> Admitted(u)
    BY <1>0, <2>1 DEF Admitted, Opened
  <2>3. pc'[w] = "open metadata"
    BY <1>0, <2>1
  <2>4. snapshot' # Absent
    <3>1. generated[w] \in Graphs /\ lockSha256[w] \in Locks
      BY <2>1 DEF SInv, TypeOK, Processes
    <3> QED
      BY <2>1, <3>1, WrittenForm, AbsenceAssumption
  <2> QED
    BY <2>2, <2>3, <2>4 DEF OneWriterInv
<1>7. ASSUME NEW w \in Writers, OpenMetadata(w) \/ FillMetadata(w) PROVE OneWriterInv'
  <2>1. /\ snapshot' = snapshot /\ pc[w] \in {"open metadata", "fill metadata"}
        /\ pc' = [pc EXCEPT ![w] = IF pc[w] = "open metadata" THEN "fill metadata" ELSE "written"]
    BY <1>7 DEF OpenMetadata, FillMetadata, Goto
  <2>2. \A u \in Writers : (Admitted(u)' <=> Admitted(u)) /\ (Opened(u)' <=> Opened(u))
    BY <1>0, <2>1 DEF Admitted, Opened
  <2>3. pc'[w] \in {"fill metadata", "written"}
    BY <1>0, <2>1
  <2> QED
    BY <2>1, <2>2, <2>3 DEF OneWriterInv
<1>8. CASE (\E l \in Locks : Edit(l)) \/ RenewChecks
  BY <1>8, OneWriterStays DEF Edit, RenewChecks, evidence, local
<1>9. ASSUME NEW eol \in Eols, Checkout(eol) PROVE OneWriterInv'
  <2>1. snapshot \in Snapshots /\ snapshot' \in Snapshots /\ pc' = pc
    BY <1>9, CanonicalForm DEF Checkout, local
  <2>2. snapshot' # Absent
    BY <2>1, AbsenceAssumption
  <2> QED
    BY <2>1, <2>2 DEF OneWriterInv, Opened, Admitted
<1>10. \A graph \in Graphs : ~Modify(graph)
  BY <1>0 DEF Modify, WriteOnly
<1> QED
  BY <1>1, <1>2, <1>3, <1>4, <1>5, <1>6, <1>7, <1>8, <1>9, <1>10 DEF Next, Write

\* The snapshot that a writer is about to open or fill is not a complete one.
LEMMA OneWriterWritesOnce ==
    ASSUME WriteOnly, SInv, OneWriterInv, [Next]_vars, snapshot \in Snapshots
    PROVE  \E eol \in Eols : snapshot' = [snapshot EXCEPT !.eol = eol]
<1>1. PICK u \in Writers : pc[u] \in {"open metadata", "fill metadata", "written"}
  BY DEF OneWriterInv
<1>2. \A w \in Writers : ~OpenSnapshot(w) /\ ~FillSnapshot(w)
  <2> SUFFICES ASSUME NEW w \in Writers, pc[w] \in {"open snapshot", "fill snapshot"} PROVE FALSE
    BY DEF OpenSnapshot, FillSnapshot
  <2>1. Admitted(w) /\ Admitted(u)
    BY <1>1 DEF Admitted, Opened
  <2> QED
    BY <1>1, <2>1 DEF OneWriterInv
<1>3. \A graph \in Graphs : ~Modify(graph)
  BY DEF Modify, WriteOnly, SInv, TypeOK
<1>4. CASE \E eol \in Eols : Checkout(eol)
  BY <1>4 DEF Checkout
<1>5. CASE snapshot' = snapshot
  <2>1. snapshot = [snapshot EXCEPT !.eol = snapshot.eol] /\ snapshot.eol \in Eols
    BY DEF Snapshots
  <2> QED
    BY <1>5, <2>1
<1>6. snapshot' = snapshot \/ \E eol \in Eols : Checkout(eol)
  BY <1>2, <1>3 DEF Next, Prepare, Generate, DigestLock, Admit, Check, ReadMetadata,
     ReadSnapshot, ReadChecks, Write, CheckAbsent, OpenMetadata, FillMetadata, Edit,
     RenewChecks, vars, evidence
<1> QED
  BY <1>4, <1>5, <1>6

\* `--write' keeps its word not to overwrite in every run in which no two
\* writers are between the check and the opening of the snapshot at once, writers
\* that were killed and writers that start late included: the race is the only
\* way in which RefusesToOverwriteEvidence fails.
THEOREM OverwriteNeedsRace ==
    ASSUME WriteOnly PROVE Spec /\ []NoRace => RefusesToOverwriteEvidence
<1>1. Init => OneWriterInv
  BY InitOneWriter
<1>2. SInv /\ OneWriterInv /\ NoRace' /\ [Next]_vars => OneWriterInv'
  BY OneWriterKept
<1>3. SInv /\ OneWriterInv /\ [Next]_vars =>
         [(snapshot \in Snapshots) =>
             \E eol \in Eols : snapshot' = [snapshot EXCEPT !.eol = eol]]_vars
  BY OneWriterWritesOnce
<1> QED
  BY <1>1, <1>2, <1>3, EvidenceInvariant, PTL DEF Spec, RefusesToOverwriteEvidence

=============================================================================
