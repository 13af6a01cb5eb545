---------------------------- MODULE SbomEvidence ----------------------------
(***************************************************************************)
(* contracts/check-toolchain-sbom.mjs: the inventory of the toolchain's    *)
(* packages (snapshot) and its metadata, written by `--write' and          *)
(* `--refresh' and compared with the lockfile by `--check'.  Every process *)
(* reads the lockfile twice, through npm and for its digest, and the       *)
(* evidence is two files: people edit the lockfile, other processes write  *)
(* and any process may be killed between any two of these steps.           *)
(*                                                                         *)
(* One step is one file operation; writeFileSync truncates the file and    *)
(* then fills it.  A digest stands for the canonical text it is taken      *)
(* from.  A killed process takes no further step; there is no fairness.    *)
(* metadata.packageCount is left out: its snapshot determines it.          *)
(***************************************************************************)
EXTENDS Integers, FiniteSets

CONSTANTS
    Writers, Checkers,
    Mode,          \* Writers -> {"--write", "--refresh"}
    Locks,         \* contents of package-lock.json
    Normalised,    \* Locks -> Locks: CRLF replaced by LF
    Graphs,        \* what normalized() keeps of an SPDX document
    Graph,         \* Locks -> Graphs: `npm sbom'
    Licensed,      \* graphs that pass the assertions of normalized()
    Summary,       \* on Graphs: package and license counts
    Absent, Partial,
    MaxEdits,      \* bound on edits of the lockfile
    MaxModifications   \* bound on changes to the snapshot by other hands

Processes == Writers \cup Checkers
Eols      == {"LF", "CRLF"}

\* The stamp is npm's fresh creation time and document namespace.
Snapshots == [graph : Graphs, stamp : Writers, eol : Eols]
Metadata  == [packageLock : Locks, snapshot : Snapshots]

ASSUME ProcessAssumption ==
    Writers \cap Checkers = {} /\ Mode \in [Writers -> {"--write", "--refresh"}]
ASSUME LockAssumption ==
    /\ Normalised \in [Locks -> Locks] /\ Graph \in [Locks -> Graphs]
    /\ \A l \in Locks : Normalised[Normalised[l]] = Normalised[l]
                        /\ Graph[Normalised[l]] = Graph[l]
    /\ Licensed \subseteq Graphs
ASSUME AbsenceAssumption ==
    /\ Absent # Partial
    /\ \A v \in {Absent, Partial} : v \notin Snapshots \cup Metadata \cup Graphs \cup Locks
ASSUME BoundAssumption == MaxEdits \in Nat /\ MaxModifications \in Nat

VARIABLES
    lock,          \* package-lock.json
    snapshot,      \* C0-Toolchain.spdx.json
    metadata,      \* C0-Toolchain.meta.json
    checks,        \* C0-Toolchain-Checks-*.json, kept by hand
    catalogued,    \* are the adoption records as their catalog says?
    pc,
    generated,     \* the graph each process has from npm
    lockSha256,
    held,          \* the metadata a checker read
    edits, modifications,
    disturbed      \* processes during or after which somebody else changed
                   \* the lockfile's text or wrote evidence (history)

evidence == <<snapshot, metadata>>
local    == <<pc, generated, lockSha256, held>>
hands    == <<lock, checks, catalogued, edits, modifications>>
vars     == <<evidence, local, hands, disturbed>>

\* The variants named here and below carry a fault that a change of the code
\* might bring in; the properties at the end of the module tell them apart.
AsStored(s) == s

Canonical(s) == [s EXCEPT !.eol = "LF"]

SnapshotOf(w) == [graph |-> generated[w], stamp |-> w, eol |-> "LF"]
MetadataOf(w) == [packageLock |-> lockSha256[w], snapshot |-> SnapshotOf(w)]
ChecksOf(l)   == [packageLock |-> Normalised[l], summary |-> Summary[Graph[l]]]

Started == {p \in Processes : pc[p] # "generate"}

Goto(p, label) == pc' = [pc EXCEPT ![p] = label]

\* Filling a truncated file that another process may have filled since.
Filled(current, bytes) ==
    IF current \in {Partial, bytes} THEN {bytes} ELSE {bytes, Partial}

Init ==
    /\ lock \in Locks
    /\ snapshot = Absent /\ metadata = Absent
    /\ checks = ChecksOf(lock)
    /\ catalogued \in BOOLEAN
    /\ pc = [p \in Processes |-> "generate"]
    /\ generated = [p \in Processes |-> Absent]
    /\ lockSha256 = [p \in Processes |-> Absent]
    /\ held = [c \in Checkers |-> Absent]
    /\ edits = 0 /\ modifications = 0 /\ disturbed = {}

----------------------------------------------------------------------------
(* What every mode does first *)

GenerateOnly(p) ==
    /\ pc[p] = "generate"
    /\ generated' = [generated EXCEPT ![p] = Graph[lock]]
    /\ Goto(p, "admit")
    /\ UNCHANGED <<evidence, hands, lockSha256, held, disturbed>>

Generate(p) ==
    /\ pc[p] = "generate"
    /\ generated' = [generated EXCEPT ![p] = Graph[lock]]
    /\ Goto(p, "digest")
    /\ UNCHANGED <<evidence, hands, lockSha256, held, disturbed>>

DigestRawLock(p) ==
    /\ pc[p] = "digest"
    /\ lockSha256' = [lockSha256 EXCEPT ![p] = lock]
    /\ Goto(p, "admit")
    /\ UNCHANGED <<evidence, hands, generated, held, disturbed>>

DigestLock(p) ==
    /\ pc[p] = "digest"
    /\ lockSha256' = [lockSha256 EXCEPT ![p] = Normalised[lock]]
    /\ Goto(p, "admit")
    /\ UNCHANGED <<evidence, hands, generated, held, disturbed>>

\* Every package has a declared license, and the catalog and the adoption
\* records agree.
Admit(p) ==
    /\ pc[p] = "admit"
    /\ Goto(p, IF generated[p] \notin Licensed \/ ~catalogued THEN "failed"
               ELSE IF p \in Checkers THEN "read metadata"
               ELSE IF Mode[p] = "--write" THEN "check absent" ELSE "open snapshot")
    /\ UNCHANGED <<evidence, hands, generated, lockSha256, held, disturbed>>

Prepare(p) == Generate(p) \/ DigestLock(p) \/ Admit(p)

----------------------------------------------------------------------------
(* --check *)

ReadMetadata(c) ==
    /\ pc[c] = "read metadata"
    /\ IF metadata \in Metadata
         THEN held' = [held EXCEPT ![c] = metadata] /\ Goto(c, "read snapshot")
         ELSE Goto(c, "failed") /\ UNCHANGED held
    /\ UNCHANGED <<evidence, hands, generated, lockSha256, disturbed>>

AgreesUnlessStale(c) ==
    /\ snapshot \in Snapshots
    /\ held[c].snapshot = Canonical(snapshot)
    /\ snapshot.graph = generated[c]

AgreesUnlessModified(c) ==
    /\ snapshot \in Snapshots
    /\ held[c].packageLock = lockSha256[c]
    /\ snapshot.graph = generated[c]

Agrees(c) ==
    /\ snapshot \in Snapshots
    /\ held[c].packageLock = lockSha256[c]
    /\ held[c].snapshot = Canonical(snapshot)
    /\ snapshot.graph = generated[c]

ReadSnapshot(c) ==
    /\ pc[c] = "read snapshot"
    /\ Goto(c, IF Agrees(c) THEN "read checks" ELSE "failed")
    /\ UNCHANGED <<evidence, hands, generated, lockSha256, held, disturbed>>

ReadChecks(c) ==
    /\ pc[c] = "read checks"
    /\ Goto(c, IF checks = [packageLock |-> lockSha256[c], summary |-> Summary[generated[c]]]
               THEN "passed" ELSE "failed")
    /\ UNCHANGED <<evidence, hands, generated, lockSha256, held, disturbed>>

Check(c) == ReadMetadata(c) \/ ReadSnapshot(c) \/ ReadChecks(c)

----------------------------------------------------------------------------
(* --write, --refresh *)

CheckAbsent(w) ==
    /\ pc[w] = "check absent"
    /\ Goto(w, IF snapshot # Absent \/ metadata # Absent THEN "refused"
               ELSE "open snapshot")
    /\ UNCHANGED <<evidence, hands, generated, lockSha256, held, disturbed>>

\* Writing evidence disturbs whoever else has started.
WriteBy(w) == disturbed' = disturbed \cup (Started \ {w})

OpenSnapshot(w) ==
    /\ pc[w] = "open snapshot"
    /\ snapshot' = Partial
    /\ Goto(w, "fill snapshot")
    /\ WriteBy(w)
    /\ UNCHANGED <<metadata, hands, generated, lockSha256, held>>

FillSnapshot(w) ==
    /\ pc[w] = "fill snapshot"
    /\ snapshot' \in Filled(snapshot, SnapshotOf(w))
    /\ Goto(w, "open metadata")
    /\ WriteBy(w)
    /\ UNCHANGED <<metadata, hands, generated, lockSha256, held>>

OpenMetadata(w) ==
    /\ pc[w] = "open metadata"
    /\ metadata' = Partial
    /\ Goto(w, "fill metadata")
    /\ WriteBy(w)
    /\ UNCHANGED <<snapshot, hands, generated, lockSha256, held>>

FillMetadata(w) ==
    /\ pc[w] = "fill metadata"
    /\ metadata' \in Filled(metadata, MetadataOf(w))
    /\ Goto(w, "written")
    /\ WriteBy(w)
    /\ UNCHANGED <<snapshot, hands, generated, lockSha256, held>>

Write(w) == \/ CheckAbsent(w) \/ OpenSnapshot(w) \/ FillSnapshot(w)
            \/ OpenMetadata(w) \/ FillMetadata(w)

----------------------------------------------------------------------------
(* What people do around it *)

\* The lockfile is edited, or only checked out with other line endings.
Edit(l) ==
    /\ edits < MaxEdits /\ l # lock
    /\ lock' = l
    /\ edits' = edits + 1
    /\ disturbed' = IF Normalised[l] = Normalised[lock] THEN disturbed
                    ELSE disturbed \cup Started
    /\ UNCHANGED <<evidence, local, checks, catalogued, modifications>>

\* Git checks the snapshot out with other line endings.
Checkout(eol) ==
    /\ snapshot \in Snapshots /\ eol # snapshot.eol
    /\ snapshot' = [snapshot EXCEPT !.eol = eol]
    /\ UNCHANGED <<metadata, local, hands, disturbed>>

Modify(graph) ==
    /\ modifications < MaxModifications
    /\ snapshot \in Snapshots /\ graph # snapshot.graph
    /\ snapshot' = [snapshot EXCEPT !.graph = graph]
    /\ modifications' = modifications + 1
    /\ disturbed' = disturbed \cup Started
    /\ UNCHANGED <<metadata, local, lock, checks, catalogued, edits>>

\* The dated record of checks is renewed for the lockfile.
RenewChecks ==
    /\ checks # ChecksOf(lock)
    /\ checks' = ChecksOf(lock)
    /\ UNCHANGED <<evidence, local, lock, catalogued, edits, modifications, disturbed>>

Next ==
    \/ \E p \in Processes : Prepare(p)
    \/ \E c \in Checkers : Check(c)
    \/ \E w \in Writers : Write(w)
    \/ \E l \in Locks : Edit(l)
    \/ \E eol \in Eols : Checkout(eol)
    \/ \E graph \in Graphs : Modify(graph)
    \/ RenewChecks

Spec == Init /\ [][Next]_vars

----------------------------------------------------------------------------
Labels ==
    {"generate", "digest", "admit", "read metadata", "read snapshot", "read checks",
     "check absent", "open snapshot", "fill snapshot", "open metadata",
     "fill metadata", "failed", "refused", "passed", "written"}

TypeOK ==
    /\ lock \in Locks
    /\ snapshot \in Snapshots \cup {Absent, Partial}
    /\ metadata \in Metadata \cup {Absent, Partial}
    /\ checks \in {ChecksOf(l) : l \in Locks}
    /\ catalogued \in BOOLEAN
    /\ pc \in [Processes -> Labels]
    /\ generated \in [Processes -> Graphs \cup {Absent}]
    /\ lockSha256 \in [Processes -> Locks \cup {Absent}]
    /\ \A p \in Processes : (pc[p] # "generate" => generated[p] \in Graphs)
         /\ (pc[p] \notin {"generate", "digest"} => lockSha256[p] \in Locks)
    /\ held \in [Checkers -> Metadata \cup {Absent}]
    /\ edits \in 0..MaxEdits /\ modifications \in 0..MaxModifications
    /\ disturbed \subseteq Processes

\* What passes was written by one process that ran to its end, snapshot and
\* metadata both, and whose two readings of the lockfile are the checker's: no
\* mixture of writers, no half of a killed refresh and no modified snapshot
\* passes, whatever falls between the reads of lines 22, 33, 73 and 74.
PassIsOneRun ==
    \A c \in Checkers : pc[c] = "passed" =>
        \E w \in Writers :
            /\ pc[w] = "written"
            /\ held[c] = MetadataOf(w)
            /\ generated[c] = generated[w] /\ lockSha256[c] = lockSha256[w]

Describes(l) ==
    /\ snapshot \in Snapshots /\ metadata \in Metadata
    /\ metadata.snapshot = Canonical(snapshot)
    /\ metadata.packageLock = Normalised[l]
    /\ snapshot.graph = Graph[l]

\* Passing is about the present: while nothing else has been written since the
\* check began, the evidence of a passed check describes the lockfile, even if
\* the evidence itself was made while the lockfile was edited (lines 72-91).
QuietPassIsCurrent ==
    \A c \in Checkers \ disturbed : pc[c] = "passed" => Describes(lock)

QuietlyWritten == \E w \in Writers \ disturbed : pc[w] = "written"

\* A writer that nobody disturbed leaves evidence of the lockfile, whatever
\* killed or finished writers left before it (lines 93-110).
QuietWriteDescribes == QuietlyWritten => Describes(lock) /\ snapshot.graph \in Licensed

\* No false alarm: evidence so written, with current dated checks, fails no
\* step of a check that nobody disturbs, whatever the line endings that the
\* lockfile and the snapshot are checked out with (lines 30-33 and 76-78).
NoFalseAlarm ==
    [][(QuietlyWritten /\ checks = ChecksOf(lock)) =>
          \A c \in Checkers \ disturbed : pc[c] # "failed" => pc'[c] # "failed"]_vars

\* "Refusing to overwrite existing SBOM evidence" (line 95): where nobody
\* refreshes, a completed snapshot is never written again.
RefusesToOverwriteEvidence ==
    [][(snapshot \in Snapshots) =>
          \E eol \in Eols : snapshot' = [snapshot EXCEPT !.eol = eol]]_vars

============================================================================
