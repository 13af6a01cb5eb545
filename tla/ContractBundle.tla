--------------------------- MODULE ContractBundle ---------------------------
(***************************************************************************)
(* The contract bundle on the file system and the three scripts that work  *)
(* on it, each a process of its own that any number of people and jobs may *)
(* run at once and that may be killed between two of its file operations:  *)
(*   contracts/build-contract-bundle.mjs   copies, then writes a manifest; *)
(*   contracts/attest-contract-bundle.mjs  verifies, then signs it;        *)
(*   contracts/verify-contract-bundle.mjs  verifies content and signature. *)
(*                                                                         *)
(* One step is one file operation.  writeFileSync is two: it truncates the *)
(* file and then fills it.  A digest stands for the bytes it was taken     *)
(* from and a signature for its signer and the bytes signed; no two        *)
(* contents share a digest.  A process that is killed leaves what it wrote *)
(* as it is: it takes no further step, which Spec, having no fairness,     *)
(* lets every process do at every step.                                    *)
(***************************************************************************)
EXTENDS Integers

CONSTANTS
    Builders, Attesters, Verifiers,
    Trusted,       \* attesters whose key and key id the verifiers expect
    FileCount,     \* number of bundled files, 1..FileCount in path order
    Contents,      \* contents a file may have
    Normalised,    \* Contents -> Contents: CRLF replaced by LF
    Absent,        \* no such file
    Partial,       \* a truncated, half-written or interleaved file
    MaxEdits,      \* bound on changes to the source tree
    MaxAlterations \* bound on changes to a bundle by other hands

Processes  == Builders \cup Attesters \cup Verifiers
Inspectors == Attesters \cup Verifiers
Files      == 1..FileCount
Manifests  == [Files -> Contents]

ASSUME ProcessAssumption ==
    /\ Builders \cap Inspectors = {} /\ Attesters \cap Verifiers = {}
    /\ Trusted \subseteq Attesters
ASSUME FileAssumption == FileCount \in Nat \ {0}
ASSUME ContentAssumption ==
    /\ Absent \notin Contents /\ Partial \notin Contents /\ Absent # Partial
    /\ Absent \notin Manifests /\ Partial \notin Manifests
    /\ Normalised \in [Contents -> Contents]
    /\ \A c \in Contents : Normalised[Normalised[c]] = Normalised[c]
ASSUME BoundAssumption == MaxEdits \in Nat /\ MaxAlterations \in Nat

Attestations == [manifest : Manifests, signer : Attesters]

ASSUME AttestationAssumption ==
    Absent \notin Attestations /\ Partial \notin Attestations

VARIABLES
    source,        \* the source tree
    root,          \* does the bundle directory exist?
    bundle,        \* its files
    stray,         \* does it hold a file of no manifest?
    manifest,      \* manifest.json: digest per file
    attestation,   \* attestation.json
    pc,            \* where each process is
    at,            \* the file it works on
    seen,          \* digests of a builder, bytes verified by an inspector
    held,          \* the manifest an inspector read
    edits, textEdited, alterations   \* what others changed

tree  == <<root, bundle, stray, manifest, attestation>>
local == <<pc, at, seen, held>>
hands == <<source, edits, textEdited, alterations>>
vars  == <<tree, local, hands>>

Ended == {"refused", "failed", "built", "signed", "accepted"}

Init ==
    /\ source \in Manifests
    /\ root = FALSE
    /\ bundle = [f \in Files |-> Absent]
    /\ stray = FALSE
    /\ manifest = Absent
    /\ attestation = Absent
    /\ pc = [p \in Processes |-> IF p \in Verifiers THEN "read manifest" ELSE "check"]
    /\ at = [p \in Processes |-> 1]
    /\ seen = [p \in Processes |-> [f \in Files |-> Absent]]
    /\ held = [p \in Inspectors |-> Absent]
    /\ edits = 0 /\ textEdited = FALSE /\ alterations = 0

Goto(p, label) == pc' = [pc EXCEPT ![p] = label]

\* Filling a truncated file.  If another process filled it in the meantime the
\* bytes of the two may interleave.
Filled(current, bytes) ==
    IF current \in {Partial, bytes} THEN {bytes} ELSE {bytes, Partial}

----------------------------------------------------------------------------
(* build-contract-bundle.mjs *)

\* The existence check and, much later, the creation, which succeeds on a
\* directory that exists (recursive: true).
CheckAbsent(b) ==
    /\ pc[b] = "check"
    /\ Goto(b, IF root THEN "refused" ELSE "make")
    /\ UNCHANGED <<tree, at, seen, held, hands>>

MakeRoot(b) ==
    /\ pc[b] = "make"
    /\ root' = TRUE
    /\ Goto(b, "copy")
    /\ UNCHANGED <<bundle, stray, manifest, attestation, at, seen, held, hands>>

\* The variants named here and below carry a fault that a change of the code
\* might bring in; the properties at the end of the module tell them apart.
OpenCopyRaw(b) ==
    /\ pc[b] = "copy"
    /\ seen' = [seen EXCEPT ![b][at[b]] = source[at[b]]]
    /\ bundle' = [bundle EXCEPT ![at[b]] = Partial]
    /\ Goto(b, "fill")
    /\ UNCHANGED <<root, stray, manifest, attestation, at, held, hands>>

OpenCopyUnlisted(b) ==
    /\ pc[b] = "copy"
    /\ bundle' = [bundle EXCEPT ![at[b]] = Partial]
    /\ Goto(b, "fill")
    /\ UNCHANGED <<root, stray, manifest, attestation, at, seen, held, hands>>

\* Read a source file, normalise it, and open its copy.
OpenCopy(b) ==
    /\ pc[b] = "copy"
    /\ seen' = [seen EXCEPT ![b][at[b]] = Normalised[source[at[b]]]]
    /\ bundle' = [bundle EXCEPT ![at[b]] = Partial]
    /\ Goto(b, "fill")
    /\ UNCHANGED <<root, stray, manifest, attestation, at, held, hands>>

FillCopyRaw(b) ==
    /\ pc[b] = "fill"
    /\ bundle' = [bundle EXCEPT ![at[b]] = source[at[b]]]
    /\ at' = [at EXCEPT ![b] = @ + 1]
    /\ Goto(b, IF at[b] = FileCount THEN "open manifest" ELSE "copy")
    /\ UNCHANGED <<root, stray, manifest, attestation, seen, held, hands>>

FillCopy(b) ==
    /\ pc[b] = "fill"
    /\ \E c \in Filled(bundle[at[b]], seen[b][at[b]]) :
          bundle' = [bundle EXCEPT ![at[b]] = c]
    /\ at' = [at EXCEPT ![b] = @ + 1]
    /\ Goto(b, IF at[b] = FileCount THEN "open manifest" ELSE "copy")
    /\ UNCHANGED <<root, stray, manifest, attestation, seen, held, hands>>

OpenManifest(b) ==
    /\ pc[b] = "open manifest"
    /\ manifest' = Partial
    /\ Goto(b, "fill manifest")
    /\ UNCHANGED <<root, bundle, stray, attestation, at, seen, held, hands>>

FillManifest(b) ==
    /\ pc[b] = "fill manifest"
    /\ manifest' \in Filled(manifest, seen[b])
    /\ Goto(b, "built")
    /\ UNCHANGED <<root, bundle, stray, attestation, at, seen, held, hands>>

Build(b) == \/ CheckAbsent(b) \/ MakeRoot(b) \/ OpenCopy(b) \/ FillCopy(b)
            \/ OpenManifest(b) \/ FillManifest(b)

----------------------------------------------------------------------------
(* verifyCandidateContents, run by attesters and verifiers alike *)

ReadManifest(p) ==
    /\ pc[p] = "read manifest"
    /\ IF manifest \in Manifests
         THEN held' = [held EXCEPT ![p] = manifest] /\ Goto(p, "list")
         ELSE Goto(p, "failed") /\ UNCHANGED held
    /\ UNCHANGED <<tree, at, seen, hands>>

\* The files of the bundle are exactly those of the manifest, the manifest
\* and, for a verifier only, the attestation.
ExpectedFilesUnattested(p) ==
    (\A f \in Files : bundle[f] # Absent) /\ ~stray /\ attestation = Absent

ExpectedFiles(p) ==
    /\ \A f \in Files : bundle[f] # Absent
    /\ ~stray
    /\ attestation # Absent <=> p \in Verifiers

ListFiles(p) ==
    /\ pc[p] = "list"
    /\ Goto(p, IF ExpectedFiles(p) THEN "read file" ELSE "failed")
    /\ UNCHANGED <<tree, at, seen, held, hands>>

ReadFile(p) ==
    /\ pc[p] = "read file"
    /\ IF bundle[at[p]] = held[p][at[p]]
         THEN /\ seen' = [seen EXCEPT ![p][at[p]] = bundle[at[p]]]
              /\ at' = [at EXCEPT ![p] = @ + 1]
              /\ Goto(p, IF at[p] = FileCount THEN "verified" ELSE "read file")
         ELSE Goto(p, "failed") /\ UNCHANGED <<seen, at>>
    /\ UNCHANGED <<tree, held, hands>>

Inspect(p) == ReadManifest(p) \/ ListFiles(p) \/ ReadFile(p)

----------------------------------------------------------------------------
(* attest-contract-bundle.mjs *)

CheckUnattested(a) ==
    /\ pc[a] = "check"
    /\ Goto(a, IF attestation = Absent THEN "read manifest" ELSE "refused")
    /\ UNCHANGED <<tree, at, seen, held, hands>>

CreateAttestationAnyway(a) ==
    /\ pc[a] = "verified"
    /\ attestation' = Partial
    /\ Goto(a, "fill attestation")
    /\ UNCHANGED <<root, bundle, stray, manifest, at, seen, held, hands>>

\* Exclusive creation (flag "wx") fails on a file that exists.
CreateAttestation(a) ==
    /\ pc[a] = "verified"
    /\ IF attestation = Absent
         THEN attestation' = Partial /\ Goto(a, "fill attestation")
         ELSE Goto(a, "failed") /\ UNCHANGED attestation
    /\ UNCHANGED <<root, bundle, stray, manifest, at, seen, held, hands>>

FillAttestationRereading(a) ==
    /\ pc[a] = "fill attestation"
    /\ manifest \in Manifests
    /\ attestation' = [manifest |-> manifest, signer |-> a]
    /\ Goto(a, "signed")
    /\ UNCHANGED <<root, bundle, stray, manifest, at, seen, held, hands>>

\* The signature is over the manifest bytes that were verified.
FillAttestation(a) ==
    /\ pc[a] = "fill attestation"
    /\ attestation' = [manifest |-> held[a], signer |-> a]
    /\ Goto(a, "signed")
    /\ UNCHANGED <<root, bundle, stray, manifest, at, seen, held, hands>>

Attest(a) == CheckUnattested(a) \/ Inspect(a)
             \/ CreateAttestation(a) \/ FillAttestation(a)

----------------------------------------------------------------------------
(* verify-contract-bundle.mjs, verifyContractBundle *)

ValidForAnything(manifestBytes) ==
    attestation \in Attestations /\ attestation.signer \in Trusted

ValidFor(manifestBytes) ==
    /\ attestation \in Attestations
    /\ attestation.signer \in Trusted
    /\ attestation.manifest = manifestBytes

CheckAttestation(v) ==
    /\ pc[v] = "verified"
    /\ Goto(v, IF ValidFor(held[v]) THEN "accepted" ELSE "failed")
    /\ UNCHANGED <<tree, at, seen, held, hands>>

Verify(v) == Inspect(v) \/ CheckAttestation(v)

----------------------------------------------------------------------------
(* What happens around the scripts *)

\* A source file is edited or checked out with other line endings.
Edit(f, c) ==
    /\ edits < MaxEdits
    /\ c # source[f]
    /\ source' = [source EXCEPT ![f] = c]
    /\ edits' = edits + 1
    /\ textEdited' = (textEdited \/ Normalised[c] # Normalised[source[f]])
    /\ UNCHANGED <<tree, local, alterations>>

\* A file of the bundle is changed, as test-bundle-attestation.mjs does,
Alter(f, c) ==
    /\ alterations < MaxAlterations
    /\ bundle[f] \in Contents /\ c # bundle[f]
    /\ bundle' = [bundle EXCEPT ![f] = c]
    /\ alterations' = alterations + 1
    /\ UNCHANGED <<root, stray, manifest, attestation, local, source, edits, textEdited>>

\* or a file is added to it.
AddStray ==
    /\ alterations < MaxAlterations
    /\ root /\ ~stray
    /\ stray' = TRUE
    /\ alterations' = alterations + 1
    /\ UNCHANGED <<root, bundle, manifest, attestation, local, source, edits, textEdited>>

Next ==
    \/ \E b \in Builders : Build(b)
    \/ \E a \in Attesters : Attest(a)
    \/ \E v \in Verifiers : Verify(v)
    \/ \E f \in Files, c \in Contents : Edit(f, c) \/ Alter(f, c)
    \/ AddStray

Spec == Init /\ [][Next]_vars

----------------------------------------------------------------------------
Labels ==
    {"check", "make", "copy", "fill", "open manifest", "fill manifest",
     "read manifest", "list", "read file", "verified", "fill attestation"} \cup Ended

TypeOK ==
    /\ source \in Manifests
    /\ root \in BOOLEAN /\ stray \in BOOLEAN /\ textEdited \in BOOLEAN
    /\ bundle \in [Files -> Contents \cup {Absent, Partial}]
    /\ manifest \in Manifests \cup {Absent, Partial}
    /\ attestation \in Attestations \cup {Absent, Partial}
    /\ pc \in [Processes -> Labels]
    /\ at \in [Processes -> 1..(FileCount + 1)]
    /\ seen \in [Processes -> [Files -> Contents \cup {Absent}]]
    /\ held \in [Inspectors -> Manifests \cup {Absent}]
    /\ edits \in 0..MaxEdits /\ alterations \in 0..MaxAlterations

BuiltBy(b, files) == pc[b] = "built" /\ seen[b] = files

\* What is signed, and what a verifier accepts, is the output of one build
\* that ran to its end: all the bytes that were read, one file after another,
\* are what one builder wrote and put in its manifest, although builders,
\* killed builds, edits and alterations interleave with the reading; and what
\* is accepted was signed, as it stands, by a trusted attester (attest lines
\* 13-24, verify lines 45-71).
EvidenceIsOneBuild ==
    /\ \A p \in Inspectors : pc[p] \in {"signed", "accepted"} =>
          \E b \in Builders : BuiltBy(b, seen[p])
    /\ \A v \in Verifiers : pc[v] = "accepted" =>
          \E a \in Trusted : pc[a] = "signed" /\ seen[a] = seen[v]

\* However many attesters race past the existence check, one attestation is
\* made, and a process that reports success is the one whose signature is on
\* disk (attest lines 11-12 and the exclusive write of line 24).
OneAttestation ==
    /\ \A a, c \in Attesters :
          (/\ pc[a] \in {"fill attestation", "signed"}
           /\ pc[c] \in {"fill attestation", "signed"}) => a = c
    /\ \A a \in Attesters : pc[a] = "signed" =>
          attestation = [manifest |-> seen[a], signer |-> a]

\* At most one builder got past the existence check.
Lone ==
    \A b, c \in Builders :
        (pc[b] \notin {"check", "refused"} /\ pc[c] \notin {"check", "refused"}) => b = c

\* The manifest is written last (build lines 38-64): when one can be read,
\* every file of a bundle that one builder made is there, complete and as
\* listed, wherever the builder was killed.
ManifestIsLast ==
    (Lone /\ alterations = 0 /\ manifest \in Manifests) => bundle = manifest

\* Builds agree on the manifest whatever the line endings of the checkout,
\* which may even change during a build, as long as no text does (build lines
\* 40-42; test-bundle-reproducibility.mjs lines 25-50).
Reproducible ==
    ~textEdited =>
        \A b, c \in Builders :
            (pc[b] = "built" /\ pc[c] = "built") => seen[b] = seen[c]

\* Past the exclusive creation.
Writes(a) == pc[a] \in {"fill attestation", "signed"}

\* The attester a ends its attestation with a signature of what it verified.
Completes(a) ==
    /\ pc[a] = "fill attestation" /\ pc'[a] = "signed"
    /\ attestation = Partial
    /\ attestation' = [manifest |-> seen[a], signer |-> a]

\* The attester that creates attestation.json is the only one that completes
\* it, with a signature of the bytes it verified, although the manifest on disk
\* may have changed since.  A truncated file that a killed attester left blocks
\* every other one: none of them comes to write (attest lines 12 and 24).
AttestationStands ==
    [][attestation # Absent =>
          /\ attestation' # attestation => \E a \in Attesters : Completes(a)
          /\ \A a \in Attesters : Writes(a)' =>
                Writes(a) /\ \A c \in Attesters \ {a} : ~Writes(c)]_vars

\* No false alarm: an attested bundle of one builder that nobody altered is
\* rejected by no step of a verification, wherever other attesters, killed
\* processes and edits of the source tree fall.
NoFalseRejection ==
    [][(/\ Lone /\ alterations = 0
        /\ attestation \in Attestations /\ attestation.signer \in Trusted) =>
            \A v \in Verifiers : pc'[v] = "failed" => pc[v] = "failed"]_vars

\* "Refusing to overwrite existing bundle directory" (build line 14): a file
\* that a builder completed is never written by a builder again.
RefusesToOverwrite ==
    [][alterations' = alterations =>
          \A f \in Files : bundle[f] \in Contents => bundle'[f] = bundle[f]]_vars

============================================================================
