------------------------ MODULE ContractBundleProofs ------------------------
(***************************************************************************)
(* Safety of the bundle for any number of builders, attesters, verifiers   *)
(* and files, and any number of edits and alterations.                     *)
(***************************************************************************)
EXTENDS ContractBundle, TLAPS

\* A builder has the digest of every file it has copied.
BuilderOK(b) ==
    /\ pc[b] \in {"check", "make", "copy", "fill"} => at[b] <= FileCount
    /\ \A f \in Files : f < at[b] => seen[b][f] \in Contents
    /\ pc[b] = "fill" => seen[b][at[b]] \in Contents
    /\ pc[b] \in {"open manifest", "fill manifest", "built"} => seen[b] \in Manifests

BuilderInv == \A b \in Builders : BuilderOK(b)

\* A finished build has these files.
Finished(files) == \E b \in Builders : BuiltBy(b, files)

\* A manifest that can be read is that of a finished build.
ManifestInv == manifest \in Manifests => Finished(manifest)

\* An inspector holds the manifest of a finished build, and has found in the
\* bundle what that manifest says.
InspectorOK(p) ==
    /\ pc[p] \in {"check", "read manifest", "list"} => at[p] = 1
    /\ pc[p] \in {"list", "read file", "verified", "fill attestation",
                  "signed", "accepted"} =>
         held[p] \in Manifests /\ Finished(held[p])
    /\ pc[p] = "read file" =>
         /\ at[p] <= FileCount
         /\ \A f \in Files : f < at[p] => seen[p][f] = held[p][f]
    /\ pc[p] \in {"verified", "fill attestation", "signed", "accepted"} =>
         seen[p] = held[p]

InspectorInv == \A p \in Inspectors : InspectorOK(p)

\* The file attestation.json has one maker, whose signature is in it.
AttestationInv ==
    /\ \A a \in Attesters : pc[a] = "fill attestation" => attestation = Partial
    /\ attestation \in Attestations =>
         /\ pc[attestation.signer] = "signed"
         /\ seen[attestation.signer] = attestation.manifest
    /\ OneAttestation
    /\ \A v \in Verifiers : pc[v] = "accepted" =>
          \E a \in Trusted : pc[a] = "signed" /\ seen[a] = seen[v]

BInv == TypeOK /\ BuilderInv /\ ManifestInv /\ InspectorInv /\ AttestationInv

----------------------------------------------------------------------------
(* Builders, attesters and verifiers are different processes. *)
LEMMA Roles ==
    /\ \A b \in Builders : b \in Processes /\ b \notin Inspectors
    /\ \A p \in Inspectors : p \in Processes /\ p \notin Builders
    /\ \A a \in Attesters : a \in Inspectors /\ a \notin Verifiers
    /\ \A v \in Verifiers : v \in Inspectors /\ v \notin Attesters
PROOF BY ProcessAssumption DEF Processes, Inspectors

(* The file numbers around a position. *)
LEMMA Positions ==
    /\ FileCount \in Nat /\ FileCount >= 1
    /\ Files = 1..FileCount
    /\ 1 \in 1..(FileCount + 1)
    /\ \A i \in 1..(FileCount + 1) :
         i \in Nat /\ (i <= FileCount => i \in Files /\ i + 1 \in 1..(FileCount + 1))
    /\ \A f \in Files : f \in Nat /\ f <= FileCount /\ ~(f < 1)
PROOF BY FileAssumption DEF Files

(* One more change by other hands, within its bound. *)
LEMMA OneMore ==
    ASSUME NEW count, NEW bound \in Nat, count \in 0..bound, count < bound
    PROVE  count + 1 \in 0..bound
PROOF OBVIOUS

(* What a write leaves is what was written, or a mixture. *)
LEMMA FilledIs ==
    ASSUME NEW current, NEW bytes, NEW result \in Filled(current, bytes)
    PROVE  result \in {bytes, Partial}
PROOF BY DEF Filled

----------------------------------------------------------------------------
LEMMA InitBInv == Init => BInv
<1> SUFFICES ASSUME Init PROVE BInv
  OBVIOUS
<1>1. TypeOK
  <2>2. pc \in [Processes -> Labels]
    BY DEF Init, Labels, Ended
  <2>3. at \in [Processes -> 1..(FileCount + 1)]
    BY Positions DEF Init
  <2>4. seen \in [Processes -> [Files -> Contents \cup {Absent}]]
    BY DEF Init
  <2>5. held \in [Inspectors -> Manifests \cup {Absent}]
    BY DEF Init
  <2>6. edits \in 0..MaxEdits /\ alterations \in 0..MaxAlterations
    <3>1. edits = 0 /\ alterations = 0
      BY DEF Init
    <3> QED
      BY <3>1, BoundAssumption
  <2>7. bundle \in [Files -> Contents \cup {Absent, Partial}]
    BY DEF Init
  <2>8. /\ root \in BOOLEAN /\ stray \in BOOLEAN /\ textEdited \in BOOLEAN
        /\ source \in Manifests
    BY Zenon DEF Init
  <2>9. manifest \in {Absent} /\ attestation \in {Absent}
    BY DEF Init
  <2> QED
    BY <2>2, <2>3, <2>4, <2>5, <2>6, <2>7, <2>8, <2>9, Zenon DEF TypeOK
<1>2. BuilderInv
  <2> SUFFICES ASSUME NEW b \in Builders PROVE BuilderOK(b)
    BY DEF BuilderInv
  <2>0. b \in Processes /\ b \notin Verifiers
    BY Roles
  <2>1. pc[b] = "check" /\ at[b] = 1
    BY <2>0 DEF Init
  <2>2. \A f \in Files : ~(f < 1)
    BY Positions
  <2> QED
    BY <2>1, <2>2, Positions DEF BuilderOK
<1>3. ManifestInv
  BY ContentAssumption DEF Init, ManifestInv
<1>4. InspectorInv
  <2> SUFFICES ASSUME NEW p \in Inspectors PROVE InspectorOK(p)
    BY DEF InspectorInv
  <2>1. pc[p] \in {"check", "read manifest"} /\ at[p] = 1
    BY Roles DEF Init
  <2> QED
    BY <2>1 DEF InspectorOK
<1>5. AttestationInv
  <2>1. \A p \in Processes : pc[p] \in {"check", "read manifest"}
    BY DEF Init
  <2> QED
    BY <2>1, Roles, AttestationAssumption DEF Init, AttestationInv, OneAttestation
<1> QED
  BY <1>1, <1>2, <1>3, <1>4, <1>5 DEF BInv

----------------------------------------------------------------------------
(* Each step keeps the types. *)
\* A reader changes nothing but its own progress.
LEMMA ReaderTypeOK ==
    ASSUME TypeOK, UNCHANGED <<tree, held, hands>>, pc' \in [Processes -> Labels],
           at' \in [Processes -> 1..(FileCount + 1)],
           seen' \in [Processes -> [Files -> Contents \cup {Absent}]]
    PROVE  TypeOK'
<1>1. /\ source' = source /\ root' = root /\ stray' = stray /\ textEdited' = textEdited
      /\ bundle' = bundle /\ manifest' = manifest /\ attestation' = attestation
      /\ held' = held /\ edits' = edits /\ alterations' = alterations
  BY DEF tree, hands
<1> QED
  BY <1>1 DEF TypeOK

LEMMA NextTypeOK ==
    ASSUME BInv, Next
    PROVE  TypeOK'
<1>0. TypeOK
  BY DEF BInv
<1> USE <1>0, Roles, Positions DEF TypeOK, tree, hands, local, Goto, Labels, Ended
<1>1. ASSUME NEW b \in Builders, CheckAbsent(b) PROVE TypeOK'
  BY <1>1 DEF CheckAbsent
<1>2. ASSUME NEW b \in Builders, MakeRoot(b) PROVE TypeOK'
  BY <1>2 DEF MakeRoot
<1>3. ASSUME NEW b \in Builders, OpenCopy(b) PROVE TypeOK'
  <2>1. at[b] \in Files
    BY <1>3 DEF OpenCopy, BInv, BuilderInv, BuilderOK
  <2>2. source[at[b]] \in Contents
    BY <2>1 DEF Manifests
  <2>3. Normalised[source[at[b]]] \in Contents
    BY <2>2, ContentAssumption
  <2>4. seen' \in [Processes -> [Files -> Contents \cup {Absent}]]
    BY <1>3, <2>1, <2>3 DEF OpenCopy
  <2>5. bundle' \in [Files -> Contents \cup {Absent, Partial}]
    BY <1>3 DEF OpenCopy
  <2> QED
    BY <1>3, <2>4, <2>5 DEF OpenCopy
<1>4. ASSUME NEW b \in Builders, FillCopy(b) PROVE TypeOK'
  <2>1. at[b] \in Files /\ at[b] + 1 \in 1..(FileCount + 1)
    BY <1>4 DEF FillCopy, BInv, BuilderInv, BuilderOK
  <2>2. bundle' \in [Files -> Contents \cup {Absent, Partial}]
    <3>1. PICK c \in Filled(bundle[at[b]], seen[b][at[b]]) :
                  bundle' = [bundle EXCEPT ![at[b]] = c]
      BY <1>4 DEF FillCopy
    <3>2. c \in {seen[b][at[b]], Partial}
      BY <3>1, FilledIs
    <3>3. seen[b][at[b]] \in Contents \cup {Absent}
      <4>1. seen[b] \in [Files -> Contents \cup {Absent}]
        BY Roles
      <4> QED
        BY <2>1, <4>1
    <3>4. c \in Contents \cup {Absent, Partial}
      BY <3>2, <3>3
    <3> QED
      BY <3>1, <3>4
  <2>3. at' \in [Processes -> 1..(FileCount + 1)]
    BY <1>4, <2>1 DEF FillCopy
  <2>4. pc' \in [Processes -> Labels]
    BY <1>4 DEF FillCopy
  <2> QED
    BY <1>4, <2>2, <2>3, <2>4 DEF FillCopy
<1>5. ASSUME NEW b \in Builders, OpenManifest(b) PROVE TypeOK'
  BY <1>5 DEF OpenManifest
<1>6. ASSUME NEW b \in Builders, FillManifest(b) PROVE TypeOK'
  <2>1. manifest' \in Manifests \cup {Absent, Partial}
    <3>1. seen[b] \in Manifests
      BY <1>6 DEF FillManifest, BInv, BuilderInv, BuilderOK
    <3>2. manifest' \in {seen[b], Partial}
      BY <1>6, FilledIs DEF FillManifest
    <3> QED
      BY <3>1, <3>2
  <2> QED
    BY <1>6, <2>1 DEF FillManifest
<1>7. ASSUME NEW p \in Inspectors, ReadManifest(p) PROVE TypeOK'
  <2>1. PICK label \in Labels : pc' = [pc EXCEPT ![p] = label]
    BY <1>7 DEF ReadManifest
  <2>2. UNCHANGED <<tree, hands, at, seen>>
    BY <1>7 DEF ReadManifest
  <2>3. held' = held \/ (manifest \in Manifests /\ held' = [held EXCEPT ![p] = manifest])
    BY <1>7 DEF ReadManifest
  <2>4. held' \in [Inspectors -> Manifests \cup {Absent}]
    BY <2>3
  <2> HIDE DEF Labels
  <2>5. pc' \in [Processes -> Labels]
    BY <2>1
  <2> QED
    BY <2>2, <2>4, <2>5
<1>8. ASSUME NEW p \in Inspectors, ListFiles(p) PROVE TypeOK'
  <2>1. UNCHANGED <<tree, at, seen, held, hands>>
    BY <1>8 DEF ListFiles
  <2>2. pc' \in [Processes -> Labels]
    BY <1>8 DEF ListFiles
  <2>3. /\ at' \in [Processes -> 1..(FileCount + 1)]
        /\ seen' \in [Processes -> [Files -> Contents \cup {Absent}]]
    BY <2>1
  <2> HIDE DEF TypeOK, tree, hands, Labels
  <2> QED
    BY <2>1, <2>2, <2>3, ReaderTypeOK
<1>9. ASSUME NEW p \in Inspectors, ReadFile(p) PROVE TypeOK'
  <2>1. CASE bundle[at[p]] = held[p][at[p]]
    <3>1. at[p] \in Files /\ at[p] + 1 \in 1..(FileCount + 1)
      BY <1>9 DEF ReadFile, BInv, InspectorInv, InspectorOK
    <3>2. held[p] \in Manifests
      BY <1>9 DEF ReadFile, BInv, InspectorInv, InspectorOK
    <3>3. bundle[at[p]] \in Contents
      BY <2>1, <3>1, <3>2 DEF Manifests
    <3>4. seen' \in [Processes -> [Files -> Contents \cup {Absent}]]
      <4>1. seen' = [seen EXCEPT ![p][at[p]] = bundle[at[p]]]
        BY <1>9, <2>1 DEF ReadFile
      <4>2. p \in Processes
        BY Roles
      <4> QED
        BY <3>1, <3>3, <4>1, <4>2
    <3>5. at' \in [Processes -> 1..(FileCount + 1)]
      BY <1>9, <2>1, <3>1 DEF ReadFile
    <3>6. pc' \in [Processes -> Labels]
      <4>1. PICK label \in {"verified", "read file"} : pc' = [pc EXCEPT ![p] = label]
        BY <1>9, <2>1 DEF ReadFile
      <4>2. label \in Labels /\ pc \in [Processes -> Labels]
        OBVIOUS
      <4> HIDE DEF Labels
      <4> QED
        BY <4>1, <4>2
    <3>7. UNCHANGED <<tree, held, hands>>
      BY <1>9 DEF ReadFile
    <3> HIDE DEF TypeOK, tree, hands, Labels
    <3> QED
      BY <3>4, <3>5, <3>6, <3>7, ReaderTypeOK
  <2>2. CASE bundle[at[p]] # held[p][at[p]]
    <3>1. UNCHANGED <<tree, at, seen, held, hands>> /\ pc' = [pc EXCEPT ![p] = "failed"]
      BY <1>9, <2>2 DEF ReadFile
    <3>2. pc' \in [Processes -> Labels]
      BY <3>1
    <3>3. /\ at' \in [Processes -> 1..(FileCount + 1)]
          /\ seen' \in [Processes -> [Files -> Contents \cup {Absent}]]
      BY <3>1
    <3> HIDE DEF TypeOK, tree, hands, Labels
    <3> QED
      BY <3>1, <3>2, <3>3, ReaderTypeOK
  <2> QED
    BY <2>1, <2>2
<1>10. ASSUME NEW a \in Attesters, CheckUnattested(a) PROVE TypeOK'
  BY <1>10 DEF CheckUnattested
<1>11. ASSUME NEW a \in Attesters, CreateAttestation(a) PROVE TypeOK'
  BY <1>11 DEF CreateAttestation
<1>12. ASSUME NEW a \in Attesters, FillAttestation(a) PROVE TypeOK'
  <2>1. held[a] \in Manifests
    BY <1>12 DEF FillAttestation, BInv, InspectorInv, InspectorOK
  <2>2. attestation' \in Attestations
    BY <1>12, <2>1 DEF FillAttestation, Attestations
  <2> QED
    BY <1>12, <2>2 DEF FillAttestation
<1>13. ASSUME NEW v \in Verifiers, CheckAttestation(v) PROVE TypeOK'
  BY <1>13 DEF CheckAttestation
<1>14. ASSUME NEW f \in Files, NEW c \in Contents, Edit(f, c) PROVE TypeOK'
  <2>1. source' \in Manifests
    BY <1>14 DEF Edit, Manifests
  <2>2. edits' \in 0..MaxEdits
    <3>1. edits < MaxEdits /\ edits' = edits + 1
      BY <1>14 DEF Edit
    <3>2. edits \in 0..MaxEdits /\ MaxEdits \in Nat
      BY BoundAssumption, Zenon
    <3> QED
      BY <3>1, <3>2, OneMore
  <2>3. textEdited' \in BOOLEAN
    BY <1>14, Zenon DEF Edit
  <2>4. /\ root' = root /\ bundle' = bundle /\ stray' = stray
        /\ manifest' = manifest /\ attestation' = attestation
        /\ pc' = pc /\ at' = at /\ seen' = seen /\ held' = held
        /\ alterations' = alterations
    BY <1>14 DEF Edit
  <2> QED
    BY <2>1, <2>2, <2>3, <2>4, <1>0, Zenon
<1>15. ASSUME NEW f \in Files, NEW c \in Contents, Alter(f, c) PROVE TypeOK'
  <2>1. bundle' \in [Files -> Contents \cup {Absent, Partial}]
    BY <1>15 DEF Alter
  <2>2. alterations' \in 0..MaxAlterations
    <3>1. alterations < MaxAlterations /\ alterations' = alterations + 1
      BY <1>15 DEF Alter
    <3>2. alterations \in 0..MaxAlterations /\ MaxAlterations \in Nat
      BY BoundAssumption, Zenon
    <3> QED
      BY <3>1, <3>2, OneMore
  <2>3. /\ root' = root /\ stray' = stray /\ manifest' = manifest
        /\ attestation' = attestation /\ source' = source
        /\ pc' = pc /\ at' = at /\ seen' = seen /\ held' = held
        /\ edits' = edits /\ textEdited' = textEdited
    BY <1>15 DEF Alter
  <2> QED
    BY <2>1, <2>2, <2>3, <1>0, Zenon
<1>16. ASSUME AddStray PROVE TypeOK'
  <2>1. alterations' \in 0..MaxAlterations
    <3>1. alterations < MaxAlterations /\ alterations' = alterations + 1
      BY <1>16 DEF AddStray
    <3>2. alterations \in 0..MaxAlterations /\ MaxAlterations \in Nat
      BY BoundAssumption, Zenon
    <3> QED
      BY <3>1, <3>2, OneMore
  <2>2. stray' \in BOOLEAN
    BY <1>16, Zenon DEF AddStray
  <2>3. /\ root' = root /\ bundle' = bundle /\ manifest' = manifest
        /\ attestation' = attestation /\ source' = source
        /\ pc' = pc /\ at' = at /\ seen' = seen /\ held' = held
        /\ edits' = edits /\ textEdited' = textEdited
    BY <1>16 DEF AddStray
  <2> QED
    BY <2>1, <2>2, <2>3, <1>0, Zenon
<1> QED
  BY <1>1, <1>2, <1>3, <1>4, <1>5, <1>6, <1>7, <1>8, <1>9, <1>10, <1>11,
     <1>12, <1>13, <1>14, <1>15, <1>16
     DEF Next, Build, Attest, Verify, Inspect

----------------------------------------------------------------------------
(* Who moves.  A step is that of one process, which has not ended, or that *)
(* of other hands, which touch no process, manifest or attestation.        *)
Same(q) ==
    /\ pc'[q] = pc[q] /\ at'[q] = at[q] /\ seen'[q] = seen[q]
    /\ q \in Inspectors => held'[q] = held[q]

Moves(p) == pc[p] \notin Ended /\ \A q \in Processes : q # p => Same(q)

InspectorStep(p) ==
    \/ Inspect(p)
    \/ p \in Attesters /\ (CheckUnattested(p) \/ CreateAttestation(p) \/ FillAttestation(p))
    \/ p \in Verifiers /\ CheckAttestation(p)

OtherHands ==
    \/ \E f \in Files, c \in Contents : Edit(f, c) \/ Alter(f, c)
    \/ AddStray

LEMMA NextIs ==
    ASSUME Next
    PROVE  \/ \E b \in Builders : Build(b)
           \/ \E p \in Inspectors : InspectorStep(p)
           \/ OtherHands
PROOF BY Roles DEF Next, Attest, Verify, InspectorStep, OtherHands

LEMMA BuilderMoves ==
    ASSUME TypeOK, NEW b \in Builders, Build(b)
    PROVE  Moves(b) /\ UNCHANGED <<held, attestation>>
<1> USE DEF TypeOK, Moves, Same, Goto, Ended, tree
<1>0. b \in Processes
  BY Roles
<1>1. CASE CheckAbsent(b)
  BY <1>0, <1>1 DEF CheckAbsent
<1>2. CASE MakeRoot(b)
  BY <1>0, <1>2 DEF MakeRoot
<1>3. CASE OpenCopy(b)
  BY <1>0, <1>3 DEF OpenCopy
<1>4. CASE FillCopy(b)
  BY <1>0, <1>4 DEF FillCopy
<1>5. CASE OpenManifest(b)
  BY <1>0, <1>5 DEF OpenManifest
<1>6. CASE FillManifest(b)
  BY <1>0, <1>6 DEF FillManifest
<1> QED
  BY <1>1, <1>2, <1>3, <1>4, <1>5, <1>6 DEF Build

LEMMA InspectorMoves ==
    ASSUME TypeOK, NEW p \in Inspectors, InspectorStep(p)
    PROVE  Moves(p) /\ manifest' = manifest
<1> USE DEF TypeOK, Moves, Same, Goto, Ended, tree
<1>0. p \in Processes
  BY Roles
<1>1. CASE ReadManifest(p)
  BY <1>0, <1>1 DEF ReadManifest
<1>2. CASE ListFiles(p)
  BY <1>0, <1>2 DEF ListFiles
<1>3. CASE ReadFile(p)
  BY <1>0, <1>3 DEF ReadFile
<1>4. CASE CheckUnattested(p)
  BY <1>0, <1>4 DEF CheckUnattested
<1>5. CASE CreateAttestation(p)
  BY <1>0, <1>5 DEF CreateAttestation
<1>6. CASE FillAttestation(p)
  BY <1>0, <1>6 DEF FillAttestation
<1>7. CASE CheckAttestation(p)
  BY <1>0, <1>7 DEF CheckAttestation
<1> QED
  BY <1>1, <1>2, <1>3, <1>4, <1>5, <1>6, <1>7 DEF InspectorStep, Inspect

LEMMA OtherHandsMove ==
    ASSUME OtherHands
    PROVE  /\ \A q \in Processes : Same(q)
           /\ UNCHANGED <<manifest, attestation>>
PROOF BY DEF OtherHands, Edit, Alter, AddStray, tree, local, Same

(* A process that has ended keeps what it has. *)
LEMMA EndedStay ==
    ASSUME TypeOK, Next, NEW q \in Processes, pc[q] \in Ended
    PROVE  pc'[q] = pc[q] /\ seen'[q] = seen[q]
<1>1. \A p \in Processes : Moves(p) => Same(q)
  BY DEF Moves
<1>2. Same(q)
  BY <1>1, NextIs, BuilderMoves, InspectorMoves, OtherHandsMove, Roles
<1> QED
  BY <1>2 DEF Same

(* So what is finished remains so. *)
LEMMA FinishedStays ==
    ASSUME TypeOK, Next, NEW files, Finished(files)
    PROVE  \E b \in Builders : pc'[b] = "built" /\ seen'[b] = files
<1>1. PICK b \in Builders : BuiltBy(b, files)
  BY DEF Finished
<1>2. b \in Processes /\ pc[b] \in Ended /\ pc[b] = "built" /\ seen[b] = files
  BY <1>1, Roles DEF BuiltBy, Ended
<1> QED
  BY <1>2, EndedStay

----------------------------------------------------------------------------
(* Builders. *)
LEMMA BuilderKeeps ==
    ASSUME BInv, NEW b \in Builders, Build(b)
    PROVE  BuilderOK(b)'
<1>0. /\ TypeOK /\ BuilderOK(b) /\ b \in Processes
      /\ at[b] \in 1..(FileCount + 1)
      /\ seen[b] \in [Files -> Contents \cup {Absent}]
  BY Roles DEF BInv, BuilderInv, TypeOK
<1>t. /\ pc \in [Processes -> Labels] /\ at \in [Processes -> 1..(FileCount + 1)]
      /\ seen \in [Processes -> [Files -> Contents \cup {Absent}]]
  BY <1>0 DEF TypeOK
<1>1. CASE CheckAbsent(b) \/ MakeRoot(b)
  <2>1. /\ pc[b] \in {"check", "make"} /\ pc'[b] \in {"make", "copy", "refused"}
        /\ at'[b] = at[b] /\ seen'[b] = seen[b]
    BY <1>0, <1>t, <1>1 DEF CheckAbsent, MakeRoot, Goto
  <2> QED
    BY <1>0, <2>1 DEF BuilderOK
<1>2. CASE OpenCopy(b)
  <2>1. /\ pc[b] = "copy" /\ pc'[b] = "fill" /\ at'[b] = at[b]
        /\ seen'[b] = [seen[b] EXCEPT ![at[b]] = Normalised[source[at[b]]]]
    BY <1>0, <1>t, <1>2 DEF OpenCopy, Goto
  <2>2. at[b] <= FileCount /\ at[b] \in Files
    BY <1>0, <2>1, Positions DEF BuilderOK
  <2>3. Normalised[source[at[b]]] \in Contents
    <3>1. source[at[b]] \in Contents
      BY <1>0, <2>2 DEF TypeOK, Manifests
    <3> QED
      BY <3>1, ContentAssumption
  <2>4. seen'[b][at[b]] \in Contents
    BY <1>0, <2>1, <2>2, <2>3
  <2>5. \A f \in Files : f < at[b] => seen'[b][f] \in Contents
    BY <1>0, <2>1, <2>2 DEF BuilderOK
  <2> QED
    BY <2>1, <2>2, <2>4, <2>5 DEF BuilderOK
<1>3. CASE FillCopy(b)
  <2>1. /\ pc[b] = "fill" /\ at'[b] = at[b] + 1 /\ seen'[b] = seen[b]
        /\ pc'[b] = IF at[b] = FileCount THEN "open manifest" ELSE "copy"
    BY <1>0, <1>t, <1>3 DEF FillCopy, Goto
  <2>2. at[b] <= FileCount /\ at[b] \in Files /\ FileCount \in Nat /\ at[b] \in Nat
    <3>1. at[b] <= FileCount
      BY <1>0, <2>1 DEF BuilderOK
    <3> QED
      BY <1>0, <3>1, Positions
  <2>3. \A f \in Files : f < at[b] + 1 => seen[b][f] \in Contents
    <3> SUFFICES ASSUME NEW f \in Files, f < at[b] + 1
                 PROVE  seen[b][f] \in Contents
      OBVIOUS
    <3>1. f < at[b] \/ f = at[b]
      BY <2>2, Positions
    <3> QED
      BY <1>0, <2>1, <3>1 DEF BuilderOK
  <2>4. CASE at[b] = FileCount
    <3>1. \A f \in Files : f < at[b] + 1
      BY <2>2, <2>4, Positions
    <3>2. seen[b] \in Manifests
      BY <1>0, <2>3, <3>1 DEF Manifests
    <3> QED
      BY <2>1, <2>3, <2>4, <3>2 DEF BuilderOK
  <2>5. CASE at[b] # FileCount
    <3>1. at[b] + 1 <= FileCount
      BY <2>2, <2>5
    <3> QED
      BY <2>1, <2>3, <2>5, <3>1 DEF BuilderOK
  <2> QED
    BY <2>4, <2>5
<1>4. CASE OpenManifest(b) \/ FillManifest(b)
  <2>1. /\ pc[b] \in {"open manifest", "fill manifest"}
        /\ pc'[b] \in {"fill manifest", "built"}
        /\ at'[b] = at[b] /\ seen'[b] = seen[b]
    BY <1>0, <1>t, <1>4 DEF OpenManifest, FillManifest, Goto
  <2> QED
    BY <1>0, <2>1 DEF BuilderOK
<1> QED
  BY <1>1, <1>2, <1>3, <1>4 DEF Build

LEMMA BuilderInvKept == ASSUME BInv, Next PROVE BuilderInv'
<1> SUFFICES ASSUME NEW b \in Builders PROVE BuilderOK(b)'
  BY DEF BuilderInv
<1>1. TypeOK /\ BuilderOK(b) /\ b \in Processes
  BY Roles DEF BInv, BuilderInv
<1>2. Same(b) \/ Build(b)
  BY <1>1, NextIs, BuilderMoves, InspectorMoves, OtherHandsMove, Roles DEF Moves
<1>3. CASE Same(b)
  BY <1>1, <1>3 DEF Same, BuilderOK
<1> QED
  BY <1>2, <1>3, BuilderKeeps

(* The manifest. *)
LEMMA ManifestInvKept == ASSUME BInv, Next PROVE ManifestInv'
<1>0. TypeOK /\ BuilderInv /\ ManifestInv
  BY DEF BInv
<1>1. CASE manifest' = manifest
  <2> SUFFICES ASSUME manifest \in Manifests PROVE Finished(manifest)'
    BY <1>1 DEF ManifestInv
  <2>1. Finished(manifest)
    BY <1>0 DEF ManifestInv
  <2>2. \E b \in Builders : pc'[b] = "built" /\ seen'[b] = manifest
    BY <1>0, <2>1, FinishedStays
  <2> QED
    BY <1>1, <2>2 DEF Finished, BuiltBy
<1>2. ASSUME NEW b \in Builders, Build(b), manifest' # manifest
      PROVE  ManifestInv'
  <2>1. b \in Processes /\ pc \in [Processes -> Labels]
    BY <1>0, Roles DEF TypeOK
  <2>2. OpenManifest(b) \/ FillManifest(b)
    BY <1>2 DEF Build, CheckAbsent, MakeRoot, OpenCopy, FillCopy, tree
  <2>3. CASE OpenManifest(b)
    BY <2>3, ContentAssumption DEF OpenManifest, ManifestInv
  <2>4. CASE FillManifest(b)
    <3>1. manifest' \in {seen[b], Partial} /\ pc'[b] = "built" /\ seen'[b] = seen[b]
      BY <2>1, <2>4, FilledIs DEF FillManifest, Goto
    <3> QED
      BY <3>1, ContentAssumption DEF ManifestInv, Finished, BuiltBy
  <2> QED
    BY <2>2, <2>3, <2>4
<1> QED
  BY <1>0, <1>1, <1>2, NextIs, InspectorMoves, OtherHandsMove

----------------------------------------------------------------------------
(* Inspectors. *)
LEMMA InspectorKeeps ==
    ASSUME BInv, Next, NEW p \in Inspectors, InspectorStep(p)
    PROVE  InspectorOK(p)'
<1>0. /\ TypeOK /\ InspectorOK(p) /\ ManifestInv /\ p \in Processes
      /\ pc \in [Processes -> Labels] /\ at \in [Processes -> 1..(FileCount + 1)]
      /\ seen \in [Processes -> [Files -> Contents \cup {Absent}]]
      /\ held \in [Inspectors -> Manifests \cup {Absent}]
  BY Roles DEF BInv, InspectorInv, TypeOK
<1>1. CASE ReadManifest(p)
  <2>1. /\ pc[p] = "read manifest" /\ at'[p] = at[p]
        /\ \/ pc'[p] = "failed"
           \/ pc'[p] = "list" /\ manifest \in Manifests /\ held'[p] = manifest
    BY <1>0, <1>1 DEF ReadManifest, Goto
  <2>2. CASE pc'[p] = "failed"
    BY <2>2 DEF InspectorOK
  <2>3. CASE pc'[p] = "list" /\ manifest \in Manifests /\ held'[p] = manifest
    <3>1. Finished(manifest)
      BY <1>0, <2>3 DEF ManifestInv
    <3>2. Finished(held[p])'
      BY <1>0, <2>3, <3>1, FinishedStays DEF Finished, BuiltBy
    <3> QED
      BY <1>0, <2>1, <2>3, <3>2 DEF InspectorOK
  <2> QED
    BY <2>1, <2>2, <2>3
<1>2. ASSUME held'[p] = held[p], held[p] \in Manifests /\ Finished(held[p])
      PROVE  held'[p] \in Manifests /\ Finished(held[p])'
  BY <1>0, <1>2, FinishedStays DEF Finished, BuiltBy
<1>3. CASE ListFiles(p)
  <2>1. /\ pc[p] = "list" /\ pc'[p] \in {"read file", "failed"} /\ at'[p] = at[p]
        /\ held'[p] = held[p]
    BY <1>0, <1>3 DEF ListFiles, Goto
  <2>2. at[p] = 1 /\ held'[p] \in Manifests /\ Finished(held[p])'
    BY <1>0, <1>2, <2>1 DEF InspectorOK
  <2>3. at'[p] <= FileCount /\ \A f \in Files : ~(f < at'[p])
    <3>1. at'[p] = 1
      BY <2>1, <2>2
    <3> QED
      BY <3>1, Positions
  <2> QED
    BY <2>1, <2>2, <2>3 DEF InspectorOK
<1>4. CASE ReadFile(p)
  <2>1. pc[p] = "read file" /\ held'[p] = held[p]
    BY <1>4 DEF ReadFile
  <2>2. /\ at[p] <= FileCount /\ at[p] \in Files /\ at[p] \in Nat /\ FileCount \in Nat
        /\ \A f \in Files : f < at[p] => seen[p][f] = held[p][f]
        /\ held[p] \in Manifests /\ held'[p] \in Manifests /\ Finished(held[p])'
    <3>1. /\ at[p] <= FileCount
          /\ \A f \in Files : f < at[p] => seen[p][f] = held[p][f]
          /\ held[p] \in Manifests /\ Finished(held[p])
      BY <1>0, <2>1 DEF InspectorOK
    <3>2. at[p] \in Files /\ at[p] \in Nat /\ FileCount \in Nat
      BY <1>0, <3>1, Positions
    <3> QED
      BY <1>2, <2>1, <3>1, <3>2
  <2>3. CASE bundle[at[p]] # held[p][at[p]]
    <3>1. pc'[p] = "failed"
      BY <1>0, <1>4, <2>3 DEF ReadFile, Goto
    <3> QED
      BY <3>1 DEF InspectorOK
  <2>4. CASE bundle[at[p]] = held[p][at[p]]
    <3>0. /\ seen' = [seen EXCEPT ![p][at[p]] = bundle[at[p]]]
          /\ at' = [at EXCEPT ![p] = @ + 1]
          /\ pc' = [pc EXCEPT ![p] = IF at[p] = FileCount THEN "verified" ELSE "read file"]
      BY <1>4, <2>4 DEF ReadFile, Goto
    <3>1. /\ seen'[p] = [seen[p] EXCEPT ![at[p]] = held[p][at[p]]]
          /\ at'[p] = at[p] + 1
          /\ pc'[p] = IF at[p] = FileCount THEN "verified" ELSE "read file"
      BY <1>0, <2>4, <3>0
    <3>2. \A f \in Files : f < at[p] + 1 => seen'[p][f] = held[p][f]
      <4> SUFFICES ASSUME NEW f \in Files, f < at[p] + 1
                   PROVE  seen'[p][f] = held[p][f]
        OBVIOUS
      <4>1. f < at[p] \/ f = at[p]
        BY <2>2, Positions
      <4>2. seen[p] \in [Files -> Contents \cup {Absent}]
        BY <1>0
      <4> QED
        BY <2>2, <3>1, <4>1, <4>2
    <3>3. CASE at[p] # FileCount
      <4>1. at[p] + 1 <= FileCount
        BY <2>2, <3>3
      <4> QED
        BY <2>1, <2>2, <3>1, <3>2, <3>3, <4>1 DEF InspectorOK
    <3>4. CASE at[p] = FileCount
      <4>1. \A f \in Files : f < at[p] + 1
        BY <2>2, <3>4, Positions
      <4>2. seen[p] \in [Files -> Contents \cup {Absent}]
        BY <1>0
      <4>3. seen'[p] = held[p]
        BY <2>2, <3>1, <3>2, <4>1, <4>2 DEF Manifests
      <4> QED
        BY <2>1, <2>2, <3>1, <3>4, <4>3 DEF InspectorOK
    <3> QED
      BY <3>3, <3>4
  <2> QED
    BY <2>3, <2>4
<1>5. CASE CheckUnattested(p)
  <2>1. /\ pc[p] = "check" /\ pc'[p] \in {"read manifest", "refused"}
        /\ at'[p] = at[p]
    BY <1>0, <1>5 DEF CheckUnattested, Goto
  <2> QED
    BY <1>0, <2>1 DEF InspectorOK
<1>6. CASE CreateAttestation(p) \/ FillAttestation(p) \/ CheckAttestation(p)
  <2>1. /\ pc[p] \in {"verified", "fill attestation"}
        /\ pc'[p] \in {"fill attestation", "signed", "accepted", "failed"}
        /\ seen'[p] = seen[p] /\ held'[p] = held[p]
    BY <1>0, <1>6 DEF CreateAttestation, FillAttestation, CheckAttestation, Goto
  <2>2. /\ seen'[p] = held'[p]
        /\ held'[p] \in Manifests /\ Finished(held[p])'
    BY <1>0, <1>2, <2>1 DEF InspectorOK
  <2> QED
    BY <2>1, <2>2 DEF InspectorOK
<1> QED
  BY <1>1, <1>3, <1>4, <1>5, <1>6 DEF InspectorStep, Inspect

LEMMA InspectorInvKept == ASSUME BInv, Next PROVE InspectorInv'
<1> SUFFICES ASSUME NEW p \in Inspectors PROVE InspectorOK(p)'
  BY DEF InspectorInv
<1>1. TypeOK /\ InspectorOK(p) /\ p \in Processes /\ p \notin Builders
  BY Roles DEF BInv, InspectorInv
<1>2. Same(p) \/ InspectorStep(p)
  BY <1>1, NextIs, BuilderMoves, InspectorMoves, OtherHandsMove, Roles DEF Moves
<1>3. CASE Same(p)
  <2>1. pc'[p] = pc[p] /\ at'[p] = at[p] /\ seen'[p] = seen[p] /\ held'[p] = held[p]
    BY <1>3 DEF Same
  <2>2. Finished(held[p]) => Finished(held[p])'
    BY <1>1, <2>1, FinishedStays DEF Finished, BuiltBy
  <2> QED
    BY <1>1, <2>1, <2>2 DEF InspectorOK
<1> QED
  BY <1>2, <1>3, InspectorKeeps

----------------------------------------------------------------------------
(* The attestation. *)
LEMMA AttestationInvKept == ASSUME BInv, Next PROVE AttestationInv'
<1>0. TypeOK /\ InspectorInv /\ AttestationInv /\ pc \in [Processes -> Labels]
  BY DEF BInv, TypeOK
\* Steps that leave attestation.json and what attesters and verifiers that
\* matter to it have done.
<1>1. ASSUME attestation' = attestation,
             \A a \in Attesters : pc'[a] \in {"fill attestation", "signed"} =>
                 pc'[a] = pc[a] /\ seen'[a] = seen[a],
             \A a \in Attesters : pc[a] = "signed" =>
                 pc'[a] = "signed" /\ seen'[a] = seen[a],
             \A v \in Verifiers : pc'[v] = "accepted" =>
                 \E a \in Trusted : pc'[a] = "signed" /\ seen'[a] = seen'[v]
      PROVE  AttestationInv'
  <2>1. attestation \in Attestations => attestation.signer \in Attesters
    BY DEF Attestations
  <2>2. \A a \in Attesters : pc'[a] = "fill attestation" => attestation' = Partial
    <3> SUFFICES ASSUME NEW a \in Attesters, pc'[a] = "fill attestation"
                 PROVE  attestation = Partial
      BY <1>1
    <3>1. pc[a] = "fill attestation"
      BY <1>1
    <3> QED
      BY <1>0, <3>1 DEF AttestationInv
  <2>4. ASSUME attestation \in Attestations
        PROVE  /\ pc'[attestation.signer] = "signed"
               /\ seen'[attestation.signer] = attestation.manifest
    <3>1. /\ pc[attestation.signer] = "signed"
          /\ seen[attestation.signer] = attestation.manifest
      BY <1>0, <2>4 DEF AttestationInv
    <3> QED
      BY <1>1, <2>1, <2>4, <3>1
  <2>3. OneAttestation'
    <3>1. ASSUME NEW a \in Attesters, NEW c \in Attesters,
                 pc'[a] \in {"fill attestation", "signed"},
                 pc'[c] \in {"fill attestation", "signed"}
          PROVE  a = c
      <4>1. pc[a] = pc'[a] /\ pc[c] = pc'[c]
        BY <1>1, <3>1
      <4> QED
        BY <1>0, <3>1, <4>1 DEF AttestationInv, OneAttestation
    <3>2. ASSUME NEW a \in Attesters, pc'[a] = "signed"
          PROVE  attestation' = [manifest |-> seen'[a], signer |-> a]
      <4>1. pc[a] = "signed" /\ seen'[a] = seen[a]
        BY <1>1, <3>2
      <4> QED
        BY <1>0, <1>1, <4>1 DEF AttestationInv, OneAttestation
    <3> QED
      BY <3>1, <3>2 DEF OneAttestation
  <2> QED
    BY <1>1, <2>2, <2>3, <2>4 DEF AttestationInv
\* An acceptance stands as long as its verifier and attester do.
<1>2. ASSUME NEW v \in Verifiers, pc[v] = "accepted"
      PROVE  \E a \in Trusted : pc'[a] = "signed" /\ seen'[a] = seen'[v]
  <2>1. PICK a \in Trusted : pc[a] = "signed" /\ seen[a] = seen[v]
    BY <1>0, <1>2 DEF AttestationInv
  <2>2. a \in Processes /\ v \in Processes /\ pc[a] \in Ended /\ pc[v] \in Ended
    BY <1>2, <2>1, Roles, ProcessAssumption DEF Ended
  <2> QED
    BY <1>0, <2>1, <2>2, EndedStay
<1>3. \A a \in Attesters : pc[a] = "signed" => pc'[a] = "signed" /\ seen'[a] = seen[a]
  BY <1>0, EndedStay, Roles DEF Ended
<1>4. ASSUME \A p \in Inspectors : Same(p), attestation' = attestation
      PROVE  AttestationInv'
  <2>1. \A p \in Inspectors : pc'[p] = pc[p] /\ seen'[p] = seen[p]
    BY <1>4 DEF Same
  <2> QED
    BY <1>1, <1>2, <1>3, <1>4, <2>1, Roles
<1>5. ASSUME NEW b \in Builders, Build(b) PROVE AttestationInv'
  BY <1>0, <1>4, <1>5, BuilderMoves, Roles DEF Moves
<1>6. ASSUME OtherHands PROVE AttestationInv'
  BY <1>4, <1>6, OtherHandsMove, Roles
<1>7. ASSUME NEW p \in Inspectors, InspectorStep(p) PROVE AttestationInv'
  <2>0. /\ p \in Processes
        /\ \A q \in Inspectors : q # p => pc'[q] = pc[q] /\ seen'[q] = seen[q]
    BY <1>0, <1>7, InspectorMoves, Roles DEF Moves, Same
  <2>1. ASSUME attestation' = attestation,
               pc'[p] \notin {"fill attestation", "signed", "accepted"}
        PROVE  AttestationInv'
    BY <1>1, <1>2, <1>3, <2>0, <2>1, Roles
  <2>2. CASE Inspect(p) \/ CheckUnattested(p)
    <3>1. attestation' = attestation
      BY <2>2 DEF Inspect, ReadManifest, ListFiles, ReadFile, CheckUnattested, tree
    <3>2. pc'[p] \notin {"fill attestation", "signed", "accepted"}
      BY <1>0, <2>0, <2>2
         DEF Inspect, ReadManifest, ListFiles, ReadFile, CheckUnattested, Goto
    <3> QED
      BY <2>1, <3>1, <3>2
  <2>3. CASE p \in Attesters /\ CreateAttestation(p)
    <3>1. CASE attestation # Absent
      <4>1. attestation' = attestation /\ pc'[p] = "failed"
        BY <1>0, <2>0, <2>3, <3>1 DEF CreateAttestation, Goto
      <4> QED
        BY <2>1, <4>1
    <3>2. CASE attestation = Absent
      <4>1. attestation' = Partial /\ pc'[p] = "fill attestation"
        BY <1>0, <2>0, <2>3, <3>2 DEF CreateAttestation, Goto
      <4>2. \A a \in Attesters : pc[a] \notin {"fill attestation", "signed"}
        <5>1. \A a \in Attesters : pc[a] # "fill attestation"
          BY <1>0, <3>2, ContentAssumption DEF AttestationInv
        <5>2. ASSUME NEW a \in Attesters, pc[a] = "signed" PROVE FALSE
          <6>1. attestation = [manifest |-> seen[a], signer |-> a]
            BY <1>0, <5>2 DEF AttestationInv, OneAttestation
          <6>2. seen[a] \in Manifests
            BY <1>0, <5>2, Roles DEF InspectorInv, InspectorOK
          <6>3. attestation \in Attestations
            BY <6>1, <6>2 DEF Attestations
          <6> QED
            BY <3>2, <6>3, AttestationAssumption
        <5> QED
          BY <5>1, <5>2
      <4>3. \A a \in Attesters :
              /\ pc'[a] # "signed"
              /\ pc'[a] = "fill attestation" => a = p
        BY <2>0, <4>1, <4>2, Roles
      <4>4. \A v \in Verifiers : pc'[v] = "accepted" => pc[v] = "accepted"
        BY <2>0, <2>3, Roles
      <4> QED
        BY <1>2, <4>1, <4>3, <4>4, AttestationAssumption DEF AttestationInv, OneAttestation
    <3> QED
      BY <3>1, <3>2
  <2>4. CASE p \in Attesters /\ FillAttestation(p)
    <3>1. /\ pc[p] = "fill attestation" /\ pc'[p] = "signed" /\ seen'[p] = seen[p]
          /\ attestation' = [manifest |-> held[p], signer |-> p]
      BY <1>0, <2>0, <2>4 DEF FillAttestation, Goto
    <3>2. seen[p] = held[p]
      BY <1>0, <3>1 DEF InspectorInv, InspectorOK
    <3>3. \A a \in Attesters : pc'[a] \in {"fill attestation", "signed"} => a = p
      BY <1>0, <2>0, <2>4, <3>1, Roles DEF AttestationInv, OneAttestation
    <3>4. \A v \in Verifiers : pc'[v] = "accepted" => pc[v] = "accepted"
      BY <2>0, <2>4, Roles
    <3>5. \A a \in Attesters : pc'[a] # "fill attestation"
      BY <3>1, <3>3
    <3>6. attestation'.signer = p /\ attestation'.manifest = seen'[p]
      BY <3>1, <3>2
    <3>7. OneAttestation'
      BY <3>1, <3>2, <3>3 DEF OneAttestation
    <3>8. \A v \in Verifiers : pc'[v] = "accepted" =>
            \E a \in Trusted : pc'[a] = "signed" /\ seen'[a] = seen'[v]
      BY <1>2, <3>4
    <3> QED
      BY <3>1, <3>5, <3>6, <3>7, <3>8 DEF AttestationInv
  <2>5. CASE p \in Verifiers /\ CheckAttestation(p)
    <3>1. attestation' = attestation /\ seen'[p] = seen[p] /\ pc[p] = "verified"
      BY <2>5 DEF CheckAttestation, tree
    <3>2. CASE ~ValidFor(held[p])
      <4>1. pc'[p] = "failed"
        BY <1>0, <2>0, <2>5, <3>2 DEF CheckAttestation, Goto
      <4> QED
        BY <2>1, <3>1, <4>1
    <3>3. CASE ValidFor(held[p])
      <4>1. /\ attestation \in Attestations /\ attestation.signer \in Trusted
            /\ attestation.manifest = held[p]
        BY <3>3 DEF ValidFor
      <4>2. seen[p] = held[p]
        BY <1>0, <3>1 DEF InspectorInv, InspectorOK
      <4>3. pc[attestation.signer] = "signed" /\ seen[attestation.signer] = seen[p]
        BY <1>0, <4>1, <4>2 DEF AttestationInv
      <4>4. \E a \in Trusted : pc'[a] = "signed" /\ seen'[a] = seen'[p]
        BY <1>3, <3>1, <4>1, <4>3, ProcessAssumption
      <4>5. \A v \in Verifiers : pc'[v] = "accepted" => v = p \/ pc[v] = "accepted"
        BY <2>0, Roles
      <4>6. \A a \in Attesters : pc'[a] = pc[a] /\ seen'[a] = seen[a]
        BY <2>0, <2>5, Roles
      <4> QED
        BY <1>1, <1>2, <3>1, <4>4, <4>5, <4>6
    <3> QED
      BY <3>2, <3>3
  <2> QED
    BY <1>7, <2>2, <2>3, <2>4, <2>5 DEF InspectorStep
<1> QED
  BY <1>5, <1>6, <1>7, NextIs

----------------------------------------------------------------------------
LEMMA BInvKept == ASSUME BInv, [Next]_vars PROVE BInv'
<1>1. CASE Next
  BY <1>1, NextTypeOK, BuilderInvKept, ManifestInvKept, InspectorInvKept,
     AttestationInvKept DEF BInv
<1>2. CASE UNCHANGED vars
  <2> USE <1>2 DEF vars, tree, local, hands
  <2>1. TypeOK'
    BY DEF BInv, TypeOK
  <2>2. BuilderInv'
    BY DEF BInv, BuilderInv, BuilderOK
  <2>3. ManifestInv'
    BY DEF BInv, ManifestInv, Finished, BuiltBy
  <2>4. InspectorInv'
    BY DEF BInv, InspectorInv, InspectorOK, Finished, BuiltBy
  <2>5. AttestationInv'
    BY DEF BInv, AttestationInv, OneAttestation
  <2> QED
    BY <2>1, <2>2, <2>3, <2>4, <2>5 DEF BInv
<1> QED
  BY <1>1, <1>2

(* The inductive invariant holds of any number of scripts on a bundle.     *)
THEOREM BundleInvariant == Spec => []BInv
PROOF BY InitBInv, BInvKept, PTL DEF Spec

(* The files, the manifest, the attestation and every script's own state    *)
(* keep their types, whatever other scripts and hands do to the bundle.     *)
THEOREM BundleTypeCorrectness == Spec => []TypeOK
<1>1. BInv => TypeOK
  BY DEF BInv
<1> QED
  BY <1>1, BundleInvariant, PTL

(* What is signed or accepted is the output of one build, and what is      *)
(* accepted was signed by a trusted attester, whatever builders, attesters, *)
(* verifiers, edits and alterations interleave with the reading.           *)
THEOREM OneBuildOnly == Spec => []EvidenceIsOneBuild
<1>1. BInv => EvidenceIsOneBuild
  BY Roles DEF BInv, InspectorInv, InspectorOK, AttestationInv, Finished,
               EvidenceIsOneBuild
<1> QED
  BY <1>1, BundleInvariant, PTL

(* However many attesters race, one makes the attestation, and it is the   *)
(* one that reports success.                                               *)
THEOREM OneAttester == Spec => []OneAttestation
<1>1. BInv => OneAttestation
  BY DEF BInv, AttestationInv
<1> QED
  BY <1>1, BundleInvariant, PTL

(* The file attestation.json is completed by the attester that created it, *)
(* with what that one verified, and while it stands no other attester comes *)
(* to write: also when its creator was killed and it stays truncated.      *)
THEOREM AttestationIsFinal == Spec => AttestationStands
<1>1. ASSUME BInv, Next, attestation # Absent
      PROVE  /\ attestation' # attestation => \E a \in Attesters : Completes(a)
             /\ \A a \in Attesters : Writes(a)' => Writes(a)
  <2>1. TypeOK /\ AttestationInv /\ InspectorInv
    BY <1>1 DEF BInv
  <2>2. CASE (\E b \in Builders : Build(b)) \/ OtherHands
    <3>1. attestation' = attestation
      BY <2>1, <2>2, BuilderMoves, OtherHandsMove
    <3>2. \A a \in Attesters : pc'[a] = pc[a]
      BY <2>1, <2>2, BuilderMoves, OtherHandsMove, Roles DEF Moves, Same
    <3> QED
      BY <3>1, <3>2 DEF Writes
  <2>3. ASSUME NEW p \in Inspectors, InspectorStep(p)
        PROVE  /\ attestation' # attestation => \E a \in Attesters : Completes(a)
               /\ \A a \in Attesters : Writes(a)' => Writes(a)
    <3>1. p \in Processes /\ \A q \in Processes : q # p => pc'[q] = pc[q]
      BY <2>1, <2>3, InspectorMoves, Roles DEF Moves, Same
    <3>2. \A a \in Attesters : a # p => (Writes(a)' => Writes(a))
      BY <3>1, Roles DEF Writes
    <3>3. CASE p \in Attesters /\ FillAttestation(p)
      <4>1. pc[p] = "fill attestation" /\ pc'[p] = "signed"
        BY <2>1, <3>1, <3>3 DEF FillAttestation, Goto, TypeOK
      <4>2. held[p] = seen[p] /\ attestation = Partial
        BY <2>1, <3>3, <4>1 DEF InspectorInv, InspectorOK, AttestationInv
      <4>3. Completes(p)
        BY <3>3, <4>1, <4>2 DEF FillAttestation, Completes
      <4> QED
        BY <3>2, <3>3, <4>1, <4>3 DEF Writes
    <3>4. CASE ~(p \in Attesters /\ FillAttestation(p))
      <4>1. attestation' = attestation
        BY <1>1, <2>3, <3>4 DEF InspectorStep, Inspect, ReadManifest, ListFiles,
           ReadFile, CheckUnattested, CreateAttestation, CheckAttestation, tree
      <4>2. pc'[p] \notin {"fill attestation", "signed"}
        BY <1>1, <2>1, <2>3, <3>1, <3>4
           DEF InspectorStep, Inspect, ReadManifest, ListFiles, ReadFile,
               CheckUnattested, CreateAttestation, CheckAttestation, Goto, TypeOK
      <4> QED
        BY <3>2, <4>1, <4>2 DEF Writes
    <3> QED
      BY <3>3, <3>4
  <2> QED
    BY <1>1, <2>2, <2>3, NextIs
<1>2. ASSUME BInv, NEW a \in Attesters, NEW c \in Attesters \ {a}, Writes(a)
      PROVE  ~Writes(c)
  BY <1>2 DEF BInv, AttestationInv, OneAttestation, Writes
<1>3. BInv /\ [Next]_vars =>
        [attestation # Absent =>
          /\ attestation' # attestation => \E a \in Attesters : Completes(a)
          /\ \A a \in Attesters : Writes(a)' =>
                Writes(a) /\ \A c \in Attesters \ {a} : ~Writes(c)]_vars
  BY <1>1, <1>2
<1> QED
  BY <1>3, BundleInvariant, PTL DEF Spec, AttestationStands

----------------------------------------------------------------------------
(* What a build writes, and in which order. *)

\* A builder's digests are those of the normalised sources as long as no text
\* has changed, whatever line endings have.
DigestsOK(b) ==
    /\ pc[b] \in {"check", "make", "refused"} => at[b] = 1
    /\ pc[b] \in {"open manifest", "fill manifest", "built"} => at[b] = FileCount + 1
    /\ ~textEdited => \A f \in Files :
         (f < at[b] \/ (f = at[b] /\ pc[b] = "fill")) => seen[b][f] = Normalised[source[f]]

DigestsInv == \A b \in Builders : DigestsOK(b)

Past(b) == pc[b] \notin {"check", "refused"}

\* A file manifest.json has a maker, and strays are the work of other hands.
MakerInv ==
    /\ manifest # Absent => \E b \in Builders : pc[b] \in {"fill manifest", "built"}
    /\ alterations = 0 => ~stray

\* What a builder that is alone has written is what it holds.
LoneInv ==
    Lone /\ alterations = 0 => \A b \in Builders : Past(b) =>
        /\ \A f \in Files : f < at[b] => bundle[f] = seen[b][f]
        /\ pc[b] = "fill" => bundle[at[b]] = Partial
        /\ pc[b] = "fill manifest" => manifest = Partial
        /\ pc[b] = "built" => manifest = seen[b]

LInv == DigestsInv /\ MakerInv /\ LoneInv

----------------------------------------------------------------------------
LEMMA InitLInv == Init => LInv
<1> SUFFICES ASSUME Init PROVE LInv
  OBVIOUS
<1>1. \A b \in Builders : pc[b] = "check" /\ at[b] = 1
  BY Roles DEF Init, Inspectors
<1>2. \A f \in Files : ~(f < 1)
  BY Positions
<1>3. DigestsInv
  BY <1>1, <1>2 DEF DigestsInv, DigestsOK
<1>4. MakerInv
  BY Zenon DEF Init, MakerInv
<1>5. LoneInv
  BY <1>1 DEF LoneInv, Past
<1> QED
  BY <1>3, <1>4, <1>5 DEF LInv

\* The text of the sources is what it was, if an edit has not changed it.
LEMMA TextStays ==
    ASSUME TypeOK, Next, ~textEdited'
    PROVE  ~textEdited /\ \A f \in Files : Normalised[source'[f]] = Normalised[source[f]]
<1>1. CASE \E f \in Files, c \in Contents : Edit(f, c)
  <2>1. PICK f \in Files, c \in Contents : Edit(f, c)
    BY <1>1
  <2>2. /\ textEdited' = (textEdited \/ Normalised[c] # Normalised[source[f]])
        /\ source' = [source EXCEPT ![f] = c]
    BY <2>1 DEF Edit
  <2>3. ~textEdited /\ Normalised[c] = Normalised[source[f]]
    BY <2>2, Zenon
  <2> QED
    BY <2>2, <2>3 DEF TypeOK, Manifests
<1>2. CASE ~\E f \in Files, c \in Contents : Edit(f, c)
  <2>1. UNCHANGED <<source, textEdited>>
    BY <1>2 DEF Next, Build, CheckAbsent, MakeRoot, OpenCopy, FillCopy, OpenManifest,
       FillManifest, Attest, Verify, Inspect, ReadManifest, ListFiles, ReadFile,
       CheckUnattested, CreateAttestation, FillAttestation, CheckAttestation,
       Alter, AddStray, hands
  <2> QED
    BY <2>1
<1> QED
  BY <1>1, <1>2

\* What a step of a builder does to its own state.
LEMMA BuilderStep ==
    ASSUME BInv, NEW b \in Builders, Build(b)
    PROVE  \/ /\ pc[b] = "check" /\ pc'[b] \in {"make", "refused"}
              /\ at'[b] = at[b] /\ seen'[b] = seen[b] /\ UNCHANGED <<bundle, manifest>>
           \/ /\ pc[b] = "make" /\ pc'[b] = "copy"
              /\ at'[b] = at[b] /\ seen'[b] = seen[b] /\ UNCHANGED <<bundle, manifest>>
           \/ /\ pc[b] = "copy" /\ pc'[b] = "fill" /\ at'[b] = at[b] /\ at[b] \in Files
              /\ seen'[b] = [seen[b] EXCEPT ![at[b]] = Normalised[source[at[b]]]]
              /\ bundle' = [bundle EXCEPT ![at[b]] = Partial] /\ UNCHANGED manifest
           \/ /\ pc[b] = "fill" /\ at'[b] = at[b] + 1 /\ seen'[b] = seen[b] /\ at[b] \in Files
              /\ \E c \in Filled(bundle[at[b]], seen[b][at[b]]) :
                    bundle' = [bundle EXCEPT ![at[b]] = c]
              /\ pc'[b] = (IF at[b] = FileCount THEN "open manifest" ELSE "copy")
              /\ UNCHANGED manifest
           \/ /\ pc[b] = "open manifest" /\ pc'[b] = "fill manifest" /\ manifest' = Partial
              /\ at'[b] = at[b] /\ seen'[b] = seen[b] /\ UNCHANGED bundle
           \/ /\ pc[b] = "fill manifest" /\ pc'[b] = "built"
              /\ manifest' \in Filled(manifest, seen[b])
              /\ at'[b] = at[b] /\ seen'[b] = seen[b] /\ UNCHANGED bundle
<1>1. /\ b \in Processes /\ pc \in [Processes -> Labels]
      /\ at \in [Processes -> 1..(FileCount + 1)]
      /\ seen \in [Processes -> [Files -> Contents \cup {Absent}]]
  BY Roles DEF BInv, TypeOK
<1>2. pc[b] \in {"copy", "fill"} => at[b] \in Files
  <2>1. pc[b] \in {"copy", "fill"} => at[b] <= FileCount
    BY DEF BInv, BuilderInv, BuilderOK
  <2> QED
    BY <1>1, <2>1, Positions
<1>3. CASE CheckAbsent(b)
  BY <1>1, <1>3 DEF CheckAbsent, Goto, tree
<1>4. CASE MakeRoot(b)
  BY <1>1, <1>4 DEF MakeRoot, Goto
<1>5. CASE OpenCopy(b)
  BY <1>1, <1>2, <1>5 DEF OpenCopy, Goto
<1>6. CASE FillCopy(b)
  BY <1>1, <1>2, <1>6 DEF FillCopy, Goto
<1>7. CASE OpenManifest(b)
  BY <1>1, <1>7 DEF OpenManifest, Goto
<1>8. CASE FillManifest(b)
  BY <1>1, <1>8 DEF FillManifest, Goto
<1> QED
  BY <1>3, <1>4, <1>5, <1>6, <1>7, <1>8 DEF Build

LEMMA BuilderForm ==
    ASSUME BInv, NEW b \in Builders
    PROVE  /\ b \in Processes /\ at[b] \in 1..(FileCount + 1) /\ at[b] \in Nat
           /\ seen[b] \in [Files -> Contents \cup {Absent}]
           /\ DOMAIN bundle = Files
BY Roles, Positions DEF BInv, TypeOK

LEMMA DigestsKept == ASSUME BInv, LInv, Next PROVE DigestsInv'
<1> SUFFICES ASSUME NEW b \in Builders PROVE DigestsOK(b)'
  BY DEF DigestsInv
<1>0. TypeOK /\ DigestsOK(b)
  BY DEF BInv, LInv, DigestsInv
<1>1. Same(b) \/ Build(b)
  BY <1>0, BuilderForm, NextIs, BuilderMoves, InspectorMoves, OtherHandsMove, Roles DEF Moves
<1>2. ~textEdited' =>
        ~textEdited /\ \A f \in Files : Normalised[source'[f]] = Normalised[source[f]]
  BY <1>0, TextStays
<1>3. CASE Same(b)
  BY <1>0, <1>2, <1>3 DEF Same, DigestsOK
<1>4. CASE Build(b)
  <2>0. /\ at[b] \in Nat /\ seen[b] \in [Files -> Contents \cup {Absent}]
        /\ FileCount \in Nat /\ \A f \in Files : f \in Nat /\ f <= FileCount
    BY BuilderForm, Positions
  <2>1. CASE UNCHANGED <<at[b], seen[b]>> /\ pc[b] # "fill" /\ pc'[b] # "fill"
               /\ (pc'[b] \in {"check", "make", "refused"} => pc[b] \in {"check", "make", "refused"})
               /\ (pc'[b] \in {"open manifest", "fill manifest", "built"}
                     => pc[b] \in {"open manifest", "fill manifest", "built"})
    BY <1>0, <1>2, <2>1 DEF DigestsOK
  <2>2. CASE /\ pc[b] = "copy" /\ pc'[b] = "fill" /\ at'[b] = at[b] /\ at[b] \in Files
             /\ seen'[b] = [seen[b] EXCEPT ![at[b]] = Normalised[source[at[b]]]]
    <3>1. ~textEdited => \A f \in Files : f < at[b] \/ f = at[b] =>
             seen'[b][f] = Normalised[source[f]]
      BY <1>0, <2>0, <2>2 DEF DigestsOK
    <3> QED
      BY <1>2, <2>2, <3>1 DEF DigestsOK
  <2>3. CASE /\ pc[b] = "fill" /\ at'[b] = at[b] + 1 /\ seen'[b] = seen[b] /\ at[b] \in Files
             /\ pc'[b] = (IF at[b] = FileCount THEN "open manifest" ELSE "copy")
    <3>1. ~textEdited => \A f \in Files : f < at[b] + 1 => seen[b][f] = Normalised[source[f]]
      <4>1. \A f \in Files : f < at[b] + 1 => f < at[b] \/ f = at[b]
        BY <2>0
      <4> QED
        BY <1>0, <2>3, <4>1 DEF DigestsOK
    <3>2. pc'[b] \in {"open manifest", "copy"} /\ (pc'[b] = "open manifest" => at[b] = FileCount)
      BY <2>3
    <3> QED
      BY <1>2, <2>3, <3>1, <3>2 DEF DigestsOK
  <2> QED
    BY <1>4, <2>1, <2>2, <2>3, BuilderStep
<1> QED
  BY <1>1, <1>3, <1>4

LEMMA MakerKept == ASSUME BInv, LInv, Next PROVE MakerInv'
<1>0. TypeOK /\ MakerInv
  BY DEF BInv, LInv
<1>1. ASSUME manifest' # Absent
      PROVE  \E b \in Builders : pc'[b] \in {"fill manifest", "built"}
  <2>1. CASE manifest' = manifest
    <3>1. PICK b \in Builders : pc[b] \in {"fill manifest", "built"}
      BY <1>0, <1>1, <2>1 DEF MakerInv
    <3>2. Same(b) \/ Build(b)
      BY <1>0, BuilderForm, NextIs, BuilderMoves, InspectorMoves, OtherHandsMove, Roles DEF Moves
    <3>3. pc'[b] \in {"fill manifest", "built"}
      <4>1. CASE Same(b)
        BY <3>1, <4>1 DEF Same
      <4>2. CASE Build(b)
        BY <3>1, <4>2, BuilderStep
      <4> QED
        BY <3>2, <4>1, <4>2
    <3> QED
      BY <3>3
  <2>2. CASE manifest' # manifest
    <3>1. PICK b \in Builders : Build(b)
      BY <1>0, <2>2, NextIs, InspectorMoves, OtherHandsMove
    <3>2. pc'[b] \in {"fill manifest", "built"}
      BY <2>2, <3>1, BuilderStep
    <3> QED
      BY <3>2
  <2> QED
    BY <2>1, <2>2
<1>2. ASSUME alterations' = 0 PROVE ~stray'
  <2>1. alterations \in Nat
    BY <1>0, BoundAssumption DEF TypeOK
  <2>2. ~\E f \in Files, c \in Contents : Alter(f, c)
    BY <1>2, <2>1 DEF Alter
  <2>3. ~AddStray
    BY <1>2, <2>1 DEF AddStray
  <2>4. UNCHANGED <<alterations, stray>>
    BY <2>2, <2>3 DEF Next, Build, CheckAbsent, MakeRoot, OpenCopy, FillCopy, OpenManifest,
       FillManifest, Attest, Verify, Inspect, ReadManifest, ListFiles, ReadFile,
       CheckUnattested, CreateAttestation, FillAttestation, CheckAttestation,
       Edit, hands, tree
  <2> QED
    BY <1>0, <1>2, <2>4 DEF MakerInv
<1> QED
  BY <1>1, <1>2 DEF MakerInv

\* A builder once past the existence check stays past it.
LEMMA LoneBefore ==
    ASSUME BInv, Next
    PROVE  /\ \A b \in Builders : Past(b) => Past(b)'
           /\ Lone' => Lone
<1>1. ASSUME NEW b \in Builders, Past(b) PROVE Past(b)'
  <2>1. Same(b) \/ Build(b)
    BY BuilderForm, NextIs, BuilderMoves, InspectorMoves, OtherHandsMove, Roles DEF Moves, BInv
  <2>2. CASE Same(b)
    BY <1>1, <2>2 DEF Same, Past
  <2>3. CASE Build(b)
    BY <1>1, <2>3, BuilderStep DEF Past
  <2> QED
    BY <2>1, <2>2, <2>3
<1> QED
  BY <1>1 DEF Lone, Past

LEMMA LoneKept == ASSUME BInv, LInv, Next PROVE LoneInv'
<1> SUFFICES ASSUME Lone', alterations' = 0, NEW b \in Builders, Past(b)'
             PROVE  /\ \A f \in Files : f < at'[b] => bundle'[f] = seen'[b][f]
                    /\ pc'[b] = "fill" => bundle'[at'[b]] = Partial
                    /\ pc'[b] = "fill manifest" => manifest' = Partial
                    /\ pc'[b] = "built" => manifest' = seen'[b]
  BY DEF LoneInv
<1>0. /\ TypeOK /\ DigestsOK(b) /\ MakerInv /\ Lone
      /\ at[b] \in Nat /\ seen[b] \in [Files -> Contents \cup {Absent}] /\ DOMAIN bundle = Files
      /\ b \in Processes /\ FileCount \in Nat
      /\ \A f \in Files : f \in Nat /\ f <= FileCount /\ ~(f < 1)
  BY BuilderForm, LoneBefore, Positions DEF BInv, LInv, DigestsInv
<1>1. /\ alterations = 0
      /\ ~\E f \in Files, c \in Contents : Alter(f, c)
  <2>1. alterations \in Nat
    BY <1>0, BoundAssumption DEF TypeOK
  <2>2. ~\E f \in Files, c \in Contents : Alter(f, c)
    BY <2>1 DEF Alter
  <2>3. ~AddStray
    BY <2>1 DEF AddStray
  <2>4. UNCHANGED alterations
    BY <2>2, <2>3 DEF Next, Build, CheckAbsent, MakeRoot, OpenCopy, FillCopy, OpenManifest,
       FillManifest, Attest, Verify, Inspect, ReadManifest, ListFiles, ReadFile,
       CheckUnattested, CreateAttestation, FillAttestation, CheckAttestation,
       Edit, hands
  <2> QED
    BY <2>2, <2>4
<1>2. Past(b) =>
        /\ \A f \in Files : f < at[b] => bundle[f] = seen[b][f]
        /\ pc[b] = "fill" => bundle[at[b]] = Partial
        /\ pc[b] = "fill manifest" => manifest = Partial
        /\ pc[b] = "built" => manifest = seen[b]
  BY <1>0, <1>1 DEF LInv, LoneInv
\* Another builder that moves is not past the check after its step.
<1>3. ASSUME NEW c \in Builders, c # b, Build(c) PROVE UNCHANGED <<bundle, manifest>>
  <2>1. ~Past(c)'
    BY <1>3 DEF Lone, Past
  <2> QED
    BY <1>3, <2>1, BuilderStep DEF Past
<1>4. CASE Build(b)
  <2>1. CASE pc[b] \in {"check", "make"}
    <3>1. /\ at'[b] = 1 /\ pc'[b] \notin {"fill", "fill manifest", "built"}
      BY <1>0, <1>4, <2>1, BuilderStep DEF DigestsOK
    <3> QED
      BY <1>0, <3>1
  <2>2. CASE pc[b] = "copy"
    <3>1. /\ pc'[b] = "fill" /\ at'[b] = at[b] /\ at[b] \in Files
          /\ seen'[b] = [seen[b] EXCEPT ![at[b]] = Normalised[source[at[b]]]]
          /\ bundle' = [bundle EXCEPT ![at[b]] = Partial]
      BY <1>4, <2>2, BuilderStep
    <3>2. bundle'[at[b]] = Partial
      BY <1>0, <3>1
    <3>3. \A f \in Files : f < at[b] => bundle[f] = seen[b][f]
      BY <1>2, <2>2 DEF Past
    <3>4. \A f \in Files : f < at[b] => f # at[b]
      BY <1>0
    <3>5. \A f \in Files : f < at[b] => bundle'[f] = seen'[b][f]
      BY <1>0, <3>1, <3>3, <3>4
    <3> QED
      BY <3>1, <3>2, <3>5
  <2>3. CASE pc[b] = "fill"
    <3>1. /\ at'[b] = at[b] + 1 /\ seen'[b] = seen[b] /\ at[b] \in Files
          /\ pc'[b] \in {"open manifest", "copy"}
      BY <1>4, <2>3, BuilderStep
    <3>2. bundle' = [bundle EXCEPT ![at[b]] = seen[b][at[b]]]
      <4>1. PICK c \in Filled(bundle[at[b]], seen[b][at[b]]) :
                    bundle' = [bundle EXCEPT ![at[b]] = c]
        BY <1>4, <2>3, BuilderStep
      <4>2. c = seen[b][at[b]]
        BY <1>2, <2>3, <4>1 DEF Filled, Past
      <4> QED
        BY <4>1, <4>2
    <3>3. \A f \in Files : f < at[b] + 1 => f < at[b] \/ f = at[b]
      BY <1>0
    <3> QED
      BY <1>0, <1>2, <2>3, <3>1, <3>2, <3>3 DEF Past
  <2>4. CASE pc[b] \in {"open manifest", "fill manifest"}
    <3>1. pc[b] = "fill manifest" => manifest' = seen[b]
      BY <1>2, <1>4, BuilderStep DEF Filled, Past
    <3> QED
      BY <1>2, <1>4, <2>4, <3>1, BuilderStep DEF Past
  <2> QED
    BY <1>4, <2>1, <2>2, <2>3, <2>4, BuilderStep
<1>5. CASE ~Build(b)
  <2>1. Same(b)
    BY <1>0, <1>5, NextIs, BuilderMoves, InspectorMoves, OtherHandsMove, Roles DEF Moves
  <2>2. UNCHANGED <<bundle, manifest>>
    <3>1. CASE \E c \in Builders : Build(c)
      BY <1>3, <1>5, <3>1
    <3>2. CASE ~\E c \in Builders : Build(c)
      BY <1>1, <3>2 DEF Next, Attest, Verify, Inspect, ReadManifest, ListFiles, ReadFile,
         CheckUnattested, CreateAttestation, FillAttestation, CheckAttestation,
         Edit, AddStray, tree
    <3> QED
      BY <3>1, <3>2
  <2> QED
    BY <1>2, <2>1, <2>2 DEF Same, Past
<1> QED
  BY <1>4, <1>5

LEMMA LInvKept == ASSUME BInv, LInv, [Next]_vars PROVE LInv'
<1>1. CASE Next
  BY <1>1, DigestsKept, MakerKept, LoneKept DEF LInv
<1>2. CASE UNCHANGED vars
  <2> USE <1>2 DEF vars, tree, local, hands
  <2>1. DigestsInv'
    BY DEF LInv, DigestsInv, DigestsOK
  <2>2. MakerInv'
    BY DEF LInv, MakerInv
  <2>3. LoneInv'
    BY DEF LInv, LoneInv, Lone, Past
  <2> QED
    BY <2>1, <2>2, <2>3 DEF LInv
<1> QED
  BY <1>1, <1>2

(* The digests, the manifest's maker and a lone builder's files, in every  *)
(* run.                                                                    *)
THEOREM BundleDetail == Spec => []LInv
<1>1. BInv /\ LInv /\ [Next]_vars => LInv'
  BY LInvKept
<1> QED
  BY <1>1, InitLInv, BundleInvariant, PTL DEF Spec

\* A finished build has listed every file.
LEMMA BuiltDigests ==
    ASSUME BInv, LInv, NEW b \in Builders, pc[b] = "built"
    PROVE  /\ seen[b] \in Manifests /\ \A f \in Files : f < at[b]
           /\ ~textEdited => seen[b] = [f \in Files |-> Normalised[source[f]]]
<1>1. at[b] = FileCount + 1 /\ seen[b] \in Manifests
  BY DEF BInv, BuilderInv, BuilderOK, LInv, DigestsInv, DigestsOK
<1>2. \A f \in Files : f < at[b]
  BY <1>1, Positions
<1>3. ~textEdited => \A f \in Files : seen[b][f] = Normalised[source[f]]
  BY <1>2 DEF LInv, DigestsInv, DigestsOK
<1> QED
  BY <1>1, <1>2, <1>3 DEF Manifests

(* Builds agree on the manifest as long as no text changes, for any number *)
(* of builds and files and any changes of line endings during them.        *)
THEOREM BuildsAgree == Spec => []Reproducible
<1>1. BInv /\ LInv => Reproducible
  BY BuiltDigests DEF Reproducible
<1> QED
  BY <1>1, BundleInvariant, BundleDetail, PTL

LEMMA LoneBundle ==
    ASSUME BInv, LInv, Lone, alterations = 0, NEW b \in Builders, pc[b] = "built"
    PROVE  bundle = seen[b] /\ manifest = seen[b] /\ bundle \in Manifests
<1>1. /\ \A f \in Files : bundle[f] = seen[b][f]
      /\ manifest = seen[b] /\ seen[b] \in Manifests
  BY BuiltDigests DEF LInv, LoneInv, Past
<1>2. bundle \in [Files -> Contents \cup {Absent, Partial}]
  BY DEF BInv, TypeOK
<1> QED
  BY <1>1, <1>2 DEF Manifests

(* A manifest that can be read lists a bundle that is there, complete and  *)
(* unmixed, if one builder made it and nobody altered it.                  *)
THEOREM ManifestWrittenLast == Spec => []ManifestIsLast
<1>1. BInv /\ LInv => ManifestIsLast
  <2> SUFFICES ASSUME BInv, LInv, Lone, alterations = 0, manifest \in Manifests
               PROVE  bundle = manifest
    BY DEF ManifestIsLast
  <2>1. PICK b \in Builders : pc[b] = "built"
    BY DEF BInv, ManifestInv, Finished, BuiltBy
  <2> QED
    BY <2>1, LoneBundle
<1> QED
  BY <1>1, BundleInvariant, BundleDetail, PTL

(* A verification rejects no attested bundle of one builder that nobody    *)
(* altered, whatever other processes do meanwhile.                         *)
THEOREM IntactAccepted == Spec => NoFalseRejection
<1> DEFINE Intact == /\ Lone /\ alterations = 0
                     /\ attestation \in Attestations /\ attestation.signer \in Trusted
<1>1. ASSUME BInv, LInv, Next, Intact, NEW v \in Verifiers, pc'[v] = "failed"
      PROVE  pc[v] = "failed"
  <2>0. /\ TypeOK /\ v \in Inspectors /\ v \in Processes /\ v \notin Attesters
        /\ pc \in [Processes -> Labels] /\ InspectorOK(v)
    BY <1>1, Roles DEF BInv, TypeOK, InspectorInv
  <2>1. PICK b \in Builders : pc[b] = "built" /\ seen[b] = attestation.manifest
    <3>1. attestation.signer \in Inspectors /\ pc[attestation.signer] = "signed"
          /\ seen[attestation.signer] = attestation.manifest
      BY <1>1, ProcessAssumption, Roles DEF BInv, AttestationInv
    <3>2. Finished(attestation.manifest)
      BY <1>1, <3>1 DEF BInv, InspectorInv, InspectorOK
    <3> QED
      BY <3>2 DEF Finished, BuiltBy
  <2>2. bundle = seen[b] /\ manifest = seen[b] /\ bundle \in Manifests
    BY <1>1, <2>1, LoneBundle
  <2>3. pc[v] \in {"list", "read file", "verified"} => held[v] = seen[b]
    <3> SUFFICES ASSUME pc[v] \in {"list", "read file", "verified"} PROVE held[v] = seen[b]
      OBVIOUS
    <3>1. PICK c \in Builders : pc[c] = "built" /\ seen[c] = held[v]
      BY <2>0 DEF InspectorOK, Finished, BuiltBy
    <3> QED
      BY <1>1, <2>1, <3>1 DEF Lone
  <2>4. Same(v) \/ InspectorStep(v)
    BY <1>1, <2>0, NextIs, BuilderMoves, InspectorMoves, OtherHandsMove, Roles DEF Moves
  <2>5. CASE Same(v)
    BY <1>1, <2>5 DEF Same
  <2>6. ~ReadManifest(v)
    BY <1>1, <2>0, <2>2 DEF ReadManifest, Goto
  <2>7. ~ListFiles(v)
    <3>1. ExpectedFiles(v)
      BY <1>1, <2>2, ContentAssumption, AttestationAssumption
         DEF ExpectedFiles, LInv, MakerInv, Manifests
    <3> QED
      BY <1>1, <2>0, <3>1 DEF ListFiles, Goto
  <2>8. ~ReadFile(v)
    <3> SUFFICES ASSUME ReadFile(v) PROVE FALSE
      OBVIOUS
    <3>1. bundle[at[v]] = held[v][at[v]]
      BY <2>2, <2>3 DEF ReadFile
    <3>2. pc' = [pc EXCEPT ![v] = IF at[v] = FileCount THEN "verified" ELSE "read file"]
      BY <3>1 DEF ReadFile, Goto
    <3> QED
      BY <1>1, <2>0, <3>2
  <2>9. ~CheckAttestation(v)
    <3> SUFFICES ASSUME CheckAttestation(v) PROVE FALSE
      OBVIOUS
    <3>1. ValidFor(held[v])
      BY <1>1, <2>1, <2>3 DEF CheckAttestation, ValidFor
    <3> QED
      BY <1>1, <2>0, <3>1 DEF CheckAttestation, Goto
  <2> QED
    BY <2>0, <2>4, <2>5, <2>6, <2>7, <2>8, <2>9 DEF InspectorStep, Inspect
<1>2. BInv /\ LInv /\ [Next]_vars =>
        [Intact => \A v \in Verifiers : pc'[v] = "failed" => pc[v] = "failed"]_vars
  BY <1>1
<1> QED
  BY <1>2, BundleInvariant, BundleDetail, PTL DEF Spec, NoFalseRejection

----------------------------------------------------------------------------
(* What an acceptance is worth, and how far the refusal to overwrite goes. *)

\* What a verifier has accepted is what a trusted attester signed, in the file
\* that is on disk.
AcceptedIsSigned ==
    \A v \in Verifiers : pc[v] = "accepted" =>
        \E a \in Trusted : attestation = [manifest |-> seen[v], signer |-> a]

LEMMA AcceptedFromBInv == ASSUME BInv PROVE AcceptedIsSigned
<1> SUFFICES ASSUME NEW v \in Verifiers, pc[v] = "accepted"
             PROVE  \E a \in Trusted : attestation = [manifest |-> seen[v], signer |-> a]
  BY DEF AcceptedIsSigned
<1>1. PICK a \in Trusted : pc[a] = "signed" /\ seen[a] = seen[v]
  BY DEF BInv, AttestationInv
<1>2. attestation = [manifest |-> seen[a], signer |-> a]
  BY <1>1, ProcessAssumption DEF BInv, AttestationInv, OneAttestation
<1> QED
  BY <1>1, <1>2

(* Any two verifiers that accept have accepted the same bytes, those that  *)
(* the attestation on disk signs, however often the bundle was built,      *)
(* altered or attested between them.                                       *)
THEOREM VerifiersAgree ==
    Spec => [](/\ AcceptedIsSigned
               /\ \A v, w \in Verifiers :
                     (pc[v] = "accepted" /\ pc[w] = "accepted") => seen[v] = seen[w])
<1>1. ASSUME BInv, NEW v \in Verifiers, NEW w \in Verifiers,
             pc[v] = "accepted", pc[w] = "accepted"
      PROVE  seen[v] = seen[w]
  <2>1. PICK a \in Trusted : attestation = [manifest |-> seen[v], signer |-> a]
    BY <1>1, AcceptedFromBInv DEF AcceptedIsSigned
  <2>2. PICK c \in Trusted : attestation = [manifest |-> seen[w], signer |-> c]
    BY <1>1, AcceptedFromBInv DEF AcceptedIsSigned
  <2>3. attestation.manifest = seen[v] /\ attestation.manifest = seen[w]
    BY <2>1, <2>2
  <2> QED
    BY <2>3
<1>2. BInv => /\ AcceptedIsSigned
              /\ \A v, w \in Verifiers :
                    (pc[v] = "accepted" /\ pc[w] = "accepted") => seen[v] = seen[w]
  BY <1>1, AcceptedFromBInv
<1> QED
  BY <1>2, BundleInvariant, PTL

(* Once a verifier has accepted, no step changes the attestation again.    *)
THEOREM AcceptanceIsFinal ==
    Spec => [][(\E v \in Verifiers : pc[v] = "accepted") => attestation' = attestation]_vars
<1>1. ASSUME BInv, [Next]_vars, NEW v \in Verifiers, pc[v] = "accepted"
      PROVE  attestation' = attestation
  <2>1. PICK a \in Trusted : attestation = [manifest |-> seen[v], signer |-> a]
    BY <1>1, AcceptedFromBInv DEF AcceptedIsSigned
  <2>2. seen[v] \in Manifests /\ a \in Attesters
    BY <1>1, Roles, ProcessAssumption DEF BInv, InspectorInv, InspectorOK
  <2>3. attestation \in Attestations
    BY <2>1, <2>2 DEF Attestations
  <2>4. attestation # Absent /\ attestation # Partial
    BY <2>3, AttestationAssumption
  <2>5. CASE UNCHANGED vars
    BY <2>5 DEF vars, tree
  <2>6. CASE Next
    <3> SUFFICES ASSUME attestation' # attestation PROVE FALSE
      OBVIOUS
    <3>1. PICK p \in Inspectors : InspectorStep(p)
      BY <1>1, <2>6, NextIs, BuilderMoves, OtherHandsMove DEF BInv
    <3>2. p \in Attesters /\ FillAttestation(p)
      BY <2>4, <3>1 DEF InspectorStep, Inspect, ReadManifest, ListFiles, ReadFile,
         CheckUnattested, CreateAttestation, CheckAttestation, tree
    <3>3. attestation = Partial
      BY <1>1, <3>2 DEF FillAttestation, BInv, AttestationInv
    <3> QED
      BY <2>4, <3>3
  <2> QED
    BY <1>1, <2>5, <2>6
<1>2. BInv /\ [Next]_vars =>
        [(\E v \in Verifiers : pc[v] = "accepted") => attestation' = attestation]_vars
  BY <1>1
<1> QED
  BY <1>2, BundleInvariant, PTL DEF Spec

(* A bundle of one builder that nobody altered is, from its acceptance on, *)
(* on disk as it was accepted: files and manifest.                         *)
THEOREM AcceptedIsOnDisk ==
    Spec => []((Lone /\ alterations = 0) =>
                  \A v \in Verifiers : pc[v] = "accepted" =>
                      bundle = seen[v] /\ manifest = seen[v])
<1>1. ASSUME BInv, LInv, Lone, alterations = 0, NEW v \in Verifiers, pc[v] = "accepted"
      PROVE  bundle = seen[v] /\ manifest = seen[v]
  <2>1. PICK b \in Builders : pc[b] = "built" /\ seen[b] = seen[v]
    BY <1>1, Roles DEF BInv, InspectorInv, InspectorOK, Finished, BuiltBy
  <2> QED
    BY <1>1, <2>1, LoneBundle
<1>2. BInv /\ LInv => ((Lone /\ alterations = 0) =>
                          \A v \in Verifiers : pc[v] = "accepted" =>
                              bundle = seen[v] /\ manifest = seen[v])
  BY <1>1
<1> QED
  BY <1>2, BundleInvariant, BundleDetail, PTL

\* Two builders that are both between the existence check and the creation of
\* the directory (build lines 14 and 36): the one race there is.
NoRace == \A b, c \in Builders : (pc[b] = "make" /\ pc[c] = "make") => b = c

\* Before the directory exists, who is past the check is about to create it; and
\* a complete file was copied by a builder that has gone on to the next.
RootInv   == ~root => \A b \in Builders : Past(b) => pc[b] = "make"
CopiedInv == \A f \in Files : bundle[f] \in Contents =>
                \E b \in Builders : Past(b) /\ f < at[b]

LEMMA RootKept == ASSUME BInv, RootInv, Next PROVE RootInv'
<1> SUFFICES ASSUME ~root', NEW b \in Builders, Past(b)' PROVE pc'[b] = "make"
  BY DEF RootInv, Past
<1>0. TypeOK /\ b \in Processes
  BY Roles DEF BInv
<1>1. ~root
  BY DEF Next, Build, CheckAbsent, MakeRoot, OpenCopy, FillCopy, OpenManifest, FillManifest,
         Attest, Verify, Inspect, ReadManifest, ListFiles, ReadFile, CheckUnattested,
         CreateAttestation, FillAttestation, CheckAttestation, Edit, Alter, AddStray, tree
<1>2. ~MakeRoot(b)
  BY DEF MakeRoot
<1>3. Past(b) => pc[b] = "make"
  BY <1>1 DEF RootInv
<1>4. CASE Same(b)
  BY <1>3, <1>4 DEF Same, Past
<1>5. CASE Build(b)
  <2>1. CheckAbsent(b)
    BY <1>2, <1>3, <1>5 DEF Build, OpenCopy, FillCopy, OpenManifest, FillManifest, Past
  <2> QED
    BY <1>0, <2>1 DEF CheckAbsent, Goto, TypeOK, Past
<1> QED
  BY <1>0, <1>4, <1>5, NextIs, BuilderMoves, InspectorMoves, OtherHandsMove, Roles DEF Moves

\* Only a race lets a second builder past the check.
LEMMA NoRaceKeepsLone == ASSUME BInv, RootInv, Next, Lone, NoRace' PROVE Lone'
<1> SUFFICES ASSUME NEW b \in Builders, NEW c \in Builders, Past(b)', Past(c)' PROVE b = c
  BY DEF Lone, Past
<1>1. ASSUME NEW d \in Builders, Past(d)', ~Past(d)
      PROVE  ~root /\ pc'[d] = "make" /\ \A q \in Processes : q # d => Same(q)
  <2>1. ~Same(d)
    BY <1>1 DEF Same, Past
  <2>2. Build(d)
    BY <2>1, NextIs, BuilderMoves, InspectorMoves, OtherHandsMove, Roles DEF Moves, BInv
  <2>3. CheckAbsent(d)
    BY <1>1, <2>2 DEF Build, MakeRoot, OpenCopy, FillCopy, OpenManifest, FillManifest, Past
  <2>4. pc \in [Processes -> Labels] /\ d \in Processes
    BY Roles DEF BInv, TypeOK
  <2> QED
    BY <1>1, <2>2, <2>3, <2>4, BuilderMoves DEF CheckAbsent, Goto, Past, Moves, BInv
<1>2. CASE Past(b) /\ Past(c)
  BY <1>2 DEF Lone, Past
<1>3. ASSUME NEW d \in Builders, NEW e \in Builders, Past(d)', ~Past(d), Past(e)' PROVE d = e
  <2> SUFFICES ASSUME d # e PROVE FALSE
    OBVIOUS
  <2>1. ~root /\ pc'[d] = "make" /\ pc'[e] = pc[e]
    BY <1>1, <1>3, Roles DEF Same
  <2>2. pc[e] = "make"
    BY <1>3, <2>1 DEF RootInv, Past
  <2> QED
    BY <2>1, <2>2 DEF NoRace
<1> QED
  BY <1>2, <1>3

LEMMA CopiedKept == ASSUME BInv, CopiedInv, Next PROVE CopiedInv'
<1> SUFFICES ASSUME NEW f \in Files, bundle'[f] \in Contents
             PROVE  \E b \in Builders : Past(b)' /\ f < at'[b]
  BY DEF CopiedInv, Past
<1>0. TypeOK /\ f \in Nat
  BY Positions DEF BInv
<1>1. CASE bundle[f] \in Contents
  <2>1. PICK b \in Builders : Past(b) /\ f < at[b]
    BY <1>1 DEF CopiedInv
  <2>2. Past(b)' /\ b \in Processes /\ at[b] \in Nat
    BY <2>1, LoneBefore, BuilderForm
  <2>3. at'[b] = at[b] \/ at'[b] = at[b] + 1
    <3>1. Same(b) \/ Build(b)
      BY <1>0, NextIs, BuilderMoves, InspectorMoves, OtherHandsMove, Roles DEF Moves
    <3> QED
      BY <3>1, BuilderStep DEF Same
  <2> QED
    BY <1>0, <2>1, <2>2, <2>3
<1>2. CASE bundle[f] \notin Contents
  <2>1. ~\E g \in Files, c \in Contents : Alter(g, c)
    <3> SUFFICES ASSUME NEW g \in Files, NEW c \in Contents, Alter(g, c) PROVE FALSE
      OBVIOUS
    <3>1. f # g /\ bundle' = [bundle EXCEPT ![g] = c]
      BY <1>2 DEF Alter
    <3> QED
      BY <1>0, <1>2, <3>1 DEF TypeOK
  <2>2. PICK b \in Builders : Build(b)
    BY <1>2, <2>1 DEF Next, Attest, Verify, Inspect, ReadManifest, ListFiles, ReadFile,
       CheckUnattested, CreateAttestation, FillAttestation, CheckAttestation,
       Edit, AddStray, tree
  <2>3. /\ pc[b] = "fill" /\ at'[b] = at[b] + 1 /\ at[b] \in Nat /\ f = at[b]
        /\ pc'[b] \in {"open manifest", "copy"}
    BY <1>0, <1>2, <2>2, BuilderStep, BuilderForm, ContentAssumption DEF TypeOK
  <2>4. Past(b)'
    BY <2>3 DEF Past
  <2>5. at'[b] = f + 1
    BY <2>3, Zenon
  <2>6. f < f + 1
    BY <1>0
  <2> QED
    BY <2>4, <2>5, <2>6, Zenon
<1> QED
  BY <1>1, <1>2

RInv == RootInv /\ CopiedInv

LEMMA InitRInv == ASSUME Init PROVE RInv /\ Lone
<1>1. \A b \in Builders : pc[b] = "check"
  BY Roles DEF Init, Inspectors
<1>2. \A f \in Files : bundle[f] \notin Contents
  BY ContentAssumption DEF Init
<1> QED
  BY <1>1, <1>2 DEF RInv, RootInv, CopiedInv, Lone, Past

LEMMA RInvKept == ASSUME BInv, RInv, [Next]_vars PROVE RInv'
<1>1. CASE UNCHANGED vars
  BY <1>1 DEF vars, tree, local, RInv, RootInv, CopiedInv, Past
<1> QED
  BY <1>1, RootKept, CopiedKept DEF RInv

\* A lone builder writes a file once.
LEMMA LoneWritesOnce ==
    ASSUME BInv, CopiedInv, Next, Lone, alterations' = alterations,
           NEW f \in Files, bundle[f] \in Contents
    PROVE  bundle'[f] = bundle[f]
<1>0. TypeOK /\ f \in Nat /\ alterations \in Nat
  BY Positions, BoundAssumption DEF BInv, TypeOK
<1>1. ~\E g \in Files, c \in Contents : Alter(g, c)
  BY <1>0 DEF Alter
<1>2. CASE \E b \in Builders : Build(b)
  <2>1. PICK b \in Builders : Build(b)
    BY <1>2
  <2>2. PICK c \in Builders : Past(c) /\ f < at[c]
    BY DEF CopiedInv
  <2>3. at[b] \in Nat /\ at[c] \in Nat /\ DOMAIN bundle = Files
    BY BuilderForm
  <2>4. CASE pc[b] \in {"copy", "fill"}
    <3>1. b = c
      BY <2>2, <2>4 DEF Lone, Past
    <3>2. f # at[b]
      BY <1>0, <2>2, <2>3, <3>1
    <3> QED
      BY <2>1, <2>3, <2>4, <3>2, BuilderStep
  <2>5. CASE pc[b] \notin {"copy", "fill"}
    BY <2>1, <2>5, BuilderStep
  <2> QED
    BY <2>4, <2>5
<1>3. CASE ~\E b \in Builders : Build(b)
  BY <1>1, <1>3 DEF Next, Attest, Verify, Inspect, ReadManifest, ListFiles, ReadFile,
     CheckUnattested, CreateAttestation, FillAttestation, CheckAttestation,
     Edit, AddStray, tree
<1> QED
  BY <1>2, <1>3

(* The builder keeps its word not to overwrite in every run in which no    *)
(* two builders are between the check and the creation at once, builders   *)
(* that were killed and builders that start late included: the race is the *)
(* only way in which RefusesToOverwrite fails.                             *)
THEOREM OverwriteNeedsRace == Spec /\ []NoRace => RefusesToOverwrite
<1>1. Init => RInv /\ Lone
  BY InitRInv
<1>2. BInv /\ RInv /\ [Next]_vars => RInv'
  BY RInvKept
<1>3. BInv /\ RInv /\ Lone /\ NoRace' /\ [Next]_vars => Lone'
  <2>1. CASE UNCHANGED vars
    BY <2>1 DEF vars, local, Lone
  <2> QED
    BY <2>1, NoRaceKeepsLone DEF RInv
<1>4. BInv /\ RInv /\ Lone /\ [Next]_vars =>
        [alterations' = alterations =>
            \A f \in Files : bundle[f] \in Contents => bundle'[f] = bundle[f]]_vars
  BY LoneWritesOnce DEF RInv
<1> QED
  BY <1>1, <1>2, <1>3, <1>4, BundleInvariant, PTL DEF Spec, RefusesToOverwrite

============================================================================
