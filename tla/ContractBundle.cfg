CONSTANTS
    B1 = B1  B2 = B2
    A1 = A1  A2 = A2
    V1 = V1
    Absent = Absent
    Partial = Partial
    Builders = {B1, B2}
    Attesters = {A1, A2}
    Verifiers = {V1}
    Trusted = {A1}
    FileCount = 2
    MaxEdits = 1
    MaxAlterations = 1
    Contents <- MCContents
    Normalised <- MCNormalised
INIT MCInit
NEXT Next
INVARIANTS TypeOK EvidenceIsOneBuild OneAttestation ManifestIsLast Reproducible
PROPERTIES AttestationStands NoFalseRejection
CHECK_DEADLOCK FALSE
