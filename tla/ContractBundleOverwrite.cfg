CONSTANTS
    B1 = B1  B2 = B2
    A1 = A1  A2 = A2
    V1 = V1
    Absent = Absent
    Partial = Partial
    Builders = {B1, B2}
    Attesters = {A1}
    Verifiers = {V1}
    Trusted = {A1}
    FileCount = 2
    MaxEdits = 0
    MaxAlterations = 0
    Contents <- MCContents
    Normalised <- MCNormalised
INIT MCInit
NEXT Next
PROPERTIES RefusesToOverwrite
CHECK_DEADLOCK FALSE
