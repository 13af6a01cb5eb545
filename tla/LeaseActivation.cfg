CONSTANTS
    Absent = Absent
    Unreadable = Unreadable
    Horizon <- MCHorizon
    Codes <- MCCodes
    AppliesTo <- MCAppliesTo
    IssuedLeases <- MCIssuedLeases
    MaxRequests = 2
SPECIFICATION Spec
INVARIANTS TypeOK RunsInsideWindow BoundedExposure OneGrantPerGeneration
PROPERTIES HeldAdvances
CHECK_DEADLOCK FALSE
