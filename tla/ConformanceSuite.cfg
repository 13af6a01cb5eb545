CONSTANTS
    Absent = Absent
    Unreadable = Unreadable
    Cases <- MCCases
    InputOf <- MCInputOf
    Schemas <- MCSchemas
    ProductionSchemas <- MCProductionSchemas
    C0Schemas <- MCC0Schemas
    C0NegativeError <- MCC0NegativeError
    MaxExact <- MCMaxExact
    Millisecond <- MCMillisecond
    ObservationTime <- MCObservationTime
    RequiredFields <- MCRequiredFields
SPECIFICATION Spec
INVARIANTS
    TypeOK VerdictIsRight AcceptedInstancesHold EveryCommandIsFenced EventIsReference
     PassedTraceIsExact PassedSuiteFailsClosed
CHECK_DEADLOCK FALSE
