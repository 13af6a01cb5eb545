CONSTANTS
    P1 = P1  P2 = P2
    A = A  B = B
    D1 = D1  D2 = D2
    None = None
    Producers <- MCProducers
    OrderingScopes <- MCOrderingScopes
    Ids <- MCIds
    IdempotencyKeys <- MCIdempotencyKeys
    Data <- MCData
    Events <- MCEvents
    ObservationTime <- MCObservationTime
SPECIFICATION Spec
INVARIANTS TypeOK LogIsContiguous MapsAgree AppliedAtMostOnce
PROPERTIES NothingForgotten DuplicateMeansApplied ImplementsEffectiveProcessing
