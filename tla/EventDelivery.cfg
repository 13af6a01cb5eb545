CONSTANTS
    MaxRetries = 1
    P = P
    A = A  B = B
    D = D
    None = None
    Producers <- MCProducers
    OrderingScopes <- MCOrderingScopes
    Ids <- MCIds
    IdempotencyKeys <- MCIdempotencyKeys
    Data <- MCData
    ObservationTime <- MCObservationTime
    Events <- MixedStream
    Stream <- MixedStream
SPECIFICATION DSpec
INVARIANTS DTypeOK NothingLost DroppedForCause
PROPERTIES GapsClose
CHECK_DEADLOCK FALSE
