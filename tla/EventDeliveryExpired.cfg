CONSTANTS
    MaxRetries = 1
    P = P
    A = A  B = B
    D = D
    None = None
    Producers <- MCProducers
    OrderingScopes <- MCOrderingScopes
    Ids <- MCIds
    IdempotencyKeys <- MCIdempotencyKeys
    Data <- MCData
    ObservationTime <- MCObservationTime
    Events <- ExpiringStream
    Stream <- ExpiringStream
SPECIFICATION DSpec
PROPERTIES ExpiryDoesNotObstruct
CHECK_DEADLOCK FALSE
