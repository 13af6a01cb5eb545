CONSTANTS
    W1 = W1  W2 = W2  C1 = C1
    Absent = Absent
    Partial = Partial
    Writers = {W1, W2}
    Checkers = {C1}
    Mode <- WriteTwice
    Locks <- MCLocks
    Normalised <- MCNormalised
    Graphs <- MCGraphs
    Graph <- MCGraph
    Licensed <- MCLicensed
    Summary <- MCSummary
    MaxEdits = 0
    MaxModifications = 0
SPECIFICATION Spec
PROPERTIES RefusesToOverwriteEvidence
CHECK_DEADLOCK FALSE
