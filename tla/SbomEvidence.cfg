CONSTANTS
    W1 = W1  W2 = W2  C1 = C1
    Absent = Absent
    Partial = Partial
    Writers = {W1, W2}
    Checkers = {C1}
    Mode <- WriteAndRefresh
    Locks <- MCLocks
    Normalised <- MCNormalised
    Graphs <- MCGraphs
    Graph <- MCGraph
    Licensed <- MCLicensed
    Summary <- MCSummary
    MaxEdits = 1
    MaxModifications = 1
SPECIFICATION Spec
INVARIANTS TypeOK PassIsOneRun QuietPassIsCurrent QuietWriteDescribes
PROPERTIES NoFalseAlarm
CHECK_DEADLOCK FALSE
