CONSTANTS
    None = None
    States <- MCStates
    Actions <- MCActions
    MachineIds <- MCMachineIds
    CaseIds <- MCCaseIds
    Inputs <- MCInputs
SPECIFICATION Spec
INVARIANTS TypeOK FindsTheReachable VerdictIsRight
PROPERTIES Termination
CHECK_DEADLOCK FALSE
