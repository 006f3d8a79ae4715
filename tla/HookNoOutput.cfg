SPECIFICATION Spec
CONSTANTS
    BaseContracts <- MCContracts
    EditValues <- MCEditValues
    MaxEdits = 1
    Launches <- MCLaunches
INVARIANTS
    OnlyProfileOutputs
CHECK_DEADLOCK FALSE
