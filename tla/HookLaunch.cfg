SPECIFICATION Spec
CONSTANTS
    BaseContracts <- MCContracts
    EditValues <- MCEditValues
    MaxEdits = 1
    Launches <- MCLaunches
INVARIANTS
    ForcedStartIsBare
    ServingMeetsAssumptions
    EndpointsOfProfile
    PrecheckAgrees
    ReferencesHold
    RunningMeetsAssumptions
CHECK_DEADLOCK FALSE
