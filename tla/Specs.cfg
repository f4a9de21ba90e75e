CHECK_DEADLOCK FALSE
SPECIFICATION Spec
CONSTANTS
    EndpointLists <- MCEndpointLists
    ExtraEnvs <- MCExtraEnvs
    Creations <- MCCreations
    Edited <- MCEdited
    Values <- MCValues
    MaxEdits = 1
INVARIANTS
    NothingNil
    CanaryInherits
    SecretsProvided
    ObjectsFit
    TrafficFollowsSpec
PROPERTIES
    HonoursEdits
    TaskImages
