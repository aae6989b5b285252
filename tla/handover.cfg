SPECIFICATION HandoverSpec
CONSTANTS
    Nodes = {n1}
    Missing = Missing
    Invalid = Invalid
    Domains = {"labels"}
    Configs <- OneConfig
    FieldValues <- MCFieldValues
    ForeignFields = {"labels"}
    Contents <- MCContents
    MinCooldown = 1
    MaxCooldown = 1
    HeartbeatGrain = 1
    Budgets <- NothingOrAnEdit
    Overlaps <- MCOverlaps
INVARIANTS
    NoWakeupLostAcross
PROPERTIES
    ReplicasKeepOthers
    ReplicasTruthful
CHECK_DEADLOCK FALSE
