SPECIFICATION FairSpec
CONSTANTS
    Nodes = {n1}
    Missing = Missing
    Invalid = Invalid
    Domains = {"initialization", "labels"}
    Configs <- ChainedConfig
    FieldValues <- MCFieldValues
    ForeignFields = {"labels"}
    Contents <- MCContents
    MinCooldown = 1
    MaxCooldown = 1
    HeartbeatGrain = 1
    Budgets <- Nothing
PROPERTIES
    NoLostUpdate
    Converges
CHECK_DEADLOCK FALSE
