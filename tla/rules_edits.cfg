SPECIFICATION FairSpec
CONSTANTS
    Nodes = {n1}
    Missing = Missing
    Invalid = Invalid
    Domains = {"labels"}
    Configs <- TwoConfigs
    FieldValues <- MCFieldValues
    ForeignFields = {"labels", "providerID"}
    Contents <- MCContents
    MinCooldown = 1
    MaxCooldown = 1
    HeartbeatGrain = 1
    Budgets <- OneWriteOneEdit
INVARIANTS
    NoLostWakeup
PROPERTIES
    TruthfulCondition
    Converges
CHECK_DEADLOCK FALSE
