SPECIFICATION Spec
CONSTANTS
    Nodes = {n1}
    Missing = Missing
    Invalid = Invalid
    Domains = {"labels"}
    Configs <- OneConfig
    FieldValues <- MCFieldValues
    ForeignFields = {"labels"}
    Contents <- MCContents
    MinCooldown = 1
    MaxCooldown = 1
    HeartbeatGrain = 2
    Budgets <- WritesOrAFault
INVARIANTS
    TypeOK
    NoLostWakeup
PROPERTIES
    TruthfulCondition
    CooldownServed
    ImplementsContract
CHECK_DEADLOCK FALSE
