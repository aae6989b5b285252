SPECIFICATION Spec
CONSTANTS
    Nodes = {n1}
    Missing = Missing
    Invalid = Invalid
    Domains = {"labels"}
    Configs <- TwoConfigs
    FieldValues <- MCFieldValues
    ForeignFields = {"annotations"}
    Contents <- MCContents
    MinCooldown = 1
    MaxCooldown = 1
    HeartbeatGrain = 1
    Budgets <- OneWriteOneEdit
INVARIANTS
    EditIsNoFlap
CHECK_DEADLOCK FALSE
