SPECIFICATION Spec
CONSTANTS
    Nodes = {n1}
    Missing = Missing
    Invalid = Invalid
    Domains = {"initialization"}
    Configs <- InitConfigs
    FieldValues <- MCFieldValues
    ForeignFields = {"labels", "providerID", "taints"}
    Contents <- MCContents
    MinCooldown = 1
    MaxCooldown = 1
    HeartbeatGrain = 1
    Budgets <- TwoWritesEditAndFault
INVARIANTS
    NoLostWakeup
PROPERTIES
    ProperlyInitialized
    ImplementsContract
CHECK_DEADLOCK FALSE
