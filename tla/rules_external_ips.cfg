SPECIFICATION Spec
CONSTANTS
    Nodes = {n1}
    Missing = Missing
    Invalid = Invalid
    Domains = {"externalIPs"}
    Configs <- IPConfig
    FieldValues <- MCFieldValues
    ForeignFields = {"externalIPs"}
    Contents <- MCContents
    MinCooldown = 1
    MaxCooldown = 1
    HeartbeatGrain = 1
    Budgets <- OneWriteTwoLifecycles
INVARIANTS
    NoLostWakeup
    UpdatesJustified
    VersionsIdentify
    ForgottenWhenGone
PROPERTIES
    NoLostUpdate
CHECK_DEADLOCK FALSE
