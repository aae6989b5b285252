SPECIFICATION Spec
CONSTANTS
    Addresses <- MCAddresses
    IPs <- MCIPs
    MaxAddresses = 3
    MaxIPs = 3
    Keys = {"k1", "k2"}
    Values = {"a", "b"}
    RuleIDs = {1, 2, 3}
    Writes <- MCWrites
    NoTime = NoTime
    NoFields = NoFields
    Broken = Broken
    Kubeling = "kubeling"
    Second = 2
    MaxWrites = 3
    Times = {0, 1, 2, 3}
    MatchValues <- MCMatchValues
    Malformed = Malformed
    Names = {"a", "b", "c"}
INVARIANTS
    MergeSettles
    MergeIsOrderedUnion
    MergeIsStable
    ResolvedByConsent
    DriftIsWhatIsApplied
    CulpritsNamed
    NoDeadTerms
