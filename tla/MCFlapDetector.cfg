SPECIFICATION Spec
CONSTANTS
    Nodes = {n1}
    Desireds = {d1, d2}
    NoDesired = NoDesired
    MinCooldown = 1
    MaxCooldown = 4
    MaxSkew = 2
    MaxClock = 20
    MaxStreak = 6
INVARIANTS
    TypeOK
    CooldownBounded
    StreakGranted
PROPERTIES
    RunningCooldownKept
    DoublingCooldown
