SPECIFICATION FairSpec
CONSTANTS
    a = a
    b = b
    Key = {a}
    Planned = {}
    Trigger = {"thirst"}
    Kind <- MCKind
    MaxGoals = 2
    MaxOpen = 2
    MaxRemembered = 2
    MaxSuspensions = 1
    Wall = 2
    Ttl = 1
    MaxSteps = 1
    MaxPending = 2
    MaxInjections = 1
    MaxRestarts = 1
INVARIANTS
    WallBudgetButDrives
    OneStepInFlight
PROPERTY
    EveryGoalEnds
