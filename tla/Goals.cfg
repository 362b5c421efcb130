SPECIFICATION Spec
CONSTANTS
    a = a
    b = b
    Key = {a, b}
    Planned = {a, b}
    Trigger = {"thirst"}
    Kind <- MCKind
    MaxGoals = 3
    MaxOpen = 2
    MaxRemembered = 2
    MaxSuspensions = 1
    Wall = 1
    Ttl = 1
    MaxSteps = 1
    MaxPending = 1
    MaxInjections = 1
    MaxRestarts = 1
SYMMETRY MCSymmetry
INVARIANTS
    TypeOK
    OpenKeysResolve
    OverIsOver
