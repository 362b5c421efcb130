SPECIFICATION Spec
CONSTANTS
    arm = arm
    rearm = rearm
    walk = walk
    again = again
    late = late
    eat = eat
    halt = halt
    peek = peek
    quit = quit
    drop = drop
    clear = clear
    NoCmd = NoCmd
    NoWork = NoWork
    Cmd <- MCCmd
    Key <- MCCmd
    Kind <- MCKindOf
    KeyOf <- MCKeyOf
    SessionOf <- MCSessionOf
    Until <- MCUntil
    TargetOf <- MCTargetOf
    MaxWork = 2
    MaxRemembered = 2
    MaxStalled = 1
    Timeout = 0
    MaxSessions = 2
    MaxNow = 1
    MaxIssued = 4
    MaxHazards = 1
INVARIANTS
    HandedOutOnce
    DrivenWithAuthority
    StoppedStaysStopped
    NothingVanishes
CHECK_DEADLOCK FALSE
