SPECIFICATION FairSpec
CONSTANTS
    arm = arm
    rearm = rearm
    walk = walk
    again = again
    late = late
    eat = eat
    halt = halt
    peek = peek
    quit = quit
    drop = drop
    clear = clear
    NoCmd = NoCmd
    NoWork = NoWork
    Cmd <- MCDayCmd
    Key <- MCDayCmd
    Kind <- MCDayKindOf
    KeyOf <- MCDayKeyOf
    SessionOf <- MCDaySessionOf
    Until <- MCDayUntil
    TargetOf <- MCDayTargetOf
    MaxWork = 2
    MaxRemembered = 4
    MaxStalled = 1
    Timeout = 1
    MaxSessions = 1
    MaxNow = 1
    MaxIssued = 4
    MaxHazards = 0
PROPERTIES
    WorkEnds
CHECK_DEADLOCK FALSE
