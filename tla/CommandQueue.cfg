SPECIFICATION Spec
CONSTANTS
    move = move
    eat = eat
    probe = probe
    halt = halt
    stray = stray
    kMove = kMove
    kEat = kEat
    kProbe = kProbe
    kHalt = kHalt
    NoCmd = NoCmd
    Cmd <- MCCmd
    Key <- MCKey
    KeyOf <- MCKeyOf
    Occupying <- MCOccupying
    Stop <- MCStop
    Foreign <- MCForeign
    Deadline <- MCDeadline
    PendingLimit = 1
    CacheCapacity = 2
    MaxNow = 1
    MaxWrites = 3
    MaxAckSeq = 2
    MaxRestarts = 1
INVARIANTS
    SlotIsTheOccupier
    PendingBounded
    SeqsIncrease
PROPERTIES
    FirstResultStands
    SlotFreedWithAnAnswer
CHECK_DEADLOCK FALSE
