SPECIFICATION FairLockSpec
CONSTANTS
    Proc = {a, b}
    StaleAfter = 1
    MaxAttempts = 2
    MaxNow = 4
INVARIANTS
    OneUnlessRobbed
PROPERTIES
    RobbedWhenStaleOrRaced
    NeverWedged
CHECK_DEADLOCK FALSE
