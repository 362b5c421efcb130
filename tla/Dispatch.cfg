SPECIFICATION FairSpec
CONSTANTS
    Cmd <- MCCmd
    Attempts = 2
    Timeout = 3
    NoProgress = 2
    Grace = 1
    Polls = 3
    Patience = 1
    Losable <- MCLosableDriven
INVARIANTS
    NoneLeftBehind
PROPERTIES
    SlotComesFree
    GuardLetsGo
