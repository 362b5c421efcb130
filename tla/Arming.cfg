SPECIFICATION FairSpec
CONSTANTS
    assisted = assisted
    Mode <- MCOneMode
    ArmTimeout = 1
    BeatTimeout = 1
    ControlMaxAge = 1
    OfferMaxAge = 2
    ObservesAtOnce = TRUE
    MaxNow = 4
    MaxRequests = 1
    MaxProcs = 2
    MaxGames = 2
CONSTRAINT MCSomeoneIsLeft
INVARIANTS
    AuthorityWithdrawn
    ArmedTogether
    AuthorityIsOfTheSession
PROPERTIES
    AskedOfThisProcess
    PendingArmResolves
CHECK_DEADLOCK FALSE
