SPECIFICATION FairSpec
CONSTANTS
    CommitBudget = 2
    MaxSeq = 2
    MaxSessions = 2
    MaxEnds = 2
    MaxLocks = 2
INVARIANTS
    PointedIsWhole
    BaselineIsOurs
PROPERTIES
    ReadSeesTheCommitted
    BaselineComes
CHECK_DEADLOCK FALSE
