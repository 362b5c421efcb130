SPECIFICATION FairSpec
CONSTANTS
    CommitBudget = 2
    MaxSeq = 1
    MaxSessions = 1
    MaxEnds = 0
    MaxLocks = 0
PROPERTIES
    WorldIsFollowed
CHECK_DEADLOCK FALSE
