SPECIFICATION FairSpec
CONSTANTS
    k1 = k1
    k2 = k2
    k3 = k3
    NoRequest = NoRequest
    Key <- MCThreeKeys
    MaxPending = 1
    MaxRemembered = 2
    Lease = 1
    Grace = 0
    MaxNow = 1
    MaxIds = 3
    MaxAttaches = 2
CONSTRAINT MCKeysInOrder
INVARIANTS
    OneRecordPerKey
    StoreBounded
    LiveIsRemembered
PROPERTIES
    AnswerIsFinal
    StartedBeforeItsDeadline
    EverySubmissionEnds
CHECK_DEADLOCK FALSE
