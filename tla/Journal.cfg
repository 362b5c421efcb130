SPECIFICATION FairSpec
CONSTANTS
    Streams <- MCBoth
    Faults <- MCTorn
    MaxLines = 3
    Budget = 2
    MaxPartial = 2
    ScanLines = 6
    MaxRecords = 5
    MaxHazards = 3
INVARIANTS
    PassedLinesWereRead
PROPERTIES
    Promise
    RecordsAreAccountedFor
CHECK_DEADLOCK FALSE
