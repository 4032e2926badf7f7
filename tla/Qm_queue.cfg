SPECIFICATION FairSpec
CONSTANTS
    Reports <- MCReports
    Configs <- MCConfigs
    Faults = {"publish", "lost", "silent", "connect", "refuse", "late", "tls"}
    MaxDepth = 2
    MaxBytes = 3
    LogBytes = 5
    LogNote = 2
    MaxItems = 3
    MaxChanges = 2
    MaxFaults = 1
INVARIANT TypeOK
INVARIANT NeverDead
INVARIANT LogBounded
INVARIANT AckTruth
INVARIANT PublishedOnce
PROPERTY QueueSpec
PROPERTY Drains
CHECK_DEADLOCK FALSE
