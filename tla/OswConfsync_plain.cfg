SPECIFICATION FairSpec
CONSTANTS
    NVifs = 2
    Confs <- PlainConfs
    Boots <- AllOff
    Dfs = {"none", "needed"}
    Faults = {"lose", "drop"}
    MaxChanges = 1
    MaxFaults = 1
INVARIANT TypeOK
INVARIANT SettledTruth
PROPERTY NoInterrupt
PROPERTY Settles
CHECK_DEADLOCK FALSE
