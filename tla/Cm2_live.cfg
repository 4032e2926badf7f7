SPECIFICATION FairSpec
CONSTANTS
    RedirHosts = {"r1"}
    ManagerHosts = {"m1"}
    Stack = {"v4", "v6"}
    MaxAddrs = 1
    Answers = {1}
    Reachable <- V4First
    RetryThreshold = 1
    MaxDisconnects = 2
    Faults = {"lost", "dns", "row"}
    MaxFaults = 1
    LinkWifi = {FALSE}
    MaxInbox = 2
    Prompt = TRUE
INVARIANT ConnectedTruth
PROPERTY Recovers
PROPERTY CallsEnd
