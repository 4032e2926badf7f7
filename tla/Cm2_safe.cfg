SPECIFICATION Spec
CONSTANTS
    RedirHosts = {"r1", "r2"}
    ManagerHosts = {"m1", "m2"}
    Stack = {"v4"}
    MaxAddrs = 2
    Answers = {1, 2}
    Reachable <- V4Last
    RetryThreshold = 1
    MaxDisconnects = 2
    Faults = {"redirector", "manager", "link", "priority", "renew", "ip", "check",
              "lost", "dns", "row"}
    MaxFaults = 1
    LinkWifi = {TRUE, FALSE}
    MaxInbox = 3
    Prompt = TRUE
INVARIANT TypeOK
INVARIANT IndexInList
PROPERTY FreshManager
