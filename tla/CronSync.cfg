SPECIFICATION Spec
CONSTANTS
    JobId = {1, 10}
    MaxRev = 2
    MaxFaults = 1
    Servers = {"s1", "s2"}
    NoServer = "none"
    Convertible = {"s2"}
    Procs = {"p1"}
INVARIANTS
    TypeOK
    HostsFollowRows
    LineHasScript
PROPERTIES
    CleanedBeforeDeleted
CHECK_DEADLOCK FALSE
