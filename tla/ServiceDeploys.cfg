SPECIFICATION PageSpec
CONSTANTS
    Ports = {3000, 8080}
    DefaultPort = 3000
    Unwritten = 0
    MaxSaves = 4
    Kinds = {"app", "db", "compose"}
    Modes = {"edit", "solo", "shared", "page", "watch"}
    Servers = {"s1", "s2"}
    NoHost = "none"
    Procs = {"p1", "p2"}
    MaxHead = 2
    MaxSolo = 3
    MaxShared = 2
    MaxPage = 2
    Typable = {1, 3}
    MaxTyped = 2
    MaxFaults = 1
INVARIANTS
    PageTypeOK
    HostHoldsService
    PageIsTrue
PROPERTIES
    SuccessMeansRunning
    FreshImage
    SavedTogether
    PatchKeepsRest
    RequestsEnd
CHECK_DEADLOCK FALSE
