SPECIFICATION Spec
CONSTANTS
    Servers = {"s1", "s2"}
    Names = {"h1", "h2"}
    Github = {"g1"}
    Gitlab = {"l1"}
    MaxHooks = 2
    MaxGit = 3
    Tasks = {"t1", "t2"}
    MaxSolo = 3
    MaxShared = 2
    MaxFaults = 1
INVARIANTS
    TypeOK
    SwarmOpsDoNotMeet
    HostsFollowRows
    ProviderFollowsRow
PROPERTIES
    TasksEnd
CHECK_DEADLOCK FALSE
