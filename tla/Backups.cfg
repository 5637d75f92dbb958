SPECIFICATION Spec
CONSTANTS
    Machines = {"m1", "m2", "lo"}
    Loopback = {"lo"}
    First = "m1"
    Locals = {"none", "m2", "lo"}
    MaxServers = 2
    Tasks = {"t1", "t2"}
    MaxSolo = 4
    MaxShared = 2
    MaxFaults = 1
    Items = {"a", "b"}
    MaxVersion = 2
    Kinds = {"volume", "sql", "mysql", "custom", "mongo", "redis"}
    Profiles = {"p", "q"}
    Buckets = {"k"}
    MaxProfiles = 1
    Works = {"w1", "w2"}
    MaxDirs = 2
INVARIANTS
    TypeOK
    RowsFit
    SuccessIsTrue
    StagingRemoved
CHECK_DEADLOCK FALSE
