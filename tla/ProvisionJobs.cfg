SPECIFICATION FairSpec
CONSTANTS
    MaxJobs = 2
    MaxLog = 1
    MaxFaults = 1
    Kinds = {"docker_purge"}
    Users = {"u1", "admin"}
    Enqueuers = {"u1"}
    Servers = {"s1"}
    Bootstrap = {}
    BuildServers = {}
    Workers = {"w1"}
    Slots = {1, 2}
    Requests = {"r1"}
INVARIANTS
    TypeOK
    DoneMeansSucceeded
    KindIsKeptWhileRowExists
PROPERTIES
    NoOvertaking
    ImplementsLedger
    PendingIsServed
    RunningSettles
CHECK_DEADLOCK FALSE
