SPECIFICATION Spec
CONSTANTS
    MaxJobs = 1
    MaxLog = 1
    MaxFaults = 0
    Kinds = {"docker_purge"}
    Users = {"u1", "admin"}
    Enqueuers = {"u1"}
    Servers = {"s1"}
    Bootstrap = {}
    BuildServers = {}
    Workers = {"w1", "w2"}
    Slots = {1}
    Requests = {"r1"}
INVARIANT ScriptStartsAtMostOnce
CHECK_DEADLOCK FALSE
