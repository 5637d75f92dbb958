SPECIFICATION Spec
CONSTANTS
    JobId = {1, 2}
    MaxRev = 2
    MaxFaults = 0
    Servers = {"s1"}
    NoServer = "none"
    Convertible = {}
    Procs = {"p1", "p2"}
INVARIANT DeletedJobsStop
CHECK_DEADLOCK FALSE
