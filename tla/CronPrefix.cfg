SPECIFICATION Spec
CONSTANTS
    JobId = {1, 10}
    MaxRev = 2
    MaxFaults = 0
    Servers = {"s1"}
    NoServer = "none"
    Convertible = {}
    Procs = {"p1"}
INVARIANT JobsRunOnTheirServer
CHECK_DEADLOCK FALSE
