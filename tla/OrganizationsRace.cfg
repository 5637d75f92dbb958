SPECIFICATION Spec
CONSTANTS
    Users = {1, 2}
    MaxOrgs = 2
    MaxFaults = 0
    SelfHosted = FALSE
    RootNamed = {}
    Inviting = {1, 2}
    Admins = {}
    Requests = {"r1", "r2"}
PROPERTY NeverTheLastOwner
CHECK_DEADLOCK FALSE
