SPECIFICATION Spec
CONSTANTS
    Users = {1, 2}
    MaxOrgs = 2
    MaxFaults = 0
    SelfHosted = FALSE
    RootNamed = {}
    Inviting = {1, 2}
    Admins = {}
    Requests = {"r1"}
INVARIANT OwnerIdAligned
CHECK_DEADLOCK FALSE
