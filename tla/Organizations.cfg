SPECIFICATION PageSpec
CONSTANTS
    Users = {1, 2}
    MaxOrgs = 3
    MaxFaults = 1
    SelfHosted = TRUE
    RootNamed = {3}
    Inviting = {1, 3}
    Admins = {}
    Requests = {"r1"}
    Procs = {"api", "worker"}
    OldOrgs = {1, 2}
    MaxClicks = 2
    MaxOthers = 1
INVARIANTS
    PageTypeOK
    MembershipsFit
    OldDataFollowsUsers
    MembersPageIsTrue
PROPERTIES
    KeepsOwnedOrganization
    DeletionEnds
CHECK_DEADLOCK FALSE
