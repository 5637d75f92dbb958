SPECIFICATION Fair
CONSTANTS
    Emails = {"m1", "m2"}
    GoogleEmail = "m1"
    MaxUsers = 2
    MaxTokens = 4
    MaxMails = 2
    Browsers = {"b1", "b2"}
    Here = "b1"
    Reqs = {"r1", "r2"}
    Tabs = {"t1", "t2"}
    NoTab = "none"
    Modes = {"solo", "shared", "google", "tab", "tabs"}
    MaxSolo = 3
    MaxShared = 2
    MaxFaults = 1
    Calls = {"c1", "c2"}
    MaxCalls = 3
    MaxAges = 2
INVARIANTS
    WebTypeOK
    RevokedStayRevoked
    OneTimeTokens
    GoogleLoginsAgree
    SessionKept
PROPERTIES
    CallsReturn
CHECK_DEADLOCK FALSE
