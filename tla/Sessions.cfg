SPECIFICATION Spec
CONSTANTS
    Roles = {"User", "Admin"}
    Rank <- MCRank
    Baseline = "User"
    Groups = {}
    Ids = {}
    Users = {"u1"}
    Accounts <- MCAccounts
    NoAccount = NoAccount
    Browsers = {"b1"}
    Calls = {c1, c2}
    Instances = {"i1", "i2"}
    Issuers = {"app", "shop"}
    Keys = {k1, k2, k3}
    Setups <- MCSetups
    Gates <- MCGates
    NoToken = NoToken
    Secret = Secret
    Lifetime = 1
    Leeway = 1
    MaxNow = 3
SYMMETRY Symmetry
CONSTRAINT OverlapEarly
INVARIANTS
    TypeOK
    LogoutSticks
PROPERTIES
    BoundedStaleness
    SessionsContinue
CHECK_DEADLOCK FALSE
