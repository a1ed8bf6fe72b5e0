SPECIFICATION Spec
CONSTANTS
    Calls = {c1, c2, c3}
    s1 = s1
    u1 = u1
    r1 = r1
    r3 = r3
    Users = {u1}
    Passwords = {p1, p2}
    Roles = {r1, r2, r3}
    Unparsable = {r2}
    InColumns <- MCInColumns
    Seeds <- MCSeeds
    SeedPassword = p1
    Backends = {"memory", "seaorm", "surreal"}
    Ops = {"delete", "set_roles", "set_password", "login"}
    NoAccount = NoAccount
    NoSecret = NoSecret
    Seed = Seed
SYMMETRY CallSymmetry
INVARIANTS
    TypeOK
    PairedUnlessReported
    AtomicDeletionRemovesSecret
    NoLoginAfterDelete
    PasswordChangeSticks
    RoleChangeSticks
CHECK_DEADLOCK FALSE
