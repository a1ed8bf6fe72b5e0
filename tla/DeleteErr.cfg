SPECIFICATION Spec
CONSTANTS
    Calls = {c1}
    s1 = s1
    u1 = u1
    r1 = r1
    r3 = r3
    Users = {u1}
    Passwords = {p1, p2}
    Roles = {r1, r2}
    Unparsable = {r2}
    InColumns <- MCInColumns
    Seeds <- MCSeeds
    SeedPassword = p1
    Backends = {"surreal"}
    Ops = {"delete"}
    NoAccount = NoAccount
    NoSecret = NoSecret
    Seed = Seed
INVARIANTS
    FailedDeleteRestores
CHECK_DEADLOCK FALSE
