SPECIFICATION Spec
CONSTANTS
    Calls = {c1, c2, c3}
    g = g
    h = h
    p = p
    q = q
    bad = bad
    Ids = {g, h}
    Payloads = {p, q, bad}
    Unserializable = {bad}
    Requests <- MCRequests
    Seeds <- MCSeeds
    Backends <- AllBackends
    Seed = Seed
    NoRequest = NoRequest
SYMMETRY CallSymmetry
INVARIANTS
    TypeOK
    DeletedStaysGone
    AckedWriteSticks
PROPERTIES
    KeepsContract
CHECK_DEADLOCK FALSE
