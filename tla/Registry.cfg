SPECIFICATION Spec
CONSTANTS
    Calls = {c1, c2, c3}
    a = a
    b = b
    x = x
    Names <- MCNames
    Ids <- MCIds
    Hash <- MCHash
    Lists <- MCLists
    Targets <- MCTargets
    SeedNames <- MCSeedNames
    Backends <- AllBackends
    Ops <- AllOps
    MaxLen = 3
    Seed = Seed
    NoTarget = NoTarget
SYMMETRY CallSymmetry
INVARIANTS
    TypeOK
    OneToOne
    LockedIsBalanced
    RemovedOnce
    StoredIsFound
    RemovedIsGone
CHECK_DEADLOCK FALSE
