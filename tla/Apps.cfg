SPECIFICATION Spec
CONSTANTS
    t1 = t1
    t2 = t2
    TabsOf <- MCTabsOf
    Life = 2
    MaxTime = 3
    MaxCounted = 2
    Changed <- MCChanged
    NoToken = NoToken
INVARIANTS
    TypeOK
    ServedExactly
    CountsAddUp
SYMMETRY TabSymmetry
CHECK_DEADLOCK FALSE
