SPECIFICATION Spec
CONSTANTS
    c1 = c1
    c2 = c2
    u1 = u1
    Clients <- MCClients
    Users = {u1}
    UserOf <- MCUserOf
    Backends <- AllBackends
    MaxFaults = 2
    MaxIds = 5
    MaxUnread = 2
    NoId = NoId
    NoError = NoError
INVARIANTS
    TypeOK
    DamageCostsFaults
    DamageIsReported
    GivesUpOnlyWhenStuck
    AdviceIsCoherent
PROPERTIES
    NobodyLoops
CHECK_DEADLOCK FALSE
