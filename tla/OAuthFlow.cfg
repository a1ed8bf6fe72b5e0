SPECIFICATION Spec
CONSTANTS
    Logins = {l1, l2}
    Callbacks = {k1, k2}
    Browsers = {b1, b2}
    Users = {u1, u2}
    CookieNames <- MCCookieNames
    Setups <- MCSetups
    Nobody = Nobody
    Denied = Denied
    NoCookie = NoCookie
SYMMETRY FlowSymmetry
INVARIANTS
    TypeOK
    VerifierMatchesCode
    StableAccountIfUnique
PROPERTIES
    HandshakeSpec
    UndisturbedLoginPasses
    AnsweredLoginIsOver
    SessionSurvives
CHECK_DEADLOCK FALSE
