SPECIFICATION Spec
CONSTANTS
    Logins = {l1}
    Callbacks = {k1}
    Browsers = {b1}
    Users = {u1}
    CookieNames <- MCCookieNames
    Setups <- MCDocumented
    Nobody = Nobody
    Denied = Denied
    NoCookie = NoCookie
PROPERTIES
    UndisturbedLoginPasses
CHECK_DEADLOCK FALSE
