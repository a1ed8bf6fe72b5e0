---------------------------- MODULE LoginHandshake ----------------------------
(***************************************************************************)
(* What an OAuth2 login promises: a session is granted to the browser that *)
(* started a login, for the user that the provider authenticated in that   *)
(* login, and a login is good for one session.                             *)
(***************************************************************************)
CONSTANTS
    Logins,     \* runs of the login redirect, each with its own random state
    Sessions,   \* the sessions that may be granted
    Browsers,
    Users,      \* the identities that the provider knows
    Nobody,     \* not yet
    Denied      \* the provider's other answer

VARIABLES
    started,    \* the browser that started each login, or Nobody
    approved,   \* the user that the provider authenticated, Denied or Nobody
    granted     \* the sessions granted

hvars == <<started, approved, granted>>

HInit ==
    /\ started = [l \in Logins |-> Nobody]
    /\ approved = [l \in Logins |-> Nobody]
    /\ granted = {}

HStart(l, b) ==
    /\ started[l] = Nobody
    /\ started' = [started EXCEPT ![l] = b]
    /\ UNCHANGED <<approved, granted>>

HAnswer(l, u) ==
    /\ started[l] # Nobody
    /\ approved[l] = Nobody
    /\ approved' = [approved EXCEPT ![l] = u]
    /\ UNCHANGED <<started, granted>>

HGrant(s, l) ==
    /\ approved[l] \in Users
    /\ \A g \in granted : g.session # s /\ g.login # l
    /\ granted' = granted \cup {[session |-> s, login |-> l,
                                 browser |-> started[l], user |-> approved[l]]}
    /\ UNCHANGED <<started, approved>>

HNext ==
    \/ \E l \in Logins, b \in Browsers : HStart(l, b)
    \/ \E l \in Logins, u \in Users \cup {Denied} : HAnswer(l, u)
    \/ \E s \in Sessions, l \in Logins : HGrant(s, l)

HSpec == HInit /\ [][HNext]_hvars
=============================================================================
