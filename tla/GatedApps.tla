------------------------------ MODULE GatedApps ------------------------------
(***************************************************************************)
(* The example applications at work: a browser logs in and out and sends   *)
(* requests, which pass the layers of their route one by one, while time   *)
(* passes, accounts change and the server is started again; and the        *)
(* counters that the gates of the prometheus example keep.                 *)
(*                                                                         *)
(* The browser keeps its cookies: their lifetimes are those of a browser   *)
(* session, or longer than a token's.  The leeway in which an expired      *)
(* token is still taken belongs to Life.                                   *)
(***************************************************************************)
EXTENDS ExampleApps, FiniteSets

CONSTANTS
    TabsOf,         \* the tabs that the browser has open on each application; a
                    \* tab has one request at a time
    Life,           \* how long registered claims are valid
    MaxTime,        \* bound: clock
    MaxCounted,     \* bound: answers counted since the server was started
    Changed,        \* accounts that POST /account of the SeaORM example writes
    NoToken

ASSUME AppsAssumption ==
    /\ DOMAIN TabsOf = Apps
    /\ Life \in Nat /\ MaxTime \in Nat /\ MaxCounted \in Nat
    /\ Changed \subseteq Account
    /\ \A a \in Changed : a.roles \subseteq CrateRoles

VARIABLES
    app,            \* the application; never changes
    now,
    started,        \* when the router was built
    accounts,       \* the account repository
    jar,            \* the token in the auth cookie
    req,            \* the request of each tab
    last,           \* history: the answer the last step gave, if it gave one
    installed,      \* METRICS is set
    count,          \* the counters of the registry
    handled,        \* history, where METRICS is set: answers of handlers that took
    refusals        \* an account, and answers 401, since the server was started

vars == <<app, now, started, accounts, jar, req, last, installed, count, handled, refusals>>

metrics == <<installed, count, handled, refusals>>

Tabs   == TabsOf[app]
Users  == DOMAIN AccountsOf(app)
Routes == DOMAIN RoutesOf(app)

\* JwtClaims<Account>; history: when its router was built, and when its login was.
Token == [user : Users, account : Account, exp : Nat, built : Nat, since : Nat]

Verdicts == {"authorized", "denied", "invalid"}

\* A request carries the cookie of the moment it was sent; "layer" is the next
\* one it meets, and "account" what the strict gates have put into it.
Request == [route : Routes, cookie : Token \cup {NoToken}, sent : Nat, layer : Nat,
            account : BOOLEAN, option : BOOLEAN]

NoRequest == [layer |-> 0]

Answers  == [request : Request, outcome : {"served", "refused", "broken"}, known : BOOLEAN]
NoAnswer == [outcome |-> "none"]

TypeOK ==
    /\ app \in Apps
    /\ now \in 0..MaxTime
    /\ started \in 0..now
    /\ accounts \in [Users -> Account]
    /\ jar \in Token \cup {NoToken}
    /\ req \in [Tabs -> Request \cup {NoRequest}]
    /\ last \in Answers \cup {NoAnswer}
    /\ installed \in BOOLEAN
    /\ count \in [Verdicts -> Nat]
    /\ handled \in Nat
    /\ refusals \in Nat

Zero == [v \in Verdicts |-> 0]

\* install_prometheus_metrics_with_registry, by the first gate that is built:
\* nothing has been registered before, and later gates find METRICS set.
Installs == app = "prometheus"

Init ==
    /\ app \in Apps
    /\ now = 0
    /\ started = 0
    /\ accounts = AccountsOf(app)
    /\ jar = NoToken
    /\ req = [t \in Tabs |-> NoRequest]
    /\ last = NoAnswer
    /\ installed = Installs
    /\ count = Zero
    /\ handled = 0
    /\ refusals = 0

-----------------------------------------------------------------------------
(* The surroundings *)

Tick ==
    /\ now < MaxTime
    /\ now' = now + 1
    /\ last' = NoAnswer
    /\ UNCHANGED <<app, started, accounts, jar, req>> /\ UNCHANGED metrics

\* The consumer node runs on when the node it has its tokens from is restarted.
\* The shared secret is configured, so that tokens stay valid.
Restart ==
    /\ started < now
    /\ started' = now
    /\ accounts' = AccountsOf(app)
    /\ req' = IF app \in {"distributed", "sea_orm"} THEN req ELSE [t \in Tabs |-> NoRequest]
    /\ last' = NoAnswer
    /\ installed' = Installs
    /\ count' = Zero
    /\ handled' = 0
    /\ refusals' = 0
    /\ UNCHANGED <<app, now, jar>>

\* POST /account of the SeaORM example.
ChangeAccount(u, a) ==
    /\ app = "sea_orm"
    /\ accounts' = [accounts EXCEPT ![u] = [@ EXCEPT !.roles = a.roles, !.groups = a.groups]]
    /\ last' = NoAnswer
    /\ UNCHANGED <<app, now, started, jar, req>> /\ UNCHANGED metrics

\* Mutant of Expiry: the claims of the start are used for every login.
ClaimsOfTheStart == started + Life

\* RegisteredClaims::new
Expiry == IF ClaimsAtStart(app) THEN started + Life ELSE now + Life

\* A login with the right password; the claims are not looked at, so that it
\* succeeds with claims that have expired, too.
Login(u) ==
    /\ \E v \in LoginAs(app, u) :
          jar' = [user |-> v, account |-> accounts[v], exp |-> Expiry,
                  built |-> started, since |-> now]
    /\ last' = NoAnswer
    /\ UNCHANGED <<app, now, started, accounts, req>> /\ UNCHANGED metrics

Logout ==
    /\ jar # NoToken
    /\ jar' = NoToken
    /\ last' = NoAnswer
    /\ UNCHANGED <<app, now, started, accounts, req>> /\ UNCHANGED metrics

-----------------------------------------------------------------------------
(* A request *)

Running(t) == req[t] # NoRequest

Send(t, route) ==
    /\ ~Running(t)
    /\ handled + refusals < MaxCounted
    /\ req' = [req EXCEPT ![t] = [route |-> route, cookie |-> jar, sent |-> now, layer |-> 1,
                                  account |-> FALSE, option |-> FALSE]]
    /\ last' = NoAnswer
    /\ UNCHANGED <<app, now, started, accounts, jar>> /\ UNCHANGED metrics

Valid(token) == token # NoToken /\ now < token.exp

Layers(t)  == RoutesOf(app)[req[t].route].layers
Takes(t)   == RoutesOf(app)[req[t].route].takes
Meets(t, mode) ==
    /\ Running(t)
    /\ req[t].layer <= Len(Layers(t))
    /\ Layers(t)[req[t].layer].mode = mode
    /\ UNCHANGED <<app, now, started, accounts, jar, installed>>

Forward(t, request) ==
    /\ req' = [req EXCEPT ![t] = [request EXCEPT !.layer = @ + 1]]
    /\ last' = NoAnswer

Answer(t, outcome, known) ==
    /\ last' = [request |-> req[t], outcome |-> outcome, known |-> known]
    /\ req' = [req EXCEPT ![t] = NoRequest]

Noted(n) == n' = IF installed THEN n + 1 ELSE n

\* Mutant of MeetOptional: whatever was in the cookie is handed on.
HandsOnTheCookie(t) ==
    /\ Meets(t, "optional")
    /\ Forward(t, [req[t] EXCEPT !.option = req[t].cookie])
    /\ UNCHANGED <<count, handled, refusals>>

\* A gate that allows anonymous users asks no policy and counts nothing.
MeetOptional(t) ==
    /\ Meets(t, "optional")
    /\ Forward(t, [req[t] EXCEPT !.option = Valid(req[t].cookie)])
    /\ UNCHANGED <<count, handled, refusals>>

\* Mutant of Verdict: a request without a cookie is nobody's.
CountsTokensOnly(t, policy) ==
    IF req[t].cookie = NoToken THEN "anonymous"
    ELSE IF ~Valid(req[t].cookie) THEN "invalid"
    ELSE IF Admits(policy, req[t].cookie.account) THEN "authorized" ELSE "denied"

Verdict(t, policy) ==
    IF DeniesAll(policy) \/ req[t].cookie = NoToken THEN "denied"
    ELSE IF ~Valid(req[t].cookie) THEN "invalid"
    ELSE IF Admits(policy, req[t].cookie.account) THEN "authorized" ELSE "denied"

Counts(verdict) ==
    count' = IF installed /\ verdict \in Verdicts THEN [count EXCEPT ![verdict] = @ + 1] ELSE count

MeetStrict(t) ==
    /\ Meets(t, "strict")
    /\ LET verdict == Verdict(t, Layers(t)[req[t].layer].policy) IN
       /\ Counts(verdict)
       /\ \/ /\ verdict = "authorized"
             /\ Forward(t, [req[t] EXCEPT !.account = TRUE])
             /\ UNCHANGED refusals
          \/ verdict # "authorized" /\ Answer(t, "refused", FALSE) /\ Noted(refusals)
    /\ UNCHANGED handled

\* The handler: an extractor Extension<T> that finds no T answers 500.
Handle(t) ==
    LET known   == CASE Takes(t) = "nothing" -> FALSE
                     [] Takes(t) = "option"  -> req[t].option
                     [] OTHER                -> req[t].account
        outcome == IF Takes(t) = "account" /\ ~known THEN "broken" ELSE "served"
    IN  /\ Running(t)
        /\ req[t].layer > Len(Layers(t))
        /\ Answer(t, outcome, known)
        /\ IF Takes(t) = "account" THEN Noted(handled) ELSE UNCHANGED handled
        /\ UNCHANGED <<app, now, started, accounts, jar, installed, count, refusals>>

Next ==
    \/ Tick \/ Restart \/ Logout
    \/ \E u \in Users : Login(u)
    \/ \E u \in Users, a \in Changed : ChangeAccount(u, a)
    \/ \E t \in Tabs : (\E r \in Routes : Send(t, r)) \/ MeetOptional(t) \/ MeetStrict(t) \/ Handle(t)

Spec == Init /\ [][Next]_vars

-----------------------------------------------------------------------------
(* Properties *)

\* A session lasts from its login for as long as the claims are made for; where
\* they are made with the router, it ends that long after the start, however late
\* the login was (auth_node.rs:97): later ones begin no session at all.
Ends(token) == IF ClaimsAtStart(app) THEN token.built + Life ELSE token.since + Life

\* Every route is open to those the example says it is for and to no others,
\* through all the layers that stack up before it, with the departures that
\* Departs names and no more: an account is known to the handler exactly while its
\* session lasts, whatever happens while the request passes the layers; a handler
\* that takes an account is never reached without, and others always are.
ServedExactly ==
    last # NoAnswer =>
    LET route == last.request.route
        token == last.request.cookie
        takes == RoutesOf(app)[route].takes
    IN  /\ last.outcome = IF takes = "account" /\ ~last.known THEN "refused" ELSE "served"
        /\ last.known =>
              /\ takes # "nothing" /\ token # NoToken
              /\ OpenTo(app, route, token.account)
              /\ last.request.sent < Ends(token)
        /\ ~last.known /\ takes # "nothing" =>
              \/ token = NoToken
              \/ ~OpenTo(app, route, token.account)
              \/ now >= Ends(token)

\* The counters tell what happened since the server was started: one denied or
\* invalid for each answer 401 and one authorized for each request that reached
\* a handler with an account, or is about to; gates that let everybody pass
\* count nothing (the routes of the prometheus example have one gate each).
CountsAddUp ==
    installed =>
    /\ count["denied"] + count["invalid"] = refusals
    /\ count["authorized"] = handled + Cardinality({t \in Tabs : Running(t) /\ req[t].account})

=============================================================================
