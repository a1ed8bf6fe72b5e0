------------------------------ MODULE OAuth2Flow ------------------------------
(***************************************************************************)
(* OAuth2Gate: the login and callback handlers of axum-gate, between       *)
(* browsers with several tabs, the provider, and the account repository.   *)
(*                                                                         *)
(* /login draws a random state and a PKCE verifier, sets both as cookies   *)
(* and redirects to the provider.  The provider sends the browser back to  *)
(* /callback with the state and a code.  The handler checks the cookies    *)
(* that came with the request, then awaits in turn the provider, the       *)
(* application's mapper and the repository, and answers with cookies.      *)
(* Meanwhile the browser may open /login or /callback in other tabs, its   *)
(* cookies may expire, the request may be dropped and the answer be lost.  *)
(*                                                                         *)
(* A login is identified with the random state it drew, an account with    *)
(* the callback whose mapper made it (Account::new draws a fresh id).      *)
(***************************************************************************)
CONSTANTS
    Logins,         \* requests to /login
    Callbacks,      \* requests to /callback
    Browsers,
    Users,          \* identities at the provider, and so user ids of accounts
    CookieNames,
    Setups,         \* the deployments considered
    Nobody,
    Denied,
    NoCookie

Names == [state : CookieNames, pkce : CookieNames, auth : CookieNames]

\* names: of the gate's three cookies; issues: mapper and codec are configured;
\* repository: so is an account repository, with a unique index on user_id or
\* not; checksPkce: the provider compares the PKCE verifier (some ignore it).
Setup == [names : Names, issues : BOOLEAN, repository : BOOLEAN,
          uniqueUsers : BOOLEAN, checksPkce : BOOLEAN]

VARIABLES
    setup,      \* the deployment; never changes
    started,    \* the browser that each login redirected, or Nobody
    approved,   \* the user each login's code is for, Denied or Nobody
    redeemed,   \* the logins whose code the provider has exchanged
    jar,        \* each browser's cookies for this site
    accounts,   \* the repository: the user id stored under each account id
    pc,         \* where each callback stands
    from,       \* the browser it came from
    login,      \* the login whose state and code its URL carries
    verifier,   \* the verifier cookie it came with
    acc,        \* the account it is to issue a session for
    res,        \* its outcome
    clean       \* history: logins whose cookies nothing has touched since

provider == <<started, approved, redeemed>>
request  == <<from, login, verifier>>
vars == <<setup, started, approved, redeemed, jar, accounts, pc, from, login,
          verifier, acc, res, clean>>

Account == [id : Callbacks, user : Users]
Values  == [kind : {"state", "verifier"}, of : Logins] \cup [kind : {"session"}, of : Callbacks]

ASSUME SetupAssumption ==
    /\ Setups \subseteq Setup
    /\ Nobody \notin Users \cup Browsers \cup {Denied}
    /\ Denied \notin Users
    /\ Nobody \notin Account
    /\ NoCookie \notin Values

State(l)    == [kind |-> "state", of |-> l]
Verifier(l) == [kind |-> "verifier", of |-> l]
Session(c)  == [kind |-> "session", of |-> c]

Labels == {"idle", "exchange", "map", "query", "store", "respond", "done", "lost"}

\* The answers of a callback that has found a cookie missing or another login's.
CookieErrors == {"missing_state", "missing_pkce", "mismatch"}

Results == CookieErrors \cup
    {"none", "provider_error", "no_state", "no_code", "exchange_failed",
     "mapping_failed", "issuance_failed", "no_session", "session"}

TypeOK ==
    /\ setup \in Setups
    /\ started \in [Logins -> Browsers \cup {Nobody}]
    /\ approved \in [Logins -> Users \cup {Denied, Nobody}]
    /\ redeemed \subseteq Logins
    /\ jar \in [Browsers -> [CookieNames -> Values \cup {NoCookie}]]
    /\ accounts \in [Callbacks -> Users \cup {Nobody}]
    /\ pc \in [Callbacks -> Labels]
    /\ from \in [Callbacks -> Browsers \cup {Nobody}]
    /\ login \in [Callbacks -> Logins \cup {Nobody}]
    /\ verifier \in [Callbacks -> Values \cup {NoCookie}]
    /\ acc \in [Callbacks -> Account \cup {Nobody}]
    /\ res \in [Callbacks -> Results]
    /\ clean \subseteq Logins

-----------------------------------------------------------------------------
(* The builder: what the names of the three cookies are *)

Recommended == "axum-gate"      \* CookieTemplate::recommended()

DefaultGate == [state |-> "oauth-state", pkce |-> "oauth-pkce", auth |-> Recommended]

\* Mutant of WithCookieNames: both templates get the state's name.
WithOneCookieName(g, s, p) == [g EXCEPT !.state = s, !.pkce = s]

WithCookieNames(g, s, p) == [g EXCEPT !.state = s, !.pkce = p]

\* The closure is given the recommended template, not the gate's own.
ConfigureStateCookie(g) == [g EXCEPT !.state = Recommended]
ConfigurePkceCookie(g)  == [g EXCEPT !.pkce = Recommended]

-----------------------------------------------------------------------------
Init ==
    /\ setup \in Setups
    /\ started = [l \in Logins |-> Nobody]
    /\ approved = [l \in Logins |-> Nobody]
    /\ redeemed = {}
    /\ jar = [b \in Browsers |-> [n \in CookieNames |-> NoCookie]]
    /\ accounts = [c \in Callbacks |-> Nobody]
    /\ pc = [c \in Callbacks |-> "idle"]
    /\ from = [c \in Callbacks |-> Nobody]
    /\ login = [c \in Callbacks |-> Nobody]
    /\ verifier = [c \in Callbacks |-> NoCookie]
    /\ acc = [c \in Callbacks |-> Nobody]
    /\ res = [c \in Callbacks |-> "none"]
    /\ clean = {}

names == setup.names
Cookie(b, n) == jar[b][n]
StartedBy(b) == {l \in Logins : started[l] = b}

-----------------------------------------------------------------------------
(* Browsers and the provider *)

\* Mutant of LoginCookies: a verifier that is there already is kept.
KeepVerifier(b, l) ==
    [jar[b] EXCEPT ![names.state] = State(l),
                   ![names.pkce] = IF @ = NoCookie THEN Verifier(l) ELSE @]

LoginCookies(b, l) == [jar[b] EXCEPT ![names.state] = State(l), ![names.pkce] = Verifier(l)]

\* login_handler, and its answer reaching the browser.
Login(l, b) ==
    /\ started[l] = Nobody
    /\ started' = [started EXCEPT ![l] = b]
    /\ jar' = [jar EXCEPT ![b] = LoginCookies(b, l)]
    /\ clean' = (clean \ StartedBy(b)) \cup {l}
    /\ UNCHANGED <<setup, approved, redeemed, accounts, pc, request, acc, res>>

\* The user signs in at the provider, or declines.
Answer(l, u) ==
    /\ started[l] # Nobody
    /\ approved[l] = Nobody
    /\ approved' = [approved EXCEPT ![l] = u]
    /\ UNCHANGED <<setup, started, redeemed, jar, accounts, pc, request, acc, res, clean>>

\* The Max-Age of the state or the verifier cookie runs out.
Expire(b, n) ==
    /\ n \in {names.state, names.pkce}
    /\ Cookie(b, n) # NoCookie /\ Cookie(b, n).kind # "session"
    /\ jar' = [jar EXCEPT ![b][n] = NoCookie]
    /\ clean' = clean \ StartedBy(b)
    /\ UNCHANGED <<setup, provider, accounts, pc, request, acc, res>>

-----------------------------------------------------------------------------
(* callback_handler *)

Goto(c, label) == pc' = [pc EXCEPT ![c] = label] /\ UNCHANGED res

Respond(c, result) ==
    /\ pc' = [pc EXCEPT ![c] = "respond"]
    /\ res' = [res EXCEPT ![c] = result]

\* Mutant of StateMatches: a state cookie is there, whichever login it is of.
StateThere(b, l) == Cookie(b, names.state).kind = "state"

StateMatches(b, l) == Cookie(b, names.state) = State(l)

\* What the handler finds before its first await, in the order it looks.
\* "bare" is the callback URL without parameters, "codeless" one with a state only.
Verdict(b, l, url) ==
    IF Cookie(b, names.state) = NoCookie              THEN "missing_state"
    ELSE IF Cookie(b, names.pkce) = NoCookie          THEN "missing_pkce"
    ELSE IF url = "full" /\ approved[l] = Denied      THEN "provider_error"
    ELSE IF url = "bare"                              THEN "no_state"
    ELSE IF ~StateMatches(b, l)                       THEN "mismatch"
    ELSE IF url = "codeless"                          THEN "no_code"
    ELSE "none"

\* A browser opens the URL that the provider made for login l: the one that
\* started l or, with a copied link, another one; for the first time or again.
Arrive(c, b, l, url) ==
    /\ pc[c] = "idle"
    /\ approved[l] # Nobody
    /\ from' = [from EXCEPT ![c] = b]
    /\ login' = [login EXCEPT ![c] = l]
    /\ verifier' = [verifier EXCEPT ![c] = Cookie(b, names.pkce)]
    /\ IF Verdict(b, l, url) = "none" THEN Goto(c, "exchange")
                                      ELSE Respond(c, Verdict(b, l, url))
    /\ UNCHANGED <<setup, provider, jar, accounts, acc, clean>>

\* The provider exchanges a code once, for the verifier of its own login.
Redeemable(c) ==
    /\ login[c] \notin redeemed
    /\ setup.checksPkce => verifier[c] = Verifier(login[c])

ExchangeOk(c) ==
    /\ pc[c] = "exchange"
    /\ Redeemable(c)
    /\ redeemed' = redeemed \cup {login[c]}
    /\ IF setup.issues THEN Goto(c, "map") ELSE Respond(c, "no_session")
    /\ UNCHANGED <<setup, started, approved, jar, accounts, request, acc, clean>>

\* The provider refuses, is not reached, or its answer is lost or too late.
ExchangeFails(c) ==
    /\ pc[c] = "exchange"
    /\ \/ UNCHANGED redeemed
       \/ Redeemable(c) /\ redeemed' = redeemed \cup {login[c]}
    /\ Respond(c, "exchange_failed")
    /\ UNCHANGED <<setup, started, approved, jar, accounts, request, acc, clean>>

\* Mutant of Mapped: the user is taken from the state, not from the token.
MappedFromState(c) == [id |-> c, user |-> login[c]]

\* The account that the application's mapper makes of the provider's answer.
Mapped(c) == [id |-> c, user |-> approved[login[c]]]

\* Encoding the token and the cookie may fail.
Issue(c) == \E result \in {"session", "issuance_failed"} : Respond(c, result)

Map(c) ==
    /\ pc[c] = "map"
    /\ \/ /\ acc' = [acc EXCEPT ![c] = Mapped(c)]
          /\ IF setup.repository THEN Goto(c, "query") ELSE Issue(c)
       \/ Respond(c, "mapping_failed") /\ UNCHANGED acc
    /\ UNCHANGED <<setup, provider, jar, accounts, request, clean>>

Found(c) == {k \in Callbacks : accounts[k] = acc[c].user}

\* query_account_by_user_id(...).await
QueryAccount(c) ==
    /\ pc[c] = "query"
    /\ \/ \E k \in Found(c) : acc' = [acc EXCEPT ![c].id = k] /\ Issue(c)
       \/ Found(c) = {} /\ Goto(c, "store") /\ UNCHANGED acc
       \/ Respond(c, "issuance_failed") /\ UNCHANGED acc
    /\ UNCHANGED <<setup, provider, jar, accounts, request, clean>>

\* Mutant of StoreErr: the session is issued for the account that was not stored.
IssueAnyway(c) == Issue(c)

StoreErr(c) == Respond(c, "issuance_failed")

\* store_account(...).await
StoreAccount(c) ==
    /\ pc[c] = "store"
    /\ \/ /\ setup.uniqueUsers => Found(c) = {}
          /\ accounts' = [accounts EXCEPT ![c] = acc[c].user]
          /\ Issue(c)
       \/ StoreErr(c) /\ UNCHANGED accounts
    /\ UNCHANGED <<setup, provider, jar, request, acc, clean>>

\* Mutant of Cleared: a failed exchange leaves the cookies for a retry.
ClearedUnlessExchangeFailed(c) ==
    IF res[c] = "exchange_failed" THEN jar[from[c]]
    ELSE [jar[from[c]] EXCEPT ![names.state] = NoCookie, ![names.pkce] = NoCookie]

\* Every answer removes the state and the verifier cookie.
Cleared(c) == [jar[from[c]] EXCEPT ![names.state] = NoCookie, ![names.pkce] = NoCookie]

\* Mutant of AnswerCookies: an answer without a session removes the session cookie.
LogOutOnError(c) ==
    [Cleared(c) EXCEPT ![names.auth] = IF res[c] = "session" THEN Session(c) ELSE NoCookie]

AnswerCookies(c) ==
    IF res[c] = "session" THEN [Cleared(c) EXCEPT ![names.auth] = Session(c)] ELSE Cleared(c)

\* The answer reaches the browser.
Deliver(c) ==
    /\ pc[c] = "respond"
    /\ Goto(c, "done")
    /\ jar' = [jar EXCEPT ![from[c]] = AnswerCookies(c)]
    /\ clean' = clean \ StartedBy(from[c])
    /\ UNCHANGED <<setup, provider, accounts, request, acc>>

\* The browser hangs up: the handler's future is dropped, or its answer is lost.
Lose(c) ==
    /\ pc[c] \notin {"idle", "done", "lost"}
    /\ Goto(c, "lost")
    /\ UNCHANGED <<setup, provider, jar, accounts, request, acc, clean>>

Step(c) ==
    \/ ExchangeOk(c) \/ ExchangeFails(c) \/ Map(c) \/ QueryAccount(c)
    \/ StoreAccount(c) \/ Deliver(c) \/ Lose(c)

Next ==
    \/ \E l \in Logins, b \in Browsers : Login(l, b)
    \/ \E l \in Logins, u \in Users \cup {Denied} : Answer(l, u)
    \/ \E b \in Browsers, n \in CookieNames : Expire(b, n)
    \/ \E c \in Callbacks, b \in Browsers, l \in Logins, url \in {"full", "codeless", "bare"} :
          Arrive(c, b, l, url)
    \/ \E c \in Callbacks : Step(c)

Spec == Init /\ [][Next]_vars

-----------------------------------------------------------------------------
(* Properties *)

Issued == {c \in Callbacks : res[c] = "session"}

\* The sessions that the callbacks grant, as the handshake sees them.
Granted == {[session |-> c, login |-> login[c], browser |-> from[c], user |-> acc[c].user] :
               c \in Issued}

Handshake == INSTANCE LoginHandshake WITH Sessions <- Callbacks, granted <- Granted

\* The handlers implement the handshake: however callbacks are repeated,
\* opened elsewhere, late, dropped or run together, a session goes to the
\* browser that started the login, for the user who signed in in that login,
\* and one login gives one session.
HandshakeSpec == Handshake!HSpec

\* A code is sent to the provider with the verifier of its own login, whatever
\* logins ran in other tabs.
VerifierMatchesCode ==
    \A c \in Callbacks : pc[c] = "exchange" => verifier[c] = Verifier(login[c])

\* A callback whose login's cookies nothing has touched passes the checks of
\* its cookies.
UndisturbedLoginPasses ==
    [][\A c \in Callbacks : pc[c] = "idle" /\ res'[c] \in CookieErrors =>
          ~(login'[c] \in clean /\ started[login'[c]] = from'[c])]_vars

\* Once a callback has been answered no other one for that login from that
\* browser gets as far as the provider.
AnsweredLoginIsOver ==
    [][\A c, d \in Callbacks : pc[c] = "idle" /\ pc'[c] = "exchange" /\ pc[d] = "done" =>
          ~(login[d] = login'[c] /\ from[d] = from'[c])]_vars

\* A browser's session cookie changes only by a callback that grants another
\* session: a login that is begun, fails or is repeated logs nobody out.
SessionSurvives ==
    [][\A b \in Browsers :
          Cookie(b, names.auth)' # Cookie(b, names.auth) =>
             \E c \in Issued : from[c] = b /\ pc[c] = "respond" /\ pc'[c] = "done"]_vars

\* with_account_repository: "insert into an AccountRepository on first login
\* (idempotent)".  Whoever signs in as one user gets sessions of one account,
\* where user_id has a unique index.
StableAccountIfUnique ==
    \A c, d \in Issued :
        setup.uniqueUsers /\ setup.repository /\ acc[c].user = acc[d].user
        => acc[c].id = acc[d].id
=============================================================================
