------------------------------- MODULE Sessions -------------------------------
(***************************************************************************)
(* Sessions without a session store: the login and logout handlers, the    *)
(* JWT codec, and the cookie, bearer and static token gates, on several    *)
(* instances of a service.                                                 *)
(*                                                                         *)
(* A login reads the account and puts it into a token, with an expiry that *)
(* was fixed before.  Every gate decides from the token alone.  Meanwhile  *)
(* accounts change, instances restart with or without their key, requests  *)
(* are on their way, and logging out removes a cookie and nothing else.    *)
(***************************************************************************)
EXTENDS AccessPolicy

CONSTANTS
    Users,
    Accounts,       \* the states of an account that are considered
    NoAccount,
    Browsers,
    Calls,          \* requests under way
    Instances,
    Issuers,
    Keys,
    Setups,         \* the deployments considered
    Gates,
    NoToken,
    Secret,         \* the shared token of a static token gate
    Lifetime,       \* what the application adds to the time for the expiry
    Leeway,         \* Validation::default().leeway
    MaxNow          \* bound: the clock

\* issuer: of each instance's service; stableKey: a key is configured, or
\* JsonWebTokenOptions::default() draws one.
Setup == [issuer : [Instances -> Issuers], stableKey : BOOLEAN]

Gate == [carrier : {"cookie", "bearer", "static"}, optional : BOOLEAN, policy : Policy]

ASSUME SessionsAssumption ==
    /\ Accounts \subseteq Account
    /\ NoAccount \notin Accounts
    /\ Setups \subseteq Setup
    /\ Gates \subseteq Gate
    /\ Lifetime \in Nat
    /\ Leeway \in Nat
    /\ MaxNow \in Nat

VARIABLES
    setup,      \* the deployment; never changes
    now,        \* the clock, in the unit of Lifetime
    account,    \* the repository: the state of each user's account
    key,        \* the key of each running instance
    drawn,      \* the keys drawn so far
    jar,        \* each browser's session cookie
    call,       \* where each call stands
    changed,    \* history: when each user's account last changed
    out         \* history: browsers that are logged out

vars == <<setup, now, account, key, drawn, jar, call, changed, out>>

Tokens == [user : Users, account : Accounts, exp : Nat, issuer : Issuers, key : Keys]

Idle == [pc |-> "idle"]

Call ==
    [pc : {"idle"}]
    \cup [pc : {"query"}, browser : Browsers, user : Users, at : Instances, exp : Nat]
    \cup [pc : {"verify"}, browser : Browsers, user : Users, at : Instances, exp : Nat,
          account : Accounts]
    \cup [pc : {"answer"}, browser : Browsers, token : Tokens]
    \cup [pc : {"logout"}, browser : Browsers, carried : BOOLEAN, overtaken : BOOLEAN]
    \cup [pc : {"request"}, cookie : Tokens \cup {NoToken}, bearer : Tokens \cup {NoToken, Secret}]

TypeOK ==
    /\ setup \in Setups
    /\ now \in Nat
    /\ account \in [Users -> Accounts \cup {NoAccount}]
    /\ key \in [Instances -> Keys]
    /\ drawn \subseteq Keys
    /\ jar \in [Browsers -> Tokens \cup {NoToken}]
    /\ call \in [Calls -> Call]
    /\ changed \in [Users -> Nat]
    /\ out \in [Browsers -> BOOLEAN]

-----------------------------------------------------------------------------
(* The surroundings: time, the repository, restarts, lost requests *)

Tick ==
    /\ now < MaxNow
    /\ now' = now + 1
    /\ UNCHANGED <<setup, account, key, drawn, jar, call, changed, out>>

\* An account is updated, deleted or inserted.
Change(u, a) ==
    /\ a # account[u]
    /\ account' = [account EXCEPT ![u] = a]
    /\ changed' = [changed EXCEPT ![u] = now]
    /\ UNCHANGED <<setup, now, key, drawn, jar, call, out>>

\* An instance is started again, with the configured key or a new one; the
\* logins it was working on are gone.
Restart(i) ==
    /\ \/ setup.stableKey /\ UNCHANGED <<key, drawn>>
       \/ \E k \in Keys \ drawn :
             /\ ~setup.stableKey
             /\ key' = [key EXCEPT ![i] = k]
             /\ drawn' = drawn \cup {k}
    /\ call' = [c \in Calls |->
                  IF call[c].pc \in {"query", "verify"} /\ call[c].at = i THEN Idle ELSE call[c]]
    /\ UNCHANGED <<setup, now, account, jar, changed, out>>

Ends(c) ==
    /\ call' = [call EXCEPT ![c] = Idle]
    /\ UNCHANGED <<setup, now, account, key, drawn, jar, changed, out>>

\* A request or its answer is lost, a handler dropped, or an answer read.
Lose(c) == call[c].pc # "idle" /\ Ends(c)

\* The browser is closed, or the cookie's Max-Age is over.
Forget(b) ==
    /\ jar' = [jar EXCEPT ![b] = NoToken]
    /\ UNCHANGED <<setup, now, account, key, drawn, call, changed, out>>

-----------------------------------------------------------------------------
(* The codec *)

\* Header and signature, expiry with leeway (nbf is not looked at), then the issuer.
Valid(i, t) ==
    /\ t \notin {NoToken, Secret}
    /\ t.key = key[i]
    /\ now <= t.exp + Leeway
    /\ t.issuer = setup.issuer[i]

-----------------------------------------------------------------------------
(* route_handlers::login, and LoginService::authenticate *)

Goes(c, to) ==
    /\ call' = [call EXCEPT ![c] = to]
    /\ UNCHANGED <<setup, now, account, key, drawn, jar, changed, out>>

\* The application's handler makes the claims, then calls login().
StartLogin(c, b, u, i) ==
    /\ call[c] = Idle
    /\ Goes(c, [pc |-> "query", browser |-> b, user |-> u, at |-> i, exp |-> now + Lifetime])

Verifies(c, a) ==
    LET l == call[c] IN
    Goes(c, [pc |-> "verify", browser |-> l.browser, user |-> l.user, at |-> l.at,
             exp |-> l.exp, account |-> a])

\* Mutant of QueryAccount: an unknown user is not told apart.
QueryAnyone(c) == call[c].pc = "query" /\ Verifies(c, account[call[c].user])

QueryAccount(c) ==
    /\ call[c].pc = "query"
    /\ account[call[c].user] # NoAccount
    /\ Verifies(c, account[call[c].user])

\* Mutant of Claims: the claims are made when the token is.
ClaimsAtEnd(l) == [user |-> l.user, account |-> l.account, exp |-> now + Lifetime,
                   issuer |-> setup.issuer[l.at], key |-> key[l.at]]

Claims(l) == [user |-> l.user, account |-> l.account, exp |-> l.exp,
              issuer |-> setup.issuer[l.at], key |-> key[l.at]]

\* The credentials are verified and the claims encoded.
MakeToken(c) ==
    /\ call[c].pc = "verify"
    /\ Goes(c, [pc |-> "answer", browser |-> call[c].browser, token |-> Claims(call[c])])

\* The account is unknown or the credentials wrong, a repository or the codec
\* fails: the answer has no cookie, and an earlier one stays.
LoginFails(c) == call[c].pc \in {"query", "verify"} /\ Ends(c)

\* The answer with the cookie reaches the browser, before the answers to
\* logouts that are under way.
DeliverLogin(c) ==
    LET b == call[c].browser IN
    /\ call[c].pc = "answer"
    /\ jar' = [jar EXCEPT ![b] = call[c].token]
    /\ out' = [out EXCEPT ![b] = FALSE]
    /\ call' = [d \in Calls |->
                  IF d = c THEN Idle
                  ELSE IF call[d].pc = "logout" /\ call[d].browser = b
                  THEN [call[d] EXCEPT !.overtaken = TRUE]
                  ELSE call[d]]
    /\ UNCHANGED <<setup, now, account, key, drawn, changed>>

-----------------------------------------------------------------------------
(* route_handlers::logout *)

StartLogout(c, b) ==
    /\ call[c] = Idle
    /\ Goes(c, [pc |-> "logout", browser |-> b, carried |-> jar[b] # NoToken, overtaken |-> FALSE])

\* Mutant of Emptied: the removal cookie does not match the one that was set.
Kept(b, carried) == jar[b]

\* CookieJar::remove sends the removal of a cookie that the request had.
Emptied(b, carried) == IF carried THEN NoToken ELSE jar[b]

DeliverLogout(c) ==
    LET b == call[c].browser IN
    /\ call[c].pc = "logout"
    /\ jar' = [jar EXCEPT ![b] = Emptied(b, call[c].carried)]
    /\ out' = [out EXCEPT ![b] = @ \/ ~call[c].overtaken]
    /\ call' = [call EXCEPT ![c] = Idle]
    /\ UNCHANGED <<setup, now, account, key, drawn, changed>>

-----------------------------------------------------------------------------
(* The gates *)

\* A browser sends its cookie; any other client a bearer token that it has from
\* a browser, or the static one.  A request travels for as long as it likes, so
\* that it also stands for a client that keeps a copy.
SendCookie(c, b) ==
    /\ call[c] = Idle
    /\ Goes(c, [pc |-> "request", cookie |-> jar[b], bearer |-> NoToken])

SendBearer(c, t) ==
    /\ call[c] = Idle
    /\ Goes(c, [pc |-> "request", cookie |-> NoToken, bearer |-> t])

\* auth_cookie and bearer_token
Presented(r, g) == IF g.carrier = "cookie" THEN r.cookie ELSE r.bearer

\* The request of call c arrives at gate g of instance i.  A gate keeps nothing:
\* its answer is which of the following actions is taken, and ends the call.
Arrives(c) == call[c].pc = "request" /\ Ends(c)

\* A strict gate hands the claims of the token to the handler.
Serve(c, i, g) ==
    LET t == Presented(call[c], g) IN
    /\ Arrives(c)
    /\ g.carrier # "static" /\ ~g.optional
    /\ Valid(i, t)
    /\ Admits(g.policy, t.account)

\* An optional gate ignores its policy; it hands over the claims of a valid
\* token, and forwards every other request without claims.
ServeOptional(c, i, g) ==
    /\ Arrives(c)
    /\ g.carrier # "static" /\ g.optional
    /\ Valid(i, Presented(call[c], g))

ServeUnknown(c, i, g) ==
    /\ Arrives(c)
    /\ g.carrier # "static" /\ g.optional
    /\ ~Valid(i, Presented(call[c], g))

\* Whether the token is right, an optional static gate tells the handler.
ServeStatic(c, g) ==
    /\ Arrives(c)
    /\ g.carrier = "static"
    /\ g.optional \/ Presented(call[c], g) = Secret

Refuse(c, i, g) ==
    LET t == Presented(call[c], g) IN
    /\ Arrives(c)
    /\ ~g.optional
    /\ IF g.carrier = "static" THEN t # Secret ELSE ~(Valid(i, t) /\ Admits(g.policy, t.account))

-----------------------------------------------------------------------------
\* Mutant of StartKeys: every instance draws its key, configured or not.
OwnKeys(s) == {k \in [Instances -> Keys] : \A i, j \in Instances : i # j => k[i] # k[j]}

StartKeys(s) == {k \in [Instances -> Keys] : \A i, j \in Instances : i # j => (k[i] = k[j] <=> s.stableKey)}

Init ==
    /\ setup \in Setups
    /\ now = 0
    /\ account \in [Users -> Accounts \cup {NoAccount}]
    /\ key \in StartKeys(setup)
    /\ drawn = {key[i] : i \in Instances}
    /\ jar = [b \in Browsers |-> NoToken]
    /\ call = [c \in Calls |-> Idle]
    /\ changed = [u \in Users |-> 0]
    /\ out = [b \in Browsers |-> FALSE]

Arrive(c) ==
    \E g \in Gates : ServeStatic(c, g) \/ \E i \in Instances :
        Serve(c, i, g) \/ ServeOptional(c, i, g) \/ ServeUnknown(c, i, g) \/ Refuse(c, i, g)

Next ==
    \/ Tick
    \/ \E u \in Users, a \in Accounts \cup {NoAccount} : Change(u, a)
    \/ \E i \in Instances : Restart(i)
    \/ \E b \in Browsers : Forget(b)
    \/ \E c \in Calls :
          \/ Lose(c) \/ QueryAccount(c) \/ MakeToken(c) \/ LoginFails(c)
          \/ DeliverLogin(c) \/ DeliverLogout(c) \/ Arrive(c)
          \/ \E b \in Browsers : StartLogout(c, b) \/ SendCookie(c, b)
          \/ \E b \in Browsers, u \in Users, i \in Instances : StartLogin(c, b, u, i)
          \/ \E t \in {jar[b] : b \in Browsers} \cup {Secret} : SendBearer(c, t)

Spec == Init /\ [][Next]_vars

-----------------------------------------------------------------------------
(* Properties *)

\* The account of the user has not changed for as long as a token can last.
Settled(u) == now > changed[u] + Lifetime + Leeway

\* The call was a request, and has been answered.
Ended(c) == call[c].pc = "request" /\ call'[c] = Idle

\* Tokens are never revoked, but they run out: once the account of a user has
\* been as it is (changed or deleted) for the lifetime and the leeway, no
\* handler behind any gate sees an earlier state of it, however long logins
\* take, requests travel and copies are kept.
BoundedStaleness ==
    [][\A c \in Calls : Ended(c) =>
          \A i \in Instances, g \in Gates :
             LET t == Presented(call[c], g) IN
             (Serve(c, i, g) \/ ServeOptional(c, i, g)) /\ Settled(t.user) => t.account = account[t.user]]_vars

\* With a configured key a session holds on every instance of the service and
\* across restarts: a gate that refuses an unexpired token of its service, of a
\* user whose account is settled, does so because its policy refuses that account.
SessionsContinue ==
    [][\A c \in Calls : Ended(c) /\ setup.stableKey =>
          \A i \in Instances, g \in Gates :
             LET t == Presented(call[c], g) IN
             /\ Refuse(c, i, g)
             /\ g.carrier # "static"
             /\ t \notin {NoToken, Secret}
             /\ t.issuer = setup.issuer[i]
             /\ now <= t.exp
             /\ Settled(t.user)
             => account[t.user] # NoAccount /\ ~Admits(g.policy, account[t.user])]_vars

\* A browser that has been logged out has no session to send until the answer
\* to a login reaches it.
LogoutSticks == \A b \in Browsers : out[b] => jar[b] = NoToken
=============================================================================
