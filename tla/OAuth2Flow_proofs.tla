-------------------------- MODULE OAuth2Flow_proofs --------------------------
(***************************************************************************)
(* Proofs about OAuth2Flow for every set of logins, callbacks, browsers,   *)
(* users and deployments, whatever the three cookies are named.            *)
(***************************************************************************)
EXTENDS OAuth2Flow, TLAPS

-----------------------------------------------------------------------------
(* The inductive invariant *)

\* The state cookie of a browser is of a login that it started, and the
\* verifier next to it is of the same login.
CookiesOwn ==
    \A b \in Browsers, l \in Logins :
        Cookie(b, names.state) = State(l) =>
            /\ started[l] = b
            /\ Cookie(b, names.pkce) \in {Verifier(l), NoCookie}

\* A callback carries the URL of an answered login, and has no outcome before
\* it responds.
Underway ==
    \A c \in Callbacks :
        /\ pc[c] # "idle" => login[c] \in Logins /\ from[c] \in Browsers /\ approved[login[c]] # Nobody
        /\ pc[c] \notin {"respond", "done", "lost"} => res[c] = "none"

\* A login that is answered has been started.
AnsweredStarted == \A l \in Logins : approved[l] # Nobody => started[l] # Nobody

\* The calls that have passed the checks of their cookies.
Passed == {c \in Callbacks : pc[c] \in {"exchange", "map", "query", "store"} \/ res[c] = "session"}

PassedOwn ==
    \A c \in Passed :
        /\ started[login[c]] = from[c]
        /\ approved[login[c]] \in Users
        /\ verifier[c] = Verifier(login[c])

\* The calls that hold the provider's token.
Holders == {c \in Callbacks : pc[c] \in {"map", "query", "store"} \/ res[c] = "session"}

OneHolder ==
    /\ \A c \in Holders : login[c] \in redeemed
    /\ \A c, d \in Holders : login[c] = login[d] => c = d

\* The account is of the user who signed in.
RightUser ==
    \A c \in Callbacks : pc[c] \in {"query", "store"} \/ res[c] = "session" =>
        acc[c] # Nobody /\ acc[c].user = approved[login[c]]

\* The state of an answered callback has left its browser.
AnsweredGone ==
    \A c \in Callbacks : pc[c] = "done" => Cookie(from[c], names.state) # State(login[c])

FInv ==
    TypeOK /\ CookiesOwn /\ Underway /\ AnsweredStarted /\ PassedOwn /\ OneHolder /\ RightUser
        /\ AnsweredGone

-----------------------------------------------------------------------------
(* Basic facts *)

LEMMA Constants ==
    /\ Setups \subseteq Setup
    /\ \A s \in Setup : /\ s.names \in Names
                        /\ s.names.state \in CookieNames /\ s.names.pkce \in CookieNames
                        /\ s.names.auth \in CookieNames
    /\ Nobody \notin Users /\ Nobody \notin Browsers /\ Nobody # Denied /\ Denied \notin Users
    /\ Nobody \notin Account /\ NoCookie \notin Values
  BY SetupAssumption DEF Setup, Names

LEMMA Cookies ==
    /\ \A l \in Logins : State(l) \in Values /\ Verifier(l) \in Values
    /\ \A c \in Callbacks : Session(c) \in Values
    /\ \A l, m : State(l) # Verifier(m) /\ State(l) # Session(m) /\ Verifier(l) # Session(m)
    /\ \A l, m : State(l) = State(m) => l = m
    /\ \A l \in Logins : State(l) # NoCookie /\ Verifier(l) # NoCookie
  BY SetupAssumption DEF State, Verifier, Session, Values

LEMMA InitInv == Init => FInv
<1> SUFFICES ASSUME Init PROVE FInv
  OBVIOUS
<1>1. TypeOK
  BY DEF Init, TypeOK, Labels, Results, CookieErrors
<1>2. CookiesOwn /\ AnsweredGone
  BY Constants, Cookies, <1>1 DEF Init, CookiesOwn, AnsweredGone, Cookie, names, TypeOK
<1>3. Underway /\ AnsweredStarted /\ PassedOwn /\ OneHolder /\ RightUser
  BY DEF Init, Underway, AnsweredStarted, PassedOwn, Passed, OneHolder, Holders, RightUser
<1> QED
  BY <1>1, <1>2, <1>3 DEF FInv

\* Every step keeps the types.
LEMMA TypeStep ==
    ASSUME FInv, Next
    PROVE  TypeOK'
<1> USE Constants, Cookies DEF FInv, TypeOK, Underway, Labels, Results, CookieErrors, Cookie, names, Account, Goto, Respond, provider, request
<1>1. ASSUME NEW l \in Logins, NEW b \in Browsers, Login(l, b)
      PROVE  TypeOK'
  BY <1>1 DEF Login, LoginCookies
<1>2. ASSUME NEW l \in Logins, NEW u \in Users \cup {Denied}, Answer(l, u)
      PROVE  TypeOK'
  BY <1>2 DEF Answer
<1>3. ASSUME NEW b \in Browsers, NEW n \in CookieNames, Expire(b, n)
      PROVE  TypeOK'
  BY <1>3 DEF Expire
<1>4. ASSUME NEW c \in Callbacks, NEW b \in Browsers, NEW l \in Logins,
             NEW url \in {"full", "codeless", "bare"}, Arrive(c, b, l, url)
      PROVE  TypeOK'
  BY <1>4 DEF Arrive, Verdict, StateMatches
<1>5. ASSUME NEW c \in Callbacks, ExchangeOk(c) PROVE TypeOK'
  <2>1. redeemed' \subseteq Logins
    BY <1>5 DEF ExchangeOk
  <2>2. pc' \in [Callbacks -> Labels] /\ res' \in [Callbacks -> Results]
    <3>1. CASE Goto(c, "map")
      BY <3>1
    <3>2. CASE Respond(c, "no_session")
      BY <3>2
    <3> QED
      BY <1>5, <3>1, <3>2 DEF ExchangeOk
  <2> QED
    BY <1>5, <2>1, <2>2 DEF ExchangeOk
<1>6. ASSUME NEW c \in Callbacks, ExchangeFails(c) PROVE TypeOK'
  BY <1>6 DEF ExchangeFails, Redeemable
<1>7. ASSUME NEW c \in Callbacks, Map(c) PROVE TypeOK'
  <2>1. Mapped(c) \in Account
    BY <1>7 DEF Map, Mapped, PassedOwn, Passed
  <2>2. acc' \in [Callbacks -> Account \cup {Nobody}]
    BY <1>7, <2>1 DEF Map
  <2>3. pc' \in [Callbacks -> Labels] /\ res' \in [Callbacks -> Results]
    BY <1>7 DEF Map, Issue
  <2> QED
    BY <1>7, <2>2, <2>3 DEF Map
<1>8. ASSUME NEW c \in Callbacks, QueryAccount(c) PROVE TypeOK'
  <2>1. acc[c] \in Account
    BY <1>8 DEF QueryAccount, RightUser
  <2>2. \A k \in Callbacks : [acc[c] EXCEPT !.id = k] \in Account
    BY <2>1
  <2>3. acc' = acc \/ \E k \in Callbacks : acc' = [acc EXCEPT ![c] = [acc[c] EXCEPT !.id = k]]
    BY <1>8 DEF QueryAccount, Found
  <2>4. acc' \in [Callbacks -> Account \cup {Nobody}]
    <3>1. CASE acc' = acc
      BY <3>1
    <3>2. ASSUME NEW k \in Callbacks, acc' = [acc EXCEPT ![c] = [acc[c] EXCEPT !.id = k]]
          PROVE  acc' \in [Callbacks -> Account \cup {Nobody}]
      <4> DEFINE a == [acc[c] EXCEPT !.id = k]
      <4>1. a \in Account
        BY <2>2
      <4> HIDE DEF a
      <4> QED
        BY <3>2, <4>1 DEF a
    <3> QED
      BY <2>3, <3>1, <3>2
  <2>5. Issue(c) \/ Goto(c, "store") \/ Respond(c, "issuance_failed")
    BY <1>8 DEF QueryAccount
  <2>6. pc' \in [Callbacks -> Labels] /\ res' \in [Callbacks -> Results]
    <3>1. CASE Issue(c)
      BY <3>1 DEF Issue
    <3>2. CASE Goto(c, "store")
      BY <3>2
    <3>3. CASE Respond(c, "issuance_failed")
      BY <3>3
    <3> QED
      BY <2>5, <3>1, <3>2, <3>3
  <2> QED
    BY <1>8, <2>4, <2>6 DEF QueryAccount
<1>9. ASSUME NEW c \in Callbacks, StoreAccount(c) PROVE TypeOK'
  <2>1. acc[c].user \in Users
    BY <1>9 DEF StoreAccount, RightUser
  <2>2. pc' \in [Callbacks -> Labels] /\ res' \in [Callbacks -> Results]
    BY <1>9 DEF StoreAccount, StoreErr, Issue
  <2> QED
    BY <1>9, <2>1, <2>2 DEF StoreAccount
<1>10. ASSUME NEW c \in Callbacks, Deliver(c) PROVE TypeOK'
  BY <1>10 DEF Deliver, AnswerCookies, Cleared
<1>11. ASSUME NEW c \in Callbacks, Lose(c) PROVE TypeOK'
  BY <1>11 DEF Lose
<1> QED
  BY <1>1, <1>2, <1>3, <1>4, <1>5, <1>6, <1>7, <1>8, <1>9, <1>10, <1>11 DEF Next, Step

\* Only a login sets a state cookie, and it sets its verifier with it.
LEMMA CookiesStep ==
    ASSUME FInv, Next
    PROVE  CookiesOwn'
<1> USE Constants, Cookies DEF FInv, TypeOK, CookiesOwn, AnsweredStarted, Underway, Cookie, names, Goto, Respond, provider, request
<1>1. ASSUME NEW l \in Logins, NEW b \in Browsers, Login(l, b)
      PROVE  CookiesOwn'
  BY <1>1 DEF Login, LoginCookies
<1>2. ASSUME NEW l \in Logins, NEW u \in Users \cup {Denied}, Answer(l, u)
      PROVE  CookiesOwn'
  BY <1>2 DEF Answer
<1>3. ASSUME NEW b \in Browsers, NEW n \in CookieNames, Expire(b, n)
      PROVE  CookiesOwn'
  BY <1>3 DEF Expire
<1>4. ASSUME NEW c \in Callbacks, NEW b \in Browsers, NEW l \in Logins,
             NEW url \in {"full", "codeless", "bare"}, Arrive(c, b, l, url)
      PROVE  CookiesOwn'
  BY <1>4 DEF Arrive, Verdict, StateMatches
<1>5. ASSUME NEW c \in Callbacks, ExchangeOk(c) PROVE CookiesOwn'
  BY <1>5 DEF ExchangeOk, Redeemable
<1>6. ASSUME NEW c \in Callbacks, ExchangeFails(c) PROVE CookiesOwn'
  BY <1>6 DEF ExchangeFails, Redeemable
<1>7. ASSUME NEW c \in Callbacks, Map(c) PROVE CookiesOwn'
  BY <1>7 DEF Map, Mapped, Issue
<1>8. ASSUME NEW c \in Callbacks, QueryAccount(c) PROVE CookiesOwn'
  BY <1>8 DEF QueryAccount, Found, Issue
<1>9. ASSUME NEW c \in Callbacks, StoreAccount(c) PROVE CookiesOwn'
  BY <1>9 DEF StoreAccount, StoreErr, Issue
<1>10. ASSUME NEW c \in Callbacks, Deliver(c) PROVE CookiesOwn'
  BY <1>10 DEF Deliver, AnswerCookies, Cleared
<1>11. ASSUME NEW c \in Callbacks, Lose(c) PROVE CookiesOwn'
  BY <1>11 DEF Lose
<1> QED
  BY <1>1, <1>2, <1>3, <1>4, <1>5, <1>6, <1>7, <1>8, <1>9, <1>10, <1>11 DEF Next, Step

\* Every step leaves its callback with a URL, and without an outcome until it responds.
LEMMA UnderwayStep ==
    ASSUME FInv, Next
    PROVE  Underway'
<1> USE Constants, Cookies DEF FInv, TypeOK, Underway, Goto, Respond, provider, request
<1>1. ASSUME NEW l \in Logins, NEW b \in Browsers, Login(l, b)
      PROVE  Underway'
  BY <1>1 DEF Login, LoginCookies
<1>2. ASSUME NEW l \in Logins, NEW u \in Users \cup {Denied}, Answer(l, u)
      PROVE  Underway'
  BY <1>2 DEF Answer
<1>3. ASSUME NEW b \in Browsers, NEW n \in CookieNames, Expire(b, n)
      PROVE  Underway'
  BY <1>3 DEF Expire
<1>4. ASSUME NEW c \in Callbacks, NEW b \in Browsers, NEW l \in Logins,
             NEW url \in {"full", "codeless", "bare"}, Arrive(c, b, l, url)
      PROVE  Underway'
  BY <1>4 DEF Arrive, Verdict, StateMatches
<1>5. ASSUME NEW c \in Callbacks, ExchangeOk(c) PROVE Underway'
  BY <1>5 DEF ExchangeOk, Redeemable
<1>6. ASSUME NEW c \in Callbacks, ExchangeFails(c) PROVE Underway'
  BY <1>6 DEF ExchangeFails, Redeemable
<1>7. ASSUME NEW c \in Callbacks, Map(c) PROVE Underway'
  BY <1>7 DEF Map, Mapped, Issue
<1>8. ASSUME NEW c \in Callbacks, QueryAccount(c) PROVE Underway'
  BY <1>8 DEF QueryAccount, Found, Issue
<1>9. ASSUME NEW c \in Callbacks, StoreAccount(c) PROVE Underway'
  BY <1>9 DEF StoreAccount, StoreErr, Issue
<1>10. ASSUME NEW c \in Callbacks, Deliver(c) PROVE Underway'
  BY <1>10 DEF Deliver, AnswerCookies, Cleared
<1>11. ASSUME NEW c \in Callbacks, Lose(c) PROVE Underway'
  BY <1>11 DEF Lose
<1> QED
  BY <1>1, <1>2, <1>3, <1>4, <1>5, <1>6, <1>7, <1>8, <1>9, <1>10, <1>11 DEF Next, Step

\* A callback gets past its checks only in the browser that started its login.
LEMMA PassedStep ==
    ASSUME FInv, Next
    PROVE  PassedOwn'
<1> USE Constants, Cookies DEF FInv, TypeOK, CookiesOwn, Underway, PassedOwn, Passed, AnsweredStarted, Cookie, names, Goto, Respond, provider, request
<1>1. ASSUME NEW l \in Logins, NEW b \in Browsers, Login(l, b)
      PROVE  PassedOwn'
  BY <1>1 DEF Login, LoginCookies
<1>2. ASSUME NEW l \in Logins, NEW u \in Users \cup {Denied}, Answer(l, u)
      PROVE  PassedOwn'
  BY <1>2 DEF Answer
<1>3. ASSUME NEW b \in Browsers, NEW n \in CookieNames, Expire(b, n)
      PROVE  PassedOwn'
  BY <1>3 DEF Expire
<1>4. ASSUME NEW c \in Callbacks, NEW b \in Browsers, NEW l \in Logins,
             NEW url \in {"full", "codeless", "bare"}, Arrive(c, b, l, url)
      PROVE  PassedOwn'
  BY <1>4 DEF Arrive, Verdict, StateMatches
<1>5. ASSUME NEW c \in Callbacks, ExchangeOk(c) PROVE PassedOwn'
  BY <1>5 DEF ExchangeOk, Redeemable
<1>6. ASSUME NEW c \in Callbacks, ExchangeFails(c) PROVE PassedOwn'
  BY <1>6 DEF ExchangeFails, Redeemable
<1>7. ASSUME NEW c \in Callbacks, Map(c) PROVE PassedOwn'
  BY <1>7 DEF Map, Mapped, Issue
<1>8. ASSUME NEW c \in Callbacks, QueryAccount(c) PROVE PassedOwn'
  BY <1>8 DEF QueryAccount, Found, Issue
<1>9. ASSUME NEW c \in Callbacks, StoreAccount(c) PROVE PassedOwn'
  BY <1>9 DEF StoreAccount, StoreErr, Issue
<1>10. ASSUME NEW c \in Callbacks, Deliver(c) PROVE PassedOwn'
  BY <1>10 DEF Deliver, AnswerCookies, Cleared
<1>11. ASSUME NEW c \in Callbacks, Lose(c) PROVE PassedOwn'
  BY <1>11 DEF Lose
<1> QED
  BY <1>1, <1>2, <1>3, <1>4, <1>5, <1>6, <1>7, <1>8, <1>9, <1>10, <1>11 DEF Next, Step

\* The provider gives the token of a login to one callback.
LEMMA HolderStep ==
    ASSUME FInv, Next
    PROVE  OneHolder'
<1> USE Constants, Cookies DEF FInv, TypeOK, Underway, OneHolder, Holders, Goto, Respond, provider, request
<1>1. ASSUME NEW l \in Logins, NEW b \in Browsers, Login(l, b)
      PROVE  OneHolder'
  BY <1>1 DEF Login, LoginCookies
<1>2. ASSUME NEW l \in Logins, NEW u \in Users \cup {Denied}, Answer(l, u)
      PROVE  OneHolder'
  BY <1>2 DEF Answer
<1>3. ASSUME NEW b \in Browsers, NEW n \in CookieNames, Expire(b, n)
      PROVE  OneHolder'
  BY <1>3 DEF Expire
<1>4. ASSUME NEW c \in Callbacks, NEW b \in Browsers, NEW l \in Logins,
             NEW url \in {"full", "codeless", "bare"}, Arrive(c, b, l, url)
      PROVE  OneHolder'
  BY <1>4 DEF Arrive, Verdict, StateMatches
<1>5. ASSUME NEW c \in Callbacks, ExchangeOk(c) PROVE OneHolder'
  BY <1>5 DEF ExchangeOk, Redeemable
<1>6. ASSUME NEW c \in Callbacks, ExchangeFails(c) PROVE OneHolder'
  BY <1>6 DEF ExchangeFails, Redeemable
<1>7. ASSUME NEW c \in Callbacks, Map(c) PROVE OneHolder'
  BY <1>7 DEF Map, Mapped, Issue
<1>8. ASSUME NEW c \in Callbacks, QueryAccount(c) PROVE OneHolder'
  BY <1>8 DEF QueryAccount, Found, Issue
<1>9. ASSUME NEW c \in Callbacks, StoreAccount(c) PROVE OneHolder'
  BY <1>9 DEF StoreAccount, StoreErr, Issue
<1>10. ASSUME NEW c \in Callbacks, Deliver(c) PROVE OneHolder'
  BY <1>10 DEF Deliver, AnswerCookies, Cleared
<1>11. ASSUME NEW c \in Callbacks, Lose(c) PROVE OneHolder'
  BY <1>11 DEF Lose
<1> QED
  BY <1>1, <1>2, <1>3, <1>4, <1>5, <1>6, <1>7, <1>8, <1>9, <1>10, <1>11 DEF Next, Step

\* The mapper and the repository give the account of the user who signed in.
LEMMA RightUserStep ==
    ASSUME FInv, Next
    PROVE  RightUser'
<1> USE Constants, Cookies DEF FInv, TypeOK, Underway, RightUser, PassedOwn, Passed, Account, Goto, Respond, provider, request
<1>1. ASSUME NEW l \in Logins, NEW b \in Browsers, Login(l, b)
      PROVE  RightUser'
  BY <1>1 DEF Login, LoginCookies
<1>2. ASSUME NEW l \in Logins, NEW u \in Users \cup {Denied}, Answer(l, u)
      PROVE  RightUser'
  BY <1>2 DEF Answer
<1>3. ASSUME NEW b \in Browsers, NEW n \in CookieNames, Expire(b, n)
      PROVE  RightUser'
  BY <1>3 DEF Expire
<1>4. ASSUME NEW c \in Callbacks, NEW b \in Browsers, NEW l \in Logins,
             NEW url \in {"full", "codeless", "bare"}, Arrive(c, b, l, url)
      PROVE  RightUser'
  BY <1>4 DEF Arrive, Verdict, StateMatches
<1>5. ASSUME NEW c \in Callbacks, ExchangeOk(c) PROVE RightUser'
  BY <1>5 DEF ExchangeOk, Redeemable
<1>6. ASSUME NEW c \in Callbacks, ExchangeFails(c) PROVE RightUser'
  BY <1>6 DEF ExchangeFails, Redeemable
<1>7. ASSUME NEW c \in Callbacks, Map(c) PROVE RightUser'
  BY <1>7 DEF Map, Mapped, Issue
<1>8. ASSUME NEW c \in Callbacks, QueryAccount(c) PROVE RightUser'
  BY <1>8 DEF QueryAccount, Found, Issue
<1>9. ASSUME NEW c \in Callbacks, StoreAccount(c) PROVE RightUser'
  BY <1>9 DEF StoreAccount, StoreErr, Issue
<1>10. ASSUME NEW c \in Callbacks, Deliver(c) PROVE RightUser'
  BY <1>10 DEF Deliver, AnswerCookies, Cleared
<1>11. ASSUME NEW c \in Callbacks, Lose(c) PROVE RightUser'
  BY <1>11 DEF Lose
<1> QED
  BY <1>1, <1>2, <1>3, <1>4, <1>5, <1>6, <1>7, <1>8, <1>9, <1>10, <1>11 DEF Next, Step

\* An answer removes the state cookie, and no later login sets the same one.
LEMMA GoneStep ==
    ASSUME FInv, Next
    PROVE  AnsweredGone'
<1> USE Constants, Cookies DEF FInv, TypeOK, CookiesOwn, Underway, AnsweredStarted, AnsweredGone, Cookie, names, Goto, Respond, provider, request
<1>1. ASSUME NEW l \in Logins, NEW b \in Browsers, Login(l, b)
      PROVE  AnsweredGone'
  BY <1>1 DEF Login, LoginCookies
<1>2. ASSUME NEW l \in Logins, NEW u \in Users \cup {Denied}, Answer(l, u)
      PROVE  AnsweredGone'
  BY <1>2 DEF Answer
<1>3. ASSUME NEW b \in Browsers, NEW n \in CookieNames, Expire(b, n)
      PROVE  AnsweredGone'
  BY <1>3 DEF Expire
<1>4. ASSUME NEW c \in Callbacks, NEW b \in Browsers, NEW l \in Logins,
             NEW url \in {"full", "codeless", "bare"}, Arrive(c, b, l, url)
      PROVE  AnsweredGone'
  BY <1>4 DEF Arrive, Verdict, StateMatches
<1>5. ASSUME NEW c \in Callbacks, ExchangeOk(c) PROVE AnsweredGone'
  BY <1>5 DEF ExchangeOk, Redeemable
<1>6. ASSUME NEW c \in Callbacks, ExchangeFails(c) PROVE AnsweredGone'
  BY <1>6 DEF ExchangeFails, Redeemable
<1>7. ASSUME NEW c \in Callbacks, Map(c) PROVE AnsweredGone'
  BY <1>7 DEF Map, Mapped, Issue
<1>8. ASSUME NEW c \in Callbacks, QueryAccount(c) PROVE AnsweredGone'
  BY <1>8 DEF QueryAccount, Found, Issue
<1>9. ASSUME NEW c \in Callbacks, StoreAccount(c) PROVE AnsweredGone'
  BY <1>9 DEF StoreAccount, StoreErr, Issue
<1>10. ASSUME NEW c \in Callbacks, Deliver(c) PROVE AnsweredGone'
  BY <1>10 DEF Deliver, AnswerCookies, Cleared
<1>11. ASSUME NEW c \in Callbacks, Lose(c) PROVE AnsweredGone'
  BY <1>11 DEF Lose
<1> QED
  BY <1>1, <1>2, <1>3, <1>4, <1>5, <1>6, <1>7, <1>8, <1>9, <1>10, <1>11 DEF Next, Step

\* The provider answers logins that were started.
LEMMA StartedStep ==
    ASSUME FInv, Next
    PROVE  AnsweredStarted'
<1> USE Constants, Cookies DEF FInv, TypeOK, Underway, AnsweredStarted, Goto, Respond, provider, request
<1>1. ASSUME NEW l \in Logins, NEW b \in Browsers, Login(l, b)
      PROVE  AnsweredStarted'
  BY <1>1 DEF Login, LoginCookies
<1>2. ASSUME NEW l \in Logins, NEW u \in Users \cup {Denied}, Answer(l, u)
      PROVE  AnsweredStarted'
  BY <1>2 DEF Answer
<1>3. ASSUME NEW b \in Browsers, NEW n \in CookieNames, Expire(b, n)
      PROVE  AnsweredStarted'
  BY <1>3 DEF Expire
<1>4. ASSUME NEW c \in Callbacks, NEW b \in Browsers, NEW l \in Logins,
             NEW url \in {"full", "codeless", "bare"}, Arrive(c, b, l, url)
      PROVE  AnsweredStarted'
  BY <1>4 DEF Arrive, Verdict, StateMatches
<1>5. ASSUME NEW c \in Callbacks, ExchangeOk(c) PROVE AnsweredStarted'
  BY <1>5 DEF ExchangeOk, Redeemable
<1>6. ASSUME NEW c \in Callbacks, ExchangeFails(c) PROVE AnsweredStarted'
  BY <1>6 DEF ExchangeFails, Redeemable
<1>7. ASSUME NEW c \in Callbacks, Map(c) PROVE AnsweredStarted'
  BY <1>7 DEF Map, Mapped, Issue
<1>8. ASSUME NEW c \in Callbacks, QueryAccount(c) PROVE AnsweredStarted'
  BY <1>8 DEF QueryAccount, Found, Issue
<1>9. ASSUME NEW c \in Callbacks, StoreAccount(c) PROVE AnsweredStarted'
  BY <1>9 DEF StoreAccount, StoreErr, Issue
<1>10. ASSUME NEW c \in Callbacks, Deliver(c) PROVE AnsweredStarted'
  BY <1>10 DEF Deliver, AnswerCookies, Cleared
<1>11. ASSUME NEW c \in Callbacks, Lose(c) PROVE AnsweredStarted'
  BY <1>11 DEF Lose
<1> QED
  BY <1>1, <1>2, <1>3, <1>4, <1>5, <1>6, <1>7, <1>8, <1>9, <1>10, <1>11 DEF Next, Step

\* The invariant is inductive.
LEMMA NextInv == FInv /\ [Next]_vars => FInv'
<1> SUFFICES ASSUME FInv, [Next]_vars PROVE FInv'
  OBVIOUS
<1>1. CASE Next
  BY <1>1, TypeStep, CookiesStep, UnderwayStep, PassedStep, HolderStep, RightUserStep,
     GoneStep, StartedStep DEF FInv
<1>2. CASE UNCHANGED vars
  <2> USE <1>2 DEF vars
  <2>1. TypeOK'
    BY DEF FInv, TypeOK
  <2>2. CookiesOwn' /\ AnsweredGone'
    BY DEF FInv, CookiesOwn, AnsweredGone, Cookie, names
  <2>3. Underway' /\ AnsweredStarted' /\ RightUser'
    BY DEF FInv, Underway, AnsweredStarted, RightUser
  <2>4. PassedOwn' /\ OneHolder'
    BY DEF FInv, PassedOwn, Passed, OneHolder, Holders
  <2> QED
    BY <2>1, <2>2, <2>3, <2>4 DEF FInv
<1> QED
  BY <1>1, <1>2

-----------------------------------------------------------------------------
(* The theorems *)

\* The invariant holds of every reachable state.
THEOREM Invariance == Spec => []FInv
  BY InitInv, NextInv, PTL DEF Spec

\* Whatever browsers do, cookies, calls and accounts keep their types.
THEOREM TypeCorrect == Spec => []TypeOK
<1>1. FInv => TypeOK
  BY DEF FInv
<1> QED
  BY <1>1, Invariance, PTL

\* A code always goes to the provider with the verifier of its own login, for
\* any number of tabs and however the cookies are named.
THEOREM VerifierCorrect == Spec => []VerifierMatchesCode
<1>1. FInv => VerifierMatchesCode
  BY DEF FInv, PassedOwn, Passed, VerifierMatchesCode
<1> QED
  BY <1>1, Invariance, PTL

\* A callback that comes after another one for its login has been answered to
\* the same browser does not get as far as the provider.
THEOREM AnsweredIsOver == Spec => AnsweredLoginIsOver
<1> DEFINE Over == \A c, d \in Callbacks :
              pc[c] = "idle" /\ pc'[c] = "exchange" /\ pc[d] = "done" =>
                 ~(login[d] = login'[c] /\ from[d] = from'[c])
<1>1. FInv /\ [Next]_vars => [Over]_vars
  <2> SUFFICES ASSUME FInv, Next, NEW c \in Callbacks, NEW d \in Callbacks,
                      pc[c] = "idle", pc'[c] = "exchange", pc[d] = "done"
               PROVE  ~(login[d] = login'[c] /\ from[d] = from'[c])
    OBVIOUS
  <2>1. \A e \in Callbacks : ~Step(e)
    BY DEF FInv, TypeOK, Step, ExchangeOk, ExchangeFails, Map, QueryAccount, StoreAccount,
           Deliver, Lose, Goto, Respond, Issue, StoreErr
  <2>2. /\ \A m \in Logins, a \in Browsers : ~Login(m, a)
        /\ \A m \in Logins, u \in Users \cup {Denied} : ~Answer(m, u)
        /\ \A a \in Browsers, n \in CookieNames : ~Expire(a, n)
    BY DEF Login, Answer, Expire
  <2>3. PICK e \in Callbacks, b \in Browsers, l \in Logins, url \in {"full", "codeless", "bare"} :
           Arrive(e, b, l, url)
    BY <2>1, <2>2 DEF Next
  <2>4. e = c
    BY <2>3 DEF FInv, TypeOK, Arrive, Goto, Respond
  <2>5. Cookie(b, names.state) = State(l) /\ login'[c] = l /\ from'[c] = b
    BY <2>3, <2>4 DEF FInv, TypeOK, Arrive, Verdict, StateMatches, Goto, Respond
  <2> QED
    BY <2>5 DEF FInv, AnsweredGone
<1> QED
  BY <1>1, Invariance, PTL DEF Spec, AnsweredLoginIsOver

\* The first state is one of the handshake.
LEMMA HandshakeInit == Init => Handshake!HInit
<1> SUFFICES ASSUME Init PROVE Granted = {} /\ Handshake!HInit
  OBVIOUS
<1>1. Granted = {}
  BY DEF Init, Granted, Issued
<1> QED
  BY <1>1 DEF Init, Handshake!HInit

\* A step that issues no session grants none.
LEMMA NoGrant ==
    ASSUME FInv, Next, res' = res \/ \E c \in Callbacks, r \in Results \ {"session"} :
                                        res[c] = "none" /\ res' = [res EXCEPT ![c] = r],
           \A c \in Issued : login'[c] = login[c] /\ from'[c] = from[c] /\ acc'[c] = acc[c]
    PROVE  Granted' = Granted
<1>1. Issued' = Issued
  BY DEF FInv, TypeOK, Issued
<1> QED
  BY <1>1 DEF Granted

\* The step that issues a session grants it.
LEMMA Grant ==
    ASSUME FInv, NEW c \in Callbacks, c \in Holders, res[c] = "none",
           res' = [res EXCEPT ![c] = "session"],
           acc'[c].user = approved[login[c]],
           \A d \in Callbacks \ {c} : acc'[d] = acc[d],
           UNCHANGED <<started, approved, login, from>>
    PROVE  Handshake!HGrant(c, login[c])
<1>1. Issued' = Issued \cup {c} /\ c \notin Issued
  BY DEF FInv, TypeOK, Issued
<1>2. login[c] \in Logins /\ started[login[c]] = from[c] /\ approved[login[c]] \in Users
  BY DEF FInv, Holders, Passed, PassedOwn, Underway
<1>3. Granted' = Granted \cup {[session |-> c, login |-> login[c],
                                browser |-> started[login[c]], user |-> approved[login[c]]]}
  BY <1>1, <1>2 DEF Granted, Issued
<1>4. \A g \in Granted : g.session # c /\ g.login # login[c]
  BY <1>1 DEF FInv, OneHolder, Holders, Granted, Issued
<1> QED
  BY <1>2, <1>3, <1>4 DEF Handshake!HGrant

\* Every step of the handlers is a step of the handshake, or none.
LEMMA HandshakeStep == FInv /\ [Next]_vars => [Handshake!HNext]_(Handshake!hvars)
<1> SUFFICES ASSUME FInv, [Next]_vars
             PROVE  Handshake!HNext \/ UNCHANGED <<started, approved, Granted>>
  BY DEF Handshake!hvars
<1>1. ASSUME NEW l \in Logins, NEW b \in Browsers, Login(l, b)
      PROVE  Handshake!HStart(l, b)
  <2>1. Granted' = Granted
    BY <1>1 DEF Login, request, Granted, Issued
  <2> QED
    BY <1>1, <2>1 DEF Login, Handshake!HStart
<1>2. ASSUME NEW l \in Logins, NEW u \in Users \cup {Denied}, Answer(l, u)
      PROVE  Handshake!HAnswer(l, u)
  <2>1. Granted' = Granted
    BY <1>2 DEF Answer, request, Granted, Issued
  <2> QED
    BY <1>2, <2>1 DEF Answer, Handshake!HAnswer
<1>3. ASSUME NEW b \in Browsers, NEW n \in CookieNames, Expire(b, n)
      PROVE  UNCHANGED <<started, approved, Granted>>
  BY <1>3 DEF Expire, provider, request, Granted, Issued
<1>4. ASSUME NEW c \in Callbacks, NEW b \in Browsers, NEW l \in Logins,
             NEW url \in {"full", "codeless", "bare"}, Arrive(c, b, l, url)
      PROVE  UNCHANGED <<started, approved, Granted>>
  <2>1. res[c] = "none" /\ c \notin Issued
    BY <1>4 DEF Arrive, FInv, Underway, Issued
  <2>2. res' = res \/ \E r \in Results \ {"session"} : res' = [res EXCEPT ![c] = r]
    BY <1>4 DEF Arrive, Goto, Respond, Verdict, Results, CookieErrors
  <2>3. \A d \in Issued : login'[d] = login[d] /\ from'[d] = from[d] /\ acc'[d] = acc[d]
    BY <1>4, <2>1 DEF Arrive, FInv, TypeOK, Issued
  <2>4. Granted' = Granted
    BY <1>4, <2>1, <2>2, <2>3, NoGrant DEF Next
  <2> QED
    BY <1>4, <2>4 DEF Arrive, provider
<1>5. ASSUME NEW c \in Callbacks, Map(c) \/ QueryAccount(c) \/ StoreAccount(c)
      PROVE  Handshake!HNext \/ UNCHANGED <<started, approved, Granted>>
  <2>1. c \in Holders /\ res[c] = "none" /\ c \notin Issued
    BY <1>5 DEF Map, QueryAccount, StoreAccount, FInv, Underway, Holders, Issued
  <2>2. UNCHANGED <<started, approved, login, from>>
    BY <1>5 DEF Map, QueryAccount, StoreAccount, provider, request
  <2>3. \A d \in Callbacks \ {c} : acc'[d] = acc[d]
    BY <1>5 DEF Map, QueryAccount, StoreAccount, FInv, TypeOK
  <2>4. CASE res' = [res EXCEPT ![c] = "session"]
    <3>1. acc'[c].user = approved[login[c]]
      BY <1>5, <2>4, <2>1 DEF Map, Mapped, QueryAccount, Found, StoreAccount, StoreErr, Respond,
         Goto, FInv, TypeOK, RightUser, Account
    <3> QED
      BY <2>1, <2>2, <2>3, <2>4, <3>1, Grant DEF Handshake!HNext, FInv, Underway, Holders
  <2>5. CASE res' = res \/ \E r \in Results \ {"session"} : res' = [res EXCEPT ![c] = r]
    <3>1. \A d \in Issued : login'[d] = login[d] /\ from'[d] = from[d] /\ acc'[d] = acc[d]
      BY <2>1, <2>2, <2>3 DEF Issued
    <3>2. Next
      BY <1>5 DEF Next, Step
    <3>3. Granted' = Granted
      BY <2>1, <2>5, <3>1, <3>2, NoGrant
    <3> QED
      BY <2>2, <3>3
  <2> QED
    BY <1>5, <2>4, <2>5 DEF Map, QueryAccount, StoreAccount, StoreErr, Issue, Goto, Respond,
       Results, CookieErrors
<1>6. ASSUME NEW c \in Callbacks, ExchangeOk(c) \/ ExchangeFails(c) \/ Deliver(c) \/ Lose(c)
      PROVE  UNCHANGED <<started, approved, Granted>>
  <2>1. UNCHANGED <<started, approved, login, from, acc>>
    BY <1>6 DEF ExchangeOk, ExchangeFails, Deliver, Lose, provider, request
  <2>2. res' = res \/ (res[c] = "none" /\ \E r \in Results \ {"session"} : res' = [res EXCEPT ![c] = r])
    BY <1>6 DEF ExchangeOk, ExchangeFails, Deliver, Lose, Goto, Respond, Results, CookieErrors,
       FInv, Underway
  <2>3. Granted' = Granted
    BY <1>6, <2>1, <2>2, NoGrant DEF Next, Step
  <2> QED
    BY <2>1, <2>3
<1>7. CASE UNCHANGED vars
  BY <1>7 DEF vars, Granted, Issued
<1> QED
  BY <1>1, <1>2, <1>3, <1>4, <1>5, <1>6, <1>7 DEF Next, Step, Handshake!HNext

\* For any number of tabs, browsers, users and callbacks: a session goes to the
\* browser that started the login, for the user who signed in in it, once.
THEOREM Implements == Spec => HandshakeSpec
  BY HandshakeInit, HandshakeStep, Invariance, PTL DEF Spec, HandshakeSpec, Handshake!HSpec

-----------------------------------------------------------------------------
(* One account for one user *)

\* A callback stores its account under its own id, where nothing is before it;
\* with a unique index a user has one account, which sessions are issued for.
StoredOnce ==
    /\ \A c \in Callbacks :
          /\ pc[c] \notin {"respond", "done", "lost"} => accounts[c] = Nobody
          /\ pc[c] \in {"query", "store"} => acc[c].id = c
    /\ setup.uniqueUsers =>
          \A j, k \in Callbacks : accounts[j] # Nobody /\ accounts[j] = accounts[k] => j = k
    /\ setup.repository => \A c \in Issued : accounts[acc[c].id] = acc[c].user

\* A step that stores no account, and touches none of a callback with a session.
LEMMA StoredFrame ==
    ASSUME FInv, StoredOnce, UNCHANGED <<setup, accounts>>,
           \A c \in Callbacks :
               \/ pc'[c] = pc[c] /\ res'[c] = res[c] /\ acc'[c] = acc[c]
               \/ /\ pc[c] \in {"respond", "done", "lost"} => pc'[c] \in {"respond", "done", "lost"}
                  /\ pc'[c] \in {"query", "store"} => acc'[c].id = c
                  /\ \/ res'[c] = res[c] /\ (res[c] = "session" => acc'[c] = acc[c])
                     \/ res'[c] # "session"
                     \/ setup.repository => accounts[acc'[c].id] = acc'[c].user
    PROVE  StoredOnce'
  BY DEF StoredOnce, Issued

\* A callback that stores an account is the first to do so for its user, where
\* the index of the repository is unique.
LEMMA StoredStep ==
    ASSUME FInv, StoredOnce, [Next]_vars
    PROVE  StoredOnce'
  <1> USE DEF Goto, Respond, provider, request
  <1>1. TypeOK /\ Underway /\ RightUser
    BY DEF FInv
  <1>2. ASSUME NEW l \in Logins, NEW b \in Browsers, Login(l, b)
        PROVE  StoredOnce'
    BY <1>2, StoredFrame DEF Login
  <1>3. ASSUME NEW l \in Logins, NEW u \in Users \cup {Denied}, Answer(l, u)
        PROVE  StoredOnce'
    BY <1>3, StoredFrame DEF Answer
  <1>4. ASSUME NEW b \in Browsers, NEW n \in CookieNames, Expire(b, n)
        PROVE  StoredOnce'
    BY <1>4, StoredFrame DEF Expire
  <1>5. ASSUME NEW c \in Callbacks, NEW b \in Browsers, NEW l \in Logins,
               NEW url \in {"full", "codeless", "bare"}, Arrive(c, b, l, url)
        PROVE  StoredOnce'
    <2>1. /\ \A d \in Callbacks \ {c} : pc'[d] = pc[d] /\ res'[d] = res[d]
          /\ pc'[c] \in {"exchange", "respond"} /\ res'[c] # "session" /\ pc[c] = "idle"
          /\ UNCHANGED <<setup, accounts, acc>>
      BY <1>1, <1>5 DEF Arrive, Verdict, TypeOK, Underway
    <2> QED BY <2>1, StoredFrame
  <1>6. ASSUME NEW c \in Callbacks, ExchangeOk(c) \/ ExchangeFails(c) \/ Deliver(c) \/ Lose(c)
        PROVE  StoredOnce'
    <2>1. /\ \A d \in Callbacks \ {c} : pc'[d] = pc[d] /\ res'[d] = res[d]
          /\ pc'[c] \in {"map", "respond", "done", "lost"}
          /\ pc[c] \in {"respond", "done", "lost"} => pc'[c] \in {"respond", "done", "lost"}
          /\ res'[c] # "session" \/ res'[c] = res[c]
          /\ UNCHANGED <<setup, accounts, acc>>
      BY <1>1, <1>6 DEF ExchangeOk, ExchangeFails, Deliver, Lose, TypeOK, Underway
    <2> QED BY <2>1, StoredFrame
  <1>7. ASSUME NEW c \in Callbacks, Map(c)
        PROVE  StoredOnce'
    <2>1. /\ \A d \in Callbacks \ {c} : pc'[d] = pc[d] /\ res'[d] = res[d] /\ acc'[d] = acc[d]
          /\ pc[c] = "map" /\ res[c] = "none"
          /\ pc'[c] = "respond" \/ (pc'[c] = "query" /\ acc'[c].id = c)
          /\ setup.repository => res'[c] # "session"
          /\ UNCHANGED <<setup, accounts>>
      BY <1>1, <1>7 DEF Map, Mapped, Issue, TypeOK, Underway
    <2> QED BY <2>1, StoredFrame
  <1>8. ASSUME NEW c \in Callbacks, QueryAccount(c)
        PROVE  StoredOnce'
    <2>1. /\ \A d \in Callbacks \ {c} : pc'[d] = pc[d] /\ res'[d] = res[d] /\ acc'[d] = acc[d]
          /\ pc[c] = "query" /\ res[c] = "none"
          /\ \/ pc'[c] = "respond" /\ res'[c] # "session"
             \/ pc'[c] = "respond" /\ accounts[acc'[c].id] = acc'[c].user
             \/ pc'[c] = "store" /\ acc'[c] = acc[c] /\ res'[c] = "none"
          /\ UNCHANGED <<setup, accounts>>
      <3>1. acc[c] \in Account
        BY <1>1, <1>8 DEF QueryAccount, RightUser, TypeOK
      <3> QED BY <1>1, <1>8, <3>1 DEF QueryAccount, Found, Issue, TypeOK, Underway, Account
    <2> QED BY <2>1, StoredFrame DEF StoredOnce
  <1>9. ASSUME NEW c \in Callbacks, StoreAccount(c)
        PROVE  StoredOnce'
    <2>1. CASE UNCHANGED accounts
      <3>1. CASE StoreErr(c)
        <4>1. /\ \A d \in Callbacks \ {c} : pc'[d] = pc[d] /\ res'[d] = res[d]
              /\ pc'[c] = "respond" /\ res'[c] # "session"
              /\ UNCHANGED <<setup, accounts, acc>>
          BY <1>1, <1>9, <2>1, <3>1 DEF StoreAccount, StoreErr, TypeOK
        <4> QED BY <4>1, StoredFrame
      <3>2. CASE ~StoreErr(c)
        <4>1. accounts[c] = acc[c].user /\ pc[c] = "store"
          BY <1>1, <1>9, <2>1, <3>2 DEF StoreAccount, TypeOK
        <4>2. acc[c].user \in Users
          BY <1>1, <4>1 DEF FInv, RightUser, PassedOwn, Passed
        <4> QED BY <4>1, <4>2, Constants DEF StoredOnce
      <3> QED BY <3>1, <3>2
    <2>2. CASE ~UNCHANGED accounts
      <3>1. /\ pc[c] = "store" /\ res[c] = "none" /\ acc[c].id = c /\ accounts[c] = Nobody
            /\ setup.uniqueUsers => Found(c) = {}
            /\ accounts' = [accounts EXCEPT ![c] = acc[c].user]
            /\ pc' = [pc EXCEPT ![c] = "respond"]
            /\ \A d \in Callbacks \ {c} : res'[d] = res[d]
            /\ UNCHANGED <<setup, acc>>
        BY <1>1, <1>9, <2>2 DEF StoreAccount, Issue, TypeOK, Underway, StoredOnce
      <3>2. \A k \in Callbacks : k # c => accounts'[k] = accounts[k]
        BY <1>1, <3>1 DEF TypeOK
      <3>3. accounts'[c] = acc[c].user
        BY <1>1, <3>1 DEF TypeOK
      <3>4. /\ \A d \in Callbacks :
                  /\ pc'[d] \notin {"respond", "done", "lost"} => accounts'[d] = Nobody
                  /\ pc'[d] \in {"query", "store"} => acc'[d].id = d
        BY <1>1, <3>1, <3>2 DEF TypeOK, StoredOnce
      <3>5. setup.uniqueUsers =>
               \A j, k \in Callbacks : accounts'[j] # Nobody /\ accounts'[j] = accounts'[k] => j = k
        BY <3>1, <3>2, <3>3 DEF StoredOnce, Found
      <3>6. ASSUME setup.repository, NEW d \in Issued'
            PROVE  accounts'[acc'[d].id] = acc'[d].user
        <4>1. CASE d = c
          BY <3>1, <3>3, <4>1
        <4>2. CASE d # c
          <5>1. d \in Issued /\ acc[d] # Nobody
            BY <1>1, <3>1, <4>2 DEF Issued, RightUser
          <5>2. accounts[acc[d].id] = acc[d].user /\ acc[d].user \in Users
            BY <3>6, <5>1 DEF StoredOnce, FInv, RightUser, PassedOwn, Passed, Issued
          <5>3. acc[d].id \in Callbacks /\ acc[d].id # c
            BY <1>1, <3>1, <5>1, <5>2, Constants DEF TypeOK, Issued, Account
          <5> QED BY <3>1, <3>2, <5>2, <5>3
        <4> QED BY <4>1, <4>2
      <3> QED BY <3>1, <3>4, <3>5, <3>6 DEF StoredOnce
    <2> QED BY <2>1, <2>2
  <1>10. CASE UNCHANGED vars
    BY <1>10, StoredFrame DEF vars
  <1> QED
    BY <1>2, <1>3, <1>4, <1>5, <1>6, <1>7, <1>8, <1>9, <1>10 DEF Next, Step

\* Whoever signs in as one user gets sessions of one account, on a repository
\* with a unique index, for any number of callbacks in any order.
THEOREM OneAccountForAUser == Spec => []StableAccountIfUnique
  <1>1. Init => StoredOnce
    BY DEF Init, StoredOnce, Issued
  <1>2. FInv /\ StoredOnce => StableAccountIfUnique
    <2> SUFFICES ASSUME FInv, StoredOnce, NEW c \in Issued, NEW d \in Issued,
                        setup.uniqueUsers, setup.repository, acc[c].user = acc[d].user
                 PROVE  acc[c].id = acc[d].id
      BY DEF StableAccountIfUnique
    <2>1. acc[c] \in Account /\ acc[d] \in Account
      BY DEF FInv, TypeOK, RightUser, Issued
    <2>2. accounts[acc[c].id] = acc[c].user /\ accounts[acc[d].id] = acc[d].user
      BY DEF StoredOnce
    <2> QED BY <2>1, <2>2, Constants DEF StoredOnce, Account
  <1>3. FInv /\ StoredOnce /\ [Next]_vars => StoredOnce'
    BY StoredStep
  <1> QED BY <1>1, <1>2, <1>3, Invariance, PTL DEF Spec

-----------------------------------------------------------------------------
(* Cookies with names of their own *)

\* The three cookies have names of their own; the builder does not see to it, but
\* the default names and those of with_cookie_names differ.
DistinctNames ==
    \A s \in Setups : /\ s.names.state # s.names.pkce
                      /\ s.names.auth # s.names.state
                      /\ s.names.auth # s.names.pkce

\* The cookies of a login that nothing has touched are there.
CleanCookies ==
    \A l \in clean : /\ started[l] \in Browsers
                     /\ Cookie(started[l], names.state) = State(l)
                     /\ Cookie(started[l], names.pkce) = Verifier(l)

\* Whoever touches a cookie of a browser touches all logins of that browser.
LEMMA CleanStep ==
    ASSUME FInv, CleanCookies, DistinctNames, [Next]_vars
    PROVE  CleanCookies'
  <1> USE DEF Cookie, names, provider, request
  <1>1. TypeOK /\ setup.names.state # setup.names.pkce /\ setup.names.state \in CookieNames
        /\ setup.names.pkce \in CookieNames
    BY Constants DEF FInv, TypeOK, DistinctNames
  <1>2. ASSUME NEW l \in Logins, NEW b \in Browsers, Login(l, b)
        PROVE  CleanCookies'
    BY <1>1, <1>2, Constants DEF Login, LoginCookies, CleanCookies, TypeOK, StartedBy
  <1>3. ASSUME NEW b \in Browsers, UNCHANGED <<setup, started>>, clean' = clean \ StartedBy(b),
               \A a \in Browsers \ {b} : jar'[a] = jar[a]
        PROVE  CleanCookies'
    BY <1>1, <1>3 DEF CleanCookies, TypeOK, StartedBy
  <1>4. ASSUME UNCHANGED <<setup, started, clean, jar>>
        PROVE  CleanCookies'
    BY <1>4 DEF CleanCookies
  <1>5. ASSUME NEW l \in Logins, NEW u \in Users \cup {Denied}, Answer(l, u)
        PROVE  CleanCookies'
    BY <1>4, <1>5 DEF Answer
  <1>6. ASSUME NEW b \in Browsers, NEW n \in CookieNames, Expire(b, n)
        PROVE  CleanCookies'
    BY <1>1, <1>3, <1>6 DEF Expire, TypeOK
  <1>7. ASSUME NEW c \in Callbacks, NEW b \in Browsers, NEW l \in Logins,
               NEW url \in {"full", "codeless", "bare"}, Arrive(c, b, l, url)
        PROVE  CleanCookies'
    BY <1>4, <1>7 DEF Arrive
  <1>8. ASSUME NEW c \in Callbacks, Step(c)
        PROVE  CleanCookies'
    <2>1. CASE Deliver(c)
      <3>1. from[c] \in Browsers
        BY <2>1 DEF Deliver, FInv, Underway
      <3> QED BY <1>1, <1>3, <2>1, <3>1 DEF Deliver, TypeOK
    <2>2. CASE ~Deliver(c)
      BY <1>4, <1>8, <2>2
         DEF Step, ExchangeOk, ExchangeFails, Map, QueryAccount, StoreAccount, Lose
    <2> QED BY <2>1, <2>2
  <1> QED BY <1>2, <1>4, <1>5, <1>6, <1>7, <1>8 DEF Next, vars

\* A callback whose login's cookies nothing has touched passes the checks of its
\* cookies, in a deployment whose cookies have names of their own.
THEOREM UndisturbedPasses ==
    ASSUME DistinctNames
    PROVE  Spec => UndisturbedLoginPasses
  <1> DEFINE Passes == \A c \in Callbacks : pc[c] = "idle" /\ res'[c] \in CookieErrors =>
                           ~(login'[c] \in clean /\ started[login'[c]] = from'[c])
  <1>1. Init => CleanCookies
    BY DEF Init, CleanCookies
  <1>2. FInv /\ CleanCookies /\ [Next]_vars => CleanCookies'
    BY CleanStep
  <1>3. FInv /\ CleanCookies /\ [Next]_vars => [Passes]_vars
    <2> SUFFICES ASSUME FInv, CleanCookies, Next, NEW c \in Callbacks,
                        pc[c] = "idle", res'[c] \in CookieErrors
                 PROVE  ~(login'[c] \in clean /\ started[login'[c]] = from'[c])
      OBVIOUS
    <2>1. res[c] = "none" /\ TypeOK
      BY DEF FInv, Underway
    <2>2. res'[c] # res[c]
      BY <2>1 DEF CookieErrors
    <2>3. ASSUME NEW d \in Callbacks
          PROVE  ~Step(d)
      BY <2>1, <2>2 DEF TypeOK, Step, ExchangeOk, ExchangeFails, Map, QueryAccount, StoreAccount,
         Deliver, Lose, Goto, Respond, Issue, StoreErr
    <2>4. /\ \A m \in Logins, a \in Browsers : ~Login(m, a)
          /\ \A m \in Logins, u \in Users \cup {Denied} : ~Answer(m, u)
          /\ \A a \in Browsers, n \in CookieNames : ~Expire(a, n)
      BY <2>2 DEF Login, Answer, Expire
    <2>5. PICK e \in Callbacks, b \in Browsers, l \in Logins, url \in {"full", "codeless", "bare"} :
             Arrive(e, b, l, url)
      BY <2>3, <2>4 DEF Next
    <2>6. e = c /\ login'[c] = l /\ from'[c] = b /\ Verdict(b, l, url) \in CookieErrors
      BY <2>1, <2>2, <2>5 DEF TypeOK, Arrive, Goto, Respond
    <2>7. ASSUME l \in clean, started[l] = b
          PROVE  FALSE
      <3>1. Cookie(b, names.state) = State(l) /\ Cookie(b, names.pkce) = Verifier(l)
        BY <2>7 DEF CleanCookies
      <3>2. Verdict(b, l, url) \notin CookieErrors
        BY <3>1, Cookies DEF Verdict, StateMatches, CookieErrors
      <3> QED BY <2>6, <3>2
    <2> QED BY <2>6, <2>7
  <1> QED BY <1>1, <1>2, <1>3, Invariance, PTL DEF Spec, UndisturbedLoginPasses

\* A login that is begun, fails or is repeated changes no session cookie, in a
\* deployment whose cookies have names of their own.
THEOREM NobodyIsLoggedOut ==
    ASSUME DistinctNames
    PROVE  Spec => SessionSurvives
  <1> DEFINE Survives == \A b \in Browsers :
              Cookie(b, names.auth)' # Cookie(b, names.auth) =>
                 \E c \in Issued : from[c] = b /\ pc[c] = "respond" /\ pc'[c] = "done"
  <1>1. FInv /\ [Next]_vars => [Survives]_vars
    <2> SUFFICES ASSUME FInv, Next, NEW b \in Browsers,
                        Cookie(b, names.auth)' # Cookie(b, names.auth)
                 PROVE  \E c \in Issued : from[c] = b /\ pc[c] = "respond" /\ pc'[c] = "done"
      OBVIOUS
    <2> USE DEF Cookie, names
    <2>1. /\ TypeOK /\ Underway
          /\ setup.names.state # setup.names.auth /\ setup.names.pkce # setup.names.auth
          /\ setup.names.auth \in CookieNames
      BY Constants DEF FInv, TypeOK, DistinctNames
    <2>2. setup' = setup
      BY DEF Next, Login, Answer, Expire, Arrive, Step, ExchangeOk, ExchangeFails, Map,
         QueryAccount, StoreAccount, Deliver, Lose
    <2>3. jar'[b][setup.names.auth] # jar[b][setup.names.auth]
      BY <2>2
    <2>4. ASSUME NEW c \in Callbacks, Deliver(c)
          PROVE  c \in Issued /\ from[c] = b /\ pc[c] = "respond" /\ pc'[c] = "done"
      BY <2>1, <2>3, <2>4 DEF Deliver, AnswerCookies, Cleared, Goto, Issued, TypeOK, Underway
    <2>5. ASSUME NEW c \in Callbacks, Step(c)
          PROVE  Deliver(c)
      BY <2>3, <2>5
         DEF Step, ExchangeOk, ExchangeFails, Map, QueryAccount, StoreAccount, Lose
    <2>6. \A l \in Logins, a \in Browsers : ~Login(l, a)
      BY <2>1, <2>3 DEF Login, LoginCookies, TypeOK
    <2>7. \A a \in Browsers, n \in CookieNames : ~Expire(a, n)
      BY <2>1, <2>3 DEF Expire, TypeOK
    <2>8. /\ \A l \in Logins, u \in Users \cup {Denied} : ~Answer(l, u)
          /\ \A c \in Callbacks, a \in Browsers, l \in Logins, url \in {"full", "codeless", "bare"} :
                ~Arrive(c, a, l, url)
      BY <2>3 DEF Answer, Arrive
    <2> QED BY <2>4, <2>5, <2>6, <2>7, <2>8 DEF Next
  <1> QED BY <1>1, Invariance, PTL DEF Spec, SessionSurvives
=============================================================================
