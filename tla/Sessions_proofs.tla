---------------------------- MODULE Sessions_proofs ----------------------------
(***************************************************************************)
(* Proofs about Sessions for any users, browsers, calls, instances, keys,  *)
(* gates and policies, and any lifetime and leeway.                        *)
(***************************************************************************)
EXTENDS Sessions, TLAPS

-----------------------------------------------------------------------------
(* The inductive invariant *)

\* A token, or a login that has read its account: it runs out a lifetime after
\* it was started, and that was before the account last changed, unless it has
\* the current one.
Runs(t) ==
    /\ t.exp <= now + Lifetime
    /\ t.account = account[t.user] \/ t.exp <= changed[t.user] + Lifetime

\* A configured key signs every token.
Signed(t) == setup.stableKey => \A i \in Instances : t.key = key[i]

Good(t) == t \in Tokens /\ Runs(t) /\ Signed(t)

CallGood(l) ==
    /\ l.pc = "query" => l.exp <= now + Lifetime
    /\ l.pc = "verify" => Runs(l)
    /\ l.pc = "answer" => Good(l.token)
    /\ l.pc = "request" => /\ l.cookie = NoToken \/ Good(l.cookie)
                           /\ l.bearer \in {NoToken, Secret} \/ Good(l.bearer)
    /\ l.pc = "logout" /\ ~l.carried /\ ~l.overtaken => jar[l.browser] = NoToken

JarGood(b) == jar[b] = NoToken \/ Good(jar[b])

KeysShared == setup.stableKey => \A i, j \in Instances : key[i] = key[j]

Past == \A u \in Users : changed[u] <= now

IInv ==
    /\ TypeOK
    /\ Past
    /\ KeysShared
    /\ \A b \in Browsers : JarGood(b)
    /\ \A c \in Calls : CallGood(call[c])
    /\ LogoutSticks

-----------------------------------------------------------------------------
\* The fields of a call, by where it stands.
LEMMA CallFields ==
    ASSUME NEW l \in Call
    PROVE  /\ l.pc \in {"query", "verify", "answer", "logout"} => l.browser \in Browsers
           /\ l.pc \in {"query", "verify"} => l.user \in Users /\ l.at \in Instances /\ l.exp \in Nat
           /\ l.pc = "verify" => l.account \in Accounts
           /\ l.pc = "answer" => l.token \in Tokens
           /\ l.pc = "logout" => l.carried \in BOOLEAN /\ l.overtaken \in BOOLEAN
           /\ l.pc = "request" => /\ l.cookie \in Tokens \cup {NoToken}
                                  /\ l.bearer \in Tokens \cup {NoToken, Secret}
  BY DEF Call

LEMMA IdleGood == Idle \in Call /\ CallGood(Idle) /\ Idle.pc = "idle"
  BY DEF Idle, Call, CallGood

\* A record with the fields of one of the stages is a call.
LEMMA IsCall ==
    ASSUME NEW b \in Browsers
    PROVE  /\ \A u \in Users, i \in Instances, e \in Nat :
                 /\ [pc |-> "query", browser |-> b, user |-> u, at |-> i, exp |-> e] \in Call
                 /\ \A a \in Accounts :
                       [pc |-> "verify", browser |-> b, user |-> u, at |-> i, exp |-> e, account |-> a] \in Call
           /\ \A t \in Tokens : [pc |-> "answer", browser |-> b, token |-> t] \in Call
           /\ \A x, y \in BOOLEAN : [pc |-> "logout", browser |-> b, carried |-> x, overtaken |-> y] \in Call
  BY DEF Call

LEMMA IsRequest ==
    ASSUME NEW t \in Tokens \cup {NoToken}, NEW s \in Tokens \cup {NoToken, Secret}
    PROVE  [pc |-> "request", cookie |-> t, bearer |-> s] \in Call
  BY DEF Call

\* Nothing that time, the repository or a restart does makes a token bad.
LEMMA GoodStays ==
    ASSUME IInv, NEW t \in Tokens \cup Call, t \in Tokens \/ t.pc = "verify",
           \/ Tick
           \/ \E u \in Users, a \in Accounts \cup {NoAccount} : Change(u, a)
           \/ \E i \in Instances : Restart(i)
           \/ UNCHANGED <<setup, now, account, key, changed>>
    PROVE  (Runs(t) => Runs(t)') /\ (Signed(t) => Signed(t)')
<1>1. t.user \in Users /\ t.exp \in Nat
  BY CallFields DEF Tokens
<1>2. now \in Nat /\ changed \in [Users -> Nat] /\ Lifetime \in Nat
  BY SessionsAssumption DEF IInv, TypeOK
<1>3. changed[t.user] <= now
  BY <1>1 DEF IInv, Past
<1>4. CASE Tick
  BY <1>1, <1>2, <1>4 DEF Tick, Runs, Signed
<1>5. ASSUME NEW u \in Users, NEW a \in Accounts \cup {NoAccount}, Change(u, a)
      PROVE  (Runs(t) => Runs(t)') /\ (Signed(t) => Signed(t)')
  <2>1. CASE t.user = u
    <3>1. changed'[t.user] = now /\ now' = now
      BY <1>2, <1>5, <2>1 DEF Change
    <3> QED
      BY <1>5, <3>1 DEF Change, Runs, Signed
  <2>2. CASE t.user # u
    <3>1. changed'[t.user] = changed[t.user] /\ account'[t.user] = account[t.user]
      BY <1>1, <1>5, <2>2 DEF Change, IInv, TypeOK
    <3> QED
      BY <1>5, <3>1 DEF Change, Runs, Signed
  <2> QED
    BY <2>1, <2>2
<1>6. ASSUME NEW i \in Instances, Restart(i)
      PROVE  (Runs(t) => Runs(t)') /\ (Signed(t) => Signed(t)')
  BY <1>6 DEF Restart, Runs, Signed
<1>7. CASE UNCHANGED <<setup, now, account, key, changed>>
  BY <1>7 DEF Runs, Signed
<1> QED
  BY <1>4, <1>5, <1>6, <1>7

\* What surrounds the calls keeps the invariant.
LEMMA EnvironmentStep ==
    ASSUME IInv,
           \/ Tick
           \/ \E u \in Users, a \in Accounts \cup {NoAccount} : Change(u, a)
           \/ \E i \in Instances : Restart(i)
    PROVE  IInv'
<1>1. UNCHANGED <<setup, jar, out>>
  BY DEF Tick, Change, Restart
<1>2. now \in Nat /\ now' \in Nat /\ now <= now' /\ Lifetime \in Nat
  BY SessionsAssumption DEF Tick, Change, Restart, IInv, TypeOK
<1>3. \A t \in Tokens : Good(t) => Good(t)'
  BY GoodStays DEF Good
<1>4. \A c \in Calls : call[c] \in Call /\ (call'[c] = call[c] \/ call'[c] = Idle)
  BY DEF Tick, Change, Restart, IInv, TypeOK
<1>5. \A l \in Call : CallGood(l) => CallGood(l)'
  <2> SUFFICES ASSUME NEW l \in Call, CallGood(l) PROVE CallGood(l)'
    OBVIOUS
  <2>1. l.pc = "query" => l.exp <= now' + Lifetime
    BY <1>2, CallFields DEF CallGood
  <2>2. l.pc = "verify" => Runs(l)'
    BY GoodStays DEF CallGood
  <2>3. l.pc = "answer" => Good(l.token)'
    BY <1>3, CallFields DEF CallGood
  <2>4. l.pc = "request" => /\ l.cookie = NoToken \/ Good(l.cookie)'
                            /\ l.bearer \in {NoToken, Secret} \/ Good(l.bearer)'
    BY <1>3, CallFields DEF CallGood
  <2> QED
    BY <1>1, <2>1, <2>2, <2>3, <2>4 DEF CallGood
<1>6. \A c \in Calls : CallGood(call[c])'
  <2> SUFFICES ASSUME NEW c \in Calls PROVE CallGood(call[c])'
    OBVIOUS
  <2>1. CallGood(call[c]) /\ CallGood(Idle)
    BY IdleGood DEF IInv
  <2>2. \A l : l = call'[c] /\ CallGood(l)' => CallGood(call[c])'
    BY DEF CallGood, Good, Runs, Signed
  <2> QED
    BY <1>4, <1>5, <2>1, <2>2, IdleGood
<1>7. \A b \in Browsers : JarGood(b)'
  BY <1>1, <1>3 DEF IInv, JarGood, Good
<1>8. KeysShared' /\ LogoutSticks'
  BY <1>1 DEF IInv, KeysShared, LogoutSticks, Tick, Change, Restart
<1>9. Past'
  BY <1>2 DEF IInv, Past, TypeOK, Tick, Change, Restart
<1>10. TypeOK'
  <2>1. call' \in [Calls -> Call]
    <3>1. call' = [c \in Calls |-> call'[c]]
      BY DEF Tick, Change, Restart, IInv, TypeOK
    <3> QED
      BY <1>4, <3>1, IdleGood
  <2>2. account' \in [Users -> Accounts \cup {NoAccount}] /\ changed' \in [Users -> Nat]
    BY <1>2 DEF Tick, Change, Restart, IInv, TypeOK
  <2>3. key' \in [Instances -> Keys] /\ drawn' \subseteq Keys
    BY DEF Tick, Change, Restart, IInv, TypeOK
  <2> QED
    BY <1>1, <1>2, <2>1, <2>2, <2>3 DEF IInv, TypeOK
<1> QED
  BY <1>6, <1>7, <1>8, <1>9, <1>10 DEF IInv

\* A call that goes on, and touches nothing else, has to be good where it gets.
LEMMA GoesStep ==
    ASSUME IInv, NEW c \in Calls, NEW to \in Call, Goes(c, to), CallGood(to)
    PROVE  IInv'
<1>1. UNCHANGED <<setup, now, account, key, drawn, jar, changed, out>>
  BY DEF Goes
<1>2. call' = [call EXCEPT ![c] = to] /\ call \in [Calls -> Call]
  BY DEF Goes, IInv, TypeOK
<1>4. \A d \in Calls : CallGood(call'[d])
  BY <1>2 DEF IInv
<1>5. \A d \in Calls : CallGood(call[d])'
  BY <1>1, <1>4 DEF CallGood, Good, Runs, Signed
<1>6. TypeOK'
  BY <1>1, <1>2 DEF IInv, TypeOK
<1>7. (\A b \in Browsers : JarGood(b))' /\ LogoutSticks' /\ KeysShared' /\ Past'
  BY <1>1 DEF IInv, JarGood, Good, Runs, Signed, LogoutSticks, KeysShared, Past
<1> QED
  BY <1>5, <1>6, <1>7 DEF IInv

\* The handlers of a login, up to the answer.
LEMMA LoginStep ==
    ASSUME IInv, NEW c \in Calls,
           \/ \E b \in Browsers, u \in Users, i \in Instances : StartLogin(c, b, u, i)
           \/ QueryAccount(c) \/ MakeToken(c)
    PROVE  IInv'
<1> DEFINE l == call[c]
<1>0. l \in Call /\ CallGood(l) /\ now \in Nat /\ Lifetime \in Nat
  BY SessionsAssumption DEF IInv, TypeOK
<1>1. ASSUME NEW b \in Browsers, NEW u \in Users, NEW i \in Instances, StartLogin(c, b, u, i)
      PROVE  IInv'
  <2> DEFINE to == [pc |-> "query", browser |-> b, user |-> u, at |-> i, exp |-> now + Lifetime]
  <2>1. to \in Call
    BY <1>0, IsCall
  <2>2. to.pc = "query" /\ to.exp = now + Lifetime
    OBVIOUS
  <2>3. CallGood(to)
    BY <1>0, <2>2 DEF CallGood
  <2>4. Goes(c, to)
    BY <1>1 DEF StartLogin
  <2> HIDE DEF to
  <2> QED
    BY <2>1, <2>3, <2>4, GoesStep
<1>2. CASE QueryAccount(c)
  <2> DEFINE a == account[l.user]
             to == [pc |-> "verify", browser |-> l.browser, user |-> l.user, at |-> l.at,
                    exp |-> l.exp, account |-> a]
  <2>1. l.pc = "query" /\ Goes(c, to) /\ a # NoAccount
    BY <1>2 DEF QueryAccount, Verifies
  <2>2. l.browser \in Browsers /\ l.user \in Users /\ l.at \in Instances /\ l.exp \in Nat
    BY <1>0, <2>1, CallFields
  <2>3. a \in Accounts
    BY <2>1, <2>2 DEF IInv, TypeOK
  <2>4. to \in Call
    BY <2>2, <2>3, IsCall
  <2>5. to.pc = "verify" /\ to.user = l.user /\ to.exp = l.exp /\ to.account = account[to.user]
    OBVIOUS
  <2>6. CallGood(to)
    BY <1>0, <2>1, <2>5 DEF CallGood, Runs
  <2> HIDE DEF to
  <2> QED
    BY <2>1, <2>4, <2>6, GoesStep
<1>3. CASE MakeToken(c)
  <2> DEFINE t == Claims(l)
             to == [pc |-> "answer", browser |-> l.browser, token |-> t]
  <2>1. l.pc = "verify" /\ Goes(c, to)
    BY <1>3 DEF MakeToken
  <2>2. /\ l.browser \in Browsers /\ l.user \in Users /\ l.at \in Instances /\ l.exp \in Nat
        /\ l.account \in Accounts
    BY <1>0, <2>1, CallFields
  <2>3. t = [user |-> l.user, account |-> l.account, exp |-> l.exp,
             issuer |-> setup.issuer[l.at], key |-> key[l.at]]
    BY DEF Claims
  <2>4. t.user = l.user /\ t.account = l.account /\ t.exp = l.exp /\ t.key = key[l.at]
    BY <2>3
  <2>5. setup.issuer[l.at] \in Issuers /\ key[l.at] \in Keys
    BY <2>2, SessionsAssumption DEF IInv, TypeOK, Setup
  <2>6. t \in Tokens
    BY <2>2, <2>3, <2>5 DEF Tokens
  <2>7. Runs(t)
    BY <1>0, <2>1, <2>4 DEF CallGood, Runs
  <2>8. Signed(t)
    BY <2>2, <2>4 DEF Signed, IInv, KeysShared
  <2>9. Good(t) /\ to.pc = "answer" /\ to.token = t
    BY <2>6, <2>7, <2>8 DEF Good
  <2>10. to \in Call
    BY <2>2, <2>6, IsCall
  <2>11. CallGood(to)
    BY <2>9 DEF CallGood
  <2> HIDE DEF to
  <2> QED
    BY <2>1, <2>10, <2>11, GoesStep
<1> QED
  BY <1>1, <1>2, <1>3

\* Requests and logouts are sent, and calls end.
LEMMA SendStep ==
    ASSUME IInv, NEW c \in Calls,
           \/ \E b \in Browsers : StartLogout(c, b) \/ SendCookie(c, b)
           \/ \E t \in {jar[b] : b \in Browsers} \cup {Secret} : SendBearer(c, t)
           \/ Ends(c)
    PROVE  IInv'
<1>0. \A b \in Browsers : jar[b] \in Tokens \cup {NoToken} /\ JarGood(b)
  BY DEF IInv, TypeOK
<1>1. ASSUME NEW b \in Browsers, StartLogout(c, b)
      PROVE  IInv'
  <2> DEFINE to == [pc |-> "logout", browser |-> b, carried |-> jar[b] # NoToken, overtaken |-> FALSE]
  <2>1. Goes(c, to)
    BY <1>1 DEF StartLogout
  <2>2. to \in Call
    BY IsCall
  <2>3. to.pc = "logout" /\ to.browser = b /\ to.carried = (jar[b] # NoToken)
    OBVIOUS
  <2>4. CallGood(to)
    BY <2>3 DEF CallGood
  <2> HIDE DEF to
  <2> QED
    BY <2>1, <2>2, <2>4, GoesStep
<1>2. ASSUME NEW t \in Tokens \cup {NoToken}, NEW s \in Tokens \cup {NoToken, Secret},
             t = NoToken \/ Good(t), s \in {NoToken, Secret} \/ Good(s),
             Goes(c, [pc |-> "request", cookie |-> t, bearer |-> s])
      PROVE  IInv'
  <2> DEFINE to == [pc |-> "request", cookie |-> t, bearer |-> s]
  <2>1. to.pc = "request" /\ to.cookie = t /\ to.bearer = s
    OBVIOUS
  <2>2. CallGood(to)
    BY <1>2, <2>1 DEF CallGood
  <2>3. to \in Call
    BY IsRequest
  <2>4. Goes(c, to)
    BY <1>2
  <2> HIDE DEF to
  <2> QED
    BY <2>2, <2>3, <2>4, GoesStep
<1>3. ASSUME NEW b \in Browsers, SendCookie(c, b)
      PROVE  IInv'
  BY <1>0, <1>2, <1>3 DEF SendCookie, JarGood
<1>4. ASSUME NEW t \in {jar[b] : b \in Browsers} \cup {Secret}, SendBearer(c, t)
      PROVE  IInv'
  <2>1. t \in Tokens \cup {NoToken, Secret} /\ (t \in {NoToken, Secret} \/ Good(t))
    BY <1>0 DEF JarGood
  <2> QED
    BY <1>2, <1>4, <2>1 DEF SendBearer
<1>5. CASE Ends(c)
  <2>1. Goes(c, Idle)
    BY <1>5 DEF Ends, Goes
  <2> QED
    BY <2>1, IdleGood, GoesStep
<1> QED
  BY <1>1, <1>3, <1>4, <1>5

\* An answer changes the browser's cookie.
LEMMA DeliverStep ==
    ASSUME IInv, NEW c \in Calls, DeliverLogin(c) \/ DeliverLogout(c)
    PROVE  IInv'
<1> DEFINE l == call[c]
           b == l.browser
<1>0. l \in Call /\ CallGood(l) /\ call \in [Calls -> Call] /\ \A d \in Calls : CallGood(call[d])
  BY DEF IInv, TypeOK
<1>1. UNCHANGED <<setup, now, account, key, drawn, changed>>
  BY DEF DeliverLogin, DeliverLogout
<1>2. \A t : Good(t)' <=> Good(t)
  BY <1>1 DEF Good, Runs, Signed
<1>3. KeysShared' /\ Past'
  BY <1>1 DEF IInv, KeysShared, Past
<1>4. CASE DeliverLogin(c)
  <2>1. l.pc = "answer" /\ b \in Browsers /\ l.token \in Tokens /\ Good(l.token)
    BY <1>0, <1>4, CallFields DEF DeliverLogin, CallGood
  <2>2. jar' = [jar EXCEPT ![b] = l.token] /\ out' = [out EXCEPT ![b] = FALSE]
    BY <1>4 DEF DeliverLogin
  <2>3. jar' \in [Browsers -> Tokens \cup {NoToken}] /\ out' \in [Browsers -> BOOLEAN]
    BY <2>1, <2>2 DEF IInv, TypeOK
  <2>4. (\A a \in Browsers : JarGood(a))' /\ LogoutSticks'
    BY <1>2, <2>1, <2>2 DEF IInv, TypeOK, JarGood, LogoutSticks
  <2>5. ASSUME NEW d \in Calls
        PROVE  call'[d] \in Call /\ CallGood(call[d])'
    <3>1. call[d] \in Call /\ CallGood(call[d])
      BY <1>0
    <3>2. CASE d = c
      <4>1. call'[d] = Idle
        BY <1>4, <3>2 DEF DeliverLogin
      <4> QED
        BY <4>1, IdleGood DEF CallGood
    <3>3. CASE d # c /\ call[d].pc = "logout" /\ call[d].browser = b
      <4>1. call'[d] = [call[d] EXCEPT !.overtaken = TRUE]
        BY <1>4, <3>3 DEF DeliverLogin
      <4>2. call'[d] \in Call /\ call'[d].pc = "logout" /\ call'[d].overtaken
        BY <3>1, <3>3, <4>1 DEF Call
      <4> QED
        BY <4>2 DEF CallGood
    <3>4. CASE d # c /\ ~(call[d].pc = "logout" /\ call[d].browser = b)
      <4>1. call'[d] = call[d]
        BY <1>4, <3>4 DEF DeliverLogin
      <4>2. call[d].pc = "logout" => jar'[call[d].browser] = jar[call[d].browser]
        BY <2>2, <3>1, <3>4, CallFields DEF IInv, TypeOK
      <4> QED
        BY <1>1, <1>2, <3>1, <4>1, <4>2 DEF CallGood, Runs
    <3> QED
      BY <3>2, <3>3, <3>4
  <2>6. call' \in [Calls -> Call]
    <3>1. call' = [d \in Calls |-> call'[d]]
      BY <1>4 DEF DeliverLogin
    <3> QED
      BY <2>5, <3>1
  <2>7. TypeOK'
    BY <1>1, <2>3, <2>6 DEF IInv, TypeOK
  <2> QED
    BY <1>3, <2>4, <2>5, <2>7 DEF IInv
<1>5. CASE DeliverLogout(c)
  <2>1. l.pc = "logout" /\ b \in Browsers /\ l.carried \in BOOLEAN /\ l.overtaken \in BOOLEAN
    BY <1>0, <1>5, CallFields DEF DeliverLogout
  <2>2. /\ jar' = [jar EXCEPT ![b] = IF l.carried THEN NoToken ELSE jar[b]]
        /\ out' = [out EXCEPT ![b] = out[b] \/ ~l.overtaken]
        /\ call' = [call EXCEPT ![c] = Idle]
    BY <1>5 DEF DeliverLogout, Emptied
  <2>3. \A a \in Browsers : jar'[a] = jar[a] \/ jar'[a] = NoToken
    BY <2>1, <2>2 DEF IInv, TypeOK
  <2>4. jar' \in [Browsers -> Tokens \cup {NoToken}] /\ out' \in [Browsers -> BOOLEAN]
    BY <2>1, <2>2 DEF IInv, TypeOK
  <2>5. (\A a \in Browsers : JarGood(a))'
    BY <1>2, <2>3 DEF IInv, JarGood
  <2>6. LogoutSticks'
    <3>1. ~l.overtaken => jar'[b] = NoToken
      BY <1>0, <2>1, <2>2 DEF IInv, TypeOK, CallGood
    <3>2. out[b] => jar'[b] = NoToken
      BY <2>1, <2>3 DEF IInv, LogoutSticks
    <3>3. out'[b] => jar'[b] = NoToken
      BY <2>1, <2>2, <3>1, <3>2 DEF IInv, TypeOK
    <3>4. \A a \in Browsers : a # b => out'[a] = out[a] /\ jar'[a] = jar[a]
      BY <2>2 DEF IInv, TypeOK
    <3> QED
      BY <3>3, <3>4 DEF IInv, LogoutSticks
  <2>7. ASSUME NEW d \in Calls
        PROVE  CallGood(call[d])'
    <3>1. CASE d = c
      <4>1. call'[d] = Idle
        BY <1>0, <2>2, <3>1
      <4> QED
        BY <4>1, IdleGood DEF CallGood
    <3>2. CASE d # c
      <4>1. call'[d] = call[d] /\ call[d] \in Call /\ CallGood(call[d])
        BY <1>0, <2>2, <3>2
      <4>2. call[d].pc = "logout" => call[d].browser \in Browsers
        BY <4>1, CallFields
      <4> QED
        BY <1>1, <1>2, <2>3, <4>1, <4>2 DEF CallGood, Runs
    <3> QED
      BY <3>1, <3>2
  <2>8. TypeOK'
    BY <1>0, <1>1, <2>2, <2>4, IdleGood DEF IInv, TypeOK
  <2> QED
    BY <1>3, <2>5, <2>6, <2>7, <2>8 DEF IInv
<1> QED
  BY <1>4, <1>5

LEMMA InitInv == Init => IInv
<1> SUFFICES ASSUME Init PROVE IInv
  OBVIOUS
<1>1. TypeOK
  BY IdleGood, SessionsAssumption DEF Init, TypeOK, StartKeys
<1>2. Past /\ LogoutSticks /\ KeysShared
  BY DEF Init, Past, LogoutSticks, KeysShared, StartKeys
<1>3. (\A b \in Browsers : JarGood(b)) /\ \A c \in Calls : CallGood(call[c])
  BY IdleGood DEF Init, JarGood
<1> QED
  BY <1>1, <1>2, <1>3 DEF IInv

LEMMA NextInv == IInv /\ [Next]_vars => IInv'
<1> SUFFICES ASSUME IInv, [Next]_vars PROVE IInv'
  OBVIOUS
<1>1. CASE UNCHANGED vars
  BY <1>1 DEF vars, IInv, TypeOK, Past, KeysShared, JarGood, CallGood, Good, Runs, Signed, LogoutSticks
<1>2. ASSUME NEW b \in Browsers, Forget(b)
      PROVE  IInv'
  <2>1. UNCHANGED <<setup, now, account, key, drawn, call, changed, out>>
    BY <1>2 DEF Forget
  <2>2. jar' = [jar EXCEPT ![b] = NoToken] /\ jar \in [Browsers -> Tokens \cup {NoToken}]
    BY <1>2 DEF Forget, IInv, TypeOK
  <2>3. \A a \in Browsers : jar'[a] = jar[a] \/ jar'[a] = NoToken
    BY <2>2
  <2>4. \A c \in Calls : call[c].pc = "logout" => call[c].browser \in Browsers
    BY CallFields DEF IInv, TypeOK
  <2>5. \A t : Good(t)' <=> Good(t)
    BY <2>1 DEF Good, Runs, Signed
  <2>6. TypeOK'
    BY <2>1, <2>2 DEF IInv, TypeOK
  <2>7. (\A a \in Browsers : JarGood(a))' /\ LogoutSticks' /\ KeysShared' /\ Past'
    BY <2>1, <2>3, <2>5 DEF IInv, JarGood, LogoutSticks, KeysShared, Past
  <2>8. (\A c \in Calls : CallGood(call[c]))'
    BY <2>1, <2>3, <2>4, <2>5 DEF IInv, CallGood, Runs
  <2> QED
    BY <2>6, <2>7, <2>8 DEF IInv
<1>3. ASSUME NEW c \in Calls, Lose(c) \/ LoginFails(c) \/ Arrive(c)
      PROVE  IInv'
  <2>1. Ends(c)
    BY <1>3 DEF Lose, LoginFails, Arrive, Arrives, Serve, ServeOptional, ServeUnknown, ServeStatic, Refuse
  <2> QED
    BY <2>1, SendStep
<1> QED
  BY <1>1, <1>2, <1>3, EnvironmentStep, LoginStep, SendStep, DeliverStep DEF Next

-----------------------------------------------------------------------------
(* The theorems *)

\* The invariant holds of every reachable state.
THEOREM Invariance == Spec => []IInv
  BY InitInv, NextInv, PTL DEF Spec

\* Calls, tokens and cookies keep their types; no token is of an unknown account.
THEOREM TypeCorrect == Spec => []TypeOK
<1>1. IInv => TypeOK
  BY DEF IInv
<1> QED
  BY <1>1, Invariance, PTL

\* A browser that is logged out has no session to send.
THEOREM LogoutCorrect == Spec => []LogoutSticks
<1>1. IInv => LogoutSticks
  BY DEF IInv
<1> QED
  BY <1>1, Invariance, PTL

\* A token that a request presents is good, if the codec finds it valid.
LEMMA PresentedIsGood ==
    ASSUME IInv, NEW c \in Calls, call[c].pc = "request", NEW g \in Gates,
           Presented(call[c], g) \notin {NoToken, Secret}
    PROVE  LET t == Presented(call[c], g) IN
           /\ Good(t) /\ t.user \in Users /\ t.account \in Accounts /\ t.exp \in Nat
           /\ changed[t.user] \in Nat /\ now \in Nat /\ Lifetime \in Nat /\ Leeway \in Nat
<1> DEFINE t == Presented(call[c], g)
<1>1. CallGood(call[c])
  BY DEF IInv
<1>2. Good(t)
  BY <1>1 DEF CallGood, Presented
<1>3. t.user \in Users /\ t.account \in Accounts /\ t.exp \in Nat
  BY <1>2 DEF Good, Tokens
<1> QED
  BY <1>2, <1>3, SessionsAssumption DEF IInv, TypeOK

\* Whatever its gate, a handler sees no state of an account that was replaced
\* longer ago than the lifetime and the leeway.
THEOREM StalenessIsBounded == Spec => BoundedStaleness
<1>1. ASSUME IInv, NEW c \in Calls, Ended(c), NEW i \in Instances, NEW g \in Gates,
             Serve(c, i, g) \/ ServeOptional(c, i, g), Settled(Presented(call[c], g).user)
      PROVE  Presented(call[c], g).account = account[Presented(call[c], g).user]
  <2> DEFINE t == Presented(call[c], g)
  <2>1. call[c].pc = "request" /\ t \notin {NoToken, Secret} /\ now <= t.exp + Leeway
    BY <1>1 DEF Ended, Serve, ServeOptional, Valid
  <2>2. /\ Good(t) /\ t.exp \in Nat /\ changed[t.user] \in Nat
        /\ now \in Nat /\ Lifetime \in Nat /\ Leeway \in Nat
    BY <1>1, <2>1, PresentedIsGood
  <2>3. now > changed[t.user] + Lifetime + Leeway
    BY <1>1 DEF Settled
  <2> QED
    BY <2>1, <2>2, <2>3 DEF Good, Runs
<1>2. IInv => (\A c \in Calls : Ended(c) =>
          \A i \in Instances, g \in Gates :
             LET t == Presented(call[c], g) IN
             (Serve(c, i, g) \/ ServeOptional(c, i, g)) /\ Settled(t.user) => t.account = account[t.user])
  BY <1>1
<1> QED
  BY <1>2, Invariance, PTL DEF BoundedStaleness

\* With a configured key no restart and no other instance ends a session.
THEOREM SessionsSurvive == Spec => SessionsContinue
<1>1. ASSUME IInv, NEW c \in Calls, Ended(c), setup.stableKey, NEW i \in Instances, NEW g \in Gates,
             Refuse(c, i, g), g.carrier # "static",
             Presented(call[c], g) \notin {NoToken, Secret},
             Presented(call[c], g).issuer = setup.issuer[i],
             now <= Presented(call[c], g).exp, Settled(Presented(call[c], g).user)
      PROVE  LET u == Presented(call[c], g).user IN
             account[u] # NoAccount /\ ~Admits(g.policy, account[u])
  <2> DEFINE t == Presented(call[c], g)
  <2>1. /\ Good(t) /\ t.exp \in Nat /\ t.account \in Accounts /\ changed[t.user] \in Nat
        /\ now \in Nat /\ Lifetime \in Nat /\ Leeway \in Nat
    BY <1>1, PresentedIsGood DEF Ended
  <2>2. t.account = account[t.user]
    BY <1>1, <2>1 DEF Good, Runs, Settled
  <2>3. Valid(i, t)
    BY <1>1, <2>1 DEF Good, Signed, Valid
  <2>4. ~Admits(g.policy, t.account)
    BY <1>1, <2>3 DEF Refuse
  <2> QED
    BY <2>1, <2>2, <2>4, SessionsAssumption
<1>2. IInv => (\A c \in Calls : Ended(c) /\ setup.stableKey =>
          \A i \in Instances, g \in Gates :
             LET t == Presented(call[c], g) IN
             /\ Refuse(c, i, g)
             /\ g.carrier # "static"
             /\ t \notin {NoToken, Secret}
             /\ t.issuer = setup.issuer[i]
             /\ now <= t.exp
             /\ Settled(t.user)
             => account[t.user] # NoAccount /\ ~Admits(g.policy, account[t.user]))
  BY <1>1
<1> QED
  BY <1>2, Invariance, PTL DEF SessionsContinue
=============================================================================
