------------------------ MODULE ServiceClients_proofs ------------------------
(***************************************************************************)
(* Proofs about ServiceClients for any clients, users, bounds and          *)
(* backends.  Fairness plays no part in them.                              *)
(***************************************************************************)
EXTENDS ServiceClients, FiniteSetTheorems, TLAPS

-----------------------------------------------------------------------------
(* The inductive invariant *)

\* Where a client stands says which service it calls and whether it holds an
\* account: one that signs up does between the two writes only.
Standing(c) ==
    /\ pc[c] = "store_account" \/ pc[c] = "store_secret" => phase[c] = "register"
    /\ pc[c] = "query_account" \/ pc[c] = "verify" => phase[c] = "login"
    /\ pc[c] = "delete_secret" \/ pc[c] = "delete_account" => phase[c] = "delete"
    /\ pc[c] = "told" => phase[c] # "end"
    /\ id[c] = NoId <=> phase[c] = "register" /\ pc[c] # "store_secret"
    /\ id[c] # NoId => id[c] <= used

\* What a client was told that it may not repeat could not succeed.
Stuck(c) ==
    \/ phase[c] = "delete" /\ ~HasSecret(id[c])
    \/ phase[c] = "register" /\ err[c] = Err("Secrets", "Hash")

Refused(c) == pc[c] = "told" /\ ~Retryable(err[c])

Told(c) ==
    /\ pc[c] = "told" => err[c] # NoError
    /\ Refused(c) \/ GaveUp(c) => Stuck(c)

\* An account has one client at most, and an id of its own.
OneOwner == \A c, d \in Clients : id[c] = id[d] /\ id[c] # NoId => c = d

Drawn ==
    /\ \A a \in accounts : a.id <= used
    /\ \A a, b \in accounts : a.id = b.id => a = b
    /\ IsFiniteSet(accounts)

IInv ==
    /\ TypeOK
    /\ \A c \in Clients : Standing(c) /\ Told(c)
    /\ OneOwner
    /\ Drawn
    /\ DamageCostsFaults
    /\ DamageIsReported

-----------------------------------------------------------------------------
(* The errors the services raise *)

LEMMA ErrFields ==
    \A x, k : Err(x, k).category = x /\ Err(x, k).kind = k
  BY DEF Err

LEMMA DatabaseError ==
    ASSUME NEW k \in {"Insert", "Delete", "Query", "Connect"}
    PROVE  /\ Err("Database", k) \in Errors
           /\ Retryable(Err("Database", k)) /\ Grave(Err("Database", k))
  <1> DEFINE e == Err("Database", k)
  <1>1. e \in Errors
    BY DEF Errors, DatabaseErrors
  <1>2. e.category = "Database" /\ e.kind = k
    BY ErrFields
  <1> HIDE DEF e
  <1>3. AdviceOn(e) = DatabaseAdvice(e)
    BY <1>2 DEF AdviceOn
  <1>4. DatabaseAdvice(e).retryable /\ DatabaseAdvice(e).severity \in {"Critical", "Error"}
    BY <1>2 DEF DatabaseAdvice, Tells
  <1>5. Retryable(e) /\ Grave(e)
    BY <1>3, <1>4 DEF Retryable, Grave
  <1> QED BY <1>1, <1>5 DEF e

LEMMA LoginError ==
    ASSUME NEW k \in {"invalid_credentials", "repository_query", "credential_verification"}
    PROVE  HiddenByLogin(k) \in Errors /\ Retryable(HiddenByLogin(k))
  <1> DEFINE e == Err("Login", k)
  <1>1. e \in Errors
    BY DEF Errors, LoginErrors
  <1>2. e.category = "Login" /\ e.kind = k
    BY ErrFields
  <1> HIDE DEF e
  <1>3. AdviceOn(e) = LoginAdvice(e)
    BY <1>2 DEF AdviceOn
  <1>4. LoginAdvice(e).retryable
    BY <1>2 DEF LoginAdvice, Tells
  <1>5. Retryable(e)
    BY <1>3, <1>4 DEF Retryable
  <1> QED BY <1>1, <1>5 DEF e, HiddenByLogin

LEMMA FinalErrors ==
    /\ Err("Accounts", "Delete") \in Errors /\ Grave(Err("Accounts", "Delete"))
    /\ Err("Secrets", "Hash") \in Errors /\ Grave(Err("Secrets", "Hash"))
  <1>1. Err("Accounts", "Delete") \in Errors /\ Err("Secrets", "Hash") \in Errors
    BY DEF Errors
  <1>2. ASSUME NEW e, e.category = "Accounts", e.kind = "Delete" PROVE Grave(e)
    BY <1>2 DEF Grave, AdviceOn, AccountsAdvice, Tells
  <1>3. ASSUME NEW e, e.category = "Secrets", e.kind = "Hash" PROVE Grave(e)
    BY <1>3 DEF Grave, AdviceOn, SecretsAdvice, Tells
  <1> QED BY <1>1, <1>2, <1>3, ErrFields

-----------------------------------------------------------------------------
(* What a step of a client may change *)

Move(c) == Start(c) \/ Heed(c) \/ HangUp(c) \/ HashFails(c) \/ Access(c)

\* Other clients are left alone.
Aside(c) ==
    \A d \in Clients \ {c} :
        /\ pc'[d] = pc[d] /\ id'[d] = id[d]
        /\ phase'[d] = phase[d] /\ err'[d] = err[d]

\* The ids drawn, the accounts added, and the client that is given one.
Draws(c) ==
    \/ used' = used /\ accounts' \subseteq accounts /\ id'[c] \in {id[c], NoId}
    \/ /\ id[c] = NoId /\ used' = used + 1 /\ used' \in Ids
       /\ \E x \in Account : x.id = used' /\ accounts' = accounts \cup {x}
       /\ id'[c] \in {used', NoId}

\* Only the secret of the client's own account is touched.
OwnSecret(c) ==
    /\ \A s \in secrets : s.id # id[c] => s \in secrets'
    /\ \A s \in secrets' : s \notin secrets => s.id = id[c] /\ pc[c] = "store_secret"

Between(c) == pc[c] \in {"store_secret", "delete_account"}

\* If the client's own account, or the one it adds, is not in order afterwards,
\* then it was not before, or something went wrong or its row cannot be read
\* back, and this is told of.
Harm(c) ==
    \A i \in Ids :
        /\ \E a \in accounts' : a.id = i
        /\ \/ i = id[c] /\ (HasSecret(i) \/ Between(c))
           \/ i = used' /\ used' # used
        => \/ id'[c] = i /\ (HasSecret(i) \/ Between(c))'
           \/ /\ faults' = faults + 1 \/ \E a \in accounts' : a.id = i /\ ~a.reads
              /\ i \in reported' \cup cut'

Effect(c) ==
    /\ TypeOK'
    /\ Aside(c)
    /\ Standing(c)'
    /\ Told(c)'
    /\ Draws(c)
    /\ OwnSecret(c)
    /\ Harm(c)
    /\ faults <= faults'
    /\ reported \subseteq reported' /\ cut \subseteq cut'

-----------------------------------------------------------------------------
(* A client that raises an error *)

Raises(c, e, i) ==
    /\ pc' = [pc EXCEPT ![c] = "told"]
    /\ err' = [err EXCEPT ![c] = e]
    /\ id' = [id EXCEPT ![c] = IF phase[c] = "register" THEN NoId ELSE id[c]]
    /\ phase' = phase /\ cut' = cut
    /\ reported \subseteq reported' /\ reported' \subseteq Ids
    /\ Grave(e) /\ i # NoId => i \in reported'

LEMMA RaiseFacts ==
    ASSUME TypeOK, NEW c \in Clients, NEW e \in Errors, NEW i \in Ids \cup {NoId},
           Raise(c, e, i)
    PROVE  Raises(c, e, i)
  BY DEF Raise, Forget, Goto, Raises, TypeOK

\* Its types and where it stands afterwards.
LEMMA RaiseTypes ==
    ASSUME NEW c \in Clients, NEW e \in Errors, NEW i \in Ids \cup {NoId},
           TypeOK, Standing(c), UNCHANGED setup,
           Raises(c, e, i), phase[c] # "end", used <= used', used' \in 0..MaxIds
    PROVE  /\ pc' \in [Clients -> Labels] /\ err' \in [Clients -> Errors \cup {NoError}]
           /\ id' \in [Clients -> Ids \cup {NoId}] /\ phase' \in [Clients -> Phases]
           /\ reported' \subseteq Ids /\ cut' \subseteq Ids
           /\ backend' \in Backends /\ unique' \in BOOLEAN /\ readable' \subseteq Clients
           /\ Aside(c) /\ Standing(c)'
           /\ id'[c] \in {id[c], NoId}
           /\ pc'[c] = "told" /\ err'[c] = e /\ phase'[c] = phase[c]
           /\ phase[c] # "register" => id'[c] = id[c]
  <1>1. /\ pc'[c] = "told" /\ err'[c] = e /\ phase'[c] = phase[c]
        /\ id'[c] = IF phase[c] = "register" THEN NoId ELSE id[c]
        /\ Aside(c)
    BY DEF Raises, TypeOK, Aside
  <1>2. /\ pc' \in [Clients -> Labels] /\ err' \in [Clients -> Errors \cup {NoError}]
        /\ id' \in [Clients -> Ids \cup {NoId}] /\ phase' \in [Clients -> Phases]
        /\ reported' \subseteq Ids /\ cut' \subseteq Ids
        /\ backend' \in Backends /\ unique' \in BOOLEAN /\ readable' \subseteq Clients
    BY DEF Raises, TypeOK, Labels, setup
  <1>3. Standing(c)'
    <2>1. id[c] = NoId => phase[c] = "register"
      BY DEF Standing
    <2>2. id[c] \in Ids \cup {NoId} /\ used \in Nat
      BY DEF TypeOK
    <2>3. id'[c] = NoId <=> phase'[c] = "register"
      BY <1>1, <2>1
    <2>4. id'[c] # NoId => id'[c] <= used'
      BY <1>1, <2>2 DEF Standing, Ids, TypeOK
    <2> QED BY <1>1, <2>3, <2>4 DEF Standing
  <1> QED BY <1>1, <1>2, <1>3

\* An error that invites a retry, or that says that the client is stuck.
LEMMA RaiseTold ==
    ASSUME NEW c \in Clients, NEW e \in Errors, pc'[c] = "told", err'[c] = e,
           Retryable(e) \/ Stuck(c)'
    PROVE  Told(c)'
  <1>1. NoError \notin Errors
    BY ClientsAssumption
  <1> QED BY <1>1 DEF Told, Refused, GaveUp

-----------------------------------------------------------------------------
(* The effect of each step *)

\* Where the data stay as they are.
Same == UNCHANGED <<accounts, secrets, used>>

LEMMA SameFacts ==
    ASSUME TypeOK, NEW c \in Clients, Same, id'[c] \in {id[c], NoId}
    PROVE  /\ Draws(c) /\ OwnSecret(c)
           /\ accounts' \subseteq Account /\ secrets' \subseteq Secret /\ used' \in 0..MaxIds
           /\ used' = used
  BY DEF Same, Draws, OwnSecret, TypeOK

LEMMA QuietFacts ==
    ASSUME TypeOK, Quiet
    PROVE  /\ faults' \in 0..MaxFaults /\ faults <= faults'
           /\ reported' \subseteq Ids /\ cut' \subseteq Ids
           /\ reported \subseteq reported' /\ cut \subseteq cut'
  BY DEF Quiet, TypeOK

LEMMA SpendFacts ==
    ASSUME TypeOK, Spend
    PROVE  faults' \in 0..MaxFaults /\ faults <= faults' /\ faults' = faults + 1
  BY ClientsAssumption DEF Spend, TypeOK

LEMMA StartEffect ==
    ASSUME TypeOK, NEW c \in Clients, Standing(c), Start(c)
    PROVE  Effect(c)
  <1> USE DEF Start, At, Goto, setup
  <1>1. /\ pc'[c] = First(phase[c]) /\ Aside(c) /\ Same /\ Quiet
        /\ UNCHANGED <<phase, id, found, err>>
    BY DEF TypeOK, Aside, Same
  <1>2. phase[c] \in {"register", "login", "delete"}
    BY DEF TypeOK, Phases
  <1>3. First(phase[c]) \in Labels
    BY <1>2 DEF First, Labels
  <1>4. TypeOK'
    BY <1>1, <1>3, QuietFacts, SameFacts DEF TypeOK
  <1>5. Standing(c)'
    BY <1>1, <1>2 DEF Standing, First, Same
  <1>6. Told(c)'
    BY <1>1, <1>2 DEF Told, Refused, GaveUp, First
  <1>7. Harm(c)
    BY <1>1 DEF Harm, Between, HasSecret, Same
  <1> QED BY <1>1, <1>4, <1>5, <1>6, <1>7, QuietFacts, SameFacts DEF Effect

LEMMA HeedEffect ==
    ASSUME TypeOK, NEW c \in Clients, Standing(c), Told(c), Heed(c)
    PROVE  Effect(c)
  <1> USE DEF Heed, At, Goto, setup
  <1>1. /\ pc'[c] = IF Retryable(err[c]) THEN First(phase[c]) ELSE "over"
        /\ Aside(c) /\ Same /\ Quiet
        /\ UNCHANGED <<phase, id, found, err>>
    BY DEF TypeOK, Aside, Same
  <1>2. phase[c] \in {"register", "login", "delete"}
    BY DEF TypeOK, Phases, Standing
  <1>3. First(phase[c]) \in Labels /\ "over" \in Labels
    BY <1>2 DEF First, Labels
  <1>4. TypeOK'
    BY <1>1, <1>3, QuietFacts, SameFacts DEF TypeOK
  <1>5. Standing(c)'
    BY <1>1, <1>2 DEF Standing, First, Same
  <1>6. Told(c)'
    BY <1>1, <1>2 DEF Told, Refused, GaveUp, First, Stuck, HasSecret, Same
  <1>7. Harm(c)
    BY <1>1 DEF Harm, Between, HasSecret, Same
  <1> QED BY <1>1, <1>4, <1>5, <1>6, <1>7, QuietFacts, SameFacts DEF Effect

LEMMA HangUpEffect ==
    ASSUME TypeOK, NEW c \in Clients, Standing(c), HangUp(c)
    PROVE  Effect(c)
  <1> USE DEF HangUp, Goto, setup, Forget
  <1>1. /\ pc'[c] = "over" /\ err'[c] = NoError
        /\ id'[c] = IF phase[c] = "register" THEN NoId ELSE id[c]
        /\ Aside(c) /\ Same
        /\ UNCHANGED <<phase, reported>>
    BY DEF TypeOK, Aside, Same
  <1>2. TypeOK'
    BY <1>1, SpendFacts, SameFacts DEF TypeOK, Labels
  <1>3. Standing(c)'
    BY <1>1 DEF Standing, Same
  <1>4. Told(c)'
    BY <1>1 DEF Told, Refused, GaveUp
  <1>5. Harm(c)
    BY <1>1, SpendFacts, ClientsAssumption DEF Harm, Same
  <1>6. cut \subseteq cut' /\ reported \subseteq reported'
    OBVIOUS
  <1> QED BY <1>1, <1>2, <1>3, <1>4, <1>5, <1>6, SpendFacts, SameFacts DEF Effect

LEMMA HashFailsEffect ==
    ASSUME TypeOK, NEW c \in Clients, Standing(c), HashFails(c)
    PROVE  Effect(c)
  <1> DEFINE e == Err("Secrets", "Hash")
  <1>1. e \in Errors /\ Grave(e)
    BY FinalErrors
  <1> HIDE DEF e
  <1>2. /\ pc[c] = "store_secret" /\ UNCHANGED setup /\ Spend /\ Raise(c, e, id[c])
        /\ Same /\ found' = found /\ phase[c] = "register"
    BY DEF HashFails, At, e, Same, Standing
  <1>3. id[c] \in Ids \cup {NoId}
    BY DEF TypeOK
  <1>4. Raises(c, e, id[c])
    BY <1>1, <1>2, <1>3, RaiseFacts
  <1>5. used' = used /\ used \in 0..MaxIds /\ used <= used'
    BY <1>2 DEF Same, TypeOK
  <1>6. /\ pc' \in [Clients -> Labels] /\ err' \in [Clients -> Errors \cup {NoError}]
        /\ id' \in [Clients -> Ids \cup {NoId}] /\ phase' \in [Clients -> Phases]
        /\ reported' \subseteq Ids /\ cut' \subseteq Ids
        /\ backend' \in Backends /\ unique' \in BOOLEAN /\ readable' \subseteq Clients
        /\ Aside(c) /\ Standing(c)' /\ id'[c] \in {id[c], NoId}
        /\ pc'[c] = "told" /\ err'[c] = e /\ phase'[c] = phase[c]
    BY <1>1, <1>2, <1>3, <1>4, <1>5, RaiseTypes
  <1>7. TypeOK'
    BY <1>2, <1>6, SpendFacts, SameFacts DEF TypeOK
  <1>8. Told(c)'
    BY <1>1, <1>2, <1>6, RaiseTold DEF Stuck, e
  <1>9. Harm(c)
    BY <1>1, <1>2, <1>4, <1>5, SpendFacts, ClientsAssumption DEF Harm, Raises
  <1>10. cut \subseteq cut' /\ reported \subseteq reported'
    BY <1>4 DEF Raises
  <1> QED BY <1>2, <1>6, <1>7, <1>8, <1>9, <1>10, SpendFacts, SameFacts DEF Effect

\* A client that raises an error, whatever it has done before.
LEMMA RaiseEffect ==
    ASSUME NEW c \in Clients, NEW e \in Errors, NEW i \in Ids \cup {NoId},
           TypeOK, Standing(c), UNCHANGED setup, phase[c] # "end",
           Raise(c, e, i),
           Raises(c, e, i) => Draws(c) /\ Harm(c) /\ (Retryable(e) \/ Stuck(c)'),
           OwnSecret(c),
           accounts' \subseteq Account, secrets' \subseteq Secret,
           used' \in 0..MaxIds, used <= used',
           found' \in [Clients -> Ids \cup {NoId}],
           faults' \in 0..MaxFaults, faults <= faults'
    PROVE  Effect(c)
  <1>1. Raises(c, e, i)
    BY RaiseFacts
  <1>2. /\ pc' \in [Clients -> Labels] /\ err' \in [Clients -> Errors \cup {NoError}]
        /\ id' \in [Clients -> Ids \cup {NoId}] /\ phase' \in [Clients -> Phases]
        /\ reported' \subseteq Ids /\ cut' \subseteq Ids
        /\ backend' \in Backends /\ unique' \in BOOLEAN /\ readable' \subseteq Clients
        /\ Aside(c) /\ Standing(c)'
        /\ pc'[c] = "told" /\ err'[c] = e
    BY <1>1, RaiseTypes
  <1>3. TypeOK'
    BY <1>2 DEF TypeOK
  <1>4. Told(c)'
    BY <1>1, <1>2, RaiseTold
  <1>5. reported \subseteq reported' /\ cut \subseteq cut'
    BY <1>1 DEF Raises
  <1> QED BY <1>1, <1>2, <1>3, <1>4, <1>5 DEF Effect

\* A statement that fails has changed nothing.
LEMMA FailsEffect ==
    ASSUME NEW c \in Clients, NEW k \in {"Insert", "Delete", "Query"},
           TypeOK, Standing(c), UNCHANGED setup, phase[c] # "end",
           DatabaseFails(c, k, id[c]), Same, found' = found
    PROVE  Effect(c)
  <1>1. PICK e \in Broken(k) : Raise(c, e, id[c])
    BY DEF DatabaseFails
  <1>2. e \in Errors /\ Retryable(e) /\ Grave(e)
    BY DatabaseError DEF Broken
  <1>3. id[c] \in Ids \cup {NoId} /\ found' \in [Clients -> Ids \cup {NoId}]
    BY DEF TypeOK
  <1>4. Spend
    BY DEF DatabaseFails
  <1>5. faults' \in 0..MaxFaults /\ faults <= faults' /\ faults' = faults + 1
    BY <1>4, SpendFacts
  <1>6. ASSUME Raises(c, e, id[c]) PROVE Draws(c) /\ Harm(c)
    <2>1. id'[c] \in {id[c], NoId}
      BY <1>6 DEF Raises, TypeOK
    <2>2. used' = used /\ Draws(c)
      BY <2>1, SameFacts
    <2>3. Harm(c)
      BY <1>2, <1>5, <1>6, <2>2, ClientsAssumption DEF Harm, Raises
    <2> QED BY <2>2, <2>3
  <1>7. /\ accounts' \subseteq Account /\ secrets' \subseteq Secret
        /\ used' \in 0..MaxIds /\ used <= used' /\ OwnSecret(c)
    BY DEF Same, TypeOK, OwnSecret
  <1> QED BY <1>1, <1>2, <1>3, <1>5, <1>6, <1>7, RaiseEffect

LEMMA StoreAccountEffect ==
    ASSUME NEW c \in Clients, TypeOK, Standing(c), StoreAccount(c)
    PROVE  Effect(c)
  <1> DEFINE e == Err("Database", "Insert")
  <1>1. e \in Errors /\ Retryable(e) /\ Grave(e)
    BY DatabaseError
  <1> HIDE DEF e
  <1>2. /\ pc[c] = "store_account" /\ phase[c] = "register" /\ id[c] = NoId
        /\ UNCHANGED setup /\ secrets' = secrets /\ found' = found
    BY DEF StoreAccount, At, Standing
  <1>3. /\ found' \in [Clients -> Ids \cup {NoId}] /\ secrets' \subseteq Secret
        /\ backend' \in Backends /\ unique' \in BOOLEAN /\ readable' \subseteq Clients
        /\ OwnSecret(c)
    BY <1>2 DEF TypeOK, OwnSecret, setup
  <1>4. ASSUME AddAccount(c)
        PROVE  /\ used' = used + 1 /\ used' \in Ids /\ used' \in 0..MaxIds /\ used <= used'
               /\ accounts' \subseteq Account
               /\ \E x \in Account : /\ x.id = used' /\ accounts' = accounts \cup {x}
                                      /\ x.reads = (c \in readable)
    <2>1. used' = used + 1 /\ used' \in Ids /\ used' \in 0..MaxIds /\ used <= used'
      BY <1>4, ClientsAssumption DEF AddAccount, TypeOK, Ids
    <2> DEFINE x == [id |-> used', user |-> UserOf[c], reads |-> c \in readable]
    <2>2. x \in Account /\ x.id = used' /\ x.reads = (c \in readable)
      BY <2>1, ClientsAssumption DEF Account
    <2>3. accounts' = accounts \cup {x}
      BY <1>4 DEF AddAccount
    <2> HIDE DEF x
    <2> QED BY <2>1, <2>2, <2>3 DEF TypeOK
  <1>5. CASE /\ AddAccount(c)
             /\ id' = [id EXCEPT ![c] = used'] /\ Goto(c, "store_secret")
             /\ UNCHANGED <<phase, err>> /\ Quiet
    <2>1. id'[c] = used' /\ pc'[c] = "store_secret" /\ Aside(c) /\ UNCHANGED <<phase, err>>
      BY <1>5 DEF Goto, Aside, TypeOK
    <2>2. TypeOK'
      BY <1>3, <1>4, <1>5, QuietFacts DEF TypeOK, Goto, Labels
    <2>3. Standing(c)'
      BY <1>2, <1>4, <1>5, <2>1, ClientsAssumption DEF Standing, Ids
    <2>4. Told(c)' /\ Draws(c)
      BY <1>2, <1>4, <1>5, <2>1 DEF Told, Refused, GaveUp, Draws
    <2>5. Harm(c)
      BY <1>2, <2>1, ClientsAssumption DEF Harm, Between
    <2> QED BY <1>3, <1>4, <1>5, <2>1, <2>2, <2>3, <2>4, <2>5, QuietFacts DEF Effect
  <1>6. CASE AddAccount(c) /\ AnswerLost(c, "Insert", used')
    <2>1. Spend /\ Raise(c, e, used')
      BY <1>6 DEF AnswerLost, e
    <2>2. faults' \in 0..MaxFaults /\ faults <= faults' /\ faults' = faults + 1
      BY <2>1, SpendFacts
    <2>3. ASSUME Raises(c, e, used') PROVE Draws(c) /\ Harm(c)
      <3>1. id'[c] = NoId
        BY <1>2, <2>3 DEF Raises, TypeOK
      <3>2. used' \in reported'
        BY <1>1, <1>4, <1>6, <2>3, ClientsAssumption DEF Raises
      <3> QED BY <1>2, <1>4, <1>6, <2>2, <3>1, <3>2, ClientsAssumption DEF Draws, Harm
    <2> QED BY <1>1, <1>2, <1>3, <1>4, <1>6, <2>1, <2>2, <2>3, RaiseEffect
  <1>7. CASE AddAccount(c) /\ ConversionFails(c)
    <2>1. c \notin readable /\ Raise(c, e, used') /\ faults' = faults
      BY <1>7 DEF ConversionFails, e
    <2>2. faults' \in 0..MaxFaults /\ faults <= faults'
      BY <2>1, ClientsAssumption DEF TypeOK
    <2>3. \E a \in accounts' : a.id = used' /\ ~a.reads
      BY <1>4, <1>7, <2>1
    <2>4. ASSUME Raises(c, e, used') PROVE Draws(c) /\ Harm(c)
      <3>1. id'[c] = NoId
        BY <1>2, <2>4 DEF Raises, TypeOK
      <3>2. used' \in reported'
        BY <1>1, <1>4, <1>7, <2>4, ClientsAssumption DEF Raises
      <3>3. Draws(c)
        BY <1>2, <1>4, <1>7, <3>1 DEF Draws
      <3>4. Harm(c)
        BY <1>2, <2>3, <3>2, ClientsAssumption DEF Harm
      <3> QED BY <3>3, <3>4
    <2> QED BY <1>1, <1>2, <1>3, <1>4, <1>7, <2>1, <2>2, <2>4, RaiseEffect
  <1>8. CASE Raise(c, e, NoId) /\ UNCHANGED <<accounts, used, faults>>
    <2>1. ASSUME Raises(c, e, NoId) PROVE Draws(c) /\ Harm(c)
      <3>1. id'[c] = NoId
        BY <1>2, <2>1 DEF Raises, TypeOK
      <3> QED BY <1>2, <1>8, <3>1, ClientsAssumption DEF Draws, Harm
    <2>2. /\ accounts' \subseteq Account /\ used' \in 0..MaxIds /\ used <= used'
          /\ faults' \in 0..MaxFaults /\ faults <= faults'
      BY <1>8, ClientsAssumption DEF TypeOK
    <2> QED BY <1>1, <1>2, <1>3, <1>8, <2>1, <2>2, RaiseEffect
  <1>9. CASE DatabaseFails(c, "Insert", NoId) /\ UNCHANGED <<accounts, used>>
    BY <1>2, <1>9, FailsEffect DEF Same
  <1> QED BY <1>5, <1>6, <1>8, <1>9, <1>7 DEF StoreAccount, e

LEMMA StoreSecretEffect ==
    ASSUME NEW c \in Clients, TypeOK, Standing(c), StoreSecret(c)
    PROVE  Effect(c)
  <1> DEFINE e == Err("Database", "Insert")
  <1>1. e \in Errors /\ Retryable(e) /\ Grave(e)
    BY DatabaseError
  <1> HIDE DEF e
  <1>2. /\ pc[c] = "store_secret" /\ phase[c] = "register"
        /\ UNCHANGED setup /\ accounts' = accounts /\ used' = used /\ found' = found
    BY DEF StoreSecret, At, Standing
  <1>3. /\ found' \in [Clients -> Ids \cup {NoId}] /\ accounts' \subseteq Account
        /\ used' \in 0..MaxIds /\ used <= used'
        /\ backend' \in Backends /\ unique' \in BOOLEAN /\ readable' \subseteq Clients
        /\ id[c] \in Ids /\ id[c] # NoId
    BY <1>2, ClientsAssumption DEF TypeOK, setup, Standing
  <1>4. ASSUME secrets' = secrets \cup {[id |-> id[c], of |-> c]}
        PROVE  /\ secrets' \subseteq Secret /\ OwnSecret(c)
               /\ \E t \in secrets' : t.id = id[c]
    <2> DEFINE s == [id |-> id[c], of |-> c]
    <2>1. s \in Secret /\ s.id = id[c]
      BY <1>3 DEF Secret
    <2>2. secrets' = secrets \cup {s}
      BY <1>4
    <2> HIDE DEF s
    <2> QED BY <1>2, <2>1, <2>2 DEF OwnSecret, TypeOK
  <1>5. CASE secrets' = secrets \cup {[id |-> id[c], of |-> c]} /\ SecretStored(c)
    <2>1. /\ phase'[c] = "login" /\ pc'[c] = "ready" /\ err'[c] = NoError /\ id' = id
          /\ Aside(c) /\ Quiet
      BY <1>2, <1>5 DEF SecretStored, Finish, After, Goto, Aside, TypeOK
    <2>2. TypeOK'
      BY <1>2, <1>3, <1>4, <1>5, <2>1, QuietFacts
      DEF TypeOK, SecretStored, Finish, After, Goto, Labels, Phases
    <2>3. Standing(c)' /\ Told(c)'
      BY <1>2, <1>3, <2>1 DEF Standing, Told, Refused, GaveUp
    <2>4. Draws(c) /\ Harm(c)
      BY <1>2, <1>4, <1>5, <2>1 DEF Draws, Harm, HasSecret
    <2> QED BY <1>2, <1>3, <1>4, <1>5, <2>1, <2>2, <2>3, <2>4, QuietFacts DEF Effect
  <1>6. CASE secrets' = secrets \cup {[id |-> id[c], of |-> c]} /\ AnswerLost(c, "Insert", id[c])
    <2>1. Spend /\ Raise(c, e, id[c])
      BY <1>6 DEF AnswerLost, e
    <2>2. faults' \in 0..MaxFaults /\ faults <= faults' /\ faults' = faults + 1
      BY <2>1, SpendFacts
    <2>3. ASSUME Raises(c, e, id[c]) PROVE Draws(c) /\ Harm(c)
      <3>1. id'[c] = NoId
        BY <1>2, <2>3 DEF Raises, TypeOK
      <3>2. id[c] \in reported'
        BY <1>1, <1>3, <2>3 DEF Raises
      <3> QED BY <1>2, <2>2, <3>1, <3>2 DEF Draws, Harm
    <2> QED BY <1>1, <1>2, <1>3, <1>4, <1>6, <2>1, <2>2, <2>3, RaiseEffect
  <1>7. CASE DatabaseFails(c, "Insert", id[c]) /\ UNCHANGED secrets
    BY <1>2, <1>7, FailsEffect DEF Same
  <1> QED BY <1>5, <1>6, <1>7 DEF StoreSecret

LEMMA QueryAccountEffect ==
    ASSUME NEW c \in Clients, TypeOK, Standing(c), QueryAccount(c)
    PROVE  Effect(c)
  <1> DEFINE e    == HiddenByLogin("repository_query")
             rows == {a \in accounts : a.user = UserOf[c]}
  <1>1. e \in Errors /\ Retryable(e)
    BY LoginError
  <1>2. /\ pc[c] = "query_account" /\ phase[c] = "login"
        /\ UNCHANGED setup /\ Same
    BY DEF QueryAccount, At, Standing, Same
  <1>3. /\ backend' \in Backends /\ unique' \in BOOLEAN /\ readable' \subseteq Clients
        /\ used <= used'
        /\ id[c] \in Ids \cup {NoId} /\ secrets' = secrets
    BY <1>2 DEF TypeOK, setup, Same
  <1>4. CASE /\ \E i \in IF rows = {} THEN {NoId} ELSE {a.id : a \in rows \ Unread} :
                   found' = [found EXCEPT ![c] = i]
             /\ Goto(c, "verify") /\ UNCHANGED <<phase, id, err>> /\ Quiet
    <2>1. \A a \in rows : a.id \in Ids
      BY DEF TypeOK, Account
    <2> HIDE DEF rows
    <2>2. PICK i \in (IF rows = {} THEN {NoId} ELSE {a.id : a \in rows \ Unread}) :
             found' = [found EXCEPT ![c] = i]
      BY <1>4
    <2>3. i \in Ids \cup {NoId} /\ found' \in [Clients -> Ids \cup {NoId}]
      BY <2>1, <2>2 DEF TypeOK
    <2>4. pc'[c] = "verify" /\ Aside(c)
      BY <1>4 DEF Goto, Aside, TypeOK
    <2>5. TypeOK'
      BY <1>2, <1>3, <1>4, <2>3, QuietFacts, SameFacts DEF TypeOK, Goto, Labels
    <2>6. Standing(c)' /\ Told(c)'
      BY <1>2, <1>3, <1>4, <2>4 DEF Standing, Told, Refused, GaveUp, Same
    <2>7. Harm(c)
      BY <1>2, <1>4, <2>4 DEF Harm, Between, HasSecret, Same
    <2> QED BY <1>2, <1>4, <2>4, <2>5, <2>6, <2>7, QuietFacts, SameFacts DEF Effect
  <1>5. CASE (Spend \/ UNCHANGED faults) /\ Raise(c, e, id[c]) /\ UNCHANGED found
    <2>1. faults' \in 0..MaxFaults /\ faults <= faults'
      BY <1>5, SpendFacts, ClientsAssumption DEF TypeOK
    <2>2. ASSUME Raises(c, e, id[c]) PROVE Draws(c) /\ Harm(c)
      <3>1. id'[c] = id[c]
        BY <1>2, <2>2 DEF Raises, TypeOK
      <3> QED BY <1>2, <3>1, SameFacts DEF Harm, Between, HasSecret, Same
    <2>3. /\ found' \in [Clients -> Ids \cup {NoId}] /\ OwnSecret(c)
          /\ accounts' \subseteq Account /\ secrets' \subseteq Secret /\ used' \in 0..MaxIds
      BY <1>2, <1>5 DEF TypeOK, Same, OwnSecret
    <2> HIDE DEF e
    <2> QED BY <1>1, <1>2, <1>3, <1>5, <2>1, <2>2, <2>3, RaiseEffect
  <1> QED BY <1>4, <1>5 DEF QueryAccount

LEMMA VerifyEffect ==
    ASSUME NEW c \in Clients, TypeOK, Standing(c), Verify(c)
    PROVE  Effect(c)
  <1>1. /\ pc[c] = "verify" /\ phase[c] = "login"
        /\ UNCHANGED setup /\ Same /\ found' = [found EXCEPT ![c] = NoId]
    BY DEF Verify, At, Standing, Same
  <1>2. /\ backend' \in Backends /\ unique' \in BOOLEAN /\ readable' \subseteq Clients
        /\ used <= used'
        /\ id[c] \in Ids \cup {NoId} /\ secrets' = secrets
        /\ found' \in [Clients -> Ids \cup {NoId}] /\ OwnSecret(c)
        /\ accounts' \subseteq Account /\ secrets' \subseteq Secret /\ used' \in 0..MaxIds
    BY <1>1 DEF TypeOK, setup, Same, OwnSecret
  <1>3. CASE Finish(c) /\ Quiet /\ UNCHANGED id
    <2>1. /\ phase'[c] = "delete" /\ pc'[c] = "ready" /\ err'[c] = NoError
          /\ Aside(c)
      BY <1>1, <1>3 DEF Finish, After, Goto, Aside, TypeOK
    <2>2. TypeOK'
      BY <1>1, <1>2, <1>3, QuietFacts DEF TypeOK, Finish, After, Goto, Labels, Phases
    <2>3. Standing(c)' /\ Told(c)'
      BY <1>1, <1>2, <1>3, <2>1 DEF Standing, Told, Refused, GaveUp, Same
    <2>4. Harm(c)
      BY <1>1, <1>3, <2>1 DEF Harm, Between, HasSecret, Same
    <2> QED BY <1>1, <1>3, <2>1, <2>2, <2>3, <2>4, QuietFacts, SameFacts DEF Effect
  <1>4. ASSUME NEW k \in {"invalid_credentials", "credential_verification"},
               Raise(c, HiddenByLogin(k), id[c]),
               faults' \in 0..MaxFaults, faults <= faults'
        PROVE  Effect(c)
    <2> DEFINE e == HiddenByLogin(k)
    <2>1. e \in Errors /\ Retryable(e)
      BY LoginError
    <2>2. ASSUME Raises(c, e, id[c]) PROVE Draws(c) /\ Harm(c)
      <3>1. id'[c] = id[c]
        BY <1>1, <2>2 DEF Raises, TypeOK
      <3> QED BY <1>1, <3>1, SameFacts DEF Harm, Between, HasSecret, Same
    <2>3. Raise(c, e, id[c])
      BY <1>4
    <2> HIDE DEF e
    <2> QED BY <1>1, <1>2, <1>4, <2>1, <2>2, <2>3, RaiseEffect
  <1>5. CASE Raise(c, HiddenByLogin("invalid_credentials"), id[c]) /\ UNCHANGED faults
    <2>1. faults' \in 0..MaxFaults /\ faults <= faults'
      BY <1>5, ClientsAssumption DEF TypeOK
    <2> QED BY <1>4, <1>5, <2>1
  <1>6. CASE Spend /\ Raise(c, HiddenByLogin("credential_verification"), id[c])
    BY <1>4, <1>6, SpendFacts
  <1> QED BY <1>3, <1>5, <1>6 DEF Verify

LEMMA DeleteSecretEffect ==
    ASSUME NEW c \in Clients, TypeOK, Standing(c), DeleteSecret(c)
    PROVE  Effect(c)
  <1> DEFINE e == Err("Database", "Delete")
             f == Err("Accounts", "Delete")
             k == IF backend = "seaorm" THEN "Query" ELSE "Delete"
  <1>1. /\ e \in Errors /\ Retryable(e) /\ Grave(e)
        /\ f \in Errors /\ k \in {"Insert", "Delete", "Query"}
    BY DatabaseError, FinalErrors
  <1> HIDE DEF e, f, k
  <1>2. /\ pc[c] = "delete_secret" /\ phase[c] = "delete"
        /\ UNCHANGED setup /\ accounts' = accounts /\ used' = used /\ found' = found
    BY DEF DeleteSecret, At, Standing
  <1>3. /\ found' \in [Clients -> Ids \cup {NoId}] /\ accounts' \subseteq Account
        /\ used' \in 0..MaxIds /\ used <= used'
        /\ backend' \in Backends /\ unique' \in BOOLEAN /\ readable' \subseteq Clients
        /\ id[c] \in Ids /\ id[c] # NoId
    BY <1>2, ClientsAssumption DEF TypeOK, setup, Standing
  <1>4. ASSUME secrets' = {s \in secrets : s.id # id[c]}
        PROVE  secrets' \subseteq Secret /\ OwnSecret(c)
    BY <1>4 DEF OwnSecret, TypeOK
  <1>5. CASE /\ secrets' = {s \in secrets : s.id # id[c]}
             /\ Goto(c, "delete_account") /\ UNCHANGED <<phase, id, err>> /\ Quiet
    <2>1. pc'[c] = "delete_account" /\ Aside(c)
      BY <1>5 DEF Goto, Aside, TypeOK
    <2>2. TypeOK'
      BY <1>2, <1>3, <1>4, <1>5, QuietFacts DEF TypeOK, Goto, Labels
    <2>3. Standing(c)' /\ Told(c)'
      BY <1>2, <1>3, <1>5, <2>1 DEF Standing, Told, Refused, GaveUp
    <2>4. Draws(c) /\ Harm(c)
      BY <1>2, <1>5, <2>1 DEF Draws, Harm, Between
    <2> QED BY <1>4, <1>5, <2>1, <2>2, <2>3, <2>4, QuietFacts DEF Effect
  <1>6. CASE secrets' = {s \in secrets : s.id # id[c]} /\ AnswerLost(c, "Delete", id[c])
    <2>1. Spend /\ Raise(c, e, id[c])
      BY <1>6 DEF AnswerLost, e
    <2>2. faults' \in 0..MaxFaults /\ faults <= faults' /\ faults' = faults + 1
      BY <2>1, SpendFacts
    <2>3. ASSUME Raises(c, e, id[c]) PROVE Draws(c) /\ Harm(c)
      <3>1. id'[c] = id[c]
        BY <1>2, <2>3 DEF Raises, TypeOK
      <3>2. id[c] \in reported'
        BY <1>1, <1>3, <2>3 DEF Raises
      <3> QED BY <1>2, <2>2, <3>1, <3>2 DEF Draws, Harm
    <2> QED BY <1>1, <1>2, <1>3, <1>4, <1>6, <2>1, <2>2, <2>3, RaiseEffect
  <1>7. CASE ~HasSecret(id[c]) /\ Raise(c, f, id[c]) /\ UNCHANGED <<secrets, faults>>
    <2>1. ASSUME Raises(c, f, id[c]) PROVE Draws(c) /\ Harm(c) /\ Stuck(c)'
      <3>1. id'[c] = id[c] /\ phase'[c] = "delete"
        BY <1>2, <2>1 DEF Raises, TypeOK
      <3> QED BY <1>2, <1>7, <3>1 DEF Draws, Harm, Between, Stuck, HasSecret
    <2>2. faults' \in 0..MaxFaults /\ faults <= faults' /\ secrets' \subseteq Secret /\ OwnSecret(c)
      BY <1>7, ClientsAssumption DEF TypeOK, OwnSecret
    <2> QED BY <1>1, <1>2, <1>3, <1>7, <2>1, <2>2, RaiseEffect
  <1>8. CASE DatabaseFails(c, k, id[c]) /\ UNCHANGED secrets
    BY <1>1, <1>2, <1>8, FailsEffect DEF Same
  <1> QED BY <1>5, <1>6, <1>7, <1>8 DEF DeleteSecret, f, k

LEMMA DeleteAccountEffect ==
    ASSUME NEW c \in Clients, TypeOK, Standing(c), DeleteAccount(c)
    PROVE  Effect(c)
  <1> DEFINE e == Err("Database", "Delete")
             k == IF backend = "seaorm" THEN "Query" ELSE "Delete"
  <1>1. /\ e \in Errors /\ Retryable(e) /\ Grave(e)
        /\ k \in {"Insert", "Delete", "Query"}
    BY DatabaseError
  <1> HIDE DEF e, k
  <1>2. /\ pc[c] = "delete_account" /\ phase[c] = "delete"
        /\ UNCHANGED setup /\ secrets' = secrets /\ used' = used /\ found' = found
    BY DEF DeleteAccount, At, Standing
  <1>3. /\ found' \in [Clients -> Ids \cup {NoId}] /\ secrets' \subseteq Secret /\ OwnSecret(c)
        /\ used' \in 0..MaxIds /\ used <= used'
        /\ backend' \in Backends /\ unique' \in BOOLEAN /\ readable' \subseteq Clients
        /\ id[c] \in Ids /\ id[c] # NoId
    BY <1>2, ClientsAssumption DEF TypeOK, setup, Standing, OwnSecret
  <1>4. ASSUME accounts' = {a \in accounts : a.id # id[c]},
               id'[c] \in {id[c], NoId}
        PROVE  accounts' \subseteq Account /\ Draws(c) /\ Harm(c)
    BY <1>2, <1>4 DEF Draws, Harm, TypeOK
  <1>5. CASE /\ accounts' = {a \in accounts : a.id # id[c]}
             /\ Finish(c) /\ UNCHANGED id /\ Quiet
    <2>1. /\ phase'[c] = "end" /\ pc'[c] = "ready" /\ err'[c] = NoError
          /\ Aside(c)
      BY <1>2, <1>5 DEF Finish, After, Goto, Aside, TypeOK
    <2>2. TypeOK'
      BY <1>2, <1>3, <1>4, <1>5, QuietFacts DEF TypeOK, Finish, After, Goto, Labels, Phases
    <2>3. Standing(c)' /\ Told(c)'
      BY <1>2, <1>3, <1>5, <2>1 DEF Standing, Told, Refused, GaveUp
    <2> QED BY <1>3, <1>4, <1>5, <2>1, <2>2, <2>3, QuietFacts DEF Effect
  <1>6. CASE accounts' = {a \in accounts : a.id # id[c]} /\ AnswerLost(c, "Delete", id[c])
    <2>1. Spend /\ Raise(c, e, id[c])
      BY <1>6 DEF AnswerLost, e
    <2>2. faults' \in 0..MaxFaults /\ faults <= faults'
      BY <2>1, SpendFacts
    <2>3. ASSUME Raises(c, e, id[c]) PROVE Draws(c) /\ Harm(c)
      <3>1. id'[c] = id[c]
        BY <1>2, <2>3 DEF Raises, TypeOK
      <3> QED BY <1>4, <1>6, <3>1
    <2>4. accounts' \subseteq Account
      BY <1>6 DEF TypeOK
    <2> QED BY <1>1, <1>2, <1>3, <1>6, <2>1, <2>2, <2>3, <2>4, RaiseEffect
  <1>7. CASE DatabaseFails(c, k, id[c]) /\ UNCHANGED accounts
    BY <1>1, <1>2, <1>7, FailsEffect DEF Same
  <1> QED BY <1>5, <1>6, <1>7 DEF DeleteAccount, k

LEMMA MoveEffect ==
    ASSUME TypeOK, NEW c \in Clients, Standing(c), Told(c), Move(c)
    PROVE  Effect(c)
  BY StartEffect, HeedEffect, HangUpEffect, HashFailsEffect, StoreAccountEffect,
     StoreSecretEffect, QueryAccountEffect, VerifyEffect, DeleteSecretEffect,
     DeleteAccountEffect DEF Move, Access

-----------------------------------------------------------------------------
(* What follows for all clients *)

LEMMA MoveKeepsClients ==
    ASSUME IInv, NEW c \in Clients, Effect(c)
    PROVE  (\A d \in Clients : Standing(d) /\ Told(d))' /\ OneOwner'
  <1> USE DEF IInv, Effect
  <1>1. /\ used \in Nat /\ used' \in Nat /\ used <= used'
        /\ \A d \in Clients : id[d] \in Ids \cup {NoId} /\ id'[d] \in Ids \cup {NoId}
    BY ClientsAssumption DEF TypeOK, Draws
  <1>2. ASSUME NEW d \in Clients \ {c} PROVE Standing(d)' /\ Told(d)'
    <2>1. Standing(d)'
      BY <1>1 DEF Aside, Standing, Ids
    <2>2. ASSUME phase[d] = "delete", ~HasSecret(id[d]) PROVE ~HasSecret(id[d])'
      <3>1. id[d] # NoId /\ id'[d] = id[d]
        BY <2>2 DEF Standing, Aside
      <3>2. id[d] # id[c]
        BY <3>1 DEF OneOwner
      <3> QED BY <2>2, <3>1, <3>2 DEF OwnSecret, HasSecret
    <2>3. Told(d)'
      BY <2>2 DEF Aside, Told, Refused, GaveUp, Stuck
    <2> QED BY <2>1, <2>3
  <1>3. ASSUME NEW d \in Clients \ {c}, id'[d] # NoId PROVE id'[d] # id'[c]
    <2>1. id'[d] = id[d] /\ id[d] <= used /\ id[d] # id[c]
      BY <1>3 DEF Aside, Standing, OneOwner
    <2> QED BY <1>1, <1>3, <2>1 DEF Draws, Ids
  <1>4. OneOwner'
    <2> SUFFICES ASSUME NEW d \in Clients, NEW b \in Clients, id'[d] = id'[b], id'[d] # NoId,
                        d # b
                 PROVE  FALSE
      BY DEF OneOwner
    <2>1. CASE d = c
      BY <1>3, <2>1
    <2>2. CASE b = c
      BY <1>3, <2>2
    <2>3. CASE d # c /\ b # c
      BY <2>3 DEF Aside, OneOwner
    <2> QED BY <2>1, <2>2, <2>3
  <1> QED BY <1>2, <1>4

LEMMA MoveKeepsDrawn ==
    ASSUME IInv, NEW c \in Clients, Effect(c)
    PROVE  Drawn'
  <1> USE DEF IInv, Effect
  <1>1. used \in Nat /\ \A a \in accounts : a.id \in Nat
    BY ClientsAssumption DEF TypeOK, Account, Ids
  <1>2. CASE used' = used /\ accounts' \subseteq accounts
    BY <1>2, FS_Subset DEF Drawn
  <1>3. CASE /\ used' = used + 1
             /\ \E x \in Account : x.id = used' /\ accounts' = accounts \cup {x}
    <2>1. PICK x \in Account : x.id = used' /\ accounts' = accounts \cup {x}
      BY <1>3
    <2>2. IsFiniteSet(accounts')
      BY <2>1, FS_AddElement DEF Drawn
    <2>3. \A a \in accounts' : a.id <= used'
      BY <1>1, <1>3, <2>1 DEF Drawn
    <2>4. \A a \in accounts : a.id # used'
      BY <1>1, <1>3 DEF Drawn
    <2>5. \A a, b \in accounts' : a.id = b.id => a = b
      BY <2>1, <2>4 DEF Drawn
    <2> QED BY <2>2, <2>3, <2>5 DEF Drawn
  <1> QED BY <1>2, <1>3 DEF Draws

\* A step damages the account of its client or the one that it adds; this is
\* told of, and costs a fault unless the row cannot be read back.
LEMMA NewDamage ==
    ASSUME IInv, NEW c \in Clients, Effect(c), NEW x \in Damaged', x \notin Damaged
    PROVE  /\ faults' = faults + 1 \/ x \in Unread'
           /\ x.id \in reported' \cup cut'
           /\ x.id = IF used' = used THEN id[c] ELSE used'
  <1> USE DEF IInv, Effect
  <1>1. x \in accounts' /\ x \in Account /\ x.id \in Ids /\ ~InOrder(x)'
    BY DEF Damaged, TypeOK, Account
  <1>2. ~(id'[c] = x.id /\ (HasSecret(x.id) \/ Between(c))')
    BY <1>1 DEF InOrder, Between
  <1>3. \A a \in accounts' : a.id = x.id /\ ~a.reads => x \in Unread'
    BY <1>1, MoveKeepsDrawn DEF Drawn, Unread
  <1>4. CASE x \in accounts
    <2>1. PICK d \in Clients : /\ id[d] = x.id
                               /\ HasSecret(x.id) \/ pc[d] \in {"store_secret", "delete_account"}
      BY <1>4 DEF Damaged, InOrder
    <2>2. d = c
      <3> SUFFICES ASSUME d # c PROVE FALSE
        OBVIOUS
      <3>1. id'[d] = x.id /\ pc'[d] = pc[d]
        BY <2>1 DEF Aside
      <3>2. x.id # id[c]
        BY <1>1, <2>1, ClientsAssumption DEF OneOwner
      <3>3. HasSecret(x.id) => \E s \in secrets' : s.id = x.id
        BY <3>2 DEF OwnSecret, HasSecret
      <3> QED BY <1>1, <2>1, <3>1, <3>3 DEF InOrder, HasSecret
    <2>3. (faults' = faults + 1 \/ x \in Unread') /\ x.id \in reported' \cup cut'
      BY <1>1, <1>2, <1>3, <2>1, <2>2 DEF Harm, Between
    <2>4. used' = used
      BY <1>1, <2>1, <2>2, ClientsAssumption DEF Draws
    <2> QED BY <2>1, <2>2, <2>3, <2>4
  <1>5. CASE x \notin accounts
    <2>1. used' # used /\ x.id = used'
      BY <1>1, <1>5, ClientsAssumption DEF Draws, TypeOK
    <2> QED BY <1>1, <1>2, <1>3, <2>1 DEF Harm
  <1> QED BY <1>4, <1>5

LEMMA MoveKeepsDamage ==
    ASSUME IInv, NEW c \in Clients, Effect(c)
    PROVE  DamageIsReported' /\ DamageCostsFaults'
  <1> USE DEF IInv, Effect
  <1> DEFINE W == Damaged \ Unread
  <1>1. Drawn'
    BY MoveKeepsDrawn
  <1>2. DamageIsReported'
    BY NewDamage DEF DamageIsReported
  <1>3. IsFiniteSet(W) /\ Cardinality(W) \in Nat
    BY FS_Subset, FS_CardinalityType DEF Drawn, Damaged
  <1>4. IsFiniteSet(W') /\ Cardinality(W') \in Nat
    BY <1>1, FS_Subset, FS_CardinalityType DEF Drawn, Damaged
  <1>5. faults \in Nat /\ faults' \in Nat
    BY ClientsAssumption DEF TypeOK
  <1>6. \A x \in W' : x \in accounts' /\ (x \notin W => x \in Damaged' /\ x \notin Damaged)
    BY DEF Damaged, Unread
  <1>7. \A x \in W' : x \notin W =>
           faults' = faults + 1 /\ x.id = IF used' = used THEN id[c] ELSE used'
    BY <1>6, NewDamage
  <1>8. DamageCostsFaults <=> Cardinality(W) <= faults
    BY DEF DamageCostsFaults
  <1>9. DamageCostsFaults' <=> Cardinality(W') <= faults'
    BY DEF DamageCostsFaults
  <1>10. \A a, b \in accounts' : a.id = b.id => a = b
    BY <1>1 DEF Drawn
  <1> HIDE DEF W
  <1>11. CASE W' \subseteq W
    <2>1. Cardinality(W') <= Cardinality(W)
      BY <1>3, <1>11, FS_Subset
    <2> QED BY <1>2, <1>3, <1>4, <1>5, <1>8, <1>9, <2>1
  <1>12. CASE ~(W' \subseteq W)
    <2>1. PICK x \in W' : x \notin W
      BY <1>12
    <2>2. \A y \in W' : y \notin W => y = x
      BY <1>6, <1>7, <1>10, <2>1
    <2>3. W' \subseteq W \cup {x}
      BY <2>2
    <2>4. IsFiniteSet(W \cup {x}) /\ Cardinality(W \cup {x}) = Cardinality(W) + 1
      BY <1>3, <2>1, FS_AddElement
    <2>5. Cardinality(W') <= Cardinality(W) + 1
      BY <2>3, <2>4, FS_Subset
    <2> QED BY <1>2, <1>3, <1>4, <1>5, <1>7, <1>8, <1>9, <2>1, <2>5
  <1> QED BY <1>11, <1>12

-----------------------------------------------------------------------------
(* The theorems *)

LEMMA InitInv == Init => IInv
  <1> SUFFICES ASSUME Init PROVE IInv
    OBVIOUS
  <1> USE DEF Init
  <1>1. TypeOK
    BY ClientsAssumption DEF TypeOK, Phases, Labels
  <1>2. \A c \in Clients : Standing(c) /\ Told(c)
    BY DEF Standing, Told, Refused, GaveUp
  <1>3. OneOwner
    BY DEF OneOwner
  <1>4. Drawn
    BY FS_EmptySet DEF Drawn
  <1>5. Damaged = {}
    BY DEF Damaged
  <1>6. DamageCostsFaults /\ DamageIsReported
    BY <1>5, FS_EmptySet DEF DamageCostsFaults, Unread, DamageIsReported
  <1> QED BY <1>1, <1>2, <1>3, <1>4, <1>6 DEF IInv

LEMMA StepInv == IInv /\ [Next]_vars => IInv'
  <1> SUFFICES ASSUME IInv, [Next]_vars PROVE IInv'
    OBVIOUS
  <1>1. CASE Next
    <2>1. PICK c \in Clients : Move(c)
      BY <1>1 DEF Next, Move
    <2>2. Effect(c)
      BY <2>1, MoveEffect DEF IInv
    <2> QED BY <2>2, MoveKeepsClients, MoveKeepsDrawn, MoveKeepsDamage DEF IInv, Effect
  <1>2. CASE UNCHANGED vars
    BY <1>2 DEF vars, IInv, TypeOK, Standing, Told, Refused, GaveUp, Stuck, HasSecret,
                OneOwner, Drawn, DamageCostsFaults, DamageIsReported, Damaged, Unread, InOrder,
                setup
  <1> QED BY <1>1, <1>2

\* The invariant holds at all times.
THEOREM Invariance == Spec => []IInv
  BY InitInv, StepInv, PTL DEF Spec

\* Every variable keeps its type, for all clients, users and bounds.
THEOREM TypeCorrect == Spec => []TypeOK
  <1>1. IInv => TypeOK
    BY DEF IInv
  <1> QED BY <1>1, Invariance, PTL

\* However many clients repeat their calls as often as they may, every account
\* left without its secret or its owner cost a failure of its own
\* (accounts/account_insert.rs:207-235, account_delete.rs:67-128), but for the
\* rows that SeaORM inserts and cannot read back, of which each repeated call
\* may leave one more (sea_orm/account.rs:97-104).
THEOREM RetriesPileUpNothing == Spec => []DamageCostsFaults
  <1>1. IInv => DamageCostsFaults
    BY DEF IInv
  <1> QED BY <1>1, Invariance, PTL

\* Every such account is one that a grave error was raised about, or whose
\* caller hung up.
THEOREM DamageIsTold == Spec => []DamageIsReported
  <1>1. IInv => DamageIsReported
    BY DEF IInv
  <1> QED BY <1>1, Invariance, PTL

\* Who is told not to retry could not succeed by retrying.
THEOREM RefusalsAreFinal == Spec => []GivesUpOnlyWhenStuck
  <1>1. IInv => GivesUpOnlyWhenStuck
    BY DEF IInv, GivesUpOnlyWhenStuck, Told, Stuck
  <1> QED BY <1>1, Invariance, PTL

-----------------------------------------------------------------------------
(* The advice of the errors *)

\* An error that may be retried does not say never; one that may not says what else.
Coherent(advice) ==
    IF advice.retryable THEN "never" \notin advice.hints
                        ELSE advice.hints \cap {"fix", "support", "wait"} # {}

\* What Tells tells.
LEMMA Telling ==
    ASSUME NEW s, NEW r, NEW h
    PROVE  Tells(s, r, h).retryable = r /\ Tells(s, r, h).hints = h
  BY DEF Tells

\* Category by category, no error that may be retried advises against it, and
\* one that may not be advises something else.
LEMMA EveryCategory ==
    ASSUME NEW e
    PROVE  /\ Coherent(AccountsAdvice(e)) /\ Coherent(AuthnAdvice(e)) /\ Coherent(AuthzAdvice(e))
           /\ Coherent(PermissionsAdvice(e)) /\ Coherent(CodecsAdvice(e)) /\ Coherent(JwtAdvice(e))
           /\ Coherent(DatabaseAdvice(e)) /\ Coherent(HashingAdvice(e)) /\ Coherent(SecretsAdvice(e))
           /\ Coherent(OAuth2Advice(e))
  <1>1. Coherent(AccountsAdvice(e)) /\ Coherent(AuthnAdvice(e))
    BY DEF Coherent, AccountsAdvice, AuthnAdvice, Tells
  <1>2. Coherent(AuthzAdvice(e)) /\ Coherent(PermissionsAdvice(e))
    BY DEF Coherent, AuthzAdvice, PermissionsAdvice, Tells
  <1>3. Coherent(CodecsAdvice(e)) /\ Coherent(JwtAdvice(e))
    BY DEF Coherent, CodecsAdvice, JwtAdvice, Tells
  <1>4. Coherent(DatabaseAdvice(e))
    BY DEF Coherent, DatabaseAdvice, Tells
  <1>5. Coherent(HashingAdvice(e)) /\ Coherent(SecretsAdvice(e))
    BY DEF Coherent, HashingAdvice, SecretsAdvice, Tells
  <1>6. Coherent(OAuth2Advice(e))
    BY DEF Coherent, OAuth2Advice, Tells
  <1> QED BY <1>1, <1>2, <1>3, <1>4, <1>5, <1>6

\* A missing row and a violated constraint are for the caller to mend; of the rest
\* only what concerns secrets is final.
LEMMA RepositoriesCoherent ==
    ASSUME NEW e \in RepositoriesErrors
    PROVE  Coherent(RepositoriesAdvice(e))
  <1>1. /\ RepositoriesAdvice(e).hints = RepositoryHints(e)
        /\ RepositoriesAdvice(e).retryable
              <=> e.kind \notin {"NotFound", "Constraint"} /\ e.repo # "Secret"
    BY DEF RepositoriesAdvice, Tells
  <1>2. CASE e.kind = "NotFound" \/ e.kind = "Constraint"
    <2>1. "fix" \in RepositoryHints(e)
      BY <1>2 DEF RepositoryHints
    <2> QED BY <1>1, <1>2, <2>1 DEF Coherent
  <1>3. CASE e.kind \notin {"NotFound", "Constraint"}
    <2>1. RepositoryHints(e) =
             {"support", IF e.repo = "Secret" THEN "never" ELSE "again"}
                \cup (IF e.repo = "Account" /\ e.kind = "Insert" THEN {"fix"} ELSE {})
      BY <1>3 DEF RepositoryHints
    <2>2. "support" \in RepositoryHints(e) /\ ("never" \in RepositoryHints(e) => e.repo = "Secret")
      BY <2>1
    <2> QED BY <1>1, <1>3, <2>2 DEF Coherent
  <1> QED BY <1>2, <1>3

\* Each error is advised on by its category.
LEMMA AdviceCoherent ==
    ASSUME NEW e \in Errors \ LoginErrors
    PROVE  Coherent(AdviceOn(e))
  <1>1. CASE e \in RepositoriesErrors
    <2>1. e.category = "Repositories"
      BY <1>1 DEF RepositoriesErrors
    <2>2. AdviceOn(e) = RepositoriesAdvice(e)
      BY <2>1 DEF AdviceOn
    <2> QED BY <1>1, <2>2, RepositoriesCoherent
  <1>2. CASE e \notin RepositoriesErrors
    <2>1. e.category \in {"Accounts", "Authn", "Authz", "Permissions", "Codecs", "Jwt", "Database",
                          "Hashing", "Secrets", "OAuth2"}
      BY <1>2 DEF Errors, DatabaseErrors, HashingErrors, OAuth2Errors, Err
    <2>2. \/ AdviceOn(e) = AccountsAdvice(e) \/ AdviceOn(e) = AuthnAdvice(e)
          \/ AdviceOn(e) = AuthzAdvice(e) \/ AdviceOn(e) = PermissionsAdvice(e)
          \/ AdviceOn(e) = CodecsAdvice(e) \/ AdviceOn(e) = JwtAdvice(e)
          \/ AdviceOn(e) = DatabaseAdvice(e) \/ AdviceOn(e) = HashingAdvice(e)
          \/ AdviceOn(e) = SecretsAdvice(e) \/ AdviceOn(e) = OAuth2Advice(e)
      BY <2>1 DEF AdviceOn
    <2> QED BY <2>2, EveryCategory
  <1> QED BY <1>1, <1>2

\* The errors of a database that clients meet are such as may be retried: none
\* of them is of a migration or a backup.
MayRetry == \A c \in Clients : err[c] \in DatabaseErrors => Retryable(err[c])

\* What clients are told otherwise is no error of a database.
LEMMA OtherErrors ==
    /\ NoError \notin DatabaseErrors
    /\ \A k : HiddenByLogin(k) \notin DatabaseErrors
    /\ Err("Accounts", "Delete") \notin DatabaseErrors /\ Err("Secrets", "Hash") \notin DatabaseErrors
  <1>1. NoError \notin DatabaseErrors
    BY ClientsAssumption DEF ClientsAssumption, Errors
  <1>2. \A e \in DatabaseErrors : e.category = "Database"
    BY DEF DatabaseErrors, Err
  <1> QED BY <1>1, <1>2, ErrFields DEF HiddenByLogin

\* Every step raises such an error, if one.
LEMMA MayRetryStep ==
    ASSUME TypeOK, MayRetry, [Next]_vars
    PROVE  MayRetry'
  <1> DEFINE Good(e) == e \in DatabaseErrors => Retryable(e)
  <1>1. \A k \in {"Insert", "Delete", "Query", "Connect"} : Good(Err("Database", k))
    BY DatabaseError
  <1>2. /\ Good(NoError) /\ Good(Err("Accounts", "Delete")) /\ Good(Err("Secrets", "Hash"))
        /\ \A k : Good(HiddenByLogin(k))
    BY OtherErrors
  <1>3. \A c \in Clients : Good(err[c])
    BY DEF MayRetry
  <1>4. \A k \in {"Insert", "Delete", "Query"} : \A e \in Broken(k) : Good(e)
    BY <1>1 DEF Broken
  <1> HIDE DEF Good
  <1>5. ASSUME NEW c \in Clients, Start(c) \/ Heed(c) \/ HangUp(c) \/ HashFails(c) \/ Access(c)
        PROVE  \A d \in Clients : Good(err'[d])
    <2> SUFFICES ASSUME NEW e, Good(e), err' = err \/ err' = [err EXCEPT ![c] = e]
                 PROVE  \A d \in Clients : Good(err'[d])
      <3> SUFFICES \E e : Good(e) /\ (err' = err \/ err' = [err EXCEPT ![c] = e])
        OBVIOUS
      <3>1. CASE Start(c) \/ Heed(c) \/ HangUp(c)
        BY <1>2, <3>1 DEF Start, Heed, HangUp
      <3>2. CASE HashFails(c)
        BY <1>2, <3>2 DEF HashFails, Raise
      <3>3. CASE StoreAccount(c)
        BY <1>1, <1>2, <1>4, <3>3 DEF StoreAccount, ConversionFails, DatabaseFails, AnswerLost, Raise
      <3>4. CASE StoreSecret(c)
        BY <1>1, <1>2, <1>4, <3>4
           DEF StoreSecret, SecretStored, Finish, DatabaseFails, AnswerLost, Raise
      <3>5. CASE QueryAccount(c) \/ Verify(c)
        BY <1>2, <3>5 DEF QueryAccount, Verify, Finish, Raise
      <3>6. CASE DeleteSecret(c) \/ DeleteAccount(c)
        BY <1>1, <1>2, <1>4, <3>6
           DEF DeleteSecret, DeleteAccount, Finish, DatabaseFails, AnswerLost, Raise
      <3> QED BY <1>5, <3>1, <3>2, <3>3, <3>4, <3>5, <3>6 DEF Access
    <2> QED BY <1>3 DEF TypeOK
  <1>6. CASE UNCHANGED vars
    BY <1>3, <1>6 DEF vars, MayRetry, Good
  <1> QED BY <1>5, <1>6 DEF Next, MayRetry, Good

\* No error that may be retried advises against it, and hiding an error of a
\* database behind one of the service keeps the advice on retrying, whichever
\* errors of databases the services meet.
THEOREM AdviceHolds == Spec => []AdviceIsCoherent
  <1>1. Init => MayRetry
    BY OtherErrors DEF Init, MayRetry
  <1>2. TypeOK /\ MayRetry /\ [Next]_vars => MayRetry'
    BY MayRetryStep
  <1>3. MayRetry => AdviceIsCoherent
    <2> SUFFICES ASSUME MayRetry PROVE AdviceIsCoherent
      OBVIOUS
    <2>1. Retryable(HiddenByLogin("repository_query"))
      BY LoginError
    <2>2. Retryable(HiddenByOAuth2)
      <3>1. ASSUME NEW e, e.category = "OAuth2", e.kind = "AccountPersistence" PROVE Retryable(e)
        BY <3>1 DEF Retryable, AdviceOn, OAuth2Advice, Tells
      <3> QED BY <3>1, ErrFields DEF HiddenByOAuth2
    <2>3. \A e \in Errors \ LoginErrors : Coherent(AdviceOn(e))
      BY AdviceCoherent
    <2> QED BY <2>1, <2>2, <2>3 DEF MayRetry, AdviceIsCoherent, Coherent, Retryable
  <1> QED BY <1>1, <1>2, <1>3, TypeCorrect, PTL DEF Spec
=============================================================================
