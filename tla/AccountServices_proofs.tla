------------------------ MODULE AccountServices_proofs ------------------------
(***************************************************************************)
(* Proofs about AccountServices for every set of calls, users, passwords,  *)
(* roles, seeds and backends.                                              *)
(***************************************************************************)
EXTENDS AccountServices, TLAPS

-----------------------------------------------------------------------------
(* The first inductive invariant *)

\* What the label of a call says of the call's other components.
ControlOf(c) ==
    /\ pc[c] = "idle" => op[c] = "none" /\ acc[c] = NoAccount
    /\ pc[c] # "done" => res[c] = "none"
    /\ pc[c] = "store_account" => op[c] = "insert"
    /\ pc[c] \in {"store_secret", "put_secret"} => op[c] \in {"insert", "delete"}
    /\ pc[c] \in {"delete_secret", "drop_secret", "delete_account", "drop_account"} =>
          op[c] = "delete"
    /\ pc[c] \in {"update_account", "write_account"} => op[c] = "set_roles"
    /\ pc[c] \in {"update_secret", "write_secret"} => op[c] = "set_password"
    /\ pc[c] \in {"query_account", "verify"} => op[c] = "login"
    /\ pc[c] = "query_account" => acc[c] = NoAccount /\ who[c] \in Users
    /\ pc[c] \in {"store_account", "store_secret", "put_secret", "drop_secret",
                  "delete_account", "drop_account", "write_secret"} => sec[c] # NoSecret
    /\ pc[c] \in {"drop_secret", "drop_account", "write_account", "write_secret"} => SelectsFirst
    /\ pc[c] = "put_secret" => LooksFirst
    /\ op[c] \notin {"none", "login"} => acc[c] # NoAccount
    /\ op[c] = "insert" => acc[c].id = c
    /\ op[c] = "login" /\ res[c] = "ok" => acc[c] # NoAccount

Control == \A c \in Calls : ControlOf(c)

\* The accounts that an in-memory update has put in a second time, or back.
RevivedIds == {acc[c].id : c \in {e \in Calls :
                  op[e] = "set_roles" /\ acc[e] # NoAccount /\ res[e] = "upserted"}}

\* An entry is keyed by the account's id; one that is keyed by its user id
\* comes from an in-memory repository built from a list, and has a second
\* entry under its id only after an update.
Keyed ==
    /\ \A k \in Ids : Stored(k) => accounts[k].id = k
    /\ \A k \in Users : Stored(k) =>
          backend = "memory" /\ (Stored(accounts[k].id) => accounts[k].id \in RevivedIds)

\* The id of a call that has not stored its account occurs nowhere.
BornIds == SeedIds \cup {i \in Calls : pc[i] \notin {"idle", "store_account"}}

Fresh ==
    /\ \A k \in Keys : Stored(k) => accounts[k].id \in BornIds
    /\ \A c \in Calls : op[c] # "insert" /\ acc[c] # NoAccount => acc[c].id \in BornIds

\* A deleted account is stored nowhere, unless an update put it back.
Gone ==
    \A d \in Calls : Deleted(d) =>
        (\A k \in Keys : Stored(k) => accounts[k].id # acc[d].id) \/ acc[d].id \in RevivedIds

\* The calls recorded as earlier have returned.
Returned == \A c \in Calls : \A d \in before[c] : pc[d] = "done"

\* A login never works on an account whose deletion had returned when it
\* started, whether it has succeeded yet or not.
LoginsLive ==
    \A c, d \in Calls :
        op[c] = "login" /\ acc[c] # NoAccount /\ d \in before[c] /\ Deleted(d)
            /\ acc[c].id = acc[d].id
        => acc[d].id \in RevivedIds

IInv == TypeOK /\ Control /\ Keyed /\ Fresh /\ Gone /\ Returned /\ LoginsLive

-----------------------------------------------------------------------------
(* Basic facts *)

\* What the assumption on the constants says of ids, keys, users and accounts.
LEMMA Constants ==
    /\ \A s \in Seeds : s \in Account /\ s.id \in SeedIds /\ s.user \in Users
    /\ \A a \in Account : a.id \in Ids /\ a.user \in Users /\ a.roles \in Roles
    /\ SeedIds \subseteq Ids /\ Calls \subseteq Ids
    /\ Ids \subseteq Keys /\ Users \subseteq Keys
    /\ NoAccount \notin Account /\ NoSecret \notin Secret
    /\ SeedIds \cap Calls = {} /\ Users \cap Ids = {}
    /\ SeedPassword \in Passwords
  BY ConstantsAssumption DEF SeedIds, Ids, Keys, Account

\* The first state satisfies every part of the invariant.
LEMMA InitInv == Init => IInv
<1> SUFFICES ASSUME Init PROVE IInv
  OBVIOUS
<1>1. PICK preloaded \in SUBSET Seeds :
        /\ preloaded # {} => backend = "memory"
        /\ accounts = InitialAccounts(preloaded)
  BY DEF Init
<1>2. \A s \in Seeds : InitialKey(s, preloaded) \in Keys
  BY Constants DEF InitialKey
<1>3. \A s, t \in Seeds : InitialKey(s, preloaded) = InitialKey(t, preloaded) => s = t
  BY Constants, ConstantsAssumption DEF InitialKey
<1>4. \A k \in Keys : Stored(k) =>
         accounts[k] \in Seeds /\ InitialKey(accounts[k], preloaded) = k
  BY <1>1 DEF Stored, InitialAccounts
<1>5. \A s \in Seeds : accounts[InitialKey(s, preloaded)] = s
  BY <1>1, <1>2, <1>3 DEF InitialAccounts
<1>6. accounts \in [Keys -> Account \cup {NoAccount}]
  BY <1>1, Constants DEF InitialAccounts
<1>7. secrets \in [Ids -> Secret \cup {NoSecret}]
  BY Constants DEF Init, Secret
<1>8. TypeOK
  BY <1>6, <1>7, Constants DEF Init, TypeOK, Labels, Results, AllOps
<1>9. Control
  BY DEF Init, Control, ControlOf
<1>10. Keyed
  <2>1. \A k \in Ids : Stored(k) => accounts[k].id = k
    BY <1>4, Constants DEF InitialKey
  <2>2. ASSUME NEW k \in Users, Stored(k)
        PROVE  backend = "memory" /\ ~Stored(accounts[k].id)
    <3>1. accounts[k] \in Seeds /\ accounts[k] \in preloaded
      BY <1>4, <2>2, Constants DEF InitialKey
    <3>2. ASSUME Stored(accounts[k].id) PROVE FALSE
      <4> DEFINE t == accounts[accounts[k].id]
      <4>1. t \in Seeds /\ InitialKey(t, preloaded) = accounts[k].id
        BY <1>4, <3>1, <3>2, Constants
      <4>2. t.id = accounts[k].id /\ t \notin preloaded
        BY <4>1, <3>1, Constants DEF InitialKey
      <4> QED
        BY <4>1, <4>2, <3>1, ConstantsAssumption
    <3> QED
      BY <1>1, <3>1, <3>2
  <2> QED
    BY <2>1, <2>2 DEF Keyed
<1>11. Fresh
  BY <1>4, Constants DEF Init, Fresh, BornIds
<1>12. Gone /\ Returned /\ LoginsLive
  BY DEF Init, Gone, Returned, LoginsLive, Deleted
<1> QED
  BY <1>8, <1>9, <1>10, <1>11, <1>12 DEF IInv


-----------------------------------------------------------------------------
(* What one step of a call does, whichever step it is *)

Same(d) ==
    /\ pc'[d] = pc[d] /\ op'[d] = op[d] /\ acc'[d] = acc[d] /\ sec'[d] = sec[d]
    /\ pw'[d] = pw[d] /\ who'[d] = who[d] /\ res'[d] = res[d] /\ before'[d] = before[d]

\* The call starts: it works on an account that it has read, on the new one
\* that it is to insert or, to log in, on none yet.
Begins(c) ==
    /\ pc[c] = "idle"
    /\ pc'[c] \notin {"idle", "done"} /\ res'[c] = res[c]
    /\ before'[c] = {d \in Calls : pc[d] = "done"}
    /\ accounts' = accounts
    /\ op'[c] = "insert" => pc'[c] = "store_account"
    /\ op'[c] = "login" => acc'[c] = NoAccount
    /\ op'[c] \notin {"insert", "login"} =>
          \E k \in Keys : Stored(k) /\ acc'[c].id = accounts[k].id /\ acc'[c].user = accounts[k].user

Reads(c) ==
    \/ acc'[c] = acc[c]
    \/ /\ op[c] = "login" /\ acc[c] = NoAccount
       /\ acc'[c] = NoAccount \/ \E k \in Keys : Stored(k) /\ acc'[c] = accounts[k]
    \/ op[c] = "delete" /\ Stored(Id(c)) /\ acc'[c] = accounts[Id(c)]

Keeps(c)   == accounts' = accounts /\ ~Deleted(c)' /\ Reads(c)
Adds(c)    == op[c] = "insert" /\ pc[c] = "store_account" /\ accounts' = [accounts EXCEPT ![c] = Row(acc[c])]
Removes(c) ==
    /\ op[c] = "delete"
    /\ accounts' = [accounts EXCEPT ![Id(c)] = NoAccount]
    /\ Stored(Id(c)) \/ SelectsFirst
Changes(c) ==
    /\ op[c] = "set_roles"
    /\ accounts' = [accounts EXCEPT ![Id(c)] = Row(acc[c])]
    /\ Stored(Id(c)) \/ res'[c] = "upserted"

\* The call goes on.
Moves(c) ==
    /\ pc[c] \notin {"idle", "done"}
    /\ pc'[c] \notin {"idle", "store_account"}
    /\ op'[c] = op[c] /\ pw'[c] = pw[c] /\ who'[c] = who[c] /\ before'[c] = before[c]
    /\ \/ Keeps(c)
       \/ acc'[c] = acc[c] /\ (Adds(c) \/ Removes(c) \/ Changes(c))

Effect(c) ==
    /\ backend' = backend
    /\ \A d \in Calls \ {c} : Same(d)
    /\ Begins(c) \/ Moves(c)

Action(c) == StartCall(c) \/ Step(c) \/ Cancel(c)

\* A call that works on an account has one, and what the steps write has the
\* type of what they write it to.
LEMMA Rows ==
    ASSUME TypeOK, Control, NEW c \in Calls
    PROVE  /\ op[c] \notin {"none", "login"} => acc[c] \in Account /\ Id(c) \in Ids
           /\ acc[c] # NoAccount => acc[c] \in Account
           /\ acc[c] # NoAccount =>
                 /\ Row(acc[c]) \in Account
                 /\ Row(acc[c]).id = acc[c].id /\ Row(acc[c]).user = acc[c].user
           /\ Upserts /\ acc[c] # NoAccount => Row(acc[c]) = acc[c]
           /\ sec[c] # NoSecret => NewRow(c) \in Secret
           /\ [pw |-> pw[c], by |-> c] \in Secret
           /\ \A i \in Ids : secrets[i] # NoSecret =>
                 /\ secrets[i] \in Secret
                 /\ [secrets[i] EXCEPT !.pw = pw[c]] \in Secret
           /\ \A k \in Keys : Stored(k) => accounts[k] \in Account
<1>1. \A a \in Account :
         Row(a) \in Account /\ Row(a).id = a.id /\ Row(a).user = a.user /\ (Upserts => Row(a) = a)
  BY Constants, ConstantsAssumption DEF Row, Upserts, Account
<1> QED
  BY <1>1, Constants DEF TypeOK, Control, ControlOf, Secret, NewRow, Stored, Id

\* The account that an insert makes and the changed copies of one are accounts.
LEMMA NewAccounts ==
    /\ \A c \in Calls, u \in Users, r \in Roles : [id |-> c, user |-> u, roles |-> r] \in Account
    /\ \A a \in Account, r \in Roles :
          /\ [a EXCEPT !.roles = r] \in Account
          /\ [a EXCEPT !.roles = r].id = a.id /\ [a EXCEPT !.roles = r].user = a.user
    /\ \A c \in Calls, p \in Passwords : [pw |-> p, by |-> c] \in Secret
  BY Constants DEF Account, Secret

\* Every step keeps the types.
LEMMA TypeStep ==
    ASSUME TypeOK, Control, NEW c \in Calls, Action(c)
    PROVE  TypeOK'
<1>r. /\ op[c] \notin {"none", "login"} => acc[c] \in Account /\ Id(c) \in Ids
      /\ acc[c] # NoAccount => acc[c] \in Account
      /\ acc[c] # NoAccount => Row(acc[c]) \in Account
      /\ sec[c] # NoSecret => NewRow(c) \in Secret
      /\ [pw |-> pw[c], by |-> c] \in Secret
      /\ \A i \in Ids : secrets[i] # NoSecret =>
            /\ secrets[i] \in Secret
            /\ [secrets[i] EXCEPT !.pw = pw[c]] \in Secret
      /\ \A k \in Keys : Stored(k) => accounts[k] \in Account
  BY Rows
<1>s. ControlOf(c)
  BY DEF Control
<1> USE <1>r, <1>s DEF TypeOK, ControlOf, Labels, Results, AllOps, At, Goto, Return, PutAccount, PutSecret, Id, stores, args
<1>1. ASSUME NEW u \in Users, NEW r \in Roles, NEW p \in Passwords, InsertStart(c, u, r, p)
      PROVE  TypeOK'
  BY <1>1, Constants, NewAccounts DEF InsertStart, Start
<1>2. ASSUME NEW k \in Keys, DeleteStart(c, k)
      PROVE  TypeOK'
  BY <1>2, Constants, NewAccounts DEF DeleteStart, Start
<1>3. ASSUME NEW k \in Keys, NEW r \in Roles, SetRolesStart(c, k, r)
      PROVE  TypeOK'
  BY <1>3, Constants, NewAccounts DEF SetRolesStart, Start
<1>4. ASSUME NEW k \in Keys, NEW p \in Passwords, SetPasswordStart(c, k, p)
      PROVE  TypeOK'
  BY <1>4, Constants, NewAccounts DEF SetPasswordStart, Start
<1>5. ASSUME NEW u \in Users, NEW p \in Passwords, LoginStart(c, u, p)
      PROVE  TypeOK'
  BY <1>5, Constants, NewAccounts DEF LoginStart, Start
<1>6. CASE StoreAccount(c)
  BY <1>6 DEF StoreAccount
<1>7. CASE HashFails(c)
  BY <1>7 DEF HashFails
<1>8. CASE StoreSecret(c)
  BY <1>8 DEF StoreSecret, StoreSecretErr, StoreSecretOk
<1>9. CASE PutNewSecret(c)
  BY <1>9 DEF PutNewSecret, StoreSecretOk
<1>10. CASE DeleteSecret(c)
  BY <1>10 DEF DeleteSecret, RemoveSecret
<1>11. CASE DropSecret(c)
  BY <1>11 DEF DropSecret, SameRow
<1>12. CASE DeleteAccount(c)
  <2>1. UNCHANGED <<secrets, sec, backend, op, pw, who, before>>
    BY <1>12 DEF DeleteAccount
  <2>2. accounts' \in [Keys -> Account \cup {NoAccount}] /\ acc' \in [Calls -> Account \cup {NoAccount}]
    BY <1>12, Constants DEF DeleteAccount, Stored
  <2>3. pc' \in [Calls -> Labels] /\ res' \in [Calls -> Results]
    BY <1>12 DEF DeleteAccount, AccountMissing
  <2> QED
    BY <2>1, <2>2, <2>3
<1>13. CASE DropAccount(c)
  BY <1>13 DEF DropAccount
<1>14. CASE UpdateAccount(c)
  BY <1>14 DEF UpdateAccount, WriteRoles
<1>15. CASE WriteAccount(c)
  BY <1>15 DEF WriteAccount, WriteRoles
<1>16. CASE UpdateSecret(c)
  <2>1. UNCHANGED <<accounts, acc, backend, op, pw, who, before>>
    BY <1>16 DEF UpdateSecret
  <2>2. secrets' \in [Ids -> Secret \cup {NoSecret}] /\ sec' \in [Calls -> Secret \cup {NoSecret}]
    BY <1>16 DEF UpdateSecret, WritePassword
  <2>3. pc' \in [Calls -> Labels] /\ res' \in [Calls -> Results]
    BY <1>16 DEF UpdateSecret
  <2> QED
    BY <2>1, <2>2, <2>3
<1>17. CASE WriteSecret(c)
  BY <1>17 DEF WriteSecret, WritePassword, SameRow
<1>18. CASE QueryAccount(c)
  BY <1>18 DEF QueryAccount
<1>19. CASE Verify(c)
  BY <1>19 DEF Verify, Verified
<1>20. CASE Cancel(c)
  BY <1>20 DEF Cancel
<1> QED
  BY <1>1, <1>2, <1>3, <1>4, <1>5, <1>6, <1>7, <1>8, <1>9, <1>10, <1>11, <1>12, <1>13, <1>14, <1>15, <1>16, <1>17, <1>18, <1>19, <1>20 DEF Action, StartCall, Step

\* Every step leaves its call in a state that its label describes.
LEMMA ControlStep ==
    ASSUME TypeOK, Control, NEW c \in Calls, Action(c)
    PROVE  ControlOf(c)'
<1>r. /\ op[c] \notin {"none", "login"} => acc[c] \in Account /\ Id(c) \in Ids
      /\ acc[c] # NoAccount => acc[c] \in Account
      /\ acc[c] # NoAccount => Row(acc[c]) \in Account
      /\ sec[c] # NoSecret => NewRow(c) \in Secret
      /\ [pw |-> pw[c], by |-> c] \in Secret
      /\ \A i \in Ids : secrets[i] # NoSecret =>
            /\ secrets[i] \in Secret
            /\ [secrets[i] EXCEPT !.pw = pw[c]] \in Secret
      /\ \A k \in Keys : Stored(k) => accounts[k] \in Account
  BY Rows
<1> USE Constants, NewAccounts, <1>r DEF TypeOK, Control, ControlOf, SelectsFirst, LooksFirst, AllOps, At, Goto, Return, PutAccount, PutSecret, Id, stores, args
<1>1. ASSUME NEW u \in Users, NEW r \in Roles, NEW p \in Passwords, InsertStart(c, u, r, p)
      PROVE  ControlOf(c)'
  BY <1>1 DEF InsertStart, Start
<1>2. ASSUME NEW k \in Keys, DeleteStart(c, k)
      PROVE  ControlOf(c)'
  BY <1>2 DEF DeleteStart, Start
<1>3. ASSUME NEW k \in Keys, NEW r \in Roles, SetRolesStart(c, k, r)
      PROVE  ControlOf(c)'
  BY <1>3 DEF SetRolesStart, Start
<1>4. ASSUME NEW k \in Keys, NEW p \in Passwords, SetPasswordStart(c, k, p)
      PROVE  ControlOf(c)'
  BY <1>4 DEF SetPasswordStart, Start
<1>5. ASSUME NEW u \in Users, NEW p \in Passwords, LoginStart(c, u, p)
      PROVE  ControlOf(c)'
  BY <1>5 DEF LoginStart, Start
<1>6. CASE StoreAccount(c)
  BY <1>6 DEF StoreAccount
<1>7. CASE HashFails(c)
  BY <1>7 DEF HashFails
<1>8. CASE StoreSecret(c)
  BY <1>8 DEF StoreSecret, StoreSecretErr, StoreSecretOk, NewRow
<1>9. CASE PutNewSecret(c)
  BY <1>9 DEF PutNewSecret, StoreSecretOk, NewRow
<1>10. CASE DeleteSecret(c)
  BY <1>10 DEF DeleteSecret, RemoveSecret
<1>11. CASE DropSecret(c)
  BY <1>11 DEF DropSecret, SameRow
<1>12. CASE DeleteAccount(c)
  BY <1>12 DEF DeleteAccount, AccountMissing
<1>13. CASE DropAccount(c)
  BY <1>13 DEF DropAccount
<1>14. CASE UpdateAccount(c)
  BY <1>14 DEF UpdateAccount, WriteRoles
<1>15. CASE WriteAccount(c)
  BY <1>15 DEF WriteAccount, WriteRoles
<1>16. CASE UpdateSecret(c)
  BY <1>16 DEF UpdateSecret, WritePassword
<1>17. CASE WriteSecret(c)
  BY <1>17 DEF WriteSecret, WritePassword, SameRow
<1>18. CASE QueryAccount(c)
  BY <1>18 DEF QueryAccount
<1>19. CASE Verify(c)
  BY <1>19 DEF Verify, Verified
<1>20. CASE Cancel(c)
  BY <1>20 DEF Cancel
<1> QED
  BY <1>1, <1>2, <1>3, <1>4, <1>5, <1>6, <1>7, <1>8, <1>9, <1>10, <1>11, <1>12, <1>13, <1>14, <1>15, <1>16, <1>17, <1>18, <1>19, <1>20 DEF Action, StartCall, Step

\* Every step is one of the effects above.
LEMMA EffectStep ==
    ASSUME TypeOK, Control, NEW c \in Calls, Action(c)
    PROVE  Effect(c)
<1> USE Constants DEF TypeOK, Control, ControlOf, At, Goto, Return, PutAccount, PutSecret, Id, stores, args, Stored, Effect, Same, Begins, Moves, Keeps, Reads, Adds, Removes, Changes, Deleted
<1>1. ASSUME NEW u \in Users, NEW r \in Roles, NEW p \in Passwords, InsertStart(c, u, r, p)
      PROVE  Effect(c)
  BY <1>1 DEF InsertStart, Start
<1>2. ASSUME NEW k \in Keys, DeleteStart(c, k)
      PROVE  Effect(c)
  BY <1>2 DEF DeleteStart, Start
<1>3. ASSUME NEW k \in Keys, NEW r \in Roles, SetRolesStart(c, k, r)
      PROVE  Effect(c)
  BY <1>3 DEF SetRolesStart, Start
<1>4. ASSUME NEW k \in Keys, NEW p \in Passwords, SetPasswordStart(c, k, p)
      PROVE  Effect(c)
  BY <1>4 DEF SetPasswordStart, Start
<1>5. ASSUME NEW u \in Users, NEW p \in Passwords, LoginStart(c, u, p)
      PROVE  Effect(c)
  BY <1>5 DEF LoginStart, Start
<1>6. CASE StoreAccount(c)
  BY <1>6 DEF StoreAccount
<1>7. CASE HashFails(c)
  BY <1>7 DEF HashFails
<1>8. CASE StoreSecret(c)
  BY <1>8 DEF StoreSecret, StoreSecretErr, StoreSecretOk, NewRow
<1>9. CASE PutNewSecret(c)
  BY <1>9 DEF PutNewSecret, StoreSecretOk, NewRow
<1>10. CASE DeleteSecret(c)
  BY <1>10 DEF DeleteSecret, RemoveSecret
<1>11. CASE DropSecret(c)
  BY <1>11 DEF DropSecret, SameRow
<1>12. CASE DeleteAccount(c)
  BY <1>12 DEF DeleteAccount, AccountMissing
<1>13. CASE DropAccount(c)
  BY <1>13 DEF DropAccount
<1>14. CASE UpdateAccount(c)
  <2>1. Upserts => Row(acc[c]) = acc[c]
    BY <1>14, Rows DEF UpdateAccount
  <2> QED
    BY <1>14, <2>1 DEF UpdateAccount, WriteRoles
<1>15. CASE WriteAccount(c)
  BY <1>15 DEF WriteAccount, WriteRoles
<1>16. CASE UpdateSecret(c)
  BY <1>16 DEF UpdateSecret, WritePassword
<1>17. CASE WriteSecret(c)
  BY <1>17 DEF WriteSecret, WritePassword, SameRow
<1>18. CASE QueryAccount(c)
  BY <1>18 DEF QueryAccount
<1>19. CASE Verify(c)
  BY <1>19 DEF Verify, Verified
<1>20. CASE Cancel(c)
  BY <1>20 DEF Cancel
<1> QED
  BY <1>1, <1>2, <1>3, <1>4, <1>5, <1>6, <1>7, <1>8, <1>9, <1>10, <1>11, <1>12, <1>13, <1>14, <1>15, <1>16, <1>17, <1>18, <1>19, <1>20 DEF Action, StartCall, Step

-----------------------------------------------------------------------------
(* Each part of the invariant is preserved by every such effect *)

\* Nothing becomes unborn or unrevived, and a call that has returned stays as it is.
LEMMA Monotone ==
    ASSUME TypeOK, Control, NEW c \in Calls, Effect(c)
    PROVE  /\ BornIds \subseteq BornIds'
           /\ RevivedIds \subseteq RevivedIds'
           /\ \A d \in Calls : pc[d] = "done" => d # c /\ Same(d)
           /\ \A d \in Calls \ {c} : Deleted(d)' <=> Deleted(d)
           /\ Deleted(c)' => Moves(c) /\ Removes(c) /\ acc'[c] = acc[c]
<1> USE DEF Effect, Same
<1>1. pc[c] # "done" /\ res[c] = "none"
  BY DEF Begins, Moves, Control, ControlOf
<1>2. \A d \in Calls : pc[d] = "done" => d # c /\ Same(d)
  BY <1>1
<1>3. BornIds \subseteq BornIds'
  BY DEF BornIds, Begins, Moves
<1>4. RevivedIds \subseteq RevivedIds'
  BY <1>1 DEF RevivedIds
<1>5. \A d \in Calls \ {c} : Deleted(d)' <=> Deleted(d)
  BY DEF Deleted
<1>6. ASSUME Deleted(c)' PROVE Moves(c) /\ Removes(c) /\ acc'[c] = acc[c]
  BY <1>1, <1>6 DEF Deleted, Begins, Moves, Keeps, Adds, Changes, Control, ControlOf
<1> QED
  BY <1>2, <1>3, <1>4, <1>5, <1>6

\* A step writes at most one entry: an inserted account's, or the one of the
\* account it works on, which is removed or replaced.
LEMMA OneEntry ==
    ASSUME IInv, NEW c \in Calls, Effect(c), NEW k \in Keys, Stored(k)'
    PROVE  \/ Stored(k) /\ accounts'[k] = accounts[k] /\ ~(Removes(c) /\ k = Id(c))
           \/ /\ k = c /\ accounts'[k].id = c /\ c \notin BornIds /\ c \in BornIds'
              /\ c \in Ids /\ acc'[c] = acc[c]
           \/ /\ k = Id(c) /\ accounts'[k].id = k /\ k \in BornIds
              /\ k \in Ids /\ op[c] = "set_roles" /\ acc'[c] = acc[c]
              /\ Stored(k) \/ k \in RevivedIds'
<1>1. TypeOK /\ ControlOf(c)
  BY DEF IInv, Control
<1>2. op[c] \notin {"none", "login"} => acc[c] # NoAccount /\ acc[c] \in Account /\ Id(c) \in Ids
  BY <1>1, Rows DEF IInv, ControlOf
<1>r. op[c] \notin {"none", "login"} => Row(acc[c]) # NoAccount /\ Row(acc[c]).id = Id(c)
  BY <1>2, Rows, Constants DEF IInv, Id
<1>3. CASE accounts' = accounts
  BY <1>1, <1>3 DEF Removes, TypeOK, Stored
<1>4. CASE Moves(c) /\ Adds(c) /\ acc'[c] = acc[c]
  <2>1. c \notin BornIds /\ c \in BornIds'
    BY <1>4, Constants DEF Moves, Adds, BornIds
  <2> QED
    BY <1>1, <1>r, <1>4, <2>1, Constants DEF Id, Moves, Adds, TypeOK, ControlOf, Stored, Removes
<1>5. CASE Moves(c) /\ Removes(c) /\ acc'[c] = acc[c]
  BY <1>1, <1>2, <1>5, Constants DEF Removes, TypeOK, Stored
<1>6. CASE Moves(c) /\ Changes(c) /\ acc'[c] = acc[c]
  <2>1. Id(c) \in BornIds /\ Id(c) \in Keys
    BY <1>2, <1>6, Constants DEF IInv, Fresh, Changes, Id
  <2>2. Stored(Id(c)) \/ Id(c) \in RevivedIds'
    BY <1>2, <1>6 DEF Moves, Changes, RevivedIds, Id
  <2> QED
    BY <1>1, <1>2, <1>r, <1>6, <2>1, <2>2 DEF Changes, TypeOK, Stored, Removes, Id
<1> QED
  BY <1>3, <1>4, <1>5, <1>6 DEF Effect, Begins, Moves, Keeps

\* Entries stay under their ids.
LEMMA KeyedStep ==
    ASSUME IInv, NEW c \in Calls, Effect(c)
    PROVE  Keyed'
<1>1. /\ RevivedIds \subseteq RevivedIds'
      /\ backend' = backend
  BY Monotone DEF IInv, Effect
<1>2. ASSUME NEW k \in Ids, Stored(k)' PROVE accounts'[k].id = k
  BY <1>2, OneEntry, Constants DEF IInv, Keyed
<1>3. ASSUME NEW k \in Users, Stored(k)'
      PROVE  backend' = "memory" /\ (accounts'[accounts'[k].id] # NoAccount => accounts'[k].id \in RevivedIds')
  <2>1. Stored(k) /\ accounts'[k] = accounts[k] /\ k \in Keys
    BY <1>3, OneEntry, Constants
  <2>2. backend = "memory" /\ (Stored(accounts[k].id) => accounts[k].id \in RevivedIds)
    BY <2>1 DEF IInv, Keyed
  <2>3. PICK i \in Ids : i = accounts[k].id /\ i \in Keys /\ i \in BornIds
    BY <2>1, Rows, Constants DEF IInv, Fresh
  <2>4. ASSUME Stored(i)' PROVE i \in RevivedIds'
    BY <1>1, <2>2, <2>3, <2>4, OneEntry
  <2> QED
    BY <1>1, <2>1, <2>2, <2>3, <2>4 DEF Stored
<1> QED
  BY <1>2, <1>3 DEF Keyed, Stored

\* No call comes to work on, and no entry to hold, an id that is not in use.
LEMMA FreshStep ==
    ASSUME IInv, NEW c \in Calls, Effect(c)
    PROVE  Fresh'
<1>1. BornIds \subseteq BornIds'
  BY Monotone DEF IInv
<1>2. ASSUME NEW k \in Keys, Stored(k)' PROVE accounts'[k].id \in BornIds'
  BY <1>1, <1>2, OneEntry DEF IInv, Fresh
<1>3. ASSUME NEW d \in Calls, op'[d] # "insert", acc'[d] # NoAccount
      PROVE  acc'[d].id \in BornIds'
  <2>1. CASE d # c
    BY <1>1, <1>3, <2>1 DEF IInv, Fresh, Effect, Same
  <2>2. CASE d = c /\ Begins(c)
    BY <1>1, <1>3, <2>2 DEF IInv, Fresh, Begins
  <2>3. CASE d = c /\ Moves(c) /\ acc'[c] = acc[c]
    BY <1>1, <1>3, <2>3 DEF IInv, Fresh, Moves
  <2>4. CASE d = c /\ Moves(c) /\ Keeps(c)
    <3>1. acc[c] # NoAccount /\ op[c] = "delete" => Id(c) \in Keys
      BY Rows, Constants DEF IInv
    <3> QED
      BY <1>1, <1>3, <2>4, <3>1, <2>3 DEF IInv, Fresh, Control, ControlOf, Keeps, Reads
  <2> QED
    BY <2>1, <2>2, <2>3, <2>4 DEF Effect, Moves
<1> QED
  BY <1>2, <1>3 DEF Fresh

\* A deleted account stays deleted, unless an update puts it back.
LEMMA GoneStep ==
    ASSUME IInv, NEW c \in Calls, Effect(c)
    PROVE  Gone'
<1> SUFFICES ASSUME NEW d \in Calls, Deleted(d)', acc'[d].id \notin RevivedIds',
                    NEW k \in Keys, Stored(k)'
             PROVE  accounts'[k].id # acc'[d].id
  BY DEF Gone
<1>1. RevivedIds \subseteq RevivedIds'
  BY Monotone DEF IInv
<1>2. CASE d # c
  <2>1. Deleted(d) /\ acc'[d] = acc[d] /\ acc[d].id \notin RevivedIds /\ acc[d].id \in BornIds
    <3>1. Deleted(d) /\ Same(d)
      BY <1>2, Monotone DEF IInv, Effect
    <3> QED
      BY <1>1, <3>1 DEF Same, IInv, Fresh, Control, ControlOf, Deleted
  <2>2. \A j \in Keys : Stored(j) => accounts[j].id # acc[d].id
    BY <2>1 DEF IInv, Gone
  <2>3. \A j \in Ids : Stored(j) => j # acc[d].id
    BY <2>2, Constants DEF IInv, Keyed
  <2> QED
    BY <2>1, <2>2, <2>3, OneEntry
<1>3. CASE d = c
  <2>1. Moves(c) /\ Removes(c) /\ acc'[c] = acc[c]
    BY <1>3, Monotone DEF IInv
  <2>2. Stored(k) /\ accounts'[k] = accounts[k] /\ k # Id(c)
    <3>1. op[c] = "delete" /\ pc[c] # "store_account" /\ Id(c) \in Ids
      BY <2>1, Rows DEF Removes, IInv, Control, ControlOf
    <3> QED
      BY <2>1, <3>1, Constants DEF Removes, Stored, IInv, TypeOK
  <2>3. CASE k \in Ids
    BY <1>3, <2>1, <2>2, <2>3 DEF IInv, Keyed, Id
  <2>4. CASE k \in Users
    <3>1. backend = "memory" /\ (Stored(accounts[k].id) => accounts[k].id \in RevivedIds)
      BY <2>2, <2>4 DEF IInv, Keyed
    <3>2. Stored(Id(c))
      BY <2>1, <3>1 DEF Removes, SelectsFirst
    <3> QED
      BY <1>1, <1>3, <2>1, <2>2, <3>1, <3>2 DEF Id
  <2> QED
    BY <2>3, <2>4 DEF Keys
<1> QED
  BY <1>2, <1>3

\* What a call recorded as earlier has returned for good.
LEMMA ReturnedStep ==
    ASSUME IInv, NEW c \in Calls, Effect(c)
    PROVE  Returned'
<1>1. \A d \in Calls : pc[d] = "done" => pc'[d] = "done"
  BY Monotone DEF IInv, Same
<1> QED
  BY <1>1 DEF IInv, Returned, TypeOK, Effect, Same, Begins, Moves

\* A login reads its account from the store, where no deleted one is.
LEMMA LoginsLiveStep ==
    ASSUME IInv, NEW c \in Calls, Effect(c)
    PROVE  LoginsLive'
<1> SUFFICES ASSUME NEW e \in Calls, NEW d \in Calls, op'[e] = "login",
                    acc'[e] # NoAccount, d \in before'[e], Deleted(d)',
                    acc'[e].id = acc'[d].id
             PROVE  acc'[d].id \in RevivedIds'
  BY DEF LoginsLive
<1>1. RevivedIds \subseteq RevivedIds'
  BY Monotone DEF IInv
<1>2. e # c \/ Moves(c)
  BY DEF Effect, Begins
<1>3. op[e] = "login" /\ d \in before[e]
  BY <1>2 DEF Effect, Same, Moves
<1>4. pc[d] = "done"
  BY <1>3 DEF IInv, Returned
<1>5. d # c /\ Deleted(d) /\ acc'[d] = acc[d]
  BY <1>4, Monotone DEF IInv, Same
<1>6. CASE acc'[e] = acc[e]
  BY <1>1, <1>3, <1>5, <1>6 DEF IInv, LoginsLive
<1>7. CASE \E k \in Keys : Stored(k) /\ acc'[e] = accounts[k]
  BY <1>1, <1>5, <1>7 DEF IInv, Gone
<1> QED
  BY <1>2, <1>3, <1>6, <1>7 DEF Effect, Same, Moves, Keeps, Reads

\* A step of any call keeps the whole invariant.
LEMMA NextInv == IInv /\ [Next]_vars => IInv'
<1> SUFFICES ASSUME IInv, [Next]_vars PROVE IInv'
  OBVIOUS
<1>1. CASE Next
  <2>1. PICK c \in Calls : Action(c)
    BY <1>1 DEF Next, Action
  <2>2. TypeOK' /\ ControlOf(c)' /\ Effect(c)
    BY <2>1, TypeStep, ControlStep, EffectStep DEF IInv
  <2>3. Control'
    <3> SUFFICES ASSUME NEW d \in Calls, d # c PROVE ControlOf(d)'
      BY <2>2 DEF Control
    <3> QED
      BY <2>2 DEF IInv, Control, ControlOf, SelectsFirst, LooksFirst, Effect, Same
  <2> QED
    BY <2>2, <2>3, KeyedStep, FreshStep, GoneStep, ReturnedStep, LoginsLiveStep DEF IInv
<1>2. CASE UNCHANGED vars
  <2> USE <1>2 DEF vars
  <2>1. TypeOK' /\ Control'
    BY DEF IInv, TypeOK, Control, ControlOf, SelectsFirst, LooksFirst
  <2>2. Keyed' /\ Fresh' /\ Returned'
    BY DEF IInv, Keyed, Fresh, Returned, Stored, BornIds, RevivedIds
  <2>3. Gone' /\ LoginsLive'
    BY DEF IInv, Gone, LoginsLive, Deleted, Stored, RevivedIds
  <2> QED
    BY <2>1, <2>2, <2>3 DEF IInv
<1> QED
  BY <1>1, <1>2

-----------------------------------------------------------------------------
(* The theorems of the first invariant *)

\* The invariant holds of every reachable state.
THEOREM Invariance == Spec => []IInv
  BY InitInv, NextInv, PTL DEF Spec

\* Whatever calls run and however they interleave, fail and are dropped, every
\* store, call and result keeps its type.
THEOREM TypeCorrect == Spec => []TypeOK
<1>1. IInv => TypeOK
  BY DEF IInv
<1> QED
  BY <1>1, Invariance, PTL

\* For every number of calls, users and accounts and on every backend: after a
\* delete has returned Ok, no login that starts later succeeds as that account,
\* unless an in-memory update_account with a stale copy has put it back.
THEOREM DeletionIsFinal == Spec => []NoLoginAfterDelete
<1>1. IInv => NoLoginAfterDelete
  BY DEF IInv, Control, ControlOf, LoginsLive, NoLoginAfterDelete, Revived, On, RevivedIds
<1> QED
  BY <1>1, Invariance, PTL

-----------------------------------------------------------------------------
(* What one step of a call does to the two stores together *)

\* Where a call has the account's secret in its hand, or stores its account's
\* only; and where it also counts on the row that it has selected.
Hand == {"store_secret", "put_secret", "delete_account", "drop_account"}
Near == Hand \cup {"drop_secret"}

\* How a call that leaves an account without its secret reports it.
Failed == {"account_err", "hash_err", "secret_err", "restore_err", "cancelled", "upserted"}

OthersKeep(c) == \A i \in Ids : i # Id(c) => secrets'[i] = secrets[i]
HasSecret(c) == secrets[Id(c)] # NoSecret

\* The call ends with an error, or goes on with what touches no secret.
Rests(c) ==
    /\ UNCHANGED stores
    /\ pc'[c] \notin Near
    /\ op[c] # "login" => res'[c] \notin {"ok", "upserted", "restored", "overwrote"}
    /\ pc[c] \in Hand => res'[c] \in Failed

\* The call goes on to the next statement about the secret or its account.
Advances(c) ==
    /\ UNCHANGED stores
    /\ \/ pc[c] = "store_secret" /\ pc'[c] = "put_secret" /\ ~HasSecret(c)
       \/ /\ pc[c] = "delete_secret" /\ pc'[c] = "drop_secret"
          /\ SelectsFirst /\ HasSecret(c) /\ sec'[c] = secrets[Id(c)]
       \/ pc[c] = "delete_account" /\ pc'[c] \in {"store_secret", "drop_account"}

\* The insert stores its account.
Opens(c) ==
    /\ Adds(c) /\ UNCHANGED secrets
    /\ \/ pc'[c] = "store_secret"
       \/ pc'[c] = "done" /\ res'[c] = "account_err"

\* The delete takes the secret; in two statements it may miss it.
Takes(c) ==
    /\ accounts' = accounts /\ OthersKeep(c)
    /\ pc'[c] = "delete_account"
    /\ \/ pc[c] = "delete_secret" /\ ~SelectsFirst /\ HasSecret(c) /\ secrets'[Id(c)] = NoSecret
       \/ /\ pc[c] = "drop_secret"
          /\ \/ secrets'[Id(c)] = NoSecret
             \/ secrets'[Id(c)] = secrets[Id(c)] /\ secrets[Id(c)].by # sec[c].by

\* An insert stores its secret, a delete the one it had taken.
Stores(c) ==
    /\ accounts' = accounts /\ OthersKeep(c)
    /\ pc[c] \in {"store_secret", "put_secret"} /\ pc'[c] = "done"
    /\ secrets'[Id(c)] = NewRow(c)
    /\ HasSecret(c) => LooksFirst
    /\ res'[c] = IF HasSecret(c) THEN "overwrote"
                 ELSE IF op[c] = "insert" THEN "ok" ELSE "restored"

\* The delete removes the account.
Closes(c) ==
    /\ Removes(c) /\ UNCHANGED secrets
    /\ pc[c] \in {"delete_account", "drop_account"} /\ pc'[c] = "done"
    /\ res'[c] \in {"ok", "account_err"}

\* The roles are written.
Grants(c) ==
    /\ Changes(c) /\ UNCHANGED secrets
    /\ pc[c] \in {"update_account", "write_account"} /\ pc'[c] = "done"
    /\ res'[c] \in {"ok", "err", "upserted"}
    /\ res'[c] = "upserted" => ~Stored(Id(c))

\* The password is written.
Sets(c) ==
    /\ accounts' = accounts /\ OthersKeep(c)
    /\ op[c] = "set_password" /\ pc'[c] = "done"
    /\ secrets'[Id(c)] # NoSecret /\ secrets'[Id(c)].pw = pw[c]
    /\ \/ HasSecret(c) /\ res'[c] = "ok" /\ (SelectsFirst => secrets'[Id(c)].by = secrets[Id(c)].by)
       \/ ~HasSecret(c) /\ res'[c] = "upserted"

Course(c) ==
    \/ /\ Begins(c) /\ UNCHANGED secrets /\ pc'[c] \notin Near \cup {"verify"}
       /\ op'[c] = "insert" => acc'[c].id = c /\ sec'[c].pw = pw'[c]
    \/ /\ Moves(c)
       /\ pc'[c] # "done" => res'[c] = res[c]
       /\ op[c] = "insert" \/ pc[c] = "drop_secret" => sec'[c] = sec[c]
       /\ Rests(c) \/ Advances(c) \/ Opens(c) \/ Takes(c) \/ Stores(c)
             \/ Closes(c) \/ Grants(c) \/ Sets(c)

\* Every step takes such a course.
LEMMA CourseStep ==
    ASSUME TypeOK, Control, NEW c \in Calls, Action(c)
    PROVE  Course(c)
<1>e. Effect(c)
  BY EffectStep
<1>s. ControlOf(c)
  BY DEF Control
<1>r. /\ op[c] \notin {"none", "login"} => acc[c] \in Account /\ Id(c) \in Ids
      /\ [pw |-> pw[c], by |-> c] \in Secret
      /\ \A i \in Ids : secrets[i] # NoSecret =>
            /\ secrets[i] \in Secret
            /\ [secrets[i] EXCEPT !.pw = pw[c]] \in Secret
      /\ Upserts /\ acc[c] # NoAccount => Row(acc[c]) = acc[c]
  BY Rows
<1> USE <1>e, <1>s, <1>r DEF TypeOK, ControlOf, At, Goto, Return, PutAccount, PutSecret, stores, args, Course, Effect, Hand, Near, Failed
<1> DEFINE Moved == Rests(c) \/ Advances(c) \/ Opens(c) \/ Takes(c) \/ Stores(c) \/ Closes(c) \/ Grants(c) \/ Sets(c)
<1>a. ASSUME Begins(c), UNCHANGED secrets, pc'[c] \notin Near \cup {"verify"},
             op'[c] = "insert" => acc'[c].id = c /\ sec'[c].pw = pw'[c]
      PROVE  Course(c)
  BY <1>a
<1>b. ASSUME pc[c] # "idle", pc'[c] # "done" => res'[c] = res[c],
             op[c] = "insert" \/ pc[c] = "drop_secret" => sec'[c] = sec[c], Moved
      PROVE  Course(c)
  BY <1>b DEF Begins
<1> HIDE DEF Moved, Course, Effect
<1>1. ASSUME NEW u \in Users, NEW r \in Roles, NEW p \in Passwords, InsertStart(c, u, r, p)
      PROVE  Course(c)
  BY <1>1, <1>a DEF InsertStart, Start, Effect, Moves
<1>2. ASSUME NEW k \in Keys, DeleteStart(c, k)
      PROVE  Course(c)
  BY <1>2, <1>a DEF DeleteStart, Start, Effect, Moves
<1>3. ASSUME NEW k \in Keys, NEW r \in Roles, SetRolesStart(c, k, r)
      PROVE  Course(c)
  BY <1>3, <1>a DEF SetRolesStart, Start, Effect, Moves
<1>4. ASSUME NEW k \in Keys, NEW p \in Passwords, SetPasswordStart(c, k, p)
      PROVE  Course(c)
  BY <1>4, <1>a DEF SetPasswordStart, Start, Effect, Moves
<1>5. ASSUME NEW u \in Users, NEW p \in Passwords, LoginStart(c, u, p)
      PROVE  Course(c)
  BY <1>5, <1>a DEF LoginStart, Start, Effect, Moves
<1>6. CASE StoreAccount(c)
  BY <1>6, <1>b DEF StoreAccount, Moved, Opens, Rests, Adds
<1>7. CASE HashFails(c)
  BY <1>7, <1>b DEF HashFails, Moved, Rests
<1>8. CASE StoreSecret(c)
  BY <1>8, <1>b DEF StoreSecret, StoreSecretErr, StoreSecretOk, Moved, Rests, Advances, Stores, OthersKeep, HasSecret
<1>9. CASE PutNewSecret(c)
  BY <1>9, <1>b DEF PutNewSecret, StoreSecretOk, Moved, Stores, OthersKeep, HasSecret
<1>10. CASE DeleteSecret(c)
  BY <1>10, <1>b DEF DeleteSecret, RemoveSecret, Moved, Rests, Advances, Takes, OthersKeep, HasSecret
<1>11. CASE DropSecret(c)
  BY <1>11, <1>b DEF DropSecret, SameRow, Moved, Rests, Takes, OthersKeep, HasSecret
<1>12. CASE DeleteAccount(c)
  BY <1>12, <1>b DEF DeleteAccount, AccountMissing, Moved, Rests, Advances, Closes, Removes
<1>13. CASE DropAccount(c)
  BY <1>13, <1>b DEF DropAccount, Moved, Rests, Closes, Removes
<1>14. CASE UpdateAccount(c)
  BY <1>14, <1>b DEF UpdateAccount, WriteRoles, Moved, Rests, Grants, Changes
<1>15. CASE WriteAccount(c)
  BY <1>15, <1>b DEF WriteAccount, WriteRoles, Moved, Rests, Grants, Changes
<1>16. CASE UpdateSecret(c)
  BY <1>16, <1>b, Constants DEF UpdateSecret, WritePassword, Moved, Rests, Sets, OthersKeep, HasSecret, Upserts, SelectsFirst, Secret
<1>17. CASE WriteSecret(c)
  BY <1>17, <1>b, Constants DEF WriteSecret, WritePassword, SameRow, Moved, Rests, Sets, OthersKeep, HasSecret, Secret
<1>18. CASE QueryAccount(c)
  BY <1>18, <1>b DEF QueryAccount, Moved, Rests
<1>19. CASE Verify(c)
  BY <1>19, <1>b DEF Verify, Verified, Moved, Rests
<1>20. CASE Cancel(c)
  BY <1>20, <1>b DEF Cancel, Moved, Rests
<1> QED
  BY <1>1, <1>2, <1>3, <1>4, <1>5, <1>6, <1>7, <1>8, <1>9, <1>10, <1>11, <1>12, <1>13, <1>14, <1>15, <1>16, <1>17, <1>18, <1>19, <1>20 DEF Action, StartCall, Step

\* A call that moves and does not rest is no login.
LEMMA Courses ==
    ASSUME IInv, NEW c \in Calls, Course(c), Moves(c)
    PROVE  /\ Rests(c) \/ Advances(c) \/ Opens(c) \/ Takes(c) \/ Stores(c)
                \/ Closes(c) \/ Grants(c) \/ Sets(c)
           /\ Rests(c) \/ op[c] \notin {"none", "login"}
           /\ op[c] = "insert" \/ pc[c] = "drop_secret" => sec'[c] = sec[c]
           /\ pc'[c] # "done" => res'[c] = "none"
<1>1. ControlOf(c)
  BY DEF IInv, Control
<1>2. /\ Rests(c) \/ Advances(c) \/ Opens(c) \/ Takes(c) \/ Stores(c)
            \/ Closes(c) \/ Grants(c) \/ Sets(c)
      /\ op[c] = "insert" \/ pc[c] = "drop_secret" => sec'[c] = sec[c]
      /\ pc'[c] # "done" => res'[c] = "none"
  BY <1>1 DEF Course, Begins, Moves, ControlOf
<1>3. Advances(c) \/ Takes(c) \/ Stores(c) \/ Sets(c) => op[c] \notin {"none", "login"}
  BY <1>1 DEF ControlOf, Advances, Takes, Stores, Sets
<1>4. Opens(c) \/ Closes(c) \/ Grants(c) => op[c] \notin {"none", "login"}
  BY DEF Opens, Closes, Grants, Adds, Removes, Changes
<1> QED
  BY <1>2, <1>3, <1>4

-----------------------------------------------------------------------------
(* What a step leaves of what was known of an account *)

\* The writers of an account are the calls that work on it and are no logins.
LEMMA WritersAre ==
    ASSUME NEW i
    PROVE  Writers(i) = {c \in Calls : op[c] \in AllOps \ {"login"} /\ acc[c] # NoAccount /\ acc[c].id = i}
  BY DEF Writers, On

\* A writer stays one, with the same account; its result stays; and what a
\* moving call returns is a result for the account it works on.
LEMMA Bookkeeping ==
    ASSUME IInv, NEW c \in Calls, Effect(c)
    PROVE  /\ \A d \in Calls : op[d] \notin {"none", "login"} =>
                 /\ op'[d] = op[d] /\ pw'[d] = pw[d] /\ before'[d] = before[d]
                 /\ acc[d] # NoAccount /\ acc'[d] # NoAccount /\ acc'[d].id = acc[d].id
                 /\ op[d] # "delete" => acc'[d] = acc[d]
           /\ \A i : Writers(i) \subseteq Writers(i)'
           /\ \A d \in Calls : res[d] # "none" => res'[d] = res[d] /\ pc'[d] = "done"
           /\ \A i : \A R \in SUBSET (Results \ {"none"}) : Ended(i, R) => Ended(i, R)'
           /\ \A i : Moves(c) /\ op[c] # "login" /\ i = Id(c) => c \in Writers(i) /\ c \in Writers(i)'
           /\ \A i, R : Moves(c) /\ op[c] # "login" /\ i = Id(c) /\ res'[c] \in R => Ended(i, R)'
<1>1. \A d \in Calls : op[d] \notin {"none", "login"} =>
         /\ op'[d] = op[d] /\ pw'[d] = pw[d] /\ before'[d] = before[d]
         /\ acc[d] # NoAccount /\ acc'[d] # NoAccount /\ acc'[d].id = acc[d].id
         /\ op[d] # "delete" => acc'[d] = acc[d]
  <2> SUFFICES ASSUME NEW d \in Calls, op[d] \notin {"none", "login"}
               PROVE  /\ op'[d] = op[d] /\ pw'[d] = pw[d] /\ before'[d] = before[d]
                      /\ acc[d] # NoAccount /\ acc'[d] # NoAccount /\ acc'[d].id = acc[d].id
                      /\ op[d] # "delete" => acc'[d] = acc[d]
    OBVIOUS
  <2>1. acc[d] # NoAccount /\ Id(d) \in Ids /\ pc[d] # "idle"
    BY Rows DEF IInv, Control, ControlOf
  <2>2. CASE d # c
    BY <2>1, <2>2 DEF Effect, Same
  <2>3. CASE d = c /\ acc'[c] = acc[c]
    BY <2>1, <2>3 DEF Effect, Begins, Moves
  <2>4. CASE d = c /\ op[c] = "delete" /\ Stored(Id(c)) /\ acc'[c] = accounts[Id(c)]
    BY <2>1, <2>4 DEF Effect, Begins, Moves, Stored, IInv, Keyed, Id
  <2> QED
    BY <2>1, <2>2, <2>3, <2>4 DEF Effect, Begins, Moves, Keeps, Reads
<1>2. \A i : Writers(i) \subseteq Writers(i)'
  BY <1>1, WritersAre DEF AllOps, Writers, On
<1>3. \A d \in Calls : res[d] # "none" => res'[d] = res[d] /\ pc'[d] = "done"
  BY DEF IInv, Control, ControlOf, Effect, Same, Begins, Moves
<1>4. \A i : \A R \in SUBSET (Results \ {"none"}) : Ended(i, R) => Ended(i, R)'
  <2>1. \A i : Writers(i) \subseteq Calls
    BY DEF Writers, On
  <2> QED
    BY <1>2, <1>3, <2>1 DEF Ended
<1>5. ASSUME NEW i, Moves(c), op[c] # "login", i = Id(c)
      PROVE  c \in Writers(i) /\ c \in Writers(i)'
  <2>1. op[c] # "none"
    BY <1>5 DEF IInv, TypeOK, Control, ControlOf, Moves, Labels
  <2>2. c \in Writers(i)
    BY <1>1, <1>5, <2>1, WritersAre DEF IInv, TypeOK, Id
  <2> QED
    BY <1>2, <2>2
<1>6. \A i, R : Moves(c) /\ op[c] # "login" /\ i = Id(c) /\ res'[c] \in R => Ended(i, R)'
  BY <1>5 DEF Ended
<1> QED
  BY <1>1, <1>2, <1>3, <1>4, <1>5, <1>6

\* A revived account has a call that said so.
LEMMA RevivedEnded ==
    ASSUME NEW i
    PROVE  /\ i \in RevivedIds <=> Revived(i)
           /\ Revived(i) => Ended(i, {"upserted"})
<1>1. i \in RevivedIds <=> Revived(i)
  BY DEF RevivedIds, Revived, On
<1>2. Revived(i) => Ended(i, {"upserted"})
  BY DEF Revived, Ended, Writers, On, AllOps
<1> QED
  BY <1>1, <1>2

\* What the effects do to the question whether an account is stored: an
\* insert adds it, and so does an update that says so; a delete leaves none of
\* the id unless an update had doubled it.
LEMMA Possession ==
    ASSUME IInv, NEW c \in Calls, Effect(c), NEW i \in Ids
    PROVE  /\ Has(i) /\ ~Has(i)' => Moves(c) /\ Removes(c) /\ i = Id(c)
           /\ ~Has(i) /\ Has(i)' =>
                 Moves(c) /\ ((Adds(c) /\ i = c) \/ (Changes(c) /\ i = Id(c) /\ res'[c] = "upserted"))
           /\ Moves(c) /\ Removes(c) /\ i = Id(c) /\ Has(i)' => Ended(i, {"upserted"})
           /\ Moves(c) /\ Adds(c) => Has(c)'
<1>1. TypeOK /\ ControlOf(c) /\ i \in Keys
  BY Constants DEF IInv, Control
<1>2. op[c] \notin {"none", "login"} => acc[c] # NoAccount /\ Id(c) \in Ids /\ Id(c) \in Keys
  BY <1>1, Rows, Constants DEF IInv, ControlOf
<1>r. op[c] \notin {"none", "login"} => Row(acc[c]) # NoAccount /\ Row(acc[c]).id = Id(c)
  BY <1>2, Rows, Constants DEF IInv, Id
<1>a. CASE accounts' = accounts /\ ~(Moves(c) /\ (Adds(c) \/ Removes(c) \/ Changes(c)))
  BY <1>a DEF Has, Stored
<1>3. CASE Moves(c) /\ Adds(c)
  <2>1. c \in Keys /\ c \in Ids /\ accounts'[c] # NoAccount /\ accounts'[c].id = c
    BY <1>1, <1>r, <1>3, Constants DEF TypeOK, Adds, ControlOf, Id
  <2>2. \A k \in Keys : k # c => accounts'[k] = accounts[k]
    BY <1>1, <1>3 DEF TypeOK, Adds
  <2>3. ~Stored(c)
    BY <1>3, Constants DEF IInv, Fresh, Keyed, BornIds, Adds
  <2>4. Has(c)' /\ (Has(i) => Has(i)') /\ (~Has(i) /\ Has(i)' => i = c)
    BY <2>1, <2>2, <2>3 DEF Has, Stored
  <2> QED
    BY <1>3, <2>4 DEF Adds, Removes
<1>4. CASE Moves(c) /\ Removes(c)
  <2>1. \A k \in Keys : accounts'[k] = IF k = Id(c) THEN NoAccount ELSE accounts[k]
    BY <1>1, <1>2, <1>4 DEF TypeOK, Removes
  <2>2. Id(c) \in Ids /\ (Stored(Id(c)) => accounts[Id(c)].id = Id(c))
    BY <1>2, <1>4 DEF Removes, IInv, Keyed
  <2>3. (Has(i)' => Has(i)) /\ (Has(i) /\ ~Has(i)' => i = Id(c))
    BY <2>1, <2>2 DEF Has, Stored
  <2>4. ASSUME i = Id(c), Has(i)' PROVE Ended(i, {"upserted"})
    <3>1. PICK k \in Keys : k # i /\ Stored(k) /\ accounts[k].id = i
      BY <2>1, <2>4 DEF Has, Stored
    <3>2. k \in Users /\ backend = "memory" /\ (Stored(i) => i \in RevivedIds)
      BY <3>1 DEF IInv, Keyed, Keys
    <3> QED
      BY <1>4, <2>4, <3>2, RevivedEnded DEF Removes, SelectsFirst
  <2> QED
    BY <1>4, <2>3, <2>4 DEF Adds, Removes
<1>5. CASE Moves(c) /\ Changes(c)
  <2>1. \A k \in Keys : accounts'[k] = IF k = Id(c) THEN Row(acc[c]) ELSE accounts[k]
    BY <1>1, <1>2, <1>5 DEF TypeOK, Changes
  <2>2. Id(c) \in Ids /\ Row(acc[c]) # NoAccount /\ Row(acc[c]).id = Id(c) /\ (Stored(Id(c)) => accounts[Id(c)].id = Id(c))
    BY <1>2, <1>r, <1>5 DEF Changes, IInv, Keyed
  <2>3. (Has(i) => Has(i)') /\ (~Has(i) /\ Has(i)' => i = Id(c) /\ ~Stored(Id(c)))
    BY <2>1, <2>2 DEF Has, Stored
  <2> QED
    BY <1>5, <2>3 DEF Adds, Removes, Changes
<1> QED
  BY <1>a, <1>3, <1>4, <1>5 DEF Effect, Begins, Moves, Keeps

-----------------------------------------------------------------------------
(* The second invariant: which secret an account has meanwhile *)

\* A secret came back by an update, or by one of two deletes that had
\* selected the same row.
Excused(i) == Ended(i, {"upserted"}) \/ (SelectsFirst /\ Ended(i, {"restored"}))

\* Nobody has a secret before its account is stored.
SecretsFresh == \A i \in Ids : secrets[i] # NoSecret => i \in BornIds

\* An account without its secret has a call that has it in its hand, or one
\* that reported it.
Paired ==
    \A i \in Ids : Has(i) /\ secrets[i] = NoSecret =>
        Ended(i, Failed) \/ \E c \in Writers(i) : pc[c] \in Hand

\* What a call has in its hand is not in the store as well.
Holds == \A c \in Calls : pc[c] \in Hand => secrets[Id(c)] = NoSecret \/ Excused(Id(c))

\* A delete that has selected a row deletes that one, or finds none.
Selected ==
    \A c \in Calls : pc[c] = "drop_secret" =>
        secrets[Id(c)] = NoSecret \/ secrets[Id(c)].by = sec[c].by \/ Excused(Id(c))

\* Two calls are near the secret of one account only if both select first and delete.
Alone ==
    \A c, d \in Calls : c # d /\ pc[c] \in Near /\ pc[d] \in Near /\ Id(c) = Id(d) =>
        Excused(Id(c)) \/ (SelectsFirst /\ op[c] = "delete" /\ op[d] = "delete")

\* An insert that is about to store the secret has its account stored.
Homed ==
    \A c \in Calls : op[c] = "insert" /\ pc[c] \in {"store_secret", "put_secret"} =>
        Has(c) \/ Excused(c)

\* A secret without an account was put there by an update or a compensation.
Orphan == \A i \in Ids : secrets[i] # NoSecret /\ ~Has(i) => Ended(i, {"upserted", "restored"})

\* After an atomic delete the secret is gone and nobody is about to store one.
Spent ==
    ~SelectsFirst => \A d \in Calls : Deleted(d) =>
        \/ Excused(Id(d))
        \/ secrets[Id(d)] = NoSecret /\ \A c \in Calls : pc[c] \in Near => Id(c) # Id(d)

SInv == IInv /\ SecretsFresh /\ Paired /\ Holds /\ Selected /\ Alone /\ Homed /\ Orphan /\ Spent

\* An excuse stays one, and a call that has just said so is one.
LEMMA Excuses ==
    ASSUME IInv, NEW c \in Calls, Effect(c)
    PROVE  /\ \A i : Excused(i) => Excused(i)'
           /\ \A i : Ended(i, {"upserted"})' => Excused(i)'
           /\ \A i : SelectsFirst /\ Ended(i, {"restored"})' => Excused(i)'
           /\ SelectsFirst' = SelectsFirst
<1>1. SelectsFirst' = SelectsFirst
  BY DEF SelectsFirst, Effect
<1>2. \A i : (Ended(i, {"upserted"}) => Ended(i, {"upserted"})') /\ (Ended(i, {"restored"}) => Ended(i, {"restored"})')
  BY Bookkeeping DEF Results
<1> QED
  BY <1>1, <1>2 DEF Excused

\* The call of a step works on an account in use, unless it is about to store it.
LEMMA AtWork ==
    ASSUME IInv, NEW c \in Calls, Moves(c), op[c] # "login"
    PROVE  /\ op[c] \notin {"none", "login"}
           /\ Id(c) \in Ids /\ acc[c] \in Account
           /\ pc[c] # "store_account" => Id(c) \in BornIds
           /\ pc[c] = "store_account" => Id(c) = c /\ c \notin BornIds
<1>1. op[c] # "none" /\ ControlOf(c) /\ TypeOK
  BY DEF IInv, TypeOK, Control, ControlOf, Moves, Labels
<1>2. Id(c) \in Ids /\ acc[c] \in Account
  BY <1>1, Rows DEF IInv
<1>3. pc[c] # "store_account" => Id(c) \in BornIds
  BY <1>1, <1>2 DEF IInv, Fresh, BornIds, ControlOf, Moves, Id
<1>4. pc[c] = "store_account" => Id(c) = c /\ c \notin BornIds
  BY <1>1, Constants DEF ControlOf, BornIds, Id
<1> QED
  BY <1>1, <1>2, <1>3, <1>4

\* What a step does to the secret of an account.
LEMMA SecretChange ==
    ASSUME SInv, NEW c \in Calls, Effect(c), Course(c), NEW i \in Ids
    PROVE  \/ secrets'[i] = secrets[i]
           \/ Moves(c) /\ i = Id(c) /\ i \in BornIds /\ op[c] # "login" /\ (Takes(c) \/ Stores(c) \/ Sets(c))
<1>1. CASE secrets' = secrets
  BY <1>1
<1>2. CASE Moves(c) /\ (Takes(c) \/ Stores(c) \/ Sets(c))
  <2>1. op[c] # "login" /\ pc[c] # "store_account"
    BY <1>2 DEF SInv, IInv, Control, ControlOf, Takes, Stores, Sets
  <2> QED
    BY <1>2, <2>1, AtWork DEF SInv, Takes, Stores, Sets, OthersKeep
<1> QED
  BY <1>1, <1>2 DEF Course, Rests, Advances, Opens, Closes, Grants, stores

\* Only an account that is stored, or was, gets a secret.
LEMMA SecretsFreshStep ==
    ASSUME SInv, NEW c \in Calls, Effect(c), Course(c)
    PROVE  SecretsFresh'
  BY SecretChange, Monotone DEF SInv, SecretsFresh, IInv

\* Where one call has the secret of an account in its hand, another one that
\* stores a secret of it or sets a missing one has an excuse.
LEMMA Appears ==
    ASSUME SInv, NEW c \in Calls, Effect(c), Moves(c), NEW d \in Calls \ {c}, NEW i,
           pc[d] \in Near, i = Id(d), i = Id(c),
           Stores(c) \/ (Sets(c) /\ ~HasSecret(c))
    PROVE  Excused(i)'
<1>1. op[c] # "login"
  BY DEF SInv, IInv, Control, ControlOf, Stores, Sets
<1>u. \A R : res'[c] \in R => Ended(i, R)'
  BY <1>1, Bookkeeping DEF SInv
<1>2. CASE Stores(c)
  <2>1. CASE Excused(i)
    BY <2>1, Excuses DEF SInv
  <2>2. CASE SelectsFirst /\ op[c] = "delete"
    <3>1. res'[c] = "restored"
      BY <1>2, <2>2 DEF Stores, SelectsFirst, LooksFirst
    <3> QED
      BY <1>u, <2>2, <3>1, Excuses DEF SInv
  <2> QED
    BY <1>2, <2>1, <2>2 DEF SInv, Alone, Stores, Near, Hand
<1>3. CASE Sets(c) /\ ~HasSecret(c)
  BY <1>u, <1>3, Excuses DEF SInv, Sets
<1> QED
  BY <1>2, <1>3

\* What a call has in its hand it took from the store, where only another
\* call with an excuse can have put one since.
LEMMA HoldsStep ==
    ASSUME SInv, NEW c \in Calls, Effect(c), Course(c)
    PROVE  Holds'
<1> SUFFICES ASSUME NEW d \in Calls, NEW i, pc'[d] \in Hand, i = acc'[d].id
             PROVE  secrets'[i] = NoSecret \/ Excused(i)'
  BY DEF Holds, Id
<1>1. op[d] \notin {"none", "login"} => i = Id(d)
  BY Bookkeeping DEF SInv, Id
<1>2. CASE d # c
  <2>1. pc[d] \in Hand /\ i = Id(d) /\ i \in Ids
    <3>1. pc[d] \in Hand /\ acc'[d] = acc[d] /\ op'[d] = op[d]
      BY <1>2 DEF Effect, Same
    <3>2. op[d] \notin {"none", "login"}
      BY <3>1 DEF SInv, IInv, Hand, Control, ControlOf
    <3>3. Id(d) \in Ids
      BY <3>2, Rows DEF SInv, IInv
    <3> QED
      BY <1>1, <3>1, <3>2, <3>3
  <2>2. CASE Excused(i)
    BY <2>2, Excuses DEF SInv
  <2>3. CASE secrets[i] = NoSecret
    BY <1>2, <2>1, <2>3, SecretChange, Appears DEF Near, Takes, HasSecret
  <2> QED
    BY <2>1, <2>2, <2>3 DEF SInv, Holds
<1>3. CASE d = c
  <2>h. pc'[c] \in Hand /\ ControlOf(c)
    BY <1>3 DEF SInv, IInv, Control
  <2>m. Moves(c) /\ ~Rests(c)
    BY <2>h DEF Course, Rests, Near
  <2>1. op[c] # "login"
    BY <2>m, Courses DEF SInv
  <2>2. i = Id(c) /\ i \in Ids
    BY <1>1, <1>3, <2>m, <2>1, AtWork DEF SInv
  <2>3. CASE Advances(c) /\ pc[c] = "store_secret"
    BY <2>2, <2>3 DEF Advances, HasSecret, stores
  <2>4. CASE Advances(c) /\ pc[c] = "delete_account"
    <3>1. secrets[i] = NoSecret \/ Excused(i)
      BY <2>2, <2>4 DEF SInv, Holds, Hand
    <3> QED
      BY <2>4, <3>1, Excuses DEF SInv, Advances, stores
  <2>5. CASE Opens(c)
    <3>1. secrets[i] = NoSecret
      BY <2>m, <2>1, <2>2, <2>5, AtWork DEF SInv, SecretsFresh, Opens, Adds
    <3> QED
      BY <2>5, <3>1 DEF Opens
  <2>6. CASE Takes(c)
    <3>1. CASE secrets'[i] = NoSecret
      BY <3>1
    <3>2. CASE pc[c] = "drop_secret" /\ secrets'[i] = secrets[i] /\ secrets[i].by # sec[c].by
      <4>1. secrets[i] = NoSecret \/ Excused(i)
        BY <2>2, <3>2 DEF SInv, Selected
      <4> QED
        BY <3>2, <4>1, Excuses DEF SInv
    <3> QED
      BY <2>2, <2>6, <3>1, <3>2 DEF Takes
  <2> QED
    BY <2>h, <2>m, <2>3, <2>4, <2>5, <2>6, Courses DEF SInv, Advances, Stores, Closes, Grants, Sets, Hand
<1> QED
  BY <1>2, <1>3

\* The same for the courses.
LEMMA Moving ==
    ASSUME IInv, NEW c \in Calls, Effect(c), Course(c), NEW i \in Ids
    PROVE  /\ Has(i) /\ ~Has(i)' => Moves(c) /\ Closes(c) /\ i = Id(c)
           /\ ~Has(i) /\ Has(i)' =>
                 Moves(c) /\ ((Opens(c) /\ i = c) \/ (i = Id(c) /\ Ended(i, {"upserted"})'))
           /\ Moves(c) /\ Closes(c) /\ i = Id(c) /\ Has(i)' => Ended(i, {"upserted"})
           /\ Moves(c) /\ Opens(c) => Has(c)'
<1>1. accounts' = accounts => (Has(i) <=> Has(i)')
  BY DEF Has, Stored
<1>2. ASSUME accounts' # accounts PROVE Moves(c) /\ op[c] # "login" /\ (Opens(c) \/ Closes(c) \/ Grants(c))
  <2>1. Moves(c)
    BY <1>2 DEF Effect, Begins
  <2> QED
    BY <1>2, <2>1, Courses DEF Rests, Advances, Takes, Stores, Sets, stores
<1>3. Has(i) /\ ~Has(i)' => Moves(c) /\ Closes(c) /\ i = Id(c)
  BY <1>1, <1>2, Possession DEF Removes, Opens, Adds, Grants, Changes
<1>4. ASSUME ~Has(i), Has(i)'
      PROVE  Moves(c) /\ ((Opens(c) /\ i = c) \/ (i = Id(c) /\ Ended(i, {"upserted"})'))
  <2>1. CASE Adds(c) /\ i = c
    BY <1>1, <1>2, <1>4, <2>1 DEF Adds, Closes, Removes, Grants, Changes
  <2>2. CASE Changes(c) /\ i = Id(c) /\ res'[c] = "upserted"
    BY <1>1, <1>2, <1>4, <2>2, Bookkeeping
  <2> QED
    BY <1>4, <2>1, <2>2, Possession, <1>1, <1>2
<1> QED
  BY <1>3, <1>4, Possession DEF Opens, Closes

\* Whoever is near a secret works on an account in use, and inserts or deletes it.
LEMMA InUse ==
    ASSUME IInv, NEW d \in Calls, pc[d] \in Near
    PROVE  /\ op[d] \in {"insert", "delete"} /\ Id(d) \in Ids /\ Id(d) \in BornIds
           /\ op[d] = "insert" => Id(d) = d /\ pc[d] \in {"store_secret", "put_secret"}
           /\ pc[d] = "drop_secret" => SelectsFirst
<1>1. ControlOf(d) /\ (op[d] \notin {"none", "login"} => Id(d) \in Ids)
  BY Rows DEF IInv, Control
<1> QED
  BY <1>1 DEF ControlOf, Near, Hand, IInv, Fresh, BornIds, Id

\* The row that a delete has selected is the one it deletes, or is gone, as long
\* as nobody stores another.
LEMMA SelectedStep ==
    ASSUME SInv, NEW c \in Calls, Effect(c), Course(c)
    PROVE  Selected'
<1> SUFFICES ASSUME NEW d \in Calls, NEW i, pc'[d] = "drop_secret", i = acc'[d].id
             PROVE  secrets'[i] = NoSecret \/ secrets'[i].by = sec'[d].by \/ Excused(i)'
  BY DEF Selected, Id
<1>1. CASE d # c
  <2>1. pc[d] = "drop_secret" /\ sec'[d] = sec[d] /\ i = Id(d)
    BY <1>1 DEF Effect, Same, Id
  <2>2. i \in Ids /\ SelectsFirst /\ pc[d] \in Near
    BY <2>1, InUse DEF SInv, Near
  <2>3. secrets[i] = NoSecret \/ secrets[i].by = sec[d].by \/ Excused(i)
    BY <2>1 DEF SInv, Selected
  <2>4. CASE secrets'[i] = secrets[i]
    BY <2>1, <2>3, <2>4, Excuses DEF SInv
  <2>5. CASE Moves(c) /\ i = Id(c) /\ Takes(c)
    BY <2>1, <2>3, <2>5, Excuses DEF SInv, Takes
  <2>6. CASE Moves(c) /\ i = Id(c) /\ (Stores(c) \/ (Sets(c) /\ ~HasSecret(c)))
    BY <1>1, <2>1, <2>2, <2>6, Appears
  <2>7. CASE Moves(c) /\ i = Id(c) /\ Sets(c) /\ HasSecret(c)
    BY <2>1, <2>2, <2>3, <2>7, Excuses DEF SInv, Sets, HasSecret
  <2> QED
    BY <2>2, <2>4, <2>5, <2>6, <2>7, SecretChange
<1>2. CASE d = c
  <2>1. Moves(c) /\ ~Rests(c)
    BY <1>2 DEF Course, Near, Rests
  <2>2. Advances(c) /\ op[c] # "login"
    BY <1>2, <2>1, Courses DEF SInv, Opens, Takes, Stores, Closes, Grants, Sets
  <2>3. i = Id(c)
    BY <1>2, <2>1, <2>2, Bookkeeping, AtWork DEF SInv, Id
  <2> QED
    BY <1>2, <2>2, <2>3 DEF Advances, stores
<1> QED
  BY <1>1, <1>2

\* A call comes near a secret that another one is near only if both select
\* first and delete, or with an excuse.
LEMMA Meets ==
    ASSUME SInv, NEW c \in Calls, Effect(c), Course(c), NEW d \in Calls \ {c}, NEW i,
           pc'[c] \in Near, pc[d] \in Near, i = acc'[c].id, i = Id(d)
    PROVE  Excused(i) \/ (SelectsFirst /\ op[c] = "delete" /\ op[d] = "delete")
<1>1. Moves(c) /\ ~Rests(c)
  BY DEF Course, Rests
<1>2. op[c] \notin {"none", "login"} /\ i = Id(c)
  BY <1>1, Courses, Bookkeeping DEF SInv, Id
<1>u. /\ op[d] \in {"insert", "delete"} /\ i \in BornIds
      /\ op[d] = "insert" => i = d /\ pc[d] \in Hand
      /\ pc[d] = "drop_secret" => SelectsFirst
  BY InUse DEF SInv, Hand
<1>h. pc[d] \in Hand /\ HasSecret(c) => Excused(i)
  BY <1>2 DEF SInv, Holds, HasSecret
<1>3. CASE pc[c] \in Near
  BY <1>2, <1>3 DEF SInv, Alone
<1>4. CASE Advances(c) /\ pc[c] = "delete_secret"
  <2>1. op[c] = "delete"
    BY <1>4 DEF SInv, IInv, Control, ControlOf
  <2> QED
    BY <1>4, <1>h, <1>u, <2>1 DEF Advances
<1>5. CASE Opens(c)
  BY <1>1, <1>2, <1>5, <1>u, AtWork DEF SInv, Opens, Adds
<1>6. CASE Takes(c) /\ pc[c] = "delete_secret"
  BY <1>6, <1>h, <1>u DEF Takes, Near
<1> QED
  BY <1>1, <1>3, <1>4, <1>5, <1>6, Courses DEF SInv, Near, Hand, Advances, Takes, Stores, Closes, Grants, Sets

\* Two calls come near one secret only as Meets allows.
LEMMA AloneStep ==
    ASSUME SInv, NEW c \in Calls, Effect(c), Course(c)
    PROVE  Alone'
<1> SUFFICES ASSUME NEW e \in Calls, NEW d \in Calls, e # d, NEW i, pc'[e] \in Near,
                    pc'[d] \in Near, i = acc'[e].id, i = acc'[d].id
             PROVE  Excused(i)' \/ (SelectsFirst' /\ op'[e] = "delete" /\ op'[d] = "delete")
  BY DEF Alone, Id
<1>0. c = e \/ c = d => Moves(c)
  BY DEF Course
<1>1. op'[e] = op[e] /\ op'[d] = op[d]
  BY <1>0 DEF Effect, Same, Moves
<1>2. CASE c = e
  <2>1. pc[d] \in Near /\ i = Id(d)
    BY <1>2 DEF Effect, Same, Id
  <2>2. Excused(i) \/ (SelectsFirst /\ op[e] = "delete" /\ op[d] = "delete")
    BY <1>2, <2>1, Meets
  <2> QED
    BY <1>1, <2>2, Excuses DEF SInv
<1>3. CASE c = d
  <2>1. pc[e] \in Near /\ i = Id(e)
    BY <1>3 DEF Effect, Same, Id
  <2>2. Excused(i) \/ (SelectsFirst /\ op[e] = "delete" /\ op[d] = "delete")
    BY <1>3, <2>1, Meets
  <2> QED
    BY <1>1, <2>2, Excuses DEF SInv
<1>4. CASE c # e /\ c # d
  <2>1. pc[e] \in Near /\ pc[d] \in Near /\ i = Id(e) /\ i = Id(d)
    BY <1>4 DEF Effect, Same, Id
  <2>2. Excused(i) \/ (SelectsFirst /\ op[e] = "delete" /\ op[d] = "delete")
    BY <2>1 DEF SInv, Alone
  <2> QED
    BY <1>1, <2>2, Excuses DEF SInv
<1> QED
  BY <1>2, <1>3, <1>4

\* Nobody removes the account of an insert that is about to store the secret:
\* to delete it takes the secret that is not there yet.
LEMMA HomedStep ==
    ASSUME SInv, NEW c \in Calls, Effect(c), Course(c)
    PROVE  Homed'
<1> SUFFICES ASSUME NEW d \in Calls, op'[d] = "insert", pc'[d] \in {"store_secret", "put_secret"}
             PROVE  Has(d)' \/ Excused(d)'
  BY DEF Homed
<1>i. d \in Ids
  BY Constants
<1>1. ASSUME op[d] = "insert", pc[d] \in {"store_secret", "put_secret"}
      PROVE  Has(d)' \/ Excused(d)'
  <2>1. CASE Excused(d)
    BY <2>1, Excuses DEF SInv
  <2>2. CASE Has(d) /\ ~Has(d)'
    <3>1. Moves(c) /\ Closes(c) /\ Id(c) = d /\ op[c] = "delete" /\ pc[c] \in Near
      BY <1>i, <2>2, Moving DEF SInv, Closes, Removes, Near, Hand
    <3>2. Id(d) = d /\ pc[d] \in Near
      BY <1>1, InUse DEF SInv, Near, Hand
    <3>3. Excused(d)
      BY <1>1, <3>1, <3>2 DEF SInv, Alone
    <3> QED
      BY <3>3, Excuses DEF SInv
  <2> QED
    BY <1>1, <2>1, <2>2 DEF SInv, Homed
<1>2. CASE d # c
  BY <1>1, <1>2 DEF Effect, Same
<1>3. CASE d = c
  <2>1. Moves(c) /\ ~Rests(c) /\ op[c] = "insert"
    BY <1>3 DEF Course, Begins, Rests, Moves, Near, Hand
  <2>2. CASE Opens(c)
    BY <1>i, <1>3, <2>1, <2>2, Moving DEF SInv
  <2>3. pc[c] # "delete_account"
    BY <2>1 DEF SInv, IInv, Control, ControlOf
  <2> QED
    BY <1>1, <1>3, <2>1, <2>2, <2>3, Courses DEF SInv, Advances, Takes, Stores, Closes, Grants, Sets
<1> QED
  BY <1>2, <1>3

\* A delete removes the account after its secret, an insert stores it before.
LEMMA OrphanStep ==
    ASSUME SInv, NEW c \in Calls, Effect(c), Course(c)
    PROVE  Orphan'
<1> SUFFICES ASSUME NEW i \in Ids, secrets'[i] # NoSecret, ~Has(i)'
             PROVE  Ended(i, {"upserted", "restored"})'
  BY DEF Orphan
<1>x. ASSUME Excused(i)' PROVE Ended(i, {"upserted", "restored"})'
  BY <1>x DEF Excused, Ended
<1>u. ASSUME Moves(c), i = Id(c), op[c] # "login", res'[c] \in {"upserted", "restored"}
      PROVE  Ended(i, {"upserted", "restored"})'
  BY <1>u, Bookkeeping DEF SInv
<1>1. CASE secrets[i] # NoSecret /\ ~Has(i)
  BY <1>1, Bookkeeping DEF SInv, Orphan, Results
<1>2. CASE secrets[i] # NoSecret /\ Has(i)
  <2>1. Moves(c) /\ Closes(c) /\ i = Id(c)
    BY <1>2, Moving DEF SInv
  <2>2. Excused(i)
    BY <1>2, <2>1 DEF SInv, Holds, Closes, Hand
  <2> QED
    BY <1>x, <2>2, Excuses DEF SInv
<1>3. CASE secrets[i] = NoSecret
  <2>1. Moves(c) /\ i = Id(c) /\ op[c] # "login" /\ (Stores(c) \/ Sets(c))
    BY <1>3, SecretChange DEF Takes
  <2>2. CASE Stores(c) /\ op[c] = "insert"
    <3>1. i = c /\ (Has(i) \/ Excused(i))
      BY <2>1, <2>2 DEF SInv, Homed, Stores, IInv, Control, ControlOf, Id
    <3>2. accounts' = accounts
      BY <2>2 DEF Stores
    <3>3. Has(i) => Has(i)'
      BY <3>2 DEF Has, Stored
    <3> QED
      BY <1>x, <3>1, <3>3, Excuses DEF SInv
  <2>3. res'[c] \in {"upserted", "restored"} \/ (Stores(c) /\ op[c] = "insert")
    BY <1>3, <2>1 DEF Stores, Sets, HasSecret
  <2> QED
    BY <1>u, <2>1, <2>2, <2>3
<1> QED
  BY <1>1, <1>2, <1>3

\* When an atomic delete returns Ok it was the only call near the secret, and
\* afterwards there is none to come near to.
LEMMA SpentStep ==
    ASSUME SInv, NEW c \in Calls, Effect(c), Course(c)
    PROVE  Spent'
<1> SUFFICES ASSUME ~SelectsFirst, NEW d \in Calls, Deleted(d)', NEW i, i = acc'[d].id, ~Excused(i)'
             PROVE  secrets'[i] = NoSecret /\ \A e \in Calls : pc'[e] \in Near => acc'[e].id # i
  BY Excuses DEF SInv, Spent, Id
<1>1. ~Excused(i)
  BY Excuses DEF SInv
<1>2. CASE d # c
  <2>1. Deleted(d) /\ i = Id(d)
    BY <1>2, Monotone DEF SInv, IInv, Effect, Same, Id
  <2>2. i \in Ids /\ i \in BornIds
    BY <2>1, Rows DEF SInv, IInv, Fresh, Control, ControlOf, Deleted, Id
  <2>3. secrets[i] = NoSecret /\ \A e \in Calls : pc[e] \in Near => Id(e) # i
    BY <1>1, <2>1 DEF SInv, Spent
  <2>4. secrets'[i] = NoSecret
    <3>1. CASE Moves(c) /\ i = Id(c) /\ op[c] # "login" /\ Sets(c)
      BY <1>1, <2>3, <3>1, Bookkeeping, Excuses DEF SInv, Sets, HasSecret
    <3> QED
      BY <2>2, <2>3, <3>1, SecretChange DEF Takes, Stores, Near, Hand, HasSecret
  <2>5. ASSUME pc'[c] \in Near, acc'[c].id = i PROVE FALSE
    <3>1. Moves(c) /\ ~Rests(c)
      BY <2>5 DEF Course, Rests
    <3>2. op[c] \notin {"none", "login"} /\ i = Id(c)
      BY <2>5, <3>1, Courses, Bookkeeping DEF SInv, Id
    <3>3. ~Opens(c)
      BY <2>2, <3>1, <3>2, AtWork DEF SInv, Opens, Adds
    <3> QED
      BY <2>3, <2>5, <3>1, <3>2, <3>3, Courses DEF SInv, Near, Hand, Advances, Takes, Stores, Closes, Grants, Sets, HasSecret
  <2> QED
    BY <2>3, <2>4, <2>5 DEF Effect, Same, Id
<1>3. CASE d = c
  <2>1. Moves(c) /\ Removes(c) /\ acc'[c] = acc[c] /\ i = Id(c) /\ i \in Ids
    BY <1>3, Monotone, AtWork DEF SInv, IInv, Removes, Id
  <2>2. res'[c] = "ok"
    BY <1>3 DEF Deleted
  <2>3. Closes(c)
    BY <2>1, <2>2, Courses DEF SInv, Removes, Rests, Advances, Opens, Adds, Takes, Stores, Grants, Changes, Sets
  <2>4. pc[c] \in Hand /\ secrets' = secrets /\ pc'[c] \notin Near
    BY <2>3 DEF Closes, Hand, Near
  <2>5. secrets[i] = NoSecret /\ \A e \in Calls \ {c} : pc[e] \in Near => Id(e) # i
    BY <1>1, <2>1, <2>4 DEF SInv, Holds, Alone, Near
  <2> QED
    BY <2>4, <2>5 DEF Effect, Same, Id
<1> QED
  BY <1>2, <1>3

\* While an account is without its secret, the call that has it in its hand
\* puts it back, removes the account too, or reports a failure.
LEMMA PairedStep ==
    ASSUME SInv, NEW c \in Calls, Effect(c), Course(c)
    PROVE  Paired'
<1> SUFFICES ASSUME NEW i \in Ids, Has(i)', secrets'[i] = NoSecret, ~Ended(i, Failed)'
             PROVE  \E e \in Writers(i)' : pc'[e] \in Hand
  BY DEF Paired
<1>u. ASSUME Moves(c), i = Id(c), op[c] # "login" PROVE res'[c] \notin Failed /\ c \in Writers(i)'
  BY <1>u, Bookkeeping DEF SInv
<1>v. ~Ended(i, {"upserted"})' /\ ~Ended(i, {"upserted"})
  <2>1. ~Ended(i, {"upserted"})'
    BY DEF Ended, Failed
  <2> QED
    BY <2>1, Bookkeeping DEF SInv, Results
<1>1. CASE Has(i) /\ secrets[i] = NoSecret
  <2>1. ~Ended(i, Failed)
    BY Bookkeeping DEF SInv, Results, Failed
  <2>2. PICK e \in Writers(i) : pc[e] \in Hand
    BY <1>1, <2>1 DEF SInv, Paired
  <2>3. e \in Calls /\ e \in Writers(i)' /\ i = Id(e) /\ op[e] # "login"
    BY <2>2, Bookkeeping, WritersAre DEF SInv, Id
  <2>4. CASE e # c
    BY <2>2, <2>3, <2>4 DEF Effect, Same
  <2>5. CASE e = c
    <3>1. Moves(c)
      BY <2>2, <2>5 DEF Hand, Course, Begins
    <3>2. ~Rests(c)
      BY <1>u, <2>2, <2>3, <2>5, <3>1 DEF Rests
    <3>3. ~Closes(c)
      BY <1>v, <2>3, <2>5, <3>1, Moving DEF SInv
    <3>4. ~Stores(c) /\ ~Sets(c)
      <4>1. NewRow(c) # NoSecret \/ ~Stores(c)
        BY Rows, Constants DEF SInv, IInv, Control, ControlOf, Stores, Secret, NewRow
      <4> QED
        BY <2>3, <2>5, <4>1 DEF Stores, Sets
    <3> QED
      BY <2>2, <2>3, <2>5, <3>1, <3>2, <3>3, <3>4, Courses DEF SInv, Hand, Advances, Opens, Adds, Takes, Grants
  <2> QED
    BY <2>4, <2>5
<1>2. CASE ~Has(i)
  <2>1. Moves(c) /\ Opens(c) /\ i = c
    BY <1>2, <1>v, Moving DEF SInv
  <2>2. i = Id(c) /\ op[c] # "login"
    BY <2>1, AtWork DEF SInv, Opens, Adds
  <2> QED
    BY <1>u, <2>1, <2>2 DEF Opens, Failed, Hand
<1>3. CASE secrets[i] # NoSecret
  <2>1. Moves(c) /\ i = Id(c) /\ op[c] # "login" /\ (Takes(c) \/ Stores(c))
    BY <1>3, SecretChange DEF Sets
  <2>2. ~Stores(c)
    BY <2>1, Rows, Constants DEF SInv, IInv, Control, ControlOf, Stores, Secret, NewRow
  <2> QED
    BY <1>u, <2>1, <2>2 DEF Takes, Hand
<1> QED
  BY <1>1, <1>2, <1>3

\* In the first state exactly the seeds have an account and a secret.
LEMMA InitSInv == Init => SInv
<1> SUFFICES ASSUME Init PROVE SInv
  OBVIOUS
<1>1. IInv
  BY InitInv
<1>2. \A c \in Calls : pc[c] = "idle" /\ ~Deleted(c)
  BY DEF Init, Deleted
<1>3. \A i \in Ids : secrets[i] # NoSecret => i \in BornIds
  BY DEF Init, BornIds
<1>4. \A i \in Ids : Has(i) <=> i \in SeedIds
  <2>1. PICK preloaded \in SUBSET Seeds : accounts = InitialAccounts(preloaded)
    BY DEF Init
  <2>2. \A s \in Seeds : InitialKey(s, preloaded) \in Keys
    BY Constants DEF InitialKey
  <2>3. \A s, t \in Seeds : InitialKey(s, preloaded) = InitialKey(t, preloaded) => s = t
    BY Constants, ConstantsAssumption DEF InitialKey
  <2>4. \A k \in Keys : Stored(k) => accounts[k] \in Seeds
    BY <2>1 DEF Stored, InitialAccounts
  <2>5. \A s \in Seeds : Stored(InitialKey(s, preloaded)) /\ accounts[InitialKey(s, preloaded)] = s
    BY <2>1, <2>2, <2>3, Constants DEF InitialAccounts, Stored
  <2> QED
    BY <2>2, <2>4, <2>5 DEF Has, SeedIds
<1>5. \A i \in Ids : secrets[i] # NoSecret <=> i \in SeedIds
  BY Constants DEF Init, Secret
<1> QED
  BY <1>1, <1>2, <1>3, <1>4, <1>5 DEF SInv, SecretsFresh, Paired, Holds, Selected, Alone, Homed, Orphan, Spent, Near, Hand

\* A step of any call keeps the second invariant as well.
LEMMA NextSInv == SInv /\ [Next]_vars => SInv'
<1> SUFFICES ASSUME SInv, [Next]_vars PROVE SInv'
  OBVIOUS
<1>0. IInv'
  BY NextInv DEF SInv
<1>1. CASE Next
  <2>1. PICK c \in Calls : Action(c)
    BY <1>1 DEF Next, Action
  <2>2. Effect(c) /\ Course(c)
    BY <2>1, EffectStep, CourseStep DEF SInv, IInv
  <2> QED
    BY <1>0, <2>2, SecretsFreshStep, PairedStep, HoldsStep, SelectedStep, AloneStep, HomedStep, OrphanStep, SpentStep DEF SInv
<1>2. CASE UNCHANGED vars
  <2> USE <1>2 DEF vars
  <2>1. /\ \A i : (Has(i) <=> Has(i)') /\ (Excused(i) <=> Excused(i)')
        /\ \A i, R : Ended(i, R) <=> Ended(i, R)'
        /\ \A i : Writers(i) = Writers(i)'
        /\ BornIds = BornIds' /\ SelectsFirst = SelectsFirst'
    BY DEF Has, Stored, Excused, Ended, Writers, On, BornIds, SelectsFirst
  <2>2. SecretsFresh' /\ Paired' /\ Orphan'
    BY <2>1 DEF SInv, SecretsFresh, Paired, Orphan
  <2>3. Holds' /\ Selected' /\ Alone' /\ Homed' /\ Spent'
    BY <2>1 DEF SInv, Holds, Selected, Alone, Homed, Spent, Id, Deleted
  <2> QED
    BY <1>0, <2>2, <2>3 DEF SInv
<1> QED
  BY <1>1, <1>2

-----------------------------------------------------------------------------
(* The theorems of the second invariant *)

\* The second invariant holds of every reachable state.
THEOREM SecretsInvariance == Spec => []SInv
  BY InitSInv, NextSInv, PTL DEF Spec

\* For every number of calls and on every backend: an account that no call is
\* working on has its secret, unless a call that wrote it has reported a failure,
\* was dropped, or put the account back with an in-memory update.
THEOREM AccountsArePaired == Spec => []PairedUnlessReported
<1>1. ASSUME SInv PROVE PairedUnlessReported
  <2>1. \A i : Quiet(i) => \A c \in Writers(i) : pc[c] \notin Hand
    BY DEF Quiet, Hand
  <2> QED
    BY <1>1, <2>1 DEF SInv, Paired, PairedUnlessReported, Failed
<1> QED
  BY <1>1, SecretsInvariance, PTL

\* At any moment a secret has an account, unless an in-memory update or a
\* delete's compensation has stored it.
THEOREM SecretsAreOwned == Spec => []NoOrphanSecret
<1>1. SInv => NoOrphanSecret
  BY DEF SInv, Orphan, NoOrphanSecret
<1> QED
  BY <1>1, SecretsInvariance, PTL

\* Where delete_secret removes and returns in one step, the secret of an
\* account whose deletion returned Ok is gone, unless an update put it back.
THEOREM DeletionTakesSecret == Spec => []AtomicDeletionRemovesSecret
<1>1. SInv => AtomicDeletionRemovesSecret
  BY DEF SInv, Spent, Excused, AtomicDeletionRemovesSecret, DeletionRemovesSecret, SelectsFirst, Id
<1> QED
  BY <1>1, SecretsInvariance, PTL

-----------------------------------------------------------------------------
(* The third invariant: what a change or an insert that was answered with  *)
(* Ok has left in the stores                                               *)

\* The passwords and the roles that may be found after call d has set its
\* own: these, or those of a call that had not returned when d started.
KeptPassword(d, p) ==
    \/ p = pw[d]
    \/ \E e \in (On(Id(d), "set_password") \cup On(Id(d), "insert")) \ {d} :
          e \notin before[d] /\ pw[e] = p

KeptRoles(d, r) ==
    \/ r = Row(acc[d]).roles
    \/ \E e \in On(Id(d), "set_roles") \ {d} : e \notin before[d] /\ Row(acc[e]).roles = r

Overwritten(i) == Ended(i, {"overwrote", "restored"})

PasswordSet(d) == op[d] = "set_password" /\ res[d] \in {"ok", "upserted"}
RolesSet(d)    == op[d] = "set_roles" /\ res[d] = "ok"

\* A stored secret has a kept password.
SecretsKept ==
    \A d \in Calls : PasswordSet(d) /\ secrets[Id(d)] # NoSecret =>
        KeptPassword(d, secrets[Id(d)].pw) \/ Overwritten(Id(d))

\* A login that succeeds later has used one.
LoginsKept ==
    \A c, d \in Calls :
        PasswordSet(d) /\ d \in before[c] /\ op[c] = "login" /\ res[c] = "ok" /\ Id(c) = Id(d) =>
            KeptPassword(d, pw[c]) \/ Overwritten(Id(d))

\* Every stored copy of the account has kept roles.
AccountsKept ==
    \A d \in Calls, k \in Keys :
        RolesSet(d) /\ Stored(k) /\ accounts[k].id = Id(d) =>
            KeptRoles(d, accounts[k].roles) \/ Id(d) \in RevivedIds

\* So has every copy that a later login has read.
ReadsKept ==
    \A c, d \in Calls :
        RolesSet(d) /\ d \in before[c] /\ op[c] = "login" /\ acc[c] # NoAccount /\ Id(c) = Id(d) =>
            KeptRoles(d, acc[c].roles) \/ Id(d) \in RevivedIds

\* An insert keeps the password that it was given.
InsertsKeep == \A c \in Calls : op[c] = "insert" => sec[c].pw = pw[c]

\* An account belongs to the user of the seed or of the insert that made it.
OriginOf(a) ==
    \/ \E s \in Seeds : s.id = a.id /\ s.user = a.user
    \/ \E e \in Calls : op[e] = "insert" /\ e = a.id /\ acc[e].user = a.user

Origin ==
    /\ \A k \in Keys : Stored(k) => OriginOf(accounts[k])
    /\ \A c \in Calls : acc[c] # NoAccount => OriginOf(acc[c])

\* What an insert has stored stays as long as nothing else writes the account.
Untouched(d) == op[d] = "insert" /\ Writers(d) = {d}

InsertsStay ==
    \A d \in Calls : Untouched(d) =>
        /\ pc[d] \in {"store_secret", "put_secret"} \/ res[d] = "ok" => accounts[d] = Row(acc[d])
        /\ res[d] = "ok" => secrets[d] # NoSecret /\ secrets[d].pw = pw[d]

\* The insert d had returned Ok when login c of its user started, and no
\* other account is that user's.
Undisputed(c, d) ==
    /\ Untouched(d) /\ res[d] = "ok" /\ d \in before[c]
    /\ who[c] = acc[d].user
    /\ \A s \in Seeds : s.user # who[c]
    /\ \A e \in Calls \ {d} : op[e] = "insert" => acc[e].user # who[c]

\* Such a login has found the account, and fails for another password only.
LoginFinds ==
    \A c, d \in Calls : op[c] = "login" /\ Undisputed(c, d) =>
        /\ pc[c] = "verify" => acc[c] # NoAccount /\ Id(c) = d
        /\ pw[c] = pw[d] => res[c] # "invalid"

PInv ==
    /\ SInv /\ SecretsKept /\ LoginsKept /\ AccountsKept /\ ReadsKept
    /\ InsertsKeep /\ Origin /\ InsertsStay /\ LoginFinds

\* What a login answers, and what it has read when it goes on.
LEMMA Answers ==
    ASSUME TypeOK, Control, NEW c \in Calls, Action(c), op[c] = "login"
    PROVE  /\ res'[c] = "ok" => pc[c] = "verify" /\ Verified(c) /\ acc'[c] = acc[c]
           /\ res'[c] = "invalid" => pc[c] = "verify" /\ ~Verified(c) /\ acc'[c] = acc[c]
           /\ pc'[c] = "verify" =>
                 \/ acc'[c] # NoAccount /\ \E k \in Keys :
                       Stored(k) /\ acc'[c] = accounts[k] /\ accounts[k].user = who[c]
                 \/ acc'[c] = NoAccount /\ \A k \in Keys : Stored(k) => accounts[k].user # who[c]
<1>1. ControlOf(c) /\ pc[c] \in Labels
  BY DEF Control, TypeOK
<1>2. pc[c] \in {"query_account", "verify", "done"}
  BY <1>1 DEF ControlOf, Labels
<1>3. QueryAccount(c) \/ Verify(c) \/ Cancel(c)
  BY <1>2 DEF Action, StartCall, Step, At, Start, InsertStart, DeleteStart, SetRolesStart, SetPasswordStart, LoginStart, StoreAccount, HashFails, StoreSecret, PutNewSecret, DeleteSecret, DropSecret, DeleteAccount, DropAccount, UpdateAccount, WriteAccount, UpdateSecret, WriteSecret
<1> USE <1>1 DEF ControlOf, TypeOK, At, Goto, Return
<1>4. CASE QueryAccount(c)
  BY <1>4 DEF QueryAccount, Stored
<1>5. CASE Verify(c)
  BY <1>5 DEF Verify
<1>6. CASE Cancel(c)
  BY <1>6 DEF Cancel
<1> QED
  BY <1>3, <1>4, <1>5, <1>6

\* Who works on an account works on it for good; what was kept is kept.
LEMMA KeptGrows ==
    ASSUME IInv, NEW c \in Calls, Effect(c), NEW d \in Calls, op[d] \notin {"none", "login"}
    PROVE  /\ \A i : \A kind \in AllOps \ {"login"} : On(i, kind) \subseteq On(i, kind)'
           /\ \A p : KeptPassword(d, p) => KeptPassword(d, p)'
           /\ \A r : op[d] = "set_roles" /\ KeptRoles(d, r) => KeptRoles(d, r)'
           /\ \A e \in Calls : op[e] \in {"insert", "set_roles"} => Row(acc[e])' = Row(acc[e])
           /\ \A i : Overwritten(i) => Overwritten(i)'
<1>0. Id(d)' = Id(d) /\ pw'[d] = pw[d] /\ before'[d] = before[d]
  BY Bookkeeping DEF Id
<1>1. \A i : \A kind \in AllOps \ {"login"} : On(i, kind) \subseteq On(i, kind)'
  BY Bookkeeping DEF On, AllOps
<1>2. \A e \in Calls : op[e] \in {"insert", "set_roles"} => Row(acc[e])' = Row(acc[e])
  BY Bookkeeping DEF Row, Effect
<1>3. \A i : Overwritten(i) => Overwritten(i)'
  BY Bookkeeping DEF Overwritten, Results
<1>4. \A e \in Calls : op[e] \in {"insert", "set_password"} => pw'[e] = pw[e]
  BY Bookkeeping
<1>5. ASSUME NEW p, KeptPassword(d, p) PROVE KeptPassword(d, p)'
  BY <1>0, <1>1, <1>4, <1>5 DEF KeptPassword, On, AllOps
<1>6. ASSUME NEW r, op[d] = "set_roles", KeptRoles(d, r) PROVE KeptRoles(d, r)'
  BY <1>0, <1>1, <1>2, <1>6 DEF KeptRoles, On, AllOps
<1> QED
  BY <1>1, <1>2, <1>3, <1>5, <1>6

\* A call that is not done set what it sets after every earlier one.
LEMMA Later ==
    ASSUME IInv, NEW c \in Calls, Effect(c), Moves(c), NEW d \in Calls, op[d] \notin {"none", "login"}, Id(c) = Id(d)
    PROVE  /\ op[c] \in {"set_password", "insert"} => KeptPassword(d, pw[c])
           /\ op[c] = "set_roles" => KeptRoles(d, Row(acc[c]).roles)
<1>1. c \notin before[d]
  BY DEF IInv, Returned, Moves
<1>2. acc[c] # NoAccount \/ op[c] \in {"none", "login"}
  BY DEF IInv, Control, ControlOf
<1>3. op[c] \in {"set_password", "insert"} => KeptPassword(d, pw[c])
  BY <1>1, <1>2 DEF KeptPassword, On, Id
<1>4. op[c] = "set_roles" => KeptRoles(d, Row(acc[c]).roles)
  BY <1>1, <1>2 DEF KeptRoles, On, Id
<1> QED
  BY <1>3, <1>4

\* A call that has set something had set it before this step, or does so now.
LEMMA HadSet ==
    ASSUME IInv, NEW c \in Calls, Effect(c), NEW d \in Calls,
           op'[d] \notin {"none", "login"}, res'[d] # "none"
    PROVE  /\ op[d] = op'[d] /\ acc[d] # NoAccount /\ Id(d) \in Ids /\ acc'[d].id = Id(d)
           /\ d = c => Moves(c)
           /\ d # c => res[d] = res'[d] /\ pc[d] = "done"
<1>1. d = c => Moves(c)
  BY DEF Effect, Begins, IInv, Control, ControlOf
<1>2. op[d] = op'[d]
  BY <1>1 DEF Effect, Same, Moves
<1>3. acc[d] # NoAccount /\ Id(d) \in Ids /\ acc'[d].id = Id(d)
  BY <1>2, Rows, Bookkeeping DEF IInv, Control, ControlOf, Id
<1>4. d # c => res[d] = res'[d] /\ pc[d] = "done"
  BY DEF Effect, Same, IInv, Control, ControlOf
<1> QED
  BY <1>1, <1>2, <1>3, <1>4

\* The secret of an insert is set when it starts and never again.
LEMMA InsertsKeepStep ==
    ASSUME PInv, NEW c \in Calls, Effect(c), Course(c)
    PROVE  InsertsKeep'
<1> SUFFICES ASSUME NEW d \in Calls, op'[d] = "insert" PROVE sec'[d].pw = pw'[d]
  BY DEF InsertsKeep
<1>1. CASE d # c
  BY <1>1 DEF PInv, InsertsKeep, Effect, Same
<1>2. CASE d = c /\ Moves(c)
  BY <1>2, Courses DEF PInv, SInv, InsertsKeep, Moves
<1> QED
  BY <1>1, <1>2 DEF Course

\* The secret of an account whose password was changed is overwritten by
\* another change or by the account's insert, or a call says so.
LEMMA SecretsKeptStep ==
    ASSUME PInv, NEW c \in Calls, Effect(c), Course(c)
    PROVE  SecretsKept'
<1> SUFFICES ASSUME NEW d \in Calls, PasswordSet(d)', NEW i, i = acc'[d].id,
                    secrets'[i] # NoSecret, NEW p, p = secrets'[i].pw
             PROVE  KeptPassword(d, p)' \/ Overwritten(i)'
  BY DEF SecretsKept, Id
<1>i. IInv /\ SInv
  BY DEF PInv, SInv
<1>1. /\ op[d] = "set_password" /\ i \in Ids /\ i = Id(d)
      /\ d = c => Moves(c)
      /\ d # c => PasswordSet(d)
  BY <1>i, HadSet DEF PasswordSet
<1>k. KeptPassword(d, p) \/ Overwritten(i) => KeptPassword(d, p)' \/ Overwritten(i)'
  BY <1>i, <1>1, KeptGrows
<1>2. CASE Moves(c) /\ i = Id(c) /\ Stores(c)
  <2>1. op[c] \in {"insert", "delete"} /\ p = sec[c].pw
    BY <1>i, <1>2 DEF IInv, Control, ControlOf, Stores, NewRow
  <2>2. CASE op[c] = "insert"
    BY <1>i, <1>1, <1>2, <1>k, <2>1, <2>2, Later DEF PInv, InsertsKeep
  <2>3. CASE op[c] = "delete"
    BY <1>i, <1>2, <2>3, Bookkeeping DEF Stores, Overwritten
  <2> QED
    BY <2>1, <2>2, <2>3
<1>3. CASE Moves(c) /\ i = Id(c) /\ Sets(c)
  BY <1>i, <1>1, <1>3, <1>k, Later DEF Sets
<1>4. CASE secrets'[i] = secrets[i]
  <2>1. CASE d # c
    BY <1>1, <1>k, <1>4, <2>1 DEF PInv, SecretsKept
  <2>2. CASE d = c
    <3>1. Sets(c)
      <4>1. Moves(c) /\ op[c] = "set_password" /\ res'[c] \in {"ok", "upserted"} /\ res'[c] # "none"
        BY <1>1, <2>2 DEF PasswordSet
      <4>2. pc'[c] = "done" /\ ~Rests(c)
        BY <1>i, <4>1, Courses DEF Rests
      <4> QED
        BY <1>i, <4>1, <4>2, Courses DEF Advances, Opens, Adds, Takes, Stores, Closes, Removes, Grants, Changes, IInv, Control, ControlOf
    <3> QED
      BY <1>1, <1>3, <2>2, <3>1
  <2> QED
    BY <2>1, <2>2
<1>5. CASE Moves(c) /\ i = Id(c) /\ Takes(c)
  BY <1>4, <1>5 DEF Takes
<1> QED
  BY <1>i, <1>1, <1>2, <1>3, <1>4, <1>5, SecretChange

\* A login verifies against the secret that is stored.
LEMMA LoginsKeptStep ==
    ASSUME PInv, NEW c \in Calls, Effect(c), Course(c), Action(c)
    PROVE  LoginsKept'
<1> SUFFICES ASSUME NEW e \in Calls, NEW d \in Calls, PasswordSet(d)', d \in before'[e],
                    op'[e] = "login", res'[e] = "ok", NEW i, i = acc'[d].id, i = acc'[e].id,
                    NEW p, p = pw'[e]
             PROVE  KeptPassword(d, p)' \/ Overwritten(i)'
  BY DEF LoginsKept, Id
<1>i. IInv /\ SInv /\ TypeOK /\ Control
  BY DEF PInv, SInv, IInv
<1>1. op[d] = "set_password" /\ i \in Ids /\ i = Id(d)
  BY <1>i, HadSet DEF PasswordSet
<1>2. e = c => Moves(c)
  BY <1>i DEF Effect, Begins, Control, ControlOf
<1>3. op[e] = "login" /\ d \in before[e] /\ p = pw[e]
  BY <1>2 DEF Effect, Same, Moves
<1>4. PasswordSet(d)
  BY <1>i, <1>3, Monotone DEF IInv, Returned, PasswordSet, Same
<1>k. KeptPassword(d, p) \/ Overwritten(i) => KeptPassword(d, p)' \/ Overwritten(i)'
  BY <1>i, <1>1, KeptGrows
<1>5. CASE e # c
  BY <1>1, <1>3, <1>4, <1>5, <1>k DEF PInv, LoginsKept, Effect, Same, Id
<1>6. CASE e = c
  <2>1. Verified(c) /\ acc'[c] = acc[c]
    BY <1>i, <1>3, <1>6, Answers
  <2>2. secrets[i] # NoSecret /\ secrets[i].pw = p
    BY <1>3, <1>6, <2>1 DEF Verified, Id
  <2> QED
    BY <1>1, <1>4, <1>k, <2>2 DEF PInv, SecretsKept
<1> QED
  BY <1>5, <1>6

\* A stored account's roles are replaced by another change only; a change that
\* returns Ok has replaced those of the only copy, unless an update had made two.
LEMMA AccountsKeptStep ==
    ASSUME PInv, NEW c \in Calls, Effect(c), Course(c)
    PROVE  AccountsKept'
<1> SUFFICES ASSUME NEW d \in Calls, NEW k \in Keys, RolesSet(d)', NEW i, i = acc'[d].id,
                    Stored(k)', accounts'[k].id = i, NEW r, r = accounts'[k].roles,
                    i \notin RevivedIds'
             PROVE  KeptRoles(d, r)'
  BY DEF AccountsKept, Id
<1>i. IInv /\ SInv /\ TypeOK /\ Control
  BY DEF PInv, SInv, IInv
<1>1. /\ op[d] = "set_roles" /\ i \in Ids /\ i = Id(d)
      /\ d = c => Moves(c)
      /\ d # c => RolesSet(d)
  BY <1>i, HadSet DEF RolesSet
<1>2. i \notin RevivedIds /\ i \in BornIds
  BY <1>i, <1>1, Monotone DEF IInv, Fresh, Control, ControlOf, Id
<1>k. KeptRoles(d, r) => KeptRoles(d, r)'
  BY <1>i, <1>1, KeptGrows
<1>3. CASE Stored(k) /\ accounts'[k] = accounts[k] /\ d # c
  BY <1>1, <1>2, <1>3, <1>k DEF PInv, AccountsKept
<1>4. CASE k = Id(c) /\ op[c] = "set_roles" /\ accounts'[k] = Row(acc[c]) /\ i = Id(c) /\ Moves(c)
  BY <1>i, <1>1, <1>4, <1>k, Later
<1>5. ASSUME Moves(c), Changes(c), k = Id(c) PROVE accounts'[k] = Row(acc[c]) /\ i = Id(c)
  <2>1. accounts'[k] = Row(acc[c])
    BY <1>i, <1>5 DEF Changes, TypeOK
  <2>2. acc[c] # NoAccount
    BY <1>i, <1>5 DEF Changes, Control, ControlOf
  <2> QED
    BY <1>i, <2>1, <2>2, Rows DEF Id
<1>6. CASE d = c
  <2>1. Grants(c) /\ Moves(c) /\ res'[c] = "ok" /\ op[c] = "set_roles"
    <3>1. Moves(c) /\ op[c] = "set_roles" /\ res'[c] = "ok"
      BY <1>1, <1>6 DEF RolesSet
    <3>2. pc'[c] = "done" /\ ~Rests(c)
      BY <1>i, <3>1, Courses DEF Rests
    <3> QED
      BY <1>i, <3>1, <3>2, Courses DEF Advances, Opens, Adds, Takes, Stores, Closes, Removes, Sets, Control, ControlOf
  <2>2. Stored(i)
    BY <1>1, <1>6, <2>1 DEF Grants, Changes
  <2>3. k = i
    <3>1. CASE k \in Ids
      BY <1>i, <3>1, OneEntry, Constants DEF IInv, Keyed, Id
    <3>2. CASE k \in Users
      <4>1. Stored(k) /\ accounts'[k] = accounts[k]
        BY <1>i, <3>2, OneEntry, Constants
      <4> QED
        BY <1>i, <1>2, <2>2, <3>2, <4>1 DEF IInv, Keyed
    <3> QED
      BY <3>1, <3>2 DEF Keys
  <2> QED
    BY <1>1, <1>4, <1>5, <1>6, <2>1, <2>3 DEF Grants
<1>7. CASE d # c
  <2>1. CASE k = c /\ accounts'[k].id = c /\ c \notin BornIds
    BY <1>2, <2>1
  <2>2. CASE k = Id(c) /\ op[c] = "set_roles" /\ accounts'[k] # accounts[k]
    <3>1. Moves(c) /\ Changes(c)
      BY <1>i, <2>2 DEF Effect, Begins, Moves, Keeps, Adds, Removes
    <3> QED
      BY <1>4, <1>5, <2>2, <3>1
  <2> QED
    BY <1>3, <1>7, <2>1, <2>2, <1>i, OneEntry DEF Stored
<1> QED
  BY <1>6, <1>7

\* A login reads a stored copy.
LEMMA ReadsKeptStep ==
    ASSUME PInv, NEW c \in Calls, Effect(c)
    PROVE  ReadsKept'
<1> SUFFICES ASSUME NEW e \in Calls, NEW d \in Calls, RolesSet(d)', d \in before'[e],
                    op'[e] = "login", acc'[e] # NoAccount, NEW i, i = acc'[d].id, i = acc'[e].id,
                    NEW r, r = acc'[e].roles, i \notin RevivedIds'
             PROVE  KeptRoles(d, r)'
  BY DEF ReadsKept, Id
<1>i. IInv /\ SInv /\ TypeOK /\ Control
  BY DEF PInv, SInv, IInv
<1>1. op[d] = "set_roles" /\ i = Id(d) /\ i \notin RevivedIds
  BY <1>i, HadSet, Monotone DEF RolesSet
<1>2. e # c \/ Moves(c)
  BY DEF Effect, Begins
<1>3. op[e] = "login" /\ d \in before[e]
  BY <1>2 DEF Effect, Same, Moves
<1>4. RolesSet(d)
  BY <1>i, <1>3, Monotone DEF IInv, Returned, RolesSet, Same
<1>k. KeptRoles(d, r) => KeptRoles(d, r)'
  BY <1>i, <1>1, KeptGrows
<1>5. CASE acc'[e] = acc[e]
  BY <1>1, <1>3, <1>4, <1>5, <1>k DEF PInv, ReadsKept, Id
<1>6. CASE \E k \in Keys : Stored(k) /\ acc'[e] = accounts[k]
  BY <1>1, <1>4, <1>6, <1>k DEF PInv, AccountsKept
<1> QED
  BY <1>2, <1>3, <1>5, <1>6 DEF Effect, Same, Moves, Keeps, Reads

\* Accounts are made by inserts, and change neither their id nor their user.
LEMMA OriginStep ==
    ASSUME PInv, NEW c \in Calls, Effect(c), Course(c)
    PROVE  Origin'
<1>i. IInv /\ SInv /\ TypeOK /\ Control
  BY DEF PInv, SInv, IInv
<1>g. ASSUME NEW a, NEW b, OriginOf(a), b.id = a.id, b.user = a.user PROVE OriginOf(b)'
  BY <1>i, <1>g, Bookkeeping DEF OriginOf
<1>1. ASSUME NEW k \in Keys, Stored(k)' PROVE OriginOf(accounts[k])'
  <2>1. CASE Stored(k) /\ accounts'[k] = accounts[k]
    BY <1>g, <2>1 DEF PInv, Origin
  <2>2. CASE Moves(c) /\ (Adds(c) \/ Changes(c)) /\ accounts'[k] = Row(acc[c])
    <3>1. acc[c] # NoAccount
      BY <1>i, <2>2 DEF Adds, Changes, Control, ControlOf
    <3> QED
      BY <1>i, <1>g, <2>2, <3>1, Rows DEF PInv, Origin
  <2>3. CASE Moves(c) /\ Removes(c)
    BY <1>1, <2>1, <2>3, <1>i DEF Removes, TypeOK, Stored
  <2> QED
    BY <1>i, <1>1, <2>1, <2>2, <2>3 DEF Effect, Begins, Moves, Keeps, Adds, Changes, TypeOK, Stored
<1>2. ASSUME NEW d \in Calls, acc'[d] # NoAccount PROVE OriginOf(acc[d])'
  <2>1. CASE acc'[d] = acc[d]
    BY <1>2, <1>g, <2>1 DEF PInv, Origin
  <2>2. CASE \E k \in Keys : Stored(k) /\ acc'[d].id = accounts[k].id /\ acc'[d].user = accounts[k].user
    BY <1>g, <2>2 DEF PInv, Origin
  <2>3. CASE d = c /\ op'[c] = "insert" /\ acc'[c].id = c
    BY <2>3 DEF OriginOf
  <2>4. CASE d = c /\ Begins(c)
    BY <1>2, <2>2, <2>3, <2>4 DEF Begins, Course, Moves
  <2>5. CASE d = c /\ op[c] = "delete" /\ Stored(Id(c)) /\ acc'[c] = accounts[Id(c)]
    <3>1. Id(c) \in Keys
      BY <1>i, <2>5, Rows, Constants DEF Control, ControlOf
    <3> QED
      BY <2>2, <2>5, <3>1
  <2> QED
    BY <1>2, <2>1, <2>2, <2>4, <2>5 DEF Effect, Same, Moves, Keeps, Reads
<1> QED
  BY <1>1, <1>2 DEF Origin

\* A call that writes an account, or its secret, is one of its writers.
LEMMA InsertsStayStep ==
    ASSUME PInv, NEW c \in Calls, Effect(c), Course(c)
    PROVE  InsertsStay'
<1> SUFFICES ASSUME NEW d \in Calls, Untouched(d)',
                    pc'[d] \in {"store_secret", "put_secret"} \/ res'[d] = "ok"
             PROVE  /\ accounts'[d] = Row(acc[d])'
                    /\ res'[d] = "ok" => secrets'[d] # NoSecret /\ secrets'[d].pw = pw'[d]
  BY DEF InsertsStay
<1>i. IInv /\ SInv /\ TypeOK /\ Control
  BY DEF PInv, SInv, IInv
<1>d. d \in Ids /\ d \in Keys
  BY Constants
<1>1. op[d] = "insert" /\ (d = c => Moves(c))
  BY <1>i DEF Effect, Same, Begins, Moves, Untouched, Control, ControlOf, Course, Near, Hand
<1>2. /\ Id(d) = d /\ Row(acc[d])' = Row(acc[d]) /\ pw'[d] = pw[d]
      /\ Untouched(d)
  <2>1. Id(d) = d /\ acc[d] # NoAccount
    BY <1>i, <1>1 DEF Control, ControlOf, Id
  <2>2. d \in Writers(d)
    BY <1>1, <2>1, WritersAre DEF AllOps, Id
  <2>3. Writers(d) = {d}
    BY <1>i, <2>2, Bookkeeping DEF Untouched
  <2> QED
    BY <1>i, <1>1, <2>1, <2>3, KeptGrows, Bookkeeping DEF Untouched
<1>3. CASE d # c
  <2>1. ~(Moves(c) /\ op[c] # "login" /\ Id(c) = d)
    BY <1>i, <1>3, Bookkeeping DEF Untouched
  <2>2. secrets'[d] = secrets[d]
    BY <1>d, <2>1, SecretChange DEF PInv
  <2>3. accounts'[d] = accounts[d]
    BY <1>i, <1>d, <1>3, <2>1 DEF Effect, Begins, Moves, Keeps, Adds, Removes, Changes, TypeOK
  <2> QED
    BY <1>2, <1>3, <2>2, <2>3 DEF PInv, InsertsStay, Effect, Same
<1>4. CASE d = c
  <2>1. Moves(c) /\ op[c] = "insert" /\ ControlOf(c)
    BY <1>i, <1>1, <1>4 DEF Control
  <2>2. CASE Opens(c)
    <3>1. res'[c] # "ok"
      BY <1>i, <2>1, <2>2, Courses DEF Opens
    <3>2. accounts'[c] = Row(acc[c])
      BY <1>i, <1>d, <1>4, <2>2 DEF Opens, Adds, TypeOK
    <3> QED
      BY <1>2, <1>4, <3>1, <3>2
  <2>3. CASE Advances(c)
    <3>1. res'[c] # "ok"
      BY <1>i, <2>1, <2>3, Courses DEF Advances
    <3> QED
      BY <1>2, <1>4, <2>1, <2>3, <3>1 DEF PInv, InsertsStay, Advances, ControlOf, stores
  <2>4. CASE Stores(c)
    <3>1. secrets'[c] = NewRow(c) /\ NewRow(c) # NoSecret /\ NewRow(c).pw = pw[c] /\ accounts' = accounts
      BY <1>i, <1>2, <1>4, <2>1, <2>4, Rows, Constants DEF Stores, NewRow, PInv, InsertsKeep, ControlOf
    <3> QED
      BY <1>2, <1>4, <2>1, <2>4, <3>1 DEF PInv, InsertsStay, Stores
  <2>5. Opens(c) \/ Advances(c) \/ Stores(c)
    <3>1. ~Rests(c)
      BY <1>4, <2>1 DEF Rests, Near, Hand
    <3> QED
      BY <1>i, <2>1, <3>1, Courses DEF ControlOf, Takes, Closes, Removes, Grants, Changes, Sets
  <2> QED
    BY <2>2, <2>3, <2>4, <2>5
<1> QED
  BY <1>3, <1>4

\* A login of the only account of its user finds that account, and in the
\* end the secret that its insert has stored.
LEMMA LoginFindsStep ==
    ASSUME PInv, NEW c \in Calls, Effect(c), Course(c), Action(c)
    PROVE  LoginFinds'
<1> SUFFICES ASSUME NEW e \in Calls, NEW d \in Calls, op'[e] = "login", Undisputed(e, d)'
             PROVE  /\ pc'[e] = "verify" => acc'[e] # NoAccount /\ acc'[e].id = d
                    /\ pw'[e] = pw'[d] => res'[e] # "invalid"
  BY DEF LoginFinds, Id
<1>i. IInv /\ SInv /\ TypeOK /\ Control
  BY DEF PInv, SInv, IInv
<1>1. CASE e = c /\ ~Moves(c)
  BY <1>i, <1>1 DEF Course, Begins, Control, ControlOf
<1>2. CASE e # c \/ Moves(c)
  <2>1. op[e] = "login" /\ d \in before[e] /\ who'[e] = who[e] /\ pw'[e] = pw[e]
    BY <1>2 DEF Effect, Same, Moves, Undisputed
  <2>2. d # c /\ Same(d) /\ op[d] = "insert"
    BY <1>i, <2>1, Monotone DEF IInv, Returned, Undisputed, Untouched, Same
  <2>3. Id(d) = d /\ d \in Ids /\ d \in Keys /\ acc[d] # NoAccount
    BY <1>i, <2>2, Constants DEF Control, ControlOf, Id
  <2>4. Untouched(d)
    <3>1. d \in Writers(d)
      BY <2>2, <2>3, WritersAre DEF AllOps, Id
    <3> QED
      BY <1>i, <2>2, <3>1, Bookkeeping DEF Untouched, Undisputed
  <2>5. Undisputed(e, d)
    <3>1. \A f \in Calls \ {d} : op[f] = "insert" => acc[f].user # who[e]
      BY <1>i, <2>1, Bookkeeping DEF Undisputed
    <3> QED
      BY <2>1, <2>2, <2>4, <3>1 DEF Undisputed, Same
  <2>6. CASE e # c
    BY <2>1, <2>2, <2>5, <2>6 DEF PInv, LoginFinds, Effect, Same, Id
  <2>7. CASE e = c
    <3>1. accounts[d] = Row(acc[d]) /\ secrets[d] # NoSecret /\ secrets[d].pw = pw[d]
      BY <2>4, <2>5 DEF PInv, InsertsStay, Undisputed
    <3>2. Stored(d) /\ accounts[d].user = who[c]
      BY <1>i, <2>3, <2>5, <2>7, <3>1, Rows, Constants DEF Undisputed, Stored
    <3>3. \A k \in Keys : Stored(k) /\ accounts[k].user = who[c] => accounts[k].id = d
      BY <2>5, <2>7 DEF PInv, Origin, OriginOf, Undisputed
    <3>4. pc'[c] = "verify" => acc'[c] # NoAccount /\ acc'[c].id = d
      BY <1>i, <2>1, <2>3, <2>7, <3>2, <3>3, Answers
    <3>5. ASSUME pw'[c] = pw'[d], res'[c] = "invalid" PROVE FALSE
      <4>1. pc[c] = "verify" /\ ~Verified(c)
        BY <1>i, <2>1, <2>7, <3>5, Answers
      <4>2. acc[c] # NoAccount /\ Id(c) = d
        BY <2>1, <2>5, <2>7, <4>1 DEF PInv, LoginFinds
      <4> QED
        BY <2>1, <2>2, <2>7, <3>1, <3>5, <4>1, <4>2 DEF Verified, Same
    <3> QED
      BY <2>7, <3>4, <3>5
  <2> QED
    BY <2>6, <2>7
<1> QED
  BY <1>1, <1>2

\* In the first state no call has set anything, and every account is a seed.
LEMMA InitPInv == Init => PInv
<1> SUFFICES ASSUME Init PROVE PInv
  OBVIOUS
<1>1. SInv
  BY InitSInv
<1>2. \A c \in Calls : op[c] = "none" /\ acc[c] = NoAccount /\ before[c] = {}
  BY DEF Init
<1>3. \A k \in Keys : Stored(k) => accounts[k] \in Seeds
  <2>1. PICK preloaded \in SUBSET Seeds : accounts = InitialAccounts(preloaded)
    BY DEF Init
  <2> QED
    BY <2>1 DEF Stored, InitialAccounts
<1> QED
  BY <1>1, <1>2, <1>3 DEF PInv, SecretsKept, LoginsKept, AccountsKept, ReadsKept, InsertsKeep, Origin, OriginOf, InsertsStay, LoginFinds, PasswordSet, RolesSet, Untouched

\* A step of any call keeps the third invariant as well.
LEMMA NextPInv == PInv /\ [Next]_vars => PInv'
<1> SUFFICES ASSUME PInv, [Next]_vars PROVE PInv'
  OBVIOUS
<1>0. SInv'
  BY NextSInv DEF PInv
<1>1. CASE Next
  <2>1. PICK c \in Calls : Action(c)
    BY <1>1 DEF Next, Action
  <2>2. Effect(c) /\ Course(c)
    BY <2>1, EffectStep, CourseStep DEF PInv, SInv, IInv
  <2> QED
    BY <1>0, <2>1, <2>2, SecretsKeptStep, LoginsKeptStep, AccountsKeptStep, ReadsKeptStep, InsertsKeepStep, OriginStep, InsertsStayStep, LoginFindsStep DEF PInv
<1>2. CASE UNCHANGED vars
  <2> USE <1>2 DEF vars
  <2>1. /\ \A d : (PasswordSet(d) <=> PasswordSet(d)') /\ (RolesSet(d) <=> RolesSet(d)')
        /\ \A i : Overwritten(i) <=> Overwritten(i)'
        /\ \A i, kind : On(i, kind) = On(i, kind)'
        /\ \A i : Writers(i) = Writers(i)'
        /\ \A a : (OriginOf(a) <=> OriginOf(a)') /\ Row(a) = Row(a)'
        /\ RevivedIds = RevivedIds'
    BY DEF PasswordSet, RolesSet, Overwritten, Ended, Writers, On, OriginOf, Row, RevivedIds
  <2>2. \A d, p : (KeptPassword(d, p) <=> KeptPassword(d, p)') /\ (KeptRoles(d, p) <=> KeptRoles(d, p)')
    BY <2>1 DEF KeptPassword, KeptRoles, Id
  <2>3. SecretsKept' /\ LoginsKept'
    BY <2>1, <2>2 DEF PInv, SecretsKept, LoginsKept, Id
  <2>4. AccountsKept' /\ ReadsKept'
    BY <2>1, <2>2 DEF PInv, AccountsKept, ReadsKept, Id, Stored
  <2>5. InsertsKeep' /\ Origin' /\ InsertsStay'
    BY <2>1 DEF PInv, InsertsKeep, Origin, InsertsStay, Untouched, Stored
  <2>6. LoginFinds'
    BY <2>1 DEF PInv, LoginFinds, Undisputed, Untouched, Id
  <2> QED
    BY <1>0, <2>3, <2>4, <2>5, <2>6 DEF PInv
<1> QED
  BY <1>1, <1>2

-----------------------------------------------------------------------------
(* The theorems of the third invariant *)

\* The third invariant holds of every reachable state.
THEOREM PromisesInvariance == Spec => []PInv
  BY InitPInv, NextPInv, PTL DEF Spec

\* However the calls interleave: a login that starts after a password change
\* returned Ok succeeds with that password, with one of a later or concurrent
\* change or of the account's own insert still running, or after a call that
\* has put another secret back or reported that it overwrote one.
THEOREM PasswordChangesStick == Spec => []PasswordChangeSticks
<1>1. PInv => PasswordChangeSticks
  BY DEF PInv, SInv, IInv, Control, ControlOf, LoginsKept, KeptPassword, PasswordSet, Overwritten, PasswordChangeSticks, On, Id
<1> QED
  BY <1>1, PromisesInvariance, PTL

\* A login that starts after a change of roles returned Ok gets a token with
\* those roles or with ones that a later or concurrent change set, unless an
\* in-memory update had made a second entry of the account.
THEOREM RoleChangesStick == Spec => []RoleChangeSticks
<1>1. ASSUME PInv PROVE RoleChangeSticks
  <2>1. Control
    BY <1>1 DEF PInv, SInv, IInv
  <2>2. \A c \in Calls : op[c] = "login" /\ res[c] = "ok" => acc[c] # NoAccount
    BY <2>1 DEF Control, ControlOf
  <2> QED
    BY <1>1, <2>2, RevivedEnded DEF PInv, ReadsKept, KeptRoles, RolesSet, RoleChangeSticks, On, Id
<1> QED
  BY <1>1, PromisesInvariance, PTL

\* When an insert has returned Ok, nothing else writes that account and no
\* other is its user's, a login with its password is never rejected as invalid.
THEOREM InsertedLogsIn == Spec => []InsertedCanLogin
<1>1. PInv => InsertedCanLogin
  BY DEF PInv, LoginFinds, Undisputed, Untouched, InsertedCanLogin
<1> QED
  BY <1>1, PromisesInvariance, PTL
=============================================================================
