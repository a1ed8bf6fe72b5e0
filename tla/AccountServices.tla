--------------------------- MODULE AccountServices ---------------------------
(***************************************************************************)
(* The account services of axum-gate over their two repositories.          *)
(*                                                                         *)
(* An account and its password hash live in two repositories that share    *)
(* nothing but the account's id.  AccountInsertService and                 *)
(* AccountDeleteService write both, one after the other and without a      *)
(* transaction; LoginService reads both, one after the other; an           *)
(* application changes one of them directly (update_account,               *)
(* update_secret).  Each call is a task of an asynchronous runtime, so any *)
(* other call may run between two of its awaits, and its caller may drop   *)
(* it there (a client that hangs up).                                      *)
(*                                                                         *)
(* The three shipped backends differ in which accesses are atomic:         *)
(*   memory    a HashMap behind a RwLock: store_secret looks under the     *)
(*             read lock and inserts under the write lock                  *)
(*   seaorm    SQL: deletes and updates are a SELECT, then a statement by  *)
(*             primary key, outside any transaction                        *)
(*   surreal   one statement per operation                                 *)
(***************************************************************************)
CONSTANTS
    Calls,          \* the service calls of a behaviour; each runs once
    Users,          \* login identifiers (Account::user_id)
    Passwords,      \* plain passwords; a hash is verified by its own password only
    Roles,          \* what an account may be given: roles, groups and permissions
    Unparsable,     \* those whose lists their CSV columns do not give back
    InColumns,      \* what is left of each in an SQL row: no permissions
    Seeds,          \* the accounts that exist when the behaviour starts
    SeedPassword,   \* and their password
    Backends,       \* the repository implementations considered
    Ops,            \* the kinds of calls made
    NoAccount,      \* None, for an account
    NoSecret,       \* None, for a secret
    Seed            \* the origin of a secret that no call of the behaviour inserted

SeedIds == {s.id : s \in Seeds}

\* Account::new draws a fresh UUID: the account that call c creates has the id c.
Ids == SeedIds \cup Calls

\* The keys of the account store: ids, and user ids for an in-memory
\* repository that was built from a list of accounts.
Keys == Ids \cup Users

Account == [id : Ids, user : Users, roles : Roles]

\* A stored hash; "by" is the call that inserted the row and stands for the
\* row's surrogate primary key.
Secret == [pw : Passwords, by : Calls \cup {Seed}]

AllOps == {"insert", "delete", "set_roles", "set_password", "login"}

ASSUME ConstantsAssumption ==
    /\ Seeds \subseteq Account
    /\ \A s, t \in Seeds : (s.id = t.id \/ s.user = t.user) => s = t
    /\ SeedIds \cap Calls = {}
    /\ Users \cap Ids = {}
    /\ SeedPassword \in Passwords
    /\ Unparsable \subseteq Roles
    /\ InColumns \in [Roles -> Roles]
    /\ \A r \in Roles : r \in Unparsable <=> InColumns[r] \in Unparsable
    /\ \A s \in Seeds : s.roles \notin Unparsable /\ InColumns[s.roles] = s.roles
    /\ Backends \subseteq {"memory", "seaorm", "surreal"}
    /\ Ops \subseteq AllOps
    /\ NoAccount \notin Account
    /\ NoSecret \notin Secret
    /\ Seed \notin Calls

VARIABLES
    backend,    \* the implementation both repositories come from; never changes
    accounts,   \* the account repository: key -> account or NoAccount
    secrets,    \* the secret repository: id -> secret or NoSecret
    pc,         \* where each call stands: the await it is about to make
    op,         \* the service each call is a call of
    acc,        \* the account each call works on
    sec,        \* the secret each call holds
    pw,         \* the password each call was given
    who,        \* the user id each login was given
    res,        \* how each call ended
    before      \* history: the calls that had returned when this one started

stores == <<accounts, secrets>>
args   == <<op, pw, who, before>>
vars   == <<backend, accounts, secrets, pc, op, acc, sec, pw, who, res, before>>

Labels == {"idle", "store_account", "store_secret", "put_secret",
           "delete_secret", "drop_secret", "delete_account", "drop_account",
           "update_account", "write_account", "update_secret", "write_secret",
           "query_account", "verify", "done"}

\* Which Ok or Err a call returned.  "upserted" is an Ok whose write created
\* an entry that was not there; "overwrote" an Err whose write replaced one.
Results == {"none", "ok", "upserted", "missing", "account_err", "hash_err",
            "secret_err", "overwrote", "secret_missing", "restored",
            "restore_err", "err", "invalid", "internal", "cancelled"}

TypeOK ==
    /\ backend \in Backends
    /\ accounts \in [Keys -> Account \cup {NoAccount}]
    /\ secrets \in [Ids -> Secret \cup {NoSecret}]
    /\ pc \in [Calls -> Labels]
    /\ op \in [Calls -> AllOps \cup {"none"}]
    /\ acc \in [Calls -> Account \cup {NoAccount}]
    /\ sec \in [Calls -> Secret \cup {NoSecret}]
    /\ pw \in [Calls -> Passwords]
    /\ who \in [Calls -> Users \cup {NoAccount}]
    /\ res \in [Calls -> Results]
    /\ before \in [Calls -> SUBSET Calls]

-----------------------------------------------------------------------------
(* What the backends differ in *)

\* Mutant of SelectsFirst: SurrealDB deletes in two statements as well.
SelectsFirstInEveryDatabase == backend # "memory"

SelectsFirst == backend = "seaorm"     \* delete and update are two statements
Upserts      == backend = "memory"     \* an update inserts what is missing
LooksFirst   == backend = "memory"     \* store_secret checks, then inserts
CanFail      == backend # "memory"     \* a database access may return Err

\* A row of accounts is turned into an Account by parsing its CSV columns.
Loads(a) == backend = "seaorm" => a.roles \notin Unparsable

\* What the account store makes of an account it is given: an SQL row has
\* columns for the roles and the groups and none for the permissions.
Row(a) == IF backend = "seaorm" THEN [a EXCEPT !.roles = InColumns[@]] ELSE a

Stored(k) == accounts[k] # NoAccount

-----------------------------------------------------------------------------
(* Initial stores: the accounts made earlier, each with its secret.  An    *)
(* in-memory account store built with From<Vec<Account>> keys by user_id.  *)

InitialKey(s, preloaded) == IF s \in preloaded THEN s.user ELSE s.id

InitialAccounts(preloaded) ==
    [k \in Keys |->
        IF \E s \in Seeds : InitialKey(s, preloaded) = k
        THEN CHOOSE s \in Seeds : InitialKey(s, preloaded) = k
        ELSE NoAccount]

Init ==
    /\ backend \in Backends
    /\ \E preloaded \in SUBSET Seeds :
          /\ preloaded # {} => backend = "memory"
          /\ accounts = InitialAccounts(preloaded)
    /\ secrets = [i \in Ids |-> IF i \in SeedIds
                                THEN [pw |-> SeedPassword, by |-> Seed]
                                ELSE NoSecret]
    /\ pc = [c \in Calls |-> "idle"]
    /\ op = [c \in Calls |-> "none"]
    /\ acc = [c \in Calls |-> NoAccount]
    /\ sec = [c \in Calls |-> NoSecret]
    /\ pw = [c \in Calls |-> SeedPassword]
    /\ who = [c \in Calls |-> NoAccount]
    /\ res = [c \in Calls |-> "none"]
    /\ before = [c \in Calls |-> {}]

-----------------------------------------------------------------------------
(* Building blocks of a call's steps *)

Goto(c, label) ==
    /\ pc' = [pc EXCEPT ![c] = label]
    /\ UNCHANGED res

Return(c, result) ==
    /\ pc' = [pc EXCEPT ![c] = "done"]
    /\ res' = [res EXCEPT ![c] = result]

At(c, label) == pc[c] = label /\ UNCHANGED <<backend, args>>

Start(c, kind, label) ==
    /\ kind \in Ops
    /\ pc[c] = "idle"
    /\ op' = [op EXCEPT ![c] = kind]
    /\ before' = [before EXCEPT ![c] = {d \in Calls : pc[d] = "done"}]
    /\ Goto(c, label)
    /\ UNCHANGED <<backend, stores>>

PutAccount(k, a) == accounts' = [accounts EXCEPT ![k] = a]
PutSecret(i, s)  == secrets' = [secrets EXCEPT ![i] = s]
Id(c) == acc[c].id

-----------------------------------------------------------------------------
(* AccountInsertService::into_repositories *)

InsertStart(c, u, r, p) ==
    /\ Start(c, "insert", "store_account")
    /\ acc' = [acc EXCEPT ![c] = [id |-> c, user |-> u, roles |-> r]]
    /\ sec' = [sec EXCEPT ![c] = [pw |-> p, by |-> c]]
    /\ pw' = [pw EXCEPT ![c] = p]
    /\ UNCHANGED who

\* store_account(account).await?: the row is written before it is read back,
\* so an account that does not load is stored and reported as an error.
StoreAccount(c) ==
    /\ At(c, "store_account")
    /\ \/ /\ PutAccount(c, Row(acc[c]))
          /\ IF Loads(acc[c]) THEN Goto(c, "store_secret")
                              ELSE Return(c, "account_err")
       \/ CanFail /\ Return(c, "account_err") /\ UNCHANGED accounts
    /\ UNCHANGED <<secrets, acc, sec>>

\* Secret::new(...)?: hashing fails after the account was stored.
HashFails(c) ==
    /\ At(c, "store_secret")
    /\ op[c] = "insert"
    /\ Return(c, "hash_err")
    /\ UNCHANGED <<stores, acc, sec>>

\* Mutant of StoreSecretErr: the insert ignores what store_secret answered.
InsertIgnoresErr(c) == Return(c, IF op[c] = "insert" THEN "ok" ELSE "restore_err")

\* store_secret failed: what that means to the service that called it.
StoreSecretErr(c) == Return(c, IF op[c] = "insert" THEN "secret_err" ELSE "restore_err")
StoreSecretOk(c)  == Return(c, IF op[c] = "insert" THEN "ok" ELSE "restored")

\* Mutant of NewRow: the row's columns are swapped.
NewRowSwapped(c) == [pw |-> c, by |-> sec[c].pw]

NewRow(c) == [pw |-> sec[c].pw, by |-> c]

\* store_secret(secret).await, called by an insert for its new secret and by
\* a delete for the secret it puts back.  The in-memory store only looks here.
StoreSecret(c) ==
    /\ At(c, "store_secret")
    /\ \/ /\ secrets[Id(c)] # NoSecret
          /\ StoreSecretErr(c)
          /\ UNCHANGED secrets
       \/ /\ secrets[Id(c)] = NoSecret
          /\ LooksFirst
          /\ Goto(c, "put_secret")
          /\ UNCHANGED secrets
       \/ /\ secrets[Id(c)] = NoSecret
          /\ ~LooksFirst
          /\ PutSecret(Id(c), NewRow(c))
          /\ StoreSecretOk(c)
       \/ /\ CanFail
          /\ StoreSecretErr(c)
          /\ UNCHANGED secrets
    /\ UNCHANGED <<accounts, acc, sec>>

\* The in-memory store_secret, under its write lock: the secret is inserted
\* whatever is there by now, and only then is the old one noticed.
PutNewSecret(c) ==
    /\ At(c, "put_secret")
    /\ PutSecret(Id(c), NewRow(c))
    /\ IF secrets[Id(c)] = NoSecret THEN StoreSecretOk(c) ELSE Return(c, "overwrote")
    /\ UNCHANGED <<accounts, acc, sec>>

-----------------------------------------------------------------------------
(* AccountDeleteService::from_repositories *)

\* The caller passes an account that it has read from the repository.
DeleteStart(c, k) ==
    /\ Stored(k) /\ Loads(accounts[k])
    /\ Start(c, "delete", "delete_secret")
    /\ acc' = [acc EXCEPT ![c] = accounts[k]]
    /\ UNCHANGED <<sec, pw, who>>

\* Mutant of RemoveSecret: the secret is returned and stays.
PeekSecret(c) == UNCHANGED secrets

RemoveSecret(c) == PutSecret(Id(c), NoSecret)

\* delete_secret(account_id).await?
DeleteSecret(c) ==
    /\ At(c, "delete_secret")
    /\ \/ /\ secrets[Id(c)] = NoSecret
          /\ Return(c, "secret_missing")
          /\ UNCHANGED <<secrets, sec>>
       \/ /\ secrets[Id(c)] # NoSecret
          /\ sec' = [sec EXCEPT ![c] = secrets[Id(c)]]
          /\ IF SelectsFirst
             THEN Goto(c, "drop_secret") /\ UNCHANGED secrets
             ELSE Goto(c, "delete_account") /\ RemoveSecret(c)
       \/ /\ CanFail
          /\ Return(c, "secret_err")
          /\ UNCHANGED <<secrets, sec>>
    /\ UNCHANGED <<accounts, acc>>

SameRow(c) == secrets[Id(c)] # NoSecret /\ secrets[Id(c)].by = sec[c].by

\* SeaORM: DELETE by the primary key that was selected; that no row is left
\* to delete is not an error.
DropSecret(c) ==
    /\ At(c, "drop_secret")
    /\ \/ /\ PutSecret(Id(c), IF SameRow(c) THEN NoSecret ELSE secrets[Id(c)])
          /\ Goto(c, "delete_account")
       \/ Return(c, "secret_err") /\ UNCHANGED secrets
    /\ UNCHANGED <<accounts, acc, sec>>

\* Mutants of AccountMissing: no secret is put back; a missing account is a success.
GiveUp(c)  == Return(c, "missing")
Succeed(c) == Return(c, "ok")

\* delete_account answered None: the secret is put back.
AccountMissing(c) == Goto(c, "store_secret")

\* delete_account(account_id).await?: None puts the secret back, Err does not.
DeleteAccount(c) ==
    /\ At(c, "delete_account")
    /\ \/ /\ ~Stored(Id(c))
          /\ AccountMissing(c)
          /\ UNCHANGED <<accounts, acc>>
       \/ /\ Stored(Id(c))
          /\ IF SelectsFirst
             THEN /\ Goto(c, "drop_account")
                  /\ acc' = [acc EXCEPT ![c] = accounts[Id(c)]]
                  /\ UNCHANGED accounts
             ELSE /\ Return(c, "ok")
                  /\ PutAccount(Id(c), NoAccount)
                  /\ UNCHANGED acc
       \/ /\ CanFail
          /\ Return(c, "account_err")
          /\ UNCHANGED <<accounts, acc>>
    /\ UNCHANGED <<secrets, sec>>

\* SeaORM: DELETE by primary key, then the selected row is turned into an Account.
DropAccount(c) ==
    /\ At(c, "drop_account")
    /\ \/ /\ PutAccount(Id(c), NoAccount)
          /\ Return(c, IF Loads(acc[c]) THEN "ok" ELSE "account_err")
       \/ Return(c, "account_err") /\ UNCHANGED accounts
    /\ UNCHANGED <<secrets, acc, sec>>

-----------------------------------------------------------------------------
(* An application changes the roles of an account that it has read *)

SetRolesStart(c, k, r) ==
    /\ Stored(k) /\ Loads(accounts[k])
    /\ Start(c, "set_roles", "update_account")
    /\ acc' = [acc EXCEPT ![c] = [accounts[k] EXCEPT !.roles = r]]
    /\ UNCHANGED <<sec, pw, who>>

\* Mutant of WriteRoles: the column "roles" is not set.
WriteOldRoles(c) == PutAccount(Id(c), [acc[c] EXCEPT !.roles = accounts[Id(c)].roles])

WriteRoles(c) == PutAccount(Id(c), Row(acc[c]))

\* update_account(account).await
UpdateAccount(c) ==
    /\ At(c, "update_account")
    /\ \/ /\ Upserts
          /\ PutAccount(Id(c), acc[c])
          /\ Return(c, IF Stored(Id(c)) THEN "ok" ELSE "upserted")
       \/ /\ ~Upserts /\ ~Stored(Id(c))
          /\ Return(c, "missing")
          /\ UNCHANGED accounts
       \/ /\ ~Upserts /\ Stored(Id(c))
          /\ IF SelectsFirst
             THEN Goto(c, "write_account") /\ UNCHANGED accounts
             ELSE Return(c, "ok") /\ WriteRoles(c)
       \/ /\ CanFail
          /\ Return(c, "err")
          /\ UNCHANGED accounts
    /\ UNCHANGED <<secrets, acc, sec>>

\* SeaORM: UPDATE by primary key; no row left is an error, and so is a row
\* that does not load after it was written.
WriteAccount(c) ==
    /\ At(c, "write_account")
    /\ \/ /\ Stored(Id(c))
          /\ WriteRoles(c)
          /\ Return(c, IF Loads(acc[c]) THEN "ok" ELSE "err")
       \/ Return(c, "err") /\ UNCHANGED accounts
    /\ UNCHANGED <<secrets, acc, sec>>

-----------------------------------------------------------------------------
(* An application changes the password of an account that it has read *)

SetPasswordStart(c, k, p) ==
    /\ Stored(k) /\ Loads(accounts[k])
    /\ Start(c, "set_password", "update_secret")
    /\ acc' = [acc EXCEPT ![c] = accounts[k]]
    /\ pw' = [pw EXCEPT ![c] = p]
    /\ UNCHANGED <<sec, who>>

\* Mutant of WritePassword: the row is written back unchanged.
WriteOldPassword(c) == UNCHANGED secrets

WritePassword(c) == PutSecret(Id(c), [secrets[Id(c)] EXCEPT !.pw = pw[c]])

\* update_secret(secret).await: memory inserts a missing secret, SurrealDB
\* silently does nothing, SeaORM reports an error.
UpdateSecret(c) ==
    /\ At(c, "update_secret")
    /\ \/ /\ Upserts
          /\ PutSecret(Id(c), [pw |-> pw[c], by |-> c])
          /\ Return(c, IF secrets[Id(c)] = NoSecret THEN "upserted" ELSE "ok")
          /\ UNCHANGED sec
       \/ /\ ~Upserts /\ secrets[Id(c)] = NoSecret
          /\ Return(c, IF SelectsFirst THEN "err" ELSE "missing")
          /\ UNCHANGED <<secrets, sec>>
       \/ /\ ~Upserts /\ secrets[Id(c)] # NoSecret
          /\ IF SelectsFirst
             THEN /\ Goto(c, "write_secret")
                  /\ sec' = [sec EXCEPT ![c] = secrets[Id(c)]]
                  /\ UNCHANGED secrets
             ELSE /\ Return(c, "ok")
                  /\ WritePassword(c)
                  /\ UNCHANGED sec
       \/ /\ CanFail
          /\ Return(c, "err")
          /\ UNCHANGED <<secrets, sec>>
    /\ UNCHANGED <<accounts, acc>>

\* SeaORM: UPDATE by the primary key that was selected.
WriteSecret(c) ==
    /\ At(c, "write_secret")
    /\ \/ /\ SameRow(c)
          /\ WritePassword(c)
          /\ Return(c, "ok")
       \/ Return(c, "err") /\ UNCHANGED secrets
    /\ UNCHANGED <<accounts, acc, sec>>

-----------------------------------------------------------------------------
(* LoginService::authenticate *)

LoginStart(c, u, p) ==
    /\ Start(c, "login", "query_account")
    /\ who' = [who EXCEPT ![c] = u]
    /\ pw' = [pw EXCEPT ![c] = p]
    /\ UNCHANGED <<acc, sec>>

\* query_account_by_user_id(user_id).await: any account of that user; Err
\* returns at once.
QueryAccount(c) ==
    LET found == {accounts[k] : k \in {j \in Keys : Stored(j) /\ accounts[j].user = who[c]}}
    IN  /\ At(c, "query_account")
        /\ \/ \E a \in found :
                 /\ acc' = [acc EXCEPT ![c] = IF Loads(a) THEN a ELSE NoAccount]
                 /\ IF Loads(a) THEN Goto(c, "verify") ELSE Return(c, "internal")
           \/ found = {} /\ Goto(c, "verify") /\ UNCHANGED acc
           \/ CanFail /\ Return(c, "internal") /\ UNCHANGED acc
        /\ UNCHANGED <<stores, sec>>

\* The user was found, and the secret stored under the account's id by now
\* is that of the given password.
Verified(c) ==
    /\ acc[c] # NoAccount
    /\ secrets[Id(c)] # NoSecret
    /\ secrets[Id(c)].pw = pw[c]

\* verify_credentials(...).await, and the token minted from the account read
\* before it.  The repository or the codec may fail.
Verify(c) ==
    /\ At(c, "verify")
    /\ \/ Return(c, IF Verified(c) THEN "ok" ELSE "invalid")
       \/ (CanFail \/ Verified(c)) /\ Return(c, "internal")
    /\ UNCHANGED <<stores, acc, sec>>

-----------------------------------------------------------------------------
\* The caller drops the future of a call that waits at an await.
Cancel(c) ==
    /\ pc[c] \notin {"idle", "done"}
    /\ Return(c, "cancelled")
    /\ UNCHANGED <<backend, stores, args, acc, sec>>

StartCall(c) ==
    \/ \E u \in Users, r \in Roles, p \in Passwords : InsertStart(c, u, r, p)
    \/ \E k \in Keys : DeleteStart(c, k)
    \/ \E k \in Keys, r \in Roles : SetRolesStart(c, k, r)
    \/ \E k \in Keys, p \in Passwords : SetPasswordStart(c, k, p)
    \/ \E u \in Users, p \in Passwords : LoginStart(c, u, p)

Step(c) ==
    \/ StoreAccount(c) \/ HashFails(c) \/ StoreSecret(c) \/ PutNewSecret(c)
    \/ DeleteSecret(c) \/ DropSecret(c) \/ DeleteAccount(c) \/ DropAccount(c)
    \/ UpdateAccount(c) \/ WriteAccount(c)
    \/ UpdateSecret(c) \/ WriteSecret(c)
    \/ QueryAccount(c) \/ Verify(c)

Next == \E c \in Calls : StartCall(c) \/ Step(c) \/ Cancel(c)

Spec == Init /\ [][Next]_vars

-----------------------------------------------------------------------------
(* Properties *)

Has(i) == \E k \in Keys : Stored(k) /\ accounts[k].id = i

\* The calls of a kind that work, or worked, on account i.
On(i, kind) == {c \in Calls : op[c] = kind /\ acc[c] # NoAccount /\ acc[c].id = i}

Writers(i) == UNION {On(i, kind) : kind \in AllOps \ {"login"}}

Quiet(i) == \A c \in Writers(i) : pc[c] = "done"

Ended(i, results) == \E c \in Writers(i) : res[c] \in results

Revived(i) == \E c \in On(i, "set_roles") : res[c] = "upserted"

Deleted(d) == op[d] = "delete" /\ res[d] = "ok"

\* An account at rest has its secret, so that its user can log in and
\* AccountDeleteService can remove it, unless a call that wrote it was told
\* of a failure or was dropped half way, or an update put a deleted account
\* back.  (Both services write two repositories without a transaction.)
PairedUnlessReported ==
    \A i \in Ids :
        Quiet(i) /\ Has(i) /\ secrets[i] = NoSecret =>
            Ended(i, {"account_err", "hash_err", "secret_err", "restore_err",
                      "cancelled", "upserted"})

\* At any moment a stored secret has its account: the only writes that leave
\* one without are an in-memory update of a deleted one and a delete's
\* compensation.
NoOrphanSecret ==
    \A i \in Ids :
        secrets[i] # NoSecret /\ ~Has(i) => Ended(i, {"upserted", "restored"})

\* Once a delete has returned Ok and the account is at rest its secret is
\* gone, whatever other deletes of the same account did meanwhile.
DeletionRemovesSecret ==
    \A d \in Calls :
        Deleted(d) /\ Quiet(acc[d].id) =>
            secrets[acc[d].id] = NoSecret \/ Ended(acc[d].id, {"upserted"})

\* It holds where delete_secret removes and returns in one step.
AtomicDeletionRemovesSecret == backend # "seaorm" => DeletionRemovesSecret

\* A login that starts after a delete of the account returned Ok does not
\* succeed as that account, unless an in-memory update_account with a stale
\* copy had put it back.
NoLoginAfterDelete ==
    \A c, d \in Calls :
        op[c] = "login" /\ res[c] = "ok" /\ d \in before[c] /\ Deleted(d)
            /\ acc[c].id = acc[d].id
        => Revived(acc[d].id)

\* A login that starts after a password change returned Ok succeeds with
\* that password or with one that a later or concurrent change set, or that
\* of the account's own insert where it was not done; the old one comes back
\* only through a delete's compensation or the in-memory store_secret that
\* reports an error after it has overwritten.
PasswordChangeSticks ==
    \A c, d \in Calls :
        op[c] = "login" /\ res[c] = "ok" /\ d \in before[c]
            /\ d \in On(acc[c].id, "set_password") /\ res[d] \in {"ok", "upserted"}
        => \/ pw[c] = pw[d]
           \/ \E e \in (On(acc[c].id, "set_password") \cup On(acc[c].id, "insert")) \ {d} :
                 e \notin before[d] /\ pw[e] = pw[c]
           \/ Ended(acc[c].id, {"overwrote", "restored"})

\* A login that starts after a change of roles returned Ok gets a token with
\* what the store keeps of those roles or of what a later or concurrent change
\* set, unless an in-memory update_account has made a second entry of the account.
RoleChangeSticks ==
    \A c, d \in Calls :
        op[c] = "login" /\ res[c] = "ok" /\ d \in before[c]
            /\ d \in On(acc[c].id, "set_roles") /\ res[d] = "ok"
        => \/ acc[c].roles = Row(acc[d]).roles
           \/ \E e \in On(acc[c].id, "set_roles") \ {d} :
                 e \notin before[d] /\ Row(acc[e]).roles = acc[c].roles
           \/ Revived(acc[c].id)

\* When an insert has returned Ok and nothing else writes that account or
\* makes one of the same user, a login of that user with that password is
\* never rejected as invalid.
InsertedCanLogin ==
    \A c, d \in Calls :
        /\ op[c] = "login" /\ op[d] = "insert" /\ res[d] = "ok" /\ d \in before[c]
        /\ who[c] = acc[d].user /\ pw[c] = pw[d]
        /\ Writers(d) = {d}
        /\ \A s \in Seeds : s.user # who[c]
        /\ \A e \in Calls \ {d} : op[e] = "insert" => acc[e].user # who[c]
        => res[c] # "invalid"

-----------------------------------------------------------------------------
(* What the documentation says and the code does not do *)

\* account_delete.rs:14: "if account deletion fails after removing the secret,
\* the secret is restored (best-effort)".
FailedDeleteRestores ==
    \A d \in Calls :
        op[d] = "delete" /\ res[d] = "account_err" /\ Quiet(acc[d].id) /\ Has(acc[d].id)
        => secrets[acc[d].id] # NoSecret
=============================================================================
