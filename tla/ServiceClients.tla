--------------------------- MODULE ServiceClients ---------------------------
(***************************************************************************)
(* Clients that repeat a call for as long as its error says that it may be *)
(* retried.                                                                *)
(*                                                                         *)
(* A client signs up (AccountInsertService), logs in (LoginService) and    *)
(* signs off (AccountDeleteService).  An access of a database may fail     *)
(* before it has worked or after, when only the answer is lost; hashing    *)
(* may fail; a caller may hang up.  A service that fails half way leaves   *)
(* its half behind, and what a repeated call then meets depends on it.     *)
(* One failure needs nothing to go wrong outside of the crate: SeaORM      *)
(* inserts an account before it reads it back from its row, and an account *)
(* whose roles do not parse, as those of an empty list do not, is stored   *)
(* and reported as an error, each time.                                    *)
(*                                                                         *)
(* A call of a repository is one step here: each account is changed by its *)
(* own client only, so that its statements meet no others.  The races of   *)
(* calls on one account are the subject of AccountServices.                *)
(***************************************************************************)
EXTENDS Naturals, FiniteSets, ErrorAdvice

CONSTANTS
    Clients,
    Users,
    UserOf,         \* the user id each client signs up with
    Backends,
    MaxFaults,      \* bound: how many accesses and hashings fail and callers hang up
    MaxIds,         \* bound: how many accounts are ever stored
    MaxUnread,      \* bound: how many of them in rows that cannot be read back
    NoId,
    NoError

Ids == 1..MaxIds

ASSUME ClientsAssumption ==
    /\ UserOf \in [Clients -> Users]
    /\ Backends \subseteq {"memory", "seaorm", "surreal"}
    /\ MaxFaults \in Nat
    /\ MaxIds \in Nat /\ MaxUnread \in Nat
    /\ NoId \notin Ids
    /\ NoError \notin Errors

VARIABLES
    backend,    \* never changes
    unique,     \* whether the database has a unique index on user ids; never changes
    readable,   \* the clients whose roles and groups parse in a row; never changes
    accounts,   \* the account repository
    secrets,    \* the secret repository: whose password unlocks which account
    used,       \* how many ids have been drawn
    phase,      \* the service a client is calling, or calls next
    pc,         \* the access it is about to make
    id,         \* the account it holds
    found,      \* the account its login has found
    err,        \* the last error it was told
    faults,     \* how much has gone wrong
    reported,   \* history: the accounts that an error was raised about
    cut         \* history: the accounts on whose call the caller hung up

setup == <<backend, unique, readable>>
vars  == <<backend, unique, readable, accounts, secrets, used, phase, pc, id, found, err, faults,
           reported, cut>>

Account == [id : Ids, user : Users, reads : BOOLEAN]
Secret  == [id : Ids, of : Clients]

Phases == {"register", "login", "delete", "end"}
Labels == {"ready", "store_account", "store_secret", "query_account", "verify",
           "delete_secret", "delete_account", "told", "over"}

TypeOK ==
    /\ backend \in Backends
    /\ unique \in BOOLEAN
    /\ readable \subseteq Clients
    /\ accounts \subseteq Account
    /\ secrets \subseteq Secret
    /\ used \in 0..MaxIds
    /\ phase \in [Clients -> Phases]
    /\ pc \in [Clients -> Labels]
    /\ id \in [Clients -> Ids \cup {NoId}]
    /\ found \in [Clients -> Ids \cup {NoId}]
    /\ err \in [Clients -> Errors \cup {NoError}]
    /\ faults \in 0..MaxFaults
    /\ reported \subseteq Ids
    /\ cut \subseteq Ids

Init ==
    /\ backend \in Backends
    /\ unique \in BOOLEAN
    /\ unique => backend # "memory"
    /\ readable \in SUBSET Clients
    /\ backend # "seaorm" => readable = Clients
    /\ accounts = {}
    /\ secrets = {}
    /\ used = 0
    /\ phase = [c \in Clients |-> "register"]
    /\ pc = [c \in Clients |-> "ready"]
    /\ id = [c \in Clients |-> NoId]
    /\ found = [c \in Clients |-> NoId]
    /\ err = [c \in Clients |-> NoError]
    /\ faults = 0
    /\ reported = {}
    /\ cut = {}

-----------------------------------------------------------------------------
(* Building blocks *)

First(p) == CASE p = "register" -> "store_account"
              [] p = "login"    -> "query_account"
              [] p = "delete"   -> "delete_secret"

After(p) == CASE p = "register" -> "login"
              [] p = "login"    -> "delete"
              [] p = "delete"   -> "end"

At(c, label)   == pc[c] = label /\ UNCHANGED setup
Goto(c, label) == pc' = [pc EXCEPT ![c] = label]

Quiet == UNCHANGED <<faults, reported, cut>>

\* The service answers Ok and the client moves on.
Finish(c) ==
    /\ phase' = [phase EXCEPT ![c] = After(@)]
    /\ Goto(c, "ready")
    /\ err' = [err EXCEPT ![c] = NoError]

\* A sign-up that is given up has told its client no account.
Forget(c) == id' = [id EXCEPT ![c] = IF phase[c] = "register" THEN NoId ELSE @]

\* The service returns the error e, which has to do with the account i.
Raise(c, e, i) ==
    /\ err' = [err EXCEPT ![c] = e]
    /\ reported' = IF Grave(e) /\ i # NoId THEN reported \cup {i} ELSE reported
    /\ Goto(c, "told")
    /\ Forget(c)
    /\ UNCHANGED <<phase, cut>>

Spend == faults < MaxFaults /\ faults' = faults + 1

\* A failing statement of a database: SurrealDB selects its namespace first.
Broken(kind) ==
    {Err("Database", kind)} \cup (IF backend = "surreal" THEN {Err("Database", "Connect")} ELSE {})

DatabaseFails(c, kind, i) ==
    /\ backend # "memory"
    /\ Spend
    /\ \E e \in Broken(kind) : Raise(c, e, i)

\* A statement that has worked fails to tell so.
AnswerLost(c, kind, i) ==
    /\ backend # "memory"
    /\ Spend
    /\ Raise(c, Err("Database", kind), i)

HasSecret(i) == \E s \in secrets : s.id = i

-----------------------------------------------------------------------------
(* The client *)

Start(c) ==
    /\ At(c, "ready")
    /\ phase[c] # "end"
    /\ Goto(c, First(phase[c]))
    /\ UNCHANGED <<accounts, secrets, used, phase, id, found, err>> /\ Quiet

\* What a caller does that follows is_retryable.
Heed(c) ==
    /\ At(c, "told")
    /\ Goto(c, IF Retryable(err[c]) THEN First(phase[c]) ELSE "over")
    /\ UNCHANGED <<accounts, secrets, used, phase, id, found, err>> /\ Quiet

\* The caller drops the future of a call that waits for a repository.
HangUp(c) ==
    /\ pc[c] \notin {"ready", "told", "over"}
    /\ UNCHANGED setup
    /\ Spend
    /\ Goto(c, "over")
    /\ cut' = cut \cup ({id[c]} \ {NoId})
    /\ Forget(c)
    /\ err' = [err EXCEPT ![c] = NoError]
    /\ found' = [found EXCEPT ![c] = NoId]
    /\ UNCHANGED <<accounts, secrets, used, phase, reported>>

-----------------------------------------------------------------------------
(* AccountInsertService::into_repositories *)

Taken(u) == unique /\ \E a \in accounts : a.user = u

\* Mutant of AddAccount: the columns of the row are swapped.
SwappedColumns(c) ==
    /\ used < MaxIds
    /\ used' = used + 1
    /\ accounts' = accounts \cup {[id |-> UserOf[c], user |-> used', reads |-> c \in readable]}

Unread == {a \in accounts : ~a.reads}

AddAccount(c) ==
    /\ used < MaxIds
    /\ c \in readable \/ Cardinality(Unread) < MaxUnread
    /\ used' = used + 1
    /\ accounts' = accounts \cup {[id |-> used', user |-> UserOf[c], reads |-> c \in readable]}

\* Account::try_from(model), once the row is in.
ConversionFails(c) ==
    /\ c \notin readable
    /\ Raise(c, Err("Database", "Insert"), used')
    /\ UNCHANGED faults

\* store_account(account).await?: a violated index is an error like any other.
StoreAccount(c) ==
    /\ At(c, "store_account")
    /\ \/ /\ ~Taken(UserOf[c])
          /\ AddAccount(c)
          /\ \/ /\ c \in readable
                /\ id' = [id EXCEPT ![c] = used']
                /\ Goto(c, "store_secret")
                /\ UNCHANGED <<phase, err>> /\ Quiet
             \/ ConversionFails(c)
             \/ AnswerLost(c, "Insert", used')
       \/ /\ Taken(UserOf[c])
          /\ Raise(c, Err("Database", "Insert"), NoId)
          /\ UNCHANGED <<accounts, used, faults>>
       \/ /\ DatabaseFails(c, "Insert", NoId)
          /\ UNCHANGED <<accounts, used>>
    /\ UNCHANGED <<secrets, found>>

\* Secret::new(...)?
HashFails(c) ==
    /\ At(c, "store_secret")
    /\ Spend
    /\ Raise(c, Err("Secrets", "Hash"), id[c])
    /\ UNCHANGED <<accounts, secrets, used, found>>

\* Mutant of SecretStored: the answer of store_secret is taken the wrong way round.
AnswerInverted(c) == Raise(c, Err("Accounts", "Create"), id[c]) /\ UNCHANGED faults

\* if !store_secret(secret).await? { Err } else { Ok }: no store answers false.
SecretStored(c) == Finish(c) /\ Quiet /\ UNCHANGED id

StoreSecret(c) ==
    /\ At(c, "store_secret")
    /\ \/ /\ secrets' = secrets \cup {[id |-> id[c], of |-> c]}
          /\ \/ SecretStored(c)
             \/ AnswerLost(c, "Insert", id[c])
       \/ /\ DatabaseFails(c, "Insert", id[c])
          /\ UNCHANGED secrets
    /\ UNCHANGED <<accounts, used, found>>

-----------------------------------------------------------------------------
(* LoginService::authenticate *)

\* Of several rows of a user id any may come first, one that cannot be read too.
QueryAccount(c) ==
    /\ At(c, "query_account")
    /\ LET rows == {a \in accounts : a.user = UserOf[c]} IN
       \/ /\ \E i \in IF rows = {} THEN {NoId} ELSE {a.id : a \in rows \ Unread} :
                found' = [found EXCEPT ![c] = i]
          /\ Goto(c, "verify")
          /\ UNCHANGED <<phase, id, err>> /\ Quiet
       \/ /\ rows \cap Unread # {}
          /\ Raise(c, HiddenByLogin("repository_query"), id[c])
          /\ UNCHANGED <<found, faults>>
       \/ /\ backend # "memory"
          /\ Spend
          /\ Raise(c, HiddenByLogin("repository_query"), id[c])
          /\ UNCHANGED found
    /\ UNCHANGED <<accounts, secrets, used>>

Verify(c) ==
    /\ At(c, "verify")
    /\ \/ /\ [id |-> found[c], of |-> c] \in secrets
          /\ Finish(c) /\ Quiet /\ UNCHANGED id
       \/ /\ [id |-> found[c], of |-> c] \notin secrets
          /\ Raise(c, HiddenByLogin("invalid_credentials"), id[c])
          /\ UNCHANGED faults
       \/ /\ backend # "memory"
          /\ Spend
          /\ Raise(c, HiddenByLogin("credential_verification"), id[c])
    /\ found' = [found EXCEPT ![c] = NoId]
    /\ UNCHANGED <<accounts, secrets, used>>

-----------------------------------------------------------------------------
(* AccountDeleteService::from_repositories *)

\* delete_secret(account_id).await?: None is an error of its own.
DeleteSecret(c) ==
    /\ At(c, "delete_secret")
    /\ \/ /\ HasSecret(id[c])
          /\ secrets' = {s \in secrets : s.id # id[c]}
          /\ \/ /\ Goto(c, "delete_account")
                /\ UNCHANGED <<phase, id, err>> /\ Quiet
             \/ AnswerLost(c, "Delete", id[c])
       \/ /\ ~HasSecret(id[c])
          /\ Raise(c, Err("Accounts", "Delete"), id[c])
          /\ UNCHANGED <<secrets, faults>>
       \/ /\ DatabaseFails(c, IF backend = "seaorm" THEN "Query" ELSE "Delete", id[c])
          /\ UNCHANGED secrets
    /\ UNCHANGED <<accounts, used, found>>

\* delete_account(account_id).await?: nobody else deletes the account, so that
\* the answer None and the compensation it leads to do not occur here.
DeleteAccount(c) ==
    /\ At(c, "delete_account")
    /\ \/ /\ accounts' = {a \in accounts : a.id # id[c]}
          /\ \/ /\ Finish(c)
                /\ UNCHANGED id /\ Quiet
             \/ AnswerLost(c, "Delete", id[c])
       \/ /\ DatabaseFails(c, IF backend = "seaorm" THEN "Query" ELSE "Delete", id[c])
          /\ UNCHANGED accounts
    /\ UNCHANGED <<secrets, used, found>>

-----------------------------------------------------------------------------
Access(c) ==
    \/ StoreAccount(c) \/ StoreSecret(c)
    \/ QueryAccount(c) \/ Verify(c)
    \/ DeleteSecret(c) \/ DeleteAccount(c)

Next == \E c \in Clients : Start(c) \/ Heed(c) \/ HangUp(c) \/ HashFails(c) \/ Access(c)

\* The runtime polls every task that can go on, a database answers or fails,
\* and a caller that may retry does.  Whether and when a client goes on to its
\* next service is its own choice.
Fairness == \A c \in Clients : WF_vars(Access(c)) /\ WF_vars(Heed(c))

Spec == Init /\ [][Next]_vars /\ Fairness

-----------------------------------------------------------------------------
(* Properties *)

\* An account is in order if a client holds it and it has a secret, or the
\* client is between the two writes of a service.
InOrder(a) ==
    \E c \in Clients :
        /\ id[c] = a.id
        /\ HasSecret(a.id) \/ pc[c] \in {"store_secret", "delete_account"}

Damaged == {a \in accounts : ~InOrder(a)}

\* However often clients repeat their calls, every account left without its
\* secret or without an owner cost a failure of its own, outside of the crate:
\* retries pile up nothing (accounts/account_insert.rs:207-235,
\* account_delete.rs:67-128).  Not so the rows that SeaORM inserts and cannot
\* read back: each repeated sign-up leaves one more, with no failure at all
\* (sea_orm/account.rs:97-104, comma_separated_value.rs:67-74), so that only
\* the others are counted.
DamageCostsFaults == Cardinality(Damaged \ Unread) <= faults

\* None of them is left behind silently, rows that cannot be read included: an
\* error of a grave severity was raised in the call that left it, unless its
\* caller hung up.
DamageIsReported == \A a \in Damaged : a.id \in reported \cup cut

\* A client that is told not to retry could not succeed by retrying: the
\* secret of the account that it wants deleted is gone, and hashing has failed
\* for good.  Every other failure may be retried.
GaveUp(c) == pc[c] = "over" /\ err[c] # NoError

GivesUpOnlyWhenStuck ==
    \A c \in Clients : GaveUp(c) =>
        \/ phase[c] = "delete" /\ ~HasSecret(id[c])
        \/ phase[c] = "register" /\ err[c] = Err("Secrets", "Hash")

\* Another row with the user id stands in the way: the index refuses a second
\* one, and a login finds either.
Blocked(c) ==
    /\ phase[c] = "login" \/ (phase[c] = "register" /\ unique)
    /\ \E a \in accounts : a.user = UserOf[c] /\ a.id # id[c]

\* Roles or groups that SeaORM cannot read back are refused each time, with an
\* error that says that the sign-up may be repeated.
Unreadable(c) == phase[c] = "register" /\ c \notin readable

\* Nobody who heeds the advice calls for ever: a client that is not blocked
\* again and again gets its answer or is told to stop, but for one that signs
\* up with what cannot be read back.
NobodyLoops ==
    \A c \in Clients : []<>(pc[c] \in {"ready", "over"} \/ Blocked(c) \/ Unreadable(c))

\* No error that may be retried advises against it, and one that may not be
\* advises something else; a service that hides an error of a database behind
\* one of its own keeps its advice on retrying (errors/mod.rs:119-130,
\* authn/login.rs:211-247, gate/oauth2/mod.rs:403-412).
AdviceIsCoherent ==
    /\ \A e \in Errors \ LoginErrors :
          IF Retryable(e) THEN "never" \notin AdviceOn(e).hints
                          ELSE AdviceOn(e).hints \cap {"fix", "support", "wait"} # {}
    /\ \A c \in Clients :
          err[c] \in DatabaseErrors =>
              /\ Retryable(err[c]) <=> Retryable(HiddenByLogin("repository_query"))
              /\ Retryable(err[c]) <=> Retryable(HiddenByOAuth2)
=============================================================================
