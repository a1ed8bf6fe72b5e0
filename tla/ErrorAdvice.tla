----------------------------- MODULE ErrorAdvice -----------------------------
(***************************************************************************)
(* What the errors of axum-gate tell those who meet them.                  *)
(*                                                                         *)
(* Every error has a category, the enum it belongs to; the cases of the    *)
(* enum are what "kind" tells apart, and "repo" the repository, where the  *)
(* category has one.  UserFriendlyError gives each a severity, says        *)
(* whether the caller may retry, and suggests actions.  The suggestions    *)
(* are kept as what they ask for:                                          *)
(*   "again"   do the same again          "never"    do not retry          *)
(*   "fix"     check or correct something "support"  turn to someone else  *)
(*   "wait"    nothing to be done                                          *)
(* The wording, the texts for developers and the support codes are left    *)
(* out.                                                                    *)
(***************************************************************************)

Severities == {"Critical", "Error", "Warning", "Info"}
Hints      == {"again", "never", "fix", "support", "wait"}

\* UserFriendlyError: what can be asked of an error.
Advice == [severity : Severities, retryable : BOOLEAN, hints : SUBSET Hints]

NoRepo == "none"

\* An error without a repository.
Err(category, kind) == [category |-> category, kind |-> kind, repo |-> NoRepo]

(* The enums *)

RepositoriesErrors ==
    [category : {"Repositories"},
     kind : {"Insert", "Get", "Update", "Delete", "NotFound", "Constraint"},
     repo : {"Account", "Secret", "PermissionMapping"}]

DatabaseErrors ==
    {Err("Database", k) : k \in {"Connect", "Query", "Insert", "Update", "Delete",
                                 "Migration", "Backup", "Transaction"}}

HashingErrors == {Err("Hashing", k) : k \in {"Hash", "Verify"}}

OAuth2Callback == {"MissingStateCookie", "MissingPkceCookie", "ProviderReturnedError",
                   "StateMismatch", "MissingAuthorizationCode"}

OAuth2Errors ==
    {Err("OAuth2", k) : k \in OAuth2Callback \cup
        {"ConfigMissing", "InvalidUrl", "CookieTemplateInvalid", "TokenExchange",
         "AccountMapping", "AccountPersistence", "JwtEncoding", "JwtNotUtf8"}}

LoginErrors ==
    {Err("Login", k) : k \in {"invalid_credentials", "repository_query",
                              "credential_verification", "jwt_encoding", "jwt_conversion",
                              "auth_state_inconsistency"}}

\* Error: all of them, with the failures of a login, which has a type of its own.
Errors ==
    {Err("Accounts", k) : k \in {"Create", "Delete"}}
    \cup {Err("Authn", "InvalidCredentials")}
    \cup {Err(c, "Collision") : c \in {"Authz", "Permissions"}}
    \cup {Err("Codecs", k) : k \in {"Encode", "Decode"}}
    \cup {Err("Jwt", k) : k \in {"Encode", "Decode", "Validate"}}
    \cup {Err("Secrets", k) : k \in {"Hash", "Verify"}}
    \cup RepositoriesErrors \cup DatabaseErrors \cup HashingErrors
    \cup OAuth2Errors \cup LoginErrors

Tells(severity, retryable, hints) ==
    [severity |-> severity, retryable |-> retryable, hints |-> hints]

-----------------------------------------------------------------------------
(* Category by category *)

\* Mutant of AccountsAdvice: a failed delete may be retried, too.
RetriesDeletes(e) == Tells("Error", TRUE, {"again", "fix", "support"})

AccountsAdvice(e) ==
    IF e.kind = "Delete" THEN Tells("Critical", FALSE, {"fix", "support"})
                         ELSE Tells("Error", TRUE, {"again", "fix", "support"})

AuthnAdvice(e) == Tells("Warning", TRUE, {"fix", "support"})

\* A collision of permission ids.
AuthzAdvice(e)       == Tells("Critical", FALSE, {"never", "support"})
PermissionsAdvice(e) == Tells("Critical", FALSE, {"never", "support"})

CodecsAdvice(e) ==
    Tells("Error", TRUE,
          {"fix", "support"} \cup IF e.kind = "Decode" THEN {"again"} ELSE {})

JwtAdvice(e) ==
    IF e.kind = "Encode" THEN Tells("Error", TRUE, {"again", "fix", "support"})
                         ELSE Tells("Warning", TRUE, {"fix"})

RepositorySeverity(e) ==
    CASE e.kind = "NotFound"   -> IF e.repo = "Account" THEN "Warning" ELSE "Info"
      [] e.kind = "Constraint" -> IF e.repo = "PermissionMapping" THEN "Warning" ELSE "Error"
      [] OTHER                 -> IF \/ e.repo = "Secret"
                                     \/ e.repo = "Account" /\ e.kind = "Delete"
                                  THEN "Critical" ELSE "Error"

RepositoryHints(e) ==
    CASE e.kind = "NotFound"   -> {"fix", IF e.repo = "Account" THEN "support" ELSE "again"}
      [] e.kind = "Constraint" -> {"fix", "again"} \cup (IF e.repo = "Account" THEN {} ELSE {"support"})
      [] OTHER                 -> {"support", IF e.repo = "Secret" THEN "never" ELSE "again"}
                                  \cup (IF e.repo = "Account" /\ e.kind = "Insert" THEN {"fix"} ELSE {})

RepositoriesAdvice(e) ==
    Tells(RepositorySeverity(e),
          e.kind \notin {"NotFound", "Constraint"} /\ e.repo # "Secret",
          RepositoryHints(e))

\* Mutant of DatabaseAdvice: a failed write is but a warning.
WritesAreWarnings(e) == Tells("Warning", TRUE, {"again", "support"})

\* Mutant of DatabaseAdvice: a failed write is not to be repeated.
WritesAreFinal(e) == Tells("Error", e.kind \notin {"Insert", "Update", "Delete"}, {"support"})

DatabaseAdvice(e) ==
    CASE e.kind = "Connect"                 -> Tells("Critical", TRUE, {"again", "wait", "support"})
      [] e.kind \in {"Migration", "Backup"} -> Tells("Critical", FALSE, {"wait"})
      [] e.kind = "Transaction"             -> Tells("Error", TRUE, {"again", "fix", "support"})
      [] OTHER                              -> Tells("Error", TRUE, {"again", "support"})

\* Mutant of SecretsAdvice: what was failing to hash may be tried again.
RetriesHashing(e) == Tells("Critical", TRUE, {"never", "support"})

\* Hashing a secret fails for good, verifying one may be done again.
SecretsAdvice(e) ==
    IF e.kind = "Hash" THEN Tells("Critical", FALSE, {"never", "support"})
                       ELSE Tells("Critical", TRUE, {"fix", "support"})

HashingAdvice(e) ==
    IF e.kind = "Hash" THEN Tells("Critical", FALSE, {"never", "support"})
                       ELSE Tells("Critical", TRUE, {"fix", "support"})

OAuth2Advice(e) ==
    Tells(IF e.kind \in OAuth2Callback THEN "Warning" ELSE "Error",
          e.kind \in {"ProviderReturnedError", "TokenExchange", "AccountPersistence"},
          CASE e.kind = "MissingAuthorizationCode" -> {"again", "fix"}
            [] e.kind = "ProviderReturnedError"    -> {"again", "fix"}
            [] OTHER                               -> {"fix"})

\* LoginResult: it has no severity and no suggestions of its own; the handler
\* logs the internal errors as errors and the others as warnings.
LoginAdvice(e) ==
    IF e.kind = "invalid_credentials"
    THEN Tells("Warning", TRUE, {"fix", "again"})
    ELSE Tells("Error", e.kind # "auth_state_inconsistency", {"again"})

\* UserFriendlyError for Error: each category answers for itself.
AdviceOn(e) ==
    CASE e.category = "Accounts"     -> AccountsAdvice(e)
      [] e.category = "Authn"        -> AuthnAdvice(e)
      [] e.category = "Authz"        -> AuthzAdvice(e)
      [] e.category = "Permissions"  -> PermissionsAdvice(e)
      [] e.category = "Codecs"       -> CodecsAdvice(e)
      [] e.category = "Jwt"          -> JwtAdvice(e)
      [] e.category = "Repositories" -> RepositoriesAdvice(e)
      [] e.category = "Database"     -> DatabaseAdvice(e)
      [] e.category = "Hashing"      -> HashingAdvice(e)
      [] e.category = "Secrets"      -> SecretsAdvice(e)
      [] e.category = "OAuth2"       -> OAuth2Advice(e)
      [] e.category = "Login"        -> LoginAdvice(e)

-----------------------------------------------------------------------------
(* Errors that hide errors *)

\* Foreign errors are filed under a category of the crate.
Filed(foreign) ==
    CASE foreign = "surrealdb"      -> Err("Database", "Query")
      [] foreign = "argon2"         -> Err("Hashing", "Hash")
      [] foreign = "cookie_builder" -> Err("Codecs", "Encode")

\* LoginService and the OAuth2 gate turn an error of a repository into one of
\* their own.
HiddenByLogin(kind) == Err("Login", kind)
HiddenByOAuth2      == Err("OAuth2", "AccountPersistence")

\* Whether a caller heeding the advice calls again.
Retryable(e) == AdviceOn(e).retryable
Grave(e)     == AdviceOn(e).severity \in {"Critical", "Error"}
=============================================================================
