----------------------------- MODULE MCOAuth2Flow -----------------------------
(* Small instances of OAuth2Flow. *)
EXTENDS OAuth2Flow, TLC

MCCookieNames == {"axum-gate", "oauth-state", "oauth-pkce", "my-oauth-state", "my-oauth-pkce"}

NamedGate == WithCookieNames(DefaultGate, "my-oauth-state", "my-oauth-pkce")

\* The chain of the module documentation's example of customized cookies.
DocumentedGate == ConfigurePkceCookie(ConfigureStateCookie(NamedGate))

Deployments(gates, issues, repository, unique, pkce) ==
    [names : gates, issues : issues, repository : repository,
     uniqueUsers : unique, checksPkce : pkce]

\* Sessions without a repository, and with one whose user ids are unique; and
\* a gate that only checks the callback.
MCSetups ==
    Deployments({NamedGate}, {TRUE}, BOOLEAN, {TRUE}, BOOLEAN)
        \cup Deployments({DefaultGate}, {FALSE}, {FALSE}, {TRUE}, {TRUE})

MCDocumented == Deployments({DocumentedGate}, {TRUE}, {FALSE}, {TRUE}, {TRUE})

FlowSymmetry ==
    Permutations(Logins) \cup Permutations(Callbacks) \cup Permutations(Browsers)
        \cup Permutations(Users)
=============================================================================
