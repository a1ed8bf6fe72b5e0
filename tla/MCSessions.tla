------------------------------ MODULE MCSessions ------------------------------
(* A small instance of Sessions. *)
EXTENDS Sessions, TLC

MCRank == [r \in Roles |-> IF r = "User" THEN 0 ELSE 1]

AccountOf(role) == [roles |-> {role}, groups |-> {}, permissions |-> {}]

MCAccounts == {AccountOf(r) : r \in Roles}

AdminsOnly == OrRequireScope(DenyAll, [role |-> "Admin", supervisors |-> FALSE])

\* An admin page, an API for whoever is logged in, a public page that greets by
\* name, and the two modes of a shared token.
MCGates == {
    [carrier |-> "cookie", optional |-> FALSE, policy |-> AdminsOnly],
    [carrier |-> "bearer", optional |-> FALSE, policy |-> RequireLogin],
    [carrier |-> "cookie", optional |-> TRUE, policy |-> DenyAll],
    [carrier |-> "static", optional |-> FALSE, policy |-> DenyAll],
    [carrier |-> "static", optional |-> TRUE, policy |-> DenyAll]}

\* Two instances of one service with a configured key or keys of their own, and
\* two services that share the key.
MCSetups == {
    [issuer |-> [i \in Instances |-> "app"], stableKey |-> TRUE],
    [issuer |-> [i \in Instances |-> "app"], stableKey |-> FALSE],
    [issuer |-> [i \in Instances |-> IF i = "i1" THEN "app" ELSE "shop"], stableKey |-> TRUE]}

\* Bound: calls overlap at the times 0 and 1.  They meet only in the browser's
\* jar, in which time plays no part.
OverlapEarly == now > 1 => \A c, d \in Calls : c = d \/ call[c] = Idle \/ call[d] = Idle

Symmetry == Permutations(Calls) \cup Permutations(Keys)
=============================================================================
