---------------------------- MODULE Authorization ----------------------------
(***************************************************************************)
(* From names to access: permissions are granted and required by name, and *)
(* stored and compared as 64 bits of a hash of the normalized name.  The   *)
(* module follows an application that lists its permission names for the   *)
(* collision checker, builds a policy with one call after another, and     *)
(* changes an account; and it asks when the policy admits exactly the      *)
(* accounts that the calls meant.                                          *)
(***************************************************************************)
EXTENDS AccessPolicy, Sequences, FiniteSets

CONSTANTS
    Strings,        \* permission names as they are written
    Names,          \* and after trimming and lowercasing
    Normalize,      \* which is this function
    Hashes,         \* the functions considered for the first 64 bits of SHA-256
    MaxListed,      \* bound: names given to the validator
    MaxAsked        \* bound: requirements of a policy

ASSUME NamesAssumption ==
    /\ Normalize \in [Strings -> Names]
    /\ Hashes \subseteq [Names -> Ids]

VARIABLES
    hash,       \* the hash function; never changes
    listed,     \* ApplicationValidator: the names added
    verdict,    \* "open" until it is consumed by validate(), then "valid" or "invalid"
    policy,     \* the AccessPolicy built
    account,    \* the account that asks
    asked,      \* history: the requirements that the policy was built from
    held,       \* history: the names granted to the account and not taken since
    used        \* history: the names in any call so far

vars == <<hash, listed, verdict, policy, account, asked, held, used>>

ByRole       == [kind : {"role"}, role : Roles, supervisors : BOOLEAN]
ByGroup      == [kind : {"group"}, group : Groups]
ByPermission == [kind : {"permission"}, name : Strings]

TypeOK ==
    /\ hash \in Hashes
    /\ listed \in Seq(Strings)
    /\ verdict \in {"open", "valid", "invalid"}
    /\ policy \in Policy
    /\ account \in Account
    /\ asked \subseteq ByRole \cup ByGroup \cup ByPermission
    /\ held \subseteq Strings
    /\ used \subseteq Strings

-----------------------------------------------------------------------------
(* PermissionId::from(&str) and the collision checker *)

Id(s) == hash[Normalize[s]]

\* Mutant of IdsOf: the names themselves are stored.
NamesAsIds(names) == names

IdsOf(names) == {Id(s) : s \in names}

\* Mutant of Collisions: only the very same string counts.
SameStrings(list) ==
    {Id(list[k]) : k \in {i \in DOMAIN list : \E j \in DOMAIN list : j # i /\ list[j] = list[i]}}

\* The ids that more than one entry of the list maps to.
Collisions(list) ==
    {Id(list[k]) : k \in {i \in DOMAIN list : \E j \in DOMAIN list : j # i /\ Id(list[j]) = Id(list[i])}}

AddPermission(s) ==
    /\ verdict = "open"
    /\ Len(listed) < MaxListed
    /\ listed' = Append(listed, s)
    /\ UNCHANGED <<hash, verdict, policy, account, asked, held, used>>

\* ApplicationValidator::validate consumes the validator.
Validate ==
    /\ verdict = "open"
    /\ verdict' = IF Collisions(listed) = {} THEN "valid" ELSE "invalid"
    /\ UNCHANGED <<hash, listed, policy, account, asked, held, used>>

-----------------------------------------------------------------------------
(* AccessPolicy: require_... starts a policy, or_require_... adds to it *)

Asks(q, names) ==
    /\ asked' = asked \cup q
    /\ used' = used \cup names
    /\ UNCHANGED <<hash, listed, verdict, account, held>>

RequireScope(r, s) ==
    /\ policy' = OrRequireScope(policy, [role |-> r, supervisors |-> s])
    /\ Asks({[kind |-> "role", role |-> r, supervisors |-> s]}, {})

RequireGroup(g) ==
    /\ policy' = OrRequireGroup(policy, g)
    /\ Asks({[kind |-> "group", group |-> g]}, {})

RequirePermissions(names) ==
    /\ policy' = OrRequirePermissions(policy, IdsOf(names))
    /\ Asks([kind : {"permission"}, name : names], names)

\* A gate is given another policy: require_login(), or the deny_all() that it
\* has at first and that a chain starts from.
Login ==
    /\ policy' = RequireLogin
    /\ asked' = {[kind |-> "role", role |-> Baseline, supervisors |-> TRUE]}
    /\ UNCHANGED <<hash, listed, verdict, account, held, used>>

StartOver ==
    /\ policy' = DenyAll
    /\ asked' = {}
    /\ UNCHANGED <<hash, listed, verdict, account, held, used>>

-----------------------------------------------------------------------------
(* Account and Permissions *)

Gives(roles, groups) ==
    /\ account' = [account EXCEPT !.roles = roles, !.groups = groups]
    /\ UNCHANGED <<hash, listed, verdict, policy, asked, held, used>>

Changes(permissions, names, kept) ==
    /\ account' = [account EXCEPT !.permissions = permissions]
    /\ held' = kept
    /\ used' = used \cup names
    /\ UNCHANGED <<hash, listed, verdict, policy, asked>>

Removed(names) == account.permissions \ IdsOf(names)

Grant(names)     == Changes(account.permissions \cup IdsOf(names), names, held \cup names)
Revoke(names)    == Changes(Removed(names), names, held \ names)
Intersect(names) == Changes(account.permissions \cap IdsOf(names), names, held \cap names)
Replace(names)   == Changes(IdsOf(names), names, names)

-----------------------------------------------------------------------------
Init ==
    /\ hash \in Hashes
    /\ listed = <<>>
    /\ verdict = "open"
    /\ policy = DenyAll
    /\ account = [roles |-> {}, groups |-> {}, permissions |-> {}]
    /\ asked = {}
    /\ held = {}
    /\ used = {}

Build ==
    \/ \E r \in Roles, s \in BOOLEAN : RequireScope(r, s)
    \/ \E g \in Groups : RequireGroup(g)
    \/ \E names \in SUBSET Strings : RequirePermissions(names)

Next ==
    \/ \E s \in Strings : AddPermission(s)
    \/ Validate
    \/ Build /\ Cardinality(asked') <= MaxAsked
    \/ Login
    \/ StartOver
    \/ \E roles \in SUBSET Roles, groups \in SUBSET Groups : Gives(roles, groups)
    \/ \E names \in SUBSET Strings :
          Grant(names) \/ Revoke(names) \/ Intersect(names) \/ Replace(names)

Spec == Init /\ [][Next]_vars

-----------------------------------------------------------------------------
(* Properties *)

\* The requirement is met, as the calls that named it meant it.
Meant(q) ==
    CASE q.kind = "role" ->
            \E r \in account.roles : r = q.role \/ (q.supervisors /\ Rank[r] > Rank[q.role])
      [] q.kind = "group"      -> q.group \in account.groups
      [] q.kind = "permission" -> q.name \in held

Listed == {listed[i] : i \in DOMAIN listed}

\* When the validator has passed a list with every name in use, a strict gate
\* lets an account in exactly when one of the policy's requirements is met: no
\* two names are taken for each other, whichever calls granted, revoked and
\* required them, and no requirement is lost or added on the way.
ExactIfValidated ==
    verdict = "valid" /\ used \subseteq Listed =>
        (Admits(policy, account) <=> \E q \in asked : Meant(q))
=============================================================================
