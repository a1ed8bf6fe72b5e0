---------------------------- MODULE AccessPolicy ----------------------------
(***************************************************************************)
(* Access policies and the authorization service, as operators.            *)
(*                                                                         *)
(* A policy lists requirements; whoever meets one of them gets in.  The    *)
(* lists of the code are searched and never counted, so they are sets; the *)
(* bitmap of permissions is a set of 64-bit ids.                           *)
(***************************************************************************)
EXTENDS Naturals

CONSTANTS
    Roles,
    Rank,           \* the total order that Role derives: a higher rank supervises a lower one
    Baseline,       \* Role::default()
    Groups,
    Ids             \* permission ids

ASSUME HierarchyAssumption ==
    /\ Rank \in [Roles -> Nat]
    /\ \A q, r \in Roles : Rank[q] = Rank[r] => q = r
    /\ Baseline \in Roles
    /\ \A r \in Roles : Rank[Baseline] <= Rank[r]

\* AccessScope: a role, and whether its supervisors satisfy the requirement too.
Scope == [role : Roles, supervisors : BOOLEAN]

Policy == [roles : SUBSET Scope, groups : SUBSET Groups, permissions : SUBSET Ids]

\* The part of an account that policies look at.
Account == [roles : SUBSET Roles, groups : SUBSET Groups, permissions : SUBSET Ids]

-----------------------------------------------------------------------------
(* Building a policy *)

DenyAll == [roles |-> {}, groups |-> {}, permissions |-> {}]

OrRequireScope(p, scope)    == [p EXCEPT !.roles = @ \cup {scope}]
OrRequireGroup(p, g)        == [p EXCEPT !.groups = @ \cup {g}]
OrRequirePermissions(p, is) == [p EXCEPT !.permissions = @ \cup is]

RequireLogin == OrRequireScope(DenyAll, [role |-> Baseline, supervisors |-> TRUE])

-----------------------------------------------------------------------------
(* Asking it *)

GrantsRole(scope, r)       == scope.role = r
GrantsSupervisor(scope, r) == scope.supervisors /\ Rank[r] >= Rank[scope.role]

MeetsPermission(p, a) == a.permissions \cap p.permissions # {}
MeetsGroup(p, a)      == a.groups \cap p.groups # {}
MeetsRole(p, a)       == \E r \in a.roles, scope \in p.roles : GrantsRole(scope, r)
MeetsHierarchy(p, a)  == \E r \in a.roles, scope \in p.roles : GrantsSupervisor(scope, r)

IsAuthorized(p, a) ==
    MeetsPermission(p, a) \/ MeetsGroup(p, a) \/ MeetsRole(p, a) \/ MeetsHierarchy(p, a)

DeniesAll(p) == p.roles = {} /\ p.groups = {} /\ p.permissions = {}

\* What a strict gate does with a policy and the account of a valid token.
Admits(p, a) == ~DeniesAll(p) /\ IsAuthorized(p, a)
=============================================================================
