------------------------ MODULE Authorization_proofs ------------------------
(***************************************************************************)
(* Proofs about AccessPolicy and Authorization for all roles and ranks,    *)
(* groups, names, hash functions and bounds.                               *)
(***************************************************************************)
EXTENDS Authorization, TLAPS

-----------------------------------------------------------------------------
(* Facts about policies *)

\* The gates' early answer to an empty policy rejects nobody whom the
\* authorization service would let in.
THEOREM EarlyDenialIsSound ==
    ASSUME NEW p \in Policy, NEW a \in Account, DeniesAll(p)
    PROVE  ~IsAuthorized(p, a)
  BY DEF DeniesAll, IsAuthorized, MeetsPermission, MeetsGroup, MeetsRole, MeetsHierarchy

\* require_login() lets in whoever has any role, and nobody without one.
THEOREM LoginIsAnyRole ==
    ASSUME NEW a \in Account
    PROVE  Admits(RequireLogin, a) <=> a.roles # {}
<1> DEFINE scope == [role |-> Baseline, supervisors |-> TRUE]
<1>1. RequireLogin = [roles |-> {scope}, groups |-> {}, permissions |-> {}]
  BY DEF RequireLogin, OrRequireScope, DenyAll
<1>r. RequireLogin.roles = {scope} /\ scope.role = Baseline /\ scope.supervisors = TRUE
  BY <1>1
<1>2. ~DeniesAll(RequireLogin) /\ ~MeetsPermission(RequireLogin, a) /\ ~MeetsGroup(RequireLogin, a)
  BY <1>1 DEF DeniesAll, MeetsPermission, MeetsGroup
<1>3. MeetsRole(RequireLogin, a) <=> \E r \in a.roles : r = Baseline
  BY <1>r DEF MeetsRole, GrantsRole
<1>4. MeetsHierarchy(RequireLogin, a) <=> a.roles # {}
  <2>1. \A r \in a.roles : Rank[r] >= Rank[Baseline]
    BY HierarchyAssumption DEF Account
  <2> QED
    BY <1>r, <2>1 DEF MeetsHierarchy, GrantsSupervisor
<1> QED
  BY <1>2, <1>3, <1>4 DEF Admits, IsAuthorized

-----------------------------------------------------------------------------
(* The inductive invariant *)

RoleQ(r, s)      == [kind |-> "role", role |-> r, supervisors |-> s]
GroupQ(g)        == [kind |-> "group", group |-> g]
PermissionQ(n)   == [kind |-> "permission", name |-> n]

\* No two of the names have one id.
Distinct(names) == \A s, t \in names : Id(s) = Id(t) => s = t

\* The policy is made of the requirements asked for.
PolicyIsAsked ==
    /\ \A r \in Roles, s \in BOOLEAN :
          [role |-> r, supervisors |-> s] \in policy.roles <=> RoleQ(r, s) \in asked
    /\ \A g \in Groups : g \in policy.groups <=> GroupQ(g) \in asked
    /\ \A i \in Ids : i \in policy.permissions <=>
          \E n \in Strings : PermissionQ(n) \in asked /\ Id(n) = i
    /\ \A n \in Strings : PermissionQ(n) \in asked => n \in used

\* While no two names in use collide the account's ids are those of the names
\* that it holds.  (A revoked name takes a colliding one with it.)
IdsAreHeld ==
    /\ held \subseteq used
    /\ Distinct(used) => account.permissions = IdsOf(held)

\* A list that was found valid has no collision; it is closed by then.
ValidIsDistinct == verdict = "valid" => Distinct(Listed)

IInv == TypeOK /\ PolicyIsAsked /\ IdsAreHeld /\ ValidIsDistinct

-----------------------------------------------------------------------------
\* An id of a name is an id.
LEMMA IdType ==
    ASSUME TypeOK
    PROVE  (\A s \in Strings : Id(s) \in Ids) /\ \A names \in SUBSET Strings : IdsOf(names) \subseteq Ids
  BY NamesAssumption DEF TypeOK, Id, IdsOf

\* The collision checker reports nothing exactly when no two entries collide.
LEMMA NoCollisions ==
    ASSUME Collisions(listed) = {}
    PROVE  Distinct(Listed)
<1> SUFFICES ASSUME NEW i \in DOMAIN listed, NEW j \in DOMAIN listed,
                    Id(listed[i]) = Id(listed[j]), listed[i] # listed[j]
             PROVE  FALSE
  BY DEF Distinct, Listed
<1>1. Id(listed[i]) \in Collisions(listed)
  BY DEF Collisions
<1> QED
  BY <1>1

\* Requirements of different kinds differ, and each says what it asks for.
LEMMA Requirements ==
    /\ \A r, s, r2, s2 : RoleQ(r, s) = RoleQ(r2, s2) => r = r2 /\ s = s2
    /\ \A g, g2 : GroupQ(g) = GroupQ(g2) => g = g2
    /\ \A n, n2 : PermissionQ(n) = PermissionQ(n2) => n = n2
    /\ \A r, s, g, n : RoleQ(r, s) # GroupQ(g) /\ RoleQ(r, s) # PermissionQ(n) /\ GroupQ(g) # PermissionQ(n)
<1>1. ASSUME NEW r, NEW s, NEW g, NEW n
      PROVE  RoleQ(r, s).kind = "role" /\ GroupQ(g).kind = "group" /\ PermissionQ(n).kind = "permission"
  BY DEF RoleQ, GroupQ, PermissionQ
<1>2. ASSUME NEW r, NEW s, NEW g, NEW n
      PROVE  RoleQ(r, s).role = r /\ RoleQ(r, s).supervisors = s /\ GroupQ(g).group = g /\ PermissionQ(n).name = n
  BY DEF RoleQ, GroupQ, PermissionQ
<1>3. ASSUME NEW r, NEW s, NEW r2, NEW s2, RoleQ(r, s) = RoleQ(r2, s2)
      PROVE  r = r2 /\ s = s2
  BY <1>2, <1>3
<1>4. ASSUME NEW g, NEW g2, GroupQ(g) = GroupQ(g2) PROVE g = g2
  BY <1>2, <1>4
<1>5. ASSUME NEW n, NEW n2, PermissionQ(n) = PermissionQ(n2) PROVE n = n2
  BY <1>2, <1>5
<1>6. ASSUME NEW r, NEW s, NEW g, NEW n
      PROVE  RoleQ(r, s) # GroupQ(g) /\ RoleQ(r, s) # PermissionQ(n) /\ GroupQ(g) # PermissionQ(n)
  BY <1>1
<1> QED
  BY <1>3, <1>4, <1>5, <1>6

LEMMA InitInv == Init => IInv
<1> SUFFICES ASSUME Init PROVE IInv
  OBVIOUS
<1>1. TypeOK
  BY DEF Init, TypeOK, DenyAll, Policy, Account
<1>2. PolicyIsAsked
  BY DEF Init, PolicyIsAsked, DenyAll
<1>3. IdsAreHeld /\ ValidIsDistinct
  BY DEF Init, IdsAreHeld, ValidIsDistinct, IdsOf
<1> QED
  BY <1>1, <1>2, <1>3 DEF IInv

\* Adding to the list and closing it.
LEMMA ListStep ==
    ASSUME IInv, (\E s \in Strings : AddPermission(s)) \/ Validate
    PROVE  IInv'
<1>1. UNCHANGED <<hash, policy, account, asked, held, used>>
  BY DEF AddPermission, Validate
<1>2. PolicyIsAsked' /\ IdsAreHeld'
  BY <1>1 DEF IInv, PolicyIsAsked, IdsAreHeld, Distinct, Id, IdsOf
<1>3. listed' \in Seq(Strings) /\ verdict' \in {"open", "valid", "invalid"}
  BY DEF IInv, TypeOK, AddPermission, Validate
<1>4. TypeOK'
  BY <1>1, <1>3 DEF IInv, TypeOK
<1>5. ASSUME NEW s \in Strings, AddPermission(s) PROVE ValidIsDistinct'
  BY <1>5 DEF AddPermission, ValidIsDistinct
<1>6. ASSUME Validate PROVE ValidIsDistinct'
  <2>1. ASSUME verdict' = "valid" PROVE Distinct(Listed)
    BY <1>6, <2>1, NoCollisions DEF Validate
  <2>2. UNCHANGED <<hash, listed>>
    BY <1>6 DEF Validate
  <2> QED
    BY <2>1, <2>2 DEF ValidIsDistinct, Distinct, Listed, Id
<1> QED
  BY <1>2, <1>4, <1>5, <1>6 DEF IInv

\* A call of the policy's builder.
LEMMA BuildStep ==
    ASSUME IInv, Build
    PROVE  IInv'
<1>0. UNCHANGED <<hash, listed, verdict, account, held>>
  BY DEF Build, RequireScope, RequireGroup, RequirePermissions, Asks
<1>1. ValidIsDistinct'
  BY <1>0 DEF IInv, ValidIsDistinct, Distinct, Listed, Id
<1>2. used \subseteq used' /\ used' \subseteq Strings
  BY DEF Build, RequireScope, RequireGroup, RequirePermissions, Asks, IInv, TypeOK
<1>3. IdsAreHeld'
  BY <1>0, <1>2 DEF IInv, IdsAreHeld, Distinct, Id, IdsOf
<1>4. ASSUME NEW r0 \in Roles, NEW s0 \in BOOLEAN, RequireScope(r0, s0)
      PROVE  TypeOK' /\ PolicyIsAsked'
  <2>1. asked' = asked \cup {RoleQ(r0, s0)} /\ used' = used
    BY <1>4 DEF RequireScope, Asks, RoleQ
  <2>2. policy' = [policy EXCEPT !.roles = @ \cup {[role |-> r0, supervisors |-> s0]}]
    BY <1>4 DEF RequireScope, OrRequireScope
  <2>3. TypeOK'
    BY <1>0, <2>1, <2>2 DEF IInv, TypeOK, Policy, Scope, ByRole, RoleQ
  <2>4. ASSUME NEW r \in Roles, NEW s \in BOOLEAN
        PROVE  [role |-> r, supervisors |-> s] \in policy'.roles <=> RoleQ(r, s) \in asked'
    <3>1. [role |-> r, supervisors |-> s] = [role |-> r0, supervisors |-> s0] <=> r = r0 /\ s = s0
      OBVIOUS
    <3>2. RoleQ(r, s) = RoleQ(r0, s0) <=> r = r0 /\ s = s0
      BY Requirements
    <3>3. policy'.roles = policy.roles \cup {[role |-> r0, supervisors |-> s0]}
      BY <2>2 DEF IInv, TypeOK, Policy
    <3> QED
      BY <2>1, <3>1, <3>2, <3>3 DEF IInv, PolicyIsAsked
  <2>5. policy'.groups = policy.groups /\ policy'.permissions = policy.permissions
    BY <2>2 DEF IInv, TypeOK, Policy
  <2>6. /\ \A g \in Groups : GroupQ(g) \in asked' <=> GroupQ(g) \in asked
        /\ \A n \in Strings : PermissionQ(n) \in asked' <=> PermissionQ(n) \in asked
    BY <2>1, Requirements
  <2>7. PolicyIsAsked'
    BY <1>0, <2>1, <2>4, <2>5, <2>6 DEF IInv, PolicyIsAsked, Id
  <2> QED
    BY <2>3, <2>7
<1>5. ASSUME NEW g0 \in Groups, RequireGroup(g0)
      PROVE  TypeOK' /\ PolicyIsAsked'
  <2>1. asked' = asked \cup {GroupQ(g0)} /\ used' = used
    BY <1>5 DEF RequireGroup, Asks, GroupQ
  <2>2. policy' = [policy EXCEPT !.groups = @ \cup {g0}]
    BY <1>5 DEF RequireGroup, OrRequireGroup
  <2>3. TypeOK'
    BY <1>0, <2>1, <2>2 DEF IInv, TypeOK, Policy, ByGroup, GroupQ
  <2>4. /\ policy'.roles = policy.roles /\ policy'.permissions = policy.permissions
        /\ policy'.groups = policy.groups \cup {g0}
    BY <2>2 DEF IInv, TypeOK, Policy
  <2>5. /\ \A r \in Roles, s \in BOOLEAN : RoleQ(r, s) \in asked' <=> RoleQ(r, s) \in asked
        /\ \A n \in Strings : PermissionQ(n) \in asked' <=> PermissionQ(n) \in asked
        /\ \A g \in Groups : GroupQ(g) \in asked' <=> GroupQ(g) \in asked \/ g = g0
    BY <2>1, Requirements
  <2>6. PolicyIsAsked'
    BY <1>0, <2>1, <2>4, <2>5 DEF IInv, PolicyIsAsked, Id
  <2> QED
    BY <2>3, <2>6
<1>6. ASSUME NEW names \in SUBSET Strings, RequirePermissions(names)
      PROVE  TypeOK' /\ PolicyIsAsked'
  <2>1. asked' = asked \cup {PermissionQ(n) : n \in names} /\ used' = used \cup names
    <3>1. [kind : {"permission"}, name : names] = {PermissionQ(n) : n \in names}
      <4>1. ASSUME NEW q \in [kind : {"permission"}, name : names] PROVE q = PermissionQ(q.name) /\ q.name \in names
        BY DEF PermissionQ
      <4>2. ASSUME NEW n \in names PROVE PermissionQ(n) \in [kind : {"permission"}, name : names]
        BY DEF PermissionQ
      <4> QED
        BY <4>1, <4>2
    <3> QED
      BY <1>6, <3>1 DEF RequirePermissions, Asks
  <2>2. policy' = [policy EXCEPT !.permissions = @ \cup IdsOf(names)]
    BY <1>6 DEF RequirePermissions, OrRequirePermissions
  <2>3. TypeOK'
    <3>1. IdsOf(names) \subseteq Ids
      BY IdType DEF IInv
    <3>2. policy' \in Policy
      BY <2>2, <3>1 DEF IInv, TypeOK, Policy
    <3>3. asked' \subseteq ByRole \cup ByGroup \cup ByPermission
      BY <2>1 DEF IInv, TypeOK, ByPermission, PermissionQ
    <3> QED
      BY <1>0, <1>2, <3>2, <3>3 DEF IInv, TypeOK
  <2>4. /\ policy'.roles = policy.roles /\ policy'.groups = policy.groups
        /\ policy'.permissions = policy.permissions \cup IdsOf(names)
    BY <2>2 DEF IInv, TypeOK, Policy
  <2>5. /\ \A r \in Roles, s \in BOOLEAN : RoleQ(r, s) \in asked' <=> RoleQ(r, s) \in asked
        /\ \A g \in Groups : GroupQ(g) \in asked' <=> GroupQ(g) \in asked
        /\ \A n \in Strings : PermissionQ(n) \in asked' <=> PermissionQ(n) \in asked \/ n \in names
    BY <2>1, Requirements
  <2>6. ASSUME NEW i \in Ids
        PROVE  i \in policy'.permissions <=> \E n \in Strings : PermissionQ(n) \in asked' /\ Id(n)' = i
    <3>1. i \in policy'.permissions <=> i \in policy.permissions \/ \E n \in names : Id(n) = i
      BY <2>4 DEF IdsOf
    <3> QED
      BY <1>0, <2>5, <3>1 DEF IInv, PolicyIsAsked, Id
  <2>7. PolicyIsAsked'
    BY <2>1, <2>4, <2>5, <2>6 DEF IInv, PolicyIsAsked
  <2> QED
    BY <2>3, <2>7
<1> QED
  BY <1>1, <1>3, <1>4, <1>5, <1>6 DEF Build, IInv

\* A gate is given another policy.
LEMMA ResetStep ==
    ASSUME IInv, Login \/ StartOver
    PROVE  IInv'
<1>0. UNCHANGED <<hash, listed, verdict, account, held, used>>
  BY DEF Login, StartOver
<1>1. ValidIsDistinct' /\ IdsAreHeld'
  BY <1>0 DEF IInv, ValidIsDistinct, IdsAreHeld, Distinct, Listed, Id, IdsOf
<1>2. CASE Login
  <2> DEFINE scope == [role |-> Baseline, supervisors |-> TRUE]
  <2>1. policy' = [roles |-> {scope}, groups |-> {}, permissions |-> {}]
    BY <1>2 DEF Login, RequireLogin, OrRequireScope, DenyAll
  <2>2. asked' = {RoleQ(Baseline, TRUE)}
    BY <1>2 DEF Login, RoleQ
  <2>3. TypeOK'
    BY <1>0, <2>1, <2>2, HierarchyAssumption DEF IInv, TypeOK, Policy, Scope, ByRole, RoleQ
  <2>4. policy'.roles = {scope} /\ policy'.groups = {} /\ policy'.permissions = {}
    BY <2>1
  <2>5. /\ \A r \in Roles, s \in BOOLEAN : RoleQ(r, s) \in asked' <=> r = Baseline /\ s = TRUE
        /\ \A g \in Groups : GroupQ(g) \notin asked'
        /\ \A n \in Strings : PermissionQ(n) \notin asked'
    BY <2>2, Requirements
  <2>6. \A r \in Roles, s \in BOOLEAN : [role |-> r, supervisors |-> s] = scope <=> r = Baseline /\ s = TRUE
    OBVIOUS
  <2>7. PolicyIsAsked'
    BY <2>4, <2>5, <2>6 DEF PolicyIsAsked
  <2> QED
    BY <1>1, <2>3, <2>7 DEF IInv
<1>3. CASE StartOver
  <2>1. policy' = [roles |-> {}, groups |-> {}, permissions |-> {}] /\ asked' = {}
    BY <1>3 DEF StartOver, DenyAll
  <2>2. TypeOK'
    BY <1>0, <2>1 DEF IInv, TypeOK, Policy
  <2>3. PolicyIsAsked'
    BY <2>1 DEF PolicyIsAsked
  <2> QED
    BY <1>1, <2>2, <2>3 DEF IInv
<1> QED
  BY <1>2, <1>3

\* The account is changed.
LEMMA AccountStep ==
    ASSUME IInv, NEW names \in SUBSET Strings,
           Grant(names) \/ Revoke(names) \/ Intersect(names) \/ Replace(names)
    PROVE  IInv'
<1>0. UNCHANGED <<hash, listed, verdict, policy, asked>> /\ used' = used \cup names
  BY DEF Grant, Revoke, Intersect, Replace, Changes
<1>1. ValidIsDistinct' /\ PolicyIsAsked'
  BY <1>0 DEF IInv, ValidIsDistinct, PolicyIsAsked, Distinct, Listed, Id
<1>2. \A n \in SUBSET Strings : IdsOf(n) \subseteq Ids /\ IdsOf(n)' = IdsOf(n)
  BY <1>0, IdType DEF IInv, IdsOf, Id
<1>3. \E kept \in SUBSET Strings, permissions \in SUBSET Ids :
         /\ held' = kept /\ kept \subseteq held \cup names
         /\ account' = [account EXCEPT !.permissions = permissions]
         /\ Distinct(used \cup names) => permissions = IdsOf(kept)
  <2> USE DEF IInv, TypeOK, Account, IdsAreHeld, Changes
  <2>1. Distinct(used \cup names) => account.permissions = IdsOf(held)
    BY DEF Distinct
  <2>2. held \subseteq used
    OBVIOUS
  <2>0. ASSUME NEW permissions \in SUBSET Ids, NEW kept \in SUBSET (held \cup names),
               Changes(permissions, names, kept),
               Distinct(used \cup names) => permissions = IdsOf(kept)
        PROVE  \E k \in SUBSET Strings, p \in SUBSET Ids :
                  /\ held' = k /\ k \subseteq held \cup names
                  /\ account' = [account EXCEPT !.permissions = p]
                  /\ Distinct(used \cup names) => p = IdsOf(k)
    <3>1. kept \in SUBSET Strings
      OBVIOUS
    <3> QED
      BY <2>0, <3>1
  <2>i. IdsOf(names) \subseteq Ids /\ account.permissions \subseteq Ids
    BY <1>2
  <2>3. CASE Grant(names)
    <3>1. IdsOf(held) \cup IdsOf(names) = IdsOf(held \cup names)
      BY DEF IdsOf
    <3>2. account.permissions \cup IdsOf(names) \in SUBSET Ids
      BY <2>i
    <3> QED
      BY <2>0, <2>1, <2>3, <3>1, <3>2 DEF Grant
  <2>4. CASE Revoke(names)
    <3>1. Distinct(used \cup names) => IdsOf(held) \ IdsOf(names) = IdsOf(held \ names)
      BY <2>2 DEF Distinct, IdsOf
    <3>2. Removed(names) \in SUBSET Ids
      BY <2>i DEF Removed
    <3>3. Distinct(used \cup names) => Removed(names) = IdsOf(held \ names)
      BY <2>1, <3>1 DEF Removed
    <3> QED
      BY <2>0, <2>4, <3>2, <3>3 DEF Revoke
  <2>5. CASE Intersect(names)
    <3>1. Distinct(used \cup names) => IdsOf(held) \cap IdsOf(names) = IdsOf(held \cap names)
      BY <2>2 DEF Distinct, IdsOf
    <3>2. account.permissions \cap IdsOf(names) \in SUBSET Ids
      BY <2>i
    <3> QED
      <4>1. Changes(account.permissions \cap IdsOf(names), names, held \cap names)
        BY <2>5 DEF Intersect
      <4>2. Distinct(used \cup names) => account.permissions \cap IdsOf(names) = IdsOf(held \cap names)
        BY <2>1, <3>1
      <4>3. held \cap names \in SUBSET (held \cup names)
        OBVIOUS
      <4> QED
        BY <2>0, <3>2, <4>1, <4>2, <4>3
  <2>6. CASE Replace(names)
    BY <2>0, <2>i, <2>6 DEF Replace
  <2> QED
    BY <2>3, <2>4, <2>5, <2>6
<1>4. PICK kept \in SUBSET Strings, permissions \in SUBSET Ids :
         /\ held' = kept /\ kept \subseteq held \cup names
         /\ account' = [account EXCEPT !.permissions = permissions]
         /\ Distinct(used \cup names) => permissions = IdsOf(kept)
  BY <1>3
<1>5. account' \in Account /\ account'.permissions = permissions
  BY <1>4 DEF IInv, TypeOK, Account
<1>6. TypeOK'
  BY <1>0, <1>4, <1>5 DEF IInv, TypeOK
<1>7. IdsAreHeld'
  <2>1. Distinct(used)' <=> Distinct(used \cup names)
    BY <1>0 DEF Distinct, Id
  <2> QED
    BY <1>0, <1>2, <1>4, <1>5, <2>1 DEF IInv, IdsAreHeld
<1> QED
  BY <1>1, <1>6, <1>7 DEF IInv

LEMMA NextInv == IInv /\ [Next]_vars => IInv'
<1> SUFFICES ASSUME IInv, [Next]_vars PROVE IInv'
  OBVIOUS
<1>1. ASSUME NEW roles \in SUBSET Roles, NEW groups \in SUBSET Groups, Gives(roles, groups)
      PROVE  IInv'
  <2>1. account' \in Account /\ account'.permissions = account.permissions
    BY <1>1 DEF Gives, IInv, TypeOK, Account
  <2> QED
    BY <1>1, <2>1 DEF Gives, IInv, TypeOK, PolicyIsAsked, IdsAreHeld, ValidIsDistinct, Distinct, Listed, Id, IdsOf
<1>2. CASE UNCHANGED vars
  BY <1>2 DEF vars, IInv, TypeOK, PolicyIsAsked, IdsAreHeld, ValidIsDistinct, Distinct, Listed, Id, IdsOf
<1> QED
  BY <1>1, <1>2, ListStep, BuildStep, ResetStep, AccountStep DEF Next

-----------------------------------------------------------------------------
(* The theorems *)

\* The invariant holds of every reachable state.
THEOREM Invariance == Spec => []IInv
  BY InitInv, NextInv, PTL DEF Spec

\* Policies, accounts and the validator's list keep their types, and only ids
\* are stored where ids belong.
THEOREM TypeCorrect == Spec => []TypeOK
<1>1. IInv => TypeOK
  BY DEF IInv
<1> QED
  BY <1>1, Invariance, PTL

\* With every name in use on a validated list, an account is let in exactly
\* when it meets a requirement as it was meant.
THEOREM ValidatedIsExact == Spec => []ExactIfValidated
<1>1. ASSUME IInv, verdict = "valid", used \subseteq Listed
      PROVE  Admits(policy, account) <=> \E q \in asked : Meant(q)
  <2> USE <1>1 DEF IInv
  <2>1. Distinct(used)
    BY DEF ValidIsDistinct, Distinct
  <2>2. account.permissions = IdsOf(held) /\ held \subseteq used
    BY <2>1 DEF IdsAreHeld
  <2>3. MeetsPermission(policy, account) <=>
           \E n \in Strings : PermissionQ(n) \in asked /\ n \in held
    <3>1. \A n \in held : n \in Strings /\ Id(n) \in Ids
      BY IdType DEF TypeOK
    <3>2. ASSUME NEW n \in Strings, PermissionQ(n) \in asked, NEW m \in held, Id(n) = Id(m)
          PROVE  n = m
      BY <2>1, <2>2, <3>2 DEF PolicyIsAsked, Distinct
    <3> QED
      BY <2>2, <3>1, <3>2 DEF MeetsPermission, IdsOf, PolicyIsAsked
  <2>4. MeetsGroup(policy, account) <=> \E g \in Groups : GroupQ(g) \in asked /\ g \in account.groups
    BY DEF MeetsGroup, PolicyIsAsked, TypeOK, Account, Policy
  <2>5. MeetsRole(policy, account) \/ MeetsHierarchy(policy, account) <=>
           \E q \in Roles, s \in BOOLEAN :
              RoleQ(q, s) \in asked /\ \E r \in account.roles : r = q \/ (s /\ Rank[r] >= Rank[q])
    <3>1. ASSUME NEW scope \in policy.roles
          PROVE  /\ scope.role \in Roles /\ scope.supervisors \in BOOLEAN
                 /\ scope = [role |-> scope.role, supervisors |-> scope.supervisors]
                 /\ RoleQ(scope.role, scope.supervisors) \in asked
      BY DEF PolicyIsAsked, TypeOK, Policy, Scope
    <3>2. ASSUME NEW q \in Roles, NEW s \in BOOLEAN, RoleQ(q, s) \in asked
          PROVE  \E scope \in policy.roles : scope.role = q /\ scope.supervisors = s
      BY <3>2 DEF PolicyIsAsked
    <3> QED
      BY <3>1, <3>2 DEF MeetsRole, MeetsHierarchy, GrantsRole, GrantsSupervisor
  <2>6. ASSUME NEW q \in Roles, NEW s \in BOOLEAN
        PROVE  Meant(RoleQ(q, s)) <=> \E r \in account.roles : r = q \/ (s /\ Rank[r] >= Rank[q])
    <3>1. RoleQ(q, s).kind = "role" /\ RoleQ(q, s).role = q /\ RoleQ(q, s).supervisors = s
      BY DEF RoleQ
    <3>2. Meant(RoleQ(q, s)) <=> \E r \in account.roles : r = q \/ (s /\ Rank[r] > Rank[q])
      BY <3>1 DEF Meant
    <3>3. \A r \in account.roles : Rank[r] >= Rank[q] <=> r = q \/ Rank[r] > Rank[q]
      <4>1. account.roles \subseteq Roles
        BY DEF TypeOK, Account
      <4>2. ASSUME NEW r \in account.roles PROVE Rank[r] \in Nat /\ Rank[q] \in Nat /\ (Rank[q] = Rank[r] => q = r)
        BY <4>1, HierarchyAssumption
      <4>3. ASSUME NEW r \in account.roles PROVE Rank[r] >= Rank[q] <=> r = q \/ Rank[r] > Rank[q]
        BY <4>2
      <4> QED
        BY <4>3
    <3> QED
      BY <3>2, <3>3
  <2>7. ASSUME NEW g \in Groups
        PROVE  Meant(GroupQ(g)) <=> g \in account.groups
    <3>1. GroupQ(g).kind = "group" /\ GroupQ(g).group = g
      BY DEF GroupQ
    <3> QED
      BY <3>1 DEF Meant
  <2>8. ASSUME NEW n \in Strings
        PROVE  Meant(PermissionQ(n)) <=> n \in held
    <3>1. PermissionQ(n).kind = "permission" /\ PermissionQ(n).name = n
      BY DEF PermissionQ
    <3> QED
      BY <3>1 DEF Meant
  <2>9. ASSUME NEW q \in asked
        PROVE  \/ \E r \in Roles, s \in BOOLEAN : q = RoleQ(r, s)
               \/ \E g \in Groups : q = GroupQ(g)
               \/ \E n \in Strings : q = PermissionQ(n)
    BY DEF TypeOK, ByRole, ByGroup, ByPermission, RoleQ, GroupQ, PermissionQ
  <2>10. IsAuthorized(policy, account) <=> \E q \in asked : Meant(q)
    <3>1. IsAuthorized(policy, account) => \E q \in asked : Meant(q)
      BY <2>3, <2>4, <2>5, <2>6, <2>7, <2>8 DEF IsAuthorized
    <3>2. ASSUME NEW q \in asked, Meant(q) PROVE IsAuthorized(policy, account)
      <4>1. CASE \E r \in Roles, s \in BOOLEAN : q = RoleQ(r, s)
        BY <2>5, <2>6, <3>2, <4>1 DEF IsAuthorized
      <4>2. CASE \E g \in Groups : q = GroupQ(g)
        BY <2>4, <2>7, <3>2, <4>2 DEF IsAuthorized
      <4>3. CASE \E n \in Strings : q = PermissionQ(n)
        BY <2>3, <2>8, <3>2, <4>3 DEF IsAuthorized
      <4> QED
        BY <2>9, <4>1, <4>2, <4>3
    <3> QED
      BY <3>1, <3>2
  <2>11. IsAuthorized(policy, account) => ~DeniesAll(policy)
    BY EarlyDenialIsSound DEF TypeOK
  <2> QED
    BY <2>10, <2>11 DEF Admits
<1>2. IInv => ExactIfValidated
  BY <1>1 DEF ExactIfValidated
<1> QED
  BY <1>2, Invariance, PTL
=============================================================================
