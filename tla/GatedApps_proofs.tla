------------------------- MODULE GatedApps_proofs -------------------------
(***************************************************************************)
(* Theorems about GatedApps: what the layers of each route let through, and *)
(* that every request on its way, every token and every counter agree with  *)
(* it, for any tabs, lifetime, bounds and changes of accounts.             *)
(***************************************************************************)
EXTENDS GatedApps, FiniteSetTheorems, TLAPS

-----------------------------------------------------------------------------
(* Policies of the layers *)

\* The order of the roles.
LEMMA Ranks ==
    /\ AppRank["User"] = 1 /\ AppRank["Reporter"] = 2 /\ AppRank["Moderator"] = 3
    /\ AppRank["Admin"] = 4 /\ AppRank["Novice"] = 5 /\ AppRank["Experienced"] = 6
    /\ AppRank["Expert"] = 7
    /\ AppRoles = {"User", "Reporter", "Moderator", "Admin", "Novice", "Experienced", "Expert"}
  <1>1. /\ DOMAIN RoleOrder = 1..7
        /\ RoleOrder[1] = "User" /\ RoleOrder[2] = "Reporter" /\ RoleOrder[3] = "Moderator"
        /\ RoleOrder[4] = "Admin" /\ RoleOrder[5] = "Novice" /\ RoleOrder[6] = "Experienced"
        /\ RoleOrder[7] = "Expert"
    BY DEF RoleOrder
  <1>2. AppRoles = {"User", "Reporter", "Moderator", "Admin", "Novice", "Experienced", "Expert"}
    <2>1. 1..7 = {1, 2, 3, 4, 5, 6, 7}
      OBVIOUS
    <2> QED BY <1>1, <2>1 DEF AppRoles
  <1>3. ASSUME NEW k \in 1..7
        PROVE  AppRank[RoleOrder[k]] = k
    <2>1. \A j \in 1..7 : RoleOrder[j] = RoleOrder[k] => j = k
      <3>1. 1..7 = {1, 2, 3, 4, 5, 6, 7}
        OBVIOUS
      <3> QED BY <1>1, <3>1
    <2>2. RoleOrder[k] \in AppRoles
      BY <1>1 DEF AppRoles
    <2> QED BY <1>1, <2>1, <2>2 DEF AppRank
  <1>4. /\ AppRank[RoleOrder[1]] = 1 /\ AppRank[RoleOrder[2]] = 2 /\ AppRank[RoleOrder[3]] = 3
        /\ AppRank[RoleOrder[4]] = 4 /\ AppRank[RoleOrder[5]] = 5 /\ AppRank[RoleOrder[6]] = 6
        /\ AppRank[RoleOrder[7]] = 7
    BY <1>3
  <1> QED BY <1>1, <1>2, <1>4

\* The layers of the examples: what each asks for.
LEMMA ByRolePolicy ==
    ASSUME NEW r
    PROVE  /\ ByRole(r).mode = "strict"
           /\ ByRole(r).policy.roles = {[role |-> r, supervisors |-> FALSE]}
           /\ ByRole(r).policy.groups = {} /\ ByRole(r).policy.permissions = {}
  BY DEF ByRole, Strict, OrRequireScope, DenyAll

LEMMA FromRolePolicy ==
    ASSUME NEW r
    PROVE  /\ FromRole(r).mode = "strict"
           /\ FromRole(r).policy.roles = {[role |-> r, supervisors |-> TRUE]}
           /\ FromRole(r).policy.groups = {} /\ FromRole(r).policy.permissions = {}
  BY DEF FromRole, Strict, OrRequireScope, DenyAll

LEMMA ByGroupPolicy ==
    ASSUME NEW g
    PROVE  /\ ByGroup(g).mode = "strict"
           /\ ByGroup(g).policy.roles = {}
           /\ ByGroup(g).policy.groups = {g} /\ ByGroup(g).policy.permissions = {}
  BY DEF ByGroup, Strict, OrRequireGroup, DenyAll

LEMMA ByPermissionPolicy ==
    ASSUME NEW i
    PROVE  /\ ByPermission(i).mode = "strict"
           /\ ByPermission(i).policy.roles = {}
           /\ ByPermission(i).policy.groups = {} /\ ByPermission(i).policy.permissions = {i}
  BY DEF ByPermission, Strict, OrRequirePermissions, DenyAll

LEMMA ByLoginPolicy ==
    /\ ByLogin.mode = "strict"
    /\ ByLogin.policy.roles = {[role |-> "User", supervisors |-> TRUE]}
    /\ ByLogin.policy.groups = {} /\ ByLogin.policy.permissions = {}
  BY DEF ByLogin, Strict, RequireLogin, OrRequireScope, DenyAll

LEMMA StaffPolicy ==
    /\ AdminOrModerator.mode = "strict"
    /\ AdminOrModerator.policy.roles = {[role |-> "Admin", supervisors |-> FALSE],
                                        [role |-> "Moderator", supervisors |-> FALSE]}
    /\ AdminOrModerator.policy.groups = {} /\ AdminOrModerator.policy.permissions = {}
  BY DEF AdminOrModerator, Strict, OrRequireScope, DenyAll

LEMMA OptionalLayer == Optional.mode = "optional"
  BY DEF Optional

-----------------------------------------------------------------------------
(* Whom they admit *)

\* A policy of scopes only admits by roles and their supervisors.
LEMMA AdmitsScopes ==
    ASSUME NEW p, p.groups = {}, p.permissions = {}, NEW a
    PROVE  Admits(p, a) <=> \E r \in a.roles, s \in p.roles :
               r = s.role \/ (s.supervisors /\ AppRank[r] >= AppRank[s.role])
  BY DEF Admits, DeniesAll, IsAuthorized, MeetsPermission, MeetsGroup, MeetsRole, MeetsHierarchy,
     GrantsRole, GrantsSupervisor

\* One scope without supervisors asks for its role.
LEMMA AdmitsExactly ==
    ASSUME NEW p, NEW r, NEW a, p.groups = {}, p.permissions = {},
           p.roles = {[role |-> r, supervisors |-> FALSE]}
    PROVE  Admits(p, a) <=> r \in a.roles
  <1>1. Admits(p, a) <=> \E q \in a.roles, s \in p.roles :
            q = s.role \/ (s.supervisors /\ AppRank[q] >= AppRank[s.role])
    BY AdmitsScopes
  <1>2. /\ \A s \in p.roles : s.role = r /\ s.supervisors = FALSE
        /\ \E s \in p.roles : s.role = r
    OBVIOUS
  <1> QED BY <1>1, <1>2

\* One scope with supervisors asks for its role or one above it.
LEMMA AdmitsAbove ==
    ASSUME NEW p, NEW r, NEW a, p.groups = {}, p.permissions = {},
           p.roles = {[role |-> r, supervisors |-> TRUE]}
    PROVE  Admits(p, a) <=> \E q \in a.roles : q = r \/ AppRank[q] >= AppRank[r]
  <1>1. Admits(p, a) <=> \E q \in a.roles, s \in p.roles :
            q = s.role \/ (s.supervisors /\ AppRank[q] >= AppRank[s.role])
    BY AdmitsScopes
  <1>2. /\ \A s \in p.roles : s.role = r /\ s.supervisors = TRUE
        /\ \E s \in p.roles : s.role = r /\ s.supervisors = TRUE
    OBVIOUS
  <1> QED BY <1>1, <1>2

\* What the constructors of policies ask of an account.
LEMMA AdmitsFrom ==
    ASSUME NEW a, NEW r
    PROVE  Admits(FromRole(r).policy, a) <=> \E q \in a.roles : q = r \/ AppRank[q] >= AppRank[r]
  <1> DEFINE p == FromRole(r).policy
  <1>1. p.groups = {} /\ p.permissions = {} /\ p.roles = {[role |-> r, supervisors |-> TRUE]}
    BY FromRolePolicy
  <1> HIDE DEF p
  <1>2. Admits(p, a) <=> \E q \in a.roles : q = r \/ AppRank[q] >= AppRank[r]
    BY <1>1, AdmitsAbove
  <1> QED BY <1>2 DEF p

LEMMA AdmitsBy ==
    ASSUME NEW a, NEW r
    PROVE  Admits(ByRole(r).policy, a) <=> r \in a.roles
  <1> DEFINE p == ByRole(r).policy
  <1>1. p.groups = {} /\ p.permissions = {} /\ p.roles = {[role |-> r, supervisors |-> FALSE]}
    BY ByRolePolicy
  <1> HIDE DEF p
  <1>2. Admits(p, a) <=> r \in a.roles
    BY <1>1, AdmitsExactly
  <1> QED BY <1>2 DEF p

LEMMA AdmitsGroup ==
    ASSUME NEW a, NEW g
    PROVE  Admits(ByGroup(g).policy, a) <=> g \in a.groups
  BY ByGroupPolicy
     DEF Admits, DeniesAll, IsAuthorized, MeetsPermission, MeetsGroup, MeetsRole, MeetsHierarchy

LEMMA AdmitsPermission ==
    ASSUME NEW a, NEW i
    PROVE  Admits(ByPermission(i).policy, a) <=> i \in a.permissions
  BY ByPermissionPolicy
     DEF Admits, DeniesAll, IsAuthorized, MeetsPermission, MeetsGroup, MeetsRole, MeetsHierarchy

LEMMA AdmitsLogin ==
    ASSUME NEW a \in Account
    PROVE  Admits(ByLogin.policy, a) <=> a.roles # {}
  <1>1. \A r \in a.roles : AppRank[r] >= AppRank["User"]
    <2>1. a.roles \subseteq AppRoles
      BY DEF Account
    <2> QED BY <2>1, Ranks
  <1> DEFINE p == ByLogin.policy
  <1>3. p.groups = {} /\ p.permissions = {} /\ p.roles = {[role |-> "User", supervisors |-> TRUE]}
    BY ByLoginPolicy
  <1> HIDE DEF p
  <1>2. Admits(p, a) <=> \E q \in a.roles : q = "User" \/ AppRank[q] >= AppRank["User"]
    BY <1>3, AdmitsAbove
  <1> QED BY <1>1, <1>2 DEF p

LEMMA AdmitsStaff ==
    ASSUME NEW a
    PROVE  Admits(AdminOrModerator.policy, a) <=> a.roles \cap {"Admin", "Moderator"} # {}
  <1> DEFINE p == AdminOrModerator.policy
  <1>1. Admits(p, a) <=> \E q \in a.roles, s \in p.roles :
            q = s.role \/ (s.supervisors /\ AppRank[q] >= AppRank[s.role])
    BY StaffPolicy, AdmitsScopes
  <1>2. /\ \A s \in p.roles : s.role \in {"Admin", "Moderator"} /\ s.supervisors = FALSE
        /\ \A r \in {"Admin", "Moderator"} : \E s \in p.roles : s.role = r
    BY StaffPolicy
  <1> HIDE DEF p
  <1>3. Admits(p, a) <=> a.roles \cap {"Admin", "Moderator"} # {}
    BY <1>1, <1>2
  <1> QED BY <1>3 DEF p

-----------------------------------------------------------------------------
(* The routes of the examples *)

\* An account passes all strict gates of a route.
Passes(layers, b) ==
    \A k \in 1..Len(layers) : layers[k].mode = "strict" => Admits(layers[k].policy, b)

\* A route has a strict gate, or an optional one.
Guarded(layers)    == \E k \in 1..Len(layers) : layers[k].mode = "strict"
Recognizes(layers) == \E k \in 1..Len(layers) : layers[k].mode = "optional"

\* Routes of no, of one and of two layers.
LEMMA NoLayers ==
    ASSUME NEW b PROVE Passes(<<>>, b) /\ ~Guarded(<<>>)
  BY DEF Passes, Guarded

LEMMA OneLayer ==
    ASSUME NEW x, NEW b
    PROVE  /\ Passes(<<x>>, b) <=> (x.mode = "strict" => Admits(x.policy, b))
           /\ Guarded(<<x>>) <=> x.mode = "strict"
  <1>1. 1..Len(<<x>>) = {1} /\ <<x>>[1] = x
    OBVIOUS
  <1> QED BY <1>1 DEF Passes, Guarded

LEMMA TwoLayers ==
    ASSUME NEW x, NEW y, NEW b
    PROVE  /\ Passes(<<x, y>>, b) <=> /\ x.mode = "strict" => Admits(x.policy, b)
                                      /\ y.mode = "strict" => Admits(y.policy, b)
           /\ Guarded(<<x, y>>) <=> x.mode = "strict" \/ y.mode = "strict"
  <1>1. 1..Len(<<x, y>>) = {1, 2} /\ <<x, y>>[1] = x /\ <<x, y>>[2] = y
    OBVIOUS
  <1> QED BY <1>1 DEF Passes, Guarded

\* Which accounts a layer lets through, in words about their roles.
LEMMA Gates ==
    ASSUME NEW b
    PROVE  /\ \A r : ByRole(r).mode = "strict" /\ (Admits(ByRole(r).policy, b) <=> r \in b.roles)
           /\ \A r : /\ FromRole(r).mode = "strict"
                     /\ Admits(FromRole(r).policy, b) <=>
                            \E q \in b.roles : q = r \/ AppRank[q] >= AppRank[r]
           /\ \A g : ByGroup(g).mode = "strict" /\ (Admits(ByGroup(g).policy, b) <=> g \in b.groups)
           /\ \A i : /\ ByPermission(i).mode = "strict"
                     /\ Admits(ByPermission(i).policy, b) <=> i \in b.permissions
           /\ ByLogin.mode = "strict"
           /\ AdminOrModerator.mode = "strict"
           /\ Admits(AdminOrModerator.policy, b) <=> b.roles \cap {"Admin", "Moderator"} # {}
           /\ Optional.mode = "optional"
  BY ByRolePolicy, FromRolePolicy, ByGroupPolicy, ByPermissionPolicy, ByLoginPolicy, StaffPolicy,
     OptionalLayer, AdmitsBy, AdmitsFrom, AdmitsGroup, AdmitsPermission, AdmitsStaff

\* The routes of the consumer node, row by row.
LEMMA ConsumerTable ==
    ASSUME NEW r \in DOMAIN ConsumerRoutes
    PROVE  LET route == ConsumerRoutes[r] IN
           \/ /\ r = "admin" /\ route.takes = "account"
              /\ route.layers = <<FromRole("Reporter"), FromRole("Admin")>>
           \/ /\ r = "secret_admin_group" /\ route.takes = "account"
              /\ route.layers = <<FromRole("Reporter"), ByGroup("admin")>>
           \/ r = "reporter" /\ route.takes = "account" /\ route.layers = <<FromRole("Reporter")>>
           \/ r = "user" /\ route.takes = "account" /\ route.layers = <<ByRole("User")>>
           \/ r = "permissions" /\ route.takes = "account" /\ route.layers = <<ByPermission("api:read")>>
           \/ r = "index" /\ route.takes = "nothing" /\ route.layers = <<>>
  BY DEF ConsumerRoutes, Route

\* Who supervises whom among the roles of the crate.
LEMMA CrateRanks ==
    ASSUME NEW q \in CrateRoles
    PROVE  /\ AppRank[q] >= AppRank["Reporter"] <=> q \in {"Reporter", "Moderator", "Admin"}
           /\ AppRank[q] >= AppRank["Admin"] <=> q = "Admin"
  <1>1. q \in {"User", "Reporter", "Moderator", "Admin"}
    BY DEF CrateRoles
  <1> QED BY <1>1, Ranks

\* Among them, the admin has no supervisor.
LEMMA AdmitsAdmins ==
    ASSUME NEW b, b.roles \subseteq CrateRoles
    PROVE  Admits(FromRole("Admin").policy, b) <=> "Admin" \in b.roles
  <1>1. Admits(FromRole("Admin").policy, b) <=>
            \E q \in b.roles : q = "Admin" \/ AppRank[q] >= AppRank["Admin"]
    BY AdmitsFrom
  <1>2. \A q \in b.roles : q = "Admin" \/ AppRank[q] >= AppRank["Admin"] <=> q = "Admin"
    BY CrateRanks
  <1> QED BY <1>1, <1>2

\* Whom the layers of each route of the consumer node let through.
LEMMA ConsumerPasses ==
    ASSUME NEW r \in DOMAIN ConsumerRoutes, NEW b, b.roles \subseteq CrateRoles
    PROVE  LET passes == Passes(ConsumerRoutes[r].layers, b) IN
           /\ r = "admin" => (passes <=> "Admin" \in b.roles)
           /\ r = "secret_admin_group" =>
                 (passes <=> b.roles \cap {"Reporter", "Moderator", "Admin"} # {} /\ "admin" \in b.groups)
           /\ r = "reporter" => (passes <=> b.roles \cap {"Reporter", "Moderator", "Admin"} # {})
           /\ r = "user" => (passes <=> "User" \in b.roles)
           /\ r = "permissions" => (passes <=> "api:read" \in b.permissions)
           /\ r = "index" => passes
  <1>1. /\ FromRole("Reporter").mode = "strict"
        /\ Admits(FromRole("Reporter").policy, b) <=>
              b.roles \cap {"Reporter", "Moderator", "Admin"} # {}
    <2>1. Admits(FromRole("Reporter").policy, b) <=>
              \E q \in b.roles : q = "Reporter" \/ AppRank[q] >= AppRank["Reporter"]
      BY AdmitsFrom
    <2>2. \A q \in b.roles : q = "Reporter" \/ AppRank[q] >= AppRank["Reporter"]
                                <=> q \in {"Reporter", "Moderator", "Admin"}
      BY CrateRanks
    <2> QED BY <2>1, <2>2, FromRolePolicy
  <1>2. /\ FromRole("Admin").mode = "strict"
        /\ Admits(FromRole("Admin").policy, b) <=> "Admin" \in b.roles
    BY AdmitsAdmins, FromRolePolicy
  <1>3. CASE r = "admin"
    <2>1. ConsumerRoutes[r].layers = <<FromRole("Reporter"), FromRole("Admin")>>
      BY <1>3, ConsumerTable
    <2>2. Passes(ConsumerRoutes[r].layers, b) <=>
             Admits(FromRole("Reporter").policy, b) /\ Admits(FromRole("Admin").policy, b)
      BY <1>1, <1>2, <2>1, TwoLayers
    <2> QED BY <1>1, <1>2, <1>3, <2>2
  <1>4. CASE r = "secret_admin_group"
    <2>1. ConsumerRoutes[r].layers = <<FromRole("Reporter"), ByGroup("admin")>>
      BY <1>4, ConsumerTable
    <2>2. Passes(ConsumerRoutes[r].layers, b) <=>
             Admits(FromRole("Reporter").policy, b) /\ Admits(ByGroup("admin").policy, b)
      BY <1>1, <2>1, TwoLayers, ByGroupPolicy
    <2> QED BY <1>1, <1>4, <2>2, AdmitsGroup
  <1>5. CASE r = "reporter"
    <2>1. Passes(ConsumerRoutes[r].layers, b) <=> Admits(FromRole("Reporter").policy, b)
      BY <1>1, <1>5, ConsumerTable, OneLayer
    <2> QED BY <1>1, <1>5, <2>1
  <1>6. CASE r = "user"
    <2>1. ConsumerRoutes[r].layers = <<ByRole("User")>> /\ ByRole("User").mode = "strict"
      BY <1>6, ConsumerTable, ByRolePolicy
    <2>2. Passes(ConsumerRoutes[r].layers, b) <=> Admits(ByRole("User").policy, b)
      BY <2>1, OneLayer
    <2> QED BY <1>6, <2>2, AdmitsBy
  <1>7. CASE r = "permissions"
    <2>1. ConsumerRoutes[r].layers = <<ByPermission("api:read")>> /\ ByPermission("api:read").mode = "strict"
      BY <1>7, ConsumerTable, ByPermissionPolicy
    <2>2. Passes(ConsumerRoutes[r].layers, b) <=> Admits(ByPermission("api:read").policy, b)
      BY <2>1, OneLayer
    <2> QED BY <1>7, <2>2, AdmitsPermission
  <1>8. CASE r = "index"
    BY <1>8, ConsumerTable, NoLayers
  <1> QED BY <1>3, <1>4, <1>5, <1>6, <1>7, <1>8, ConsumerTable

\* A route of the consumer node takes an account behind a strict gate, or takes
\* nothing.
LEMMA ConsumerGuards ==
    ASSUME NEW r \in DOMAIN ConsumerRoutes
    PROVE  /\ Guarded(ConsumerRoutes[r].layers) <=> ConsumerRoutes[r].takes = "account"
           /\ ConsumerRoutes[r].takes \in {"account", "nothing"}
  <1>1. \A q : ByRole(q).mode = "strict" /\ FromRole(q).mode = "strict"
    BY ByRolePolicy, FromRolePolicy
  <1>2. \A q : ByGroup(q).mode = "strict" /\ ByPermission(q).mode = "strict"
    BY ByGroupPolicy, ByPermissionPolicy
  <1>3. CASE r \in {"admin", "secret_admin_group"}
    BY <1>1, <1>2, <1>3, ConsumerTable, TwoLayers
  <1>4. CASE r \in {"reporter", "user", "permissions"}
    BY <1>1, <1>2, <1>4, ConsumerTable, OneLayer
  <1>5. CASE r = "index"
    BY <1>5, ConsumerTable, NoLayers
  <1> QED BY <1>3, <1>4, <1>5, ConsumerTable

\* A route of the consumer node lets through whom it is open to, and nobody else.
LEMMA ConsumerExact ==
    ASSUME NEW a \in {"distributed", "sea_orm"}, NEW r \in DOMAIN ConsumerRoutes,
           NEW b, b.roles \subseteq CrateRoles
    PROVE  Passes(ConsumerRoutes[r].layers, b) <=> OpenTo(a, r, b)
  <1>1. a # "prometheus" /\ a # "simple"
    OBVIOUS
  <1>2. CASE r = "secret_admin_group"
    BY <1>1, <1>2, ConsumerPasses DEF OpenTo, Says, Departs
  <1>3. CASE r # "secret_admin_group"
    BY <1>1, <1>3, ConsumerTable, ConsumerPasses DEF OpenTo, Says, Departs
  <1> QED BY <1>2, <1>3

\* The accounts that the auth node and the SeaORM example create.
LEMMA ConsumerAccounts ==
    ASSUME NEW a \in {"distributed", "sea_orm"}, NEW u \in DOMAIN AccountsOf(a)
    PROVE  LET b == AccountsOf(a)[u] IN
           /\ b \in Account
           /\ b.roles \subseteq CrateRoles
  <1>1. CASE a = "distributed"
    BY <1>1, Ranks DEF AccountsOf, DistributedAccounts, Of, Account, CrateRoles, AppGroups, AppPermissions, RepositoryAccess
  <1>2. CASE a = "sea_orm"
    BY <1>2, Ranks DEF AccountsOf, SeaOrmAccounts, Of, Account, CrateRoles, AppGroups, AppPermissions
  <1> QED BY <1>1, <1>2

\* The routes of the custom_roles example.
LEMMA CustomRolesTable ==
    ASSUME NEW r \in DOMAIN CustomRolesRoutes
    PROVE  LET route == CustomRolesRoutes[r] IN
           \/ r = "admin" /\ route.takes = "account" /\ route.layers = <<ByRole("Expert")>>
           \/ /\ r = "secret_admin_group" /\ route.takes = "account"
              /\ route.layers = <<ByGroup("Maintenance")>>
           \/ r = "reporter" /\ route.takes = "account" /\ route.layers = <<FromRole("Experienced")>>
           \/ r = "user" /\ route.takes = "account" /\ route.layers = <<ByRole("Novice")>>
           \/ r = "index" /\ route.takes = "option" /\ route.layers = <<Optional>>
  BY DEF CustomRolesRoutes, Route

\* Whom the layers of each route of the custom_roles example let through.
LEMMA CustomRolesPasses ==
    ASSUME NEW r \in DOMAIN CustomRolesRoutes, NEW b \in Account
    PROVE  LET passes == Passes(CustomRolesRoutes[r].layers, b) IN
           /\ r = "admin" => (passes <=> "Expert" \in b.roles)
           /\ r = "secret_admin_group" => (passes <=> "Maintenance" \in b.groups)
           /\ r = "reporter" => (passes <=> b.roles \cap {"Experienced", "Expert"} # {})
           /\ r = "user" => (passes <=> "Novice" \in b.roles)
           /\ r = "index" => passes
  <1>1. CASE r = "admin"
    <2>1. CustomRolesRoutes[r].layers = <<ByRole("Expert")>> /\ ByRole("Expert").mode = "strict"
      BY <1>1, CustomRolesTable, ByRolePolicy
    <2> QED BY <1>1, <2>1, OneLayer, AdmitsBy
  <1>2. CASE r = "secret_admin_group"
    <2>1. /\ CustomRolesRoutes[r].layers = <<ByGroup("Maintenance")>>
          /\ ByGroup("Maintenance").mode = "strict"
      BY <1>2, CustomRolesTable, ByGroupPolicy
    <2> QED BY <1>2, <2>1, OneLayer, AdmitsGroup
  <1>3. CASE r = "reporter"
    <2>1. /\ CustomRolesRoutes[r].layers = <<FromRole("Experienced")>>
          /\ FromRole("Experienced").mode = "strict"
      BY <1>3, CustomRolesTable, FromRolePolicy
    <2>2. Admits(FromRole("Experienced").policy, b) <=>
              \E q \in b.roles : q = "Experienced" \/ AppRank[q] >= AppRank["Experienced"]
      BY AdmitsFrom
    <2>3. \A q \in AppRoles : AppRank[q] >= AppRank["Experienced"] <=> q \in {"Experienced", "Expert"}
      BY Ranks
    <2>4. b.roles \subseteq AppRoles
      BY DEF Account
    <2>5. Admits(FromRole("Experienced").policy, b) <=> b.roles \cap {"Experienced", "Expert"} # {}
      BY <2>2, <2>3, <2>4
    <2> QED BY <1>3, <2>1, <2>5, OneLayer
  <1>4. CASE r = "user"
    <2>1. CustomRolesRoutes[r].layers = <<ByRole("Novice")>> /\ ByRole("Novice").mode = "strict"
      BY <1>4, CustomRolesTable, ByRolePolicy
    <2> QED BY <1>4, <2>1, OneLayer, AdmitsBy
  <1>5. CASE r = "index"
    <2>1. CustomRolesRoutes[r].layers = <<Optional>> /\ Optional.mode # "strict"
      BY <1>5, CustomRolesTable, OptionalLayer
    <2> QED BY <1>5, <2>1, OneLayer
  <1> QED BY <1>1, <1>2, <1>3, <1>4, <1>5, CustomRolesTable

\* The routes of the simple_usage example.
LEMMA SimpleTable ==
    ASSUME NEW r \in DOMAIN SimpleRoutes
    PROVE  LET route == SimpleRoutes[r] IN
           \/ r = "admin" /\ route.takes = "account" /\ route.layers = <<ByRole("Admin")>>
           \/ r = "staff" /\ route.takes = "account" /\ route.layers = <<AdminOrModerator>>
           \/ r = "engineering" /\ route.takes = "account" /\ route.layers = <<ByGroup("engineering")>>
           \/ r \in {"profile", "dashboard"} /\ route.takes = "account" /\ route.layers = <<ByLogin>>
           \/ r = "debug" /\ route.takes = "maybe" /\ route.layers = <<>>
           \/ r = "index" /\ route.takes = "nothing" /\ route.layers = <<>>
  BY DEF SimpleRoutes, Route

\* Whom the layers of each route of the simple_usage example let through.
LEMMA SimplePasses ==
    ASSUME NEW r \in DOMAIN SimpleRoutes, NEW b \in Account
    PROVE  LET passes == Passes(SimpleRoutes[r].layers, b) IN
           /\ r = "admin" => (passes <=> "Admin" \in b.roles)
           /\ r = "staff" => (passes <=> b.roles \cap {"Admin", "Moderator"} # {})
           /\ r = "engineering" => (passes <=> "engineering" \in b.groups)
           /\ r \in {"profile", "dashboard"} => (passes <=> b.roles # {})
           /\ r \in {"debug", "index"} => passes
  <1>1. CASE r = "admin"
    <2>1. SimpleRoutes[r].layers = <<ByRole("Admin")>> /\ ByRole("Admin").mode = "strict"
      BY <1>1, SimpleTable, ByRolePolicy
    <2> QED BY <1>1, <2>1, OneLayer, AdmitsBy
  <1>2. CASE r = "staff"
    <2>1. SimpleRoutes[r].layers = <<AdminOrModerator>> /\ AdminOrModerator.mode = "strict"
      BY <1>2, SimpleTable, StaffPolicy
    <2> QED BY <1>2, <2>1, OneLayer, AdmitsStaff
  <1>3. CASE r = "engineering"
    <2>1. /\ SimpleRoutes[r].layers = <<ByGroup("engineering")>>
          /\ ByGroup("engineering").mode = "strict"
      BY <1>3, SimpleTable, ByGroupPolicy
    <2> QED BY <1>3, <2>1, OneLayer, AdmitsGroup
  <1>4. CASE r \in {"profile", "dashboard"}
    <2>1. SimpleRoutes[r].layers = <<ByLogin>> /\ ByLogin.mode = "strict"
      BY <1>4, SimpleTable, ByLoginPolicy
    <2> QED BY <1>4, <2>1, OneLayer, AdmitsLogin
  <1>5. CASE r \in {"debug", "index"}
    BY <1>5, SimpleTable, NoLayers
  <1> QED BY <1>1, <1>2, <1>3, <1>4, <1>5, SimpleTable

\* The routes of the prometheus example.
LEMMA PrometheusTable ==
    ASSUME NEW r \in DOMAIN PrometheusRoutes
    PROVE  LET route == PrometheusRoutes[r] IN
           \/ r = "admin" /\ route.takes = "account" /\ route.layers = <<ByRole("Admin")>>
           \/ r = "dashboard" /\ route.takes = "account" /\ route.layers = <<FromRole("Admin")>>
           \/ r = "index" /\ route.takes = "maybe" /\ route.layers = <<Optional>>
  BY DEF PrometheusRoutes, Route

\* Whom the layers of each route of the prometheus example let through.
LEMMA PrometheusPasses ==
    ASSUME NEW r \in DOMAIN PrometheusRoutes, NEW b, b.roles \subseteq CrateRoles
    PROVE  LET passes == Passes(PrometheusRoutes[r].layers, b) IN
           /\ r \in {"admin", "dashboard"} => (passes <=> "Admin" \in b.roles)
           /\ r = "index" => passes
  <1>1. CASE r = "admin"
    <2>1. PrometheusRoutes[r].layers = <<ByRole("Admin")>> /\ ByRole("Admin").mode = "strict"
      BY <1>1, PrometheusTable, ByRolePolicy
    <2> QED BY <1>1, <2>1, OneLayer, AdmitsBy
  <1>2. CASE r = "index"
    <2>1. PrometheusRoutes[r].layers = <<Optional>> /\ Optional.mode # "strict"
      BY <1>2, PrometheusTable, OptionalLayer
    <2> QED BY <1>2, <2>1, OneLayer
  <1>3. CASE r = "dashboard"
    <2>1. PrometheusRoutes[r].layers = <<FromRole("Admin")>> /\ FromRole("Admin").mode = "strict"
      BY <1>3, PrometheusTable, FromRolePolicy
    <2> QED BY <1>3, <2>1, OneLayer, AdmitsAdmins
  <1> QED BY <1>1, <1>2, <1>3

\* The routes of the oauth2-github example.
LEMMA GithubTable ==
    ASSUME NEW r \in DOMAIN GithubRoutes
    PROVE  LET route == GithubRoutes[r] IN
           \/ r = "protected" /\ route.takes = "account" /\ route.layers = <<ByLogin>>
           \/ r = "index" /\ route.takes = "option" /\ route.layers = <<Optional>>
  BY DEF GithubRoutes, Route

\* Everybody who has a role passes them.
LEMMA GithubPasses ==
    ASSUME NEW r \in DOMAIN GithubRoutes, NEW b \in Account, b.roles # {}
    PROVE  Passes(GithubRoutes[r].layers, b)
  <1>1. CASE r = "protected"
    BY <1>1, GithubTable, ByLoginPolicy, OneLayer, AdmitsLogin
  <1>2. CASE r = "index"
    <2>1. GithubRoutes[r].layers = <<Optional>> /\ Optional.mode # "strict"
      BY <1>2, GithubTable, OptionalLayer
    <2> QED BY <1>2, <2>1, OneLayer
  <1> QED BY <1>1, <1>2, GithubTable

-----------------------------------------------------------------------------
(* All examples together *)

\* The accounts that may come about in an application: those of three examples
\* have roles of the crate; those of the others, which nobody changes, have some.
AccountsIn(a) ==
    {b \in Account : IF a \in {"distributed", "sea_orm", "prometheus"}
                     THEN b.roles \subseteq CrateRoles ELSE b.roles # {}}

\* What every example creates is an account of its kind.
LEMMA CreatedAccounts ==
    ASSUME NEW a \in Apps, NEW u \in DOMAIN AccountsOf(a)
    PROVE  AccountsOf(a)[u] \in AccountsIn(a)
  <1>1. CASE a \in {"distributed", "sea_orm"}
    BY <1>1, ConsumerAccounts DEF AccountsIn
  <1> USE Ranks DEF AccountsOf, Of, Account, AppGroups, AppPermissions, AccountsIn
  <1>2. CASE a = "custom_roles"
    BY <1>2 DEF CustomRolesAccounts
  <1>3. CASE a = "simple"
    BY <1>3 DEF SimpleAccounts
  <1>4. CASE a = "prometheus"
    BY <1>4 DEF PrometheusAccounts, CrateRoles
  <1>5. CASE a = "github"
    BY <1>5 DEF GithubAccounts
  <1> QED BY <1>1, <1>2, <1>3, <1>4, <1>5 DEF Apps

\* Where a login of a user may lead.
LEMMA Logins ==
    ASSUME NEW a \in Apps, NEW u \in DOMAIN AccountsOf(a)
    PROVE  LoginAs(a, u) \subseteq DOMAIN AccountsOf(a)
  BY DEF LoginAs, AccountsOf, GithubAccounts, Apps

\* The routes that take an account are those behind a strict gate; every one that
\* takes an option is behind an optional one.
LEMMA Layered ==
    ASSUME NEW a \in Apps, NEW r \in DOMAIN RoutesOf(a)
    PROVE  LET route == RoutesOf(a)[r] IN
           /\ route.takes = "account" <=> Guarded(route.layers)
           /\ route.takes = "option" => Recognizes(route.layers)
           /\ route.takes \in {"account", "option", "maybe", "nothing"}
           /\ a = "prometheus" => Len(route.layers) = 1
  <1>1. CASE a \in {"distributed", "sea_orm"}
    BY <1>1, ConsumerGuards DEF RoutesOf
  <1>2. ASSUME NEW x
        PROVE  /\ Len(<<x>>) = 1
               /\ Guarded(<<x>>) <=> x.mode = "strict"
               /\ x.mode = "optional" => Recognizes(<<x>>)
    <2>1. 1..Len(<<x>>) = {1} /\ <<x>>[1] = x
      OBVIOUS
    <2> QED BY <2>1 DEF Guarded, Recognizes
  <1>m. /\ \A q : /\ ByRole(q).mode = "strict" /\ FromRole(q).mode = "strict"
                  /\ ByGroup(q).mode = "strict" /\ ByPermission(q).mode = "strict"
        /\ ByLogin.mode = "strict" /\ AdminOrModerator.mode = "strict"
        /\ Optional.mode = "optional"
    BY Gates
  <1>3. CASE a = "custom_roles"
    BY <1>2, <1>m, <1>3, CustomRolesTable DEF RoutesOf
  <1>4. CASE a = "simple"
    BY <1>2, <1>m, <1>4, SimpleTable, NoLayers DEF RoutesOf
  <1>5. CASE a = "prometheus"
    BY <1>2, <1>m, <1>5, PrometheusTable DEF RoutesOf
  <1>6. CASE a = "github"
    BY <1>2, <1>m, <1>6, GithubTable DEF RoutesOf
  <1> QED BY <1>1, <1>3, <1>4, <1>5, <1>6 DEF Apps

\* Every route lets through whom it is open to, and nobody else; handlers that
\* look for an account no gate installs are open to nobody.
LEMMA Exact ==
    ASSUME NEW a \in Apps, NEW r \in DOMAIN RoutesOf(a), NEW b \in AccountsIn(a)
    PROVE  IF RoutesOf(a)[r].takes = "maybe"
           THEN ~OpenTo(a, r, b)
           ELSE Passes(RoutesOf(a)[r].layers, b) <=> OpenTo(a, r, b)
  <1>1. b \in Account
    BY DEF AccountsIn
  <1>2. CASE a \in {"distributed", "sea_orm"}
    <2>1. /\ RoutesOf(a) = ConsumerRoutes /\ r \in DOMAIN ConsumerRoutes
          /\ b.roles \subseteq CrateRoles
      BY <1>2 DEF RoutesOf, AccountsIn
    <2> QED BY <1>2, <2>1, ConsumerExact, ConsumerGuards
  <1>3. CASE a = "custom_roles"
    BY <1>1, <1>3, CustomRolesTable, CustomRolesPasses DEF RoutesOf, OpenTo, Says, Departs
  <1>4. CASE a = "simple"
    <2>1. b.roles # {} /\ RoutesOf(a) = SimpleRoutes /\ r \in DOMAIN SimpleRoutes
      BY <1>4 DEF AccountsIn, RoutesOf
    <2> QED BY <1>1, <1>4, <2>1, SimpleTable, SimplePasses DEF OpenTo, Says, Departs
  <1>5. CASE a = "prometheus"
    <2>1. b.roles \subseteq CrateRoles /\ RoutesOf(a) = PrometheusRoutes /\ r \in DOMAIN PrometheusRoutes
      BY <1>5 DEF AccountsIn, RoutesOf
    <2> QED BY <1>5, <2>1, PrometheusTable, PrometheusPasses DEF OpenTo, Says, Departs
  <1>6. CASE a = "github"
    <2>1. b.roles # {} /\ RoutesOf(a) = GithubRoutes /\ r \in DOMAIN GithubRoutes
      BY <1>6 DEF AccountsIn, RoutesOf
    <2>2. Passes(GithubRoutes[r].layers, b) /\ GithubRoutes[r].takes # "maybe"
      BY <1>1, <2>1, GithubPasses, GithubTable
    <2> QED BY <1>6, <2>1, <2>2 DEF OpenTo, Says, Departs
  <1> QED BY <1>2, <1>3, <1>4, <1>5, <1>6 DEF Apps

-----------------------------------------------------------------------------
(* The inductive invariant *)

\* A token of the service: made for an account of the application, to last as
\* long as the session does.
Genuine(token) ==
    token \in Token /\ token.account \in AccountsIn(app) /\ token.exp = Ends(token)

\* The layers of its route that request q has passed in mode mode.
Passed(q, mode) ==
    LET layers == RoutesOf(app)[q.route].layers
    IN  {k \in 1..Len(layers) : k < q.layer /\ layers[k].mode = mode}

\* What has become of a request on its way: the gates that it passed admitted its
\* account and put it in; an optional one that knew nobody saw no valid token;
\* whoever is known by now had a valid token when the request was sent.
Progress(q) ==
    /\ q.layer >= 1 /\ q.sent <= now
    /\ q.account \/ q.option => q.cookie # NoToken /\ q.sent < q.cookie.exp
    /\ q.account <=> Passed(q, "strict") # {}
    /\ \A k \in Passed(q, "strict") :
          q.cookie # NoToken /\ Admits(RoutesOf(app)[q.route].layers[k].policy, q.cookie.account)
    /\ Passed(q, "optional") # {} /\ ~q.option => q.cookie = NoToken \/ now >= q.cookie.exp

Sound(q) == q \in Request /\ Progress(q) /\ (q.cookie # NoToken => Genuine(q.cookie))

\* Tabs with a request, and with one that has got its account.
Underway == {t \in Tabs : Running(t)}

Knowing == {t \in Tabs : Running(t) /\ req[t].account}

IInv ==
    /\ TypeOK
    /\ installed = Installs
    /\ \A u \in Users : accounts[u] \in AccountsIn(app)
    /\ jar # NoToken => Genuine(jar)
    /\ \A t \in Underway : Sound(req[t])
    /\ IsFiniteSet(Underway)
    /\ CountsAddUp
    /\ ServedExactly

\* A route has a number of layers.
LEMMA LayerCount ==
    ASSUME NEW a \in Apps, NEW r \in DOMAIN RoutesOf(a)
    PROVE  Len(RoutesOf(a)[r].layers) \in Nat
  <1>1. CASE a \in {"distributed", "sea_orm"}
    BY <1>1, ConsumerTable DEF RoutesOf
  <1>2. CASE a = "custom_roles"
    BY <1>2, CustomRolesTable DEF RoutesOf
  <1>3. CASE a = "simple"
    BY <1>3, SimpleTable DEF RoutesOf
  <1>4. CASE a = "prometheus"
    BY <1>4, PrometheusTable DEF RoutesOf
  <1>5. CASE a = "github"
    BY <1>5, GithubTable DEF RoutesOf
  <1> QED BY <1>1, <1>2, <1>3, <1>4, <1>5 DEF Apps

\* A request stays sound while time passes.
LEMMA StaysSound ==
    ASSUME NEW q, Sound(q), app' = app, now \in Nat, now' \in Nat, now <= now'
    PROVE  Sound(q)'
  <1>1. Request' = Request /\ Token' = Token
    BY DEF Request, Token, Routes, Users
  <1>2. q.cookie # NoToken => q.cookie \in Token /\ q.cookie.exp \in Nat
    BY DEF Sound, Genuine, Token
  <1>s. q.sent \in Nat
    BY DEF Sound, Request
  <1>3. Passed(q, "strict")' = Passed(q, "strict") /\ Passed(q, "optional")' = Passed(q, "optional")
    BY DEF Passed
  <1>4. Progress(q)'
    BY <1>2, <1>s, <1>3 DEF Sound, Progress
  <1>5. q.cookie # NoToken => Genuine(q.cookie)'
    BY <1>1 DEF Sound, Genuine, Ends
  <1> QED BY <1>1, <1>4, <1>5 DEF Sound

\* A request that passes a layer.
LEMMA PassesLayer ==
    ASSUME NEW q \in Request, NEW p \in Request, app \in Apps,
           q.layer >= 1, p.route = q.route, p.layer = q.layer + 1,
           q.layer <= Len(RoutesOf(app)[q.route].layers)
    PROVE  \A m : Passed(p, m) = IF RoutesOf(app)[q.route].layers[q.layer].mode = m
                                 THEN Passed(q, m) \cup {q.layer} ELSE Passed(q, m)
  <1> DEFINE layers == RoutesOf(app)[q.route].layers
  <1>1. Len(layers) \in Nat /\ q.layer \in Nat
    BY LayerCount DEF Request, Routes
  <1> HIDE DEF layers
  <1>2. \A k \in 1..Len(layers) : k < p.layer <=> k < q.layer \/ k = q.layer
    BY <1>1
  <1>3. q.layer \in 1..Len(layers) /\ ~(q.layer < q.layer)
    BY <1>1 DEF layers
  <1>4. /\ \A m : Passed(p, m) = {k \in 1..Len(layers) : k < p.layer /\ layers[k].mode = m}
        /\ \A m : Passed(q, m) = {k \in 1..Len(layers) : k < q.layer /\ layers[k].mode = m}
    BY DEF Passed, layers
  <1>5. ASSUME NEW m, layers[q.layer].mode = m
        PROVE  Passed(p, m) = Passed(q, m) \cup {q.layer}
    BY <1>2, <1>3, <1>4, <1>5
  <1>6. ASSUME NEW m, layers[q.layer].mode # m
        PROVE  Passed(p, m) = Passed(q, m)
    <2>1. \A k \in 1..Len(layers) :
              k < p.layer /\ layers[k].mode = m <=> k < q.layer /\ layers[k].mode = m
      BY <1>2, <1>6
    <2>2. Passed(p, m) \subseteq Passed(q, m) /\ Passed(q, m) \subseteq Passed(p, m)
      BY <1>4, <2>1
    <2> QED BY <2>2
  <1> QED BY <1>5, <1>6 DEF layers

\* The created accounts make up a repository.
LEMMA Repositories ==
    ASSUME NEW a \in Apps
    PROVE  AccountsOf(a) \in [DOMAIN AccountsOf(a) -> Account]
  <1>1. \A u \in DOMAIN AccountsOf(a) : AccountsOf(a)[u] \in Account
    BY CreatedAccounts DEF AccountsIn
  <1>2. AccountsOf(a) = [u \in DOMAIN AccountsOf(a) |-> AccountsOf(a)[u]]
    BY DEF AccountsOf, DistributedAccounts, SeaOrmAccounts, CustomRolesAccounts, SimpleAccounts,
           PrometheusAccounts, GithubAccounts, Apps
  <1> QED BY <1>1, <1>2

-----------------------------------------------------------------------------
(* Every action keeps it *)

\* The invariant holds at the start.
LEMMA InitIInv == Init => IInv
  <1> SUFFICES ASSUME Init PROVE IInv
    OBVIOUS
  <1> USE AppsAssumption DEF Init
  <1>1. TypeOK
    BY Repositories DEF TypeOK, Users, AppsAssumption, Zero, Verdicts, Installs
  <1>2. Underway = {} /\ Knowing = {}
    BY DEF Underway, Knowing, Running
  <1>3. IsFiniteSet(Underway)
    BY <1>2, FS_EmptySet
  <1>4. Cardinality({t \in Tabs : Running(t) /\ req[t].account}) = 0
    BY <1>2, FS_EmptySet DEF Knowing
  <1>5. CountsAddUp
    BY <1>4 DEF CountsAddUp, Zero, Verdicts
  <1>6. \A u \in Users : accounts[u] \in AccountsIn(app)
    BY CreatedAccounts DEF Users
  <1> QED BY <1>1, <1>2, <1>3, <1>5, <1>6 DEF IInv, ServedExactly

\* What steps do that pass no request and count nothing.
LEMMA Quiet ==
    ASSUME IInv, TypeOK', app' = app, now <= now', req' = req, last' = NoAnswer,
           UNCHANGED metrics,
           \A u \in Users : accounts'[u] \in AccountsIn(app),
           jar' # NoToken => jar' = jar \/ Genuine(jar')
    PROVE  IInv'
  <1>1. /\ Tabs' = Tabs /\ Users' = Users /\ Token' = Token /\ Installs' = Installs
        /\ now \in Nat /\ now' \in Nat
    BY AppsAssumption DEF IInv, TypeOK, Tabs, Users, Token, Installs, AppsAssumption
  <1>2. \A t \in Underway : Sound(req[t])'
    BY <1>1, StaysSound DEF IInv
  <1>3. Underway' = Underway /\ Knowing' = Knowing
    BY <1>1 DEF Underway, Knowing, Running
  <1>4. CountsAddUp'
    BY <1>3 DEF IInv, CountsAddUp, Knowing, metrics
  <1>5. jar' # NoToken => Genuine(jar)'
    BY <1>1 DEF IInv, Genuine, Ends
  <1> QED BY <1>1, <1>2, <1>3, <1>4, <1>5 DEF IInv, metrics, ServedExactly

\* The actions one by one: the surroundings.
LEMMA TickStep ==
    ASSUME IInv, Tick PROVE IInv'
  <1>1. TypeOK'
    BY AppsAssumption DEF IInv, Tick, TypeOK, AppsAssumption, Users, Tabs, Token, Request, Routes, Answers, metrics
  <1>2. now <= now'
    BY AppsAssumption DEF IInv, Tick, TypeOK, AppsAssumption
  <1> QED BY <1>1, <1>2, Quiet DEF Tick, IInv

LEMMA LogoutStep ==
    ASSUME IInv, Logout PROVE IInv'
  <1>1. TypeOK'
    BY DEF IInv, Logout, TypeOK, Users, Tabs, Token, Request, Routes, Answers, metrics
  <1>2. now <= now'
    BY AppsAssumption DEF IInv, Logout, TypeOK, AppsAssumption
  <1> QED BY <1>1, <1>2, Quiet DEF Logout, IInv

LEMMA LoginStep ==
    ASSUME IInv, NEW u \in Users, Login(u) PROVE IInv'
  <1>1. PICK v \in LoginAs(app, u) :
            jar' = [user |-> v, account |-> accounts[v], exp |-> Expiry,
                    built |-> started, since |-> now]
    BY DEF Login
  <1>2. v \in Users /\ app \in Apps
    BY Logins DEF Users, IInv, TypeOK
  <1>3. now \in Nat /\ started \in Nat /\ Life \in Nat
    BY AppsAssumption DEF IInv, TypeOK, AppsAssumption
  <1>4. Genuine(jar')
    BY <1>1, <1>2, <1>3 DEF Genuine, Token, Expiry, Ends, IInv, TypeOK
  <1>5. TypeOK'
    BY <1>4 DEF IInv, Login, TypeOK, Genuine, Users, Tabs, Token, Request, Routes, Answers, metrics
  <1>6. now <= now'
    BY <1>3 DEF Login
  <1> QED BY <1>4, <1>5, <1>6, Quiet DEF Login, IInv

LEMMA ChangeStep ==
    ASSUME IInv, NEW u \in Users, NEW a \in Changed, ChangeAccount(u, a) PROVE IInv'
  <1>1. /\ a \in Account /\ a.roles \subseteq CrateRoles /\ accounts[u] \in Account
        /\ app = "sea_orm"
    BY AppsAssumption DEF AppsAssumption, IInv, TypeOK, ChangeAccount
  <1> DEFINE b == [accounts[u] EXCEPT !.roles = a.roles, !.groups = a.groups]
  <1>2. b \in AccountsIn(app)
    BY <1>1 DEF Account, AccountsIn
  <1>3. accounts' = [accounts EXCEPT ![u] = b]
    BY DEF ChangeAccount
  <1> HIDE DEF b
  <1>4. accounts' \in [Users -> Account] /\ \A v \in Users : accounts'[v] \in AccountsIn(app)
    BY <1>2, <1>3 DEF IInv, TypeOK, AccountsIn
  <1>5. TypeOK'
    BY <1>4 DEF IInv, ChangeAccount, TypeOK, Users, Tabs, Token, Request, Routes, Answers, metrics
  <1>6. now <= now'
    BY AppsAssumption DEF IInv, ChangeAccount, TypeOK, AppsAssumption
  <1> QED BY <1>4, <1>5, <1>6, Quiet DEF ChangeAccount, IInv

\* A restart drops what was under way, but for the consumer node.
LEMMA RestartStep ==
    ASSUME IInv, Restart PROVE IInv'
  <1> USE DEF Restart
  <1>1. /\ Tabs' = Tabs /\ Users' = Users /\ Token' = Token /\ Installs' = Installs
        /\ Request' = Request /\ now \in Nat /\ app \in Apps
    BY AppsAssumption
       DEF IInv, TypeOK, Tabs, Users, Token, Installs, AppsAssumption, Request, Routes
  <1>2. Underway' \subseteq Underway /\ \A t \in Underway' : req'[t] = req[t]
    BY <1>1 DEF Underway, Running
  <1>3. \A t \in Underway' : Sound(req[t])'
    <2>1. \A q : Sound(q) => Sound(q)'
      BY <1>1, StaysSound
    <2>2. \A t \in Underway' : Sound(req'[t])
      BY <1>2 DEF IInv
    <2> QED BY <2>1, <2>2
  <1>4. IsFiniteSet(Underway')
    BY <1>2, FS_Subset DEF IInv
  <1>5. CountsAddUp'
    <2> SUFFICES ASSUME Installs
                 PROVE  CountsAddUp'
      BY <1>1 DEF CountsAddUp
    <2>1. Knowing' = {}
      BY <1>1 DEF Knowing, Running, Installs
    <2>2. Cardinality({t \in Tabs : Running(t) /\ req[t].account})' = 0
      BY <2>1, FS_EmptySet DEF Knowing
    <2> QED BY <2>2 DEF CountsAddUp, Zero, Verdicts
  <1>6. TypeOK'
    <2>1. accounts' \in [Users -> Account]
      BY <1>1, Repositories DEF Users
    <2> QED
      BY <1>1, <2>1 DEF IInv, TypeOK, Answers, Zero, Verdicts, Installs
  <1>7. \A u \in Users' : accounts'[u] \in AccountsIn(app')
    BY <1>1, CreatedAccounts DEF Users
  <1>8. jar' # NoToken => Genuine(jar)'
    BY <1>1 DEF IInv, Genuine, Ends
  <1> QED BY <1>1, <1>3, <1>4, <1>5, <1>6, <1>7, <1>8 DEF IInv, ServedExactly

\* A step of one request that leaves the surroundings alone.
LEMMA OneRequest ==
    ASSUME IInv, NEW t \in Tabs, NEW p \in Request \cup {NoRequest},
           req' = [req EXCEPT ![t] = p], UNCHANGED <<app, now, started, accounts, jar, installed>>,
           p # NoRequest => Sound(p)
    PROVE  /\ req' \in [Tabs -> Request \cup {NoRequest}]
           /\ \A s \in Underway' : Sound(req[s])'
           /\ IsFiniteSet(Underway')
           /\ Knowing' = IF p # NoRequest /\ p.account THEN Knowing \cup {t} ELSE Knowing \ {t}
           /\ IsFiniteSet(Knowing)
  <1>1. Tabs' = Tabs /\ now \in Nat
    BY AppsAssumption DEF Tabs, IInv, TypeOK, AppsAssumption
  <1>2. req' \in [Tabs -> Request \cup {NoRequest}] /\ req'[t] = p
        /\ \A s \in Tabs \ {t} : req'[s] = req[s]
    BY DEF IInv, TypeOK
  <1>3. \A s \in Underway' : Sound(req'[s])
    BY <1>1, <1>2 DEF IInv, Underway, Running
  <1>4. \A s \in Underway' : Sound(req[s])'
    <2>1. \A q : Sound(q) => Sound(q)'
      BY <1>1, StaysSound
    <2> QED BY <1>3, <2>1
  <1>5. Underway' \subseteq Underway \cup {t}
    BY <1>1, <1>2 DEF Underway, Running
  <1>6. IsFiniteSet(Underway')
    BY <1>5, FS_AddElement, FS_Subset DEF IInv
  <1>7. Knowing' = IF p # NoRequest /\ p.account THEN Knowing \cup {t} ELSE Knowing \ {t}
    BY <1>1, <1>2 DEF Knowing, Running
  <1>8. IsFiniteSet(Knowing)
    BY FS_Subset DEF IInv, Knowing, Underway
  <1> QED BY <1>2, <1>4, <1>6, <1>7, <1>8

\* A new request has passed no layer.
LEMMA SendStep ==
    ASSUME IInv, NEW t \in Tabs, NEW route \in Routes, Send(t, route) PROVE IInv'
  <1> DEFINE p == [route |-> route, cookie |-> jar, sent |-> now, layer |-> 1,
                account |-> FALSE, option |-> FALSE]
  <1> USE DEF Send, metrics
  <1>0. now \in Nat
    BY AppsAssumption DEF IInv, TypeOK, AppsAssumption
  <1>1. p \in Request
    BY <1>0 DEF Request, IInv, TypeOK
  <1>2. /\ p # NoRequest /\ ~p.account /\ p.layer = 1 /\ p.cookie = jar /\ p.option = FALSE
        /\ p.sent = now
    <2>1. p.layer # NoRequest.layer
      BY DEF NoRequest
    <2> QED BY <2>1
  <1>3. req' = [req EXCEPT ![t] = p]
    OBVIOUS
  <1> HIDE DEF p
  <1>4. app \in Apps /\ p.route \in DOMAIN RoutesOf(app)
    BY <1>1 DEF IInv, TypeOK, Request, Routes
  <1>5. \A mode : Passed(p, mode) = {}
    BY <1>2, <1>4, LayerCount DEF Passed
  <1>6. Sound(p)
    BY <1>0, <1>1, <1>2, <1>5 DEF Sound, Progress, IInv
  <1>7. t \notin Knowing
    BY DEF Knowing
  <1>8. /\ req' \in [Tabs -> Request \cup {NoRequest}]
        /\ \A s \in Underway' : Sound(req[s])'
        /\ IsFiniteSet(Underway')
        /\ Knowing' = Knowing
    <2>1. UNCHANGED <<app, now, started, accounts, jar, installed>> /\ p \in Request \cup {NoRequest}
      BY <1>1
    <2>2. Knowing' = IF p # NoRequest /\ p.account THEN Knowing \cup {t} ELSE Knowing \ {t}
      BY <1>3, <1>6, <2>1, OneRequest
    <2>3. /\ req' \in [Tabs -> Request \cup {NoRequest}]
          /\ \A s \in Underway' : Sound(req[s])'
          /\ IsFiniteSet(Underway')
      BY <1>3, <1>6, <2>1, OneRequest
    <2> QED BY <1>2, <1>7, <2>2, <2>3
  <1>9. CountsAddUp'
    BY <1>8 DEF IInv, CountsAddUp, Knowing
  <1>10. TypeOK'
    BY <1>8 DEF IInv, TypeOK, Users, Tabs, Token, Request, Routes, Answers
  <1> QED BY <1>8, <1>9, <1>10 DEF IInv, Installs, Users, Genuine, Ends, Token, ServedExactly

\* The request of a tab that meets a layer.
LEMMA Met ==
    ASSUME IInv, NEW t \in Tabs, NEW mode, Meets(t, mode)
    PROVE  LET q == req[t] IN
           /\ Sound(q) /\ q # NoRequest /\ app \in Apps /\ q.route \in DOMAIN RoutesOf(app)
           /\ q.layer \in Nat /\ q.layer >= 1 /\ q.layer <= Len(RoutesOf(app)[q.route].layers)
           /\ RoutesOf(app)[q.route].layers[q.layer].mode = mode
  <1>1. t \in Underway
    BY DEF Meets, Underway
  <1> QED BY <1>1 DEF Meets, Underway, Running, Layers, IInv, TypeOK, Sound, Progress, Request, Routes

\* The request that a gate hands on.
LEMMA HandedOn ==
    ASSUME NEW q \in Request
    PROVE  LET p == [q EXCEPT !.layer = @ + 1]
           IN  /\ p \in Request /\ p.route = q.route /\ p.layer = q.layer + 1
               /\ p.cookie = q.cookie /\ p.account = q.account /\ p.option = q.option
               /\ p.sent = q.sent
  BY DEF Request

LEMMA WithOption ==
    ASSUME NEW q \in Request, NEW v \in BOOLEAN
    PROVE  LET p == [q EXCEPT !.option = v]
           IN  /\ p \in Request /\ p.route = q.route /\ p.layer = q.layer
               /\ p.cookie = q.cookie /\ p.account = q.account /\ p.option = v
               /\ p.sent = q.sent
  BY DEF Request

LEMMA WithAccount ==
    ASSUME NEW q \in Request, NEW v \in BOOLEAN
    PROVE  LET p == [q EXCEPT !.account = v]
           IN  /\ p \in Request /\ p.route = q.route /\ p.layer = q.layer
               /\ p.cookie = q.cookie /\ p.account = v /\ p.option = q.option
               /\ p.sent = q.sent
  BY DEF Request

\* What is left of a request that an optional gate hands on.
LEMMA OptionalHands ==
    ASSUME IInv, NEW t \in Tabs, MeetOptional(t)
    PROVE  \E p \in Request :
              /\ p.route = req[t].route /\ p.layer = req[t].layer + 1 /\ p.cookie = req[t].cookie
              /\ p.sent = req[t].sent
              /\ p.account <=> req[t].account
              /\ p.option <=> Valid(req[t].cookie)
              /\ req' = [req EXCEPT ![t] = p]
  <1> DEFINE v == Valid(req[t].cookie)
             r == [req[t] EXCEPT !.option = v]
             p == [r EXCEPT !.layer = @ + 1]
  <1>1. req[t] \in Request /\ v \in BOOLEAN
    BY Met DEF MeetOptional, Sound, Valid
  <1>2. req' = [req EXCEPT ![t] = p]
    BY DEF MeetOptional, Forward
  <1> HIDE DEF v
  <1>3. /\ r \in Request /\ r.route = req[t].route /\ r.layer = req[t].layer
        /\ r.cookie = req[t].cookie /\ r.account = req[t].account /\ r.option = v
        /\ r.sent = req[t].sent
    BY <1>1, WithOption
  <1> HIDE DEF r
  <1>4. /\ p \in Request /\ p.route = r.route /\ p.layer = r.layer + 1
        /\ p.cookie = r.cookie /\ p.account = r.account /\ p.option = r.option
        /\ p.sent = r.sent
    BY <1>3, HandedOn
  <1> HIDE DEF p
  <1>5. (p.option <=> v) /\ (p.account <=> req[t].account)
    BY <1>3, <1>4
  <1> QED BY <1>2, <1>3, <1>4, <1>5 DEF v

\* An optional gate notes whether the token was valid.
LEMMA OptionalStep ==
    ASSUME IInv, NEW t \in Tabs, MeetOptional(t) PROVE IInv'
  <1>1. PICK p \in Request :
              /\ p.route = req[t].route /\ p.layer = req[t].layer + 1 /\ p.cookie = req[t].cookie
              /\ p.sent = req[t].sent
              /\ p.account <=> req[t].account
              /\ p.option <=> Valid(req[t].cookie)
              /\ req' = [req EXCEPT ![t] = p]
    BY OptionalHands
  <1>2. /\ UNCHANGED <<app, now, started, accounts, jar, installed>> /\ UNCHANGED metrics
        /\ last' = NoAnswer /\ Meets(t, "optional")
    BY DEF MeetOptional, Meets, Forward, metrics
  <1> DEFINE q == req[t]
  <1>3. /\ Sound(q) /\ q # NoRequest /\ app \in Apps /\ q.route \in DOMAIN RoutesOf(app)
        /\ q.layer \in Nat /\ q.layer >= 1 /\ q.layer <= Len(RoutesOf(app)[q.route].layers)
        /\ RoutesOf(app)[q.route].layers[q.layer].mode = "optional"
    BY <1>2, Met
  <1>4. q \in Request
    BY <1>3 DEF Sound
  <1>5. p # NoRequest
    <2>1. p.layer # NoRequest.layer
      BY <1>1, <1>3 DEF NoRequest
    <2> QED BY <2>1
  <1>6. /\ Passed(p, "optional") = Passed(q, "optional") \cup {q.layer}
        /\ Passed(p, "strict") = Passed(q, "strict")
    <2>1. p.route = q.route /\ p.layer = q.layer + 1
      BY <1>1
    <2> HIDE DEF q
    <2>2. \A m : Passed(p, m) = IF RoutesOf(app)[q.route].layers[q.layer].mode = m
                                THEN Passed(q, m) \cup {q.layer} ELSE Passed(q, m)
      BY <1>3, <1>4, <2>1, PassesLayer
    <2> QED BY <1>3, <2>2
  <1>7. Progress(p)
    <2>1. ~p.option => p.cookie = NoToken \/ now >= p.cookie.exp
      BY <1>1, AppsAssumption DEF Valid, IInv, TypeOK, Request, Token, AppsAssumption
    <2>2. p.layer >= 1 /\ p.sent <= now
      BY <1>1, <1>3 DEF Sound, Progress
    <2>3. p.account \/ p.option => p.cookie # NoToken /\ p.sent < p.cookie.exp
      <3>1. CASE p.option
        <4>1. p.cookie # NoToken /\ now < p.cookie.exp
          BY <1>1, <3>1 DEF Valid
        <4>2. now \in Nat /\ p.sent \in Nat /\ p.cookie.exp \in Nat
          BY <1>1, <4>1, AppsAssumption DEF IInv, TypeOK, Request, Token, AppsAssumption
        <4> QED BY <2>2, <4>1, <4>2
      <3>2. CASE p.account
        BY <1>1, <1>3, <3>2 DEF Sound, Progress
      <3> QED BY <3>1, <3>2
    <2>4. p.account <=> Passed(p, "strict") # {}
      BY <1>1, <1>3, <1>6 DEF Sound, Progress
    <2>5. \A k \in Passed(p, "strict") :
              p.cookie # NoToken /\ Admits(RoutesOf(app)[p.route].layers[k].policy, p.cookie.account)
      BY <1>1, <1>3, <1>6 DEF Sound, Progress
    <2> QED BY <2>1, <2>2, <2>4, <2>5, <2>3 DEF Progress
  <1>8. Sound(p)
    BY <1>1, <1>3, <1>7 DEF Sound
  <1>9. t \in Knowing <=> p.account
    BY <1>1, <1>3 DEF Knowing, Running
  <1>10. /\ req' \in [Tabs -> Request \cup {NoRequest}]
         /\ \A s \in Underway' : Sound(req[s])'
         /\ IsFiniteSet(Underway')
         /\ Knowing' = Knowing
    <2>1. Knowing' = IF p # NoRequest /\ p.account THEN Knowing \cup {t} ELSE Knowing \ {t}
      BY <1>1, <1>2, <1>8, OneRequest
    <2>2. /\ req' \in [Tabs -> Request \cup {NoRequest}]
          /\ \A s \in Underway' : Sound(req[s])'
          /\ IsFiniteSet(Underway')
      BY <1>1, <1>2, <1>8, OneRequest
    <2> QED BY <1>5, <1>9, <2>1, <2>2
  <1>11. CountsAddUp'
    <2>1. CountsAddUp
      BY DEF IInv
    <2>2. UNCHANGED <<installed, count, handled, refusals>>
      BY <1>2 DEF metrics
    <2> QED BY <1>10, <2>1, <2>2 DEF CountsAddUp, Knowing
  <1>12. TypeOK'
    BY <1>2, <1>10 DEF IInv, TypeOK, Users, Tabs, Token, Request, Routes, Answers, metrics
  <1> QED
    BY <1>2, <1>10, <1>11, <1>12 DEF IInv, Installs, Users, Genuine, Ends, Token, ServedExactly

\* What is left of a request that a strict gate hands on.
LEMMA StrictHands ==
    ASSUME IInv, NEW t \in Tabs, Meets(t, "strict"),
           Forward(t, [req[t] EXCEPT !.account = TRUE])
    PROVE  \E p \in Request :
              /\ p.route = req[t].route /\ p.layer = req[t].layer + 1 /\ p.cookie = req[t].cookie
              /\ p.sent = req[t].sent
              /\ p.account
              /\ p.option <=> req[t].option
              /\ req' = [req EXCEPT ![t] = p]
  <1> DEFINE r == [req[t] EXCEPT !.account = TRUE]
             p == [r EXCEPT !.layer = @ + 1]
  <1>1. req[t] \in Request
    BY Met DEF Sound
  <1>2. req' = [req EXCEPT ![t] = p]
    BY DEF Forward
  <1>3. /\ r \in Request /\ r.route = req[t].route /\ r.layer = req[t].layer
        /\ r.cookie = req[t].cookie /\ r.account = TRUE /\ r.option = req[t].option
        /\ r.sent = req[t].sent
    BY <1>1, WithAccount
  <1> HIDE DEF r
  <1>4. /\ p \in Request /\ p.route = r.route /\ p.layer = r.layer + 1
        /\ p.cookie = r.cookie /\ p.account = r.account /\ p.option = r.option
        /\ p.sent = r.sent
    BY <1>3, HandedOn
  <1> HIDE DEF p
  <1>5. p.account /\ (p.option <=> req[t].option)
    BY <1>3, <1>4
  <1> QED BY <1>2, <1>3, <1>4, <1>5

\* In the prometheus example no account has been put into a request that meets
\* a layer, since there is one layer.
LEMMA FirstLayer ==
    ASSUME IInv, NEW t \in Tabs, NEW mode, Meets(t, mode), installed
    PROVE  t \notin Knowing
  <1> DEFINE q == req[t]
  <1>1. /\ Sound(q) /\ q.route \in DOMAIN RoutesOf(app) /\ q.layer \in Nat
        /\ q.layer <= Len(RoutesOf(app)[q.route].layers)
    BY Met
  <1>2. Len(RoutesOf(app)[q.route].layers) = 1
    BY <1>1, Layered DEF IInv, Installs, TypeOK
  <1>3. Passed(q, "strict") = {}
    BY <1>1, <1>2 DEF Passed
  <1> QED BY <1>1, <1>3 DEF Knowing, Sound, Progress

\* Cardinalities of the requests that know their account.
LEMMA Counting ==
    ASSUME IInv, NEW t \in Tabs
    PROVE  /\ Cardinality(Knowing) \in Nat
           /\ t \notin Knowing => Cardinality(Knowing \cup {t}) = Cardinality(Knowing) + 1
           /\ t \in Knowing => Cardinality(Knowing) = Cardinality(Knowing \ {t}) + 1
           /\ t \notin Knowing => Knowing \ {t} = Knowing
           /\ Cardinality(Knowing \ {t}) \in Nat
  <1>1. IsFiniteSet(Knowing)
    BY FS_Subset DEF IInv, Knowing, Underway
  <1> DEFINE K == Knowing
  <1> HIDE DEF K
  <1>2. /\ Cardinality(K) \in Nat /\ Cardinality(K \ {t}) \in Nat
        /\ Cardinality(K \cup {t}) = IF t \in K THEN Cardinality(K) ELSE Cardinality(K) + 1
        /\ Cardinality(K \ {t}) = IF t \in K THEN Cardinality(K) - 1 ELSE Cardinality(K)
    <2>1. IsFiniteSet(K)
      BY <1>1 DEF K
    <2> QED BY <2>1, FS_AddElement, FS_RemoveElement, FS_CardinalityType
  <1>3. t \notin K => K \ {t} = K
    OBVIOUS
  <1> QED BY <1>2, <1>3 DEF K

\* A strict gate that is passed admits the account, and counts.
LEMMA PassStep ==
    ASSUME IInv, NEW t \in Tabs, MeetStrict(t),
           Verdict(t, Layers(t)[req[t].layer].policy) = "authorized"
    PROVE  IInv'
  <1>1. /\ UNCHANGED <<app, now, started, accounts, jar, installed, handled, refusals>>
        /\ last' = NoAnswer /\ Meets(t, "strict") /\ Counts("authorized")
        /\ Forward(t, [req[t] EXCEPT !.account = TRUE])
    BY DEF MeetStrict, Meets, Forward
  <1>2. PICK p \in Request :
              /\ p.route = req[t].route /\ p.layer = req[t].layer + 1 /\ p.cookie = req[t].cookie
              /\ p.sent = req[t].sent
              /\ p.account
              /\ p.option <=> req[t].option
              /\ req' = [req EXCEPT ![t] = p]
    BY <1>1, StrictHands
  <1> DEFINE q == req[t]
  <1>3. /\ Sound(q) /\ q # NoRequest /\ app \in Apps /\ q.route \in DOMAIN RoutesOf(app)
        /\ q.layer \in Nat /\ q.layer >= 1 /\ q.layer <= Len(RoutesOf(app)[q.route].layers)
        /\ RoutesOf(app)[q.route].layers[q.layer].mode = "strict"
    BY <1>1, Met
  <1>4. q \in Request
    BY <1>3 DEF Sound
  <1>5. p # NoRequest
    <2>1. p.layer # NoRequest.layer
      BY <1>2, <1>3 DEF NoRequest
    <2> QED BY <2>1
  <1>6. /\ Passed(p, "strict") = Passed(q, "strict") \cup {q.layer}
        /\ Passed(p, "optional") = Passed(q, "optional")
    <2>1. p.route = q.route /\ p.layer = q.layer + 1
      BY <1>2
    <2> HIDE DEF q
    <2>2. \A m : Passed(p, m) = IF RoutesOf(app)[q.route].layers[q.layer].mode = m
                                THEN Passed(q, m) \cup {q.layer} ELSE Passed(q, m)
      BY <1>3, <1>4, <2>1, PassesLayer
    <2> QED BY <1>3, <2>2
  <1>7. Progress(p)
    <2>1. /\ q.cookie # NoToken /\ Valid(q.cookie)
          /\ Admits(RoutesOf(app)[q.route].layers[q.layer].policy, q.cookie.account)
      BY DEF Verdict, Layers
    <2>2. p.sent <= now /\ p.cookie # NoToken /\ p.sent < p.cookie.exp
      <3>1. now \in Nat /\ p.sent \in Nat /\ p.cookie.exp \in Nat
        BY <1>2, <2>1, AppsAssumption DEF IInv, TypeOK, Request, Token, AppsAssumption
      <3> QED BY <1>2, <1>3, <2>1, <3>1 DEF Valid, Sound, Progress
    <2>3. p.account /\ p.layer >= 1 /\ Passed(p, "strict") # {}
      <3>1. p.layer >= 1
        BY <1>2, <1>3
      <3>2. Passed(p, "strict") # {}
        BY <1>6
      <3>3. p.account
        BY <1>2, Zenon
      <3> QED BY <3>1, <3>2, <3>3, Zenon
    <2>4. \A k \in Passed(p, "strict") :
              p.cookie # NoToken /\ Admits(RoutesOf(app)[p.route].layers[k].policy, p.cookie.account)
      BY <1>2, <1>3, <1>6, <2>1 DEF Sound, Progress
    <2>5. Passed(p, "optional") # {} /\ ~p.option => p.cookie = NoToken \/ now >= p.cookie.exp
      BY <1>2, <1>3, <1>6 DEF Sound, Progress
    <2> QED BY <2>3, <2>4, <2>5, <2>2 DEF Progress
  <1>8. Sound(p)
    BY <1>2, <1>3, <1>7 DEF Sound
  <1>9. /\ req' \in [Tabs -> Request \cup {NoRequest}]
        /\ \A s \in Underway' : Sound(req[s])'
        /\ IsFiniteSet(Underway')
        /\ Knowing' = Knowing \cup {t}
    <2>1. Knowing' = IF p # NoRequest /\ p.account THEN Knowing \cup {t} ELSE Knowing \ {t}
      BY <1>1, <1>2, <1>8, OneRequest
    <2>2. /\ req' \in [Tabs -> Request \cup {NoRequest}]
          /\ \A s \in Underway' : Sound(req[s])'
          /\ IsFiniteSet(Underway')
      BY <1>1, <1>2, <1>8, OneRequest
    <2> QED BY <1>2, <1>5, <2>1, <2>2
  <1>10. CountsAddUp'
    <2> SUFFICES ASSUME installed PROVE CountsAddUp'
      BY <1>1 DEF CountsAddUp
    <2>1. Cardinality(Knowing') = Cardinality(Knowing) + 1
      BY <1>1, <1>9, FirstLayer, Counting
    <2>2. /\ count["denied"] + count["invalid"] = refusals
          /\ count["authorized"] = handled + Cardinality(Knowing)
      BY DEF IInv, CountsAddUp, Knowing
    <2>3. /\ count'["denied"] = count["denied"] /\ count'["invalid"] = count["invalid"]
          /\ count'["authorized"] = count["authorized"] + 1
      BY <1>1 DEF Counts, Verdicts, IInv, TypeOK
    <2>4. handled \in Nat /\ Cardinality(Knowing) \in Nat
      BY Counting DEF IInv, TypeOK
    <2>5. /\ count'["denied"] + count'["invalid"] = refusals'
          /\ count'["authorized"] = handled' + Cardinality(Knowing')
      BY <1>1, <2>1, <2>2, <2>3, <2>4
    <2> QED BY <2>5 DEF CountsAddUp, Knowing
  <1>11. TypeOK'
    <2>1. count' \in [Verdicts -> Nat]
      BY <1>1 DEF Counts, Verdicts, IInv, TypeOK
    <2> QED
      BY <1>1, <1>9, <2>1 DEF IInv, TypeOK, Users, Tabs, Token, Request, Routes, Answers
  <1> QED
    BY <1>1, <1>9, <1>10, <1>11 DEF IInv, Installs, Users, Genuine, Ends, Token, ServedExactly

\* An answer to request q as ServedExactly wants it.
Keeps(q, outcome, known) ==
    LET takes == RoutesOf(app)[q.route].takes
    IN  /\ outcome = IF takes = "account" /\ ~known THEN "refused" ELSE "served"
        /\ known => /\ takes # "nothing" /\ q.cookie # NoToken
                    /\ OpenTo(app, q.route, q.cookie.account)
                    /\ q.sent < Ends(q.cookie)
        /\ ~known /\ takes # "nothing" =>
              \/ q.cookie = NoToken
              \/ ~OpenTo(app, q.route, q.cookie.account)
              \/ now >= Ends(q.cookie)

\* The request of a tab is answered; the counters are another matter.
LEMMA AnswerStep ==
    ASSUME IInv, NEW t \in Tabs, Running(t),
           NEW outcome \in {"served", "refused"}, NEW known \in BOOLEAN,
           Answer(t, outcome, known), Keeps(req[t], outcome, known),
           UNCHANGED <<app, now, started, accounts, jar, installed>>,
           count' \in [Verdicts -> Nat], handled' \in Nat, refusals' \in Nat, CountsAddUp'
    PROVE  IInv'
  <1>1. t \in Underway /\ req[t] \in Request
    BY DEF Underway, IInv, Sound
  <1>2. req' = [req EXCEPT ![t] = NoRequest]
    BY DEF Answer
  <1>3. /\ req' \in [Tabs -> Request \cup {NoRequest}]
        /\ \A s \in Underway' : Sound(req[s])'
        /\ IsFiniteSet(Underway')
    BY <1>2, OneRequest
  <1>4. last' = [request |-> req[t], outcome |-> outcome, known |-> known]
    BY DEF Answer
  <1>5. last' \in Answers
    BY <1>1, <1>4 DEF Answers
  <1>6. TypeOK'
    BY <1>3, <1>5 DEF IInv, TypeOK, Users, Tabs, Token, Request, Routes, Answers
  <1>7. ServedExactly'
    <2> DEFINE q == req[t]
    <2>1. last'.request = q /\ last'.outcome = outcome /\ last'.known = known
      BY <1>4
    <2> HIDE DEF q
    <2>2. Keeps(q, outcome, known)
      BY DEF q
    <2>3. app' = app /\ now' = now
      OBVIOUS
    <2> QED BY <2>1, <2>2, <2>3 DEF Keeps, ServedExactly, Ends
  <1> QED BY <1>3, <1>6, <1>7 DEF IInv, Installs, Users, Genuine, Ends, Token

\* A refusal is deserved, and counted.
LEMMA RefuseStep ==
    ASSUME IInv, NEW t \in Tabs, MeetStrict(t),
           Verdict(t, Layers(t)[req[t].layer].policy) # "authorized"
    PROVE  IInv'
  <1> DEFINE q == req[t]
             policy == Layers(t)[req[t].layer].policy
             verdict == Verdict(t, policy)
  <1>1. /\ UNCHANGED <<app, now, started, accounts, jar, installed, handled>>
        /\ Meets(t, "strict") /\ Counts(verdict) /\ Answer(t, "refused", FALSE) /\ Noted(refusals)
    BY DEF MeetStrict, Meets
  <1>2. /\ Sound(q) /\ q # NoRequest /\ app \in Apps /\ q.route \in DOMAIN RoutesOf(app)
        /\ q.layer \in Nat /\ q.layer >= 1 /\ q.layer <= Len(RoutesOf(app)[q.route].layers)
        /\ RoutesOf(app)[q.route].layers[q.layer].mode = "strict"
    BY <1>1, Met
  <1>3. verdict \in {"denied", "invalid"}
    BY DEF Verdict
  <1>4. Keeps(q, "refused", FALSE)
    <2>1. q.layer \in 1..Len(RoutesOf(app)[q.route].layers)
      BY <1>2, LayerCount
    <2>2. RoutesOf(app)[q.route].takes = "account"
      BY <1>2, <2>1, Layered DEF Guarded
    <2>3. ASSUME q.cookie # NoToken, OpenTo(app, q.route, q.cookie.account)
          PROVE  now >= Ends(q.cookie)
      <3>1. /\ Genuine(q.cookie) /\ q.cookie.account \in AccountsIn(app)
            /\ q.cookie.exp \in Nat /\ q.cookie.exp = Ends(q.cookie) /\ now \in Nat
        BY <1>2, <2>3, AppsAssumption
           DEF Sound, Genuine, Token, IInv, TypeOK, AppsAssumption
      <3>2. Passes(RoutesOf(app)[q.route].layers, q.cookie.account)
        BY <1>2, <2>2, <2>3, <3>1, Exact
      <3>3. Admits(policy, q.cookie.account)
        BY <1>2, <2>1, <3>2 DEF Passes, Layers
      <3>4. ~Valid(q.cookie)
        BY <2>3, <3>3 DEF Verdict, Admits
      <3> QED BY <2>3, <3>1, <3>4 DEF Valid
    <2> QED BY <2>2, <2>3 DEF Keeps
  <1>5. CountsAddUp'
    <2> SUFFICES ASSUME installed PROVE CountsAddUp'
      BY <1>1 DEF CountsAddUp
    <2>1. Knowing' = Knowing
      <3>1. Knowing' = Knowing \ {t}
        BY <1>1, OneRequest DEF Answer
      <3> QED BY <1>1, <3>1, FirstLayer
    <2>2. /\ count["denied"] + count["invalid"] = refusals
          /\ count["authorized"] = handled + Cardinality(Knowing)
      BY DEF IInv, CountsAddUp, Knowing
    <2>3. count' = [count EXCEPT ![verdict] = @ + 1] /\ refusals' = refusals + 1
      BY <1>1, <1>3 DEF Counts, Noted, Verdicts
    <2>4. /\ count'["denied"] + count'["invalid"] = refusals'
          /\ count'["authorized"] = count["authorized"]
      BY <1>3, <2>2, <2>3 DEF Verdicts, IInv, TypeOK
    <2> QED BY <1>1, <2>1, <2>2, <2>4 DEF CountsAddUp, Knowing
  <1>6. count' \in [Verdicts -> Nat] /\ handled' \in Nat /\ refusals' \in Nat
    BY <1>1, <1>3 DEF Counts, Noted, Verdicts, IInv, TypeOK
  <1> QED BY <1>1, <1>2, <1>4, <1>5, <1>6, AnswerStep DEF Running

\* A handler is given what it takes.
LEMMA HandleStep ==
    ASSUME IInv, NEW t \in Tabs, Handle(t) PROVE IInv'
  <1> DEFINE q       == req[t]
             layers  == RoutesOf(app)[q.route].layers
             takes   == RoutesOf(app)[q.route].takes
             known   == CASE takes = "nothing" -> FALSE
                          [] takes = "option"  -> q.option
                          [] OTHER             -> q.account
             outcome == IF takes = "account" /\ ~known THEN "broken" ELSE "served"
  <1>1. /\ UNCHANGED <<app, now, started, accounts, jar, installed, count, refusals>>
        /\ Running(t) /\ Answer(t, outcome, known) /\ q.layer > Len(layers)
        /\ IF takes = "account" THEN Noted(handled) ELSE UNCHANGED handled
    BY DEF Handle, Takes, Layers
  <1>2. t \in Underway /\ Sound(q) /\ q \in Request /\ app \in Apps /\ q.route \in DOMAIN RoutesOf(app)
    BY <1>1 DEF Underway, IInv, TypeOK, Sound, Request, Routes
  <1>3. known \in BOOLEAN
    BY <1>2 DEF Request
  <1>4. \A k \in 1..Len(layers) : k < q.layer
    BY <1>1, <1>2, LayerCount DEF Request
  <1>5. Guarded(layers) <=> Passed(q, "strict") # {}
    BY <1>4 DEF Guarded, Passed
  <1>6. q.account <=> Guarded(layers)
    BY <1>2, <1>5 DEF Sound, Progress
  <1>7. takes = "account" <=> Guarded(layers)
    BY <1>2, Layered
  <1>8. takes = "account" => known /\ q.account
    BY <1>6, <1>7
  <1>9. outcome = "served" /\ (takes = "account" => known)
    BY <1>8
  <1>10. Keeps(q, outcome, known)
    <2>1. ASSUME q.cookie # NoToken
          PROVE  /\ q.cookie.account \in AccountsIn(app) /\ q.cookie.exp = Ends(q.cookie)
      BY <1>2, <2>1 DEF Sound, Genuine
    <2>2. ASSUME known
          PROVE  /\ takes # "nothing" /\ q.cookie # NoToken
                 /\ OpenTo(app, q.route, q.cookie.account) /\ q.sent < Ends(q.cookie)
      <3>1. takes # "nothing" /\ (q.account \/ q.option)
        BY <2>2
      <3>2. q.cookie # NoToken /\ q.sent < q.cookie.exp
        BY <1>2, <3>1 DEF Sound, Progress
      <3>3. takes # "maybe"
        BY <1>6, <1>7, <2>2
      <3>4. Passes(layers, q.cookie.account)
        BY <1>2, <1>4 DEF Sound, Progress, Passes, Passed
      <3>5. OpenTo(app, q.route, q.cookie.account)
        BY <1>2, <2>1, <3>2, <3>3, <3>4, Exact
      <3> QED BY <2>1, <3>1, <3>2, <3>5
    <2>3. ASSUME ~known, takes # "nothing", q.cookie # NoToken,
                 OpenTo(app, q.route, q.cookie.account)
          PROVE  now >= Ends(q.cookie)
      <3>1. takes = "option"
        <4>1. takes # "account"
          BY <1>9, <2>3
        <4>2. takes # "maybe"
          BY <1>2, <2>1, <2>3, Exact
        <4> QED BY <1>2, <2>3, <4>1, <4>2, Layered
      <3>2. Passed(q, "optional") # {}
        BY <1>2, <1>4, <3>1, Layered DEF Recognizes, Passed
      <3>3. ~q.option
        BY <2>3, <3>1
      <3> QED BY <1>2, <2>1, <2>3, <3>2, <3>3 DEF Sound, Progress
    <2> HIDE DEF known, outcome
    <2> QED BY <1>9, <2>2, <2>3 DEF Keeps
  <1>11. t \in Knowing <=> q.account
    BY <1>2 DEF Knowing, Underway
  <1>12. CountsAddUp'
    <2> SUFFICES ASSUME installed PROVE CountsAddUp'
      BY <1>1 DEF CountsAddUp
    <2>1. Knowing' = Knowing \ {t}
      BY <1>1, OneRequest DEF Answer
    <2>2. /\ count["denied"] + count["invalid"] = refusals
          /\ count["authorized"] = handled + Cardinality(Knowing)
      BY DEF IInv, CountsAddUp, Knowing
    <2>3. handled \in Nat
      BY DEF IInv, TypeOK
    <2>4. CASE takes = "account"
      <3>1. handled' = handled + 1 /\ t \in Knowing
        BY <1>1, <1>8, <1>11, <2>4 DEF Noted
      <3>2. handled' + Cardinality(Knowing \ {t}) = handled + Cardinality(Knowing)
        BY <2>3, <3>1, Counting
      <3> QED BY <1>1, <2>1, <2>2, <3>2 DEF CountsAddUp, Knowing
    <2>5. CASE takes # "account"
      <3>1. ~Guarded(layers)
        BY <1>7, <2>5
      <3>2. handled' = handled /\ t \notin Knowing
        BY <1>1, <1>6, <1>11, <2>5, <3>1
      <3>3. Knowing' = Knowing
        BY <2>1, <3>2
      <3> QED BY <1>1, <2>2, <3>2, <3>3 DEF CountsAddUp, Knowing
    <2> QED BY <2>4, <2>5
  <1>13. count' \in [Verdicts -> Nat] /\ handled' \in Nat /\ refusals' \in Nat
    BY <1>1 DEF Noted, IInv, TypeOK
  <1> HIDE DEF q, known, outcome
  <1> QED BY <1>1, <1>3, <1>9, <1>10, <1>12, <1>13, AnswerStep DEF q

-----------------------------------------------------------------------------
(* The theorems *)

\* Every step keeps the invariant.
LEMMA NextIInv == IInv /\ [Next]_vars => IInv'
  <1> SUFFICES ASSUME IInv, [Next]_vars PROVE IInv'
    OBVIOUS
  <1>1. CASE UNCHANGED vars
    <2>1. TypeOK'
      BY <1>1 DEF vars, IInv, TypeOK, Users, Tabs, Token, Request, Routes, Answers
    <2>s. ServedExactly'
      BY <1>1 DEF vars, IInv, ServedExactly, Ends
    <2>2. CountsAddUp'
      BY <1>1 DEF vars, IInv, CountsAddUp, Tabs, Running
    <2>3. Underway' = Underway /\ IsFiniteSet(Underway')
      BY <1>1 DEF vars, IInv, Underway, Running, Tabs
    <2>4. \A t \in Underway' : Sound(req[t])'
      <3>1. \A q, mode : Passed(q, mode)' = Passed(q, mode)
        BY <1>1 DEF vars, Passed
      <3>2. \A q : Progress(q) => Progress(q)'
        BY <1>1, <3>1 DEF vars, Progress
      <3>3. \A q : Genuine(q) => Genuine(q)'
        BY <1>1 DEF vars, Genuine, Ends, Token, Users
      <3>4. \A q \in Request : q \in Request'
        BY <1>1 DEF vars, Request, Routes, Token, Users
      <3>5. \A t \in Underway' : Sound(req[t]) /\ req'[t] = req[t]
        BY <1>1, <2>3 DEF vars, IInv
      <3> QED BY <3>2, <3>3, <3>4, <3>5 DEF Sound
    <2>5. (jar # NoToken => Genuine(jar))'
      BY <1>1 DEF vars, IInv, Genuine, Ends, Token, Users
    <2> QED BY <1>1, <2>1, <2>s, <2>2, <2>3, <2>4, <2>5 DEF vars, IInv, Installs, Users
  <1>2. ASSUME NEW t \in Tabs, MeetStrict(t) PROVE IInv'
    BY <1>2, PassStep, RefuseStep
  <1> QED
    BY <1>1, <1>2, TickStep, RestartStep, LogoutStep, LoginStep, ChangeStep, SendStep, OptionalStep,
       HandleStep DEF Next

\* The inductive invariant holds of every reachable state.
THEOREM Invariance == Spec => []IInv
  BY InitIInv, NextIInv, PTL DEF Spec

\* Whatever tabs, changes and lifetimes, the examples' requests, tokens and
\* answers keep their types.
THEOREM TypeCorrect == Spec => []TypeOK
  BY Invariance, PTL DEF IInv

\* For any tabs, lifetime, restarts and changes of accounts to roles of the crate:
\* every route of the six examples is open to the accounts the example says it is
\* for and to no others, except as Departs says, exactly while their sessions last.
THEOREM RoutesServeExactly == Spec => []ServedExactly
  BY Invariance, PTL DEF IInv

\* The counters of the prometheus example tell what happened, however many
\* requests run at once and whenever the server is started again.
THEOREM CountersTell == Spec => []CountsAddUp
  BY Invariance, PTL DEF IInv
=============================================================================
