----------------------------- MODULE ExampleApps -----------------------------
(***************************************************************************)
(* The example applications: what they are set up with.                    *)
(*                                                                         *)
(* An application has accounts, routes behind layers, and a login that     *)
(* makes registered claims.  The consumer node has no login of its own: it *)
(* is given tokens of the auth node, or of the SeaORM example.             *)
(***************************************************************************)
EXTENDS Naturals, Sequences

Apps == {"distributed", "sea_orm", "custom_roles", "simple", "prometheus", "github"}

\* Role of the crate, and the roles of the custom_roles example, each in the
\* order it derives.
RoleOrder == <<"User", "Reporter", "Moderator", "Admin", "Novice", "Experienced", "Expert">>

CrateRoles == {"User", "Reporter", "Moderator", "Admin"}

AppRoles == {RoleOrder[k] : k \in DOMAIN RoleOrder}
AppRank  == [r \in AppRoles |-> CHOOSE k \in DOMAIN RoleOrder : RoleOrder[k] = r]

AppGroups == {"admin", "reporter", "user", "Maintenance", "Operations", "Administration",
              "leadership", "staff", "engineering", "customers"}

\* AppPermissions; validate_permissions! makes sure that their ids differ.
AppPermissions == {"repository:read", "repository:write", "repository:delete",
                   "api:read", "api:write", "system:admin"}

INSTANCE AccessPolicy WITH
    Roles <- AppRoles, Rank <- AppRank, Baseline <- "User",
    Groups <- AppGroups, Ids <- AppPermissions

-----------------------------------------------------------------------------
(* Accounts *)

Of(role, groups, permissions) ==
    [roles |-> {role}, groups |-> groups, permissions |-> permissions]

\* PermissionHelper
RepositoryAccess == {"repository:read", "repository:write"}

DistributedAccounts ==
    [admin    |-> Of("Admin", {"admin"}, AppPermissions),
     reporter |-> Of("Reporter", {"reporter"}, RepositoryAccess),
     user     |-> Of("User", {"user"}, {"api:read"})]

SeaOrmAccounts ==
    [admin    |-> Of("Admin", {"admin", "reporter"}, {}),
     reporter |-> Of("Reporter", {"reporter"}, {}),
     user     |-> Of("User", {"user"}, {})]

CustomRolesAccounts ==
    [admin    |-> Of("Expert", {"Maintenance"}, {}),
     reporter |-> Of("Experienced", {"Operations"}, {}),
     user     |-> Of("Novice", {"Administration"}, {})]

SimpleAccounts ==
    [admin     |-> Of("Admin", {"leadership"}, {}),
     moderator |-> Of("Moderator", {"staff"}, {}),
     engineer  |-> Of("User", {"engineering"}, {}),
     user      |-> Of("User", {"customers"}, {})]

PrometheusAccounts ==
    [admin |-> Of("Admin", {"leadership"}, {}),
     user  |-> Of("User", {"customers"}, {})]

\* Whoever comes from GitHub; "github-user" is the name of one whose own could
\* not be fetched.
GithubAccounts == [u \in {"octocat", "github-user"} |-> Of("User", {}, {})]

AccountsOf(app) ==
    CASE app = "distributed"  -> DistributedAccounts
      [] app = "sea_orm"      -> SeaOrmAccounts
      [] app = "custom_roles" -> CustomRolesAccounts
      [] app = "simple"       -> SimpleAccounts
      [] app = "prometheus"   -> PrometheusAccounts
      [] app = "github"       -> GithubAccounts

-----------------------------------------------------------------------------
(* Routes: the layers of each, outermost first, and what its handler takes   *)
(* from the extensions of the request: "account" (Extension<Account>),       *)
(* "option" (Extension<Option<Account>>), "maybe" (Option<Extension<Account>>)*)
(* or "nothing"                                                              *)

Strict(policy) == [mode |-> "strict", policy |-> policy]
Optional       == [mode |-> "optional", policy |-> DenyAll]

ByRole(role)      == Strict(OrRequireScope(DenyAll, [role |-> role, supervisors |-> FALSE]))
FromRole(role)    == Strict(OrRequireScope(DenyAll, [role |-> role, supervisors |-> TRUE]))
ByGroup(group)    == Strict(OrRequireGroup(DenyAll, group))
ByPermission(id)  == Strict(OrRequirePermissions(DenyAll, {id}))
ByLogin           == Strict(RequireLogin)

Route(layers, takes) == [layers |-> layers, takes |-> takes]

\* Mutant of ConsumerRoutes: the last gate is layered before /reporter is added.
LayeredBeforeReporter ==
    [admin              |-> Route(<<FromRole("Reporter"), FromRole("Admin")>>, "account"),
     secret_admin_group |-> Route(<<FromRole("Reporter"), ByGroup("admin")>>, "account"),
     reporter           |-> Route(<<>>, "account"),
     user               |-> Route(<<ByRole("User")>>, "account"),
     permissions        |-> Route(<<ByPermission("api:read")>>, "account"),
     index              |-> Route(<<>>, "nothing")]

\* Router::layer wraps every route that was added before it.
ConsumerRoutes ==
    [admin              |-> Route(<<FromRole("Reporter"), FromRole("Admin")>>, "account"),
     secret_admin_group |-> Route(<<FromRole("Reporter"), ByGroup("admin")>>, "account"),
     reporter           |-> Route(<<FromRole("Reporter")>>, "account"),
     user               |-> Route(<<ByRole("User")>>, "account"),
     permissions        |-> Route(<<ByPermission("api:read")>>, "account"),
     index              |-> Route(<<>>, "nothing")]

CustomRolesRoutes ==
    [admin              |-> Route(<<ByRole("Expert")>>, "account"),
     secret_admin_group |-> Route(<<ByGroup("Maintenance")>>, "account"),
     reporter           |-> Route(<<FromRole("Experienced")>>, "account"),
     user               |-> Route(<<ByRole("Novice")>>, "account"),
     index              |-> Route(<<Optional>>, "option")]

AdminOrModerator ==
    Strict(OrRequireScope(OrRequireScope(DenyAll, [role |-> "Admin", supervisors |-> FALSE]),
                          [role |-> "Moderator", supervisors |-> FALSE]))

SimpleRoutes ==
    [admin       |-> Route(<<ByRole("Admin")>>, "account"),
     staff       |-> Route(<<AdminOrModerator>>, "account"),
     engineering |-> Route(<<ByGroup("engineering")>>, "account"),
     profile     |-> Route(<<ByLogin>>, "account"),
     dashboard   |-> Route(<<ByLogin>>, "account"),
     debug       |-> Route(<<>>, "maybe"),
     index       |-> Route(<<>>, "nothing")]

PrometheusRoutes ==
    [admin     |-> Route(<<ByRole("Admin")>>, "account"),
     dashboard |-> Route(<<FromRole("Admin")>>, "account"),
     index     |-> Route(<<Optional>>, "maybe")]

GithubRoutes ==
    [protected |-> Route(<<ByLogin>>, "account"),
     index     |-> Route(<<Optional>>, "option")]

RoutesOf(app) ==
    CASE app \in {"distributed", "sea_orm"} -> ConsumerRoutes
      [] app = "custom_roles"               -> CustomRolesRoutes
      [] app = "simple"                     -> SimpleRoutes
      [] app = "prometheus"                 -> PrometheusRoutes
      [] app = "github"                     -> GithubRoutes

-----------------------------------------------------------------------------
(* Logins *)

\* Where the registered claims are made once, with the router, and where for
\* each login.
ClaimsAtStart(app) == app \in {"distributed", "sea_orm", "custom_roles"}

\* The accounts a login of u may lead to.
LoginAs(app, u) == IF app = "github" THEN {u, "github-user"} ELSE {u}

-----------------------------------------------------------------------------
(* What the examples say of their routes, in comments and README files: the  *)
(* accounts that a route is for (a role of the consumer node stands for its  *)
(* supervisors as well).                                                     *)

Says(app, route, a) ==
    CASE app \in {"distributed", "sea_orm"} ->
            CASE route = "admin"              -> "Admin" \in a.roles
              [] route = "secret_admin_group" -> "admin" \in a.groups
              [] route = "reporter"           -> a.roles \cap {"Reporter", "Moderator", "Admin"} # {}
              [] route = "user"               -> "User" \in a.roles
              [] route = "permissions"        -> "api:read" \in a.permissions
              [] OTHER                        -> TRUE
      [] app = "custom_roles" ->
            CASE route = "admin"              -> "Expert" \in a.roles
              [] route = "secret_admin_group" -> "Maintenance" \in a.groups
              [] route = "reporter"           -> a.roles \cap {"Experienced", "Expert"} # {}
              [] route = "user"               -> "Novice" \in a.roles
              [] OTHER                        -> TRUE
      [] app = "simple" ->
            CASE route = "admin"              -> "Admin" \in a.roles
              [] route = "staff"              -> a.roles \cap {"Admin", "Moderator"} # {}
              [] route = "engineering"        -> "engineering" \in a.groups
              [] OTHER                        -> TRUE
      [] app = "prometheus"                   -> route = "admin" => "Admin" \in a.roles
      [] app = "github"                       -> TRUE

\* Where the code departs from it: the accounts to which a route is closed, or
\* unknown, all the same.  The gate of /secret-admin-group stands behind that of
\* /reporter (consumer_node.rs:120; "group admin" says README.md:78); /dashboard
\* asks for an admin where it is to be "accessible by authenticated users"
\* (prometheus/src/main.rs:126); "You are logged in" is for an Account among the
\* extensions, where the gate installs an Option<Account> (main.rs:157); and no
\* gate installs an account for /debug (simple-usage/src/main.rs:117, 291).
Departs(app, route, a) ==
    \/ /\ app \in {"distributed", "sea_orm"} /\ route = "secret_admin_group"
       /\ a.roles \cap {"Reporter", "Moderator", "Admin"} = {}
    \/ app = "prometheus" /\ route = "dashboard" /\ "Admin" \notin a.roles
    \/ app = "prometheus" /\ route = "index"
    \/ app = "simple" /\ route = "debug"

\* The accounts that a route is open to.
OpenTo(app, route, a) == Says(app, route, a) /\ ~Departs(app, route, a)

=============================================================================
