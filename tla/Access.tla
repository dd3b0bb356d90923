-------------------------------- MODULE Access --------------------------------
(***************************************************************************)
(* Who may do what.  A token is issued for one membership of a user; the   *)
(* AccessGuard compares it with the roles of the route and with the ids in *)
(* the headers and the path, and the services look up what the ids name.   *)
(* A call is one step here (Accounts has their interleavings), and an      *)
(* invitation is accepted as it is made: what accepting writes was fixed   *)
(* then.                                                                   *)
(***************************************************************************)
CONSTANTS
  Tenants, Clients,        \* the tenants and clients there may ever be
  Controllers, Customers,  \* the users of either type
  None,                    \* null, and an id that is not given
  Empty                    \* a header that is given without an id: ""

ASSUME AccessAssumption ==
  /\ Tenants \cap Clients = {} /\ Controllers \cap Customers = {}
  /\ None \notin Tenants \cup Clients /\ Empty \notin Tenants \cup Clients \cup {None}
  /\ None \notin [role : {"owner", "analyst", "client_admin", "client_viewer"}, active : BOOLEAN]

VARIABLES
  tenants,   \* the tenants created so far
  clientOf,  \* clientOf[k]: the tenant of client k, None before it is created
  members,   \* members[s][u]: the row of tenant_users or client_users, or None
  session    \* what the token in use says, or None

vars == <<tenants, clientOf, members, session>>

Users    == Controllers \cup Customers
Scopes   == Tenants \cup Clients
Maybe(S) == S \cup {None}

(* Every route that names owner names admin too: "owner" is either. *)
TenantRoles == {"owner", "analyst"}
ClientRoles == {"client_admin", "client_viewer"}
RolesIn(s)  == IF s \in Tenants THEN TenantRoles ELSE ClientRoles
UsersOf(s)  == IF s \in Tenants THEN Controllers ELSE Customers
Type(s)     == IF s \in Tenants THEN "controller" ELSE "client"
Rows(s)     == [role : RolesIn(s), active : BOOLEAN]

-----------------------------------------------------------------------------
(* The routes: the roles that may take each.                               *)

Managers == {"owner"}
Staff    == Managers \cup {"analyst"}
Editors  == Staff \cup {"client_admin"}
Readers  == Editors \cup {"client_viewer"}

RecordRoutes == [
  createEntry |-> Editors, createProvision |-> Editors, createStock |-> Editors, createReserve |-> Editors,
  createBalance |-> Editors \ {"analyst"},
  listEntries |-> Readers, listProvisions |-> Readers, listBalances |-> Readers, listStocks |-> Readers,
  listReserves |-> Readers, getIndicators |-> Readers]
ImportRoutes == [
  createCsvImport |-> Editors, listImports |-> Readers, getImportDetails |-> Readers, listImportRows |-> Readers]
ReportRoutes == [getCashflow |-> Readers, createClosing |-> Editors, listClosings |-> Readers]

TenantsRoutes == [createTenant |-> Managers, findAllForTenant |-> Staff]
TenantRoutes  == [findTenant |-> Staff, updateTenant |-> Managers, listTenantUsers |-> Staff,
                  addTenantUser |-> Managers, updateTenantUser |-> Managers]
ClientsRoutes == [createClient |-> Staff, findAllClients |-> Staff]
ClientRoutes  == [findClient |-> Staff, updateClient |-> Managers, listClientUsers |-> Staff,
                  addClientUser |-> Managers, updateClientUser |-> Managers]
UserRoutes       == [findAllUsers |-> Managers, findOneUser |-> Managers, updateUser |-> Managers]
InvitationRoutes == [createTenantInvitation |-> Managers, createClientInvitation |-> Managers]

(* A request: the ids in its headers, its path and its body, one of them   *)
(* None where the route has none; a header may be empty.  Two routes of    *)
(* one path and the same roles make the same requests.                     *)
Request(path, types, roles, pathTenants, pathClients, bodyTenants, bodyClients) ==
  [path : {path}, types : {types}, roles : {roles},
   headerTenant : Maybe(Tenants) \cup {Empty}, headerClient : Maybe(Clients) \cup {Empty},
   pathTenant : pathTenants, pathClient : pathClients, bodyTenant : bodyTenants, bodyClient : bodyClients]

No == {None}
FinanceRequest(roles) == Request("finance", {"controller", "client"}, roles, No, Clients, No, No)
CreateRequest(roles)  == Request("create tenant", {"controller"}, roles, No, No, No, No)
ListRequest(roles)    == Request("list tenants", {"controller"}, roles, No, No, No, No)
TenantRequest(roles)  == Request("tenant", {"controller"}, roles, Tenants, No, No, No)
ClientsRequest(roles) == Request("clients", {"controller"}, roles, Tenants, No, No, No)
ClientRequest(roles)  == Request("client", {"controller"}, roles, Tenants, Clients, No, No)
UserRequest(roles)    == Request("users", {"controller"}, roles, No, No, No, No)
InviteToTenant(roles) == Request("invite to tenant", {"controller"}, roles, No, No, Tenants, No)
InviteToClient(roles) == Request("invite to client", {"controller"}, roles, No, No, Tenants, Clients)

RolesOf(routes) == {routes[r] : r \in DOMAIN routes}
Requests == UNION (
       {FinanceRequest(R) : R \in RolesOf(RecordRoutes) \cup RolesOf(ImportRoutes) \cup RolesOf(ReportRoutes)}
  \cup {CreateRequest(TenantsRoutes.createTenant), ListRequest(TenantsRoutes.findAllForTenant)}
  \cup {TenantRequest(R) : R \in RolesOf(TenantRoutes)}
  \cup {ClientsRequest(R) : R \in RolesOf(ClientsRoutes)} \cup {ClientRequest(R) : R \in RolesOf(ClientRoutes)}
  \cup {UserRequest(R) : R \in RolesOf(UserRoutes)}
  \cup {InviteToTenant(InvitationRoutes.createTenantInvitation)}
  \cup {InviteToClient(InvitationRoutes.createClientInvitation)})

-----------------------------------------------------------------------------
(* The guard, and what the services look up before they act.               *)

UserTenant == IF session.type = "controller" THEN session.scope ELSE None
UserClient == IF session.type = "client" THEN session.scope ELSE None

(* What ?? yields: an empty header counts as given, unlike in the guard.   *)
FirstGiven(header, path, user) == IF header # None THEN header ELSE IF path # None THEN path ELSE user
ResolvedTenant(q) == FirstGiven(q.headerTenant, q.pathTenant, UserTenant)

IsId(id) == id \notin {None, Empty}

AgreeWithHeader(header, path, user) ==   \* mutant: path and user are not compared
  \A id \in {path, user} : IsId(id) /\ IsId(header) => id = header
AgreeWhenGiven(header, path, user) ==    \* mutant: a header differs from a path without an id
  IsId(header) => header = path
(* Of the ids there are, no two differ. *)
Agree(header, path, user) == \A x, y \in {header, path, user} : IsId(x) /\ IsId(y) => x = y

Guard(q) ==
  /\ session # None
  /\ session.type \in q.types
  /\ session.role \in q.roles
  /\ Agree(q.headerTenant, q.pathTenant, UserTenant)
  /\ Agree(q.headerClient, q.pathClient, UserClient)

RequireClientAccess(k) ==
  /\ clientOf[k] # None
  /\ IF session.type = "controller" THEN clientOf[k] = UserTenant ELSE k = UserClient

EnsureTenant(t)    == t \in tenants
EnsureClient(t, k) == clientOf[k] = t

(* ParseUUIDPipe refuses an empty id wherever the resolved tenant is used, *)
(* which changes nothing where it is looked up too; the list of tenants    *)
(* has no such pipe.                                                       *)
Found(q) ==
  CASE q.path = "finance" -> RequireClientAccess(q.pathClient)
    [] q.path \in {"tenant", "clients"} -> EnsureTenant(ResolvedTenant(q))
    [] q.path = "client" -> EnsureClient(ResolvedTenant(q), q.pathClient)
    [] q.path = "invite to tenant" -> UserTenant = q.bodyTenant /\ EnsureTenant(q.bodyTenant)
    [] q.path = "invite to client" -> UserTenant = q.bodyTenant /\ EnsureClient(q.bodyTenant, q.bodyClient)
    [] q.path = "users" -> IsId(ResolvedTenant(q))
    [] OTHER -> TRUE

FindAllForTenant(t) == IF IsId(t) THEN tenants \cap {t} ELSE tenants

Handled(q) == Guard(q) /\ Found(q)

-----------------------------------------------------------------------------
Init ==
  /\ tenants = {}
  /\ clientOf = [k \in Clients |-> None]
  /\ members = [s \in Scopes |-> [u \in Users |-> None]]
  /\ session = None

Row(role, active) == [role |-> role, active |-> active]
Put(s, u, row)    == members' = [members EXCEPT ![s][u] = row]

(* Bootstrap: the tenant of the configured name, which is created if there *)
(* is none, gets an owner.                                                 *)
Bootstrap ==
  /\ \E t \in Tenants, u \in Controllers :
       /\ tenants' = tenants \cup {t}
       /\ Put(t, u, Row("owner", TRUE))
  /\ UNCHANGED <<clientOf, session>>

(* resolveMembership takes any active membership of the user. *)
SignIn ==
  /\ \E s \in Scopes, u \in Users :
       /\ members[s][u] # None /\ members[s][u].active
       /\ session' = [type |-> Type(s), scope |-> s, role |-> members[s][u].role]
  /\ UNCHANGED <<tenants, clientOf, members>>

CreateTenant ==
  /\ \E q \in CreateRequest(TenantsRoutes.createTenant) : Handled(q)
  /\ \E t \in Tenants \ tenants : tenants' = tenants \cup {t}
  /\ UNCHANGED <<clientOf, members, session>>

CreateClient ==
  /\ \E q \in ClientsRequest(ClientsRoutes.createClient), k \in Clients :
       /\ Handled(q) /\ clientOf[k] = None
       /\ clientOf' = [clientOf EXCEPT ![k] = ResolvedTenant(q)]
  /\ UNCHANGED <<tenants, members, session>>

(* A user is added to one tenant or client only. *)
AddTo(s) ==
  \E u \in UsersOf(s), row \in Rows(s) :
    /\ \A p \in Scopes : Type(p) = Type(s) => members[p][u] = None
    /\ Put(s, u, row)

UpdateIn(s) == \E u \in UsersOf(s), row \in Rows(s) : members[s][u] # None /\ Put(s, u, row)

AddTenantUser ==
  /\ \E q \in TenantRequest(TenantRoutes.addTenantUser) : Handled(q) /\ AddTo(ResolvedTenant(q))
  /\ UNCHANGED <<tenants, clientOf, session>>

UpdateTenantUser ==
  /\ \E q \in TenantRequest(TenantRoutes.updateTenantUser) : Handled(q) /\ UpdateIn(ResolvedTenant(q))
  /\ UNCHANGED <<tenants, clientOf, session>>

AddClientUser ==
  /\ \E q \in ClientRequest(ClientRoutes.addClientUser) : Handled(q) /\ AddTo(q.pathClient)
  /\ UNCHANGED <<tenants, clientOf, session>>

UpdateClientUser ==
  /\ \E q \in ClientRequest(ClientRoutes.updateClientUser) : Handled(q) /\ UpdateIn(q.pathClient)
  /\ UNCHANGED <<tenants, clientOf, session>>

(* Refused to a member; accepted, it may be the user's second scope. *)
InviteTo(s) == \E u \in UsersOf(s), role \in RolesIn(s) : members[s][u] = None /\ Put(s, u, Row(role, TRUE))

CreateTenantInvitation ==
  /\ \E q \in InviteToTenant(InvitationRoutes.createTenantInvitation) : Handled(q) /\ InviteTo(q.bodyTenant)
  /\ UNCHANGED <<tenants, clientOf, session>>

CreateClientInvitation ==
  /\ \E q \in InviteToClient(InvitationRoutes.createClientInvitation) : Handled(q) /\ InviteTo(q.bodyClient)
  /\ UNCHANGED <<tenants, clientOf, session>>

Next ==
  \/ Bootstrap \/ SignIn \/ CreateTenant \/ CreateClient
  \/ AddTenantUser \/ UpdateTenantUser \/ AddClientUser \/ UpdateClientUser
  \/ CreateTenantInvitation \/ CreateClientInvitation

Spec == Init /\ [][Next]_vars

-----------------------------------------------------------------------------
(* Properties                                                              *)

(* The tenants and the client whose rows the service of q goes on to use. *)
TenantsUsed(q) ==
  CASE q.path = "finance" -> {clientOf[q.pathClient]}
    [] q.path \in {"invite to tenant", "invite to client"} -> {q.bodyTenant}
    [] q.path = "list tenants" -> FindAllForTenant(ResolvedTenant(q))
    [] q.path = "create tenant" -> {}
    [] OTHER -> {ResolvedTenant(q)}

ClientUsed(q) == IF q.bodyClient # None THEN q.bodyClient ELSE q.pathClient

(* Whatever ids a request carries in its headers, path and body, and       *)
(* whatever was created and signed in before, a request that is handled    *)
(* uses the token's tenant and a client of it, or the token's client: the  *)
(* guard compares ids pairwise, the services then use one of them.  There  *)
(* is one exception, where the two notions of an id that is given differ:  *)
(* the list of tenants asked for with an empty header, which lists all     *)
(* there are.                                                              *)
HandledInScope ==
  \A q \in Requests : Handled(q) =>
    IF session.type = "client" THEN ClientUsed(q) = session.scope
    ELSE /\ \/ TenantsUsed(q) \subseteq {session.scope}
            \/ q.path = "list tenants" /\ q.headerTenant = Empty
         /\ ClientUsed(q) # None => clientOf[ClientUsed(q)] = session.scope

(* A request is handled whenever its role is one of the route's and every  *)
(* id it carries is the token's own or a client of the token's tenant, in  *)
(* whichever of the headers and the path the ids are repeated: what the    *)
(* guard and the services refuse is only what is out of scope, or a tenant *)
(* header without an id.                                                   *)
InScope(q) ==
  LET tenantIds == {q.headerTenant, q.pathTenant, q.bodyTenant} \ No
      clientIds == {q.headerClient, q.pathClient, q.bodyClient} \ {None, Empty}
  IN  /\ tenantIds \subseteq {session.scope}
      /\ IF session.type = "client" THEN clientIds \subseteq {session.scope}
         ELSE \A x, y \in clientIds : x = y /\ clientOf[x] = session.scope

OwnScopeIsServed ==
  session # None =>
    \A q \in Requests :
      session.type \in q.types /\ session.role \in q.roles /\ InScope(q) => Handled(q)

(* Whoever creates a tenant may go on to add its users (README.md:45 has   *)
(* the controllership create the tenant and its users).                    *)
CreatorAddsUsers ==
  [][CreateTenant => \A t \in tenants' \ tenants :
       \E q \in TenantRequest(TenantRoutes.addTenantUser) : q.pathTenant = t /\ Handled(q)']_vars

(* Nobody gets into a tenant that has no member yet except by the          *)
(* bootstrap script: createTenant gives nobody access to what it creates,  *)
(* and no token of another tenant reaches it by any route.                 *)
OnlyBootstrapOpensATenant ==
  [][\A t \in Tenants :
       (\A u \in Users : members[t][u] = None) /\ (\E u \in Users : members'[t][u] # None) => Bootstrap]_vars
===============================================================================
