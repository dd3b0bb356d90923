----------------------------- MODULE AccessProofs -----------------------------
(***************************************************************************)
(* For any tenants, clients and users: a request that is handled stays in  *)
(* the scope of its token, one that stays in it is handled if its role may *)
(* take the route, and only the bootstrap script opens a tenant.           *)
(***************************************************************************)
EXTENDS Access, TLAPS

Row4 == [role : {"owner", "analyst", "client_admin", "client_viewer"}, active : BOOLEAN]

TypeOK ==
  /\ members \in [Scopes -> [Users -> Row4 \cup {None}]]
  /\ clientOf \in [Clients -> Maybe(Tenants)]
  /\ tenants \subseteq Tenants

(* The token in use was issued for a membership, and a row of a membership *)
(* is never removed.                                                       *)
SessionOK ==
  session # None =>
    /\ session.scope \in Scopes
    /\ session.type = Type(session.scope)
    /\ \E u \in Users : members[session.scope][u] # None

(* Nobody is a member of a tenant or client that is not there. *)
Exists(s) == IF s \in Tenants THEN s \in tenants ELSE clientOf[s] # None
MembersOK == \A s \in Scopes : \A u \in Users : members[s][u] # None => Exists(s)

Inv == TypeOK /\ SessionOK /\ MembersOK

-----------------------------------------------------------------------------
(* The route and path ids of a request, whatever its roles. *)
LEMMA RequestParts ==
  ASSUME NEW q \in Requests
  PROVE  /\ q.path \in {"finance", "create tenant", "list tenants", "tenant", "clients", "client",
                        "users", "invite to tenant", "invite to client"}
         /\ q.types = IF q.path = "finance" THEN {"controller", "client"} ELSE {"controller"}
         /\ q.path \notin {"finance", "client"} => q.pathClient = None
         /\ q.path # "invite to client" => q.bodyClient = None
         /\ q.path = "list tenants" => q.pathTenant = None
  <1>1. PICK roles : \/ q \in FinanceRequest(roles) \/ q \in CreateRequest(roles) \/ q \in ListRequest(roles)
                     \/ q \in TenantRequest(roles) \/ q \in ClientsRequest(roles) \/ q \in ClientRequest(roles)
                     \/ q \in UserRequest(roles) \/ q \in InviteToTenant(roles) \/ q \in InviteToClient(roles)
    BY DEF Requests
  <1> QED
    BY <1>1 DEF FinanceRequest, CreateRequest, ListRequest, TenantRequest, ClientsRequest, ClientRequest,
                UserRequest, InviteToTenant, InviteToClient, Request, No

(* The ids that the path or body of a request always has. *)
LEMMA RequestIds ==
  ASSUME NEW q \in Requests
  PROVE  /\ q.headerTenant \in Maybe(Tenants) \cup {Empty}
         /\ q.path \in {"finance", "client"} => q.pathClient \in Clients
         /\ q.path = "finance" => q.pathTenant = None
         /\ q.path \in {"invite to tenant", "invite to client"} => q.bodyTenant \in Tenants
         /\ q.path = "invite to client" => q.bodyClient \in Clients
         /\ \A k \in Clients : IsId(k)
         /\ \A t \in Tenants : IsId(t)
  <1>1. PICK roles : \/ q \in FinanceRequest(roles) \/ q \in CreateRequest(roles) \/ q \in ListRequest(roles)
                     \/ q \in TenantRequest(roles) \/ q \in ClientsRequest(roles) \/ q \in ClientRequest(roles)
                     \/ q \in UserRequest(roles) \/ q \in InviteToTenant(roles) \/ q \in InviteToClient(roles)
    BY DEF Requests
  <1> QED
    BY <1>1, AccessAssumption DEF FinanceRequest, CreateRequest, ListRequest, TenantRequest, ClientsRequest,
                ClientRequest, UserRequest, InviteToTenant, InviteToClient, Request, No, Maybe, IsId

(* For a controller, the guard leaves no tenant id but the token's. *)
LEMMA ResolvedIsOwn ==
  ASSUME SessionOK, NEW q, Guard(q), session.type = "controller"
  PROVE  /\ UserTenant = session.scope /\ IsId(session.scope)
         /\ ResolvedTenant(q) \in {session.scope, Empty}
  <1>1. session # None /\ session.scope \in Scopes
    BY DEF SessionOK, Guard
  <1>2. IsId(session.scope)
    BY <1>1, AccessAssumption DEF Scopes, IsId
  <1>3. UserTenant = session.scope
    BY DEF UserTenant
  <1>4. \A x, y \in {q.headerTenant, q.pathTenant, UserTenant} : IsId(x) /\ IsId(y) => x = y
    BY DEF Guard, Agree
  <1> QED
    BY <1>2, <1>3, <1>4 DEF ResolvedTenant, FirstGiven, IsId

(* An empty header gets no further than the pipes and the look-ups of the  *)
(* routes that use a tenant, but for the list.                             *)
LEMMA UsedIsOwn ==
  ASSUME Inv, NEW q \in Requests, Handled(q), q.path \in {"tenant", "clients", "client", "users"}
  PROVE  /\ session.type = "controller" /\ session.scope \in Tenants
         /\ ResolvedTenant(q) = session.scope
  <1>1. session.type = "controller" /\ SessionOK /\ Guard(q)
    <2>1. q.types = {"controller"}
      BY RequestParts
    <2> QED
      BY <2>1 DEF Handled, Guard, Inv
  <1>2. session.scope \in Tenants
    BY <1>1 DEF SessionOK, Type, Guard
  <1>3. ResolvedTenant(q) # Empty
    <2>1. ResolvedTenant(q) \in Tenants \cup {None} => ResolvedTenant(q) # Empty
      BY AccessAssumption
    <2>2. q.path = "client" => ResolvedTenant(q) \in Tenants \cup {None}
      BY RequestIds DEF Handled, Found, EnsureClient, Inv, TypeOK, Maybe
    <2>3. q.path \in {"tenant", "clients"} => ResolvedTenant(q) \in Tenants
      BY DEF Handled, Found, EnsureTenant, Inv, TypeOK
    <2>4. q.path = "users" => ResolvedTenant(q) # Empty
      BY DEF Handled, Found, IsId
    <2> QED
      BY <2>1, <2>2, <2>3, <2>4
  <1> QED
    BY <1>1, <1>2, <1>3, ResolvedIsOwn

(* A tenant or client that a call adds members to is there. *)
LEMMA ScopesFound ==
  ASSUME Inv, NEW roles
  PROVE  /\ \A q \in TenantRequest(roles) : Handled(q) => ResolvedTenant(q) \in Scopes /\ Exists(ResolvedTenant(q))
         /\ \A q \in ClientRequest(roles) : Handled(q) => q.pathClient \in Scopes /\ Exists(q.pathClient)
         /\ \A q \in InviteToTenant(roles) : Handled(q) => q.bodyTenant \in Scopes /\ Exists(q.bodyTenant)
         /\ \A q \in InviteToClient(roles) : Handled(q) => q.bodyClient \in Scopes /\ Exists(q.bodyClient)
  <1>1. ASSUME NEW q, Handled(q), q.types = {"controller"} PROVE ResolvedTenant(q) # None
    <2>1. session.type = "controller" /\ SessionOK /\ Guard(q)
      BY <1>1 DEF Handled, Guard, Inv
    <2> QED
      BY <2>1, ResolvedIsOwn, AccessAssumption DEF IsId
  <1>2. \A k \in Clients : k \notin Tenants /\ k \in Scopes
    BY AccessAssumption DEF Scopes
  <1>3. ASSUME NEW q \in TenantRequest(roles), Handled(q)
        PROVE  ResolvedTenant(q) \in Scopes /\ Exists(ResolvedTenant(q))
    <2>1. q.types = {"controller"} /\ q.path = "tenant"
      BY DEF TenantRequest, Request
    <2>2. EnsureTenant(ResolvedTenant(q))
      BY <1>3, <2>1 DEF Handled, Found
    <2> QED
      BY <2>2 DEF EnsureTenant, Exists, Scopes, Inv, TypeOK
  <1>4. ASSUME NEW q \in ClientRequest(roles), Handled(q)
        PROVE  q.pathClient \in Scopes /\ Exists(q.pathClient)
    <2>1. q.types = {"controller"} /\ q.path = "client" /\ q.pathClient \in Clients
      BY DEF ClientRequest, Request
    <2>2. EnsureClient(ResolvedTenant(q), q.pathClient)
      BY <1>4, <2>1 DEF Handled, Found
    <2> QED
      BY <1>1, <1>2, <1>4, <2>1, <2>2 DEF EnsureClient, Exists
  <1>5. ASSUME NEW q \in InviteToTenant(roles), Handled(q)
        PROVE  q.bodyTenant \in Scopes /\ Exists(q.bodyTenant)
    <2>1. q.path = "invite to tenant" /\ q.bodyTenant \in Tenants
      BY DEF InviteToTenant, Request
    <2>2. EnsureTenant(q.bodyTenant)
      BY <1>5, <2>1 DEF Handled, Found
    <2> QED
      BY <2>1, <2>2 DEF EnsureTenant, Exists, Scopes
  <1>6. ASSUME NEW q \in InviteToClient(roles), Handled(q)
        PROVE  q.bodyClient \in Scopes /\ Exists(q.bodyClient)
    <2>1. q.path = "invite to client" /\ q.bodyTenant \in Tenants /\ q.bodyClient \in Clients
      BY DEF InviteToClient, Request
    <2>2. clientOf[q.bodyClient] = q.bodyTenant
      BY <1>6, <2>1 DEF Handled, Found, EnsureClient
    <2> QED
      BY <1>2, <2>1, <2>2, AccessAssumption DEF Exists
  <1> QED
    BY <1>3, <1>4, <1>5, <1>6

LEMMA InvHolds == Spec => []Inv
  <1>1. Init => Inv
    BY DEF Init, Inv, TypeOK, SessionOK, MembersOK, Maybe
  <1>2. ASSUME Inv, [Next]_vars PROVE Inv'
    <2> USE <1>2 DEF Inv, TypeOK
    <2>1. ASSUME NEW s \in Scopes, NEW u \in Users, NEW row \in Row4, Put(s, u, row), Exists(s),
                 UNCHANGED <<tenants, clientOf, session>>
          PROVE  Inv'
      <3>1. members' = [members EXCEPT ![s][u] = row]
        BY <2>1 DEF Put
      <3>2. TypeOK'
        BY <2>1, <3>1
      <3>3. \A p \in Scopes : \A v \in Users : members[p][v] # None => members'[p][v] # None
        BY <2>1, <3>1, AccessAssumption DEF Row4
      <3>4. SessionOK'
        BY <2>1, <3>3 DEF SessionOK, Type
      <3>5. ASSUME NEW p \in Scopes, NEW v \in Users, members'[p][v] # None PROVE Exists(p)'
        <4>1. p = s \/ members[p][v] # None
          BY <3>1, <3>5
        <4>2. Exists(p)
          BY <2>1, <4>1 DEF MembersOK
        <4> QED
          BY <2>1, <4>2 DEF Exists
      <3> QED
        BY <3>2, <3>4, <3>5 DEF MembersOK
    <2>2. \A s \in Scopes : Rows(s) \subseteq Row4 /\ UsersOf(s) \subseteq Users
      BY DEF Rows, RolesIn, TenantRoles, ClientRoles, Row4, UsersOf, Users
    <2>3. \A s \in Scopes : \A role \in RolesIn(s) : Row(role, TRUE) \in Row4
      BY DEF Row, RolesIn, TenantRoles, ClientRoles, Row4
    <2>4. CASE Bootstrap
      <3>1. PICK t \in Tenants, u \in Controllers : tenants' = tenants \cup {t} /\ Put(t, u, Row("owner", TRUE))
        BY <2>4 DEF Bootstrap
      <3>2. members' = [members EXCEPT ![t][u] = Row("owner", TRUE)] /\ UNCHANGED <<clientOf, session>>
        BY <2>4, <3>1 DEF Bootstrap, Put
      <3>3. Row("owner", TRUE) \in Row4 /\ t \in Scopes /\ u \in Users /\ Row("owner", TRUE) # None
        <4>1. Row("owner", TRUE) \in Row4
          BY DEF Row, Row4
        <4> QED
          BY <4>1, AccessAssumption DEF Row4, Scopes, Users
      <3>4. TypeOK'
        BY <3>1, <3>2, <3>3
      <3>5. SessionOK'
        BY <3>2, <3>3 DEF SessionOK, Type
      <3>6. ASSUME NEW p \in Scopes, NEW v \in Users, members'[p][v] # None PROVE Exists(p)'
        <4>1. p = t \/ members[p][v] # None
          BY <3>2, <3>6
        <4>2. p = t \/ Exists(p)
          BY <4>1 DEF MembersOK
        <4> QED
          BY <3>1, <3>2, <4>2 DEF Exists
      <3> QED
        BY <3>4, <3>5, <3>6 DEF MembersOK
    <2>5. CASE SignIn
      BY <2>5 DEF SignIn, SessionOK, MembersOK, Exists, Type
    <2>6. CASE UNCHANGED vars
      BY <2>6 DEF vars, SessionOK, MembersOK, Exists, Type
    <2>7. CASE CreateTenant
      BY <2>7 DEF CreateTenant, SessionOK, MembersOK, Exists, Type
    <2>8. CASE CreateClient
      <3>1. PICK q \in ClientsRequest(ClientsRoutes.createClient), k \in Clients :
              Handled(q) /\ clientOf' = [clientOf EXCEPT ![k] = ResolvedTenant(q)]
        BY <2>8 DEF CreateClient
      <3>2. session # None /\ session.type = "controller" /\ SessionOK /\ Guard(q)
        BY <3>1 DEF Handled, Guard, ClientsRequest, Request
      <3>3. ResolvedTenant(q) \in Tenants
        BY <3>1 DEF Handled, Found, EnsureTenant, ClientsRequest, Request
      <3>4. TypeOK' /\ \A p \in Clients : clientOf[p] # None => clientOf'[p] # None
        BY <2>8, <3>1, <3>3, AccessAssumption DEF CreateClient, Maybe
      <3> QED
        BY <2>8, <3>4 DEF CreateClient, SessionOK, MembersOK, Exists, Type, Scopes
    <2>9. ASSUME NEW s \in Scopes, Exists(s), AddTo(s) \/ UpdateIn(s) \/ InviteTo(s),
                 UNCHANGED <<tenants, clientOf, session>>
          PROVE  Inv'
      <3>1. PICK u \in Users, row \in Row4 : Put(s, u, row)
        BY <2>2, <2>3, <2>9 DEF AddTo, UpdateIn, InviteTo
      <3> QED
        BY <2>1, <2>9, <3>1
    <2>10. CASE AddTenantUser \/ UpdateTenantUser
      BY <2>9, <2>10, ScopesFound DEF AddTenantUser, UpdateTenantUser
    <2>11. CASE AddClientUser \/ UpdateClientUser
      BY <2>9, <2>11, ScopesFound DEF AddClientUser, UpdateClientUser
    <2>12. CASE CreateTenantInvitation
      BY <2>9, <2>12, ScopesFound DEF CreateTenantInvitation
    <2>13. CASE CreateClientInvitation
      BY <2>9, <2>13, ScopesFound DEF CreateClientInvitation
    <2> QED
      BY <2>4, <2>5, <2>6, <2>7, <2>8, <2>10, <2>11, <2>12, <2>13 DEF Next
  <1> QED
    BY <1>1, <1>2, PTL DEF Spec

-----------------------------------------------------------------------------
(* Whatever a request names, what is handled of it is the token's own: the *)
(* guard of access.guard.ts and the look-ups of the services together let  *)
(* no id of another tenant or client through, and an empty header gets as  *)
(* far as the list of tenants only.                                        *)
THEOREM HandledRequestsStayInScope == Spec => []HandledInScope
  <1>1. ASSUME Inv PROVE HandledInScope
    <2> SUFFICES ASSUME NEW q \in Requests, Handled(q)
                 PROVE  IF session.type = "client" THEN ClientUsed(q) = session.scope
                        ELSE /\ \/ TenantsUsed(q) \subseteq {session.scope}
                                \/ q.path = "list tenants" /\ q.headerTenant = Empty
                             /\ ClientUsed(q) # None => clientOf[ClientUsed(q)] = session.scope
      BY DEF HandledInScope
    <2>1. session # None /\ session.type \in q.types /\ SessionOK
      BY <1>1 DEF Handled, Guard, Inv
    <2>2. session.type \in {"controller", "client"}
      BY <2>1 DEF SessionOK, Type
    <2>3. CASE session.type = "client"
      <3>1. q.path = "finance" /\ q.bodyClient = None
        BY <2>1, <2>3, RequestParts
      <3>2. q.pathClient = UserClient
        BY <2>3, <3>1 DEF Handled, Found, RequireClientAccess
      <3> QED
        BY <2>3, <3>1, <3>2 DEF ClientUsed, UserClient
    <2>4. CASE session.type = "controller"
      <3>1. /\ UserTenant = session.scope /\ IsId(session.scope)
            /\ ResolvedTenant(q) \in {session.scope, Empty}
        BY <2>1, <2>4, ResolvedIsOwn DEF Handled
      <3>2. CASE q.path = "finance"
        BY <2>4, <3>1, <3>2, RequestParts DEF Handled, Found, RequireClientAccess, TenantsUsed, ClientUsed
      <3>3. CASE q.path \in {"tenant", "clients", "users"}
        BY <1>1, <3>3, UsedIsOwn, RequestParts DEF TenantsUsed, ClientUsed
      <3>4. CASE q.path = "client"
        BY <1>1, <3>4, UsedIsOwn, RequestParts DEF Handled, Found, EnsureClient, TenantsUsed, ClientUsed
      <3>5. CASE q.path = "invite to tenant"
        BY <2>4, <3>1, <3>5, RequestParts DEF Handled, Found, TenantsUsed, ClientUsed
      <3>6. CASE q.path = "invite to client"
        BY <2>4, <3>1, <3>6, RequestParts DEF Handled, Found, EnsureClient, TenantsUsed, ClientUsed
      <3>7. CASE q.path = "list tenants"
        <4>1. ASSUME q.headerTenant # Empty PROVE ResolvedTenant(q) = session.scope
          BY <3>1, <3>7, <4>1, RequestParts DEF ResolvedTenant, FirstGiven, IsId
        <4>2. ASSUME ResolvedTenant(q) = session.scope PROVE TenantsUsed(q) \subseteq {session.scope}
          BY <3>1, <3>7, <4>2 DEF TenantsUsed, FindAllForTenant
        <4> QED
          BY <2>4, <3>7, <4>1, <4>2, RequestParts DEF ClientUsed
      <3>8. CASE q.path = "create tenant"
        BY <2>4, <3>8, RequestParts DEF TenantsUsed, ClientUsed
      <3> QED
        BY <3>2, <3>3, <3>4, <3>5, <3>6, <3>7, <3>8, RequestParts
    <2> QED
      BY <2>2, <2>3, <2>4
  <1> QED
    BY <1>1, InvHolds, PTL

(* The other way round: what the guard of access.guard.ts and the look-ups *)
(* of the services refuse to a role of the route is only what lies outside *)
(* the token's scope.                                                      *)
THEOREM RequestsInScopeAreHandled == Spec => []OwnScopeIsServed
  <1>1. ASSUME Inv PROVE OwnScopeIsServed
    <2> SUFFICES ASSUME session # None, NEW q \in Requests,
                        session.type \in q.types, session.role \in q.roles, InScope(q)
                 PROVE  Handled(q)
      BY DEF OwnScopeIsServed
    <2>1. /\ SessionOK /\ session.scope \in Scopes /\ Exists(session.scope)
          /\ session.type = Type(session.scope) /\ session.scope # None
      BY <1>1, AccessAssumption DEF Inv, SessionOK, MembersOK, Scopes
    <2>2. \A id \in {q.headerTenant, q.pathTenant, q.bodyTenant} : id = None \/ id = session.scope
      BY DEF InScope, No
    <2>3. CASE session.type = "client"
      <3>1. /\ session.scope \in Clients /\ session.scope \notin Tenants
            /\ clientOf[session.scope] # None
        BY <2>1, <2>3 DEF Type, Exists, Scopes
      <3>2. q.path = "finance"
        BY <2>3, RequestParts
      <3>3. q.pathClient \in Clients /\ q.headerTenant \in Maybe(Tenants) \cup {Empty} /\ q.pathTenant = None
        BY <3>2, RequestIds
      <3>4. \A id \in {q.headerClient, q.pathClient} : IsId(id) => id = session.scope
        BY <2>3 DEF InScope, IsId
      <3>5. q.pathClient = session.scope /\ q.headerTenant = None
        BY <2>2, <3>1, <3>3, <3>4, AccessAssumption DEF Maybe, IsId
      <3>6. UserTenant = None /\ UserClient = session.scope
        BY <2>3 DEF UserTenant, UserClient
      <3>7. Guard(q)
        BY <3>3, <3>4, <3>5, <3>6 DEF Guard, Agree, IsId
      <3>8. Found(q)
        BY <2>3, <3>1, <3>2, <3>5, <3>6 DEF Found, RequireClientAccess
      <3> QED
        BY <3>7, <3>8 DEF Handled
    <2>4. CASE session.type = "controller"
      <3>1. session.scope \in Tenants /\ session.scope \in tenants
        BY <2>1, <2>4 DEF Type, Exists
      <3>2. \A x, y \in {q.headerClient, q.pathClient, q.bodyClient} :
              IsId(x) /\ IsId(y) => x = y /\ clientOf[x] = session.scope
        BY <2>4 DEF InScope, IsId
      <3>3. UserTenant = session.scope /\ UserClient = None
        BY <2>4 DEF UserTenant, UserClient
      <3>4. Guard(q)
        <4>1. Agree(q.headerTenant, q.pathTenant, UserTenant)
          BY <2>2, <3>3 DEF Agree, IsId
        <4>2. Agree(q.headerClient, q.pathClient, UserClient)
          BY <3>2, <3>3 DEF Agree, IsId
        <4> QED
          BY <4>1, <4>2 DEF Guard
      <3>5. ResolvedTenant(q) = session.scope
        BY <2>1, <2>2, <3>3 DEF ResolvedTenant, FirstGiven
      <3>6. /\ q.path \in {"finance", "client"} => clientOf[q.pathClient] = session.scope
            /\ q.path \in {"invite to tenant", "invite to client"} => q.bodyTenant = session.scope
            /\ q.path = "invite to client" => clientOf[q.bodyClient] = session.scope
        BY <2>2, <3>2, RequestIds, AccessAssumption
      <3>7. ASSUME q.path \in {"finance", "create tenant", "list tenants", "users"} PROVE Found(q)
        <4>1. IsId(session.scope)
          BY <3>1, AccessAssumption DEF IsId
        <4> QED
          BY <2>1, <2>4, <3>3, <3>5, <3>6, <3>7, <4>1 DEF Found, RequireClientAccess
      <3>8. ASSUME q.path \in {"tenant", "clients", "client"} PROVE Found(q)
        BY <3>1, <3>5, <3>6, <3>8 DEF Found, EnsureTenant, EnsureClient
      <3>9. ASSUME q.path \in {"invite to tenant", "invite to client"} PROVE Found(q)
        BY <3>1, <3>3, <3>6, <3>9 DEF Found, EnsureTenant, EnsureClient
      <3>10. Found(q)
        BY <3>7, <3>8, <3>9, RequestParts
      <3> QED
        BY <3>4, <3>10 DEF Handled
    <2> QED
      BY <2>1, <2>3, <2>4 DEF Type
  <1> QED
    BY <1>1, InvHolds, PTL

(* A tenant without members gets its first one from the bootstrap script:  *)
(* any other call that adds a member is made with a token of that tenant,  *)
(* which has the member the token was issued to.                           *)
THEOREM TenantsAreOpenedByBootstrap == Spec => OnlyBootstrapOpensATenant
  <1> DEFINE Opened(t) == (\A u \in Users : members[t][u] = None) /\ (\E u \in Users : members'[t][u] # None)
  <1>1. ASSUME Inv, [Next]_vars, NEW t \in Tenants, Opened(t) PROVE Bootstrap
    <2>1. SessionOK /\ TypeOK
      BY <1>1 DEF Inv
    <2>2. t \in Scopes
      BY DEF Scopes
    <2>3. ASSUME NEW s, NEW u, NEW row, Put(s, u, row) PROVE s = t
      BY <1>1, <2>1, <2>2, <2>3 DEF Put, TypeOK
    <2>4. ASSUME NEW s, AddTo(s) \/ UpdateIn(s) \/ InviteTo(s) PROVE s = t
      BY <2>3, <2>4 DEF AddTo, UpdateIn, InviteTo
    <2>5. session # None => session.scope # t
      BY <1>1, <2>1 DEF SessionOK
    <2>6. \A roles : \A q \in TenantRequest(roles) : Handled(q) => ResolvedTenant(q) # t
      <3> SUFFICES ASSUME NEW roles, NEW q \in TenantRequest(roles), Handled(q)
                   PROVE  ResolvedTenant(q) # t
        OBVIOUS
      <3>1. session # None /\ session.type = "controller"
        BY DEF Handled, Guard, TenantRequest, Request
      <3> QED
        BY <3>1, <2>1, <2>5, ResolvedIsOwn, AccessAssumption DEF Handled
    <2>7. ~(AddTenantUser \/ UpdateTenantUser)
      BY <2>4, <2>6 DEF AddTenantUser, UpdateTenantUser
    <2>8. ~(AddClientUser \/ UpdateClientUser \/ CreateClientInvitation)
      <3>1. \A k \in Clients : k # t
        BY AccessAssumption
      <3>2. \A roles : (\A q \in ClientRequest(roles) : q.pathClient # t)
                    /\ (\A q \in InviteToClient(roles) : q.bodyClient # t)
        BY <3>1 DEF ClientRequest, InviteToClient, Request
      <3> QED
        BY <2>4, <3>2 DEF AddClientUser, UpdateClientUser, CreateClientInvitation
    <2>9. ~CreateTenantInvitation
      <3> SUFFICES ASSUME NEW q \in InviteToTenant(InvitationRoutes.createTenantInvitation), Handled(q)
                   PROVE  q.bodyTenant # t
        BY <2>4 DEF CreateTenantInvitation
      <3>1. session # None /\ session.type = "controller" /\ q.path = "invite to tenant"
        BY DEF Handled, Guard, InviteToTenant, Request
      <3>2. UserTenant = q.bodyTenant
        BY <3>1 DEF Handled, Found
      <3> QED
        BY <3>1, <3>2, <2>5 DEF UserTenant
    <2>10. ~(SignIn \/ CreateTenant \/ CreateClient \/ UNCHANGED vars)
      BY <1>1 DEF SignIn, CreateTenant, CreateClient, vars
    <2> QED
      BY <1>1, <2>7, <2>8, <2>9, <2>10 DEF Next
  <1>2. ASSUME Inv, [Next]_vars
        PROVE  [\A t \in Tenants :
                 (\A u \in Users : members[t][u] = None) /\ (\E u \in Users : members'[t][u] # None) => Bootstrap]_vars
    BY <1>1, <1>2
  <1> QED
    BY <1>2, InvHolds, PTL DEF Spec, OnlyBootstrapOpensATenant
===============================================================================
