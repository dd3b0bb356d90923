------------------------------ MODULE Accounts ------------------------------
(***************************************************************************)
(* Users, their memberships, invitations and password resets: the handlers *)
(* of auth.service.ts, tenants.service.ts, clients.service.ts and          *)
(* users.service.ts that write them, and the script that sets up the first *)
(* owner.  Every handler is a row of queries with an await after each and  *)
(* no transaction around them, so that calls interleave and may stop at    *)
(* any query.  Tenants and clients are both scopes: the handlers for       *)
(* their users differ only in the tables they use.                         *)
(***************************************************************************)
EXTENDS Integers, FiniteSets, FiniteSetsExt

CONSTANTS
  Tenants, Clients,         \* the scopes there may ever be
  TenantRoles, ClientRoles, \* the roles asked for in them
  Emails,                   \* a user is known by the email, which is unique
  Passwords, Subjects,      \* what users may choose, and Google's ids for them
  Tokens,                   \* the invitations and resets there may ever be
  Calls,                    \* the calls that may be in progress at once
  MaxCalls, MaxFailures,    \* bounds on the calls and on their failures
  None                      \* null, and an argument that is not given

ASSUME AccountAssumption ==
  /\ Tenants \cap Clients = {}
  /\ "owner" \in TenantRoles
  /\ MaxCalls \in Nat /\ MaxFailures \in Nat

VARIABLES
  scopes,    \* the tenants and clients there are
  primary,   \* the tenants that bear BOOTSTRAP_TENANT_NAME
  users,     \* users[e]: the row of users, or None
  members,   \* members[<<s, e>>]: the row of tenant_users or client_users, or None
  tokens,    \* tokens[k]: the row of auth_invitations or password_resets, or None
  call,      \* call[c]: the handler at work
  begun, failures

tables == <<scopes, primary, users, members, tokens>>
vars   == <<tables, call, begun, failures>>

Scopes    == Tenants \cup Clients
Type(s)   == IF s \in Tenants THEN "controller" ELSE "client"
Roles(s)  == IF s \in Tenants THEN TenantRoles ELSE ClientRoles
Peers(s)  == IF s \in Tenants THEN Tenants ELSE Clients
AnyRole   == TenantRoles \cup ClientRoles
Maybe(S)  == S \cup {None}

(* The rows of the tables; a token's status says what usedAt, acceptedAt   *)
(* and expiresAt say together.                                             *)
UserRows   == [type : {"controller", "client"}, password : Maybe(Passwords),
               active : BOOLEAN, subject : Maybe(Subjects)]
MemberRows == [role : AnyRole, active : BOOLEAN]
TokenRows  == [kind : {"invitation", "reset"}, scope : Maybe(Scopes), email : Emails,
               role : Maybe(AnyRole), status : {"open", "used", "expired"}]

ASSUME NullAssumption ==
  /\ None \notin AnyRole /\ None \notin BOOLEAN
  /\ None \notin Passwords \cup UserRows \cup MemberRows \cup TokenRows

UserPasswordless(type, password) ==   \* mutant: the password is not stored with a new user
  [type |-> type, password |-> None, active |-> TRUE, subject |-> None]
User(type, password) == [type |-> type, password |-> password, active |-> TRUE, subject |-> None]
Member(role, active) == [role |-> role, active |-> active]
InvitationUnroled(s, e, role) ==   \* mutant
  [kind |-> "invitation", scope |-> s, email |-> e, role |-> None, status |-> "open"]
Invitation(s, e, role) == [kind |-> "invitation", scope |-> s, email |-> e, role |-> role, status |-> "open"]
Reset(e)               == [kind |-> "reset", scope |-> None, email |-> e, role |-> None, status |-> "open"]

(* What a caller may send; tenants and clients alike. *)
Arg(e, s) == [email |-> e, scope |-> s, role |-> None, active |-> None,
              password |-> None, subject |-> None, token |-> None]

Sent(E, S, R, A, P, U, K) ==
  [email : E, scope : S, role : R, active : A, password : P, subject : U, token : K]

Asked(op) ==
  LET N == {None} IN
  CASE op = "add" ->
         UNION {Sent(Emails, {s}, Roles(s), BOOLEAN, Maybe(Passwords), N, N) : s \in scopes}
    [] op = "update" -> UNION {Sent(Emails, {s}, Maybe(Roles(s)), Maybe(BOOLEAN), N, N, N) : s \in scopes}
    [] op = "invite" -> UNION {Sent(Emails, {s}, Roles(s), N, N, N, Tokens) : s \in scopes}
    [] op = "forgot" -> Sent(Emails, N, N, N, N, N, Tokens)
    [] op \in {"accept", "reset"} -> Sent(N, N, N, N, Passwords, N, Tokens)
    [] op = "google" -> Sent(Emails, N, N, N, N, Subjects, N)
    [] op = "patch"  -> Sent(Emails, scopes \cap Tenants, N, Maybe(BOOLEAN), N, N, N)
    [] op = "bootstrap" -> Sent(Emails, N, {"owner"}, {TRUE}, Maybe(Passwords), N, N)

Ops == {"add", "update", "invite", "accept", "forgot", "reset", "google", "patch", "bootstrap"}

(* row: what the handler has read or is about to write; dirty: the columns *)
(* that save will write; before: the tables when the call began, while it  *)
(* is alone.  The last is not in the code.                                 *)
Handler(op, pc, arg, before) ==
  [op |-> op, pc |-> pc, arg |-> arg, row |-> None, dirty |-> {}, before |-> before]
Idle == Handler("none", "idle", None, None)

Database == [scopes |-> scopes, primary |-> primary, users |-> users, members |-> members, tokens |-> tokens]

-----------------------------------------------------------------------------
(* The client of a tenant is created after it; a scope is never removed.   *)
Init ==
  /\ scopes \in {S \in SUBSET Scopes : S \cap Clients # {} => S \cap Tenants # {}}
  /\ primary = {}
  /\ users = [e \in Emails |-> None]
  /\ members = [m \in Scopes \X Emails |-> None]
  /\ tokens = [k \in Tokens |-> None]
  /\ call = [c \in Calls |-> Idle]
  /\ begun = 0 /\ failures = 0

(* Whoever is at work while something else happens is no longer alone. *)
Disturbed == [c \in Calls |-> [call[c] EXCEPT !.before = None]]
AllIdle   == \A c \in Calls : call[c] = Idle

(* createTenant, createClient and updateTenant, of which only a tenant's   *)
(* name matters here, and that only to bootstrap; and a token's hour.      *)
OneStep ==
  /\ begun < MaxCalls /\ begun' = begun + 1
  /\ call' = Disturbed
  /\ UNCHANGED failures

CreateTenant ==
  /\ OneStep
  /\ \E t \in Tenants \ scopes :
       /\ scopes' = scopes \cup {t}
       /\ primary' \in {primary, primary \cup {t}}
  /\ UNCHANGED <<users, members, tokens>>

CreateClient ==
  /\ OneStep
  /\ scopes \cap Tenants # {}
  /\ \E k \in Clients \ scopes : scopes' = scopes \cup {k}
  /\ UNCHANGED <<primary, users, members, tokens>>

UpdateTenant ==
  /\ OneStep
  /\ \E t \in scopes \cap Tenants : primary' \in {primary \cup {t}, primary \ {t}}
  /\ UNCHANGED <<scopes, users, members, tokens>>

Expire ==
  /\ \E k \in Tokens :
       /\ tokens[k] # None /\ tokens[k].status = "open"
       /\ tokens' = [tokens EXCEPT ![k].status = "expired"]
  /\ call' = Disturbed
  /\ UNCHANGED <<scopes, primary, users, members, begun, failures>>

-----------------------------------------------------------------------------
(* The row that invite and forgot will insert has its token reserved. *)
Reserved == {call[c].arg.token : c \in {d \in Calls : call[d].op \in {"invite", "forgot"}}}
IsKind(k, kind) == tokens[k] # None /\ tokens[k].kind = kind

First(op) ==
  CASE op \in {"add", "invite", "forgot", "google"} -> "user"
    [] op \in {"accept", "reset"}                   -> "token"
    [] op \in {"update", "patch"}                   -> "member"
    [] op = "bootstrap"                             -> "tenant"

Begin(c) ==
  /\ call[c] = Idle
  /\ begun < MaxCalls /\ begun' = begun + 1
  /\ \E op \in Ops : \E arg \in Asked(op) :
       /\ op \in {"invite", "forgot"} => tokens[arg.token] = None /\ arg.token \notin Reserved
       /\ op = "accept" => IsKind(arg.token, "invitation")
       /\ op = "reset" => IsKind(arg.token, "reset")
       /\ call' = [Disturbed EXCEPT ![c] =
                     Handler(op, First(op), arg, IF AllIdle THEN Database ELSE None)]
  /\ UNCHANGED <<tables, failures>>

-----------------------------------------------------------------------------
(* The queries, each with the place where its handler goes on.             *)

Scope(c) == call[c].arg.scope
Email(c) == call[c].arg.email
Key(c)   == <<Scope(c), Email(c)>>
Is(c, op)          == call[c].op = op
IsFor(c, op, kind) == call[c].op = op /\ Scope(c) \in kind

At(c, pc)    == call[c].pc = pc
End(c)       == call' = [call EXCEPT ![c] = Idle]
Goto(c, pc)  == IF pc = "end" THEN End(c) ELSE call' = [call EXCEPT ![c].pc = pc]
Hold(c, pc, row) == call' = [call EXCEPT ![c].pc = pc, ![c].row = row]
Mark(c, pc, dirty) == call' = [call EXCEPT ![c].pc = pc, ![c].dirty = dirty]
Reads        == UNCHANGED <<tables, begun, failures>>
WritesUsers   == UNCHANGED <<scopes, primary, members, tokens, begun, failures>>
WritesMembers == UNCHANGED <<scopes, primary, users, tokens, begun, failures>>
WritesTokens  == UNCHANGED <<scopes, primary, users, members, begun, failures>>

(* A token is refused once it is used or has expired. *)
FindToken(c, next) ==
  /\ At(c, "token")
  /\ LET row == tokens[call[c].arg.token] IN
     IF row.status # "open" THEN End(c)
     ELSE call' = [call EXCEPT ![c].pc = next,
            ![c].arg = [@ EXCEPT !.email = row.email, !.scope = row.scope, !.role = row.role, !.active = TRUE]]
  /\ Reads

MismatchUnlessAdded(c, user) ==   \* mutant: only addTenantUser and addClientUser check
  call[c].op = "add" /\ user.type # Type(Scope(c))

(* User type mismatch *)
Mismatch(c, user) == user.type # Type(Scope(c))

FindUser(c, absent, found) ==
  /\ At(c, "user")
  /\ LET user == users[Email(c)] IN
     IF user = None THEN Goto(c, absent)
     ELSE IF Mismatch(c, user) THEN End(c) ELSE Goto(c, found)
  /\ Reads

(* A user of that email inserted meanwhile: the unique index refuses. *)
InsertUser(c, next) ==
  /\ At(c, "insert user")
  /\ IF users[Email(c)] # None THEN End(c) /\ UNCHANGED users
     ELSE /\ users' = [users EXCEPT ![Email(c)] = User(Type(Scope(c)), call[c].arg.password)]
          /\ Goto(c, next)
  /\ WritesUsers

GivenPassword(c, given, next) == IF call[c].arg.password # None THEN given ELSE next

SetPassword(c, next) ==
  /\ At(c, "password")
  /\ users' = [users EXCEPT ![Email(c)].password = call[c].arg.password]
  /\ Goto(c, next)
  /\ WritesUsers

FindMember(c, absent, found) ==
  /\ At(c, "member")
  /\ Goto(c, IF members[Key(c)] = None THEN absent ELSE found)
  /\ Reads

(* Object.assign of what is given. *)
Assigned(row, arg) == Member(IF arg.role = None THEN row.role ELSE arg.role,
                             IF arg.active = None THEN row.active ELSE arg.active)

FindMemberToUpdate(c, absent) ==
  /\ At(c, "member")
  /\ LET row == members[Key(c)] IN
     IF row = None THEN Goto(c, absent)
     ELSE Hold(c, "load member", Assigned(row, call[c].arg))
  /\ Reads

InsertMember(c, next) ==
  /\ At(c, "insert member")
  /\ IF members[Key(c)] # None THEN End(c) /\ UNCHANGED members
     ELSE /\ members' = [members EXCEPT ![Key(c)] = Member(call[c].arg.role, call[c].arg.active)]
          /\ Goto(c, next)
  /\ WritesMembers

(* save of a row with an id: it is read again, and only the columns that   *)
(* differ from that are written.                                           *)
Differing(columns, old, new) == {f \in columns : old[f] # new[f]}
Merged(old, new, dirty)      == [f \in DOMAIN old |-> IF f \in dirty THEN new[f] ELSE old[f]]

SaveMember(c, next) ==
  \/ /\ At(c, "load member")
     /\ Mark(c, "save member", Differing({"role", "active"}, members[Key(c)], call[c].row))
     /\ Reads
  \/ /\ At(c, "save member")
     /\ members' = [members EXCEPT ![Key(c)] = Merged(@, call[c].row, call[c].dirty)]
     /\ Goto(c, next)
     /\ WritesMembers

(* acceptedAt, usedAt *)
Spend(c) ==
  /\ At(c, "spend")
  /\ tokens' = [tokens EXCEPT ![call[c].arg.token].status = "used"]
  /\ End(c)
  /\ WritesTokens

InsertToken(c, row) ==
  /\ At(c, "insert token")
  /\ tokens' = [tokens EXCEPT ![call[c].arg.token] = row]
  /\ End(c)
  /\ WritesTokens

-----------------------------------------------------------------------------
(* The handlers, query by query.                                           *)

FindAnyMemberHere(c) ==   \* mutant: only this scope is looked at
  /\ At(c, "any member")
  /\ Goto(c, IF members[Key(c)] # None THEN "end" ELSE GivenPassword(c, "password", "insert member"))
  /\ Reads

(* A user belongs to one tenant, or to one client. *)
FindAnyMember(c) ==
  /\ At(c, "any member")
  /\ Goto(c, IF \E s \in Peers(Scope(c)) : members[<<s, Email(c)>>] # None THEN "end"
             ELSE GivenPassword(c, "password", "insert member"))
  /\ Reads

AddUser(c) ==
  \/ FindUser(c, "insert user", "any member")
  \/ InsertUser(c, "insert member")
  \/ FindAnyMember(c)
  \/ SetPassword(c, "insert member")
  \/ InsertMember(c, "end")

AddTenantUser(c) == IsFor(c, "add", Tenants) /\ AddUser(c)
AddClientUser(c) == IsFor(c, "add", Clients) /\ AddUser(c)

UpdateMember(c) == FindMemberToUpdate(c, "end") \/ SaveMember(c, "end")

UpdateTenantUser(c) == IsFor(c, "update", Tenants) /\ UpdateMember(c)
UpdateClientUser(c) == IsFor(c, "update", Clients) /\ UpdateMember(c)

Invite(c) ==
  \/ FindUser(c, "insert token", "member")
  \/ FindMember(c, "insert token", "end")
  \/ InsertToken(c, Invitation(Scope(c), Email(c), call[c].arg.role))

CreateTenantInvitation(c) == IsFor(c, "invite", Tenants) /\ Invite(c)
CreateClientInvitation(c) == IsFor(c, "invite", Clients) /\ Invite(c)

AcceptInvitation(c) ==
  /\ Is(c, "accept")
  /\ \/ FindToken(c, "user")
     \/ FindUser(c, "insert user", "password")
     \/ InsertUser(c, "member") \/ SetPassword(c, "member")
     \/ FindMemberToUpdate(c, "insert member")
     \/ InsertMember(c, "spend") \/ SaveMember(c, "spend")
     \/ Spend(c)

(* An inactive user is answered like an unknown one. *)
FindActiveUser(c, next) ==
  /\ At(c, "user")
  /\ LET user == users[Email(c)] IN
     IF user = None \/ ~user.active THEN End(c) ELSE Hold(c, next, user)
  /\ Reads

RequestPasswordReset(c) ==
  /\ Is(c, "forgot")
  /\ FindActiveUser(c, "insert token") \/ InsertToken(c, Reset(Email(c)))

ResetPassword(c) ==
  /\ Is(c, "reset")
  /\ FindToken(c, "password") \/ SetPassword(c, "spend") \/ Spend(c)

(* The first sign-in binds the subject, another subject is refused. *)
BindSubject(c) ==
  /\ At(c, "subject")
  /\ users' = IF call[c].row.subject = None
              THEN [users EXCEPT ![Email(c)].subject = call[c].arg.subject] ELSE users
  /\ End(c)
  /\ WritesUsers

SignInWithGoogle(c) ==
  /\ Is(c, "google")
  /\ FindActiveUser(c, "subject") \/ BindSubject(c)

FindOneInTenant(c) ==
  /\ At(c, "member")
  /\ LET row == members[Key(c)] IN
     Goto(c, IF row # None /\ row.active THEN "preload" ELSE "end")
  /\ Reads

PreloadedAll == {"active", "subject", "password"}   \* mutant: passwordHash is selected
(* What preload reads of a user: passwordHash is not selected. *)
Preloaded == {"active", "subject"}

UpdateUser(c) ==
  /\ Is(c, "patch")
  /\ \/ FindOneInTenant(c)
     \/ /\ At(c, "preload")
        /\ LET active == call[c].arg.active IN
           Hold(c, "load user", [users[Email(c)] EXCEPT !.active = IF active = None THEN @ ELSE active])
        /\ Reads
     \/ /\ At(c, "load user")
        /\ Mark(c, "save user", Differing(Preloaded, users[Email(c)], call[c].row))
        /\ Reads
     \/ /\ At(c, "save user")
        /\ users' = [users EXCEPT ![Email(c)] = Merged(@, call[c].row, call[c].dirty)]
        /\ End(c)
        /\ WritesUsers

(* Any tenant of the name, or else a new one. *)
FindOrInsertTenant(c) ==
  \/ /\ At(c, "tenant")
     /\ IF primary = {} THEN Goto(c, "insert tenant")
        ELSE \E t \in primary : call' = [call EXCEPT ![c].pc = "user", ![c].arg.scope = t]
     /\ Reads
  \/ /\ At(c, "insert tenant")
     /\ \E t \in Tenants \ scopes :
          /\ scopes' = scopes \cup {t}
          /\ primary' = primary \cup {t}
          /\ call' = [call EXCEPT ![c].pc = "user", ![c].arg.scope = t]
     /\ UNCHANGED <<users, members, tokens, begun, failures>>

FindOwner(c) ==
  /\ At(c, "member")
  /\ LET row   == members[Key(c)]
         owner == Member("owner", TRUE)
     IN  IF row = None THEN Goto(c, "insert member")
         ELSE IF row = owner THEN End(c) ELSE Hold(c, "load member", owner)
  /\ Reads

Bootstrap(c) ==
  /\ Is(c, "bootstrap")
  /\ \/ FindOrInsertTenant(c)
     \/ FindUser(c, "insert user", GivenPassword(c, "password", "member"))
     \/ InsertUser(c, "member") \/ SetPassword(c, "member")
     \/ FindOwner(c) \/ InsertMember(c, "end") \/ SaveMember(c, "end")

(* A query rejects, or the process stops; what was written stays. *)
Fails(c) ==
  /\ call[c] # Idle
  /\ failures < MaxFailures /\ failures' = failures + 1
  /\ End(c)
  /\ UNCHANGED <<tables, begun>>

Step(c) ==
  \/ AddTenantUser(c) \/ AddClientUser(c) \/ UpdateTenantUser(c) \/ UpdateClientUser(c)
  \/ CreateTenantInvitation(c) \/ CreateClientInvitation(c) \/ AcceptInvitation(c)
  \/ RequestPasswordReset(c) \/ ResetPassword(c) \/ SignInWithGoogle(c)
  \/ UpdateUser(c) \/ Bootstrap(c)

Next ==
  \/ CreateTenant \/ CreateClient \/ UpdateTenant \/ Expire
  \/ \E c \in Calls : Begin(c) \/ Step(c) \/ Fails(c)

Spec == Init /\ [][Next]_vars

-----------------------------------------------------------------------------
TypeOK ==
  /\ primary \subseteq scopes \cap Tenants
  /\ users \in [Emails -> Maybe(UserRows)]
  /\ members \in [Scopes \X Emails -> Maybe(MemberRows)]
  /\ \A s \in Scopes, e \in Emails : members[<<s, e>>] # None =>
       s \in scopes /\ members[<<s, e>>].role \in Roles(s)
  /\ tokens \in [Tokens -> Maybe(TokenRows)]
  /\ \A k \in Tokens : IsKind(k, "invitation") => tokens[k].role \in Roles(tokens[k].scope)
  /\ \A c \in Calls : call[c] # Idle => call[c].op \in Ops

(* Users and scopes never get mixed up, whatever overlaps or fails: every  *)
(* membership belongs to a user of the scope's type, although the type is  *)
(* checked on a row read several queries before the membership is written. *)
MembersFit ==
  \A s \in Scopes, e \in Emails :
    members[<<s, e>>] # None => users[e] # None /\ users[e].type = Type(s)

(* README.md:30: accepting an invitation creates the password and makes the*)
(* user a member.  An invitation marked as accepted has done both, however *)
(* often it was tried and wherever it stopped.  That the membership is     *)
(* still active is not said: whoever manages the users may have ended it.  *)
AcceptedIsMember ==
  \A k \in Tokens : IsKind(k, "invitation") /\ tokens[k].status = "used" =>
    /\ members[<<tokens[k].scope, tokens[k].email>>] # None
    /\ users[tokens[k].email].password # None

(* No overlap of calls ever takes a password away: what updateUser saves   *)
(* of the user it had read leaves out the password set meanwhile.          *)
PasswordsSurvive ==
  [][\A e \in Emails : (users[e] # None /\ users[e].password # None) => users'[e].password # None]_vars

-----------------------------------------------------------------------------
(* What each handler promises, as one step from the tables b.              *)

Fits(b, a)   == b.users[a.email] = None \/ b.users[a.email].type = Type(a.scope)
Row(b, a)    == b.members[<<a.scope, a.email>>]

WithUser(b, a) ==
  [b EXCEPT !.users[a.email] =
     IF @ = None THEN User(Type(a.scope), a.password)
     ELSE IF a.password = None THEN @ ELSE [@ EXCEPT !.password = a.password]]
WithMember(b, a, role, active) == [b EXCEPT !.members[<<a.scope, a.email>>] = Member(role, active)]
WithToken(b, a, row)           == [b EXCEPT !.tokens[a.token] = row]

PromisedAdd(b, a) ==
  IF ~Fits(b, a) \/ \E s \in Peers(a.scope) : b.members[<<s, a.email>>] # None THEN b
  ELSE WithMember(WithUser(b, a), a, a.role, a.active)

PromisedAccept(b, token, password) ==
  LET row == b.tokens[token]
      a   == [Arg(row.email, row.scope) EXCEPT !.password = password, !.token = token]
  IN  IF row.status # "open" \/ ~Fits(b, a) THEN b
      ELSE WithToken(WithMember(WithUser(b, a), a, row.role, TRUE), a, [row EXCEPT !.status = "used"])

PromisedReset(b, a) ==
  LET row == b.tokens[a.token] IN
  IF row.status # "open" THEN b
  ELSE WithToken([b EXCEPT !.users[row.email].password = a.password], a, [row EXCEPT !.status = "used"])

PromisedBootstrap(b, a, t) ==
  LET at == [a EXCEPT !.scope = t]
      bt == [b EXCEPT !.scopes = @ \cup {t}, !.primary = @ \cup {t}]
  IN  IF ~Fits(bt, at) THEN bt ELSE WithMember(WithUser(bt, at), at, "owner", TRUE)

Promised(op, b, a) ==
  CASE op = "add"    -> {PromisedAdd(b, a)}
    [] op = "accept" -> {PromisedAccept(b, a.token, a.password)}
    [] op = "reset"  -> {PromisedReset(b, a)}
    [] op = "update" ->
         {IF Row(b, a) = None THEN b
          ELSE LET new == Assigned(Row(b, a), a) IN WithMember(b, a, new.role, new.active)}
    [] op = "invite" ->
         {IF Fits(b, a) /\ Row(b, a) = None THEN WithToken(b, a, Invitation(a.scope, a.email, a.role)) ELSE b}
    [] op = "forgot" ->
         {IF b.users[a.email] # None /\ b.users[a.email].active THEN WithToken(b, a, Reset(a.email)) ELSE b}
    [] op = "google" ->
         {IF b.users[a.email] # None /\ b.users[a.email].active /\ b.users[a.email].subject = None
          THEN [b EXCEPT !.users[a.email].subject = a.subject] ELSE b}
    [] op = "patch"  ->
         {IF Row(b, a) # None /\ Row(b, a).active /\ a.active # None
          THEN [b EXCEPT !.users[a.email].active = a.active] ELSE b}
    [] op = "bootstrap" ->
         {PromisedBootstrap(b, a, t) : t \in IF b.primary = {} THEN Tenants \ b.scopes ELSE b.primary}

(* A call that meets no other and no failure does all that it promises or  *)
(* nothing, as if in one step: from any tables, those that calls broken    *)
(* off or overlapping have left included, so that what failed may always   *)
(* be asked for again.                                                     *)
AloneIsAtomic ==
  [][\A c \in Calls : (call[c] # Idle /\ call[c].before # None /\ call'[c] = Idle /\ failures' = failures)
       => Database' \in Promised(call[c].op, call[c].before, call[c].arg)]_vars
=============================================================================
