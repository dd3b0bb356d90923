---------------------------- MODULE AccountsProofs ----------------------------
(***************************************************************************)
(* For any users, tenants, clients, tokens and any number of calls at      *)
(* once: what the account tables never come to hold although no handler    *)
(* runs in a transaction.  The argument is what each handler still knows   *)
(* at each of its queries: whatever others do between two of them, a row   *)
(* that was found stays, a user keeps the type, and no password is lost.   *)
(***************************************************************************)
EXTENDS Accounts, TLAPS

-----------------------------------------------------------------------------
(* The tables.                                                             *)

(* A user fits the scope that a call adds the user to. *)
FitsIn(e, s)   == users[e] # None /\ users[e].type = Type(s)
HasPassword(e) == users[e] # None /\ users[e].password # None

TablesOK ==
  /\ scopes \subseteq Scopes
  /\ primary \subseteq scopes \cap Tenants
  /\ users \in [Emails -> Maybe(UserRows)]
  /\ members \in [Scopes \X Emails -> Maybe(MemberRows)]
  /\ tokens \in [Tokens -> Maybe(TokenRows)]

MemberOK(s, e) ==
  members[<<s, e>>] # None => s \in scopes /\ members[<<s, e>>].role \in Roles(s) /\ FitsIn(e, s)

TokenOK(k) ==
  /\ IsKind(k, "invitation") =>
       /\ tokens[k].scope \in scopes /\ tokens[k].role \in Roles(tokens[k].scope)
       /\ tokens[k].status = "used" =>
            members[<<tokens[k].scope, tokens[k].email>>] # None /\ HasPassword(tokens[k].email)
  /\ IsKind(k, "reset") => users[tokens[k].email] # None

-----------------------------------------------------------------------------
(* The calls.                                                              *)

Args == [email : Maybe(Emails), scope : Maybe(Scopes), role : Maybe(AnyRole), active : Maybe(BOOLEAN),
         password : Maybe(Passwords), subject : Maybe(Subjects), token : Maybe(Tokens)]

Databases == [scopes : SUBSET Scopes, primary : SUBSET Tenants, users : [Emails -> Maybe(UserRows)],
              members : [Scopes \X Emails -> Maybe(MemberRows)], tokens : [Tokens -> Maybe(TokenRows)]]

(* The queries of each handler. *)
Queries(op) ==
  CASE op = "none"   -> {"idle"}
    [] op = "add"    -> {"user", "insert user", "any member", "password", "insert member"}
    [] op = "update" -> {"member", "load member", "save member"}
    [] op = "invite" -> {"user", "insert token", "member"}
    [] op = "accept" -> {"token", "user", "insert user", "password", "member", "insert member",
                         "load member", "save member", "spend"}
    [] op = "forgot" -> {"user", "insert token"}
    [] op = "reset"  -> {"token", "password", "spend"}
    [] op = "google" -> {"user", "subject"}
    [] op = "patch"  -> {"member", "preload", "load user", "save user"}
    [] op = "bootstrap" -> {"tenant", "insert tenant", "user", "insert user", "password", "member",
                            "insert member", "load member", "save member"}

Places == {"idle", "token", "tenant", "insert tenant", "user", "insert user", "any member", "password",
           "member", "insert member", "load member", "save member", "insert token", "spend", "subject",
           "preload", "load user", "save user"}

CallRows == [op : Ops \cup {"none"}, pc : Places, arg : Maybe(Args),
             row : Maybe(UserRows \cup MemberRows), dirty : SUBSET {"role", "active", "subject"},
             before : Maybe(Databases)]

(* What a call has been given or has found out by now. *)
ArgOK(r) ==
  LET a == r.arg IN
  /\ a \in Args
  /\ r.pc # "token" => a.email \in Emails
  /\ r.pc \notin {"token", "tenant", "insert tenant"} /\ r.op \notin {"forgot", "reset", "google"} =>
       /\ a.scope \in scopes
       /\ r.op \in {"add", "invite", "accept", "bootstrap"} => a.role \in Roles(a.scope)
       /\ r.op = "update" => a.role \in Maybe(Roles(a.scope))
       /\ r.op \in {"add", "accept", "bootstrap"} => a.active \in BOOLEAN
       /\ r.op \in {"patch", "bootstrap"} => a.scope \in Tenants
  /\ r.op = "bootstrap" => a.role = "owner" /\ a.active = TRUE
  /\ r.op \in {"accept", "reset"} \/ r.pc = "password" => a.password \in Passwords

(* The token row that accept and reset have read never changes but in its  *)
(* status; the one that invite and forgot will insert is theirs alone.     *)
TokenKept(r) ==
  LET a == r.arg
      k == r.arg.token
  IN  /\ r.op = "accept" => /\ k \in Tokens /\ IsKind(k, "invitation")
                            /\ r.pc # "token" => a.scope = tokens[k].scope /\ a.email = tokens[k].email
      /\ r.op = "reset" => /\ k \in Tokens /\ IsKind(k, "reset")
                           /\ r.pc # "token" => a.email = tokens[k].email
      /\ r.op \in {"invite", "forgot"} => k \in Tokens /\ tokens[k] = None

(* The rows that were found or written are still there: the user the call  *)
(* is about, of the scope's type or of any; the membership; a password.    *)
PastUserCheck(r) ==
  \/ r.pc \in {"any member", "insert member", "load member", "save member"}
  \/ r.op # "reset" /\ r.pc \in {"password", "spend"}
  \/ r.op \in {"accept", "bootstrap"} /\ r.pc = "member"
PastUser(r) ==
  \/ r.pc \in {"preload", "load user", "save user", "subject"}
  \/ r.op = "forgot" /\ r.pc = "insert token"
  \/ r.op = "reset" /\ r.pc \in {"password", "spend"}
PastMember(r)   == r.pc \in {"load member", "save member"} \/ (r.op = "accept" /\ r.pc = "spend")
PastPassword(r) == r.op = "accept" /\ r.pc \in {"member", "insert member", "load member", "save member", "spend"}

Found(r) ==
  /\ PastUserCheck(r) => FitsIn(r.arg.email, r.arg.scope)
  /\ PastUser(r) => users[r.arg.email] # None
  /\ PastMember(r) => members[<<r.arg.scope, r.arg.email>>] # None
  /\ PastPassword(r) => HasPassword(r.arg.email)

(* The row that a call holds, and the columns it will write. *)
HeldOK(r) ==
  /\ r.pc \in {"load member", "save member"} => r.row \in MemberRows /\ r.row.role \in Roles(r.arg.scope)
  /\ r.pc = "save member" => r.dirty \subseteq {"role", "active"}
  /\ r.pc \in {"load user", "save user", "subject"} => r.row \in UserRows
  /\ r.pc = "save user" => r.dirty \subseteq Preloaded

CallOK(r) ==
  /\ r \in CallRows
  /\ r.pc \in Queries(r.op)
  /\ r.op = "none" => r.arg = None /\ r.row = None /\ r.dirty = {} /\ r.before = None
  /\ r.op # "none" => ArgOK(r) /\ TokenKept(r) /\ Found(r) /\ HeldOK(r)

Inserts(r) == r.op \in {"invite", "forgot"}

IInv ==
  /\ TablesOK
  /\ \A s \in Scopes : \A e \in Emails : MemberOK(s, e)
  /\ \A k \in Tokens : TokenOK(k)
  /\ call \in [Calls -> CallRows]
  /\ \A c \in Calls : CallOK(call[c])
  /\ \A c \in Calls : \A d \in Calls :
       c # d /\ Inserts(call[c]) /\ Inserts(call[d]) => call[c].arg.token # call[d].arg.token

-----------------------------------------------------------------------------
(* What every step leaves in place.                                        *)

Grows ==
  /\ scopes \subseteq scopes'
  /\ \A e \in Emails : users[e] # None =>
       /\ users'[e] # None /\ users'[e].type = users[e].type
       /\ users[e].password # None => users'[e].password # None
  /\ \A s \in Scopes : \A e \in Emails : members[<<s, e>>] # None => members'[<<s, e>>] # None
  /\ \A k \in Tokens : tokens[k] # None =>
       /\ tokens'[k] # None /\ tokens'[k].kind = tokens[k].kind
       /\ tokens'[k].scope = tokens[k].scope /\ tokens'[k].email = tokens[k].email

TableInv == TablesOK /\ (\A s \in Scopes : \A e \in Emails : MemberOK(s, e)) /\ (\A k \in Tokens : TokenOK(k))

(* A step of the tables: sound before and after, and growing.              *)
Steady == TableInv' /\ Grows

LEMMA NoChange == IInv /\ UNCHANGED tables => Steady
  BY DEF IInv, tables, Steady, TableInv, Grows, TablesOK, MemberOK, TokenOK, IsKind, FitsIn, HasPassword

(* What a call has found out stays true while others write.                *)
LEMMA CallStays ==
  ASSUME IInv, Steady, NEW r, CallOK(r), Inserts(r) => tokens'[r.arg.token] = None
  PROVE  CallOK(r)'
  <1>1. CASE r.op = "none"
    BY <1>1 DEF CallOK
  <1>2. CASE r.op # "none"
    <2>1. /\ r \in CallRows /\ r.pc \in Queries(r.op)
          /\ ArgOK(r) /\ TokenKept(r) /\ Found(r) /\ HeldOK(r)
      BY <1>2 DEF CallOK
    <2>2. scopes \subseteq Scopes /\ Grows
      BY DEF IInv, TablesOK, Steady
    <2>3. ArgOK(r)'
      BY <2>1, <2>2 DEF ArgOK, Grows
    <2>4. TokenKept(r)'
      BY <2>1, <2>2 DEF TokenKept, Grows, IsKind, Inserts
    <2>5. Found(r)'
      <3> DEFINE e == r.arg.email
                 s == r.arg.scope
      <3>1. r.pc # "token" => e \in Emails
        BY <2>1 DEF ArgOK
      <3>2. r.pc \notin {"token", "tenant", "insert tenant"} /\ r.op \notin {"forgot", "reset", "google"} => s \in Scopes
        BY <2>1, <2>2 DEF ArgOK
      <3>3. FitsIn(e, s) /\ e \in Emails => FitsIn(e, s)'
        BY <2>2 DEF Grows, FitsIn
      <3>4. HasPassword(e) /\ e \in Emails => HasPassword(e)'
        BY <2>2 DEF Grows, HasPassword
      <3>5. e \in Emails /\ users[e] # None => users'[e] # None
        BY <2>2 DEF Grows
      <3>6. e \in Emails /\ s \in Scopes /\ members[<<s, e>>] # None => members'[<<s, e>>] # None
        BY <2>2 DEF Grows
      <3> HIDE DEF e, s
      <3>7. /\ PastMember(r) => PastUserCheck(r)
            /\ PastUserCheck(r) => /\ r.op \notin {"forgot", "reset", "google"}
                                   /\ r.pc \notin {"token", "tenant", "insert tenant"}
            /\ PastUserCheck(r) \/ PastUser(r) \/ PastPassword(r) => r.pc # "token"
        <4>1. r.op \in Ops /\ r.pc \in Queries(r.op)
          BY <1>2, <2>1 DEF CallRows
        <4> QED
          BY <4>1 DEF Ops, Queries, PastUserCheck, PastUser, PastMember, PastPassword
      <3> QED
        BY <2>1, <3>1, <3>2, <3>3, <3>4, <3>5, <3>6, <3>7 DEF Found, e, s
    <2>6. HeldOK(r)'
      BY <2>1 DEF HeldOK
    <2> QED
      BY <1>2, <2>1, <2>3, <2>4, <2>5, <2>6 DEF CallOK
  <1> QED
    BY <1>1, <1>2

(* A call's step, once its own knowledge is settled.                       *)
LEMMA CallStep ==
  ASSUME IInv, Steady, NEW c \in Calls, NEW r, CallOK(r)',
         call' = [call EXCEPT ![c] = r],
         \A k \in Tokens : tokens[k] = None /\ tokens'[k] # None => Inserts(call[c]) /\ k = call[c].arg.token,
         Inserts(r) => Inserts(call[c]) /\ r.arg.token = call[c].arg.token
  PROVE  IInv'
  <1>1. /\ call \in [Calls -> CallRows]
        /\ r \in CallRows
    BY DEF IInv, CallOK
  <1>2. /\ call' \in [Calls -> CallRows] /\ call'[c] = r
        /\ \A d \in Calls \ {c} : call'[d] = call[d]
    BY <1>1
  <1>3. ASSUME NEW d \in Calls, d # c PROVE CallOK(call[d])'
    <2>1. CallOK(call[d])
      BY DEF IInv
    <2>2. PICK q : q = call[d]
      OBVIOUS
    <2>3. Inserts(q) => q.arg.token \in Tokens /\ tokens[q.arg.token] = None
      BY <2>1, <2>2 DEF CallOK, TokenKept, Inserts
    <2>4. Inserts(q) => tokens'[q.arg.token] = None
      BY <1>3, <2>2, <2>3 DEF IInv
    <2>5. CallOK(q)'
      BY <2>1, <2>2, <2>4, CallStays
    <2>6. call'[d] = q
      BY <1>2, <1>3, <2>2
    <2> QED
      BY <2>5, <2>6
  <1>4. CallOK(call[c])'
    BY <1>2
  <1>5. \A a \in Calls : \A b \in Calls :
          a # b /\ Inserts(call'[a]) /\ Inserts(call'[b]) => call'[a].arg.token # call'[b].arg.token
    BY <1>2 DEF IInv
  <1> QED
    BY <1>2, <1>3, <1>4, <1>5 DEF IInv, Steady, TableInv

-----------------------------------------------------------------------------
(* One row written.                                                        *)

LEMMA UserWritten ==
  ASSUME IInv, NEW e \in Emails, NEW row \in UserRows,
         users[e] # None => row.type = users[e].type /\ (users[e].password # None => row.password # None),
         users' = [users EXCEPT ![e] = row],
         UNCHANGED <<scopes, primary, members, tokens>>
  PROVE  Steady /\ users'[e] = row /\ users'[e] # None
  <1>1. TableInv /\ users \in [Emails -> Maybe(UserRows)]
    BY DEF IInv, TableInv, TablesOK
  <1>2. row # None
    BY NullAssumption
  <1>3. users' \in [Emails -> Maybe(UserRows)] /\ users'[e] = row /\ \A f \in Emails : f # e => users'[f] = users[f]
    BY <1>1 DEF Maybe
  <1>4. Grows
    BY <1>2, <1>3 DEF Grows
  <1>5. TablesOK'
    BY <1>1, <1>3 DEF TableInv, TablesOK
  <1>6. \A f \in Emails : users[f] # None => users'[f] # None
    BY <1>4 DEF Grows
  <1>7. \A f \in Emails : HasPassword(f) => HasPassword(f)'
    BY <1>4 DEF Grows, HasPassword
  <1>8. ASSUME NEW s \in Scopes, NEW f \in Emails PROVE MemberOK(s, f)'
    BY <1>1, <1>4 DEF TableInv, MemberOK, FitsIn, Grows
  <1>9. ASSUME NEW k \in Tokens PROVE TokenOK(k)'
    <2>1. TokenOK(k) /\ tokens[k] \in Maybe(TokenRows)
      BY <1>1 DEF TableInv, TablesOK
    <2>2. IsKind(k, "invitation") \/ IsKind(k, "reset") => tokens[k].email \in Emails
      BY <2>1 DEF IsKind, TokenRows, Maybe
    <2> QED
      BY <1>6, <1>7, <2>1, <2>2 DEF TokenOK, IsKind, HasPassword
  <1> QED
    BY <1>2, <1>3, <1>4, <1>5, <1>8, <1>9 DEF Steady, TableInv

LEMMA MemberWritten ==
  ASSUME IInv, NEW s \in scopes, NEW e \in Emails, NEW row \in MemberRows, row.role \in Roles(s), FitsIn(e, s),
         members' = [members EXCEPT ![<<s, e>>] = row],
         UNCHANGED <<scopes, primary, users, tokens>>
  PROVE  Steady /\ members'[<<s, e>>] # None
  <1>1. TableInv /\ members \in [Scopes \X Emails -> Maybe(MemberRows)] /\ s \in Scopes
    BY DEF IInv, TableInv, TablesOK
  <1>2. row # None
    BY NullAssumption
  <1>3. /\ members' \in [Scopes \X Emails -> Maybe(MemberRows)]
        /\ members'[<<s, e>>] = row
        /\ \A p \in Scopes : \A f \in Emails : p # s \/ f # e => members'[<<p, f>>] = members[<<p, f>>]
    BY <1>1 DEF Maybe
  <1>4. Grows
    BY <1>2, <1>3 DEF Grows
  <1>5. TablesOK'
    BY <1>1, <1>3 DEF TableInv, TablesOK
  <1>6. ASSUME NEW p \in Scopes, NEW f \in Emails PROVE MemberOK(p, f)'
    <2>1. CASE p = s /\ f = e
      BY <1>3, <2>1 DEF MemberOK, FitsIn
    <2>2. CASE p # s \/ f # e
      BY <1>1, <1>3, <2>2 DEF TableInv, MemberOK, FitsIn
    <2> QED
      BY <2>1, <2>2
  <1>7. ASSUME NEW k \in Tokens PROVE TokenOK(k)'
    <2>1. TokenOK(k) /\ tokens[k] \in Maybe(TokenRows) /\ scopes \subseteq Scopes
      BY <1>1 DEF TableInv, TablesOK
    <2>2. IsKind(k, "invitation") => tokens[k].email \in Emails /\ tokens[k].scope \in Scopes
      BY <2>1 DEF IsKind, TokenRows, Maybe, TokenOK
    <2> QED
      BY <1>4, <2>1, <2>2 DEF TokenOK, IsKind, HasPassword, Grows
  <1> QED
    BY <1>2, <1>3, <1>4, <1>5, <1>6, <1>7 DEF Steady, TableInv

LEMMA TokenWritten ==
  ASSUME IInv, NEW k \in Tokens, NEW row \in TokenRows,
         tokens[k] # None => /\ row.kind = tokens[k].kind /\ row.scope = tokens[k].scope
                             /\ row.email = tokens[k].email,
         row.kind = "reset" => users[row.email] # None,
         row.kind = "invitation" =>
           /\ row.scope \in scopes /\ row.role \in Roles(row.scope)
           /\ row.status = "used" => members[<<row.scope, row.email>>] # None /\ HasPassword(row.email),
         tokens' = [tokens EXCEPT ![k] = row],
         UNCHANGED <<scopes, primary, users, members>>
  PROVE  Steady /\ \A j \in Tokens : j # k => tokens'[j] = tokens[j]
  <1>1. TableInv /\ tokens \in [Tokens -> Maybe(TokenRows)]
    BY DEF IInv, TableInv, TablesOK
  <1>2. row # None
    BY NullAssumption
  <1>3. /\ tokens' \in [Tokens -> Maybe(TokenRows)]
        /\ tokens'[k] = row
        /\ \A j \in Tokens : j # k => tokens'[j] = tokens[j]
    BY <1>1 DEF Maybe
  <1>4. Grows
    BY <1>2, <1>3 DEF Grows
  <1>5. TablesOK'
    BY <1>1, <1>3 DEF TableInv, TablesOK
  <1>6. ASSUME NEW p \in Scopes, NEW f \in Emails PROVE MemberOK(p, f)'
    BY <1>1 DEF TableInv, MemberOK, FitsIn
  <1>7. ASSUME NEW j \in Tokens PROVE TokenOK(j)'
    <2>1. CASE j = k
      BY <1>3, <2>1 DEF TokenOK, IsKind, HasPassword
    <2>2. CASE j # k
      BY <1>1, <1>3, <2>2 DEF TableInv, TokenOK, IsKind, HasPassword
    <2> QED
      BY <2>1, <2>2
  <1> QED
    BY <1>3, <1>4, <1>5, <1>6, <1>7 DEF Steady, TableInv

LEMMA ScopesWritten ==
  ASSUME IInv, scopes \subseteq scopes', scopes' \subseteq Scopes, primary' \subseteq scopes' \cap Tenants,
         UNCHANGED <<users, members, tokens>>
  PROVE  Steady
  <1>1. TableInv
    BY DEF IInv, TableInv
  <1>2. Grows
    BY DEF Grows
  <1>3. TablesOK'
    BY <1>1 DEF TableInv, TablesOK
  <1>4. ASSUME NEW p \in Scopes, NEW f \in Emails PROVE MemberOK(p, f)'
    BY <1>1 DEF TableInv, MemberOK, FitsIn
  <1>5. ASSUME NEW j \in Tokens PROVE TokenOK(j)'
    BY <1>1 DEF TableInv, TokenOK, IsKind, HasPassword
  <1> QED
    BY <1>2, <1>3, <1>4, <1>5 DEF Steady, TableInv

-----------------------------------------------------------------------------
(* What happens to the calls.                                              *)

LEMMA IdleOK == Idle \in CallRows /\ CallOK(Idle) /\ CallOK(Idle)' /\ ~Inserts(Idle)
  <1>1. Idle \in CallRows
    <2>1. /\ "none" \in Ops \cup {"none"} /\ "idle" \in Places
          /\ {} \in SUBSET {"role", "active", "subject"} /\ \A S : None \in Maybe(S)
      BY DEF Maybe, Places
    <2> QED
      BY <2>1 DEF Idle, Handler, CallRows
  <1> QED
    BY <1>1 DEF Idle, Handler, CallOK, Queries, Inserts

LEMMA DisturbedOK ==
  ASSUME NEW r, CallOK(r)
  PROVE  /\ CallOK([r EXCEPT !.before = None])
         /\ [r EXCEPT !.before = None] \in CallRows
         /\ \A f \in {"op", "arg"} : [r EXCEPT !.before = None][f] = r[f]
  <1> DEFINE q == [r EXCEPT !.before = None]
  <1>1. r \in CallRows
    BY DEF CallOK
  <1>2. /\ q \in CallRows /\ q.before = None
        /\ q.op = r.op /\ q.pc = r.pc /\ q.arg = r.arg /\ q.row = r.row /\ q.dirty = r.dirty
    BY <1>1 DEF CallRows, Maybe
  <1> HIDE DEF q
  <1>3. ArgOK(r) => ArgOK(q)
    BY <1>2 DEF ArgOK
  <1>4. TokenKept(r) => TokenKept(q)
    BY <1>2 DEF TokenKept
  <1>5. Found(r) => Found(q)
    BY <1>2 DEF Found, PastUserCheck, PastUser, PastMember, PastPassword
  <1>6. HeldOK(r) => HeldOK(q)
    BY <1>2 DEF HeldOK
  <1>7. CallOK(q)
    BY <1>2, <1>3, <1>4, <1>5, <1>6 DEF CallOK
  <1> QED
    BY <1>2, <1>7 DEF q

(* Nobody's knowledge is touched by a step of which no call is the author. *)
LEMMA DisturbedKeeps ==
  ASSUME IInv, Steady, call' = Disturbed, \A k \in Tokens : tokens[k] = None => tokens'[k] = None
  PROVE  IInv'
  <1>1. ASSUME NEW c \in Calls
        PROVE  /\ call'[c] \in CallRows /\ CallOK(call[c])'
               /\ call'[c].op = call[c].op /\ call'[c].arg = call[c].arg
    <2>1. PICK q : q = [call[c] EXCEPT !.before = None]
      OBVIOUS
    <2>2. CallOK(q) /\ q \in CallRows /\ q.op = call[c].op /\ q.arg = call[c].arg
      BY <2>1, DisturbedOK DEF IInv
    <2>3. Inserts(q) => tokens'[q.arg.token] = None
      BY <2>2 DEF CallOK, TokenKept, Inserts
    <2>4. CallOK(q)'
      BY <2>2, <2>3, CallStays
    <2>5. call'[c] = q
      BY <2>1 DEF Disturbed
    <2> QED
      BY <2>2, <2>4, <2>5
  <1>2. call' \in [Calls -> CallRows]
    BY <1>1 DEF Disturbed
  <1>3. \A a \in Calls : \A b \in Calls :
          a # b /\ Inserts(call'[a]) /\ Inserts(call'[b]) => call'[a].arg.token # call'[b].arg.token
    BY <1>1 DEF IInv, Inserts
  <1> QED
    BY <1>1, <1>2, <1>3 DEF IInv, Steady, TableInv

LEMMA EnvironmentKeeps ==
  ASSUME IInv, CreateTenant \/ CreateClient \/ UpdateTenant \/ Expire
  PROVE  IInv' /\ Grows
  <1>1. scopes \subseteq Scopes /\ primary \subseteq scopes \cap Tenants /\ tokens \in [Tokens -> Maybe(TokenRows)]
    BY DEF IInv, TablesOK
  <1>2. CASE CreateTenant \/ CreateClient \/ UpdateTenant
    <2>1. /\ scopes \subseteq scopes' /\ scopes' \subseteq Scopes /\ primary' \subseteq scopes' \cap Tenants
          /\ UNCHANGED <<users, members, tokens>> /\ call' = Disturbed
      BY <1>1, <1>2 DEF CreateTenant, CreateClient, UpdateTenant, OneStep, Scopes
    <2>2. Steady
      BY <2>1, ScopesWritten
    <2> QED
      BY <2>1, <2>2, DisturbedKeeps DEF Steady
  <1>3. CASE Expire
    <2>1. PICK k \in Tokens : /\ tokens[k] # None /\ tokens[k].status = "open"
                              /\ tokens' = [tokens EXCEPT ![k].status = "expired"]
      BY <1>3 DEF Expire
    <2> DEFINE row == [tokens[k] EXCEPT !.status = "expired"]
    <2>2. tokens[k] \in TokenRows /\ TokenOK(k)
      BY <1>1, <2>1 DEF Maybe, IInv
    <2>3. /\ row \in TokenRows /\ row.kind = tokens[k].kind /\ row.scope = tokens[k].scope
          /\ row.email = tokens[k].email /\ row.role = tokens[k].role /\ row.status = "expired"
          /\ tokens' = [tokens EXCEPT ![k] = row]
      BY <2>1, <2>2 DEF TokenRows
    <2> HIDE DEF row
    <2>4. /\ UNCHANGED <<scopes, primary, users, members>> /\ call' = Disturbed
      BY <1>3 DEF Expire
    <2>5. /\ row.kind = "reset" => users[row.email] # None
          /\ row.kind = "invitation" => row.scope \in scopes /\ row.role \in Roles(row.scope)
      BY <2>1, <2>2, <2>3 DEF TokenOK, IsKind
    <2>6. Steady /\ \A j \in Tokens : j # k => tokens'[j] = tokens[j]
      BY <2>3, <2>4, <2>5, TokenWritten
    <2> QED
      BY <2>1, <2>4, <2>6, DisturbedKeeps DEF Steady
  <1> QED
    BY <1>2, <1>3

(* A call that ends, and one that goes on: past its first look-up, what it *)
(* was given stays as it is, and only Found and HeldOK are to be shown.    *)
Free  == \A k \in Tokens : tokens[k] = None => tokens'[k] = None
Early == {"token", "tenant", "insert tenant"}

LEMMA EndKeeps ==
  ASSUME IInv, Steady, Free, NEW c \in Calls, End(c)
  PROVE  IInv'
  <1>1. call' = [call EXCEPT ![c] = Idle]
    BY DEF End
  <1> QED
    BY <1>1, IdleOK, CallStep DEF Free

LEMMA StepKeeps ==
  ASSUME IInv, Steady, Free, NEW c \in Calls, NEW r \in CallRows,
         call[c].op # "none", call[c].pc \notin Early,
         r.op = call[c].op, r.arg = call[c].arg, r.pc \in Queries(r.op), r.pc \notin Early,
         r.pc = "password" => r.arg.password \in Passwords,
         Found(r)', HeldOK(r)',
         call' = [call EXCEPT ![c] = r]
  PROVE  IInv'
  <1>1. PICK q : q = call[c]
    OBVIOUS
  <1>2. CallOK(q) /\ q.op = r.op /\ q.arg = r.arg /\ q.op # "none" /\ q.pc \notin Early
    BY <1>1 DEF IInv
  <1>3. Inserts(q) => tokens'[q.arg.token] = None
    BY <1>2 DEF CallOK, TokenKept, Inserts, Free
  <1>4. CallOK(q)'
    BY <1>2, <1>3, CallStays
  <1>5. ArgOK(q)' /\ TokenKept(q)'
    BY <1>2, <1>4 DEF CallOK
  <1>6. ArgOK(r)'
    BY <1>2, <1>5 DEF ArgOK, Early
  <1>7. TokenKept(r)'
    BY <1>2, <1>5 DEF TokenKept, Early
  <1>8. CallOK(r)'
    BY <1>2, <1>6, <1>7 DEF CallOK
  <1> QED
    BY <1>8, CallStep DEF Free, Inserts

(* The records that the queries leave behind in a call.                    *)
LEMMA Moved ==
  ASSUME IInv, NEW c \in Calls, NEW pc \in Places,
         call' = [call EXCEPT ![c].pc = pc]
  PROVE  \E r \in CallRows : /\ call' = [call EXCEPT ![c] = r]
                             /\ r.pc = pc /\ r.op = call[c].op /\ r.arg = call[c].arg
                             /\ r.row = call[c].row /\ r.dirty = call[c].dirty
  <1>1. call \in [Calls -> CallRows] /\ call[c] \in CallRows
    BY DEF IInv
  <1> DEFINE r == [call[c] EXCEPT !.pc = pc]
  <1>2. /\ r \in CallRows /\ r.pc = pc /\ r.op = call[c].op /\ r.arg = call[c].arg
        /\ r.row = call[c].row /\ r.dirty = call[c].dirty
    BY <1>1 DEF CallRows
  <1> QED
    BY <1>1, <1>2

-----------------------------------------------------------------------------
(* A call begins.                                                          *)

LEMMA AskedParts ==
  ASSUME scopes \subseteq Scopes, NEW op \in Ops, NEW arg \in Asked(op)
  PROVE  /\ arg \in Args
         /\ op \notin {"accept", "reset"} => arg.email \in Emails
         /\ op \in {"add", "update", "invite", "patch"} => arg.scope \in scopes
         /\ op \in {"add", "invite"} => arg.role \in Roles(arg.scope)
         /\ op = "update" => arg.role \in Maybe(Roles(arg.scope))
         /\ op = "add" => arg.active \in BOOLEAN
         /\ op = "patch" => arg.scope \in Tenants
         /\ op = "bootstrap" => arg.role = "owner" /\ arg.active = TRUE
         /\ op \in {"accept", "reset"} => arg.password \in Passwords
         /\ op \in {"accept", "reset", "invite", "forgot"} => arg.token \in Tokens
  <1> DEFINE N == {None}
  <1>1. /\ \A s \in scopes : Roles(s) \subseteq AnyRole
        /\ "owner" \in AnyRole
        /\ \A S : \A x \in S : x \in Maybe(S)
        /\ \A S : None \in Maybe(S)
    BY AccountAssumption DEF Roles, AnyRole, Maybe
  <1>2. CASE op = "add"
    <2>1. arg \in UNION {Sent(Emails, {s}, Roles(s), BOOLEAN, Maybe(Passwords), N, N) : s \in scopes}
      BY <1>2 DEF Asked
    <2>2. PICK s \in scopes : arg \in Sent(Emails, {s}, Roles(s), BOOLEAN, Maybe(Passwords), N, N)
      BY <2>1
    <2> QED
      BY <1>1, <1>2, <2>2 DEF Args, Sent
  <1>3. CASE op = "update"
    <2>1. arg \in UNION {Sent(Emails, {s}, Maybe(Roles(s)), Maybe(BOOLEAN), N, N, N) : s \in scopes}
      BY <1>3 DEF Asked
    <2>2. PICK s \in scopes : arg \in Sent(Emails, {s}, Maybe(Roles(s)), Maybe(BOOLEAN), N, N, N)
      BY <2>1
    <2>3. Maybe(Roles(s)) \subseteq Maybe(AnyRole)
      BY <1>1 DEF Maybe
    <2> QED
      BY <1>1, <1>3, <2>2, <2>3 DEF Args, Sent
  <1>4. CASE op = "invite"
    <2>1. arg \in UNION {Sent(Emails, {s}, Roles(s), N, N, N, Tokens) : s \in scopes}
      BY <1>4 DEF Asked
    <2>2. PICK s \in scopes : arg \in Sent(Emails, {s}, Roles(s), N, N, N, Tokens)
      BY <2>1
    <2> QED
      BY <1>1, <1>4, <2>2 DEF Args, Sent
  <1>5. CASE op = "forgot"
    BY <1>1, <1>5 DEF Args, Asked, Sent
  <1>6. CASE op \in {"accept", "reset"}
    BY <1>1, <1>6 DEF Args, Asked, Sent
  <1>7. CASE op = "google"
    BY <1>1, <1>7 DEF Args, Asked, Sent
  <1>8. CASE op = "patch"
    BY <1>1, <1>8 DEF Args, Asked, Sent
  <1>9. CASE op = "bootstrap"
    BY <1>1, <1>9 DEF Args, Asked, Sent
  <1> QED
    BY <1>2, <1>3, <1>4, <1>5, <1>6, <1>7, <1>8, <1>9 DEF Ops

LEMMA BeginKeeps ==
  ASSUME IInv, NEW c \in Calls, Begin(c)
  PROVE  IInv' /\ Grows
  <1>1. Steady /\ UNCHANGED tables
    BY NoChange DEF Begin
  <1>2. PICK op \in Ops : \E arg \in Asked(op) :
          /\ op \in {"invite", "forgot"} => tokens[arg.token] = None /\ arg.token \notin Reserved
          /\ op = "accept" => IsKind(arg.token, "invitation")
          /\ op = "reset" => IsKind(arg.token, "reset")
          /\ call' = [Disturbed EXCEPT ![c] = Handler(op, First(op), arg, IF AllIdle THEN Database ELSE None)]
    BY DEF Begin
  <1>3. PICK arg \in Asked(op) :
          /\ op \in {"invite", "forgot"} => tokens[arg.token] = None /\ arg.token \notin Reserved
          /\ op = "accept" => IsKind(arg.token, "invitation")
          /\ op = "reset" => IsKind(arg.token, "reset")
          /\ call' = [Disturbed EXCEPT ![c] = Handler(op, First(op), arg, IF AllIdle THEN Database ELSE None)]
    BY <1>2
  <1> DEFINE before == IF AllIdle THEN Database ELSE None
             r == [op |-> op, pc |-> First(op), arg |-> arg, row |-> None, dirty |-> {}, before |-> before]
  <1>4. scopes \subseteq Scopes /\ TablesOK
    BY DEF IInv, TablesOK
  <1>5. before \in Maybe(Databases)
    <2>1. Database \in Databases
      BY <1>4 DEF TablesOK, Database, Databases
    <2> QED
      BY <2>1 DEF Maybe
  <1> HIDE DEF before
  <1>6. call' = [Disturbed EXCEPT ![c] = r]
    BY <1>3 DEF before, Handler
  <1>7. First(op) \in Queries(op) /\ First(op) \in Places /\ op # "none"
    BY DEF First, Queries, Places, Ops
  <1>8. r \in CallRows
    BY <1>4, <1>5, <1>7, AskedParts DEF CallRows, Maybe
  <1>9. CallOK(r)
    <2>1. r.op = op /\ r.pc = First(op) /\ r.arg = arg
      OBVIOUS
    <2> HIDE DEF r
    <2>2. ArgOK(r)
      BY <1>4, <2>1, AskedParts DEF ArgOK, First, Ops
    <2>3. TokenKept(r)
      BY <1>3, <1>4, <2>1, AskedParts DEF TokenKept, First, Ops
    <2>4. Found(r)
      BY <2>1 DEF Found, PastUserCheck, PastUser, PastMember, PastPassword, First, Ops
    <2>5. HeldOK(r)
      BY <2>1 DEF HeldOK, First, Ops
    <2> QED
      BY <1>7, <1>8, <2>1, <2>2, <2>3, <2>4, <2>5 DEF CallOK
  <1>10. Inserts(r) <=> op \in {"invite", "forgot"}
    BY DEF Inserts
  <1> HIDE DEF r
  <1>11. ASSUME NEW d \in Calls
         PROVE  call'[d] \in CallRows /\ CallOK(call[d])'
    <2>1. PICK q : q = IF d = c THEN r ELSE [call[d] EXCEPT !.before = None]
      OBVIOUS
    <2>2. CallOK(q) /\ q \in CallRows
      BY <1>8, <1>9, <2>1, DisturbedOK DEF IInv
    <2>3. Inserts(q) => tokens'[q.arg.token] = None
      BY <1>1, <2>2 DEF CallOK, TokenKept, Inserts, tables
    <2>4. CallOK(q)'
      BY <1>1, <2>2, <2>3, CallStays
    <2>5. call'[d] = q
      BY <1>6, <2>1 DEF Disturbed
    <2> QED
      BY <2>2, <2>4, <2>5
  <1>12. call' \in [Calls -> CallRows]
    BY <1>6, <1>11 DEF Disturbed
  <1>13. ASSUME NEW a \in Calls, NEW b \in Calls, a # b, Inserts(call'[a]), Inserts(call'[b])
         PROVE  call'[a].arg.token # call'[b].arg.token
    <2>1. \A d \in Calls : d # c => call'[d].op = call[d].op /\ call'[d].arg = call[d].arg
      BY <1>6, DisturbedOK DEF Disturbed, IInv
    <2>2. call'[c] = r /\ r.op = op /\ r.arg = arg
      BY <1>6 DEF Disturbed, r
    <2>3. \A d \in Calls : d # c /\ Inserts(call'[d]) /\ Inserts(r) => call'[d].arg.token # arg.token
      BY <1>3, <2>1, <2>2 DEF Inserts, Reserved
    <2> QED
      BY <1>13, <2>1, <2>2, <2>3 DEF IInv, Inserts
  <1> QED
    BY <1>1, <1>11, <1>12, <1>13 DEF IInv, Steady, TableInv

-----------------------------------------------------------------------------
(* The queries.                                                            *)

LEMMA AtCall ==
  ASSUME IInv, NEW c \in Calls, call[c].op # "none"
  PROVE  /\ call[c] \in CallRows /\ call[c].op \in Ops /\ call[c].pc \in Queries(call[c].op)
         /\ ArgOK(call[c]) /\ TokenKept(call[c]) /\ Found(call[c]) /\ HeldOK(call[c])
  <1>1. CallOK(call[c])
    BY DEF IInv
  <1> QED
    BY <1>1 DEF CallOK, CallRows

LEMMA ReadsOnly == ASSUME IInv, Reads PROVE Steady /\ Free /\ Grows
  BY NoChange DEF Reads, tables, Free, Steady

(* The places of a handler that has to hold a row. *)
Holding == {"load member", "save member", "load user", "save user", "subject"}

LEMMA GoKeeps ==
  ASSUME IInv, Steady, Free, NEW c \in Calls, NEW pc, Goto(c, pc),
         call[c].op # "none", call[c].pc \notin Early,
         pc # "end" => /\ pc \in Queries(call[c].op) /\ pc \notin Early \cup Holding
                       /\ pc = "password" => call[c].arg.password \in Passwords
                       /\ \A r \in CallRows : r.pc = pc /\ r.op = call[c].op /\ r.arg = call[c].arg => Found(r)'
  PROVE  IInv'
  <1>1. CASE pc = "end"
    BY <1>1, EndKeeps DEF Goto
  <1>2. CASE pc # "end"
    <2>1. call[c].op \in Ops
      BY AtCall
    <2>2. pc \in Places
      BY <1>2, <2>1 DEF Queries, Ops, Places
    <2>3. call' = [call EXCEPT ![c].pc = pc]
      BY <1>2 DEF Goto
    <2>4. PICK r \in CallRows : /\ call' = [call EXCEPT ![c] = r]
                                /\ r.pc = pc /\ r.op = call[c].op /\ r.arg = call[c].arg
                                /\ r.row = call[c].row /\ r.dirty = call[c].dirty
      BY <2>2, <2>3, Moved
    <2>5. HeldOK(r)'
      BY <1>2, <2>4 DEF HeldOK, Holding
    <2>6. Found(r)'
      BY <1>2, <2>4
    <2> QED
      BY <1>2, <2>4, <2>5, <2>6, StepKeeps
  <1> QED
    BY <1>1, <1>2

LEMMA HoldKeeps ==
  ASSUME IInv, Steady, Free, NEW c \in Calls, NEW pc, NEW row, Hold(c, pc, row),
         call[c].op # "none", call[c].pc \notin Early,
         pc \in Queries(call[c].op), pc \notin Early, pc # "password",
         row \in UserRows \cup MemberRows,
         \A r \in CallRows : r.pc = pc /\ r.op = call[c].op /\ r.arg = call[c].arg /\ r.row = row =>
           Found(r)' /\ HeldOK(r)'
  PROVE  IInv'
  <1>1. call \in [Calls -> CallRows] /\ call[c] \in CallRows /\ call[c].op \in Ops
    BY AtCall DEF IInv
  <1>2. pc \in Places
    BY <1>1 DEF Queries, Ops, Places
  <1> PICK r : r = [[call[c] EXCEPT !.pc = pc] EXCEPT !.row = row]
    OBVIOUS
  <1>3. r \in CallRows /\ r.pc = pc /\ r.op = call[c].op /\ r.arg = call[c].arg /\ r.row = row
    BY <1>1, <1>2 DEF CallRows, Maybe
  <1>4. call' = [call EXCEPT ![c] = r]
    BY <1>1 DEF Hold
  <1>5. Found(r)' /\ HeldOK(r)'
    BY <1>3
  <1> QED
    BY <1>3, <1>4, <1>5, StepKeeps

LEMMA FindUserKeeps ==
  ASSUME IInv, NEW c \in Calls, NEW absent, NEW found, FindUser(c, absent, found),
         call[c].op \in {"add", "invite", "accept", "bootstrap"},
         absent \in Queries(call[c].op) \cap {"insert user", "insert token"},
         found \in Queries(call[c].op) \cap {"any member", "member", "password"},
         call[c].op = "accept" => found = "password",
         found = "password" => call[c].arg.password \in Passwords
  PROVE  IInv' /\ Grows
  <1> DEFINE user == users[Email(c)]
  <1>1. /\ ArgOK(call[c]) /\ call[c].pc = "user" /\ call[c].op # "none"
        /\ Steady /\ Free /\ Grows
    BY AtCall, ReadsOnly DEF FindUser, At
  <1>2. CASE user = None
    <2>1. Goto(c, absent)
      BY <1>2 DEF FindUser
    <2>2. ASSUME NEW r \in CallRows, r.pc = absent, r.op = call[c].op PROVE Found(r)'
      BY <2>2 DEF Found, PastUserCheck, PastUser, PastMember, PastPassword
    <2> QED
      BY <1>1, <2>1, <2>2, GoKeeps DEF Early, Holding
  <1>3. CASE user # None /\ Mismatch(c, user)
    BY <1>1, <1>3, EndKeeps DEF FindUser
  <1>4. CASE user # None /\ ~Mismatch(c, user)
    <2>1. Goto(c, found)
      BY <1>4 DEF FindUser
    <2>2. users'[call[c].arg.email] # None /\ users'[call[c].arg.email].type = Type(call[c].arg.scope)
      BY <1>4 DEF FindUser, Reads, tables, Mismatch, Email, Scope
    <2>3. ASSUME NEW r \in CallRows, r.pc = found, r.op = call[c].op, r.arg = call[c].arg PROVE Found(r)'
      <3>1. FitsIn(r.arg.email, r.arg.scope)'
        BY <2>2, <2>3 DEF FitsIn
      <3> QED
        BY <2>3, <3>1 DEF Found, PastUserCheck, PastUser, PastMember, PastPassword
    <2> QED
      BY <1>1, <2>1, <2>3, GoKeeps DEF Early, Holding
  <1> QED
    BY <1>1, <1>2, <1>3, <1>4

LEMMA FindAnyMemberKeeps ==
  ASSUME IInv, NEW c \in Calls, FindAnyMember(c), call[c].op = "add"
  PROVE  IInv' /\ Grows
  <1>1. /\ call[c] \in CallRows /\ ArgOK(call[c]) /\ Found(call[c]) /\ call[c].pc = "any member" /\ call[c].op # "none"
        /\ Steady /\ Free /\ Grows
    BY AtCall, ReadsOnly DEF FindAnyMember, At
  <1>2. FitsIn(call[c].arg.email, call[c].arg.scope)
    BY <1>1 DEF Found, PastUserCheck
  <1>3. call[c].arg.password \in Maybe(Passwords)
    BY <1>1 DEF ArgOK, Args
  <1> DEFINE pc == IF \E s \in Peers(Scope(c)) : members[<<s, Email(c)>>] # None THEN "end"
                   ELSE GivenPassword(c, "password", "insert member")
  <1>4. /\ Goto(c, pc) /\ pc \in {"end", "password", "insert member"}
        /\ pc = "password" => call[c].arg.password # None
    <2>1. pc \in {"end", "password", "insert member"} /\ (pc = "password" => call[c].arg.password # None)
      BY DEF GivenPassword
    <2>2. Goto(c, pc)
      BY DEF FindAnyMember
    <2> QED
      BY <2>1, <2>2
  <1> HIDE DEF pc
  <1>5. ASSUME NEW r \in CallRows, r.pc = pc, pc # "end", r.op = call[c].op, r.arg = call[c].arg PROVE Found(r)'
    <2>1. FitsIn(r.arg.email, r.arg.scope)'
      BY <1>2, <1>5 DEF FitsIn, FindAnyMember, Reads, tables
    <2> QED
      BY <1>4, <1>5, <2>1 DEF Found, PastUserCheck, PastUser, PastMember, PastPassword
  <1>6. pc # "end" => pc \in Queries(call[c].op)
    BY <1>4 DEF Queries
  <1>7. pc = "password" => call[c].arg.password \in Passwords
    BY <1>3, <1>4 DEF Maybe
  <1> QED
    BY <1>1, <1>4, <1>5, <1>6, <1>7, GoKeeps DEF Early, Holding

LEMMA FindMemberKeeps ==
  ASSUME IInv, NEW c \in Calls, FindMember(c, "insert token", "end"), call[c].op = "invite"
  PROVE  IInv' /\ Grows
  <1>1. /\ call[c].pc = "member" /\ call[c].op # "none" /\ Steady /\ Free /\ Grows
    BY AtCall, ReadsOnly DEF FindMember, At
  <1>2. PICK pc : Goto(c, pc) /\ pc \in {"end", "insert token"}
    BY DEF FindMember
  <1>3. ASSUME NEW r \in CallRows, r.pc = pc, pc # "end", r.op = call[c].op PROVE Found(r)'
    BY <1>2, <1>3 DEF Found, PastUserCheck, PastUser, PastMember, PastPassword
  <1>4. pc # "end" => pc \in Queries(call[c].op)
    BY <1>2 DEF Queries
  <1> QED
    BY <1>1, <1>2, <1>3, <1>4, GoKeeps DEF Early, Holding

LEMMA FindOneInTenantKeeps ==
  ASSUME IInv, NEW c \in Calls, FindOneInTenant(c), call[c].op = "patch"
  PROVE  IInv' /\ Grows
  <1>1. /\ call[c].pc = "member" /\ call[c].op # "none" /\ ArgOK(call[c]) /\ Steady /\ Free /\ Grows
    BY AtCall, ReadsOnly DEF FindOneInTenant, At
  <1>2. call[c].arg.email \in Emails /\ call[c].arg.scope \in Scopes
    BY <1>1 DEF ArgOK, IInv, TablesOK
  <1>3. PICK pc : /\ Goto(c, pc) /\ pc \in {"end", "preload"}
                  /\ pc = "preload" => members[Key(c)] # None
    BY DEF FindOneInTenant
  <1>4. ASSUME NEW r \in CallRows, r.pc = pc, pc # "end", r.op = call[c].op, r.arg = call[c].arg PROVE Found(r)'
    <2>1. FitsIn(call[c].arg.email, call[c].arg.scope)
      BY <1>2, <1>3, <1>4 DEF IInv, MemberOK, Key, Scope, Email
    <2>2. users'[r.arg.email] # None
      BY <1>4, <2>1 DEF FitsIn, FindOneInTenant, Reads, tables
    <2> QED
      BY <1>3, <1>4, <2>2 DEF Found, PastUserCheck, PastUser, PastMember, PastPassword
  <1>5. pc # "end" => pc \in Queries(call[c].op)
    BY <1>3 DEF Queries
  <1> QED
    BY <1>1, <1>3, <1>4, <1>5, GoKeeps DEF Early, Holding

LEMMA InsertUserKeeps ==
  ASSUME IInv, NEW c \in Calls, NEW next, InsertUser(c, next),
         \/ call[c].op = "add" /\ next = "insert member"
         \/ call[c].op \in {"accept", "bootstrap"} /\ next = "member"
  PROVE  IInv' /\ Grows
  <1> DEFINE a == call[c].arg
  <1>1. /\ ArgOK(call[c]) /\ call[c].pc = "insert user" /\ call[c].op # "none"
    BY AtCall DEF InsertUser, At
  <1>2. /\ a.email \in Emails /\ a.password \in Maybe(Passwords)
        /\ call[c].op = "accept" => a.password \in Passwords
    BY <1>1 DEF ArgOK, Args
  <1>3. CASE users[a.email] # None
    <2>1. End(c) /\ UNCHANGED tables
      BY <1>3 DEF InsertUser, Email, WritesUsers, tables
    <2>2. Steady /\ Free /\ Grows
      BY <2>1, NoChange DEF tables, Free, Steady
    <2> QED
      BY <2>1, <2>2, EndKeeps
  <1>4. CASE users[a.email] = None
    <2> DEFINE row == User(Type(a.scope), a.password)
    <2>1. row \in UserRows /\ row.type = Type(a.scope) /\ row.password = a.password
      BY <1>2 DEF User, UserRows, Type, Maybe
    <2>2. users' = [users EXCEPT ![a.email] = row] /\ Goto(c, next)
      BY <1>4 DEF InsertUser, Email, Scope
    <2> HIDE DEF row
    <2>3. UNCHANGED <<scopes, primary, members, tokens>>
      BY DEF InsertUser, WritesUsers
    <2>4. Steady /\ Grows /\ users'[a.email] = row /\ users'[a.email] # None
      BY <1>2, <1>4, <2>1, <2>2, <2>3, UserWritten DEF Steady
    <2>5. call[c].op = "accept" => row.password # None
      BY <1>2, <2>1, NullAssumption
    <2>6. ASSUME NEW r \in CallRows, r.pc = next, r.op = call[c].op, r.arg = call[c].arg PROVE Found(r)'
      <3>1. FitsIn(r.arg.email, r.arg.scope)' /\ (r.op = "accept" => HasPassword(r.arg.email)')
        BY <2>1, <2>4, <2>5, <2>6 DEF FitsIn, HasPassword
      <3> QED
        BY <2>6, <3>1 DEF Found, PastUserCheck, PastUser, PastMember, PastPassword
    <2>7. next \in Queries(call[c].op) /\ Free
      BY <2>3 DEF Queries, Free
    <2> QED
      BY <1>1, <2>2, <2>4, <2>6, <2>7, GoKeeps DEF Early, Holding
  <1> QED
    BY <1>3, <1>4

LEMMA SetPasswordKeeps ==
  ASSUME IInv, NEW c \in Calls, NEW next, SetPassword(c, next),
         \/ call[c].op = "add" /\ next = "insert member"
         \/ call[c].op \in {"accept", "bootstrap"} /\ next = "member"
         \/ call[c].op = "reset" /\ next = "spend"
  PROVE  IInv' /\ Grows
  <1> DEFINE a == call[c].arg
             row == [users[a.email] EXCEPT !.password = a.password]
  <1>1. ArgOK(call[c]) /\ Found(call[c]) /\ call[c].pc = "password" /\ call[c].op # "none"
    BY AtCall DEF SetPassword, At
  <1>2. a.email \in Emails /\ a.password \in Passwords /\ a.password # None
    BY <1>1, NullAssumption DEF ArgOK
  <1>3. users[a.email] # None /\ (call[c].op # "reset" => FitsIn(a.email, a.scope))
    BY <1>1 DEF Found, PastUserCheck, PastUser, FitsIn
  <1>4. users[a.email] \in UserRows
    BY <1>2, <1>3 DEF IInv, TablesOK, Maybe
  <1>5. row \in UserRows /\ row.type = users[a.email].type /\ row.password = a.password
    BY <1>2, <1>4 DEF UserRows, Maybe
  <1>6. /\ users' = [users EXCEPT ![a.email] = row] /\ Goto(c, next)
        /\ UNCHANGED <<scopes, primary, members, tokens>>
    BY DEF SetPassword, Email, WritesUsers
  <1> HIDE DEF row
  <1>7. Steady /\ Grows /\ users'[a.email] = row /\ users'[a.email] # None
    BY <1>2, <1>5, <1>6, UserWritten DEF Steady
  <1>8. ASSUME NEW r \in CallRows, r.pc = next, r.op = call[c].op, r.arg = call[c].arg PROVE Found(r)'
    <2>1. /\ users'[r.arg.email] # None /\ HasPassword(r.arg.email)'
          /\ r.op # "reset" => FitsIn(r.arg.email, r.arg.scope)'
      BY <1>2, <1>3, <1>5, <1>7, <1>8 DEF FitsIn, HasPassword
    <2> QED
      BY <1>8, <2>1 DEF Found, PastUserCheck, PastUser, PastMember, PastPassword
  <1>9. next \in Queries(call[c].op) /\ Free
    BY <1>6 DEF Queries, Free
  <1> QED
    BY <1>1, <1>6, <1>7, <1>8, <1>9, GoKeeps DEF Early, Holding

LEMMA InsertMemberKeeps ==
  ASSUME IInv, NEW c \in Calls, NEW next, InsertMember(c, next),
         \/ call[c].op \in {"add", "bootstrap"} /\ next = "end"
         \/ call[c].op = "accept" /\ next = "spend"
  PROVE  IInv' /\ Grows
  <1> DEFINE a == call[c].arg
             row == Member(a.role, a.active)
  <1>1. ArgOK(call[c]) /\ Found(call[c]) /\ call[c].pc = "insert member" /\ call[c].op # "none"
    BY AtCall DEF InsertMember, At
  <1>2. /\ a.email \in Emails /\ a.scope \in scopes /\ a.role \in Roles(a.scope) /\ a.active \in BOOLEAN
        /\ FitsIn(a.email, a.scope)
        /\ call[c].op = "accept" => HasPassword(a.email)
    BY <1>1 DEF ArgOK, Found, PastUserCheck, PastPassword
  <1>3. row \in MemberRows /\ row.role = a.role
    BY <1>2 DEF MemberRows, Member, Roles, AnyRole
  <1> HIDE DEF row
  <1>4. CASE members[<<a.scope, a.email>>] # None
    <2>1. End(c) /\ UNCHANGED tables
      BY <1>4 DEF InsertMember, Key, Scope, Email, WritesMembers, tables
    <2>2. Steady /\ Free /\ Grows
      BY <2>1, NoChange DEF tables, Free, Steady
    <2> QED
      BY <2>1, <2>2, EndKeeps
  <1>5. CASE members[<<a.scope, a.email>>] = None
    <2>1. /\ members' = [members EXCEPT ![<<a.scope, a.email>>] = row] /\ Goto(c, next)
          /\ UNCHANGED <<scopes, primary, users, tokens>>
      BY <1>5 DEF InsertMember, Key, Scope, Email, WritesMembers, row
    <2>2. Steady /\ Grows /\ members'[<<a.scope, a.email>>] # None
      BY <1>2, <1>3, <2>1, MemberWritten DEF Steady
    <2>3. ASSUME NEW r \in CallRows, r.pc = next, r.op = call[c].op, r.arg = call[c].arg, next # "end"
          PROVE  Found(r)'
      <3>1. FitsIn(r.arg.email, r.arg.scope)' /\ HasPassword(r.arg.email)'
        BY <1>2, <2>1, <2>3 DEF FitsIn, HasPassword
      <3> QED
        BY <2>2, <2>3, <3>1 DEF Found, PastUserCheck, PastUser, PastMember, PastPassword
    <2>4. (next # "end" => next \in Queries(call[c].op)) /\ Free
      BY <2>1 DEF Queries, Free
    <2> QED
      BY <1>1, <2>1, <2>2, <2>3, <2>4, GoKeeps DEF Early, Holding
  <1> QED
    BY <1>4, <1>5

(* The rows that save writes. *)
LEMMA MergedMember ==
  ASSUME NEW old \in MemberRows, NEW new \in MemberRows, NEW dirty, NEW s, old.role \in Roles(s), new.role \in Roles(s)
  PROVE  Merged(old, new, dirty) \in MemberRows /\ Merged(old, new, dirty).role \in Roles(s)
  <1>1. DOMAIN old = {"role", "active"}
    BY DEF MemberRows
  <1>2. PICK row \in MemberRows : row = Merged(old, new, dirty) /\ row.role \in {old.role, new.role}
    <2> DEFINE role   == IF "role" \in dirty THEN new.role ELSE old.role
               active == IF "active" \in dirty THEN new.active ELSE old.active
    <2>1. Member(role, active) \in MemberRows
      BY DEF Member, MemberRows
    <2>2. Member(role, active) = Merged(old, new, dirty)
      BY <1>1 DEF Member, Merged
    <2>3. Member(role, active).role = role
      BY DEF Member
    <2> QED
      BY <2>1, <2>2, <2>3
  <1> QED
    BY <1>2

LEMMA MergedUser ==
  ASSUME NEW old \in UserRows, NEW new \in UserRows, NEW dirty \in SUBSET Preloaded
  PROVE  /\ Merged(old, new, dirty) \in UserRows /\ Merged(old, new, dirty).type = old.type
         /\ Merged(old, new, dirty).password = old.password
  <1>1. DOMAIN old = {"type", "password", "active", "subject"}
    BY DEF UserRows
  <1> DEFINE active  == IF "active" \in dirty THEN new.active ELSE old.active
             subject == IF "subject" \in dirty THEN new.subject ELSE old.subject
             row     == [type |-> old.type, password |-> old.password, active |-> active, subject |-> subject]
  <1>2. row \in UserRows
    BY DEF UserRows
  <1>3. "type" \notin dirty /\ "password" \notin dirty
    BY DEF Preloaded
  <1>4. row = Merged(old, new, dirty)
    BY <1>1, <1>3 DEF Merged
  <1>5. row.type = old.type /\ row.password = old.password
    OBVIOUS
  <1> QED
    BY <1>2, <1>4, <1>5

LEMMA HoldMemberKeeps ==
  ASSUME IInv, NEW c \in Calls, NEW row \in MemberRows, Hold(c, "load member", row), Reads,
         call[c].op \in {"update", "accept", "bootstrap"}, call[c].pc = "member",
         row.role \in Roles(call[c].arg.scope),
         members[<<call[c].arg.scope, call[c].arg.email>>] # None
  PROVE  IInv'
  <1> DEFINE a == call[c].arg
  <1>1. ArgOK(call[c]) /\ Found(call[c]) /\ call[c].op # "none" /\ Steady /\ Free
    BY AtCall, ReadsOnly
  <1>2. a.email \in Emails /\ a.scope \in Scopes
    BY <1>1 DEF ArgOK, IInv, TablesOK
  <1>3. FitsIn(a.email, a.scope) /\ (call[c].op = "accept" => HasPassword(a.email))
    BY <1>1, <1>2 DEF IInv, MemberOK, Found, PastPassword
  <1> PICK pc : pc = "load member"
    OBVIOUS
  <1>4. ASSUME NEW r \in CallRows, r.pc = pc, r.op = call[c].op, r.arg = call[c].arg, r.row = row
        PROVE  Found(r)' /\ HeldOK(r)'
    <2>1. /\ FitsIn(r.arg.email, r.arg.scope)' /\ (r.op = "accept" => HasPassword(r.arg.email)')
          /\ members'[<<r.arg.scope, r.arg.email>>] # None
      BY <1>3, <1>4 DEF FitsIn, HasPassword, Reads, tables
    <2>2. Found(r)'
      BY <1>4, <2>1 DEF Found, PastUserCheck, PastUser, PastMember, PastPassword
    <2>3. HeldOK(r)'
      BY <1>4 DEF HeldOK
    <2> QED
      BY <2>2, <2>3
  <1>5. pc \in Queries(call[c].op) /\ Hold(c, pc, row) /\ row \in UserRows \cup MemberRows
    BY DEF Queries
  <1>6. \A r \in CallRows : r.pc = pc /\ r.op = call[c].op /\ r.arg = call[c].arg /\ r.row = row =>
           Found(r)' /\ HeldOK(r)'
    BY <1>4
  <1>7. pc \notin Early /\ pc # "password" /\ call[c].pc \notin Early
    BY DEF Early
  <1> QED
    BY <1>1, <1>5, <1>6, <1>7, HoldKeeps

LEMMA AbsentMemberKeeps ==
  ASSUME IInv, NEW c \in Calls, NEW next, Goto(c, next), Reads, call[c].pc = "member",
         \/ next = "end" /\ call[c].op = "update"
         \/ next = "insert member" /\ call[c].op \in {"accept", "bootstrap"}
  PROVE  IInv'
  <1> DEFINE a == call[c].arg
  <1>1. Found(call[c]) /\ call[c].op # "none" /\ Steady /\ Free
    BY AtCall, ReadsOnly
  <1>2. ASSUME NEW r \in CallRows, r.pc = next, r.op = call[c].op, r.arg = call[c].arg, next # "end"
        PROVE  Found(r)'
    <2>1. FitsIn(a.email, a.scope) /\ (call[c].op = "accept" => HasPassword(a.email))
      BY <1>1, <1>2 DEF Found, PastUserCheck, PastPassword
    <2>2. FitsIn(r.arg.email, r.arg.scope)' /\ (r.op = "accept" => HasPassword(r.arg.email)')
      BY <1>2, <2>1 DEF FitsIn, HasPassword, Reads, tables
    <2> QED
      BY <1>2, <2>2 DEF Found, PastUserCheck, PastUser, PastMember, PastPassword
  <1>3. next # "end" => next \in Queries(call[c].op)
    BY DEF Queries
  <1> QED
    BY <1>1, <1>2, <1>3, GoKeeps DEF Early, Holding

LEMMA FindMemberToUpdateKeeps ==
  ASSUME IInv, NEW c \in Calls, NEW absent, FindMemberToUpdate(c, absent),
         \/ absent = "end" /\ call[c].op = "update"
         \/ absent = "insert member" /\ call[c].op = "accept"
  PROVE  IInv' /\ Grows
  <1> DEFINE a == call[c].arg
             row == members[<<a.scope, a.email>>]
  <1>1. ArgOK(call[c]) /\ call[c].pc = "member" /\ call[c].op # "none" /\ Grows /\ Reads
    BY AtCall, ReadsOnly DEF FindMemberToUpdate, At
  <1>2. CASE row = None
    BY <1>1, <1>2, AbsentMemberKeeps DEF FindMemberToUpdate, Key, Scope, Email
  <1>3. CASE row # None
    <2>1. /\ a.email \in Emails /\ a.scope \in Scopes
          /\ a.role \in Maybe(Roles(a.scope)) /\ a.active \in Maybe(BOOLEAN)
      BY <1>1 DEF ArgOK, Args, IInv, TablesOK, Maybe
    <2>2. row \in MemberRows /\ row.role \in Roles(a.scope)
      BY <1>3, <2>1 DEF IInv, TablesOK, MemberOK, Maybe
    <2>3. Assigned(row, a) \in MemberRows /\ Assigned(row, a).role \in Roles(a.scope)
      <3> DEFINE role   == IF a.role = None THEN row.role ELSE a.role
                 active == IF a.active = None THEN row.active ELSE a.active
      <3>1. role \in Roles(a.scope) /\ active \in BOOLEAN
        BY <2>1, <2>2 DEF Maybe, MemberRows
      <3>2. Member(role, active) \in MemberRows /\ Member(role, active).role = role
        BY <3>1 DEF Member, MemberRows, Roles, AnyRole
      <3> QED
        BY <3>1, <3>2 DEF Assigned
    <2>4. Hold(c, "load member", Assigned(row, a))
      BY <1>3 DEF FindMemberToUpdate, Key, Scope, Email
    <2> QED
      BY <1>1, <1>3, <2>3, <2>4, HoldMemberKeeps
  <1> QED
    BY <1>2, <1>3

LEMMA FindOwnerKeeps ==
  ASSUME IInv, NEW c \in Calls, FindOwner(c), call[c].op = "bootstrap"
  PROVE  IInv' /\ Grows
  <1> DEFINE a == call[c].arg
             row == members[<<a.scope, a.email>>]
             owner == Member("owner", TRUE)
  <1>1. ArgOK(call[c]) /\ call[c].pc = "member" /\ call[c].op # "none" /\ Grows /\ Steady /\ Free /\ Reads
    BY AtCall, ReadsOnly DEF FindOwner, At
  <1>2. CASE row = None
    BY <1>1, <1>2, AbsentMemberKeeps DEF FindOwner, Key, Scope, Email
  <1>3. CASE row # None
    <2>1. owner \in MemberRows /\ owner.role \in Roles(a.scope)
      <3>1. "owner" \in Roles(a.scope) /\ "owner" \in AnyRole
        BY <1>1, AccountAssumption DEF ArgOK, Roles, AnyRole
      <3> QED
        BY <3>1 DEF Member, MemberRows
    <2>2. End(c) \/ Hold(c, "load member", owner)
      BY <1>3 DEF FindOwner, Key, Scope, Email
    <2> QED
      BY <1>1, <1>3, <2>1, <2>2, HoldMemberKeeps, EndKeeps
  <1> QED
    BY <1>2, <1>3

LEMMA SaveMemberKeeps ==
  ASSUME IInv, NEW c \in Calls, NEW next, SaveMember(c, next),
         \/ next = "end" /\ call[c].op \in {"update", "bootstrap"}
         \/ next = "spend" /\ call[c].op = "accept"
  PROVE  IInv' /\ Grows
  <1> DEFINE a == call[c].arg
             old == members[<<a.scope, a.email>>]
             new == call[c].row
  <1>1. /\ ArgOK(call[c]) /\ Found(call[c]) /\ HeldOK(call[c])
        /\ call[c].pc \in {"load member", "save member"} /\ call[c].op # "none"
    BY AtCall DEF SaveMember, At
  <1>2. /\ a.email \in Emails /\ a.scope \in scopes /\ a.scope \in Scopes
        /\ FitsIn(a.email, a.scope) /\ old # None
        /\ call[c].op = "accept" => HasPassword(a.email)
        /\ new \in MemberRows /\ new.role \in Roles(a.scope)
    BY <1>1 DEF ArgOK, Found, PastUserCheck, PastPassword, PastMember, HeldOK, IInv, TablesOK
  <1>3. old \in MemberRows /\ old.role \in Roles(a.scope)
    BY <1>2 DEF IInv, TablesOK, MemberOK, Maybe
  <1>4. CASE At(c, "load member")
    <2> PICK dirty : dirty = Differing({"role", "active"}, old, new)
      OBVIOUS
    <2>1. dirty \subseteq {"role", "active"} /\ dirty \in SUBSET {"role", "active", "subject"}
      BY DEF Differing
    <2>2. Mark(c, "save member", dirty) /\ Reads
      BY <1>4 DEF SaveMember, At, Key, Scope, Email
    <2>3. Steady /\ Free /\ Grows
      BY <2>2, ReadsOnly
    <2> PICK r : r = [[call[c] EXCEPT !.pc = "save member"] EXCEPT !.dirty = dirty]
      OBVIOUS
    <2>4. /\ r \in CallRows /\ r.pc = "save member" /\ r.op = call[c].op /\ r.arg = call[c].arg
          /\ r.row = call[c].row /\ r.dirty = dirty
      BY <2>1, AtCall, <1>1 DEF CallRows, Places
    <2>5. call' = [call EXCEPT ![c] = r]
      BY <2>2 DEF Mark, IInv
    <2>6. Found(r)'
      <3>1. /\ FitsIn(r.arg.email, r.arg.scope)' /\ (r.op = "accept" => HasPassword(r.arg.email)')
            /\ members'[<<r.arg.scope, r.arg.email>>] # None
        BY <1>2, <2>2, <2>4 DEF FitsIn, HasPassword, Reads, tables
      <3> QED
        BY <2>4, <3>1 DEF Found, PastUserCheck, PastUser, PastMember, PastPassword
    <2>7. HeldOK(r)'
      BY <1>2, <2>1, <2>4 DEF HeldOK
    <2>8. r.pc \in Queries(r.op) /\ call[c].pc \notin Early /\ r.pc \notin Early
      <3>1. call[c].op \in {"update", "bootstrap", "accept"}
        OBVIOUS
      <3>2. "save member" \in Queries(call[c].op)
        BY <3>1 DEF Queries
      <3> QED
        BY <1>4, <2>4, <3>2 DEF Early, At
    <2>9. IInv'
      BY <1>1, <2>3, <2>4, <2>5, <2>6, <2>7, <2>8, StepKeeps
    <2> QED
      BY <2>3, <2>9
  <1>5. CASE At(c, "save member")
    <2> DEFINE row == Merged(old, new, call[c].dirty)
    <2>1. row \in MemberRows /\ row.role \in Roles(a.scope)
      BY <1>2, <1>3, MergedMember
    <2>2. /\ members' = [members EXCEPT ![<<a.scope, a.email>>] = row] /\ Goto(c, next)
          /\ UNCHANGED <<scopes, primary, users, tokens>>
      BY <1>5 DEF SaveMember, At, Key, Scope, Email, WritesMembers
    <2> HIDE DEF row
    <2>3. Steady /\ Grows /\ members'[<<a.scope, a.email>>] # None
      BY <1>2, <2>1, <2>2, MemberWritten DEF Steady
    <2>4. ASSUME NEW r \in CallRows, r.pc = next, r.op = call[c].op, r.arg = call[c].arg, next # "end"
          PROVE  Found(r)'
      <3>1. FitsIn(r.arg.email, r.arg.scope)' /\ (r.op = "accept" => HasPassword(r.arg.email)')
        BY <1>2, <2>2, <2>4 DEF FitsIn, HasPassword
      <3> QED
        BY <2>3, <2>4, <3>1 DEF Found, PastUserCheck, PastUser, PastMember, PastPassword
    <2>5. (next # "end" => next \in Queries(call[c].op)) /\ Free
      BY <2>2 DEF Queries, Free
    <2> QED
      BY <1>1, <2>2, <2>3, <2>4, <2>5, GoKeeps DEF Early, Holding
  <1> QED
    BY <1>4, <1>5 DEF SaveMember

LEMMA SpendKeeps ==
  ASSUME IInv, NEW c \in Calls, Spend(c), call[c].op \in {"accept", "reset"}
  PROVE  IInv' /\ Grows
  <1> DEFINE a == call[c].arg
             old == tokens[a.token]
             row == [old EXCEPT !.status = "used"]
  <1>1. TokenKept(call[c]) /\ Found(call[c]) /\ call[c].pc = "spend" /\ call[c].op # "none"
    BY AtCall DEF Spend, At
  <1>2. a.token \in Tokens /\ old # None /\ a.email = old.email
    BY <1>1 DEF TokenKept, IsKind
  <1>3. old \in TokenRows /\ TokenOK(a.token)
    BY <1>2 DEF IInv, TablesOK, Maybe
  <1>4. /\ row \in TokenRows /\ row.kind = old.kind /\ row.scope = old.scope /\ row.email = old.email
        /\ row.role = old.role
    BY <1>3 DEF TokenRows
  <1>5. tokens' = [tokens EXCEPT ![a.token] = row] /\ End(c) /\ UNCHANGED <<scopes, primary, users, members>>
    BY DEF Spend, WritesTokens
  <1> HIDE DEF row
  <1>6. row.kind = "reset" => users[row.email] # None
    BY <1>2, <1>3, <1>4 DEF TokenOK, IsKind
  <1>7. CASE row.kind = "invitation"
    <2>1. call[c].op = "accept" /\ a.scope = old.scope
      BY <1>1, <1>4, <1>7 DEF TokenKept, IsKind
    <2>2. members[<<row.scope, row.email>>] # None /\ HasPassword(row.email)
      BY <1>1, <1>2, <1>4, <2>1 DEF Found, PastMember, PastPassword
    <2>3. row.scope \in scopes /\ row.role \in Roles(row.scope)
      BY <1>2, <1>3, <1>4, <1>7 DEF TokenOK, IsKind
    <2> QED
      BY <1>2, <1>4, <1>5, <1>6, <2>2, <2>3, TokenWritten, EndKeeps DEF Steady, Free
  <1>8. CASE row.kind # "invitation"
    BY <1>2, <1>4, <1>5, <1>6, <1>8, TokenWritten, EndKeeps DEF Steady, Free
  <1> QED
    BY <1>7, <1>8

LEMMA InsertTokenKeeps ==
  ASSUME IInv, NEW c \in Calls, NEW row \in TokenRows, InsertToken(c, row),
         call[c].op \in {"invite", "forgot"}, row.status = "open",
         row.kind = "reset" => users[row.email] # None,
         row.kind = "invitation" => row.scope \in scopes /\ row.role \in Roles(row.scope)
  PROVE  IInv' /\ Grows
  <1> DEFINE k == call[c].arg.token
  <1>1. TokenKept(call[c]) /\ call[c].op # "none"
    BY AtCall
  <1>2. k \in Tokens /\ tokens[k] = None
    BY <1>1 DEF TokenKept
  <1>3. tokens' = [tokens EXCEPT ![k] = row] /\ End(c) /\ UNCHANGED <<scopes, primary, users, members>>
    BY DEF InsertToken, WritesTokens
  <1>4. Steady /\ Grows /\ \A j \in Tokens : j # k => tokens'[j] = tokens[j]
    BY <1>2, <1>3, TokenWritten DEF Steady
  <1>5. call' = [call EXCEPT ![c] = Idle] /\ Inserts(call[c])
    BY <1>3 DEF End, Inserts
  <1>6. \A j \in Tokens : tokens[j] = None /\ tokens'[j] # None => Inserts(call[c]) /\ j = call[c].arg.token
    BY <1>4, <1>5
  <1>7. IInv'
    BY <1>4, <1>5, <1>6, IdleOK, CallStep
  <1> QED
    BY <1>4, <1>7

LEMMA FindActiveUserKeeps ==
  ASSUME IInv, NEW c \in Calls, NEW next, FindActiveUser(c, next),
         \/ call[c].op = "forgot" /\ next = "insert token"
         \/ call[c].op = "google" /\ next = "subject"
  PROVE  IInv' /\ Grows
  <1> DEFINE user == users[Email(c)]
  <1>1. /\ ArgOK(call[c]) /\ call[c].pc = "user" /\ call[c].op # "none"
        /\ Steady /\ Free /\ Grows
    BY AtCall, ReadsOnly DEF FindActiveUser, At
  <1>2. call[c].arg.email \in Emails
    BY <1>1 DEF ArgOK
  <1>3. CASE user = None \/ ~user.active
    BY <1>1, <1>3, EndKeeps DEF FindActiveUser
  <1>4. CASE ~(user = None \/ ~user.active)
    <2> PICK row : row = users[call[c].arg.email]
      OBVIOUS
    <2>1. Hold(c, next, row) /\ row # None
      BY <1>4 DEF FindActiveUser, Email
    <2>2. row \in UserRows
      BY <1>2, <2>1 DEF IInv, TablesOK, Maybe
    <2> PICK r : r = [[call[c] EXCEPT !.pc = next] EXCEPT !.row = row]
      OBVIOUS
    <2>3. /\ r \in CallRows /\ r.pc = next /\ r.op = call[c].op /\ r.arg = call[c].arg /\ r.row = row
      BY <1>1, <2>2, AtCall DEF CallRows, Places, Maybe
    <2>4. call' = [call EXCEPT ![c] = r]
      BY <2>1 DEF Hold, IInv
    <2>5. Found(r)'
      <3>1. users'[r.arg.email] # None
        BY <2>1, <2>3 DEF FindActiveUser, Reads, tables
      <3> QED
        BY <2>3, <3>1 DEF Found, PastUserCheck, PastUser, PastMember, PastPassword
    <2>6. HeldOK(r)'
      BY <2>2, <2>3 DEF HeldOK
    <2>7. r.pc \in Queries(r.op) /\ r.pc \notin Early /\ r.pc # "password" /\ call[c].pc \notin Early
      <3>1. next \in Queries(call[c].op)
        BY DEF Queries
      <3> QED
        BY <1>1, <2>3, <3>1 DEF Early
    <2>8. IInv'
      BY <1>1, <2>3, <2>4, <2>5, <2>6, <2>7, StepKeeps
    <2> QED
      BY <1>1, <2>8
  <1> QED
    BY <1>1, <1>3, <1>4

LEMMA BindSubjectKeeps ==
  ASSUME IInv, NEW c \in Calls, BindSubject(c), call[c].op = "google"
  PROVE  IInv' /\ Grows
  <1> DEFINE a == call[c].arg
             row == [users[a.email] EXCEPT !.subject = a.subject]
  <1>1. /\ ArgOK(call[c]) /\ Found(call[c]) /\ call[c].pc = "subject" /\ call[c].op # "none"
    BY AtCall DEF BindSubject, At
  <1>2. a.email \in Emails /\ a.subject \in Maybe(Subjects) /\ users[a.email] # None
    BY <1>1 DEF ArgOK, Args, Found, PastUser
  <1>3. users[a.email] \in UserRows
    BY <1>2 DEF IInv, TablesOK, Maybe
  <1>4. /\ row \in UserRows /\ row.type = users[a.email].type /\ row.password = users[a.email].password
    BY <1>2, <1>3 DEF UserRows
  <1> HIDE DEF row
  <1>5. CASE users' = users
    <2>1. UNCHANGED tables
      BY <1>5 DEF BindSubject, WritesUsers, tables
    <2>2. Steady /\ Free /\ Grows
      BY <2>1, NoChange DEF tables, Free, Steady
    <2> QED
      BY <2>2, EndKeeps DEF BindSubject
  <1>6. CASE users' # users
    <2>1. users' = [users EXCEPT ![a.email] = row] /\ UNCHANGED <<scopes, primary, members, tokens>>
      BY <1>6 DEF BindSubject, Email, WritesUsers, row
    <2>2. Steady /\ Grows /\ Free
      BY <1>2, <1>4, <2>1, UserWritten DEF Steady, Free
    <2> QED
      BY <2>2, EndKeeps DEF BindSubject
  <1> QED
    BY <1>5, <1>6

LEMMA UpdateUserKeeps ==
  ASSUME IInv, NEW c \in Calls, UpdateUser(c)
  PROVE  IInv' /\ Grows
  <1> DEFINE a == call[c].arg
             user == users[a.email]
  <1>1. /\ call[c].op = "patch" /\ call[c].op # "none"
        /\ call[c] \in CallRows /\ ArgOK(call[c]) /\ Found(call[c]) /\ HeldOK(call[c])
    BY AtCall DEF UpdateUser, Is
  <1>2. a.active \in Maybe(BOOLEAN)
    BY <1>1 DEF ArgOK, Args
  <1>3. ASSUME call[c].pc \in {"preload", "load user", "save user"}
        PROVE  a.email \in Emails /\ user \in UserRows
    <2>1. a.email \in Emails /\ user # None
      BY <1>1, <1>3 DEF ArgOK, Found, PastUser
    <2> QED
      BY <2>1 DEF IInv, TablesOK, Maybe
  <1>4. ASSUME NEW r \in CallRows, Reads, call' = [call EXCEPT ![c] = r], r.op = "patch", r.arg = call[c].arg,
               call[c].pc \in {"preload", "load user"}, r.pc \in {"load user", "save user"},
               r.row \in UserRows, r.pc = "save user" => r.dirty \subseteq Preloaded
        PROVE  IInv' /\ Grows
    <2>1. Steady /\ Free /\ Grows
      BY <1>4, ReadsOnly
    <2>2. users'[r.arg.email] # None
      BY <1>1, <1>4, <2>1 DEF Found, PastUser, Reads, tables
    <2>3. Found(r)'
      BY <1>4, <2>2 DEF Found, PastUserCheck, PastUser, PastMember, PastPassword
    <2>4. HeldOK(r)'
      BY <1>4 DEF HeldOK
    <2>5. r.pc \in Queries(r.op) /\ call[c].pc \notin Early /\ r.pc \notin Early /\ r.pc # "password"
      BY <1>4 DEF Queries, Early
    <2>6. IInv'
      BY <1>1, <1>4, <2>1, <2>3, <2>4, <2>5, StepKeeps
    <2> QED
      BY <2>1, <2>6
  <1>5. CASE FindOneInTenant(c)
    BY <1>1, <1>5, FindOneInTenantKeeps
  <1>6. CASE At(c, "preload")
    <2> PICK row : row = [user EXCEPT !.active = IF a.active = None THEN @ ELSE a.active]
      OBVIOUS
    <2>1. row \in UserRows
      BY <1>2, <1>3, <1>6 DEF At, UserRows, Maybe
    <2>2. Hold(c, "load user", row) /\ Reads
      BY <1>6 DEF UpdateUser, FindOneInTenant, At, Email
    <2> PICK r : r = [[call[c] EXCEPT !.pc = "load user"] EXCEPT !.row = row]
      OBVIOUS
    <2>3. r \in CallRows /\ r.pc = "load user" /\ r.op = call[c].op /\ r.arg = call[c].arg /\ r.row = row
      BY <1>1, <2>1 DEF CallRows, Places, Maybe
    <2>4. call' = [call EXCEPT ![c] = r]
      BY <2>2 DEF Hold, IInv
    <2> QED
      BY <1>1, <1>4, <1>6, <2>1, <2>2, <2>3, <2>4 DEF At
  <1>7. CASE At(c, "load user")
    <2> PICK dirty : dirty = Differing(Preloaded, user, call[c].row)
      OBVIOUS
    <2>1. dirty \subseteq Preloaded /\ dirty \in SUBSET {"role", "active", "subject"}
      BY DEF Differing, Preloaded
    <2>2. Mark(c, "save user", dirty) /\ Reads
      BY <1>7 DEF UpdateUser, FindOneInTenant, At, Email
    <2> PICK r : r = [[call[c] EXCEPT !.pc = "save user"] EXCEPT !.dirty = dirty]
      OBVIOUS
    <2>3. /\ r \in CallRows /\ r.pc = "save user" /\ r.op = call[c].op /\ r.arg = call[c].arg
          /\ r.row = call[c].row /\ r.dirty = dirty
      BY <1>1, <2>1 DEF CallRows, Places
    <2>4. call' = [call EXCEPT ![c] = r]
      BY <2>2 DEF Mark, IInv
    <2>5. r.row \in UserRows
      BY <1>1, <1>7, <2>3 DEF HeldOK, At
    <2> QED
      BY <1>1, <1>4, <1>7, <2>1, <2>2, <2>3, <2>4, <2>5 DEF At
  <1>8. CASE At(c, "save user")
    <2> PICK row : row = Merged(user, call[c].row, call[c].dirty)
      OBVIOUS
    <2>1. a.email \in Emails /\ user \in UserRows
      BY <1>3, <1>8 DEF At
    <2>2. call[c].row \in UserRows /\ call[c].dirty \in SUBSET Preloaded
      BY <1>1, <1>8 DEF HeldOK, At
    <2>3. row \in UserRows /\ row.type = user.type /\ row.password = user.password
      BY <2>1, <2>2, MergedUser
    <2>4. users' = [users EXCEPT ![a.email] = row] /\ End(c) /\ UNCHANGED <<scopes, primary, members, tokens>>
      BY <1>8 DEF UpdateUser, FindOneInTenant, At, Email, WritesUsers
    <2>5. Steady /\ Free /\ Grows
      BY <2>1, <2>3, <2>4, UserWritten DEF Steady, Free
    <2> QED
      BY <2>4, <2>5, EndKeeps
  <1> QED
    BY <1>5, <1>6, <1>7, <1>8 DEF UpdateUser

LEMMA TenantKept ==
  ASSUME IInv, Steady, UNCHANGED tokens, NEW c \in Calls, call[c].op = "bootstrap",
         call[c].pc \in {"tenant", "insert tenant"}, NEW t \in Tenants, t \in scopes',
         call' = [call EXCEPT ![c].pc = "user", ![c].arg.scope = t]
  PROVE  IInv'
  <1>1. call[c] \in CallRows /\ call[c].op # "none" /\ ArgOK(call[c])
    BY AtCall
  <1>2. call[c].arg \in Args /\ call[c].arg.role = "owner" /\ call[c].arg.active = TRUE
    BY <1>1 DEF ArgOK
  <1> PICK a : a = [call[c].arg EXCEPT !.scope = t]
    OBVIOUS
  <1>3. a \in Args /\ a.scope = t /\ a.role = "owner" /\ a.active = TRUE /\ a.email = call[c].arg.email
    BY <1>2 DEF Args, Maybe, Scopes
  <1> PICK r : r = [[call[c] EXCEPT !.pc = "user"] EXCEPT !.arg = a]
    OBVIOUS
  <1>4. r \in CallRows /\ r.pc = "user" /\ r.op = "bootstrap" /\ r.arg = a
    BY <1>1, <1>3 DEF CallRows, Places, Maybe
  <1>5. call' = [call EXCEPT ![c] = r]
    BY DEF IInv
  <1>6. ArgOK(r)'
    <2>1. a.email \in Emails
      BY <1>1, <1>3 DEF ArgOK
    <2>2. "owner" \in Roles(t)
      BY AccountAssumption DEF Roles
    <2> QED
      BY <1>3, <1>4, <2>1, <2>2 DEF ArgOK
  <1>7. TokenKept(r)' /\ HeldOK(r)'
    BY <1>4 DEF TokenKept, HeldOK
  <1>8. Found(r)'
    BY <1>4 DEF Found, PastUserCheck, PastUser, PastMember, PastPassword
  <1>9. r.pc \in Queries(r.op)
    <2>1. "user" \in Queries("bootstrap")
      BY DEF Queries
    <2> QED
      BY <1>4, <2>1
  <1>10. CallOK(r)'
    BY <1>4, <1>6, <1>7, <1>8, <1>9 DEF CallOK
  <1>11. ~Inserts(r)
    BY <1>4 DEF Inserts
  <1> QED
    BY <1>5, <1>10, <1>11, CallStep

LEMMA FindOrInsertTenantKeeps ==
  ASSUME IInv, NEW c \in Calls, FindOrInsertTenant(c), call[c].op = "bootstrap"
  PROVE  IInv' /\ Grows
  <1>1. /\ call[c] \in CallRows /\ call[c].op # "none" /\ ArgOK(call[c]) /\ TokenKept(call[c])
        /\ call[c].pc \in {"tenant", "insert tenant"}
        /\ scopes \subseteq Scopes /\ primary \subseteq scopes \cap Tenants
    BY AtCall DEF FindOrInsertTenant, At, IInv, TablesOK
  <1>2. CASE At(c, "tenant") /\ primary = {}
    <2>1. call' = [call EXCEPT ![c].pc = "insert tenant"] /\ Reads
      BY <1>2 DEF FindOrInsertTenant, At, Goto
    <2> PICK r : r = [call[c] EXCEPT !.pc = "insert tenant"]
      OBVIOUS
    <2>2. r \in CallRows /\ r.pc = "insert tenant" /\ r.op = "bootstrap" /\ r.arg = call[c].arg
      BY <1>1 DEF CallRows, Places
    <2>3. call' = [call EXCEPT ![c] = r]
      BY <2>1 DEF IInv
    <2>4. ArgOK(r)
      BY <1>1, <1>2, <2>2 DEF ArgOK, At
    <2>5. TokenKept(r) /\ HeldOK(r)
      BY <2>2 DEF TokenKept, HeldOK
    <2>6. Found(r)
      BY <2>2 DEF Found, PastUserCheck, PastUser, PastMember, PastPassword
    <2>7. r.pc \in Queries(r.op) /\ ~Inserts(r)
      <3>1. "insert tenant" \in Queries("bootstrap")
        BY DEF Queries
      <3> QED
        BY <2>2, <3>1 DEF Inserts
    <2>8. CallOK(r)
      BY <2>2, <2>4, <2>5, <2>6, <2>7 DEF CallOK
    <2>9. Steady /\ Grows /\ UNCHANGED tokens
      BY <2>1, ReadsOnly DEF Reads, tables
    <2>10. CallOK(r)'
      BY <2>7, <2>8, <2>9, CallStays
    <2> QED
      BY <2>3, <2>7, <2>9, <2>10, CallStep
  <1>3. CASE At(c, "tenant") /\ primary # {}
    <2>1. PICK t \in primary : call' = [call EXCEPT ![c].pc = "user", ![c].arg.scope = t]
      BY <1>3 DEF FindOrInsertTenant, At
    <2>2. Reads
      BY <1>3 DEF FindOrInsertTenant, At
    <2>3. Steady /\ Grows /\ UNCHANGED <<scopes, tokens>>
      BY <2>2, ReadsOnly DEF Reads, tables
    <2>4. t \in Tenants /\ t \in scopes'
      BY <1>1, <2>3
    <2> QED
      BY <1>1, <2>1, <2>3, <2>4, TenantKept
  <1>4. CASE At(c, "insert tenant")
    <2>1. PICK t \in Tenants \ scopes :
            /\ scopes' = scopes \cup {t} /\ primary' = primary \cup {t}
            /\ call' = [call EXCEPT ![c].pc = "user", ![c].arg.scope = t]
      BY <1>4 DEF FindOrInsertTenant, At
    <2>2. UNCHANGED <<users, members, tokens>>
      BY <1>4 DEF FindOrInsertTenant, At
    <2>3. Steady /\ Grows
      BY <1>1, <2>1, <2>2, ScopesWritten DEF Scopes, Steady
    <2>4. t \in Tenants /\ t \in scopes' /\ UNCHANGED tokens
      BY <2>1, <2>2
    <2> QED
      BY <1>1, <2>1, <2>3, <2>4, TenantKept
  <1> QED
    BY <1>2, <1>3, <1>4 DEF FindOrInsertTenant

LEMMA FindTokenKeeps ==
  ASSUME IInv, NEW c \in Calls, NEW next, FindToken(c, next),
         \/ call[c].op = "accept" /\ next = "user"
         \/ call[c].op = "reset" /\ next = "password"
  PROVE  IInv' /\ Grows
  <1> PICK old : old = tokens[call[c].arg.token]
    OBVIOUS
  <1> PICK k : k = call[c].arg.token
    OBVIOUS
  <1>1. /\ call[c] \in CallRows /\ call[c].op # "none" /\ ArgOK(call[c]) /\ TokenKept(call[c])
        /\ Steady /\ Free /\ Grows /\ UNCHANGED tables
    BY AtCall, ReadsOnly DEF FindToken, Reads
  <1>2. /\ k \in Tokens /\ old # None /\ old = tokens[k]
        /\ call[c].op = "accept" => IsKind(k, "invitation")
        /\ call[c].op = "reset" => IsKind(k, "reset")
    BY <1>1 DEF TokenKept, IsKind
  <1>3. old \in TokenRows /\ TokenOK(k) /\ scopes \subseteq Scopes
    BY <1>2 DEF IInv, TablesOK, Maybe
  <1>4. CASE old.status # "open"
    BY <1>1, <1>4, EndKeeps DEF FindToken
  <1>5. CASE old.status = "open"
    <2> PICK a : a = [call[c].arg EXCEPT !.email = old.email, !.scope = old.scope, !.role = old.role, !.active = TRUE]
      OBVIOUS
    <2> PICK r : r = [[call[c] EXCEPT !.pc = next] EXCEPT !.arg = a]
      OBVIOUS
    <2>1. /\ a \in Args /\ a.email = old.email /\ a.scope = old.scope /\ a.role = old.role /\ a.active = TRUE
          /\ a.token = k /\ a.password \in Passwords
      <3>1. call[c].arg \in Args /\ call[c].arg.password \in Passwords
        BY <1>1 DEF ArgOK
      <3>2. old.email \in Emails /\ old.scope \in Maybe(Scopes) /\ old.role \in Maybe(AnyRole)
        BY <1>3 DEF TokenRows
      <3> QED
        BY <3>1, <3>2 DEF Args, Maybe
    <2>2. r \in CallRows /\ r.pc = next /\ r.op = call[c].op /\ r.arg = a
      BY <1>1, <2>1 DEF CallRows, Places, Maybe
    <2>3. call' = [call EXCEPT ![c] = r]
      BY <1>5 DEF FindToken, IInv
    <2>4. /\ old.email \in Emails
          /\ call[c].op = "accept" => old.scope \in scopes /\ old.role \in Roles(old.scope)
          /\ call[c].op = "reset" => users[old.email] # None
      BY <1>2, <1>3 DEF TokenRows, TokenOK
    <2>5. ArgOK(r)
      BY <2>1, <2>2, <2>4 DEF ArgOK
    <2>6. TokenKept(r)
      <3>1. r.arg.token = k /\ r.arg.scope = tokens[k].scope /\ r.arg.email = tokens[k].email /\ r.op = call[c].op
        BY <1>2, <2>1, <2>2
      <3>2. r.op \in {"accept", "reset"}
        BY <2>2
      <3> QED
        BY <1>2, <3>1, <3>2 DEF TokenKept
    <2>7. Found(r)
      BY <2>1, <2>2, <2>4 DEF Found, PastUserCheck, PastUser, PastMember, PastPassword
    <2>8. HeldOK(r)
      BY <2>2 DEF HeldOK
    <2>9. next \in Queries(call[c].op)
      BY DEF Queries
    <2>10. r.pc \in Queries(r.op) /\ ~Inserts(r)
      BY <2>2, <2>9 DEF Inserts
    <2>11. CallOK(r)
      BY <1>1, <2>2, <2>5, <2>6, <2>7, <2>8, <2>10 DEF CallOK
    <2>12. CallOK(r)'
      BY <1>1, <2>10, <2>11, CallStays
    <2> QED
      BY <1>1, <2>3, <2>10, <2>12, CallStep DEF Free
  <1> QED
    BY <1>4, <1>5

-----------------------------------------------------------------------------
(* The handlers.                                                           *)

LEMMA AddUserKeeps ==
  ASSUME IInv, NEW c \in Calls, AddUser(c), call[c].op = "add"
  PROVE  IInv' /\ Grows
  <1>1. "insert user" \in Queries("add") /\ "any member" \in Queries("add")
    BY DEF Queries
  <1>2. CASE FindUser(c, "insert user", "any member")
    BY <1>1, <1>2, FindUserKeeps
  <1>3. CASE InsertUser(c, "insert member")
    BY <1>3, InsertUserKeeps
  <1>4. CASE FindAnyMember(c)
    BY <1>4, FindAnyMemberKeeps
  <1>5. CASE SetPassword(c, "insert member")
    BY <1>5, SetPasswordKeeps
  <1>6. CASE InsertMember(c, "end")
    BY <1>6, InsertMemberKeeps
  <1> QED
    BY <1>2, <1>3, <1>4, <1>5, <1>6 DEF AddUser

LEMMA InviteKeeps ==
  ASSUME IInv, NEW c \in Calls, Invite(c), call[c].op = "invite"
  PROVE  IInv' /\ Grows
  <1>1. "insert token" \in Queries("invite") /\ "member" \in Queries("invite")
    BY DEF Queries
  <1>2. CASE FindUser(c, "insert token", "member")
    BY <1>1, <1>2, FindUserKeeps
  <1>3. CASE FindMember(c, "insert token", "end")
    BY <1>3, FindMemberKeeps
  <1>4. CASE InsertToken(c, Invitation(Scope(c), Email(c), call[c].arg.role))
    <2> PICK row : row = Invitation(Scope(c), Email(c), call[c].arg.role)
      OBVIOUS
    <2>1. ArgOK(call[c]) /\ call[c].pc = "insert token"
      BY <1>4, AtCall DEF InsertToken, At
    <2>2. Email(c) \in Emails /\ Scope(c) \in scopes /\ Scope(c) \in Scopes /\ call[c].arg.role \in Roles(Scope(c))
      BY <2>1 DEF ArgOK, Email, Scope, IInv, TablesOK
    <2>3. call[c].arg.role \in AnyRole
      BY <2>2 DEF Roles, AnyRole
    <2>4. /\ row \in TokenRows /\ row.status = "open" /\ row.kind = "invitation"
          /\ row.scope \in scopes /\ row.role \in Roles(row.scope)
      BY <2>2, <2>3 DEF Invitation, TokenRows, Maybe
    <2> QED
      BY <1>4, <2>4, InsertTokenKeeps
  <1> QED
    BY <1>2, <1>3, <1>4 DEF Invite

LEMMA AcceptInvitationKeeps ==
  ASSUME IInv, NEW c \in Calls, AcceptInvitation(c)
  PROVE  IInv' /\ Grows
  <1>1. call[c].op = "accept"
    BY DEF AcceptInvitation, Is
  <1>2. "insert user" \in Queries("accept") /\ "password" \in Queries("accept")
    BY DEF Queries
  <1>3. call[c].arg.password \in Passwords
    BY <1>1, AtCall DEF ArgOK
  <1>4. CASE FindToken(c, "user")
    BY <1>1, <1>4, FindTokenKeeps
  <1>5. CASE FindUser(c, "insert user", "password")
    BY <1>1, <1>2, <1>3, <1>5, FindUserKeeps
  <1>6. CASE InsertUser(c, "member")
    BY <1>1, <1>6, InsertUserKeeps
  <1>7. CASE SetPassword(c, "member")
    BY <1>1, <1>7, SetPasswordKeeps
  <1>8. CASE FindMemberToUpdate(c, "insert member")
    BY <1>1, <1>8, FindMemberToUpdateKeeps
  <1>9. CASE InsertMember(c, "spend")
    BY <1>1, <1>9, InsertMemberKeeps
  <1>10. CASE SaveMember(c, "spend")
    BY <1>1, <1>10, SaveMemberKeeps
  <1>11. CASE Spend(c)
    BY <1>1, <1>11, SpendKeeps
  <1> QED
    BY <1>4, <1>5, <1>6, <1>7, <1>8, <1>9, <1>10, <1>11 DEF AcceptInvitation

LEMMA ResetKeeps ==
  ASSUME IInv, NEW c \in Calls, RequestPasswordReset(c) \/ ResetPassword(c)
  PROVE  IInv' /\ Grows
  <1>1. CASE RequestPasswordReset(c)
    <2>1. call[c].op = "forgot"
      BY <1>1 DEF RequestPasswordReset, Is
    <2>2. CASE FindActiveUser(c, "insert token")
      BY <2>1, <2>2, FindActiveUserKeeps
    <2>3. CASE InsertToken(c, Reset(Email(c)))
      <3> PICK row : row = Reset(Email(c))
        OBVIOUS
      <3>1. ArgOK(call[c]) /\ Found(call[c]) /\ call[c].pc = "insert token"
        BY <2>1, <2>3, AtCall DEF InsertToken, At
      <3>2. Email(c) \in Emails /\ users[Email(c)] # None
        BY <2>1, <3>1 DEF ArgOK, Found, PastUser, Email
      <3>3. row \in TokenRows /\ row.status = "open" /\ row.kind = "reset" /\ row.email = Email(c)
        BY <3>2 DEF Reset, TokenRows, Maybe
      <3> QED
        BY <2>1, <2>3, <3>2, <3>3, InsertTokenKeeps
    <2> QED
      BY <1>1, <2>2, <2>3 DEF RequestPasswordReset
  <1>2. CASE ResetPassword(c)
    <2>1. call[c].op = "reset"
      BY <1>2 DEF ResetPassword, Is
    <2>2. CASE FindToken(c, "password")
      BY <2>1, <2>2, FindTokenKeeps
    <2>3. CASE SetPassword(c, "spend")
      BY <2>1, <2>3, SetPasswordKeeps
    <2>4. CASE Spend(c)
      BY <2>1, <2>4, SpendKeeps
    <2> QED
      BY <1>2, <2>2, <2>3, <2>4 DEF ResetPassword
  <1> QED
    BY <1>1, <1>2

LEMMA BootstrapKeeps ==
  ASSUME IInv, NEW c \in Calls, Bootstrap(c)
  PROVE  IInv' /\ Grows
  <1>1. call[c].op = "bootstrap"
    BY DEF Bootstrap, Is
  <1>2. CASE FindOrInsertTenant(c)
    BY <1>1, <1>2, FindOrInsertTenantKeeps
  <1>3. CASE FindUser(c, "insert user", GivenPassword(c, "password", "member"))
    <2> PICK found : found = GivenPassword(c, "password", "member")
      OBVIOUS
    <2>1. call[c].arg.password \in Maybe(Passwords)
      BY <1>1, AtCall DEF ArgOK, Args
    <2>2. found \in {"password", "member"} /\ (found = "password" => call[c].arg.password \in Passwords)
      BY <2>1 DEF GivenPassword, Maybe
    <2>3. {"insert user", "password", "member"} \subseteq Queries("bootstrap")
      BY DEF Queries
    <2> QED
      BY <1>1, <1>3, <2>2, <2>3, FindUserKeeps
  <1>4. CASE InsertUser(c, "member")
    BY <1>1, <1>4, InsertUserKeeps
  <1>5. CASE SetPassword(c, "member")
    BY <1>1, <1>5, SetPasswordKeeps
  <1>6. CASE FindOwner(c)
    BY <1>1, <1>6, FindOwnerKeeps
  <1>7. CASE InsertMember(c, "end")
    BY <1>1, <1>7, InsertMemberKeeps
  <1>8. CASE SaveMember(c, "end")
    BY <1>1, <1>8, SaveMemberKeeps
  <1> QED
    BY <1>2, <1>3, <1>4, <1>5, <1>6, <1>7, <1>8 DEF Bootstrap

LEMMA StepGrows ==
  ASSUME IInv, NEW c \in Calls, Step(c)
  PROVE  IInv' /\ Grows
  <1>1. CASE AddTenantUser(c) \/ AddClientUser(c)
    BY <1>1, AddUserKeeps DEF AddTenantUser, AddClientUser, IsFor
  <1>2. CASE UpdateTenantUser(c) \/ UpdateClientUser(c)
    <2>1. call[c].op = "update" /\ (FindMemberToUpdate(c, "end") \/ SaveMember(c, "end"))
      BY <1>2 DEF UpdateTenantUser, UpdateClientUser, UpdateMember, IsFor
    <2> QED
      BY <2>1, FindMemberToUpdateKeeps, SaveMemberKeeps
  <1>3. CASE CreateTenantInvitation(c) \/ CreateClientInvitation(c)
    BY <1>3, InviteKeeps DEF CreateTenantInvitation, CreateClientInvitation, IsFor
  <1>4. CASE SignInWithGoogle(c)
    <2>1. call[c].op = "google" /\ (FindActiveUser(c, "subject") \/ BindSubject(c))
      BY <1>4 DEF SignInWithGoogle, Is
    <2> QED
      BY <2>1, FindActiveUserKeeps, BindSubjectKeeps
  <1> QED
    BY <1>1, <1>2, <1>3, <1>4, AcceptInvitationKeeps, ResetKeeps, UpdateUserKeeps, BootstrapKeeps DEF Step

LEMMA NextGrows ==
  ASSUME IInv, [Next]_vars
  PROVE  IInv' /\ Grows
  <1>1. CASE UNCHANGED vars
    <2>1. UNCHANGED tables /\ UNCHANGED call
      BY <1>1 DEF vars
    <2>2. Steady
      BY <2>1, NoChange
    <2>3. \A c \in Calls : CallOK(call[c])'
      <3> TAKE c \in Calls
      <3>1. PICK q : q = call[c]
        OBVIOUS
      <3>2. CallOK(q) /\ (Inserts(q) => tokens'[q.arg.token] = None)
        BY <2>1, <3>1 DEF IInv, CallOK, TokenKept, Inserts, tables
      <3>3. CallOK(q)'
        BY <2>2, <3>2, CallStays
      <3> QED
        BY <2>1, <3>1, <3>3
    <2> QED
      BY <2>1, <2>2, <2>3 DEF IInv, Steady, TableInv
  <1>2. ASSUME NEW c \in Calls, Fails(c)
        PROVE  IInv' /\ Grows
    <2>1. UNCHANGED tables /\ End(c)
      BY <1>2 DEF Fails
    <2>2. Steady /\ Free /\ Grows
      BY <2>1, NoChange DEF tables, Free, Steady
    <2> QED
      BY <2>1, <2>2, EndKeeps
  <1> QED
    BY <1>1, <1>2, EnvironmentKeeps, BeginKeeps, StepGrows DEF Next

LEMMA InitOK == Init => IInv
  <1> SUFFICES ASSUME Init PROVE IInv
    OBVIOUS
  <1>1. TablesOK
    BY DEF Init, TablesOK, Maybe
  <1>2. ASSUME NEW s \in Scopes, NEW e \in Emails PROVE MemberOK(s, e)
    BY DEF Init, MemberOK
  <1>3. ASSUME NEW k \in Tokens PROVE TokenOK(k)
    BY DEF Init, TokenOK, IsKind
  <1>4. call \in [Calls -> CallRows] /\ \A c \in Calls : CallOK(call[c]) /\ ~Inserts(call[c])
    <2>1. call = [c \in Calls |-> Idle]
      BY DEF Init
    <2> QED
      BY <2>1, IdleOK
  <1> QED
    BY <1>1, <1>2, <1>3, <1>4 DEF IInv

-----------------------------------------------------------------------------
(* What holds of every behaviour.                                          *)

(* The tables are well formed, and whatever others write between two of    *)
(* its queries, what each call has found out at them is still so.          *)
THEOREM Invariance == Spec => []IInv
  <1>1. IInv /\ [Next]_vars => IInv'
    BY NextGrows
  <1> QED
    BY <1>1, InitOK, PTL DEF Spec

(* Type correctness of the tables and of the calls.                        *)
THEOREM TypeCorrect == Spec => []TypeOK
  <1>1. IInv => TypeOK
    <2> SUFFICES ASSUME IInv PROVE TypeOK
      OBVIOUS
    <2>1. \A c \in Calls : call[c] # Idle => call[c].op \in Ops
      <3> TAKE c \in Calls
      <3>1. CallOK(call[c])
        BY DEF IInv
      <3>2. CASE call[c].op = "none"
        <4>1. call[c].pc = "idle"
          BY <3>1, <3>2 DEF CallOK, Queries
        <4> QED
          BY <3>1, <3>2, <4>1 DEF CallOK, CallRows, Idle, Handler
      <3> QED
        BY <3>1, <3>2 DEF CallOK, CallRows
    <2>2. \A s \in Scopes, e \in Emails : members[<<s, e>>] # None =>
            s \in scopes /\ members[<<s, e>>].role \in Roles(s)
      BY DEF IInv, MemberOK
    <2>3. \A k \in Tokens : IsKind(k, "invitation") => tokens[k].role \in Roles(tokens[k].scope)
      BY DEF IInv, TokenOK
    <2> QED
      BY <2>1, <2>2, <2>3 DEF IInv, TablesOK, TypeOK
  <1> QED
    BY <1>1, Invariance, PTL

(* However addTenantUser, addClientUser, acceptInvitation and bootstrap    *)
(* overlap or fail, every membership belongs to a user of the scope's      *)
(* type, which they checked several queries before.                        *)
THEOREM MembersAreUsers == Spec => []MembersFit
  <1>1. IInv => MembersFit
    BY DEF IInv, MemberOK, FitsIn, MembersFit
  <1> QED
    BY <1>1, Invariance, PTL

(* acceptInvitation: one marked as accepted has its membership and its     *)
(* user a password.                                                        *)
THEOREM AcceptedInvitationsAreKept == Spec => []AcceptedIsMember
  <1>1. IInv => AcceptedIsMember
    BY DEF IInv, TokenOK, HasPassword, AcceptedIsMember
  <1> QED
    BY <1>1, Invariance, PTL

(* No step of any handler takes a password away, updateUser's save of a    *)
(* user read before the password was set included.                         *)
THEOREM NoPasswordLost == Spec => PasswordsSurvive
  <1>1. IInv /\ [Next]_vars =>
          [\A e \in Emails : (users[e] # None /\ users[e].password # None) => users'[e].password # None]_vars
    BY NextGrows DEF Grows
  <1> QED
    BY <1>1, Invariance, PTL DEF Spec, PasswordsSurvive


-----------------------------------------------------------------------------
(* A call that meets no other.                                             *)

WithTenant(b, t)   == [b EXCEPT !.scopes = @ \cup {t}, !.primary = @ \cup {t}]
WithPassword(b, a) == [b EXCEPT !.users[a.email].password = a.password]

(* The tenant of bootstrap is there after its first queries. *)
Base(r) == IF r.op = "bootstrap" /\ r.pc \notin Early THEN WithTenant(r.before, r.arg.scope) ELSE r.before

Adds(r) == r.op \in {"add", "accept", "bootstrap"}
UserIsMade(r) == Adds(r) /\ \/ r.pc \in {"insert member", "load member", "save member"}
                            \/ r.op # "add" /\ r.pc = "member"

(* What the call has made of the tables by now. *)
Made(r) ==
  CASE r.pc = "spend" /\ r.op = "accept" -> WithMember(WithUser(r.before, r.arg), r.arg, r.arg.role, r.arg.active)
    [] r.pc = "spend" /\ r.op = "reset"  -> WithPassword(r.before, r.arg)
    [] UserIsMade(r) -> WithUser(Base(r), r.arg)
    [] OTHER -> Base(r)

(* What it has read. *)
TokenRead(r) ==
  r.op \in {"accept", "reset"} /\ r.pc # "token" =>
    LET row == r.before.tokens[r.arg.token] IN
    /\ row.status = "open" /\ r.arg.email = row.email
    /\ r.op = "accept" => r.arg.scope = row.scope /\ r.arg.role = row.role /\ r.arg.active = TRUE

TenantRead(r) ==
  r.op = "bootstrap" =>
    /\ r.pc = "insert tenant" => r.before.primary = {}
    /\ r.pc \notin Early =>
         r.arg.scope \in IF r.before.primary = {} THEN Tenants \ r.before.scopes ELSE r.before.primary

UserRead(r) ==
  LET a == r.arg IN
  /\ r.pc = "insert user" => users[a.email] = None
  /\ Adds(r) \/ r.op = "invite" => r.pc \in Early \cup {"user"} \/ Fits(r.before, a)
  /\ r.op = "forgot" /\ r.pc = "insert token" => users[a.email].active
  /\ r.pc = "subject" => r.row = users[a.email] /\ r.row.active

MembersRead(r) ==
  LET a == r.arg
      b == r.before
  IN  /\ r.op = "add" /\ r.pc \in {"password", "insert member"} =>
           \A s \in Peers(a.scope) : b.members[<<s, a.email>>] = None
      /\ r.pc = "insert member" \/ (r.op = "invite" /\ r.pc = "insert token") => Row(b, a) = None
      /\ r.op = "patch" /\ r.pc # "member" => Row(b, a) # None /\ Row(b, a).active

(* What it holds. *)
Holds(r) ==
  LET a   == r.arg
      e   == r.arg.email
      row == members[<<r.arg.scope, r.arg.email>>]
  IN  /\ r.pc \in {"load user", "save user"} =>
           r.row = [users[e] EXCEPT !.active = IF a.active = None THEN @ ELSE a.active]
      /\ r.pc = "save user" => r.dirty = Differing(Preloaded, users[e], r.row)
      /\ r.pc \in {"load member", "save member"} =>
           r.row = IF r.op = "update" THEN Assigned(row, a) ELSE Member(a.role, a.active)
      /\ r.pc = "save member" => r.dirty = Differing({"role", "active"}, row, r.row)

Done(r) == Database = Made(r) /\ TokenRead(r) /\ TenantRead(r) /\ UserRead(r) /\ MembersRead(r) /\ Holds(r)

AloneInv ==
  /\ failures \in Nat
  /\ \A c \in Calls : call[c].before # None => Done(call[c]) /\ \A d \in Calls : d # c => call[d] = Idle


-----------------------------------------------------------------------------
(* What a query that writes makes of the tables.                           *)

LEMMA DatabaseOK == TablesOK => Database \in Databases
  BY DEF TablesOK, Database, Databases

LEMMA UserInserted ==
  ASSUME NEW a, users[a.email] = None,
         users' = [users EXCEPT ![a.email] = User(Type(a.scope), a.password)],
         UNCHANGED <<scopes, primary, members, tokens>>
  PROVE  Database' = WithUser(Database, a)
  BY DEF Database, WithUser

LEMMA PasswordSet ==
  ASSUME NEW a, users[a.email] # None, a.password # None,
         users' = [users EXCEPT ![a.email].password = a.password],
         UNCHANGED <<scopes, primary, members, tokens>>
  PROVE  Database' = WithUser(Database, a) /\ Database' = WithPassword(Database, a)
  BY DEF Database, WithUser, WithPassword

LEMMA UserLeft ==
  ASSUME TablesOK, NEW a, users[a.email] # None, a.password = None
  PROVE  WithUser(Database, a) = Database
  <1>1. [users EXCEPT ![a.email] = users[a.email]] = users
    BY DEF TablesOK
  <1> QED
    BY <1>1 DEF Database, WithUser

LEMMA MemberMade ==
  ASSUME NEW a, NEW role, NEW active,
         members' = [members EXCEPT ![<<a.scope, a.email>>] = Member(role, active)],
         UNCHANGED <<scopes, primary, users, tokens>>
  PROVE  Database' = WithMember(Database, a, role, active)
  BY DEF Database, WithMember

LEMMA MemberThere ==
  ASSUME TablesOK, NEW a, NEW role, NEW active, members[<<a.scope, a.email>>] = Member(role, active)
  PROVE  WithMember(Database, a, role, active) = Database
  <1>1. [members EXCEPT ![<<a.scope, a.email>>] = members[<<a.scope, a.email>>]] = members
    BY DEF TablesOK
  <1> QED
    BY <1>1 DEF Database, WithMember

LEMMA TokenMade ==
  ASSUME NEW a, NEW row, tokens' = [tokens EXCEPT ![a.token] = row],
         UNCHANGED <<scopes, primary, users, members>>
  PROVE  Database' = WithToken(Database, a, row)
  BY DEF Database, WithToken

LEMMA WithTenantIs ==
  ASSUME NEW t
  PROVE  WithTenant(Database, t) =
           [scopes |-> scopes \cup {t}, primary |-> primary \cup {t},
            users |-> users, members |-> members, tokens |-> tokens]
  <1> PICK s, p : s = scopes \cup {t} /\ p = primary \cup {t}
    OBVIOUS
  <1>1. Database.scopes = scopes /\ Database.primary = primary
    BY DEF Database
  <1>2. [Database EXCEPT !.scopes = s, !.primary = p] =
          [scopes |-> s, primary |-> p, users |-> users, members |-> members, tokens |-> tokens]
    <2> PICK b : b = [Database EXCEPT !.scopes = s]
      OBVIOUS
    <2>1. b = [scopes |-> s, primary |-> primary, users |-> users, members |-> members, tokens |-> tokens]
      BY DEF Database
    <2> PICK d : d = [b EXCEPT !.primary = p]
      OBVIOUS
    <2> DEFINE fields == {"scopes", "primary", "users", "members", "tokens"}
    <2>2. DOMAIN b = fields
      BY <2>1
    <2>3. DOMAIN d = fields /\ d = [f \in fields |-> d[f]]
      BY <2>2
    <2>4. d.scopes = s /\ d.primary = p /\ d.users = users /\ d.members = members /\ d.tokens = tokens
      BY <2>1, <2>2
    <2>5. d = [scopes |-> s, primary |-> p, users |-> users, members |-> members, tokens |-> tokens]
      BY <2>3, <2>4
    <2> QED
      BY <2>5
  <1>3. WithTenant(Database, t) = [Database EXCEPT !.scopes = s, !.primary = p]
    BY <1>1 DEF WithTenant
  <1> QED
    BY <1>2, <1>3

LEMMA TenantMade ==
  ASSUME NEW t, scopes' = scopes \cup {t}, primary' = primary \cup {t}, UNCHANGED <<users, members, tokens>>
  PROVE  Database' = WithTenant(Database, t)
  BY WithTenantIs DEF Database

LEMMA TenantThere ==
  ASSUME TablesOK, NEW t \in primary
  PROVE  WithTenant(Database, t) = Database
  <1>1. scopes \cup {t} = scopes /\ primary \cup {t} = primary
    BY DEF TablesOK
  <1> QED
    BY <1>1, WithTenantIs DEF Database

(* What it leaves. *)
LEMMA PartsKept ==
  ASSUME NEW b \in Databases, NEW a, NEW t, NEW role, NEW active
  PROVE  /\ WithUser(b, a).members = b.members /\ WithUser(b, a).tokens = b.tokens
         /\ WithTenant(b, t).users = b.users /\ WithTenant(b, t).members = b.members
         /\ WithUser(WithTenant(b, t), a).members = b.members
         /\ WithMember(WithUser(b, a), a, role, active).tokens = b.tokens
  BY DEF Databases, WithUser, WithTenant, WithMember

-----------------------------------------------------------------------------
(* Where a query leaves the call.                                          *)

Same(q, r) == q.op = r.op /\ q.arg = r.arg /\ q.before = r.before

LEMMA AfterEnd == ASSUME IInv, NEW c \in Calls, End(c) PROVE call'[c] = Idle
  BY DEF IInv, End

LEMMA AfterGoto ==
  ASSUME IInv, NEW c \in Calls, NEW pc, pc # "end", Goto(c, pc)
  PROVE  call'[c].pc = pc /\ Same(call'[c], call[c]) /\ call'[c].row = call[c].row /\ call'[c].dirty = call[c].dirty
  <1>1. call \in [Calls -> CallRows] /\ call[c] \in CallRows
    BY DEF IInv
  <1>2. call'[c] = [call[c] EXCEPT !.pc = pc]
    BY <1>1 DEF Goto
  <1> QED
    BY <1>1, <1>2 DEF CallRows, Same

LEMMA AfterHold ==
  ASSUME IInv, NEW c \in Calls, NEW pc, NEW row, Hold(c, pc, row)
  PROVE  call'[c].pc = pc /\ Same(call'[c], call[c]) /\ call'[c].row = row /\ call'[c].dirty = call[c].dirty
  <1>1. call \in [Calls -> CallRows] /\ call[c] \in CallRows
    BY DEF IInv
  <1>2. call'[c] = [[call[c] EXCEPT !.pc = pc] EXCEPT !.row = row]
    BY <1>1 DEF Hold
  <1> QED
    BY <1>1, <1>2 DEF CallRows, Same

LEMMA AfterMark ==
  ASSUME IInv, NEW c \in Calls, NEW pc, NEW dirty, Mark(c, pc, dirty)
  PROVE  call'[c].pc = pc /\ Same(call'[c], call[c]) /\ call'[c].row = call[c].row /\ call'[c].dirty = dirty
  <1>1. call \in [Calls -> CallRows] /\ call[c] \in CallRows
    BY DEF IInv
  <1>2. call'[c] = [[call[c] EXCEPT !.pc = pc] EXCEPT !.dirty = dirty]
    BY <1>1 DEF Mark
  <1> QED
    BY <1>1, <1>2 DEF CallRows, Same

(* A call that is alone goes on, or ends with what it promised.            *)
GoesOn(c)  == call'[c].before = call[c].before /\ Done(call[c])'
Keeps(c)   == call'[c] = Idle /\ Database' \in Promised(call[c].op, call[c].before, call[c].arg)
Settles(c) == GoesOn(c) \/ Keeps(c)

LEMMA ReadGoesOn ==
  ASSUME NEW c \in Calls, Reads, NEW q, q = call'[c], q.before = call[c].before, Done(q)
  PROVE  GoesOn(c)
  <1>1. Done(q)'
    BY DEF Reads, tables, Done, Database, Made, TokenRead, TenantRead, UserRead, MembersRead, Holds
  <1> QED
    BY <1>1 DEF GoesOn

LEMMA ReadsSame == Reads => Database' = Database
  BY DEF Reads, tables, Database


-----------------------------------------------------------------------------
(* The queries of a call that is alone.                                    *)

Alone(c) == call[c].before # None /\ Done(call[c])

LEMMA AloneFacts ==
  ASSUME IInv, NEW c \in Calls, Alone(c)
  PROVE  /\ call[c].op # "none" /\ call[c] \in CallRows /\ call[c].before \in Databases
         /\ Done(call[c]) /\ TablesOK /\ Database \in Databases
         /\ ArgOK(call[c]) /\ Found(call[c]) /\ TokenKept(call[c])
  <1>1. CallOK(call[c]) /\ call[c].op # "none"
    BY DEF IInv, Alone, CallOK
  <1>2. call[c] \in CallRows /\ call[c].before \in Databases
    BY <1>1 DEF CallOK, CallRows, Maybe, Alone
  <1> QED
    BY <1>1, <1>2, AtCall, DatabaseOK DEF IInv, Alone

LEMMA BaseParts ==
  ASSUME NEW r, r.before \in Databases
  PROVE  /\ Base(r).users = r.before.users /\ Base(r).members = r.before.members
         /\ WithUser(Base(r), r.arg).members = r.before.members
  <1>1. Base(r) = r.before \/ Base(r) = WithTenant(r.before, r.arg.scope)
    BY DEF Base
  <1> QED
    BY <1>1, PartsKept

LEMMA SameKnown ==
  ASSUME NEW r, NEW q, Same(q, r), r.pc \notin Early, q.pc \notin Early, TokenRead(r), TenantRead(r)
  PROVE  TokenRead(q) /\ TenantRead(q) /\ Base(q) = Base(r)
  BY DEF Same, Early, TokenRead, TenantRead, Base

(* Before the user is written nothing else is. *)
LEMMA AtBase ==
  ASSUME IInv, NEW c \in Calls, Alone(c), NEW r, r = call[c],
         ~UserIsMade(r), r.pc # "spend"
  PROVE  /\ Database = Base(r) /\ users = r.before.users /\ members = r.before.members
  <1>1. Database = Base(r) /\ r.before \in Databases
    BY AloneFacts DEF Done, Made
  <1>2. Database.users = users /\ Database.members = members
    BY DEF Database
  <1> QED
    BY <1>1, <1>2, BaseParts

(* A user that there is not has no membership. *)
LEMMA NoUserNoMember ==
  ASSUME IInv, NEW e \in Emails, users[e] = None
  PROVE  \A s \in Scopes : members[<<s, e>>] = None
  BY DEF IInv, MemberOK, FitsIn

LEMMA FindUserSettles ==
  ASSUME IInv, NEW c \in Calls, Alone(c), NEW absent, NEW found, FindUser(c, absent, found),
         \/ call[c].op = "add" /\ absent = "insert user" /\ found = "any member"
         \/ call[c].op = "invite" /\ absent = "insert token" /\ found = "member"
         \/ call[c].op = "accept" /\ absent = "insert user" /\ found = "password"
         \/ /\ call[c].op = "bootstrap" /\ absent = "insert user"
            /\ found = IF call[c].arg.password # None THEN "password" ELSE "member"
  PROVE  \/ GoesOn(c)
         \/ call'[c] = Idle /\ Database' = Base(call[c]) /\ ~Fits(call[c].before, call[c].arg)
  <1> PICK r, q : r = call[c] /\ q = call'[c]
    OBVIOUS
  <1> DEFINE a == r.arg
             b == r.before
             user == users[a.email]
  <1>1. /\ r.pc = "user" /\ Reads /\ r \in CallRows /\ b \in Databases
        /\ ArgOK(r) /\ Done(r) /\ TablesOK
    BY AloneFacts DEF FindUser, At
  <1>2. Database = Base(r) /\ users = b.users /\ members = b.members
    BY <1>1, AtBase DEF UserIsMade
  <1>3. a.email \in Emails /\ a.scope \in Scopes
    BY <1>1 DEF ArgOK, TablesOK
  <1>4. CASE user = None
    <2>1. Goto(c, absent)
      BY <1>4 DEF FindUser, Email
    <2>2. q.pc = absent /\ Same(q, r)
      BY <2>1, AfterGoto
    <2>3. TokenRead(q) /\ TenantRead(q) /\ Base(q) = Base(r)
      BY <1>1, <2>2, SameKnown DEF Early, Done
    <2>4. Made(q) = Base(r)
      BY <2>2, <2>3 DEF Made, UserIsMade
    <2>5. UserRead(q)
      BY <1>2, <1>4, <2>2 DEF UserRead, Fits, Adds, Same
    <2>6. MembersRead(q)
      <3>1. Row(b, a) = None
        BY <1>2, <1>3, <1>4, NoUserNoMember DEF Row
      <3> QED
        BY <2>2, <3>1 DEF MembersRead, Same
    <2>7. Holds(q)
      BY <2>2 DEF Holds
    <2> QED
      BY <1>1, <1>2, <2>2, <2>3, <2>4, <2>5, <2>6, <2>7, ReadGoesOn DEF Done, Same
  <1>5. CASE user # None /\ Mismatch(c, user)
    <2>1. End(c)
      BY <1>5 DEF FindUser, Email
    <2>2. ~Fits(b, a)
      BY <1>2, <1>5 DEF Fits, Mismatch, Scope
    <2> QED
      BY <1>1, <1>2, <2>1, <2>2, AfterEnd, ReadsSame
  <1>6. CASE user # None /\ ~Mismatch(c, user)
    <2>1. Goto(c, found)
      BY <1>6 DEF FindUser, Email
    <2>2. q.pc = found /\ Same(q, r)
      BY <2>1, AfterGoto
    <2>3. TokenRead(q) /\ TenantRead(q) /\ Base(q) = Base(r)
      BY <1>1, <2>2, SameKnown DEF Early, Done
    <2>4. Made(q) = Base(r)
      <3>1. CASE r.op = "bootstrap" /\ found = "member"
        <4>1. Made(q) = WithUser(Base(r), a)
          BY <2>2, <2>3, <3>1 DEF Made, UserIsMade, Adds, Same
        <4>2. WithUser(Database, a) = Database
          BY <1>1, <1>6, <3>1, UserLeft
        <4> QED
          BY <1>2, <4>1, <4>2
      <3>2. CASE ~(r.op = "bootstrap" /\ found = "member")
        <4>1. q.pc # "spend" /\ ~UserIsMade(q)
          BY <2>2, <3>2 DEF UserIsMade, Adds, Same
        <4> QED
          BY <2>3, <4>1 DEF Made
      <3> QED
        BY <3>1, <3>2
    <2>5. UserRead(q)
      BY <1>2, <1>6, <2>2 DEF UserRead, Fits, Mismatch, Scope, Same
    <2>6. MembersRead(q) /\ Holds(q)
      BY <2>2 DEF MembersRead, Holds, Same
    <2> QED
      BY <1>1, <1>2, <2>2, <2>3, <2>4, <2>5, <2>6, ReadGoesOn DEF Done, Same
  <1> QED
    BY <1>4, <1>5, <1>6


LEMMA WriteGoesOn ==
  ASSUME NEW c \in Calls, NEW q, q = call'[c], q.before = call[c].before, Database' = Made(q),
         TokenRead(q), TenantRead(q), UserRead(q)', MembersRead(q), Holds(q)'
  PROVE  GoesOn(c)
  <1>1. Done(q)'
    BY DEF Done, Made, TokenRead, TenantRead, MembersRead
  <1> QED
    BY <1>1 DEF GoesOn

LEMMA WrittenUser ==
  ASSUME IInv, NEW c \in Calls, Alone(c), NEW next, InsertUser(c, next) \/ SetPassword(c, next),
         Database' = WithUser(Database, call[c].arg), Goto(c, next), Fits(call[c].before, call[c].arg),
         \/ call[c].op = "add" /\ next = "insert member"
         \/ call[c].op \in {"accept", "bootstrap"} /\ next = "member",
         next = "insert member" => \A s \in Peers(call[c].arg.scope) : members[<<s, call[c].arg.email>>] = None
  PROVE  GoesOn(c)
  <1> PICK r, q : r = call[c] /\ q = call'[c]
    OBVIOUS
  <1> DEFINE a == r.arg
             b == r.before
  <1>1. /\ r.pc \in {"insert user", "password"} /\ b \in Databases
        /\ ArgOK(r) /\ Done(r) /\ TablesOK
    BY AloneFacts DEF InsertUser, SetPassword, At
  <1>2. Database = Base(r) /\ users = b.users /\ members = b.members
    BY <1>1, AtBase DEF UserIsMade
  <1>3. q.pc = next /\ Same(q, r)
    BY AfterGoto
  <1>4. TokenRead(q) /\ TenantRead(q) /\ Base(q) = Base(r)
    BY <1>1, <1>3, SameKnown DEF Early, Done
  <1>5. Made(q) = WithUser(Base(r), a)
    BY <1>3, <1>4 DEF Made, UserIsMade, Adds, Same
  <1>6. UserRead(q)' /\ Holds(q)'
    BY <1>3 DEF UserRead, Holds, Same, Fits
  <1>7. MembersRead(q)
    <2>1. a.scope \in Scopes
      BY <1>1 DEF ArgOK, TablesOK
    <2>2. a.scope \in Peers(a.scope)
      BY <2>1 DEF Peers, Scopes
    <2>3. next = "insert member" => Row(b, a) = None /\ \A s \in Peers(a.scope) : b.members[<<s, a.email>>] = None
      BY <1>2, <2>2 DEF Row
    <2> QED
      BY <1>3, <2>3 DEF MembersRead, Same
  <1> QED
    BY <1>2, <1>3, <1>4, <1>5, <1>6, <1>7, WriteGoesOn DEF Same

LEMMA InsertUserGoesOn ==
  ASSUME IInv, NEW c \in Calls, Alone(c), NEW next, InsertUser(c, next),
         \/ call[c].op = "add" /\ next = "insert member"
         \/ call[c].op \in {"accept", "bootstrap"} /\ next = "member"
  PROVE  GoesOn(c)
  <1> DEFINE a == call[c].arg
  <1>1. call[c].pc = "insert user" /\ ArgOK(call[c]) /\ Done(call[c]) /\ TablesOK
    BY AloneFacts DEF InsertUser, At
  <1>2. users[a.email] = None /\ users = call[c].before.users
    BY <1>1, AtBase DEF Done, UserRead, UserIsMade
  <1>3. /\ users' = [users EXCEPT ![a.email] = User(Type(a.scope), a.password)] /\ Goto(c, next)
        /\ UNCHANGED <<scopes, primary, members, tokens>>
    BY <1>2 DEF InsertUser, Email, Scope, WritesUsers
  <1>4. Database' = WithUser(Database, a)
    BY <1>2, <1>3, UserInserted
  <1>5. Fits(call[c].before, a)
    BY <1>2 DEF Fits
  <1>6. \A s \in Peers(a.scope) : members[<<s, a.email>>] = None
    BY <1>1, <1>2, NoUserNoMember DEF ArgOK, Peers, Scopes
  <1> QED
    BY <1>3, <1>4, <1>5, <1>6, WrittenUser

LEMMA SetPasswordGoesOn ==
  ASSUME IInv, NEW c \in Calls, Alone(c), NEW next, SetPassword(c, next),
         \/ call[c].op = "add" /\ next = "insert member"
         \/ call[c].op \in {"accept", "bootstrap"} /\ next = "member"
  PROVE  GoesOn(c)
  <1> DEFINE a == call[c].arg
  <1>1. call[c].pc = "password" /\ ArgOK(call[c]) /\ Done(call[c]) /\ Found(call[c])
    BY AloneFacts DEF SetPassword, At
  <1>2. users[a.email] # None
    BY <1>1 DEF Found, PastUserCheck, FitsIn
  <1>3. a.password # None
    BY <1>1, NullAssumption DEF ArgOK
  <1>4. /\ users' = [users EXCEPT ![a.email].password = a.password] /\ Goto(c, next)
        /\ UNCHANGED <<scopes, primary, members, tokens>>
    BY DEF SetPassword, Email, WritesUsers
  <1>5. Database' = WithUser(Database, a)
    BY <1>2, <1>3, <1>4, PasswordSet
  <1>6. Fits(call[c].before, a)
    BY <1>1 DEF Done, UserRead, Adds, Early
  <1>7. members = call[c].before.members
    BY <1>1, AtBase DEF UserIsMade
  <1>8. call[c].op = "add" => \A s \in Peers(a.scope) : members[<<s, a.email>>] = None
    BY <1>1, <1>7 DEF Done, MembersRead
  <1> QED
    BY <1>4, <1>5, <1>6, <1>8, WrittenUser

(* The last step of add and bootstrap, and the last but one of accept. *)
LEMMA MemberInserted ==
  ASSUME IInv, NEW c \in Calls, Alone(c), NEW next, InsertMember(c, next), Adds(call[c])
  PROVE  /\ Goto(c, next) /\ members[Key(c)] = None
         /\ Database' = WithMember(WithUser(Base(call[c]), call[c].arg), call[c].arg, call[c].arg.role, call[c].arg.active)
  <1> DEFINE a == call[c].arg
  <1>1. call[c].pc = "insert member" /\ Done(call[c]) /\ call[c].before \in Databases
    BY AloneFacts DEF InsertMember, At
  <1>2. Database = WithUser(Base(call[c]), a)
    BY <1>1 DEF Done, Made, UserIsMade
  <1>3. members = call[c].before.members
    <2>1. Database.members = members
      BY DEF Database
    <2> QED
      BY <1>1, <1>2, <2>1, BaseParts
  <1>4. members[<<a.scope, a.email>>] = None
    BY <1>1, <1>3 DEF Done, MembersRead, Row
  <1>5. /\ members' = [members EXCEPT ![<<a.scope, a.email>>] = Member(a.role, a.active)] /\ Goto(c, next)
        /\ UNCHANGED <<scopes, primary, users, tokens>>
    BY <1>4 DEF InsertMember, Key, Scope, Email, WritesMembers
  <1> QED
    BY <1>2, <1>4, <1>5, MemberMade DEF Key, Scope, Email

-----------------------------------------------------------------------------
(* addTenantUser and addClientUser.                                        *)

LEMMA AddUserSettles ==
  ASSUME IInv, NEW c \in Calls, Alone(c), AddUser(c), call[c].op = "add"
  PROVE  Settles(c)
  <1> PICK r, q : r = call[c] /\ q = call'[c]
    OBVIOUS
  <1> DEFINE a == r.arg
             b == r.before
  <1>1. /\ r \in CallRows /\ b \in Databases /\ ArgOK(r) /\ Done(r) /\ TablesOK /\ Found(r)
        /\ Base(r) = b /\ Promised(r.op, b, a) = {PromisedAdd(b, a)}
    BY AloneFacts DEF Base, Promised
  <1>2. CASE FindUser(c, "insert user", "any member")
    <2>1. ~Fits(b, a) => PromisedAdd(b, a) = b
      BY DEF PromisedAdd
    <2> QED
      BY <1>1, <1>2, <2>1, FindUserSettles DEF Settles, Keeps
  <1>3. CASE InsertUser(c, "insert member") \/ SetPassword(c, "insert member")
    BY <1>3, InsertUserGoesOn, SetPasswordGoesOn DEF Settles
  <1>4. CASE FindAnyMember(c)
    <2>1. r.pc = "any member" /\ Reads
      BY <1>4 DEF FindAnyMember, At
    <2>2. Database = b /\ users = b.users /\ members = b.members
      BY <1>1, <2>1, AtBase DEF UserIsMade
    <2>3. CASE \E s \in Peers(a.scope) : members[<<s, a.email>>] # None
      <3>1. End(c)
        BY <1>4, <2>3 DEF FindAnyMember, Goto, Scope, Email
      <3>2. PromisedAdd(b, a) = b
        BY <2>2, <2>3 DEF PromisedAdd
      <3> QED
        BY <1>1, <2>1, <2>2, <3>1, <3>2, AfterEnd, ReadsSame DEF Settles, Keeps
    <2>4. CASE \A s \in Peers(a.scope) : members[<<s, a.email>>] = None
      <3> PICK next : next = GivenPassword(c, "password", "insert member")
        OBVIOUS
      <3>1. Goto(c, next) /\ next \in {"password", "insert member"} /\ (next = "insert member" => a.password = None)
        BY <1>4, <2>4 DEF FindAnyMember, Scope, Email, GivenPassword
      <3>2. q.pc = next /\ Same(q, r)
        BY <3>1, AfterGoto
      <3>3. TokenRead(q) /\ TenantRead(q) /\ Base(q) = b
        BY <1>1, <2>1, <3>1, <3>2, SameKnown DEF Early, Done
      <3>4. Made(q) = b
        <4>1. CASE next = "password"
          BY <3>2, <3>3, <4>1 DEF Made, UserIsMade, Same
        <4>2. CASE next = "insert member"
          <5>1. Made(q) = WithUser(b, a)
            BY <3>2, <3>3, <4>2 DEF Made, UserIsMade, Adds, Same
          <5>2. users[a.email] # None
            BY <1>1, <2>1 DEF Found, PastUserCheck, FitsIn
          <5> QED
            BY <1>1, <2>2, <3>1, <4>2, <5>1, <5>2, UserLeft
        <4> QED
          BY <3>1, <4>1, <4>2
      <3>5. UserRead(q)
        BY <1>1, <2>1, <3>1, <3>2 DEF Done, UserRead, Adds, Early, Same
      <3>6. MembersRead(q)
        <4>1. a.scope \in Scopes
          BY <1>1, <2>1 DEF ArgOK, TablesOK
        <4>2. Row(b, a) = None
          BY <2>2, <2>4, <4>1 DEF Row, Peers, Scopes
        <4> QED
          BY <2>2, <2>4, <3>1, <3>2, <4>2 DEF MembersRead, Same
      <3>7. Holds(q)
        BY <3>1, <3>2 DEF Holds
      <3> QED
        BY <2>1, <2>2, <3>2, <3>3, <3>4, <3>5, <3>6, <3>7, ReadGoesOn DEF Done, Same, Settles
    <2> QED
      BY <2>3, <2>4
  <1>5. CASE InsertMember(c, "end")
    <2>1. /\ call'[c] = Idle
          /\ Database' = WithMember(WithUser(b, a), a, a.role, a.active)
      BY <1>1, <1>5, MemberInserted, AfterEnd DEF Goto, Adds
    <2>2. r.pc = "insert member"
      BY <1>5 DEF InsertMember, At
    <2>3. Fits(b, a) /\ \A s \in Peers(a.scope) : b.members[<<s, a.email>>] = None
      BY <1>1, <2>2 DEF Done, UserRead, MembersRead, Adds, Early
    <2>4. PromisedAdd(b, a) = WithMember(WithUser(b, a), a, a.role, a.active)
      BY <2>3 DEF PromisedAdd
    <2> QED
      BY <1>1, <2>1, <2>4 DEF Settles, Keeps
  <1> QED
    BY <1>2, <1>3, <1>4, <1>5 DEF AddUser


-----------------------------------------------------------------------------
(* save of a membership.                                                   *)

LEMMA MergedDiffering ==
  ASSUME NEW old \in MemberRows, NEW new \in MemberRows
  PROVE  Merged(old, new, Differing({"role", "active"}, old, new)) = new
  <1>1. DOMAIN old = {"role", "active"} /\ new = [f \in {"role", "active"} |-> new[f]]
    BY DEF MemberRows
  <1>2. \A f \in {"role", "active"} : (IF f \in Differing({"role", "active"}, old, new) THEN new[f] ELSE old[f]) = new[f]
    BY DEF Differing
  <1> QED
    BY <1>1, <1>2 DEF Merged

Saves(c) == call[c].op \in {"update", "accept", "bootstrap"}

(* Until the membership is written the tables stay as they are. *)
LEMMA MemberSteps ==
  ASSUME IInv, NEW c \in Calls, Alone(c), Saves(c), Reads, NEW q, q = call'[c], Same(q, call[c]),
         \/ call[c].pc = "member" /\ q.pc = "load member"
         \/ call[c].pc = "load member" /\ q.pc = "save member"
         \/ call[c].pc = "member" /\ q.pc = "insert member" /\ call[c].op # "update" /\ members[Key(c)] = None,
         Holds(q)
  PROVE  GoesOn(c)
  <1> PICK r : r = call[c]
    OBVIOUS
  <1> DEFINE b == r.before
  <1>1. b \in Databases /\ Done(r)
    BY AloneFacts
  <1>2. TokenRead(q) /\ TenantRead(q) /\ Base(q) = Base(r)
    BY <1>1, SameKnown DEF Early, Done
  <1>3. Made(q) = Made(r)
    <2>1. UserIsMade(q) <=> UserIsMade(r)
      BY DEF UserIsMade, Adds, Same, Saves
    <2> QED
      BY <1>2, <2>1 DEF Made, Same
  <1>4. UserRead(q)
    BY <1>1 DEF Done, UserRead, Adds, Early, Same
  <1>5. MembersRead(q)
    <2>1. CASE q.pc = "insert member"
      <3>1. Database = WithUser(Base(r), r.arg)
        BY <1>1, <2>1 DEF Done, Made, UserIsMade, Adds, Saves
      <3>2. Database.members = members
        BY DEF Database
      <3>3. members = b.members
        BY <1>1, <3>1, <3>2, BaseParts
      <3> QED
        BY <2>1, <3>3 DEF MembersRead, Row, Key, Scope, Email, Same, Saves
    <2>2. CASE q.pc # "insert member"
      BY <2>2 DEF MembersRead, Same, Saves
    <2> QED
      BY <2>1, <2>2
  <1> QED
    BY <1>1, <1>2, <1>3, <1>4, <1>5, ReadGoesOn DEF Done, Same

Target(c) == IF call[c].op = "update" THEN Assigned(members[Key(c)], call[c].arg) ELSE Member(call[c].arg.role, call[c].arg.active)

LEMMA MemberHeld ==
  ASSUME IInv, NEW c \in Calls, Alone(c), Saves(c), Reads, At(c, "member"), Hold(c, "load member", Target(c))
  PROVE  GoesOn(c)
  <1> PICK q : q = call'[c]
    OBVIOUS
  <1>1. q.pc = "load member" /\ Same(q, call[c]) /\ q.row = Target(c)
    BY AfterHold
  <1>2. Holds(q)
    BY <1>1 DEF Holds, Same, Target, Key, Scope, Email
  <1> QED
    BY <1>1, <1>2, MemberSteps DEF At

LEMMA MemberAbsent ==
  ASSUME IInv, NEW c \in Calls, Alone(c), call[c].op \in {"accept", "bootstrap"}, Reads, At(c, "member"),
         members[Key(c)] = None, Goto(c, "insert member")
  PROVE  GoesOn(c)
  <1> PICK q : q = call'[c]
    OBVIOUS
  <1>1. q.pc = "insert member" /\ Same(q, call[c])
    BY AfterGoto
  <1>2. Holds(q)
    BY <1>1 DEF Holds
  <1> QED
    BY <1>1, <1>2, MemberSteps DEF At, Saves

LEMMA SaveMemberSettles ==
  ASSUME IInv, NEW c \in Calls, Alone(c), Saves(c), NEW next, SaveMember(c, next)
  PROVE  \/ GoesOn(c)
         \/ /\ call[c].pc = "save member" /\ Goto(c, next)
            /\ Database' = WithMember(Made(call[c]), call[c].arg, Target(c).role, Target(c).active)
  <1> DEFINE a == call[c].arg
             old == members[<<a.scope, a.email>>]
             new == call[c].row
  <1>1. /\ call[c].pc \in {"load member", "save member"} /\ Done(call[c]) /\ ArgOK(call[c]) /\ Found(call[c])
        /\ HeldOK(call[c]) /\ TablesOK
    BY AloneFacts, AtCall DEF SaveMember, At
  <1>2. new = Target(c)
    BY <1>1 DEF Done, Holds, Target, Key, Scope, Email
  <1>3. CASE At(c, "load member")
    <2> PICK q, pc, dirty : q = call'[c] /\ pc = "save member" /\ dirty = Differing({"role", "active"}, old, new)
      OBVIOUS
    <2> HIDE DEF old, new
    <2>1. Mark(c, pc, dirty) /\ Reads
      BY <1>3 DEF SaveMember, At, Key, Scope, Email, old, new
    <2>2. q.pc = pc /\ Same(q, call[c]) /\ q.row = new /\ q.dirty = dirty
      <3>1. /\ call'[c].pc = pc /\ Same(call'[c], call[c]) /\ call'[c].row = call[c].row
            /\ call'[c].dirty = dirty
        BY ONLY <2>1, IInv, c \in Calls, AfterMark
      <3> QED
        BY <3>1 DEF new
    <2>3. Holds(q)
      BY <1>2, <2>2 DEF Holds, Same, Target, Key, Scope, Email, old, new
    <2> QED
      BY <1>3, <2>1, <2>2, <2>3, MemberSteps DEF At
  <1>4. CASE At(c, "save member")
    <2>1. call[c].dirty = Differing({"role", "active"}, old, new)
      BY <1>1, <1>4 DEF Done, Holds, At
    <2>2. old \in MemberRows /\ new \in MemberRows
      <3>1. a.scope \in Scopes /\ a.email \in Emails /\ old # None
        BY <1>1 DEF ArgOK, TablesOK, Found, PastMember, Saves
      <3> QED
        BY <1>1, <3>1 DEF TablesOK, Maybe, HeldOK
    <2>3. Merged(old, new, call[c].dirty) = new /\ new = Member(new.role, new.active)
      BY <2>1, <2>2, MergedDiffering DEF MemberRows, Member
    <2>4. /\ members' = [members EXCEPT ![<<a.scope, a.email>>] = Member(new.role, new.active)] /\ Goto(c, next)
          /\ UNCHANGED <<scopes, primary, users, tokens>>
      BY <1>4, <2>3 DEF SaveMember, At, Key, Scope, Email, WritesMembers
    <2>5. Database' = WithMember(Database, a, new.role, new.active)
      BY <2>4, MemberMade
    <2> QED
      BY <1>1, <1>2, <1>4, <2>4, <2>5 DEF Done, At
  <1> QED
    BY <1>3, <1>4 DEF SaveMember

-----------------------------------------------------------------------------
(* updateTenantUser and updateClientUser.                                  *)

LEMMA UpdateMemberSettles ==
  ASSUME IInv, NEW c \in Calls, Alone(c), UpdateMember(c), call[c].op = "update"
  PROVE  Settles(c)
  <1> PICK r : r = call[c]
    OBVIOUS
  <1> DEFINE a == r.arg
             b == r.before
             new == Assigned(Row(b, a), a)
  <1>1. /\ Done(r) /\ b \in Databases /\ Base(r) = b
        /\ Promised(r.op, b, a) = {IF Row(b, a) = None THEN b ELSE WithMember(b, a, new.role, new.active)}
    BY AloneFacts DEF Base, Promised
  <1>2. r.pc # "spend"
    BY DEF UpdateMember, FindMemberToUpdate, SaveMember, At
  <1>3. Database = b /\ members = b.members /\ Made(r) = b
    BY <1>1, <1>2, AtBase DEF UserIsMade, Adds, Made
  <1>4. Row(b, a) = members[Key(c)]
    BY <1>3 DEF Row, Key, Scope, Email
  <1>5. CASE FindMemberToUpdate(c, "end")
    <2>1. At(c, "member") /\ Reads
      BY <1>5 DEF FindMemberToUpdate
    <2>2. CASE Row(b, a) = None
      <3>1. End(c)
        BY <1>4, <1>5, <2>2 DEF FindMemberToUpdate, Goto
      <3> QED
        BY <1>1, <1>3, <2>1, <2>2, <3>1, AfterEnd, ReadsSame DEF Settles, Keeps
    <2>3. CASE Row(b, a) # None
      <3>1. Hold(c, "load member", Target(c))
        BY <1>4, <1>5, <2>3 DEF FindMemberToUpdate, Target
      <3> QED
        BY <2>1, <3>1, MemberHeld DEF Saves, Settles
    <2> QED
      BY <2>2, <2>3
  <1>6. CASE SaveMember(c, "end")
    <2>1. CASE GoesOn(c)
      BY <2>1 DEF Settles
    <2>2. CASE /\ r.pc = "save member" /\ Goto(c, "end")
               /\ Database' = WithMember(Made(r), a, Target(c).role, Target(c).active)
      <3>1. Row(b, a) # None
        BY <1>4, <2>2, AloneFacts DEF Found, PastMember, Key, Scope, Email
      <3>2. Target(c) = new
        BY <1>4 DEF Target
      <3> QED
        BY <1>1, <1>3, <2>2, <3>1, <3>2, AfterEnd DEF Goto, Settles, Keeps
    <2> QED
      BY <1>6, <2>1, <2>2, SaveMemberSettles DEF Saves
  <1> QED
    BY <1>5, <1>6 DEF UpdateMember


-----------------------------------------------------------------------------
(* acceptInvitation and resetPassword.                                     *)

LEMMA FindTokenSettles ==
  ASSUME IInv, NEW c \in Calls, Alone(c), NEW next, FindToken(c, next),
         \/ call[c].op = "accept" /\ next = "user"
         \/ call[c].op = "reset" /\ next = "password"
  PROVE  \/ GoesOn(c)
         \/ /\ call'[c] = Idle /\ Database' = call[c].before
            /\ call[c].before.tokens[call[c].arg.token].status # "open"
  <1> PICK r, q : r = call[c] /\ q = call'[c]
    OBVIOUS
  <1> DEFINE b == r.before
             row == tokens[r.arg.token]
  <1>1. r \in CallRows /\ Done(r) /\ r.pc = "token" /\ Reads /\ ArgOK(r)
    BY AloneFacts DEF FindToken, At
  <1>2. Database = b
    BY <1>1 DEF Done, Made, UserIsMade, Adds, Base
  <1>3. tokens = b.tokens
    <2>1. Database.tokens = tokens
      BY DEF Database
    <2> QED
      BY <1>2, <2>1
  <1>4. CASE row.status # "open"
    <2>1. End(c)
      BY <1>4 DEF FindToken
    <2> QED
      BY <1>1, <1>2, <1>3, <1>4, <2>1, AfterEnd, ReadsSame
  <1>5. CASE row.status = "open"
    <2> PICK a : a = [r.arg EXCEPT !.email = row.email, !.scope = row.scope, !.role = row.role, !.active = TRUE]
      OBVIOUS
    <2>1. call' = [call EXCEPT ![c].pc = next, ![c].arg = a]
      BY <1>5 DEF FindToken
    <2>2. call'[c] = [[call[c] EXCEPT !.pc = next] EXCEPT !.arg = a]
      BY <2>1 DEF IInv
    <2>3. q.pc = next /\ q.op = r.op /\ q.before = r.before /\ q.arg = a
      BY <1>1, <2>2 DEF CallRows
    <2>4. /\ a.email = row.email /\ a.scope = row.scope /\ a.role = row.role
          /\ a.active = TRUE /\ a.token = r.arg.token
      <3>1. r.arg \in Args
        BY <1>1 DEF ArgOK
      <3> QED
        BY <3>1 DEF Args
    <2>5. Made(q) = b
      BY <2>3 DEF Made, UserIsMade, Adds, Base
    <2>6. TokenRead(q)
      <3>1. q.before.tokens[q.arg.token] = row
        BY <1>3, <2>3, <2>4
      <3>2. /\ q.arg.email = row.email /\ q.arg.scope = row.scope /\ q.arg.role = row.role
            /\ q.arg.active = TRUE
        BY <2>3, <2>4, Zenon
      <3> QED
        BY <1>5, <3>1, <3>2, Zenon DEF TokenRead
    <2>7. TenantRead(q) /\ UserRead(q) /\ MembersRead(q) /\ Holds(q)
      BY <2>3 DEF TenantRead, UserRead, MembersRead, Holds, Adds
    <2> QED
      BY <1>1, <1>2, <2>3, <2>5, <2>6, <2>7, ReadGoesOn DEF Done
  <1> QED
    BY <1>4, <1>5

LEMMA SpendMakes ==
  ASSUME IInv, NEW c \in Calls, Alone(c), Spend(c)
  PROVE  LET a == call[c].arg IN
         call'[c] = Idle /\ Database' = WithToken(Database, a, [tokens[a.token] EXCEPT !.status = "used"])
  <1> PICK a : a = call[c].arg
    OBVIOUS
  <1>1. tokens' = [tokens EXCEPT ![a.token] = [tokens[a.token] EXCEPT !.status = "used"]]
        /\ End(c) /\ UNCHANGED <<scopes, primary, users, members>>
    BY DEF Spend, WritesTokens
  <1> QED
    BY <1>1, TokenMade, AfterEnd

(* Of the arguments only some matter to what is written. *)
LEMMA SameUser ==
  ASSUME NEW d, NEW a, NEW b, d.email = a.email, d.scope = a.scope, d.password = a.password
  PROVE  WithUser(b, d) = WithUser(b, a)
  <1> DEFINE Changed(e, s, p) ==
               [b EXCEPT !.users[e] = IF @ = None THEN User(Type(s), p)
                                      ELSE IF p = None THEN @ ELSE [@ EXCEPT !.password = p]]
  <1>1. \A x : WithUser(b, x) = Changed(x.email, x.scope, x.password)
    BY DEF WithUser
  <1> HIDE DEF Changed
  <1> QED
    BY <1>1

LEMMA SameMember ==
  ASSUME NEW d, NEW a, NEW b, NEW role, NEW active, d.email = a.email, d.scope = a.scope
  PROVE  WithMember(b, d, role, active) = WithMember(b, a, role, active)
  BY DEF WithMember

LEMMA SameToken ==
  ASSUME NEW d, NEW a, NEW b, NEW row, d.token = a.token
  PROVE  WithToken(b, d, row) = WithToken(b, a, row)
  BY DEF WithToken

LEMMA PromisedAcceptIs ==
  ASSUME NEW b, NEW a, a.email = b.tokens[a.token].email, a.scope = b.tokens[a.token].scope,
         a.role = b.tokens[a.token].role, a.active = TRUE, b.tokens[a.token].status = "open"
  PROVE  PromisedAccept(b, a.token, a.password) =
           IF ~Fits(b, a) THEN b
           ELSE WithToken(WithMember(WithUser(b, a), a, a.role, a.active), a, [b.tokens[a.token] EXCEPT !.status = "used"])
  <1> PICK row, d, used : /\ row = b.tokens[a.token] /\ used = [row EXCEPT !.status = "used"]
                          /\ d = [Arg(row.email, row.scope) EXCEPT !.password = a.password, !.token = a.token]
    OBVIOUS
  <1>1. d.email = a.email /\ d.scope = a.scope /\ d.password = a.password /\ d.token = a.token
    BY DEF Arg
  <1>2. Fits(b, d) <=> Fits(b, a)
    BY <1>1 DEF Fits
  <1>3. WithUser(b, d) = WithUser(b, a)
    BY ONLY <1>1, SameUser
  <1>4. \A x, y, z : WithMember(x, d, y, z) = WithMember(x, a, y, z)
    BY ONLY <1>1, SameMember
  <1>5. \A x, y : WithToken(x, d, y) = WithToken(x, a, y)
    BY ONLY <1>1, SameToken
  <1>6. PromisedAccept(b, a.token, a.password) =
          IF row.status # "open" \/ ~Fits(b, d) THEN b
          ELSE WithToken(WithMember(WithUser(b, d), d, row.role, TRUE), d, used)
    BY DEF PromisedAccept
  <1> PICK made : made = WithMember(WithUser(b, d), d, row.role, TRUE)
    OBVIOUS
  <1>7. made = WithMember(WithUser(b, a), a, a.role, a.active)
    <2>1. made = WithMember(WithUser(b, d), d, a.role, a.active)
      BY Zenon
    <2>2. \A x : WithMember(x, d, a.role, a.active) = WithMember(x, a, a.role, a.active)
      BY <1>4
    <2> QED
      BY <1>3, <2>1, <2>2, Zenon
  <1>8. CASE ~Fits(b, a)
    BY <1>2, <1>6, <1>8
  <1>9. CASE Fits(b, a)
    <2>1. PromisedAccept(b, a.token, a.password) = WithToken(made, d, used)
      BY <1>2, <1>6, <1>9
    <2> QED
      BY <1>5, <1>7, <1>9, <2>1
  <1> QED
    BY <1>8, <1>9

LEMMA SpendIsNext ==
  ASSUME IInv, NEW c \in Calls, Alone(c), call[c].op = "accept", Goto(c, "spend"),
         call[c].pc \in {"insert member", "save member"},
         Database' = WithMember(WithUser(call[c].before, call[c].arg), call[c].arg, call[c].arg.role, call[c].arg.active)
  PROVE  GoesOn(c)
  <1> PICK r, q : r = call[c] /\ q = call'[c]
    OBVIOUS
  <1>1. Done(r) /\ q.pc = "spend" /\ Same(q, r)
    BY AloneFacts, AfterGoto
  <1>2. Made(q) = WithMember(WithUser(r.before, r.arg), r.arg, r.arg.role, r.arg.active)
    BY <1>1 DEF Made, UserIsMade, Same
  <1>3. TokenRead(q) /\ TenantRead(q)
    BY <1>1, SameKnown DEF Early, Done
  <1>4. Fits(r.before, r.arg)
    BY <1>1 DEF Done, UserRead, Adds, Early
  <1>5. UserRead(q)' /\ MembersRead(q) /\ Holds(q)'
    BY <1>1, <1>4 DEF UserRead, MembersRead, Holds, Same, Fits
  <1> QED
    BY <1>1, <1>2, <1>3, <1>5, WriteGoesOn DEF Same

LEMMA AcceptInvitationSettles ==
  ASSUME IInv, NEW c \in Calls, Alone(c), AcceptInvitation(c)
  PROVE  Settles(c)
  <1> PICK r : r = call[c]
    OBVIOUS
  <1> DEFINE a == r.arg
             b == r.before
             row == b.tokens[a.token]
  <1>1. /\ r.op = "accept" /\ Done(r) /\ b \in Databases /\ Base(r) = b
        /\ Promised(r.op, b, a) = {PromisedAccept(b, a.token, a.password)}
    BY AloneFacts DEF AcceptInvitation, Is, Base, Promised
  <1>2. r.pc # "token" =>
          /\ row.status = "open" /\ row.email = a.email /\ row.scope = a.scope
          /\ row.role = a.role /\ a.active = TRUE
    BY <1>1 DEF Done, TokenRead
  <1>3. CASE FindToken(c, "user")
    <2>1. row.status # "open" => PromisedAccept(b, a.token, a.password) = b
      BY DEF PromisedAccept
    <2> QED
      BY <1>1, <1>3, <2>1, FindTokenSettles DEF Settles, Keeps
  <1>4. CASE FindUser(c, "insert user", "password")
    <2>1. r.pc = "user"
      BY <1>4 DEF FindUser, At
    <2>2. ~Fits(b, a) => PromisedAccept(b, a.token, a.password) = b
      <3>1. row.status = "open" /\ row.email = a.email /\ row.scope = a.scope /\ row.role = a.role /\ a.active = TRUE
        BY <1>2, <2>1
      <3> QED
        BY <3>1, PromisedAcceptIs
    <2> QED
      BY <1>1, <1>4, <2>2, FindUserSettles DEF Settles, Keeps
  <1>5. CASE InsertUser(c, "member") \/ SetPassword(c, "member")
    BY <1>1, <1>5, InsertUserGoesOn, SetPasswordGoesOn DEF Settles
  <1>6. CASE FindMemberToUpdate(c, "insert member")
    <2>1. At(c, "member") /\ Reads
      BY <1>6 DEF FindMemberToUpdate
    <2>2. CASE members[Key(c)] = None
      <3>1. Goto(c, "insert member")
        BY <1>6, <2>2 DEF FindMemberToUpdate
      <3> QED
        BY <1>1, <2>1, <2>2, <3>1, MemberAbsent DEF Settles
    <2>3. CASE members[Key(c)] # None
      <3>1. a.role # None /\ a.active # None
        <4>1. a.role \in Roles(a.scope)
          BY <1>1, <2>1, AloneFacts DEF ArgOK, At
        <4> QED
          BY <1>2, <2>1, <4>1, NullAssumption DEF At, Roles, AnyRole
      <3>2. Target(c) = Assigned(members[Key(c)], a)
        BY <1>1, <1>2, <2>1, <3>1 DEF Target, Assigned, At
      <3>3. Hold(c, "load member", Target(c))
        BY <1>6, <2>3, <3>2 DEF FindMemberToUpdate
      <3> QED
        BY <1>1, <2>1, <3>3, MemberHeld DEF Saves, Settles
    <2> QED
      BY <2>2, <2>3
  <1>7. CASE InsertMember(c, "spend")
    <2>1. r.pc = "insert member"
      BY <1>7 DEF InsertMember, At
    <2> QED
      BY <1>1, <1>2, <1>7, <2>1, MemberInserted, SpendIsNext DEF Adds, Settles
  <1>8. CASE SaveMember(c, "spend")
    <2>1. CASE GoesOn(c)
      BY <2>1 DEF Settles
    <2>2. CASE /\ r.pc = "save member" /\ Goto(c, "spend")
               /\ Database' = WithMember(Made(r), a, Target(c).role, Target(c).active)
      <3>1. Made(r) = WithUser(b, a)
        BY <1>1, <2>2 DEF Made, UserIsMade, Adds
      <3>2. Target(c).role = a.role /\ Target(c).active = a.active
        BY <1>1 DEF Target, Member
      <3> QED
        BY <1>1, <2>2, <3>1, <3>2, SpendIsNext DEF Settles
    <2> QED
      BY <1>1, <1>8, <2>1, <2>2, SaveMemberSettles DEF Saves
  <1>9. CASE Spend(c)
    <2>1. r.pc = "spend"
      BY <1>9 DEF Spend, At
    <2>2. Database = WithMember(WithUser(b, a), a, a.role, a.active)
      BY <1>1, <2>1 DEF Done, Made, UserIsMade
    <2>3. tokens = b.tokens
      <3>1. Database.tokens = tokens
        BY DEF Database
      <3> QED
        BY <1>1, <2>2, <3>1, PartsKept
    <2>4. Fits(b, a)
      BY <1>1, <2>1 DEF Done, UserRead, Adds, Early
    <2>5. Database' = WithToken(WithMember(WithUser(b, a), a, a.role, a.active), a, [row EXCEPT !.status = "used"])
      BY <1>2, <1>9, <2>1, <2>2, <2>3, SpendMakes
    <2>6. PromisedAccept(b, a.token, a.password) = Database'
      <3>1. row.status = "open" /\ row.email = a.email /\ row.scope = a.scope /\ row.role = a.role /\ a.active = TRUE
        BY <1>2, <2>1
      <3> QED
        BY <2>4, <2>5, <3>1, PromisedAcceptIs
    <2> QED
      BY <1>1, <1>9, <2>6, SpendMakes DEF Settles, Keeps
  <1> QED
    BY <1>3, <1>4, <1>5, <1>6, <1>7, <1>8, <1>9 DEF AcceptInvitation


LEMMA ResetPasswordSettles ==
  ASSUME IInv, NEW c \in Calls, Alone(c), ResetPassword(c)
  PROVE  Settles(c)
  <1> PICK r, q : r = call[c] /\ q = call'[c]
    OBVIOUS
  <1> DEFINE a == r.arg
             b == r.before
             row == b.tokens[a.token]
  <1>1. /\ r.op = "reset" /\ Done(r) /\ b \in Databases /\ Base(r) = b /\ ArgOK(r) /\ Found(r)
        /\ Promised(r.op, b, a) = {PromisedReset(b, a)}
    BY AloneFacts DEF ResetPassword, Is, Base, Promised
  <1>2. r.pc # "token" => row.status = "open" /\ row.email = a.email
    BY <1>1 DEF Done, TokenRead
  <1>3. CASE FindToken(c, "password")
    <2>1. row.status # "open" => PromisedReset(b, a) = b
      BY DEF PromisedReset
    <2> QED
      BY <1>1, <1>3, <2>1, FindTokenSettles DEF Settles, Keeps
  <1>4. CASE SetPassword(c, "spend")
    <2>1. r.pc = "password"
      BY <1>4 DEF SetPassword, At
    <2>2. Database = b
      BY <1>1, <2>1, AtBase DEF UserIsMade, Adds
    <2>3. users[a.email] # None /\ a.password # None
      BY <1>1, <2>1, NullAssumption DEF Found, PastUser, ArgOK
    <2>4. /\ users' = [users EXCEPT ![a.email].password = a.password] /\ Goto(c, "spend")
          /\ UNCHANGED <<scopes, primary, members, tokens>>
      BY <1>4 DEF SetPassword, Email, WritesUsers
    <2>5. Database' = WithPassword(b, a)
      BY <2>2, <2>3, <2>4, PasswordSet
    <2>6. q.pc = "spend" /\ Same(q, r)
      BY <2>4, AfterGoto
    <2>7. Made(q) = WithPassword(b, a)
      BY <1>1, <2>6 DEF Made, UserIsMade, Adds, Same
    <2>8. TokenRead(q) /\ TenantRead(q)
      BY <1>1, <2>1, <2>6, SameKnown DEF Early, Done
    <2>9. UserRead(q)' /\ MembersRead(q) /\ Holds(q)'
      BY <1>1, <2>6 DEF UserRead, MembersRead, Holds, Adds, Same
    <2> QED
      BY <2>5, <2>6, <2>7, <2>8, <2>9, WriteGoesOn DEF Same, Settles
  <1>5. CASE Spend(c)
    <2>1. r.pc = "spend"
      BY <1>5 DEF Spend, At
    <2>2. Database = WithPassword(b, a)
      BY <1>1, <2>1 DEF Done, Made, UserIsMade, Adds
    <2>3. tokens = b.tokens
      <3>1. Database.tokens = tokens
        BY DEF Database
      <3>2. WithPassword(b, a).tokens = b.tokens
        BY <1>1 DEF WithPassword, Databases
      <3> QED
        BY <2>2, <3>1, <3>2
    <2>4. call'[c] = Idle /\ Database' = WithToken(WithPassword(b, a), a, [row EXCEPT !.status = "used"])
      BY <1>5, <2>2, <2>3, SpendMakes
    <2>5. PromisedReset(b, a) = WithToken(WithPassword(b, a), a, [row EXCEPT !.status = "used"])
      BY <1>2, <2>1 DEF PromisedReset, WithPassword
    <2> QED
      BY <1>1, <2>4, <2>5 DEF Settles, Keeps
  <1> QED
    BY <1>3, <1>4, <1>5 DEF ResetPassword

-----------------------------------------------------------------------------
(* createTenantInvitation and createClientInvitation.                      *)

LEMMA TokenInserted ==
  ASSUME IInv, NEW c \in Calls, NEW row, InsertToken(c, row)
  PROVE  call'[c] = Idle /\ Database' = WithToken(Database, call[c].arg, row)
  <1> PICK a : a = call[c].arg
    OBVIOUS
  <1>1. tokens' = [tokens EXCEPT ![a.token] = row] /\ End(c) /\ UNCHANGED <<scopes, primary, users, members>>
    BY DEF InsertToken, WritesTokens
  <1> QED
    BY <1>1, TokenMade, AfterEnd

LEMMA InviteSettles ==
  ASSUME IInv, NEW c \in Calls, Alone(c), Invite(c), call[c].op = "invite"
  PROVE  Settles(c)
  <1> PICK r, q : r = call[c] /\ q = call'[c]
    OBVIOUS
  <1> DEFINE a == r.arg
             b == r.before
             row == Invitation(a.scope, a.email, a.role)
             promised == IF Fits(b, a) /\ Row(b, a) = None THEN WithToken(b, a, row) ELSE b
  <1>1. /\ Done(r) /\ b \in Databases /\ Base(r) = b /\ Promised(r.op, b, a) = {promised}
    BY AloneFacts DEF Base, Promised
  <1>2. r.pc # "spend"
    BY DEF Invite, FindUser, FindMember, InsertToken, At
  <1>3. Database = b /\ members = b.members
    BY <1>1, <1>2, AtBase DEF UserIsMade, Adds
  <1>4. CASE FindUser(c, "insert token", "member")
    BY <1>1, <1>4, FindUserSettles DEF Settles, Keeps
  <1>5. CASE FindMember(c, "insert token", "end")
    <2>1. r.pc = "member" /\ Reads
      BY <1>5 DEF FindMember, At
    <2>2. Row(b, a) = members[Key(c)]
      BY <1>3 DEF Row, Key, Scope, Email
    <2>3. CASE Row(b, a) # None
      <3>1. End(c)
        BY <1>5, <2>2, <2>3 DEF FindMember, Goto
      <3> QED
        BY <1>1, <1>3, <2>1, <2>3, <3>1, AfterEnd, ReadsSame DEF Settles, Keeps
    <2>4. CASE Row(b, a) = None
      <3>1. Goto(c, "insert token")
        BY <1>5, <2>2, <2>4 DEF FindMember
      <3>2. q.pc = "insert token" /\ Same(q, r)
        BY <3>1, AfterGoto
      <3>3. Made(q) = b
        BY <3>2 DEF Made, UserIsMade, Adds, Base, Same
      <3>4. TokenRead(q) /\ TenantRead(q)
        BY <3>2 DEF TokenRead, TenantRead, Same
      <3>5. UserRead(q) /\ MembersRead(q) /\ Holds(q)
        BY <1>1, <2>1, <2>4, <3>2 DEF Done, UserRead, MembersRead, Holds, Adds, Early, Same
      <3> QED
        BY <1>3, <2>1, <3>2, <3>3, <3>4, <3>5, ReadGoesOn DEF Done, Same, Settles
    <2> QED
      BY <2>3, <2>4
  <1>6. CASE InsertToken(c, row)
    <2>1. r.pc = "insert token"
      BY <1>6 DEF InsertToken, At
    <2>2. Fits(b, a) /\ Row(b, a) = None
      BY <1>1, <2>1 DEF Done, UserRead, MembersRead, Early
    <2> QED
      BY <1>1, <1>3, <1>6, <2>2, TokenInserted DEF Settles, Keeps
  <1> QED
    BY <1>4, <1>5, <1>6 DEF Invite, Scope, Email

-----------------------------------------------------------------------------
(* requestPasswordReset and signInWithGoogle.                              *)

LEMMA FindActiveUserSettles ==
  ASSUME IInv, NEW c \in Calls, Alone(c), NEW next, FindActiveUser(c, next),
         \/ call[c].op = "forgot" /\ next = "insert token"
         \/ call[c].op = "google" /\ next = "subject"
  PROVE  \/ GoesOn(c)
         \/ /\ call'[c] = Idle /\ Database' = call[c].before
            /\ ~(call[c].before.users[call[c].arg.email] # None /\ call[c].before.users[call[c].arg.email].active)
  <1> PICK r, q : r = call[c] /\ q = call'[c]
    OBVIOUS
  <1> DEFINE b == r.before
  <1> PICK user : user = users[r.arg.email]
    OBVIOUS
  <1>1. r.pc = "user" /\ Reads /\ Done(r)
    BY AloneFacts DEF FindActiveUser, At
  <1>2. Database = b /\ users = b.users
    BY <1>1, AtBase DEF UserIsMade, Adds, Base
  <1>3. CASE user = None \/ ~user.active
    <2>1. End(c)
      BY <1>3 DEF FindActiveUser, Email
    <2> QED
      BY <1>1, <1>2, <1>3, <2>1, AfterEnd, ReadsSame
  <1>4. CASE user # None /\ user.active
    <2>1. Hold(c, next, user)
      BY <1>4 DEF FindActiveUser, Email
    <2>2. q.pc = next /\ Same(q, r) /\ q.row = user
      <3>1. call'[c].pc = next /\ Same(call'[c], call[c]) /\ call'[c].row = user
        BY ONLY <2>1, IInv, c \in Calls, AfterHold
      <3> QED
        BY <3>1
    <2>3. Made(q) = b
      BY <2>2 DEF Made, UserIsMade, Adds, Base, Same
    <2>4. TokenRead(q) /\ TenantRead(q) /\ MembersRead(q) /\ Holds(q)
      BY <2>2 DEF TokenRead, TenantRead, MembersRead, Holds, Same
    <2>5. UserRead(q)
      BY <1>4, <2>2 DEF UserRead, Adds, Same
    <2> QED
      BY <1>1, <1>2, <2>2, <2>3, <2>4, <2>5, ReadGoesOn DEF Done, Same
  <1> QED
    BY <1>3, <1>4

LEMMA ForgotSettles ==
  ASSUME IInv, NEW c \in Calls, Alone(c), RequestPasswordReset(c)
  PROVE  Settles(c)
  <1> PICK r : r = call[c]
    OBVIOUS
  <1> DEFINE a == r.arg
             b == r.before
             promised == IF b.users[a.email] # None /\ b.users[a.email].active THEN WithToken(b, a, Reset(a.email)) ELSE b
  <1>1. /\ r.op = "forgot" /\ Done(r) /\ Base(r) = b /\ Found(r) /\ Promised(r.op, b, a) = {promised}
    BY AloneFacts DEF RequestPasswordReset, Is, Base, Promised
  <1>2. CASE FindActiveUser(c, "insert token")
    BY <1>1, <1>2, FindActiveUserSettles DEF Settles, Keeps
  <1>3. CASE InsertToken(c, Reset(a.email))
    <2>1. r.pc = "insert token"
      BY <1>3 DEF InsertToken, At
    <2>2. Database = b /\ users = b.users
      BY <1>1, <2>1, AtBase DEF UserIsMade, Adds
    <2>3. b.users[a.email] # None /\ b.users[a.email].active
      BY <1>1, <2>1, <2>2 DEF Found, PastUser, Done, UserRead
    <2> QED
      BY <1>1, <1>3, <2>2, <2>3, TokenInserted DEF Settles, Keeps
  <1> QED
    BY <1>2, <1>3 DEF RequestPasswordReset, Email


LEMMA SignInSettles ==
  ASSUME IInv, NEW c \in Calls, Alone(c), SignInWithGoogle(c)
  PROVE  Settles(c)
  <1> PICK r : r = call[c]
    OBVIOUS
  <1> DEFINE a == r.arg
             b == r.before
             user == b.users[a.email]
             promised == IF user # None /\ user.active /\ user.subject = None
                         THEN [b EXCEPT !.users[a.email].subject = a.subject] ELSE b
  <1>1. /\ r.op = "google" /\ Done(r) /\ Base(r) = b /\ Found(r) /\ Promised(r.op, b, a) = {promised}
    BY AloneFacts DEF SignInWithGoogle, Is, Base, Promised
  <1>2. CASE FindActiveUser(c, "subject")
    <2>1. ~(user # None /\ user.active) => promised = b
      OBVIOUS
    <2> QED
      BY <1>1, <1>2, <2>1, FindActiveUserSettles DEF Settles, Keeps
  <1>3. CASE BindSubject(c)
    <2>1. r.pc = "subject" /\ End(c) /\ UNCHANGED <<scopes, primary, members, tokens>>
      BY <1>3 DEF BindSubject, At, WritesUsers
    <2>2. Database = b /\ users = b.users
      BY <1>1, <2>1, AtBase DEF UserIsMade, Adds
    <2>3. r.row = user /\ user.active /\ user # None
      BY <1>1, <2>1, <2>2 DEF Found, PastUser, Done, UserRead
    <2>4. CASE user.subject = None
      <3>1. users' = [users EXCEPT ![a.email].subject = a.subject]
        BY <1>3, <2>3, <2>4 DEF BindSubject, Email
      <3>2. Database' = [Database EXCEPT !.users[a.email].subject = a.subject]
        BY <2>1, <3>1 DEF Database
      <3> QED
        BY <1>1, <2>1, <2>2, <2>3, <2>4, <3>2, AfterEnd DEF Settles, Keeps
    <2>5. CASE user.subject # None
      <3>1. Database' = Database
        BY <1>3, <2>1, <2>3, <2>5 DEF BindSubject, Database
      <3> QED
        BY <1>1, <2>1, <2>2, <2>5, <3>1, AfterEnd DEF Settles, Keeps
    <2> QED
      BY <2>4, <2>5
  <1> QED
    BY <1>2, <1>3 DEF SignInWithGoogle


-----------------------------------------------------------------------------
(* updateUser.                                                             *)

Patched(user, active) == [user EXCEPT !.active = IF active = None THEN @ ELSE active]

LEMMA PatchedIs ==
  ASSUME NEW old \in UserRows, NEW active
  PROVE  /\ Merged(old, Patched(old, active), Differing(Preloaded, old, Patched(old, active))) = Patched(old, active)
         /\ active = None => Patched(old, active) = old
         /\ active # None => Patched(old, active) = [old EXCEPT !.active = active]
  <1> DEFINE new == Patched(old, active)
             columns == {"type", "password", "active", "subject"}
  <1>1. DOMAIN old = columns /\ old = [f \in columns |-> old[f]]
    BY DEF UserRows
  <1>2. new = [f \in columns |-> new[f]] /\ \A f \in columns : f # "active" => new[f] = old[f]
    BY <1>1 DEF Patched
  <1>3. \A f \in columns : (IF f \in Differing(Preloaded, old, new) THEN new[f] ELSE old[f]) = new[f]
    BY <1>2 DEF Differing, Preloaded
  <1>4. Merged(old, new, Differing(Preloaded, old, new)) = new
    <2> HIDE DEF new
    <2> QED
      BY <1>1, <1>2, <1>3 DEF Merged
  <1>5. active = None => new = old
    BY <1>1 DEF Patched
  <1>6. active # None => new = [old EXCEPT !.active = active]
    BY DEF Patched
  <1> QED
    BY <1>4, <1>5, <1>6

(* Until the user is saved the tables stay as they are. *)
LEMMA PatchGoesOn ==
  ASSUME IInv, NEW c \in Calls, Alone(c), call[c].op = "patch", Reads, NEW q, q = call'[c], Same(q, call[c]),
         q.pc \in {"preload", "load user", "save user"}, call[c].pc # "save user",
         Row(call[c].before, call[c].arg) # None, Row(call[c].before, call[c].arg).active,
         Holds(q)
  PROVE  GoesOn(c)
  <1>1. Database = call[c].before
    BY AloneFacts DEF Done, Made, UserIsMade, Adds, Base, Alone, CallOK, Queries, IInv
  <1>2. Made(q) = call[c].before
    BY DEF Made, UserIsMade, Adds, Base, Same
  <1>3. TokenRead(q) /\ TenantRead(q) /\ UserRead(q) /\ MembersRead(q)
    BY DEF TokenRead, TenantRead, UserRead, MembersRead, Adds, Same
  <1> QED
    BY <1>1, <1>2, <1>3, ReadGoesOn DEF Done, Same

LEMMA UpdateUserSettles ==
  ASSUME IInv, NEW c \in Calls, Alone(c), UpdateUser(c)
  PROVE  Settles(c)
  <1> PICK r, q : r = call[c] /\ q = call'[c]
    OBVIOUS
  <1> DEFINE a == r.arg
             b == r.before
             promised == IF Row(b, a) # None /\ Row(b, a).active /\ a.active # None
                         THEN [b EXCEPT !.users[a.email].active = a.active] ELSE b
  <1>1. /\ r.op = "patch" /\ Done(r) /\ b \in Databases /\ Base(r) = b /\ Found(r) /\ ArgOK(r) /\ TablesOK
        /\ Promised(r.op, b, a) = {promised}
    BY AloneFacts DEF UpdateUser, Is, Base, Promised
  <1>2. r.pc \in {"member", "preload", "load user", "save user"}
    BY DEF UpdateUser, FindOneInTenant, At
  <1>3. Database = b /\ users = b.users /\ members = b.members
    BY <1>1, <1>2, AtBase DEF UserIsMade, Adds
  <1>4. r.pc # "member" => Row(b, a) # None /\ Row(b, a).active
    BY <1>1 DEF Done, MembersRead
  <1> PICK user : user = users[a.email]
    OBVIOUS
  <1>5. CASE FindOneInTenant(c)
    <2>1. r.pc = "member" /\ Reads
      BY <1>5 DEF FindOneInTenant, At
    <2>2. Row(b, a) = members[Key(c)]
      BY <1>3 DEF Row, Key, Scope, Email
    <2>3. CASE Row(b, a) # None /\ Row(b, a).active
      <3>1. Goto(c, "preload")
        BY <1>5, <2>2, <2>3 DEF FindOneInTenant
      <3>2. q.pc = "preload" /\ Same(q, r)
        BY <3>1, AfterGoto
      <3>3. Holds(q)
        BY <3>2 DEF Holds
      <3> QED
        BY <1>1, <2>1, <2>3, <3>2, <3>3, PatchGoesOn DEF Settles
    <2>4. CASE ~(Row(b, a) # None /\ Row(b, a).active)
      <3>1. End(c)
        BY <1>5, <2>2, <2>4 DEF FindOneInTenant, Goto
      <3> QED
        BY <1>1, <1>3, <2>1, <2>4, <3>1, AfterEnd, ReadsSame DEF Settles, Keeps
    <2> QED
      BY <2>3, <2>4
  <1>6. CASE At(c, "preload")
    <2> PICK row : row = Patched(user, a.active)
      OBVIOUS
    <2>1. Hold(c, "load user", row) /\ Reads
      BY <1>6 DEF UpdateUser, FindOneInTenant, At, Email, Patched
    <2>2. q.pc = "load user" /\ Same(q, r) /\ q.row = row
      <3>1. call'[c].pc = "load user" /\ Same(call'[c], call[c]) /\ call'[c].row = row
        BY ONLY <2>1, IInv, c \in Calls, AfterHold
      <3> QED
        BY <3>1
    <2>3. Holds(q)
      BY <2>2 DEF Holds, Same, Patched
    <2> QED
      BY <1>1, <1>4, <1>6, <2>1, <2>2, <2>3, PatchGoesOn DEF At, Settles
  <1>7. r.pc \in {"load user", "save user"} => r.row = Patched(user, a.active) /\ user \in UserRows
    <2>1. r.pc \in {"load user", "save user"} => a.email \in Emails /\ user # None
      BY <1>1 DEF Found, PastUser, ArgOK
    <2> QED
      BY <1>1, <2>1 DEF Done, Holds, Patched, TablesOK, Maybe
  <1>8. CASE At(c, "load user")
    <2> PICK dirty : dirty = Differing(Preloaded, user, r.row)
      OBVIOUS
    <2>1. Mark(c, "save user", dirty) /\ Reads
      BY <1>8 DEF UpdateUser, FindOneInTenant, At, Email
    <2>2. q.pc = "save user" /\ Same(q, r) /\ q.row = r.row /\ q.dirty = dirty
      <3>1. /\ call'[c].pc = "save user" /\ Same(call'[c], call[c]) /\ call'[c].row = call[c].row
            /\ call'[c].dirty = dirty
        BY ONLY <2>1, IInv, c \in Calls, AfterMark
      <3> QED
        BY <3>1
    <2>3. Holds(q)
      BY <1>7, <1>8, <2>2 DEF Holds, Same, Patched, At
    <2> QED
      BY <1>1, <1>4, <1>8, <2>1, <2>2, <2>3, PatchGoesOn DEF At, Settles
  <1>9. CASE At(c, "save user")
    <2>1. r.dirty = Differing(Preloaded, user, r.row) /\ r.row = Patched(user, a.active) /\ user \in UserRows
      BY <1>1, <1>7, <1>9 DEF Done, Holds, At
    <2>2. /\ users' = [users EXCEPT ![a.email] = Merged(user, r.row, r.dirty)] /\ End(c)
          /\ UNCHANGED <<scopes, primary, members, tokens>>
      BY <1>9 DEF UpdateUser, FindOneInTenant, At, Email, WritesUsers
    <2>3. users' = [users EXCEPT ![a.email] = r.row]
      <3>1. Merged(user, r.row, r.dirty) = r.row
        BY ONLY <2>1, PatchedIs
      <3> QED
        BY <2>2, <3>1
    <2>4. Row(b, a) # None /\ Row(b, a).active
      BY <1>4, <1>9 DEF At
    <2>5. CASE a.active = None
      <3>1. r.row = user
        BY ONLY <2>1, <2>5, PatchedIs
      <3>2. users' = users
        BY <1>1, <2>3, <3>1 DEF TablesOK
      <3>3. Database' = Database
        BY <2>2, <3>2 DEF Database
      <3> QED
        BY <1>1, <1>3, <2>2, <2>5, <3>3, AfterEnd DEF Settles, Keeps
    <2>6. CASE a.active # None
      <3>1. r.row = [user EXCEPT !.active = a.active]
        BY ONLY <2>1, <2>6, PatchedIs
      <3>2. users' = [users EXCEPT ![a.email].active = a.active]
        BY <2>3, <3>1
      <3>3. Database' = [Database EXCEPT !.users[a.email].active = a.active]
        BY <2>2, <3>2 DEF Database
      <3> QED
        BY <1>1, <1>3, <2>2, <2>4, <2>6, <3>3, AfterEnd DEF Settles, Keeps
    <2> QED
      BY <2>5, <2>6
  <1> QED
    BY <1>2, <1>5, <1>6, <1>8, <1>9 DEF UpdateUser, At


-----------------------------------------------------------------------------
(* bootstrap.                                                              *)

LEMMA PromisedBootstrapIs ==
  ASSUME NEW b \in Databases, NEW a \in Args, NEW made, made = WithTenant(b, a.scope), a.role = "owner", a.active = TRUE
  PROVE  PromisedBootstrap(b, a, a.scope) =
           IF ~Fits(b, a) THEN made ELSE WithMember(WithUser(made, a), a, a.role, a.active)
  <1>1. [a EXCEPT !.scope = a.scope] = a
    BY DEF Args
  <1>2. PromisedBootstrap(b, a, a.scope) =
          IF ~Fits(made, a) THEN made ELSE WithMember(WithUser(made, a), a, "owner", TRUE)
    BY <1>1, Zenon DEF PromisedBootstrap, WithTenant
  <1>3. Fits(made, a) <=> Fits(b, a)
    BY PartsKept DEF Fits
  <1>4. WithMember(WithUser(made, a), a, "owner", TRUE) = WithMember(WithUser(made, a), a, a.role, a.active)
    BY Zenon
  <1> QED
    BY <1>2, <1>3, <1>4, Zenon

(* The end of bootstrap, wherever it comes. *)
LEMMA BootstrapKept ==
  ASSUME IInv, NEW c \in Calls, Alone(c), call[c].op = "bootstrap", call[c].pc \notin Early,
         call'[c] = Idle,
         \/ ~Fits(call[c].before, call[c].arg) /\ Database' = Base(call[c])
         \/ /\ Fits(call[c].before, call[c].arg)
            /\ Database' = WithMember(WithUser(Base(call[c]), call[c].arg), call[c].arg, call[c].arg.role, call[c].arg.active)
  PROVE  Keeps(c)
  <1> PICK r, a, b, made : r = call[c] /\ a = call[c].arg /\ b = call[c].before /\ made = Base(call[c])
    OBVIOUS
  <1>1. /\ b \in Databases /\ a \in Args /\ a.role = "owner" /\ a.active = TRUE
        /\ made = WithTenant(b, a.scope)
        /\ a.scope \in IF b.primary = {} THEN Tenants \ b.scopes ELSE b.primary
    BY AloneFacts DEF ArgOK, Base, Done, TenantRead
  <1>2. Database' = PromisedBootstrap(b, a, a.scope)
    <2>1. CASE ~Fits(b, a) /\ Database' = made
      BY ONLY <1>1, <2>1, PromisedBootstrapIs
    <2>2. CASE Fits(b, a) /\ Database' = WithMember(WithUser(made, a), a, a.role, a.active)
      BY ONLY <1>1, <2>2, PromisedBootstrapIs
    <2> QED
      BY <2>1, <2>2
  <1>3. Promised("bootstrap", b, a) =
          {PromisedBootstrap(b, a, t) : t \in IF b.primary = {} THEN Tenants \ b.scopes ELSE b.primary}
    BY DEF Promised
  <1> QED
    BY <1>1, <1>2, <1>3 DEF Keeps

LEMMA TenantSettles ==
  ASSUME IInv, NEW c \in Calls, Alone(c), FindOrInsertTenant(c), call[c].op = "bootstrap"
  PROVE  GoesOn(c)
  <1> PICK r, q : r = call[c] /\ q = call'[c]
    OBVIOUS
  <1> DEFINE b == r.before
  <1>1. /\ r.pc \in {"tenant", "insert tenant"} /\ Done(r) /\ r \in CallRows /\ ArgOK(r) /\ TablesOK
        /\ r.arg \in Args
    BY AloneFacts DEF FindOrInsertTenant, At, ArgOK
  <1>2. Database = b
    BY <1>1 DEF Done, Made, UserIsMade, Adds, Base, Early
  <1>3. primary = b.primary /\ scopes = b.scopes
    <2>1. Database.primary = primary /\ Database.scopes = scopes
      BY DEF Database
    <2> QED
      BY <1>2, <2>1
  <1>4. ASSUME NEW t, call' = [call EXCEPT ![c].pc = "user", ![c].arg.scope = t],
               t \in IF b.primary = {} THEN Tenants \ b.scopes ELSE b.primary,
               Database' = WithTenant(b, t)
        PROVE  GoesOn(c)
    <2> PICK arg : arg = [call[c].arg EXCEPT !.scope = t]
      OBVIOUS
    <2>1. call'[c] = [[call[c] EXCEPT !.pc = "user"] EXCEPT !.arg = arg]
      BY <1>4 DEF IInv
    <2>2. q.pc = "user" /\ q.op = r.op /\ q.before = b /\ q.arg.scope = t
      <3>1. arg.scope = t
        BY <1>1 DEF Args
      <3>2. q.pc = "user" /\ q.op = r.op /\ q.before = b /\ q.arg = arg
        BY <1>1, <2>1 DEF CallRows
      <3> QED
        BY <3>1, <3>2
    <2>3. Made(q) = WithTenant(b, t)
      BY <2>2 DEF Made, UserIsMade, Adds, Base, Early
    <2>4. TokenRead(q) /\ TenantRead(q) /\ UserRead(q)' /\ MembersRead(q) /\ Holds(q)'
      BY <1>4, <2>2 DEF TokenRead, TenantRead, UserRead, MembersRead, Holds, Adds
    <2> QED
      BY <1>4, <2>2, <2>3, <2>4, WriteGoesOn
  <1>5. CASE At(c, "tenant")
    <2>1. Reads
      BY <1>5 DEF FindOrInsertTenant, At
    <2>2. CASE primary = {}
      <3>1. Goto(c, "insert tenant")
        BY <1>5, <2>2 DEF FindOrInsertTenant, At
      <3>2. q.pc = "insert tenant" /\ Same(q, r)
        BY <3>1, AfterGoto
      <3>3. Made(q) = b
        BY <3>2 DEF Made, UserIsMade, Adds, Base, Early, Same
      <3>4. TokenRead(q) /\ TenantRead(q) /\ UserRead(q) /\ MembersRead(q) /\ Holds(q)
        BY <1>3, <2>2, <3>2 DEF TokenRead, TenantRead, UserRead, MembersRead, Holds, Adds, Early, Same
      <3> QED
        BY <1>2, <2>1, <3>2, <3>3, <3>4, ReadGoesOn DEF Done, Same
    <2>3. CASE primary # {}
      <3>1. PICK t \in primary : call' = [call EXCEPT ![c].pc = "user", ![c].arg.scope = t]
        BY <1>5, <2>3 DEF FindOrInsertTenant, At
      <3>2. Database' = WithTenant(b, t)
        BY <1>1, <1>2, <2>1, TenantThere, ReadsSame
      <3> QED
        BY <1>3, <1>4, <2>3, <3>1, <3>2
    <2> QED
      BY <2>2, <2>3
  <1>6. CASE At(c, "insert tenant")
    <2>1. PICK t \in Tenants \ scopes :
            /\ scopes' = scopes \cup {t} /\ primary' = primary \cup {t}
            /\ call' = [call EXCEPT ![c].pc = "user", ![c].arg.scope = t]
            /\ UNCHANGED <<users, members, tokens>>
      BY <1>6 DEF FindOrInsertTenant, At
    <2>2. b.primary = {}
      BY <1>1, <1>6 DEF Done, TenantRead, At
    <2>3. Database' = WithTenant(b, t)
      BY <1>2, <2>1, TenantMade
    <2> QED
      BY <1>3, <1>4, <2>1, <2>2, <2>3
  <1> QED
    BY <1>1, <1>5, <1>6 DEF At

LEMMA BootstrapSettles ==
  ASSUME IInv, NEW c \in Calls, Alone(c), Bootstrap(c)
  PROVE  Settles(c)
  <1> PICK r : r = call[c]
    OBVIOUS
  <1> DEFINE a == r.arg
             b == r.before
  <1>1. /\ r.op = "bootstrap" /\ Done(r) /\ b \in Databases /\ ArgOK(r) /\ TablesOK
        /\ a.role = "owner" /\ a.active = TRUE
    BY AloneFacts DEF Bootstrap, Is, ArgOK
  <1>2. r.pc \notin Early \cup {"user"} => Fits(b, a)
    BY <1>1 DEF Done, UserRead, Adds
  <1>3. CASE FindOrInsertTenant(c)
    BY <1>1, <1>3, TenantSettles DEF Settles
  <1>4. CASE FindUser(c, "insert user", GivenPassword(c, "password", "member"))
    <2>1. r.pc = "user"
      BY <1>4 DEF FindUser, At
    <2> PICK found : found = GivenPassword(c, "password", "member")
      OBVIOUS
    <2>2. found = IF a.password # None THEN "password" ELSE "member"
      BY DEF GivenPassword
    <2> QED
      BY <1>1, <1>4, <2>1, <2>2, FindUserSettles, BootstrapKept DEF Settles, Early
  <1>5. CASE InsertUser(c, "member") \/ SetPassword(c, "member")
    BY <1>1, <1>5, InsertUserGoesOn, SetPasswordGoesOn DEF Settles
  <1>6. CASE FindOwner(c)
    <2>1. At(c, "member") /\ Reads
      BY <1>6 DEF FindOwner
    <2>2. Member("owner", TRUE) = Target(c)
      BY <1>1, Zenon DEF Target
    <2>3. CASE members[Key(c)] = None
      <3>1. Goto(c, "insert member")
        BY <1>6, <2>3 DEF FindOwner
      <3> QED
        BY <1>1, <2>1, <2>3, <3>1, MemberAbsent DEF Settles
    <2>4. CASE members[Key(c)] = Target(c) /\ members[Key(c)] # None
      <3>1. End(c)
        BY <1>6, <2>2, <2>4 DEF FindOwner
      <3>2. Database = WithUser(Base(r), a)
        BY <1>1, <2>1 DEF Done, Made, UserIsMade, Adds, At
      <3>3. WithMember(Database, a, a.role, a.active) = Database
        <4>1. members[<<a.scope, a.email>>] = Member(a.role, a.active)
          BY <1>1, <2>4 DEF Target, Key, Scope, Email
        <4> QED
          BY ONLY <1>1, <4>1, MemberThere
      <3>4. r.pc \notin Early \cup {"user"}
        BY <2>1 DEF At, Early
      <3> QED
        BY <1>1, <1>2, <2>1, <3>1, <3>2, <3>3, <3>4, AfterEnd, ReadsSame, BootstrapKept DEF Settles
    <2>5. CASE members[Key(c)] # Target(c) /\ members[Key(c)] # None
      <3>1. Hold(c, "load member", Target(c))
        BY <1>6, <2>2, <2>5 DEF FindOwner
      <3> QED
        BY <1>1, <2>1, <3>1, MemberHeld DEF Saves, Settles
    <2> QED
      BY <2>3, <2>4, <2>5
  <1>7. CASE InsertMember(c, "end")
    <2>1. r.pc \notin Early \cup {"user"}
      BY <1>7 DEF InsertMember, At, Early
    <2>2. /\ call'[c] = Idle
          /\ Database' = WithMember(WithUser(Base(r), a), a, a.role, a.active)
      BY <1>1, <1>7, MemberInserted, AfterEnd DEF Goto, Adds
    <2> QED
      BY <1>1, <1>2, <2>1, <2>2, BootstrapKept DEF Settles
  <1>8. CASE SaveMember(c, "end")
    <2>1. CASE GoesOn(c)
      BY <2>1 DEF Settles
    <2>2. CASE /\ r.pc = "save member" /\ Goto(c, "end")
               /\ Database' = WithMember(Made(r), a, Target(c).role, Target(c).active)
      <3>1. Made(r) = WithUser(Base(r), a)
        BY <1>1, <2>2 DEF Made, UserIsMade, Adds
      <3>2. Target(c).role = a.role /\ Target(c).active = a.active
        BY <1>1 DEF Target, Member
      <3>3. call'[c] = Idle /\ r.pc \notin Early \cup {"user"}
        BY <2>2, AfterEnd DEF Goto, Early
      <3> QED
        BY <1>1, <1>2, <2>2, <3>1, <3>2, <3>3, BootstrapKept DEF Settles
    <2> QED
      BY <1>1, <1>8, <2>1, <2>2, SaveMemberSettles DEF Saves
  <1> QED
    BY <1>3, <1>4, <1>5, <1>6, <1>7, <1>8 DEF Bootstrap


-----------------------------------------------------------------------------
(* Every step of every behaviour.                                          *)

(* A step of one call touches no other, and none becomes alone by it.      *)
Frame(c) ==
  /\ \A d \in Calls : d # c => call'[d] = call[d]
  /\ call'[c].before \in {call[c].before, None}

LEMMA MovesFrame ==
  ASSUME IInv, NEW c \in Calls
  PROVE  /\ End(c) => Frame(c)
         /\ \A pc : Goto(c, pc) => Frame(c)
         /\ \A pc, row : Hold(c, pc, row) => Frame(c)
         /\ \A pc, dirty : Mark(c, pc, dirty) => Frame(c)
         /\ \A pc, arg : call' = [call EXCEPT ![c].pc = pc, ![c].arg = arg] => Frame(c)
  <1>0. call \in [Calls -> CallRows] /\ call[c] \in CallRows
    BY DEF IInv
  <1>1. ASSUME NEW r, call' = [call EXCEPT ![c] = r], r.before \in {call[c].before, None} PROVE Frame(c)
    BY <1>0, <1>1 DEF Frame
  <1>2. End(c) => Frame(c)
    <2>1. Idle.before = None
      BY DEF Idle, Handler
    <2> QED
      BY <1>1, <2>1 DEF End
  <1>3. \A pc : Goto(c, pc) => Frame(c)
    <2> TAKE pc
    <2> PICK r : r = [call[c] EXCEPT !.pc = pc]
      OBVIOUS
    <2>1. r.before = call[c].before
      BY <1>0 DEF CallRows
    <2> QED
      BY <1>1, <1>2, <2>1 DEF Goto
  <1>4. \A pc, row : Hold(c, pc, row) => Frame(c)
    <2> TAKE pc, row
    <2> PICK r : r = [[call[c] EXCEPT !.pc = pc] EXCEPT !.row = row]
      OBVIOUS
    <2>1. r.before = call[c].before
      BY <1>0 DEF CallRows
    <2>2. Hold(c, pc, row) => call' = [call EXCEPT ![c] = r]
      BY <1>0 DEF Hold
    <2> QED
      BY <1>1, <2>1, <2>2
  <1>5. \A pc, dirty : Mark(c, pc, dirty) => Frame(c)
    <2> TAKE pc, dirty
    <2> PICK r : r = [[call[c] EXCEPT !.pc = pc] EXCEPT !.dirty = dirty]
      OBVIOUS
    <2>1. r.before = call[c].before
      BY <1>0 DEF CallRows
    <2>2. Mark(c, pc, dirty) => call' = [call EXCEPT ![c] = r]
      BY <1>0 DEF Mark
    <2> QED
      BY <1>1, <2>1, <2>2
  <1>6. \A pc, arg : call' = [call EXCEPT ![c].pc = pc, ![c].arg = arg] => Frame(c)
    <2> TAKE pc, arg
    <2> PICK r : r = [[call[c] EXCEPT !.pc = pc] EXCEPT !.arg = arg]
      OBVIOUS
    <2>1. r.before = call[c].before
      BY <1>0 DEF CallRows
    <2>2. call' = [call EXCEPT ![c].pc = pc, ![c].arg = arg] => call' = [call EXCEPT ![c] = r]
      BY <1>0
    <2> QED
      BY <1>1, <2>1, <2>2
  <1> QED
    BY <1>2, <1>3, <1>4, <1>5, <1>6

LEMMA QueriesFrame ==
  ASSUME IInv, NEW c \in Calls, NEW n, NEW m
  PROVE  /\ FindToken(c, n) \/ FindUser(c, n, m) \/ InsertUser(c, n) \/ SetPassword(c, n) \/ FindMember(c, n, m)
              => Frame(c) /\ UNCHANGED failures
         /\ FindMemberToUpdate(c, n) \/ InsertMember(c, n) \/ SaveMember(c, n) \/ Spend(c) \/ InsertToken(c, n)
              => Frame(c) /\ UNCHANGED failures
         /\ FindAnyMember(c) \/ FindActiveUser(c, n) \/ BindSubject(c) \/ FindOneInTenant(c) \/ FindOwner(c)
              => Frame(c) /\ UNCHANGED failures
         /\ FindOrInsertTenant(c) => Frame(c) /\ UNCHANGED failures
         /\ UpdateUser(c) => Frame(c) /\ UNCHANGED failures
  <1>1. /\ End(c) => Frame(c)
        /\ \A pc : Goto(c, pc) => Frame(c)
        /\ \A pc, row : Hold(c, pc, row) => Frame(c)
        /\ \A pc, dirty : Mark(c, pc, dirty) => Frame(c)
        /\ \A pc, arg : call' = [call EXCEPT ![c].pc = pc, ![c].arg = arg] => Frame(c)
    BY MovesFrame
  <1>2. FindToken(c, n) => Frame(c) /\ UNCHANGED failures
    BY <1>1 DEF FindToken, Reads
  <1>3. FindUser(c, n, m) => Frame(c) /\ UNCHANGED failures
    BY <1>1 DEF FindUser, Reads
  <1>4. InsertUser(c, n) \/ SetPassword(c, n) => Frame(c) /\ UNCHANGED failures
    BY <1>1 DEF InsertUser, SetPassword, WritesUsers
  <1>5. FindMember(c, n, m) => Frame(c) /\ UNCHANGED failures
    BY <1>1 DEF FindMember, Reads
  <1>6. FindMemberToUpdate(c, n) => Frame(c) /\ UNCHANGED failures
    BY <1>1 DEF FindMemberToUpdate, Reads
  <1>7. InsertMember(c, n) \/ SaveMember(c, n) => Frame(c) /\ UNCHANGED failures
    BY <1>1 DEF InsertMember, SaveMember, WritesMembers, Reads
  <1>8. Spend(c) \/ InsertToken(c, n) => Frame(c) /\ UNCHANGED failures
    BY <1>1 DEF Spend, InsertToken, WritesTokens
  <1>9. FindAnyMember(c) \/ FindOneInTenant(c) => Frame(c) /\ UNCHANGED failures
    BY <1>1 DEF FindAnyMember, FindOneInTenant, Reads
  <1>10. FindActiveUser(c, n) => Frame(c) /\ UNCHANGED failures
    BY <1>1 DEF FindActiveUser, Reads
  <1>11. BindSubject(c) => Frame(c) /\ UNCHANGED failures
    BY <1>1 DEF BindSubject, WritesUsers
  <1>12. FindOwner(c) => Frame(c) /\ UNCHANGED failures
    BY <1>1 DEF FindOwner, Reads
  <1>13. FindOrInsertTenant(c) => Frame(c) /\ UNCHANGED failures
    BY <1>1 DEF FindOrInsertTenant, Reads
  <1>14. UpdateUser(c) => Frame(c) /\ UNCHANGED failures
    <2>1. UpdateUser(c) =>
            /\ FindOneInTenant(c) \/ End(c) \/ (\E pc, x : Hold(c, pc, x) \/ Mark(c, pc, x))
            /\ UNCHANGED failures
      BY <1>9 DEF UpdateUser, Reads, WritesUsers
    <2> QED
      BY <1>1, <1>9, <2>1
  <1> QED
    BY <1>2, <1>3, <1>4, <1>5, <1>6, <1>7, <1>8, <1>9, <1>10, <1>11, <1>12, <1>13, <1>14

LEMMA StepFrame ==
  ASSUME IInv, NEW c \in Calls, Step(c)
  PROVE  Frame(c) /\ UNCHANGED failures /\ call[c] # Idle
  <1>1. call[c] # Idle
    <2>1. call[c].op # "none"
      BY DEF Step, AddTenantUser, AddClientUser, UpdateTenantUser, UpdateClientUser, CreateTenantInvitation,
             CreateClientInvitation, AcceptInvitation, RequestPasswordReset, ResetPassword, SignInWithGoogle,
             UpdateUser, Bootstrap, Is, IsFor
    <2> QED
      BY <2>1 DEF Idle, Handler
  <1>2. AddUser(c) => Frame(c) /\ UNCHANGED failures
    BY QueriesFrame DEF AddUser
  <1>3. UpdateMember(c) => Frame(c) /\ UNCHANGED failures
    BY QueriesFrame DEF UpdateMember
  <1>4. Invite(c) => Frame(c) /\ UNCHANGED failures
    BY QueriesFrame DEF Invite
  <1>5. AcceptInvitation(c) => Frame(c) /\ UNCHANGED failures
    BY QueriesFrame DEF AcceptInvitation
  <1>6. RequestPasswordReset(c) \/ ResetPassword(c) => Frame(c) /\ UNCHANGED failures
    BY QueriesFrame DEF RequestPasswordReset, ResetPassword
  <1>7. SignInWithGoogle(c) => Frame(c) /\ UNCHANGED failures
    BY QueriesFrame DEF SignInWithGoogle
  <1>8. Bootstrap(c) => Frame(c) /\ UNCHANGED failures
    BY QueriesFrame DEF Bootstrap
  <1> QED
    BY <1>1, <1>2, <1>3, <1>4, <1>5, <1>6, <1>7, <1>8, QueriesFrame
       DEF Step, AddTenantUser, AddClientUser, UpdateTenantUser, UpdateClientUser, CreateTenantInvitation,
           CreateClientInvitation


LEMMA StepSettles ==
  ASSUME IInv, NEW c \in Calls, Alone(c), Step(c)
  PROVE  Settles(c)
  <1>1. CASE AddTenantUser(c) \/ AddClientUser(c)
    BY <1>1, AddUserSettles DEF AddTenantUser, AddClientUser, IsFor
  <1>2. CASE UpdateTenantUser(c) \/ UpdateClientUser(c)
    BY <1>2, UpdateMemberSettles DEF UpdateTenantUser, UpdateClientUser, IsFor
  <1>3. CASE CreateTenantInvitation(c) \/ CreateClientInvitation(c)
    BY <1>3, InviteSettles DEF CreateTenantInvitation, CreateClientInvitation, IsFor
  <1> QED
    BY <1>1, <1>2, <1>3, AcceptInvitationSettles, ForgotSettles, ResetPasswordSettles, SignInSettles,
       UpdateUserSettles, BootstrapSettles DEF Step

(* What ends here ends with what it promised. *)
Kept(c) ==
  (call[c] # Idle /\ call[c].before # None /\ call'[c] = Idle /\ failures' = failures) => Keeps(c)

(* Whoever is disturbed is neither alone nor at its end. *)
LEMMA NobodyAlone ==
  ASSUME IInv, NEW d \in Calls, call'[d] = [call[d] EXCEPT !.before = None]
  PROVE  call'[d].before = None /\ Kept(d) /\ (call[d] = Idle => call'[d] = Idle)
  <1>1. call[d] \in CallRows /\ CallOK(call[d])
    BY DEF IInv
  <1>2. call'[d].before = None /\ call'[d].op = call[d].op
    BY <1>1 DEF CallRows
  <1>3. call[d].before # None => call[d].op # "none"
    BY <1>1 DEF CallOK
  <1>4. Kept(d)
    BY <1>2, <1>3 DEF Kept, Idle, Handler
  <1>5. call[d] = Idle => call'[d] = Idle
    BY DEF Idle, Handler
  <1> QED
    BY <1>2, <1>4, <1>5

LEMMA DisturbedSettles ==
  ASSUME IInv, AloneInv, call' = Disturbed, UNCHANGED failures
  PROVE  AloneInv' /\ \A c \in Calls : Kept(c)
  <1>1. \A d \in Calls : call'[d] = [call[d] EXCEPT !.before = None]
    BY DEF Disturbed
  <1>2. \A d \in Calls : call'[d].before = None /\ Kept(d)
    BY <1>1, NobodyAlone
  <1> QED
    BY <1>2 DEF AloneInv

LEMMA BeginSettles ==
  ASSUME IInv, AloneInv, NEW c \in Calls, Begin(c)
  PROVE  AloneInv' /\ \A d \in Calls : Kept(d)
  <1>1. PICK op \in Ops : \E arg \in Asked(op) :
          call' = [Disturbed EXCEPT ![c] = Handler(op, First(op), arg, IF AllIdle THEN Database ELSE None)]
    BY DEF Begin
  <1>2. PICK arg \in Asked(op) :
          call' = [Disturbed EXCEPT ![c] = Handler(op, First(op), arg, IF AllIdle THEN Database ELSE None)]
    BY <1>1
  <1> PICK q : q = Handler(op, First(op), arg, IF AllIdle THEN Database ELSE None)
    OBVIOUS
  <1>3. /\ q.op = op /\ q.pc = First(op) /\ q.arg = arg
        /\ q.before = IF AllIdle THEN Database ELSE None
    BY DEF Handler
  <1>4. call'[c] = q /\ \A d \in Calls : d # c => call'[d] = [call[d] EXCEPT !.before = None]
    BY <1>2 DEF Disturbed
  <1>5. \A d \in Calls : d # c => call'[d].before = None /\ Kept(d) /\ (call[d] = Idle => call'[d] = Idle)
    BY <1>4, NobodyAlone
  <1>6. Kept(c)
    BY DEF Begin, Kept
  <1>7. ASSUME q.before # None PROVE Done(q)'
    <2>1. q.before = Database
      BY <1>3, <1>7
    <2>2. UNCHANGED tables /\ Database' = Database
      BY DEF Begin, tables, Database
    <2>3. Made(q) = q.before
      BY <1>3 DEF Made, UserIsMade, Adds, Base, Early, First, Ops
    <2>4. TokenRead(q) /\ TenantRead(q) /\ UserRead(q)' /\ MembersRead(q) /\ Holds(q)'
      BY <1>3 DEF TokenRead, TenantRead, UserRead, MembersRead, Holds, Adds, Early, First, Ops
    <2>5. Made(q)' = Made(q) /\ TokenRead(q)' /\ TenantRead(q)' /\ MembersRead(q)'
      BY <2>4 DEF Made, TokenRead, TenantRead, MembersRead
    <2> QED
      BY <2>1, <2>2, <2>3, <2>4, <2>5 DEF Done
  <1>8. call'[c].before # None => Done(call[c])' /\ \A d \in Calls : d # c => call'[d] = Idle
    <2>1. q.before # None => \A d \in Calls : call[d] = Idle
      BY <1>3 DEF AllIdle
    <2> QED
      BY <1>4, <1>5, <1>7, <2>1
  <1>9. failures' \in Nat
    BY DEF Begin, AloneInv
  <1> QED
    BY <1>5, <1>6, <1>8, <1>9 DEF AloneInv

LEMMA FrameSettles ==
  ASSUME IInv, AloneInv, NEW c \in Calls, Frame(c), call[c] # Idle, failures' \in Nat,
         Alone(c) => Settles(c) \/ (call'[c] = Idle /\ failures' # failures)
  PROVE  AloneInv' /\ \A d \in Calls : Kept(d)
  <1>1. ASSUME NEW d \in Calls, d # c PROVE call'[d].before = None /\ Kept(d) /\ call'[d] = call[d]
    <2>1. call[d].before = None
      BY <1>1 DEF AloneInv
    <2> QED
      BY <1>1, <2>1 DEF Frame, Kept
  <1>2. Idle.before = None
    BY DEF Idle, Handler
  <1>3. call[c].before # None => Alone(c) /\ \A d \in Calls : d # c => call[d] = Idle
    BY DEF AloneInv, Alone
  <1>4. call'[c].before # None => call[c].before # None
    BY DEF Frame
  <1>5. call'[c].before # None => Done(call[c])'
    BY <1>2, <1>3, <1>4 DEF Settles, GoesOn, Keeps
  <1>6. Kept(c)
    BY <1>2, <1>3 DEF Kept, Settles, GoesOn
  <1> QED
    BY <1>1, <1>3, <1>4, <1>5, <1>6 DEF AloneInv

LEMMA NextSettles ==
  ASSUME IInv, AloneInv, [Next]_vars
  PROVE  AloneInv' /\ \A c \in Calls : Kept(c)
  <1>1. CASE UNCHANGED vars
    <2>1. UNCHANGED <<tables, call, failures>>
      BY <1>1 DEF vars
    <2>2. ASSUME NEW c \in Calls, call[c].before # None PROVE Done(call[c])'
      <3> PICK q : q = call[c]
        OBVIOUS
      <3>1. Done(q)
        BY <2>2 DEF AloneInv
      <3>2. Done(q)'
        BY <2>1, <3>1 DEF tables, Done, Database, Made, TokenRead, TenantRead, UserRead, MembersRead, Holds
      <3> QED
        BY <2>1, <3>2
    <2> QED
      BY <2>1, <2>2 DEF AloneInv, Kept
  <1>2. CASE CreateTenant \/ CreateClient \/ UpdateTenant \/ Expire
    <2>1. call' = Disturbed /\ UNCHANGED failures
      BY <1>2 DEF CreateTenant, CreateClient, UpdateTenant, Expire, OneStep
    <2> QED
      BY <2>1, DisturbedSettles
  <1>3. ASSUME NEW c \in Calls, Step(c) PROVE AloneInv' /\ \A d \in Calls : Kept(d)
    <2>1. failures' \in Nat
      BY <1>3, StepFrame DEF AloneInv
    <2> QED
      BY <1>3, <2>1, StepFrame, StepSettles, FrameSettles
  <1>4. ASSUME NEW c \in Calls, Fails(c) PROVE AloneInv' /\ \A d \in Calls : Kept(d)
    <2>1. Frame(c) /\ call'[c] = Idle /\ call[c] # Idle
      BY <1>4, MovesFrame, AfterEnd DEF Fails
    <2>2. failures' \in Nat /\ failures' # failures
      BY <1>4 DEF Fails, AloneInv
    <2> QED
      BY <2>1, <2>2, FrameSettles
  <1> QED
    BY <1>1, <1>2, <1>3, <1>4, BeginSettles DEF Next

(* A call that has met no other has made of the tables, at each of its     *)
(* queries, just the part of its promise that this query comes after.      *)
THEOREM AloneInvariance == Spec => []AloneInv
  <1>1. Init => AloneInv
    <2> SUFFICES ASSUME Init PROVE AloneInv
      OBVIOUS
    <2>1. Idle.before = None
      BY DEF Idle, Handler
    <2> QED
      BY <2>1 DEF Init, AloneInv
  <1>2. IInv /\ AloneInv /\ [Next]_vars => AloneInv'
    BY NextSettles
  <1> QED
    BY <1>1, <1>2, Invariance, PTL DEF Spec

(* Every handler of auth, tenants, clients and users, and bootstrap: a     *)
(* call that meets no other and no failure does all that it promises, or   *)
(* nothing, whatever tables the calls before it have left.                 *)
THEOREM CallsAreAtomicAlone == Spec => AloneIsAtomic
  <1>1. IInv /\ AloneInv /\ [Next]_vars =>
          [\A c \in Calls : (call[c] # Idle /\ call[c].before # None /\ call'[c] = Idle /\ failures' = failures)
             => Database' \in Promised(call[c].op, call[c].before, call[c].arg)]_vars
    BY NextSettles DEF Kept, Keeps
  <1> QED
    BY <1>1, Invariance, AloneInvariance, PTL DEF Spec, AloneIsAtomic

===============================================================================
