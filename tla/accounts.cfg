SPECIFICATION Spec
CONSTANTS
  t1 = t1
  t2 = t2
  c1 = c1
  c2 = c2
  Tenants = {t1, t2}
  Clients = {k}
  TenantRoles = {"owner", "analyst"}
  ClientRoles = {"client_viewer"}
  Emails = {ana}
  Passwords = {p}
  Subjects = {u1, u2}
  Tokens = {k1}
  Calls = {c1, c2}
  MaxCalls = 3
  MaxFailures = 1
  None = None
SYMMETRY Symmetry
INVARIANTS
  TypeOK
  MembersFit
  AcceptedIsMember
PROPERTIES
  PasswordsSurvive
  AloneIsAtomic
CHECK_DEADLOCK FALSE
