SPECIFICATION Spec
CONSTANTS
  t1 = t1
  t2 = t2
  k1 = k1
  k2 = k2
  ana = ana
  bia = bia
  Tenants = {t1, t2}
  Clients = {k1, k2}
  Controllers = {ana, bia}
  Customers = {caio}
  None = None
  Empty = Empty
SYMMETRY Symmetry
INVARIANTS
  HandledInScope
  OwnScopeIsServed
PROPERTIES
  OnlyBootstrapOpensATenant
