------------------------------- MODULE MCAccess -------------------------------
(* Two tenants, two clients, two controllers and a customer. *)
EXTENDS Access, TLC

CONSTANTS t1, t2, k1, k2, ana, bia
MCTenants     == {t1, t2}
MCClients     == {k1, k2}
MCControllers == {ana, bia}
Symmetry == Permutations(MCTenants) \cup Permutations(MCClients) \cup Permutations(MCControllers)
===============================================================================
