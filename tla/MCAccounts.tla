----------------------------- MODULE MCAccounts -----------------------------
(* One user, two tenants and a client. *)
EXTENDS Accounts, TLC

CONSTANTS t1, t2, c1, c2
MCTenants == {t1, t2}
Symmetry == Permutations(MCTenants) \cup Permutations(Calls)
=============================================================================
