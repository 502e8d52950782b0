---- MODULE MCBrokerAccounts ----
(* Two tenants, one module with a broker user. *)
EXTENDS BrokerAccounts, TLC

CONSTANTS a, b, m

MCTenants == {a, b}
MCModules == {m}
TenantSymmetry == Permutations(MCTenants)

\* robbed is never reset and the properties of the passing run promise nothing
\* after it: what follows a robbed lock need not be explored there.
Undisturbed == ~robbed
=============================================================================
