------------------------------- MODULE MCTenants -------------------------------
(* Tenants with a few keys, host names and requests in flight.              *)
EXTENDS Tenants, TLC

CONSTANTS h1, h2, t1, a, r1, r2

TwoHandlers == {h1, h2}
OneTenant == {t1}
OneHost == {a}
TwoRoots == {r1, r2}
ListOrNone == {<<>>, <<a>>}

Symmetry == Permutations(Handlers)
=============================================================================
