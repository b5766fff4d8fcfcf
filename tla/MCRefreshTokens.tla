--------------------------- MODULE MCRefreshTokens ---------------------------
(* RefreshTokens on small instances: one account with a moving clock, and   *)
(* two accounts with the clock stopped.                                     *)
EXTENDS RefreshTokens, TLC

CONSTANTS u1, u2, h1, h2

OneUser == {u1}
TwoUsers == {u1, u2}
MCHandlers == {h1, h2}

Symmetry == Permutations(MCHandlers) \cup Permutations(Users)
=============================================================================
