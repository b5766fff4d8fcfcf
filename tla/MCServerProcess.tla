--------------------------- MODULE MCServerProcess ---------------------------
(* ServerProcess with one or two command threads and at most two log polls. *)
EXTENDS ServerProcess, TLC

CONSTANTS c1, c2, p1, p2

OneCaller == {c1}
TwoCallers == {c1, c2}
NoPolls == {}
TwoPolls == {p1, p2}
=============================================================================
