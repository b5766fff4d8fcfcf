-------------------------------- MODULE MCPages --------------------------------
(* Small instances of Pages.                                                 *)
EXTENDS Pages, TLC
CONSTANTS e1, e2, acme, zeta
MCEditors == {e1, e2}
MCOrgs == {acme, zeta}
\* A draft that goes live at second 2, a published page whose form still
\* carries that date (plain drafts come from imports and from spent dates).
MCStates == {[published |-> FALSE, due |-> 2], [published |-> TRUE, due |-> 2]}
EditorSymmetry == Permutations(MCEditors)
OrgSymmetry == EditorSymmetry \cup Permutations(MCOrgs)
=============================================================================
