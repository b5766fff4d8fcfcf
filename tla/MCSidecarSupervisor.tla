------------------------- MODULE MCSidecarSupervisor -------------------------
(* SidecarSupervisor with two render threads.                               *)
EXTENDS SidecarSupervisor

CONSTANTS t1, t2

MCThreads == {t1, t2}
BothBackends == {"auto", "sidecar"}
=============================================================================
