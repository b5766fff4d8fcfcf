------------------------------- MODULE Takeover --------------------------------
(***************************************************************************)
(* The one-click recovery of the dashboard: an invisible server of an earlier *)
(* session holds the port, the manager finds out who listens, kills it and    *)
(* starts its own (takeover_and_start and start_server in                    *)
(* src/manager/crates/wallermax-manager-core/src/app.rs, ports.rs).          *)
(*                                                                          *)
(* Processes come and go while the manager asks: who listens (netstat), what  *)
(* the listeners run (tasklist) and the kills (taskkill /T, the process and    *)
(* everything below it) are separate looks at the system, and the system      *)
(* gives the pid of a dead process away again.  The manager compares names    *)
(* only.  Where the system names no owner (on any system but Windows) every   *)
(* takeover of a busy port is refused.                                        *)
(***************************************************************************)
EXTENDS Naturals

CONSTANTS Pids,
          System,  \* the parent of a process that none of Pids started
          MaxLooks \* looks at the port before the takeover gives up (five seconds)

ASSUME TakeoverAssumption == MaxLooks \in Nat /\ System \notin Pids

VARIABLES procs,    \* who has each pid, who started it, and whether it listens on the port
          banner,   \* what the dashboard shows: nothing, the conflict, or the button too
          takeover, \* the takeover in progress
          killed,   \* what died of it: the program, and the owner whose tree it was in
          reborn    \* pids given to another process since it asked

takeoverVars == <<procs, banner, takeover, killed, reborn>>

\* "server" is the configured server command.
Programs == {"server", "other"}
Nobody == [image |-> "none", listens |-> FALSE, parent |-> System]

\* The system records the parent's pid, and keeps it when the parent is gone.
Process == [image : Programs, listens : BOOLEAN, parent : Pids \cup {System}]
Fallen == [image : Programs, owner : Pids, runs : Programs]

Resting == [pc |-> "idle", pids |-> {}, images |-> [p \in {} |-> "none"], looks |-> 0]

TakeoverTypeOK ==
    /\ procs \in [Pids -> Process \cup {Nobody}]
    /\ banner \in {"none", "conflict", "offer"}
    /\ takeover.pc \in {"idle", "named", "kill", "wait", "start", "spawn"}
    /\ takeover.pids \subseteq Pids /\ takeover.looks \in 0..MaxLooks
    /\ killed \subseteq Fallen
    /\ reborn \subseteq Pids

TakeoverInit ==
    /\ procs = [p \in Pids |-> Nobody]
    /\ banner = "none"
    /\ takeover = Resting
    /\ killed = {}
    /\ reborn = {}

\* What is below p: the children of p, and theirs (stated without recursion).
Tree(p) ==
    {q \in Pids : \A family \in SUBSET Pids :
        p \in family /\ (\A r \in Pids : procs[r].parent \in family => r \in family)
            => q \in family}

Listeners == {p \in Pids : procs[p].listens}
Busy == Listeners # {}

(***************************************************************************)
(* The system                                                                *)
(***************************************************************************)

Appear(p) ==
    /\ procs[p] = Nobody
    /\ \E process \in Process :
          /\ process.parent # System => procs[process.parent] # Nobody
          /\ procs' = [procs EXCEPT ![p] = process]
    /\ reborn' = IF takeover.pc = "idle" THEN {} ELSE reborn \cup {p}
    /\ UNCHANGED <<banner, takeover, killed>>

Vanish(p) ==
    /\ procs[p] # Nobody
    /\ procs' = [procs EXCEPT ![p] = Nobody]
    /\ UNCHANGED <<banner, takeover, killed, reborn>>

(***************************************************************************)
(* The manager                                                               *)
(***************************************************************************)

\* Slip: one of the owners is enough.
SomeOurs(images) == \E p \in DOMAIN images : images[p] = "server"

\* Every owner the system names runs the configured server.
Ours(images) == DOMAIN images # {} /\ \A p \in DOMAIN images : images[p] = "server"

\* What the system answers for a list of pids; a process gone by then is not named.
Named(pids) == [p \in pids |-> IF procs[p] = Nobody THEN "unknown" ELSE procs[p].image]

\* port_status: asked when the dashboard finds no server, or after a refused start.
PortStatus ==
    /\ banner' = IF ~Busy THEN "none" ELSE IF Ours(Named(Listeners)) THEN "offer" ELSE "conflict"
    /\ UNCHANGED <<procs, takeover, killed, reborn>>

\* The button, however old the banner: everything is asked again.
Click ==
    /\ takeover.pc = "idle" /\ banner = "offer"
    /\ takeover' = IF Busy THEN [Resting EXCEPT !.pc = "named", !.pids = Listeners]
                   ELSE [Resting EXCEPT !.pc = "start"]
    /\ UNCHANGED <<procs, banner, killed, reborn>>

\* The command ends, and with it the account of what it killed.
Finish == takeover' = Resting /\ killed' = {} /\ reborn' = {}

Give(up) == up /\ Finish /\ UNCHANGED <<procs, banner>>

\* tasklist, or it fails; an owner that is not the server, or no owner, is refused.
Check ==
    /\ takeover.pc = "named"
    /\ \E images \in {Named(takeover.pids), [p \in {} |-> "none"]} :
          IF Ours(images)
          THEN /\ takeover' = [takeover EXCEPT !.pc = "kill", !.images = images]
               /\ UNCHANGED <<procs, banner, killed, reborn>>
          ELSE Give(TRUE)

\* taskkill /PID p /T /F, of whoever has the pid now and of all below it, whatever they
\* run; a pid nobody has is refused, and a process may survive: both are ignored.
KillPid(p) ==
    /\ takeover.pc = "kill" /\ p \in DOMAIN takeover.images
    /\ takeover' = [takeover EXCEPT !.images = [q \in DOMAIN takeover.images \ {p} |-> takeover.images[q]]]
    /\ \E dead \in SUBSET {q \in Tree(p) : procs[p] # Nobody /\ procs[q] # Nobody} :
          /\ procs' = [q \in Pids |-> IF q \in dead THEN Nobody ELSE procs[q]]
          /\ killed' = killed \cup {[image |-> procs[q].image, owner |-> p,
                                     runs |-> procs[p].image] : q \in dead}
    /\ UNCHANGED <<banner, reborn>>

AllKilled ==
    /\ takeover.pc = "kill" /\ DOMAIN takeover.images = {}
    /\ takeover' = [takeover EXCEPT !.pc = "wait"]
    /\ UNCHANGED <<procs, banner, killed, reborn>>

Look ==
    /\ takeover.pc = "wait"
    /\ \/ ~Busy /\ takeover' = [takeover EXCEPT !.pc = "start"]
       \/ Busy /\ takeover.looks < MaxLooks /\ takeover' = [takeover EXCEPT !.looks = @ + 1]
    /\ UNCHANGED <<procs, banner, killed, reborn>>

GiveUp == Give(takeover.pc = "wait" /\ Busy /\ takeover.looks = MaxLooks)

\* start_server looks at the port once more, then spawns.
Start ==
    /\ takeover.pc = "start"
    /\ UNCHANGED <<procs, banner>>
    /\ \/ Busy /\ Finish
       \/ ~Busy /\ takeover' = [takeover EXCEPT !.pc = "spawn"] /\ UNCHANGED <<killed, reborn>>

\* The child binds the port, or dies of it when somebody was faster.
SpawnServer ==
    /\ takeover.pc = "spawn"
    /\ Finish
    /\ banner' = "none"
    /\ IF Busy THEN UNCHANGED procs
       ELSE \E p \in Pids :
               /\ procs[p] = Nobody
               /\ procs' = [procs EXCEPT ![p] = [image |-> "server", listens |-> TRUE, parent |-> System]]

TakeoverNext ==
    \/ \E p \in Pids : Appear(p) \/ Vanish(p) \/ KillPid(p)
    \/ PortStatus \/ Click \/ Check \/ AllKilled \/ Look \/ GiveUp \/ Start \/ SpawnServer

TakeoverSpec == TakeoverInit /\ [][TakeoverNext]_takeoverVars

(***************************************************************************)
(* Properties                                                                *)
(***************************************************************************)

\* "Nothing else is ever killed": whatever dies of a takeover, the sidecars and other
\* children below a server with it, is in the tree of an owner of the port that the
\* manager asked about and that runs the configured server when its tree is taken down,
\* or whose pid the system gave away since it asked; and no owner that kept its pid runs
\* something else while the manager kills and waits.
OnlyServersKilled ==
    /\ TakeoverTypeOK
    /\ \A k \in killed : k.owner \in takeover.pids /\ (k.runs = "server" \/ k.owner \in reborn)
    /\ takeover.pc \in {"kill", "wait"} =>
           \A p \in takeover.pids \ reborn : procs[p].image # "other"
=============================================================================
