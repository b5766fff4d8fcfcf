-------------------------- MODULE SidecarSupervisor --------------------------
(***************************************************************************)
(* The JHS sidecar as the server sees it: SidecarSupervisor, which respawns *)
(* the Node child, and the two renderers that use it, AutoRenderer (falls   *)
(* back to the embedded boa engine) and StrictSidecar                       *)
(* (src/src/template_engine/sidecar.rs).                                    *)
(*                                                                          *)
(* Renders run on many threads.  Every atomic load, store or swap and every *)
(* critical section of a Mutex is one action; a call to the child is two    *)
(* (the child is chosen, the answer arrives), so it can die in between.     *)
(* Instants are countdowns: `wait` is next_attempt - now, `probe` is what    *)
(* is left of PROBE_COOLDOWN; a tick is one RESPAWN_BACKOFF_BASE (10 s).    *)
(***************************************************************************)
EXTENDS Integers, Sequences

CONSTANTS Threads,        \* render threads
          Backends,       \* [templates] backend: "auto" (AutoRenderer), "sidecar"
          Cooldown,       \* PROBE_COOLDOWN, in ticks
          MaxBackoff,     \* RESPAWN_MAX_BACKOFF, in ticks
          MaxFaults,      \* bound: children that crash, wedge or time out
          MaxSpawnFails,  \* bound: respawns that fail
          None            \* no child

ASSUME SidecarAssumption ==
    /\ Backends \subseteq {"auto", "sidecar"}
    /\ Cooldown \in Nat \ {0} /\ MaxBackoff \in Nat \ {0}
    /\ MaxFaults \in Nat /\ MaxSpawnFails \in Nat
    /\ None \notin Nat

VARIABLES
    backend,     \* the configured backend; set at boot
    children,    \* status of every child ever launched successfully, in order
    current,     \* SidecarSupervisor.current: index into children
    generation,  \* SidecarSupervisor.generation
    respawning,  \* SidecarSupervisor.respawning
    failures,    \* SidecarSupervisor.failures
    wait,        \* SidecarSupervisor.next_attempt, as a countdown
    healthy,     \* AutoRenderer.healthy
    lastGen,     \* AutoRenderer.last_generation
    probe,       \* AutoRenderer.last_probe, as a countdown
    thread,      \* render threads: [pc, gen, child, round]
    spawner,     \* the detached respawn thread
    faults,      \* children that have failed so far (bounds the model)
    spawnFails,  \* respawns that have failed so far (bounds the model)
    since        \* history: ticks since the last attempt began, at most MaxBackoff

supervisor == <<backend, current, generation, respawning, failures, wait>>
renderer == <<healthy, lastGen, probe>>
vars == <<backend, children, current, generation, respawning, failures, wait, healthy,
          lastGen, probe, thread, spawner, faults, spawnFails, since>>

Status == {"live", "wedged", "dead"}
PCs == {"idle", "load_last", "store_last", "heal", "check", "call", "failed",
        "probe_slot", "probe", "ask", "due", "release"}

Idle == [pc |-> "idle", gen |-> 0, child |-> None, round |-> 1]

TypeOK ==
    /\ backend \in Backends
    /\ children \in Seq(Status)
    /\ current \in DOMAIN children
    /\ generation \in 1..Len(children)
    /\ respawning \in BOOLEAN
    /\ failures \in 0..MaxSpawnFails
    /\ wait \in 0..MaxBackoff
    /\ healthy \in BOOLEAN
    /\ lastGen \in 1..Len(children)
    /\ probe \in 0..Cooldown
    /\ thread \in [Threads -> [pc : PCs, gen : 0..Len(children),
                               child : {None} \cup DOMAIN children,
                               round : {1, 2}]]
    /\ spawner \in {"idle", "spawning", "failed", "reset", "swap", "bump", "free"}
    /\ faults \in 0..MaxFaults
    /\ spawnFails \in 0..MaxSpawnFails
    /\ since \in 0..MaxBackoff

\* The state boots with a child that passed its selftest.
Init ==
    /\ backend \in Backends
    /\ children = <<"live">>
    /\ current = 1
    /\ generation = 1
    /\ respawning = FALSE
    /\ failures = 0
    /\ wait = 0
    /\ healthy = TRUE
    /\ lastGen = 1
    /\ probe = 0
    /\ thread = [t \in Threads |-> Idle]
    /\ spawner = "idle"
    /\ faults = 0
    /\ spawnFails = 0
    /\ since = MaxBackoff

Goto(t, pc) == thread' = [thread EXCEPT ![t].pc = pc]
Take(t, pc) == thread' = [thread EXCEPT ![t].pc = pc, ![t].child = current]

\* The render is over: an answer, a template error, or a boa render (auto)
\* respectively a transport error (sidecar).  Handles are dropped.
Finish(t) == thread' = [thread EXCEPT ![t] = Idle]

-----------------------------------------------------------------------------
(* AutoRenderer::dispatch and StrictSidecar::dispatch.                      *)

\* Round 1: supervisor.generation().
Render(t) ==
    /\ backend = "auto"
    /\ thread[t].pc = "idle"
    /\ thread' = [thread EXCEPT ![t].pc = "load_last", ![t].gen = generation]
    /\ UNCHANGED <<children, supervisor, renderer, spawner, faults, spawnFails, since>>

\* StrictSidecar looks at no flag.
StrictRender(t) ==
    /\ backend = "sidecar"
    /\ thread[t].pc = "idle"
    /\ Take(t, "call")
    /\ UNCHANGED <<children, supervisor, renderer, spawner, faults, spawnFails, since>>

\* last_generation.load() != generation?
LoadLast(t) ==
    /\ thread[t].pc = "load_last"
    /\ Goto(t, IF lastGen # thread[t].gen THEN "store_last" ELSE "check")
    /\ UNCHANGED <<children, supervisor, renderer, spawner, faults, spawnFails, since>>

StoreLast(t) ==
    /\ thread[t].pc = "store_last"
    /\ lastGen' = thread[t].gen
    /\ Goto(t, "heal")
    /\ UNCHANGED <<children, supervisor, healthy, probe, spawner, faults,
                   spawnFails, since>>

Heal(t) ==
    /\ thread[t].pc = "heal"
    /\ healthy' = TRUE
    /\ Goto(t, "check")
    /\ UNCHANGED <<children, supervisor, lastGen, probe, spawner, faults,
                   spawnFails, since>>

\* healthy.load(), then current() for the call.
Check(t) ==
    /\ thread[t].pc = "check"
    /\ IF healthy THEN Take(t, "call") ELSE Goto(t, "probe_slot")
    /\ UNCHANGED <<children, supervisor, renderer, spawner, faults, spawnFails, since>>

\* An envelope arrives: a page or an error of the template itself.
CallAnswers(t) ==
    /\ thread[t].pc = "call"
    /\ children[thread[t].child] = "live"
    /\ Finish(t)
    /\ UNCHANGED <<children, supervisor, renderer, spawner, faults, spawnFails, since>>

\* JhsError::Sidecar: the child is gone, hangs past request_timeout, or is so
\* busy that one request times out.
CallFails(t) ==
    /\ thread[t].pc = "call"
    /\ \/ /\ children[thread[t].child] # "live"
          /\ faults' = faults
       \/ /\ children[thread[t].child] = "live"
          /\ faults < MaxFaults
          /\ faults' = faults + 1
    /\ Goto(t, IF backend = "auto" THEN "failed" ELSE "ask")
    /\ UNCHANGED <<children, supervisor, renderer, spawner, spawnFails, since>>

\* healthy.store(false).
Failed(t) ==
    /\ thread[t].pc = "failed"
    /\ healthy' = FALSE
    /\ Goto(t, "ask")
    /\ UNCHANGED <<children, supervisor, lastGen, probe, spawner, faults,
                   spawnFails, since>>

\* One probe per PROBE_COOLDOWN (the critical section of last_probe); nobody
\* waits for the slot, the render goes to boa.
ProbeSlot(t) ==
    /\ thread[t].pc = "probe_slot"
    /\ \/ probe = 0 /\ probe' = Cooldown /\ Take(t, "probe")
       \/ probe > 0 /\ probe' = probe /\ Finish(t)
    /\ UNCHANGED <<children, supervisor, healthy, lastGen, spawner, faults,
                   spawnFails, since>>

\* health_probe: a child that answers makes the renderer healthy and, in
\* round 1, is tried; in round 2 the loop ends and boa renders.
Probe(t) ==
    /\ thread[t].pc = "probe"
    /\ \/ /\ children[thread[t].child] = "live"
          /\ healthy' = TRUE
          /\ IF thread[t].round = 1
             THEN thread' = [thread EXCEPT
                                ![t] = [pc |-> "load_last", gen |-> generation,
                                        child |-> None, round |-> 2]]
             ELSE Finish(t)
       \/ /\ children[thread[t].child] # "live"
          /\ healthy' = healthy
          /\ Goto(t, "ask")
    /\ UNCHANGED <<children, supervisor, lastGen, probe, spawner, faults,
                   spawnFails, since>>

-----------------------------------------------------------------------------
(* SidecarSupervisor::request_respawn and respawn_once.                     *)

\* Slip: the slot is tested, and taken in a later step.
AskLater(t) ==
    /\ thread[t].pc = "ask"
    /\ IF respawning THEN Finish(t) ELSE Goto(t, "due")
    /\ UNCHANGED <<children, supervisor, renderer, spawner, faults, spawnFails, since>>

\* respawning.swap(true): only the thread that saw false goes on.
Ask(t) ==
    /\ thread[t].pc = "ask"
    /\ respawning' = TRUE
    /\ IF respawning THEN Finish(t) ELSE Goto(t, "due")
    /\ UNCHANGED <<backend, children, current, generation, failures, wait, renderer,
                   spawner, faults, spawnFails, since>>

\* respawn_backoff: base * 2^min(n, 5), capped.
Backoff(n) ==
    LET doubled == 2 ^ (IF n < 5 THEN n ELSE 5)
    IN  IF doubled < MaxBackoff THEN doubled ELSE MaxBackoff

\* Slip: the next attempt is not scheduled.
DueUnscheduled(t) ==
    /\ thread[t].pc = "due"
    /\ \/ /\ wait = 0
          /\ wait' = 0
          /\ spawner' = "spawning"
          /\ since' = 0
          /\ Finish(t)
       \/ /\ wait > 0
          /\ UNCHANGED <<wait, spawner, since>>
          /\ Goto(t, "release")
    /\ UNCHANGED <<backend, children, current, generation, respawning, failures,
                   renderer, faults, spawnFails>>

\* The critical section of next_attempt: the attempt after this one is
\* scheduled before this one runs, on a detached thread.
Due(t) ==
    /\ thread[t].pc = "due"
    /\ \/ /\ wait = 0
          /\ wait' = Backoff(failures)
          /\ spawner' = "spawning"
          /\ since' = 0
          /\ Finish(t)
       \/ /\ wait > 0
          /\ UNCHANGED <<wait, spawner, since>>
          /\ Goto(t, "release")
    /\ UNCHANGED <<backend, children, current, generation, respawning, failures,
                   renderer, faults, spawnFails>>

\* Slip: a request inside the backoff window keeps the slot.
ReleaseForgotten(t) ==
    /\ thread[t].pc = "release"
    /\ Finish(t)
    /\ UNCHANGED <<children, supervisor, renderer, spawner, faults, spawnFails, since>>

\* Inside the backoff window: give the slot back.
Release(t) ==
    /\ thread[t].pc = "release"
    /\ respawning' = FALSE
    /\ Finish(t)
    /\ UNCHANGED <<backend, children, current, generation, failures, wait, renderer,
                   spawner, faults, spawnFails, since>>

\* SidecarRenderer::spawn: handshake and selftest passed, or an error.
SpawnOk ==
    /\ spawner = "spawning"
    /\ children' = Append(children, "live")
    /\ spawner' = "reset"
    /\ UNCHANGED <<supervisor, renderer, thread, faults, spawnFails, since>>

SpawnFails ==
    /\ spawner = "spawning"
    /\ spawnFails < MaxSpawnFails
    /\ spawnFails' = spawnFails + 1
    /\ spawner' = "failed"
    /\ UNCHANGED <<children, supervisor, renderer, thread, faults, since>>

CountFailure ==
    /\ spawner = "failed"
    /\ failures' = failures + 1
    /\ spawner' = "free"
    /\ UNCHANGED <<backend, children, current, generation, respawning, wait, renderer,
                   thread, faults, spawnFails, since>>

\* failures = 0, then next_attempt = now (two locks; the slot is held).
Reset ==
    /\ spawner = "reset"
    /\ failures' = 0
    /\ wait' = 0
    /\ spawner' = "swap"
    /\ UNCHANGED <<backend, children, current, generation, respawning, renderer, thread,
                   faults, spawnFails, since>>

\* *current = fresh (the old handle is dropped), then generation.fetch_add(1).
Install ==
    /\ \/ /\ spawner = "swap"
          /\ current' = Len(children)
          /\ generation' = generation
          /\ spawner' = "bump"
       \/ /\ spawner = "bump"
          /\ generation' = generation + 1
          /\ current' = current
          /\ spawner' = "free"
    /\ UNCHANGED <<backend, children, respawning, failures, wait, renderer, thread,
                   faults, spawnFails, since>>

FreeSlot ==
    /\ spawner = "free"
    /\ respawning' = FALSE
    /\ spawner' = "idle"
    /\ UNCHANGED <<backend, children, current, generation, failures, wait, renderer,
                   thread, faults, spawnFails, since>>

-----------------------------------------------------------------------------
(* The environment: time, and children that crash, hang or recover.         *)

Less(n) == IF n > 0 THEN n - 1 ELSE 0

Tick ==
    /\ wait > 0 \/ probe > 0
    /\ wait' = Less(wait)
    /\ probe' = Less(probe)
    /\ since' = IF since < MaxBackoff THEN since + 1 ELSE since
    /\ UNCHANGED <<backend, children, current, generation, respawning, failures, healthy,
                   lastGen, thread, spawner, faults, spawnFails>>

ChildFails(c) ==
    /\ children[c] = "live"
    /\ faults < MaxFaults
    /\ faults' = faults + 1
    /\ \E s \in {"wedged", "dead"} : children' = [children EXCEPT ![c] = s]
    /\ UNCHANGED <<supervisor, renderer, thread, spawner, spawnFails, since>>

ChildRecovers(c) ==
    /\ children[c] = "wedged"
    /\ children' = [children EXCEPT ![c] = "live"]
    /\ UNCHANGED <<supervisor, renderer, thread, spawner, faults, spawnFails, since>>

-----------------------------------------------------------------------------

ThreadStep(t) ==
    \/ LoadLast(t) \/ StoreLast(t) \/ Heal(t) \/ Check(t)
    \/ CallAnswers(t) \/ CallFails(t) \/ Failed(t)
    \/ ProbeSlot(t) \/ Probe(t)
    \/ Ask(t) \/ Due(t) \/ Release(t)

SpawnerStep ==
    SpawnOk \/ SpawnFails \/ CountFailure \/ Reset \/ Install \/ FreeSlot

Next ==
    \/ \E t \in Threads : Render(t) \/ StrictRender(t) \/ ThreadStep(t)
    \/ SpawnerStep
    \/ Tick
    \/ \E c \in DOMAIN children : ChildFails(c) \/ ChildRecovers(c)

\* Threads and the spawner are scheduled, time passes, and pages keep being
\* requested: recovery is driven by renders, so without traffic nothing heals.
Fairness ==
    /\ \A t \in Threads :
          /\ WF_vars(ThreadStep(t))
          /\ WF_vars(Render(t) \/ StrictRender(t))
    /\ WF_vars(SpawnerStep)
    /\ WF_vars(Tick)

Spec == Init /\ [][Next]_vars
FairSpec == Spec /\ Fairness

-----------------------------------------------------------------------------
(* Properties.                                                              *)

\* "At most one runs at a time": the respawn slot has exactly one holder
\* while the flag is up and none while it is down, so it can neither be taken
\* twice nor be lost for ever.
Holders == {t \in Threads : thread[t].pc \in {"due", "release"}}
SlotHasOneOwner ==
    /\ respawning => (spawner # "idle") \/ Holders # {}
    /\ Holders # {} \/ spawner # "idle" => respawning
    /\ \A s, t \in Holders : s = t
    /\ Holders # {} => spawner = "idle"

\* A render that has seen a generation never calls a child older than it:
\* `current` is replaced before `generation` is raised, by two statements.
SeenGenerationIsServed ==
    \A t \in Threads :
        thread[t].pc = "call" /\ thread[t].gen > 0 =>
            thread[t].child >= thread[t].gen

\* On well-typed states, the respawn slot has one owner and no render is told of
\* a child that is not there yet.
RespawnSound == TypeOK /\ SlotHasOneOwner /\ SeenGenerationIsServed

\* "A broken Node installation cannot be fork-bombed": after n consecutive
\* failures the next attempt starts no sooner than the backoff of n - 1 after
\* the last one did, however many renders ask for it.
NoForkBomb ==
    [][spawner = "idle" /\ spawner' = "spawning" /\ failures > 0 =>
          since >= Backoff(failures - 1)]_vars

\* The renderer recovers: once children stop failing, renders end up on a
\* live sidecar for good, whatever was read, flagged and asked before.
Recovered == children[current] = "live" /\ (backend = "auto" => healthy)
Recovers == <>[]Recovered
=============================================================================
