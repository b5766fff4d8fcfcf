----------------------------- MODULE SidecarProofs -----------------------------
(***************************************************************************)
(* The sidecar: its respawn by the server (SidecarSupervisor), then the       *)
(* pool of workers inside it (WorkerPool).                                    *)
(*                                                                          *)
(* The respawn of the JHS sidecar, for any number of render threads: the     *)
(* slot has one owner, a render that has seen a generation calls a child of   *)
(* that generation or a newer one, and failed respawns keep their distance.  *)
(*                                                                          *)
(* Children are numbered as they are launched, so the generation counts the   *)
(* installed ones: it lags the launches only while the respawn thread holds   *)
(* a child it has not announced (Numbered).  The distance is a countdown that *)
(* runs as fast as the history counter that measures it (Paced).             *)
(***************************************************************************)
EXTENDS SidecarSupervisor, WorkerPool, FiniteSetTheorems, SequenceTheorems, TLAPS

\* What a render thread knows: no generation before it was announced.
Informed(r) ==
    /\ r.gen <= generation
    /\ r.pc \in {"load_last", "store_last"} => r.gen > 0

\* generation.fetch_add comes last: `current` is never older than announced.
Numbered ==
    /\ Len(children) = generation + (IF spawner \in {"reset", "swap", "bump"} THEN 1 ELSE 0)
    /\ current = generation + (IF spawner = "bump" THEN 1 ELSE 0)
    /\ lastGen <= generation
    /\ \A t \in Threads : Informed(thread[t])

FailuresCounted == failures + (IF spawner = "failed" THEN 1 ELSE 0) <= spawnFails

\* What is left to wait and what has gone by make up the backoff in force.
Paced ==
    /\ spawner \in {"spawning", "failed"} => wait + since >= Backoff(failures)
    /\ spawner \in {"idle", "free"} /\ failures > 0 => wait + since >= Backoff(failures - 1)
    /\ spawner \in {"swap", "bump"} => failures = 0

Inv == TypeOK /\ SlotHasOneOwner /\ Numbered /\ SeenGenerationIsServed /\ FailuresCounted /\ Paced

ThreadState == [pc : PCs, gen : 0..Len(children), child : {None} \cup DOMAIN children,
                round : {1, 2}]

\* Doubling stops at the cap.
LEMMA BackoffBounded ==
  ASSUME NEW n \in Nat
  PROVE  Backoff(n) \in 0..MaxBackoff
<1> DEFINE k == IF n < 5 THEN n ELSE 5
<1>1. k \in {0, 1, 2, 3, 4, 5}
  OBVIOUS
<1>2. 2 ^ k \in Nat
  <2> HIDE DEF k
  <2>1. CASE k = 0 BY <2>1
  <2>2. CASE k = 1 BY <2>2
  <2>3. CASE k = 2 BY <2>3
  <2>4. CASE k = 3 BY <2>4
  <2>5. CASE k = 4 BY <2>5
  <2>6. CASE k = 5 BY <2>6
  <2> QED BY <1>1, <2>1, <2>2, <2>3, <2>4, <2>5, <2>6
<1>3. Backoff(n) = IF 2 ^ k < MaxBackoff THEN 2 ^ k ELSE MaxBackoff
  BY DEF Backoff
<1> HIDE DEF k
<1> QED BY <1>2, <1>3, SidecarAssumption

\* The state boots with a child that passed its selftest.
LEMMA InitInv == Init => Inv
<1> SUFFICES ASSUME Init PROVE Inv
  OBVIOUS
<1>0. children = <<"live">> /\ Len(children) = 1
  BY DEF Init
<1>1. TypeOK
  <2>1. children \in Seq(Status) /\ DOMAIN children = 1..1
    BY DEF Init, Status
  <2>2. Idle \in ThreadState
    BY <1>0 DEF Idle, ThreadState, PCs
  <2>3. thread \in [Threads -> ThreadState]
    BY <2>2 DEF Init
  <2>4. /\ generation \in 1..Len(children) /\ lastGen \in 1..Len(children)
        /\ current \in DOMAIN children
        /\ wait \in 0..MaxBackoff /\ since \in 0..MaxBackoff /\ probe \in 0..Cooldown
        /\ failures \in 0..MaxSpawnFails /\ spawnFails \in 0..MaxSpawnFails
        /\ faults \in 0..MaxFaults
    BY <1>0, <2>1, SidecarAssumption DEF Init
  <2>5. backend \in Backends /\ respawning \in BOOLEAN /\ healthy \in BOOLEAN /\ spawner = "idle"
    BY DEF Init
  <2> QED BY <2>1, <2>3, <2>4, <2>5 DEF TypeOK, ThreadState
<1>2. SlotHasOneOwner /\ SeenGenerationIsServed
  BY DEF Init, SlotHasOneOwner, SeenGenerationIsServed, Holders, Idle
<1>3. Numbered /\ FailuresCounted /\ Paced
  BY <1>0, SidecarAssumption DEF Init, Numbered, Informed, FailuresCounted, Paced, Idle
<1> QED BY <1>1, <1>2, <1>3 DEF Inv

-----------------------------------------------------------------------------
(* Renders that do not touch the slot.                                      *)

\* A thread moves to the state r and leaves the supervisor alone.
Quiet(t, r) ==
    /\ thread' = [thread EXCEPT ![t] = r]
    /\ thread[t].pc \notin {"due", "release"} /\ r.pc \notin {"due", "release"}
    /\ Informed(r)
    /\ r.pc = "call" /\ r.gen > 0 => r.child >= r.gen
    /\ lastGen' \in {lastGen} \cup 1..generation
    /\ healthy' \in BOOLEAN /\ probe' \in 0..Cooldown /\ faults' \in 0..MaxFaults
    /\ UNCHANGED <<children, supervisor, spawner, spawnFails, since>>

LEMMA QuietKeeps ==
  ASSUME Inv, NEW t \in Threads, NEW r \in ThreadState, Quiet(t, r)
  PROVE  Inv'
<1>0. TypeOK /\ Numbered /\ SlotHasOneOwner /\ SeenGenerationIsServed
      /\ FailuresCounted /\ Paced
  BY DEF Inv
<1>1. UNCHANGED <<children, supervisor, spawner, spawnFails, since>>
  BY DEF Quiet
<1>2. thread' \in [Threads -> ThreadState] /\ ThreadState' = ThreadState
  BY <1>0, <1>1 DEF Quiet, TypeOK, ThreadState
<1>3. thread'[t] = r /\ \A s \in Threads : s # t => thread'[s] = thread[s]
  BY <1>0 DEF Quiet, TypeOK
<1>4. generation \in 1..Len(children) /\ lastGen' \in 1..Len(children) /\ lastGen' <= generation
  BY <1>0 DEF TypeOK, Numbered, Quiet
<1>5. TypeOK'
  BY <1>0, <1>1, <1>2, <1>4 DEF TypeOK, Quiet, supervisor, ThreadState
<1>6. SlotHasOneOwner'
  <2>1. Holders' = Holders
    BY <1>3 DEF Holders, Quiet
  <2> QED BY <1>0, <1>1, <2>1 DEF SlotHasOneOwner, supervisor
<1>7. Numbered'
  BY <1>0, <1>1, <1>3, <1>4 DEF Numbered, Informed, Quiet, supervisor
<1>8. SeenGenerationIsServed'
  BY <1>0, <1>3 DEF SeenGenerationIsServed, Quiet
<1>9. FailuresCounted' /\ Paced'
  BY <1>0, <1>1 DEF FailuresCounted, Paced, supervisor
<1> QED BY <1>5, <1>6, <1>7, <1>8, <1>9 DEF Inv

\* The states a thread is put into.
LEMMA PutPc ==
  ASSUME NEW q \in ThreadState, NEW pc \in PCs
  PROVE  \E r \in ThreadState :
            r = [q EXCEPT !.pc = pc] /\ r.pc = pc /\ r.gen = q.gen /\ r.child = q.child
<1> DEFINE r == [q EXCEPT !.pc = pc]
<1>1. r \in ThreadState /\ r.pc = pc /\ r.gen = q.gen /\ r.child = q.child
  BY DEF ThreadState
<1> QED BY <1>1

\* A render looks at flags and generations, calls a child and gets its answer.
LEMMA Renders ==
  ASSUME Inv, NEW t \in Threads,
         \/ Render(t) \/ StrictRender(t) \/ LoadLast(t) \/ StoreLast(t) \/ Heal(t) \/ Check(t)
         \/ CallAnswers(t) \/ CallFails(t) \/ Failed(t) \/ ProbeSlot(t) \/ Probe(t)
  PROVE  Inv'
<1>0. TypeOK /\ Numbered /\ thread[t] \in ThreadState /\ Informed(thread[t])
  BY DEF Inv, TypeOK, Numbered, ThreadState
<1>1. /\ generation \in 1..Len(children) /\ current \in DOMAIN children
      /\ current >= generation /\ lastGen \in 1..generation
      /\ healthy \in BOOLEAN /\ probe \in 0..Cooldown /\ faults \in 0..MaxFaults
      /\ Cooldown \in Nat /\ Len(children) \in Nat /\ Cooldown \in 0..Cooldown
      /\ \A i \in DOMAIN children : i \in Nat
  BY <1>0, SidecarAssumption DEF TypeOK, Numbered
<1>i. Idle \in ThreadState /\ Informed(Idle) /\ Idle.pc = "idle"
  BY <1>1 DEF Idle, ThreadState, Informed, PCs
<1>u. ASSUME NEW r \in ThreadState, Quiet(t, r) PROVE Inv'
  BY <1>u, QuietKeeps
\* A thread keeps what it knows and moves to a step without a duty.
<1>2. ASSUME NEW pc \in PCs \ {"due", "release", "call"}
      PROVE  \E r \in ThreadState :
                 /\ r = [thread[t] EXCEPT !.pc = pc]
                 /\ r.pc = pc /\ r.gen = thread[t].gen
  BY <1>0, <1>2, PutPc
\* A thread takes the current child, of its generation or a newer one.
<1>3. ASSUME NEW pc \in {"call", "probe"}
      PROVE  \E r \in ThreadState :
                 /\ r = [thread[t] EXCEPT !.pc = pc, !.child = current]
                 /\ r.pc = pc /\ r.gen = thread[t].gen /\ r.child >= r.gen
  <2>0. pc \in PCs
    BY <1>3 DEF PCs
  <2>1. PICK r \in ThreadState : /\ r = [thread[t] EXCEPT !.pc = pc, !.child = current]
                                 /\ r.pc = pc /\ r.gen = thread[t].gen /\ r.child = current
    <3>1. PICK q \in ThreadState, c \in DOMAIN children : q = thread[t] /\ c = current
      BY <1>0, <1>1
    <3> DEFINE r == [q EXCEPT !.pc = pc, !.child = c]
    <3>2. r \in ThreadState /\ r.pc = pc /\ r.gen = q.gen /\ r.child = c
      BY <2>0 DEF ThreadState
    <3> QED BY <3>1, <3>2
  <2>2. thread[t].gen \in Nat /\ thread[t].gen <= current
    BY <1>0, <1>1 DEF ThreadState, Informed
  <2> QED BY <2>1, <2>2, <1>1
<1>5. CASE Render(t)
  <2>0. "load_last" \in PCs /\ generation \in 0..Len(children)
    BY <1>1 DEF PCs
  <2>1. PICK r \in ThreadState : /\ r = [thread[t] EXCEPT !.pc = "load_last", !.gen = generation]
                                 /\ r.pc = "load_last" /\ r.gen = generation
    <3>1. PICK q \in ThreadState, g \in 0..Len(children) : q = thread[t] /\ g = generation
      BY <1>0, <2>0
    <3> DEFINE r == [q EXCEPT !.pc = "load_last", !.gen = g]
    <3>2. r \in ThreadState /\ r.pc = "load_last" /\ r.gen = g
      BY <2>0 DEF ThreadState
    <3> QED BY <3>1, <3>2
  <2>2. thread' = [thread EXCEPT ![t] = r]
    BY <1>0, <1>5, <2>1 DEF Render, TypeOK
  <2>3. Informed(r)
    BY <1>1, <2>1 DEF Informed
  <2>4. Quiet(t, r)
    BY <1>1, <1>5, <2>1, <2>2, <2>3 DEF Render, Quiet, renderer
  <2> QED BY <2>4, <1>u
<1>6. CASE StrictRender(t)
  <2>1. PICK r \in ThreadState : /\ r = [thread[t] EXCEPT !.pc = "call", !.child = current]
                                 /\ r.pc = "call" /\ r.gen = thread[t].gen /\ r.child >= r.gen
    BY <1>3
  <2>2. thread' = [thread EXCEPT ![t] = r]
    BY <1>0, <1>6, <2>1 DEF StrictRender, Take, TypeOK
  <2>3. Quiet(t, r)
    BY <1>0, <1>1, <1>6, <2>1, <2>2 DEF StrictRender, Quiet, Informed, renderer
  <2> QED BY <2>3, <1>u
<1>7. CASE LoadLast(t) \/ StoreLast(t) \/ Heal(t) \/ Failed(t)
  <2>1. PICK pc \in {"store_last", "check", "heal", "ask"} :
            thread' = [thread EXCEPT ![t].pc = pc] /\ (pc = "store_last" => LoadLast(t))
    BY <1>7 DEF LoadLast, StoreLast, Heal, Failed, Goto
  <2>2. PICK r \in ThreadState : r = [thread[t] EXCEPT !.pc = pc]
                                 /\ r.pc = pc /\ r.gen = thread[t].gen
    BY <1>2 DEF PCs
  <2>3. thread' = [thread EXCEPT ![t] = r]
    BY <1>0, <2>1, <2>2 DEF TypeOK
  <2>4. Informed(r)
    BY <1>0, <2>1, <2>2 DEF Informed, LoadLast
  <2>5. thread[t].pc \notin {"due", "release"}
    BY <1>7 DEF LoadLast, StoreLast, Heal, Failed
  <2>6. lastGen' \in {lastGen} \cup 1..generation
    BY <1>0, <1>1, <1>7 DEF LoadLast, StoreLast, Heal, Failed, Informed, renderer, ThreadState
  <2>7. Quiet(t, r)
    BY <1>1, <1>7, <2>1, <2>2, <2>3, <2>4, <2>5, <2>6
       DEF LoadLast, StoreLast, Heal, Failed, Quiet, renderer
  <2> QED BY <2>7, <1>u
<1>8. CASE Check(t)
  <2>1. PICK r \in ThreadState :
            /\ r = IF healthy THEN [thread[t] EXCEPT !.pc = "call", !.child = current]
                              ELSE [thread[t] EXCEPT !.pc = "probe_slot"]
            /\ r.pc \in {"call", "probe_slot"} /\ r.gen = thread[t].gen
            /\ r.pc = "call" => r.child >= r.gen
    <3>1. CASE healthy
      BY <1>3, <3>1
    <3>2. CASE ~healthy
      BY <1>2, <3>2 DEF PCs
    <3> QED BY <3>1, <3>2
  <2>2. thread' = [thread EXCEPT ![t] = r]
    BY <1>0, <1>8, <2>1 DEF Check, Take, Goto, TypeOK
  <2>3. Quiet(t, r)
    BY <1>0, <1>1, <1>8, <2>1, <2>2 DEF Check, Quiet, Informed, renderer
  <2> QED BY <2>3, <1>u
<1>9. CASE CallAnswers(t)
  <2>1. Quiet(t, Idle)
    BY <1>1, <1>i, <1>9 DEF CallAnswers, Finish, Quiet, renderer
  <2> QED BY <2>1, <1>i, <1>u
<1>10. CASE CallFails(t)
  <2>1. PICK pc \in {"failed", "ask"} : thread' = [thread EXCEPT ![t].pc = pc]
    BY <1>10 DEF CallFails, Goto
  <2>2. PICK r \in ThreadState : r = [thread[t] EXCEPT !.pc = pc]
                                 /\ r.pc = pc /\ r.gen = thread[t].gen
    BY <1>2 DEF PCs
  <2>3. thread' = [thread EXCEPT ![t] = r]
    BY <1>0, <2>1, <2>2 DEF TypeOK
  <2>4. faults' \in 0..MaxFaults
    BY <1>1, <1>10, SidecarAssumption DEF CallFails
  <2>5. Quiet(t, r)
    BY <1>0, <1>1, <1>10, <2>2, <2>3, <2>4 DEF CallFails, Quiet, Informed, renderer
  <2> QED BY <2>5, <1>u
<1>11. CASE ProbeSlot(t)
  <2>1. CASE probe = 0
    <3>1. PICK r \in ThreadState : /\ r = [thread[t] EXCEPT !.pc = "probe", !.child = current]
                                   /\ r.pc = "probe" /\ r.gen = thread[t].gen
      BY <1>3
    <3>2. Take(t, "probe") /\ probe' = Cooldown
      BY <1>11, <2>1 DEF ProbeSlot
    <3>3. thread' = [thread EXCEPT ![t] = r]
      BY <1>0, <3>1, <3>2 DEF Take, TypeOK
    <3>4. Quiet(t, r)
      BY <1>0, <1>1, <1>11, <3>1, <3>2, <3>3 DEF ProbeSlot, Quiet, Informed, renderer
    <3> QED BY <3>4, <1>u
  <2>2. CASE probe # 0
    <3>1. Quiet(t, Idle)
      BY <1>1, <1>i, <1>11, <2>2 DEF ProbeSlot, Finish, Quiet, renderer
    <3> QED BY <3>1, <1>i, <1>u
  <2> QED BY <2>1, <2>2
<1>12. CASE Probe(t)
  <2>1. CASE children[thread[t].child] # "live"
    <3>1. PICK r \in ThreadState : r = [thread[t] EXCEPT !.pc = "ask"]
                                   /\ r.pc = "ask" /\ r.gen = thread[t].gen
      BY <1>2 DEF PCs
    <3>2. thread' = [thread EXCEPT ![t] = r]
      BY <1>0, <1>12, <2>1, <3>1 DEF Probe, Goto, TypeOK
    <3>3. Quiet(t, r)
      BY <1>0, <1>1, <1>12, <2>1, <3>1, <3>2 DEF Probe, Quiet, Informed, renderer
    <3> QED BY <3>3, <1>u
  <2>2. CASE children[thread[t].child] = "live" /\ thread[t].round = 1
    <3> DEFINE r == [pc |-> "load_last", gen |-> generation, child |-> None, round |-> 2]
    <3>1. r \in ThreadState /\ Informed(r)
      BY <1>1 DEF ThreadState, Informed, PCs
    <3>2. Quiet(t, r)
      BY <1>1, <1>12, <2>2, <3>1 DEF Probe, Quiet, renderer
    <3> QED BY <3>1, <3>2, <1>u
  <2>3. CASE children[thread[t].child] = "live" /\ thread[t].round # 1
    <3>1. Quiet(t, Idle)
      BY <1>1, <1>i, <1>12, <2>3 DEF Probe, Finish, Quiet, renderer
    <3> QED BY <3>1, <1>i, <1>u
  <2> QED BY <2>1, <2>2, <2>3
<1> QED BY <1>5, <1>6, <1>7, <1>8, <1>9, <1>10, <1>11, <1>12

-----------------------------------------------------------------------------
(* The slot: asked for, claimed or given back, and worked off.              *)

\* Only the state of one thread changes, and it is not in a call.
LEMMA OneMoves ==
  ASSUME TypeOK, Numbered, SeenGenerationIsServed, UNCHANGED <<children, generation>>,
         NEW t \in Threads, NEW r \in ThreadState, Informed(r), r.pc # "call",
         thread' = [thread EXCEPT ![t] = r]
  PROVE  /\ thread' \in [Threads -> ThreadState] /\ ThreadState' = ThreadState
         /\ thread'[t] = r /\ \A s \in Threads : s # t => thread'[s] = thread[s]
         /\ \A s \in Threads : Informed(thread[s])'
         /\ SeenGenerationIsServed'
<1>1. thread' \in [Threads -> ThreadState] /\ ThreadState' = ThreadState
  BY DEF TypeOK, ThreadState
<1>2. thread'[t] = r /\ \A s \in Threads : s # t => thread'[s] = thread[s]
  BY DEF TypeOK
<1>3. \A s \in Threads : Informed(thread[s])'
  BY <1>2 DEF Numbered, Informed
<1>4. SeenGenerationIsServed'
  BY <1>2 DEF SeenGenerationIsServed
<1> QED BY <1>1, <1>2, <1>3, <1>4

LEMMA Idles == TypeOK => Idle \in ThreadState /\ Idle.pc = "idle" /\ (Numbered => Informed(Idle))
<1> SUFFICES ASSUME TypeOK PROVE Idle \in ThreadState /\ Idle.pc = "idle" /\ (Numbered => Informed(Idle))
  OBVIOUS
<1>1. Len(children) \in Nat /\ generation \in Nat
  BY DEF TypeOK
<1> QED BY <1>1 DEF Idle, ThreadState, PCs, Informed

\* The swap took the slot: nobody had it.
LEMMA Taken ==
  ASSUME Inv, NEW t \in Threads, Ask(t)
  PROVE  Inv' /\ spawner' = spawner
<1>0. TypeOK /\ Numbered /\ SlotHasOneOwner /\ SeenGenerationIsServed
      /\ FailuresCounted /\ Paced
  BY DEF Inv
<1>1. CASE respawning
  <2>1. Quiet(t, Idle)
    BY <1>0, <1>1, Idles DEF Ask, Finish, Quiet, TypeOK, renderer, supervisor, Numbered, Idle
  <2> QED BY <2>1, <1>0, QuietKeeps, Idles DEF Ask
<1>2. CASE ~respawning
  <2>1. PICK r \in ThreadState : /\ r = [thread[t] EXCEPT !.pc = "due"]
                                 /\ r.pc = "due" /\ r.gen = thread[t].gen
    BY <1>0, PutPc DEF TypeOK, ThreadState, PCs
  <2>2. thread' = [thread EXCEPT ![t] = r]
    BY <1>0, <1>2, <2>1 DEF Ask, Goto, TypeOK
  <2>3. Informed(r)
    BY <1>0, <2>1 DEF Informed, Numbered
  <2>4. UNCHANGED <<children, generation>>
    BY DEF Ask
  <2>5. /\ thread' \in [Threads -> ThreadState] /\ ThreadState' = ThreadState
        /\ thread'[t] = r /\ \A s \in Threads : s # t => thread'[s] = thread[s]
        /\ \A s \in Threads : Informed(thread[s])'
        /\ SeenGenerationIsServed'
    BY <1>0, <2>1, <2>2, <2>3, <2>4, OneMoves
  <2>6. TypeOK'
    BY <1>0, <2>5 DEF TypeOK, Ask, ThreadState, renderer
  <2>7. SlotHasOneOwner'
    <3>1. Holders = {} /\ spawner = "idle"
      BY <1>0, <1>2 DEF SlotHasOneOwner
    <3>2. Holders' = {t}
      BY <2>1, <2>5, <3>1 DEF Holders
    <3> QED BY <3>1, <3>2 DEF SlotHasOneOwner, Ask
  <2>8. Numbered' /\ FailuresCounted' /\ Paced'
    BY <1>0, <2>5 DEF Numbered, FailuresCounted, Paced, Ask, renderer
  <2> QED BY <2>5, <2>6, <2>7, <2>8 DEF Inv, Ask
<1> QED BY <1>1, <1>2

\* Whoever holds the slot claims an attempt that is due, or gives the slot back.
LEMMA Claimed ==
  ASSUME Inv, NEW t \in Threads, Due(t)
  PROVE  /\ Inv'
         /\ spawner' # spawner /\ failures > 0 => since >= Backoff(failures - 1)
<1>0. TypeOK /\ Numbered /\ SlotHasOneOwner /\ SeenGenerationIsServed
      /\ FailuresCounted /\ Paced
  BY DEF Inv
<1>1. t \in Holders /\ spawner = "idle" /\ respawning /\ \A s \in Holders : s = t
  BY <1>0 DEF Due, Holders, SlotHasOneOwner
<1>2. failures \in Nat /\ wait \in Nat /\ since \in Nat /\ MaxBackoff \in Nat
  BY <1>0, SidecarAssumption DEF TypeOK
<1>3. UNCHANGED <<children, generation>>
  BY DEF Due
<1>4. CASE wait = 0
  <2>1. /\ wait' = Backoff(failures) /\ spawner' = "spawning" /\ since' = 0
        /\ thread' = [thread EXCEPT ![t] = Idle]
    BY <1>2, <1>4 DEF Due, Finish
  <2>2. /\ thread' \in [Threads -> ThreadState] /\ ThreadState' = ThreadState
        /\ thread'[t] = Idle /\ \A s \in Threads : s # t => thread'[s] = thread[s]
        /\ \A s \in Threads : Informed(thread[s])'
        /\ SeenGenerationIsServed'
    BY <1>0, <1>3, <2>1, Idles, OneMoves
  <2>3. Backoff(failures) \in 0..MaxBackoff
    BY <1>2, BackoffBounded
  <2>4. TypeOK'
    BY <1>0, <1>2, <2>1, <2>2, <2>3 DEF TypeOK, Due, ThreadState, renderer
  <2>5. SlotHasOneOwner'
    <3>1. Holders' = {}
      BY <1>1, <2>2, <1>0, Idles DEF Holders
    <3> QED BY <1>1, <2>1, <3>1 DEF SlotHasOneOwner, Due
  <2>6. Numbered' /\ FailuresCounted'
    BY <1>0, <1>1, <2>1, <2>2 DEF Numbered, FailuresCounted, Due, renderer
  <2>7. Backoff(failures)' = Backoff(failures) /\ failures' = failures
    BY DEF Backoff, Due
  <2>8. Paced'
    BY <1>2, <2>1, <2>3, <2>7 DEF Paced
  <2>9. failures > 0 => since >= Backoff(failures - 1)
    BY <1>0, <1>1, <1>2, <1>4 DEF Paced
  <2> QED BY <2>2, <2>4, <2>5, <2>6, <2>8, <2>9 DEF Inv
<1>5. CASE wait # 0
  <2>1. PICK r \in ThreadState : /\ r = [thread[t] EXCEPT !.pc = "release"]
                                 /\ r.pc = "release" /\ r.gen = thread[t].gen
    BY <1>0, PutPc DEF TypeOK, ThreadState, PCs
  <2>2. Goto(t, "release") /\ UNCHANGED <<wait, spawner, since>>
    BY <1>2, <1>5 DEF Due
  <2>3. thread' = [thread EXCEPT ![t] = r]
    BY <1>0, <2>1, <2>2 DEF Goto, TypeOK
  <2>4. Informed(r)
    BY <1>0, <2>1 DEF Informed, Numbered
  <2>5. /\ thread' \in [Threads -> ThreadState] /\ ThreadState' = ThreadState
        /\ thread'[t] = r /\ \A s \in Threads : s # t => thread'[s] = thread[s]
        /\ \A s \in Threads : Informed(thread[s])'
        /\ SeenGenerationIsServed'
    BY <1>0, <1>3, <2>1, <2>3, <2>4, OneMoves
  <2>6. TypeOK'
    BY <1>0, <2>2, <2>5 DEF TypeOK, Due, ThreadState, renderer
  <2>7. SlotHasOneOwner'
    <3>1. Holders' = Holders
      BY <1>1, <2>1, <2>5 DEF Holders
    <3> QED BY <1>0, <2>2, <3>1 DEF SlotHasOneOwner, Due
  <2>8. Numbered' /\ FailuresCounted' /\ Paced'
    BY <1>0, <2>2, <2>5 DEF Numbered, FailuresCounted, Paced, Due, renderer, Backoff
  <2> QED BY <2>2, <2>5, <2>6, <2>7, <2>8 DEF Inv
<1> QED BY <1>4, <1>5

LEMMA Released ==
  ASSUME Inv, NEW t \in Threads, Release(t)
  PROVE  Inv' /\ spawner' = spawner
<1>0. TypeOK /\ Numbered /\ SlotHasOneOwner /\ SeenGenerationIsServed
      /\ FailuresCounted /\ Paced
  BY DEF Inv
<1>1. t \in Holders /\ spawner = "idle" /\ \A s \in Holders : s = t
  BY <1>0 DEF Release, Holders, SlotHasOneOwner
<1>2. /\ thread' \in [Threads -> ThreadState] /\ ThreadState' = ThreadState
      /\ thread'[t] = Idle /\ \A s \in Threads : s # t => thread'[s] = thread[s]
      /\ \A s \in Threads : Informed(thread[s])'
      /\ SeenGenerationIsServed'
  <2>1. thread' = [thread EXCEPT ![t] = Idle] /\ UNCHANGED <<children, generation>>
    BY DEF Release, Finish
  <2> QED BY <1>0, <2>1, Idles, OneMoves
<1>3. TypeOK'
  BY <1>0, <1>2 DEF TypeOK, Release, ThreadState, renderer
<1>4. SlotHasOneOwner'
  <2>1. Holders' = {}
    BY <1>1, <1>2, <1>0, Idles DEF Holders
  <2> QED BY <1>1, <2>1 DEF SlotHasOneOwner, Release
<1>5. Numbered' /\ FailuresCounted' /\ Paced'
  BY <1>0, <1>2 DEF Numbered, FailuresCounted, Paced, Release, renderer
<1> QED BY <1>2, <1>3, <1>4, <1>5 DEF Inv, Release

\* A launch is numbered last; the respawn thread installs it, then announces it.
LEMMA Respawns ==
  ASSUME Inv, SpawnerStep
  PROVE  Inv' /\ spawner' # "spawning"
<1>0. TypeOK /\ Numbered /\ SlotHasOneOwner /\ SeenGenerationIsServed
      /\ FailuresCounted /\ Paced
  BY DEF Inv
<1>1. /\ UNCHANGED <<backend, renderer, thread, faults, since>>
      /\ spawner # "idle" /\ spawner' # "spawning"
  BY DEF SpawnerStep, SpawnOk, SpawnFails, CountFailure, Reset, Install, FreeSlot, supervisor
<1>2. /\ generation \in Nat /\ Len(children) \in Nat /\ current \in Nat
      /\ failures \in Nat /\ spawnFails \in Nat /\ wait \in Nat /\ since \in Nat
      /\ MaxSpawnFails \in Nat /\ MaxBackoff \in Nat
  BY <1>0, SidecarAssumption DEF TypeOK
<1>3. CASE SpawnOk
  <2>1. /\ children' = Append(children, "live")
        /\ children' \in Seq(Status) /\ Len(children') = Len(children) + 1
        /\ DOMAIN children \subseteq DOMAIN children'
    BY <1>0, <1>3 DEF SpawnOk, TypeOK, Status
  <2>2. thread \in [Threads -> ThreadState']
    BY <1>0, <1>2, <2>1 DEF TypeOK, ThreadState
  <2>3. TypeOK'
    BY <1>0, <1>1, <1>2, <1>3, <2>1, <2>2 DEF TypeOK, SpawnOk, ThreadState, supervisor, renderer
  <2>4. Numbered'
    BY <1>0, <1>2, <1>3, <2>1 DEF Numbered, Informed, SpawnOk, supervisor, renderer
  <2>5. SlotHasOneOwner' /\ SeenGenerationIsServed' /\ FailuresCounted' /\ Paced'
    BY <1>0, <1>3 DEF SlotHasOneOwner, Holders, SeenGenerationIsServed, FailuresCounted, Paced,
                      SpawnOk, supervisor
  <2> QED BY <1>1, <2>3, <2>4, <2>5 DEF Inv
<1>4. CASE SpawnFails
  <2>1. TypeOK'
    BY <1>0, <1>2, <1>4 DEF TypeOK, SpawnFails, supervisor, renderer
  <2>2. Numbered' /\ SlotHasOneOwner' /\ SeenGenerationIsServed'
    BY <1>0, <1>4 DEF Numbered, Informed, SlotHasOneOwner, Holders, SeenGenerationIsServed,
                      SpawnFails, supervisor, renderer
  <2>3. FailuresCounted' /\ Paced'
    BY <1>0, <1>2, <1>4 DEF FailuresCounted, Paced, SpawnFails, supervisor, Backoff
  <2> QED BY <1>1, <2>1, <2>2, <2>3 DEF Inv
<1>5. CASE CountFailure
  <2>1. failures' = failures + 1 /\ failures' \in 0..MaxSpawnFails
    BY <1>0, <1>2, <1>5 DEF CountFailure, FailuresCounted, TypeOK
  <2>2. TypeOK'
    BY <1>0, <1>5, <2>1 DEF TypeOK, CountFailure, renderer
  <2>3. Numbered' /\ SlotHasOneOwner' /\ SeenGenerationIsServed'
    BY <1>0, <1>5 DEF Numbered, Informed, SlotHasOneOwner, Holders, SeenGenerationIsServed,
                      CountFailure, renderer
  <2>4. FailuresCounted'
    BY <1>0, <1>2, <1>5 DEF FailuresCounted, CountFailure
  <2>5. Paced'
    <3>1. failures' - 1 = failures
      BY <1>2, <2>1
    <3>2. Backoff(failures - 1)' = Backoff(failures)
      BY <3>1 DEF Backoff
    <3>3. wait + since >= Backoff(failures)
      BY <1>0, <1>5 DEF Paced, CountFailure
    <3>4. spawner' = "free" /\ wait' = wait /\ since' = since
      BY <1>5 DEF CountFailure
    <3>5. (failures > 0 => wait + since >= Backoff(failures - 1))'
      BY <3>2, <3>3, <3>4
    <3> QED BY <3>4, <3>5 DEF Paced
  <2> QED BY <1>1, <2>2, <2>3, <2>4, <2>5 DEF Inv
<1>6. CASE Reset
  <2>1. TypeOK'
    BY <1>0, <1>2, <1>6 DEF TypeOK, Reset, renderer
  <2>2. Numbered' /\ SlotHasOneOwner' /\ SeenGenerationIsServed' /\ Paced'
    BY <1>0, <1>6 DEF Numbered, Informed, SlotHasOneOwner, Holders, SeenGenerationIsServed,
                      Paced, Reset, renderer
  <2>3. FailuresCounted'
    BY <1>0, <1>2, <1>6 DEF FailuresCounted, Reset
  <2> QED BY <1>1, <2>1, <2>2, <2>3 DEF Inv
<1>7. CASE Install
  <2>1. \/ /\ spawner = "swap" /\ spawner' = "bump"
           /\ current' = generation + 1 /\ generation' = generation
        \/ /\ spawner = "bump" /\ spawner' = "free"
           /\ current' = current /\ generation' = generation + 1
    BY <1>0, <1>7 DEF Install, Numbered
  <2>2. UNCHANGED <<backend, children, respawning, failures, wait, renderer, thread,
                    faults, spawnFails, since>>
    BY <1>7 DEF Install
  <2>3. /\ Len(children) = generation + 1 /\ generation <= generation'
        /\ generation' \in 1..Len(children) /\ current' \in DOMAIN children
    BY <1>0, <1>2, <2>1 DEF Numbered, TypeOK
  <2>4. TypeOK'
    BY <1>0, <2>1, <2>2, <2>3 DEF TypeOK, renderer
  <2>5. Numbered'
    <3>1. \A t \in Threads : thread[t].gen \in Nat
      BY <1>0, <1>2 DEF TypeOK
    <3>2. lastGen \in Nat
      BY <1>0, <1>2 DEF TypeOK
    <3>3. \A t \in Threads : Informed(thread[t])'
      BY <1>0, <1>2, <2>1, <2>2, <3>1 DEF Numbered, Informed
    <3>4. current' = generation' + (IF spawner' = "bump" THEN 1 ELSE 0)
      BY <1>0, <1>2, <2>1 DEF Numbered
    <3>5. lastGen' <= generation'
      BY <1>0, <1>2, <2>1, <2>2, <3>2 DEF Numbered, renderer
    <3>6. Len(children') = generation' + (IF spawner' \in {"reset", "swap", "bump"} THEN 1 ELSE 0)
      <4>1. Len(children') = Len(children)
        BY <2>2
      <4>2. CASE spawner = "swap"
        BY <1>2, <2>1, <2>3, <4>1, <4>2
      <4>3. CASE spawner = "bump"
        BY <1>2, <2>1, <2>3, <4>1, <4>3
      <4> QED BY <2>1, <4>2, <4>3
    <3> QED BY <3>3, <3>4, <3>5, <3>6 DEF Numbered
  <2>6. SlotHasOneOwner' /\ SeenGenerationIsServed' /\ FailuresCounted'
    BY <1>0, <2>1, <2>2 DEF SlotHasOneOwner, Holders, SeenGenerationIsServed, FailuresCounted
  <2>7. Paced'
    BY <1>0, <1>2, <2>1, <2>2 DEF Paced
  <2> QED BY <1>1, <2>4, <2>5, <2>6, <2>7 DEF Inv
<1>8. CASE FreeSlot
  <2>1. TypeOK' /\ Numbered' /\ SlotHasOneOwner' /\ SeenGenerationIsServed' /\ FailuresCounted'
    BY <1>0, <1>8 DEF TypeOK, Numbered, Informed, SlotHasOneOwner, Holders,
                      SeenGenerationIsServed, FailuresCounted, FreeSlot, renderer
  <2>2. Paced'
    BY <1>0, <1>8 DEF Paced, FreeSlot, Backoff
  <2> QED BY <1>1, <2>1, <2>2 DEF Inv
<1> QED BY <1>3, <1>4, <1>5, <1>6, <1>7, <1>8 DEF SpawnerStep

-----------------------------------------------------------------------------
(* Time passes; children fail and recover.                                  *)

\* The countdown and the counter that measures it run together, up to the cap.
LEMMA Elapsed ==
  ASSUME NEW m \in Nat, NEW w \in 0..m, NEW s \in 0..m, NEW w2 \in 0..m, NEW s2 \in 0..m,
         NEW b \in 0..m, w2 + s2 >= w + s \/ s2 = m, w + s >= b
  PROVE  w2 + s2 >= b
OBVIOUS

LEMMA Environment ==
  ASSUME Inv, Tick \/ \E c \in DOMAIN children : ChildFails(c) \/ ChildRecovers(c)
  PROVE  Inv' /\ spawner' = spawner
<1>0. TypeOK /\ Numbered /\ SlotHasOneOwner /\ SeenGenerationIsServed
      /\ FailuresCounted /\ Paced
  BY DEF Inv
<1>1. CASE Tick
  <2>1. UNCHANGED <<backend, children, current, generation, respawning, failures, healthy,
                    lastGen, thread, spawner, faults, spawnFails>>
    BY <1>1 DEF Tick
  <2>2. /\ failures \in Nat /\ MaxBackoff \in Nat /\ Cooldown \in Nat
        /\ wait \in 0..MaxBackoff /\ since \in 0..MaxBackoff /\ probe \in 0..Cooldown
    BY <1>0, SidecarAssumption DEF TypeOK
  <2>3. /\ wait' \in 0..MaxBackoff /\ since' \in 0..MaxBackoff /\ probe' \in 0..Cooldown
        /\ wait' + since' >= wait + since \/ since' = MaxBackoff
    BY <1>1, <2>2 DEF Tick, Less
  <2>4. TypeOK'
    BY <1>0, <2>1, <2>3 DEF TypeOK
  <2>5. Numbered' /\ SlotHasOneOwner' /\ SeenGenerationIsServed' /\ FailuresCounted'
    BY <1>0, <2>1 DEF Numbered, Informed, SlotHasOneOwner, Holders, SeenGenerationIsServed,
                      FailuresCounted
  <2>6. Paced'
    <3>1. Backoff(failures) \in 0..MaxBackoff
          /\ (failures > 0 => Backoff(failures - 1) \in 0..MaxBackoff)
      BY <2>2, BackoffBounded
    <3>2. Backoff(failures)' = Backoff(failures) /\ Backoff(failures - 1)' = Backoff(failures - 1)
      BY <2>1 DEF Backoff
    <3>3. ASSUME NEW b \in 0..MaxBackoff, wait + since >= b PROVE wait' + since' >= b
      BY <2>2, <2>3, <3>3, Elapsed
    <3>4. (spawner \in {"spawning", "failed"} => wait + since >= Backoff(failures))'
      BY <1>0, <2>1, <3>1, <3>2, <3>3 DEF Paced
    <3>5. (spawner \in {"idle", "free"} /\ failures > 0
               => wait + since >= Backoff(failures - 1))'
      BY <1>0, <2>1, <3>1, <3>2, <3>3 DEF Paced
    <3> QED BY <1>0, <2>1, <3>4, <3>5 DEF Paced
  <2> QED BY <2>1, <2>4, <2>5, <2>6 DEF Inv
<1>2. CASE \E c \in DOMAIN children : ChildFails(c) \/ ChildRecovers(c)
  <2>1. /\ UNCHANGED <<supervisor, renderer, thread, spawner, spawnFails, since>>
        /\ faults' \in 0..MaxFaults
        /\ \E c \in DOMAIN children, s \in Status : children' = [children EXCEPT ![c] = s]
    BY <1>0, <1>2, SidecarAssumption DEF ChildFails, ChildRecovers, TypeOK, Status
  <2>2. children' \in Seq(Status) /\ Len(children') = Len(children)
        /\ DOMAIN children' = DOMAIN children
    BY <1>0, <2>1 DEF TypeOK
  <2>3. TypeOK'
    BY <1>0, <2>1, <2>2 DEF TypeOK, supervisor, renderer
  <2>4. Numbered' /\ SlotHasOneOwner' /\ SeenGenerationIsServed' /\ FailuresCounted' /\ Paced'
    BY <1>0, <2>1, <2>2 DEF Numbered, Informed, SlotHasOneOwner, Holders,
                            SeenGenerationIsServed, FailuresCounted, Paced, supervisor, renderer
  <2> QED BY <2>1, <2>3, <2>4 DEF Inv, supervisor
<1> QED BY <1>1, <1>2

-----------------------------------------------------------------------------

Distance == spawner = "idle" /\ spawner' = "spawning" /\ failures > 0
                => since >= Backoff(failures - 1)

LEMMA StepInv == Inv /\ [Next]_vars => Inv' /\ [Distance]_vars
<1> SUFFICES ASSUME Inv, [Next]_vars PROVE Inv' /\ [Distance]_vars
  OBVIOUS
<1>1. ASSUME NEW t \in Threads, Render(t) \/ StrictRender(t) \/ ThreadStep(t)
      PROVE  Inv' /\ [Distance]_vars
  <2>1. CASE Ask(t)
    BY <2>1, Taken DEF Distance
  <2>2. CASE Due(t)
    BY <2>2, Claimed DEF Distance
  <2>3. CASE Release(t)
    BY <2>3, Released DEF Distance
  <2>4. CASE \/ Render(t) \/ StrictRender(t) \/ LoadLast(t) \/ StoreLast(t) \/ Heal(t) \/ Check(t)
             \/ CallAnswers(t) \/ CallFails(t) \/ Failed(t) \/ ProbeSlot(t) \/ Probe(t)
    <3>1. spawner' = spawner
      BY <2>4 DEF Render, StrictRender, LoadLast, StoreLast, Heal, Check, CallAnswers,
                  CallFails, Failed, ProbeSlot, Probe
    <3> QED BY <2>4, <3>1, Renders DEF Distance
  <2> QED BY <1>1, <2>1, <2>2, <2>3, <2>4 DEF ThreadStep
<1>2. CASE SpawnerStep
  BY <1>2, Respawns DEF Distance
<1>3. CASE Tick \/ \E c \in DOMAIN children : ChildFails(c) \/ ChildRecovers(c)
  BY <1>3, Environment DEF Distance
<1>4. CASE UNCHANGED vars
  <2>1. TypeOK' /\ Numbered' /\ SeenGenerationIsServed' /\ FailuresCounted'
    BY <1>4 DEF vars, Inv, TypeOK, Numbered, Informed, SeenGenerationIsServed, FailuresCounted
  <2>2. SlotHasOneOwner' /\ Paced'
    BY <1>4 DEF vars, Inv, SlotHasOneOwner, Holders, Paced, Backoff
  <2> QED BY <1>4, <2>1, <2>2 DEF Inv
<1> QED BY <1>1, <1>2, <1>3, <1>4 DEF Next

\* On well-typed states the respawn slot has one owner, and a render that has
\* seen a generation calls a child of that generation or a newer one
\* (request_respawn, respawn_once, AutoRenderer::dispatch).
THEOREM SlotAndGenerations == Spec => []RespawnSound
<1>1. Spec => []Inv
  BY InitInv, StepInv, PTL DEF Spec
<1>2. Inv => RespawnSound
  BY DEF Inv, RespawnSound
<1> QED BY <1>1, <1>2, PTL

\* "A broken Node installation cannot be fork-bombed": consecutive failures
\* keep the backoff's distance, however many renders ask.
THEOREM FailuresKeepTheirDistance == Spec => NoForkBomb
<1>1. Spec => []Inv
  BY InitInv, StepInv, PTL DEF Spec
<1>2. Spec => [][Distance]_vars
  BY <1>1, StepInv, PTL DEF Spec
<1> QED BY <1>2 DEF NoForkBomb, Distance

-----------------------------------------------------------------------------
(***************************************************************************)
(* The worker pool of the sidecar, for any number of slots, jobs, crashes    *)
(* and late exits: a slot renders one job at a time and a job is answered    *)
(* once.                                                                    *)
(*                                                                          *)
(* The functions of the broker run inside one event handler, so they are     *)
(* lemmas on p = [pool, workers]: each keeps Sound and takes no answer back  *)
(* (Answers), and the handlers compose them.                                *)
(***************************************************************************)


State(p) ==
    /\ p = [pool |-> p.pool, workers |-> p.workers]
    /\ p.workers \in Seq(Worker)
    /\ p.pool \in Pool(Len(p.workers))

\* A slot's worker is one that was started for it.
OwnWorkers(p) == \A s \in Slots : p.workers[p.pool.slot[s].worker].slot = s

OneRender(p) ==
    /\ \A d, e \in p.pool.pending : d[2] = e[2] => d = e
    /\ \A e \in p.pool.pending : p.pool.slot[e[2]].alive /\ p.pool.slot[e[2]].busy

\* A job is in one place: queued, dispatched once, or answered.
OnePlace(p) ==
    /\ \A e \in p.pool.pending : p.pool.answer[e[1]] = NoAnswer /\ e[1] <= p.pool.jobIdCounter
    /\ \A d, e \in p.pool.pending : d[1] = e[1] => d = e
    /\ \A i \in 1..Len(p.pool.queue) :
          /\ p.pool.answer[p.pool.queue[i]] = NoAnswer
          /\ p.pool.queue[i] <= p.pool.jobIdCounter
          /\ \A e \in p.pool.pending : e[1] # p.pool.queue[i]
    /\ \A i, k \in 1..Len(p.pool.queue) : p.pool.queue[i] = p.pool.queue[k] => i = k
    /\ \A j \in Jobs : j > p.pool.jobIdCounter => p.pool.answer[j] = NoAnswer

Sound(p) == State(p) /\ OwnWorkers(p) /\ OneRender(p) /\ OnePlace(p)

\* No answer is given twice on the way from p to q.
Answers(p, q) == \A j \in Jobs : p.pool.answer[j] # NoAnswer => q.pool.answer[j] = p.pool.answer[j]

PoolInv ==
    /\ Sound(Now)
    /\ mishaps \in [crashes : 0..MaxCrashes, overtakes : 0..MaxOvertakes]

NothingRuns(p, s) == \A e \in p.pool.pending : e[2] # s

-----------------------------------------------------------------------------
(* The functions of the broker.                                             *)

\* What happens to the threads themselves is none of the broker's concern.
LEMMA ThreadsSound ==
  ASSUME NEW p, Sound(p), NEW ws \in Seq(Worker), Len(ws) = Len(p.workers),
         \A v \in 1..Len(ws) : ws[v].slot = p.workers[v].slot
  PROVE  Sound([pool |-> p.pool, workers |-> ws])
<1> DEFINE q == [pool |-> p.pool, workers |-> ws]
<1>1. q.pool = p.pool /\ q.workers = ws /\ q = [pool |-> q.pool, workers |-> q.workers]
  OBVIOUS
<1> HIDE DEF q
<1>2. State(q)
  BY <1>1 DEF Sound, State
<1>3. OwnWorkers(q)
  BY <1>1 DEF Sound, State, OwnWorkers, Pool
<1>4. OneRender(q) /\ OnePlace(q)
  BY <1>1 DEF Sound, OneRender, OnePlace
<1> QED BY <1>2, <1>3, <1>4 DEF Sound, q

\* spawnInto, of a slot that runs nothing.
LEMMA SpawnIntoSound ==
  ASSUME NEW p, Sound(p), NEW s \in Slots, NothingRuns(p, s)
  PROVE  /\ Sound(SpawnInto(p, s))
         /\ SpawnInto(p, s).pool.answer = p.pool.answer
<1> DEFINE q == SpawnInto(p, s)
           new == [alive |-> FALSE, busy |-> FALSE, worker |-> Len(p.workers) + 1]
<1>0. State(p) /\ p.workers \in Seq(Worker) /\ p.pool \in Pool(Len(p.workers)) /\ Len(p.workers) \in Nat
  BY DEF Sound, State
<1>1. /\ q = [pool |-> q.pool, workers |-> q.workers]
      /\ q.workers = Append(p.workers, NewWorker(s))
      /\ q.pool = [p.pool EXCEPT !.slot[s] = new]
  BY DEF SpawnInto
<1>2. /\ q.pool.slot = [p.pool.slot EXCEPT ![s] = new]
      /\ q.pool.queue = p.pool.queue /\ q.pool.pending = p.pool.pending
      /\ q.pool.jobIdCounter = p.pool.jobIdCounter /\ q.pool.answer = p.pool.answer
  BY <1>0, <1>1 DEF Pool
<1> HIDE DEF q
<1>3. NewWorker(s) \in Worker /\ NewWorker(s).slot = s
  BY DEF NewWorker, Worker
<1>4. /\ q.workers \in Seq(Worker) /\ Len(q.workers) = Len(p.workers) + 1
      /\ q.workers[Len(p.workers) + 1] = NewWorker(s)
      /\ \A v \in 1..Len(p.workers) : q.workers[v] = p.workers[v]
  BY <1>0, <1>1, <1>3
<1>5. State(q)
  <2>1. q.pool.slot \in [Slots -> [alive : BOOLEAN, busy : BOOLEAN, worker : 1..Len(p.workers) + 1]]
    <3>1. p.pool.slot \in [Slots -> [alive : BOOLEAN, busy : BOOLEAN, worker : 1..Len(p.workers)]]
      BY <1>0 DEF Pool
    <3>2. \A r \in Slots : p.pool.slot[r] \in [alive : BOOLEAN, busy : BOOLEAN, worker : 1..Len(p.workers) + 1]
      BY <1>0, <3>1
    <3>3. new \in [alive : BOOLEAN, busy : BOOLEAN, worker : 1..Len(p.workers) + 1]
      BY <1>0
    <3> HIDE DEF new
    <3> QED BY <1>2, <3>1, <3>2, <3>3
  <2>2. q.pool \in Pool(Len(p.workers) + 1)
    BY <1>0, <1>1, <1>2, <2>1 DEF Pool
  <2> QED BY <1>1, <1>4, <2>2 DEF State
<1>6. OwnWorkers(q)
  <2> SUFFICES ASSUME NEW r \in Slots PROVE q.workers[q.pool.slot[r].worker].slot = r
    BY DEF OwnWorkers
  <2>0. p.pool.slot[r].worker \in 1..Len(p.workers) /\ p.workers[p.pool.slot[r].worker].slot = r
    BY <1>0 DEF Pool, Sound, OwnWorkers
  <2>1. CASE r = s
    BY <1>0, <1>2, <1>3, <1>4, <2>1 DEF Pool
  <2>2. CASE r # s
    BY <1>0, <1>2, <1>4, <2>0, <2>2 DEF Pool
  <2> QED BY <2>1, <2>2
<1>7. OneRender(q)
  BY <1>0, <1>2 DEF Sound, OneRender, NothingRuns, Pool
<1>8. OnePlace(q)
  BY <1>2 DEF Sound, OnePlace
<1> QED BY <1>2, <1>5, <1>6, <1>7, <1>8 DEF Sound, q

\* replaceSlot.
LEMMA ReplaceSlotSound ==
  ASSUME NEW p, Sound(p), NEW s \in Slots
  PROVE  /\ Sound(ReplaceSlot(p, s)) /\ Answers(p, ReplaceSlot(p, s))
         /\ NothingRuns(ReplaceSlot(p, s), s)
         /\ Len(ReplaceSlot(p, s).workers) = Len(p.workers) + 1
         /\ \A v \in 1..Len(p.workers) : ReplaceSlot(p, s).workers[v].slot = p.workers[v].slot
<1> DEFINE lost == {e \in p.pool.pending : e[2] = s}
           pool1 == [p.pool EXCEPT !.pending = @ \ lost,
                                   !.answer  = [j \in Jobs |-> IF <<j, s>> \in lost
                                                               THEN "worker" ELSE @[j]]]
           ws == Terminated(p.workers, p.pool.slot[s].worker)
           q == [pool |-> pool1, workers |-> ws]
<1>0. State(p) /\ p.workers \in Seq(Worker) /\ p.pool \in Pool(Len(p.workers)) /\ Len(p.workers) \in Nat
      /\ p.pool.slot[s].worker \in 1..Len(p.workers)
      /\ p.pool.pending \subseteq Jobs \X Slots
      /\ p.pool.answer \in [Jobs -> {NoAnswer, "result", "worker", "timeout"}]
  BY DEF Sound, State, Pool
<1>1. ReplaceSlot(p, s) = SpawnInto(q, s)
  BY DEF ReplaceSlot
<1>2. /\ pool1.slot = p.pool.slot /\ pool1.queue = p.pool.queue
      /\ pool1.jobIdCounter = p.pool.jobIdCounter
      /\ pool1.pending = p.pool.pending \ lost
      /\ pool1.answer = [j \in Jobs |-> IF <<j, s>> \in lost THEN "worker" ELSE p.pool.answer[j]]
  BY <1>0 DEF Pool
<1>3. pool1 \in Pool(Len(p.workers))
  <2>1. pool1.answer \in [Jobs -> {NoAnswer, "result", "worker", "timeout"}]
    BY <1>0, <1>2
  <2> QED BY <1>0, <1>2, <2>1 DEF Pool
<1>4. /\ ws \in Seq(Worker) /\ Len(ws) = Len(p.workers)
      /\ \A v \in 1..Len(ws) : ws[v].slot = p.workers[v].slot
  <2>1. \A v \in 1..Len(p.workers) : p.workers[v] \in Worker
    BY <1>0
  <2> DEFINE w == p.pool.slot[s].worker
             ended == [p.workers[w] EXCEPT !.stopping = TRUE]
  <2>2. ended \in Worker /\ ended.slot = p.workers[w].slot
    BY <1>0, <2>1 DEF Worker
  <2>3. ws = [p.workers EXCEPT ![w] = ended]
    BY <1>0 DEF Terminated
  <2> HIDE DEF ended, w
  <2>4. w \in 1..Len(p.workers)
    BY <1>0 DEF w
  <2> QED BY <1>0, <2>2, <2>3, <2>4
<1> HIDE DEF pool1, ws
<1>5. Sound(q)
  <2>1. /\ q.pool = pool1 /\ q.workers = ws
        /\ q = [pool |-> q.pool, workers |-> q.workers]
    OBVIOUS
  <2> HIDE DEF q
  <2>2. State(q)
    BY <1>3, <1>4, <2>1 DEF State
  <2>3. OwnWorkers(q)
    BY <1>0, <1>2, <1>4, <2>1 DEF Sound, OwnWorkers, Pool
  <2>4. OneRender(q)
    BY <1>2, <2>1 DEF Sound, OneRender
  <2>5. OnePlace(q)
    <3>0. OnePlace(p)
      BY DEF Sound
    <3>1. \A e \in q.pool.pending : e \in p.pool.pending /\ e \notin lost
      BY <1>2, <2>1
    <3>2. \A e \in q.pool.pending : q.pool.answer[e[1]] = NoAnswer
      <4> SUFFICES ASSUME NEW e \in q.pool.pending PROVE q.pool.answer[e[1]] = NoAnswer
        OBVIOUS
      <4>1. e[1] \in Jobs /\ p.pool.answer[e[1]] = NoAnswer
        BY <1>0, <3>0, <3>1 DEF OnePlace
      <4>2. <<e[1], s>> \notin lost
        BY <3>0, <3>1 DEF OnePlace
      <4> QED BY <1>2, <2>1, <4>1, <4>2
    <3>3. \A j \in Jobs : <<j, s>> \notin lost => q.pool.answer[j] = p.pool.answer[j]
      BY <1>2, <2>1
    <3>4. \A i \in 1..Len(q.pool.queue) : q.pool.answer[q.pool.queue[i]] = NoAnswer
      <4> SUFFICES ASSUME NEW i \in 1..Len(p.pool.queue)
                   PROVE  q.pool.answer[p.pool.queue[i]] = NoAnswer
        BY <1>2, <2>1
      <4>1. p.pool.queue[i] \in Jobs
        BY <1>0 DEF Pool
      <4>2. <<p.pool.queue[i], s>> \notin lost
        BY <3>0 DEF OnePlace
      <4> QED BY <3>0, <3>3, <4>1, <4>2 DEF OnePlace
    <3>5. \A j \in Jobs : j > q.pool.jobIdCounter => q.pool.answer[j] = NoAnswer
      <4> SUFFICES ASSUME NEW j \in Jobs, j > p.pool.jobIdCounter
                   PROVE  q.pool.answer[j] = NoAnswer
        BY <1>2, <2>1
      <4>1. <<j, s>> \notin lost
        BY <1>0, <3>0 DEF OnePlace, Pool, Jobs
      <4> QED BY <3>0, <3>3, <4>1 DEF OnePlace
    <3> HIDE DEF lost
    <3> QED BY <1>2, <2>1, <3>0, <3>1, <3>2, <3>4, <3>5 DEF OnePlace
  <2> QED BY <2>2, <2>3, <2>4, <2>5 DEF Sound
<1>6. NothingRuns(q, s)
  BY <1>2 DEF NothingRuns
<1>7. Answers(p, q)
  <2> SUFFICES ASSUME NEW j \in Jobs, p.pool.answer[j] # NoAnswer
               PROVE  pool1.answer[j] = p.pool.answer[j]
    BY DEF Answers
  <2>1. <<j, s>> \notin lost
    BY DEF Sound, OnePlace
  <2> QED BY <1>2, <2>1
<1> HIDE DEF q
<1>8. Sound(SpawnInto(q, s)) /\ SpawnInto(q, s).pool.answer = q.pool.answer
  BY <1>5, <1>6, SpawnIntoSound
<1>9. NothingRuns(SpawnInto(q, s), s)
  <2>1. SpawnInto(q, s).pool.pending = q.pool.pending
    BY <1>5 DEF SpawnInto, Sound, State, Pool
  <2> QED BY <1>6, <2>1 DEF NothingRuns
<1>10. SpawnInto(q, s).workers = Append(q.workers, NewWorker(s)) /\ q.workers = ws
  BY DEF SpawnInto, q
<1>11. /\ Len(SpawnInto(q, s).workers) = Len(ws) + 1
       /\ \A v \in 1..Len(ws) : SpawnInto(q, s).workers[v] = ws[v]
  <2>1. NewWorker(s) \in Worker
    BY DEF NewWorker, Worker
  <2> QED BY <1>4, <1>10, <2>1
<1> QED BY <1>1, <1>4, <1>7, <1>8, <1>9, <1>11 DEF Answers

-----------------------------------------------------------------------------
(* drainQueue.                                                              *)

\* The free slots take turns: no two have the same, and none is skipped.
LEMMA Turns ==
  ASSUME NEW free \in SUBSET Slots, NEW n \in Nat,
         NEW taking, taking = {s \in free : Turn(free, s) <= n}
  PROVE  /\ \A s \in free : Turn(free, s) \in Nat \ {0}
         /\ \A r, s \in free : Turn(free, r) = Turn(free, s) => r = s
         /\ Cardinality(taking) \in Nat
         /\ \A s \in taking : Turn(free, s) <= Cardinality(taking)
<1>1. IsFiniteSet(Slots)
  BY FS_Interval, PoolAssumption DEF Slots
<1>2. \A S \in SUBSET Slots : IsFiniteSet(S) /\ Cardinality(S) \in Nat
  BY <1>1, FS_Subset, FS_CardinalityType
<1>3. \A S, T \in SUBSET Slots : S \subseteq T =>
         Cardinality(S) <= Cardinality(T) /\ (Cardinality(S) = Cardinality(T) => S = T)
  BY <1>2, FS_Subset
<1> DEFINE upTo(s) == {r \in free : r <= s}
<1>4. \A s \in free : upTo(s) \in SUBSET Slots /\ s \in upTo(s) /\ s \in Int
  <2>1. \A s \in free : s \in Int /\ s <= s
    BY PoolAssumption DEF Slots
  <2> QED BY <2>1
<1>5. \A s \in free : Turn(free, s) \in Nat \ {0}
  <2>1. \A s \in free : upTo(s) # {} /\ Turn(free, s) = Cardinality(upTo(s))
    BY <1>4 DEF Turn
  <2> QED BY <1>2, <1>4, <2>1, FS_EmptySet
<1>6. \A r, s \in free : r < s => Turn(free, r) < Turn(free, s)
  <2> SUFFICES ASSUME NEW r \in free, NEW s \in free, r < s PROVE Turn(free, r) < Turn(free, s)
    OBVIOUS
  <2>1. upTo(r) \subseteq upTo(s) /\ s \notin upTo(r)
    BY <1>4 DEF Slots
  <2>2. upTo(r) # upTo(s)
    BY <1>4, <2>1
  <2>3. Turn(free, r) = Cardinality(upTo(r)) /\ Turn(free, s) = Cardinality(upTo(s))
    BY DEF Turn
  <2> HIDE DEF upTo
  <2>4. Cardinality(upTo(r)) <= Cardinality(upTo(s)) /\ Cardinality(upTo(r)) # Cardinality(upTo(s))
    BY <1>3, <1>4, <2>1, <2>2
  <2> QED BY <1>5, <2>3, <2>4
<1>7. \A r, s \in free : Turn(free, r) = Turn(free, s) => r = s
  <2> SUFFICES ASSUME NEW r \in free, NEW s \in free, Turn(free, r) = Turn(free, s), r # s
               PROVE  FALSE
    OBVIOUS
  <2>1. r < s \/ s < r
    BY <1>4
  <2> QED BY <1>5, <1>6, <2>1
<1>8. \A s \in taking : Turn(free, s) <= Cardinality(taking)
  <2> SUFFICES ASSUME NEW s \in taking PROVE Turn(free, s) <= Cardinality(taking)
    OBVIOUS
  <2>1. \A r \in upTo(s) : r \in taking
    <3> SUFFICES ASSUME NEW r \in free, r <= s PROVE Turn(free, r) <= n
      OBVIOUS
    <3>1. r = s \/ r < s
      BY <1>4
    <3> QED BY <1>5, <1>6, <3>1
  <2>2. taking \in SUBSET Slots /\ upTo(s) \in SUBSET Slots /\ upTo(s) \subseteq taking
    BY <1>4, <2>1
  <2> HIDE DEF upTo
  <2>3. Cardinality(upTo(s)) <= Cardinality(taking)
    BY <1>3, <2>2
  <2> QED BY <2>3 DEF Turn, upTo
<1> QED BY <1>2, <1>5, <1>7, <1>8

LEMMA DrainQueueSound ==
  ASSUME NEW p, Sound(p)
  PROVE  Sound(DrainQueue(p)) /\ DrainQueue(p).pool.answer = p.pool.answer
<1> DEFINE q == DrainQueue(p)
           queue == p.pool.queue
           taken == Cardinality(Taking(p))
<1>0. /\ State(p) /\ p.workers \in Seq(Worker) /\ p.pool \in Pool(Len(p.workers)) /\ Len(p.workers) \in Nat
      /\ queue \in Seq(Jobs) /\ Len(queue) \in Nat
      /\ p.pool.slot \in [Slots -> [alive : BOOLEAN, busy : BOOLEAN, worker : 1..Len(p.workers)]]
      /\ p.pool.pending \subseteq Jobs \X Slots
  BY DEF Sound, State, Pool
<1>1. /\ q.pool.slot = [s \in Slots |-> [p.pool.slot[s] EXCEPT !.busy = @ \/ s \in Taking(p)]]
      /\ q.pool.queue = SubSeq(queue, taken + 1, Len(queue))
      /\ q.pool.pending = p.pool.pending \cup {<<JobFor(p, s), s>> : s \in Taking(p)}
      /\ q.pool.jobIdCounter = p.pool.jobIdCounter /\ q.pool.answer = p.pool.answer
      /\ q.pool = [slot |-> q.pool.slot, queue |-> q.pool.queue, pending |-> q.pool.pending,
                   jobIdCounter |-> q.pool.jobIdCounter, answer |-> q.pool.answer]
  <2> DEFINE slot1 == [s \in Slots |-> [p.pool.slot[s] EXCEPT !.busy = @ \/ s \in Taking(p)]]
             queue1 == SubSeq(queue, taken + 1, Len(queue))
             pending1 == p.pool.pending \cup {<<JobFor(p, s), s>> : s \in Taking(p)}
  <2>1. q.pool = [p.pool EXCEPT !.slot = slot1, !.queue = queue1, !.pending = pending1]
    BY DEF DrainQueue
  <2> HIDE DEF slot1, queue1, pending1, q
  <2>2. /\ q.pool.slot = slot1 /\ q.pool.queue = queue1 /\ q.pool.pending = pending1
        /\ q.pool.jobIdCounter = p.pool.jobIdCounter /\ q.pool.answer = p.pool.answer
    BY <1>0, <2>1 DEF Pool
  <2>3. q.pool = [slot |-> q.pool.slot, queue |-> q.pool.queue, pending |-> q.pool.pending,
                  jobIdCounter |-> q.pool.jobIdCounter, answer |-> q.pool.answer]
    BY <1>0, <2>1 DEF Pool
  <2> QED BY <2>2, <2>3 DEF slot1, queue1, pending1
<1>2. /\ q = [pool |-> q.pool, workers |-> q.workers]
      /\ q.workers = [w \in DOMAIN p.workers |-> Dispatched(p, w)]
  BY DEF DrainQueue
<1> HIDE DEF q
<1>3. /\ \A s \in FreeSlots(p) : Turn(FreeSlots(p), s) \in Nat \ {0}
      /\ \A r, s \in FreeSlots(p) : Turn(FreeSlots(p), r) = Turn(FreeSlots(p), s) => r = s
      /\ taken \in Nat
      /\ \A s \in Taking(p) : Turn(FreeSlots(p), s) <= taken
  <2>1. FreeSlots(p) \in SUBSET Slots
    BY DEF FreeSlots
  <2> QED BY <1>0, <2>1, Turns DEF Taking
<1>4. \A s \in Taking(p) : /\ s \in Slots /\ Turn(FreeSlots(p), s) \in 1..Len(queue)
                           /\ JobFor(p, s) = queue[Turn(FreeSlots(p), s)]
                           /\ JobFor(p, s) \in Jobs
                           /\ p.pool.slot[s].alive /\ ~p.pool.slot[s].busy
  <2> SUFFICES ASSUME NEW s \in Taking(p)
               PROVE  /\ s \in Slots /\ Turn(FreeSlots(p), s) \in 1..Len(queue)
                      /\ JobFor(p, s) = queue[Turn(FreeSlots(p), s)]
                      /\ JobFor(p, s) \in Jobs
                      /\ p.pool.slot[s].alive /\ ~p.pool.slot[s].busy
    OBVIOUS
  <2>1. s \in FreeSlots(p) /\ Turn(FreeSlots(p), s) <= Len(queue)
    BY DEF Taking
  <2>2. Turn(FreeSlots(p), s) \in 1..Len(queue)
    BY <1>0, <1>3, <2>1
  <2>3. JobFor(p, s) = queue[Turn(FreeSlots(p), s)]
    BY DEF JobFor
  <2>4. JobFor(p, s) \in Jobs
    BY <1>0, <2>2, <2>3
  <2> QED BY <2>1, <2>2, <2>3, <2>4 DEF FreeSlots, Free
<1>5. \A r, s \in Taking(p) : JobFor(p, r) = JobFor(p, s) => r = s
  BY <1>3, <1>4 DEF Sound, OnePlace, Taking
<1>6. /\ q.pool.queue \in Seq(Jobs) /\ Len(q.pool.queue) \in Nat
      /\ \A i \in 1..Len(q.pool.queue) : /\ taken + i \in 1..Len(queue)
                                         /\ q.pool.queue[i] = queue[taken + i]
                                         /\ i \in Nat
  <2>1. \A i \in taken + 1..Len(queue) : queue[i] \in Jobs
    BY <1>0, <1>3
  <2>2. /\ q.pool.queue \in Seq(Jobs)
        /\ Len(q.pool.queue) = IF taken + 1 <= Len(queue) THEN Len(queue) - (taken + 1) + 1 ELSE 0
        /\ \A i \in 1..Len(queue) - (taken + 1) + 1 : q.pool.queue[i] = queue[(taken + 1) + i - 1]
    BY <1>0, <1>1, <1>3, <2>1, SubSeqProperties
  <2> HIDE DEF taken, queue
  <2>3. \A i \in 1..Len(q.pool.queue) : i \in 1..Len(queue) - (taken + 1) + 1 /\ (taken + 1) + i - 1 = taken + i
    BY <1>0, <1>3, <2>2
  <2> QED BY <1>0, <1>3, <2>2, <2>3
<1>7. \A s \in Slots : /\ q.pool.slot[s].alive = p.pool.slot[s].alive
                       /\ q.pool.slot[s].worker = p.pool.slot[s].worker
                       /\ q.pool.slot[s].busy = (p.pool.slot[s].busy \/ s \in Taking(p))
                       /\ q.pool.slot[s] \in [alive : BOOLEAN, busy : BOOLEAN, worker : 1..Len(p.workers)]
  <2> SUFFICES ASSUME NEW s \in Slots
               PROVE  /\ q.pool.slot[s].alive = p.pool.slot[s].alive
                      /\ q.pool.slot[s].worker = p.pool.slot[s].worker
                      /\ q.pool.slot[s].busy = (p.pool.slot[s].busy \/ s \in Taking(p))
                      /\ q.pool.slot[s] \in [alive : BOOLEAN, busy : BOOLEAN, worker : 1..Len(p.workers)]
    OBVIOUS
  <2>1. p.pool.slot[s] \in [alive : BOOLEAN, busy : BOOLEAN, worker : 1..Len(p.workers)]
    BY <1>0
  <2>2. q.pool.slot[s] = [p.pool.slot[s] EXCEPT !.busy = p.pool.slot[s].busy \/ s \in Taking(p)]
    BY <1>1
  <2> QED BY <2>1, <2>2
<1>8. /\ q.workers \in Seq(Worker) /\ Len(q.workers) = Len(p.workers)
      /\ \A w \in 1..Len(p.workers) : q.workers[w].slot = p.workers[w].slot
  <2>1. ASSUME NEW w \in 1..Len(p.workers)
        PROVE  Dispatched(p, w) \in Worker /\ Dispatched(p, w).slot = p.workers[w].slot
    <3>1. p.workers[w] \in Worker
      BY <1>0
    <3>2. CASE p.workers[w].slot \in Taking(p) /\ p.pool.slot[p.workers[w].slot].worker = w
      <4> DEFINE job == JobFor(p, p.workers[w].slot)
      <4>1. job \in Jobs
        BY <1>4, <3>2
      <4>2. Dispatched(p, w) = [p.workers[w] EXCEPT !.posted = Append(@, job)]
        BY <3>2 DEF Dispatched
      <4> DEFINE posted == Append(p.workers[w].posted, job)
      <4>3. posted \in Seq(Jobs)
        BY <3>1, <4>1 DEF Worker
      <4>4. Dispatched(p, w) = [p.workers[w] EXCEPT !.posted = posted]
        BY <4>2
      <4> HIDE DEF posted
      <4> QED BY <3>1, <4>3, <4>4 DEF Worker
    <3>3. CASE ~(p.workers[w].slot \in Taking(p) /\ p.pool.slot[p.workers[w].slot].worker = w)
      BY <3>1, <3>3 DEF Dispatched
    <3> QED BY <3>2, <3>3
  <2>2. DOMAIN p.workers = 1..Len(p.workers)
    BY <1>0
  <2> QED BY <1>0, <1>2, <2>1, <2>2
<1>9. State(q)
  <2>1. q.pool.slot \in [Slots -> [alive : BOOLEAN, busy : BOOLEAN, worker : 1..Len(p.workers)]]
    BY <1>1, <1>7
  <2>2. q.pool.pending \subseteq Jobs \X Slots
    BY <1>0, <1>1, <1>4
  <2>3. q.pool \in Pool(Len(q.workers))
    BY <1>0, <1>1, <1>6, <1>8, <2>1, <2>2 DEF Pool
  <2> QED BY <1>2, <1>8, <2>3 DEF State
<1>10. OwnWorkers(q)
  BY <1>0, <1>7, <1>8 DEF Sound, OwnWorkers
<1>11. \A e \in q.pool.pending : \/ e \in p.pool.pending
                                 \/ \E s \in Taking(p) : e = <<JobFor(p, s), s>>
  BY <1>1
<1>12. OneRender(q)
  <2>1. \A e \in p.pool.pending : e[2] \in Slots /\ e[2] \notin Taking(p)
    BY <1>0, <1>4 DEF Sound, OneRender
  <2>2. \A e \in q.pool.pending : q.pool.slot[e[2]].alive /\ q.pool.slot[e[2]].busy
    BY <1>0, <1>4, <1>7, <1>11, <2>1 DEF Sound, OneRender
  <2>3. \A d, e \in q.pool.pending : d[2] = e[2] => d = e
    BY <1>11, <2>1 DEF Sound, OneRender
  <2> QED BY <2>2, <2>3 DEF OneRender
<1>13. OnePlace(q)
  <2>0. OnePlace(p)
    BY DEF Sound
  <2>1. \A s \in Taking(p) : /\ p.pool.answer[JobFor(p, s)] = NoAnswer
                             /\ JobFor(p, s) <= p.pool.jobIdCounter
                             /\ \A e \in p.pool.pending : e[1] # JobFor(p, s)
    BY <1>4, <2>0 DEF OnePlace
  <2>2. \A e \in q.pool.pending : q.pool.answer[e[1]] = NoAnswer /\ e[1] <= q.pool.jobIdCounter
    BY <1>1, <1>11, <2>0, <2>1 DEF OnePlace
  <2>3. \A d, e \in q.pool.pending : d[1] = e[1] => d = e
    BY <1>5, <1>11, <2>0, <2>1 DEF OnePlace
  <2>4. \A i \in 1..Len(q.pool.queue) : \A s \in Taking(p) : q.pool.queue[i] # JobFor(p, s)
    <3> SUFFICES ASSUME NEW i \in 1..Len(q.pool.queue), NEW s \in Taking(p),
                        q.pool.queue[i] = JobFor(p, s)
                 PROVE  FALSE
      OBVIOUS
    <3>1. taken + i = Turn(FreeSlots(p), s)
      BY <1>4, <1>6, <2>0 DEF OnePlace
    <3> QED BY <1>3, <1>4, <1>6, <3>1
  <2>5. ASSUME NEW i \in 1..Len(q.pool.queue)
        PROVE  /\ q.pool.answer[q.pool.queue[i]] = NoAnswer
               /\ q.pool.queue[i] <= q.pool.jobIdCounter
               /\ \A e \in q.pool.pending : e[1] # q.pool.queue[i]
    <3>1. taken + i \in 1..Len(queue) /\ q.pool.queue[i] = queue[taken + i]
      BY <1>6
    <3>2. ASSUME NEW e \in q.pool.pending PROVE e[1] # q.pool.queue[i]
      <4>1. CASE e \in p.pool.pending
        BY <2>0, <3>1, <4>1 DEF OnePlace
      <4>2. CASE \E s \in Taking(p) : e = <<JobFor(p, s), s>>
        BY <2>4, <4>2
      <4> QED BY <1>11, <4>1, <4>2
    <3> QED BY <1>1, <2>0, <3>1, <3>2 DEF OnePlace
  <2>6. ASSUME NEW i \in 1..Len(q.pool.queue), NEW k \in 1..Len(q.pool.queue),
               q.pool.queue[i] = q.pool.queue[k]
        PROVE  i = k
    <3>1. taken + i = taken + k
      BY <1>6, <2>0, <2>6 DEF OnePlace
    <3> HIDE DEF taken
    <3> QED BY <1>3, <1>6, <3>1
  <2> QED BY <1>1, <2>0, <2>2, <2>3, <2>5, <2>6 DEF OnePlace
<1> QED BY <1>1, <1>9, <1>10, <1>12, <1>13 DEF Sound, q
-----------------------------------------------------------------------------
(* The end of a render, and of a worker.                                    *)

\* From p to q, the job j that ran in the slot s got its answer.
ReleasedPool(p, q, j, s, answer) ==
    /\ Len(q.workers) = Len(p.workers)
    /\ \A v \in 1..Len(p.workers) : q.workers[v].slot = p.workers[v].slot
    /\ q.pool.pending = p.pool.pending \ {<<j, s>>}
    /\ q.pool.queue = p.pool.queue /\ q.pool.jobIdCounter = p.pool.jobIdCounter
    /\ q.pool.answer = [p.pool.answer EXCEPT ![j] = answer]
    /\ \A r \in Slots : /\ q.pool.slot[r].worker = p.pool.slot[r].worker
                        /\ r # s => q.pool.slot[r] = p.pool.slot[r]

\* By finishJob or by hardKill.
LEMMA ReleasedSound ==
  ASSUME NEW p, Sound(p), NEW j \in Jobs, NEW s \in Slots, <<j, s>> \in p.pool.pending,
         NEW answer \in {"result", "timeout"}, NEW q, State(q), ReleasedPool(p, q, j, s, answer)
  PROVE  Sound(q) /\ Answers(p, q) /\ NothingRuns(q, s)
<1> USE DEF ReleasedPool
<1>0. /\ State(p) /\ OnePlace(p) /\ OneRender(p) /\ OwnWorkers(p)
      /\ p.pool.pending \subseteq Jobs \X Slots
      /\ p.pool.queue \in Seq(Jobs)
      /\ p.pool.answer \in [Jobs -> {NoAnswer, "result", "worker", "timeout"}]
      /\ \A r \in Slots : p.pool.slot[r].worker \in 1..Len(p.workers)
  BY DEF Sound, State, Pool
<1>1. \A e \in q.pool.pending : /\ e \in p.pool.pending /\ e[1] # j /\ e[2] # s
                                /\ e[1] \in Jobs /\ e[2] \in Slots
  BY <1>0 DEF OnePlace, OneRender
<1>2. \A i \in 1..Len(p.pool.queue) : p.pool.queue[i] \in Jobs /\ p.pool.queue[i] # j
  BY <1>0 DEF OnePlace
<1>3. p.pool.answer[j] = NoAnswer /\ ~(j > p.pool.jobIdCounter)
  BY <1>0 DEF OnePlace, State, Pool, Jobs
<1>4. \A k \in Jobs : k # j => q.pool.answer[k] = p.pool.answer[k]
  BY <1>0
<1>5. OwnWorkers(q)
  BY <1>0 DEF OwnWorkers
<1>6. OneRender(q)
  BY <1>0, <1>1 DEF OneRender
<1>7. OnePlace(q)
  <2>1. \A e \in q.pool.pending : q.pool.answer[e[1]] = NoAnswer /\ e[1] <= q.pool.jobIdCounter
    BY <1>0, <1>1, <1>4 DEF OnePlace
  <2>2. \A d, e \in q.pool.pending : d[1] = e[1] => d = e
    BY <1>0, <1>1 DEF OnePlace
  <2>3. \A i \in 1..Len(q.pool.queue) :
          /\ q.pool.answer[q.pool.queue[i]] = NoAnswer
          /\ q.pool.queue[i] <= q.pool.jobIdCounter
          /\ \A e \in q.pool.pending : e[1] # q.pool.queue[i]
    BY <1>0, <1>1, <1>2, <1>4 DEF OnePlace
  <2>4. \A i, k \in 1..Len(q.pool.queue) : q.pool.queue[i] = q.pool.queue[k] => i = k
    BY <1>0 DEF OnePlace
  <2>5. \A k \in Jobs : k > q.pool.jobIdCounter => q.pool.answer[k] = NoAnswer
    BY <1>0, <1>3, <1>4 DEF OnePlace
  <2> QED BY <2>1, <2>2, <2>3, <2>4, <2>5 DEF OnePlace
<1>8. Answers(p, q)
  BY <1>3, <1>4 DEF Answers
<1> QED BY <1>1, <1>5, <1>6, <1>7, <1>8 DEF Sound, NothingRuns

\* finishJob, also of a job that was answered before.
LEMMA FinishJobSound ==
  ASSUME NEW p, Sound(p), NEW j
  PROVE  Sound(FinishJob(p, j)) /\ Answers(p, FinishJob(p, j))
<1> DEFINE mine == {e \in p.pool.pending : e[1] = j}
<1>1. CASE mine = {}
  BY <1>1 DEF FinishJob, Answers
<1>2. CASE mine # {}
  <2> DEFINE s == (CHOOSE e \in mine : TRUE)[2]
             answered == [p.pool EXCEPT !.pending = @ \ mine,
                                        !.slot[s].busy = FALSE,
                                        !.answer[j] = "result"]
             q == [p EXCEPT !.pool = answered]
  <2>0. /\ State(p) /\ p.pool \in Pool(Len(p.workers))
        /\ p.pool.pending \subseteq Jobs \X Slots
        /\ p.pool.slot \in [Slots -> [alive : BOOLEAN, busy : BOOLEAN, worker : 1..Len(p.workers)]]
        /\ p.pool.answer \in [Jobs -> {NoAnswer, "result", "worker", "timeout"}]
    BY DEF Sound, State, Pool
  <2>1. /\ <<j, s>> \in p.pool.pending /\ j \in Jobs /\ s \in Slots
        /\ mine = {<<j, s>>}
    <3> DEFINE e == CHOOSE e \in mine : TRUE
    <3>1. e \in mine
      BY <1>2
    <3> HIDE DEF e
    <3>2. e \in p.pool.pending /\ e[1] = j /\ e = <<j, e[2]>> /\ j \in Jobs /\ e[2] \in Slots
      BY <2>0, <3>1
    <3>3. \A d \in mine : d = e
      BY <3>2 DEF Sound, OnePlace
    <3>4. s = e[2]
      BY DEF e
    <3> QED BY <3>1, <3>2, <3>3, <3>4
  <2>2. FinishJob(p, j) = DrainQueue(q)
    BY <1>2 DEF FinishJob
  <2> HIDE DEF s, mine
  <2> DEFINE free == [p.pool.slot[s] EXCEPT !.busy = FALSE]
             slot1 == [p.pool.slot EXCEPT ![s] = free]
             answer1 == [p.pool.answer EXCEPT ![j] = "result"]
             pending1 == p.pool.pending \ {<<j, s>>}
             pool1 == [p.pool EXCEPT !.pending = pending1, !.slot = slot1, !.answer = answer1]
  <2>3. q = [pool |-> pool1, workers |-> p.workers]
    <3>1. p = [pool |-> p.pool, workers |-> p.workers]
      BY <2>0 DEF State
    <3>2. mine = {<<j, s>>}
      BY <2>1
    <3>3. answered = pool1
      BY <2>0, <2>1, <3>2 DEF Pool
    <3> HIDE DEF answered, pool1
    <3> QED BY <3>1, <3>3
  <2>4. /\ free \in [alive : BOOLEAN, busy : BOOLEAN, worker : 1..Len(p.workers)]
        /\ free.worker = p.pool.slot[s].worker
    BY <2>0, <2>1
  <2> HIDE DEF q, answered, free
  <2>5. /\ slot1 \in [Slots -> [alive : BOOLEAN, busy : BOOLEAN, worker : 1..Len(p.workers)]]
        /\ \A r \in Slots : /\ slot1[r].worker = p.pool.slot[r].worker
                            /\ r # s => slot1[r] = p.pool.slot[r]
    BY <2>0, <2>1, <2>4
  <2>6. answer1 \in [Jobs -> {NoAnswer, "result", "worker", "timeout"}]
    BY <2>0, <2>1
  <2>7. pending1 \subseteq Jobs \X Slots
    BY <2>0
  <2> HIDE DEF slot1, answer1, pending1
  <2>8. /\ pool1 \in Pool(Len(p.workers))
        /\ pool1.pending = pending1 /\ pool1.slot = slot1 /\ pool1.answer = answer1
        /\ pool1.queue = p.pool.queue /\ pool1.jobIdCounter = p.pool.jobIdCounter
    BY <2>0, <2>5, <2>6, <2>7 DEF Pool
  <2> HIDE DEF pool1
  <2>9. State(q) /\ q.pool = pool1 /\ q.workers = p.workers
    BY <2>0, <2>3, <2>8 DEF State
  <2>10. Sound(q) /\ Answers(p, q)
    <3>1. /\ q.pool.pending = p.pool.pending \ {<<j, s>>}
          /\ q.pool.queue = p.pool.queue /\ q.pool.jobIdCounter = p.pool.jobIdCounter
          /\ q.pool.answer = [p.pool.answer EXCEPT ![j] = "result"]
      BY <2>8, <2>9 DEF pending1, answer1
    <3>2. /\ Len(q.workers) = Len(p.workers)
          /\ \A v \in 1..Len(p.workers) : q.workers[v].slot = p.workers[v].slot
          /\ \A r \in Slots : /\ q.pool.slot[r].worker = p.pool.slot[r].worker
                              /\ r # s => q.pool.slot[r] = p.pool.slot[r]
      BY <2>5, <2>8, <2>9
    <3>3. ReleasedPool(p, q, j, s, "result")
      BY <3>1, <3>2 DEF ReleasedPool
    <3> QED BY <2>1, <2>9, <3>3, ReleasedSound
  <2>11. Sound(DrainQueue(q)) /\ DrainQueue(q).pool.answer = q.pool.answer
    BY <2>10, DrainQueueSound
  <2> QED BY <2>2, <2>10, <2>11 DEF Answers
<1> QED BY <1>1, <1>2

LEMMA GoneWorker ==
  ASSUME NEW s \in Slots
  PROVE  /\ [NewWorker(s) EXCEPT !.state = "gone"] \in Worker
         /\ [NewWorker(s) EXCEPT !.state = "gone"].slot = s
<1>1. ASSUME NEW x \in Worker
      PROVE  [x EXCEPT !.state = "gone"] \in Worker /\ [x EXCEPT !.state = "gone"].slot = x.slot
  BY DEF Worker
<1>2. NewWorker(s) \in Worker /\ NewWorker(s).slot = s
  BY DEF NewWorker, Worker
<1> QED BY <1>1, <1>2

\* The exit of a worker: the slot it belongs to runs nothing afterwards, be it
\* alive (replaceSlot) or waiting for this exit (hardKill).
LEMMA OnExitSound ==
  ASSUME NEW p, Sound(p), NEW w \in 1..Len(p.workers)
  PROVE  Sound(OnExit(p, w)) /\ Answers(p, OnExit(p, w))
<1> DEFINE s == p.workers[w].slot
           q == IF p.pool.slot[s].alive THEN ReplaceSlot(p, s) ELSE p
           dead == [NewWorker(s) EXCEPT !.state = "gone"]
           gone == [q EXCEPT !.workers[w] = dead]
<1>0. /\ p.workers \in Seq(Worker) /\ p.workers[w] \in Worker /\ s \in Slots
      /\ Len(p.workers) \in Nat
  <2>1. p.workers \in Seq(Worker)
    BY DEF Sound, State
  <2>2. p.workers[w] \in Worker
    BY <2>1
  <2> QED BY <2>1, <2>2 DEF Worker
<1>1. /\ Sound(q) /\ Answers(p, q) /\ NothingRuns(q, s)
      /\ w \in 1..Len(q.workers) /\ q.workers[w].slot = s
  <2>1. CASE p.pool.slot[s].alive
    BY <1>0, <2>1, ReplaceSlotSound
  <2>2. CASE ~p.pool.slot[s].alive
    BY <1>0, <2>2 DEF Sound, OneRender, NothingRuns, Answers
  <2> QED BY <2>1, <2>2
<1>2. OnExit(p, w) = IF p.workers[w].awaited THEN SpawnInto(gone, s) ELSE gone
  BY DEF OnExit
<1> HIDE DEF q, s
<1>3. dead \in Worker /\ dead.slot = s
  BY <1>0, GoneWorker
<1> HIDE DEF dead
<1>4. /\ Sound(gone) /\ gone.pool = q.pool
  <2> DEFINE ws == [q.workers EXCEPT ![w] = dead]
  <2>1. q = [pool |-> q.pool, workers |-> q.workers] /\ q.workers \in Seq(Worker)
    BY <1>1 DEF Sound, State
  <2>2. gone = [pool |-> q.pool, workers |-> ws]
    BY <2>1
  <2>3. /\ ws \in Seq(Worker) /\ Len(ws) = Len(q.workers)
        /\ \A v \in 1..Len(ws) : ws[v].slot = q.workers[v].slot
    BY <1>1, <1>3, <2>1
  <2> HIDE DEF ws
  <2>4. Sound([pool |-> q.pool, workers |-> ws])
    BY <1>1, <2>3, ThreadsSound
  <2> QED BY <2>2, <2>4
<1> HIDE DEF gone
<1>5. NothingRuns(gone, s)
  BY <1>1, <1>4 DEF NothingRuns
<1>6. Sound(SpawnInto(gone, s)) /\ SpawnInto(gone, s).pool.answer = gone.pool.answer
  BY <1>0, <1>4, <1>5, SpawnIntoSound
<1> QED BY <1>1, <1>2, <1>4, <1>6 DEF Answers
-----------------------------------------------------------------------------
(* The steps of the broker.  Each becomes a sound state and takes no answer *)
(* back.                                                                    *)

StepOK == Sound(Now)' /\ Answers(Now, Now')

LEMMA BecomeSound ==
  ASSUME NEW CONSTANT q, Sound(q), Answers(Now, q), Become(q)
  PROVE  StepOK
<1>1. q = [pool |-> q.pool, workers |-> q.workers]
  BY DEF Sound, State
<1>2. Now' = q
  BY <1>1 DEF Now, Become
<1> QED BY <1>2 DEF StepOK

LEMMA PoolInitInv == PoolInit => PoolInv
<1> SUFFICES ASSUME PoolInit PROVE PoolInv
  OBVIOUS
<1>1. /\ workers = [s \in Slots |-> NewWorker(s)] /\ Slots = 1..NumSlots /\ NumSlots \in Nat
  BY PoolAssumption DEF PoolInit, Slots
<1>2. \A s \in Slots : NewWorker(s) \in Worker /\ NewWorker(s).slot = s
  BY DEF NewWorker, Worker
<1>3. workers \in Seq(Worker) /\ Len(workers) = NumSlots /\ \A s \in Slots : workers[s] = NewWorker(s)
  BY <1>1, <1>2
<1>4. /\ pool.slot = [s \in Slots |-> [alive |-> FALSE, busy |-> FALSE, worker |-> s]]
      /\ pool.queue = << >> /\ pool.pending = {} /\ pool.jobIdCounter = 0
      /\ pool.answer = [j \in Jobs |-> NoAnswer]
  BY DEF PoolInit
<1>5. pool \in Pool(NumSlots)
  BY <1>1, PoolAssumption DEF PoolInit, Pool
<1>6. Now = [pool |-> pool, workers |-> workers] /\ Now.pool = pool /\ Now.workers = workers
  BY DEF Now
<1>7. State(Now)
  BY <1>3, <1>5, <1>6 DEF State
<1>8. OwnWorkers(Now)
  BY <1>2, <1>3, <1>4, <1>6 DEF OwnWorkers
<1>9. OneRender(Now) /\ OnePlace(Now)
  BY <1>4, <1>6 DEF OneRender, OnePlace
<1>10. mishaps \in [crashes : 0..MaxCrashes, overtakes : 0..MaxOvertakes]
  BY PoolAssumption DEF PoolInit
<1> QED BY <1>7, <1>8, <1>9, <1>10 DEF PoolInv, Sound

LEMMA SubmitStep ==
  ASSUME Sound(Now), Submit
  PROVE  StepOK
<1> DEFINE j == pool.jobIdCounter + 1
           queue1 == Append(pool.queue, j)
           pool1 == [pool EXCEPT !.queue = queue1, !.jobIdCounter = j]
           q == [pool |-> pool1, workers |-> workers]
<1>0. /\ pool \in Pool(Len(workers)) /\ workers \in Seq(Worker)
      /\ pool.queue \in Seq(Jobs) /\ pool.pending \subseteq Jobs \X Slots
      /\ pool.jobIdCounter \in Nat /\ NumJobs \in Nat
  BY PoolAssumption DEF Sound, State, Now, Pool
<1>1. Become(DrainQueue(q))
  BY <1>0 DEF Submit, Now, Pool
<1>2. j \in Jobs /\ j \in 0..NumJobs /\ pool.jobIdCounter < j
  BY <1>0 DEF Submit, Jobs
<1>3. /\ queue1 \in Seq(Jobs) /\ Len(queue1) = Len(pool.queue) + 1
      /\ queue1[Len(pool.queue) + 1] = j
      /\ \A i \in 1..Len(pool.queue) : queue1[i] = pool.queue[i] /\ pool.queue[i] \in Jobs
  BY <1>0, <1>2
<1> HIDE DEF queue1, j
<1>4. /\ pool1 \in Pool(Len(workers))
      /\ pool1.queue = queue1 /\ pool1.jobIdCounter = j
      /\ pool1.slot = pool.slot /\ pool1.pending = pool.pending /\ pool1.answer = pool.answer
  BY <1>0, <1>2, <1>3 DEF Pool
<1> HIDE DEF pool1
<1>5. q = [pool |-> q.pool, workers |-> q.workers] /\ q.pool = pool1 /\ q.workers = workers
  OBVIOUS
<1> HIDE DEF q
<1>6. State(q) /\ OwnWorkers(q) /\ OneRender(q)
  BY <1>0, <1>4, <1>5 DEF Sound, State, OwnWorkers, OneRender, Now
<1>7. OnePlace(q)
  <2>0. OnePlace(Now) /\ Now.pool = pool
    BY DEF Sound, Now
  <2>1. /\ \A e \in pool.pending : e[1] \in Jobs /\ e[1] # j /\ e[1] <= j
        /\ pool.answer[j] = NoAnswer
        /\ \A i \in 1..Len(pool.queue) : pool.queue[i] # j /\ pool.queue[i] <= j
    <3>1. /\ \A e \in pool.pending : e[1] <= pool.jobIdCounter
          /\ \A i \in 1..Len(pool.queue) : pool.queue[i] <= pool.jobIdCounter
          /\ \A k \in Jobs : k > pool.jobIdCounter => pool.answer[k] = NoAnswer
      BY <2>0 DEF OnePlace
    <3>2. /\ \A e \in pool.pending : e[1] \in Jobs
          /\ \A k \in Jobs : k \in Nat
          /\ j \in Nat /\ pool.jobIdCounter \in Nat
      BY <1>0, <1>2 DEF Jobs
    <3>3. \A k \in Jobs : k <= pool.jobIdCounter => k # j /\ k <= j
      BY ONLY <1>2, <3>2
    <3> QED BY ONLY <1>2, <1>3, <3>1, <3>2, <3>3
  <2>2. \A i \in 1..Len(queue1) : i \in 1..Len(pool.queue) \/ i = Len(pool.queue) + 1
    BY <1>0, <1>3
  <2>3. \A i \in 1..Len(queue1) : /\ pool.answer[queue1[i]] = NoAnswer /\ queue1[i] <= j
                                  /\ \A e \in pool.pending : e[1] # queue1[i]
    BY <1>2, <1>3, <2>0, <2>1, <2>2 DEF OnePlace, Jobs
  <2>4. \A i, k \in 1..Len(queue1) : queue1[i] = queue1[k] => i = k
    BY <1>3, <2>0, <2>1, <2>2 DEF OnePlace
  <2>5. \A k \in Jobs : k > j => pool.answer[k] = NoAnswer
    BY <1>0, <1>2, <2>0 DEF OnePlace, Jobs
  <2> QED BY <1>4, <1>5, <2>0, <2>1, <2>3, <2>4, <2>5 DEF OnePlace
<1>8. Sound(DrainQueue(q)) /\ DrainQueue(q).pool.answer = pool.answer
  BY <1>4, <1>5, <1>6, <1>7, DrainQueueSound DEF Sound
<1>9. Answers(Now, DrainQueue(q))
  BY <1>8 DEF Answers, Now
<1> HIDE DEF Sound
<1> QED BY <1>1, <1>8, <1>9, BecomeSound
\* hardKill: the worker's thread is only told to end.
LEMMA HardKillStep ==
  ASSUME Sound(Now), NEW j \in Jobs, HardKill(j)
  PROVE  StepOK
<1> PICK s \in Slots :
           /\ <<j, s>> \in pool.pending
           /\ Become([pool    |-> [pool EXCEPT !.pending = @ \ {<<j, s>>},
                                               !.slot[s].alive = FALSE,
                                               !.answer[j] = "timeout"],
                      workers |-> [Terminated(workers, pool.slot[s].worker)
                                     EXCEPT ![pool.slot[s].worker].awaited = TRUE]])
  BY DEF HardKill
<1> DEFINE w == pool.slot[s].worker
           down == [pool.slot[s] EXCEPT !.alive = FALSE]
           slot1 == [pool.slot EXCEPT ![s] = down]
           answer1 == [pool.answer EXCEPT ![j] = "timeout"]
           pending1 == pool.pending \ {<<j, s>>}
           pool1 == [pool EXCEPT !.pending = pending1, !.slot = slot1, !.answer = answer1]
           dying == [workers[w] EXCEPT !.stopping = TRUE, !.awaited = TRUE]
           ws == [workers EXCEPT ![w] = dying]
           q == [pool |-> pool1, workers |-> ws]
<1>0. /\ pool \in Pool(Len(workers)) /\ workers \in Seq(Worker) /\ Len(workers) \in Nat
      /\ pool.pending \subseteq Jobs \X Slots
      /\ pool.slot \in [Slots -> [alive : BOOLEAN, busy : BOOLEAN, worker : 1..Len(workers)]]
      /\ pool.answer \in [Jobs -> {NoAnswer, "result", "worker", "timeout"}]
      /\ w \in 1..Len(workers)
  BY DEF Sound, State, Now, Pool
<1>1. workers[w] \in Worker
  BY <1>0
<1>2. Become(q)
  <2>1. [pool EXCEPT !.pending = @ \ {<<j, s>>}, !.slot[s].alive = FALSE,
                     !.answer[j] = "timeout"] = pool1
    BY <1>0 DEF Pool
  <2>2. [Terminated(workers, w) EXCEPT ![w].awaited = TRUE] = ws
    BY <1>0, <1>1 DEF Terminated, Worker
  <2> HIDE DEF pool1, ws
  <2> QED BY <2>1, <2>2
<1>3. /\ down \in [alive : BOOLEAN, busy : BOOLEAN, worker : 1..Len(workers)]
      /\ down.worker = pool.slot[s].worker
  BY <1>0
<1>4. dying \in Worker /\ dying.slot = workers[w].slot
  BY <1>1 DEF Worker
<1> HIDE DEF down, dying, w
<1>5. /\ slot1 \in [Slots -> [alive : BOOLEAN, busy : BOOLEAN, worker : 1..Len(workers)]]
      /\ \A r \in Slots : /\ slot1[r].worker = pool.slot[r].worker
                          /\ r # s => slot1[r] = pool.slot[r]
  BY <1>0, <1>3
<1>6. answer1 \in [Jobs -> {NoAnswer, "result", "worker", "timeout"}]
  BY <1>0
<1>7. pending1 \subseteq Jobs \X Slots
  BY <1>0
<1>8. /\ ws \in Seq(Worker) /\ Len(ws) = Len(workers)
      /\ \A v \in 1..Len(ws) : ws[v].slot = workers[v].slot
  BY <1>0, <1>4
<1> HIDE DEF slot1, answer1, pending1, ws
<1>9. /\ pool1 \in Pool(Len(workers))
      /\ pool1.pending = pending1 /\ pool1.slot = slot1 /\ pool1.answer = answer1
      /\ pool1.queue = pool.queue /\ pool1.jobIdCounter = pool.jobIdCounter
  BY <1>0, <1>5, <1>6, <1>7 DEF Pool
<1> HIDE DEF pool1
<1>10. q = [pool |-> q.pool, workers |-> q.workers] /\ q.pool = pool1 /\ q.workers = ws
  OBVIOUS
<1> HIDE DEF q
<1>11. State(q)
  BY <1>8, <1>9, <1>10 DEF State
<1>12. ReleasedPool(Now, q, j, s, "timeout")
  BY <1>5, <1>8, <1>9, <1>10 DEF ReleasedPool, Now, pending1, answer1
<1>13. Sound(q) /\ Answers(Now, q)
  <2>1. <<j, s>> \in Now.pool.pending
    BY DEF Now
  <2> QED BY <1>11, <1>12, <2>1, ReleasedSound
<1> QED BY <1>2, <1>13, BecomeSound

\* A worker that is up makes its slot available.
LEMMA ReadySound ==
  ASSUME NEW p, Sound(p), NEW s \in Slots
  PROVE  /\ Sound([pool |-> [p.pool EXCEPT !.slot[s].alive = TRUE], workers |-> p.workers])
         /\ [p.pool EXCEPT !.slot[s].alive = TRUE].answer = p.pool.answer
<1> DEFINE q == [pool |-> [p.pool EXCEPT !.slot[s].alive = TRUE], workers |-> p.workers]
           up == [p.pool.slot[s] EXCEPT !.alive = TRUE]
           slot1 == [p.pool.slot EXCEPT ![s] = up]
<1>0. /\ p.pool \in Pool(Len(p.workers)) /\ p.workers \in Seq(Worker)
      /\ p.pool.slot \in [Slots -> [alive : BOOLEAN, busy : BOOLEAN, worker : 1..Len(p.workers)]]
  BY DEF Sound, State, Pool
<1>1. /\ up \in [alive : BOOLEAN, busy : BOOLEAN, worker : 1..Len(p.workers)]
      /\ up.worker = p.pool.slot[s].worker /\ up.alive /\ up.busy = p.pool.slot[s].busy
  BY <1>0
<1>2. /\ q.pool = [p.pool EXCEPT !.slot = slot1] /\ q.workers = p.workers
      /\ q = [pool |-> q.pool, workers |-> q.workers]
  BY <1>0 DEF Pool
<1> HIDE DEF up, q
<1>3. /\ slot1 \in [Slots -> [alive : BOOLEAN, busy : BOOLEAN, worker : 1..Len(p.workers)]]
      /\ \A r \in Slots : /\ slot1[r].worker = p.pool.slot[r].worker
                          /\ slot1[r].busy = p.pool.slot[r].busy
                          /\ p.pool.slot[r].alive => slot1[r].alive
  BY <1>0, <1>1
<1> HIDE DEF slot1
<1>4. /\ q.pool \in Pool(Len(p.workers)) /\ q.pool.slot = slot1
      /\ q.pool.pending = p.pool.pending /\ q.pool.queue = p.pool.queue
      /\ q.pool.jobIdCounter = p.pool.jobIdCounter /\ q.pool.answer = p.pool.answer
  BY <1>0, <1>2, <1>3 DEF Pool
<1>5. State(q)
  BY <1>0, <1>2, <1>4 DEF State
<1>6. OwnWorkers(q)
  BY <1>2, <1>3, <1>4 DEF Sound, OwnWorkers
<1>7. OneRender(q)
  <2>1. \A e \in p.pool.pending : e[2] \in Slots
    BY <1>0 DEF Pool
  <2> QED BY <1>3, <1>4, <2>1 DEF Sound, OneRender
<1>8. OnePlace(q)
  BY <1>4 DEF Sound, OnePlace
<1> QED BY <1>4, <1>5, <1>6, <1>7, <1>8 DEF Sound, q

\* The handlers of a worker's event, once the event has left its queue.
LEMMA HandleStep ==
  ASSUME Sound(Now), NEW w \in DOMAIN workers, Handle(w)
  PROVE  StepOK
<1> DEFINE s     == workers[w].slot
           event == Head(workers[w].events)
           rest  == [workers[w] EXCEPT !.events = Tail(@)]
           ws    == [workers EXCEPT ![w] = rest]
           p     == [pool |-> pool, workers |-> ws]
<1>0. /\ pool \in Pool(Len(workers)) /\ workers \in Seq(Worker) /\ Len(workers) \in Nat
      /\ w \in 1..Len(workers) /\ workers[w] \in Worker
  <2>1. pool \in Pool(Len(workers)) /\ workers \in Seq(Worker)
    BY DEF Sound, State, Now
  <2>2. w \in 1..Len(workers)
    BY <2>1
  <2>3. workers[w] \in Worker
    BY <2>1, <2>2
  <2> QED BY <2>1, <2>2, <2>3
<1>1. workers[w].events # << >>
  BY DEF Handle
<1>2. rest \in Worker /\ rest.slot = s /\ s \in Slots
  <2> DEFINE events1 == Tail(workers[w].events)
  <2>1. events1 \in Seq({"ready", "result", "error", "oom", "exit"} \X (Jobs \cup {NoJob}))
    BY <1>0, <1>1 DEF Worker
  <2>2. rest = [workers[w] EXCEPT !.events = events1]
    OBVIOUS
  <2> HIDE DEF events1
  <2> QED BY <1>0, <2>1, <2>2 DEF Worker
<1>3. [pool |-> pool, workers |-> [workers EXCEPT ![w].events = Tail(@)]] = p
  BY <1>0
<1> HIDE DEF rest
<1>4. /\ ws \in Seq(Worker) /\ Len(ws) = Len(workers) /\ ws[w].slot = s
      /\ \A v \in 1..Len(ws) : ws[v].slot = workers[v].slot
  BY <1>0, <1>2
<1> HIDE DEF ws
<1>5. Sound(p)
  <2>1. Now.pool = pool /\ Now.workers = workers
    BY DEF Now
  <2> QED BY <1>4, <2>1, ThreadsSound
<1>6. p.pool = pool /\ p.workers = ws /\ p = [pool |-> pool, workers |-> ws]
  OBVIOUS
<1> HIDE DEF p
<1>7. \A q : Answers(p, q) => Answers(Now, q)
  BY <1>6 DEF Answers, Now
<1> HIDE DEF s, event
<1>8. \/ Become(DrainQueue([p EXCEPT !.pool = [pool EXCEPT !.slot[s].alive = TRUE]]))
      \/ Become(FinishJob(p, event[2]))
      \/ Become(ReplaceSlot(p, s))
      \/ Become(OnExit(p, w))
      \/ Become(OnExit(ReplaceSlot(p, s), w))
  BY <1>3 DEF Handle, s, event
<1>9. CASE Become(DrainQueue([p EXCEPT !.pool = [pool EXCEPT !.slot[s].alive = TRUE]]))
  <2> DEFINE up == [p EXCEPT !.pool = [pool EXCEPT !.slot[s].alive = TRUE]]
  <2>1. up = [pool |-> [p.pool EXCEPT !.slot[s].alive = TRUE], workers |-> p.workers]
    <3> DEFINE pool1 == [pool EXCEPT !.slot[s].alive = TRUE]
    <3>1. [p.pool EXCEPT !.slot[s].alive = TRUE] = pool1
      BY <1>6
    <3>2. up = [p EXCEPT !.pool = pool1]
      OBVIOUS
    <3> HIDE DEF pool1, up
    <3> QED BY <1>6, <3>1, <3>2
  <2> HIDE DEF up
  <2>2. Sound(up) /\ up.pool.answer = p.pool.answer
    BY <1>2, <1>5, <2>1, ReadySound
  <2>3. Sound(DrainQueue(up)) /\ DrainQueue(up).pool.answer = up.pool.answer
    BY <2>2, DrainQueueSound
  <2>4. Answers(Now, DrainQueue(up))
    BY <1>7, <2>2, <2>3 DEF Answers
  <2> QED BY <1>9, <2>3, <2>4, BecomeSound DEF up
<1>10. CASE Become(FinishJob(p, event[2]))
  BY <1>5, <1>7, <1>10, FinishJobSound, BecomeSound
<1>11. CASE Become(ReplaceSlot(p, s))
  BY <1>2, <1>5, <1>7, <1>11, ReplaceSlotSound, BecomeSound
<1>12. CASE Become(OnExit(p, w))
  BY <1>0, <1>4, <1>5, <1>6, <1>7, <1>12, OnExitSound, BecomeSound
<1>13. CASE Become(OnExit(ReplaceSlot(p, s), w))
  <2> DEFINE q == ReplaceSlot(p, s)
  <2>1. /\ Sound(q) /\ Answers(p, q)
        /\ Len(q.workers) = Len(p.workers) + 1
    BY <1>2, <1>5, ReplaceSlotSound
  <2>2. w \in 1..Len(q.workers)
    BY <1>0, <1>4, <1>6, <2>1
  <2> HIDE DEF q
  <2>3. Sound(OnExit(q, w)) /\ Answers(q, OnExit(q, w))
    BY <2>1, <2>2, OnExitSound
  <2>4. Answers(Now, OnExit(q, w))
    BY <1>7, <2>1, <2>3 DEF Answers
  <2> QED BY <1>13, <2>3, <2>4, BecomeSound DEF q
<1> QED BY <1>8, <1>9, <1>10, <1>11, <1>12, <1>13
-----------------------------------------------------------------------------
(* The steps of the worker threads.                                         *)

\* Each worker thread changes itself only.
LEMMA SetStep ==
  ASSUME Sound(Now), NEW w \in DOMAIN workers, NEW CONSTANT worker \in Worker,
         worker.slot = workers[w].slot, Set(w, worker)
  PROVE  StepOK
<1> DEFINE ws == [workers EXCEPT ![w] = worker]
           q == [pool |-> pool, workers |-> ws]
<1>0. workers \in Seq(Worker) /\ w \in 1..Len(workers) /\ Len(workers) \in Nat
  BY DEF Sound, State, Now
<1>1. /\ ws \in Seq(Worker) /\ Len(ws) = Len(workers)
      /\ \A v \in 1..Len(ws) : ws[v].slot = workers[v].slot
  BY <1>0
<1>2. pool' = pool /\ workers' = ws
  BY DEF Set
<1> HIDE DEF ws
<1>3. Sound(q)
  <2>1. Now.pool = pool /\ Now.workers = workers
    BY DEF Now
  <2> QED BY <1>1, <2>1, ThreadsSound
<1>4. Become(q) /\ Answers(Now, q)
  BY <1>2 DEF Become, Answers, Now
<1> HIDE DEF q
<1> QED BY <1>3, <1>4, BecomeSound

LEMMA Emits ==
  ASSUME NEW worker \in Worker, NEW kind \in {"ready", "result", "error", "oom", "exit"},
         NEW job \in Jobs \cup {NoJob}
  PROVE  Emit(worker, kind, job) \in Worker /\ Emit(worker, kind, job).slot = worker.slot
<1> DEFINE events1 == Append(worker.events, <<kind, job>>)
<1>1. events1 \in Seq({"ready", "result", "error", "oom", "exit"} \X (Jobs \cup {NoJob}))
  BY DEF Worker
<1>2. Emit(worker, kind, job) = [worker EXCEPT !.events = events1]
  BY DEF Emit
<1> HIDE DEF events1
<1> QED BY <1>1, <1>2 DEF Worker

LEMMA WorkerSteps ==
  ASSUME Sound(Now), NEW w \in DOMAIN workers, WorkerStep(w) \/ FinishRender(w) \/ Crash(w)
  PROVE  StepOK
<1>0. workers \in Seq(Worker) /\ workers[w] \in Worker
  <2>1. workers \in Seq(Worker)
    BY DEF Sound, State, Now
  <2> QED BY <2>1
<1>1. CASE Start(w)
  <2> DEFINE worker == [workers[w] EXCEPT !.state = "idle"]
  <2>1. worker \in Worker /\ worker.slot = workers[w].slot
    BY <1>0 DEF Worker
  <2>2. Set(w, Emit(worker, "ready", NoJob))
    BY <1>1 DEF Start
  <2> HIDE DEF worker
  <2> QED BY <2>1, <2>2, Emits, SetStep
<1>2. CASE End(w)
  <2> DEFINE worker == [workers[w] EXCEPT !.state = "ended"]
  <2>1. worker \in Worker /\ worker.slot = workers[w].slot
    BY <1>0 DEF Worker
  <2>2. Set(w, Emit(worker, "exit", NoJob))
    BY <1>2 DEF End
  <2> HIDE DEF worker
  <2> QED BY <2>1, <2>2, Emits, SetStep
<1>3. CASE FinishRender(w)
  <2> DEFINE posted1 == Tail(workers[w].posted)
             worker == [workers[w] EXCEPT !.posted = posted1]
             job == Head(workers[w].posted)
  <2>1. posted1 \in Seq(Jobs) /\ job \in Jobs
    BY <1>0, <1>3 DEF Worker, FinishRender
  <2>2. Set(w, Emit(worker, "result", job))
    BY <1>3 DEF FinishRender
  <2> HIDE DEF posted1, job
  <2>3. worker \in Worker /\ worker.slot = workers[w].slot
    BY <1>0, <2>1 DEF Worker
  <2> HIDE DEF worker
  <2> QED BY <2>1, <2>2, <2>3, Emits, SetStep
<1>4. CASE Crash(w)
  <2> DEFINE failing == [workers[w] EXCEPT !.state = "failing"]
             ended == [workers[w] EXCEPT !.state = "ended"]
  <2>1. /\ failing \in Worker /\ failing.slot = workers[w].slot
        /\ ended \in Worker /\ ended.slot = workers[w].slot
    BY <1>0 DEF Worker
  <2>2. Set(w, Emit(failing, "error", NoJob)) \/ Set(w, Emit(ended, "oom", NoJob))
    BY <1>4 DEF Crash
  <2> HIDE DEF failing, ended
  <2> QED BY <2>1, <2>2, Emits, SetStep
<1> QED BY <1>1, <1>2, <1>3, <1>4 DEF WorkerStep

-----------------------------------------------------------------------------

LEMMA PoolInductive ==
  ASSUME PoolInv, [PoolNext]_poolVars
  PROVE  PoolInv' /\ Answers(Now, Now')
<1>1. CASE UNCHANGED poolVars
  <2>1. Now' = Now /\ mishaps' = mishaps
    BY <1>1 DEF poolVars, Now
  <2> QED BY <2>1 DEF PoolInv, Answers
<1>2. CASE PoolNext
  <2>1. StepOK
    BY <1>2, SubmitStep, HardKillStep, HandleStep, WorkerSteps DEF PoolInv, PoolNext
  <2>2. mishaps' \in [crashes : 0..MaxCrashes, overtakes : 0..MaxOvertakes]
    <3>1. mishaps \in [crashes : 0..MaxCrashes, overtakes : 0..MaxOvertakes]
      BY DEF PoolInv
    <3>2. ASSUME NEW w \in DOMAIN workers, Start(w) PROVE mishaps' = mishaps \/
             (mishaps.overtakes < MaxOvertakes /\ mishaps' = [mishaps EXCEPT !.overtakes = @ + 1])
      BY <3>2 DEF Start
    <3>3. ASSUME NEW w \in DOMAIN workers, Crash(w) PROVE
             mishaps.crashes < MaxCrashes /\ mishaps' = [mishaps EXCEPT !.crashes = @ + 1]
      BY <3>3 DEF Crash
    <3>4. \/ mishaps' = mishaps
          \/ mishaps.overtakes < MaxOvertakes /\ mishaps' = [mishaps EXCEPT !.overtakes = @ + 1]
          \/ mishaps.crashes < MaxCrashes /\ mishaps' = [mishaps EXCEPT !.crashes = @ + 1]
      BY <1>2, <3>2, <3>3 DEF PoolNext, Submit, HardKill, Handle, WorkerStep, End, FinishRender
    <3> QED BY <3>1, <3>4, PoolAssumption
  <2> QED BY <2>1, <2>2 DEF PoolInv, StepOK
<1> QED BY <1>1, <1>2

\* "Each slot runs one render at a time" (jhs-sidecar.mjs drainQueue, replaceSlot,
\* hardKill): for any pool, any number of jobs and any order of late exits,
\* crashes and answers, two dispatched jobs never share a slot and the slot of a
\* dispatched job is alive and busy.
THEOREM OneRenderAtATime == PoolSpec => []PoolSound
<1>1. PoolSpec => []PoolInv
  BY PoolInitInv, PoolInductive, PTL DEF PoolSpec
<1>2. PoolInv => PoolSound
  BY DEF PoolInv, Sound, State, OneRender, Now, PoolSound, PoolTypeOK, OneRenderPerSlot
<1> QED BY <1>1, <1>2, PTL

\* The answer a job got is its only one (finishJob, hardKill and replaceSlot each
\* answer a job they find in pending and take it out).
THEOREM AnsweredOnlyOnce == PoolSpec => AnsweredOnce
<1>1. PoolSpec => []PoolInv
  BY PoolInitInv, PoolInductive, PTL DEF PoolSpec
<1>2. PoolInv /\ [PoolNext]_poolVars =>
         [\A j \in Jobs : pool.answer[j] # NoAnswer => pool'.answer[j] = pool.answer[j]]_poolVars
  BY PoolInductive DEF Answers, Now
<1> QED BY <1>1, <1>2, PTL DEF PoolSpec, AnsweredOnce
================================================================================
