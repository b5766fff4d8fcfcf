------------------------------ MODULE WorkerPool ------------------------------
(***************************************************************************)
(* The worker pool of the JHS sidecar (src/sidecar/jhs-sidecar.mjs): jobs    *)
(* queue for a fixed set of slots, each slot owns a worker thread, a render  *)
(* over its budget has its worker terminated and replaced.                  *)
(*                                                                          *)
(* The broker is one JavaScript thread: an event handler, with the           *)
(* microtasks it leaves behind, is one action.  A worker's events reach the  *)
(* broker in the order the worker caused them, and those of different        *)
(* workers in any order, so the exit of a worker that was already replaced   *)
(* may be handled after its successor is in use.                             *)
(***************************************************************************)
EXTENDS Naturals, Sequences, FiniteSets

CONSTANTS NumSlots,   \* JHS_SIDECAR_WORKERS
          NumJobs,    \* bound: render jobs
          MaxCrashes, \* bound: workers that crash
          MaxOvertakes \* bound: workers up before the exit of the one they replace

ASSUME PoolAssumption == NumSlots \in Nat \ {0} /\ NumJobs \in Nat /\ MaxCrashes \in Nat /\ MaxOvertakes \in Nat

VARIABLES
    pool,    \* the broker: slots, queue, pending and the answers it gave
    workers, \* every worker thread ever started, in order
    mishaps   \* crashes and overtakings so far

poolVars == <<pool, workers, mishaps>>

Slots == 1..NumSlots
Jobs == 1..NumJobs
NoJob == 0
NoAnswer == "none"

\* A worker: the slot its handlers close over, its state, the jobs posted to
\* it and not answered (it renders the first), the events the broker has not
\* handled, whether terminate() was called, and whether a hard kill awaits its
\* exit.
Worker == [slot : Slots,
           state : {"starting", "idle", "failing", "ended", "gone"},
           posted : Seq(Jobs),
           events : Seq({"ready", "result", "error", "oom", "exit"} \X (Jobs \cup {NoJob})),
           stopping : BOOLEAN,
           awaited : BOOLEAN]

\* The workers a bounded number of mishaps and timeouts can start.
MaxWorkers == NumSlots + 2 * (MaxCrashes + MaxOvertakes + NumJobs)

\* The broker, with n workers started so far.
Pool(n) == [slot : [Slots -> [alive : BOOLEAN, busy : BOOLEAN, worker : 1..n]],
            queue : Seq(Jobs),
            pending : SUBSET (Jobs \X Slots),
            jobIdCounter : 0..NumJobs,
            answer : [Jobs -> {NoAnswer, "result", "worker", "timeout"}]]

PoolTypeOK ==
    /\ workers \in Seq(Worker)
    /\ pool \in Pool(Len(workers))
    /\ mishaps \in [crashes : 0..MaxCrashes, overtakes : 0..MaxOvertakes]

NewWorker(s) == [slot |-> s, state |-> "starting", posted |-> << >>,
                 events |-> << >>, stopping |-> FALSE, awaited |-> FALSE]

PoolInit ==
    /\ pool = [slot |-> [s \in Slots |-> [alive |-> FALSE, busy |-> FALSE, worker |-> s]],
               queue |-> << >>,
               pending |-> {},
               jobIdCounter |-> 0,
               answer |-> [j \in Jobs |-> NoAnswer]]
    /\ workers = [s \in Slots |-> NewWorker(s)]
    /\ mishaps = [crashes |-> 0, overtakes |-> 0]

-----------------------------------------------------------------------------
(* The functions of the broker, on p = [pool, workers].                     *)

\* spawnInto: the slot forgets its worker and gets a fresh one.
SpawnInto(p, s) ==
    [pool    |-> [p.pool EXCEPT !.slot[s] = [alive  |-> FALSE, busy |-> FALSE,
                                             worker |-> Len(p.workers) + 1]],
     workers |-> Append(p.workers, NewWorker(s))]

\* worker.terminate(): the worker ends when it can.
Terminated(workers0, w) == [workers0 EXCEPT ![w].stopping = TRUE]

\* replaceSlot: whatever runs in the slot is answered with an error, the
\* slot's current worker is terminated, and a fresh one is spawned at once.
ReplaceSlot(p, s) ==
    LET lost == {e \in p.pool.pending : e[2] = s} IN
    SpawnInto([pool    |-> [p.pool EXCEPT
                               !.pending = @ \ lost,
                               !.answer  = [j \in Jobs |-> IF <<j, s>> \in lost
                                                           THEN "worker" ELSE @[j]]],
               workers |-> Terminated(p.workers, p.pool.slot[s].worker)], s)

\* Slip: a slot takes a job while it is busy.
FreeIgnoringBusy(p, s) == p.pool.slot[s].alive

\* slots.find(...)
Free(p, s) == p.pool.slot[s].alive /\ ~p.pool.slot[s].busy

\* drainQueue: the first free slot takes the oldest job, the next one the next
\* job, until the slots or the jobs run out.
Turn(free, s) == Cardinality({r \in free : r <= s})

FreeSlots(p) == {s \in Slots : Free(p, s)}

Taking(p) == {s \in FreeSlots(p) : Turn(FreeSlots(p), s) <= Len(p.pool.queue)}

JobFor(p, s) == p.pool.queue[Turn(FreeSlots(p), s)]

\* dispatch, for the worker w of a slot that takes a job.
Dispatched(p, w) ==
    LET s == p.workers[w].slot
    IN  IF s \in Taking(p) /\ p.pool.slot[s].worker = w
        THEN [p.workers[w] EXCEPT !.posted = Append(@, JobFor(p, s))]
        ELSE p.workers[w]

DrainQueue(p) ==
    [pool    |-> [p.pool EXCEPT
                     !.slot = [s \in Slots |-> [p.pool.slot[s] EXCEPT !.busy = @ \/ s \in Taking(p)]],
                     !.queue = SubSeq(@, Cardinality(Taking(p)) + 1, Len(@)),
                     !.pending = @ \cup {<<JobFor(p, s), s>> : s \in Taking(p)}],
     workers |-> [w \in DOMAIN p.workers |-> Dispatched(p, w)]]

\* Slip: a finished job does not look at the queue.
FinishJobUndrained(p, j) ==
    LET mine == {e \in p.pool.pending : e[1] = j} IN
    IF mine = {} THEN p
    ELSE LET s == (CHOOSE e \in mine : TRUE)[2]
             answered == [p.pool EXCEPT !.pending = @ \ mine,
                                        !.slot[s].busy = FALSE,
                                        !.answer[j] = "result"]
         IN  [p EXCEPT !.pool = answered]

\* finishJob: a late answer, of a job that was answered already, is ignored.
FinishJob(p, j) ==
    LET mine == {e \in p.pool.pending : e[1] = j} IN
    IF mine = {} THEN p
    ELSE LET s == (CHOOSE e \in mine : TRUE)[2]
             answered == [p.pool EXCEPT !.pending = @ \ mine,
                                        !.slot[s].busy = FALSE,
                                        !.answer[j] = "result"]
         IN  DrainQueue([p EXCEPT !.pool = answered])

Now == [pool |-> pool, workers |-> workers]
Become(p) == pool' = p.pool /\ workers' = p.workers

-----------------------------------------------------------------------------
(* The broker.                                                              *)

\* submit.
Submit ==
    /\ pool.jobIdCounter < NumJobs
    /\ Become(DrainQueue([pool    |-> [pool EXCEPT !.queue = Append(@, pool.jobIdCounter + 1),
                                                   !.jobIdCounter = @ + 1],
                          workers |-> workers]))
    /\ UNCHANGED mishaps

\* hardKill: the budget of a dispatched job ran out.  The worker is
\* terminated; the slot gets a fresh one when it has exited.
HardKill(j) ==
    \E s \in Slots :
        LET w == pool.slot[s].worker IN
        /\ <<j, s>> \in pool.pending
        /\ Become([pool    |-> [pool EXCEPT !.pending = @ \ {<<j, s>>},
                                            !.slot[s].alive = FALSE,
                                            !.answer[j] = "timeout"],
                   workers |-> [Terminated(workers, w) EXCEPT ![w].awaited = TRUE]])
        /\ UNCHANGED mishaps

\* The 'exit' handler, then the microtask of terminate().then(...).
OnExit(p, w) ==
    LET s == p.workers[w].slot
        q == IF p.pool.slot[s].alive THEN ReplaceSlot(p, s) ELSE p
        gone == [q EXCEPT !.workers[w] = [NewWorker(s) EXCEPT !.state = "gone"]]
    IN  IF p.workers[w].awaited THEN SpawnInto(gone, s) ELSE gone

\* The handlers of a worker's next event.  A worker that ran out of memory
\* reports 'error' and 'exit' in one go.
Handle(w) ==
    LET s     == workers[w].slot
        event == Head(workers[w].events)
        p     == [pool |-> pool, workers |-> [workers EXCEPT ![w].events = Tail(@)]]
    IN
    /\ workers[w].events # << >>
    /\ \/ /\ event[1] = "ready"
          /\ Become(DrainQueue([p EXCEPT !.pool = [pool EXCEPT !.slot[s].alive = TRUE]]))
       \/ /\ event[1] = "result"
          /\ Become(FinishJob(p, event[2]))
       \/ /\ event[1] = "error"
          /\ Become(ReplaceSlot(p, s))
       \/ /\ event[1] = "exit"
          /\ Become(OnExit(p, w))
       \/ /\ event[1] = "oom"
          /\ Become(OnExit(ReplaceSlot(p, s), w))
    /\ UNCHANGED mishaps

-----------------------------------------------------------------------------
(* The worker threads (render-worker.mjs).  terminate() ends the script at  *)
(* once: what it posted before is still delivered, and it posts no more.    *)

Emit(worker, kind, job) == [worker EXCEPT !.events = Append(@, <<kind, job>>)]

Set(w, worker) == workers' = [workers EXCEPT ![w] = worker] /\ UNCHANGED pool

\* Another worker of the slot has failed or was terminated and its exit is
\* still to be handled.
Overtakes(w) ==
    \E v \in DOMAIN workers :
        /\ workers[v].slot = workers[w].slot
        /\ workers[v].state \in {"failing", "ended"} \/ workers[v].stopping

\* A worker is usually slower to start than the one it replaces is to end.
\* When it overtakes that one, the late exit terminates the new worker, whose
\* own exit may come late again: the model bounds how often that happens.
Start(w) ==
    /\ workers[w].state = "starting" /\ ~workers[w].stopping
    /\ Set(w, Emit([workers[w] EXCEPT !.state = "idle"], "ready", NoJob))
    /\ Overtakes(w) => mishaps.overtakes < MaxOvertakes
    /\ mishaps' = IF Overtakes(w) THEN [mishaps EXCEPT !.overtakes = @ + 1] ELSE mishaps

\* The render of the oldest posted job ends; one that loops for ever never takes this step.
FinishRender(w) ==
    /\ workers[w].state = "idle" /\ ~workers[w].stopping
    /\ workers[w].posted # << >>
    /\ Set(w, Emit([workers[w] EXCEPT !.posted = Tail(@)], "result", Head(workers[w].posted)))
    /\ UNCHANGED mishaps

\* An uncaught exception ('error' now, 'exit' when the thread has ended) or
\* the heap ceiling.
Crash(w) ==
    /\ workers[w].state \in {"starting", "idle"} /\ ~workers[w].stopping
    /\ mishaps.crashes < MaxCrashes
    /\ mishaps' = [mishaps EXCEPT !.crashes = @ + 1]
    /\ \/ Set(w, Emit([workers[w] EXCEPT !.state = "failing"], "error", NoJob))
       \/ Set(w, Emit([workers[w] EXCEPT !.state = "ended"], "oom", NoJob))

\* A terminated or failed thread ends.
End(w) ==
    /\ \/ workers[w].state = "failing"
       \/ workers[w].stopping /\ workers[w].state \in {"starting", "idle"}
    /\ Set(w, Emit([workers[w] EXCEPT !.state = "ended"], "exit", NoJob))
    /\ UNCHANGED mishaps

-----------------------------------------------------------------------------

WorkerStep(w) == Start(w) \/ End(w)

PoolNext ==
    \/ Submit
    \/ \E j \in Jobs : HardKill(j)
    \/ \E w \in DOMAIN workers : Handle(w) \/ WorkerStep(w) \/ FinishRender(w) \/ Crash(w)

PoolSpec == PoolInit /\ [][PoolNext]_poolVars

\* Threads start, obey terminate() and take posted jobs; events and timers are
\* handled.  A render owes nothing: it may loop for ever.
FairPoolSpec ==
    /\ PoolSpec
    /\ \A j \in Jobs : WF_poolVars(HardKill(j))
    /\ \A w \in 1..MaxWorkers : WF_poolVars(w \in DOMAIN workers /\ (WorkerStep(w) \/ Handle(w)))

-----------------------------------------------------------------------------
(* Properties.                                                              *)

\* "Each slot runs one render at a time": whatever was killed, crashed and
\* respawned, two dispatched jobs never share a slot, a slot that is offered
\* to the queue runs nothing, and a running one is not written off.
OneRenderPerSlot ==
    /\ \A d, e \in pool.pending : d[2] = e[2] => d = e
    /\ \A e \in pool.pending : pool.slot[e[2]].alive /\ pool.slot[e[2]].busy

\* On well-typed states, a slot renders one job at a time.
PoolSound == PoolTypeOK /\ OneRenderPerSlot

\* The answer a job got is its only one: a timeout is not followed by the
\* error of the dying worker, nor an error by a late result.
AnsweredOnce ==
    [][\A j \in Jobs : pool.answer[j] # NoAnswer => pool'.answer[j] = pool.answer[j]]_poolVars

\* Every job is answered: by its render, by its budget or by the death of
\* its worker, as long as crashes stop.
JobsAnswered == \A j \in Jobs : pool.jobIdCounter >= j ~> pool.answer[j] # NoAnswer
=============================================================================
