----------------------------- MODULE MCWorkerPool -----------------------------
(* WorkerPool on a few slots and jobs.                                      *)
EXTENDS WorkerPool

\* Every job is answered, and once: what a budget, an exit or an error of the
\* same worker says later reaches nobody.  FairPoolSpec is fair to every worker there is.
JobsAnsweredOnce == AnsweredOnce /\ JobsAnswered /\ [](Len(workers) <= MaxWorkers)
=============================================================================
