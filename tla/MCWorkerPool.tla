---------------------------- MODULE MCWorkerPool ----------------------------
(***************************************************************************)
(* WorkerPool for TLC: two workers and up to four jobs, so that there are   *)
(* runs with no job, with fewer jobs than workers, and with twice as many,  *)
(* where a full results buffer makes a worker wait.                         *)
(***************************************************************************)
EXTENDS WorkerPool

MCWorkers == 2
MCMaxJobs == 4
=============================================================================
