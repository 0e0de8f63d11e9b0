---------------------------- MODULE MCWorkerPool ----------------------------
(***************************************************************************)
(* The pool with a few threads and jobs.                                   *)
(***************************************************************************)
EXTENDS WorkerPool

CONSTANTS j1, j2, j3, terminate

ThreeJobs == {j1, j2, j3}
=============================================================================
