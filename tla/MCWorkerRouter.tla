--------------------------- MODULE MCWorkerRouter ---------------------------
(* WorkerRouter on small instances: a repository and a stuck one. *)
EXTENDS WorkerRouter

=============================================================================
