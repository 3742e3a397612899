---------------------------- MODULE MCGitWorker ----------------------------
(* GitWorker on small instances: interchangeable files. *)
EXTENDS GitWorker, TLC

Sym == Permutations(Files)

=============================================================================
