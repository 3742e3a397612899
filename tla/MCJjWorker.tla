----------------------------- MODULE MCJjWorker -----------------------------
(* JjWorker on small instances: interchangeable files. *)
EXTENDS JjWorker, TLC

Sym == Permutations(Files)

=============================================================================
