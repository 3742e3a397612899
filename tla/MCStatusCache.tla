--------------------------- MODULE MCStatusCache ---------------------------
(* StatusCache on small instances: interchangeable clients. *)
EXTENDS StatusCache, TLC

Sym == Permutations(Clients)

=============================================================================
