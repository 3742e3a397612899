------------------------- MODULE MCRefreshScheduler -------------------------
(* A small instance of RefreshScheduler for TLC. *)
EXTENDS RefreshScheduler

CONSTANTS r1, r2, c1, c2

(* A working-copy edit, an index change, and an overflow of the OS queue.  *)
Edit     == [wc |-> TRUE,  hint |-> 0, rescan |-> FALSE]
Index    == [wc |-> FALSE, hint |-> 2, rescan |-> FALSE]
Overflow == [wc |-> FALSE, hint |-> 0, rescan |-> TRUE]

MCShapes == {Edit, Index, Overflow}

=============================================================================
