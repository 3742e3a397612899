-------------------------- MODULE MCDaemonLifecycle --------------------------
(* DaemonLifecycle with a few processes and two versions of the binary.     *)
EXTENDS DaemonLifecycle

=============================================================================
