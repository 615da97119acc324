-------------------------- MODULE MCDaemonLifecycle --------------------------
(* Clients for TLC; each .cfg chooses which kinds take part.               *)
EXTENDS DaemonLifecycle

CONSTANTS c1, c2, k1, r1
=============================================================================
