-------------------------- MODULE MCDaemonClients --------------------------
(* Small instances of DaemonClients for TLC.                                *)
EXTENDS DaemonClients, TLC

CONSTANTS c1, c2

Symmetry == Permutations(Conns)
=============================================================================
