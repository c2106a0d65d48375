-------------------------- MODULE MCPortForwarding --------------------------
(* A small instance of PortForwarding for TLC: two rules and one worker, for *)
(* what waits and commands of different rules do to each other.              *)
EXTENDS PortForwarding

CONSTANTS a, b, w1
=============================================================================
