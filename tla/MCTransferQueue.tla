--------------------------- MODULE MCTransferQueue ---------------------------
(* A small instance of TransferQueue for TLC.                               *)
EXTENDS TransferQueue, TLC

CONSTANTS h1, h2, p1

\* Two tasks of different hosts and a copy between these hosts; all have the same
\* destination.
TrioHosts   == {h1, h2}
TrioHostsOf == (1 :> {h1}) @@ (2 :> {h2}) @@ (3 :> {h1, h2})
TrioPlan    == (1 :> <<p1>>) @@ (2 :> <<p1>>) @@ (3 :> <<p1>>)
=============================================================================
