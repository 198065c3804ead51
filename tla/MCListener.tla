----------------------------- MODULE MCListener -----------------------------
(* The instances of Listener that TLC checks: sockets and callers of Close *)
(* are model values.                                                       *)
EXTENDS Listener

CONSTANTS k1, k2, k3, c1, c2
=============================================================================
