----------------------------- MODULE MCConnector -----------------------------
(***************************************************************************)
(* Instances of Connector: every changer asks for the address a2.          *)
(***************************************************************************)
EXTENDS Connector

CONSTANTS a1, a2, c1, c2, u1

MCNewAddr == [u \in Changers |-> a2]
=============================================================================
