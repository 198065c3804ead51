------------------------------- MODULE MCRpc --------------------------------
(***************************************************************************)
(* The instances of Rpc that TLC checks: r1 is a call of any kind, r2 one  *)
(* with both functions, synchronous or not.                                *)
(***************************************************************************)
EXTENDS Rpc

CONSTANTS r1, r2

MCKindsOf == [c \in Calls |-> {k \in Kind : c = r1 \/ (k.callback /\ k.exception)}]
=============================================================================
