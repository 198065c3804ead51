----------------------------- MODULE MCDispatch -----------------------------
(***************************************************************************)
(* Instances of Dispatch: thread 0 owns every service (a loop thread),     *)
(* thread 1 owns none (a worker).  s1's data is hashed to the worker by    *)
(* session id, s2's goes to the service's own thread; c1 calls PushRequest *)
(* with an explicit hash.                                                  *)
(***************************************************************************)
EXTENDS Dispatch

CONSTANTS s1, s2, c1

MCThreadId == [s \in Services |-> 0]
MCSvcOf    == [p \in Producers |-> 1]
MCHashOf   == [p \in Producers |-> CASE p = s1 -> -1 [] p = s2 -> 0 [] p = c1 -> 3]
MCIdOf     == [p \in Producers |-> 1]

\* Bounds on the messages pushed.
MCMaxMsg     == [p \in Producers |-> IF p \in Sessions THEN 2 ELSE 1]
MCMaxMsgLive == [p \in Producers |-> IF p \in Sessions THEN 1 ELSE 2]
=============================================================================
