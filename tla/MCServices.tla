---------------------------- MODULE MCServices ----------------------------
(***************************************************************************)
(* Small instances of the logger, the self-updating client and the         *)
(* tunnel.  They share no state: the first state of a behaviour says which *)
(* one it is about, and the others stay in an initial state, in which no   *)
(* action that they are fair to can change anything.                       *)
(***************************************************************************)
EXTENDS Logger, Upgrade, Proxy

VARIABLE part  \* "log", "upgrade" or "proxy"

mcVars == <<part, logVars, upVars, proxyVars>>

\* Versions 1 and 2 are of one size, so only the version tells their pieces apart.
MCSize == [v \in Versions |-> IF v = 3 THEN 1 ELSE 2]

MCInit ==
  /\ part \in {"log", "upgrade", "proxy"}
  /\ LogInit /\ UpInit /\ ProxyInit
  /\ part # "upgrade" => running = 1

MCNext ==
  \/ part = "log" /\ LogNext /\ UNCHANGED <<part, upVars, proxyVars>>
  \/ part = "upgrade" /\ UpNext /\ UNCHANGED <<part, logVars, proxyVars>>
  \/ part = "proxy" /\ ProxyNext /\ UNCHANGED <<part, logVars, upVars>>

MCSpec == MCInit /\ [][MCNext]_mcVars /\ LogFair /\ UpFair /\ ProxyFair
===========================================================================
