---------------------------- MODULE ProxyConfig ----------------------------
(***************************************************************************)
(* How ssproxy reads its transports and how a proxy chooses a target by    *)
(* weight.  A transport is src => dst:weight, src and dst being names of   *)
(* the sections listen and connect; two listening ends make an "ll" proxy, *)
(* two connecting ends a "cc" one, and one of each an "lc" one.  The       *)
(* section is a map, so its lines come in any order.                       *)
(***************************************************************************)
EXTENDS Integers, Sequences, FiniteSets, SequencesExt

CONSTANTS
  Listen,     \* section listen: the address of each name
  Connects,   \* section connect: the address of each name
  Weights,    \* weights of transports, 0 if none is written
  MaxTransports    \* bound: transports

VARIABLES
  trans,   \* the transports, in the order in which the map gives them
  proxies, \* listenConnect, listenListen and connectConnect: [address -> sequence of [address, weight]]
  loaded,  \* "no", "ok" or "err"
  cum,     \* weight of each ServiceProxyS, by its address
  chosen   \* the last target: [src, r, dst], dst = 0 for the panic of % 0

configVars == <<trans, proxies, loaded, cum, chosen>>

Ends == DOMAIN Listen \cup DOMAIN Connects
Transports == [src : Ends, dst : Ends, weight : Weights]
Addresses(f) == {f[n] : n \in DOMAIN f}
NoProxy == [ty \in {"lc", "ll", "cc"} |-> [a \in Addresses(Listen) \cup Addresses(Connects) |-> <<>>]]
NoWeights == [a \in Addresses(Listen) |-> <<>>]
Nobody == [src |-> 0, r |-> 0, dst |-> 0]

ConfigInit ==
  /\ trans \in UNION {[1 .. n -> Transports] : n \in 1 .. MaxTransports}
  /\ proxies = NoProxy /\ loaded = "no" /\ cum = NoWeights /\ chosen = Nobody

getType(src, dst) ==
  CASE src \in DOMAIN Listen /\ dst \in DOMAIN Connects -> "lc"
    [] src \in DOMAIN Listen /\ dst \in DOMAIN Listen -> "ll"
    [] src \in DOMAIN Connects /\ dst \in DOMAIN Connects -> "cc"
    [] OTHER -> ""

Address(n) == IF n \in DOMAIN Listen THEN Listen[n] ELSE Connects[n]

\* append to pw.address and pw.weight
AddTransport(p, t) ==
  [p EXCEPT ![getType(t.src, t.dst)][Address(t.src)] = Append(@, [address |-> Address(t.dst), weight |-> t.weight])]

\* A line is an error if its ends do not fit, or if it is the second "ll" of its source.
Wrong(p, t) == \/ getType(t.src, t.dst) = ""
               \/ getType(t.src, t.dst) = "ll" /\ p["ll"][Address(t.src)] # <<>>

\* Ends in both sections are an error too; what was read before an error stays, and nobody uses it.
LoadCfg ==
  LET load == FoldLeft(LAMBDA st, t : IF st.err \/ Wrong(st.p, t) THEN [st EXCEPT !.err = TRUE]
                                                                  ELSE [st EXCEPT !.p = AddTransport(@, t)],
                       [p |-> NoProxy, err |-> DOMAIN Listen \cap DOMAIN Connects # {}], trans)
  IN /\ loaded = "no"
     /\ proxies' = load.p /\ loaded' = IF load.err THEN "err" ELSE "ok"
     /\ UNCHANGED <<trans, cum, chosen>>

\* Mutant: the weights stay as they are.
CumulatedNot(w) == w

\* AddTcpProxyService: each weight gets the sum of those before it.
Cumulated(w) == [i \in DOMAIN w |-> FoldLeft(+, 0, SubSeq(w, 1, i))]

AddLCProxy(a) ==
  /\ loaded = "ok" /\ cum[a] = <<>> /\ proxies["lc"][a] # <<>>
  /\ cum' = [cum EXCEPT ![a] = Cumulated([i \in DOMAIN proxies["lc"][a] |-> proxies["lc"][a][i].weight])]
  /\ UNCHANGED <<trans, proxies, loaded, chosen>>

\* The first i with r < weight[i], out of r in 0 .. weight[last] - 1.
Pick(w, r) == CHOOSE i \in DOMAIN w : r < w[i] /\ \A j \in 1 .. i - 1 : r >= w[j]

\* rand.Int() % weight[last] and the loop behind it; one target is taken without them.
Targets(a, w) ==
  IF Len(w) = 1 THEN {[src |-> a, r |-> 0, dst |-> 1]}
  ELSE IF w[Len(w)] = 0 THEN {[src |-> a, r |-> 0, dst |-> 0]}
  ELSE {[src |-> a, r |-> x, dst |-> Pick(w, x)] : x \in 0 .. w[Len(w)] - 1}

\* SessionOpen runs in dorecv, where nothing recovers from the panic of % 0.
crashed == chosen # Nobody /\ chosen.dst = 0 /\ chosen.src \in Addresses(Listen)

\* ServiceProxyS.SessionOpen
SessionOpen(a) ==
  /\ ~crashed /\ cum[a] # <<>> /\ chosen' \in Targets(a, cum[a])
  /\ UNCHANGED <<trans, proxies, loaded, cum>>

\* ServiceProxyCCGpb.Unmarshal for a new id: the weights as LoadCfg read them, which nobody has added up.
\* It runs in dohand, which recovers from a panic and closes the tunnel.
CCGpbConnect(a) ==
  /\ ~crashed /\ loaded = "ok" /\ proxies["cc"][a] # <<>>
  /\ chosen' \in Targets(a, [i \in DOMAIN proxies["cc"][a] |-> proxies["cc"][a][i].weight])
  /\ UNCHANGED <<trans, proxies, loaded, cum>>

ConfigNext ==
  \/ LoadCfg
  \/ \E a \in Addresses(Listen) : AddLCProxy(a) \/ SessionOpen(a)
  \/ \E a \in Addresses(Connects) : CCGpbConnect(a)

-----------------------------------------------------------------------------
(* Properties *)

LinesOf(ty, a) == SelectSeq(trans, LAMBDA t : getType(t.src, t.dst) = ty /\ Address(t.src) = a)

\* Whether LoadCfg accepts the transports does not depend on the order in which the map gives them, and a
\* configuration it accepts has each transport once, with its own weight, under its kind and its source.
TransportsLoaded ==
  loaded # "no" =>
    /\ loaded = "err" <=> \/ \E k \in DOMAIN trans : getType(trans[k].src, trans[k].dst) = ""
                          \/ \E a \in Addresses(Listen) : Len(LinesOf("ll", a)) > 1
    /\ loaded = "ok" => \A ty \in DOMAIN proxies : \A a \in DOMAIN proxies[ty] :
         LET l == LinesOf(ty, a)
         IN proxies[ty][a] = [k \in DOMAIN l |-> [address |-> Address(l[k].dst), weight |-> l[k].weight]]

\* An "lc" proxy gives each target the share of its weight: as many of the equally likely r choose it as its
\* weight says, and a target of weight 0 is chosen only by the panic of a sum of 0 or when it is alone
\* (AddTcpProxyService's running sums and SessionOpen's comparison, r < weight[i]).
SharesRespected ==
  \A a \in Addresses(Listen) :
    LET w == cum[a]
        t == proxies["lc"][a] IN
    Len(w) > 1 /\ w[Len(w)] > 0 =>
      /\ \A i \in DOMAIN w : Cardinality({r \in 0 .. w[Len(w)] - 1 : Pick(w, r) = i}) = t[i].weight
      /\ chosen.src = a => t[chosen.dst].weight > 0

\* Connections go where the configuration says: LoadCfg keeps each transport, and an "lc" proxy gives each
\* target its share (LoadCfg, AddTcpProxyService and SessionOpen of ServiceProxyS).
TransportsHonoured == TransportsLoaded /\ SharesRespected
============================================================================
