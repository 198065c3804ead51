------------------------------- MODULE Proxy -------------------------------
(***************************************************************************)
(* The tunnel of ssproxy.  The "ll" side listens for clients               *)
(* (ServiceProxyLLRaw) and for the tunnel (ServiceProxyLLGpb), the "cc"    *)
(* side connects the tunnel (ServiceProxyCCGpb) and, for every client that *)
(* sends something, a target (ServiceProxyCCRaw).  The tunnel carries      *)
(* (session id, data); empty data says that the session is closed.         *)
(*                                                                         *)
(* Data is the number of the client's, or the target's, message, 0 the     *)
(* empty one.  Connections are those of Connector.tla in short: a lost one *)
(* is dialed again until its Connector is closed, and each end of a        *)
(* session queues a Close event for SessionClose.                          *)
(***************************************************************************)
EXTENDS Integers, Sequences, Functions

CONSTANTS
  Clients,       \* ids of the sessions of ServiceProxyLLRaw
  MaxSent,       \* bound: messages of all clients
  MaxReplies,    \* bound: messages of all targets
  MaxConns,      \* bound: connections to targets
  MaxTroubles    \* bound: sessions that targets end or refuse, breaks of the tunnel, messages for which
                 \* the tunnel's send queue is full

VARIABLES
  client,    \* "open", "closing" (SessionClose is queued) or "closed"
  sentTo,    \* messages each client has sent
  tunnel,    \* the tunnel is connected
  up, down,  \* messages in the tunnel, from ll to cc and back
  conns,     \* connections of ServiceProxyCCRaw, in the order of NewConnect
  SessId,    \* ServiceProxyCCGpb.SessId: the connection of an id, 0 if none
  storing,   \* the connection that NewConnect has returned and SessId.Store has not stored, 0 if none
  lostEvs,   \* queued Close events of the tunnel's session at the cc side
  replies, ends, breaks, drops

proxyCounts == <<replies, ends, breaks, drops>>
proxyVars == <<client, sentTo, tunnel, up, down, conns, SessId, storing, lostEvs, proxyCounts>>

ProxyInit ==
  /\ client = [i \in Clients |-> "open"] /\ sentTo = [i \in Clients |-> 0]
  /\ tunnel = TRUE /\ up = <<>> /\ down = <<>>
  /\ conns = <<>> /\ SessId = [i \in Clients |-> 0] /\ storing = 0 /\ lostEvs = 0
  /\ replies = 0 /\ ends = 0 /\ breaks = 0 /\ drops = 0

Trouble == ends + breaks + drops < MaxTroubles

Msg(i, d) == [id |-> i, data |-> d]

\* SendRawGpb to the one session of the tunnel.  Without one there is nothing to iterate; a full queue
\* drops the message, and nobody looks at the error.
SendUp(q, m) ==
  \/ up' = (IF tunnel THEN Append(q, m) ELSE q) /\ UNCHANGED drops
  \/ tunnel /\ Trouble /\ drops' = drops + 1 /\ up' = q

SendDown(q, m) ==
  \/ down' = (IF tunnel THEN Append(q, m) ELSE q) /\ UNCHANGED drops
  \/ tunnel /\ Trouble /\ drops' = drops + 1 /\ down' = q

-----------------------------------------------------------------------------
(* ll: the clients and ServiceProxyLLRaw *)

\* Unmarshal
LLRawUnmarshal(i) ==
  /\ client[i] = "open" /\ SumFunction(sentTo) < MaxSent
  /\ sentTo' = [sentTo EXCEPT ![i] = @ + 1]
  /\ SendUp(up, Msg(i, sentTo'[i]))
  /\ UNCHANGED <<client, tunnel, down, conns, SessId, storing, lostEvs, replies, ends, breaks>>

\* The client goes, or is silent for so long that HeartBeatTimeOut closes it; its Close event is queued.
ClientGoes(i) ==
  /\ client[i] = "open" /\ client' = [client EXCEPT ![i] = "closing"]
  /\ UNCHANGED <<sentTo, tunnel, up, down, conns, SessId, storing, lostEvs, proxyCounts>>

\* SessionClose
LLRawSessionClose(i) ==
  /\ client[i] = "closing" /\ client' = [client EXCEPT ![i] = "closed"]
  /\ SendUp(up, Msg(i, 0))
  /\ UNCHANGED <<sentTo, tunnel, down, conns, SessId, storing, lostEvs, replies, ends, breaks>>

\* ServiceProxyLLGpb.Unmarshal: what is not empty is sent to the client.  GetSession finds a closing session until onclose has removed it.
LLGpbUnmarshal ==
  /\ down # <<>>
  /\ LET m == Head(down) IN
       /\ \/ /\ client[m.id] = "open"
             /\ client' = IF m.data = 0 THEN [client EXCEPT ![m.id] = "closing"] ELSE client
             /\ UNCHANGED <<up, drops>>
          \/ client[m.id] = "closing" /\ UNCHANGED <<client, up, drops>>
          \/ client[m.id] # "open" /\ SendUp(up, Msg(m.id, 0)) /\ UNCHANGED <<client>>
  /\ down' = Tail(down)
  /\ UNCHANGED <<sentTo, tunnel, conns, SessId, storing, lostEvs, replies, ends, breaks>>

-----------------------------------------------------------------------------
(* cc: the tunnel's ServiceProxyCCGpb *)

\* A new Connector: it dials, until it is shut.  kill: go destroy() is on its way; closer: its session has
\* ended and has not been restarted; got: what its session has taken for the target.
Dialing(i) == [id |-> i, state |-> "dialing", kill |-> FALSE, closer |-> FALSE, evs |-> 0, got |-> <<>>]

\* Connect.Close
Killed(c) == [conns EXCEPT ![c].kill = TRUE]

\* Connect.Send: a session that has ended keeps the message for the next target, or refuses it, by the choice of
\* select; nobody looks at the error.
SendTo(c, d) == {[conns EXCEPT ![c].got = Append(@, d)]} \cup (IF conns[c].closer THEN {conns} ELSE {})

\* Mutant: the message that opens a connection is parsed again.
CCGpbUnmarshalAgain ==
  /\ up # <<>> /\ storing = 0
  /\ LET m == Head(up)
         c == SessId[m.id] IN
       /\ CASE c # 0 /\ m.data = 0 ->
                 SessId' = [SessId EXCEPT ![m.id] = 0] /\ conns' = Killed(c) /\ UNCHANGED storing
            [] c # 0 /\ m.data # 0 ->
                 conns' \in SendTo(c, m.data) /\ UNCHANGED <<SessId, storing>>
            [] c = 0 /\ m.data # 0 ->
                 /\ Len(conns) < MaxConns
                 /\ conns' = Append(conns, [Dialing(m.id) EXCEPT !.got = <<m.data>>]) /\ storing' = Len(conns) + 1
                 /\ UNCHANGED SessId
            [] OTHER -> UNCHANGED <<conns, SessId, storing>>
       /\ up' = IF c = 0 /\ m.data # 0 THEN up ELSE Tail(up)
  /\ UNCHANGED <<client, sentTo, tunnel, down, lostEvs, proxyCounts>>

\* Unmarshal of a message: close the connection of the id, send to it, or make one.
CCGpbUnmarshal ==
  /\ up # <<>> /\ storing = 0
  /\ LET m == Head(up)
         c == SessId[m.id] IN
       CASE c # 0 /\ m.data = 0 ->
              SessId' = [SessId EXCEPT ![m.id] = 0] /\ conns' = Killed(c) /\ UNCHANGED storing
         [] c # 0 /\ m.data # 0 ->
              conns' \in SendTo(c, m.data) /\ UNCHANGED <<SessId, storing>>
         [] c = 0 /\ m.data # 0 ->
              /\ Len(conns) < MaxConns
              /\ conns' = Append(conns, [Dialing(m.id) EXCEPT !.got = <<m.data>>]) /\ storing' = Len(conns) + 1
              /\ UNCHANGED SessId
         [] OTHER -> UNCHANGED <<conns, SessId, storing>>
  /\ up' = Tail(up)
  /\ UNCHANGED <<client, sentTo, tunnel, down, lostEvs, proxyCounts>>

\* SessId.Store, after NewConnect has started the connection.
SessIdStore ==
  /\ storing # 0 /\ storing' = 0
  /\ SessId' = [SessId EXCEPT ![conns[storing].id] = storing]
  /\ UNCHANGED <<client, sentTo, tunnel, up, down, conns, lostEvs, proxyCounts>>

\* SessionClose of the tunnel: every connection that is not closed.
CCGpbSessionClose ==
  /\ lostEvs > 0 /\ lostEvs' = lostEvs - 1
  /\ SessId' = [i \in Clients |-> IF \E c \in DOMAIN conns : conns[c].id = i /\ ~conns[c].kill THEN 0 ELSE SessId[i]]
  /\ conns' = [c \in DOMAIN conns |-> [conns[c] EXCEPT !.kill = TRUE]]
  /\ UNCHANGED <<client, sentTo, tunnel, up, down, storing, proxyCounts>>

-----------------------------------------------------------------------------
(* cc: the targets and ServiceProxyCCRaw *)

DialTarget(c) ==
  /\ conns[c].state = "dialing" /\ conns' = [conns EXCEPT ![c].state = "open", ![c].closer = FALSE]
  /\ UNCHANGED <<client, sentTo, tunnel, up, down, SessId, storing, lostEvs, proxyCounts>>

\* The target refuses the connection or ends the session: a Close event, and the Connector dials (again).
TargetEnds(c) ==
  /\ conns[c].state \in {"dialing", "open"} /\ Trouble /\ ends' = ends + 1
  /\ conns' = [conns EXCEPT ![c].state = "dialing", ![c].evs = @ + 1,
                            ![c].closer = @ \/ conns[c].state = "open"]
  /\ UNCHANGED <<client, sentTo, tunnel, up, down, SessId, storing, lostEvs, replies, breaks, drops>>

\* Connector.Close: the session that is open ends too.
Shut(c) == [c EXCEPT !.state = "shut", !.evs = IF c.state = "open" THEN c.evs + 1 ELSE c.evs,
                     !.closer = c.closer \/ c.state = "open"]

Destroy(c) ==
  /\ conns[c].kill /\ conns[c].state # "shut" /\ conns' = [conns EXCEPT ![c] = Shut(@)]
  /\ UNCHANGED <<client, sentTo, tunnel, up, down, SessId, storing, lostEvs, proxyCounts>>

\* Mutant: the other side is not told.
CCRawSessionCloseQuiet(c) ==
  /\ conns[c].evs > 0
  /\ SessId' = [SessId EXCEPT ![conns[c].id] = 0]
  /\ conns' = [conns EXCEPT ![c] = Shut([conns[c] EXCEPT !.evs = @ - 1])]
  /\ UNCHANGED <<client, sentTo, tunnel, up, down, storing, lostEvs, proxyCounts>>

\* SessionClose: forget the id, tell the other side, close the Connector.
CCRawSessionClose(c) ==
  /\ conns[c].evs > 0
  /\ SessId' = [SessId EXCEPT ![conns[c].id] = 0]
  /\ SendDown(down, Msg(conns[c].id, 0))
  /\ conns' = [conns EXCEPT ![c] = Shut([conns[c] EXCEPT !.evs = @ - 1])]
  /\ UNCHANGED <<client, sentTo, tunnel, up, storing, lostEvs, replies, ends, breaks>>

\* Unmarshal
CCRawUnmarshal(c) ==
  /\ conns[c].state = "open" /\ replies < MaxReplies /\ replies' = replies + 1
  /\ SendDown(down, Msg(conns[c].id, replies'))
  /\ UNCHANGED <<client, sentTo, tunnel, up, conns, SessId, storing, lostEvs, ends, breaks>>

-----------------------------------------------------------------------------
\* The tunnel breaks: what is in it is lost, and the cc side's session queues its Close event.
TunnelBreaks ==
  /\ tunnel /\ Trouble /\ breaks' = breaks + 1
  /\ tunnel' = FALSE /\ up' = <<>> /\ down' = <<>> /\ lostEvs' = lostEvs + 1
  /\ UNCHANGED <<client, sentTo, conns, SessId, storing, replies, ends, drops>>

\* Its Connector dials again, and does not wait for SessionClose.
TunnelBack ==
  /\ ~tunnel /\ tunnel' = TRUE
  /\ UNCHANGED <<client, sentTo, up, down, conns, SessId, storing, lostEvs, proxyCounts>>

ProxyNext ==
  \/ \E i \in Clients : LLRawUnmarshal(i) \/ ClientGoes(i) \/ LLRawSessionClose(i)
  \/ LLGpbUnmarshal \/ CCGpbUnmarshal \/ SessIdStore \/ CCGpbSessionClose
  \/ \E c \in DOMAIN conns : DialTarget(c) \/ TargetEnds(c) \/ Destroy(c) \/ CCRawSessionClose(c) \/ CCRawUnmarshal(c)
  \/ TunnelBreaks \/ TunnelBack

ProxySpec == ProxyInit /\ [][ProxyNext]_proxyVars

\* The goroutines of both sides run; nothing is asked of clients, targets and the network.
ProxyFair ==
  /\ \A i \in Clients : WF_proxyVars(LLRawSessionClose(i))
  /\ WF_proxyVars(LLGpbUnmarshal) /\ WF_proxyVars(CCGpbUnmarshal) /\ WF_proxyVars(SessIdStore)
  /\ WF_proxyVars(CCGpbSessionClose)
  /\ \A c \in 1 .. MaxConns : WF_proxyVars(c \in DOMAIN conns /\ (Destroy(c) \/ CCRawSessionClose(c)))

-----------------------------------------------------------------------------
(* Properties *)

ProxyTypeOK ==
  /\ client \in [Clients -> {"open", "closing", "closed"}] /\ sentTo \in [Clients -> Nat]
  /\ tunnel \in BOOLEAN
  /\ up \in Seq([id : Clients, data : Nat]) /\ down \in Seq([id : Clients, data : Nat])
  /\ conns \in Seq([id : Clients, state : {"dialing", "open", "shut"}, kill : BOOLEAN, closer : BOOLEAN,
                    evs : Nat, got : Seq(Nat)])
  /\ SessId \in [Clients -> Nat] /\ storing \in Nat /\ lostEvs \in Nat
  /\ replies \in Nat /\ ends \in Nat /\ breaks \in Nat /\ drops \in Nat

\* Whatever breaks, no target gets a message twice, out of order or of another client; and while neither
\* the tunnel nor a target failed, all messages of a client went to one connection, without a gap (the id in
\* every message of the tunnel, and SessId).  got is what was queued for a target; Session.tla has the rest
\* of the way.
DeliveredInOrder ==
  /\ \A c, d \in DOMAIN conns : conns[c].id = conns[d].id =>
       \A a \in DOMAIN conns[c].got : \A b \in DOMAIN conns[d].got :
         c < d \/ (c = d /\ a < b) => conns[c].got[a] < conns[d].got[b]
  /\ ends + breaks + drops = 0 =>
       /\ \A c \in DOMAIN conns : conns[c].got = [k \in 1 .. Len(conns[c].got) |-> k]
       /\ \A c, d \in DOMAIN conns : conns[c].id = conns[d].id => c = d

\* The inductive form of its first part: SessId and storing hold the newest connection of an id, and what is
\* in the tunnel comes in order, after all that has left it.
TunnelInOrder ==
  /\ storing # 0 => storing = Len(conns) /\ storing > 0 /\ SessId[conns[storing].id] = 0
  /\ \A i \in Clients : SessId[i] # 0 =>
       /\ SessId[i] \in DOMAIN conns /\ conns[SessId[i]].id = i
       /\ \A d \in DOMAIN conns : conns[d].id = i => d <= SessId[i]
  /\ \A a \in DOMAIN up : up[a].data <= sentTo[up[a].id]
  /\ \A a, b \in DOMAIN up : a < b /\ up[a].id = up[b].id /\ up[b].data # 0 => up[a].data < up[b].data
  /\ \A c \in DOMAIN conns : \A k \in DOMAIN conns[c].got :
       /\ conns[c].got[k] \in 1 .. sentTo[conns[c].id]
       /\ \A a \in DOMAIN up : up[a].id = conns[c].id /\ up[a].data # 0 => conns[c].got[k] < up[a].data

\* The inductive form of its second part: a client's data comes before its empty message, its connection is
\* found while there is data for it, and nothing of what was sent is missing.
TunnelComplete ==
  ends + breaks + drops = 0 =>
    /\ tunnel /\ lostEvs = 0
    /\ \A a \in DOMAIN up : up[a].data = 0 =>
         /\ client[up[a].id] # "open"
         /\ \A b \in DOMAIN up : a < b /\ up[b].id = up[a].id => up[b].data = 0
    /\ \A c \in DOMAIN conns :
         IF conns[c].kill
         THEN client[conns[c].id] # "open" /\ \A a \in DOMAIN up : up[a].id = conns[c].id => up[a].data = 0
         ELSE ~conns[c].closer /\ conns[c].evs = 0 /\ (SessId[conns[c].id] = c \/ storing = c)
    /\ \A i \in Clients : \A v \in 1 .. sentTo[i] :
         \/ \E a \in DOMAIN up : up[a] = Msg(i, v)
         \/ \E c \in DOMAIN conns : conns[c].id = i /\ v \in DOMAIN conns[c].got

Connected(i) == \E c \in DOMAIN conns : conns[c].id = i /\ conns[c].state # "shut"

\* SessId holds one connection of an id: a second one comes when a message follows the end of the first.
Reconnected(i) == \E c, d \in DOMAIN conns : c # d /\ conns[c].id = i /\ conns[d].id = i

\* When a client is gone, its connection to the target is closed in the end, also when the tunnel breaks and
\* takes the empty message with it (SessionClose of ServiceProxyLLRaw, Unmarshal and SessionClose of
\* ServiceProxyCCGpb): unless the tunnel's queue dropped the message, or it is not the first one of this client.
ClientCloseReachesTarget ==
  \A i \in Clients : client[i] = "closed" ~> (~Connected(i) \/ drops > 0 \/ Reconnected(i))

\* When a target ends a session, or cannot be reached, the client is closed in the end, unless the tunnel
\* lost the message (SessionClose of ServiceProxyCCRaw and Unmarshal of ServiceProxyLLGpb).
TargetCloseReachesClient ==
  \A c \in 1 .. MaxConns :
    /\ c \in DOMAIN conns /\ conns[c].evs > 0
    ~> c \in DOMAIN conns /\ (client[conns[c].id] = "closed" \/ breaks + drops > 0)

\* The end of either side reaches the other one through the tunnel (the SessionClose and Unmarshal of the
\* four proxy services, imp.go).
ClosesGetThrough == ClientCloseReachesTarget /\ TargetCloseReachesClient
============================================================================
