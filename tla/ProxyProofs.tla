----------------------------- MODULE ProxyProofs -----------------------------
(***************************************************************************)
(* Proofs about the tunnel of ssproxy, for any clients and any number of   *)
(* messages, connections and failures.                                     *)
(***************************************************************************)
EXTENDS Proxy, TLAPS

Mesg == [id : Clients, data : Nat]
Conn == [id : Clients, state : {"dialing", "open", "shut"}, kill : BOOLEAN, closer : BOOLEAN,
         evs : Nat, got : Seq(Nat)]

LEMMA TailOf ==
  ASSUME NEW S, NEW q \in Seq(S), q # <<>>
  PROVE  /\ Len(q) \in Nat /\ Len(q) > 0 /\ 1 \in DOMAIN q /\ Head(q) = q[1] /\ q[1] \in S
         /\ Tail(q) \in Seq(S) /\ DOMAIN Tail(q) = 1 .. Len(q) - 1
         /\ \A a \in DOMAIN Tail(q) : a + 1 \in DOMAIN q /\ Tail(q)[a] = q[a + 1]
OBVIOUS

LEMMA AppendOf ==
  ASSUME NEW S, NEW q \in Seq(S), NEW e \in S
  PROVE  /\ Append(q, e) \in Seq(S) /\ DOMAIN Append(q, e) = 1 .. Len(q) + 1
         /\ Len(q) \in Nat /\ DOMAIN q = 1 .. Len(q) /\ Len(Append(q, e)) = Len(q) + 1
         /\ \A a \in DOMAIN q : Append(q, e)[a] = q[a]
         /\ Append(q, e)[Len(q) + 1] = e
OBVIOUS

LEMMA ConnTypes ==
  ASSUME ProxyTypeOK, NEW c \in DOMAIN conns
  PROVE  /\ conns \in Seq(Conn) /\ Len(conns) \in Nat /\ DOMAIN conns = 1 .. Len(conns)
         /\ conns[c] \in Conn /\ conns[c].id \in Clients /\ conns[c].got \in Seq(Nat)
         /\ conns[c].evs \in Nat /\ conns[c].kill \in BOOLEAN /\ conns[c].closer \in BOOLEAN
         /\ Len(conns[c].got) \in Nat /\ DOMAIN conns[c].got = 1 .. Len(conns[c].got)
<1>1. conns \in Seq(Conn)
  BY DEF ProxyTypeOK, Conn
<1>2. conns[c] \in Conn /\ Len(conns) \in Nat /\ DOMAIN conns = 1 .. Len(conns)
  BY <1>1
<1>3. conns[c].got \in Seq(Nat)
  BY <1>2 DEF Conn
<1> QED
  BY <1>1, <1>2, <1>3 DEF Conn

LEMMA UpTypes ==
  ASSUME ProxyTypeOK, NEW a \in DOMAIN up
  PROVE  /\ up \in Seq(Mesg) /\ Len(up) \in Nat /\ DOMAIN up = 1 .. Len(up)
         /\ up[a] \in Mesg /\ up[a].id \in Clients /\ up[a].data \in Nat
<1>1. up \in Seq(Mesg)
  BY DEF ProxyTypeOK, Mesg
<1>2. up[a] \in Mesg /\ Len(up) \in Nat /\ DOMAIN up = 1 .. Len(up)
  BY <1>1
<1> QED
  BY <1>1, <1>2 DEF Mesg

\* A change of fields of one connection, and of none of the others.
LEMMA OneConn ==
  ASSUME conns \in Seq(Conn), NEW c \in DOMAIN conns, NEW r \in Conn,
         conns' = [conns EXCEPT ![c] = r]
  PROVE  /\ conns' \in Seq(Conn) /\ DOMAIN conns' = DOMAIN conns /\ Len(conns') = Len(conns)
         /\ conns'[c] = r /\ \A d \in DOMAIN conns : d # c => conns'[d] = conns[d]
OBVIOUS

\* What DialTarget, TargetEnds and Shut change.
Turned(r, s, e, b) == [r EXCEPT !.state = s, !.evs = e, !.closer = b]

LEMMA Fields ==
  ASSUME NEW r \in Conn, NEW s \in {"dialing", "open", "shut"}, NEW e \in Nat, NEW b \in BOOLEAN
  PROVE  /\ Turned(r, s, e, b) \in Conn /\ Turned(r, s, e, b).id = r.id
         /\ Turned(r, s, e, b).got = r.got /\ Turned(r, s, e, b).kill = r.kill
         /\ Turned(r, s, e, b).evs = e /\ Turned(r, s, e, b).closer = b
BY Zenon DEF Conn, Turned

\* What Close changes, and what CCRawSessionClose changes before Shut.
Kill(r) == [r EXCEPT !.kill = TRUE]
OneLess(r) == [r EXCEPT !.evs = @ - 1]

LEMMA KillOne ==
  ASSUME NEW r \in Conn
  PROVE  Kill(r) \in Conn /\ Kill(r).id = r.id /\ Kill(r).got = r.got /\ Kill(r).kill
BY Zenon DEF Conn, Kill

LEMMA TakeOne ==
  ASSUME NEW r \in Conn, r.evs > 0
  PROVE  OneLess(r) \in Conn /\ OneLess(r).id = r.id /\ OneLess(r).got = r.got /\ OneLess(r).kill = r.kill
BY DEF Conn, OneLess

LEMMA ShutConn ==
  ASSUME NEW r \in Conn
  PROVE  /\ Shut(r) \in Conn /\ Shut(r).id = r.id /\ Shut(r).got = r.got /\ Shut(r).kill = r.kill
<1>1. PICK b \in BOOLEAN : b = (r.closer \/ r.state = "open")
  BY Zenon
<1>2. PICK e \in Nat : e = IF r.state = "open" THEN r.evs + 1 ELSE r.evs
  BY DEF Conn
<1>3. Shut(r) = Turned(r, "shut", e, b)
  BY <1>1, <1>2, Zenon DEF Shut, Turned
<1> QED
  BY <1>3, Fields
-----------------------------------------------------------------------------
(* Types. *)

LEMMA SendUpType ==
  ASSUME NEW i \in Clients, NEW d \in Nat, up \in Seq(Mesg), drops \in Nat, SendUp(up, Msg(i, d))
  PROVE  up' \in Seq(Mesg) /\ drops' \in Nat
<1>1. Msg(i, d) \in Mesg
  BY DEF Msg, Mesg
<1>2. Append(up, Msg(i, d)) \in Seq(Mesg)
  BY <1>1, AppendOf
<1> QED
  BY <1>2, SMTT(60) DEF SendUp

LEMMA SendDownType ==
  ASSUME NEW i \in Clients, NEW d \in Nat, down \in Seq(Mesg), drops \in Nat, SendDown(down, Msg(i, d))
  PROVE  down' \in Seq(Mesg) /\ drops' \in Nat
<1>1. Msg(i, d) \in Mesg
  BY DEF Msg, Mesg
<1>2. Append(down, Msg(i, d)) \in Seq(Mesg)
  BY <1>1, AppendOf
<1> QED
  BY <1>2, SMTT(60) DEF SendDown

LEMMA TypeParts ==
  ASSUME ProxyTypeOK
  PROVE  /\ client \in [Clients -> {"open", "closing", "closed"}] /\ sentTo \in [Clients -> Nat]
         /\ tunnel \in BOOLEAN /\ up \in Seq(Mesg) /\ down \in Seq(Mesg) /\ conns \in Seq(Conn)
         /\ SessId \in [Clients -> Nat] /\ storing \in Nat /\ lostEvs \in Nat
         /\ replies \in Nat /\ ends \in Nat /\ breaks \in Nat /\ drops \in Nat
BY DEF ProxyTypeOK, Mesg, Conn

LEMMA TypeAfter ==
  ASSUME client' \in [Clients -> {"open", "closing", "closed"}], sentTo' \in [Clients -> Nat],
         tunnel' \in BOOLEAN, up' \in Seq(Mesg), down' \in Seq(Mesg), conns' \in Seq(Conn),
         SessId' \in [Clients -> Nat], storing' \in Nat, lostEvs' \in Nat,
         replies' \in Nat, ends' \in Nat, breaks' \in Nat, drops' \in Nat
  PROVE  ProxyTypeOK'
BY DEF ProxyTypeOK, Mesg, Conn

\* The connections keep their ids and what they got.
SameConns ==
  /\ conns' \in Seq(Conn) /\ DOMAIN conns' = DOMAIN conns /\ Len(conns') = Len(conns)
  /\ \A d \in DOMAIN conns : conns'[d].id = conns[d].id /\ conns'[d].got = conns[d].got

LEMMA DialConns ==
  ASSUME conns \in Seq(Conn), NEW c \in DOMAIN conns, DialTarget(c)
  PROVE  /\ SameConns
         /\ \A d \in DOMAIN conns : /\ conns'[d].kill = conns[d].kill /\ conns'[d].evs = conns[d].evs
                                    /\ ~conns[d].closer => ~conns'[d].closer
<1>1. PICK q \in Conn : q = conns[c]
  OBVIOUS
<1>2. q.evs \in Nat
  BY DEF Conn
<1>3. [q EXCEPT !.state = "open", !.closer = FALSE] = Turned(q, "open", q.evs, FALSE)
  BY Zenon DEF Turned, Conn
<1>4. conns' = [conns EXCEPT ![c] = [q EXCEPT !.state = "open", !.closer = FALSE]]
  BY <1>1, Zenon DEF DialTarget
<1>5. PICK r \in Conn : /\ r = Turned(q, "open", q.evs, FALSE) /\ r.id = q.id /\ r.got = q.got
                        /\ r.kill = q.kill /\ r.evs = q.evs /\ ~r.closer
  BY <1>2, Fields, Zenon
<1> QED
  BY <1>1, <1>3, <1>4, <1>5, OneConn, Zenon DEF SameConns

LEMMA EndedConn ==
  ASSUME NEW r \in Conn, NEW b \in BOOLEAN
  PROVE  /\ Turned(r, "dialing", r.evs + 1, b) \in Conn /\ Turned(r, "dialing", r.evs + 1, b).id = r.id
         /\ Turned(r, "dialing", r.evs + 1, b).got = r.got
<1>1. PICK e \in Nat : e = r.evs + 1
  BY DEF Conn
<1>2. Turned(r, "dialing", e, b) \in Conn
  BY Fields
<1>3. Turned(r, "dialing", e, b).id = r.id
  BY Fields
<1>4. Turned(r, "dialing", e, b).got = r.got
  BY Fields
<1> QED
  BY <1>1, <1>2, <1>3, <1>4

LEMMA EndsConns ==
  ASSUME conns \in Seq(Conn), NEW c \in DOMAIN conns, TargetEnds(c)
  PROVE  SameConns
<1>1. PICK q \in Conn : q = conns[c]
  OBVIOUS
<1>2. PICK b \in BOOLEAN : b = (q.closer \/ q.state = "open")
  BY Zenon
<1>3. conns' = [conns EXCEPT ![c].state = "dialing", ![c].evs = @ + 1, ![c].closer = b]
  BY <1>1, <1>2, Zenon DEF TargetEnds
<1>4. conns' = [conns EXCEPT ![c] = Turned(q, "dialing", q.evs + 1, b)]
  BY <1>1, <1>3, Zenon DEF Turned
<1>5. /\ Turned(q, "dialing", q.evs + 1, b) \in Conn /\ Turned(q, "dialing", q.evs + 1, b).id = q.id
      /\ Turned(q, "dialing", q.evs + 1, b).got = q.got
  BY EndedConn
<1> QED
  BY <1>1, <1>4, <1>5, OneConn DEF SameConns

LEMMA DestroyConns ==
  ASSUME conns \in Seq(Conn), NEW c \in DOMAIN conns, Destroy(c)
  PROVE  /\ SameConns /\ conns[c].kill
         /\ \A d \in DOMAIN conns : conns'[d].kill = conns[d].kill /\ (d # c => conns'[d] = conns[d])
<1>1. conns[c] \in Conn
  OBVIOUS
<1> QED
  BY <1>1, ShutConn, OneConn DEF SameConns, Destroy

LEMMA RawCloseConns ==
  ASSUME conns \in Seq(Conn), NEW c \in DOMAIN conns, CCRawSessionClose(c)
  PROVE  /\ SameConns
         /\ \A d \in DOMAIN conns : conns'[d].kill = conns[d].kill /\ (d # c => conns'[d] = conns[d])
<1>1. conns[c] \in Conn /\ conns[c].evs > 0
  BY DEF CCRawSessionClose
<1>2. conns' = [conns EXCEPT ![c] = Shut(OneLess(conns[c]))]
  BY DEF CCRawSessionClose, OneLess
<1> QED
  BY <1>1, <1>2, TakeOne, ShutConn, OneConn DEF SameConns

LEMMA KilledConns ==
  ASSUME conns \in Seq(Conn), NEW c \in DOMAIN conns, conns' = Killed(c)
  PROVE  SameConns /\ conns'[c].kill /\ \A d \in DOMAIN conns : d # c => conns'[d] = conns[d]
<1>1. conns[c] \in Conn
  OBVIOUS
<1>2. conns' = [conns EXCEPT ![c] = Kill(conns[c])]
  BY DEF Killed, Kill
<1> QED
  BY <1>1, <1>2, KillOne, OneConn DEF SameConns

LEMMA GpbCloseConns ==
  ASSUME conns \in Seq(Conn), CCGpbSessionClose
  PROVE  SameConns
<1>1. conns' = [d \in DOMAIN conns |-> [conns[d] EXCEPT !.kill = TRUE]]
  BY DEF CCGpbSessionClose
<1>2. ASSUME NEW d \in DOMAIN conns
      PROVE  conns'[d] \in Conn /\ conns'[d].id = conns[d].id /\ conns'[d].got = conns[d].got
  <2>1. conns[d] \in Conn
    OBVIOUS
  <2>2. conns'[d] = Kill(conns[d])
    BY <1>1, Zenon DEF Kill
  <2> QED
    BY <2>1, <2>2, KillOne
<1>3. conns' \in [1 .. Len(conns) -> Conn] /\ DOMAIN conns' = DOMAIN conns /\ Len(conns) \in Nat
  <2>1. DOMAIN conns' = DOMAIN conns /\ conns' = [d \in DOMAIN conns |-> conns'[d]]
    BY <1>1, Zenon
  <2> QED
    BY <1>2, <2>1
<1>4. conns' \in Seq(Conn) /\ Len(conns') = Len(conns)
  BY <1>3
<1> QED
  BY <1>2, <1>3, <1>4 DEF SameConns

\* One connection gets one message more.
GetsOne(c, d) ==
  /\ conns' \in Seq(Conn) /\ DOMAIN conns' = DOMAIN conns /\ Len(conns') = Len(conns)
  /\ \A e \in DOMAIN conns :
       /\ conns'[e].id = conns[e].id /\ conns'[e].kill = conns[e].kill
       /\ conns'[e].closer = conns[e].closer /\ conns'[e].evs = conns[e].evs
       /\ e # c => conns'[e].got = conns[e].got
  /\ conns'[c].got = Append(conns[c].got, d)

GotMore(r, d) == [r EXCEPT !.got = Append(@, d)]

LEMMA MoreConns ==
  ASSUME conns \in Seq(Conn), NEW c \in DOMAIN conns, NEW d \in Nat,
         conns' = [conns EXCEPT ![c].got = Append(@, d)]
  PROVE  GetsOne(c, d)
<1>1. PICK r \in Conn : r = conns[c]
  OBVIOUS
<1>2. r.got \in Seq(Nat) /\ Append(r.got, d) \in Seq(Nat)
  BY DEF Conn
<1>3. /\ GotMore(r, d) \in Conn /\ GotMore(r, d).id = r.id /\ GotMore(r, d).kill = r.kill
      /\ GotMore(r, d).closer = r.closer /\ GotMore(r, d).evs = r.evs
      /\ GotMore(r, d).got = Append(r.got, d)
  BY <1>2, Zenon DEF GotMore, Conn
<1>4. conns' = [conns EXCEPT ![c] = GotMore(r, d)]
  BY <1>1 DEF GotMore
<1> QED
  BY <1>1, <1>3, <1>4, OneConn, Zenon DEF GetsOne

\* A connection for a client, with its first message.
MakesOne(i, d) ==
  /\ conns' \in Seq(Conn) /\ Len(conns') = Len(conns) + 1 /\ DOMAIN conns' = 1 .. Len(conns) + 1
  /\ \A e \in DOMAIN conns : conns'[e] = conns[e]
  /\ conns'[Len(conns) + 1].id = i /\ conns'[Len(conns) + 1].got = <<d>>
  /\ ~conns'[Len(conns) + 1].kill /\ ~conns'[Len(conns) + 1].closer /\ conns'[Len(conns) + 1].evs = 0

LEMMA NewConns ==
  ASSUME conns \in Seq(Conn), NEW i \in Clients, NEW d \in Nat,
         conns' = Append(conns, [Dialing(i) EXCEPT !.got = <<d>>])
  PROVE  MakesOne(i, d)
<1>1. PICK r : r = [Dialing(i) EXCEPT !.got = <<d>>]
  BY Zenon
<1>2. <<d>> \in Seq(Nat)
  OBVIOUS
<1>3. r = [id |-> i, state |-> "dialing", kill |-> FALSE, closer |-> FALSE, evs |-> 0, got |-> <<d>>]
  BY <1>1, Zenon DEF Dialing
<1>4. r \in Conn /\ r.id = i /\ r.got = <<d>> /\ ~r.kill /\ ~r.closer /\ r.evs = 0
  BY <1>2, <1>3 DEF Conn
<1>5. conns' = Append(conns, r)
  BY <1>1
<1>6. /\ conns' \in Seq(Conn) /\ Len(conns') = Len(conns) + 1 /\ DOMAIN conns' = 1 .. Len(conns) + 1
      /\ \A e \in DOMAIN conns : conns'[e] = conns[e]
  BY <1>4, <1>5, AppendOf
<1>7. conns'[Len(conns) + 1] = r
  BY <1>4, <1>5, AppendOf
<1> QED
  BY <1>4, <1>6, <1>7, Zenon DEF MakesOne

\* What Unmarshal of the cc side does with a message.
LEMMA UnmarshalCases ==
  ASSUME ProxyTypeOK, TunnelInOrder, CCGpbUnmarshal,
         NEW i, i = up[1].id, NEW d, d = up[1].data, NEW c, c = SessId[i]
  PROVE  /\ up # <<>> /\ storing = 0 /\ up' = Tail(up) /\ i \in Clients /\ d \in Nat /\ c \in Nat
         /\ c # 0 => c \in DOMAIN conns
         /\ \/ c # 0 /\ d = 0 /\ SameConns /\ conns'[c].kill /\ storing' = storing
               /\ (\A e \in DOMAIN conns : e # c => conns'[e] = conns[e])
               /\ SessId' = [SessId EXCEPT ![i] = 0]
            \/ c # 0 /\ d # 0 /\ GetsOne(c, d) /\ SessId' = SessId /\ storing' = storing
            \/ c # 0 /\ d # 0 /\ conns[c].closer /\ conns' = conns /\ SessId' = SessId /\ storing' = storing
            \/ c = 0 /\ d # 0 /\ MakesOne(i, d) /\ SessId' = SessId /\ storing' = Len(conns) + 1
            \/ c = 0 /\ d = 0 /\ conns' = conns /\ SessId' = SessId /\ storing' = storing
<1>1. up # <<>> /\ storing = 0 /\ up' = Tail(up)
  BY DEF CCGpbUnmarshal
<1>2. up \in Seq(Mesg) /\ conns \in Seq(Conn) /\ SessId \in [Clients -> Nat]
  BY TypeParts
<1>3. Head(up) = up[1] /\ up[1] \in Mesg
  BY <1>1, <1>2, TailOf
<1>4. i \in Clients /\ d \in Nat /\ c \in Nat
  BY <1>2, <1>3 DEF Mesg
<1>5. c # 0 => c \in DOMAIN conns
  BY <1>4 DEF TunnelInOrder
<1>6. \/ c # 0 /\ d = 0 /\ SessId' = [SessId EXCEPT ![i] = 0] /\ conns' = Killed(c) /\ UNCHANGED storing
      \/ c # 0 /\ d # 0 /\ conns' \in SendTo(c, d) /\ UNCHANGED <<SessId, storing>>
      \/ /\ c = 0 /\ d # 0 /\ conns' = Append(conns, [Dialing(i) EXCEPT !.got = <<d>>])
         /\ storing' = Len(conns) + 1 /\ UNCHANGED SessId
      \/ c = 0 /\ d = 0 /\ UNCHANGED <<conns, SessId, storing>>
  BY <1>3, Zenon DEF CCGpbUnmarshal
<1>7. CASE c # 0 /\ d = 0 /\ SessId' = [SessId EXCEPT ![i] = 0] /\ conns' = Killed(c) /\ UNCHANGED storing
  BY <1>1, <1>2, <1>4, <1>5, <1>7, KilledConns
<1>8. CASE c # 0 /\ d # 0 /\ conns' \in SendTo(c, d) /\ UNCHANGED <<SessId, storing>>
  <2>1. \/ conns' = [conns EXCEPT ![c].got = Append(@, d)]
        \/ conns[c].closer /\ conns' = conns
    BY <1>8, Zenon DEF SendTo
  <2> QED
    BY <1>1, <1>2, <1>4, <1>5, <1>8, <2>1, MoreConns, Zenon
<1>9. CASE /\ c = 0 /\ d # 0 /\ conns' = Append(conns, [Dialing(i) EXCEPT !.got = <<d>>])
           /\ storing' = Len(conns) + 1 /\ UNCHANGED SessId
  BY <1>1, <1>2, <1>4, <1>9, NewConns, Zenon
<1> QED
  BY <1>1, <1>4, <1>5, <1>6, <1>7, <1>8, <1>9

LEMMA ProxyTypeInit == ProxyInit => ProxyTypeOK
BY DEF ProxyInit, ProxyTypeOK

LEMMA ProxyTypeNext ==
  ASSUME ProxyTypeOK, TunnelInOrder, ProxyNext
  PROVE  ProxyTypeOK'
<1>1. /\ client \in [Clients -> {"open", "closing", "closed"}] /\ sentTo \in [Clients -> Nat]
      /\ tunnel \in BOOLEAN /\ up \in Seq(Mesg) /\ down \in Seq(Mesg) /\ conns \in Seq(Conn)
      /\ SessId \in [Clients -> Nat] /\ storing \in Nat /\ lostEvs \in Nat
      /\ replies \in Nat /\ ends \in Nat /\ breaks \in Nat /\ drops \in Nat
  BY TypeParts
<1>2. ASSUME NEW i \in Clients, LLRawUnmarshal(i)
      PROVE  ProxyTypeOK'
  <2>1. sentTo' \in [Clients -> Nat] /\ sentTo'[i] \in Nat
    BY <1>1, <1>2 DEF LLRawUnmarshal
  <2>2. up' \in Seq(Mesg) /\ drops' \in Nat
    BY <1>1, <1>2, <2>1, SendUpType DEF LLRawUnmarshal
  <2> QED
    BY <1>1, <1>2, <2>1, <2>2, TypeAfter DEF LLRawUnmarshal
<1>3. ASSUME NEW i \in Clients, ClientGoes(i)
      PROVE  ProxyTypeOK'
  BY <1>1, <1>3, TypeAfter DEF ClientGoes, proxyCounts
<1>4. ASSUME NEW i \in Clients, LLRawSessionClose(i)
      PROVE  ProxyTypeOK'
  <2>1. up' \in Seq(Mesg) /\ drops' \in Nat
    BY <1>1, <1>4, SendUpType DEF LLRawSessionClose
  <2>2. client' \in [Clients -> {"open", "closing", "closed"}]
    BY <1>1, <1>4 DEF LLRawSessionClose
  <2> QED
    BY <1>1, <1>4, <2>1, <2>2, TypeAfter DEF LLRawSessionClose
<1>5. CASE LLGpbUnmarshal
  <2>1. down # <<>> /\ down' = Tail(down)
    BY <1>5 DEF LLGpbUnmarshal
  <2>2. down' \in Seq(Mesg) /\ Head(down) \in Mesg
    BY <1>1, <2>1, TailOf
  <2>3. Head(down).id \in Clients
    BY <2>2 DEF Mesg
  <2>4. /\ UNCHANGED <<up, drops>> \/ SendUp(up, Msg(Head(down).id, 0))
        /\ client' = client \/ client' = [client EXCEPT ![Head(down).id] = "closing"]
    BY <1>5, Zenon DEF LLGpbUnmarshal
  <2>5. up' \in Seq(Mesg) /\ drops' \in Nat
    BY <1>1, <2>3, <2>4, SendUpType
  <2>6. client' \in [Clients -> {"open", "closing", "closed"}]
    BY <1>1, <2>3, <2>4, Zenon
  <2>7. UNCHANGED <<sentTo, tunnel, conns, SessId, storing, lostEvs, replies, ends, breaks>>
    BY <1>5 DEF LLGpbUnmarshal
  <2> QED
    BY <1>1, <2>2, <2>5, <2>6, <2>7, TypeAfter
<1>6. CASE CCGpbUnmarshal
  <2>1. PICK i : i = up[1].id
    OBVIOUS
  <2>2. PICK d : d = up[1].data
    OBVIOUS
  <2>3. PICK c : c = SessId[i]
    OBVIOUS
  <2>4. up # <<>> /\ up' = Tail(up)
    BY <1>6 DEF CCGpbUnmarshal
  <2>5. up' \in Seq(Mesg)
    BY <1>1, <2>4, TailOf
  <2>6. conns' \in Seq(Conn) /\ SessId' \in [Clients -> Nat] /\ storing' \in Nat
    <3>1. \/ SameConns /\ SessId' = [SessId EXCEPT ![i] = 0] /\ storing' = storing
          \/ (GetsOne(c, d) \/ conns' = conns) /\ SessId' = SessId /\ storing' = storing
          \/ MakesOne(i, d) /\ SessId' = SessId /\ storing' = Len(conns) + 1
      <4>1. \/ c # 0 /\ d = 0 /\ SameConns /\ conns'[c].kill /\ storing' = storing
               /\ (\A e \in DOMAIN conns : e # c => conns'[e] = conns[e])
               /\ SessId' = [SessId EXCEPT ![i] = 0]
            \/ c # 0 /\ d # 0 /\ GetsOne(c, d) /\ SessId' = SessId /\ storing' = storing
            \/ c # 0 /\ d # 0 /\ conns[c].closer /\ conns' = conns /\ SessId' = SessId /\ storing' = storing
            \/ c = 0 /\ d # 0 /\ MakesOne(i, d) /\ SessId' = SessId /\ storing' = Len(conns) + 1
            \/ c = 0 /\ d = 0 /\ conns' = conns /\ SessId' = SessId /\ storing' = storing
        BY <1>6, <2>1, <2>2, <2>3, UnmarshalCases
      <4> QED
        BY <4>1, Zenon
    <3>2. conns' \in Seq(Conn)
      BY <1>1, <3>1, Zenon DEF SameConns, GetsOne, MakesOne
    <3>3. SessId' \in [Clients -> Nat]
      <4>0. SessId \in [Clients -> Nat] /\ i \in Clients
        BY <1>1, <1>6, <2>1, <2>2, <2>3, UnmarshalCases
      <4>1. [SessId EXCEPT ![i] = 0] \in [Clients -> Nat]
        BY <4>0
      <4> QED
        BY <1>1, <3>1, <4>1, Zenon
    <3>4. storing' \in Nat
      <4>1. Len(conns) + 1 \in Nat
        BY <1>1
      <4> QED
        BY <1>1, <3>1, <4>1, Zenon
    <3> QED
      BY <3>2, <3>3, <3>4
  <2>7. UNCHANGED <<client, sentTo, tunnel, down, lostEvs, proxyCounts>>
    BY <1>6 DEF CCGpbUnmarshal
  <2> QED
    BY <1>1, <2>5, <2>6, <2>7, TypeAfter DEF proxyCounts
<1>7. CASE SessIdStore
  BY <1>1, <1>7, TypeAfter, Zenon DEF SessIdStore, proxyCounts
<1>8. CASE CCGpbSessionClose
  <2>1. conns' \in Seq(Conn)
    BY <1>1, <1>8, GpbCloseConns DEF SameConns
  <2>2. SessId' \in [Clients -> Nat]
    BY <1>1, <1>8 DEF CCGpbSessionClose
  <2>3. lostEvs' \in Nat /\ UNCHANGED <<client, sentTo, tunnel, up, down, storing, proxyCounts>>
    BY <1>1, <1>8 DEF CCGpbSessionClose
  <2> QED
    BY <1>1, <2>1, <2>2, <2>3, TypeAfter DEF proxyCounts
<1>9. ASSUME NEW c \in DOMAIN conns, DialTarget(c)
      PROVE  ProxyTypeOK'
  <2>1. UNCHANGED <<client, sentTo, tunnel, up, down, SessId, storing, lostEvs, proxyCounts>>
    BY <1>9 DEF DialTarget
  <2> QED
    BY <1>1, <1>9, <2>1, DialConns, TypeAfter DEF SameConns, proxyCounts
<1>10. ASSUME NEW c \in DOMAIN conns, TargetEnds(c)
       PROVE  ProxyTypeOK'
  <2>1. UNCHANGED <<client, sentTo, tunnel, up, down, SessId, storing, lostEvs, replies, breaks, drops>> /\ ends' = ends + 1
    BY <1>10 DEF TargetEnds
  <2> QED
    BY <1>1, <1>10, <2>1, EndsConns, TypeAfter DEF SameConns
<1>11. ASSUME NEW c \in DOMAIN conns, Destroy(c)
       PROVE  ProxyTypeOK'
  <2>1. UNCHANGED <<client, sentTo, tunnel, up, down, SessId, storing, lostEvs, proxyCounts>>
    BY <1>11 DEF Destroy
  <2> QED
    BY <1>1, <1>11, <2>1, DestroyConns, TypeAfter DEF SameConns, proxyCounts
<1>12. ASSUME NEW c \in DOMAIN conns, CCRawSessionClose(c)
       PROVE  ProxyTypeOK'
  <2>1. conns[c].id \in Clients
    BY ConnTypes
  <2>2. down' \in Seq(Mesg) /\ drops' \in Nat
    BY <1>1, <1>12, <2>1, SendDownType, Zenon DEF CCRawSessionClose
  <2>3. /\ SessId' = [SessId EXCEPT ![conns[c].id] = 0]
        /\ UNCHANGED <<client, sentTo, tunnel, up, storing, lostEvs, replies, ends, breaks>>
    BY <1>12 DEF CCRawSessionClose
  <2> QED
    BY <1>1, <1>12, <2>1, <2>2, <2>3, RawCloseConns, TypeAfter DEF SameConns
<1>13. ASSUME NEW c \in DOMAIN conns, CCRawUnmarshal(c)
       PROVE  ProxyTypeOK'
  <2>1. conns[c].id \in Clients
    BY ConnTypes
  <2>2. /\ replies' = replies + 1 /\ SendDown(down, Msg(conns[c].id, replies'))
        /\ UNCHANGED <<client, sentTo, tunnel, up, conns, SessId, storing, lostEvs, ends, breaks>>
    BY <1>13 DEF CCRawUnmarshal
  <2>3. replies' \in Nat
    BY <1>1, <2>2
  <2>4. down' \in Seq(Mesg) /\ drops' \in Nat
    BY <1>1, <2>1, <2>2, <2>3, SendDownType
  <2> QED
    BY <1>1, <2>2, <2>3, <2>4, TypeAfter
<1>14. CASE TunnelBreaks
  <2>1. up' \in Seq(Mesg) /\ down' \in Seq(Mesg)
    BY <1>14 DEF TunnelBreaks
  <2>2. lostEvs' \in Nat /\ breaks' \in Nat
    BY <1>1, <1>14 DEF TunnelBreaks
  <2>3. tunnel' \in BOOLEAN
    BY <1>14, Zenon DEF TunnelBreaks
  <2>4. UNCHANGED <<client, sentTo, conns, SessId, storing, replies, ends, drops>>
    BY <1>14 DEF TunnelBreaks
  <2> QED
    BY <1>1, <2>1, <2>2, <2>3, <2>4, TypeAfter
<1>15. CASE TunnelBack
  BY <1>1, <1>15, TypeAfter DEF TunnelBack, proxyCounts
<1> QED
  BY <1>2, <1>3, <1>4, <1>5, <1>6, <1>7, <1>8, <1>9, <1>10, <1>11, <1>12, <1>13, <1>14, <1>15
  DEF ProxyNext
-----------------------------------------------------------------------------
(* What the tunnel carries comes in order. *)

\* The first part of DeliveredInOrder.
GotsInOrder ==
  \A c, d \in DOMAIN conns : conns[c].id = conns[d].id =>
    \A a \in DOMAIN conns[c].got : \A b \in DOMAIN conns[d].got :
      c < d \/ (c = d /\ a < b) => conns[c].got[a] < conns[d].got[b]

\* Nothing comes into the tunnel but an empty message, and what leaves it leaves at its front.
Shifted(s) ==
  \A a \in DOMAIN up' :
    \/ up'[a].data = 0 /\ up'[a].id \in Clients
    \/ a + s \in DOMAIN up /\ up'[a] = up[a + s]

\* No step but those of LLRawUnmarshal, CCGpbUnmarshal and SessIdStore does more than this.
LEMMA OrderKept ==
  ASSUME ProxyTypeOK, ProxyTypeOK', TunnelInOrder, GotsInOrder, SameConns,
         storing' = storing, sentTo' = sentTo, NEW s \in {0, 1}, Shifted(s),
         \A i \in Clients : SessId'[i] \in {SessId[i], 0}
  PROVE  TunnelInOrder' /\ GotsInOrder'
<1>1. /\ DOMAIN conns' = DOMAIN conns /\ Len(conns') = Len(conns) /\ DOMAIN conns = 1 .. Len(conns)
      /\ Len(conns) \in Nat /\ storing \in Nat
      /\ \A d \in DOMAIN conns : /\ conns'[d].id = conns[d].id /\ conns'[d].got = conns[d].got
                                 /\ conns[d].id \in Clients
  <2>1. conns \in Seq(Conn) /\ storing \in Nat
    BY TypeParts
  <2> QED
    BY <2>1, ConnTypes DEF SameConns
<1>2. storing' # 0 => storing' = Len(conns') /\ storing' > 0 /\ SessId'[conns'[storing'].id] = 0
  BY <1>1 DEF TunnelInOrder
<1>3. ASSUME NEW i \in Clients, SessId'[i] # 0
      PROVE  /\ SessId'[i] \in DOMAIN conns' /\ conns'[SessId'[i]].id = i
             /\ \A d \in DOMAIN conns' : conns'[d].id = i => d <= SessId'[i]
  <2>1. SessId'[i] = SessId[i] /\ SessId[i] # 0
    BY <1>3
  <2>2. /\ SessId[i] \in DOMAIN conns /\ conns[SessId[i]].id = i
        /\ \A d \in DOMAIN conns : conns[d].id = i => d <= SessId[i]
    BY <1>3, <2>1, Zenon DEF TunnelInOrder
  <2> QED
    BY <1>1, <2>1, <2>2
<1>4. \A a \in DOMAIN up : up[a].id \in Clients /\ up[a].data \in Nat /\ a \in Nat /\ sentTo[up[a].id] \in Nat
  BY UpTypes, TypeParts, SMTT(60)
<1>5. \A a \in DOMAIN up' : a \in Nat
  <2>1. up' \in Seq(Mesg)
    BY DEF ProxyTypeOK, Mesg
  <2> QED
    BY <2>1
<1>6. ASSUME NEW a \in DOMAIN up'
      PROVE  up'[a].data <= sentTo'[up'[a].id]
  BY <1>4, <1>6, TypeParts, SMTT(60) DEF TunnelInOrder, Shifted
<1>7. ASSUME NEW a \in DOMAIN up', NEW b \in DOMAIN up', a < b, up'[a].id = up'[b].id, up'[b].data # 0
      PROVE  up'[a].data < up'[b].data
  <2>1. b + s \in DOMAIN up /\ up'[b] = up[b + s]
    BY <1>7 DEF Shifted
  <2>2. CASE up'[a].data = 0
    BY <1>4, <1>7, <2>1, <2>2
  <2>3. CASE a + s \in DOMAIN up /\ up'[a] = up[a + s]
    <3>1. a + s < b + s
      BY <1>5, <1>7
    <3> QED
      BY <1>7, <2>1, <2>3, <3>1 DEF TunnelInOrder
  <2> QED
    BY <2>2, <2>3 DEF Shifted
<1>8. ASSUME NEW c \in DOMAIN conns', NEW k \in DOMAIN conns'[c].got
      PROVE  /\ conns'[c].got[k] \in 1 .. sentTo'[conns'[c].id]
             /\ \A a \in DOMAIN up' : up'[a].id = conns'[c].id /\ up'[a].data # 0 => conns'[c].got[k] < up'[a].data
  <2>1. c \in DOMAIN conns /\ conns'[c].id = conns[c].id /\ conns'[c].got = conns[c].got
    BY <1>1, <1>8
  <2>2. k \in DOMAIN conns[c].got
    BY <2>1, Zenon
  <2>3. /\ conns[c].got[k] \in 1 .. sentTo[conns[c].id]
        /\ \A a \in DOMAIN up : up[a].id = conns[c].id /\ up[a].data # 0 => conns[c].got[k] < up[a].data
    BY <2>1, <2>2, Zenon DEF TunnelInOrder
  <2>4. ASSUME NEW a \in DOMAIN up', up'[a].id = conns[c].id, up'[a].data # 0
        PROVE  conns[c].got[k] < up'[a].data
    <3>1. a + s \in DOMAIN up /\ up'[a] = up[a + s]
      BY <2>4 DEF Shifted
    <3> QED
      BY <2>3, <2>4, <3>1, Zenon
  <2> QED
    BY <2>1, <2>3, <2>4, Zenon
<1>9. TunnelInOrder'
  BY <1>2, <1>3, <1>6, <1>7, <1>8, Zenon DEF TunnelInOrder
<1>10. ASSUME NEW c \in DOMAIN conns', NEW d \in DOMAIN conns', conns'[c].id = conns'[d].id,
              NEW a \in DOMAIN conns'[c].got, NEW b \in DOMAIN conns'[d].got, c < d \/ (c = d /\ a < b)
       PROVE  conns'[c].got[a] < conns'[d].got[b]
  <2>1. /\ c \in DOMAIN conns /\ d \in DOMAIN conns /\ conns[c].id = conns[d].id
        /\ conns'[c].got = conns[c].got /\ conns'[d].got = conns[d].got
    BY <1>1, <1>10
  <2>2. a \in DOMAIN conns[c].got /\ b \in DOMAIN conns[d].got
    BY <2>1, Zenon
  <2>3. conns[c].got[a] < conns[d].got[b]
    BY <1>10, <2>1, <2>2, Zenon DEF GotsInOrder
  <2> QED
    BY <2>1, <2>3, Zenon
<1> QED
  BY <1>9, <1>10, Zenon DEF GotsInOrder

\* A client's message comes into the tunnel, with a new number, or is lost before.
LEMMA OrderSent ==
  ASSUME ProxyTypeOK, TunnelInOrder, GotsInOrder, NEW i \in Clients, LLRawUnmarshal(i)
  PROVE  TunnelInOrder' /\ GotsInOrder'
<1>1. /\ UNCHANGED <<conns, SessId, storing>> /\ sentTo' = [sentTo EXCEPT ![i] = @ + 1]
      /\ up' = up \/ up' = Append(up, Msg(i, sentTo'[i]))
  BY DEF LLRawUnmarshal, SendUp
<1>2. /\ sentTo \in [Clients -> Nat] /\ sentTo'[i] = sentTo[i] + 1 /\ up \in Seq(Mesg)
      /\ \A j \in Clients : sentTo[j] \in Nat /\ sentTo'[j] \in Nat /\ sentTo[j] <= sentTo'[j]
  BY <1>1, TypeParts, SMTT(60)
<1>3. Msg(i, sentTo'[i]) \in Mesg /\ Msg(i, sentTo'[i]).id = i /\ Msg(i, sentTo'[i]).data = sentTo'[i]
  BY <1>2 DEF Msg, Mesg
<1>4. \A a \in DOMAIN up : up[a].id \in Clients /\ up[a].data \in Nat /\ a \in 1 .. Len(up)
  BY UpTypes
<1>5. ASSUME NEW a \in DOMAIN up'
      PROVE  \/ a \in DOMAIN up /\ up'[a] = up[a]
             \/ a = Len(up) + 1 /\ up'[a].id = i /\ up'[a].data = sentTo[i] + 1 /\ \A b \in DOMAIN up' : b <= a
  <2>1. CASE up' = up
    BY <1>5, <2>1
  <2>2. CASE up' = Append(up, Msg(i, sentTo'[i]))
    BY <1>2, <1>3, <1>5, <2>2, AppendOf
  <2> QED
    BY <1>1, <2>1, <2>2
<1>6. \A a \in DOMAIN up : up[a].data <= sentTo[up[a].id]
  BY DEF TunnelInOrder
<1>7. ASSUME NEW a \in DOMAIN up'
      PROVE  up'[a].data <= sentTo'[up'[a].id]
  BY <1>2, <1>4, <1>5, <1>6, SMTT(60)
<1>8. ASSUME NEW a \in DOMAIN up', NEW b \in DOMAIN up', a < b, up'[a].id = up'[b].id, up'[b].data # 0
      PROVE  up'[a].data < up'[b].data
  <2>1. a \in DOMAIN up /\ up'[a] = up[a]
    BY <1>2, <1>4, <1>5, <1>8
  <2>2. CASE b \in DOMAIN up /\ up'[b] = up[b]
    BY <1>8, <2>1, <2>2 DEF TunnelInOrder
  <2>3. CASE up'[b].id = i /\ up'[b].data = sentTo[i] + 1
    BY <1>2, <1>4, <1>6, <1>8, <2>1, <2>3
  <2> QED
    BY <1>5, <2>2, <2>3
<1>9. ASSUME NEW c \in DOMAIN conns, NEW k \in DOMAIN conns[c].got
      PROVE  /\ conns[c].got[k] \in 1 .. sentTo'[conns[c].id]
             /\ \A a \in DOMAIN up' : up'[a].id = conns[c].id /\ up'[a].data # 0 => conns[c].got[k] < up'[a].data
  <2>1. conns[c].got[k] \in 1 .. sentTo[conns[c].id] /\ conns[c].id \in Clients
    BY ConnTypes DEF TunnelInOrder
  <2>2. \A a \in DOMAIN up : up[a].id = conns[c].id /\ up[a].data # 0 => conns[c].got[k] < up[a].data
    BY DEF TunnelInOrder
  <2>3. PICK v : v = conns[c].got[k]
    OBVIOUS
  <2>4. v \in 1 .. sentTo'[conns[c].id]
    BY <1>2, <2>1, <2>3
  <2>5. ASSUME NEW a \in DOMAIN up', up'[a].id = conns[c].id, up'[a].data # 0
        PROVE  v < up'[a].data
    <3>1. CASE a \in DOMAIN up /\ up'[a] = up[a]
      BY <2>2, <2>3, <2>5, <3>1
    <3>2. CASE up'[a].id = i /\ up'[a].data = sentTo[i] + 1
      BY <1>2, <2>1, <2>3, <2>5, <3>2
    <3> QED
      BY <1>5, <3>1, <3>2
  <2> QED
    BY <2>3, <2>4, <2>5
<1> QED
  BY <1>1, <1>7, <1>8, <1>9 DEF TunnelInOrder, GotsInOrder

\* The first message leaves the tunnel: it is newer than all that left it and older than all that is in it.
LEMMA FirstLeaves ==
  ASSUME ProxyTypeOK, TunnelInOrder, up # <<>>, up' = Tail(up), sentTo' = sentTo,
         NEW i, i = up[1].id, NEW d, d = up[1].data
  PROVE  /\ \A a \in DOMAIN up' : a + 1 \in DOMAIN up /\ up'[a] = up[a + 1]
         /\ \A a \in DOMAIN up' : up'[a].data <= sentTo'[up'[a].id]
         /\ \A a, b \in DOMAIN up' : a < b /\ up'[a].id = up'[b].id /\ up'[b].data # 0 => up'[a].data < up'[b].data
         /\ \A a \in DOMAIN up' : up'[a].id = i /\ up'[a].data # 0 => d < up'[a].data
         /\ i \in Clients /\ d \in Nat /\ d <= sentTo[i] /\ sentTo[i] \in Nat
         /\ d # 0 => \A c \in DOMAIN conns : conns[c].id = i => \A k \in DOMAIN conns[c].got : conns[c].got[k] < d
<1>1. up \in Seq(Mesg) /\ sentTo \in [Clients -> Nat]
  BY TypeParts
<1>2. /\ 1 \in DOMAIN up /\ DOMAIN up' = 1 .. Len(up) - 1 /\ Len(up) \in Nat
      /\ \A a \in DOMAIN up' : a + 1 \in DOMAIN up /\ up'[a] = up[a + 1]
  BY <1>1, TailOf
<1>3. i \in Clients /\ d \in Nat
  BY <1>2, UpTypes
<1>4. \A a \in DOMAIN up' : up'[a].data <= sentTo'[up'[a].id]
  BY <1>2, Zenon DEF TunnelInOrder
<1>5. ASSUME NEW a \in DOMAIN up', NEW b \in DOMAIN up', a < b, up'[a].id = up'[b].id, up'[b].data # 0
      PROVE  up'[a].data < up'[b].data
  <2>1. PICK p \in DOMAIN up, q \in DOMAIN up : p < q /\ up'[a] = up[p] /\ up'[b] = up[q]
    BY <1>2, <1>5
  <2>2. up[p].id = up[q].id /\ up[q].data # 0
    BY <1>5, <2>1
  <2>3. up[p].data < up[q].data
    BY <2>1, <2>2, Zenon DEF TunnelInOrder
  <2> QED
    BY <2>1, <2>3
<1>6. ASSUME NEW a \in DOMAIN up', up'[a].id = i, up'[a].data # 0
      PROVE  d < up'[a].data
  <2>1. PICK p \in DOMAIN up : 1 < p /\ up'[a] = up[p]
    BY <1>2, <1>6
  <2> QED
    BY <1>2, <1>6, <2>1 DEF TunnelInOrder
<1>7. d <= sentTo[i] /\ sentTo[i] \in Nat
  BY <1>1, <1>2, <1>3 DEF TunnelInOrder
<1>8. ASSUME d # 0, NEW c \in DOMAIN conns, conns[c].id = i, NEW k \in DOMAIN conns[c].got
      PROVE  conns[c].got[k] < d
  BY <1>2, <1>8, Zenon DEF TunnelInOrder
<1> QED
  BY <1>2, <1>3, <1>4, <1>5, <1>6, <1>7, <1>8, Zenon

\* The newest connection of a client gets the first message.
LEMMA OrderGets ==
  ASSUME ProxyTypeOK, TunnelInOrder, GotsInOrder, up # <<>>, up' = Tail(up), sentTo' = sentTo,
         NEW i, i = up[1].id, NEW d, d = up[1].data, d # 0, NEW c, c = SessId[i], c # 0,
         GetsOne(c, d), SessId' = SessId, storing' = storing, storing = 0
  PROVE  TunnelInOrder' /\ GotsInOrder'
<1>1. /\ \A a \in DOMAIN up' : a + 1 \in DOMAIN up /\ up'[a] = up[a + 1]
      /\ \A a \in DOMAIN up' : up'[a].data <= sentTo'[up'[a].id]
      /\ \A a, b \in DOMAIN up' : a < b /\ up'[a].id = up'[b].id /\ up'[b].data # 0 => up'[a].data < up'[b].data
      /\ \A a \in DOMAIN up' : up'[a].id = i /\ up'[a].data # 0 => d < up'[a].data
      /\ i \in Clients /\ d \in Nat /\ d <= sentTo[i] /\ sentTo[i] \in Nat
      /\ \A e \in DOMAIN conns : conns[e].id = i => \A k \in DOMAIN conns[e].got : conns[e].got[k] < d
  BY FirstLeaves, Zenon
<1>2. c \in DOMAIN conns /\ conns[c].id = i /\ \A e \in DOMAIN conns : conns[e].id = i => e <= c
  BY <1>1 DEF TunnelInOrder
<1>3. conns \in Seq(Conn) /\ DOMAIN conns = 1 .. Len(conns) /\ Len(conns) \in Nat
  BY TypeParts
<1>4. /\ DOMAIN conns' = DOMAIN conns /\ conns'[c].got = Append(conns[c].got, d)
      /\ \A e \in DOMAIN conns : conns'[e].id = conns[e].id /\ (e # c => conns'[e].got = conns[e].got)
  BY Zenon DEF GetsOne
<1>5. ASSUME NEW e \in DOMAIN conns, NEW k \in DOMAIN conns'[e].got
      PROVE  \/ k \in DOMAIN conns[e].got /\ conns'[e].got[k] = conns[e].got[k]
             \/ e = c /\ conns'[e].got[k] = d /\ \A b \in DOMAIN conns'[e].got : b <= k
  <2>1. CASE e # c
    BY <1>4, <2>1, Zenon
  <2>2. CASE e = c
    <3>1. PICK g \in Seq(Nat) : g = conns[c].got
      BY <1>2, ConnTypes
    <3>2. /\ DOMAIN Append(g, d) = 1 .. Len(g) + 1 /\ Len(g) \in Nat /\ DOMAIN g = 1 .. Len(g)
          /\ \A a \in DOMAIN g : Append(g, d)[a] = g[a]
          /\ Append(g, d)[Len(g) + 1] = d
      BY <1>1, AppendOf
    <3>3. conns'[e].got = Append(g, d) /\ conns[e].got = g
      BY <1>4, <2>2, <3>1, Zenon
    <3>4. k \in 1 .. Len(g) + 1
      BY <1>5, <3>2, <3>3
    <3>5. CASE k = Len(g) + 1
      <4>1. \A b \in 1 .. Len(g) + 1 : b <= Len(g) + 1
        BY <3>2
      <4> QED
        BY <2>2, <3>2, <3>3, <3>5, <4>1, Zenon
    <3>6. CASE k \in DOMAIN g
      BY <3>2, <3>3, <3>6
    <3> QED
      BY <3>2, <3>4, <3>5, <3>6
  <2> QED
    BY <2>1, <2>2
<1>6. ASSUME NEW e \in DOMAIN conns, NEW k \in DOMAIN conns'[e].got
      PROVE  /\ conns'[e].got[k] \in 1 .. sentTo'[conns'[e].id]
             /\ \A a \in DOMAIN up' : up'[a].id = conns'[e].id /\ up'[a].data # 0 => conns'[e].got[k] < up'[a].data
  <2>1. CASE k \in DOMAIN conns[e].got /\ conns'[e].got[k] = conns[e].got[k]
    <3>1. /\ conns[e].got[k] \in 1 .. sentTo[conns[e].id]
          /\ \A a \in DOMAIN up : up[a].id = conns[e].id /\ up[a].data # 0 => conns[e].got[k] < up[a].data
      BY <2>1 DEF TunnelInOrder
    <3>2. \A a \in DOMAIN up' : up'[a].id = conns[e].id /\ up'[a].data # 0 => conns[e].got[k] < up'[a].data
      BY <1>1, <3>1
    <3> QED
      BY <1>4, <2>1, <3>1, <3>2, Zenon
  <2>2. CASE e = c /\ conns'[e].got[k] = d
    <3>1. d \in 1 .. sentTo[i]
      BY <1>1
    <3> QED
      BY <1>1, <1>2, <1>4, <2>2, <3>1, ZenonT(30)
  <2> QED
    BY <1>5, <1>6, <2>1, <2>2
<1>7. TunnelInOrder'
  <2>1. \A j \in Clients : SessId'[j] # 0 =>
          /\ SessId'[j] \in DOMAIN conns' /\ conns'[SessId'[j]].id = j
          /\ \A e \in DOMAIN conns' : conns'[e].id = j => e <= SessId'[j]
    BY <1>4, Zenon DEF TunnelInOrder
  <2> QED
    BY <1>1, <1>4, <1>6, <2>1, Zenon DEF TunnelInOrder
<1>8. ASSUME NEW e \in DOMAIN conns, NEW f \in DOMAIN conns, conns[e].id = conns[f].id,
             NEW a \in DOMAIN conns'[e].got, NEW b \in DOMAIN conns'[f].got, e < f \/ (e = f /\ a < b)
      PROVE  conns'[e].got[a] < conns'[f].got[b]
  <2>0. /\ e \in Nat /\ f \in Nat /\ c \in Nat
        /\ e = f => a \in Nat /\ b \in Nat
    <3>1. conns[e].got \in Seq(Nat) /\ Append(conns[e].got, d) \in Seq(Nat)
      BY <1>1, ConnTypes, AppendOf
    <3>2. conns'[e].got = conns[e].got \/ conns'[e].got = Append(conns[e].got, d)
      BY <1>4
    <3>3. PICK g \in Seq(Nat) : g = conns'[e].got
      BY <3>1, <3>2, Zenon
    <3>4. e = f => a \in DOMAIN g /\ b \in DOMAIN g
      BY <3>3
    <3> QED
      BY <1>2, <1>3, <3>4, SMTT(60)
  <2>1. a \in DOMAIN conns[e].got /\ conns'[e].got[a] = conns[e].got[a]
    <3>1. SUFFICES ASSUME e = c, \A k \in DOMAIN conns'[e].got : k <= a
                   PROVE  FALSE
      BY <1>5
    <3>2. f <= c
      BY <1>2, <1>8, <3>1
    <3> QED
      BY <1>8, <2>0, <3>1, <3>2
  <2>2. CASE b \in DOMAIN conns[f].got /\ conns'[f].got[b] = conns[f].got[b]
    BY <1>8, <2>1, <2>2, Zenon DEF GotsInOrder
  <2>3. CASE f = c /\ conns'[f].got[b] = d
    BY <1>1, <1>2, <1>8, <2>1, <2>3, Zenon
  <2> QED
    BY <1>5, <2>2, <2>3
<1> QED
  BY <1>4, <1>7, <1>8, Zenon DEF GotsInOrder

\* A new connection gets the first message of a client that has none.
LEMMA OrderMakes ==
  ASSUME ProxyTypeOK, TunnelInOrder, GotsInOrder, up # <<>>, up' = Tail(up), sentTo' = sentTo,
         NEW i, i = up[1].id, NEW d, d = up[1].data, d # 0, SessId[i] = 0,
         MakesOne(i, d), SessId' = SessId, storing' = Len(conns) + 1
  PROVE  TunnelInOrder' /\ GotsInOrder'
<1>1. /\ \A a \in DOMAIN up' : a + 1 \in DOMAIN up /\ up'[a] = up[a + 1]
      /\ \A a \in DOMAIN up' : up'[a].data <= sentTo'[up'[a].id]
      /\ \A a, b \in DOMAIN up' : a < b /\ up'[a].id = up'[b].id /\ up'[b].data # 0 => up'[a].data < up'[b].data
      /\ \A a \in DOMAIN up' : up'[a].id = i /\ up'[a].data # 0 => d < up'[a].data
      /\ i \in Clients /\ d \in Nat /\ d <= sentTo[i] /\ sentTo[i] \in Nat
      /\ \A e \in DOMAIN conns : conns[e].id = i => \A k \in DOMAIN conns[e].got : conns[e].got[k] < d
  BY FirstLeaves, Zenon
<1>2. PICK n : n = Len(conns) + 1
  OBVIOUS
<1>3. DOMAIN conns = 1 .. n - 1 /\ n \in Nat /\ n > 0
  <2>1. conns \in Seq(Conn)
    BY TypeParts
  <2> QED
    BY <1>2, <2>1
<1>4. /\ DOMAIN conns' = 1 .. n /\ Len(conns') = n /\ storing' = n
      /\ \A e \in DOMAIN conns : conns'[e] = conns[e]
      /\ conns'[n].id = i /\ conns'[n].got = <<d>>
  BY <1>2 DEF MakesOne
<1>5. \A e \in DOMAIN conns' : e \in DOMAIN conns \/ e = n
  BY <1>3, <1>4
<1>6. ASSUME NEW e \in DOMAIN conns', NEW k \in DOMAIN conns'[e].got
      PROVE  \/ e \in DOMAIN conns /\ k \in DOMAIN conns[e].got
             \/ e = n /\ k = 1 /\ conns'[e].got[k] = d
  <2>1. CASE e \in DOMAIN conns
    BY <1>4, <2>1, Zenon
  <2>2. CASE e = n
    <3>1. k \in DOMAIN <<d>> /\ conns'[e].got[k] = <<d>>[k]
      BY <1>4, <2>2, Zenon
    <3> QED
      BY <2>2, <3>1
  <2> QED
    BY <1>5, <2>1, <2>2
<1>7. ASSUME NEW e \in DOMAIN conns', NEW k \in DOMAIN conns'[e].got
      PROVE  /\ conns'[e].got[k] \in 1 .. sentTo'[conns'[e].id]
             /\ \A a \in DOMAIN up' : up'[a].id = conns'[e].id /\ up'[a].data # 0 => conns'[e].got[k] < up'[a].data
  <2>1. CASE e \in DOMAIN conns /\ k \in DOMAIN conns[e].got
    <3>1. /\ conns[e].got[k] \in 1 .. sentTo[conns[e].id]
          /\ \A a \in DOMAIN up : up[a].id = conns[e].id /\ up[a].data # 0 => conns[e].got[k] < up[a].data
      BY <2>1 DEF TunnelInOrder
    <3>2. \A a \in DOMAIN up' : up'[a].id = conns[e].id /\ up'[a].data # 0 => conns[e].got[k] < up'[a].data
      BY <1>1, <3>1
    <3> QED
      BY <1>4, <2>1, <3>1, <3>2, Zenon
  <2>2. CASE e = n /\ conns'[e].got[k] = d
    <3>1. d \in 1 .. sentTo[i]
      BY <1>1
    <3> QED
      BY <1>1, <1>4, <2>2, <3>1, Zenon
  <2> QED
    BY <1>6, <1>7, <2>1, <2>2
<1>8. ASSUME NEW j \in Clients, SessId'[j] # 0
      PROVE  /\ SessId'[j] \in DOMAIN conns' /\ conns'[SessId'[j]].id = j
             /\ \A e \in DOMAIN conns' : conns'[e].id = j => e <= SessId'[j]
  <2>1. SessId[j] \in DOMAIN conns /\ conns[SessId[j]].id = j /\ \A e \in DOMAIN conns : conns[e].id = j => e <= SessId[j]
    BY <1>8 DEF TunnelInOrder
  <2>2. j # i
    BY <1>8
  <2> QED
    BY <1>3, <1>4, <1>5, <2>1, <2>2
<1>9. TunnelInOrder'
  <2>1. storing' # 0 => storing' = Len(conns') /\ storing' > 0 /\ SessId'[conns'[storing'].id] = 0
    BY <1>3, <1>4
  <2> QED
    BY <1>1, <1>7, <1>8, <2>1, Zenon DEF TunnelInOrder
<1>10. ASSUME NEW e \in DOMAIN conns', NEW f \in DOMAIN conns', conns'[e].id = conns'[f].id,
              NEW a \in DOMAIN conns'[e].got, NEW b \in DOMAIN conns'[f].got, e < f \/ (e = f /\ a < b)
       PROVE  conns'[e].got[a] < conns'[f].got[b]
  <2>1. e \in DOMAIN conns /\ a \in DOMAIN conns[e].got /\ conns'[e] = conns[e]
    <3>1. ~(e = n /\ a = 1)
      BY <1>3, <1>4, <1>6, <1>10
    <3> QED
      BY <1>4, <1>6, <3>1
  <2>2. CASE f \in DOMAIN conns /\ b \in DOMAIN conns[f].got
    BY <1>4, <1>10, <2>1, <2>2, Zenon DEF GotsInOrder
  <2>3. CASE f = n /\ conns'[f].got[b] = d
    BY <1>1, <1>4, <1>10, <2>1, <2>3, Zenon
  <2> QED
    BY <1>6, <2>2, <2>3
<1> QED
  BY <1>9, <1>10, Zenon DEF GotsInOrder

\* SessId names the connection that was just made.
LEMMA OrderStores ==
  ASSUME ProxyTypeOK, TunnelInOrder, GotsInOrder, SessIdStore
  PROVE  TunnelInOrder' /\ GotsInOrder'
<1>1. UNCHANGED <<up, sentTo, conns>> /\ storing' = 0 /\ storing # 0
  BY DEF SessIdStore
<1>2. storing = Len(conns) /\ Len(conns) \in Nat /\ DOMAIN conns = 1 .. Len(conns) /\ storing \in DOMAIN conns
  <2>1. conns \in Seq(Conn) /\ storing \in Nat
    BY TypeParts
  <2> QED
    BY <1>1, <2>1 DEF TunnelInOrder
<1>3. PICK i \in Clients : i = conns[storing].id
  BY <1>2, ConnTypes
<1>4. \A j \in Clients : SessId'[j] = IF j = i THEN storing ELSE SessId[j]
  BY <1>3, TypeParts DEF SessIdStore
<1>5. ASSUME NEW j \in Clients, SessId'[j] # 0
      PROVE  /\ SessId'[j] \in DOMAIN conns /\ conns[SessId'[j]].id = j
             /\ \A e \in DOMAIN conns : conns[e].id = j => e <= SessId'[j]
  <2>1. CASE j = i
    BY <1>2, <1>3, <1>4, <2>1
  <2>2. CASE j # i
    BY <1>4, <1>5, <2>2 DEF TunnelInOrder
  <2> QED
    BY <2>1, <2>2
<1>6. TunnelInOrder'
  BY <1>1, <1>5 DEF TunnelInOrder
<1>7. GotsInOrder'
  BY <1>1 DEF GotsInOrder
<1> QED
  BY <1>6, <1>7

LEMMA NotShifted ==
  ASSUME ProxyTypeOK, up' = up
  PROVE  Shifted(0)
<1>1. \A a \in DOMAIN up : a + 0 = a
  BY UpTypes
<1> QED
  BY <1>1 DEF Shifted

LEMMA ZeroSent ==
  ASSUME ProxyTypeOK, NEW i \in Clients, SendUp(up, Msg(i, 0))
  PROVE  Shifted(0)
<1>1. CASE up' = up
  BY <1>1, NotShifted
<1>2. CASE up' = Append(up, Msg(i, 0))
  <2>1. up \in Seq(Mesg) /\ Msg(i, 0) \in Mesg /\ Msg(i, 0).id = i /\ Msg(i, 0).data = 0
    BY TypeParts DEF Msg, Mesg
  <2>2. ASSUME NEW a \in DOMAIN up'
        PROVE  a + 0 = a /\ ((a \in DOMAIN up /\ up'[a] = up[a]) \/ up'[a] = Msg(i, 0))
    BY <1>2, <2>1, <2>2, AppendOf
  <2> QED
    BY <2>1, <2>2 DEF Shifted
<1> QED
  BY <1>1, <1>2 DEF SendUp

LEMMA OrderNext ==
  ASSUME ProxyTypeOK, ProxyTypeOK', TunnelInOrder, GotsInOrder, ProxyNext
  PROVE  TunnelInOrder' /\ GotsInOrder'
<1>1. conns \in Seq(Conn) /\ SessId \in [Clients -> Nat] /\ up \in Seq(Mesg)
  BY TypeParts
<1>2. conns' = conns => SameConns
  BY <1>1 DEF SameConns
<1>3. ASSUME NEW i \in Clients, ClientGoes(i)
      PROVE  TunnelInOrder' /\ GotsInOrder'
  BY <1>2, <1>3, NotShifted, OrderKept DEF ClientGoes
<1>4. ASSUME NEW i \in Clients, LLRawSessionClose(i)
      PROVE  TunnelInOrder' /\ GotsInOrder'
  BY <1>2, <1>4, ZeroSent, OrderKept DEF LLRawSessionClose
<1>5. CASE LLGpbUnmarshal
  <2>1. Head(down).id \in Clients
    <3>1. down \in Seq(Mesg) /\ down # <<>>
      BY <1>5, TypeParts DEF LLGpbUnmarshal
    <3>2. Head(down) \in Mesg
      BY <3>1, TailOf
    <3> QED
      BY <3>2 DEF Mesg
  <2>2. up' = up \/ SendUp(up, Msg(Head(down).id, 0))
    BY <1>5, Zenon DEF LLGpbUnmarshal
  <2>3. Shifted(0)
    BY <2>1, <2>2, NotShifted, ZeroSent
  <2>4. UNCHANGED <<conns, SessId, storing, sentTo>>
    BY <1>5 DEF LLGpbUnmarshal
  <2> QED
    BY <1>2, <2>3, <2>4, OrderKept
<1>6. CASE CCGpbUnmarshal
  <2>1. PICK i : i = up[1].id
    OBVIOUS
  <2>2. PICK d : d = up[1].data
    OBVIOUS
  <2>3. PICK c : c = SessId[i]
    OBVIOUS
  <2>4. up # <<>> /\ storing = 0 /\ up' = Tail(up) /\ sentTo' = sentTo
    BY <1>6 DEF CCGpbUnmarshal
  <2>5. Shifted(1)
    BY <1>1, <2>4, TailOf DEF Shifted
  <2>6. CASE c # 0 /\ d = 0 /\ SameConns /\ storing' = storing /\ SessId' = [SessId EXCEPT ![i] = 0]
    BY <1>1, <2>4, <2>5, <2>6, OrderKept
  <2>7. CASE c # 0 /\ d # 0 /\ GetsOne(c, d) /\ SessId' = SessId /\ storing' = storing
    BY <2>1, <2>2, <2>3, <2>4, <2>7, OrderGets
  <2>8. CASE conns' = conns /\ SessId' = SessId /\ storing' = storing
    BY <1>1, <1>2, <2>4, <2>5, <2>8, OrderKept
  <2>9. CASE c = 0 /\ d # 0 /\ MakesOne(i, d) /\ SessId' = SessId /\ storing' = Len(conns) + 1
    BY <2>1, <2>2, <2>3, <2>4, <2>9, OrderMakes, Zenon
  <2> QED
    BY <1>6, <2>1, <2>2, <2>3, <2>6, <2>7, <2>8, <2>9, UnmarshalCases
<1>7. CASE CCGpbSessionClose
  <2>1. UNCHANGED <<up, storing, sentTo>> /\ \A i \in Clients : SessId'[i] \in {SessId[i], 0}
    BY <1>7 DEF CCGpbSessionClose
  <2> QED
    BY <1>1, <1>7, <2>1, GpbCloseConns, NotShifted, OrderKept
<1>8. ASSUME NEW c \in DOMAIN conns, DialTarget(c)
      PROVE  TunnelInOrder' /\ GotsInOrder'
  <2>1. UNCHANGED <<up, storing, sentTo, SessId>>
    BY <1>8 DEF DialTarget
  <2> QED
    BY <1>1, <1>8, <2>1, DialConns, NotShifted, OrderKept
<1>9. ASSUME NEW c \in DOMAIN conns, TargetEnds(c)
      PROVE  TunnelInOrder' /\ GotsInOrder'
  <2>1. UNCHANGED <<up, storing, sentTo, SessId>>
    BY <1>9 DEF TargetEnds
  <2> QED
    BY <1>1, <1>9, <2>1, EndsConns, NotShifted, OrderKept
<1>10. ASSUME NEW c \in DOMAIN conns, Destroy(c)
       PROVE  TunnelInOrder' /\ GotsInOrder'
  <2>1. UNCHANGED <<up, storing, sentTo, SessId>>
    BY <1>10 DEF Destroy
  <2> QED
    BY <1>1, <1>10, <2>1, DestroyConns, NotShifted, OrderKept
<1>11. ASSUME NEW c \in DOMAIN conns, CCRawSessionClose(c)
       PROVE  TunnelInOrder' /\ GotsInOrder'
  <2>1. UNCHANGED <<up, storing, sentTo>> /\ SessId' = [SessId EXCEPT ![conns[c].id] = 0]
    BY <1>11 DEF CCRawSessionClose
  <2> QED
    BY <1>1, <1>11, <2>1, RawCloseConns, NotShifted, OrderKept
<1>12. ASSUME NEW c \in DOMAIN conns, CCRawUnmarshal(c)
       PROVE  TunnelInOrder' /\ GotsInOrder'
  <2>1. UNCHANGED <<up, storing, sentTo, SessId, conns>>
    BY <1>12 DEF CCRawUnmarshal
  <2> QED
    BY <1>2, <2>1, NotShifted, OrderKept
<1>13. CASE TunnelBreaks
  <2>1. UNCHANGED <<storing, sentTo, SessId, conns>> /\ up' = <<>>
    BY <1>13 DEF TunnelBreaks
  <2>2. Shifted(0)
    BY <2>1 DEF Shifted
  <2> QED
    BY <1>2, <2>1, <2>2, OrderKept
<1>14. CASE TunnelBack
  <2>1. UNCHANGED <<up, storing, sentTo, SessId, conns>>
    BY <1>14 DEF TunnelBack
  <2> QED
    BY <1>2, <2>1, NotShifted, OrderKept
<1> QED
  BY <1>3, <1>4, <1>5, <1>6, <1>7, <1>8, <1>9, <1>10, <1>11, <1>12, <1>13, <1>14, OrderSent, OrderStores
  DEF ProxyNext
-----------------------------------------------------------------------------
(* While nothing fails, nothing is missing. *)

Counts(g) == g = [k \in 1 .. Len(g) |-> k]

LEMMA CountsMore ==
  ASSUME NEW g \in Seq(Nat), Counts(g)
  PROVE  Counts(Append(g, Len(g) + 1))
<1>1. PICK h : h = Append(g, Len(g) + 1)
  BY Zenon
<1>2. h \in Seq(Nat) /\ Len(h) = Len(g) + 1 /\ DOMAIN h = 1 .. Len(g) + 1 /\ Len(g) \in Nat
  BY <1>1
<1>3. ASSUME NEW k \in 1 .. Len(h)
      PROVE  h[k] = k
  <2>1. CASE k = Len(g) + 1
    BY <1>1, <1>2, <2>1
  <2>2. CASE k \in 1 .. Len(g)
    <3>1. h[k] = g[k]
      BY <1>1, <2>2
    <3>2. g[k] = k
      BY <2>2 DEF Counts
    <3> QED
      BY <3>1, <3>2
  <2> QED
    BY <1>2, <1>3, <2>1, <2>2
<1>4. h = [k \in 1 .. Len(h) |-> k]
  BY <1>2, <1>3
<1> QED
  BY <1>1, <1>4 DEF Counts

LEMMA CountsOne == Counts(<<1>>) /\ Len(<<1>>) = 1
<1>1. Len(<<1>>) = 1 /\ DOMAIN <<1>> = 1 .. 1 /\ <<1>>[1] = 1
  OBVIOUS
<1>2. <<1>> = [k \in 1 .. 1 |-> k]
  BY <1>1
<1> QED
  BY <1>1, <1>2 DEF Counts

LEMMA CountsIs ==
  ASSUME NEW g \in Seq(Nat), Counts(g)
  PROVE  \A k \in 1 .. Len(g) : g[k] = k
BY DEF Counts

\* TunnelComplete and the second part of DeliveredInOrder, in parts.
DataFirst ==
  \A a \in DOMAIN up : up[a].data = 0 =>
    /\ client[up[a].id] # "open"
    /\ \A b \in DOMAIN up : a < b /\ up[b].id = up[a].id => up[b].data = 0

ConnsFound ==
  \A c \in DOMAIN conns :
    IF conns[c].kill
    THEN client[conns[c].id] # "open" /\ \A a \in DOMAIN up : up[a].id = conns[c].id => up[a].data = 0
    ELSE ~conns[c].closer /\ conns[c].evs = 0 /\ (SessId[conns[c].id] = c \/ storing = c)

NothingMissing ==
  \A i \in Clients : \A v \in 1 .. sentTo[i] :
    \/ \E a \in DOMAIN up : up[a] = Msg(i, v)
    \/ \E c \in DOMAIN conns : conns[c].id = i /\ v \in DOMAIN conns[c].got

OneEach ==
  /\ \A c \in DOMAIN conns : Counts(conns[c].got)
  /\ \A c, d \in DOMAIN conns : conns[c].id = conns[d].id => c = d

Complete == tunnel /\ lostEvs = 0 /\ DataFirst /\ ConnsFound /\ NothingMissing /\ OneEach

LEMMA CompleteKept ==
  ASSUME Complete, SameConns, up' = up, sentTo' = sentTo, tunnel' = tunnel, lostEvs' = lostEvs,
         \A a \in DOMAIN up : up[a].id \in Clients,
         \A c \in DOMAIN conns : conns[c].id \in Clients,
         \A i \in Clients : client'[i] = "open" => client[i] = "open",
         \A c \in DOMAIN conns : conns'[c].kill = conns[c].kill,
         \A c \in DOMAIN conns : ~conns[c].kill =>
           ~conns'[c].closer /\ conns'[c].evs = 0 /\ (SessId'[conns[c].id] = c \/ storing' = c)
  PROVE  Complete'
<1>1. /\ DOMAIN conns' = DOMAIN conns
      /\ \A d \in DOMAIN conns : conns'[d].id = conns[d].id /\ conns'[d].got = conns[d].got
  BY DEF SameConns
<1>2. DataFirst'
  BY ZenonT(40) DEF Complete, DataFirst
<1>3. ConnsFound'
  BY <1>1, ZenonT(40) DEF Complete, ConnsFound
<1>4. NothingMissing'
  <2>1. ASSUME NEW i \in Clients, NEW v \in 1 .. sentTo'[i], NEW c \in DOMAIN conns,
               conns[c].id = i, v \in DOMAIN conns[c].got
        PROVE  \E d \in DOMAIN conns' : conns'[d].id = i /\ v \in DOMAIN conns'[d].got
    <3>1. conns'[c].id = i /\ v \in DOMAIN conns'[c].got
      BY <1>1, <2>1, Zenon
    <3> QED
      BY <1>1, <3>1, Zenon
  <2>2. ASSUME NEW i \in Clients, NEW v \in 1 .. sentTo'[i]
        PROVE  \/ \E a \in DOMAIN up : up[a] = Msg(i, v)
               \/ \E c \in DOMAIN conns : conns[c].id = i /\ v \in DOMAIN conns[c].got
    BY <2>2, Zenon DEF Complete, NothingMissing
  <2> QED
    BY <2>1, <2>2 DEF NothingMissing
<1>5. OneEach'
  BY <1>1, Zenon DEF Complete, OneEach
<1> QED
  BY <1>2, <1>3, <1>4, <1>5 DEF Complete

\* An empty message of a client that is not open comes into the tunnel.
LEMMA CompleteZero ==
  ASSUME ProxyTypeOK, Complete, NEW i \in Clients, up' = Append(up, Msg(i, 0)), client'[i] # "open",
         \A j \in Clients : client'[j] = "open" => client[j] = "open",
         UNCHANGED <<sentTo, tunnel, lostEvs, conns, SessId, storing>>
  PROVE  Complete'
<1>1. PICK m \in Mesg : m = Msg(i, 0) /\ m.id = i /\ m.data = 0
  BY DEF Msg, Mesg
<1>2. up \in Seq(Mesg) /\ DOMAIN up = 1 .. Len(up) /\ Len(up) \in Nat
  BY TypeParts
<1>3. /\ DOMAIN up' = 1 .. Len(up) + 1 /\ up'[Len(up) + 1] = m
      /\ \A a \in DOMAIN up : a \in DOMAIN up' /\ up'[a] = up[a]
  BY <1>1, <1>2, AppendOf
<1>4. \A a \in DOMAIN up' : a \in DOMAIN up \/ (a = Len(up) + 1 /\ up'[a].id = i /\ up'[a].data = 0)
  BY <1>1, <1>2, <1>3
<1>5. \A a \in DOMAIN up : up[a].id \in Clients
  BY UpTypes
<1>6. \A c \in DOMAIN conns : conns[c].id \in Clients
  BY ConnTypes
<1>7. ASSUME NEW a \in DOMAIN up', up'[a].data = 0
      PROVE  /\ client'[up'[a].id] # "open"
             /\ \A b \in DOMAIN up' : a < b /\ up'[b].id = up'[a].id => up'[b].data = 0
  <2>1. CASE a \in DOMAIN up
    BY <1>3, <1>4, <1>5, <1>7, <2>1 DEF Complete, DataFirst
  <2>2. CASE a = Len(up) + 1 /\ up'[a].id = i
    BY <1>2, <1>3, <2>2
  <2> QED
    BY <1>4, <1>7, <2>1, <2>2
<1>8. ASSUME NEW c \in DOMAIN conns
      PROVE  IF conns[c].kill
             THEN client'[conns[c].id] # "open" /\ \A a \in DOMAIN up' : up'[a].id = conns[c].id => up'[a].data = 0
             ELSE ~conns[c].closer /\ conns[c].evs = 0 /\ (SessId[conns[c].id] = c \/ storing = c)
  <2>1. IF conns[c].kill
        THEN client[conns[c].id] # "open" /\ \A a \in DOMAIN up : up[a].id = conns[c].id => up[a].data = 0
        ELSE ~conns[c].closer /\ conns[c].evs = 0 /\ (SessId[conns[c].id] = c \/ storing = c)
    BY Zenon DEF Complete, ConnsFound
  <2>2. CASE conns[c].kill
    <3>1. \A a \in DOMAIN up' : up'[a].id = conns[c].id => up'[a].data = 0
      BY <1>3, <1>4, <2>1, <2>2
    <3> QED
      BY <1>6, <2>1, <2>2, <3>1, Zenon
  <2> QED
    BY <2>1, <2>2, Zenon
<1>9. NothingMissing'
  <2>1. ASSUME NEW j \in Clients, NEW v \in 1 .. sentTo'[j]
        PROVE  \/ \E a \in DOMAIN up : up[a] = Msg(j, v)
               \/ \E c \in DOMAIN conns : conns[c].id = j /\ v \in DOMAIN conns[c].got
    BY <2>1, Zenon DEF Complete, NothingMissing
  <2>2. \A j, v : (\E a \in DOMAIN up : up[a] = Msg(j, v)) => \E a \in DOMAIN up' : up'[a] = Msg(j, v)
    BY <1>3, Zenon
  <2> QED
    BY <2>1, <2>2 DEF NothingMissing
<1>10. DataFirst' /\ ConnsFound' /\ OneEach'
  BY <1>7, <1>8, Zenon DEF Complete, DataFirst, ConnsFound, OneEach
<1> QED
  BY <1>9, <1>10 DEF Complete

\* A message of an open client comes into the tunnel.
LEMMA CompleteSent ==
  ASSUME ProxyTypeOK, Complete, NEW i \in Clients, client[i] = "open",
         sentTo' = [sentTo EXCEPT ![i] = @ + 1], up' = Append(up, Msg(i, sentTo'[i])),
         UNCHANGED <<client, tunnel, lostEvs, conns, SessId, storing>>
  PROVE  Complete'
<1>1. sentTo \in [Clients -> Nat] /\ sentTo'[i] = sentTo[i] + 1 /\ sentTo[i] \in Nat
      /\ \A j \in Clients : j # i => sentTo'[j] = sentTo[j]
  BY TypeParts
<1>2. PICK m \in Mesg : m = Msg(i, sentTo'[i]) /\ m.id = i /\ m.data = sentTo[i] + 1
  BY <1>1 DEF Msg, Mesg
<1>3. up \in Seq(Mesg) /\ DOMAIN up = 1 .. Len(up) /\ Len(up) \in Nat
  BY TypeParts
<1>4. /\ DOMAIN up' = 1 .. Len(up) + 1 /\ up'[Len(up) + 1] = m
      /\ \A a \in DOMAIN up : a \in DOMAIN up' /\ up'[a] = up[a]
  BY <1>2, <1>3, AppendOf
<1>5. \A a \in DOMAIN up' : a \in DOMAIN up \/ (a = Len(up) + 1 /\ up'[a].id = i /\ up'[a].data # 0)
  BY <1>1, <1>2, <1>3, <1>4
<1>6. ASSUME NEW a \in DOMAIN up', up'[a].data = 0
      PROVE  /\ client'[up'[a].id] # "open"
             /\ \A b \in DOMAIN up' : a < b /\ up'[b].id = up'[a].id => up'[b].data = 0
  <2>1. a \in DOMAIN up /\ up'[a] = up[a]
    BY <1>4, <1>5, <1>6
  <2>2. client[up[a].id] # "open" /\ \A b \in DOMAIN up : a < b /\ up[b].id = up[a].id => up[b].data = 0
    BY <1>6, <2>1 DEF Complete, DataFirst
  <2> QED
    BY <1>4, <1>5, <2>1, <2>2
<1>7. ASSUME NEW c \in DOMAIN conns
      PROVE  IF conns[c].kill
             THEN client[conns[c].id] # "open" /\ \A a \in DOMAIN up' : up'[a].id = conns[c].id => up'[a].data = 0
             ELSE ~conns[c].closer /\ conns[c].evs = 0 /\ (SessId[conns[c].id] = c \/ storing = c)
  <2>1. IF conns[c].kill
        THEN client[conns[c].id] # "open" /\ \A a \in DOMAIN up : up[a].id = conns[c].id => up[a].data = 0
        ELSE ~conns[c].closer /\ conns[c].evs = 0 /\ (SessId[conns[c].id] = c \/ storing = c)
    BY Zenon DEF Complete, ConnsFound
  <2>2. CASE conns[c].kill
    <3>1. \A a \in DOMAIN up' : up'[a].id = conns[c].id => up'[a].data = 0
      BY <1>4, <1>5, <2>1, <2>2
    <3> QED
      BY <2>1, <2>2, <3>1, Zenon
  <2> QED
    BY <2>1, <2>2, Zenon
<1>8. NothingMissing'
  <2>1. ASSUME NEW j \in Clients, NEW v \in 1 .. sentTo'[j]
        PROVE  \/ \E a \in DOMAIN up' : up'[a] = Msg(j, v)
               \/ \E c \in DOMAIN conns : conns[c].id = j /\ v \in DOMAIN conns[c].got
    <3>1. CASE j = i /\ v = sentTo'[i]
      <4>1. Len(up) + 1 \in DOMAIN up' /\ up'[Len(up) + 1] = Msg(j, v)
        BY <1>2, <1>3, <1>4, <3>1
      <4> QED
        BY <4>1, Zenon
    <3>2. CASE v \in 1 .. sentTo[j]
      <4>1. \/ \E a \in DOMAIN up : up[a] = Msg(j, v)
            \/ \E c \in DOMAIN conns : conns[c].id = j /\ v \in DOMAIN conns[c].got
        BY <3>2, Zenon DEF Complete, NothingMissing
      <4> QED
        BY <1>4, <4>1, Zenon
    <3>3. v \in 1 .. sentTo[j] \/ (j = i /\ v = sentTo'[i])
      BY <1>1, <2>1
    <3> QED
      BY <3>1, <3>2, <3>3
  <2> QED
    BY <2>1 DEF NothingMissing
<1>9. DataFirst'
  BY <1>6, Zenon DEF DataFirst
<1>10. ConnsFound'
  BY <1>7 DEF ConnsFound
<1>11. OneEach'
  BY DEF Complete, OneEach
<1> QED
  BY <1>8, <1>9, <1>10, <1>11 DEF Complete

\* The first message leaves the tunnel.
LEMMA TailComplete ==
  ASSUME ProxyTypeOK, Complete, up # <<>>, up' = Tail(up), client' = client,
         NEW i, i = up[1].id, NEW d, d = up[1].data
  PROVE  /\ DataFirst'
         /\ \A a \in DOMAIN up' : \E b \in DOMAIN up : up'[a] = up[b]
         /\ \A a \in DOMAIN up : up[a] = up[1] \/ \E b \in DOMAIN up' : up'[b] = up[a]
         /\ d = 0 => client[i] # "open" /\ \A a \in DOMAIN up' : up'[a].id = i => up'[a].data = 0
         /\ d # 0 => \A c \in DOMAIN conns : conns[c].id = i => ~conns[c].kill
<1>1. up \in Seq(Mesg)
  BY TypeParts
<1>2. /\ 1 \in DOMAIN up /\ DOMAIN up' = 1 .. Len(up) - 1 /\ Len(up) \in Nat /\ DOMAIN up = 1 .. Len(up)
      /\ \A a \in DOMAIN up' : a + 1 \in DOMAIN up /\ up'[a] = up[a + 1]
  BY <1>1, TailOf
<1>3. ASSUME NEW a \in DOMAIN up', up'[a].data = 0
      PROVE  /\ client'[up'[a].id] # "open"
             /\ \A b \in DOMAIN up' : a < b /\ up'[b].id = up'[a].id => up'[b].data = 0
  <2>1. PICK p \in DOMAIN up : p = a + 1 /\ up'[a] = up[p]
    BY <1>2
  <2>2. client[up[p].id] # "open" /\ \A b \in DOMAIN up : p < b /\ up[b].id = up[p].id => up[b].data = 0
    BY <1>3, <2>1 DEF Complete, DataFirst
  <2>3. ASSUME NEW b \in DOMAIN up', a < b, up'[b].id = up'[a].id
        PROVE  up'[b].data = 0
    <3>1. PICK q \in DOMAIN up : p < q /\ up'[b] = up[q]
      BY <1>2, <2>1, <2>3
    <3> QED
      BY <2>1, <2>2, <2>3, <3>1
  <2> QED
    BY <2>1, <2>2, <2>3
<1>4. DataFirst'
  BY <1>3, Zenon DEF DataFirst
<1>5. ASSUME NEW a \in DOMAIN up
      PROVE  up[a] = up[1] \/ \E b \in DOMAIN up' : up'[b] = up[a]
  <2>1. CASE a # 1
    <3>1. a - 1 \in DOMAIN up' /\ up'[a - 1] = up[a]
      BY <1>2, <2>1
    <3> QED
      BY <3>1, Zenon
  <2> QED
    BY <2>1
<1>6. ASSUME d = 0
      PROVE  client[i] # "open" /\ \A a \in DOMAIN up' : up'[a].id = i => up'[a].data = 0
  <2>1. client[i] # "open" /\ \A b \in DOMAIN up : 1 < b /\ up[b].id = i => up[b].data = 0
    BY <1>2, <1>6, Zenon DEF Complete, DataFirst
  <2>2. \A a \in DOMAIN up' : \E b \in DOMAIN up : 1 < b /\ up'[a] = up[b]
    BY <1>2
  <2> QED
    BY <2>1, <2>2, Zenon
<1>7. ASSUME d # 0, NEW c \in DOMAIN conns, conns[c].id = i
      PROVE  ~conns[c].kill
  BY <1>2, <1>7, Zenon DEF Complete, ConnsFound
<1> QED
  BY <1>2, <1>4, <1>5, <1>6, <1>7, Zenon

\* The first message is empty: the connections of its client are closed.
LEMMA CompleteCloses ==
  ASSUME ProxyTypeOK, Complete, up # <<>>, up' = Tail(up),
         UNCHANGED <<client, sentTo, tunnel, lostEvs, storing>>,
         NEW i, i = up[1].id, up[1].data = 0, SameConns,
         \A e \in DOMAIN conns : conns[e].id # i => conns'[e] = conns[e],
         \A e \in DOMAIN conns : conns[e].id = i => conns'[e].kill,
         \A j \in Clients : j # i => SessId'[j] = SessId[j]
  PROVE  Complete'
<1>1. /\ DataFirst'
      /\ \A a \in DOMAIN up' : \E b \in DOMAIN up : up'[a] = up[b]
      /\ \A a \in DOMAIN up : up[a] = up[1] \/ \E b \in DOMAIN up' : up'[b] = up[a]
      /\ client[i] # "open" /\ \A a \in DOMAIN up' : up'[a].id = i => up'[a].data = 0
  BY TailComplete
<1>2. /\ DOMAIN conns' = DOMAIN conns
      /\ \A e \in DOMAIN conns : conns'[e].id = conns[e].id /\ conns'[e].got = conns[e].got /\ conns[e].id \in Clients
  BY ConnTypes DEF SameConns
<1>3. ASSUME NEW c \in DOMAIN conns
      PROVE  IF conns'[c].kill
             THEN client'[conns'[c].id] # "open" /\ \A a \in DOMAIN up' : up'[a].id = conns'[c].id => up'[a].data = 0
             ELSE ~conns'[c].closer /\ conns'[c].evs = 0 /\ (SessId'[conns'[c].id] = c \/ storing' = c)
  <2>1. CASE conns[c].id = i
    <3>1. conns'[c].kill /\ conns'[c].id = i /\ client' = client
      BY <1>2, <2>1
    <3>2. client'[conns'[c].id] # "open" /\ \A a \in DOMAIN up' : up'[a].id = conns'[c].id => up'[a].data = 0
      BY <1>1, <3>1
    <3> QED
      BY <3>1, <3>2, Zenon
  <2>2. CASE conns[c].id # i
    <3>1. conns'[c] = conns[c] /\ SessId'[conns[c].id] = SessId[conns[c].id]
      BY <1>2, <2>2
    <3>2. IF conns[c].kill
          THEN client[conns[c].id] # "open" /\ \A a \in DOMAIN up : up[a].id = conns[c].id => up[a].data = 0
          ELSE ~conns[c].closer /\ conns[c].evs = 0 /\ (SessId[conns[c].id] = c \/ storing = c)
      BY Zenon DEF Complete, ConnsFound
    <3>3. conns[c].kill => \A a \in DOMAIN up' : up'[a].id = conns[c].id => up'[a].data = 0
      BY <1>1, <3>2
    <3> QED
      BY <3>1, <3>2, <3>3, Zenon
  <2> QED
    BY <2>1, <2>2
<1>4. ConnsFound'
  BY <1>2, <1>3, Zenon DEF ConnsFound
<1>5. NothingMissing'
  <2>1. ASSUME NEW j \in Clients, NEW v \in 1 .. sentTo'[j]
        PROVE  \/ \E a \in DOMAIN up' : up'[a] = Msg(j, v)
               \/ \E c \in DOMAIN conns' : conns'[c].id = j /\ v \in DOMAIN conns'[c].got
    <3>1. CASE \E a \in DOMAIN up : up[a] = Msg(j, v)
      <4>1. v # 0 /\ Msg(j, v).data = v
        <5>1. sentTo[j] \in Nat
          BY TypeParts
        <5> QED
          BY <2>1, <5>1 DEF Msg
      <4> QED
        BY <1>1, <3>1, <4>1
    <3>2. CASE \E c \in DOMAIN conns : conns[c].id = j /\ v \in DOMAIN conns[c].got
      BY <1>2, <3>2
    <3>3. \/ \E a \in DOMAIN up : up[a] = Msg(j, v)
          \/ \E c \in DOMAIN conns : conns[c].id = j /\ v \in DOMAIN conns[c].got
      BY <2>1, Zenon DEF Complete, NothingMissing
    <3> QED
      BY <3>1, <3>2, <3>3
  <2> QED
    BY <2>1, Zenon DEF NothingMissing
<1>6. OneEach'
  BY <1>2, Zenon DEF Complete, OneEach
<1> QED
  BY <1>1, <1>4, <1>5, <1>6 DEF Complete

\* The number of a client's first message is the first one that no connection has got.
LEMMA NextNumber ==
  ASSUME ProxyTypeOK, TunnelInOrder, Complete, up # <<>>, up' = Tail(up), sentTo' = sentTo,
         NEW i, i = up[1].id, NEW d, d = up[1].data, d # 0, NEW n \in Nat,
         \A c \in DOMAIN conns : conns[c].id = i => n + 1 \notin DOMAIN conns[c].got,
         d > n
  PROVE  d = n + 1
<1>1. i \in Clients /\ d \in Nat /\ d <= sentTo[i] /\ sentTo[i] \in Nat
  BY FirstLeaves
<1>2. SUFFICES ASSUME d > n + 1
               PROVE  FALSE
  BY <1>1
<1>3. n + 1 \in 1 .. sentTo[i]
  BY <1>1, <1>2
<1>4. PICK a \in DOMAIN up : up[a] = Msg(i, n + 1)
  BY <1>1, <1>3, Zenon DEF Complete, NothingMissing
<1>5. up[a].id = i /\ up[a].data = n + 1
  BY <1>4 DEF Msg
<1>6. DOMAIN up = 1 .. Len(up) /\ Len(up) \in Nat /\ 1 \in DOMAIN up
  BY <1>4, UpTypes
<1>7. a # 1
  BY <1>1, <1>2, <1>5
<1>8. 1 < a
  BY <1>6, <1>7
<1>9. d < n + 1
  BY <1>5, <1>6, <1>8 DEF TunnelInOrder
<1> QED
  BY <1>1, <1>2, <1>9

\* The first message goes to the connection of its client, whose number it continues.
LEMMA CompleteGets ==
  ASSUME ProxyTypeOK, TunnelInOrder, Complete, up # <<>>, up' = Tail(up),
         UNCHANGED <<client, sentTo, tunnel, lostEvs, SessId, storing>>,
         NEW i, i = up[1].id, NEW d, d = up[1].data, d # 0, NEW c \in DOMAIN conns, conns[c].id = i, GetsOne(c, d)
  PROVE  Complete'
<1>1. /\ DataFirst'
      /\ \A a \in DOMAIN up' : \E b \in DOMAIN up : up'[a] = up[b]
      /\ \A a \in DOMAIN up : up[a] = up[1] \/ \E b \in DOMAIN up' : up'[b] = up[a]
      /\ \A e \in DOMAIN conns : conns[e].id = i => ~conns[e].kill
  BY TailComplete
<1>2. /\ client' = client /\ sentTo' = sentTo /\ tunnel' = tunnel /\ lostEvs' = lostEvs
      /\ SessId' = SessId /\ storing' = storing
  OBVIOUS
<1>3. /\ DOMAIN conns' = DOMAIN conns /\ conns'[c].got = Append(conns[c].got, d)
      /\ \A e \in DOMAIN conns :
           /\ conns'[e].id = conns[e].id /\ conns'[e].kill = conns[e].kill
           /\ conns'[e].closer = conns[e].closer /\ conns'[e].evs = conns[e].evs
           /\ e # c => conns'[e].got = conns[e].got
  BY DEF GetsOne
<1>4. PICK g \in Seq(Nat) : g = conns[c].got
  BY ConnTypes
<1>5. Counts(g) /\ \A e \in DOMAIN conns : conns[e].id = i => e = c
  BY <1>4 DEF Complete, OneEach
<1>6. Len(g) \in Nat /\ DOMAIN g = 1 .. Len(g) /\ i \in Clients /\ d \in Nat
  BY <1>2, <1>4, FirstLeaves
<1>7. d > Len(g)
  <2>1. CASE Len(g) = 0
    BY <1>6, <2>1
  <2>2. CASE Len(g) # 0
    <3>1. Len(g) \in DOMAIN conns[c].got /\ conns[c].got[Len(g)] = Len(g)
      BY <1>4, <1>5, <1>6, <2>2, CountsIs, SMTT(60)
    <3>2. conns[c].got[Len(g)] < d
      BY <1>2, <3>1, FirstLeaves
    <3> QED
      BY <1>6, <3>1, <3>2
  <2> QED
    BY <2>1, <2>2
<1>8. d = Len(g) + 1
  <2>1. \A e \in DOMAIN conns : conns[e].id = i => Len(g) + 1 \notin DOMAIN conns[e].got
    BY <1>4, <1>5, <1>6
  <2> QED
    BY <1>2, <1>6, <1>7, <2>1, NextNumber
<1>9. /\ conns'[c].got = Append(g, Len(g) + 1) /\ Counts(conns'[c].got)
      /\ DOMAIN conns'[c].got = 1 .. Len(g) + 1
  BY <1>3, <1>4, <1>5, <1>6, <1>8, CountsMore, AppendOf, SMTT(60)
<1>10. OneEach'
  <2>1. \A e \in DOMAIN conns : Counts(conns'[e].got)
    <3>1. \A e \in DOMAIN conns : e # c => Counts(conns'[e].got)
      BY <1>3, Zenon DEF Complete, OneEach
    <3> QED
      BY <1>9, <3>1, Zenon
  <2> QED
    BY <1>3, <2>1, Zenon DEF Complete, OneEach
<1>11. ASSUME NEW e \in DOMAIN conns
       PROVE  IF conns'[e].kill
              THEN client'[conns'[e].id] # "open" /\ \A a \in DOMAIN up' : up'[a].id = conns'[e].id => up'[a].data = 0
              ELSE ~conns'[e].closer /\ conns'[e].evs = 0 /\ (SessId'[conns'[e].id] = e \/ storing' = e)
  <2>1. IF conns[e].kill
        THEN client[conns[e].id] # "open" /\ \A a \in DOMAIN up : up[a].id = conns[e].id => up[a].data = 0
        ELSE ~conns[e].closer /\ conns[e].evs = 0 /\ (SessId[conns[e].id] = e \/ storing = e)
    BY Zenon DEF Complete, ConnsFound
  <2>2. conns[e].kill => \A a \in DOMAIN up' : up'[a].id = conns[e].id => up'[a].data = 0
    BY <1>1, <2>1
  <2> QED
    BY <1>2, <1>3, <2>1, <2>2, ZenonT(30)
<1>12. ConnsFound'
  BY <1>3, <1>11, Zenon DEF ConnsFound
<1>13. ASSUME NEW j \in Clients, NEW v \in 1 .. sentTo[j]
       PROVE  \/ \E a \in DOMAIN up' : up'[a] = Msg(j, v)
              \/ \E e \in DOMAIN conns' : conns'[e].id = j /\ v \in DOMAIN conns'[e].got
  <2>1. CASE up[1] = Msg(j, v)
    <3>1. j = i /\ v = d
      BY <2>1 DEF Msg
    <3>2. conns'[c].id = j /\ v \in DOMAIN conns'[c].got
      BY <1>3, <1>6, <1>8, <1>9, <3>1, SMTT(60)
    <3> QED
      BY <1>3, <3>2, Zenon
  <2>2. CASE up[1] # Msg(j, v) /\ \E a \in DOMAIN up : up[a] = Msg(j, v)
    BY <1>1, <2>2
  <2>3. ASSUME NEW e \in DOMAIN conns, conns[e].id = j, v \in DOMAIN conns[e].got
        PROVE  conns'[e].id = j /\ v \in DOMAIN conns'[e].got
    <3>1. CASE e = c
      BY <1>3, <1>4, <1>6, <1>9, <2>3, <3>1, SMTT(60)
    <3>2. CASE e # c
      BY <1>3, <2>3, <3>2, Zenon
    <3> QED
      BY <3>1, <3>2
  <2>4. \/ \E a \in DOMAIN up : up[a] = Msg(j, v)
        \/ \E e \in DOMAIN conns : conns[e].id = j /\ v \in DOMAIN conns[e].got
    BY <1>13, Zenon DEF Complete, NothingMissing
  <2>5. CASE \E e \in DOMAIN conns : conns[e].id = j /\ v \in DOMAIN conns[e].got
    BY <1>3, <2>3, <2>5, Zenon
  <2> QED
    BY <2>1, <2>2, <2>4, <2>5, Zenon
<1>14. NothingMissing'
  BY <1>2, <1>13, Zenon DEF NothingMissing
<1> QED
  BY <1>1, <1>2, <1>10, <1>12, <1>14 DEF Complete

\* The first message of a client makes its connection.
LEMMA CompleteMakes ==
  ASSUME ProxyTypeOK, TunnelInOrder, Complete, up # <<>>, up' = Tail(up),
         UNCHANGED <<client, sentTo, tunnel, lostEvs, SessId>>, storing = 0, storing' = Len(conns) + 1,
         NEW i, i = up[1].id, NEW d, d = up[1].data, d # 0, SessId[i] = 0, MakesOne(i, d)
  PROVE  Complete'
<1>1. /\ DataFirst'
      /\ \A a \in DOMAIN up' : \E b \in DOMAIN up : up'[a] = up[b]
      /\ \A a \in DOMAIN up : up[a] = up[1] \/ \E b \in DOMAIN up' : up'[b] = up[a]
      /\ \A e \in DOMAIN conns : conns[e].id = i => ~conns[e].kill
  BY TailComplete
<1>2. client' = client /\ sentTo' = sentTo /\ tunnel' = tunnel /\ lostEvs' = lostEvs /\ SessId' = SessId
  OBVIOUS
<1>3. PICK n : n = Len(conns) + 1
  OBVIOUS
<1>4. DOMAIN conns = 1 .. n - 1 /\ n \in Nat /\ n > 0
  <2>1. conns \in Seq(Conn)
    BY TypeParts
  <2> QED
    BY <1>3, <2>1
<1>5. /\ DOMAIN conns' = 1 .. n /\ storing' = n
      /\ \A e \in DOMAIN conns : conns'[e] = conns[e]
      /\ conns'[n].id = i /\ conns'[n].got = <<d>>
      /\ ~conns'[n].kill /\ ~conns'[n].closer /\ conns'[n].evs = 0
  BY <1>3 DEF MakesOne
<1>6. n \in DOMAIN conns' /\ \A e \in DOMAIN conns' : e \in DOMAIN conns \/ e = n
  BY <1>4, <1>5
<1>7. \A e \in DOMAIN conns : conns[e].id # i
  <2>1. SUFFICES ASSUME NEW e \in DOMAIN conns, conns[e].id = i
                 PROVE  FALSE
    BY Zenon
  <2>2. SessId[conns[e].id] = e \/ storing = e
    BY <1>1, <2>1, Zenon DEF Complete, ConnsFound
  <2> QED
    BY <1>4, <2>1, <2>2
<1>8. d = 1
  <2>1. d \in Nat /\ d > 0
    BY <1>2, FirstLeaves
  <2>2. d = 0 + 1
    BY <1>2, <1>7, <2>1, NextNumber
  <2> QED
    BY <2>2
<1>9. Counts(conns'[n].got) /\ 1 \in DOMAIN conns'[n].got
  BY <1>5, <1>8, CountsOne
<1>10. OneEach'
  <2>1. \A e \in DOMAIN conns' : Counts(conns'[e].got)
    BY <1>5, <1>6, <1>9, Zenon DEF Complete, OneEach
  <2>2. ASSUME NEW e \in DOMAIN conns', NEW f \in DOMAIN conns', conns'[e].id = conns'[f].id
        PROVE  e = f
    BY <1>5, <1>6, <1>7, <2>2 DEF Complete, OneEach
  <2> QED
    BY <2>1, <2>2, Zenon DEF OneEach
<1>11. ASSUME NEW e \in DOMAIN conns'
       PROVE  IF conns'[e].kill
              THEN client'[conns'[e].id] # "open" /\ \A a \in DOMAIN up' : up'[a].id = conns'[e].id => up'[a].data = 0
              ELSE ~conns'[e].closer /\ conns'[e].evs = 0 /\ (SessId'[conns'[e].id] = e \/ storing' = e)
  <2>1. CASE e = n
    BY <1>5, <2>1, Zenon
  <2>2. CASE e \in DOMAIN conns
    <3>1. IF conns[e].kill
          THEN client[conns[e].id] # "open" /\ \A a \in DOMAIN up : up[a].id = conns[e].id => up[a].data = 0
          ELSE ~conns[e].closer /\ conns[e].evs = 0 /\ (SessId[conns[e].id] = e \/ storing = e)
      BY <2>2, Zenon DEF Complete, ConnsFound
    <3>2. conns[e].kill => \A a \in DOMAIN up' : up'[a].id = conns[e].id => up'[a].data = 0
      BY <1>1, <3>1, SMTT(60)
    <3>3. storing # e
      BY <1>4, <2>2
    <3> QED
      BY <1>2, <1>5, <2>2, <3>1, <3>2, <3>3, Zenon
  <2> QED
    BY <1>6, <2>1, <2>2
<1>12. ConnsFound'
  BY <1>11, Zenon DEF ConnsFound
<1>13. ASSUME NEW j \in Clients, NEW v \in 1 .. sentTo[j]
       PROVE  \/ \E a \in DOMAIN up' : up'[a] = Msg(j, v)
              \/ \E e \in DOMAIN conns' : conns'[e].id = j /\ v \in DOMAIN conns'[e].got
  <2>1. CASE up[1] = Msg(j, v)
    <3>1. j = i /\ v = d
      BY <2>1 DEF Msg
    <3> QED
      BY <1>5, <1>6, <1>8, <1>9, <3>1, Zenon
  <2>2. CASE up[1] # Msg(j, v) /\ \E a \in DOMAIN up : up[a] = Msg(j, v)
    BY <1>1, <2>2
  <2>3. CASE \E e \in DOMAIN conns : conns[e].id = j /\ v \in DOMAIN conns[e].got
    <3>1. \A e \in DOMAIN conns : e \in DOMAIN conns'
      BY <1>4, <1>5
    <3> QED
      BY <1>5, <2>3, <3>1, Zenon
  <2>4. \/ \E a \in DOMAIN up : up[a] = Msg(j, v)
        \/ \E e \in DOMAIN conns : conns[e].id = j /\ v \in DOMAIN conns[e].got
    BY <1>13, Zenon DEF Complete, NothingMissing
  <2> QED
    BY <2>1, <2>2, <2>3, <2>4, Zenon
<1>14. NothingMissing'
  BY <1>2, <1>13, Zenon DEF NothingMissing
<1> QED
  BY <1>1, <1>2, <1>10, <1>12, <1>14 DEF Complete

\* A step after which nothing has failed.
LEMMA CompleteNext ==
  ASSUME ProxyTypeOK, ProxyTypeOK', TunnelInOrder, Complete, ProxyNext, drops = 0, drops' = 0, ends' = 0, breaks' = 0
  PROVE  Complete'
<1>1. /\ conns \in Seq(Conn) /\ SessId \in [Clients -> Nat] /\ storing \in Nat
      /\ client \in [Clients -> {"open", "closing", "closed"}]
      /\ ends \in Nat /\ breaks \in Nat
  BY TypeParts
<1>2. /\ \A a \in DOMAIN up : up[a].id \in Clients
      /\ \A c \in DOMAIN conns : conns[c].id \in Clients /\ c \in Nat /\ c # 0
  BY <1>1, UpTypes, ConnTypes
<1>3. /\ tunnel /\ lostEvs = 0
      /\ \A c, d \in DOMAIN conns : conns[c].id = conns[d].id => c = d
      /\ \A c \in DOMAIN conns : ~conns[c].kill =>
           ~conns[c].closer /\ conns[c].evs = 0 /\ (SessId[conns[c].id] = c \/ storing = c)
  BY Zenon DEF Complete, ConnsFound, OneEach
<1>4. conns' = conns => SameConns
  BY <1>1 DEF SameConns
<1>5. ASSUME NEW m, SendUp(up, m)
      PROVE  up' = Append(up, m)
  BY <1>3, <1>5 DEF SendUp
<1>6. ASSUME NEW i \in Clients, LLRawUnmarshal(i)
      PROVE  Complete'
  BY <1>5, <1>6, CompleteSent, Zenon DEF LLRawUnmarshal
<1>7. ASSUME NEW i \in Clients, ClientGoes(i)
      PROVE  Complete'
  <2>1. /\ UNCHANGED <<conns, up, sentTo, tunnel, lostEvs, SessId, storing>>
        /\ client' = [client EXCEPT ![i] = "closing"]
    BY <1>7 DEF ClientGoes
  <2>2. \A j \in Clients : client'[j] = "open" => client[j] = "open"
    BY <1>1, <2>1
  <2> QED
    BY <1>2, <1>3, <1>4, <2>1, <2>2, CompleteKept
<1>8. ASSUME NEW i \in Clients, LLRawSessionClose(i)
      PROVE  Complete'
  <2>1. /\ UNCHANGED <<conns, sentTo, tunnel, lostEvs, SessId, storing>>
        /\ client' = [client EXCEPT ![i] = "closed"] /\ SendUp(up, Msg(i, 0))
    BY <1>8 DEF LLRawSessionClose
  <2>2. client'[i] # "open" /\ \A j \in Clients : client'[j] = "open" => client[j] = "open"
    BY <1>1, <2>1
  <2> QED
    BY <1>5, <2>1, <2>2, CompleteZero
<1>9. CASE LLGpbUnmarshal
  <2>1. PICK i \in Clients : i = Head(down).id
    <3>1. down \in Seq(Mesg) /\ down # <<>>
      BY <1>9, TypeParts DEF LLGpbUnmarshal
    <3>2. Head(down) \in Mesg
      BY <3>1, TailOf
    <3> QED
      BY <3>2 DEF Mesg
  <2>2. UNCHANGED <<conns, sentTo, tunnel, lostEvs, SessId, storing>>
    BY <1>9 DEF LLGpbUnmarshal
  <2>3. \/ up' = up /\ (client' = client \/ client' = [client EXCEPT ![i] = "closing"])
        \/ client[i] # "open" /\ client' = client /\ SendUp(up, Msg(i, 0))
    BY <1>9, <2>1, Zenon DEF LLGpbUnmarshal
  <2>4. CASE up' = up /\ (client' = client \/ client' = [client EXCEPT ![i] = "closing"])
    <3>1. \A j \in Clients : client'[j] = "open" => client[j] = "open"
      BY <1>1, <2>4
    <3> QED
      BY <1>2, <1>3, <1>4, <2>2, <2>4, <3>1, CompleteKept
  <2>5. CASE client[i] # "open" /\ client' = client /\ SendUp(up, Msg(i, 0))
    BY <1>5, <2>2, <2>5, CompleteZero
  <2> QED
    BY <2>3, <2>4, <2>5
<1>10. CASE CCGpbUnmarshal
  <2>1. PICK i : i = up[1].id
    OBVIOUS
  <2>2. PICK d : d = up[1].data
    OBVIOUS
  <2>3. PICK c : c = SessId[i]
    OBVIOUS
  <2>4. /\ up # <<>> /\ storing = 0 /\ up' = Tail(up) /\ i \in Clients /\ c \in Nat
        /\ c # 0 => c \in DOMAIN conns /\ conns[c].id = i
    <3>1. /\ up # <<>> /\ storing = 0 /\ up' = Tail(up) /\ i \in Clients /\ c \in Nat
      BY <1>10, <2>1, <2>2, <2>3, UnmarshalCases
    <3> QED
      BY <2>3, <3>1 DEF TunnelInOrder
  <2>5. UNCHANGED <<client, sentTo, tunnel, lostEvs>>
    BY <1>10 DEF CCGpbUnmarshal
  <2>6. CASE /\ c # 0 /\ d = 0 /\ SameConns /\ conns'[c].kill /\ storing' = storing
             /\ (\A e \in DOMAIN conns : e # c => conns'[e] = conns[e])
             /\ SessId' = [SessId EXCEPT ![i] = 0]
    <3>1. /\ \A e \in DOMAIN conns : conns[e].id # i => conns'[e] = conns[e]
          /\ \A e \in DOMAIN conns : conns[e].id = i => conns'[e].kill
      BY <1>3, <2>4, <2>6
    <3>2. \A j \in Clients : j # i => SessId'[j] = SessId[j]
      BY <1>1, <2>6
    <3> QED
      BY <2>1, <2>2, <2>4, <2>5, <2>6, <3>1, <3>2, CompleteCloses
  <2>7. CASE c # 0 /\ d # 0 /\ GetsOne(c, d) /\ SessId' = SessId /\ storing' = storing
    BY <2>1, <2>2, <2>4, <2>5, <2>7, CompleteGets
  <2>8. CASE c # 0 /\ d # 0 /\ conns[c].closer
    <3>1. ~conns[c].kill
      BY <2>1, <2>2, <2>4, <2>5, <2>8, TailComplete
    <3> QED
      BY <1>3, <2>4, <2>8, <3>1
  <2>9. CASE c = 0 /\ d # 0 /\ MakesOne(i, d) /\ SessId' = SessId /\ storing' = Len(conns) + 1
    BY <2>1, <2>2, <2>3, <2>4, <2>5, <2>9, CompleteMakes, Zenon
  <2>10. CASE c = 0 /\ d = 0 /\ conns' = conns /\ SessId' = SessId /\ storing' = storing
    <3>1. \A e \in DOMAIN conns : conns[e].id = i => conns'[e].kill
      BY <1>2, <1>3, <2>3, <2>4, <2>10, Zenon
    <3> QED
      BY <1>4, <2>1, <2>2, <2>4, <2>5, <2>10, <3>1, CompleteCloses
  <2> QED
    BY <1>10, <2>1, <2>2, <2>3, <2>6, <2>7, <2>8, <2>9, <2>10, UnmarshalCases, SMTT(60)
<1>11. CASE SessIdStore
  <2>1. /\ UNCHANGED <<client, sentTo, tunnel, up, conns, lostEvs>> /\ storing # 0
        /\ SessId' = [SessId EXCEPT ![conns[storing].id] = storing]
    BY <1>11 DEF SessIdStore
  <2>2. storing \in DOMAIN conns
    BY <1>1, <2>1, SMTT(60) DEF TunnelInOrder
  <2>3. \A c \in DOMAIN conns : SessId[conns[c].id] = c \/ storing = c => SessId'[conns[c].id] = c
    BY <1>1, <1>2, <1>3, <2>1, <2>2
  <2> QED
    BY <1>2, <1>3, <1>4, <2>1, <2>3, CompleteKept
<1>12. CASE CCGpbSessionClose
  BY <1>3, <1>12 DEF CCGpbSessionClose
<1>13. ASSUME NEW c \in DOMAIN conns, DialTarget(c)
       PROVE  Complete'
  <2>1. UNCHANGED <<client, sentTo, tunnel, up, lostEvs, SessId, storing>>
    BY <1>13 DEF DialTarget
  <2>2. /\ SameConns
        /\ \A d \in DOMAIN conns : /\ conns'[d].kill = conns[d].kill /\ conns'[d].evs = conns[d].evs
                                   /\ ~conns[d].closer => ~conns'[d].closer
    BY <1>1, <1>13, DialConns
  <2>3. \A d \in DOMAIN conns : ~conns[d].kill =>
          ~conns'[d].closer /\ conns'[d].evs = 0 /\ (SessId'[conns[d].id] = d \/ storing' = d)
    <3>1. SessId' = SessId /\ storing' = storing
      BY <2>1
    <3> QED
      BY <1>3, <2>2, <3>1, Zenon
  <2>4. \A d \in DOMAIN conns : conns'[d].kill = conns[d].kill
    BY <2>2, Zenon
  <2>5. SameConns
    BY <2>2, Zenon
  <2> QED
    BY <1>2, <2>1, <2>3, <2>4, <2>5, CompleteKept
<1>14. ASSUME NEW c \in DOMAIN conns, Destroy(c)
       PROVE  Complete'
  <2>1. UNCHANGED <<client, sentTo, tunnel, up, lostEvs, SessId, storing>>
    BY <1>14 DEF Destroy
  <2>2. /\ SameConns /\ conns[c].kill
        /\ \A d \in DOMAIN conns : conns'[d].kill = conns[d].kill /\ (d # c => conns'[d] = conns[d])
    BY <1>1, <1>14, DestroyConns
  <2>3. \A d \in DOMAIN conns : ~conns[d].kill =>
          ~conns'[d].closer /\ conns'[d].evs = 0 /\ (SessId'[conns[d].id] = d \/ storing' = d)
    BY <1>3, <2>1, <2>2
  <2> QED
    BY <1>2, <2>1, <2>2, <2>3, CompleteKept
<1>15. ASSUME NEW c \in DOMAIN conns, CCRawSessionClose(c)
       PROVE  Complete'
  <2>1. /\ UNCHANGED <<client, sentTo, tunnel, up, lostEvs, storing>> /\ conns[c].evs > 0
        /\ SessId' = [SessId EXCEPT ![conns[c].id] = 0]
    BY <1>15 DEF CCRawSessionClose
  <2>2. conns[c].kill
    BY <1>3, <2>1, SMTT(60)
  <2>3. \A d \in DOMAIN conns : ~conns[d].kill => d # c /\ SessId'[conns[d].id] = SessId[conns[d].id]
    BY <1>1, <1>2, <1>3, <2>1, <2>2
  <2>4. /\ SameConns
        /\ \A d \in DOMAIN conns : conns'[d].kill = conns[d].kill /\ (d # c => conns'[d] = conns[d])
    BY <1>1, <1>15, RawCloseConns
  <2>5. \A d \in DOMAIN conns : ~conns[d].kill =>
          ~conns'[d].closer /\ conns'[d].evs = 0 /\ (SessId'[conns[d].id] = d \/ storing' = d)
    BY <1>3, <2>1, <2>3, <2>4
  <2> QED
    BY <1>2, <2>1, <2>4, <2>5, CompleteKept
<1>16. ASSUME NEW c \in DOMAIN conns, CCRawUnmarshal(c)
       PROVE  Complete'
  <2>1. UNCHANGED <<client, sentTo, tunnel, up, lostEvs, SessId, storing, conns>>
    BY <1>16 DEF CCRawUnmarshal
  <2> QED
    BY <1>2, <1>3, <1>4, <2>1, CompleteKept
<1>17. ~TunnelBreaks /\ ~TunnelBack /\ \A c \in DOMAIN conns : ~TargetEnds(c)
  <2>1. ~TunnelBreaks
    BY <1>1 DEF TunnelBreaks
  <2>2. ~TunnelBack
    BY <1>3 DEF TunnelBack
  <2>3. \A c \in DOMAIN conns : ~TargetEnds(c)
    <3>1. ends' # ends + 1
      BY <1>1
    <3> QED
      BY <3>1, Zenon DEF TargetEnds
  <2> QED
    BY <2>1, <2>2, <2>3
<1> QED
  BY <1>6, <1>7, <1>8, <1>9, <1>10, <1>11, <1>12, <1>13, <1>14, <1>15, <1>16, <1>17 DEF ProxyNext
-----------------------------------------------------------------------------
ProxyInv ==
  /\ ProxyTypeOK /\ TunnelInOrder /\ GotsInOrder
  /\ ends + breaks + drops = 0 => Complete

LEMMA CountsGrow ==
  ASSUME ProxyNext, ends \in Nat, breaks \in Nat, drops \in Nat
  PROVE  ends <= ends' /\ breaks <= breaks' /\ drops <= drops'
<1>1. /\ ends' = ends \/ ends' = ends + 1
      /\ breaks' = breaks \/ breaks' = breaks + 1
      /\ drops' = drops \/ drops' = drops + 1
  BY Zenon DEF ProxyNext, LLRawUnmarshal, ClientGoes, LLRawSessionClose, LLGpbUnmarshal, CCGpbUnmarshal,
       SessIdStore, CCGpbSessionClose, DialTarget, TargetEnds, Destroy, CCRawSessionClose, CCRawUnmarshal,
       TunnelBreaks, TunnelBack, SendUp, SendDown, proxyCounts
<1> QED
  BY <1>1

LEMMA InvIsInv == ProxyInv <=> ProxyTypeOK /\ TunnelInOrder /\ TunnelComplete /\ DeliveredInOrder
BY Zenon DEF ProxyInv, GotsInOrder, Complete, DataFirst, ConnsFound, NothingMissing, OneEach, Counts,
             TunnelComplete, DeliveredInOrder

\* Whatever breaks, no target gets a message twice, out of order or of another client; and while nothing
\* failed, all messages of a client go to one connection, without a gap.  TunnelInOrder and TunnelComplete
\* make it inductive (Unmarshal and SessionClose of the four proxy services, imp.go).
THEOREM DeliveredInOrderHolds == ProxySpec => []DeliveredInOrder
<1>1. ProxyInit => ProxyInv
  <2>1. SUFFICES ASSUME ProxyInit
                 PROVE  ProxyInv
    OBVIOUS
  <2>2. ProxyTypeOK
    BY <2>1, ProxyTypeInit
  <2>3. DOMAIN up = {} /\ DOMAIN conns = {} /\ tunnel /\ lostEvs = 0 /\ storing = 0
    BY <2>1 DEF ProxyInit
  <2>4. \A i \in Clients : SessId[i] = 0 /\ sentTo[i] = 0
    BY <2>1 DEF ProxyInit
  <2>5. TunnelInOrder /\ GotsInOrder
    BY <2>3, <2>4 DEF TunnelInOrder, GotsInOrder
  <2>6. Complete
    BY <2>3, <2>4, SMTT(60) DEF Complete, DataFirst, ConnsFound, NothingMissing, OneEach
  <2> QED
    BY <2>2, <2>5, <2>6 DEF ProxyInv
<1>2. ProxyInv /\ [ProxyNext]_proxyVars => ProxyInv'
  <2>1. SUFFICES ASSUME ProxyInv, [ProxyNext]_proxyVars
                 PROVE  ProxyInv'
    OBVIOUS
  <2>2. CASE ProxyNext
    <3>1. ProxyTypeOK'
      BY <2>1, <2>2, ProxyTypeNext DEF ProxyInv
    <3>2. TunnelInOrder' /\ GotsInOrder'
      BY <2>1, <2>2, <3>1, OrderNext DEF ProxyInv
    <3>3. ASSUME ends' + breaks' + drops' = 0
          PROVE  Complete'
      <4>1. /\ ends \in Nat /\ breaks \in Nat /\ drops \in Nat
            /\ ends' \in Nat /\ breaks' \in Nat /\ drops' \in Nat
        BY <2>1, <3>1 DEF ProxyInv, ProxyTypeOK
      <4>2. ends <= ends' /\ breaks <= breaks' /\ drops <= drops'
        BY <2>2, <4>1, CountsGrow
      <4>3. ends = 0 /\ breaks = 0 /\ drops = 0 /\ ends' = 0 /\ breaks' = 0 /\ drops' = 0
        <5>1. ends' = 0 /\ breaks' = 0 /\ drops' = 0
          <6>1. \A x, y, z \in Nat : x + y + z = 0 => x = 0 /\ y = 0 /\ z = 0
            OBVIOUS
          <6> QED
            BY <3>3, <4>1, <6>1, Zenon
        <5> QED
          BY <4>1, <4>2, <5>1
      <4>4. Complete
        BY <2>1, <4>3 DEF ProxyInv
      <4> QED
        BY <2>1, <2>2, <3>1, <4>3, <4>4, CompleteNext DEF ProxyInv
    <3> QED
      BY <3>1, <3>2, <3>3 DEF ProxyInv
  <2>3. CASE UNCHANGED proxyVars
    <3>1. UNCHANGED <<client, sentTo, tunnel, up, down, conns, SessId, storing, lostEvs, replies, ends, breaks, drops>>
      BY <2>3 DEF proxyVars, proxyCounts
    <3>2. ProxyTypeOK'
      BY <2>1, <3>1 DEF ProxyInv, ProxyTypeOK
    <3>3. TunnelInOrder' /\ GotsInOrder'
      <4>1. TunnelInOrder => TunnelInOrder'
        BY <3>1 DEF TunnelInOrder
      <4>2. GotsInOrder => GotsInOrder'
        BY <3>1, SMTT(60) DEF GotsInOrder
      <4> QED
        BY <2>1, <4>1, <4>2 DEF ProxyInv
    <3>4. Complete => Complete'
      <4>1. DataFirst => DataFirst'
        BY <3>1 DEF DataFirst
      <4>2. ConnsFound => ConnsFound'
        BY <3>1 DEF ConnsFound
      <4>3. NothingMissing => NothingMissing'
        BY <3>1 DEF NothingMissing
      <4>4. OneEach => OneEach'
        BY <3>1 DEF OneEach
      <4> QED
        BY <3>1, <4>1, <4>2, <4>3, <4>4 DEF Complete
    <3> QED
      BY <2>1, <3>1, <3>2, <3>3, <3>4 DEF ProxyInv
  <2> QED
    BY <2>1, <2>2, <2>3
<1>3. ProxyInv => DeliveredInOrder
  BY InvIsInv, Zenon
<1> QED
  BY <1>1, <1>2, <1>3, PTL DEF ProxySpec
==============================================================================
