------------------------------- MODULE Session -------------------------------
(***************************************************************************)
(* One stnet Session (stnet/session.go) over the connections it lives      *)
(* through.  restart() starts an incarnation: three goroutines, dosend,    *)
(* dohand and dorecv, that share the fields of the Session.  dorecv reads  *)
(* the socket into the channel hander, dohand cuts what it takes from      *)
(* there into messages, dosend writes what Send put into the channel       *)
(* writer.  The end of dorecv closes the session and, in its onclose       *)
(* callback, tells the Connector, which alone calls restart again.         *)
(*                                                                         *)
(* Received data are numbered units <<connection, position>>; a message is *)
(* MsgUnits of them.  Sent messages are numbered and leave in MsgParts     *)
(* parts, as a short Write may cut them.                                   *)
(***************************************************************************)
EXTENDS Integers, Sequences

CONSTANTS
  WriterListLen,  \* capacity of writer
  RecvListLen,    \* capacity of hander
  MaxMsgSize,     \* longest incomplete message kept, in units
  MsgUnits,       \* units of one received message
  MsgParts,       \* parts of one sent message
  Rejects,        \* may ParseMsg return a negative length?
  Panics,         \* may ParseMsg panic?
  EmptyReads,     \* may a datagram without data arrive?
  MaxInc,         \* bound: incarnations
  MaxUnits,       \* bound: units received on one connection
  MaxRead,        \* bound: units one Read returns
  MaxSend         \* bound: calls of Send

ASSUME SessionAssumption ==
  /\ Rejects \in BOOLEAN /\ Panics \in BOOLEAN /\ EmptyReads \in BOOLEAN
  /\ WriterListLen \in Nat \ {0} /\ RecvListLen \in Nat \ {0}
  /\ MaxMsgSize \in Nat /\ MsgUnits \in Nat \ {0} /\ MsgParts \in Nat \ {0}
  /\ MaxInc \in Nat \ {0} /\ MaxUnits \in Nat /\ MaxRead \in Nat \ {0}
  /\ MaxSend \in Nat

Incs == 1 .. MaxInc

VARIABLES
  isUdp,     \* Session.isUdp
  inc,       \* incarnations started; inc is also the connection s.socket is
  isclose,   \* Session.isclose
  closer,    \* is the channel Session.closer closed?
  sock,      \* this side of s.socket: "none", "open", "closed"
  peer,      \* the other side of it: "up", "down"
  sig,       \* tokens in Connector.sessCloseSignal
  writer,    \* the channel Session.writer: numbers of messages to send
  hander,    \* the channel Session.hander: chunks of received units
  sendpc,    \* sendpc[k], handpc[k], recvpc[k]: where the goroutines of
  handpc,    \*   incarnation k are
  recvpc,
  panicking, \* dorecv is unwinding from a nil dereference
  wbuf,      \* wbuf[k]: [msg, n], the message dosend writes and parts written
  rbuf,      \* rbuf[k]: the chunk dorecv has just read
  hbuf,      \* hbuf[k]: dohand's buf.data while it is parsed
  tempBuf,   \* tempBuf[k]: dohand's incomplete message
  got,       \* units read from the current connection
  calls,     \* calls of Send so far
  wire,      \* history: wire[k] is what was written to connection k
  handled,   \* history: messages parsed from the current connection
  rejected   \* history: has ParseMsg refused data of this connection?

chanVars == <<isclose, closer, sig, writer, hander>>
sendVars == <<sendpc, wbuf, wire>>
handVars == <<handpc, hbuf, tempBuf, handled, rejected>>
recvVars == <<recvpc, rbuf, got, panicking>>
vars == <<isUdp, inc, isclose, closer, sock, peer, sig, writer, hander, sendpc, handpc,
          recvpc, panicking, wbuf, rbuf, hbuf, tempBuf, got, calls, wire, handled, rejected>>

SendPC == {"off", "select", "write", "ended"}
HandPC == {"off", "select", "parse", "ended"}
RecvPC == {"off", "open", "read", "push", "closing", "wait", "event", "onclose", "ended"}

\* newConnSession: closed, with no socket and no goroutine.
Init ==
  /\ isUdp \in BOOLEAN
  /\ inc = 0 /\ isclose = TRUE /\ closer = FALSE /\ sock = "none" /\ peer = "down"
  /\ sig = 0 /\ writer = <<>> /\ hander = <<>>
  /\ sendpc = [k \in Incs |-> "off"]
  /\ handpc = [k \in Incs |-> "off"]
  /\ recvpc = [k \in Incs |-> "off"]
  /\ panicking = FALSE
  /\ wbuf = [k \in Incs |-> [msg |-> 0, n |-> 0]]
  /\ rbuf = [k \in Incs |-> <<>>]
  /\ hbuf = [k \in Incs |-> <<>>]
  /\ tempBuf = [k \in Incs |-> <<>>]
  /\ got = 0 /\ calls = 0
  /\ wire = [k \in Incs |-> <<>>]
  /\ handled = <<>> /\ rejected = FALSE
-----------------------------------------------------------------------------
(* The owner of the session and its users.                                 *)

\* Mutant: the half message of the last connection is not cleaned up.
restart_KeepsHander ==
  /\ inc < MaxInc
  /\ inc > 0 => sig = 1
  /\ isclose
  /\ inc' = inc + 1
  /\ isclose' = FALSE /\ closer' = FALSE /\ sock' = "open" /\ peer' = "up"
  /\ sig' = 0 /\ got' = 0 /\ handled' = <<>> /\ rejected' = FALSE
  /\ sendpc' = [sendpc EXCEPT ![inc + 1] = "select"]
  /\ handpc' = [handpc EXCEPT ![inc + 1] = "select"]
  /\ recvpc' = [recvpc EXCEPT ![inc + 1] = "open"]
  /\ UNCHANGED <<isUdp, panicking, writer, hander, wbuf, rbuf, hbuf, tempBuf, calls, wire>>

\* Mutant: the connector reconnects as soon as IsClose() is true, without
\* waiting for sessCloseSignal.
restart_Early ==
  /\ inc < MaxInc
  /\ isclose
  /\ inc' = inc + 1
  /\ isclose' = FALSE /\ closer' = FALSE /\ sock' = "open" /\ peer' = "up"
  /\ sig' = 0 /\ hander' = <<>> /\ got' = 0 /\ handled' = <<>> /\ rejected' = FALSE
  /\ sendpc' = [sendpc EXCEPT ![inc + 1] = "select"]
  /\ handpc' = [handpc EXCEPT ![inc + 1] = "select"]
  /\ recvpc' = [recvpc EXCEPT ![inc + 1] = "open"]
  /\ UNCHANGED <<isUdp, panicking, writer, wbuf, rbuf, hbuf, tempBuf, calls, wire>>

\* Connector.connect takes the token of sessCloseSignal (there is none to
\* wait for the first time), dials, and calls restart, which keeps writer
\* and replaces hander.
restart ==
  /\ inc < MaxInc
  /\ inc > 0 => sig = 1
  /\ isclose
  /\ inc' = inc + 1
  /\ isclose' = FALSE /\ closer' = FALSE /\ sock' = "open" /\ peer' = "up"
  /\ sig' = 0 /\ hander' = <<>> /\ got' = 0 /\ handled' = <<>> /\ rejected' = FALSE
  /\ sendpc' = [sendpc EXCEPT ![inc + 1] = "select"]
  /\ handpc' = [handpc EXCEPT ![inc + 1] = "select"]
  /\ recvpc' = [recvpc EXCEPT ![inc + 1] = "open"]
  /\ UNCHANGED <<isUdp, panicking, writer, wbuf, rbuf, hbuf, tempBuf, calls, wire>>

\* The select of Send: with the session closed and room in writer both cases
\* are ready, so the message may be refused or queued.
Send ==
  /\ calls < MaxSend
  /\ calls' = calls + 1
  /\ \/ Len(writer) < WriterListLen /\ writer' = Append(writer, calls + 1)
     \/ (closer \/ Len(writer) >= WriterListLen) /\ UNCHANGED writer
  /\ UNCHANGED <<isUdp, inc, isclose, closer, sock, peer, sig, hander, sendVars, handVars, recvVars>>

\* Close, also as the service's answer to a heartbeat timeout.
Close ==
  /\ ~isclose
  /\ sock' = "closed"
  /\ UNCHANGED <<isUdp, inc, peer, chanVars, sendVars, handVars, recvVars, calls>>

\* The network, or the peer, ends the connection.
PeerCloses ==
  /\ sock = "open" /\ peer = "up"
  /\ peer' = "down"
  /\ UNCHANGED <<isUdp, inc, sock, chanVars, sendVars, handVars, recvVars, calls>>
-----------------------------------------------------------------------------
\* A UDP goroutine keeps the connection it started with in udpConn, a TCP
\* goroutine uses whatever s.socket is.
Conn(k)   == IF isUdp THEN k ELSE inc
IsOpen(k) == Conn(k) = inc /\ sock = "open"
IsDead(k) == Conn(k) # inc \/ sock = "closed" \/ peer = "down"

(* dosend of incarnation k.                                                *)

SendQuit(k) ==
  /\ sendpc[k] = "select" /\ closer
  /\ sendpc' = [sendpc EXCEPT ![k] = "ended"]
  /\ UNCHANGED <<isUdp, inc, sock, peer, chanVars, wbuf, wire, handVars, recvVars, calls>>

SendTake(k) ==
  /\ sendpc[k] = "select" /\ writer # <<>>
  /\ writer' = Tail(writer)
  /\ wbuf' = [wbuf EXCEPT ![k] = [msg |-> Head(writer), n |-> 0]]
  /\ sendpc' = [sendpc EXCEPT ![k] = "write"]
  /\ UNCHANGED <<isUdp, inc, isclose, closer, sock, peer, sig, hander, wire, handVars, recvVars, calls>>

\* One Write takes at least one part; a UDP Write sends the message or
\* nothing.  What is written to a dead peer is lost with the connection.
SendWrite(k) ==
  /\ sendpc[k] = "write"
  /\ \E m \in (IF isUdp THEN {MsgParts} ELSE 1 .. MsgParts - wbuf[k].n) :
       LET sent == [j \in 1 .. m |-> <<wbuf[k].msg, wbuf[k].n + j>>]
           n    == wbuf[k].n + m
       IN  /\ IsOpen(k) \/ isUdp
           /\ wire' = IF IsOpen(k) THEN [wire EXCEPT ![Conn(k)] = @ \o sent] ELSE wire
           /\ wbuf' = [wbuf EXCEPT ![k] = IF n = MsgParts THEN [msg |-> 0, n |-> 0]
                                                        ELSE [@ EXCEPT !.n = n]]
           /\ sendpc' = [sendpc EXCEPT ![k] = IF n = MsgParts THEN "select" ELSE "write"]
  /\ UNCHANGED <<isUdp, inc, sock, peer, chanVars, handVars, recvVars, calls>>

\* A failing Write of a TCP session closes the socket and ends dosend: the
\* rest of this message is lost, later ones stay in writer.
SendError(k) ==
  /\ sendpc[k] = "write" /\ ~isUdp /\ IsDead(k)
  /\ sock' = "closed"
  /\ wbuf' = [wbuf EXCEPT ![k] = [msg |-> 0, n |-> 0]]
  /\ sendpc' = [sendpc EXCEPT ![k] = "ended"]
  /\ UNCHANGED <<isUdp, inc, peer, chanVars, wire, handVars, recvVars, calls>>
-----------------------------------------------------------------------------
(* dorecv of incarnation k.                                                *)

\* onopen and sessionEvent(Open).
RecvOpen(k) ==
  /\ recvpc[k] = "open"
  /\ recvpc' = [recvpc EXCEPT ![k] = "read"]
  /\ UNCHANGED <<isUdp, inc, sock, peer, chanVars, sendVars, handVars, rbuf, got, panicking, calls>>

RecvRead(k) ==
  /\ recvpc[k] = "read" /\ IsOpen(k)
  /\ \E n \in 1 .. MaxRead :
       /\ got + n <= MaxUnits
       /\ rbuf' = [rbuf EXCEPT ![k] = [j \in 1 .. n |-> <<Conn(k), got + j>>]]
       /\ got' = got + n
  /\ recvpc' = [recvpc EXCEPT ![k] = "push"]
  /\ UNCHANGED <<isUdp, inc, sock, peer, chanVars, sendVars, handVars, panicking, calls>>

RecvError(k) ==
  /\ recvpc[k] = "read" /\ IsDead(k)
  /\ recvpc' = [recvpc EXCEPT ![k] = "closing"]
  /\ UNCHANGED <<isUdp, inc, sock, peer, chanVars, sendVars, handVars, rbuf, got, panicking, calls>>

\* An empty datagram: n is 0, err is nil, and err.Error() panics; the
\* deferred function still runs.
RecvEmpty(k) ==
  /\ isUdp /\ EmptyReads
  /\ recvpc[k] = "read" /\ IsOpen(k)
  /\ recvpc' = [recvpc EXCEPT ![k] = "closing"]
  /\ panicking' = TRUE
  /\ UNCHANGED <<isUdp, inc, sock, peer, chanVars, sendVars, handVars, rbuf, got, calls>>

\* s.hander <- data: blocks while the channel is full.
RecvPush(k) ==
  /\ recvpc[k] = "push" /\ Len(hander) < RecvListLen
  /\ hander' = Append(hander, rbuf[k])
  /\ rbuf' = [rbuf EXCEPT ![k] = <<>>]
  /\ recvpc' = [recvpc EXCEPT ![k] = "read"]
  /\ UNCHANGED <<isUdp, inc, isclose, closer, sock, peer, sig, writer, sendVars, handVars, got, panicking, calls>>

\* Mutant: closer is not closed.
RecvClose_KeepsCloser(k) ==
  /\ recvpc[k] = "closing"
  /\ sock' = "closed"
  /\ recvpc' = [recvpc EXCEPT ![k] = "wait"]
  /\ UNCHANGED <<isUdp, inc, peer, chanVars, sendVars, handVars, rbuf, got, panicking, calls>>

\* The deferred function: close the socket and closer, ...
RecvClose(k) ==
  /\ recvpc[k] = "closing"
  /\ sock' = "closed" /\ closer' = TRUE
  /\ recvpc' = [recvpc EXCEPT ![k] = "wait"]
  /\ UNCHANGED <<isUdp, inc, peer, isclose, sig, writer, hander, sendVars, handVars, rbuf, got, panicking, calls>>

\* Mutant: wg.Wait does not count dosend.
RecvWait_ForHand(k) ==
  /\ recvpc[k] = "wait"
  /\ \A j \in Incs : handpc[j] \in {"off", "ended"}
  /\ isclose' = TRUE
  /\ recvpc' = [recvpc EXCEPT ![k] = "event"]
  /\ UNCHANGED <<isUdp, inc, sock, peer, closer, sig, writer, hander, sendVars, handVars, rbuf, got, panicking, calls>>

\* ... wait for dosend and dohand (wg is shared by all incarnations), set
\* isclose, ...
RecvWait(k) ==
  /\ recvpc[k] = "wait"
  /\ \A j \in Incs : sendpc[j] \in {"off", "ended"} /\ handpc[j] \in {"off", "ended"}
  /\ isclose' = TRUE
  /\ recvpc' = [recvpc EXCEPT ![k] = "event"]
  /\ UNCHANGED <<isUdp, inc, sock, peer, closer, sig, writer, hander, sendVars, handVars, rbuf, got, panicking, calls>>

\* ... sessionEvent(Close), ...
RecvEvent(k) ==
  /\ recvpc[k] = "event"
  /\ recvpc' = [recvpc EXCEPT ![k] = "onclose"]
  /\ UNCHANGED <<isUdp, inc, sock, peer, chanVars, sendVars, handVars, rbuf, got, panicking, calls>>

\* ... and onclose, which puts a token into sessCloseSignal (capacity 1).
RecvOnClose(k) ==
  /\ recvpc[k] = "onclose" /\ sig < 1
  /\ sig' = sig + 1
  /\ recvpc' = [recvpc EXCEPT ![k] = "ended"]
  /\ UNCHANGED <<isUdp, inc, sock, peer, isclose, closer, writer, hander, sendVars, handVars, rbuf, got, panicking, calls>>
-----------------------------------------------------------------------------
(* dohand of incarnation k.                                                *)

HandTake(k) ==
  /\ handpc[k] = "select" /\ hander # <<>>
  /\ hander' = Tail(hander)
  /\ hbuf' = [hbuf EXCEPT ![k] = tempBuf[k] \o Head(hander)]
  /\ handpc' = [handpc EXCEPT ![k] = "parse"]
  /\ UNCHANGED <<isUdp, inc, isclose, closer, sock, peer, sig, writer, sendVars, recvVars, tempBuf,
                 handled, rejected, calls>>

\* closer is closed: one more chunk is taken, if there is one, and parsed
\* once ("handle the last msg"); then dohand ends, whatever ParseMsg does.
HandLast(k) ==
  /\ handpc[k] = "select" /\ closer
  /\ LET data == tempBuf[k] \o (IF hander = <<>> THEN <<>> ELSE Head(hander))
     IN  \E ok \in {TRUE} \cup (IF Rejects \/ Panics THEN {FALSE} ELSE {}) :
           handled' = IF ok /\ Len(data) >= MsgUnits
                      THEN Append(handled, SubSeq(data, 1, MsgUnits)) ELSE handled
  /\ hander' = IF hander = <<>> THEN hander ELSE Tail(hander)
  /\ handpc' = [handpc EXCEPT ![k] = "ended"]
  /\ tempBuf' = [tempBuf EXCEPT ![k] = <<>>]
  /\ UNCHANGED <<isUdp, inc, isclose, closer, sock, peer, sig, writer, sendVars, recvVars, hbuf,
                 rejected, calls>>

\* ParseMsg found a whole message: the rest of the buffer is parsed next.
ParseOne(k) ==
  /\ handpc[k] = "parse" /\ Len(hbuf[k]) >= MsgUnits
  /\ handled' = Append(handled, SubSeq(hbuf[k], 1, MsgUnits))
  /\ IF Len(hbuf[k]) = MsgUnits
     THEN /\ tempBuf' = [tempBuf EXCEPT ![k] = <<>>]
          /\ hbuf' = [hbuf EXCEPT ![k] = <<>>]
          /\ handpc' = [handpc EXCEPT ![k] = "select"]
     ELSE /\ hbuf' = [hbuf EXCEPT ![k] = SubSeq(@, MsgUnits + 1, Len(@))]
          /\ UNCHANGED <<tempBuf, handpc>>
  /\ UNCHANGED <<isUdp, inc, sock, peer, chanVars, sendVars, recvVars, rejected, calls>>

\* ParseMsg needs more: TCP keeps the data for the next chunk and gives up
\* on a message longer than MaxMsgSize; UDP drops the datagram.
ParseNone(k) ==
  /\ handpc[k] = "parse" /\ Len(hbuf[k]) < MsgUnits
  /\ tempBuf' = IF isUdp THEN tempBuf ELSE [tempBuf EXCEPT ![k] = hbuf[k]]
  /\ sock' = IF ~isUdp /\ Len(hbuf[k]) > MaxMsgSize THEN "closed" ELSE sock
  /\ hbuf' = [hbuf EXCEPT ![k] = <<>>]
  /\ handpc' = [handpc EXCEPT ![k] = "select"]
  /\ UNCHANGED <<isUdp, inc, peer, chanVars, sendVars, recvVars, handled, rejected, calls>>

\* ParseMsg refuses the data: the socket is closed, but dohand goes on with
\* what is queued, and with the tempBuf it had.
ParseReject(k) ==
  /\ Rejects
  /\ handpc[k] = "parse"
  /\ sock' = "closed" /\ rejected' = TRUE
  /\ hbuf' = [hbuf EXCEPT ![k] = <<>>]
  /\ handpc' = [handpc EXCEPT ![k] = "select"]
  /\ UNCHANGED <<isUdp, inc, peer, chanVars, sendVars, recvVars, tempBuf, handled, calls>>

\* ParseMsg panics: handlePanic closes the socket and dohand ends.
ParsePanic(k) ==
  /\ Panics
  /\ handpc[k] = "parse"
  /\ sock' = "closed"
  /\ hbuf' = [hbuf EXCEPT ![k] = <<>>]
  /\ tempBuf' = [tempBuf EXCEPT ![k] = <<>>]
  /\ handpc' = [handpc EXCEPT ![k] = "ended"]
  /\ UNCHANGED <<isUdp, inc, peer, chanVars, sendVars, recvVars, handled, rejected, calls>>
-----------------------------------------------------------------------------
dosend(k) == SendQuit(k) \/ SendTake(k) \/ SendWrite(k) \/ SendError(k)

dorecv(k) ==
  \/ RecvOpen(k) \/ RecvError(k) \/ RecvPush(k)
  \/ RecvClose(k) \/ RecvWait(k) \/ RecvEvent(k) \/ RecvOnClose(k)

DataArrives(k) == RecvRead(k) \/ RecvEmpty(k)

dohand(k) ==
  \/ HandTake(k) \/ HandLast(k)
  \/ ParseOne(k) \/ ParseNone(k) \/ ParseReject(k) \/ ParsePanic(k)

\* The panic has left dorecv: the process is gone.
Crashed == panicking /\ recvpc[inc] = "ended"

\* The last incarnation is over, or the process is.
Over == Crashed \/ (inc = MaxInc /\ recvpc[MaxInc] = "ended")

Step ==
  \/ restart \/ Send \/ Close \/ PeerCloses
  \/ \E k \in Incs : dosend(k) \/ dorecv(k) \/ dohand(k) \/ DataArrives(k)

Next ==
  \/ ~Crashed /\ Step
  \/ Over /\ UNCHANGED vars

Spec == Init /\ [][Next]_vars

(***************************************************************************)
(* Fairness: the three goroutines run when they can.  Nobody has to call   *)
(* Close or restart, and data need not arrive.                             *)
(***************************************************************************)
FairSpec ==
  /\ Spec
  /\ \A k \in Incs : /\ WF_vars(dosend(k))
                     /\ WF_vars(dohand(k))
                     /\ WF_vars(dorecv(k))
-----------------------------------------------------------------------------
Units == Nat \X Nat

ControlType ==
  /\ inc \in 0 .. MaxInc
  /\ isclose \in BOOLEAN /\ closer \in BOOLEAN /\ panicking \in BOOLEAN
  /\ sock \in {"none", "open", "closed"} /\ peer \in {"up", "down"}
  /\ sig \in 0 .. 1
  /\ sendpc \in [Incs -> SendPC]
  /\ handpc \in [Incs -> HandPC]
  /\ recvpc \in [Incs -> RecvPC]

DataType ==
  /\ isUdp \in BOOLEAN
  /\ writer \in Seq(Nat) /\ Len(writer) <= WriterListLen
  /\ hander \in Seq(Seq(Units)) /\ Len(hander) <= RecvListLen
  /\ wbuf \in [Incs -> [msg : Nat, n : 0 .. MsgParts - 1]]
  /\ rbuf \in [Incs -> Seq(Units)]
  /\ hbuf \in [Incs -> Seq(Units)]
  /\ tempBuf \in [Incs -> Seq(Units)]
  /\ got \in 0 .. MaxUnits
  /\ calls \in 0 .. MaxSend
  /\ wire \in [Incs -> Seq(Units)]
  /\ handled \in Seq(Seq(Units))
  /\ rejected \in BOOLEAN

TypeOK == ControlType /\ DataType

\* Who is started, and how the fields follow dorecv of the current one: the
\* inductive form of OneIncarnation and QuietWhenClosed.
Lifecycle ==
  /\ \A k \in Incs :
       IF k > inc
       THEN sendpc[k] = "off" /\ handpc[k] = "off" /\ recvpc[k] = "off"
       ELSE sendpc[k] # "off" /\ handpc[k] # "off" /\ recvpc[k] # "off"
  /\ \A k \in Incs : k < inc =>
       sendpc[k] = "ended" /\ handpc[k] = "ended" /\ recvpc[k] = "ended"
  /\ inc = 0 => isclose /\ ~closer /\ sock = "none" /\ sig = 0
  /\ inc > 0 =>
       /\ isclose <=> recvpc[inc] \in {"event", "onclose", "ended"}
       /\ closer <=> recvpc[inc] \in {"wait", "event", "onclose", "ended"}
       /\ sig = 1 <=> recvpc[inc] = "ended"
       /\ isclose => sendpc[inc] = "ended" /\ handpc[inc] = "ended"
       /\ sock # "none"
       /\ closer => sock = "closed"

(***************************************************************************)
(* The goroutines of two incarnations never run at the same time: when     *)
(* restart starts new ones, the old dosend and dohand are gone and the old *)
(* dorecv has made its last callback (session.go:166-188, 263-281 with     *)
(* connector.go:92-96).                                                    *)
(***************************************************************************)
OneIncarnation ==
  \A k \in Incs : k < inc =>
    sendpc[k] = "ended" /\ handpc[k] = "ended" /\ recvpc[k] = "ended"

(***************************************************************************)
(* IsClose() tells the truth: once it is true, no goroutine of the session *)
(* sends or parses and the socket is closed, until the next restart.       *)
(***************************************************************************)
QuietWhenClosed ==
  isclose => /\ sock # "open"
             /\ \A k \in Incs : /\ sendpc[k] \in {"off", "ended"}
                                /\ handpc[k] \in {"off", "ended"}
                                /\ recvpc[k] \in {"off", "event", "onclose", "ended"}

(***************************************************************************)
(* A restart meets nobody of the earlier connection, and IsClose() is true *)
(* only when nobody is left to meet (session.go:166-188, 262-315).         *)
(***************************************************************************)
NoOverlap == OneIncarnation /\ QuietWhenClosed

Running(pc) == pc \notin {"off", "ended"}

\* The session as its owner sees it.
lifeOf ==
  IF \A k \in Incs : ~Running(sendpc[k]) /\ ~Running(handpc[k]) /\ ~Running(recvpc[k])
  THEN "closed"
  ELSE IF isclose /\ \A k \in Incs : ~Running(sendpc[k]) /\ ~Running(handpc[k])
  THEN "quiet"
  ELSE IF closer THEN "closing"
  ELSE "open"

Life == INSTANCE SessionLife WITH life <- lifeOf

(***************************************************************************)
(* The session keeps the promise of SessionLife: whatever the goroutines,  *)
(* the callers and the network do, it goes round closed, open, closing,    *)
(* quiet and never skips or repeats a stage (session.go:166-188, 263-281). *)
(***************************************************************************)
LifeSpec == Life!Spec

Message(k, j) == [u \in 1 .. MsgUnits |-> <<k, (j - 1) * MsgUnits + u>>]

(***************************************************************************)
(* However the stream was cut into reads, the messages handed on are the   *)
(* first messages of the current connection, in order, none skipped,       *)
(* repeated or mixed with data of an earlier connection ("receive buffer   *)
(* maybe half part,so should be cleanup", session.go:175).  Of a stream    *)
(* that ParseMsg has refused nothing is claimed, nor of datagrams, which   *)
(* stand for themselves.                                                   *)
(***************************************************************************)
Reassembled ==
  ~isUdp /\ ~rejected => \A j \in 1 .. Len(handled) : handled[j] = Message(inc, j)

Contiguous(s) ==
  \A j \in 1 .. Len(s) - 1 : s[j + 1] = <<s[j][1], s[j][2] + 1>>

(***************************************************************************)
(* A datagram is parsed by itself: what ParseMsg is given on a UDP session *)
(* is a run of consecutive units, never glued to what an earlier datagram  *)
(* left over, whatever ParseMsg made of that (session.go:383-387).         *)
(***************************************************************************)
DatagramsApart == isUdp => \A k \in Incs : Contiguous(hbuf[k])

(***************************************************************************)
(* What is received is handed on intact, streams and datagrams alike, and  *)
(* every channel and buffer stays within its bounds (session.go:331-399).  *)
(***************************************************************************)
ReceivedIntact == TypeOK /\ Reassembled /\ DatagramsApart

Run(k, a, b) == [u \in 1 .. b - a |-> <<k, a + u>>]

\* The chunks of h are consecutive, chunk j the units f[j - 1] + 1 .. f[j].
Chunks(k, h, f) ==
  \A j \in 1 .. Len(h) : f[j - 1] <= f[j] /\ h[j] = Run(k, f[j - 1], f[j])

\* Units up to e have left dorecv.
ReadUpTo(e) ==
  IF recvpc[inc] = "push" THEN e <= got /\ rbuf[inc] = Run(inc, e, got) ELSE e = got

\* Units up to e have reached dohand, and those not handed on are there,
\* unless the stream was refused.
ParsedUpTo(e) ==
  ~isUdp /\ ~rejected =>
    LET b == Len(handled) * MsgUnits
    IN  /\ handpc[inc] = "select" => b <= e /\ tempBuf[inc] = Run(inc, b, e)
        /\ handpc[inc] = "parse"  => b <= e /\ hbuf[inc] = Run(inc, b, e)

\* The inductive form of ReceivedIntact: dohand, hander and dorecv hold the
\* units of the current connection that are not handed on, without a gap.
StreamInOrder ==
  /\ \A k \in Incs : (isUdp \/ k > inc) => tempBuf[k] = <<>>
  /\ inc > 0 =>
       \E f \in [0 .. Len(hander) -> 0 .. MaxUnits] :
         Chunks(inc, hander, f) /\ ReadUpTo(f[Len(hander)]) /\ ParsedUpTo(f[0])

\* Parts n of m followed by what may come next: the next part of m or the
\* first part of a later message.
Follows(a, b) ==
  \/ b = <<a[1], a[2] + 1>>
  \/ a[2] = MsgParts /\ b[1] > a[1] /\ b[2] = 1

(***************************************************************************)
(* Every connection carries whole messages in the order of Send, each at   *)
(* most once and never torn by another one; only the last message of a     *)
(* connection may be cut short, and no message is sent on two connections  *)
(* (dosend, session.go:226-260, with the writer that survives restart).    *)
(***************************************************************************)
WireWhole ==
  /\ \A k \in Incs :
       /\ wire[k] # <<>> => wire[k][1][2] = 1
       /\ \A j \in 1 .. Len(wire[k]) - 1 : Follows(wire[k][j], wire[k][j + 1])
  /\ \A k, l \in Incs : k < l /\ wire[k] # <<>> /\ wire[l] # <<>>
       => wire[k][Len(wire[k])][1] < wire[l][1][1]

Below(w, m) == \A j \in 1 .. Len(w) : w[j][1] < m
Ended(w)    == w # <<>> => w[Len(w)][2] = MsgParts

\* The inductive form of WireWhole: what waits in writer is in the order of
\* Send and later than all that was written, and dosend writes the next part
\* of the message the current connection ends with, or begins a new message
\* after a whole one.
SendOrder ==
  /\ \A a \in 1 .. Len(writer) :
       /\ writer[a] <= calls
       /\ \A b \in 1 .. Len(writer) : a < b => writer[a] < writer[b]
       /\ \A l \in Incs : Below(wire[l], writer[a])
  /\ \A l \in Incs : Below(wire[l], calls + 1) /\ (l > inc => wire[l] = <<>>)
  /\ \A k \in Incs : sendpc[k] = "select" => Ended(wire[k])
  /\ \A k \in Incs : sendpc[k] = "write" =>
       /\ wbuf[k].msg <= calls
       /\ \A a \in 1 .. Len(writer) : wbuf[k].msg < writer[a]
       /\ \A l \in Incs : l # k => Below(wire[l], wbuf[k].msg)
       /\ wbuf[k].n = 0 => Below(wire[k], wbuf[k].msg) /\ Ended(wire[k])
       /\ wbuf[k].n > 0 =>
            /\ ~isUdp /\ Below(wire[k], wbuf[k].msg + 1)
            /\ wire[k] # <<>> /\ wire[k][Len(wire[k])] = <<wbuf[k].msg, wbuf[k].n>>

(***************************************************************************)
(* The session of a dead connection ends: once either side has closed the  *)
(* connection of an incarnation, its dorecv reaches onclose, whatever is   *)
(* queued, unless a panic in ParseMsg has ended dohand (session.go:        *)
(* 262-315).                                                               *)
(***************************************************************************)
SessionCloses ==
  \A k \in Incs :
    (inc = k /\ (sock = "closed" \/ peer = "down"))
      ~> (recvpc[k] = "ended" \/ (handpc[k] = "ended" /\ ~closer))

(***************************************************************************)
(* "FuncOnClose will be called when session closed" (session.go:44),       *)
(* without an exception for panics: handlePanic closes the socket.         *)
(***************************************************************************)
OnCloseCalled ==
  \A k \in Incs :
    (inc = k /\ (sock = "closed" \/ peer = "down")) ~> (recvpc[k] = "ended")
=============================================================================
