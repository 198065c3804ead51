------------------------------ MODULE Listener ------------------------------
(***************************************************************************)
(* A stnet Listener (stnet/listener.go), TCP or UDP: its accepting         *)
(* goroutine, the sessions it starts, and callers of Close.                *)
(*                                                                         *)
(* The TCP goroutine accepts connections, starts a session on each and     *)
(* keeps it in sessMap until the session's onclose.  The UDP goroutine     *)
(* runs one session after the other, each on a socket of its own, and      *)
(* waits in between for a token in udpCh.  Close closes what it finds and  *)
(* waits for waitExit.  A session is seen from outside: it ends once its   *)
(* socket is closed or the network fails, and then calls onclose.          *)
(***************************************************************************)
EXTENDS Integers, FiniteSets

CONSTANTS
  Socks,        \* bound: connections accepted, or UDP sockets opened
  Closers,      \* goroutines that call Close
  NoSock,       \* nil
  ListenFails,  \* may net.ListenUDP fail?
  AcceptFails   \* may Accept fail although the listener is open?

ASSUME ListenerAssumption ==
  /\ NoSock \notin Socks
  /\ ListenFails \in BOOLEAN /\ AcceptFails \in BOOLEAN

VARIABLES
  isUdp,     \* Listener.isUdp
  isclose,   \* Listener.isclose
  lstOpen,   \* is Listener.lst open?
  udpConn,   \* Listener.udpConn
  udpCh,     \* tokens in udpCh
  err,       \* did the last ListenUDP fail?
  apc,       \* where the accepting goroutine is
  conn,      \* the connection it has accepted last
  locked,    \* does it hold sessMapMutex?
  sessMap,   \* the sockets whose sessions are in sessMap
  waitExit,  \* counter of Listener.waitExit
  used,      \* sockets there have been so far
  open,      \* sockets open on this side
  life,      \* life[k]: the session on socket k: "none", "open", "onclose", "ended"
  clpc       \* clpc[c]: where caller c of Close is

mapVars  == <<sessMap, locked>>
udpVars  == <<udpConn, udpCh, err>>
sockVars == <<used, open, life>>
vars == <<isUdp, isclose, lstOpen, udpConn, udpCh, err, apc, conn, locked, sessMap, waitExit,
          used, open, life, clpc>>

Fresh == Socks \ used

\* Sessions whose onclose has not run yet.
Live == {k \in Socks : life[k] \in {"open", "onclose"}}

\* NewListener, or NewUdpListener with its first socket.
Init ==
  /\ isUdp \in BOOLEAN
  /\ isclose = FALSE /\ lstOpen = ~isUdp /\ udpCh = 0 /\ err = FALSE
  /\ apc = "check" /\ conn = NoSock /\ locked = FALSE /\ sessMap = {} /\ waitExit = 1
  /\ \E k \in Socks : /\ used = IF isUdp THEN {k} ELSE {}
                      /\ udpConn = IF isUdp THEN k ELSE NoSock
  /\ open = used
  /\ life = [k \in Socks |-> "none"]
  /\ clpc = [c \in Closers |-> "idle"]
-----------------------------------------------------------------------------
(* The goroutine of NewListener.                                           *)

\* Mutant: the UDP loop has no condition.
LoopCheck_Endless ==
  /\ apc = "check"
  /\ IF isclose /\ ~isUdp THEN apc' = "done" /\ waitExit' = waitExit - 1
     ELSE /\ apc' = (IF ~isUdp THEN "accept" ELSE IF err THEN "recheck" ELSE "start")
          /\ UNCHANGED waitExit
  /\ UNCHANGED <<isUdp, isclose, lstOpen, udpVars, conn, mapVars, sockVars, clpc>>

\* The loop condition of both goroutines; waitExit.Done when it fails.
LoopCheck ==
  /\ apc = "check"
  /\ IF isclose THEN apc' = "done" /\ waitExit' = waitExit - 1
     ELSE /\ apc' = (IF ~isUdp THEN "accept" ELSE IF err THEN "recheck" ELSE "start")
          /\ UNCHANGED waitExit
  /\ UNCHANGED <<isUdp, isclose, lstOpen, udpVars, conn, mapVars, sockVars, clpc>>

Accept(k) ==
  /\ apc = "accept" /\ lstOpen
  /\ conn' = k /\ used' = used \cup {k} /\ open' = open \cup {k}
  /\ apc' = "lock"
  /\ UNCHANGED <<isUdp, isclose, lstOpen, udpVars, mapVars, waitExit, life, clpc>>

\* Any error of Accept ends the goroutine.
AcceptError ==
  /\ apc = "accept" /\ (~lstOpen \/ AcceptFails)
  /\ apc' = "done" /\ waitExit' = waitExit - 1
  /\ UNCHANGED <<isUdp, isclose, lstOpen, udpVars, conn, mapVars, sockVars, clpc>>

AcceptLock ==
  /\ apc = "lock"
  /\ locked' = TRUE /\ apc' = "locked"
  /\ UNCHANGED <<isUdp, isclose, lstOpen, udpVars, conn, sessMap, waitExit, sockVars, clpc>>

\* Mutant: isclose is not looked at again under the lock.
AcceptStart_Unchecked ==
  /\ apc = "locked"
  /\ waitExit' = waitExit + 1
  /\ life' = [life EXCEPT ![conn] = "open"]
  /\ apc' = "insert"
  /\ UNCHANGED <<isUdp, isclose, lstOpen, udpVars, conn, mapVars, used, open, clpc>>

\* Under the lock: a session starts unless the listener is closing; then the
\* connection is forgotten, not closed.
AcceptStart ==
  /\ apc = "locked"
  /\ IF isclose
     THEN /\ locked' = FALSE /\ apc' = "check"
          /\ UNCHANGED <<waitExit, life>>
     ELSE /\ waitExit' = waitExit + 1
          /\ life' = [life EXCEPT ![conn] = "open"]
          /\ apc' = "insert"
          /\ UNCHANGED locked
  /\ UNCHANGED <<isUdp, isclose, lstOpen, udpVars, conn, sessMap, used, open, clpc>>

AcceptInsert ==
  /\ apc = "insert"
  /\ sessMap' = sessMap \cup {conn} /\ locked' = FALSE
  /\ apc' = "check"
  /\ UNCHANGED <<isUdp, isclose, lstOpen, udpVars, conn, waitExit, sockVars, clpc>>
-----------------------------------------------------------------------------
(* The goroutine of NewUdpListener.                                        *)

UdpStart ==
  /\ apc = "start"
  /\ life' = [life EXCEPT ![udpConn] = "open"]
  /\ apc' = "wait"
  /\ UNCHANGED <<isUdp, isclose, lstOpen, udpVars, conn, mapVars, waitExit, used, open, clpc>>

UdpWait ==
  /\ apc = "wait" /\ udpCh = 1
  /\ udpCh' = 0 /\ apc' = "recheck"
  /\ UNCHANGED <<isUdp, isclose, lstOpen, udpConn, err, conn, mapVars, waitExit, sockVars, clpc>>

UdpRecheck ==
  /\ apc = "recheck"
  /\ apc' = IF isclose THEN "check" ELSE "listen"
  /\ UNCHANGED <<isUdp, isclose, lstOpen, udpVars, conn, mapVars, waitExit, sockVars, clpc>>

UdpListen(k) ==
  /\ apc = "listen"
  /\ udpConn' = k /\ err' = FALSE
  /\ used' = used \cup {k} /\ open' = open \cup {k}
  /\ apc' = "check"
  /\ UNCHANGED <<isUdp, isclose, lstOpen, udpCh, conn, mapVars, waitExit, life, clpc>>

\* A failure is retried after three seconds.
UdpListenFails ==
  /\ ListenFails
  /\ apc = "listen"
  /\ err' = TRUE /\ apc' = "check"
  /\ UNCHANGED <<isUdp, isclose, lstOpen, udpConn, udpCh, conn, mapVars, waitExit, sockVars, clpc>>
-----------------------------------------------------------------------------
(* The session on socket k.                                                *)

\* dorecv ends: its socket is closed, or the network fails or a handler closes
\* the session (for UDP, as long as there is a socket to go on with).
SessEnds(k) ==
  /\ life[k] = "open"
  /\ k \notin open \/ (isUdp => Fresh # {})
  /\ life' = [life EXCEPT ![k] = "onclose"] /\ open' = open \ {k}
  /\ UNCHANGED <<isUdp, isclose, lstOpen, udpVars, apc, conn, mapVars, waitExit, used, clpc>>

\* Mutant: onclose does not take sessMapMutex.
OnClose_Unlocked(k) ==
  /\ ~isUdp
  /\ life[k] = "onclose"
  /\ sessMap' = sessMap \ {k} /\ waitExit' = waitExit - 1
  /\ life' = [life EXCEPT ![k] = "ended"]
  /\ UNCHANGED <<isUdp, isclose, lstOpen, udpVars, apc, conn, locked, used, open, clpc>>

\* onclose of a TCP session, all of it under sessMapMutex.
OnClose(k) ==
  /\ ~isUdp /\ ~locked
  /\ life[k] = "onclose"
  /\ sessMap' = sessMap \ {k} /\ waitExit' = waitExit - 1
  /\ life' = [life EXCEPT ![k] = "ended"]
  /\ UNCHANGED <<isUdp, isclose, lstOpen, udpVars, apc, conn, locked, used, open, clpc>>

\* Mutant: no token is sent.
OnCloseUdp_Silent(k) ==
  /\ isUdp
  /\ life[k] = "onclose"
  /\ life' = [life EXCEPT ![k] = "ended"]
  /\ UNCHANGED <<isUdp, isclose, lstOpen, udpVars, apc, conn, mapVars, waitExit, used, open, clpc>>

\* onclose of a UDP session: udpCh <- 1, a channel of capacity one.
OnCloseUdp(k) ==
  /\ isUdp
  /\ life[k] = "onclose" /\ udpCh = 0
  /\ udpCh' = 1
  /\ life' = [life EXCEPT ![k] = "ended"]
  /\ UNCHANGED <<isUdp, isclose, lstOpen, udpConn, err, apc, conn, mapVars, waitExit, used, open, clpc>>
-----------------------------------------------------------------------------
(* Close.                                                                  *)

CloseChecks(c) ==
  /\ clpc[c] = "idle"
  /\ clpc' = [clpc EXCEPT ![c] = IF isclose THEN "early" ELSE "mark"]
  /\ UNCHANGED <<isUdp, isclose, lstOpen, udpVars, apc, conn, mapVars, waitExit, sockVars>>

CloseMarks(c) ==
  /\ clpc[c] = "mark"
  /\ isclose' = TRUE
  /\ clpc' = [clpc EXCEPT ![c] = IF isUdp THEN "udpclose" ELSE "lstclose"]
  /\ UNCHANGED <<isUdp, lstOpen, udpVars, apc, conn, mapVars, waitExit, sockVars>>

CloseLst(c) ==
  /\ clpc[c] = "lstclose"
  /\ lstOpen' = FALSE
  /\ clpc' = [clpc EXCEPT ![c] = "iterate"]
  /\ UNCHANGED <<isUdp, isclose, udpVars, apc, conn, mapVars, waitExit, sockVars>>

CloseUdpConn(c) ==
  /\ clpc[c] = "udpclose"
  /\ open' = open \ {udpConn}
  /\ clpc' = [clpc EXCEPT ![c] = "udpch"]
  /\ UNCHANGED <<isUdp, isclose, lstOpen, udpVars, apc, conn, mapVars, waitExit, used, life>>

CloseUdpCh(c) ==
  /\ clpc[c] = "udpch" /\ udpCh = 0
  /\ udpCh' = 1
  /\ clpc' = [clpc EXCEPT ![c] = "awake"]
  /\ UNCHANGED <<isUdp, isclose, lstOpen, udpConn, err, apc, conn, mapVars, waitExit, sockVars>>

\* The empty datagram "to awake udpsocket".  By NetworkStopped there is no
\* session left that could read it.
CloseAwakes(c) ==
  /\ clpc[c] = "awake"
  /\ clpc' = [clpc EXCEPT ![c] = "iterate"]
  /\ UNCHANGED <<isUdp, isclose, lstOpen, udpVars, apc, conn, mapVars, waitExit, sockVars>>

\* IterateSession under the read lock: every session in sessMap is closed.
CloseIterates(c) ==
  /\ clpc[c] = "iterate" /\ ~locked
  /\ open' = open \ sessMap
  /\ clpc' = [clpc EXCEPT ![c] = "wait"]
  /\ UNCHANGED <<isUdp, isclose, lstOpen, udpVars, apc, conn, mapVars, waitExit, used, life>>

CloseReturns(c) ==
  /\ clpc[c] = "wait" /\ waitExit = 0
  /\ clpc' = [clpc EXCEPT ![c] = "returned"]
  /\ UNCHANGED <<isUdp, isclose, lstOpen, udpVars, apc, conn, mapVars, waitExit, sockVars>>
-----------------------------------------------------------------------------
Loop ==
  \/ LoopCheck
  \/ AcceptError \/ AcceptLock \/ AcceptStart \/ AcceptInsert
  \/ UdpStart \/ UdpWait \/ UdpRecheck \/ UdpListenFails
  \/ \E k \in Fresh : UdpListen(k)

Session(k) == SessEnds(k) \/ OnClose(k) \/ OnCloseUdp(k)

Close(c) ==
  \/ CloseChecks(c) \/ CloseMarks(c) \/ CloseLst(c)
  \/ CloseUdpConn(c) \/ CloseUdpCh(c) \/ CloseAwakes(c)
  \/ CloseIterates(c) \/ CloseReturns(c)

Next ==
  \/ Loop
  \/ \E k \in Fresh : Accept(k)
  \/ \E k \in Socks : Session(k)
  \/ \E c \in Closers : Close(c)

Spec == Init /\ [][Next]_vars

(***************************************************************************)
(* Fairness: goroutines run, sessMapMutex is granted to who waits for it,  *)
(* a session whose socket is closed ends (SessionCloses of Session), a     *)
(* call of Close goes on once made.  Nobody has to connect or to call      *)
(* Close, and the network need not fail.                                   *)
(***************************************************************************)
Fairness ==
  /\ WF_vars(Loop)
  /\ \A k \in Socks : /\ WF_vars(k \notin open /\ SessEnds(k))
                      /\ SF_vars(OnClose(k))
                      /\ SF_vars(OnCloseUdp(k))
  /\ \A c \in Closers : /\ WF_vars(clpc[c] # "idle" /\ Close(c))
                        /\ SF_vars((CloseIterates(c) \/ CloseUdpCh(c)))

FairSpec == Spec /\ Fairness
-----------------------------------------------------------------------------
(* Properties.                                                             *)

Running == {"mark", "lstclose", "udpclose", "udpch", "awake", "iterate", "wait"}

\* Every variable has its type; udpCh holds one token at most.
TypeOK ==
  /\ isUdp \in BOOLEAN /\ isclose \in BOOLEAN /\ lstOpen \in BOOLEAN
  /\ udpConn \in Socks \cup {NoSock} /\ udpCh \in 0 .. 1 /\ err \in BOOLEAN
  /\ apc \in {"check", "accept", "lock", "locked", "insert",
              "start", "wait", "recheck", "listen", "done"}
  /\ conn \in Socks \cup {NoSock} /\ locked \in BOOLEAN
  /\ sessMap \in SUBSET Socks /\ waitExit \in Nat
  /\ used \in SUBSET Socks /\ open \in SUBSET used
  /\ life \in [Socks -> {"none", "open", "onclose", "ended"}]
  /\ clpc \in [Closers -> Running \cup {"idle", "early", "returned"}]

\* Whenever sessMapMutex is free, sessMap holds exactly the sessions whose
\* onclose has not run: a session that ends before NewListener's goroutine has
\* put it into the map (listener.go:60) does not stay there for ever.
MapTracksSessions == ~isUdp /\ ~locked => sessMap = Live

\* When Close of a TCP listener has waited and returned, the accepting
\* goroutine and every session it started are over, and none starts later.
NothingLeft ==
  ~isUdp /\ (\E c \in Closers : clpc[c] = "returned") => apc = "done" /\ Live = {}

\* A UDP listener that is not closing has one session at a time, and no token
\* of an earlier one ends the wait for a later one (listener.go:101).
OneUdpSession ==
  isUdp /\ ~isclose => /\ Cardinality(Live) + udpCh <= 1
                       /\ apc \in {"check", "start"} => Live = {} /\ udpCh = 0

\* The listener knows its sessions: those of TCP are the ones in sessMap, that of
\* UDP is the only one (listener.go:44-66, 95-117).
SessionsTracked == MapTracksSessions /\ OneUdpSession

\* A call of Close that passes its test returns: waitExit reaches zero, and
\* nobody is left blocked on udpCh (unless two calls close a UDP listener at
\* once: then three tokens may be sent, and one is received).
CloseTerminates ==
  \A c \in Closers :
    (clpc[c] = "mark") ~>
      \/ clpc[c] = "returned"
      \/ isUdp /\ \E d \in Closers \ {c} : clpc[d] \notin {"idle", "early"}

\* When the session of a UDP listener ends, the listener opens another one,
\* unless it is closed or ListenUDP keeps failing.
UdpReopens ==
  \/ []<><<UdpListenFails>>_vars
  \/ \A k \in Socks :
       (isUdp /\ life[k] = "ended") ~> (\E j \in Socks \ {k} : life[j] = "open") \/ isclose

\* The step of Close after which it has closed every socket it will close.
Swept(c) ==
  clpc[c] \in (IF isUdp THEN {"udpch", "awake", "iterate", "wait", "returned"}
                        ELSE {"wait", "returned"})

\* Once Close has closed what it found, no session receives from an open
\* socket, although connections are being accepted or the UDP socket is being
\* opened again meanwhile; so the empty datagram that follows (listener.go:134)
\* meets no session, for which a read of zero bytes would be fatal.
NetworkStopped ==
  (\E c \in Closers : Swept(c)) => \A k \in open : life[k] # "open"

\* Close is complete: while it runs it stops the network, and when it returns
\* nothing of a TCP listener is left (listener.go:120-144).
CloseIsComplete == NetworkStopped /\ NothingLeft
=============================================================================
