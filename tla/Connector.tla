------------------------------ MODULE Connector ------------------------------
(***************************************************************************)
(* A stnet Connector (stnet/connector.go): the connect goroutine, which    *)
(* dials, restarts the session on the new connection and waits for it to   *)
(* end, against callers of Close, ChangeAddr and Send.                     *)
(*                                                                         *)
(* The session is seen as SessionLife describes it (Session shows that it  *)
(* is): life is where it is in its life, isclose and sock are its fields,  *)
(* which ChangeAddr and Close read without a lock.  restart writes isclose *)
(* before socket, so it takes two steps.                                   *)
(***************************************************************************)
EXTENDS Integers

CONSTANTS
  Addrs,        \* addresses
  FirstAddr,    \* the address given to NewConnector
  Closers,      \* goroutines that call Close
  Changers,     \* goroutines that call ChangeAddr
  NewAddr,      \* NewAddr[u]: the address changer u asks for
  MaxReconn,    \* reconnCount falls back once it passes this (30) ...
  ResetReconn,  \* ... to this (10)
  DialFails,    \* may net.Dial fail?
  PeerCloses    \* may the network end a connection?

NoAddr == "none"

ASSUME ConnectorAssumption ==
  /\ FirstAddr \in Addrs /\ NoAddr \notin Addrs
  /\ Closers \cap Changers = {} /\ "connect" \notin Closers /\ "free" \notin Closers
  /\ NewAddr \in [Changers -> Addrs]
  /\ MaxReconn \in Nat /\ ResetReconn \in 1 .. MaxReconn
  /\ DialFails \in BOOLEAN /\ PeerCloses \in BOOLEAN

VARIABLES
  cpc,          \* where the connect goroutine is
  wg,           \* Connector.wg: 1 while connect runs
  address,      \* Connector.address
  cn,           \* address of the connection dialled and not yet handed over
  reconnCount,  \* Connector.reconnCount
  reconn,       \* tokens in reconnSignal
  sig,          \* tokens in sessCloseSignal
  closer,       \* is Connector.closer closed?
  closeLock,    \* who holds closeLock
  life,         \* the session: "closed", "open", "closing", "quiet"
  isclose,      \* Session.isclose
  sock,         \* address s.socket is connected to, NoAddr for nil
  sockOpen,     \* is s.socket open on this side?
  refused,      \* restart found the session open; its result is ignored
  clpc,         \* clpc[c]: where closer c is
  chpc          \* chpc[u]: where changer u is

connVars == <<cpc, wg, cn, reconnCount>>
sessVars == <<life, isclose, sock, sockOpen>>
userVars == <<clpc, chpc>>
vars == <<cpc, wg, address, cn, reconnCount, reconn, sig, closer, closeLock,
          life, isclose, sock, sockOpen, refused, clpc, chpc>>

ConnectPC == {"start", "check", "backoff", "dial", "dialled", "lock", "locked",
              "restarting", "waitsig", "done"}
CloserPC  == {"idle", "lock", "close", "wait", "returned", "early", "panicked"}
ChangerPC == {"idle", "close", "closesock", "notify", "done", "panicked"}

Init ==
  /\ cpc = "start" /\ wg = 0 /\ address = FirstAddr /\ cn = NoAddr
  /\ reconnCount = 0 /\ reconn = 0 /\ sig = 0
  /\ closer = FALSE /\ closeLock = "free"
  /\ life = "closed" /\ isclose = TRUE /\ sock = NoAddr /\ sockOpen = FALSE
  /\ refused = FALSE
  /\ clpc = [c \in Closers |-> "idle"]
  /\ chpc = [u \in Changers |-> "idle"]
-----------------------------------------------------------------------------
(* connect().                                                              *)

\* wg.Add(1) is the first thing the goroutine does, not its creator.
ConnectStarts ==
  /\ cpc = "start"
  /\ wg' = 1 /\ cpc' = "check"
  /\ UNCHANGED <<address, cn, reconnCount, reconn, sig, closer, closeLock, sessVars, refused, userVars>>

\* The loop condition, and the test for a pause before the next dial.
ConnectChecks ==
  /\ cpc = "check"
  /\ IF closer THEN cpc' = "done" /\ wg' = 0
     ELSE cpc' = (IF reconnCount > 0 THEN "backoff" ELSE "dial") /\ UNCHANGED wg
  /\ UNCHANGED <<address, cn, reconnCount, reconn, sig, closer, closeLock, sessVars, refused, userVars>>

\* The pause ends with the closer, with a NotifyReconn or with the timer.
BackoffClosed ==
  /\ cpc = "backoff" /\ closer
  /\ cpc' = "done" /\ wg' = 0
  /\ UNCHANGED <<address, cn, reconnCount, reconn, sig, closer, closeLock, sessVars, refused, userVars>>

BackoffNotified ==
  /\ cpc = "backoff" /\ reconn = 1
  /\ reconn' = 0 /\ cpc' = "dial"
  /\ UNCHANGED <<wg, address, cn, reconnCount, sig, closer, closeLock, sessVars, refused, userVars>>

BackoffTimer ==
  /\ cpc = "backoff"
  /\ cpc' = "dial"
  /\ UNCHANGED <<wg, address, cn, reconnCount, reconn, sig, closer, closeLock, sessVars, refused, userVars>>

NextReconnCount == IF reconnCount + 1 > MaxReconn THEN ResetReconn ELSE reconnCount + 1

DialSucceeds ==
  /\ cpc = "dial"
  /\ reconnCount' = NextReconnCount
  /\ cn' = address /\ cpc' = "dialled"
  /\ UNCHANGED <<wg, address, reconn, sig, closer, closeLock, sessVars, refused, userVars>>

\* A failed dial pushes a Close event for the session and tries again.
DialError ==
  /\ DialFails
  /\ cpc = "dial"
  /\ reconnCount' = NextReconnCount
  /\ IF closer THEN cpc' = "done" /\ wg' = 0 ELSE cpc' = "check" /\ UNCHANGED wg
  /\ UNCHANGED <<address, cn, reconn, sig, closer, closeLock, sessVars, refused, userVars>>

\* "maybe already be closed"
DialledChecks ==
  /\ cpc = "dialled"
  /\ IF closer THEN cn' = NoAddr /\ cpc' = "done" /\ wg' = 0
     ELSE cpc' = "lock" /\ UNCHANGED <<cn, wg>>
  /\ UNCHANGED <<address, reconnCount, reconn, sig, closer, closeLock, sessVars, refused, userVars>>

ConnectLocks ==
  /\ cpc = "lock" /\ closeLock = "free"
  /\ closeLock' = "connect" /\ cpc' = "locked"
  /\ UNCHANGED <<wg, address, cn, reconnCount, reconn, sig, closer, sessVars, refused, userVars>>

\* Mutant: closer is not looked at again under closeLock.
RestartBegins_Unchecked ==
  /\ cpc = "locked"
  /\ IF ~isclose
     THEN /\ refused' = TRUE /\ closeLock' = "free"
          /\ reconnCount' = 0 /\ cpc' = "waitsig"
          /\ UNCHANGED <<cn, wg, isclose>>
     ELSE /\ isclose' = FALSE /\ cpc' = "restarting"
          /\ UNCHANGED <<cn, closeLock, wg, refused, reconnCount>>
  /\ UNCHANGED <<address, reconn, sig, closer, life, sock, sockOpen, userVars>>

\* Mutant: a connection dialled while Close ran is not closed again.
RestartBegins_Leaks ==
  /\ cpc = "locked"
  /\ IF closer
     THEN /\ closeLock' = "free" /\ cpc' = "done" /\ wg' = 0
          /\ UNCHANGED <<cn, isclose, refused, reconnCount>>
     ELSE /\ isclose' = FALSE /\ cpc' = "restarting"
          /\ UNCHANGED <<cn, closeLock, wg, refused, reconnCount>>
  /\ UNCHANGED <<address, reconn, sig, closer, life, sock, sockOpen, userVars>>

\* closer is looked at again under closeLock; then restart begins: it
\* refuses an open session and clears isclose.
RestartBegins ==
  /\ cpc = "locked"
  /\ IF closer
     THEN /\ cn' = NoAddr /\ closeLock' = "free"
          /\ cpc' = "done" /\ wg' = 0
          /\ UNCHANGED <<isclose, refused, reconnCount>>
     ELSE IF ~isclose
     THEN /\ refused' = TRUE /\ closeLock' = "free"
          /\ reconnCount' = 0 /\ cpc' = "waitsig"
          /\ UNCHANGED <<cn, wg, isclose>>
     ELSE /\ isclose' = FALSE /\ cpc' = "restarting"
          /\ UNCHANGED <<cn, closeLock, wg, refused, reconnCount>>
  /\ UNCHANGED <<address, reconn, sig, closer, life, sock, sockOpen, userVars>>

\* restart sets the socket and starts the goroutines; closeLock is released.
RestartEnds ==
  /\ cpc = "restarting"
  /\ life' = "open" /\ sock' = cn /\ sockOpen' = TRUE /\ cn' = NoAddr
  /\ closeLock' = "free" /\ reconnCount' = 0 /\ cpc' = "waitsig"
  /\ UNCHANGED <<wg, address, reconn, sig, closer, isclose, refused, userVars>>

\* <-sessCloseSignal, then the test for closer.
SessionEnded ==
  /\ cpc = "waitsig" /\ sig = 1
  /\ sig' = 0
  /\ IF closer THEN cpc' = "done" /\ wg' = 0 ELSE cpc' = "check" /\ UNCHANGED wg
  /\ UNCHANGED <<address, cn, reconnCount, reconn, closer, closeLock, sessVars, refused, userVars>>
-----------------------------------------------------------------------------
(* The session, as SessionLife sees it.                                    *)

\* dorecv leaves its loop: the socket was closed here or the network failed.
SessCloses ==
  /\ life = "open"
  /\ ~sockOpen \/ PeerCloses
  /\ life' = "closing" /\ sockOpen' = FALSE
  /\ UNCHANGED <<connVars, address, reconn, sig, closer, closeLock, isclose, sock, refused, userVars>>

\* dosend and dohand have ended; isclose is set.
SessQuiet ==
  /\ life = "closing"
  /\ life' = "quiet" /\ isclose' = TRUE
  /\ UNCHANGED <<connVars, address, reconn, sig, closer, closeLock, sock, sockOpen, refused, userVars>>

\* Mutant: onclose is also called before dosend and dohand have ended.
SessSignals_Early ==
  /\ life \in {"closing", "quiet"} /\ sig = 0
  /\ sig' = 1
  /\ life' = IF life = "quiet" THEN "closed" ELSE life
  /\ UNCHANGED <<connVars, address, reconn, closer, closeLock, isclose, sock, sockOpen, refused, userVars>>

\* Mutant: onclose does not signal.
SessSignals_Silent ==
  /\ life = "quiet"
  /\ life' = "closed"
  /\ UNCHANGED <<connVars, address, reconn, sig, closer, closeLock, isclose, sock, sockOpen, refused, userVars>>

\* onclose: sessCloseSignal <- 1.
SessSignals ==
  /\ life = "quiet" /\ sig = 0
  /\ sig' = 1
  /\ life' = "closed"
  /\ UNCHANGED <<connVars, address, reconn, closer, closeLock, isclose, sock, sockOpen, refused, userVars>>

Session == SessCloses \/ SessQuiet \/ SessSignals
-----------------------------------------------------------------------------
(* Callers.                                                                *)

\* Close: the first test of IsClose is made without the lock.
CloseChecks(c) ==
  /\ clpc[c] = "idle"
  /\ clpc' = [clpc EXCEPT ![c] = IF closer THEN "early" ELSE "lock"]
  /\ UNCHANGED <<connVars, address, reconn, sig, closer, closeLock, sessVars, refused, chpc>>

CloseLocks(c) ==
  /\ clpc[c] = "lock" /\ closeLock = "free"
  /\ closeLock' = c
  /\ clpc' = [clpc EXCEPT ![c] = "close"]
  /\ UNCHANGED <<connVars, address, reconn, sig, closer, sessVars, refused, chpc>>

\* Mutant: Close does not close the session.
CloseCloses_KeepsSession(c) ==
  /\ clpc[c] = "close"
  /\ IF closer
     THEN /\ clpc' = [clpc EXCEPT ![c] = "panicked"]
          /\ UNCHANGED <<closer, closeLock>>
     ELSE /\ closer' = TRUE /\ closeLock' = "free"
          /\ clpc' = [clpc EXCEPT ![c] = "wait"]
  /\ UNCHANGED <<connVars, address, reconn, sig, sessVars, refused, chpc>>

\* Under the lock: close(c.closer), which panics when another Close was
\* faster, and sess.Close(), which closes the socket of an open session.
CloseCloses(c) ==
  /\ clpc[c] = "close"
  /\ IF closer
     THEN /\ clpc' = [clpc EXCEPT ![c] = "panicked"]
          /\ UNCHANGED <<closer, closeLock, sockOpen>>
     ELSE /\ closer' = TRUE /\ closeLock' = "free"
          /\ sockOpen' = (sockOpen /\ isclose)
          /\ clpc' = [clpc EXCEPT ![c] = "wait"]
  /\ UNCHANGED <<connVars, address, reconn, sig, life, isclose, sock, refused, chpc>>

CloseReturns(c) ==
  /\ clpc[c] = "wait" /\ wg = 0
  /\ clpc' = [clpc EXCEPT ![c] = "returned"]
  /\ UNCHANGED <<connVars, address, reconn, sig, closer, closeLock, sessVars, refused, chpc>>

\* ChangeAddr: the address, ...
ChangeSets(u) ==
  /\ chpc[u] = "idle"
  /\ address' = NewAddr[u]
  /\ chpc' = [chpc EXCEPT ![u] = "close"]
  /\ UNCHANGED <<connVars, reconn, sig, closer, closeLock, sessVars, refused, clpc>>

\* ... the test of IsClose in sess.Close, ...
ChangeChecks(u) ==
  /\ chpc[u] = "close"
  /\ chpc' = [chpc EXCEPT ![u] = IF isclose THEN "notify" ELSE "closesock"]
  /\ UNCHANGED <<connVars, address, reconn, sig, closer, closeLock, sessVars, refused, clpc>>

\* ... socket.Close (on a nil socket, a panic), ...
ChangeCloses(u) ==
  /\ chpc[u] = "closesock"
  /\ sockOpen' = FALSE
  /\ chpc' = [chpc EXCEPT ![u] = IF sock = NoAddr THEN "panicked" ELSE "notify"]
  /\ UNCHANGED <<connVars, address, reconn, sig, closer, closeLock, life, isclose, sock, refused, clpc>>

\* ... and NotifyReconn.
ChangeNotifies(u) ==
  /\ chpc[u] = "notify"
  /\ reconn' = 1
  /\ chpc' = [chpc EXCEPT ![u] = "done"]
  /\ UNCHANGED <<connVars, address, sig, closer, closeLock, sessVars, refused, clpc>>

\* Connector.Send: NotifyReconn, and a push into the session's writer, which
\* Session models.
Send ==
  /\ reconn' = 1
  /\ UNCHANGED <<connVars, address, sig, closer, closeLock, sessVars, refused, userVars>>
-----------------------------------------------------------------------------
connect ==
  \/ ConnectStarts \/ ConnectChecks
  \/ BackoffClosed \/ BackoffNotified \/ BackoffTimer
  \/ DialSucceeds \/ DialError \/ DialledChecks
  \/ ConnectLocks \/ RestartBegins \/ RestartEnds \/ SessionEnded

Close(c) == CloseChecks(c) \/ CloseLocks(c) \/ CloseCloses(c) \/ CloseReturns(c)

ChangeAddr(u) == ChangeSets(u) \/ ChangeChecks(u) \/ ChangeCloses(u) \/ ChangeNotifies(u)

\* A panic outside a recover ends the process.
Crashed ==
  \/ \E c \in Closers : clpc[c] = "panicked"
  \/ \E u \in Changers : chpc[u] = "panicked"

Next ==
  \/ ~Crashed /\ connect
  \/ ~Crashed /\ Session
  \/ ~Crashed /\ \E c \in Closers : Close(c)
  \/ ~Crashed /\ \E u \in Changers : ChangeAddr(u)
  \/ ~Crashed /\ Send
  \/ Crashed /\ UNCHANGED vars

Spec == Init /\ [][Next]_vars

(***************************************************************************)
(* Fairness: goroutines run, timers fire, a session whose socket is closed *)
(* ends (SessionCloses of Session), and a call of Close or ChangeAddr that *)
(* has begun goes on; closeLock is granted to who waits for it.  Calls     *)
(* need not be made and the network need not close anything.               *)
(***************************************************************************)
Fairness ==
  /\ WF_vars(~Crashed /\ connect) /\ SF_vars(~Crashed /\ ConnectLocks)
  /\ WF_vars(~Crashed /\ Session /\ ~(life = "open" /\ sockOpen))
  /\ \A c \in Closers : /\ WF_vars(~Crashed /\ Close(c) /\ clpc[c] # "idle")
                        /\ SF_vars(~Crashed /\ CloseLocks(c))
  /\ \A u \in Changers : WF_vars(~Crashed /\ ChangeAddr(u) /\ chpc[u] # "idle")

FairSpec == Spec /\ Fairness
-----------------------------------------------------------------------------
TypeOK ==
  /\ cpc \in ConnectPC /\ wg \in {0, 1}
  /\ address \in Addrs /\ cn \in Addrs \cup {NoAddr}
  /\ reconnCount \in 0 .. MaxReconn /\ reconn \in {0, 1} /\ sig \in {0, 1}
  /\ closer \in BOOLEAN /\ closeLock \in {"free", "connect"} \cup Closers
  /\ life \in {"closed", "open", "closing", "quiet"} /\ isclose \in BOOLEAN
  /\ sock \in Addrs \cup {NoAddr} /\ sockOpen \in BOOLEAN /\ refused \in BOOLEAN
  /\ clpc \in [Closers -> CloserPC]
  /\ chpc \in [Changers -> ChangerPC]

(***************************************************************************)
(* Close is final: when it has returned after closing the connector, the   *)
(* session has ended, its socket is closed, no dialled connection is left  *)
(* over and connect has ended or will end at its first test.               *)
(***************************************************************************)
ClosedForGood ==
  (\E c \in Closers : clpc[c] = "returned") =>
    /\ life = "closed" /\ ~sockOpen /\ cn = NoAddr
    /\ cpc \in {"start", "check", "done"}

(***************************************************************************)
(* "when call Close, reconnect will stop" (connector.go:22): after the     *)
(* channel closer is closed, no incarnation of the session starts, however *)
(* late a dial succeeds.                                                   *)
(***************************************************************************)
NoRestartAfterClose == [][closer /\ life' = "open" => life = "open"]_vars

(***************************************************************************)
(* The connector and its session stay in step: connect calls restart only  *)
(* on a session that is closed (so the ignored error of restart never      *)
(* occurs and no connection leaks), and a token in sessCloseSignal belongs *)
(* to the incarnation connect is waiting for.                              *)
(***************************************************************************)
InStep ==
  /\ ~refused
  /\ sig = 1 => cpc = "waitsig" /\ life = "closed"
  /\ life # "closed" => cpc = "waitsig" /\ sig = 0

\* The inductive form of the invariants: connect is waiting exactly while
\* its session lives or its token is unread, ...
Waiting ==
  /\ InStep
  /\ cpc = "waitsig" => life # "closed" \/ sig = 1
  /\ isclose <=> life \in {"closed", "quiet"} /\ cpc # "restarting"
  /\ sockOpen => life = "open"

\* ... closeLock belongs to who is between Lock and Unlock, closer is not
\* closed while connect restarts the session, ...
Locking ==
  /\ closeLock = "connect" <=> cpc \in {"locked", "restarting"}
  /\ \A c \in Closers : clpc[c] \in {"close", "panicked"} => closeLock = c
  /\ cpc = "restarting" => ~closer

\* ... and what was dialled is handed over or closed before connect ends.
Cleaning ==
  /\ wg = 0 <=> cpc \in {"start", "done"}
  /\ cn # NoAddr => cpc \in {"dialled", "lock", "locked", "restarting"}
  /\ \A c \in Closers : clpc[c] \in {"wait", "returned"} => closer
  /\ (\E c \in Closers : clpc[c] = "returned") => cpc \in {"start", "check", "done"}

Life == INSTANCE SessionLife

(***************************************************************************)
(* The connector uses the session as SessionLife allows: it restarts it    *)
(* only when onclose has been called.                                      *)
(***************************************************************************)
LifeSpec == Life!Spec

(***************************************************************************)
(* A call of Close that found the connector open returns.                  *)
(***************************************************************************)
CloseTerminates ==
  \A c \in Closers : (clpc[c] = "lock") ~> (clpc[c] = "returned" \/ Crashed)

(***************************************************************************)
(* A connector whose session has ended is connected again, unless it is    *)
(* closed or its dials fail again and again (connector.go:53-96).          *)
(***************************************************************************)
Reconnects ==
  \/ []<><<DialError>>_vars
  \/ (life = "closed") ~> (life = "open" \/ closer \/ Crashed)

(***************************************************************************)
(* "when call send or changeAddr, it will NotifyReconn and reconnect at    *)
(* once" (connector.go:22): when dials succeed, after ChangeAddr the       *)
(* session is sooner or later connected to the new address.                *)
(***************************************************************************)
ReconnectsToNewAddr ==
  \A u \in Changers : (chpc[u] = "done") ~> (sockOpen /\ sock = address)
=============================================================================
