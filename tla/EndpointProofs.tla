--------------------------- MODULE EndpointProofs ---------------------------
(***************************************************************************)
(* Proofs about what sits at the ends of the network layer: the Connector, *)
(* for any number of callers of Close and ChangeAddr, any addresses and    *)
(* any back-off limits; the self-updating client of upgrade/, for any      *)
(* versions of any sizes and any number of failures, crashes and withdrawn *)
(* versions; the patterns of HttpService, for any patterns and paths.      *)
(***************************************************************************)
EXTENDS Connector, Upgrade, HttpMux, WellFoundedInduction, TLAPS
-----------------------------------------------------------------------------
(* The Connector *)

LEMMA Limits == MaxReconn \in Nat /\ ResetReconn \in 1 .. MaxReconn
BY ConnectorAssumption

LEMMA LockHolders == "connect" \notin Closers /\ "free" \notin Closers
BY ConnectorAssumption

LEMMA CountInRange == reconnCount \in 0 .. MaxReconn => NextReconnCount \in 0 .. MaxReconn
BY Limits DEF NextReconnCount

\* What connect, the session and the callers leave alone.
LEMMA ConnectFrame == connect => UNCHANGED <<address, closer, clpc, chpc>>
BY DEF connect, ConnectStarts, ConnectChecks, BackoffClosed, BackoffNotified, BackoffTimer,
       DialSucceeds, DialError, DialledChecks, ConnectLocks, RestartBegins, RestartEnds,
       SessionEnded, userVars

LEMMA SessionFrame ==
  Session => UNCHANGED <<cpc, wg, cn, reconnCount, address, reconn, closer, closeLock, sock,
                         refused, clpc, chpc>>
BY DEF Session, SessCloses, SessQuiet, SessSignals, connVars, userVars

LEMMA CloseFrame ==
  ASSUME NEW c \in Closers, Close(c)
  PROVE  UNCHANGED <<cpc, wg, cn, reconnCount, address, reconn, sig, life, isclose, sock,
                     refused, chpc>>
BY DEF Close, CloseChecks, CloseLocks, CloseCloses, CloseReturns, connVars, sessVars

LEMMA ChangeFrame ==
  ASSUME NEW u \in Changers, ChangeAddr(u)
  PROVE  UNCHANGED <<cpc, wg, cn, reconnCount, sig, closer, closeLock, life, isclose, sock,
                     refused, clpc>>
BY DEF ChangeAddr, ChangeSets, ChangeChecks, ChangeCloses, ChangeNotifies, connVars, sessVars
-----------------------------------------------------------------------------
(* Types.                                                                  *)

LEMMA ConnectType ==
  ASSUME TypeOK, connect
  PROVE  TypeOK'
<1>1. UNCHANGED <<address, closer, clpc, chpc>>
  BY ConnectFrame
<1>2. /\ cpc' \in ConnectPC /\ wg' \in {0, 1}
      /\ cn' \in Addrs \cup {NoAddr}
      /\ reconn' \in {0, 1} /\ sig' \in {0, 1}
      /\ closeLock' \in {"free", "connect"} \cup Closers
      /\ life' \in {"closed", "open", "closing", "quiet"}
      /\ sock' \in Addrs \cup {NoAddr}
  BY DEF TypeOK, ConnectPC, connect, ConnectStarts, ConnectChecks, BackoffClosed,
         BackoffNotified, BackoffTimer, DialSucceeds, DialError, DialledChecks, ConnectLocks,
         RestartBegins, RestartEnds, SessionEnded, sessVars
<1>3. reconnCount' \in 0 .. MaxReconn
  <2>1. reconnCount' \in {reconnCount, 0, NextReconnCount}
    BY DEF connect, ConnectStarts, ConnectChecks, BackoffClosed, BackoffNotified, BackoffTimer,
           DialSucceeds, DialError, DialledChecks, ConnectLocks, RestartBegins, RestartEnds,
           SessionEnded
  <2> QED
    BY <2>1, CountInRange, Limits DEF TypeOK
<1>4. isclose' \in BOOLEAN /\ sockOpen' \in BOOLEAN /\ refused' \in BOOLEAN
  BY DEF TypeOK, connect, ConnectStarts, ConnectChecks, BackoffClosed,
         BackoffNotified, BackoffTimer, DialSucceeds, DialError, DialledChecks, ConnectLocks,
         RestartBegins, RestartEnds, SessionEnded, sessVars
<1> QED
  BY <1>1, <1>2, <1>3, <1>4 DEF TypeOK

LEMMA SessionType ==
  ASSUME TypeOK, Session
  PROVE  TypeOK'
<1>1. sig' \in {0, 1} /\ life' \in {"closed", "open", "closing", "quiet"}
  BY DEF TypeOK, Session, SessCloses, SessQuiet, SessSignals
<1>2. isclose' \in BOOLEAN /\ sockOpen' \in BOOLEAN
  BY Zenon DEF TypeOK, Session, SessCloses, SessQuiet, SessSignals
<1> QED
  BY <1>1, <1>2, SessionFrame DEF TypeOK

LEMMA CloseType ==
  ASSUME TypeOK, NEW c \in Closers, Close(c)
  PROVE  TypeOK'
<1>1. clpc' \in [Closers -> CloserPC] /\ closeLock' \in {"free", "connect"} \cup Closers
  BY DEF TypeOK, CloserPC, Close, CloseChecks, CloseLocks, CloseCloses, CloseReturns
<1>2. closer' \in BOOLEAN /\ sockOpen' \in BOOLEAN
  BY Zenon DEF TypeOK, Close, CloseChecks, CloseLocks, CloseCloses, CloseReturns, sessVars
<1> QED
  BY <1>1, <1>2, CloseFrame DEF TypeOK

LEMMA ChangeType ==
  ASSUME TypeOK, NEW u \in Changers, ChangeAddr(u)
  PROVE  TypeOK'
<1>1. NewAddr[u] \in Addrs
  BY ConnectorAssumption
<1>2. chpc' \in [Changers -> ChangerPC] /\ address' \in Addrs /\ reconn' \in {0, 1}
  BY <1>1 DEF TypeOK, ChangerPC, ChangeAddr, ChangeSets, ChangeChecks, ChangeCloses, ChangeNotifies
<1>3. sockOpen' \in BOOLEAN
  BY Zenon DEF TypeOK, ChangeAddr, ChangeSets, ChangeChecks, ChangeCloses, ChangeNotifies, sessVars
<1> QED
  BY <1>2, <1>3, ChangeFrame DEF TypeOK

(***************************************************************************)
(* The fields of the connector keep their types: reconnCount, whose square *)
(* is the pause before the next dial, never passes its maximum             *)
(* (connector.go:66-69), and each signal channel holds at most one token.  *)
(***************************************************************************)
THEOREM TypeCorrect == Spec => []TypeOK
<1>1. Init => TypeOK
  <2> SUFFICES ASSUME Init PROVE TypeOK
    OBVIOUS
  <2>1. reconnCount \in 0 .. MaxReconn
    BY Limits DEF Init
  <2>2. closer \in BOOLEAN /\ isclose \in BOOLEAN /\ sockOpen \in BOOLEAN /\ refused \in BOOLEAN
    BY Zenon DEF Init
  <2>3. address \in Addrs
    BY ConnectorAssumption DEF Init
  <2> QED
    BY <2>1, <2>2, <2>3 DEF Init, TypeOK, ConnectPC, CloserPC, ChangerPC
<1>2. TypeOK /\ [Next]_vars => TypeOK'
  <2> SUFFICES ASSUME TypeOK, [Next]_vars PROVE TypeOK'
    OBVIOUS
  <2>1. CASE UNCHANGED vars
    BY <2>1 DEF vars, TypeOK
  <2>2. CASE Send
    BY <2>2 DEF Send, TypeOK, connVars, sessVars, userVars
  <2> QED
    BY <2>1, <2>2, ConnectType, SessionType, CloseType, ChangeType DEF Next
<1> QED
  BY <1>1, <1>2, PTL DEF Spec
-----------------------------------------------------------------------------
(* The inductive invariant.                                                *)

Inv == Waiting /\ Locking /\ Cleaning

LEMMA InvInit == Init => Inv
BY LockHolders DEF Init, Inv, Waiting, InStep, Locking, Cleaning

LEMMA InvConnect ==
  ASSUME TypeOK, Inv, connect
  PROVE  Inv'
<1>1. UNCHANGED <<closer, clpc>>
  BY ConnectFrame
<1>2. Waiting'
  <2> USE DEF TypeOK, Inv, Waiting, InStep, sessVars
  <2>1. CASE ConnectStarts
    BY <2>1 DEF ConnectStarts
  <2>2. CASE ConnectChecks
    BY <2>2 DEF ConnectChecks
  <2>3. CASE BackoffClosed
    BY <2>3 DEF BackoffClosed
  <2>4. CASE BackoffNotified
    BY <2>4 DEF BackoffNotified
  <2>5. CASE BackoffTimer
    BY <2>5 DEF BackoffTimer
  <2>6. CASE DialSucceeds
    BY <2>6 DEF DialSucceeds
  <2>7. CASE DialError
    BY <2>7 DEF DialError
  <2>8. CASE DialledChecks
    BY <2>8 DEF DialledChecks
  <2>9. CASE ConnectLocks
    BY <2>9 DEF ConnectLocks
  <2>10. CASE RestartBegins
    BY <2>10 DEF RestartBegins
  <2>11. CASE RestartEnds
    BY <2>11 DEF RestartEnds
  <2>12. CASE SessionEnded
    BY <2>12 DEF SessionEnded
  <2> QED
    BY <2>1, <2>2, <2>3, <2>4, <2>5, <2>6, <2>7, <2>8, <2>9, <2>10, <2>11, <2>12 DEF connect
<1>3. Locking'
  <2>1. \A c \in Closers : clpc[c] \in {"close", "panicked"} => closeLock' = c
    BY LockHolders
       DEF Inv, Locking, connect, ConnectStarts, ConnectChecks, BackoffClosed,
           BackoffNotified, BackoffTimer, DialSucceeds, DialError, DialledChecks, ConnectLocks,
           RestartBegins, RestartEnds, SessionEnded
  <2>2. /\ closeLock' = "connect" <=> cpc' \in {"locked", "restarting"}
        /\ cpc' = "restarting" => ~closer
    <3>1. CASE ConnectLocks \/ RestartEnds
      BY <3>1 DEF ConnectLocks, RestartEnds
    <3>2. CASE RestartBegins
      <4>1. closeLock = "connect"
        BY <3>2 DEF RestartBegins, Inv, Locking
      <4> QED
        BY <3>2, <4>1 DEF RestartBegins
    <3>3. CASE ~(ConnectLocks \/ RestartEnds \/ RestartBegins)
      <4>1. closeLock' = closeLock /\ cpc \notin {"locked", "restarting"}
                                  /\ cpc' \notin {"locked", "restarting"}
        BY <3>3 DEF connect, ConnectStarts, ConnectChecks, BackoffClosed, BackoffNotified,
                    BackoffTimer, DialSucceeds, DialError, DialledChecks, SessionEnded
      <4> QED
        BY <4>1 DEF Inv, Locking
    <3> QED
      BY <3>1, <3>2, <3>3
  <2> QED
    BY <1>1, <2>1, <2>2 DEF Locking
<1>4. Cleaning'
  <2>1. \/ cpc' = "done" /\ wg' = 0
        \/ cpc' \notin {"start", "done"} /\ wg' = 1
        \/ cpc' \notin {"start", "done"} /\ wg' = wg /\ cpc \notin {"start", "done"}
    BY DEF connect, ConnectStarts, ConnectChecks, BackoffClosed, BackoffNotified, BackoffTimer,
           DialSucceeds, DialError, DialledChecks, ConnectLocks, RestartBegins, RestartEnds,
           SessionEnded
  <2>3. wg' = 0 <=> cpc' \in {"start", "done"}
    BY <2>1 DEF Inv, Cleaning
  <2>4. \/ cn' = NoAddr
        \/ cpc' \in {"dialled", "lock", "locked", "restarting"}
        \/ cn' = cn /\ cpc \notin {"dialled", "lock", "locked", "restarting"}
        \/ refused'
    BY DEF connect, ConnectStarts, ConnectChecks, BackoffClosed, BackoffNotified, BackoffTimer,
           DialSucceeds, DialError, DialledChecks, ConnectLocks, RestartBegins, RestartEnds,
           SessionEnded
  <2>5. ~refused'
    BY <1>2 DEF Waiting, InStep
  <2>6. cn' # NoAddr => cpc' \in {"dialled", "lock", "locked", "restarting"}
    BY <2>4, <2>5 DEF Inv, Cleaning
  <2>2. cpc \in {"start", "check", "done"} /\ closer => cpc' \in {"start", "check", "done"}
    BY DEF connect, ConnectStarts, ConnectChecks, BackoffClosed,
           BackoffNotified, BackoffTimer, DialSucceeds, DialError, DialledChecks, ConnectLocks,
           RestartBegins, RestartEnds, SessionEnded
  <2> QED
    BY <1>1, <2>2, <2>3, <2>6 DEF Inv, Cleaning
<1> QED
  BY <1>2, <1>3, <1>4 DEF Inv

LEMMA InvSession ==
  ASSUME TypeOK, Inv, Session
  PROVE  Inv'
<1>1. Waiting'
  BY SessionFrame DEF TypeOK, Inv, Waiting, InStep, Session, SessCloses, SessQuiet, SessSignals
<1> QED
  BY <1>1, SessionFrame DEF Inv, Locking, Cleaning

LEMMA InvClose ==
  ASSUME TypeOK, Inv, NEW c \in Closers, Close(c)
  PROVE  Inv'
<1>1. Waiting'
  <2>1. sockOpen' => sockOpen
    BY Zenon DEF Close, CloseChecks, CloseLocks, CloseCloses, CloseReturns, sessVars
  <2> QED
    BY <2>1, CloseFrame DEF Inv, Waiting, InStep
<1>2. Locking'
  <2>1. CASE CloseCloses(c)
    <3>1. closeLock = c /\ cpc \notin {"locked", "restarting"} /\ cpc' = cpc
      BY <2>1, CloseFrame, LockHolders DEF CloseCloses, Inv, Locking
    <3>2. \A d \in Closers \ {c} : clpc[d] \notin {"close", "panicked"} /\ clpc'[d] = clpc[d]
      BY <2>1, <3>1 DEF CloseCloses, Inv, Locking, TypeOK
    <3>3. clpc'[c] \in {"close", "panicked"} => closeLock' = c
      BY <2>1, <3>1 DEF CloseCloses, TypeOK
    <3>4. closeLock' # "connect"
      BY <2>1, <3>1, LockHolders DEF CloseCloses
    <3> QED
      BY <3>1, <3>2, <3>3, <3>4 DEF Locking
  <2>2. CASE CloseLocks(c)
    <3>1. closeLock = "free" /\ closeLock' = c /\ cpc' = cpc /\ closer' = closer
      BY <2>2, CloseFrame DEF CloseLocks
    <3>2. \A d \in Closers \ {c} : clpc[d] \notin {"close", "panicked"} /\ clpc'[d] = clpc[d]
      BY <2>2, <3>1, LockHolders DEF CloseLocks, Inv, Locking, TypeOK
    <3> QED
      BY <3>1, <3>2, LockHolders DEF Inv, Locking
  <2>3. CASE CloseChecks(c) \/ CloseReturns(c)
    <3>1. UNCHANGED <<closeLock, closer, cpc>>
      BY <2>3, CloseFrame DEF CloseChecks, CloseReturns
    <3>2. \A d \in Closers : clpc'[d] \in {"close", "panicked"} => clpc[d] \in {"close", "panicked"}
      BY <2>3 DEF CloseChecks, CloseReturns, TypeOK
    <3> QED
      BY <3>1, <3>2 DEF Inv, Locking
  <2> QED
    BY <2>1, <2>2, <2>3 DEF Close
<1>3. Cleaning'
  <2>1. CASE CloseReturns(c)
    <3>1. cpc \in {"start", "done"} /\ closer /\ closer' = closer
      BY <2>1 DEF CloseReturns, Inv, Cleaning
    <3>2. \A d \in Closers : clpc'[d] = clpc[d] \/ d = c
      BY <2>1 DEF CloseReturns, TypeOK
    <3> QED
      BY <3>1, <3>2, CloseFrame DEF Inv, Cleaning
  <2>2. CASE CloseChecks(c) \/ CloseLocks(c) \/ CloseCloses(c)
    <3>1. closer => closer'
      BY <2>2, Zenon DEF CloseChecks, CloseLocks, CloseCloses
    <3>2. \A d \in Closers : /\ clpc'[d] = "returned" => clpc[d] = "returned"
                             /\ clpc'[d] = "wait" => clpc[d] = "wait" \/ closer'
      BY <2>2 DEF CloseChecks, CloseLocks, CloseCloses, TypeOK
    <3> QED
      BY <3>1, <3>2, CloseFrame DEF Inv, Cleaning
  <2> QED
    BY <2>1, <2>2 DEF Close
<1> QED
  BY <1>1, <1>2, <1>3 DEF Inv

LEMMA InvChange ==
  ASSUME TypeOK, Inv, NEW u \in Changers, ChangeAddr(u)
  PROVE  Inv'
<1>1. sockOpen' => sockOpen
  BY Zenon DEF ChangeAddr, ChangeSets, ChangeChecks, ChangeCloses, ChangeNotifies, sessVars
<1> QED
  BY <1>1, ChangeFrame DEF Inv, Waiting, InStep, Locking, Cleaning

LEMMA InvStep == TypeOK /\ Inv /\ [Next]_vars => Inv'
<1> SUFFICES ASSUME TypeOK, Inv, [Next]_vars PROVE Inv'
  OBVIOUS
<1>1. CASE UNCHANGED vars
  BY <1>1 DEF vars, Inv, Waiting, InStep, Locking, Cleaning
<1>2. CASE Send
  BY <1>2 DEF Send, Inv, Waiting, InStep, Locking, Cleaning, connVars, sessVars, userVars
<1> QED
  BY <1>1, <1>2, InvConnect, InvSession, InvClose, InvChange DEF Next

LEMMA InvHolds == Spec => []Inv
BY InvInit, InvStep, TypeCorrect, PTL DEF Spec
-----------------------------------------------------------------------------
(***************************************************************************)
(* connect restarts only a closed session, so the error restart may return *)
(* (connector.go:92, session.go:167) never occurs, and the token it takes  *)
(* from sessCloseSignal is that of the incarnation it waits for.           *)
(***************************************************************************)
THEOREM InStepHolds == Spec => []InStep
<1>1. Inv => InStep
  BY DEF Inv, Waiting
<1> QED
  BY <1>1, InvHolds, PTL

(***************************************************************************)
(* When Close has returned, the session is closed for good and no dialled  *)
(* connection is left open (connector.go:81-91, 124-136).                  *)
(***************************************************************************)
THEOREM ClosedForGoodHolds == Spec => []ClosedForGood
<1>1. TypeOK /\ Inv => ClosedForGood
  BY DEF TypeOK, Inv, Waiting, InStep, Cleaning, ClosedForGood
<1> QED
  BY <1>1, InvHolds, TypeCorrect, PTL

(***************************************************************************)
(* "when call Close, reconnect will stop" (connector.go:22): no session is *)
(* restarted once closer is closed.                                        *)
(***************************************************************************)
THEOREM NoRestartAfterCloseHolds == Spec => NoRestartAfterClose
<1>1. Inv /\ [Next]_vars => [closer /\ life' = "open" => life = "open"]_vars
  <2> SUFFICES ASSUME Inv, Next, closer, life' = "open" PROVE life = "open"
    OBVIOUS
  <2>1. CASE connect
    BY <2>1 DEF Inv, Locking, connect, ConnectStarts, ConnectChecks, BackoffClosed,
           BackoffNotified, BackoffTimer, DialSucceeds, DialError, DialledChecks, ConnectLocks,
           RestartBegins, RestartEnds, SessionEnded, sessVars
  <2>2. CASE Session
    BY <2>2 DEF Session, SessCloses, SessQuiet, SessSignals
  <2>3. CASE Send \/ UNCHANGED vars
    BY <2>3, Zenon DEF Send, vars, sessVars
  <2> QED
    BY <2>1, <2>2, <2>3, CloseFrame, ChangeFrame, Zenon DEF Next
<1> QED
  BY <1>1, InvHolds, PTL DEF Spec, NoRestartAfterClose

(***************************************************************************)
(* The connector respects the life of its session: every step it takes is  *)
(* one SessionLife allows.                                                 *)
(***************************************************************************)
THEOREM ConnectorRespectsLife == Spec => LifeSpec
<1>1. Init => Life!Init
  BY DEF Init, Life!Init
<1>2. Inv /\ [Next]_vars => [Life!Next]_life
  <2> SUFFICES ASSUME Inv, [Next]_vars, life' # life PROVE Life!Next
    OBVIOUS
  <2>1. CASE connect
    BY <2>1 DEF Inv, Waiting, InStep, Life!Next, Life!Restart, connect, ConnectStarts,
           ConnectChecks, BackoffClosed, BackoffNotified, BackoffTimer, DialSucceeds, DialError,
           DialledChecks, ConnectLocks, RestartBegins, RestartEnds, SessionEnded, sessVars
  <2>2. CASE Session
    BY <2>2 DEF Session, SessCloses, SessQuiet, SessSignals, Life!Next, Life!Closing, Life!Quiet,
           Life!Closed
  <2>3. CASE Send \/ UNCHANGED vars
    BY <2>3 DEF Send, vars, sessVars
  <2> QED
    BY <2>1, <2>2, <2>3, CloseFrame, ChangeFrame DEF Next
<1> QED
  BY <1>1, <1>2, InvHolds, PTL DEF Spec, LifeSpec, Life!Spec
-----------------------------------------------------------------------------
(* The self-updating client.                                               *)

Fetching == clientpc \in {"more", "write", "update", "exit"}

\* The buffer of getRemoteFile holds pieces of one version, as many as fileIdx counts, and the total that
\* the first answer gave is the version's size unless the server had not got it yet.
Fetched ==
  Fetching =>
    /\ info.ver \in Versions /\ info.total \in 1 .. Size[info.ver]
    /\ info.total = Size[info.ver] \/ info.ver \in early
    /\ fileIdx \in 1 .. info.total /\ (clientpc # "more" => fileIdx = info.total)
    /\ fileBuf \in [1 .. info.total -> Nat] /\ \A i \in 1 .. fileIdx : fileBuf[i] = info.ver

\* The client and update never run together, a client has its program, and update has a good .new.
Handover ==
  /\ clientpc # "ask" => running # 0
  /\ running # 0 => bin # NoFile /\ running = bin[1]
  /\ updater # "none" => running = 0
  /\ clientpc \in {"update", "exit"} => new = fileBuf
  /\ updater \in {"check", "delete", "move"} => Runs(new, early)
  /\ updater = "move" => bin = NoFile
  /\ updater = "exe" => bin # NoFile

KeptInv == UpTypeOK /\ ProgramKept /\ Fetched /\ Handover

-----------------------------------------------------------------------------
(* Files *)

LEMMA RunsFacts ==
  ASSUME NEW f, NEW e, Runs(f, e)
  PROVE  f # NoFile /\ 1 \in DOMAIN f /\ f[1] \in Versions
<1>1. PICK v \in Versions : \E n \in 1 .. Size[v] : f = Image(v, n)
  BY DEF Runs
<1>2. PICK n \in 1 .. Size[v] : f = Image(v, n)
  BY <1>1
<1>3. Size[v] \in Nat
  BY VersionsAssumption
<1>4. 1 \in DOMAIN f /\ f[1] = v
  BY <1>2, <1>3 DEF Image
<1>5. DOMAIN NoFile = {}
  BY DEF NoFile
<1> QED
  BY <1>4, <1>5

LEMMA RunsLater ==
  ASSUME NEW f, NEW d, NEW e, d \subseteq e, Runs(f, d)
  PROVE  Runs(f, e)
BY DEF Runs

LEMMA WholeRuns ==
  ASSUME NEW v \in Versions, NEW e
  PROVE  Runs(Image(v, Size[v]), e)
BY VersionsAssumption DEF Runs

\* What getRemoteFile returns can be run.
LEMMA FetchedRuns ==
  ASSUME Fetched, clientpc \in {"write", "update", "exit"}
  PROVE  Runs(fileBuf, early) /\ fileBuf[1] = info.ver
<1>1. /\ info.ver \in Versions /\ info.total \in 1 .. Size[info.ver] /\ fileIdx = info.total
      /\ info.total = Size[info.ver] \/ info.ver \in early
      /\ fileBuf \in [1 .. info.total -> Nat] /\ \A i \in 1 .. info.total : fileBuf[i] = info.ver
  BY DEF Fetched, Fetching
<1>2. fileBuf = Image(info.ver, info.total)
  BY <1>1 DEF Image
<1>3. 1 \in 1 .. info.total
  BY <1>1, VersionsAssumption
<1> QED
  BY <1>1, <1>2, <1>3 DEF Runs

-----------------------------------------------------------------------------
(* Every step keeps KeptInv. *)

\* What the server does to its files concerns nobody else.
LEMMA ServerKeeps ==
  ASSUME KeptInv, (\E v \in Versions : Publish(v) \/ Copy(v) \/ Withdraw(v)) \/ versionMoniter
  PROVE  KeptInv'
<1>1. UNCHANGED <<early, running, clientpc, newVer, info, fileBuf, fileIdx, bin, new, updater, faults, crashes>>
  BY DEF Publish, Copy, Withdraw, versionMoniter, upClient, upDisk, upCounts
<1>2. /\ stored' \in [Versions -> Nat] /\ \A v \in Versions : stored'[v] <= Size[v]
      /\ verMap' \in Versions \cup {0} /\ removed' \subseteq Versions
  <2>1. /\ stored \in [Versions -> Nat] /\ \A v \in Versions : stored[v] <= Size[v] /\ Size[v] \in Nat
        /\ verMap \in Versions \cup {0} /\ removed \subseteq Versions
    BY VersionsAssumption DEF KeptInv, UpTypeOK
  <2>2. CASE versionMoniter
    BY <2>1, <2>2 DEF versionMoniter
  <2>3. CASE \E v \in Versions : Publish(v) \/ Copy(v) \/ Withdraw(v)
    <3>1. PICK v \in Versions : Publish(v) \/ Copy(v) \/ Withdraw(v)
      BY <2>3
    <3>2. verMap' = verMap /\ removed' \in {removed, removed \cup {v}}
      BY <3>1 DEF Publish, Copy, Withdraw
    <3>3. PICK n \in 0 .. Size[v] : stored' = [stored EXCEPT ![v] = n]
      BY <2>1, <3>1 DEF Publish, Copy, Withdraw
    <3>4. \A u \in Versions : stored'[u] = IF u = v THEN n ELSE stored[u]
      BY <2>1, <3>3
    <3> QED
      BY <2>1, <3>2, <3>3, <3>4
  <2> QED
    BY <2>2, <2>3
<1>3. UpTypeOK'
  BY <1>1, <1>2 DEF KeptInv, UpTypeOK
<1>4. ProgramKept'
  BY <1>1 DEF KeptInv, ProgramKept
<1>5. Fetched'
  BY <1>1 DEF KeptInv, Fetched, Fetching
<1>6. Handover'
  BY <1>1 DEF KeptInv, Handover
<1> QED
  BY <1>3, <1>4, <1>5, <1>6 DEF KeptInv

\* A goroutine that gives up changes nothing but its place, and one that asks nothing but newVer.
LEMMA IdleKeeps ==
  ASSUME KeptInv,
         clientpc' = "ask" \/ (clientpc = "ask" /\ running # 0 /\ clientpc' = "first"),
         newVer' \in Versions \cup {0}, faults' \in Nat,
         UNCHANGED <<upServer, running, info, fileBuf, fileIdx, bin, new, updater, crashes>>
  PROVE  KeptInv'
<1>1. UpTypeOK'
  BY DEF KeptInv, UpTypeOK, upServer
<1>2. ProgramKept'
  BY DEF KeptInv, ProgramKept, upServer
<1>3. Fetched'
  BY DEF Fetched, Fetching
<1>4. Handover'
  BY DEF KeptInv, Handover, upServer
<1> QED
  BY <1>1, <1>2, <1>3, <1>4 DEF KeptInv

LEMMA AskKeeps ==
  ASSUME KeptInv, AskVersion
  PROVE  KeptInv'
<1>1. newVer' \in Versions \cup {0} /\ faults' \in Nat
  BY DEF KeptInv, UpTypeOK, AskVersion, upCounts
<1> QED
  BY <1>1, IdleKeeps DEF AskVersion, upDisk, upCounts

LEMMA GiveUpKeeps ==
  ASSUME KeptInv, GiveUp, faults' \in Nat, UNCHANGED <<upServer, upDisk, updater, crashes>>
  PROVE  KeptInv'
<1>1. newVer' \in Versions \cup {0}
  BY DEF KeptInv, UpTypeOK, GiveUp
<1> QED
  BY <1>1, IdleKeeps DEF GiveUp, upDisk

LEMMA FailsCounts ==
  ASSUME UpTypeOK, Fails
  PROVE  faults' \in Nat /\ UNCHANGED crashes
BY DEF UpTypeOK, Fails

LEMMA EarlyGrows ==
  ASSUME UpTypeOK, verMap # 0, Reads
  PROVE  early \subseteq early' /\ early' \subseteq Versions /\ (stored[verMap] = Size[verMap] \/ verMap \in early')
<1>1. verMap \in Versions /\ stored[verMap] \in Nat /\ Size[verMap] \in Nat /\ stored[verMap] <= Size[verMap]
  BY VersionsAssumption DEF UpTypeOK
<1> QED
  BY <1>1 DEF UpTypeOK, Reads

\* Reading adds to early only, so what can be run stays so.
LEMMA PieceKeeps ==
  ASSUME KeptInv, early \subseteq early', clientpc # "ask", clientpc' = "more",
         UNCHANGED <<running, bin, new, updater>>
  PROVE  ProgramKept' /\ Handover'
<1>1. ProgramKept'
  BY RunsLater DEF KeptInv, ProgramKept
<1>2. Handover'
  BY RunsLater DEF KeptInv, Handover
<1> QED
  BY <1>1, <1>2

\* In the three lemmas below a call that is not answered ends in GiveUp.
LEMMA FirstKeeps ==
  ASSUME KeptInv, FirstPiece
  PROVE  KeptInv'
<1>1. CASE GiveUp /\ faults' \in Nat /\ UNCHANGED <<upServer, crashes>>
  BY <1>1, GiveUpKeeps DEF FirstPiece
<1>2. ASSUME Served(0), Reads,
             info' = [ver |-> verMap, total |-> stored[verMap]],
             fileBuf' = [i \in 1 .. stored[verMap] |-> IF i = 1 THEN verMap ELSE 0],
             fileIdx' = 1, clientpc' = "more",
             UNCHANGED <<stored, verMap, removed, running, newVer, faults, crashes>>
      PROVE  KeptInv'
  <2>1. UNCHANGED <<bin, new, updater>> /\ clientpc = "first"
    BY DEF FirstPiece, upDisk
  <2>2. /\ verMap \in Versions /\ stored[verMap] \in Nat /\ stored[verMap] > 0
        /\ stored[verMap] <= Size[verMap] /\ verMap \in Nat /\ Size[verMap] \in Nat
    BY <1>2, VersionsAssumption DEF KeptInv, UpTypeOK, Served
  <2>3. early \subseteq early' /\ early' \subseteq Versions /\ (stored[verMap] = Size[verMap] \/ verMap \in early')
    BY <1>2, EarlyGrows DEF KeptInv, Served
  <2>4. UpTypeOK'
    BY <1>2, <2>1, <2>2, <2>3 DEF KeptInv, UpTypeOK
  <2>5. Fetched'
    <3>1. info'.ver = verMap /\ info'.total = stored[verMap]
      BY <1>2
    <3>2. fileBuf' \in [1 .. info'.total -> Nat] /\ \A i \in 1 .. fileIdx' : fileBuf'[i] = info'.ver
      BY <1>2, <2>2, <3>1
    <3> QED
      BY <1>2, <2>2, <2>3, <3>1, <3>2 DEF Fetched, Fetching
  <2> QED
    BY <1>2, <2>1, <2>3, <2>4, <2>5, PieceKeeps DEF KeptInv
<1> QED
  BY <1>1, <1>2, FailsCounts DEF KeptInv, UpTypeOK, FirstPiece, upCounts

LEMMA NextKeeps ==
  ASSUME KeptInv, NextPiece
  PROVE  KeptInv'
<1>1. CASE GiveUp /\ faults' \in Nat /\ UNCHANGED <<upServer, crashes>>
  BY <1>1, GiveUpKeeps DEF NextPiece
<1>2. ASSUME Served(fileIdx), verMap = info.ver, Reads,
             fileBuf' = [fileBuf EXCEPT ![fileIdx + 1] = verMap], fileIdx' = fileIdx + 1,
             UNCHANGED <<stored, verMap, removed, running, clientpc, newVer, info, faults, crashes>>
      PROVE  KeptInv'
  <2>1. UNCHANGED <<bin, new, updater>> /\ clientpc = "more" /\ fileIdx < info.total
    BY DEF NextPiece, upDisk
  <2>2. early \subseteq early' /\ early' \subseteq Versions
    BY <1>2, EarlyGrows DEF KeptInv, Served
  <2>3. UpTypeOK'
    BY <1>2, <2>1, <2>2 DEF KeptInv, UpTypeOK
  <2>4. Fetched'
    <3>1. /\ info.ver \in Versions /\ info.total \in 1 .. Size[info.ver] /\ fileIdx \in 1 .. info.total
          /\ info.total = Size[info.ver] \/ info.ver \in early
          /\ fileBuf \in [1 .. info.total -> Nat] /\ \A i \in 1 .. fileIdx : fileBuf[i] = info.ver
      BY <2>1 DEF KeptInv, Fetched, Fetching
    <3>2. info.ver \in Nat /\ info.total \in Nat /\ fileIdx + 1 \in 1 .. info.total
      BY <2>1, <3>1, VersionsAssumption
    <3>3. fileBuf' \in [1 .. info.total -> Nat] /\ \A i \in 1 .. fileIdx + 1 : fileBuf'[i] = info.ver
      BY <1>2, <3>1, <3>2
    <3> QED
      BY <1>2, <2>1, <2>2, <3>1, <3>2, <3>3 DEF Fetched, Fetching
  <2> QED
    BY <1>2, <2>1, <2>2, <2>3, <2>4, PieceKeeps DEF KeptInv
<1> QED
  BY <1>1, <1>2, FailsCounts DEF KeptInv, UpTypeOK, NextPiece, upCounts

\* The .new is truncated and written while the program is there.
LEMMA WriteKeeps ==
  ASSUME KeptInv, CreateNew \/ WriteNew
  PROVE  KeptInv'
<1>1. UNCHANGED <<upServer, running, newVer, info, fileBuf, fileIdx, bin, updater, crashes>> /\ faults' \in Nat
  BY FailsCounts DEF KeptInv, UpTypeOK, CreateNew, WriteNew, GiveUp, upCounts
<1>2. running # 0 /\ bin # NoFile /\ updater = "none" /\ clientpc \in {"more", "write"}
  BY DEF KeptInv, Handover, CreateNew, WriteNew
<1>3. \/ clientpc = "more" /\ fileIdx = info.total /\ clientpc' = "write"
      \/ clientpc = "write" /\ clientpc' = "update" /\ new' = fileBuf
      \/ clientpc' = "ask"
  BY DEF CreateNew, WriteNew, GiveUp
<1>4. UpTypeOK'
  BY <1>1, <1>3 DEF KeptInv, UpTypeOK, upServer
<1>5. ProgramKept'
  BY <1>1, <1>2 DEF KeptInv, ProgramKept, upServer
<1>6. Fetched'
  BY <1>1, <1>2, <1>3 DEF KeptInv, Fetched, Fetching, upServer
<1>7. Handover'
  BY <1>1, <1>2, <1>3 DEF KeptInv, Handover
<1> QED
  BY <1>4, <1>5, <1>6, <1>7 DEF KeptInv

LEMMA FetchUpdateKeeps ==
  ASSUME KeptInv, FetchUpdate
  PROVE  KeptInv'
<1>1. CASE Fails /\ GiveUp
  BY <1>1, GiveUpKeeps, FailsCounts DEF KeptInv, FetchUpdate
<1>2. CASE clientpc' = "exit" /\ UNCHANGED <<running, newVer, info, fileBuf, fileIdx, upCounts>>
  <2>1. clientpc = "update" /\ UNCHANGED <<upServer, bin, new, updater>>
    BY DEF FetchUpdate, upDisk
  <2>2. UpTypeOK' /\ ProgramKept'
    BY <1>2, <2>1 DEF KeptInv, UpTypeOK, ProgramKept, upServer, upCounts
  <2>3. Fetched'
    BY <1>2, <2>1 DEF KeptInv, Fetched, Fetching, upServer
  <2>4. Handover'
    BY <1>2, <2>1 DEF KeptInv, Handover, upServer
  <2> QED
    BY <2>2, <2>3, <2>4 DEF KeptInv
<1> QED
  BY <1>1, <1>2 DEF FetchUpdate

\* The client ends, by itself or not.
LEMMA EndKeeps ==
  ASSUME KeptInv, ExitAndUpdate \/ Crash
  PROVE  KeptInv'
<1>1. UNCHANGED <<upServer, newVer, info, fileBuf, fileIdx, bin, new>> /\ running' = 0 /\ clientpc' = "ask"
  BY DEF ExitAndUpdate, Crash, upDisk
<1>2. faults' \in Nat /\ crashes' \in Nat
  BY FailsCounts DEF KeptInv, UpTypeOK, ExitAndUpdate, Crash, upCounts
<1>3. updater' = "none" \/ updater' = updater \/ (clientpc = "exit" /\ updater' = "check")
  BY DEF ExitAndUpdate, Crash
<1>4. clientpc = "exit" => Runs(new, early)
  BY FetchedRuns DEF KeptInv, Handover
<1>5. UpTypeOK' /\ ProgramKept'
  BY <1>1, <1>2, <1>3 DEF KeptInv, UpTypeOK, ProgramKept, upServer
<1>6. Fetched'
  BY <1>1 DEF Fetched, Fetching
<1>7. Handover'
  BY <1>1, <1>3, <1>4 DEF KeptInv, Handover, upServer
<1> QED
  BY <1>5, <1>6, <1>7 DEF KeptInv

\* The program is started, by hand or by update.
LEMMA StartKeeps ==
  ASSUME KeptInv, Start \/ UpdateExe
  PROVE  KeptInv'
<1>1. /\ UNCHANGED <<upServer, clientpc, newVer, info, fileBuf, fileIdx, bin, new>>
      /\ running' \in {running, bin[1]} /\ updater' = "none" /\ running = 0 /\ bin # NoFile
  BY DEF KeptInv, Handover, Start, UpdateExe, upDisk
<1>2. faults' \in Nat /\ crashes' \in Nat
  BY FailsCounts DEF KeptInv, UpTypeOK, Start, UpdateExe, upCounts
<1>3. bin[1] \in Versions /\ bin[1] # 0
  BY <1>1, RunsFacts, VersionsAssumption DEF KeptInv, ProgramKept
<1>4. clientpc = "ask"
  BY <1>1 DEF KeptInv, Handover
<1>5. UpTypeOK' /\ ProgramKept'
  BY <1>1, <1>2, <1>3 DEF KeptInv, UpTypeOK, ProgramKept, upServer
<1>6. Fetched'
  BY <1>1, <1>4 DEF Fetched, Fetching
<1>7. Handover'
  BY <1>1, <1>3, <1>4 DEF KeptInv, Handover
<1> QED
  BY <1>5, <1>6, <1>7 DEF KeptInv

\* FileDelete takes the program away only when the .new can be run, and FileMove makes that the program.
LEMMA UpdateKeeps ==
  ASSUME KeptInv, UpdateCheck \/ UpdateDelete \/ UpdateMove
  PROVE  KeptInv'
<1>1. UNCHANGED <<upServer, running, clientpc, newVer, info, fileBuf, fileIdx>> /\ running = 0 /\ clientpc = "ask"
  BY DEF KeptInv, Handover, UpdateCheck, UpdateDelete, UpdateMove, upClient
<1>2. faults' \in Nat /\ crashes' \in Nat
  BY FailsCounts DEF KeptInv, UpTypeOK, UpdateCheck, UpdateDelete, UpdateMove, upCounts
<1>3. Runs(new, early) /\ new # NoFile
  BY RunsFacts DEF KeptInv, Handover, UpdateCheck, UpdateDelete, UpdateMove
<1>4. \/ UNCHANGED <<bin, new>> /\ (updater' = "none" \/ (updater = "check" /\ updater' = "delete"))
      \/ bin' = NoFile /\ new' = new /\ updater' = "move"
      \/ bin' = new /\ updater' = "exe"
  BY DEF UpdateCheck, UpdateDelete, UpdateMove, upDisk
<1>5. UpTypeOK'
  BY <1>1, <1>2, <1>4 DEF KeptInv, UpTypeOK, upServer
<1>6. ProgramKept'
  BY <1>1, <1>3, <1>4 DEF KeptInv, ProgramKept, upServer
<1>7. Fetched'
  BY <1>1 DEF Fetched, Fetching
<1>8. Handover'
  BY <1>1, <1>3, <1>4 DEF KeptInv, Handover, upServer
<1> QED
  BY <1>5, <1>6, <1>7, <1>8 DEF KeptInv

LEMMA KeptInit == UpInit => KeptInv
<1> SUFFICES ASSUME UpInit PROVE KeptInv
  OBVIOUS
<1>1. running \in Versions /\ running # 0 /\ bin = Image(running, Size[running])
  BY VersionsAssumption DEF UpInit
<1>2. Runs(bin, early)
  BY <1>1, WholeRuns
<1>3. bin # NoFile /\ running = bin[1]
  <2>1. 1 \in 1 .. Size[running]
    BY <1>1, VersionsAssumption
  <2> QED
    BY <1>1, <1>2, <2>1, RunsFacts, Zenon DEF Image
<1>4. UpTypeOK
  BY VersionsAssumption DEF UpInit, UpTypeOK
<1> QED
  BY <1>2, <1>3, <1>4 DEF UpInit, KeptInv, ProgramKept, Fetched, Fetching, Handover

LEMMA KeptStep == KeptInv /\ [UpNext]_upVars => KeptInv'
<1> SUFFICES ASSUME KeptInv, [UpNext]_upVars PROVE KeptInv'
  OBVIOUS
<1>1. CASE UNCHANGED upVars
  <2>1. UNCHANGED <<stored, verMap, removed, early, running, clientpc, newVer, info, fileBuf, fileIdx, bin, new, updater, faults, crashes>>
    BY <1>1 DEF upVars, upServer, upClient, upDisk, upCounts
  <2>2. UpTypeOK'
    BY <2>1 DEF KeptInv, UpTypeOK
  <2>3. ProgramKept'
    BY <2>1, Zenon DEF KeptInv, ProgramKept
  <2>4. Fetched' /\ Handover'
    BY <2>1, Zenon DEF KeptInv, Fetched, Fetching, Handover
  <2> QED
    BY <2>2, <2>3, <2>4 DEF KeptInv
<1>2. CASE UpNext
  BY <1>2, ServerKeeps, AskKeeps, FirstKeeps, NextKeeps, WriteKeeps, FetchUpdateKeeps, EndKeeps, StartKeeps,
     UpdateKeeps, Zenon DEF UpNext
<1> QED
  BY <1>1, <1>2

\* At every moment the client's machine has a program that can be run: the program itself, or, between
\* FileDelete and FileMove of Update, the .new that getRemoteFile has fetched.
THEOREM ProgramIsKept == UpSpec => []ProgramKept
<1>1. KeptInv => ProgramKept
  BY DEF KeptInv
<1> QED
  BY <1>1, KeptInit, KeptStep, PTL DEF UpSpec

\* The states of the client and the server are of their types.
THEOREM UpTypeCorrect == UpSpec => []UpTypeOK
<1>1. KeptInv => UpTypeOK
  BY DEF KeptInv
<1> QED
  BY <1>1, KeptInit, KeptStep, PTL DEF UpSpec

-----------------------------------------------------------------------------
(* Updates go up. *)

\* While nothing is withdrawn, the server's version only grows, so what is fetched is not older than newVer.
Rising ==
  removed = {} =>
    /\ verMap # 0 => stored[verMap] > 0
    /\ clientpc # "ask" => newVer > running /\ verMap >= newVer
    /\ Fetching => info.ver >= newVer
    /\ NeverDowngrade

LEMMA ServerRises ==
  ASSUME KeptInv, Rising, (\E v \in Versions : Publish(v) \/ Copy(v) \/ Withdraw(v)) \/ versionMoniter
  PROVE  Rising'
<1> SUFFICES ASSUME removed' = {} PROVE Rising'
  BY DEF Rising
<1>1. UNCHANGED <<running, clientpc, newVer, info, bin, new, updater>>
  BY DEF Publish, Copy, Withdraw, versionMoniter, upClient, upDisk
<1>2. removed = {} /\ ~ \E v \in Versions : Withdraw(v)
  BY DEF Publish, Copy, Withdraw, versionMoniter
<1>3. /\ stored \in [Versions -> Nat] /\ Versions \subseteq Nat /\ verMap \in Versions \cup {0}
      /\ newVer \in Nat /\ (verMap # 0 => stored[verMap] > 0) /\ Size \in [Versions -> Nat \ {0}]
  BY <1>2, VersionsAssumption DEF KeptInv, UpTypeOK, Rising
<1>4. (verMap' # 0 => stored'[verMap'] > 0) /\ verMap' \in Nat /\ verMap' >= verMap
  <2>1. CASE versionMoniter
    BY <1>3, <2>1 DEF versionMoniter
  <2>2. CASE \E v \in Versions : Publish(v) \/ Copy(v)
    <3>1. PICK v \in Versions : Publish(v) \/ Copy(v)
      BY <2>2
    <3>2. PICK n \in Nat \ {0} : stored' = [stored EXCEPT ![v] = n] /\ verMap' = verMap
      BY <1>3, <3>1 DEF Publish, Copy
    <3> QED
      BY <1>3, <3>2
  <2> QED
    BY <1>2, <2>1, <2>2
<1>5. NeverDowngrade'
  BY <1>1, <1>2 DEF Rising, NeverDowngrade
<1> QED
  BY <1>1, <1>2, <1>3, <1>4, <1>5 DEF Rising, Fetching

LEMMA ClientRises ==
  ASSUME KeptInv, Rising, AskVersion \/ FirstPiece \/ NextPiece \/ CreateNew \/ WriteNew \/ FetchUpdate
  PROVE  Rising'
<1> SUFFICES ASSUME removed = {}, removed' = {} PROVE Rising'
  BY DEF Rising, AskVersion, FirstPiece, NextPiece, CreateNew, WriteNew, FetchUpdate, upServer
<1>1. UNCHANGED <<stored, verMap, running, bin, updater>> /\ running # 0 /\ updater = "none"
  BY DEF KeptInv, Handover, AskVersion, FirstPiece, NextPiece, CreateNew, WriteNew, FetchUpdate, GiveUp, upServer, upDisk
<1>2. running \in Nat /\ verMap \in Nat /\ newVer \in Nat
  BY VersionsAssumption DEF KeptInv, UpTypeOK
<1>3. \/ clientpc' = "ask"
      \/ newVer' = verMap /\ verMap > running /\ clientpc' = "first"
      \/ clientpc # "ask" /\ newVer' = newVer /\ info'.ver = verMap
      \/ Fetching /\ newVer' = newVer /\ info' = info
  <2>1. CASE AskVersion
    BY <2>1 DEF AskVersion
  <2>2. CASE FirstPiece
    <3>1. \/ clientpc' = "ask"
          \/ clientpc = "first" /\ newVer' = newVer /\ info' = [ver |-> verMap, total |-> stored[verMap]]
      BY <2>2, Zenon DEF FirstPiece, GiveUp
    <3> QED
      BY <3>1
  <2>3. CASE NextPiece
    BY <2>3 DEF NextPiece, GiveUp, Fetching
  <2>4. CASE CreateNew
    BY <2>4 DEF CreateNew, Fetching
  <2>5. CASE WriteNew
    BY <2>5 DEF WriteNew, GiveUp, Fetching
  <2>6. CASE FetchUpdate
    BY <2>6 DEF FetchUpdate, GiveUp, Fetching
  <2> QED
    BY <2>1, <2>2, <2>3, <2>4, <2>5, <2>6
<1>4. NeverDowngrade'
  BY <1>1 DEF NeverDowngrade
<1> QED
  BY <1>1, <1>2, <1>3, <1>4 DEF Rising, Fetching

LEMMA UpdateRises ==
  ASSUME KeptInv, Rising,
         ExitAndUpdate \/ Crash \/ Start \/ UpdateCheck \/ UpdateDelete \/ UpdateMove \/ UpdateExe
  PROVE  Rising'
<1> SUFFICES ASSUME removed = {}, removed' = {} PROVE Rising'
  BY DEF Rising, ExitAndUpdate, Crash, Start, UpdateCheck, UpdateDelete, UpdateMove, UpdateExe, upServer
<1>1. UNCHANGED <<stored, verMap>> /\ clientpc' = "ask"
  BY DEF KeptInv, Handover, ExitAndUpdate, Crash, Start, UpdateCheck, UpdateDelete, UpdateMove, UpdateExe, upServer, upClient
<1>2. NeverDowngrade'
  <2>1. CASE ExitAndUpdate
    <3>1. new[1] = info.ver /\ running = bin[1] /\ UNCHANGED <<bin, new>>
      BY <2>1, FetchedRuns DEF KeptInv, Handover, ExitAndUpdate, upDisk
    <3>2. newVer > running /\ info.ver >= newVer
      BY <2>1 DEF Rising, Fetching, KeptInv, ExitAndUpdate
    <3>3. running \in Nat /\ newVer \in Nat /\ info.ver \in Nat
      <4>1. info.ver \in Versions
        BY <2>1 DEF KeptInv, Fetched, Fetching, ExitAndUpdate
      <4>2. running \in Versions \cup {0} /\ newVer \in Versions \cup {0}
        BY DEF KeptInv, UpTypeOK
      <4>3. info.ver \in Nat
        BY <4>1, VersionsAssumption, Zenon
      <4>4. running \in Nat /\ newVer \in Nat
        BY <4>2, VersionsAssumption
      <4> QED
        BY <4>3, <4>4
    <3> QED
      BY <3>1, <3>2, <3>3 DEF NeverDowngrade
  <2>2. CASE Crash \/ Start \/ UpdateCheck \/ UpdateDelete \/ UpdateMove \/ UpdateExe
    BY <2>2 DEF Rising, NeverDowngrade, Crash, Start, UpdateCheck, UpdateDelete, UpdateMove, UpdateExe, upDisk
  <2> QED
    BY <2>1, <2>2
<1> QED
  BY <1>1, <1>2 DEF Rising, Fetching

\* While no version is withdrawn, update replaces the program by a higher version only: the file that
\* getRemoteFile gets is at least the version that GetLastedVersion had promised.
THEOREM UpdatesGoUp == UpSpec => []NeverDowngrade
<1>1. UpInit => KeptInv /\ Rising
  BY KeptInit DEF UpInit, Rising, Fetching, NeverDowngrade
<1>2. KeptInv /\ Rising /\ [UpNext]_upVars => KeptInv' /\ Rising'
  <2> SUFFICES ASSUME KeptInv, Rising, [UpNext]_upVars PROVE Rising'
    BY KeptStep
  <2>1. CASE UNCHANGED upVars
    BY <2>1 DEF Rising, Fetching, NeverDowngrade, upVars, upServer, upClient, upDisk
  <2>2. CASE UpNext
    BY <2>2, ServerRises, ClientRises, UpdateRises DEF UpNext
  <2> QED
    BY <2>1, <2>2
<1>3. Rising => NeverDowngrade
  BY DEF Rising, NeverDowngrade
<1> QED
  BY <1>1, <1>2, <1>3, PTL DEF UpSpec

-----------------------------------------------------------------------------
(* HttpService.  The sorted list of patterns that end in a slash is what   *)
(* makes the first match the longest one: Handle keeps it sorted and       *)
(* complete, whatever is in front of, at or behind the place of insertion. *)

\* A set of numbers has a lowest one.
LEMMA LowestOf ==
  ASSUME NEW S \in SUBSET Nat, S # {}
  PROVE  Lowest(S) \in S /\ \A j \in S : Lowest(S) <= j
<1>1. PICK R : R = OpToRel(<, Nat)
  OBVIOUS
<1>2. \A a, b \in Nat : a < b => <<a, b>> \in R
  BY <1>1 DEF OpToRel
<1>3. IsWellFoundedOn(R, Nat)
  BY <1>1, NatLessThanWellFounded, Zenon
<1>4. PICK x \in S : \A y \in S : ~(<<y, x>> \in R)
  BY <1>3, WFMin, Zenon
<1>5. ASSUME NEW y \in S
      PROVE  x <= y
  <2>1. x \in Nat /\ y \in Nat
    OBVIOUS
  <2>2. ~(y < x)
    BY <1>2, <1>4, <2>1, Zenon
  <2> QED
    BY <2>1, <2>2
<1> QED
  BY <1>5, Zenon DEF Lowest

\* r is s with e put in at k.
Inserted(r, s, k, e) ==
  /\ DOMAIN r = 1 .. Len(s) + 1
  /\ \A i \in 1 .. Len(s) + 1 :
       (i < k => r[i] = s[i]) /\ (i = k => r[i] = e) /\ (i > k => r[i] = s[i - 1])

\* Where appendSorted puts a pattern.
LEMMA AppendSortedPlace ==
  ASSUME NEW S, NEW s \in Seq(S), NEW e \in S, \A p \in S : Len(p) \in Nat,
         \A i, j \in DOMAIN s : i < j => Len(s[j]) <= Len(s[i])
  PROVE  /\ appendSorted(s, e) \in Seq(S)
         /\ \E k \in 1 .. Len(s) + 1 :
              /\ Inserted(appendSorted(s, e), s, k, e)
              /\ \A i \in DOMAIN s : (i < k => Len(e) <= Len(s[i])) /\ (i >= k => Len(s[i]) <= Len(e))
<1>1. PICK shorter : shorter = {i \in DOMAIN s : Len(s[i]) < Len(e)}
  BY Zenon
<1>2. shorter \in SUBSET Nat /\ Len(s) \in Nat /\ DOMAIN s = 1 .. Len(s) /\ \A i \in DOMAIN s : Len(s[i]) \in Nat
  BY <1>1
<1>3. CASE shorter = {}
  <2>1. appendSorted(s, e) = Append(s, e)
    BY <1>1, <1>3 DEF appendSorted
  <2>2. Append(s, e) \in Seq(S) /\ Inserted(Append(s, e), s, Len(s) + 1, e)
    BY <1>2 DEF Inserted
  <2>3. \A i \in DOMAIN s : (i < Len(s) + 1 => Len(e) <= Len(s[i])) /\ ~(i >= Len(s) + 1)
    BY <1>1, <1>2, <1>3
  <2> QED
    BY <1>2, <2>1, <2>2, <2>3
<1>4. CASE shorter # {}
  <2>1. PICK k : k = Lowest(shorter)
    OBVIOUS
  <2>2. k \in shorter /\ \A j \in shorter : k <= j
    BY <1>2, <1>4, <2>1, LowestOf, Zenon
  <2>3. k \in DOMAIN s /\ k \in 1 .. Len(s) /\ Len(s[k]) < Len(e)
    BY <1>1, <1>2, <2>2
  <2>4. appendSorted(s, e) = [i \in 1 .. Len(s) + 1 |-> IF i < k THEN s[i] ELSE IF i = k THEN e ELSE s[i - 1]]
    BY <1>1, <1>4, <2>1, Zenon DEF appendSorted
  <2>5. appendSorted(s, e) \in Seq(S)
    BY <1>2, <2>3, <2>4
  <2>6. Inserted(appendSorted(s, e), s, k, e)
    BY <1>2, <2>3, <2>4 DEF Inserted
  <2>7. ASSUME NEW i \in DOMAIN s
         PROVE  (i < k => Len(e) <= Len(s[i])) /\ (i >= k => Len(s[i]) <= Len(e))
    <3>1. CASE i < k
      BY <1>1, <1>2, <2>2, <2>3, <3>1
    <3>2. CASE i = k
      BY <1>2, <2>3, <3>2
    <3>3. CASE i > k
      BY <1>2, <2>3, <3>3
    <3> QED
      BY <1>2, <2>3, <3>1, <3>2, <3>3
  <2>8. k \in 1 .. Len(s) + 1
    BY <1>2, <2>3
  <2> QED
    BY <2>5, <2>6, <2>7, <2>8, Zenon
<1> QED
  BY <1>3, <1>4

\* A registered pattern is a string that is not empty.
LEMMA PatternFacts ==
  ASSUME m \subseteq Patterns \ {<<>>}
  PROVE  \A p \in m : p \in Seq(Chars) /\ p # <<>> /\ Len(p) \in Nat \ {0}
BY MuxAssumption

\* Handle
LEMMA HandleKeeps ==
  ASSUME MuxInv, NEW e \in Patterns, Handle(e)
  PROVE  MuxInv'
<1>1. /\ e # <<>> /\ m' = m \cup {e} /\ hosts' = (hosts \/ Head(e) # "/")
      /\ es' = IF EndsInSlash(e) THEN appendSorted(es, e) ELSE es
  BY DEF Handle
<1>2. m' \subseteq Patterns \ {<<>>}
  BY <1>1 DEF MuxInv
<1>3. hosts' <=> \E p \in m' : Head(p) # "/"
  BY <1>1, Zenon DEF MuxInv
<1>4. /\ es' \in Seq(m') /\ \A i \in DOMAIN es' : EndsInSlash(es'[i])
      /\ \A p \in m' : EndsInSlash(p) => \E i \in DOMAIN es' : es'[i] = p
      /\ \A i, j \in DOMAIN es' : i < j => Len(es'[j]) <= Len(es'[i])
  <2>1. /\ es \in Seq(m) /\ \A i \in DOMAIN es : EndsInSlash(es[i])
        /\ \A p \in m : EndsInSlash(p) => \E i \in DOMAIN es : es[i] = p
        /\ \A i, j \in DOMAIN es : i < j => Len(es[j]) <= Len(es[i])
    BY DEF MuxInv
  <2>2. CASE ~EndsInSlash(e)
    <3>1. es' = es
      BY <1>1, <2>2
    <3>2. es \in Seq(m')
      BY <1>1, <2>1
    <3> QED
      BY <1>1, <2>1, <2>2, <3>1, <3>2
  <2>3. CASE EndsInSlash(e)
    <3>1. \A p \in m' : Len(p) \in Nat
      BY <1>2, MuxAssumption
    <3>2. es \in Seq(m') /\ e \in m' /\ DOMAIN es = 1 .. Len(es) /\ Len(es) \in Nat /\ \A i \in DOMAIN es : es[i] \in m
      <4>1. DOMAIN es = 1 .. Len(es) /\ Len(es) \in Nat /\ \A i \in DOMAIN es : es[i] \in m
        BY <2>1
      <4>2. m \subseteq m' /\ e \in m'
        BY <1>1
      <4>3. es \in Seq(m')
        BY <2>1, <4>2
      <4> QED
        BY <4>1, <4>2, <4>3
    <3>3. PICK k \in 1 .. Len(es) + 1 :
            /\ Inserted(appendSorted(es, e), es, k, e)
            /\ \A i \in DOMAIN es : (i < k => Len(e) <= Len(es[i])) /\ (i >= k => Len(es[i]) <= Len(e))
      BY <2>1, <3>1, <3>2, AppendSortedPlace, Zenon
    <3>4. /\ \A i \in 1 .. Len(es) + 1 :
               (i < k => es'[i] = es[i]) /\ (i = k => es'[i] = e) /\ (i > k => es'[i] = es[i - 1])
          /\ DOMAIN es' = 1 .. Len(es) + 1
      BY <1>1, <2>3, <3>3 DEF Inserted
    <3>5. DOMAIN es' = 1 .. Len(es) + 1 /\ es' \in Seq(m')
      <4>1. es' = appendSorted(es, e)
        BY <1>1, <2>3
      <4>2. appendSorted(es, e) \in Seq(m')
        BY <2>1, <3>1, <3>2, AppendSortedPlace, Zenon
      <4> QED
        BY <4>1, <4>2, <3>4
    <3>6. ASSUME NEW i \in DOMAIN es'
          PROVE  /\ i \in Nat /\ (i < k \/ i = k \/ i > k)
                 /\ i < k => i \in DOMAIN es /\ es'[i] = es[i]
                 /\ i = k => es'[i] = e
                 /\ i > k => i - 1 \in DOMAIN es /\ i - 1 >= k /\ es'[i] = es[i - 1]
      <4>1. i \in 1 .. Len(es) + 1 /\ k \in 1 .. Len(es) + 1 /\ Len(es) \in Nat
        BY <3>2, <3>4
      <4>2. /\ i \in Nat /\ (i < k \/ i = k \/ i > k) /\ (i < k => i \in 1 .. Len(es))
            /\ i > k => i - 1 \in 1 .. Len(es) /\ i - 1 >= k
        BY <4>1
      <4> QED
        BY <4>1, <4>2, <3>2, <3>4, Zenon
    <3>7. \A i \in DOMAIN es' : EndsInSlash(es'[i])
      BY <3>6, <2>1, <2>3, Zenon
    <3>8. \A p \in m' : EndsInSlash(p) => \E i \in DOMAIN es' : es'[i] = p
      <4>1. es'[k] = e /\ k \in DOMAIN es'
        BY <3>2, <3>4, <3>5
      <4>2. ASSUME NEW i \in DOMAIN es
            PROVE  \E j \in DOMAIN es' : es'[j] = es[i]
        <5>1. i \in 1 .. Len(es) /\ k \in 1 .. Len(es) + 1 /\ Len(es) \in Nat
          BY <3>2
        <5>2. CASE i < k
          <6>1. i \in DOMAIN es'
            BY <5>1, <3>5
          <6> QED
            BY <6>1, <5>2, <3>6, Zenon
        <5>3. CASE i >= k
          <6>1. PICK j \in DOMAIN es' : j > k /\ j - 1 = i
            <7>1. i + 1 \in DOMAIN es' /\ i + 1 > k /\ (i + 1) - 1 = i
              BY <5>1, <5>3, <3>5
            <7> QED
              BY <7>1, Zenon
          <6>2. es'[j] = es[j - 1]
            BY <6>1, <3>6, Zenon
          <6> QED
            BY <6>1, <6>2, Zenon
        <5> QED
          BY <5>1, <5>2, <5>3, SMTT(60)
      <4>3. \A p \in m' : p \in m \/ p = e
        BY <1>1
      <4> QED
        BY <4>3, <2>1, <4>1, <4>2, Zenon
    <3>9. ASSUME NEW i \in DOMAIN es', NEW j \in DOMAIN es', i < j
          PROVE  Len(es'[j]) <= Len(es'[i])
      <4>1. \A a \in DOMAIN es : Len(es[a]) \in Nat
        BY <3>1, <3>2
      <4>2. Len(e) \in Nat
        BY <3>1, <3>2
      <4>3. i \in Nat /\ j \in Nat /\ k \in Nat
        BY <3>2, <3>6, SMTT(60)
      <4>4. CASE j < k
        <5>1. i < k
          BY <4>3, <4>4, <3>9
        <5> QED
          BY <5>1, <4>4, <3>6, <3>9, <2>1, Zenon
      <4>5. CASE i > k
        <5>1. j > k /\ i - 1 < j - 1
          BY <4>3, <4>5, <3>9
        <5> QED
          BY <5>1, <4>5, <3>6, <2>1, Zenon
      <4>6. CASE j = k
        <5>1. i < k
          BY <4>3, <4>6, <3>9
        <5> QED
          BY <5>1, <4>6, <3>6, <3>3, Zenon
      <4>7. CASE i = k
        <5>1. j > k
          BY <4>3, <4>7, <3>9
        <5> QED
          BY <5>1, <4>7, <3>6, <3>3, Zenon
      <4>8. CASE i < k /\ j > k
        <5>1. i \in DOMAIN es /\ es'[i] = es[i] /\ j - 1 \in DOMAIN es /\ j - 1 >= k /\ es'[j] = es[j - 1]
          BY <4>8, <3>6, Zenon
        <5>2. Len(es[j - 1]) <= Len(e) /\ Len(e) <= Len(es[i])
          BY <5>1, <4>8, <3>3, Zenon
        <5>3. Len(es[j - 1]) \in Nat /\ Len(es[i]) \in Nat
          BY <4>1, <5>1, Zenon
        <5>4. Len(es[j - 1]) <= Len(es[i])
          BY <5>2, <5>3, <4>2
        <5> QED
          BY <5>1, <5>4, Zenon
      <4> QED
        BY <3>6, <4>4, <4>5, <4>6, <4>7, <4>8, Zenon
    <3> QED
      BY <3>5, <3>7, <3>8, <3>9
  <2> QED
    BY <2>2, <2>3
<1> QED
  BY <1>2, <1>3, <1>4, Zenon DEF MuxInv

\* Of two prefixes of a string the longer one is the only one of its length.
LEMMA SamePrefix ==
  ASSUME NEW s \in Seq(Chars), NEW p \in Seq(Chars), NEW q \in Seq(Chars),
         HasPrefix(s, p), HasPrefix(s, q), Len(p) = Len(q)
  PROVE  p = q
BY DEF HasPrefix

\* The first entry of es that match finds is the longest candidate.
LEMMA MatchIsLongest ==
  ASSUME MuxInv, NEW s \in Seq(Chars)
  PROVE  /\ match(s) = Longest(Candidates(s))
         /\ Candidates(s) = {} <=> match(s) = NotFound
<1>1. \A p \in m : p \in Seq(Chars) /\ p # <<>> /\ Len(p) \in Nat \ {0}
  BY PatternFacts DEF MuxInv
<1>2. \A p \in Candidates(s) : p \in m /\ HasPrefix(s, p) /\ Len(p) <= Len(s)
  BY DEF Candidates, HasPrefix
<1>3. ASSUME NEW x \in Candidates(s), \A q \in Candidates(s) : Len(q) <= Len(x)
      PROVE  Longest(Candidates(s)) = x
  <2>1. PICK y : y = CHOOSE p \in Candidates(s) : \A q \in Candidates(s) : Len(q) <= Len(p)
    OBVIOUS
  <2>2. y \in Candidates(s) /\ \A q \in Candidates(s) : Len(q) <= Len(y)
    BY <1>3, <2>1, Zenon
  <2>3. Len(x) = Len(y)
    <3>1. Len(x) \in Nat /\ Len(y) \in Nat /\ Len(x) <= Len(y) /\ Len(y) <= Len(x)
      BY <1>1, <1>2, <1>3, <2>2
    <3> QED
      BY <3>1
  <2>4. x = y
    BY <1>1, <1>2, <1>3, <2>2, <2>3, SamePrefix
  <2>5. Candidates(s) # {}
    BY <1>3
  <2> QED
    BY <2>1, <2>4, <2>5, Zenon DEF Longest
<1>4. PICK prefixes : prefixes = {i \in DOMAIN es : HasPrefix(s, es[i])}
  BY Zenon
<1>5. /\ es \in Seq(m) /\ DOMAIN es = 1 .. Len(es) /\ Len(es) \in Nat /\ \A i \in DOMAIN es : EndsInSlash(es[i])
      /\ \A p \in m : EndsInSlash(p) => \E i \in DOMAIN es : es[i] = p
      /\ \A i, j \in DOMAIN es : i < j => Len(es[j]) <= Len(es[i])
  BY SMTT(60) DEF MuxInv
<1>6. CASE s \in m
  <2>1. match(s) = s
    BY <1>6, Zenon DEF match
  <2>2. s \in Candidates(s)
    BY <1>6, Zenon DEF Candidates
  <2> QED
    BY <1>1, <1>2, <1>3, <1>6, <2>1, <2>2 DEF NotFound
<1>7. CASE s \notin m /\ prefixes = {}
  <2>1. match(s) = NotFound
    BY <1>4, <1>7, Zenon DEF match
  <2>2. Candidates(s) = {}
    BY <1>4, <1>5, <1>7 DEF Candidates
  <2> QED
    BY <2>1, <2>2, Zenon DEF Longest
<1>8. CASE s \notin m /\ prefixes # {}
  <2>1. PICK k : k = Lowest(prefixes)
    OBVIOUS
  <2>2. prefixes \in SUBSET Nat
    BY <1>4, <1>5
  <2>3. k \in prefixes /\ \A j \in prefixes : k <= j
    BY <1>8, <2>1, <2>2, LowestOf, Zenon
  <2>4. match(s) = es[k]
    BY <1>4, <1>8, <2>1, Zenon DEF match
  <2>5. k \in DOMAIN es /\ es[k] \in m /\ HasPrefix(s, es[k])
    BY <1>4, <1>5, <2>3
  <2>6. es[k] \in Candidates(s)
    BY <1>5, <2>5, Zenon DEF Candidates
  <2>7. ASSUME NEW q \in Candidates(s)
        PROVE  Len(q) <= Len(es[k])
    <3>1. q \in m /\ EndsInSlash(q) /\ HasPrefix(s, q)
      BY <1>8, <2>7, Zenon DEF Candidates
    <3>2. PICK j \in DOMAIN es : es[j] = q
      BY <1>5, <3>1, Zenon
    <3>3. j \in prefixes
      BY <1>4, <3>1, <3>2
    <3>4. j = k \/ k < j
      BY <1>5, <2>3, <2>5, <3>3
    <3>5. CASE j = k
      <4>1. Len(q) \in Nat
        BY <3>1, <1>1
      <4> QED
        BY <4>1, <3>2, <3>5
    <3>6. CASE k < j
      BY <3>6, <3>2, <1>5, <2>5
    <3> QED
      BY <3>4, <3>5, <3>6
  <2>8. Longest(Candidates(s)) = es[k]
    BY <1>3, <2>6, <2>7
  <2> QED
    BY <1>1, <2>4, <2>5, <2>6, <2>8 DEF NotFound
<1> QED
  BY <1>6, <1>7, <1>8, Zenon

\* A pattern without a host is in no string that begins with one.
LEMMA NoHostNoCandidate ==
  ASSUME MuxInv, ~hosts, NEW h \in Seq(Chars), h # <<>>, Head(h) # "/", NEW s \in Seq(Chars)
  PROVE  Candidates(h \o s) = {}
<1>1. SUFFICES ASSUME NEW p \in Candidates(h \o s)
               PROVE  FALSE
  OBVIOUS
<1>2. p \in m /\ HasPrefix(h \o s, p)
  BY <1>1 DEF Candidates, HasPrefix
<1>3. p \in Seq(Chars) /\ p # <<>> /\ Head(p) = "/"
  BY <1>2, PatternFacts DEF MuxInv
<1>4. 1 \in DOMAIN p /\ p[1] = Head(p) /\ (h \o s)[1] = Head(h)
  BY <1>3
<1> QED
  BY <1>2, <1>3, <1>4 DEF HasPrefix

\* Facts about strings
LEMMA Single ==
  ASSUME NEW S, NEW x \in S
  PROVE  <<x>> \in Seq(S) /\ <<x>> # <<>> /\ Head(<<x>>) = x
OBVIOUS

LEMMA HeadOfConcat ==
  ASSUME NEW S, NEW a \in Seq(S), NEW b \in Seq(S), a # <<>>
  PROVE  a \o b \in Seq(S) /\ a \o b # <<>> /\ Head(a \o b) = Head(a)
OBVIOUS

LEMMA EmptyConcat ==
  ASSUME NEW S, NEW b \in Seq(S)
  PROVE  <<>> \o b = b
OBVIOUS

\* The host that Handler looks up is a string that does not begin with a slash.
LEMMA HostFacts ==
  ASSUME NEW host \in Hosts
  PROVE  HostOf(host) \in Seq(Chars) /\ (HostOf(host) # <<>> => Head(HostOf(host)) # "/")
<1>1. host.name \in Seq(Chars) /\ host.port \in Seq(Chars) /\ (host.name # <<>> => Head(host.name) # "/")
  BY MuxAssumption
<1>2. CASE host.port = <<>>
  BY <1>1, <1>2 DEF HostOf
<1>3. CASE host.port # <<>> /\ \E i \in DOMAIN host.port : host.port[i] = ":"
  <2>1. HostOf(host) = <<>>
    BY <1>3, Zenon DEF HostOf
  <2> QED
    BY <2>1
<1>4. CASE host.port # <<>> /\ ~\E i \in DOMAIN host.port : host.port[i] = ":"
  <2>1. HostOf(host) = host.name \o <<":">> \o host.port
    BY <1>4, Zenon DEF HostOf
  <2>2. PICK colon \in Seq(Chars) : colon = <<":">> /\ colon # <<>> /\ Head(colon) = ":"
    <3>1. ":" \in Chars
      BY MuxAssumption
    <3> QED
      BY <3>1, Single, Zenon
  <2>3. CASE host.name = <<>>
    <3>1. host.name \o colon = colon
      BY <2>3, EmptyConcat, Zenon
    <3>2. HostOf(host) = colon \o host.port
      BY <2>1, <2>2, <3>1, Zenon
    <3>3. colon \o host.port \in Seq(Chars) /\ Head(colon \o host.port) = Head(colon)
      BY <1>1, <2>2, HeadOfConcat, Zenon
    <3> QED
      BY <2>2, <3>2, <3>3
  <2>4. CASE host.name # <<>>
    <3>1. host.name \o colon \in Seq(Chars) /\ host.name \o colon # <<>> /\ Head(host.name \o colon) = Head(host.name)
      BY <1>1, <2>4, HeadOfConcat, Zenon
    <3>2. HostOf(host) = (host.name \o colon) \o host.port
      BY <2>1, <2>2
    <3>3. PICK n \in Seq(Chars) : n = host.name \o colon
      BY <3>1, Zenon
    <3>4. n \o host.port \in Seq(Chars) /\ Head(n \o host.port) = Head(n)
      BY <1>1, <3>1, <3>3, HeadOfConcat, Zenon
    <3> QED
      BY <1>1, <2>4, <3>1, <3>2, <3>3, <3>4, Zenon
  <2> QED
    BY <2>3, <2>4
<1> QED
  BY <1>2, <1>3, <1>4

\* In whatever order Handle was called for whatever patterns, Handler gives a request the longest pattern
\* that its path falls under, and one with its host before any without.
THEOREM MostSpecificWinsHolds == MuxSpec => []MostSpecificWins
<1>1. MuxInit => MuxInv
  BY DEF MuxInit, MuxInv
<1>2. MuxInv /\ [MuxNext]_muxVars => MuxInv'
  <2>1. CASE UNCHANGED muxVars
    BY <2>1 DEF MuxInv, muxVars
  <2> QED
    BY <2>1, HandleKeeps DEF MuxNext
<1>3. MuxInv => MostSpecificWins
  <2>1. SUFFICES ASSUME MuxInv, NEW r \in Requests
                 PROVE  Handler(r) = IF Candidates(HostOf(r.host) \o r.path) # {}
                                     THEN Longest(Candidates(HostOf(r.host) \o r.path))
                                     ELSE Longest(Candidates(r.path))
    BY Zenon DEF MostSpecificWins
  <2>2. PICK h, s : h = HostOf(r.host) /\ s = r.path
    OBVIOUS
  <2>3. h \in Seq(Chars) /\ s \in Seq(Chars) /\ (h # <<>> => Head(h) # "/")
    BY <2>2, HostFacts, MuxAssumption DEF Requests
  <2>4. h \o s \in Seq(Chars)
    BY <2>3
  <2>5. /\ match(s) = Longest(Candidates(s))
        /\ match(h \o s) = Longest(Candidates(h \o s))
        /\ Candidates(h \o s) = {} <=> match(h \o s) = NotFound
    BY <2>1, <2>3, <2>4, MatchIsLongest, Zenon
  <2>6. Handler(r) = handler(h, s)
    BY <2>2 DEF Handler
  <2>7. CASE hosts
    BY <2>2, <2>5, <2>6, <2>7 DEF handler
  <2>8. CASE ~hosts
    <3>1. handler(h, s) = match(s)
      BY <2>8 DEF handler
    <3>2. CASE h = <<>>
      <4>1. h \o s = s
        BY <2>3, <3>2
      <4> QED
        BY <2>2, <2>5, <2>6, <3>1, <4>1
    <3>3. CASE h # <<>>
      <4>1. Candidates(h \o s) = {}
        BY <2>1, <2>3, <2>8, <3>3, NoHostNoCandidate
      <4> QED
        BY <2>2, <2>5, <2>6, <3>1, <4>1
    <3> QED
      BY <3>2, <3>3
  <2> QED
    BY <2>7, <2>8
<1> QED
  BY <1>1, <1>2, <1>3, PTL DEF MuxSpec
=============================================================================
