--------------------------- MODULE ListenerProofs ---------------------------
(***************************************************************************)
(* Proofs about Listener, for any sets of sockets and callers of Close.    *)
(*                                                                         *)
(* waitExit counts the accepting goroutine and, for TCP, the live          *)
(* sessions; sessMap lacks at most the session that is just being          *)
(* inserted; a UDP listener has at most the session on its current socket. *)
(* From these three facts follow all the safety properties.                *)
(***************************************************************************)
EXTENDS Listener, FiniteSetTheorems, TLAPS

\* Where the goroutine can be in each mode, and what it holds there.
Place ==
  /\ isUdp => apc \in {"check", "start", "wait", "recheck", "listen", "done"} /\ udpConn \in used
  /\ ~isUdp => apc \in {"check", "accept", "lock", "locked", "insert", "done"}
  /\ isUdp => \A c \in Closers : clpc[c] # "lstclose"
  /\ locked <=> apc \in {"locked", "insert"}
  /\ apc \in {"lock", "locked"} => conn \in used /\ life[conn] = "none"
  /\ apc = "insert" => conn \in Live
  /\ \A k \in Socks : k \notin used => life[k] = "none"

\* sessMap holds the live sessions, but for one that is being inserted.
Tracks ==
  ~isUdp => sessMap = Live \ (IF apc = "insert" THEN {conn} ELSE {})

\* What waitExit counts.
Counts ==
  /\ IsFiniteSet(Live)
  /\ waitExit = (IF apc = "done" THEN 0 ELSE 1) + (IF isUdp THEN 0 ELSE Cardinality(Live))

\* A call of Close that is past its second step has set isclose.
Marked ==
  \A c \in Closers : clpc[c] \in (Running \ {"mark"}) \cup {"returned"} => isclose

\* The life of a UDP listener: its only session is on its current socket, and
\* until Close there is a token exactly when that session has ended.
UdpLife ==
  isUdp => /\ Live \subseteq {udpConn}
           /\ apc \in {"start", "listen"} => Live = {}
           /\ ~isclose => /\ apc # "wait" => Live = {} /\ udpCh = 0
                          /\ udpCh = 1 => Live = {}
           /\ apc = "start" /\ (\E c \in Closers : Swept(c)) => udpConn \notin open

IInv == TypeOK /\ Place /\ Tracks /\ Counts /\ Marked /\ UdpLife /\ NetworkStopped /\ NothingLeft
-----------------------------------------------------------------------------
(* How a step changes the set of live sessions.                            *)

\* A session that starts joins Live.
LEMMA LiveStart ==
  ASSUME TypeOK, NEW k \in Socks, life' = [life EXCEPT ![k] = "open"]
  PROVE  Live' = Live \cup {k}
BY DEF TypeOK, Live

\* A session whose dorecv has ended stays in Live until its onclose.
LEMMA LiveKeep ==
  ASSUME TypeOK, NEW k \in Socks, life[k] = "open", life' = [life EXCEPT ![k] = "onclose"]
  PROVE  Live' = Live
BY DEF TypeOK, Live

\* A session leaves Live with its onclose.
LEMMA LiveEnd ==
  ASSUME TypeOK, NEW k \in Socks, life' = [life EXCEPT ![k] = "ended"]
  PROVE  Live' = Live \ {k}
BY DEF TypeOK, Live

\* IInv is preserved by LoopCheck.
LEMMA LoopCheckStep ==
  ASSUME IInv, ListenerAssumption, LoopCheck
  PROVE  IInv'
<1> USE DEF IInv, LoopCheck, udpVars, mapVars, sockVars, Fresh
<1>0. Live' = Live
  BY DEF Live
<1>a. Cardinality(Live) \in Nat
  BY FS_CardinalityType DEF Counts
<1>1. Place' /\ Tracks'
  BY <1>0 DEF Place, Tracks, TypeOK
<1>3. Counts'
  BY <1>0, <1>a DEF Counts, Place, TypeOK
<1>4. TypeOK'
  BY <1>a, <1>0, <1>3 DEF TypeOK, Counts, Place, Running
<1>5. Marked' /\ UdpLife'
  BY <1>0 DEF UdpLife, Place, TypeOK, Swept, Marked, Running
<1>6. NetworkStopped'
  BY <1>0 DEF NetworkStopped, Swept, Place, Tracks, UdpLife, Marked, TypeOK, Running, Live
<1>7. NothingLeft'
  BY FS_EmptySet, FS_CardinalityType, <1>0 DEF NothingLeft, Counts, Place, TypeOK
<1> QED
  BY <1>1, <1>3, <1>4, <1>5, <1>6, <1>7

\* IInv is preserved by Accept.
LEMMA AcceptStep ==
  ASSUME IInv, ListenerAssumption, NEW k \in Fresh, Accept(k)
  PROVE  IInv'
<1> USE DEF IInv, Accept, udpVars, mapVars, sockVars, Fresh
<1>0. Live' = Live
  BY DEF Live
<1>a. Cardinality(Live) \in Nat
  BY FS_CardinalityType DEF Counts
<1>1. Place' /\ Tracks'
  BY <1>0 DEF Place, Tracks, TypeOK, Live
<1>2. TypeOK' /\ Counts'
  BY <1>0, <1>a DEF TypeOK, Counts, Place, Running
<1>5. Marked' /\ UdpLife'
  BY <1>0 DEF UdpLife, Place, TypeOK, Swept, Marked, Running
<1>6. NetworkStopped'
  BY <1>0 DEF NetworkStopped, Swept, Place, Tracks, UdpLife, Marked, TypeOK, Running, Live
<1>7. NothingLeft'
  BY FS_EmptySet, FS_CardinalityType, <1>0 DEF NothingLeft, Counts, Place, TypeOK
<1> QED
  BY <1>1, <1>2, <1>5, <1>6, <1>7

\* IInv is preserved by AcceptError.
LEMMA AcceptErrorStep ==
  ASSUME IInv, ListenerAssumption, AcceptError
  PROVE  IInv'
<1> USE DEF IInv, AcceptError, udpVars, mapVars, sockVars, Fresh
<1>0. Live' = Live
  BY DEF Live
<1>a. Cardinality(Live) \in Nat
  BY FS_CardinalityType DEF Counts
<1>1. Place' /\ Tracks'
  BY <1>0 DEF Place, Tracks, TypeOK
<1>3. Counts'
  BY <1>0, <1>a DEF Counts, Place, TypeOK
<1>4. TypeOK'
  BY <1>a, <1>0, <1>3 DEF TypeOK, Counts, Place, Running
<1>5. Marked' /\ UdpLife'
  BY <1>0 DEF UdpLife, Place, TypeOK, Swept, Marked, Running
<1>6. NetworkStopped'
  BY <1>0 DEF NetworkStopped, Swept, Place, Tracks, UdpLife, Marked, TypeOK, Running, Live
<1>7. NothingLeft'
  BY FS_EmptySet, FS_CardinalityType, <1>0 DEF NothingLeft, Counts, Place, TypeOK
<1> QED
  BY <1>1, <1>3, <1>4, <1>5, <1>6, <1>7

\* IInv is preserved by AcceptLock.
LEMMA AcceptLockStep ==
  ASSUME IInv, ListenerAssumption, AcceptLock
  PROVE  IInv'
<1> USE DEF IInv, AcceptLock, udpVars, mapVars, sockVars, Fresh
<1>0. Live' = Live
  BY DEF Live
<1>a. Cardinality(Live) \in Nat
  BY FS_CardinalityType DEF Counts
<1>1. Place' /\ Tracks'
  BY <1>0 DEF Place, Tracks, TypeOK
<1>2. TypeOK' /\ Counts'
  BY <1>0, <1>a DEF TypeOK, Counts, Place, Running
<1>5. Marked' /\ UdpLife'
  BY <1>0 DEF UdpLife, Place, TypeOK, Swept, Marked, Running
<1>6. NetworkStopped'
  BY <1>0 DEF NetworkStopped, Swept, Place, Tracks, UdpLife, Marked, TypeOK, Running, Live
<1>7. NothingLeft'
  BY FS_EmptySet, FS_CardinalityType, <1>0 DEF NothingLeft, Counts, Place, TypeOK
<1> QED
  BY <1>1, <1>2, <1>5, <1>6, <1>7

\* IInv is preserved by AcceptStart.
LEMMA AcceptStartStep ==
  ASSUME IInv, ListenerAssumption, AcceptStart
  PROVE  IInv'
<1> USE DEF IInv, AcceptStart, udpVars, mapVars, sockVars, Fresh
<1>0. /\ conn \in Socks /\ conn \notin Live
      /\ isclose => Live' = Live
      /\ ~isclose => Live' = Live \cup {conn}
  BY LiveStart, Zenon DEF Place, TypeOK, Live
<1>a. /\ IsFiniteSet(Live') /\ Cardinality(Live) \in Nat
      /\ Cardinality(Live') = IF isclose THEN Cardinality(Live) ELSE Cardinality(Live) + 1
  BY FS_AddElement, FS_CardinalityType, <1>0 DEF Counts
<1>1. Place'
  BY <1>0, Zenon DEF Place, TypeOK, Live
<1>2. Tracks'
  <2>1. CASE isclose
    BY <1>0, <2>1 DEF Tracks, Place, TypeOK
  <2>2. CASE ~isclose
    BY <1>0, <2>2 DEF Tracks, Place, TypeOK
  <2> QED  BY <2>1, <2>2
<1>3. Counts'
  <2>1. CASE isclose
    BY <1>0, <1>a, <2>1 DEF Counts, Place, TypeOK
  <2>2. CASE ~isclose
    BY <1>0, <1>a, <2>2 DEF Counts, Place, TypeOK
  <2> QED  BY <2>1, <2>2
<1>4. TypeOK'
  <2>1. CASE isclose
    BY <1>0, <2>1, Zenon DEF TypeOK, Place
  <2>2. CASE ~isclose
    BY <1>0, <2>2 DEF TypeOK, Place
  <2> QED  BY <2>1, <2>2
<1>5. Marked' /\ UdpLife'
  BY <1>0 DEF UdpLife, Place, TypeOK, Swept, Marked, Running
<1>6. NetworkStopped'
  BY <1>0, Zenon DEF NetworkStopped, Swept, Place, Tracks, UdpLife, Marked, TypeOK, Running, Live
<1>7. NothingLeft'
  BY FS_EmptySet, FS_CardinalityType, <1>0 DEF NothingLeft, Counts, Place, TypeOK
<1> QED
  BY <1>1, <1>2, <1>3, <1>4, <1>5, <1>6, <1>7

\* IInv is preserved by AcceptInsert.
LEMMA AcceptInsertStep ==
  ASSUME IInv, ListenerAssumption, AcceptInsert
  PROVE  IInv'
<1> USE DEF IInv, AcceptInsert, udpVars, mapVars, sockVars, Fresh
<1>0. Live' = Live
  BY DEF Live
<1>a. Cardinality(Live) \in Nat
  BY FS_CardinalityType DEF Counts
<1>1. Place' /\ Tracks'
  BY <1>0 DEF Place, Tracks, TypeOK
<1>2. TypeOK' /\ Counts'
  BY <1>0, <1>a, Zenon DEF TypeOK, Counts, Place, Running, Live
<1>5. Marked' /\ UdpLife'
  BY <1>0 DEF UdpLife, Place, TypeOK, Swept, Marked, Running
<1>6. NetworkStopped'
  BY <1>0 DEF NetworkStopped, Swept, Place, Tracks, UdpLife, Marked, TypeOK, Running, Live
<1>7. NothingLeft'
  BY FS_EmptySet, FS_CardinalityType, <1>0 DEF NothingLeft, Counts, Place, TypeOK
<1> QED
  BY <1>1, <1>2, <1>5, <1>6, <1>7

\* IInv is preserved by UdpStart.
LEMMA UdpStartStep ==
  ASSUME IInv, ListenerAssumption, UdpStart
  PROVE  IInv'
<1> USE DEF IInv, UdpStart, udpVars, mapVars, sockVars, Fresh
<1>0. udpConn \in Socks /\ Live = {} /\ Live' = {udpConn}
  BY LiveStart, Zenon DEF Place, UdpLife, TypeOK
<1>a. IsFiniteSet(Live')
  BY FS_RemoveElement, FS_Singleton, <1>0, Zenon DEF Counts
<1>1. Place' /\ Tracks'
  BY <1>0 DEF Place, Tracks, TypeOK, Live
<1>2. TypeOK' /\ Counts'
  BY <1>0, <1>a DEF TypeOK, Counts, Place, Running
<1>5. Marked' /\ UdpLife'
  BY <1>0 DEF UdpLife, Place, TypeOK, Swept, Marked, Running
<1>6. NetworkStopped'
  BY <1>0 DEF NetworkStopped, Swept, Place, Tracks, UdpLife, Marked, TypeOK, Running, Live
<1>7. NothingLeft'
  BY FS_EmptySet, FS_CardinalityType, <1>0 DEF NothingLeft, Counts, Place, TypeOK
<1> QED
  BY <1>1, <1>2, <1>5, <1>6, <1>7

\* IInv is preserved by UdpWait.
LEMMA UdpWaitStep ==
  ASSUME IInv, ListenerAssumption, UdpWait
  PROVE  IInv'
<1> USE DEF IInv, UdpWait, udpVars, mapVars, sockVars, Fresh
<1>0. Live' = Live
  BY DEF Live
<1>a. Cardinality(Live) \in Nat
  BY FS_CardinalityType DEF Counts
<1>1. Place' /\ Tracks'
  BY <1>0 DEF Place, Tracks, TypeOK
<1>2. TypeOK' /\ Counts'
  BY <1>0, <1>a DEF TypeOK, Counts, Place, Running
<1>5. Marked' /\ UdpLife'
  BY <1>0 DEF UdpLife, Place, TypeOK, Swept, Marked, Running
<1>6. NetworkStopped'
  BY <1>0 DEF NetworkStopped, Swept, Place, Tracks, UdpLife, Marked, TypeOK, Running, Live
<1>7. NothingLeft'
  BY FS_EmptySet, FS_CardinalityType, <1>0 DEF NothingLeft, Counts, Place, TypeOK
<1> QED
  BY <1>1, <1>2, <1>5, <1>6, <1>7

\* IInv is preserved by UdpRecheck.
LEMMA UdpRecheckStep ==
  ASSUME IInv, ListenerAssumption, UdpRecheck
  PROVE  IInv'
<1> USE DEF IInv, UdpRecheck, udpVars, mapVars, sockVars, Fresh
<1>0. Live' = Live
  BY DEF Live
<1>a. Cardinality(Live) \in Nat
  BY FS_CardinalityType DEF Counts
<1>1. Place' /\ Tracks'
  BY <1>0 DEF Place, Tracks, TypeOK
<1>2. TypeOK' /\ Counts'
  BY <1>0, <1>a DEF TypeOK, Counts, Place, Running
<1>5. Marked' /\ UdpLife'
  BY <1>0 DEF UdpLife, Place, TypeOK, Swept, Marked, Running
<1>6. NetworkStopped'
  BY <1>0 DEF NetworkStopped, Swept, Place, Tracks, UdpLife, Marked, TypeOK, Running, Live
<1>7. NothingLeft'
  BY FS_EmptySet, FS_CardinalityType, <1>0 DEF NothingLeft, Counts, Place, TypeOK
<1> QED
  BY <1>1, <1>2, <1>5, <1>6, <1>7

\* IInv is preserved by UdpListen.
LEMMA UdpListenStep ==
  ASSUME IInv, ListenerAssumption, NEW k \in Fresh, UdpListen(k)
  PROVE  IInv'
<1> USE DEF IInv, UdpListen, udpVars, mapVars, sockVars, Fresh
<1>0. Live' = Live
  BY DEF Live
<1>a. Cardinality(Live) \in Nat
  BY FS_CardinalityType DEF Counts
<1>1. Place' /\ Tracks'
  BY <1>0 DEF Place, Tracks, TypeOK, Live
<1>2. TypeOK' /\ Counts'
  BY <1>0, <1>a, Zenon DEF TypeOK, Counts, Place, Running
<1>5. Marked' /\ UdpLife'
  BY <1>0 DEF UdpLife, Place, TypeOK, Swept, Marked, Running
<1>6. NetworkStopped'
  BY <1>0 DEF NetworkStopped, Swept, Place, Tracks, UdpLife, Marked, TypeOK, Running, Live
<1>7. NothingLeft'
  BY FS_EmptySet, FS_CardinalityType, <1>0 DEF NothingLeft, Counts, Place, TypeOK
<1> QED
  BY <1>1, <1>2, <1>5, <1>6, <1>7

\* IInv is preserved by UdpListenFails.
LEMMA UdpListenFailsStep ==
  ASSUME IInv, ListenerAssumption, UdpListenFails
  PROVE  IInv'
<1> USE DEF IInv, UdpListenFails, udpVars, mapVars, sockVars, Fresh
<1>0. Live' = Live
  BY DEF Live
<1>a. Cardinality(Live) \in Nat
  BY FS_CardinalityType DEF Counts
<1>1. Place' /\ Tracks'
  BY <1>0 DEF Place, Tracks, TypeOK
<1>2. TypeOK' /\ Counts'
  BY <1>0, <1>a DEF TypeOK, Counts, Place, Running
<1>5. Marked' /\ UdpLife'
  BY <1>0 DEF UdpLife, Place, TypeOK, Swept, Marked, Running
<1>6. NetworkStopped'
  BY <1>0 DEF NetworkStopped, Swept, Place, Tracks, UdpLife, Marked, TypeOK, Running, Live
<1>7. NothingLeft'
  BY FS_EmptySet, FS_CardinalityType, <1>0 DEF NothingLeft, Counts, Place, TypeOK
<1> QED
  BY <1>1, <1>2, <1>5, <1>6, <1>7

\* IInv is preserved by SessEnds.
LEMMA SessEndsStep ==
  ASSUME IInv, ListenerAssumption, NEW k \in Socks, SessEnds(k)
  PROVE  IInv'
<1> USE DEF IInv, SessEnds, udpVars, mapVars, sockVars, Fresh
<1>0. Live' = Live
  BY LiveKeep, Zenon
<1>a. Cardinality(Live) \in Nat
  BY FS_CardinalityType DEF Counts
<1>1. Place' /\ Tracks'
  BY <1>0 DEF Place, Tracks, TypeOK, Live
<1>2. TypeOK' /\ Counts'
  BY <1>0, <1>a DEF TypeOK, Counts, Place, Running
<1>5. Marked' /\ UdpLife'
  BY <1>0 DEF UdpLife, Place, TypeOK, Swept, Marked, Running
<1>6. NetworkStopped'
  BY <1>0 DEF NetworkStopped, Swept, Place, Tracks, UdpLife, Marked, TypeOK, Running, Live
<1>7. NothingLeft'
  BY FS_EmptySet, FS_CardinalityType, <1>0 DEF NothingLeft, Counts, Place, TypeOK
<1> QED
  BY <1>1, <1>2, <1>5, <1>6, <1>7

\* IInv is preserved by OnClose.
LEMMA OnCloseStep ==
  ASSUME IInv, ListenerAssumption, NEW k \in Socks, OnClose(k)
  PROVE  IInv'
<1> USE DEF IInv, OnClose, udpVars, mapVars, sockVars, Fresh
<1>0. Live' = Live \ {k} /\ k \in Live
  BY LiveEnd, Zenon DEF Live
<1>a. /\ IsFiniteSet(Live') /\ Cardinality(Live) \in Nat /\ Cardinality(Live') \in Nat
      /\ Cardinality(Live') = Cardinality(Live) - 1
  BY FS_RemoveElement, FS_CardinalityType, <1>0 DEF Counts
<1>1. Place' /\ Tracks'
  BY <1>0 DEF Place, Tracks, TypeOK, Live
<1>3. Counts'
  BY <1>0, <1>a DEF Counts, Place, TypeOK
<1>4. TypeOK'
  BY <1>a, <1>0, <1>3 DEF TypeOK, Counts, Place, Running
<1>5. Marked' /\ UdpLife'
  BY <1>0 DEF UdpLife, Place, TypeOK, Swept, Marked, Running
<1>6. NetworkStopped'
  BY <1>0 DEF NetworkStopped, Swept, Place, Tracks, UdpLife, Marked, TypeOK, Running, Live
<1>7. NothingLeft'
  BY FS_EmptySet, FS_CardinalityType, <1>0 DEF NothingLeft, Counts, Place, TypeOK
<1> QED
  BY <1>1, <1>3, <1>4, <1>5, <1>6, <1>7

\* IInv is preserved by OnCloseUdp.
LEMMA OnCloseUdpStep ==
  ASSUME IInv, ListenerAssumption, NEW k \in Socks, OnCloseUdp(k)
  PROVE  IInv'
<1> USE DEF IInv, OnCloseUdp, udpVars, mapVars, sockVars, Fresh
<1>0. Live' = Live \ {k} /\ k \in Live
  BY LiveEnd, Zenon DEF Live
<1>a. IsFiniteSet(Live')
  BY FS_RemoveElement, FS_Singleton, <1>0 DEF Counts
<1>1. Place' /\ Tracks'
  BY <1>0 DEF Place, Tracks, TypeOK, Live
<1>2. TypeOK' /\ Counts'
  BY <1>0, <1>a DEF TypeOK, Counts, Place, Running
<1>5. Marked' /\ UdpLife'
  BY <1>0 DEF UdpLife, Place, TypeOK, Swept, Marked, Running
<1>6. NetworkStopped'
  BY <1>0 DEF NetworkStopped, Swept, Place, Tracks, UdpLife, Marked, TypeOK, Running, Live
<1>7. NothingLeft'
  BY FS_EmptySet, FS_CardinalityType, <1>0 DEF NothingLeft, Counts, Place, TypeOK
<1> QED
  BY <1>1, <1>2, <1>5, <1>6, <1>7

\* IInv is preserved by CloseChecks.
LEMMA CloseChecksStep ==
  ASSUME IInv, ListenerAssumption, NEW c \in Closers, CloseChecks(c)
  PROVE  IInv'
<1> USE DEF IInv, CloseChecks, udpVars, mapVars, sockVars, Fresh
<1>0. Live' = Live
  BY DEF Live
<1>a. Cardinality(Live) \in Nat
  BY FS_CardinalityType DEF Counts
<1>1. Place' /\ Tracks'
  BY <1>0 DEF Place, Tracks, TypeOK
<1>2. TypeOK' /\ Counts'
  BY <1>0, <1>a DEF TypeOK, Counts, Place, Running
<1>5. Marked' /\ UdpLife'
  BY <1>0 DEF UdpLife, Place, TypeOK, Swept, Marked, Running
<1>6. NetworkStopped'
  BY <1>0 DEF NetworkStopped, Swept, Place, Tracks, UdpLife, Marked, TypeOK, Running, Live
<1>7. NothingLeft'
  BY FS_EmptySet, FS_CardinalityType, <1>0 DEF NothingLeft, Counts, Place, TypeOK
<1> QED
  BY <1>1, <1>2, <1>5, <1>6, <1>7

\* IInv is preserved by CloseMarks.
LEMMA CloseMarksStep ==
  ASSUME IInv, ListenerAssumption, NEW c \in Closers, CloseMarks(c)
  PROVE  IInv'
<1> USE DEF IInv, CloseMarks, udpVars, mapVars, sockVars, Fresh
<1>0. Live' = Live
  BY DEF Live
<1>a. Cardinality(Live) \in Nat
  BY FS_CardinalityType DEF Counts
<1>1. Place' /\ Tracks'
  BY <1>0 DEF Place, Tracks, TypeOK
<1>2. TypeOK' /\ Counts'
  BY <1>0, <1>a DEF TypeOK, Counts, Place, Running
<1>5. Marked' /\ UdpLife'
  BY <1>0 DEF UdpLife, Place, TypeOK, Swept, Marked, Running
<1>6. NetworkStopped'
  BY <1>0 DEF NetworkStopped, Swept, Place, Tracks, UdpLife, Marked, TypeOK, Running, Live
<1>7. NothingLeft'
  BY FS_EmptySet, FS_CardinalityType, <1>0 DEF NothingLeft, Counts, Place, TypeOK
<1> QED
  BY <1>1, <1>2, <1>5, <1>6, <1>7

\* IInv is preserved by CloseLst.
LEMMA CloseLstStep ==
  ASSUME IInv, ListenerAssumption, NEW c \in Closers, CloseLst(c)
  PROVE  IInv'
<1> USE DEF IInv, CloseLst, udpVars, mapVars, sockVars, Fresh
<1>0. Live' = Live
  BY DEF Live
<1>a. Cardinality(Live) \in Nat
  BY FS_CardinalityType DEF Counts
<1>1. Place' /\ Tracks'
  BY <1>0 DEF Place, Tracks, TypeOK
<1>2. TypeOK' /\ Counts'
  BY <1>0, <1>a, Zenon DEF TypeOK, Counts, Place, Running
<1>5. Marked' /\ UdpLife'
  BY <1>0 DEF UdpLife, Place, TypeOK, Swept, Marked, Running
<1>6. NetworkStopped'
  BY <1>0 DEF NetworkStopped, Swept, Place, Tracks, UdpLife, Marked, TypeOK, Running, Live
<1>7. NothingLeft'
  BY FS_EmptySet, FS_CardinalityType, <1>0 DEF NothingLeft, Counts, Place, TypeOK
<1> QED
  BY <1>1, <1>2, <1>5, <1>6, <1>7

\* IInv is preserved by CloseUdpConn.
LEMMA CloseUdpConnStep ==
  ASSUME IInv, ListenerAssumption, NEW c \in Closers, CloseUdpConn(c)
  PROVE  IInv'
<1> USE DEF IInv, CloseUdpConn, udpVars, mapVars, sockVars, Fresh
<1>0. Live' = Live
  BY DEF Live
<1>a. Cardinality(Live) \in Nat
  BY FS_CardinalityType DEF Counts
<1>1. Place' /\ Tracks'
  BY <1>0 DEF Place, Tracks, TypeOK
<1>2. TypeOK' /\ Counts'
  BY <1>0, <1>a DEF TypeOK, Counts, Place, Running
<1>5. Marked' /\ UdpLife'
  BY <1>0 DEF UdpLife, Place, TypeOK, Swept, Marked, Running
<1>6. NetworkStopped'
  BY <1>0 DEF NetworkStopped, Swept, Place, Tracks, UdpLife, Marked, TypeOK, Running, Live
<1>7. NothingLeft'
  BY FS_EmptySet, FS_CardinalityType, <1>0 DEF NothingLeft, Counts, Place, TypeOK
<1> QED
  BY <1>1, <1>2, <1>5, <1>6, <1>7

\* IInv is preserved by CloseUdpCh.
LEMMA CloseUdpChStep ==
  ASSUME IInv, ListenerAssumption, NEW c \in Closers, CloseUdpCh(c)
  PROVE  IInv'
<1> USE DEF IInv, CloseUdpCh, udpVars, mapVars, sockVars, Fresh
<1>0. Live' = Live
  BY DEF Live
<1>a. Cardinality(Live) \in Nat
  BY FS_CardinalityType DEF Counts
<1>1. Place' /\ Tracks'
  BY <1>0 DEF Place, Tracks, TypeOK
<1>2. TypeOK' /\ Counts'
  BY <1>0, <1>a DEF TypeOK, Counts, Place, Running
<1>5. Marked' /\ UdpLife'
  BY <1>0 DEF UdpLife, Place, TypeOK, Swept, Marked, Running
<1>6. NetworkStopped'
  BY <1>0 DEF NetworkStopped, Swept, Place, Tracks, UdpLife, Marked, TypeOK, Running, Live
<1>7. NothingLeft'
  BY FS_EmptySet, FS_CardinalityType, <1>0 DEF NothingLeft, Counts, Place, TypeOK
<1> QED
  BY <1>1, <1>2, <1>5, <1>6, <1>7

\* IInv is preserved by CloseAwakes.
LEMMA CloseAwakesStep ==
  ASSUME IInv, ListenerAssumption, NEW c \in Closers, CloseAwakes(c)
  PROVE  IInv'
<1> USE DEF IInv, CloseAwakes, udpVars, mapVars, sockVars, Fresh
<1>0. Live' = Live
  BY DEF Live
<1>a. Cardinality(Live) \in Nat
  BY FS_CardinalityType DEF Counts
<1>1. Place' /\ Tracks'
  BY <1>0 DEF Place, Tracks, TypeOK
<1>2. TypeOK' /\ Counts'
  BY <1>0, <1>a DEF TypeOK, Counts, Place, Running
<1>5. Marked' /\ UdpLife'
  BY <1>0 DEF UdpLife, Place, TypeOK, Swept, Marked, Running
<1>6. NetworkStopped'
  BY <1>0 DEF NetworkStopped, Swept, Place, Tracks, UdpLife, Marked, TypeOK, Running, Live
<1>7. NothingLeft'
  BY FS_EmptySet, FS_CardinalityType, <1>0 DEF NothingLeft, Counts, Place, TypeOK
<1> QED
  BY <1>1, <1>2, <1>5, <1>6, <1>7

\* IInv is preserved by CloseIterates.
LEMMA CloseIteratesStep ==
  ASSUME IInv, ListenerAssumption, NEW c \in Closers, CloseIterates(c)
  PROVE  IInv'
<1> USE DEF IInv, CloseIterates, udpVars, mapVars, sockVars, Fresh
<1>0. Live' = Live
  BY DEF Live
<1>a. Cardinality(Live) \in Nat
  BY FS_CardinalityType DEF Counts
<1>1. Place' /\ Tracks'
  BY <1>0 DEF Place, Tracks, TypeOK
<1>2. TypeOK' /\ Counts'
  BY <1>0, <1>a DEF TypeOK, Counts, Place, Running
<1>5. Marked' /\ UdpLife'
  BY <1>0 DEF UdpLife, Place, TypeOK, Swept, Marked, Running
<1>6. NetworkStopped'
  BY <1>0 DEF NetworkStopped, Swept, Place, Tracks, UdpLife, Marked, TypeOK, Running, Live
<1>7. NothingLeft'
  BY FS_EmptySet, FS_CardinalityType, <1>0 DEF NothingLeft, Counts, Place, TypeOK
<1> QED
  BY <1>1, <1>2, <1>5, <1>6, <1>7

\* IInv is preserved by CloseReturns.
LEMMA CloseReturnsStep ==
  ASSUME IInv, ListenerAssumption, NEW c \in Closers, CloseReturns(c)
  PROVE  IInv'
<1> USE DEF IInv, CloseReturns, udpVars, mapVars, sockVars, Fresh
<1>0. Live' = Live
  BY DEF Live
<1>a. Cardinality(Live) \in Nat
  BY FS_CardinalityType DEF Counts
<1>1. Place' /\ Tracks'
  BY <1>0 DEF Place, Tracks, TypeOK
<1>2. TypeOK' /\ Counts'
  BY <1>0, <1>a DEF TypeOK, Counts, Place, Running
<1>5. Marked' /\ UdpLife'
  BY <1>0 DEF UdpLife, Place, TypeOK, Swept, Marked, Running
<1>6. NetworkStopped'
  BY <1>0 DEF NetworkStopped, Swept, Place, Tracks, UdpLife, Marked, TypeOK, Running, Live
<1>7. NothingLeft'
  BY FS_EmptySet, FS_CardinalityType, <1>0 DEF NothingLeft, Counts, Place, TypeOK
<1> QED
  BY <1>1, <1>2, <1>5, <1>6, <1>7

-----------------------------------------------------------------------------
\* IInv holds initially: no session, the goroutine counted.
LEMMA InitIInv == ListenerAssumption /\ Init => IInv
<1> SUFFICES ASSUME ListenerAssumption, Init PROVE IInv
  OBVIOUS
<1>1. Live = {}
  BY DEF Init, Live
<1>2. TypeOK
  <2>1. isUdp \in BOOLEAN /\ lstOpen \in BOOLEAN
    BY DEF Init
  <2>2. /\ used \in SUBSET Socks /\ open \in SUBSET used
        /\ udpConn \in Socks \cup {NoSock}
    BY DEF Init
  <2>3. /\ life \in [Socks -> {"none", "open", "onclose", "ended"}]
        /\ clpc \in [Closers -> Running \cup {"idle", "early", "returned"}]
    BY DEF Init
  <2>4. isclose \in BOOLEAN /\ err \in BOOLEAN /\ locked \in BOOLEAN
    BY Zenon DEF Init
  <2>5. udpCh = 0 /\ apc = "check" /\ conn = NoSock /\ sessMap = {} /\ waitExit = 1
    BY DEF Init
  <2> QED  BY <2>1, <2>2, <2>3, <2>4, <2>5 DEF TypeOK
<1>4. Place
  <2>1. isUdp => udpConn \in used
    BY DEF Init
  <2> QED  BY <2>1 DEF Init, Place
<1>3. Counts
  BY <1>1, FS_EmptySet DEF Init, Counts
<1> QED
  BY <1>1, <1>2, <1>3, <1>4
  DEF Init, IInv, Tracks, Marked, UdpLife, NetworkStopped, NothingLeft, Swept, Running

\* IInv is preserved by every step.
LEMMA NextIInv == ListenerAssumption /\ IInv /\ [Next]_vars => IInv'
<1> SUFFICES ASSUME ListenerAssumption, IInv, [Next]_vars PROVE IInv'
  OBVIOUS
<1>1. CASE Loop
  BY <1>1, LoopCheckStep, AcceptErrorStep, AcceptLockStep, AcceptStartStep,
     AcceptInsertStep, UdpStartStep, UdpWaitStep, UdpRecheckStep, UdpListenStep,
     UdpListenFailsStep DEF Loop
<1>2. ASSUME NEW k \in Fresh, Accept(k) PROVE IInv'
  BY <1>2, AcceptStep
<1>3. ASSUME NEW k \in Socks, Session(k) PROVE IInv'
  BY <1>3, SessEndsStep, OnCloseStep, OnCloseUdpStep DEF Session
<1>4. ASSUME NEW c \in Closers, Close(c) PROVE IInv'
  BY <1>4, CloseChecksStep, CloseMarksStep, CloseLstStep, CloseUdpConnStep, CloseUdpChStep,
     CloseAwakesStep, CloseIteratesStep, CloseReturnsStep DEF Close
<1>5. CASE UNCHANGED vars
  <2>1. Live' = Live
    BY <1>5 DEF vars, Live
  <2>2. TypeOK' /\ Place'
    <3>1. TypeOK'
      BY <1>5 DEF vars, IInv, TypeOK
    <3>2. Place'
      BY <1>5, <2>1 DEF vars, IInv, Place
    <3> QED  BY <3>1, <3>2
  <2>4. Tracks' /\ Counts'
    BY <1>5, <2>1 DEF vars, IInv, Tracks, Counts
  <2>3. Marked' /\ UdpLife' /\ NetworkStopped' /\ NothingLeft'
    BY <1>5, <2>1 DEF vars, IInv, Marked, UdpLife, NetworkStopped, NothingLeft, Swept
  <2> QED  BY <2>2, <2>3, <2>4 DEF IInv
<1> QED
  BY <1>1, <1>2, <1>3, <1>4, <1>5 DEF Next

\* The invariant of the listener.
LEMMA IInvHolds == Spec => []IInv
<1>1. Init => IInv
  BY InitIInv, ListenerAssumption
<1>2. IInv /\ [Next]_vars => IInv'
  BY NextIInv, ListenerAssumption
<1> QED
  BY <1>1, <1>2, PTL DEF Spec

\* The variables keep their types; waitExit never becomes negative, which
\* would be a panic of sync.WaitGroup.
THEOREM TypeCorrect == Spec => []TypeOK
<1>1. IInv => TypeOK
  BY DEF IInv
<1> QED
  BY IInvHolds, <1>1, PTL

\* While its mutex is free, sessMap holds exactly the sessions whose onclose has
\* not run, for any number of connections (listener.go:51-62).
THEOREM MapTracksSessionsHolds == Spec => []MapTracksSessions
<1>1. IInv => MapTracksSessions
  BY Zenon DEF IInv, Tracks, Place, MapTracksSessions
<1> QED
  BY IInvHolds, <1>1, PTL

\* When Close of a TCP listener has returned, its goroutine and all its
\* sessions are over, however many callers and connections there are.
THEOREM NothingLeftHolds == Spec => []NothingLeft
<1>1. IInv => NothingLeft
  BY DEF IInv
<1> QED
  BY IInvHolds, <1>1, PTL

\* Until it is closed, a UDP listener has one session at a time and no token
\* too many.
THEOREM OneUdpSessionHolds == Spec => []OneUdpSession
<1>1. IInv => OneUdpSession
  <2> SUFFICES ASSUME IInv, isUdp, ~isclose PROVE OneUdpSession
    BY DEF OneUdpSession
  <2>1. CASE Live = {}
    BY <2>1, FS_EmptySet DEF IInv, UdpLife, OneUdpSession, TypeOK
  <2>2. CASE Live = {udpConn}
    BY <2>2, FS_Singleton, SMTT(60) DEF IInv, UdpLife, OneUdpSession, TypeOK
  <2> QED  BY <2>1, <2>2 DEF IInv, UdpLife
<1> QED
  BY IInvHolds, <1>1, PTL

\* No session receives from an open socket once Close has closed what it found,
\* so the awakening datagram of Close reaches no session.
THEOREM NetworkStoppedHolds == Spec => []NetworkStopped
<1>1. IInv => NetworkStopped
  BY DEF IInv
<1> QED
  BY IInvHolds, <1>1, PTL

\* The listener knows its sessions: those of TCP through sessMap, that of UDP as
\* the only one (listener.go:44-66, 95-117).
THEOREM SessionsTrackedHolds == Spec => []SessionsTracked
BY MapTracksSessionsHolds, OneUdpSessionHolds, PTL DEF SessionsTracked

\* Close stops the network, and when it returns nothing of a TCP listener is
\* left (listener.go:120-144).
THEOREM CloseIsCompleteHolds == Spec => []CloseIsComplete
BY NetworkStoppedHolds, NothingLeftHolds, PTL DEF CloseIsComplete
=============================================================================
