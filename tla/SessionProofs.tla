---------------------------- MODULE SessionProofs ----------------------------
(***************************************************************************)
(* Proofs about the life of a Session, for any number of incarnations, any *)
(* queue lengths and any data.                                             *)
(***************************************************************************)
EXTENDS Session, TLAPS

LEMMA LastInc == MaxInc \in Nat \ {0}
BY SessionAssumption

\* A goroutine that runs belongs to the current incarnation.
LEMMA CurrentOnly ==
  ASSUME ControlType, Lifecycle, NEW k \in Incs,
         Running(sendpc[k]) \/ Running(handpc[k]) \/ Running(recvpc[k])
  PROVE  k = inc /\ inc > 0
BY LastInc DEF ControlType, Lifecycle, Running, Incs

LEMMA LifecycleInit == Init => ControlType /\ Lifecycle
<1> SUFFICES ASSUME Init PROVE ControlType /\ Lifecycle
  OBVIOUS
<1>1. ControlType
  <2>1. isclose \in BOOLEAN /\ closer \in BOOLEAN /\ panicking \in BOOLEAN
    BY Zenon DEF Init
  <2>2. inc \in 0 .. MaxInc
    BY LastInc DEF Init
  <2> QED
    BY <2>1, <2>2 DEF Init, ControlType, SendPC, HandPC, RecvPC
<1>2. Lifecycle
  BY LastInc DEF Init, Lifecycle, Incs
<1> QED
  BY <1>1, <1>2

LEMMA LifecycleRestart ==
  ASSUME ControlType, Lifecycle, restart
  PROVE  ControlType' /\ Lifecycle'
<1>1. inc \in 0 .. MaxInc - 1 /\ inc' = inc + 1 /\ inc + 1 \in Incs
  BY LastInc DEF restart, ControlType, Incs
<1>2. ControlType'
  <2>1. isclose' \in BOOLEAN /\ closer' \in BOOLEAN /\ panicking' \in BOOLEAN
    BY Zenon DEF restart, ControlType
  <2>2. inc' \in 0 .. MaxInc
    BY <1>1, LastInc
  <2>3. /\ sendpc' \in [Incs -> SendPC]
        /\ handpc' \in [Incs -> HandPC]
        /\ recvpc' \in [Incs -> RecvPC]
    BY Zenon DEF restart, ControlType, SendPC, HandPC, RecvPC
  <2> QED
    BY <2>1, <2>2, <2>3 DEF restart, ControlType
<1>3. \A k \in Incs : k # inc + 1 =>
        sendpc'[k] = sendpc[k] /\ handpc'[k] = handpc[k] /\ recvpc'[k] = recvpc[k]
  BY DEF restart, ControlType
<1>4. sendpc'[inc + 1] = "select" /\ handpc'[inc + 1] = "select" /\ recvpc'[inc + 1] = "open"
  BY <1>1 DEF restart, ControlType
<1>5. ASSUME NEW k \in Incs, k < inc + 1
      PROVE  sendpc[k] = "ended" /\ handpc[k] = "ended" /\ recvpc[k] = "ended"
  <2>1. CASE k < inc
    BY <2>1 DEF Lifecycle
  <2>2. CASE k = inc
    <3>1. inc > 0 /\ isclose /\ sig = 1
      BY <1>1, <2>2 DEF restart, Incs
    <3> QED
      BY <2>2, <3>1 DEF Lifecycle
  <2> QED
    BY <1>1, <1>5, <2>1, <2>2 DEF Incs
<1>6. Lifecycle'
  <2>1. ASSUME NEW k \in Incs
        PROVE  IF k > inc'
               THEN sendpc'[k] = "off" /\ handpc'[k] = "off" /\ recvpc'[k] = "off"
               ELSE sendpc'[k] # "off" /\ handpc'[k] # "off" /\ recvpc'[k] # "off"
    BY <1>1, <1>3, <1>4, <1>5, <2>1 DEF Lifecycle, Incs
  <2>2. ASSUME NEW k \in Incs, k < inc'
        PROVE  sendpc'[k] = "ended" /\ handpc'[k] = "ended" /\ recvpc'[k] = "ended"
    BY <1>1, <1>3, <1>5, <2>2 DEF Incs
  <2> QED
    BY <1>1, <1>4, <2>1, <2>2 DEF Lifecycle, restart
<1> QED
  BY <1>2, <1>6

LEMMA LifecycleUsers ==
  ASSUME ControlType, Lifecycle, Send \/ Close \/ PeerCloses
  PROVE  ControlType' /\ Lifecycle'
<1>1. UNCHANGED <<inc, isclose, closer, sig, sendpc, handpc, recvpc, panicking>>
  BY DEF Send, Close, PeerCloses, chanVars, sendVars, handVars, recvVars
<1>2. sock' \in {"none", "open", "closed"} /\ peer' \in {"up", "down"}
  BY DEF Send, Close, PeerCloses, ControlType
<1>3. sock' = sock \/ (~isclose /\ sock' = "closed")
  BY DEF Send, Close, PeerCloses
<1>4. ControlType'
  BY <1>1, <1>2 DEF ControlType
<1>5. Lifecycle'
  BY <1>1, <1>3 DEF Lifecycle
<1> QED
  BY <1>4, <1>5

LEMMA LifecycleSend ==
  ASSUME ControlType, Lifecycle, NEW k \in Incs, dosend(k)
  PROVE  ControlType' /\ Lifecycle'
<1>1. k = inc /\ inc > 0
  BY CurrentOnly DEF dosend, SendQuit, SendTake, SendWrite, SendError, Running
<1>2. UNCHANGED <<inc, peer, isclose, closer, sig, handpc, recvpc, panicking>>
  BY DEF dosend, SendQuit, SendTake, SendWrite, SendError, chanVars, handVars, recvVars
<1>3. sock' = sock \/ sock' = "closed"
  BY DEF dosend, SendQuit, SendTake, SendWrite, SendError
<1>4. \E pc \in {"select", "write", "ended"} : sendpc' = [sendpc EXCEPT ![k] = pc]
  <2>1. CASE SendWrite(k)
    BY <2>1, Zenon DEF SendWrite
  <2> QED
    BY <2>1 DEF dosend, SendQuit, SendTake, SendError
<1>5. sendpc[k] # "ended"
  BY DEF dosend, SendQuit, SendTake, SendWrite, SendError
<1>6. ControlType'
  BY <1>2, <1>3, <1>4 DEF ControlType, SendPC
<1>7. Lifecycle'
  BY <1>1, <1>2, <1>3, <1>4, <1>5 DEF Lifecycle, ControlType
<1> QED
  BY <1>6, <1>7

LEMMA LifecycleHand ==
  ASSUME ControlType, Lifecycle, NEW k \in Incs, dohand(k)
  PROVE  ControlType' /\ Lifecycle'
<1> USE DEF HandTake, HandLast, ParseOne, ParseNone, ParseReject, ParsePanic
<1>1. k = inc /\ inc > 0
  BY CurrentOnly, Zenon DEF dohand, Running
<1>2. UNCHANGED <<inc, peer, isclose, closer, sig, sendpc, recvpc, panicking>>
  BY Zenon DEF dohand, chanVars, sendVars, recvVars
<1>3. sock' = sock \/ sock' = "closed"
  BY Zenon DEF dohand
<1>4. \E pc \in {"select", "parse", "ended"} : handpc' = [handpc EXCEPT ![k] = pc]
  <2>1. CASE ParseOne(k)
    <3>1. handpc[k] = "parse" /\ (handpc' = handpc \/ handpc' = [handpc EXCEPT ![k] = "select"])
      BY <2>1
    <3>2. handpc = [handpc EXCEPT ![k] = handpc[k]]
      BY DEF ControlType
    <3> QED
      BY <3>1, <3>2
  <2> QED
    BY <2>1, Zenon DEF dohand
<1>5. handpc[k] # "ended"
  BY Zenon DEF dohand
<1>6. ControlType'
  BY <1>2, <1>3, <1>4 DEF ControlType, HandPC
<1>7. Lifecycle'
  BY <1>1, <1>2, <1>3, <1>4, <1>5 DEF Lifecycle, ControlType
<1> QED
  BY <1>6, <1>7

LEMMA LifecycleRecv ==
  ASSUME ControlType, Lifecycle, NEW k \in Incs, dorecv(k) \/ DataArrives(k)
  PROVE  ControlType' /\ Lifecycle'
<1>1. k = inc /\ inc > 0
  BY CurrentOnly DEF dorecv, DataArrives, RecvOpen, RecvRead, RecvError, RecvEmpty, RecvPush,
                     RecvClose, RecvWait, RecvEvent, RecvOnClose, Running
<1>2. UNCHANGED <<inc, peer, sendpc, handpc>>
  BY DEF dorecv, DataArrives, RecvOpen, RecvRead, RecvError, RecvEmpty, RecvPush, RecvClose,
         RecvWait, RecvEvent, RecvOnClose, sendVars, handVars
<1>3. ASSUME UNCHANGED <<isclose, closer, sig, sock>>, panicking' \in BOOLEAN,
             recvpc[k] \in {"open", "read", "push"},
             NEW pc \in {"read", "push", "closing"}, recvpc' = [recvpc EXCEPT ![k] = pc]
      PROVE  ControlType' /\ Lifecycle'
  <2>1. ControlType'
    BY <1>2, <1>3 DEF ControlType, RecvPC
  <2>2. Lifecycle'
    BY <1>1, <1>2, <1>3 DEF Lifecycle, ControlType
  <2> QED
    BY <2>1, <2>2
<1>4. CASE RecvOpen(k) \/ RecvRead(k) \/ RecvError(k) \/ RecvPush(k)
  <2>1. panicking' \in BOOLEAN
    BY <1>4 DEF RecvOpen, RecvRead, RecvError, RecvPush, ControlType
  <2> QED
    BY <1>3, <1>4, <2>1 DEF RecvOpen, RecvRead, RecvError, RecvPush, chanVars
<1>5. CASE RecvEmpty(k)
  BY <1>3, <1>5 DEF RecvEmpty, chanVars
<1>6. CASE RecvClose(k)
  <2>1. ControlType'
    <3>1. isclose' \in BOOLEAN /\ closer' \in BOOLEAN /\ panicking' \in BOOLEAN
      BY <1>6 DEF RecvClose, ControlType
    <3> QED
      BY <1>2, <1>6, <3>1 DEF RecvClose, ControlType, RecvPC
  <2>2. Lifecycle'
    BY <1>1, <1>2, <1>6 DEF RecvClose, Lifecycle, ControlType
  <2> QED
    BY <2>1, <2>2
<1>7. CASE RecvWait(k)
  <2>1. ControlType'
    <3>1. isclose' \in BOOLEAN /\ closer' \in BOOLEAN /\ panicking' \in BOOLEAN
      BY <1>7 DEF RecvWait, ControlType
    <3> QED
      BY <1>2, <1>7, <3>1 DEF RecvWait, ControlType, RecvPC
  <2>2. Lifecycle'
    BY <1>1, <1>2, <1>7 DEF RecvWait, Lifecycle, ControlType
  <2> QED
    BY <2>1, <2>2
<1>8. CASE RecvEvent(k)
  <2>1. ControlType'
    BY <1>2, <1>8 DEF RecvEvent, ControlType, RecvPC, chanVars
  <2>2. Lifecycle'
    BY <1>1, <1>2, <1>8 DEF RecvEvent, Lifecycle, ControlType, chanVars
  <2> QED
    BY <2>1, <2>2
<1>9. CASE RecvOnClose(k)
  <2>1. ControlType'
    BY <1>2, <1>9 DEF RecvOnClose, ControlType, RecvPC
  <2>2. Lifecycle'
    BY <1>1, <1>2, <1>9 DEF RecvOnClose, Lifecycle, ControlType
  <2> QED
    BY <2>1, <2>2
<1> QED
  BY <1>4, <1>5, <1>6, <1>7, <1>8, <1>9 DEF dorecv, DataArrives

LEMMA LifecycleStep == ControlType /\ Lifecycle /\ [Next]_vars => ControlType' /\ Lifecycle'
<1> SUFFICES ASSUME ControlType, Lifecycle, [Next]_vars PROVE ControlType' /\ Lifecycle'
  OBVIOUS
<1>1. CASE UNCHANGED vars
  BY <1>1 DEF vars, ControlType, Lifecycle
<1>2. CASE Step
  BY <1>2, LifecycleRestart, LifecycleUsers, LifecycleSend, LifecycleHand, LifecycleRecv DEF Step
<1> QED
  BY <1>1, <1>2 DEF Next

LEMMA LifecycleHolds == Spec => [](ControlType /\ Lifecycle)
BY LifecycleInit, LifecycleStep, PTL DEF Spec

(***************************************************************************)
(* The goroutines of two incarnations of a session never overlap           *)
(* (session.go:166-188, 263-281).                                          *)
(***************************************************************************)
THEOREM OneIncarnationHolds == Spec => []OneIncarnation
<1>1. Lifecycle => OneIncarnation
  BY DEF Lifecycle, OneIncarnation
<1> QED
  BY <1>1, LifecycleHolds, PTL

(***************************************************************************)
(* When IsClose() is true, the socket is closed and nothing is being sent  *)
(* or parsed (session.go:222-224, 271-272).                                *)
(***************************************************************************)
THEOREM QuietWhenClosedHolds == Spec => []QuietWhenClosed
<1>1. ControlType /\ Lifecycle => QuietWhenClosed
  <2> SUFFICES ASSUME ControlType, Lifecycle, isclose PROVE QuietWhenClosed
    BY DEF QuietWhenClosed
  <2>1. sock # "open"
    BY LastInc DEF ControlType, Lifecycle
  <2>2. ASSUME NEW k \in Incs
        PROVE  /\ sendpc[k] \in {"off", "ended"} /\ handpc[k] \in {"off", "ended"}
               /\ recvpc[k] \in {"off", "event", "onclose", "ended"}
    <3>1. CASE k > inc
      BY <3>1 DEF Lifecycle
    <3>2. CASE k < inc
      BY <3>2 DEF Lifecycle
    <3>3. CASE k = inc
      BY <3>3, LastInc DEF Lifecycle, ControlType, Incs
    <3> QED
      BY <3>1, <3>2, <3>3, LastInc DEF ControlType, Incs
  <2> QED
    BY <2>1, <2>2 DEF QuietWhenClosed
<1> QED
  BY <1>1, LifecycleHolds, PTL
-----------------------------------------------------------------------------
(* The session implements SessionLife.                                     *)

\* In a reachable state the stage is determined by the current dorecv.
Stage ==
  IF inc = 0 \/ recvpc[inc] = "ended" THEN "closed"
  ELSE IF recvpc[inc] \in {"event", "onclose"} THEN "quiet"
  ELSE IF recvpc[inc] = "wait" THEN "closing"
  ELSE "open"

LEMMA StageIsLife == ControlType /\ Lifecycle => lifeOf = Stage
<1> SUFFICES ASSUME ControlType, Lifecycle PROVE lifeOf = Stage
  OBVIOUS
<1>1. CASE inc = 0
  BY <1>1, LastInc DEF lifeOf, Stage, Running, Lifecycle, Incs
<1>2. CASE inc > 0
  <2>1. inc \in Incs
    BY <1>2, LastInc DEF ControlType, Incs
  <2>2. \A k \in Incs : k # inc =>
          ~Running(sendpc[k]) /\ ~Running(handpc[k]) /\ ~Running(recvpc[k])
    BY CurrentOnly
  <2>3. /\ isclose <=> recvpc[inc] \in {"event", "onclose", "ended"}
        /\ closer <=> recvpc[inc] \in {"wait", "event", "onclose", "ended"}
        /\ isclose => sendpc[inc] = "ended" /\ handpc[inc] = "ended"
        /\ recvpc[inc] # "off"
    BY <1>2, <2>1 DEF Lifecycle
  <2>4. CASE recvpc[inc] = "ended"
    BY <2>1, <2>2, <2>3, <2>4 DEF lifeOf, Stage, Running
  <2>5. CASE recvpc[inc] # "ended"
    <3>1. Running(recvpc[inc])
      BY <2>3, <2>5 DEF Running
    <3>2. isclose => \A k \in Incs : ~Running(sendpc[k]) /\ ~Running(handpc[k])
      BY <2>2, <2>3 DEF Running
    <3> QED
      BY <1>2, <2>1, <2>3, <2>5, <3>1, <3>2 DEF lifeOf, Stage
  <2> QED
    BY <2>4, <2>5
<1> QED
  BY <1>1, <1>2, LastInc DEF ControlType

LEMMA LifeStep ==
  ASSUME ControlType, Lifecycle, [Next]_vars
  PROVE  [Life!Next]_lifeOf
<1>1. lifeOf = Stage
  BY StageIsLife
<1>2. lifeOf' = Stage'
  <2>1. ControlType' /\ Lifecycle'
    BY LifecycleStep
  <2>2. (ControlType /\ Lifecycle => lifeOf = Stage)'
    BY StageIsLife, PTL
  <2> QED
    BY <2>1, <2>2
<1>3. \/ Stage' = Stage
      \/ Stage = "closed" /\ Stage' = "open"
      \/ Stage = "open" /\ Stage' = "closing"
      \/ Stage = "closing" /\ Stage' = "quiet"
      \/ Stage = "quiet" /\ Stage' = "closed"
  <2>1. CASE UNCHANGED <<inc, recvpc>>
    BY <2>1 DEF Stage
  <2>2. CASE restart
    <3>1. inc + 1 \in Incs /\ inc' = inc + 1 /\ inc' # 0
      BY <2>2, LastInc DEF restart, ControlType, Incs
    <3>2. recvpc'[inc'] = "open"
      BY <2>2, <3>1 DEF restart, ControlType
    <3>3. Stage = "closed"
      BY <2>2 DEF restart, Lifecycle, Stage, ControlType
    <3> QED
      BY <3>1, <3>2, <3>3 DEF Stage
  <2>3. ASSUME NEW k \in Incs, dorecv(k) \/ DataArrives(k)
        PROVE  \/ Stage' = Stage
               \/ Stage = "closed" /\ Stage' = "open"
               \/ Stage = "open" /\ Stage' = "closing"
               \/ Stage = "closing" /\ Stage' = "quiet"
               \/ Stage = "quiet" /\ Stage' = "closed"
    <3>1. k = inc /\ inc > 0
      BY <2>3, CurrentOnly DEF dorecv, DataArrives, RecvOpen, RecvRead, RecvError, RecvEmpty,
                               RecvPush, RecvClose, RecvWait, RecvEvent, RecvOnClose, Running
    <3>2. inc' = inc
      BY <2>3 DEF dorecv, DataArrives, RecvOpen, RecvRead, RecvError, RecvEmpty,
                  RecvPush, RecvClose, RecvWait, RecvEvent, RecvOnClose
    <3> QED
      BY <2>3, <3>1, <3>2 DEF dorecv, DataArrives, RecvOpen, RecvRead, RecvError, RecvEmpty,
                              RecvPush, RecvClose, RecvWait, RecvEvent, RecvOnClose, ControlType, Stage
  <2>4. ASSUME NEW k \in Incs, dosend(k) \/ dohand(k)
        PROVE  UNCHANGED <<inc, recvpc>>
    BY <2>4, Zenon DEF dosend, SendQuit, SendTake, SendWrite, SendError, dohand, HandTake, HandLast,
                ParseOne, ParseNone, ParseReject, ParsePanic, recvVars
  <2>5. ASSUME Send \/ Close \/ PeerCloses
        PROVE  UNCHANGED <<inc, recvpc>>
    BY <2>5 DEF Send, Close, PeerCloses, recvVars
  <2> QED
    BY <2>1, <2>2, <2>3, <2>4, <2>5 DEF Next, Step, vars
<1> QED
  BY <1>1, <1>2, <1>3 DEF Life!Next, Life!Restart, Life!Closing, Life!Quiet, Life!Closed

(***************************************************************************)
(* The session implements SessionLife: every behaviour of its goroutines,  *)
(* callers and network goes round the stages closed, open, closing, quiet  *)
(* (session.go:166-188, 263-281).                                          *)
(***************************************************************************)
THEOREM SessionImplementsLife == Spec => LifeSpec
<1>1. Init => Life!Init
  BY DEF Init, Life!Init, lifeOf, Running
<1> QED
  BY <1>1, LifeStep, LifecycleHolds, PTL DEF Spec, LifeSpec, Life!Spec

(***************************************************************************)
(* A restart meets nobody of an earlier connection, and IsClose() is true  *)
(* only when nobody is left (session.go:166-188, 262-315).                 *)
(***************************************************************************)
THEOREM NoOverlapHolds == Spec => []NoOverlap
BY OneIncarnationHolds, QuietWhenClosedHolds, PTL DEF NoOverlap
-----------------------------------------------------------------------------
(* The channels, buffers and histories keep their types and bounds.        *)

LEMMA Sizes ==
  /\ WriterListLen \in Nat \ {0} /\ RecvListLen \in Nat \ {0}
  /\ MsgUnits \in Nat \ {0} /\ MsgParts \in Nat \ {0}
  /\ MaxUnits \in Nat /\ MaxSend \in Nat /\ MaxRead \in Nat \ {0}
BY SessionAssumption

LEMMA DataInit == Init => DataType
<1> SUFFICES ASSUME Init PROVE DataType
  OBVIOUS
<1>1. isUdp \in BOOLEAN /\ rejected \in BOOLEAN
  BY Zenon DEF Init
<1>2. [msg |-> 0, n |-> 0] \in [msg : Nat, n : 0 .. MsgParts - 1]
  BY Sizes
<1>3. wbuf \in [Incs -> [msg : Nat, n : 0 .. MsgParts - 1]]
  BY <1>2 DEF Init
<1> QED
  BY <1>1, <1>3, Sizes DEF Init, DataType

LEMMA DataUsers ==
  ASSUME DataType, restart \/ Send \/ Close \/ PeerCloses
  PROVE  DataType'
<1>0. isUdp' \in BOOLEAN /\ rejected' \in BOOLEAN
  BY Zenon DEF restart, Send, Close, PeerCloses, handVars, DataType
<1>1. CASE restart
  BY <1>0, <1>1, Sizes DEF restart, DataType
<1>2. CASE Send
  <2>1. calls' \in 0 .. MaxSend /\ calls + 1 \in Nat
    BY <1>2, Sizes DEF Send, DataType
  <2>2. writer' \in Seq(Nat) /\ Len(writer') <= WriterListLen
    <3>1. writer \in Seq(Nat) /\ Len(writer) \in Nat /\ Len(writer) <= WriterListLen
      BY DEF DataType
    <3>2. /\ Append(writer, calls + 1) \in Seq(Nat)
          /\ Len(Append(writer, calls + 1)) = Len(writer) + 1
      BY <2>1, <3>1
    <3> QED
      BY <1>2, <3>1, <3>2, Sizes, SMTT(60) DEF Send
  <2> QED
    BY <1>0, <1>2, <2>1, <2>2 DEF Send, DataType, sendVars, handVars, recvVars
<1>3. CASE Close \/ PeerCloses
  BY <1>0, <1>3 DEF Close, PeerCloses, DataType, chanVars, sendVars, handVars, recvVars
<1> QED
  BY <1>1, <1>2, <1>3

LEMMA RunIsSeq ==
  ASSUME NEW m \in Nat, NEW a \in Nat, NEW b \in Nat, a <= b
  PROVE  /\ Run(m, a, b) \in Seq(Units)
         /\ Len(Run(m, a, b)) = b - a
         /\ \A j \in 1 .. b - a : Run(m, a, b)[j] = <<m, a + j>>
<1>1. \A j \in 1 .. b - a : <<m, a + j>> \in Units
  BY DEF Units
<1>2. Run(m, a, b) \in [1 .. b - a -> Units] /\ b - a \in Nat
  BY <1>1 DEF Run
<1>3. Run(m, a, b) \in Seq(Units) /\ Len(Run(m, a, b)) = b - a
  BY <1>2
<1>4. \A j \in 1 .. b - a : Run(m, a, b)[j] = <<m, a + j>>
  BY DEF Run
<1> QED
  BY <1>3, <1>4

\* One Read: the next units of the connection.
LEMMA RecvReadUnits ==
  ASSUME ControlType, DataType, NEW k \in Incs, RecvRead(k)
  PROVE  /\ Conn(k) = inc /\ inc \in Nat
         /\ \E b \in 0 .. MaxUnits : /\ got < b /\ got' = b
                                     /\ rbuf' = [rbuf EXCEPT ![k] = Run(inc, got, b)]
<1>1. Conn(k) = inc /\ inc \in Nat
  BY LastInc DEF RecvRead, IsOpen, ControlType
<1>2. PICK n \in 1 .. MaxRead :
        /\ got + n <= MaxUnits
        /\ rbuf' = [rbuf EXCEPT ![k] = [j \in 1 .. n |-> <<Conn(k), got + j>>]]
        /\ got' = got + n
  BY Zenon DEF RecvRead
<1>3. got \in Nat /\ got + n \in 0 .. MaxUnits /\ got < got + n
  BY <1>2, Sizes DEF DataType
<1>4. [j \in 1 .. n |-> <<Conn(k), got + j>>] = Run(inc, got, got + n)
  BY <1>1, <1>2, <1>3 DEF Run
<1> QED
  BY <1>1, <1>2, <1>3, <1>4, Zenon

LEMMA DataRecv ==
  ASSUME ControlType, DataType, NEW k \in Incs, dorecv(k) \/ DataArrives(k)
  PROVE  DataType'
<1> USE DEF RecvOpen, RecvRead, RecvError, RecvEmpty, RecvPush, RecvClose, RecvWait, RecvEvent, RecvOnClose
<1>1. isUdp' \in BOOLEAN /\ rejected' \in BOOLEAN
  BY DEF dorecv, DataArrives, handVars, DataType
<1>2. UNCHANGED <<writer, wbuf, hbuf, tempBuf, calls, wire, handled>>
  BY DEF dorecv, DataArrives, chanVars, sendVars, handVars
<1>3. rbuf \in [Incs -> Seq(Units)] /\ hander \in Seq(Seq(Units)) /\ Len(hander) <= RecvListLen
  BY DEF DataType
<1>4. CASE RecvRead(k)
  <2>1. PICK b \in 0 .. MaxUnits : got < b /\ got' = b /\ rbuf' = [rbuf EXCEPT ![k] = Run(inc, got, b)]
    BY <1>4, RecvReadUnits, Zenon
  <2>2. Run(inc, got, b) \in Seq(Units)
    <3>1. inc \in Nat /\ got \in Nat /\ b \in Nat /\ got <= b
      <4>1. got \in 0 .. MaxUnits /\ inc \in 0 .. MaxInc
        BY DEF ControlType, DataType
      <4> QED
        BY <2>1, <4>1, LastInc, Sizes
    <3> QED
      BY <3>1, RunIsSeq
  <2>3. rbuf' \in [Incs -> Seq(Units)] /\ got' \in 0 .. MaxUnits
    BY <1>3, <2>1, <2>2
  <2> QED
    BY <1>1, <1>2, <1>4, <2>3, Zenon DEF DataType, chanVars
<1>5. CASE RecvPush(k)
  <2>1. rbuf' \in [Incs -> Seq(Units)]
    BY <1>3, <1>5
  <2>2. hander' \in Seq(Seq(Units)) /\ Len(hander') <= RecvListLen
    <3>1. rbuf[k] \in Seq(Units) /\ Len(hander) < RecvListLen /\ hander' = Append(hander, rbuf[k])
      BY <1>3, <1>5
    <3> QED
      BY <1>3, <3>1, Sizes
  <2> QED
    BY <1>1, <1>2, <1>5, <2>1, <2>2, Zenon DEF DataType
<1> QED
  BY <1>1, <1>2, <1>4, <1>5 DEF dorecv, DataArrives, chanVars, DataType

LEMMA DataHand ==
  ASSUME DataType, NEW k \in Incs, dohand(k)
  PROVE  DataType'
<1> USE DEF HandTake, HandLast, ParseOne, ParseNone, ParseReject, ParsePanic
<1>0. <<>> \in Seq(Units)
  OBVIOUS
<1>1. isUdp' \in BOOLEAN /\ rejected' \in BOOLEAN
  BY Zenon DEF dohand, DataType
<1>2. UNCHANGED <<writer, wbuf, rbuf, got, calls, wire>>
  BY Zenon DEF dohand, chanVars, sendVars, recvVars
<1>3. /\ hander \in Seq(Seq(Units)) /\ Len(hander) <= RecvListLen
      /\ hbuf \in [Incs -> Seq(Units)] /\ tempBuf \in [Incs -> Seq(Units)]
      /\ handled \in Seq(Seq(Units))
  BY DEF DataType
<1>4. hander # <<>> => /\ Head(hander) \in Seq(Units)
                       /\ Tail(hander) \in Seq(Seq(Units)) /\ Len(Tail(hander)) <= RecvListLen
  BY <1>3, Sizes
<1>5. ASSUME NEW s \in Seq(Units), Len(s) >= MsgUnits
      PROVE  Append(handled, SubSeq(s, 1, MsgUnits)) \in Seq(Seq(Units))
  <2>1. SubSeq(s, 1, MsgUnits) \in Seq(Units)
    BY <1>5, Sizes
  <2> QED
    BY <1>3, <2>1
<1>6. hander' \in Seq(Seq(Units)) /\ Len(hander') <= RecvListLen
  BY <1>3, <1>4, Zenon DEF dohand, chanVars
<1>7. tempBuf' \in [Incs -> Seq(Units)]
  <2>1. tempBuf' = tempBuf \/ tempBuf' = [tempBuf EXCEPT ![k] = <<>>] \/ tempBuf' = [tempBuf EXCEPT ![k] = hbuf[k]]
    BY Zenon DEF dohand
  <2> QED
    BY <1>0, <1>3, <2>1, Zenon
<1>8. hbuf' \in [Incs -> Seq(Units)]
  <2>1. CASE HandTake(k)
    <3>1. tempBuf[k] \o Head(hander) \in Seq(Units)
      BY <1>3, <1>4, <2>1
    <3> QED
      BY <1>3, <2>1, <3>1
  <2>2. CASE ParseOne(k)
    <3>1. SubSeq(hbuf[k], MsgUnits + 1, Len(hbuf[k])) \in Seq(Units)
      BY <1>3, Sizes
    <3>2. \/ hbuf' = [hbuf EXCEPT ![k] = <<>>]
          \/ hbuf' = [hbuf EXCEPT ![k] = SubSeq(hbuf[k], MsgUnits + 1, Len(hbuf[k]))]
      BY <2>2
    <3> QED
      BY <1>0, <1>3, <3>1, <3>2, Zenon
  <2>3. CASE HandLast(k) \/ ParseNone(k) \/ ParseReject(k) \/ ParsePanic(k)
    <3>1. hbuf' = hbuf \/ hbuf' = [hbuf EXCEPT ![k] = <<>>]
      BY <2>3, Zenon
    <3> QED
      BY <1>0, <1>3, <3>1, Zenon
  <2> QED
    BY <2>1, <2>2, <2>3, Zenon DEF dohand
<1>9. handled' \in Seq(Seq(Units))
  <2>1. CASE HandLast(k)
    <3>1. PICK data : /\ data = tempBuf[k] \o (IF hander = <<>> THEN <<>> ELSE Head(hander))
                      /\ \/ handled' = handled
                         \/ Len(data) >= MsgUnits /\ handled' = Append(handled, SubSeq(data, 1, MsgUnits))
      BY <2>1, Zenon
    <3>2. data \in Seq(Units)
      BY <1>3, <1>4, <3>1
    <3> QED
      BY <1>3, <1>5, <3>1, <3>2, Zenon
  <2>2. CASE ParseOne(k)
    BY <1>3, <1>5, <2>2
  <2> QED
    BY <1>3, <2>1, <2>2, Zenon DEF dohand
<1> QED
  BY <1>1, <1>2, <1>6, <1>7, <1>8, <1>9, Zenon DEF DataType
-----------------------------------------------------------------------------
(* Runs of consecutive units, and chunks that are runs.                    *)

LEMMA SeqsEqual ==
  ASSUME NEW s \in Seq(Units), NEW v \in Seq(Units), Len(s) = Len(v),
         \A j \in 1 .. Len(s) : s[j] = v[j]
  PROVE  s = v
OBVIOUS

LEMMA RunConcat ==
  ASSUME NEW k \in Nat, NEW a \in Nat, NEW b \in Nat, NEW c \in Nat, a <= b, b <= c
  PROVE  Run(k, a, b) \o Run(k, b, c) = Run(k, a, c)
<1>0. a <= c
  OBVIOUS
<1>1. PICK s \in Seq(Units) : /\ s = Run(k, a, b) /\ Len(s) = b - a
                              /\ \A j \in 1 .. b - a : s[j] = <<k, a + j>>
  BY RunIsSeq, ZenonT(30)
<1>2. PICK v \in Seq(Units) : /\ v = Run(k, b, c) /\ Len(v) = c - b
                              /\ \A j \in 1 .. c - b : v[j] = <<k, b + j>>
  BY RunIsSeq, ZenonT(30)
<1>6. PICK w \in Seq(Units) : /\ w = Run(k, a, c) /\ Len(w) = c - a
                              /\ \A j \in 1 .. c - a : w[j] = <<k, a + j>>
  BY <1>0, RunIsSeq, Zenon
<1>3. PICK x \in Seq(Units) :
        /\ x = s \o v /\ Len(x) = (b - a) + (c - b)
        /\ \A j \in 1 .. b - a : x[j] = s[j]
        /\ \A j \in 1 .. c - b : x[(b - a) + j] = v[j]
  <2>1. /\ s \o v \in Seq(Units) /\ Len(s \o v) = Len(s) + Len(v)
        /\ \A j \in 1 .. Len(s) : (s \o v)[j] = s[j]
        /\ \A j \in 1 .. Len(v) : (s \o v)[Len(s) + j] = v[j]
    OBVIOUS
  <2>2. Len(s) = b - a /\ Len(v) = c - b
    BY <1>1, <1>2
  <2> QED
    BY <2>1, <2>2, Zenon
<1>4. ASSUME NEW j \in 1 .. c - a PROVE x[j] = w[j]
  <2>1. CASE j \in 1 .. b - a
    BY <1>1, <1>3, <1>6, <2>1, Zenon
  <2>2. CASE j \notin 1 .. b - a
    <3>1. PICK i \in 1 .. c - b : j = (b - a) + i
      <4>1. j - (b - a) \in 1 .. c - b /\ j = (b - a) + (j - (b - a))
        BY <2>2
      <4> QED
        BY <4>1
    <3>2. x[j] = <<k, b + i>> /\ w[j] = <<k, a + j>>
      BY <1>2, <1>3, <1>6, <3>1, Zenon
    <3>3. b + i = a + j
      BY <3>1
    <3> QED
      BY <3>2, <3>3
  <2> QED
    BY <2>1, <2>2
<1>5. x = w
  <2>1. Len(x) = c - a
    BY <1>3
  <2> QED
    BY <1>4, <1>6, <2>1, SeqsEqual
<1> QED
  BY <1>1, <1>2, <1>3, <1>5, <1>6

IsRun(s, k, a, b) == s = Run(k, a, b)

LEMMA ConcatRuns ==
  ASSUME NEW k \in Nat, NEW a \in Nat, NEW b \in Nat, NEW c \in Nat, a <= b, b <= c,
         NEW s, NEW v, IsRun(s, k, a, b), IsRun(v, k, b, c)
  PROVE  IsRun(s \o v, k, a, c)
<1>1. Run(k, a, b) \o Run(k, b, c) = Run(k, a, c)
  BY RunConcat, Zenon
<1> QED
  BY <1>1, Zenon DEF IsRun

LEMMA RunTake ==
  ASSUME NEW k \in Nat, NEW a \in Nat, NEW b \in Nat, NEW m \in Nat, a + m <= b
  PROVE  SubSeq(Run(k, a, b), 1, m) = Run(k, a, a + m)
<1> SUFFICES ASSUME NEW s, s = Run(k, a, b) PROVE SubSeq(s, 1, m) = Run(k, a, a + m)
  BY Zenon
<1>0. a + m \in Nat /\ a <= a + m /\ (a + m) - a = m /\ a <= b
  OBVIOUS
<1>1. /\ s \in Seq(Units) /\ Len(s) = b - a
      /\ \A j \in 1 .. b - a : s[j] = <<k, a + j>>
  <2>1. /\ Run(k, a, b) \in Seq(Units) /\ Len(Run(k, a, b)) = b - a
        /\ \A j \in 1 .. b - a : Run(k, a, b)[j] = <<k, a + j>>
    BY <1>0, RunIsSeq, ZenonT(30)
  <2> QED
    BY <2>1, Zenon
<1>2. PICK v \in Seq(Units) : /\ v = Run(k, a, a + m) /\ Len(v) = m
                              /\ \A j \in 1 .. m : v[j] = <<k, a + j>>
  <2>1. /\ Run(k, a, a + m) \in Seq(Units) /\ Len(Run(k, a, a + m)) = (a + m) - a
        /\ \A j \in 1 .. (a + m) - a : Run(k, a, a + m)[j] = <<k, a + j>>
    BY <1>0, RunIsSeq, Zenon
  <2>2. /\ Run(k, a, a + m) \in Seq(Units) /\ Len(Run(k, a, a + m)) = m
        /\ \A j \in 1 .. m : Run(k, a, a + m)[j] = <<k, a + j>>
    BY <1>0, <2>1
  <2> QED
    BY <2>2, Zenon
<1>3. PICK x : x = SubSeq(s, 1, m)
  BY Zenon
<1>4. x = v
  <2>1. x \in Seq(Units) /\ Len(x) = m /\ \A j \in 1 .. m : x[j] = s[j]
    BY <1>1, <1>3
  <2> QED
    <3>1. Len(x) = Len(v) /\ \A j \in 1 .. Len(x) : x[j] = v[j]
      <4>1. ASSUME NEW j \in 1 .. m PROVE x[j] = v[j]
        <5>1. j \in 1 .. b - a
          OBVIOUS
        <5> QED
          BY <1>1, <1>2, <2>1, <5>1, Zenon
      <4> QED
        BY <1>2, <2>1, <4>1, Zenon
    <3> QED
      BY <2>1, <3>1, SeqsEqual, Zenon
<1> QED
  BY <1>2, <1>3, <1>4

Rest(s, m) == SubSeq(s, m + 1, Len(s))

LEMMA RunDrop ==
  ASSUME NEW k \in Nat, NEW a \in Nat, NEW b \in Nat, NEW m \in Nat, a + m <= b
  PROVE  Rest(Run(k, a, b), m) = Run(k, a + m, b)
<1> SUFFICES ASSUME NEW s, s = Run(k, a, b) PROVE SubSeq(s, m + 1, Len(s)) = Run(k, a + m, b)
  BY Zenon DEF Rest
<1>0. a + m \in Nat /\ a <= a + m /\ (a + m) - a = m /\ a <= b
  OBVIOUS
<1>1. /\ s \in Seq(Units) /\ Len(s) = b - a
      /\ \A j \in 1 .. b - a : s[j] = <<k, a + j>>
  <2>1. /\ Run(k, a, b) \in Seq(Units) /\ Len(Run(k, a, b)) = b - a
        /\ \A j \in 1 .. b - a : Run(k, a, b)[j] = <<k, a + j>>
    BY <1>0, RunIsSeq, ZenonT(30)
  <2> QED
    BY <2>1, Zenon
<1>2. PICK w \in Seq(Units) : /\ w = Run(k, a + m, b) /\ Len(w) = b - (a + m)
                              /\ \A j \in 1 .. b - (a + m) : w[j] = <<k, (a + m) + j>>
  <2>1. /\ Run(k, a + m, b) \in Seq(Units) /\ Len(Run(k, a + m, b)) = b - (a + m)
        /\ \A j \in 1 .. b - (a + m) : Run(k, a + m, b)[j] = <<k, (a + m) + j>>
    BY <1>0, RunIsSeq, ZenonT(30)
  <2> QED
    BY <2>1, Zenon
<1>3. PICK y : y = SubSeq(s, m + 1, Len(s))
  BY Zenon
<1>4. y = w
  <2>1. y \in Seq(Units) /\ Len(y) = b - (a + m) /\ \A j \in 1 .. b - (a + m) : y[j] = s[m + j]
    BY <1>1, <1>3
  <2>2. ASSUME NEW j \in 1 .. b - (a + m) PROVE y[j] = w[j]
    <3>1. m + j \in 1 .. b - a /\ a + (m + j) = (a + m) + j
      OBVIOUS
    <3>2. y[j] = <<k, a + (m + j)>> /\ w[j] = <<k, (a + m) + j>>
      BY <1>1, <1>2, <2>1, <3>1, Zenon
    <3> QED
      BY <3>1, <3>2
  <2> QED
    <3>1. Len(y) = Len(w) /\ \A j \in 1 .. Len(y) : y[j] = w[j]
      BY <1>2, <2>1, <2>2
    <3> QED
      BY <2>1, <3>1, SeqsEqual, Zenon
<1> QED
  BY <1>2, <1>3, <1>4, Zenon

LEMMA RunContiguous ==
  ASSUME NEW k \in Nat, NEW a \in Nat, NEW b \in Nat, a <= b
  PROVE  Contiguous(Run(k, a, b))
<1>1. /\ Len(Run(k, a, b)) = b - a
      /\ \A j \in 1 .. b - a : Run(k, a, b)[j] = <<k, a + j>>
  BY RunIsSeq, Zenon
<1>2. ASSUME NEW j \in 1 .. (b - a) - 1
      PROVE  Run(k, a, b)[j + 1] = <<Run(k, a, b)[j][1], Run(k, a, b)[j][2] + 1>>
  <2>1. j \in 1 .. b - a /\ j + 1 \in 1 .. b - a /\ a + (j + 1) = (a + j) + 1
    OBVIOUS
  <2>2. Run(k, a, b)[j] = <<k, a + j>> /\ Run(k, a, b)[j + 1] = <<k, a + (j + 1)>>
    BY <1>1, <2>1
  <2> QED
    BY <2>1, <2>2
<1> QED
  BY <1>1, <1>2, Zenon DEF Contiguous

LEMMA SuffixContiguous ==
  ASSUME NEW s \in Seq(Units), NEW m \in Nat, m <= Len(s), Contiguous(s)
  PROVE  Contiguous(Rest(s, m))
<1>1. PICK y : y = SubSeq(s, m + 1, Len(s))
  BY Zenon
<1>2. Len(y) = Len(s) - m /\ \A j \in 1 .. Len(s) - m : y[j] = s[m + j]
  BY <1>1
<1>3. ASSUME NEW j \in 1 .. Len(y) - 1 PROVE y[j + 1] = <<y[j][1], y[j][2] + 1>>
  <2>1. /\ m + j \in 1 .. Len(s) - 1 /\ m + (j + 1) = (m + j) + 1
        /\ j \in 1 .. Len(s) - m /\ j + 1 \in 1 .. Len(s) - m
    BY <1>2
  <2>a. y[j] = s[m + j]
    BY <1>2, <2>1, Zenon
  <2>b. y[j + 1] = s[m + (j + 1)]
    BY <1>2, <2>1, Zenon
  <2>2. y[j] = s[m + j] /\ y[j + 1] = s[(m + j) + 1]
    BY <2>1, <2>a, <2>b, Zenon
  <2>3. PICK i \in 1 .. Len(s) - 1 : i = m + j
    BY <2>1
  <2>4. y[j] = s[i] /\ y[j + 1] = s[i + 1]
    BY <2>2, <2>3, Zenon
  <2>5. s[i + 1] = <<s[i][1], s[i][2] + 1>>
    BY Zenon DEF Contiguous
  <2> QED
    BY <2>4, <2>5, Zenon
<1> QED
  BY <1>1, <1>3, Zenon DEF Contiguous, Rest

\* The j-th message of connection k.
LEMMA MessageIsRun ==
  ASSUME NEW k, NEW n \in Nat, NEW b, b = n * MsgUnits
  PROVE  /\ b \in Nat
         /\ Message(k, n + 1) = Run(k, b, b + MsgUnits)
         /\ (n + 1) * MsgUnits = b + MsgUnits
<1>1. b \in Nat /\ (n + 1) - 1 = n /\ (b + MsgUnits) - b = MsgUnits
  BY Sizes
<1> QED
  BY <1>1, Sizes DEF Message, Run

LEMMA RunEmpty ==
  ASSUME NEW k \in Nat, NEW a \in Nat
  PROVE  Run(k, a, a) = <<>>
<1>1. Run(k, a, a) \in Seq(Units) /\ Len(Run(k, a, a)) = 0
  BY RunIsSeq
<1> QED
  BY <1>1

LEMMA FirstChunk ==
  ASSUME NEW k \in Nat, NEW h \in Seq(Seq(Units)), h # <<>>,
         NEW f \in [0 .. Len(h) -> 0 .. MaxUnits], Chunks(k, h, f)
  PROVE  /\ f[0] \in Nat /\ f[1] \in Nat /\ f[0] <= f[1] /\ Head(h) = Run(k, f[0], f[1])
         /\ \E g \in [0 .. Len(Tail(h)) -> 0 .. MaxUnits] :
              Chunks(k, Tail(h), g) /\ g[0] = f[1] /\ g[Len(Tail(h))] = f[Len(h)]
<1>1. Len(h) \in Nat /\ Len(h) > 0 /\ Head(h) = h[1] /\ Len(Tail(h)) = Len(h) - 1
  OBVIOUS
<1>2. \A j \in 1 .. Len(h) - 1 : Tail(h)[j] = h[j + 1]
  BY <1>1
<1>3. f[0] \in Nat /\ f[1] \in Nat /\ f[0] <= f[1] /\ Head(h) = Run(k, f[0], f[1])
  <2>0. 0 \in 0 .. Len(h) /\ 1 \in 0 .. Len(h) /\ 0 .. MaxUnits \subseteq Nat
    BY <1>1, Sizes
  <2>1. f[0] \in Nat /\ f[1] \in Nat
    BY <2>0, Zenon
  <2>2. 1 \in 1 .. Len(h) /\ 1 - 1 = 0
    BY <1>1
  <2>3. PICK j \in 1 .. Len(h) : j = 1
    BY <2>2
  <2>4. f[j - 1] <= f[j] /\ h[j] = Run(k, f[j - 1], f[j])
    BY Zenon DEF Chunks
  <2> QED
    BY <1>1, <2>1, <2>2, <2>3, <2>4
<1>4. PICK g : g = [j \in 0 .. Len(h) - 1 |-> f[j + 1]]
  BY Zenon
<1>5. g \in [0 .. Len(Tail(h)) -> 0 .. MaxUnits]
  BY <1>1, <1>4
<1>6. g[0] = f[1] /\ g[Len(Tail(h))] = f[Len(h)]
  BY <1>1, <1>4
<1>7. ASSUME NEW j \in 1 .. Len(Tail(h)) PROVE g[j - 1] <= g[j] /\ Tail(h)[j] = Run(k, g[j - 1], g[j])
  <2>1. /\ j + 1 \in 1 .. Len(h) /\ (j + 1) - 1 = j /\ (j - 1) + 1 = j
        /\ j \in 0 .. Len(h) - 1 /\ j - 1 \in 0 .. Len(h) - 1 /\ j \in 1 .. Len(h) - 1
    BY <1>1
  <2>2. g[j - 1] = f[j] /\ g[j] = f[j + 1]
    BY <1>4, <2>1
  <2>3. f[j] <= f[j + 1] /\ h[j + 1] = Run(k, f[j], f[j + 1])
    BY <2>1, Zenon DEF Chunks
  <2> QED
    BY <1>2, <2>1, <2>2, <2>3
<1>8. Chunks(k, Tail(h), g)
  BY <1>7 DEF Chunks
<1> QED
  BY <1>3, <1>5, <1>6, <1>8, Zenon

LEMMA LastChunk ==
  ASSUME NEW k \in Nat, NEW h \in Seq(Seq(Units)), NEW c \in Seq(Units),
         NEW f \in [0 .. Len(h) -> 0 .. MaxUnits], Chunks(k, h, f),
         NEW e \in 0 .. MaxUnits, f[Len(h)] <= e, c = Run(k, f[Len(h)], e)
  PROVE  \E g \in [0 .. Len(Append(h, c)) -> 0 .. MaxUnits] :
           Chunks(k, Append(h, c), g) /\ g[0] = f[0] /\ g[Len(Append(h, c))] = e
<1>1. PICK v : v = Append(h, c)
  BY Zenon
<1>2. /\ Len(h) \in Nat /\ Len(v) = Len(h) + 1 /\ v[Len(h) + 1] = c
      /\ \A j \in 1 .. Len(h) : v[j] = h[j]
  BY <1>1
<1>3. PICK g : g = [j \in 0 .. Len(h) + 1 |-> IF j = Len(h) + 1 THEN e ELSE f[j]]
  BY Zenon
<1>4. /\ g \in [0 .. Len(v) -> 0 .. MaxUnits] /\ g[Len(h) + 1] = e
      /\ \A j \in 0 .. Len(h) : g[j] = f[j]
  BY <1>2, <1>3
<1>5. ASSUME NEW j \in 1 .. Len(v) PROVE g[j - 1] <= g[j] /\ v[j] = Run(k, g[j - 1], g[j])
  <2>1. CASE j = Len(h) + 1
    <3>1. j - 1 = Len(h) /\ Len(h) \in 0 .. Len(h)
      BY <1>2, <2>1
    <3> QED
      BY <1>2, <1>4, <2>1, <3>1
  <2>2. CASE j # Len(h) + 1
    <3>1. j \in 1 .. Len(h) /\ j \in 0 .. Len(h) /\ j - 1 \in 0 .. Len(h)
      BY <1>2, <2>2
    <3>2. f[j - 1] <= f[j] /\ h[j] = Run(k, f[j - 1], f[j])
      BY <3>1 DEF Chunks
    <3> QED
      BY <1>2, <1>4, <3>1, <3>2, Zenon
  <2> QED
    BY <2>1, <2>2
<1>6. Chunks(k, v, g)
  BY <1>5 DEF Chunks
<1> QED
  BY <1>1, <1>2, <1>4, <1>6

LEMMA CutOne ==
  ASSUME NEW k \in Nat, NEW b \in Nat, NEW e \in Nat, b <= e,
         Len(Run(k, b, e)) >= MsgUnits
  PROVE  /\ b + MsgUnits <= e
         /\ SubSeq(Run(k, b, e), 1, MsgUnits) = Run(k, b, b + MsgUnits)
         /\ Rest(Run(k, b, e), MsgUnits) = Run(k, b + MsgUnits, e)
<1>1. Len(Run(k, b, e)) = e - b
  BY RunIsSeq, Zenon
<1>2. MsgUnits \in Nat /\ b + MsgUnits <= e
  BY <1>1, Sizes
<1>3. SubSeq(Run(k, b, e), 1, MsgUnits) = Run(k, b, b + MsgUnits)
  BY <1>2, RunTake
<1>4. Rest(Run(k, b, e), MsgUnits) = Run(k, b + MsgUnits, e)
  BY <1>2, RunDrop
<1> QED
  BY <1>2, <1>3, <1>4
=============================================================================
