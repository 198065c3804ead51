--------------------------- MODULE DispatchProofs ---------------------------
(***************************************************************************)
(* Proofs about Dispatch for any number of threads, services, sessions and *)
(* callers, any hash and any queue length.                                 *)
(***************************************************************************)
EXTENDS Dispatch, TLAPS

LEMMA ProcessorIsThread ==
  ASSUME NEW p \in Producers
  PROVE  getProcessor(p) \in Threads
BY DispatchAssumption DEF getProcessor, Threads, Producers

LEMMA TargetIsThread ==
  ASSUME NEW p \in Producers, NEW kind
  PROVE  Target(p, kind) \in Threads
BY DispatchAssumption, ProcessorIsThread DEF Target

LEMMA Sizes == NumServices \in Nat \ {0} /\ Batch \in Nat \ {0}
BY DispatchAssumption

LEMMA FirstThread == 0 \in Threads
BY DispatchAssumption DEF Threads

LEMMA TypeInit == Init => TypeOK
<1> SUFFICES ASSUME Init PROVE TypeOK
  OBVIOUS
<1>1. /\ at \in [Threads -> 1 .. NumServices + 1]
      /\ i \in [Threads -> 0 .. Batch]
  BY DispatchAssumption DEF Init
<1>2. wake \in [Producers -> Threads]
  BY FirstThread DEF Init
<1>3. isClose \in BOOLEAN
  BY Zenon DEF Init
<1> QED
  BY <1>1, <1>2, <1>3 DEF Init, TypeOK

LEMMA PushType ==
  ASSUME NEW s \in Services, NEW th \in Threads, NEW m \in Msg \cup {System},
         messageQ \in [Services -> [Threads -> Seq(Msg \cup {System})]],
         Push(s, th, m)
  PROVE  messageQ' \in [Services -> [Threads -> Seq(Msg \cup {System})]]
BY DEF Push

LEMMA ProduceType ==
  ASSUME TypeOK, NEW p \in Producers, Produce(p)
  PROVE  TypeOK'
<1>1. SvcOf[p] \in Services
  BY DispatchAssumption
<1>2. \A kind \in Kinds : NextMsg(p, kind) \in Msg \cup {System}
  BY DEF NextMsg, Msg, TypeOK
<1>3. CASE ParseMsg(p)
  <2>1. Target(p, "Data") \in Threads
    BY TargetIsThread
  <2>2. messageQ' \in [Services -> [Threads -> Seq(Msg \cup {System})]]
    BY <1>1, <1>2, <1>3, <2>1, PushType, Zenon DEF ParseMsg, TypeOK, Kinds
  <2>3. /\ ppc' \in [Producers -> {"run", "signal", "lastsignal", "gone"}]
        /\ wake' \in [Producers -> Threads]
        /\ sent' \in [Producers -> Nat]
    <3>1. /\ sent' = [sent EXCEPT ![p] = @ + 1]
          /\ ppc' = [ppc EXCEPT ![p] = "signal"]
          /\ wake' = [wake EXCEPT ![p] = Target(p, "Data")]
      BY <1>3 DEF ParseMsg
    <3> QED
      BY <2>1, <3>1 DEF TypeOK
  <2> QED
    BY <1>3, <2>2, <2>3, Zenon DEF ParseMsg, TypeOK, threadVars, stopVars, history
<1>4. CASE PushRequest(p)
  <2>1. Target(p, "Data") \in Threads
    BY TargetIsThread
  <2>2. messageQ' \in [Services -> [Threads -> Seq(Msg \cup {System})]]
    BY <1>1, <1>2, <1>4, <2>1, PushType, Zenon DEF PushRequest, TypeOK, Kinds
  <2>3. /\ ppc' \in [Producers -> {"run", "signal", "lastsignal", "gone"}]
        /\ wake' \in [Producers -> Threads]
        /\ sent' \in [Producers -> Nat]
    <3>1. CASE Full(SvcOf[p], Target(p, "Data"))
      BY <1>4, <3>1 DEF PushRequest, TypeOK
    <3>2. CASE ~Full(SvcOf[p], Target(p, "Data"))
      <4>1. /\ sent' = [sent EXCEPT ![p] = @ + 1]
            /\ ppc' = [ppc EXCEPT ![p] = "signal"]
            /\ wake' = [wake EXCEPT ![p] = Target(p, "Data")]
        BY <1>4, <3>2 DEF PushRequest
      <4> QED
        BY <2>1, <4>1 DEF TypeOK
    <3> QED
      BY <3>1, <3>2
  <2> QED
    BY <1>4, <2>2, <2>3, Zenon DEF PushRequest, TypeOK, threadVars, stopVars, history
<1>5. ASSUME NEW kind \in {"HeartBeat", "Close"}, sessionEvent(p, kind)
      PROVE  TypeOK'
  <2>1. Target(p, kind) \in Threads
    BY TargetIsThread
  <2>2. messageQ' \in [Services -> [Threads -> Seq(Msg \cup {System})]]
    BY <1>1, <1>2, <1>5, <2>1, PushType, Zenon DEF sessionEvent, TypeOK, Kinds
  <2>3. /\ ppc' \in [Producers -> {"run", "signal", "lastsignal", "gone"}]
        /\ wake' \in [Producers -> Threads]
        /\ sent' \in [Producers -> Nat]
    BY <1>5, <2>1 DEF sessionEvent, TypeOK
  <2> QED
    BY <1>5, <2>2, <2>3, Zenon DEF sessionEvent, TypeOK, threadVars, stopVars, history
<1>6. ASSUME NEW kind \in {"HeartBeat", "Close"}, EventTimeout(p, kind)
      PROVE  TypeOK'
  BY <1>6, SMTT(60) DEF EventTimeout, TypeOK, queueVars, threadVars, stopVars, history
<1>7. CASE Signal(p)
  BY <1>7, FirstThread, Zenon DEF Signal, TypeOK, threadVars, stopVars, history
<1> QED
  BY <1>3, <1>4, <1>5, <1>6, <1>7 DEF Produce

LEMMA ReceivedType ==
  ASSUME TypeOK, NEW th \in Threads, Received(th)
  PROVE  /\ at[th] \in Services
         /\ messageQ' \in [Services -> [Threads -> Seq(Msg \cup {System})]]
         /\ Head(messageQ[at[th]][th]) \in Msg \cup {System}
<1>1. at[th] \in Services
  BY DEF Received, InCall
<1>2. messageQ[at[th]][th] \in Seq(Msg \cup {System}) /\ messageQ[at[th]][th] # <<>>
  BY <1>1 DEF TypeOK, Received
<1>3. Tail(messageQ[at[th]][th]) \in Seq(Msg \cup {System})
  BY <1>2
<1>4. messageQ' = [messageQ EXCEPT ![at[th]][th] = Tail(@)]
  BY DEF Received
<1>5. messageQ' \in [Services -> [Threads -> Seq(Msg \cup {System})]]
  BY <1>1, <1>3, <1>4 DEF TypeOK
<1> QED
  BY <1>1, <1>2, <1>5

LEMMA RecordType ==
  ASSUME TypeOK, NEW m \in Msg \cup {System}, Record(m)
  PROVE  last' \in [Producers -> Nat] /\ closed' \in SUBSET Producers
<1>1. CASE m = System
  BY <1>1 DEF TypeOK, Record, System
<1>2. CASE m \in Msg
  BY <1>2 DEF TypeOK, Record, Msg
<1> QED
  BY <1>1, <1>2

LEMMA ThreadType ==
  ASSUME TypeOK, NEW th \in Threads, Thread(th)
  PROVE  TypeOK'
<1>1. CASE Check(th)
  BY <1>1 DEF Check, TypeOK, queueVars, prodVars, stopVars, history
<1>2. CASE Handle(th)
  <2>1. Received(th) /\ Record(Head(messageQ[at[th]][th]))
    BY <1>2 DEF Handle
  <2>2. i' \in [Threads -> 0 .. Batch]
    BY <1>2, Sizes DEF Handle, Received, TypeOK
  <2> QED
    BY <1>2, <2>1, <2>2, ReceivedType, RecordType, Zenon DEF Handle, TypeOK, prodVars, stopVars
<1>3. CASE HandlePanics(th)
  <2>1. Received(th) /\ Record(Head(messageQ[at[th]][th]))
    BY <1>3 DEF HandlePanics
  <2>2. at' \in [Threads -> 1 .. NumServices + 1]
    <3>1. at[th] \in 1 .. NumServices
      BY <2>1, ReceivedType DEF Services
    <3> QED
      BY <1>3, <3>1, Sizes DEF HandlePanics, TypeOK
  <2>3. i' \in [Threads -> 0 .. Batch]
    BY <1>3, Sizes DEF HandlePanics, TypeOK
  <2> QED
    BY <1>3, <2>1, <2>2, <2>3, ReceivedType, RecordType, Zenon DEF HandlePanics, TypeOK, prodVars, stopVars
<1>4. CASE Return(th)
  <2>1. at' \in [Threads -> 1 .. NumServices + 1]
    BY <1>4, Sizes DEF Return, InCall, TypeOK, Services
  <2>2. nmsg' \in [Threads -> {0, 1}] /\ i' \in [Threads -> 0 .. Batch]
    BY <1>4, Sizes DEF Return, TypeOK
  <2> QED
    BY <1>4, <2>1, <2>2 DEF Return, TypeOK, queueVars, prodVars, stopVars, history
<1>5. CASE EndScan(th)
  BY <1>5, Sizes DEF EndScan, TypeOK, queueVars, prodVars, stopVars, history
<1>6. CASE Wake(th)
  BY <1>6 DEF Wake, TypeOK, prodVars, stopVars, history
<1>7. CASE LoopTimer(th)
  BY <1>7 DEF LoopTimer, TypeOK, queueVars, prodVars, stopVars, history
<1> QED
  BY <1>1, <1>2, <1>3, <1>4, <1>5, <1>6, <1>7 DEF Thread

LEMMA StoppingType ==
  ASSUME TypeOK, Stopping
  PROVE  TypeOK'
<1> USE DEF TypeOK
<1>1. CASE Stop
  BY <1>1 DEF Stop, queueVars, threadVars, prodVars, history
<1>2. ASSUME NEW s \in Services, destroy(s)
      PROVE  TypeOK'
  <2>1. messageQ' \in [Services -> [Threads -> Seq(Msg \cup {System})]]
    <3>1. \A th \in Threads : messageQ[s][th] \in Seq(Msg \cup {System})
      OBVIOUS
    <3>2. \A th \in Threads : Append(messageQ[s][th], System) \in Seq(Msg \cup {System})
      BY <3>1
    <3>3. [th \in Threads |-> IF Full(s, th) THEN messageQ[s][th]
                              ELSE Append(messageQ[s][th], System)]
            \in [Threads -> Seq(Msg \cup {System})]
      BY <3>1, <3>2
    <3> QED
      BY <1>2, <3>3 DEF destroy
  <2>2. left' \in SUBSET (Services \cup Threads)
    BY <1>2 DEF destroy
  <2> QED
    BY <1>2, <2>1, <2>2 DEF destroy, threadVars, prodVars, history
<1>3. CASE CloseServer
  BY <1>3 DEF CloseServer, queueVars, threadVars, prodVars, history
<1>4. ASSUME NEW th \in Threads, SignalThread(th)
      PROVE  TypeOK'
  BY <1>4 DEF SignalThread, threadVars, prodVars, history
<1>5. CASE StopReturns
  BY <1>5 DEF StopReturns, queueVars, threadVars, prodVars, history
<1> QED
  BY <1>1, <1>2, <1>3, <1>4, <1>5, Zenon DEF Stopping

LEMMA TypeStep == TypeOK /\ [Next]_vars => TypeOK'
<1> SUFFICES ASSUME TypeOK, [Next]_vars PROVE TypeOK'
  OBVIOUS
<1>1. CASE UNCHANGED vars
  BY <1>1 DEF TypeOK, vars
<1>2. CASE Next
  BY <1>1, <1>2, ProduceType, ThreadType, StoppingType DEF Next, Stopped
<1> QED
  BY <1>1, <1>2

(***************************************************************************)
(* The variables keep their types: in particular netSignal never holds     *)
(* more than one token and no thread looks past the last service.          *)
(***************************************************************************)
THEOREM TypeCorrect == Spec => []TypeOK
BY TypeInit, TypeStep, PTL DEF Spec
-----------------------------------------------------------------------------
(* The wake-up invariant.                                                  *)

LEMMA WakeupInit == Init => WakeupInv
BY DEF Init, WakeupInv, RoundsReset, FoundEmpty, InCall

LEMMA FoundEmptyServices ==
  ASSUME TypeOK, NEW th \in Threads
  PROVE  FoundEmpty(th) \subseteq Services
<1>1. at[th] \in 1 .. NumServices + 1
  BY DEF TypeOK
<1> QED
  BY <1>1, Sizes DEF FoundEmpty, Services

\* Appending a message for p, who then is about to signal, or leaving the
\* queues alone, keeps the invariant.
LEMMA WakeupProduce ==
  ASSUME TypeOK, WakeupInv, NEW p \in Producers, Produce(p)
  PROVE  WakeupInv'
<1>1. UNCHANGED threadVars
  BY DEF Produce, ParseMsg, PushRequest, sessionEvent, EventTimeout, Signal
<1>2. RoundsReset'
  BY <1>1 DEF WakeupInv, RoundsReset, InCall, threadVars
<1>3. \A th \in Threads : FoundEmpty(th)' = FoundEmpty(th)
  BY <1>1 DEF FoundEmpty, threadVars
<1>0. panicked' = panicked
  BY DEF Produce, ParseMsg, PushRequest, sessionEvent, EventTimeout, Signal, history
<1> SUFFICES ASSUME NEW th \in Threads \ panicked, ~LoopThread(th), NEW s \in FoundEmpty(th),
                    Pending(s, th)'
             PROVE  netSignal'[th] = 1 \/ AboutToSignal(th)'
  BY <1>0, <1>2, <1>3 DEF WakeupInv, LoopThread
<1>4. s \in Services
  BY FoundEmptyServices
<1>5. Pending(s, th) => netSignal[th] = 1 \/ AboutToSignal(th)
  BY DEF WakeupInv
<1>6. ASSUME NEW dst \in Threads, NEW m, Push(SvcOf[p], dst, m),
             ppc[p] = "run", UNCHANGED netSignal,
             ppc' = [ppc EXCEPT ![p] = "signal"] \/ ppc' = [ppc EXCEPT ![p] = "lastsignal"],
             wake' = [wake EXCEPT ![p] = dst]
      PROVE  netSignal'[th] = 1 \/ AboutToSignal(th)'
  <2>1. CASE dst = th
    BY <1>6, <2>1 DEF AboutToSignal, TypeOK
  <2>2. CASE dst # th
    <3>1. messageQ'[s][th] = messageQ[s][th]
      BY <1>4, <1>6, <2>2, SMTT(60) DEF Push, TypeOK
    <3>2. ASSUME AboutToSignal(th) PROVE AboutToSignal(th)'
      <4>1. PICK q \in Producers : ppc[q] \in {"signal", "lastsignal"} /\ wake[q] = th
        BY <3>2 DEF AboutToSignal
      <4>2. q # p
        BY <1>6, <4>1
      <4>3. ppc'[q] = ppc[q] /\ wake'[q] = wake[q]
        BY <1>6, <4>2, Zenon DEF TypeOK
      <4> QED
        BY <4>1, <4>3 DEF AboutToSignal
    <3> QED
      BY <1>5, <1>6, <3>1, <3>2 DEF Pending
  <2> QED
    BY <2>1, <2>2
<1>7. ASSUME UNCHANGED <<messageQ, netSignal>>, ppc[p] = "run",
             \A q \in Producers \ {p} : ppc'[q] = ppc[q] /\ wake'[q] = wake[q]
      PROVE  netSignal'[th] = 1 \/ AboutToSignal(th)'
  BY <1>5, <1>7 DEF Pending, AboutToSignal
<1>8. CASE ParseMsg(p)
  <2>1. CASE Full(SvcOf[p], Target(p, "Data"))
    BY <1>7, <1>8, <2>1 DEF ParseMsg, TypeOK
  <2>2. CASE ~Full(SvcOf[p], Target(p, "Data"))
    BY <1>6, <1>8, <2>2, TargetIsThread, Zenon DEF ParseMsg
  <2> QED
    BY <2>1, <2>2
<1>9. CASE PushRequest(p)
  <2>1. CASE Full(SvcOf[p], Target(p, "Data"))
    BY <1>7, <1>9, <2>1 DEF PushRequest, TypeOK
  <2>2. CASE ~Full(SvcOf[p], Target(p, "Data"))
    BY <1>6, <1>9, <2>2, TargetIsThread DEF PushRequest
  <2> QED
    BY <2>1, <2>2
<1>10. ASSUME NEW kind \in {"HeartBeat", "Close"}, sessionEvent(p, kind)
       PROVE  netSignal'[th] = 1 \/ AboutToSignal(th)'
  <2>1. Target(p, kind) \in Threads
    BY TargetIsThread
  <2> QED
    BY <1>6, <1>10, <2>1, Zenon DEF sessionEvent, MayEmit
<1>11. ASSUME NEW kind \in {"HeartBeat", "Close"}, EventTimeout(p, kind)
       PROVE  netSignal'[th] = 1 \/ AboutToSignal(th)'
  BY <1>7, <1>11 DEF EventTimeout, MayEmit, queueVars, TypeOK
<1>12. CASE Signal(p)
  <2>1. CASE wake[p] = th
    BY <1>12, <2>1 DEF Signal, TypeOK
  <2>2. CASE wake[p] # th
    <3>1. AboutToSignal(th) => AboutToSignal(th)'
      BY <1>12, <2>2 DEF AboutToSignal, Signal, TypeOK
    <3>2. netSignal'[th] = netSignal[th] /\ messageQ' = messageQ
      BY <1>12, <2>2 DEF Signal, TypeOK
    <3> QED
      BY <1>5, <3>1, <3>2 DEF Pending
  <2> QED
    BY <2>1, <2>2
<1> QED
  BY <1>8, <1>9, <1>10, <1>11, <1>12 DEF Produce

\* A thread's own steps: taking a message leaves fewer pending, a queue that
\* is left behind with nothing handled is empty, and only a sleeping thread
\* consumes its token.
LEMMA WakeupThread ==
  ASSUME TypeOK, WakeupInv, NEW th \in Threads, Thread(th)
  PROVE  WakeupInv'
<1>0. panicked \subseteq panicked'
  BY DEF Thread, Check, Handle, HandlePanics, Return, EndScan, Wake, LoopTimer, history
<1>1. \A u \in Threads : u # th =>
        /\ pc'[u] = pc[u] /\ at'[u] = at[u] /\ i'[u] = i[u] /\ nmsg'[u] = nmsg[u]
        /\ netSignal'[u] = netSignal[u]
  BY DEF Thread, Check, Handle, HandlePanics, Return, EndScan, Wake, LoopTimer,
         queueVars, TypeOK
<1>2. \A u \in Threads : AboutToSignal(u)' = AboutToSignal(u)
  BY DEF Thread, Check, Handle, HandlePanics, Return, EndScan, Wake, LoopTimer,
         prodVars, AboutToSignal
<1>3. ASSUME NEW u \in Threads, NEW s \in Services, Pending(s, u)'
      PROVE  Pending(s, u)
  <2>1. CASE Received(th)
    <3>1. CASE u = th /\ s = at[th]
      <4>1. messageQ[s][u] \in Seq(Msg \cup {System}) /\ messageQ[s][u] # <<>>
        BY <2>1, <3>1 DEF Received, TypeOK
      <4>2. messageQ'[s][u] = Tail(messageQ[s][u])
        BY <2>1, <3>1 DEF Received, TypeOK
      <4>3. PICK k \in 1 .. Len(Tail(messageQ[s][u])) : Tail(messageQ[s][u])[k] # System
        BY <1>3, <4>2 DEF Pending
      <4>4. k + 1 \in 1 .. Len(messageQ[s][u]) /\ messageQ[s][u][k + 1] # System
        BY <4>1, <4>3
      <4> QED
        BY <4>4 DEF Pending
    <3>2. CASE ~(u = th /\ s = at[th])
      <4>1. messageQ'[s][u] = messageQ[s][u]
        BY <2>1, <3>2 DEF Received, InCall, TypeOK
      <4> QED
        BY <1>3, <4>1 DEF Pending
    <3> QED
      BY <3>1, <3>2
  <2>2. CASE UNCHANGED messageQ
    BY <1>3, <2>2 DEF Pending
  <2> QED
    BY <2>1, <2>2 DEF Thread, Check, Handle, HandlePanics, Return, EndScan, Wake, LoopTimer, queueVars
<1>4. \A u \in Threads \ {th} : FoundEmpty(u)' = FoundEmpty(u)
  BY <1>1 DEF FoundEmpty
<1>5. RoundsReset'
  <2>1. /\ pc'[th] # "scan" => at'[th] = 1 /\ nmsg'[th] = 0
        /\ ~InCall(th)' => i'[th] = 0
    <3>1. CASE Check(th)
      BY <3>1 DEF Check, WakeupInv, RoundsReset, InCall, TypeOK
    <3>2. CASE Handle(th) \/ Return(th)
      BY <3>2 DEF Handle, Return, Received, InCall, TypeOK
    <3>3. CASE EndScan(th)
      <4>1. ~InCall(th)
        BY <3>3, Sizes DEF EndScan, InCall, Services
      <4> QED
        BY <3>3, <4>1 DEF EndScan, WakeupInv, RoundsReset, TypeOK
    <3>4. CASE Wake(th) \/ LoopTimer(th)
      BY <3>4 DEF Wake, LoopTimer, WakeupInv, RoundsReset, InCall, TypeOK
    <3>5. CASE HandlePanics(th)
      BY <3>5 DEF HandlePanics, Received, InCall, TypeOK
    <3> QED
      BY <3>1, <3>2, <3>3, <3>4, <3>5 DEF Thread
  <2> QED
    BY <1>1, <2>1 DEF WakeupInv, RoundsReset, InCall
<1>6. ASSUME NEW s \in FoundEmpty(th)', Pending(s, th)', ~LoopThread(th), th \notin panicked'
      PROVE  netSignal'[th] = 1 \/ AboutToSignal(th)'
  <2>1. ASSUME UNCHANGED netSignal, s \in FoundEmpty(th), s \in Services
        PROVE  netSignal'[th] = 1 \/ AboutToSignal(th)'
    <3>1. th \notin panicked
      BY <1>0, <1>6
    <3> QED
      BY <1>2, <1>3, <1>6, <2>1, <3>1 DEF WakeupInv
  <2>2. CASE Check(th)
    <3>1. FoundEmpty(th)' = {}
      <4>1. at'[th] = 1 /\ pc'[th] # "wait"
        BY <2>2 DEF Check, WakeupInv, RoundsReset, TypeOK
      <4> QED
        BY <4>1 DEF FoundEmpty
    <3> QED
      BY <1>6, <3>1
  <2>3. CASE Handle(th)
    <3>1. s \in FoundEmpty(th) /\ s \in Services
      BY <1>6, <2>3, Sizes DEF Handle, Received, InCall, FoundEmpty, Services, TypeOK
    <3> QED
      BY <2>1, <2>3, <3>1 DEF Handle
  <2>4. CASE Return(th)
    <3>1. at[th] \in Services /\ pc[th] = "scan" /\ pc' = pc /\ UNCHANGED queueVars
      BY <2>4 DEF Return, InCall
    <3>2. nmsg'[th] = 0 /\ s \in 1 .. at[th]
      <4>1. at'[th] = at[th] + 1 /\ pc'[th] = "scan"
        BY <2>4, <3>1 DEF Return, TypeOK
      <4>2. at[th] \in Int
        BY <3>1 DEF Services
      <4>3. nmsg'[th] = 0 /\ s \in 1 .. at'[th] - 1
        BY <1>6, <4>1 DEF FoundEmpty
      <4> QED
        BY <4>1, <4>2, <4>3
    <3>3. nmsg[th] = 0 /\ ~(i[th] > 0)
      BY <2>4, <3>2 DEF Return, TypeOK
    <3>4. i[th] = 0
      BY <3>3, Sizes DEF TypeOK
    <3>5. messageQ[at[th]][th] = <<>>
      BY <2>4, <3>4, Sizes DEF Return
    <3>6. CASE s = at[th]
      BY <1>6, <3>1, <3>5, <3>6 DEF Pending, queueVars
    <3>7. CASE s # at[th]
      <4>1. s \in FoundEmpty(th) /\ s \in Services
        <5>1. at[th] \in 1 .. NumServices /\ s \in 1 .. at[th] - 1
          BY <3>1, <3>2, <3>7, Sizes DEF Services
        <5>2. FoundEmpty(th) = 1 .. at[th] - 1
          BY <3>1, <3>3 DEF FoundEmpty
        <5> QED
          BY <5>1, <5>2, Sizes DEF Services
      <4> QED
        BY <2>1, <3>1, <4>1 DEF queueVars
    <3> QED
      BY <3>6, <3>7
  <2>5. CASE EndScan(th)
    <3>1. nmsg[th] = 0 /\ pc[th] = "scan" /\ at[th] = NumServices + 1 /\ pc'[th] = "wait"
      BY <1>6, <2>5, Sizes DEF EndScan, FoundEmpty, TypeOK
    <3>2. s \in FoundEmpty(th) /\ s \in Services
      BY <1>6, <3>1, Sizes DEF FoundEmpty, Services
    <3> QED
      BY <2>1, <2>5, <3>2 DEF EndScan, queueVars
  <2>6. CASE Wake(th) \/ LoopTimer(th)
    BY <1>6, <2>6 DEF Wake, LoopTimer, FoundEmpty, TypeOK
  <2> QED
    BY <1>6, <2>2, <2>3, <2>4, <2>5, <2>6 DEF Thread, HandlePanics
<1>7. ASSUME NEW u \in Threads \ {th}, NEW s \in FoundEmpty(u)', Pending(s, u)', ~LoopThread(u),
             u \notin panicked'
      PROVE  netSignal'[u] = 1 \/ AboutToSignal(u)'
  <2>1. s \in FoundEmpty(u) /\ s \in Services
    BY <1>4, <1>7, FoundEmptyServices
  <2> QED
    BY <1>0, <1>1, <1>2, <1>3, <1>7, <2>1 DEF WakeupInv
<1> QED
  BY <1>5, <1>6, <1>7 DEF WakeupInv, LoopThread

\* Stop only adds tokens and System messages.
LEMMA WakeupStopping ==
  ASSUME TypeOK, WakeupInv, Stopping
  PROVE  WakeupInv'
<1>0. panicked' = panicked
  BY DEF Stopping, Stop, destroy, CloseServer, SignalThread, StopReturns, history
<1>1. UNCHANGED <<threadVars, prodVars>>
  BY DEF Stopping, Stop, destroy, CloseServer, SignalThread, StopReturns
<1>2. RoundsReset'
  BY <1>1 DEF WakeupInv, RoundsReset, InCall, threadVars
<1>3. \A th \in Threads : netSignal[th] = 1 => netSignal'[th] = 1
  BY DEF Stopping, Stop, destroy, CloseServer, SignalThread, StopReturns, queueVars, TypeOK
<1>4. ASSUME NEW s \in Services, NEW th \in Threads, Pending(s, th)'
      PROVE  Pending(s, th)
  <2>1. ASSUME NEW t \in Services, destroy(t)
        PROVE  Pending(s, th)
    <3>1. messageQ[s][th] \in Seq(Msg \cup {System})
      BY DEF TypeOK
    <3>2. messageQ'[s][th] \in {messageQ[s][th], Append(messageQ[s][th], System)}
      <4>1. messageQ \in [Services -> [Threads -> Seq(Msg \cup {System})]]
        BY DEF TypeOK
      <4>2. CASE t = s
        BY <2>1, <4>1, <4>2 DEF destroy
      <4>3. CASE t # s
        BY <2>1, <4>1, <4>3 DEF destroy
      <4> QED
        BY <4>2, <4>3
    <3>3. PICK k \in 1 .. Len(messageQ'[s][th]) : messageQ'[s][th][k] # System
      BY <1>4 DEF Pending
    <3>4. k \in 1 .. Len(messageQ[s][th]) /\ messageQ[s][th][k] # System
      <4>1. CASE messageQ'[s][th] = messageQ[s][th]
        BY <3>3, <4>1
      <4>2. CASE messageQ'[s][th] = Append(messageQ[s][th], System)
        BY <3>1, <3>3, <4>2
      <4> QED
        BY <3>2, <4>1, <4>2
    <3> QED
      BY <3>4 DEF Pending
  <2>2. CASE UNCHANGED messageQ
    BY <1>4, <2>2 DEF Pending
  <2> QED
    BY <2>1, <2>2 DEF Stopping, Stop, CloseServer, SignalThread, StopReturns, queueVars
<1>5. \A th \in Threads : FoundEmpty(th)' = FoundEmpty(th) /\ AboutToSignal(th)' = AboutToSignal(th)
  BY <1>1 DEF FoundEmpty, AboutToSignal, threadVars, prodVars
<1>6. ASSUME NEW th \in Threads \ panicked, ~LoopThread(th), NEW s \in FoundEmpty(th)', Pending(s, th)'
      PROVE  netSignal'[th] = 1 \/ AboutToSignal(th)'
  <2>1. s \in FoundEmpty(th) /\ s \in Services
    BY <1>5, <1>6, FoundEmptyServices
  <2> QED
    BY <1>3, <1>4, <1>5, <1>6, <2>1 DEF WakeupInv
<1> QED
  BY <1>0, <1>2, <1>6 DEF WakeupInv, LoopThread

LEMMA WakeupStep == TypeOK /\ WakeupInv /\ [Next]_vars => WakeupInv'
<1> SUFFICES ASSUME TypeOK, WakeupInv, [Next]_vars PROVE WakeupInv'
  OBVIOUS
<1>1. CASE UNCHANGED vars
  <2>1. RoundsReset'
    BY <1>1 DEF vars, WakeupInv, RoundsReset, InCall
  <2>2. \A th \in Threads : FoundEmpty(th)' = FoundEmpty(th) /\ AboutToSignal(th)' = AboutToSignal(th)
    BY <1>1 DEF vars, FoundEmpty, AboutToSignal
  <2>3. \A s, th : Pending(s, th)' = Pending(s, th)
    BY <1>1 DEF vars, Pending
  <2>4. netSignal' = netSignal /\ panicked' = panicked
    BY <1>1 DEF vars
  <2> QED
    BY <2>1, <2>2, <2>3, <2>4 DEF WakeupInv, LoopThread
<1>2. CASE Next
  BY <1>1, <1>2, WakeupProduce, WakeupThread, WakeupStopping DEF Next, Stopped
<1> QED
  BY <1>1, <1>2

LEMMA WakeupEnough == WakeupInv => NoLostWakeup
BY DEF WakeupInv, NoLostWakeup, SleepsOnMessage, FoundEmpty

(***************************************************************************)
(* A worker thread on which no handler has panicked never sleeps on an     *)
(* empty netSignal while a message is queued for it and nobody is about to *)
(* signal it (server.go:236-248 with service.go:63-77 and 113-129).        *)
(***************************************************************************)
THEOREM NoLostWakeupHolds == Spec => []NoLostWakeup
<1>1. Init => WakeupInv
  BY WakeupInit
<1>2. TypeOK /\ WakeupInv /\ [Next]_vars => WakeupInv'
  BY WakeupStep
<1> QED
  BY <1>1, <1>2, TypeCorrect, WakeupEnough, PTL DEF Spec
-----------------------------------------------------------------------------
(* Stop's signals.                                                         *)

LEMMA StopInvStep == TypeOK /\ StopInv /\ [Next]_vars => StopInv'
<1> SUFFICES ASSUME TypeOK, StopInv, [Next]_vars, spc' = "signal"
             PROVE  /\ isClose'
                    /\ \A th \in Threads \ left' :
                         netSignal'[th] = 1 \/ pc'[th] \in {"check", "quit"}
  BY DEF StopInv
<1>1. CASE UNCHANGED vars
  BY <1>1 DEF vars, StopInv
<1>2. ASSUME NEW p \in Producers, Produce(p)
      PROVE  /\ UNCHANGED stopVars /\ UNCHANGED pc
             /\ \A th \in Threads : netSignal[th] = 1 => netSignal'[th] = 1
  BY <1>2 DEF Produce, ParseMsg, PushRequest, sessionEvent, EventTimeout, Signal,
              queueVars, threadVars, TypeOK
<1>3. ASSUME NEW th \in Threads, Thread(th)
      PROVE  /\ UNCHANGED stopVars
             /\ \A u \in Threads \ {th} : netSignal'[u] = netSignal[u] /\ pc'[u] = pc[u]
             /\ isClose /\ (netSignal[th] = 1 \/ pc[th] \in {"check", "quit"})
                  => netSignal'[th] = 1 \/ pc'[th] \in {"check", "quit"}
  BY <1>3 DEF Thread, Check, Handle, HandlePanics, Received, InCall, Return, EndScan, Wake,
              LoopTimer, queueVars, stopVars, TypeOK
<1>4. CASE Stopping
  <2>1. CASE CloseServer
    BY <2>1 DEF CloseServer
  <2>2. ASSUME NEW th \in Threads, SignalThread(th)
        PROVE  /\ isClose'
               /\ \A u \in Threads \ left' :
                    netSignal'[u] = 1 \/ pc'[u] \in {"check", "quit"}
    BY <2>2 DEF SignalThread, StopInv, threadVars, TypeOK
  <2> QED
    BY <1>4, <2>1, <2>2 DEF Stopping, Stop, destroy, StopReturns
<1>5. ASSUME NEW p \in Producers, Produce(p)
      PROVE  /\ isClose'
             /\ \A th \in Threads \ left' :
                  netSignal'[th] = 1 \/ pc'[th] \in {"check", "quit"}
  BY <1>2, <1>5 DEF StopInv, stopVars
<1>6. ASSUME NEW th \in Threads, Thread(th)
      PROVE  /\ isClose'
             /\ \A u \in Threads \ left' :
                  netSignal'[u] = 1 \/ pc'[u] \in {"check", "quit"}
  BY <1>3, <1>6 DEF StopInv, stopVars
<1> QED
  BY <1>1, <1>4, <1>5, <1>6 DEF Next, Stopped

(***************************************************************************)
(* Stop never waits for a thread it has left asleep: after isClose is set, *)
(* a sleeping thread has a token or is still to be signalled, even when    *)
(* handlers panic (server.go:262-277).                                     *)
(***************************************************************************)
THEOREM StopWakesEveryoneHolds == Spec => []StopWakesEveryone
<1>1. Init => StopInv
  BY DEF Init, StopInv
<1>2. StopInv => StopWakesEveryone
  BY DEF StopInv, StopWakesEveryone
<1> QED
  BY <1>1, <1>2, StopInvStep, TypeCorrect, PTL DEF Spec

(***************************************************************************)
(* Nobody sleeps through a message queued for it or through Stop           *)
(* (server.go:236-248, service.go:124-129).                                *)
(***************************************************************************)
THEOREM NobodySleepsOnHolds == Spec => []NobodySleepsOn
BY NoLostWakeupHolds, StopWakesEveryoneHolds, PTL DEF NobodySleepsOn
=============================================================================
