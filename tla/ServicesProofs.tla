--------------------------- MODULE ServicesProofs ---------------------------
(***************************************************************************)
(* Proofs about the services beside the network layer: Rpc, for any set of *)
(* calls of any kinds, and the logger of stlog, for any sizes, numbers of  *)
(* backups, lengths of the channel and callers of Close.                   *)
(***************************************************************************)
EXTENDS Rpc, Logger, TLAPS
-----------------------------------------------------------------------------
(* Rpc.  The right to call a function of a request goes with its removal   *)
(* from rpcRequests, except for the timer of a synchronous call, which     *)
(* calls the exception in any case.  So a registered request has had no    *)
(* function called, and the callback of a synchronous call can only have   *)
(* been called by its own caller, who then returns.                        *)

\* Before its request is sent nothing is on its way for a call.
Before ==
  \A c \in Calls :
    /\ pc[c] = "idle" => /\ c \notin reqs /\ queue[c] = 0
                         /\ callbacks[c] = 0 /\ exceptions[c] = 0
    /\ pc[c] \in {"idle", "send", "failed"} => c \notin wire /\ replies[c] = 0
    /\ pc[c] \in {"select", "response", "timeout"} => kind[c].sync

\* Who may still call a function of c.
Rights ==
  \A c \in Calls :
    /\ c \in reqs => callbacks[c] = 0 /\ exceptions[c] = 0
    /\ kind[c].sync => /\ queue[c] > 0 => c \notin reqs
                       /\ callbacks[c] > 0 => pc[c] = "returned"

\* The request of a waiting synchronous call has only been removed by Loop,
\* which has called the exception.
Waiting ==
  \A c \in Calls :
    kind[c].sync /\ kind[c].exception
      /\ pc[c] \in {"send", "select", "response", "timeout"} /\ c \notin reqs
      => exceptions[c] > 0

\* Over TCP there is one response at most, in one place.
OneResponse ==
  ~udp => /\ Unlocked
          /\ \A c \in Calls :
               /\ replies[c] <= 1
               /\ c \in wire => replies[c] = 0 /\ signal[c] = 0
               /\ replies[c] = 1 => signal[c] = 0
               /\ pc[c] \in {"idle", "send", "failed"} => signal[c] = 0

Inv  == TypeOK /\ Before /\ Rights
IInv == Inv /\ OneOutcome /\ Waiting /\ SyncHasOutcome /\ OneResponse
-----------------------------------------------------------------------------
\* IInv is preserved by rpc_call.
LEMMA rpc_callStep ==
  ASSUME IInv, RpcAssumption, NEW c \in Calls, rpc_call(c)
  PROVE  IInv'
<1> USE DEF IInv, Inv, rpc_call, netVars, hist, Unlocked
<1>1. TypeOK'
  BY DEF TypeOK, Codes
<1>2. Before' /\ Rights'
  BY DEF Before, Rights, TypeOK
<1>3. OneOutcome' /\ Waiting' /\ SyncHasOutcome'
  BY DEF OneOutcome, Waiting, SyncHasOutcome, Rights, Before, TypeOK, Kind
<1>4. OneResponse'
  BY DEF OneResponse, Before, TypeOK
<1> QED
  BY <1>1, <1>2, <1>3, <1>4

\* IInv is preserved by sendRpcReq.
LEMMA sendRpcReqStep ==
  ASSUME IInv, RpcAssumption, NEW c \in Calls, sendRpcReq(c)
  PROVE  IInv'
<1> USE DEF IInv, Inv, sendRpcReq, netVars, hist, Unlocked
<1>1. TypeOK'
  BY DEF TypeOK, Codes
<1>2. Before' /\ Rights'
  BY DEF Before, Rights, TypeOK
<1>3. OneOutcome' /\ Waiting' /\ SyncHasOutcome'
  BY DEF OneOutcome, Waiting, SyncHasOutcome, Rights, Before, TypeOK, Kind
<1>4. OneResponse'
  BY DEF OneResponse, Before, TypeOK
<1> QED
  BY <1>1, <1>2, <1>3, <1>4

\* IInv is preserved by SendFails.
LEMMA SendFailsStep ==
  ASSUME IInv, RpcAssumption, NEW c \in Calls, SendFails(c)
  PROVE  IInv'
<1> USE DEF IInv, Inv, SendFails, netVars, hist, Unlocked
<1>1. TypeOK'
  BY DEF TypeOK, Codes
<1>2. Before' /\ Rights'
  BY DEF Before, Rights, TypeOK
<1>3. OneOutcome' /\ Waiting' /\ SyncHasOutcome'
  BY DEF OneOutcome, Waiting, SyncHasOutcome, Rights, Before, TypeOK, Kind
<1>4. OneResponse'
  BY DEF OneResponse, Before, TypeOK
<1> QED
  BY <1>1, <1>2, <1>3, <1>4

\* IInv is preserved by SyncReceives.
LEMMA SyncReceivesStep ==
  ASSUME IInv, RpcAssumption, NEW c \in Calls, SyncReceives(c)
  PROVE  IInv'
<1> USE DEF IInv, Inv, SyncReceives, netVars, hist, Unlocked
<1>1. TypeOK'
  BY DEF TypeOK, Codes
<1>2. Before' /\ Rights'
  BY DEF Before, Rights, TypeOK
<1>3. OneOutcome' /\ Waiting' /\ SyncHasOutcome'
  BY DEF OneOutcome, Waiting, SyncHasOutcome, Rights, Before, TypeOK, Kind
<1>4. OneResponse'
  BY DEF OneResponse, Before, TypeOK
<1> QED
  BY <1>1, <1>2, <1>3, <1>4

\* IInv is preserved by SyncTimeout.
LEMMA SyncTimeoutStep ==
  ASSUME IInv, RpcAssumption, NEW c \in Calls, SyncTimeout(c)
  PROVE  IInv'
<1> USE DEF IInv, Inv, SyncTimeout, netVars, hist, Unlocked
<1>1. TypeOK'
  BY DEF TypeOK, Codes
<1>2. Before' /\ Rights'
  BY DEF Before, Rights, TypeOK
<1>3. OneOutcome' /\ Waiting' /\ SyncHasOutcome'
  BY DEF OneOutcome, Waiting, SyncHasOutcome, Rights, Before, TypeOK, Kind
<1>4. OneResponse'
  BY DEF OneResponse, Before, TypeOK
<1> QED
  BY <1>1, <1>2, <1>3, <1>4

\* IInv is preserved by SyncGivesUp.
LEMMA SyncGivesUpStep ==
  ASSUME IInv, RpcAssumption, NEW c \in Calls, SyncGivesUp(c)
  PROVE  IInv'
<1> USE DEF IInv, Inv, SyncGivesUp, netVars, hist, Unlocked
<1>1. TypeOK'
  BY DEF TypeOK, Codes
<1>2. Before' /\ Rights'
  BY DEF Before, Rights, TypeOK
<1>3. OneOutcome' /\ Waiting' /\ SyncHasOutcome'
  BY DEF OneOutcome, Waiting, SyncHasOutcome, Rights, Before, TypeOK, Kind
<1>4. OneResponse'
  BY DEF OneResponse, Before, TypeOK
<1> QED
  BY <1>1, <1>2, <1>3, <1>4

\* IInv is preserved by SyncHandles.
LEMMA SyncHandlesStep ==
  ASSUME IInv, RpcAssumption, NEW c \in Calls, SyncHandles(c)
  PROVE  IInv'
<1> USE DEF IInv, Inv, SyncHandles, handleRpcRsp, netVars, hist, Unlocked
<1>1. TypeOK'
  BY DEF TypeOK, Codes
<1>2. Before' /\ Rights'
  BY DEF Before, Rights, TypeOK
<1>3. OneOutcome'
  <2>1. CASE UNCHANGED hist
    BY <2>1 DEF OneOutcome
  <2>2. CASE c \in reqs
    <3>1. callbacks[c] = 0 /\ exceptions[c] = 0
      BY <2>2 DEF Rights
    <3> QED
      BY <2>2, <3>1 DEF OneOutcome, TypeOK
  <2> QED  BY <2>1, <2>2
<1>4. Waiting'
  BY DEF Waiting, TypeOK
<1>5. SyncHasOutcome'
  <2>1. CASE c \notin reqs
    BY <2>1 DEF SyncHasOutcome, Waiting, Before, TypeOK
  <2>2. CASE c \in reqs
    BY <2>2 DEF SyncHasOutcome, Rights, TypeOK
  <2> QED  BY <2>1, <2>2
<1>6. OneResponse'
  BY DEF OneResponse, Before, TypeOK
<1> QED
  BY <1>1, <1>2, <1>3, <1>4, <1>5, <1>6

\* IInv is preserved by HandleMessage.
LEMMA HandleMessageStep ==
  ASSUME IInv, RpcAssumption, NEW c \in Calls, HandleMessage(c)
  PROVE  IInv'
<1> USE DEF IInv, Inv, HandleMessage, handleRpcRsp, netVars, hist, Unlocked
<1>1. TypeOK'
  BY DEF TypeOK, Codes
<1>2. Before' /\ Rights'
  BY DEF Before, Rights, TypeOK
<1>3. OneOutcome' /\ Waiting' /\ SyncHasOutcome'
  <2>1. OneOutcome'
    BY SMTT(60) DEF OneOutcome, Rights, TypeOK, Kind
  <2>2. Waiting' /\ SyncHasOutcome'
    BY DEF Waiting, SyncHasOutcome, Rights, TypeOK
  <2> QED  BY <2>1, <2>2
<1>4. OneResponse'
  BY DEF OneResponse, Before, TypeOK
<1> QED
  BY <1>1, <1>2, <1>3, <1>4

\* IInv is preserved by handleRpcReq.
LEMMA handleRpcReqStep ==
  ASSUME IInv, RpcAssumption, NEW c \in Calls, handleRpcReq(c)
  PROVE  IInv'
<1> USE DEF IInv, Inv, handleRpcReq, netVars, hist, Unlocked
<1>1. TypeOK'
  BY DEF TypeOK, Codes
<1>2. Before' /\ Rights'
  BY DEF Before, Rights, TypeOK
<1>3. OneOutcome' /\ Waiting' /\ SyncHasOutcome'
  BY DEF OneOutcome, Waiting, SyncHasOutcome, Rights, Before, TypeOK, Kind
<1>4. OneResponse'
  BY DEF OneResponse, Before, TypeOK
<1> QED
  BY <1>1, <1>2, <1>3, <1>4

\* IInv is preserved by Unmarshal.
LEMMA UnmarshalStep ==
  ASSUME IInv, RpcAssumption, NEW c \in Calls, Unmarshal(c)
  PROVE  IInv'
<1> USE DEF IInv, Inv, Unmarshal, netVars, hist, Unlocked
<1>1. TypeOK'
  BY RpcAssumption DEF TypeOK, Codes
<1>2. Before' /\ Rights'
  BY DEF Before, Rights, TypeOK
<1>3. OneOutcome' /\ Waiting' /\ SyncHasOutcome'
  BY DEF OneOutcome, Waiting, SyncHasOutcome, Rights, Before, TypeOK, Kind
<1>4. OneResponse'
  BY DEF OneResponse, Before, TypeOK
<1> QED
  BY <1>1, <1>2, <1>3, <1>4

\* IInv is preserved by UnmarshalSends.
LEMMA UnmarshalSendsStep ==
  ASSUME IInv, RpcAssumption, NEW c \in Calls, UnmarshalSends(c)
  PROVE  IInv'
<1> USE DEF IInv, Inv, UnmarshalSends, netVars, hist, Unlocked
<1>1. TypeOK'
  BY DEF TypeOK, Codes
<1>2. Before' /\ Rights'
  BY DEF Before, Rights, TypeOK
<1>3. OneOutcome' /\ Waiting' /\ SyncHasOutcome'
  BY DEF OneOutcome, Waiting, SyncHasOutcome, Rights, Before, TypeOK, Kind
<1>4. OneResponse'
  BY DEF OneResponse, Before, TypeOK
<1> QED
  BY <1>1, <1>2, <1>3, <1>4

\* IInv is preserved by Loop.
LEMMA LoopStep ==
  ASSUME IInv, RpcAssumption, NEW timeouts \in SUBSET reqs, Loop(timeouts)
  PROVE  IInv'
<1> USE DEF IInv, Inv, Loop, netVars, hist, Unlocked
<1>1. TypeOK'
  BY DEF TypeOK, Codes
<1>2. Before' /\ Rights'
  BY DEF Before, Rights, TypeOK
<1>3. OneOutcome' /\ Waiting' /\ SyncHasOutcome'
  BY DEF OneOutcome, Waiting, SyncHasOutcome, Rights, Before, TypeOK, Kind
<1>4. OneResponse'
  BY DEF OneResponse, Before, TypeOK
<1> QED
  BY <1>1, <1>2, <1>3, <1>4

-----------------------------------------------------------------------------
\* IInv holds initially: no call has been made.
LEMMA InitIInv == RpcAssumption /\ Init => IInv
<1> SUFFICES ASSUME RpcAssumption, Init PROVE IInv
  OBVIOUS
<1>1. TypeOK
  BY DEF RpcAssumption, Init, TypeOK, Codes
<1> QED
  BY <1>1 DEF Init, IInv, Inv, Before, Rights, OneOutcome, Waiting, SyncHasOutcome,
              OneResponse, Unlocked

\* IInv is preserved by every step.
LEMMA NextIInv == RpcAssumption /\ IInv /\ [Next]_vars => IInv'
<1> SUFFICES ASSUME RpcAssumption, IInv, [Next]_vars PROVE IInv'
  OBVIOUS
<1>1. ASSUME NEW c \in Calls, rpc_call(c) \/ Caller(c) \/ Parser(c) PROVE IInv'
  BY <1>1, rpc_callStep, sendRpcReqStep, SendFailsStep, SyncReceivesStep, SyncHandlesStep,
     SyncTimeoutStep, SyncGivesUpStep, UnmarshalStep, UnmarshalSendsStep DEF Caller, Parser
<1>2. ASSUME NEW c \in Calls, HandleMessage(c) \/ handleRpcReq(c) PROVE IInv'
  BY <1>2, HandleMessageStep, handleRpcReqStep
<1>3. ASSUME NEW timeouts \in SUBSET reqs, Loop(timeouts) PROVE IInv'
  BY <1>3, LoopStep
<1>4. CASE UNCHANGED vars
  BY <1>4 DEF vars, IInv, Inv, TypeOK, Before, Rights, OneOutcome, Waiting, SyncHasOutcome,
              OneResponse, Unlocked
<1> QED
  BY <1>1, <1>2, <1>3, <1>4 DEF Next

\* The invariant of the calls.
LEMMA IInvHolds == Spec => []IInv
<1>1. Init => IInv
  BY InitIInv, RpcAssumption
<1>2. IInv /\ [Next]_vars => IInv'
  BY NextIInv, RpcAssumption
<1> QED
  BY <1>1, <1>2, PTL DEF Spec

\* The variables keep their types; a signal channel holds one response at most.
THEOREM TypeCorrect == Spec => []TypeOK
<1>1. IInv => TypeOK
  BY DEF IInv, Inv
<1> QED
  BY IInvHolds, <1>1, PTL

\* For any number of calls, kinds and duplicated responses, the callback is
\* called once at most and excludes every exception (rpc.go:257-300).
THEOREM OneOutcomeHolds == Spec => []OneOutcome
<1>1. IInv => OneOutcome
  BY DEF IInv
<1> QED
  BY IInvHolds, <1>1, PTL

\* A synchronous call with both functions does not return silently
\* (rpc.go:144-157).
THEOREM SyncHasOutcomeHolds == Spec => []SyncHasOutcome
<1>1. IInv => SyncHasOutcome
  BY DEF IInv
<1> QED
  BY IInvHolds, <1>1, PTL

\* Over TCP, Unmarshal never waits with rpcMutex locked (rpc.go:357-361).
THEOREM ParserNeverWaitsHolds == Spec => []ParserNeverWaits
<1>1. IInv => ParserNeverWaits
  BY DEF IInv, OneResponse, ParserNeverWaits
<1> QED
  BY IInvHolds, <1>1, PTL

-----------------------------------------------------------------------------
(* The logger.  Records go from the channel to the buffer and from there   *)
(* to the newest file, and each is newer than all that is ahead of it; a   *)
(* rotation gives the files of a day other numbers and keeps their order;  *)
(* behind the first record of Close are only records accepted after it.    *)

\* The files of e are files of d under other numbers, in the same order.
Shifted(d, e) ==
  \A n \in Days : \E s \in [Slots -> Slots] :
    /\ \A i \in Slots : e[n][i] # <<>> => e[n][i] = d[n][s[i]]
    /\ \A i, j \in Slots : i < j /\ e[n][i] # <<>> /\ e[n][j] # <<>> => s[i] < s[j]

\* Slot 0 and the first day exist.
LEMMA ZeroIsASlot == 0 \in Slots /\ 1 \in Days /\ Slots \subseteq Nat /\ Days \subseteq Nat
  BY LogAssumption DEF Slots, Days

\* The records of two sequences, one after the other.
LEMMA ConcatSeq == ASSUME NEW a \in Seq(Nat), NEW b \in Seq(Nat) PROVE a \o b \in Seq(Nat)
  OBVIOUS

\* newFileWriter opens the file of today, if it does not fail.
LEMMA NewWriter ==
  ASSUME NEW f \in FileWriters, NEW d \in Disks, day \in Days, f.file = "nil", InStep(f, d),
         NEW g \in newFileWriter(f, d)
  PROVE  /\ g \in FileWriters /\ InStep(g, d)
         /\ g.faults >= f.faults /\ g.name = day /\ g.opened = day
         /\ g.file \in {"nil", "open"} /\ (g.faults = f.faults => g.file = "open")
<1> DEFINE name == IF Daily THEN day ELSE f.name
           h == [f EXCEPT !.opened = day, !.name = name]
<1>1. PICK fails \in MayFail(f) :
        g = IF fails THEN Fault(h, TRUE) ELSE [h EXCEPT !.file = "open", !.cursize = Len(d[name][0])]
  BY Zenon DEF newFileWriter
<1>2. name = day /\ name \in Days
  BY ZeroIsASlot DEF InStep, FileWriters, Days
<1>3. /\ h \in FileWriters /\ h.file = "nil" /\ h.opened = day /\ h.name = day
      /\ h.faults = f.faults /\ h.cursize = f.cursize
  BY <1>2, Zenon DEF FileWriters
<1> HIDE DEF h
<1>4. Len(d[name][0]) \in Nat
  BY <1>2, ZeroIsASlot DEF Disks
<1>5. CASE fails
  <2>1. g = [h EXCEPT !.faults = @ + 1]
    BY <1>1, <1>5 DEF Fault
  <2>2. /\ g \in FileWriters /\ g.faults = f.faults + 1 /\ g.file = "nil" /\ g.name = day /\ g.opened = day
    BY <2>1, <1>3 DEF FileWriters
  <2> QED
    BY <2>2 DEF InStep, FileWriters, Days
<1>6. CASE ~fails
  <2>1. g = [h EXCEPT !.file = "open", !.cursize = Len(d[name][0])]
    BY <1>1, <1>6
  <2>2. /\ g \in FileWriters /\ g.faults = f.faults /\ g.file = "open" /\ g.name = day /\ g.opened = day
        /\ g.cursize = Len(d[day][0])
    BY <2>1, <1>2, <1>3, <1>4, Zenon DEF FileWriters
  <2> QED
    BY <2>2 DEF InStep, FileWriters, Days
<1> QED
  BY <1>5, <1>6

\* renameFiles keeps the order of the files it renames.
LEMMA Renamed ==
  ASSUME NEW files \in [Slots -> Seq(Nat)], NEW stop \in Nat, stop = 1 \/ stop \in 1 .. MaxBackup
  PROVE  /\ renameFiles(files, stop) \in [Slots -> Seq(Nat)]
         /\ stop = 1 /\ MaxBackup >= 2 => renameFiles(files, stop)[0] = <<>>
         /\ \E s \in [Slots -> Slots] :
              /\ \A i \in Slots : renameFiles(files, stop)[i] # <<>> => renameFiles(files, stop)[i] = files[s[i]]
              /\ \A i, j \in Slots : i < j /\ renameFiles(files, stop)[i] # <<>> /\ renameFiles(files, stop)[j] # <<>>
                   => s[i] < s[j]
<1> DEFINE e == renameFiles(files, stop)
<1>1. CASE MaxBackup < 2 \/ stop = MaxBackup
  <2>1. e = files
    BY <1>1 DEF renameFiles
  <2> DEFINE s == [i \in Slots |-> i]
  <2>2. s \in [Slots -> Slots] /\ \A i \in Slots : s[i] = i
    OBVIOUS
  <2>3. ~(stop = 1 /\ MaxBackup >= 2)
    BY <1>1, LogAssumption
  <2> HIDE DEF e, s
  <2> QED
    BY <2>1, <2>2, <2>3 DEF e
<1>2. CASE ~(MaxBackup < 2 \/ stop = MaxBackup)
  <2> DEFINE s == [i \in Slots |-> IF i > stop - 1 /\ files[i - 1] # <<>> THEN i - 1 ELSE i]
  <2>1. /\ MaxBackup \in Nat /\ MaxBackup >= 2 /\ stop >= 1 /\ stop < MaxBackup /\ Slots = 0 .. MaxBackup - 1
    BY <1>2, LogAssumption DEF Slots
  <2>2. e = [i \in Slots |->
          IF i < stop - 1 THEN files[i]
          ELSE IF i > stop - 1 /\ files[i - 1] # <<>> THEN files[i - 1]
          ELSE IF i = MaxBackup - 1 THEN files[i] ELSE <<>>]
    BY <1>2 DEF renameFiles
  <2>3. s \in [Slots -> Slots]
    BY <2>1
  <2>4. \A i \in Slots : s[i] = IF i > stop - 1 /\ files[i - 1] # <<>> THEN i - 1 ELSE i
    OBVIOUS
  <2>5. \A i \in Slots : e[i] = IF i < stop - 1 THEN files[i]
          ELSE IF i > stop - 1 /\ files[i - 1] # <<>> THEN files[i - 1]
          ELSE IF i = MaxBackup - 1 THEN files[i] ELSE <<>>
    BY <2>2
  <2>6. e \in [Slots -> Seq(Nat)]
    <3>1. ASSUME NEW i \in Slots PROVE e[i] \in Seq(Nat)
      <4>1. i - 1 \in Slots \/ ~(i > stop - 1)
        BY <2>1
      <4>2. <<>> \in Seq(Nat)
        OBVIOUS
      <4> QED
        BY <4>1, <4>2, <2>5, Zenon
    <3> QED
      BY <3>1, <2>2, Zenon
  <2> HIDE DEF e, s
  <2>7. stop = 1 => e[0] = <<>>
    BY <2>5, <2>1
  <2>8. ASSUME NEW i \in Slots, e[i] # <<>> PROVE e[i] = files[s[i]]
    <3>1. i < stop - 1 => ~(i > stop - 1)
      BY <2>1
    <3> QED
      BY <3>1, <2>4, <2>5, <2>8, Zenon
  <2>9. ASSUME NEW i \in Slots, NEW j \in Slots, i < j, e[i] # <<>>, e[j] # <<>> PROVE s[i] < s[j]
    <3>1. i \in Nat /\ j \in Nat /\ i # MaxBackup - 1 /\ i <= j - 1
      BY <2>9, <2>1
    <3>2. s[i] \in Int /\ s[i] <= i
      <4>1. s[i] = i - 1 \/ s[i] = i
        BY <2>4, Zenon
      <4> QED
        BY <4>1, <3>1
    <3>3. CASE s[j] = j
      BY <3>1, <3>2, <3>3, <2>3
    <3>4. CASE s[j] # j
      <4>1. s[j] = j - 1 /\ j > stop - 1 /\ files[j - 1] # <<>>
        BY <3>4, <2>4, Zenon
      <4>2. CASE i < j - 1
        BY <4>1, <4>2, <3>1, <3>2
      <4>3. CASE i = j - 1
        <5>1. ~(i < stop - 1)
          BY <4>3, <4>1, <2>1, <3>1
        <5>2. i > stop - 1 /\ files[i - 1] # <<>>
          BY <5>1, <2>5, <2>9, <3>1
        <5> QED
          BY <5>2, <2>4, <4>1, <4>3, <3>1
      <4> QED
        BY <4>2, <4>3, <3>1
    <3> QED
      BY <3>3, <3>4
  <2>10. \E t \in [Slots -> Slots] :
              /\ \A i \in Slots : e[i] # <<>> => e[i] = files[t[i]]
              /\ \A i, j \in Slots : i < j /\ e[i] # <<>> /\ e[j] # <<>> => t[i] < t[j]
    BY <2>3, <2>8, <2>9, Zenon
  <2> QED
    BY <2>6, <2>7, <2>10, Zenon DEF e
<1> QED
  BY <1>1, <1>2, Zenon

\* rotate and the opening before it: what is written next goes to the file of today, which is not too
\* large unless something failed.
LEMMA Turned ==
  ASSUME disk \in Disks, day \in Days, NEW f \in FileWriters, InStep(f, disk), NEW g \in TurnedOver(f)
  PROVE  /\ g.f \in FileWriters /\ g.d \in Disks /\ InStep(g.f, g.d) /\ Shifted(disk, g.d)
         /\ g.f.faults >= f.faults
         /\ g.f.file # "nil" => g.f.name = day
         /\ g.f.file # "nil" /\ g.f.faults = 0 /\ MaxBackup >= 2 /\ MaxSize > 0 => Len(g.d[day][0]) < MaxSize
<1>1. Shifted(disk, disk)
  <2> DEFINE s == [i \in Slots |-> i]
  <2>1. s \in [Slots -> Slots] /\ \A i \in Slots : s[i] = i
    OBVIOUS
  <2> HIDE DEF s
  <2> QED
    BY <2>1 DEF Shifted
<1>2. f.name \in Days /\ f.opened \in Days /\ f.cursize \in Nat /\ f.faults \in Nat /\ MaxSize \in Nat
  BY LogAssumption DEF FileWriters
<1>3. CASE ~(f.file # "nil" /\ (oversize(f) \/ (Daily /\ day # f.opened)))
  <2>1. g = [f |-> f, d |-> disk]
    BY <1>3 DEF TurnedOver
  <2>2. g.f = f /\ g.d = disk
    BY <2>1
  <2>3. f.file # "nil" => f.name = day
    BY <1>3, <1>2 DEF InStep, Days
  <2>4. f.file # "nil" /\ MaxSize > 0 => Len(disk[day][0]) < MaxSize
    BY <1>3, <1>2, <2>3 DEF InStep, oversize
  <2> QED
    BY <1>1, <1>2, <2>2, <2>3, <2>4
<1>4. CASE f.file # "nil" /\ (oversize(f) \/ (Daily /\ day # f.opened))
  <2> DEFINE large == oversize(f)
             closed == [f EXCEPT !.file = "nil"]
             stops == IF ~large \/ MaxBackup < 2 THEN {1} ELSE IF MayFail(f) = {FALSE} THEN {1} ELSE 1 .. MaxBackup
             Moved(stop) == IF large THEN [disk EXCEPT ![f.name] = renameFiles(@, stop)] ELSE disk
  <2>1. PICK stop \in stops : \E w \in newFileWriter(Fault(closed, stop > 1), Moved(stop)) : g = [f |-> w, d |-> Moved(stop)]
    <3>1. g \in rotate(f, disk, large)
      BY <1>4 DEF TurnedOver
    <3> DEFINE Outcomes(stop) == {[f |-> w, d |-> Moved(stop)] : w \in newFileWriter(Fault(closed, stop > 1), Moved(stop))}
    <3>2. rotate(f, disk, large) = UNION {Outcomes(stop) : stop \in stops}
      BY DEF rotate
    <3> HIDE DEF stops, large, closed, Moved
    <3>3. PICK stop \in stops : g \in Outcomes(stop)
      <4> HIDE DEF Outcomes
      <4> QED
        BY <3>1, <3>2
    <3> QED
      BY <3>3
  <2>2. PICK w \in newFileWriter(Fault(closed, stop > 1), Moved(stop)) : g = [f |-> w, d |-> Moved(stop)]
    BY <2>1
  <2> DEFINE e == Moved(stop)
             h == Fault(closed, stop > 1)
  <2>3. g.f = w /\ g.d = e
    BY <2>2
  <2>4. stop \in Nat /\ (stop = 1 \/ stop \in 1 .. MaxBackup)
    <3>1. stop = 1 \/ stop \in 1 .. MaxBackup
      BY Zenon
    <3> QED
      BY <3>1, LogAssumption
  <2>5. /\ h \in FileWriters /\ h.file = "nil" /\ h.name = f.name /\ h.faults \in Nat
        /\ h.faults >= f.faults /\ (h.faults = 0 => stop = 1)
    <3>1. /\ closed \in FileWriters /\ closed.file = "nil" /\ closed.name = f.name /\ closed.faults = f.faults
      BY DEF FileWriters
    <3> HIDE DEF closed
    <3>2. CASE stop > 1
      <4>1. h = [closed EXCEPT !.faults = @ + 1]
        BY <3>2 DEF Fault
      <4> HIDE DEF h
      <4> QED
        BY <4>1, <3>1, <1>2 DEF FileWriters
    <3>3. CASE ~(stop > 1)
      <4>1. h = closed
        BY <3>3 DEF Fault
      <4> HIDE DEF h
      <4>2. stop = 1
        BY <3>3, <2>4
      <4>3. f.faults >= f.faults
        BY <1>2
      <4> QED
        BY <4>1, <4>2, <4>3, <3>1, <1>2, Zenon
    <3> QED
      BY <3>2, <3>3
  <2>6. disk[f.name] \in [Slots -> Seq(Nat)]
    BY <1>2 DEF Disks
  <2> DEFINE files == renameFiles(disk[f.name], stop)
  <2>7. /\ files \in [Slots -> Seq(Nat)]
        /\ stop = 1 /\ MaxBackup >= 2 => files[0] = <<>>
        /\ \E s \in [Slots -> Slots] :
              /\ \A i \in Slots : files[i] # <<>> => files[i] = disk[f.name][s[i]]
              /\ \A i, j \in Slots : i < j /\ files[i] # <<>> /\ files[j] # <<>> => s[i] < s[j]
    BY <2>4, <2>6, Renamed, Zenon
  <2>8. /\ e = IF large THEN [disk EXCEPT ![f.name] = files] ELSE disk
    OBVIOUS
  <2> HIDE DEF files, e, h, large, stops
  <2>9. e \in Disks /\ (\A n \in Days : n # f.name => e[n] = disk[n]) /\ e[f.name] = IF large THEN files ELSE disk[f.name]
    BY <2>7, <2>8, <1>2, Zenon DEF Disks
  <2>10. Shifted(disk, e)
    <3> SUFFICES ASSUME NEW n \in Days
                 PROVE  \E s \in [Slots -> Slots] :
                          /\ \A i \in Slots : e[n][i] # <<>> => e[n][i] = disk[n][s[i]]
                          /\ \A i, j \in Slots : i < j /\ e[n][i] # <<>> /\ e[n][j] # <<>> => s[i] < s[j]
      BY Zenon DEF Shifted
    <3>1. CASE n = f.name /\ large
      BY <3>1, <2>7, <2>9, ZenonT(30)
    <3>2. CASE ~(n = f.name /\ large)
      <4>1. e[n] = disk[n]
        BY <3>2, <2>9
      <4>2. PICK s \in [Slots -> Slots] :
              /\ \A i \in Slots : disk[n][i] # <<>> => disk[n][i] = disk[n][s[i]]
              /\ \A i, j \in Slots : i < j /\ disk[n][i] # <<>> /\ disk[n][j] # <<>> => s[i] < s[j]
        BY <1>1, Zenon DEF Shifted
      <4>3. /\ \A i \in Slots : e[n][i] # <<>> => e[n][i] = disk[n][s[i]]
            /\ \A i, j \in Slots : i < j /\ e[n][i] # <<>> /\ e[n][j] # <<>> => s[i] < s[j]
        BY <4>1, <4>2
      <4> QED
        BY <4>3
    <3> QED
      BY <3>1, <3>2
  <2>11. \A n \in Days, i \in Slots : n > f.name => e[n][i] = <<>>
    BY <1>4, <1>2, <2>9 DEF InStep, Days
  <2>12. InStep(h, e)
    BY <2>5, <2>11, <1>2 DEF InStep, Days
  <2>13. /\ w \in FileWriters /\ InStep(w, e)
         /\ w.faults >= h.faults /\ w.name = day /\ w.opened = day
    BY <2>2, <2>5, <2>9, <2>12, NewWriter DEF h, e
  <2>14. w.faults \in Nat
    BY <2>13 DEF FileWriters
  <2>15. w.faults = 0 /\ MaxBackup >= 2 /\ MaxSize > 0 => Len(e[day][0]) < MaxSize
    <3> SUFFICES ASSUME w.faults = 0, MaxBackup >= 2, MaxSize > 0 PROVE e[day][0] = <<>>
      BY <1>2
    <3>1. stop = 1
      BY <2>5, <2>13, <2>14
    <3>2. CASE f.name = day
      <4>1. large
        BY <1>4, <3>2 DEF InStep, large
      <4> QED
        BY <4>1, <3>1, <3>2, <2>7, <2>9
    <3>3. CASE f.name # day
      <4>1. day > f.name
        BY <3>3, <1>2 DEF InStep, Days
      <4> QED
        BY <4>1, <2>11, ZeroIsASlot
    <3> QED
      BY <3>2, <3>3
  <2> QED
    BY <2>3, <2>5, <2>9, <2>10, <2>13, <2>14, <2>15, <1>2
<1> QED
  BY <1>3, <1>4

\* write: the files are renamed in their order, and the message is added to the file of today or
\* not at all.
LEMMA Written ==
  ASSUME disk \in Disks, day \in Days, fw \in FileWriters, InStep(fw, disk),
         NEW msg \in Seq(Nat), NEW r \in write(msg)
  PROVE  /\ r.f \in FileWriters /\ r.d \in Disks /\ InStep(r.f, r.d) /\ r.f.faults >= fw.faults
         /\ \E e \in Disks :
              /\ Shifted(disk, e)
              /\ \A n \in Days, i \in Slots : n > day => e[n][i] = <<>>
              /\ \/ r.ok = FALSE /\ r.d = e
                 \/ /\ r.ok = TRUE /\ r.d = [e EXCEPT ![day][0] = @ \o msg]
                    /\ r.f.faults = 0 /\ MaxBackup >= 2 /\ MaxSize > 0 => Len(e[day][0]) < MaxSize
<1>0. PICK f \in Opened : \E g \in TurnedOver(f) :
        r \in IF g.f.file = "nil" THEN {[f |-> g.f, d |-> g.d, ok |-> FALSE]} ELSE Append0(g.f, g.d, msg)
  BY DEF write
<1>1. PICK g \in TurnedOver(f) :
        r \in IF g.f.file = "nil" THEN {[f |-> g.f, d |-> g.d, ok |-> FALSE]} ELSE Append0(g.f, g.d, msg)
  BY <1>0
<1>2. f \in FileWriters /\ InStep(f, disk) /\ f.faults >= fw.faults /\ f.faults \in Nat /\ fw.faults \in Nat
  <2>1. CASE fw.file = "nil"
    BY <2>1, NewWriter DEF Opened, FileWriters
  <2>2. CASE fw.file # "nil"
    BY <2>2 DEF Opened, FileWriters
  <2> QED
    BY <2>1, <2>2
<1>3. /\ g.f \in FileWriters /\ g.d \in Disks /\ InStep(g.f, g.d) /\ Shifted(disk, g.d)
      /\ g.f.faults >= f.faults
      /\ g.f.file # "nil" => g.f.name = day
      /\ g.f.file # "nil" /\ g.f.faults = 0 /\ MaxBackup >= 2 /\ MaxSize > 0 => Len(g.d[day][0]) < MaxSize
  BY <1>2, Turned
<1>4. g.f.faults \in Nat /\ g.f.name \in Days /\ g.f.cursize \in Nat
  BY <1>3 DEF FileWriters
<1>9. g.f.faults >= fw.faults
  BY <1>2, <1>3, <1>4
<1>5. \A n \in Days, i \in Slots : n > day => g.d[n][i] = <<>>
  BY <1>3, <1>4 DEF InStep, Days
<1>6. CASE g.f.file = "nil"
  <2>1. r = [f |-> g.f, d |-> g.d, ok |-> FALSE]
    BY <1>1, <1>6
  <2>2. r.f = g.f /\ r.d = g.d /\ r.ok = FALSE
    BY <2>1
  <2> QED
    <3>1. r.f.faults >= fw.faults
      BY <2>2, <1>9
    <3> QED
      BY <3>1, <2>2, <1>3, <1>5, Zenon
<1>7. CASE g.f.file # "nil"
  <2>1. PICK fails \in MayFail(g.f) :
          r = IF g.f.file # "open" \/ fails
              THEN [f |-> Fault(g.f, fails), d |-> g.d, ok |-> FALSE]
              ELSE [f |-> [g.f EXCEPT !.cursize = @ + Len(msg)], d |-> [g.d EXCEPT ![g.f.name][0] = @ \o msg], ok |-> TRUE]
    BY <1>1, <1>7 DEF Append0
  <2>2. CASE g.f.file # "open" \/ fails
    <3>1. r.f = Fault(g.f, fails) /\ r.d = g.d /\ r.ok = FALSE
      BY <2>1, <2>2
    <3>2. /\ r.f \in FileWriters /\ r.f.faults >= g.f.faults /\ r.f.faults \in Nat /\ r.f.file = g.f.file
          /\ r.f.cursize = g.f.cursize /\ r.f.name = g.f.name /\ r.f.opened = g.f.opened
      BY <3>1, <1>3, <1>4, SMTT(60) DEF Fault, FileWriters
    <3>3. InStep(r.f, r.d)
      BY <3>1, <3>2, <1>3 DEF InStep
    <3> QED
      <4>1. \A a, b, c \in Nat : a >= b /\ b >= c => a >= c
        OBVIOUS
      <4>2. r.f.faults >= fw.faults
        BY <4>1, <3>2, <1>2, <1>4, <1>9, Zenon
      <4> QED
        BY <4>2, <3>1, <3>2, <3>3, <1>3, <1>5, Zenon
  <2>3. CASE ~(g.f.file # "open" \/ fails)
    <3>1. /\ r.f = [g.f EXCEPT !.cursize = @ + Len(msg)] /\ r.d = [g.d EXCEPT ![g.f.name][0] = @ \o msg]
          /\ r.ok = TRUE
      BY <2>1, <2>3
    <3>2. g.f.name = day
      BY <1>3, <1>7
    <3>3. /\ r.f \in FileWriters /\ r.f.faults = g.f.faults /\ r.f.file = g.f.file
          /\ r.f.cursize = g.f.cursize + Len(msg) /\ r.f.name = g.f.name /\ r.f.opened = g.f.opened
      <4>0. PICK h : h = g.f
        OBVIOUS
      <4>1. PICK n : n = h.cursize + Len(msg)
        OBVIOUS
      <4>2. n \in Nat
        BY <4>0, <4>1, <1>4
      <4>3. h \in FileWriters /\ r.f = [h EXCEPT !.cursize = n]
        BY <4>0, <4>1, <3>1, <1>3, Zenon
      <4> QED
        BY <4>0, <4>1, <4>2, <4>3 DEF FileWriters
    <3>4. g.d[day][0] \in Seq(Nat) /\ g.d[day] \in [Slots -> Seq(Nat)]
      BY <1>3, ZeroIsASlot DEF Disks
    <3>5. /\ r.d \in Disks
          /\ r.d[day][0] = g.d[day][0] \o msg
          /\ \A n \in Days, i \in Slots : n # day => r.d[n][i] = g.d[n][i]
      <4> DEFINE q == [g.d[day] EXCEPT ![0] = @ \o msg]
      <4>1. r.d = [g.d EXCEPT ![day] = q]
        BY <3>1, <3>2
      <4>2. g.d[day][0] \o msg \in Seq(Nat)
        BY <3>4, ConcatSeq, Zenon
      <4>3. q \in [Slots -> Seq(Nat)] /\ q[0] = g.d[day][0] \o msg
        BY <4>2, <3>4, ZeroIsASlot
      <4> HIDE DEF q
      <4> QED
        BY <4>1, <4>3, <1>3 DEF Disks
    <3>6. Len(r.d[day][0]) = Len(g.d[day][0]) + Len(msg)
      BY <3>5, <3>4, SMTT(60)
    <3>7. InStep(r.f, r.d)
      <4>1. /\ r.f.name <= day /\ (~Daily => day = 1) /\ (Daily => r.f.name = r.f.opened)
            /\ r.f.cursize = Len(r.d[r.f.name][0])
        BY <3>2, <3>3, <3>6, <1>3, <1>7 DEF InStep
      <4>2. \A n \in Days, i \in Slots : n > r.f.name => r.d[n][i] = <<>>
        <5> SUFFICES ASSUME NEW n \in Days, NEW i \in Slots, n > r.f.name PROVE r.d[n][i] = <<>>
          OBVIOUS
        <5>1. n > day
          BY <3>2, <3>3
        <5>2. n # day
          BY <5>1 DEF Days
        <5> QED
          BY <5>1, <5>2, <3>5, <1>5, Zenon
      <4> QED
        BY <4>1, <4>2, <3>3, <1>7 DEF InStep
    <3> QED
      <4>1. r.f.faults >= fw.faults
        BY <3>3, <1>9
      <4>2. r.f.faults = 0 /\ MaxBackup >= 2 /\ MaxSize > 0 => Len(g.d[day][0]) < MaxSize
        BY <3>3, <1>3, <1>7
      <4>3. r.d = [g.d EXCEPT ![day][0] = @ \o msg]
        BY <3>1, <3>2
      <4> QED
        BY <4>1, <4>2, <4>3, <3>1, <3>3, <3>5, <3>7, <1>3, <1>5, Zenon
  <2> QED
    BY <2>2, <2>3, Zenon
<1> QED
  BY <1>6, <1>7, Zenon

-----------------------------------------------------------------------------
\* Renaming keeps the order of the records, and makes none newer and no file larger.
LEMMA ShiftKeeps ==
  ASSUME NEW d \in Disks, NEW e \in Disks, Shifted(d, e)
  PROVE  /\ InOrder(d) => InOrder(e)
         /\ \A v : Newer(v, d) => Newer(v, e)
         /\ Bounded(d) => Bounded(e)
<1>1. \A n \in Days, i \in Slots : d[n][i] \in Seq(Nat) /\ e[n][i] \in Seq(Nat)
  BY DEF Disks
<1>2. \A n \in Days, i \in Slots : \A a \in DOMAIN e[n][i] : e[n][i] # <<>>
  OBVIOUS
<1>3. ASSUME InOrder(d) PROVE InOrder(e)
  <2> SUFFICES ASSUME NEW n \in Days, NEW k \in Days, NEW i \in Slots, NEW j \in Slots,
                      NEW a \in DOMAIN e[n][i], NEW b \in DOMAIN e[k][j], Earlier(n, i, a, k, j, b)
               PROVE  e[n][i][a] < e[k][j][b]
    BY DEF InOrder
  <2>1. e[n][i] # <<>> /\ e[k][j] # <<>>
    BY <1>2
  <2>2. PICK s \in [Slots -> Slots] :
          /\ \A x \in Slots : e[n][x] # <<>> => e[n][x] = d[n][s[x]]
          /\ \A x, y \in Slots : x < y /\ e[n][x] # <<>> /\ e[n][y] # <<>> => s[x] < s[y]
    BY Zenon DEF Shifted
  <2>3. PICK t \in [Slots -> Slots] :
          /\ \A x \in Slots : e[k][x] # <<>> => e[k][x] = d[k][t[x]]
    BY Zenon DEF Shifted
  <2>4. CASE n < k
    <3>1. Earlier(n, s[i], a, k, t[j], b)
      BY <2>4 DEF Earlier
    <3>2. e[n][i] = d[n][s[i]] /\ e[k][j] = d[k][t[j]] /\ s[i] \in Slots /\ t[j] \in Slots
      BY <2>1, <2>2, <2>3
    <3>3. a \in DOMAIN d[n][s[i]] /\ b \in DOMAIN d[k][t[j]]
      BY <3>2
    <3>4. d[n][s[i]][a] < d[k][t[j]][b]
      BY <3>1, <3>2, <3>3, <1>3, Zenon DEF InOrder
    <3> QED
      BY <3>2, <3>4
  <2>5. CASE ~(n < k)
    <3>1. n = k /\ (i > j \/ (i = j /\ a < b))
      BY <2>5 DEF Earlier
    <3>2. i > j => s[i] > s[j]
      BY <3>1, <2>1, <2>2, ZeroIsASlot
    <3>3. Earlier(n, s[i], a, k, s[j], b)
      BY <3>1, <3>2 DEF Earlier
    <3>4. e[n][i] = d[n][s[i]] /\ e[k][j] = d[k][s[j]] /\ s[i] \in Slots /\ s[j] \in Slots
      BY <3>1, <2>1, <2>2
    <3>5. a \in DOMAIN d[n][s[i]] /\ b \in DOMAIN d[k][s[j]]
      BY <3>4
    <3>6. d[n][s[i]][a] < d[k][s[j]][b]
      BY <3>3, <3>4, <3>5, <1>3, Zenon DEF InOrder
    <3> QED
      BY <3>6, <3>4
  <2> QED
    BY <2>4, <2>5
<1>4. ASSUME NEW v, Newer(v, d) PROVE Newer(v, e)
  <2> SUFFICES ASSUME NEW n \in Days, NEW i \in Slots, NEW a \in DOMAIN e[n][i] PROVE e[n][i][a] < v
    BY DEF Newer
  <2>1. PICK s \in [Slots -> Slots] : \A x \in Slots : e[n][x] # <<>> => e[n][x] = d[n][s[x]]
    BY DEF Shifted
  <2>2. e[n][i] = d[n][s[i]] /\ s[i] \in Slots
    BY <2>1, <1>2
  <2> QED
    BY <2>2, <1>4 DEF Newer
<1>5. ASSUME Bounded(d) PROVE Bounded(e)
  <2> SUFFICES ASSUME NEW n \in Days, NEW i \in Slots PROVE Len(e[n][i]) < MaxSize + Batch
    BY DEF Bounded
  <2>1. PICK s \in [Slots -> Slots] : \A x \in Slots : e[n][x] # <<>> => e[n][x] = d[n][s[x]]
    BY DEF Shifted
  <2>2. CASE e[n][i] # <<>>
    BY <2>2, <2>1, <1>5 DEF Bounded
  <2>3. CASE e[n][i] = <<>>
    BY <2>3, LogAssumption
  <2> QED
    BY <2>2, <2>3
<1> QED
  BY <1>3, <1>4, <1>5

\* Writing records that are newer than all others to the file of today keeps the order.
LEMMA AppendKeeps ==
  ASSUME day \in Days, NEW e \in Disks, NEW msg \in Seq(Nat),
         \A n \in Days, i \in Slots : n > day => e[n][i] = <<>>,
         NEW q, q = [e EXCEPT ![day][0] = @ \o msg]
  PROVE  /\ InOrder(e) /\ (\A a \in DOMAIN msg : Newer(msg[a], e)) /\ (\A a, b \in DOMAIN msg : a < b => msg[a] < msg[b])
              => InOrder(q)
         /\ \A v : Newer(v, e) /\ (\A a \in DOMAIN msg : msg[a] < v) => Newer(v, q)
         /\ Bounded(e) /\ Len(e[day][0]) < MaxSize /\ Len(msg) <= Batch => Bounded(q)
         /\ Range(msg) \subseteq OnDisk(q)
<1> DEFINE old == e[day][0]
           L == Len(old)
<1>1. e[day] \in [Slots -> Seq(Nat)] /\ old \in Seq(Nat) /\ L \in Nat /\ 0 \in Slots
  BY ZeroIsASlot DEF Disks
<1>2. \A n \in Days, i \in Slots : e[n][i] \in Seq(Nat) /\ q[n][i] = IF n = day /\ i = 0 THEN old \o msg ELSE e[n][i]
  <2> DEFINE p == [e[day] EXCEPT ![0] = old \o msg]
  <2>1. q = [e EXCEPT ![day] = p]
    OBVIOUS
  <2>2. \A i \in Slots : p[i] = IF i = 0 THEN old \o msg ELSE e[day][i]
    BY <1>1
  <2> HIDE DEF p, old
  <2>3. \A n \in Days : q[n] = IF n = day THEN p ELSE e[n]
    BY <2>1, Zenon DEF Disks
  <2>4. \A n \in Days, i \in Slots : e[n][i] \in Seq(Nat)
    BY DEF Disks
  <2> SUFFICES ASSUME NEW n \in Days, NEW i \in Slots
               PROVE  q[n][i] = IF n = day /\ i = 0 THEN old \o msg ELSE e[n][i]
    BY <2>4
  <2>5. CASE n = day
    BY <2>5, <2>2, <2>3, Zenon
  <2>6. CASE n # day
    BY <2>6, <2>3
  <2> QED
    BY <2>5, <2>6
<1>3. /\ old \o msg \in Seq(Nat) /\ Len(old \o msg) = L + Len(msg) /\ Len(msg) \in Nat
      /\ \A a \in 1 .. L + Len(msg) : (old \o msg)[a] = IF a <= L THEN old[a] ELSE msg[a - L]
  BY <1>1
<1>4. \A n \in Days, i \in Slots : \A a \in DOMAIN q[n][i] :
        \/ a \in DOMAIN e[n][i] /\ q[n][i][a] = e[n][i][a]
        \/ n = day /\ i = 0 /\ a \in Nat /\ a > L /\ a - L \in DOMAIN msg /\ q[n][i][a] = msg[a - L]
  <2> SUFFICES ASSUME NEW n \in Days, NEW i \in Slots, NEW a \in DOMAIN q[n][i]
               PROVE  \/ a \in DOMAIN e[n][i] /\ q[n][i][a] = e[n][i][a]
                      \/ n = day /\ i = 0 /\ a \in Nat /\ a > L /\ a - L \in DOMAIN msg /\ q[n][i][a] = msg[a - L]
    OBVIOUS
  <2>1. CASE n = day /\ i = 0
    <3>1. q[n][i] = old \o msg /\ e[n][i] = old
      BY <2>1, <1>2, Zenon
    <3> HIDE DEF old
    <3>2. a \in 1 .. L + Len(msg)
      BY <3>1, <1>3
    <3> QED
      BY <3>1, <3>2, <1>1, <1>3, <2>1, SMTT(60)
  <2>2. CASE ~(n = day /\ i = 0)
    BY <2>2, <1>2
  <2> QED
    BY <2>1, <2>2, Zenon
<1> HIDE DEF old, L
<1>5. ASSUME InOrder(e), \A a \in DOMAIN msg : Newer(msg[a], e), \A a, b \in DOMAIN msg : a < b => msg[a] < msg[b]
      PROVE  InOrder(q)
  <2> SUFFICES ASSUME NEW n \in Days, NEW k \in Days, NEW i \in Slots, NEW j \in Slots,
                      NEW a \in DOMAIN q[n][i], NEW b \in DOMAIN q[k][j], Earlier(n, i, a, k, j, b)
               PROVE  q[n][i][a] < q[k][j][b]
    BY Zenon DEF InOrder
  <2> DEFINE OldA == a \in DOMAIN e[n][i] /\ q[n][i][a] = e[n][i][a]
             NewA == n = day /\ i = 0 /\ a \in Nat /\ a > L /\ a - L \in DOMAIN msg /\ q[n][i][a] = msg[a - L]
             OldB == b \in DOMAIN e[k][j] /\ q[k][j][b] = e[k][j][b]
             NewB == k = day /\ j = 0 /\ b \in Nat /\ b > L /\ b - L \in DOMAIN msg /\ q[k][j][b] = msg[b - L]
  <2>1. OldA \/ NewA
    BY <1>4, Zenon
  <2>2. OldB \/ NewB
    BY <1>4, Zenon
  <2>3. CASE OldA /\ OldB
    BY <2>3, <1>5 DEF InOrder
  <2>4. CASE OldA /\ NewB
    BY <2>4, <1>5, Zenon DEF Newer
  <2>5. CASE NewA /\ NewB
    <3>1. a < b
      BY <2>5, ZeroIsASlot DEF Earlier
    <3>2. a - L < b - L
      BY <3>1, <2>5, <1>1
    <3> QED
      BY <2>5, <3>2, <1>5, Zenon
  <2>6. CASE NewA /\ OldB
    <3>1. ~(day < k)
      BY <2>6, ZeroIsASlot, SMTT(60)
    <3>2. k = day /\ j = 0 /\ a < b
      BY <3>1, <2>6, ZeroIsASlot DEF Earlier
    <3>3. b \in 1 .. L
      BY <3>2, <2>6, <1>1 DEF old, L
    <3> QED
      BY <3>2, <3>3, <2>6, <1>1
  <2> QED
    BY <2>1, <2>2, <2>3, <2>4, <2>5, <2>6
<1>6. ASSUME NEW v, Newer(v, e), \A a \in DOMAIN msg : msg[a] < v PROVE Newer(v, q)
  <2> SUFFICES ASSUME NEW n \in Days, NEW i \in Slots, NEW a \in DOMAIN q[n][i] PROVE q[n][i][a] < v
    BY DEF Newer
  <2>1. CASE a \in DOMAIN e[n][i] /\ q[n][i][a] = e[n][i][a]
    BY <2>1, <1>6 DEF Newer
  <2>2. CASE ~(a \in DOMAIN e[n][i] /\ q[n][i][a] = e[n][i][a])
    BY <2>2, <1>4, <1>6, Zenon
  <2> QED
    BY <2>1, <2>2
<1>7. ASSUME Bounded(e), Len(e[day][0]) < MaxSize, Len(msg) <= Batch PROVE Bounded(q)
  <2> SUFFICES ASSUME NEW n \in Days, NEW i \in Slots PROVE Len(q[n][i]) < MaxSize + Batch
    BY DEF Bounded
  <2>1. CASE n = day /\ i = 0
    BY <2>1, <1>1, <1>2, <1>3, <1>7, LogAssumption DEF old, L
  <2>2. CASE ~(n = day /\ i = 0)
    BY <2>2, <1>2, <1>7 DEF Bounded
  <2> QED
    BY <2>1, <2>2
<1>8. Range(msg) \subseteq OnDisk(q)
  <2> SUFFICES ASSUME NEW a \in DOMAIN msg PROVE msg[a] \in OnDisk(q)
    BY Zenon DEF Range
  <2>1. a \in 1 .. Len(msg)
    OBVIOUS
  <2>2. q[day][0] = old \o msg
    BY <1>1, <1>2, Zenon
  <2>3. L + a \in 1 .. L + Len(msg) /\ ~(L + a <= L) /\ (L + a) - L = a
    BY <2>1, <1>1, <1>3, SMTT(60)
  <2>4. L + a \in DOMAIN q[day][0] /\ q[day][0][L + a] = msg[a]
    <3>1. DOMAIN (old \o msg) = 1 .. L + Len(msg)
      BY <1>3
    <3>2. (old \o msg)[L + a] = msg[(L + a) - L]
      BY <2>3, <1>3, Zenon
    <3> QED
      BY <2>2, <2>3, <3>1, <3>2, Zenon
  <2>5. msg[a] \in Range(q[day][0])
    BY <2>4, Zenon DEF Range
  <2>6. msg[a] \in UNION {Range(q[day][i]) : i \in Slots}
    BY <2>5, <1>1, Zenon
  <2> QED
    BY <2>6 DEF OnDisk
<1> QED
  BY <1>5, <1>6, <1>7, <1>8, Zenon

-----------------------------------------------------------------------------
\* What a write of msg leaves of the files: they are in order, hold nothing newer than msg that they did
\* not hold, and no record is lost unseen.
FilesKept(msg) ==
  /\ fw' \in FileWriters /\ disk' \in Disks /\ failed' \subseteq Nat /\ gone' \subseteq Nat
  /\ InStep(fw', disk') /\ InOrder(disk')
  /\ MaxBackup >= 2 /\ MaxSize > 0 /\ fw'.faults = 0 => Bounded(disk')
  /\ \A v : Newer(v, disk) /\ (\A a \in DOMAIN msg : msg[a] < v) => Newer(v, disk')
  /\ OnDisk(disk) \cup gone \cup failed \subseteq OnDisk(disk') \cup gone' \cup failed'

\* Records that may be written next: newer than what is in the files, in order, one batch.
Writable(msg) ==
  /\ msg \in Seq(Nat) /\ Len(msg) <= Batch
  /\ \A a \in DOMAIN msg : Newer(msg[a], disk)
  /\ \A a, b \in DOMAIN msg : a < b => msg[a] < msg[b]

\* A step that leaves the files alone.
LEMMA Untouched ==
  ASSUME LogInv, UNCHANGED <<fw, disk, failed, gone>>, NEW msg
  PROVE  FilesKept(msg)
BY Zenon DEF LogInv, LogTypeOK, FilesKept, DiskInOrder, FileSizeBounded

\* The records in the files are numbers.
LEMMA OnDiskNat ==
  ASSUME NEW d \in Disks PROVE OnDisk(d) \subseteq Nat
<1> SUFFICES ASSUME NEW n \in Days, NEW i \in Slots, NEW x \in Range(d[n][i]) PROVE x \in Nat
  BY DEF OnDisk
<1>1. d[n][i] \in Seq(Nat)
  BY DEF Disks
<1> QED
  BY <1>1 DEF Range

\* Flush
LEMMA Flushed ==
  ASSUME LogInv, NEW msg, Writable(msg), Flush(msg)
  PROVE  FilesKept(msg) /\ Range(msg) \subseteq OnDisk(disk') \cup failed'
<1>1. CASE msg = <<>>
  <2>1. FilesKept(msg)
    BY <1>1, Untouched DEF Flush
  <2>2. Range(msg) = {}
    BY <1>1 DEF Range
  <2> QED
    BY <2>1, <2>2
<1>2. CASE msg # <<>>
  <2>1. PICK r \in write(msg) :
         /\ fw' = r.f /\ disk' = r.d
         /\ failed' = IF r.ok THEN failed ELSE failed \cup Range(msg)
         /\ gone' = gone \cup (OnDisk(disk) \ OnDisk(r.d))
    BY <1>2 DEF Flush
  <2>2. /\ disk \in Disks /\ day \in Days /\ fw \in FileWriters /\ InStep(fw, disk) /\ msg \in Seq(Nat)
        /\ failed \subseteq Nat /\ gone \subseteq Nat /\ InOrder(disk)
        /\ MaxBackup >= 2 /\ MaxSize > 0 /\ fw.faults = 0 => Bounded(disk)
    BY DEF LogInv, LogTypeOK, Writable, DiskInOrder, FileSizeBounded
  <2>3. /\ r.f \in FileWriters /\ r.d \in Disks /\ InStep(r.f, r.d) /\ r.f.faults >= fw.faults
    BY <2>2, Written, Zenon
  <2>4. PICK e \in Disks :
              /\ Shifted(disk, e)
              /\ \A n \in Days, i \in Slots : n > day => e[n][i] = <<>>
              /\ \/ r.ok = FALSE /\ r.d = e
                 \/ /\ r.ok = TRUE /\ r.d = [e EXCEPT ![day][0] = @ \o msg]
                    /\ r.f.faults = 0 /\ MaxBackup >= 2 /\ MaxSize > 0 => Len(e[day][0]) < MaxSize
    BY <2>2, Written, Zenon
  <2>5. /\ InOrder(e)
        /\ \A v : Newer(v, disk) => Newer(v, e)
        /\ Bounded(disk) => Bounded(e)
    BY <2>2, <2>4, ShiftKeeps
  <2>6. r.f.faults = 0 => fw.faults = 0
    <3>1. fw.faults \in Nat
      BY <2>2 DEF FileWriters
    <3> QED
      BY <3>1, <2>3
  <2>7. Range(msg) \subseteq Nat
    BY <2>2 DEF Range
  <2>8. gone' \subseteq Nat /\ failed' \subseteq Nat /\ failed \subseteq failed'
    <3>1. failed' = failed \/ failed' = failed \cup Range(msg)
      BY <2>1
    <3> QED
      BY <3>1, <2>1, <2>2, <2>7, OnDiskNat, Zenon
  <2>9. OnDisk(disk) \cup gone \cup failed \subseteq OnDisk(disk') \cup gone' \cup failed'
    <3>1. OnDisk(disk') = OnDisk(r.d)
      BY <2>1
    <3> QED
      BY <3>1, <2>1, <2>8
  <2>10. CASE r.ok = FALSE /\ r.d = e
    <3>1. Range(msg) \subseteq failed'
      BY <2>1, <2>10
    <3>2. MaxBackup >= 2 /\ MaxSize > 0 /\ fw'.faults = 0 => Bounded(disk')
      BY <2>1, <2>2, <2>5, <2>6, <2>10
    <3>3. \A v : Newer(v, disk) => Newer(v, disk')
      BY <2>1, <2>5, <2>10
    <3> QED
      BY <3>1, <3>2, <3>3, <2>1, <2>3, <2>5, <2>8, <2>9, <2>10, Zenon DEF FilesKept
  <2>11. CASE /\ r.ok = TRUE /\ r.d = [e EXCEPT ![day][0] = @ \o msg]
              /\ r.f.faults = 0 /\ MaxBackup >= 2 /\ MaxSize > 0 => Len(e[day][0]) < MaxSize
    <3> DEFINE q == r.d
    <3>1. /\ InOrder(e) /\ (\A a \in DOMAIN msg : Newer(msg[a], e)) /\ (\A a, b \in DOMAIN msg : a < b => msg[a] < msg[b])
              => InOrder(q)
          /\ \A v : Newer(v, e) /\ (\A a \in DOMAIN msg : msg[a] < v) => Newer(v, q)
          /\ Bounded(e) /\ Len(e[day][0]) < MaxSize /\ Len(msg) <= Batch => Bounded(q)
          /\ Range(msg) \subseteq OnDisk(q)
      BY <2>2, <2>4, <2>11, AppendKeeps, Zenon
    <3>2. InOrder(q)
      BY <3>1, <2>5, Zenon DEF Writable
    <3>3. \A v : Newer(v, disk) /\ (\A a \in DOMAIN msg : msg[a] < v) => Newer(v, q)
      BY <3>1, <2>5, Zenon
    <3>4. MaxBackup >= 2 /\ MaxSize > 0 /\ fw'.faults = 0 => Bounded(disk')
      BY <2>1, <2>2, <2>5, <2>6, <2>11, <3>1, Zenon DEF Writable
    <3> QED
      BY <3>1, <3>2, <3>3, <3>4, <2>1, <2>3, <2>8, <2>9, Zenon DEF FilesKept
  <2> QED
    BY <2>4, <2>10, <2>11, Zenon
<1> QED
  BY <1>1, <1>2

\* The end of the loop: the records of msg are in the files, failed, or still gathered.
LEMMA GatheredKeeps ==
  ASSUME LogInv, NEW msg, Writable(msg), NEW n \in Nat, Len(msg) <= n, Gathered(n, msg)
  PROVE  /\ FilesKept(msg) /\ Range(msg) \subseteq OnDisk(disk') \cup failed' \cup Range(buff')
         /\ count' \in 0 .. Batch - 1 /\ Len(buff') <= count' /\ (buff' = <<>> \/ (buff' = msg /\ disk' = disk))
         /\ buff' \in Seq(Nat)
<1>0. Batch \in Nat \ {0} /\ msg \in Seq(Nat) /\ <<>> \in Seq(Nat)
  BY LogAssumption DEF Writable
<1>1. CASE n >= Batch
  <2>1. count' = 0 /\ buff' = <<>> /\ Flush(msg)
    BY <1>1 DEF Gathered
  <2>2. FilesKept(msg) /\ Range(msg) \subseteq OnDisk(disk') \cup failed'
    BY <2>1, Flushed
  <2> QED
    BY <2>1, <2>2, <1>0
<1>2. CASE ~(n >= Batch)
  <2>1. count' = n /\ buff' = msg /\ UNCHANGED <<fw, disk, failed, gone>>
    BY <1>2 DEF Gathered
  <2>2. FilesKept(msg)
    BY <2>1, Untouched
  <2> QED
    BY <2>1, <2>2, <1>0, <1>2
<1> QED
  BY <1>1, <1>2

\* Append and Tail, position by position.
LEMMA AppendFacts ==
  ASSUME NEW q \in Seq(Nat), NEW x \in Nat
  PROVE  /\ Append(q, x) \in Seq(Nat) /\ Len(Append(q, x)) = Len(q) + 1 /\ Len(q) \in Nat
         /\ DOMAIN q = 1 .. Len(q) /\ DOMAIN Append(q, x) = 1 .. Len(q) + 1
         /\ \A j \in 1 .. Len(q) : Append(q, x)[j] = q[j]
         /\ Append(q, x)[Len(q) + 1] = x
         /\ Range(q) \cup {x} \subseteq Range(Append(q, x))
<1> DEFINE p == Append(q, x)
<1>1. /\ p \in Seq(Nat) /\ Len(p) = Len(q) + 1 /\ Len(q) \in Nat
      /\ DOMAIN q = 1 .. Len(q) /\ DOMAIN p = 1 .. Len(q) + 1
      /\ \A j \in 1 .. Len(q) : p[j] = q[j]
      /\ p[Len(q) + 1] = x
  OBVIOUS
<1> HIDE DEF p
<1>2. Range(q) \subseteq Range(p)
  BY <1>1 DEF Range
<1>3. x \in Range(p)
  BY <1>1 DEF Range
<1> QED
  BY <1>1, <1>2, <1>3 DEF p
LEMMA TailFacts ==
  ASSUME NEW q \in Seq(Nat), q # <<>>
  PROVE  /\ Tail(q) \in Seq(Nat) /\ Len(Tail(q)) = Len(q) - 1 /\ Len(q) \in Nat /\ Len(q) >= 1 /\ Head(q) = q[1] /\ q[1] \in Nat
         /\ DOMAIN q = 1 .. Len(q) /\ DOMAIN Tail(q) = 1 .. Len(q) - 1
         /\ \A j \in 1 .. Len(q) - 1 : Tail(q)[j] = q[j + 1]
         /\ Range(q) \subseteq Range(Tail(q)) \cup {q[1]}
<1> DEFINE p == Tail(q)
<1>1. /\ p \in Seq(Nat) /\ Len(p) = Len(q) - 1 /\ Len(q) \in Nat /\ Len(q) >= 1 /\ Head(q) = q[1] /\ q[1] \in Nat
      /\ DOMAIN q = 1 .. Len(q) /\ DOMAIN p = 1 .. Len(q) - 1
      /\ \A j \in 1 .. Len(q) - 1 : p[j] = q[j + 1]
  OBVIOUS
<1> HIDE DEF p
<1>2. ASSUME NEW k \in 1 .. Len(q) PROVE q[k] \in Range(p) \cup {q[1]}
  <2>1. CASE k = 1
    BY <2>1
  <2>2. CASE k # 1
    <3>1. k - 1 \in 1 .. Len(q) - 1 /\ (k - 1) + 1 = k
      BY <2>2, <1>1
    <3>2. k - 1 \in DOMAIN p /\ p[k - 1] = q[k]
      BY <3>1, <1>1, Zenon
    <3> QED
      BY <3>2, Zenon DEF Range
  <2> QED
    BY <2>1, <2>2
<1>3. Range(q) \subseteq Range(p) \cup {q[1]}
  BY <1>1, <1>2 DEF Range
<1> QED
  BY <1>1, <1>3 DEF p

-----------------------------------------------------------------------------
\* The parts of the invariant that FilesKept states of the next state.
LEMMA FilesKeptFacts ==
  ASSUME NEW msg, FilesKept(msg), day' = day, skipped \subseteq skipped'
  PROVE  /\ InStep(fw, disk)' /\ DiskInOrder' /\ FileSizeBounded'
         /\ \A r : Left(r) => Left(r)'
<1>1. InStep(fw, disk)' /\ DiskInOrder' /\ FileSizeBounded'
  BY DEF FilesKept, InStep, DiskInOrder, FileSizeBounded
<1>2. ASSUME NEW r, Left(r) PROVE Left(r)'
  BY <1>2 DEF Left, FilesKept
<1> QED
  BY <1>1, <1>2

\* The initial state
LEMMA LogInitInv == LogInit => LogInv
<1> SUFFICES ASSUME LogInit PROVE LogInv
  OBVIOUS
<1> USE DEF LogInit
<1>1. LogTypeOK
  BY LogAssumption, ZeroIsASlot DEF LogTypeOK, FileWriters, NewFileWriter, Disks
<1>2. \A n \in Days, i \in Slots : disk[n][i] = <<>>
  OBVIOUS
<1>3. InStep(fw, disk)
  <2>1. fw.name = 1 /\ fw.file = "nil"
    BY DEF NewFileWriter
  <2> QED
    BY <2>1, <1>2 DEF InStep
<1>4. Newer(made + 1, disk) /\ DiskInOrder /\ FileSizeBounded
  BY <1>2, LogAssumption DEF Newer, DiskInOrder, InOrder, FileSizeBounded, Bounded
<1>5. OnTheirWay
  BY <1>4 DEF OnTheirWay
<1>6. Closing = {}
  BY DEF Closing
<1>7. Accounted
  BY <1>6 DEF Accounted
<1> QED
  BY <1>1, <1>3, <1>4, <1>5, <1>7 DEF LogInv

\* A step that does not touch the records.
LEMMA Aside ==
  ASSUME LogInv, UNCHANGED <<recv, wait, made, buff, count, disk, before, skipped, failed, gone>>,
         Closing' = Closing, \A c \in Closers : cpc'[c] = "done" => wait
  PROVE  OnTheirWay' /\ Accounted'
<1>1. OnTheirWay /\ Accounted
  BY DEF LogInv
<1>2. OnTheirWay'
  BY <1>1 DEF OnTheirWay, Newer
<1>3. \A r : (Left(r)' <=> Left(r)) /\ (Early(r)' <=> Early(r))
  BY DEF Left, Early, OnDisk
<1>4. Accounted'
  BY <1>1, <1>3 DEF Accounted
<1> QED
  BY <1>2, <1>4

\* A call of Debug, Info...
LEMMA intLogfKeeps == ASSUME LogInv, intLogf PROVE LogInv'
<1> DEFINE x == made + 1
           L == Len(recv)
<1>1. LogTypeOK /\ OnTheirWay /\ Accounted
  BY DEF LogInv
<1>2. recv \in Seq(Nat) /\ made \in Nat /\ x \in Nat /\ buff \in Seq(Nat)
  BY <1>1 DEF LogTypeOK
<1>3. /\ recv' = Append(recv, x) /\ made' = x /\ UNCHANGED <<clos, wait, buff, count, on, fw, disk, day, skipped, failed, gone, cpc, before, spc, sets>>
  BY DEF intLogf
<1>4. /\ recv' \in Seq(Nat) /\ Len(recv') = L + 1 /\ L \in Nat
      /\ DOMAIN recv = 1 .. L /\ DOMAIN recv' = 1 .. L + 1
      /\ \A j \in 1 .. L : recv'[j] = recv[j]
      /\ recv'[L + 1] = x
      /\ Range(recv) \cup {x} \subseteq Range(recv')
  BY <1>2, <1>3, AppendFacts
<1>5. LogTypeOK'
  <2>1. before' \in [Closers -> 0 .. made']
    BY <1>1, <1>2, <1>3 DEF LogTypeOK
  <2> QED
    BY <1>1, <1>2, <1>3, <1>4, <2>1 DEF LogTypeOK
<1>6. FilesKept(<<>>)
  BY <1>3, Untouched
<1>7. /\ InStep(fw, disk)' /\ DiskInOrder' /\ FileSizeBounded'
      /\ \A r : Left(r) => Left(r)'
  BY <1>6, <1>3, FilesKeptFacts
<1>8. OnTheirWay'
  <2>1. \A v : Newer(v, disk') <=> Newer(v, disk)
    BY <1>3
  <2>2. Newer(x, disk) /\ Newer(x + 1, disk)
    <3>1. Newer(x, disk)
      BY <1>1 DEF OnTheirWay
    <3>2. disk \in Disks
      BY <1>1 DEF LogTypeOK
    <3>3. ASSUME NEW n \in Days, NEW i \in Slots, NEW a \in DOMAIN disk[n][i] PROVE disk[n][i][a] < x + 1
      <4>1. disk[n][i] \in Seq(Nat)
        BY <3>2 DEF Disks
      <4>2. disk[n][i][a] < x /\ disk[n][i][a] \in Nat
        BY <3>1, <4>1 DEF Newer
      <4> QED
        BY <4>2, <1>2
    <3> QED
      BY <3>1, <3>3 DEF Newer
  <2>3. \A a \in DOMAIN buff : buff[a] < x /\ buff[a] <= x
    BY <1>1, <1>2 DEF OnTheirWay
  <2>4. \A j \in 1 .. L : recv[j] < x /\ recv[j] <= x
    <3>1. \A j \in 1 .. L : recv[j] \in Nat
      BY <1>2
    <3>2. \A j \in 1 .. L : recv[j] <= made
      BY <1>1, <1>4, Zenon DEF OnTheirWay
    <3> QED
      BY <3>1, <3>2, <1>2
  <2> HIDE DEF x, L
  <2>5. \A j \in DOMAIN recv' : recv'[j] <= x
    BY <1>2, <1>4, <2>4, SMTT(60)
  <2>6. ASSUME NEW k \in DOMAIN recv', recv'[k] # 0
        PROVE  /\ Newer(recv'[k], disk) /\ \A a \in DOMAIN buff : buff[a] < recv'[k]
               /\ \A j \in DOMAIN recv' : j < k => recv'[j] < recv'[k]
    <3>1. CASE k \in 1 .. L
      <4>1. \A j \in DOMAIN recv' : j < k => j \in 1 .. L
        BY <3>1, <1>4
      <4> QED
        BY <3>1, <4>1, <2>6, <1>1, <1>4 DEF OnTheirWay
    <3>2. CASE k = L + 1
      <4>1. \A j \in DOMAIN recv' : j < k => j \in 1 .. L
        BY <3>2, <1>4
      <4> QED
        BY <3>2, <4>1, <2>2, <2>3, <2>4, <1>4
    <3> QED
      BY <3>1, <3>2, <1>4
  <2>7. Newer(made' + 1, disk') /\ Len(buff') <= count'
    BY <2>1, <2>2, <1>3, <1>1 DEF OnTheirWay
  <2>8. \A a \in DOMAIN buff' : Newer(buff'[a], disk') /\ buff'[a] <= made'
    BY <2>1, <2>3, <1>3, <1>1 DEF OnTheirWay
  <2>9. \A a, b \in DOMAIN buff' : a < b => buff'[a] < buff'[b]
    BY <1>3, <1>1 DEF OnTheirWay
  <2>10. \A k \in DOMAIN recv' : recv'[k] # 0 =>
           /\ Newer(recv'[k], disk') /\ \A a \in DOMAIN buff' : buff'[a] < recv'[k]
           /\ \A j \in DOMAIN recv' : j < k => recv'[j] < recv'[k]
    BY <2>1, <2>6, <1>3
  <2> QED
    BY <2>5, <2>7, <2>8, <2>9, <2>10, <1>3, Zenon DEF OnTheirWay
<1>9. Accounted'
  <2>1. Closing' = Closing /\ \A r : Early(r)' <=> Early(r)
    BY <1>3 DEF Closing, Early
  <2>2. Closing # {} => ~Early(x)
    BY <1>1, <1>2 DEF Early, Closing, LogTypeOK
  <2> HIDE DEF x, L
  <2>3. \A r \in 1 .. made' : Left(r)' \/ r \in Range(buff') \/ r \in Range(recv')
    <3>1. \A r \in 1 .. x : r \in 1 .. made \/ r = x
      BY <1>2 DEF x
    <3> QED
      BY <3>1, <1>1, <1>3, <1>4, <1>7 DEF Accounted
  <2>4. x # 0
    BY <1>2 DEF x
  <2>5. (wait' \/ \E k \in DOMAIN recv' : recv'[k] = 0) => Closing # {}
    <3>1. \A k \in DOMAIN recv' : recv'[k] = 0 => k \in DOMAIN recv /\ recv[k] = 0
      BY <2>4, <1>4
    <3> QED
      BY <3>1, <1>1, <1>3 DEF Accounted
  <2>6. ASSUME Closing # {}, ~wait
        PROVE  \E k \in DOMAIN recv' : /\ recv'[k] = 0 /\ \A j \in DOMAIN recv' : j < k => recv'[j] # 0
                                       /\ \A j \in DOMAIN recv' : j > k /\ recv'[j] # 0 => ~Early(recv'[j])
    <3>1. PICK k \in DOMAIN recv : /\ recv[k] = 0 /\ \A j \in DOMAIN recv : j < k => recv[j] # 0
                                   /\ \A j \in DOMAIN recv : j > k /\ recv[j] # 0 => ~Early(recv[j])
      BY <2>6, <1>1 DEF Accounted
    <3>2. k \in DOMAIN recv' /\ recv'[k] = 0
      BY <3>1, <1>4
    <3>3. \A j \in DOMAIN recv' : j < k => recv'[j] # 0
      BY <3>1, <1>4
    <3>4. ASSUME NEW j \in DOMAIN recv', j > k, recv'[j] # 0 PROVE ~Early(recv'[j])
      BY <3>4, <3>1, <1>4, <2>2, <2>6
    <3> QED
      BY <3>2, <3>3, <3>4, Zenon
  <2>7. wait => buff = <<>> /\ \A j \in DOMAIN recv' : recv'[j] # 0 => ~Early(recv'[j])
    <3> SUFFICES ASSUME wait, NEW j \in DOMAIN recv', recv'[j] # 0 PROVE ~Early(recv'[j])
      BY <1>1 DEF Accounted
    <3>1. Closing # {}
      BY <1>1 DEF Accounted
    <3> QED
      BY <3>1, <2>2, <1>1, <1>4 DEF Accounted
  <2>8. (\E c \in Closers : cpc'[c] = "done") => wait
    BY <1>1, <1>3 DEF Accounted
  <2>9. \A j : Early(recv[j])' <=> Early(recv'[j])
    BY <1>3 DEF Early, Closing
  <2> QED
    BY <2>1, <2>3, <2>5, <2>6, <2>7, <2>8, <2>9, <1>3 DEF Accounted
<1> QED
  BY <1>5, <1>7, <1>8, <1>9 DEF LogInv

-----------------------------------------------------------------------------
\* The channel q behind the gathered records msg.
Behind(q, msg) ==
  /\ q \in Seq(Nat)
  /\ \A a \in DOMAIN msg : msg[a] <= made
  /\ \A j \in DOMAIN q : q[j] <= made
  /\ \A k \in DOMAIN q : q[k] # 0 =>
       /\ Newer(q[k], disk) /\ \A a \in DOMAIN msg : msg[a] < q[k]
       /\ \A j \in DOMAIN q : j < k => q[j] < q[k]

\* What is gathered may be written, and so may what is gathered with the next record.
LEMMA GatheredWritable ==
  ASSUME LogInv
  PROVE  /\ Writable(buff) /\ Behind(recv, buff) /\ Len(buff) <= count /\ count \in 0 .. Batch - 1 /\ Batch \in Nat
         /\ recv # <<>> => Behind(Tail(recv), buff)
         /\ recv # <<>> /\ Head(recv) # 0 =>
              /\ Writable(Append(buff, Head(recv))) /\ Behind(Tail(recv), Append(buff, Head(recv)))
              /\ Len(Append(buff, Head(recv))) <= count + 1
              /\ Range(buff) \cup {Head(recv)} \subseteq Range(Append(buff, Head(recv)))
<1>1. /\ recv \in Seq(Nat) /\ made \in Nat /\ buff \in Seq(Nat) /\ count \in 0 .. Batch - 1 /\ Batch \in Nat \ {0} /\ OnTheirWay
      /\ Len(buff) \in Nat
  BY LogAssumption DEF LogInv, LogTypeOK
<1>2. Writable(buff) /\ Behind(recv, buff) /\ Len(buff) <= count
  BY <1>1 DEF OnTheirWay, Writable, Behind
<1>3. ASSUME recv # <<>> PROVE Behind(Tail(recv), buff)
  <2> DEFINE t == Tail(recv)
             L == Len(recv)
  <2>1. /\ t \in Seq(Nat) /\ L \in Nat /\ DOMAIN recv = 1 .. L /\ DOMAIN t = 1 .. L - 1
        /\ \A j \in 1 .. L - 1 : t[j] = recv[j + 1]
    BY <1>3, <1>1, TailFacts
  <2> HIDE DEF t, L
  <2>2. \A j \in DOMAIN t : j + 1 \in DOMAIN recv /\ t[j] = recv[j + 1] /\ (\A k \in DOMAIN t : j < k => j + 1 < k + 1)
    <3>1. \A j \in 1 .. L - 1 : j + 1 \in 1 .. L /\ \A k \in 1 .. L - 1 : j < k => j + 1 < k + 1
      BY <2>1
    <3> QED
      BY <3>1, <2>1, Zenon
  <2>3. \A k \in DOMAIN t : t[k] # 0 =>
       /\ Newer(t[k], disk) /\ \A a \in DOMAIN buff : buff[a] < t[k]
       /\ \A j \in DOMAIN t : j < k => t[j] < t[k]
    <3> SUFFICES ASSUME NEW k \in DOMAIN t, t[k] # 0
                 PROVE  /\ Newer(t[k], disk) /\ \A a \in DOMAIN buff : buff[a] < t[k]
                        /\ \A j \in DOMAIN t : j < k => t[j] < t[k]
      OBVIOUS
    <3>1. /\ Newer(recv[k + 1], disk) /\ \A a \in DOMAIN buff : buff[a] < recv[k + 1]
          /\ \A j \in DOMAIN recv : j < k + 1 => recv[j] < recv[k + 1]
      BY <2>2, <1>2 DEF Behind
    <3> QED
      BY <3>1, <2>2
  <2>4. \A j \in DOMAIN t : t[j] <= made
    BY <2>2, <1>2 DEF Behind
  <2> QED
    BY <2>1, <2>3, <2>4, <1>2, Zenon DEF Behind, t
<1>4. ASSUME recv # <<>>, Head(recv) # 0
      PROVE  /\ Writable(Append(buff, Head(recv))) /\ Behind(Tail(recv), Append(buff, Head(recv)))
             /\ Len(Append(buff, Head(recv))) <= count + 1
             /\ Range(buff) \cup {Head(recv)} \subseteq Range(Append(buff, Head(recv)))
  <2> DEFINE t == Tail(recv)
             L == Len(recv)
             x == recv[1]
             m == Append(buff, x)
             M == Len(buff)
  <2>1. /\ t \in Seq(Nat) /\ L \in Nat /\ L >= 1 /\ DOMAIN recv = 1 .. L /\ DOMAIN t = 1 .. L - 1 /\ Head(recv) = x /\ x \in Nat
        /\ \A j \in 1 .. L - 1 : t[j] = recv[j + 1]
    BY <1>4, <1>1, TailFacts
  <2>2. /\ m \in Seq(Nat) /\ Len(m) = M + 1 /\ M \in Nat
        /\ DOMAIN buff = 1 .. M /\ DOMAIN m = 1 .. M + 1
        /\ \A j \in 1 .. M : m[j] = buff[j]
        /\ m[M + 1] = x
        /\ Range(buff) \cup {x} \subseteq Range(m)
    BY <2>1, <1>1, AppendFacts
  <2>3. /\ x # 0 /\ 1 \in DOMAIN recv
    BY <1>4, <2>1
  <2>4. x <= made /\ Newer(x, disk) /\ \A a \in 1 .. M : buff[a] < x
    BY <2>3, <2>2, <1>2, Zenon DEF Behind
  <2>5. Len(m) <= count + 1 /\ Len(m) <= Batch
    BY <2>2, <1>1, <1>2
  <2>6. \A a \in DOMAIN m : (a \in 1 .. M /\ m[a] = buff[a]) \/ (a = M + 1 /\ m[a] = x)
    <3> HIDE DEF m, M, x
    <3>1. \A a \in 1 .. M + 1 : a \in 1 .. M \/ a = M + 1
      BY <2>2
    <3> QED
      BY <3>1, <2>2, Zenon
  <2>7. Writable(m)
    <3> HIDE DEF m, M, x
    <3>1. \A a \in DOMAIN m : Newer(m[a], disk)
      BY <2>2, <2>4, <2>6, <1>2 DEF Writable
    <3>2. ASSUME NEW a \in DOMAIN m, NEW b \in DOMAIN m, a < b PROVE m[a] < m[b]
      <4>1. a \in 1 .. M
        BY <3>2, <2>2
      <4>2. CASE b \in 1 .. M
        BY <4>1, <4>2, <3>2, <2>2, <1>2 DEF Writable
      <4>3. CASE b = M + 1
        BY <4>1, <4>3, <2>2, <2>4
      <4> QED
        BY <4>2, <4>3, <2>2
    <3> QED
      BY <3>1, <3>2, <2>2, <2>5, Zenon DEF Writable
  <2>8. Behind(t, m)
    <3> HIDE DEF m, M, t, L
    <3>1. Behind(t, buff)
      BY <1>3, <1>4 DEF t
    <3>2. \A a \in DOMAIN m : m[a] <= made
      BY <2>2, <2>4, <2>6, <1>2 DEF Behind
    <3>3. ASSUME NEW k \in DOMAIN t, t[k] # 0 PROVE x < t[k]
      <4>1. k + 1 \in DOMAIN recv /\ recv[k + 1] = t[k] /\ 1 < k + 1
        BY <2>1, SMTT(60)
      <4> QED
        BY <4>1, <3>3, <2>3, <1>2 DEF Behind
    <3>4. \A k \in DOMAIN t : t[k] # 0 => \A a \in DOMAIN m : m[a] < t[k]
      BY <3>1, <3>3, <2>2, <2>6, Zenon DEF Behind
    <3> QED
      BY <3>1, <3>2, <3>4, Zenon DEF Behind
  <2> QED
    BY <2>1, <2>2, <2>5, <2>7, <2>8
<1> QED
  BY <1>1, <1>2, <1>3, <1>4

\* The writing goroutine keeps the records in their order.
LEMMA WayKept ==
  ASSUME LogInv, NEW msg, FilesKept(msg), Behind(recv', msg), Writable(msg), made' = made, Len(buff') <= count',
         buff' = <<>> \/ (buff' = msg /\ disk' = disk)
  PROVE  OnTheirWay'
<1>1. \A v : Newer(v, disk) /\ (\A a \in DOMAIN msg : msg[a] < v) => Newer(v, disk')
  BY DEF FilesKept
<1>2. made \in Nat /\ msg \in Seq(Nat) /\ Newer(made + 1, disk)
  BY DEF LogInv, LogTypeOK, OnTheirWay, Writable
<1>3. \A a \in DOMAIN msg : msg[a] < made + 1
  BY <1>2 DEF Behind
<1>4. Newer(made' + 1, disk')
  BY <1>1, <1>2, <1>3
<1>5. \A a \in DOMAIN buff' : Newer(buff'[a], disk') /\ buff'[a] <= made'
  BY DEF Behind, Writable
<1>6. \A a, b \in DOMAIN buff' : a < b => buff'[a] < buff'[b]
  BY DEF Writable
<1>7. \A k \in DOMAIN recv' : recv'[k] # 0 =>
       /\ Newer(recv'[k], disk') /\ \A a \in DOMAIN buff' : buff'[a] < recv'[k]
       /\ \A j \in DOMAIN recv' : j < k => recv'[j] < recv'[k]
  BY <1>1 DEF Behind
<1>8. \A j \in DOMAIN recv' : recv'[j] <= made'
  BY DEF Behind
<1> QED
  BY <1>4, <1>5, <1>6, <1>7, <1>8, Zenon DEF OnTheirWay

\* case <-tk.C
LEMMA TickKeeps == ASSUME LogInv, Tick PROVE LogInv'
<1>1. LogTypeOK /\ Accounted
  BY DEF LogInv
<1>2. /\ Gathered(Batch, buff) /\ ~wait /\ UNCHANGED <<recv, clos, wait, made, on, day, skipped, cpc, before, spc, sets>>
  BY DEF Tick
<1>3. Writable(buff) /\ Behind(recv, buff) /\ Len(buff) <= Batch /\ Batch \in Nat
  BY GatheredWritable DEF Writable
<1>4. /\ FilesKept(buff) /\ Range(buff) \subseteq OnDisk(disk') \cup failed' \cup Range(buff')
      /\ count' \in 0 .. Batch - 1 /\ Len(buff') <= count' /\ (buff' = <<>> \/ (buff' = buff /\ disk' = disk))
      /\ buff' \in Seq(Nat)
  BY <1>2, <1>3, GatheredKeeps
<1>5. LogTypeOK'
  BY <1>1, <1>2, <1>4 DEF LogTypeOK, FilesKept
<1>6. /\ InStep(fw, disk)' /\ DiskInOrder' /\ FileSizeBounded'
      /\ \A r : Left(r) => Left(r)'
  BY <1>4, <1>2, FilesKeptFacts
<1>7. OnTheirWay'
  <2>1. Behind(recv', buff)
    BY <1>2, <1>3
  <2> QED
    BY <2>1, <1>2, <1>3, <1>4, WayKept
<1>8. Accounted'
  <2>1. Closing' = Closing /\ \A r : Early(r)' <=> Early(r)
    BY <1>2 DEF Closing, Early
  <2>2. ASSUME NEW r \in Range(buff) PROVE Left(r)' \/ r \in Range(buff')
    BY <1>4 DEF Left
  <2>3. \A r \in 1 .. made' : Left(r)' \/ r \in Range(buff') \/ r \in Range(recv')
    BY <2>2, <1>1, <1>2, <1>6, Zenon DEF Accounted
  <2> QED
    BY <2>1, <2>3, <1>1, <1>2 DEF Accounted
<1> QED
  BY <1>5, <1>6, <1>7, <1>8 DEF LogInv

\* case rec := <-log.recv
LEMMA TakeRecordKeeps == ASSUME LogInv, TakeRecord PROVE LogInv'
<1> DEFINE x == Head(recv)
           msg == IF on THEN Append(buff, x) ELSE buff
           L == Len(recv)
<1>1. LogTypeOK /\ Accounted
  BY DEF LogInv
<1>2. /\ recv # <<>> /\ x # 0 /\ recv' = Tail(recv) /\ skipped' = (IF on THEN skipped ELSE skipped \cup {x})
      /\ Gathered(count + 1, msg) /\ ~wait /\ UNCHANGED <<clos, wait, made, on, day, cpc, before, spc, sets>>
  BY DEF TakeRecord
<1>3. /\ Writable(buff) /\ Behind(Tail(recv), buff) /\ Len(buff) <= count /\ count \in 0 .. Batch - 1 /\ Batch \in Nat
      /\ Writable(Append(buff, x)) /\ Behind(Tail(recv), Append(buff, x))
      /\ Len(Append(buff, x)) <= count + 1
      /\ Range(buff) \cup {x} \subseteq Range(Append(buff, x))
  BY <1>2, GatheredWritable
<1>4. buff \in Seq(Nat) /\ recv \in Seq(Nat) /\ Len(buff) \in Nat /\ on \in BOOLEAN /\ skipped \subseteq Nat
  BY <1>1 DEF LogTypeOK
<1>5. /\ L \in Nat /\ L >= 1 /\ DOMAIN recv = 1 .. L /\ DOMAIN recv' = 1 .. L - 1 /\ x = recv[1] /\ x \in Nat
      /\ \A j \in 1 .. L - 1 : recv'[j] = recv[j + 1]
      /\ Range(recv) \subseteq Range(recv') \cup {x} /\ recv' \in Seq(Nat)
  BY <1>2, <1>4, TailFacts
<1> HIDE DEF x
<1>6. /\ Writable(msg) /\ Behind(recv', msg) /\ Len(msg) <= count + 1 /\ count + 1 \in Nat
      /\ Range(buff) \subseteq Range(msg) /\ x \in Range(msg) \cup skipped'
      /\ skipped' \subseteq Nat /\ skipped \subseteq skipped'
  <2>1. CASE on
    <3>1. msg = Append(buff, x) /\ skipped' = skipped
      BY <2>1, <1>2
    <3> QED
      BY <3>1, <1>2, <1>3, <1>4, SMTT(60)
  <2>2. CASE ~on
    <3>1. msg = buff /\ skipped' = skipped \cup {x}
      BY <2>2, <1>2
    <3>2. Len(buff) <= count + 1 /\ count + 1 \in Nat
      BY <1>3, <1>4
    <3> QED
      BY <3>1, <3>2, <1>2, <1>3, <1>4, <1>5, Zenon
  <2> QED
    BY <2>1, <2>2
<1> HIDE DEF msg, L
<1>7. /\ FilesKept(msg) /\ Range(msg) \subseteq OnDisk(disk') \cup failed' \cup Range(buff')
      /\ count' \in 0 .. Batch - 1 /\ Len(buff') <= count' /\ (buff' = <<>> \/ (buff' = msg /\ disk' = disk))
      /\ buff' \in Seq(Nat)
  BY <1>2, <1>6, GatheredKeeps
<1>8. LogTypeOK'
  BY <1>1, <1>2, <1>5, <1>6, <1>7, Zenon DEF LogTypeOK, FilesKept
<1>9. /\ InStep(fw, disk)' /\ DiskInOrder' /\ FileSizeBounded'
      /\ \A r : Left(r) => Left(r)'
  BY <1>7, <1>6, <1>2, FilesKeptFacts
<1>10. OnTheirWay'
  BY <1>2, <1>6, <1>7, WayKept
<1>11. Accounted'
  <2>1. Closing' = Closing /\ \A r : Early(r)' <=> Early(r)
    BY <1>2 DEF Closing, Early
  <2>2. ASSUME NEW r \in Range(buff) \cup {x} PROVE Left(r)' \/ r \in Range(buff')
    BY <1>6, <1>7 DEF Left
  <2>3. ASSUME NEW r \in 1 .. made' PROVE Left(r)' \/ r \in Range(buff') \/ r \in Range(recv')
    <3>1. Left(r) \/ r \in Range(buff) \/ r \in Range(recv)
      BY <1>1, <1>2 DEF Accounted
    <3> QED
      BY <3>1, <2>2, <1>5, <1>9
  <2>4. ASSUME NEW k \in DOMAIN recv' PROVE k + 1 \in DOMAIN recv /\ recv'[k] = recv[k + 1]
    BY <1>5, SMTT(60)
  <2>5. (wait' \/ \E k \in DOMAIN recv' : recv'[k] = 0) => Closing # {}
    BY <2>4, <1>1, <1>2 DEF Accounted
  <2>6. ASSUME Closing # {}
        PROVE  \E k \in DOMAIN recv' : /\ recv'[k] = 0 /\ \A j \in DOMAIN recv' : j < k => recv'[j] # 0
                                       /\ \A j \in DOMAIN recv' : j > k /\ recv'[j] # 0 => ~Early(recv'[j])
    <3>1. PICK k \in DOMAIN recv : /\ recv[k] = 0 /\ \A j \in DOMAIN recv : j < k => recv[j] # 0
                                   /\ \A j \in DOMAIN recv : j > k /\ recv[j] # 0 => ~Early(recv[j])
      BY <2>6, <1>1, <1>2 DEF Accounted
    <3>2. k - 1 \in DOMAIN recv' /\ recv'[k - 1] = 0
      BY <3>1, <1>2, <1>5
    <3>3. ASSUME NEW j \in DOMAIN recv' PROVE (j < k - 1 => j + 1 < k) /\ (j > k - 1 => j + 1 > k)
      BY <1>5, SMTT(60)
    <3>4. \A j \in DOMAIN recv' : j < k - 1 => recv'[j] # 0
      BY <3>1, <3>3, <2>4
    <3>5. \A j \in DOMAIN recv' : j > k - 1 /\ recv'[j] # 0 => ~Early(recv'[j])
      BY <3>1, <3>3, <2>4
    <3> QED
      BY <3>2, <3>4, <3>5, Zenon
  <2>8. \A c \in Closers : cpc'[c] # "done"
    BY <1>1, <1>2 DEF Accounted
  <2>9. \A j : Early(recv[j])' <=> Early(recv'[j])
    BY <1>2 DEF Early, Closing
  <2> QED
    BY <2>1, <2>3, <2>5, <2>6, <2>8, <2>9, <1>2 DEF Accounted
<1> QED
  BY <1>8, <1>9, <1>10, <1>11 DEF LogInv

\* The record of Close
LEMMA TakeCloseKeeps == ASSUME LogInv, TakeClose PROVE LogInv'
<1> DEFINE L == Len(recv)
<1>1. LogTypeOK /\ Accounted
  BY DEF LogInv
<1>2. /\ recv # <<>> /\ Head(recv) = 0 /\ recv' = Tail(recv) /\ ~wait /\ wait' = TRUE /\ buff' = <<>> /\ Flush(buff)
      /\ UNCHANGED <<clos, made, count, on, day, skipped, cpc, before, spc, sets>>
  BY DEF TakeClose
<1>3. /\ Writable(buff) /\ Behind(recv', buff) /\ Len(buff) <= count /\ count \in 0 .. Batch - 1 /\ Batch \in Nat
  BY <1>2, GatheredWritable
<1>4. recv \in Seq(Nat)
  BY <1>1 DEF LogTypeOK
<1>5. /\ L \in Nat /\ L >= 1 /\ DOMAIN recv = 1 .. L /\ DOMAIN recv' = 1 .. L - 1 /\ recv[1] = 0
      /\ \A j \in 1 .. L - 1 : recv'[j] = recv[j + 1]
      /\ Range(recv) \subseteq Range(recv') \cup {0} /\ recv' \in Seq(Nat)
  BY <1>2, <1>4, TailFacts
<1> HIDE DEF L
<1>7. FilesKept(buff) /\ Range(buff) \subseteq OnDisk(disk') \cup failed'
  BY <1>2, <1>3, Flushed
<1>8. LogTypeOK'
  <2>1. <<>> \in Seq(Nat) /\ TRUE \in BOOLEAN
    OBVIOUS
  <2> QED
    BY <2>1, <1>1, <1>2, <1>5, <1>7, Zenon DEF LogTypeOK, FilesKept
<1>9. /\ InStep(fw, disk)' /\ DiskInOrder' /\ FileSizeBounded'
      /\ \A r : Left(r) => Left(r)'
  BY <1>7, <1>2, FilesKeptFacts
<1>10. OnTheirWay'
  <2>1. Len(buff') <= count'
    BY <1>2, <1>3
  <2> QED
    BY <2>1, <1>2, <1>3, <1>7, WayKept
<1>11. Accounted'
  <2>1. Closing' = Closing /\ \A r : Early(r)' <=> Early(r)
    BY <1>2 DEF Closing, Early
  <2>2. ASSUME NEW r \in Range(buff) PROVE Left(r)'
    BY <1>7 DEF Left
  <2>3. ASSUME NEW r \in 1 .. made' PROVE Left(r)' \/ r \in Range(recv')
    <3>1. Left(r) \/ r \in Range(buff) \/ r \in Range(recv)
      BY <1>1, <1>2 DEF Accounted
    <3>2. r # 0
      BY <1>1, <1>2 DEF LogTypeOK
    <3> QED
      BY <3>1, <3>2, <2>2, <1>5, <1>9
  <2>4. 1 \in DOMAIN recv /\ Closing # {}
    BY <1>1, <1>5 DEF Accounted
  <2>5. PICK k \in DOMAIN recv : /\ recv[k] = 0 /\ \A j \in DOMAIN recv : j < k => recv[j] # 0
                                 /\ \A j \in DOMAIN recv : j > k /\ recv[j] # 0 => ~Early(recv[j])
    BY <2>4, <1>1, <1>2 DEF Accounted
  <2>6. k = 1
    <3>1. k \in Nat /\ k >= 1 /\ ~(1 < k)
      BY <2>4, <2>5, <1>5, SMTT(60)
    <3> QED
      BY <3>1
  <2>7. ASSUME NEW j \in DOMAIN recv', recv'[j] # 0 PROVE ~Early(recv'[j])
    <3>1. j + 1 \in DOMAIN recv /\ j + 1 > 1 /\ recv'[j] = recv[j + 1]
      BY <1>5, SMTT(60)
    <3> QED
      BY <3>1, <2>5, <2>6, <2>7
  <2>9. \A j : Early(recv[j])' <=> Early(recv'[j])
    BY <1>2 DEF Early, Closing
  <2> QED
    BY <2>1, <2>3, <2>4, <2>7, <2>9, <1>2 DEF Accounted
<1> QED
  BY <1>8, <1>9, <1>10, <1>11 DEF LogInv

-----------------------------------------------------------------------------
\* log.recv <- rec of Close
LEMMA CloseSendKeeps == ASSUME LogInv, NEW c \in Closers, CloseSend(c) PROVE LogInv'
<1> DEFINE L == Len(recv)
<1>1. LogTypeOK /\ OnTheirWay /\ Accounted
  BY DEF LogInv
<1>2. /\ cpc[c] = "send" /\ cpc' = [cpc EXCEPT ![c] = "check"] /\ recv' = Append(recv, 0) /\ before' = [before EXCEPT ![c] = made]
      /\ UNCHANGED <<clos, wait, made, buff, count, on, fw, disk, day, skipped, failed, gone, spc, sets>>
  BY DEF CloseSend, Goto
<1>3. recv \in Seq(Nat) /\ made \in Nat /\ buff \in Seq(Nat) /\ cpc \in [Closers -> {"idle", "send", "check", "close", "wait", "done", "returned", "panic"}] /\ before \in [Closers -> 0 .. made]
  BY <1>1 DEF LogTypeOK
<1>4. /\ recv' \in Seq(Nat) /\ Len(recv') = L + 1 /\ L \in Nat
      /\ DOMAIN recv = 1 .. L /\ DOMAIN recv' = 1 .. L + 1
      /\ \A j \in 1 .. L : recv'[j] = recv[j]
      /\ recv'[L + 1] = 0
      /\ Range(recv) \subseteq Range(recv')
  <2>1. 0 \in Nat
    OBVIOUS
  <2>2. Range(recv) \cup {0} \subseteq Range(recv')
    BY <2>1, <1>2, <1>3, AppendFacts, Zenon
  <2> QED
    BY <2>1, <2>2, <1>2, <1>3, AppendFacts
<1> HIDE DEF L
<1>5. LogTypeOK'
  <2>1. before' \in [Closers -> 0 .. made']
    BY <1>2, <1>3
  <2>2. cpc' \in [Closers -> {"idle", "send", "check", "close", "wait", "done", "returned", "panic"}]
    BY <1>1, <1>2 DEF LogTypeOK
  <2> QED
    BY <1>1, <1>2, <1>4, <2>1, <2>2 DEF LogTypeOK
<1>6. FilesKept(<<>>)
  BY <1>2, Untouched
<1>7. /\ InStep(fw, disk)' /\ DiskInOrder' /\ FileSizeBounded'
      /\ \A r : Left(r) => Left(r)'
  BY <1>6, <1>2, FilesKeptFacts
<1>8. \A j \in DOMAIN recv' : (j \in DOMAIN recv /\ recv'[j] = recv[j]) \/ (j = L + 1 /\ recv'[j] = 0)
  <2>1. \A j \in 1 .. L + 1 : j \in 1 .. L \/ j = L + 1
    BY <1>4
  <2> QED
    BY <2>1, <1>4, Zenon
<1>9. OnTheirWay'
  <2>1. \A j \in DOMAIN recv' : recv'[j] <= made
    <3>1. 0 <= made
      BY <1>3
    <3> QED
      BY <3>1, <1>8, <1>1, Zenon DEF OnTheirWay
  <2>2. ASSUME NEW k \in DOMAIN recv', recv'[k] # 0
        PROVE  /\ Newer(recv'[k], disk) /\ \A a \in DOMAIN buff : buff[a] < recv'[k]
               /\ \A j \in DOMAIN recv' : j < k => recv'[j] < recv'[k]
    <3>1. k \in DOMAIN recv /\ recv'[k] = recv[k]
      BY <2>2, <1>8
    <3>2. \A j \in DOMAIN recv' : j < k => j \in DOMAIN recv
      BY <3>1, <1>4
    <3> QED
      BY <3>1, <3>2, <2>2, <1>8, <1>1, <1>4 DEF OnTheirWay
  <2> QED
    BY <2>1, <2>2, <1>1, <1>2, Zenon DEF OnTheirWay
<1>10. Accounted'
  <2>1. Closing' = Closing \cup {c} /\ c \notin Closing /\ Closing \subseteq Closers
    BY <1>2, <1>3 DEF Closing
  <2>2. \A d \in Closing : before'[d] = before[d]
    BY <2>1, <1>2, <1>3
  <2>3. \A r : Early(r)' => Early(r)
    BY <2>1, <2>2 DEF Early
  <2>4. \A j : Early(recv[j])' => Early(recv'[j])
    BY <2>1, <2>2 DEF Early
  <2>5. \A r \in 1 .. made' : Left(r)' \/ r \in Range(buff') \/ r \in Range(recv')
    BY <1>1, <1>2, <1>4, <1>7 DEF Accounted
  <2>6. ASSUME ~wait
        PROVE  \E k \in DOMAIN recv' : /\ recv'[k] = 0 /\ \A j \in DOMAIN recv' : j < k => recv'[j] # 0
                                       /\ \A j \in DOMAIN recv' : j > k /\ recv'[j] # 0 => ~Early(recv'[j])
    <3>1. CASE Closing = {}
      <4>1. \A j \in DOMAIN recv : recv[j] # 0
        BY <3>1, <1>1 DEF Accounted
      <4>2. \A j \in DOMAIN recv' : j < L + 1 => recv'[j] # 0
        BY <4>1, <1>4
      <4>3. \A j \in DOMAIN recv' : ~(j > L + 1)
        BY <1>4
      <4>4. L + 1 \in DOMAIN recv'
        BY <1>4
      <4> QED
        BY <4>2, <4>3, <4>4, <1>4, Zenon
    <3>2. CASE Closing # {}
      <4>1. PICK k \in DOMAIN recv : /\ recv[k] = 0 /\ \A j \in DOMAIN recv : j < k => recv[j] # 0
                                     /\ \A j \in DOMAIN recv : j > k /\ recv[j] # 0 => ~Early(recv[j])
        BY <3>2, <2>6, <1>1 DEF Accounted
      <4>2. k \in DOMAIN recv' /\ recv'[k] = 0
        BY <4>1, <1>4
      <4>3. \A j \in DOMAIN recv' : j < k => recv'[j] # 0
        BY <4>1, <1>4
      <4>4. \A j \in DOMAIN recv' : j > k /\ recv'[j] # 0 => ~Early(recv'[j])
        BY <4>1, <1>8
      <4> QED
        BY <4>2, <4>3, <4>4, Zenon
    <3> QED
      BY <3>1, <3>2
  <2>7. wait => buff = <<>> /\ \A j \in DOMAIN recv' : recv'[j] # 0 => ~Early(recv'[j])
    BY <1>1, <1>8 DEF Accounted
  <2>8. (\E d \in Closers : cpc'[d] = "done") => wait
    BY <1>1, <1>2, <1>3 DEF Accounted
  <2>9. Closing' # {}
    BY <2>1
  <2> QED
    BY <2>4, <2>5, <2>6, <2>7, <2>8, <2>9, <1>2 DEF Accounted
<1> QED
  BY <1>5, <1>7, <1>9, <1>10 DEF LogInv

\* The other steps of Close
LEMMA CloseKeeps ==
  ASSUME LogInv, NEW c \in Closers, CloseCall(c) \/ CloseCheck(c) \/ CloseClos(c) \/ CloseWait(c)
  PROVE  LogInv'
<1>1. LogTypeOK /\ Accounted /\ InStep(fw, disk)
  BY DEF LogInv
<1>2. UNCHANGED <<recv, wait, made, buff, count, on, disk, day, skipped, failed, gone, before, spc, sets>>
  BY DEF CloseCall, CloseCheck, CloseClos, CloseWait
<1>3. PICK from, to : /\ cpc[c] = from /\ cpc' = [cpc EXCEPT ![c] = to]
                      /\ \/ from = "idle" /\ to = "send"
                         \/ from = "check" /\ to \in {"returned", "close"}
                         \/ from = "close" /\ to \in {"panic", "wait"}
                         \/ from = "wait" /\ to = "done" /\ wait
  BY DEF CloseCall, CloseCheck, CloseClos, CloseWait, Goto
<1>4. cpc' \in [Closers -> {"idle", "send", "check", "close", "wait", "done", "returned", "panic"}] /\ clos' \in BOOLEAN
  <2>1. clos' = clos \/ clos' = TRUE
    BY DEF CloseCall, CloseCheck, CloseClos, CloseWait
  <2> QED
    BY <2>1, <1>1, <1>3, Zenon DEF LogTypeOK
<1>5. Closing' = Closing
  BY <1>1, <1>3 DEF Closing, LogTypeOK
<1>6. \A d \in Closers : cpc'[d] = "done" => wait
  BY <1>1, <1>3 DEF Accounted, LogTypeOK
<1>7. OnTheirWay' /\ Accounted'
  BY <1>2, <1>5, <1>6, Aside
<1>8. fw' = fw \/ (fw.file = "open" /\ fw' = [fw EXCEPT !.file = "closed"])
  BY DEF CloseCall, CloseCheck, CloseClos, CloseWait
<1>9. /\ fw' \in FileWriters /\ fw'.name = fw.name /\ fw'.cursize = fw.cursize /\ fw'.opened = fw.opened
      /\ fw'.faults = fw.faults /\ (fw'.file = "nil" <=> fw.file = "nil")
  BY <1>1, <1>8, Zenon DEF LogTypeOK, FileWriters
<1>10. InStep(fw, disk)'
  BY <1>1, <1>2, <1>9 DEF InStep
<1>11. LogTypeOK'
  BY <1>1, <1>2, <1>4, <1>9 DEF LogTypeOK
<1>12. DiskInOrder' /\ FileSizeBounded'
  BY <1>2, <1>9 DEF LogInv, DiskInOrder, FileSizeBounded
<1> QED
  BY <1>7, <1>10, <1>11, <1>12 DEF LogInv

\* SetFileLevel and midnight
LEMMA SetKeeps ==
  ASSUME LogInv, (\E lvl \in BOOLEAN : SetFileLevel(lvl)) \/ SetFile \/ Midnight
  PROVE  LogInv'
<1>1. LogTypeOK /\ Accounted /\ InStep(fw, disk)
  BY DEF LogInv
<1>2. UNCHANGED <<recv, clos, wait, made, buff, count, disk, skipped, failed, gone, cpc, before>>
  BY DEF SetFileLevel, SetFile, Midnight
<1>3. Closing' = Closing /\ \A d \in Closers : cpc'[d] = "done" => wait
  BY <1>1, <1>2 DEF Closing, Accounted
<1>4. OnTheirWay' /\ Accounted'
  BY <1>2, <1>3, Aside
<1>5. /\ fw' \in FileWriters /\ fw'.faults = fw.faults /\ day' \in Days /\ day' >= day
      /\ on' \in BOOLEAN /\ spc' \in {"idle", "open", "close"} /\ sets' \in Nat /\ InStep(fw, disk)'
  <2>1. CASE \E lvl \in BOOLEAN : SetFileLevel(lvl)
    <3>1. PICK lvl \in BOOLEAN : SetFileLevel(lvl)
      BY <2>1
    <3>2. fw' = fw /\ day' = day /\ on' = lvl /\ spc' \in {"open", "close"} /\ sets' = sets + 1
      BY <3>1 DEF SetFileLevel
    <3>3. InStep(fw, disk)'
      BY <3>2, <1>1, <1>2 DEF InStep
    <3> QED
      BY <3>2, <3>3, <1>1, ZeroIsASlot DEF LogTypeOK
  <2>2. CASE SetFile
    <3>1. day' = day /\ on' = on /\ spc' = "idle" /\ sets' = sets
      BY <2>2 DEF SetFile
    <3>2. \/ fw' = [NewFileWriter EXCEPT !.faults = fw.faults, !.opened = day]
          \/ fw' = fw
          \/ fw.file = "open" /\ fw' = [fw EXCEPT !.file = "closed"]
      BY <2>2 DEF SetFile
    <3>3. /\ fw' \in FileWriters /\ fw'.faults = fw.faults
          /\ \/ fw'.name = 1 /\ fw'.file = "nil"
             \/ /\ fw'.name = fw.name /\ fw'.cursize = fw.cursize /\ fw'.opened = fw.opened
                /\ (fw'.file = "nil" <=> fw.file = "nil")
      BY <3>2, <1>1, ZeroIsASlot, Zenon DEF LogTypeOK, FileWriters, NewFileWriter
    <3>4. day \in Nat /\ day >= 1 /\ fw.name \in Nat
      BY <1>1 DEF LogTypeOK, FileWriters, Days
    <3>5. \A n \in Days, i \in Slots : n > day => disk[n][i] = <<>>
      <4>0. fw.name <= day
        BY <1>1 DEF InStep
      <4>1. \A n \in Days : n > day => n > (IF fw.file = "nil" THEN day ELSE fw.name)
        BY <4>0, <3>4 DEF Days
      <4> QED
        BY <4>1, <1>1, Zenon DEF InStep
    <3>6. InStep(fw, disk)'
      <4>1. CASE fw'.name = 1 /\ fw'.file = "nil"
        BY <4>1, <3>1, <3>4, <3>5, <1>1, <1>2 DEF InStep
      <4>2. CASE /\ fw'.name = fw.name /\ fw'.cursize = fw.cursize /\ fw'.opened = fw.opened
                 /\ (fw'.file = "nil" <=> fw.file = "nil")
        BY <4>2, <3>1, <1>1, <1>2 DEF InStep
      <4> QED
        BY <4>1, <4>2, <3>3
    <3> QED
      BY <3>1, <3>3, <3>4, <3>6, <1>1, SMTT(60) DEF LogTypeOK
  <2>3. CASE Midnight
    <3>1. Daily /\ sets + day <= MaxEvents /\ day' = day + 1 /\ fw' = fw /\ on' = on /\ spc' = spc /\ sets' = sets
      BY <2>3 DEF Midnight
    <3>2. day \in Nat /\ day >= 1 /\ fw.name \in Nat /\ sets \in Nat /\ MaxEvents \in Nat
      BY <1>1, LogAssumption DEF LogTypeOK, FileWriters, Days
    <3>3. day' \in Days /\ day' > day
      BY <3>1, <3>2 DEF Days
    <3>4. InStep(fw, disk)'
      <4>1. fw'.name <= day' /\ Daily
        BY <3>1, <3>2, <1>1, SMTT(60) DEF InStep
      <4>2. \A n \in Days, i \in Slots : n > (IF fw'.file = "nil" THEN day' ELSE fw'.name) => disk[n][i] = <<>>
        BY <3>1, <3>2, <1>1, SMTT(60) DEF InStep, Days
      <4> QED
        BY <4>1, <4>2, <3>1, <1>1, <1>2 DEF InStep
    <3> QED
      BY <3>1, <3>2, <3>3, <3>4, <1>1, SMTT(60) DEF LogTypeOK
  <2> QED
    BY <2>1, <2>2, <2>3
<1>6. LogTypeOK'
  BY <1>1, <1>2, <1>5 DEF LogTypeOK
<1>7. DiskInOrder' /\ FileSizeBounded'
  BY <1>2, <1>5 DEF LogInv, DiskInOrder, FileSizeBounded
<1> QED
  BY <1>4, <1>5, <1>6, <1>7 DEF LogInv

-----------------------------------------------------------------------------
\* The invariant holds in every reachable state of the logger: records move from the channel to the
\* buffer of the goroutine and from there to the newest file, in order, and none is lost unseen.
THEOREM LogInvariant == LogSpec => []LogInv
<1>1. ASSUME LogInv, [LogNext]_logVars PROVE LogInv'
  <2>1. CASE UNCHANGED logVars
    <3>1. UNCHANGED <<recv, clos, wait, made, buff, count, on, fw, disk, day, skipped, failed, gone, cpc, before, spc, sets>>
      BY <2>1 DEF logVars
    <3>2. Closing' = Closing /\ \A c \in Closers : cpc'[c] = "done" => wait
      BY <3>1, <1>1 DEF Closing, LogInv, Accounted
    <3>3. OnTheirWay' /\ Accounted'
      BY <3>1, <3>2, <1>1, Aside
    <3>4. InStep(fw, disk)' /\ LogTypeOK' /\ DiskInOrder' /\ FileSizeBounded'
      BY <3>1, <1>1 DEF LogInv, LogTypeOK, InStep, DiskInOrder, FileSizeBounded
    <3> QED
      BY <3>3, <3>4 DEF LogInv
  <2>2. CASE LogNext
    BY <2>2, <1>1, intLogfKeeps, TickKeeps, TakeRecordKeeps, TakeCloseKeeps, CloseSendKeeps, CloseKeeps, SetKeeps, Zenon DEF LogNext
  <2> QED
    BY <2>1, <2>2, <1>1
<1> QED
  BY <1>1, LogInitInv, PTL DEF LogSpec

\* RecordsKept, for every size and number of backups, with and without daily files: the files hold the
\* records in the order of the calls and each once (write and rotate of FileLogWriter), no file is larger
\* than maxsize by more than one write while nothing fails, and when the Close that stops the logger has
\* returned every record accepted before the first Close is out of the program.
THEOREM RecordsKeptHolds == LogSpec => []RecordsKept
<1>1. LogInv => RecordsKept
  <2> SUFFICES ASSUME LogInv PROVE RecordsKept
    OBVIOUS
  <2>1. ASSUME \E c \in Closers : cpc[c] = "done", NEW r \in 1 .. made, Early(r) PROVE Left(r)
    <3>1. wait /\ buff = <<>> /\ \A j \in DOMAIN recv : recv[j] # 0 => ~Early(recv[j])
      BY <2>1 DEF LogInv, Accounted
    <3>2. made \in Nat /\ r # 0
      BY DEF LogInv, LogTypeOK
    <3>3. r \notin Range(recv)
      BY <3>1, <3>2, <2>1 DEF Range
    <3>4. r \notin Range(buff)
      BY <3>1 DEF Range
    <3> QED
      BY <3>3, <3>4 DEF LogInv, Accounted
  <2> QED
    BY <2>1 DEF LogInv, RecordsKept, FlushedOnClose
<1> QED
  BY <1>1, LogInvariant, PTL
=============================================================================
