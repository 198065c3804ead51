------------------------ MODULE SessionStreamProofs ------------------------
(***************************************************************************)
(* What a Session sends is whole and in order, and what it receives is     *)
(* handed on intact, for any number of incarnations, any queue length and  *)
(* any cut of a message into writes or of a stream into reads.             *)
(***************************************************************************)
EXTENDS SessionProofs
-----------------------------------------------------------------------------
(* What is on a connection after one more Write.                           *)

Parts(w) ==
  /\ w # <<>> => w[1][2] = 1
  /\ \A j \in 1 .. Len(w) - 1 : Follows(w[j], w[j + 1])

Joined(v, w, m, a, b) == v = w \o Run(m, a, b)

\* The parts a + 1 .. b of message m, written after w, continue it.
LEMMA WriteExtends ==
  ASSUME NEW w \in Seq(Units), NEW m \in Nat, NEW a \in 0 .. MsgParts - 1, NEW b \in 1 .. MsgParts, a < b,
         Parts(w),
         a = 0 => Below(w, m) /\ Ended(w),
         a > 0 => Below(w, m + 1) /\ w # <<>> /\ w[Len(w)] = <<m, a>>,
         NEW v, Joined(v, w, m, a, b)
  PROVE  /\ Parts(v) /\ Below(v, m + 1)
         /\ v # <<>> /\ v[Len(v)] = <<m, b>>
         /\ v[1] = IF w = <<>> THEN <<m, 1>> ELSE w[1]
<1>0. a \in Nat /\ b \in Nat /\ a <= b
  BY Sizes
<1>1. /\ Run(m, a, b) \in Seq(Units) /\ Len(Run(m, a, b)) = b - a
      /\ \A j \in 1 .. b - a : Run(m, a, b)[j] = <<m, a + j>>
  BY <1>0, RunIsSeq, Zenon
<1>2. /\ v \in Seq(Units) /\ Len(w) \in Nat /\ Len(v) = Len(w) + b - a
      /\ \A j \in 1 .. Len(w) : v[j] = w[j]
      /\ \A j \in Len(w) + 1 .. Len(v) : v[j] = <<m, a + j - Len(w)>>
  <2>1. /\ v \in Seq(Units) /\ Len(v) = Len(w) + Len(Run(m, a, b))
        /\ \A j \in 1 .. Len(w) : v[j] = w[j]
        /\ \A j \in 1 .. Len(Run(m, a, b)) : v[Len(w) + j] = Run(m, a, b)[j]
    <3>0. PICK r \in Seq(Units) : r = Run(m, a, b)
      BY <1>1
    <3>1. v = w \o r
      BY <3>0 DEF Joined
    <3>2. /\ v \in Seq(Units) /\ Len(v) = Len(w) + Len(r)
          /\ \A j \in 1 .. Len(w) : v[j] = w[j]
          /\ \A j \in 1 .. Len(r) : v[Len(w) + j] = r[j]
      BY <3>1
    <3> QED
      BY <3>0, <3>2
  <2>2. Len(w) \in Nat /\ Len(v) = Len(w) + b - a
    BY <1>0, <1>1, <2>1
  <2>3. ASSUME NEW j \in Len(w) + 1 .. Len(v)
        PROVE  v[j] = <<m, a + j - Len(w)>>
    <3>1. PICK i \in 1 .. b - a : j = Len(w) + i
      <4>1. j - Len(w) \in 1 .. b - a /\ j = Len(w) + (j - Len(w))
        BY <1>0, <2>2
      <4> QED
        BY <4>1
    <3>2. v[j] = <<m, a + i>> /\ i = j - Len(w)
      <4>1. Run(m, a, b)[i] = <<m, a + i>>
        BY <1>1, Zenon
      <4>2. v[Len(w) + i] = Run(m, a, b)[i]
        BY <1>1, <2>1
      <4> QED
        BY <2>2, <3>1, <4>1, <4>2
    <3> QED
      BY <1>0, <2>2, <3>2
  <2> QED
    BY <2>1, <2>2, <2>3, Zenon
<1>3. \A j \in 1 .. Len(w) : w[j] \in Units /\ w[j][1] \in Nat
  BY SMTT(60) DEF Units
<1>4. w = <<>> <=> Len(w) = 0
  OBVIOUS
<1>5. v # <<>> /\ v[Len(v)] = <<m, b>>
  <2>1. Len(v) \in Len(w) + 1 .. Len(v) /\ Len(v) > 0 /\ a + Len(v) - Len(w) = b
    BY <1>2, Sizes
  <2>2. v[Len(v)] = <<m, a + Len(v) - Len(w)>>
    BY <1>2, <2>1, Zenon
  <2> QED
    BY <1>2, <2>1, <2>2
<1>6. v[1] = IF w = <<>> THEN <<m, 1>> ELSE w[1]
  <2>1. CASE w = <<>>
    <3>1. a = 0 /\ 1 \in Len(w) + 1 .. Len(v) /\ a + 1 - Len(w) = 1
      BY <1>2, <1>4, <2>1, Sizes
    <3> QED
      BY <1>2, <2>1, <3>1
  <2>2. CASE w # <<>>
    BY <1>2, <1>4, <2>2
  <2> QED
    BY <2>1, <2>2
<1>7. Below(v, m + 1)
  <2>1. ASSUME NEW j \in 1 .. Len(v) PROVE v[j][1] < m + 1
    <3>1. CASE j \in 1 .. Len(w)
      <4>1. v[j] = w[j] /\ w[j][1] \in Nat
        BY <1>2, <1>3, <3>1
      <4>2. w[j][1] < m \/ w[j][1] < m + 1
        BY <1>0, <3>1 DEF Below
      <4> QED
        BY <4>1, <4>2
    <3>2. CASE j \in Len(w) + 1 .. Len(v)
      <4>1. PICK e : v[j] = <<m, e>>
        BY <1>2, <3>2
      <4> QED
        BY <4>1
    <3> QED
      BY <1>2, <3>1, <3>2
  <2> QED
    BY <2>1 DEF Below
<1>8. ASSUME NEW j \in 1 .. Len(v) - 1 PROVE Follows(v[j], v[j + 1])
  <2>1. CASE j < Len(w)
    <3>1. j \in 1 .. Len(w) - 1 /\ v[j] = w[j] /\ v[j + 1] = w[j + 1]
      <4>1. j \in 1 .. Len(w) - 1 /\ j \in 1 .. Len(w) /\ j + 1 \in 1 .. Len(w)
        <5>1. Len(w) \in Nat /\ j \in Nat /\ 1 <= j
          BY <1>2
        <5> QED
          BY <5>1, <2>1
      <4> QED
        BY <4>1, <1>2, Zenon
    <3> QED
      BY <3>1, Zenon DEF Parts
  <2>2. CASE j = Len(w)
    <3>1. v[j] = w[Len(w)] /\ w # <<>> /\ v[j + 1] = <<m, a + 1>> /\ w[Len(w)][1] \in Nat
      <4>1. j \in 1 .. Len(w) /\ j + 1 \in Len(w) + 1 .. Len(v) /\ a + (j + 1) - Len(w) = a + 1
        BY <1>0, <1>2, <2>2
      <4>2. v[j] = w[j] /\ w[j][1] \in Nat /\ v[j + 1] = <<m, a + (j + 1) - Len(w)>>
        BY <1>2, <1>3, <4>1, Zenon
      <4> QED
        BY <1>4, <2>2, <4>1, <4>2
    <3>2. CASE a = 0
      BY <1>2, <2>2, <3>1, <3>2 DEF Follows, Below, Ended
    <3>3. CASE a > 0
      BY <3>1, <3>3 DEF Follows
    <3> QED
      BY <3>2, <3>3, Sizes
  <2>3. CASE j > Len(w)
    <3>1. v[j] = <<m, a + j - Len(w)>> /\ v[j + 1] = <<m, a + (j + 1) - Len(w)>>
      <4>1. j \in Len(w) + 1 .. Len(v) /\ j + 1 \in Len(w) + 1 .. Len(v)
        BY <1>2, <2>3, SMTT(60)
      <4> QED
        BY <1>2, <4>1, Zenon
    <3>2. a + (j + 1) - Len(w) = (a + j - Len(w)) + 1
      BY <1>2, Sizes
    <3> QED
      BY <3>1, <3>2 DEF Follows
  <2> QED
    BY <1>2, <2>1, <2>2, <2>3
<1>9. Parts(v)
  BY <1>4, <1>6, <1>8 DEF Parts
<1> QED
  BY <1>5, <1>6, <1>7, <1>9

LEMMA BelowUp ==
  ASSUME NEW w \in Seq(Units), NEW x \in Nat, NEW y \in Nat, x <= y, Below(w, x)
  PROVE  Below(w, y)
<1>1. \A j \in 1 .. Len(w) : w[j][1] \in Nat
  BY DEF Units
<1> QED
  BY <1>1 DEF Below
-----------------------------------------------------------------------------
(* One step of dosend.                                                     *)

\* One Write: the parts wbuf[k].n + 1 .. n of the message.
Wrote(k, n) ==
  /\ wbuf[k].n < n /\ (isUdp => n = MsgParts)
  /\ wire' = IF IsOpen(k) THEN [wire EXCEPT ![Conn(k)] = @ \o Run(wbuf[k].msg, wbuf[k].n, n)] ELSE wire
  /\ wbuf' = [wbuf EXCEPT ![k] = IF n = MsgParts THEN [msg |-> 0, n |-> 0] ELSE [@ EXCEPT !.n = n]]
  /\ sendpc' = [sendpc EXCEPT ![k] = IF n = MsgParts THEN "select" ELSE "write"]

LEMMA SendWriteParts ==
  ASSUME DataType, SendOrder, NEW k \in Incs, SendWrite(k)
  PROVE  /\ wbuf[k].msg \in Nat /\ wbuf[k].n \in 0 .. MsgParts - 1
         /\ \E n \in 1 .. MsgParts : Wrote(k, n)
<1>1. wbuf[k].msg \in Nat /\ wbuf[k].n \in 0 .. MsgParts - 1
  BY DEF DataType
<1>2. isUdp => wbuf[k].n = 0
  BY <1>1, Sizes, SMTT(60) DEF SendWrite, SendOrder
<1>3. PICK m \in (IF isUdp THEN {MsgParts} ELSE 1 .. MsgParts - wbuf[k].n) :
        /\ wire' = IF IsOpen(k)
                   THEN [wire EXCEPT ![Conn(k)] = @ \o [j \in 1 .. m |-> <<wbuf[k].msg, wbuf[k].n + j>>]]
                   ELSE wire
        /\ wbuf' = [wbuf EXCEPT ![k] = IF wbuf[k].n + m = MsgParts THEN [msg |-> 0, n |-> 0]
                                       ELSE [@ EXCEPT !.n = wbuf[k].n + m]]
        /\ sendpc' = [sendpc EXCEPT ![k] = IF wbuf[k].n + m = MsgParts THEN "select" ELSE "write"]
  BY Zenon DEF SendWrite
<1>4. /\ m \in Nat /\ wbuf[k].n < wbuf[k].n + m /\ wbuf[k].n + m \in 1 .. MsgParts
      /\ isUdp => wbuf[k].n + m = MsgParts
  <2>1. CASE isUdp
    BY <1>1, <1>2, <1>3, <2>1, Sizes, SMTT(60)
  <2>2. CASE ~isUdp
    <3>1. m \in 1 .. MsgParts - wbuf[k].n
      BY <2>2, Zenon
    <3> QED
      BY <1>1, <3>1, Sizes, SMTT(20)
  <2> QED
    BY <2>1, <2>2
<1>5. [j \in 1 .. m |-> <<wbuf[k].msg, wbuf[k].n + j>>] = Run(wbuf[k].msg, wbuf[k].n, wbuf[k].n + m)
  BY <1>1, <1>4 DEF Run
<1> QED
  BY <1>1, <1>3, <1>4, <1>5, Zenon DEF Wrote

LEMMA DataSend ==
  ASSUME DataType, SendOrder, NEW k \in Incs, dosend(k)
  PROVE  DataType'
<1>0. isUdp' \in BOOLEAN /\ rejected' \in BOOLEAN
  BY DEF dosend, SendQuit, SendTake, SendWrite, SendError, handVars, DataType
<1>1. UNCHANGED <<isUdp, hander, rbuf, hbuf, tempBuf, got, calls, handled, rejected>>
  BY DEF dosend, SendQuit, SendTake, SendWrite, SendError, chanVars, handVars, recvVars
<1>2. CASE SendQuit(k)
  BY <1>0, <1>1, <1>2, Zenon DEF SendQuit, DataType, chanVars
<1>3. CASE SendTake(k)
  <2>1. Head(writer) \in Nat /\ Tail(writer) \in Seq(Nat) /\ Len(Tail(writer)) <= WriterListLen
    BY <1>3, Sizes, SMTT(60) DEF SendTake, DataType
  <2>2. [msg |-> Head(writer), n |-> 0] \in [msg : Nat, n : 0 .. MsgParts - 1]
    BY <2>1, Sizes, SMTT(20)
  <2> QED
    BY <1>0, <1>1, <1>3, <2>1, <2>2, Zenon DEF SendTake, DataType
<1>4. CASE SendWrite(k)
  <2>1. /\ wbuf[k] \in [msg : Nat, n : 0 .. MsgParts - 1]
        /\ wbuf[k].msg \in Nat /\ wbuf[k].n \in 0 .. MsgParts - 1
    BY Zenon DEF DataType
  <2>2. PICK n \in 1 .. MsgParts : Wrote(k, n)
    BY <1>4, SendWriteParts
  <2>3. Run(wbuf[k].msg, wbuf[k].n, n) \in Seq(Units)
    <3>1. wbuf[k].n \in Nat /\ n \in Nat /\ wbuf[k].n <= n
      BY <2>1, <2>2, Sizes, SMTT(60) DEF Wrote
    <3> QED
      BY <2>1, <3>1, RunIsSeq, Zenon
  <2>4. wire' \in [Incs -> Seq(Units)]
    <3>1. wire \in [Incs -> Seq(Units)]
      BY DEF DataType
    <3>2. \A c \in Incs : wire[c] \o Run(wbuf[k].msg, wbuf[k].n, n) \in Seq(Units)
      BY <2>3, <3>1
    <3> QED
      BY <2>2, <3>1, <3>2, Zenon DEF Wrote
  <2>5. (IF n = MsgParts THEN [msg |-> 0, n |-> 0]
         ELSE [wbuf[k] EXCEPT !.n = n]) \in [msg : Nat, n : 0 .. MsgParts - 1]
    BY <2>1, <2>2, Sizes, SMTT(60) DEF Wrote
  <2>6. wbuf' \in [Incs -> [msg : Nat, n : 0 .. MsgParts - 1]]
    BY <2>2, <2>5, Zenon DEF Wrote, DataType
  <2> QED
    BY <1>0, <1>1, <1>4, <2>4, <2>6, Zenon DEF SendWrite, DataType, chanVars
<1>5. CASE SendError(k)
  <2>1. [msg |-> 0, n |-> 0] \in [msg : Nat, n : 0 .. MsgParts - 1]
    BY Sizes
  <2> QED
    BY <1>0, <1>1, <1>5, <2>1, Zenon DEF SendError, DataType, chanVars
<1> QED
  BY <1>2, <1>3, <1>4, <1>5 DEF dosend
-----------------------------------------------------------------------------
(* Connections carry whole messages in the order of Send.                  *)

WireInv == SendOrder /\ WireWhole

LEMMA WireInit == Init => WireInv
BY Sizes, LastInc DEF Init, WireInv, SendOrder, WireWhole, Below, Ended, Incs

\* Steps that write nothing and queue nothing.
LEMMA WireKept ==
  ASSUME WireInv, UNCHANGED <<isUdp, inc, writer, calls, wire>>,
         \A k \in Incs : sendpc'[k] \in {"select", "write"} => sendpc'[k] = sendpc[k] /\ wbuf'[k] = wbuf[k]
  PROVE  WireInv'
<1>1. WireWhole'
  BY DEF WireInv, WireWhole, Follows
<1>2. ASSUME NEW k \in Incs, sendpc'[k] = "write"
      PROVE  sendpc[k] = "write" /\ wbuf'[k] = wbuf[k]
  BY <1>2
<1>3. SendOrder'
  BY <1>2 DEF WireInv, SendOrder, Below, Ended
<1> QED
  BY <1>1, <1>3 DEF WireInv

LEMMA WireRestart ==
  ASSUME ControlType, Lifecycle, WireInv, restart
  PROVE  WireInv'
<1>1. inc \in Nat /\ inc + 1 \in Incs /\ inc' = inc + 1
  BY LastInc DEF restart, ControlType, Incs
<1>2. UNCHANGED <<isUdp, writer, calls, wire, wbuf>>
  BY DEF restart
<1>3. WireWhole'
  BY <1>2 DEF WireInv, WireWhole, Follows
<1>4. wire[inc + 1] = <<>>
  BY <1>1 DEF WireInv, SendOrder
<1>5. \A k \in Incs : \/ sendpc'[k] = sendpc[k]
                      \/ k = inc + 1 /\ sendpc'[k] = "select"
  BY DEF restart, ControlType
<1>6. \A l \in Incs : l > inc' => wire'[l] = <<>>
  BY <1>1, <1>2 DEF WireInv, SendOrder, Incs
<1>7. \A k \in Incs : sendpc'[k] = "select" => Ended(wire'[k])
  BY <1>2, <1>4, <1>5 DEF WireInv, SendOrder, Ended
<1>8. \A k \in Incs : sendpc'[k] = "write" => sendpc[k] = "write"
  BY <1>5
<1>9. SendOrder'
  BY <1>2, <1>6, <1>7, <1>8, Zenon DEF WireInv, SendOrder, Below, Ended
<1> QED
  BY <1>3, <1>9 DEF WireInv

LEMMA WireSend ==
  ASSUME DataType, WireInv, Send
  PROVE  WireInv'
<1>1. UNCHANGED <<isUdp, inc, wire, sendpc, wbuf>> /\ calls' = calls + 1 /\ calls \in Nat
  BY Sizes DEF Send, sendVars, DataType
<1>2. WireWhole'
  BY <1>1 DEF WireInv, WireWhole, Follows
<1>3. writer \in Seq(Nat) /\ Len(writer) \in Nat /\ \A a \in 1 .. Len(writer) : writer[a] \in Nat
  BY DEF DataType
<1>4. \A l \in Incs : \A j \in 1 .. Len(wire[l]) : wire[l][j][1] \in Nat
  BY SMTT(60) DEF DataType, Units
<1>5. \A k \in Incs : wbuf[k].msg \in Nat
  BY DEF DataType
<1>6. ASSUME NEW l \in Incs PROVE Below(wire[l], calls + 1) /\ Below(wire[l], calls' + 1)
  BY <1>1, <1>4 DEF WireInv, SendOrder, Below
<1>7. \A a \in 1 .. Len(writer') : \/ a \in 1 .. Len(writer) /\ writer'[a] = writer[a]
                                   \/ a = Len(writer) + 1 /\ writer'[a] = calls + 1
  <2>1. CASE UNCHANGED writer
    BY <2>1
  <2>2. CASE writer' = Append(writer, calls + 1)
    BY <1>1, <1>3, <2>2
  <2> QED
    BY <2>1, <2>2 DEF Send
<1>8. ASSUME NEW a \in 1 .. Len(writer')
      PROVE  /\ writer'[a] <= calls'
             /\ \A b \in 1 .. Len(writer') : a < b => writer'[a] < writer'[b]
             /\ \A l \in Incs : Below(wire'[l], writer'[a])
             /\ \A k \in Incs : sendpc[k] = "write" => wbuf[k].msg < writer'[a]
  <2>1. CASE a \in 1 .. Len(writer) /\ writer'[a] = writer[a]
    <3>1. /\ writer[a] \in Nat /\ writer[a] <= calls
          /\ \A b \in 1 .. Len(writer) : a < b => writer[a] < writer[b]
          /\ \A l \in Incs : Below(wire[l], writer[a])
          /\ \A k \in Incs : sendpc[k] = "write" => wbuf[k].msg < writer[a]
      BY <1>3, <2>1 DEF WireInv, SendOrder
    <3>2. ASSUME NEW b \in 1 .. Len(writer'), a < b PROVE writer[a] < writer'[b]
      BY <1>1, <1>7, <3>1, <3>2, SMTT(60)
    <3> QED
      BY <1>1, <2>1, <3>1, <3>2
  <2>2. CASE a = Len(writer) + 1 /\ writer'[a] = calls + 1
    BY <1>1, <1>3, <1>5, <1>6, <1>7, <2>2 DEF WireInv, SendOrder
  <2> QED
    BY <1>7, <1>8, <2>1, <2>2
<1>9. \A k \in Incs : sendpc[k] = "write" => wbuf[k].msg <= calls'
  BY <1>1, <1>5 DEF WireInv, SendOrder
<1>10. SendOrder'
  BY <1>1, <1>6, <1>8, <1>9 DEF WireInv, SendOrder, Below, Ended
<1> QED
  BY <1>2, <1>10 DEF WireInv

LEMMA WireTake ==
  ASSUME ControlType, DataType, WireInv, NEW k \in Incs, SendTake(k)
  PROVE  WireInv'
<1>1. /\ UNCHANGED <<isUdp, inc, wire, calls>> /\ writer' = Tail(writer) /\ writer # <<>>
      /\ sendpc[k] = "select"
  BY DEF SendTake
<1>2. WireWhole'
  BY <1>1, Zenon DEF WireInv, WireWhole, Follows
<1>3. writer \in Seq(Nat) /\ Len(writer) \in Nat /\ \A a \in 1 .. Len(writer) : writer[a] \in Nat
  BY SMTT(60) DEF DataType
<1>4. /\ 1 \in 1 .. Len(writer) /\ Head(writer) = writer[1]
      /\ \A a \in 1 .. Len(writer') : a + 1 \in 1 .. Len(writer) /\ writer'[a] = writer[a + 1]
  BY <1>1, <1>3
<1>5. /\ wbuf'[k] = [msg |-> writer[1], n |-> 0] /\ sendpc'[k] = "write"
      /\ \A j \in Incs : j # k => wbuf'[j] = wbuf[j] /\ sendpc'[j] = sendpc[j]
  <2>1. /\ sendpc \in [Incs -> SendPC]
        /\ wbuf \in [Incs -> [msg : Nat, n : 0 .. MsgParts - 1]]
    BY DEF ControlType, DataType
  <2> QED
    BY <1>4, <2>1 DEF SendTake
<1>6. ASSUME NEW a \in 1 .. Len(writer')
      PROVE  /\ writer'[a] <= calls /\ writer[1] < writer'[a]
             /\ \A b \in 1 .. Len(writer') : a < b => writer'[a] < writer'[b]
             /\ \A l \in Incs : Below(wire[l], writer'[a])
             /\ \A j \in Incs : sendpc[j] = "write" => wbuf[j].msg < writer'[a]
  <2>1. /\ writer[a + 1] <= calls /\ writer[1] < writer[a + 1]
        /\ \A l \in Incs : Below(wire[l], writer[a + 1])
        /\ \A j \in Incs : sendpc[j] = "write" => wbuf[j].msg < writer[a + 1]
    BY <1>3, <1>4 DEF WireInv, SendOrder
  <2>2. ASSUME NEW b \in 1 .. Len(writer'), a < b PROVE writer'[a] < writer'[b]
    BY <1>3, <1>4, <2>2 DEF WireInv, SendOrder
  <2> QED
    BY <1>4, <2>1, <2>2
<1>7. /\ writer[1] <= calls
      /\ \A l \in Incs : Below(wire[l], writer[1])
      /\ Ended(wire[k])
  BY <1>1, <1>4 DEF WireInv, SendOrder
<1>8. ASSUME NEW j \in Incs, sendpc'[j] = "write"
      PROVE  /\ wbuf'[j].msg <= calls'
             /\ \A a \in 1 .. Len(writer') : wbuf'[j].msg < writer'[a]
             /\ \A l \in Incs : l # j => Below(wire'[l], wbuf'[j].msg)
             /\ wbuf'[j].n = 0 => Below(wire'[j], wbuf'[j].msg) /\ Ended(wire'[j])
             /\ wbuf'[j].n > 0 =>
                  /\ ~isUdp' /\ Below(wire'[j], wbuf'[j].msg + 1)
                  /\ wire'[j] # <<>> /\ wire'[j][Len(wire'[j])] = <<wbuf'[j].msg, wbuf'[j].n>>
  <2>1. CASE j = k
    <3>1. wbuf'[j].msg = writer[1] /\ wbuf'[j].n = 0
      BY <1>5, <2>1
    <3>2. ~(wbuf'[j].n > 0)
      BY <3>1
    <3>3. /\ wbuf'[j].msg <= calls'
          /\ \A a \in 1 .. Len(writer') : wbuf'[j].msg < writer'[a]
          /\ \A l \in Incs : Below(wire'[l], wbuf'[j].msg)
          /\ Ended(wire'[j])
      BY <1>1, <1>6, <1>7, <2>1, <3>1
    <3> QED
      BY <3>2, <3>3
  <2>2. CASE j # k
    <3>1. sendpc[j] = "write" /\ wbuf'[j] = wbuf[j]
      BY <1>5, <1>8, <2>2
    <3> QED
      BY <1>1, <1>6, <3>1 DEF WireInv, SendOrder
  <2> QED
    BY <2>1, <2>2
<1>9. \A j \in Incs : sendpc'[j] = "select" => Ended(wire'[j])
  BY <1>1, <1>5 DEF WireInv, SendOrder
<1>10. SendOrder'
  BY <1>1, <1>6, <1>8, <1>9 DEF WireInv, SendOrder, Below, Ended
<1> QED
  BY <1>2, <1>10 DEF WireInv

LEMMA WireWrite ==
  ASSUME ControlType, Lifecycle, DataType, WireInv, NEW k \in Incs, SendWrite(k)
  PROVE  WireInv'
<1>1. /\ k = inc /\ inc \in Nat /\ Conn(k) = k /\ sendpc[k] = "write"
      /\ \A j \in Incs : sendpc[j] \in {"select", "write"} => j = k
  BY CurrentOnly, LastInc DEF SendWrite, Running, Conn, ControlType
<1>2. PICK n \in 1 .. MsgParts : Wrote(k, n)
  BY SendWriteParts DEF WireInv
<1>3. /\ sendpc \in [Incs -> SendPC] /\ wire \in [Incs -> Seq(Units)]
      /\ wbuf \in [Incs -> [msg : Nat, n : 0 .. MsgParts - 1]]
      /\ writer \in Seq(Nat) /\ calls \in Nat
  BY Sizes, SMTT(60) DEF ControlType, DataType
<1>4. PICK m \in Nat, a \in 0 .. MsgParts - 1 : m = wbuf[k].msg /\ a = wbuf[k].n
  BY <1>3
<1>5. /\ UNCHANGED <<isUdp, inc, writer, calls>>
      /\ a < n /\ (isUdp => a = 0 /\ n = MsgParts)
      /\ m <= calls /\ \A b \in 1 .. Len(writer) : m < writer[b]
      /\ \A l \in Incs : l # k => Below(wire[l], m)
      /\ a = 0 => Below(wire[k], m) /\ Ended(wire[k])
      /\ a > 0 => Below(wire[k], m + 1) /\ wire[k] # <<>> /\ wire[k][Len(wire[k])] = <<m, a>>
  <2>1. a < n /\ (isUdp => n = MsgParts)
    BY <1>2, <1>4 DEF Wrote
  <2>2. UNCHANGED <<isUdp, inc, writer, calls>>
    BY DEF SendWrite, chanVars
  <2>3. isUdp => a = 0
    BY <1>1, <1>4, Sizes, SMTT(60) DEF WireInv, SendOrder
  <2> QED
    BY <1>1, <1>4, <2>1, <2>2, <2>3 DEF WireInv, SendOrder
<1>6. /\ sendpc'[k] = IF n = MsgParts THEN "select" ELSE "write"
      /\ n # MsgParts => wbuf'[k].msg = m /\ wbuf'[k].n = n
      /\ \A j \in Incs : j # k => sendpc'[j] = sendpc[j]
  BY <1>2, <1>3, <1>4 DEF Wrote
<1>7. \A l \in Incs : l # k => wire'[l] = wire[l]
  BY <1>1, <1>2, <1>3 DEF Wrote
<1>8. CASE ~IsOpen(k)
  <2>1. isUdp /\ wire' = wire
    BY <1>2, <1>8 DEF SendWrite, Wrote
  <2>2. WireWhole'
    BY <2>1 DEF WireInv, WireWhole, Follows
  <2>3. sendpc'[k] = "select" /\ Ended(wire[k])
    BY <1>5, <1>6, <2>1
  <2>4. \A j \in Incs : sendpc'[j] # "write"
    BY <1>1, <1>6, <2>3
  <2>5. \A j \in Incs : sendpc'[j] = "select" => Ended(wire'[j])
    BY <1>1, <1>6, <2>1, <2>3, Zenon
  <2>6. SendOrder'
    BY <1>5, <2>1, <2>4, <2>5 DEF WireInv, SendOrder, Below, Ended
  <2> QED
    BY <2>2, <2>6 DEF WireInv
<1>9. CASE IsOpen(k)
  <2>0. PICK v : v = wire'[k]
    OBVIOUS
  <2>1. PICK w \in Seq(Units) : w = wire[k] /\ v = wire'[k]
    BY <1>3, <2>0
  <2>2. Joined(v, w, m, a, n)
    BY <1>1, <1>2, <1>3, <1>4, <1>9, <2>1 DEF Wrote, Joined
  <2>3. Parts(w)
    BY <2>1 DEF WireInv, WireWhole, Parts
  <2>4. /\ Parts(v) /\ Below(v, m + 1)
        /\ v # <<>> /\ v[Len(v)] = <<m, n>>
        /\ v[1] = IF w = <<>> THEN <<m, 1>> ELSE w[1]
    <3>1. /\ a < n
          /\ a = 0 => Below(w, m) /\ Ended(w)
          /\ a > 0 => Below(w, m + 1) /\ w # <<>> /\ w[Len(w)] = <<m, a>>
      BY <1>5, <2>1
    <3> QED
      BY <2>2, <2>3, <3>1, WriteExtends
  <2>5. WireWhole'
    <3>1. ASSUME NEW c \in Incs PROVE Parts(wire'[c])
      BY <1>7, <2>1, <2>4, Zenon DEF WireInv, WireWhole, Parts
    <3>2. ASSUME NEW c \in Incs, NEW d \in Incs, c < d, wire'[c] # <<>>, wire'[d] # <<>>
          PROVE  wire'[c][Len(wire'[c])][1] < wire'[d][1][1]
      <4>1. CASE c = k
        <5>1. wire[d] = <<>> /\ d # k
          BY <1>1, <3>2, <4>1 DEF WireInv, SendOrder, Incs
        <5> QED
          BY <1>7, <3>2, <5>1
      <4>2. CASE d = k /\ w = <<>>
        <5>1. wire'[c] = wire[c] /\ c # k /\ wire[c] \in Seq(Units) /\ wire[c] # <<>>
          BY <1>1, <1>3, <1>7, <3>2, <4>2, SMTT(60) DEF Incs
        <5>2. Len(wire[c]) \in 1 .. Len(wire[c])
          BY <5>1, SMTT(20)
        <5>3. wire[c][Len(wire[c])][1] < m /\ v[1][1] = m
          BY <1>5, <2>4, <4>2, <5>1, <5>2, SMTT(60) DEF Below
        <5> QED
          BY <2>1, <4>2, <5>1, <5>3
      <4>3. CASE d = k /\ w # <<>>
        <5>1. wire'[c] = wire[c] /\ v[1] = w[1] /\ wire'[d] = v
          BY <1>1, <1>7, <2>1, <2>4, <3>2, <4>3 DEF Incs
        <5>2. wire[c][Len(wire[c])][1] < wire[d][1][1]
          BY <2>1, <3>2, <4>3, <5>1 DEF WireInv, WireWhole
        <5> QED
          BY <2>1, <4>3, <5>1, <5>2
      <4>4. CASE c # k /\ d # k
        BY <1>7, <3>2, <4>4, SMTT(20) DEF WireInv, WireWhole
      <4> QED
        BY <4>1, <4>2, <4>3, <4>4
    <3> QED
      BY <3>1, <3>2 DEF WireWhole, Parts, Follows
  <2>6. SendOrder'
    <3>1. v \in Seq(Units)
      <4>1. wire' \in [Incs -> Seq(Units)]
        BY DataSend, Zenon DEF WireInv, dosend, DataType
      <4> QED
        BY <2>1, <4>1
    <3>2. /\ Below(v, calls + 1)
          /\ \A b \in 1 .. Len(writer) : Below(v, writer[b])
      <4>1. /\ m + 1 \in Nat /\ calls + 1 \in Nat /\ m + 1 <= calls + 1
            /\ \A b \in 1 .. Len(writer) : writer[b] \in Nat /\ m + 1 <= writer[b]
        BY <1>3, <1>5, SMTT(60)
      <4> QED
        BY <2>4, <3>1, <4>1, BelowUp, Zenon
    <3>3. \A l \in Incs : wire'[l] = IF l = k THEN v ELSE wire[l]
      BY <1>7, <2>1
    <3>4. Ended(v) \/ n # MsgParts
      BY <2>4 DEF Ended
    <3>5. /\ \A b \in 1 .. Len(writer') : \A l \in Incs : Below(wire'[l], writer'[b])
          /\ \A l \in Incs : Below(wire'[l], calls' + 1) /\ (l > inc' => wire'[l] = <<>>)
      <4>1. /\ \A b \in 1 .. Len(writer) : \A l \in Incs : Below(wire[l], writer[b])
            /\ \A l \in Incs : Below(wire[l], calls + 1) /\ (l > inc => wire[l] = <<>>)
        BY DEF WireInv, SendOrder
      <4>2. ~(k > inc) /\ inc' = inc /\ calls' = calls /\ writer' = writer
        BY <1>1, <1>5
      <4>3. ASSUME NEW l \in Incs
            PROVE  /\ \A b \in 1 .. Len(writer) : Below(wire'[l], writer[b])
                   /\ Below(wire'[l], calls + 1) /\ (l > inc => wire'[l] = <<>>)
        BY <3>2, <3>3, <4>1, <4>2
      <4> QED
        BY <4>2, <4>3
    <3>6. \A j \in Incs : sendpc'[j] = "select" => Ended(wire'[j])
      BY <1>1, <1>6, <3>3, <3>4
    <3>7. ASSUME NEW j \in Incs, sendpc'[j] = "write"
          PROVE  /\ j = k /\ wbuf'[j].msg = m /\ wbuf'[j].n = n /\ n # 0 /\ ~isUdp'
      <4>1. j = k
        BY <1>1, <1>6, <3>7
      <4>2. n # MsgParts
        BY <1>6, <3>7, <4>1
      <4> QED
        BY <1>5, <1>6, <4>1, <4>2, Sizes
    <3>8. ASSUME NEW j \in Incs, sendpc'[j] = "write"
          PROVE  /\ wbuf'[j].msg <= calls'
                 /\ \A b \in 1 .. Len(writer') : wbuf'[j].msg < writer'[b]
                 /\ \A l \in Incs : l # j => Below(wire'[l], wbuf'[j].msg)
                 /\ wbuf'[j].n # 0 /\ ~isUdp' /\ Below(wire'[j], wbuf'[j].msg + 1)
                 /\ wire'[j] # <<>> /\ wire'[j][Len(wire'[j])] = <<wbuf'[j].msg, wbuf'[j].n>>
      BY <1>5, <2>4, <3>3, <3>7, <3>8, Zenon
    <3> QED
      BY <1>5, <3>5, <3>6, <3>8 DEF WireInv, SendOrder, Below, Ended
  <2> QED
    BY <2>5, <2>6 DEF WireInv
<1> QED
  BY <1>8, <1>9

SendInv == ControlType /\ Lifecycle /\ DataType /\ WireInv

LEMMA SendStep == SendInv /\ [Next]_vars => SendInv'
<1> SUFFICES ASSUME SendInv, [Next]_vars PROVE SendInv'
  OBVIOUS
<1> USE DEF SendInv
<1>1. ControlType' /\ Lifecycle'
  BY LifecycleStep
<1>2. CASE UNCHANGED vars
  <2>1. DataType'
    BY <1>2 DEF vars, DataType
  <2>2. WireInv'
    BY <1>2, WireKept DEF vars
  <2> QED
    BY <1>1, <2>1, <2>2
<1>3. CASE restart
  BY <1>1, <1>3, DataUsers, WireRestart
<1>4. CASE Send
  BY <1>1, <1>4, DataUsers, WireSend
<1>5. CASE Close \/ PeerCloses
  <2>1. WireInv'
    BY <1>5, WireKept DEF Close, PeerCloses, chanVars, sendVars
  <2> QED
    BY <1>1, <1>5, <2>1, DataUsers
<1>6. ASSUME NEW k \in Incs, dosend(k) PROVE SendInv'
  <2>1. DataType'
    BY <1>6, DataSend DEF WireInv
  <2>2. CASE SendQuit(k)
    <3>1. sendpc' = [sendpc EXCEPT ![k] = "ended"] /\ sendpc \in [Incs -> SendPC]
      BY <2>2 DEF SendQuit, ControlType
    <3>2. WireInv'
      BY <2>2, <3>1, WireKept DEF SendQuit, chanVars
    <3> QED
      BY <1>1, <2>1, <3>2
  <2>3. CASE SendError(k)
    <3>1. /\ sendpc' = [sendpc EXCEPT ![k] = "ended"] /\ sendpc \in [Incs -> SendPC]
          /\ \A j \in Incs : j # k => wbuf'[j] = wbuf[j]
      BY <2>3 DEF SendError, ControlType, DataType
    <3>2. WireInv'
      BY <2>3, <3>1, WireKept DEF SendError, chanVars
    <3> QED
      BY <1>1, <2>1, <3>2
  <2> QED
    BY <1>1, <1>6, <2>1, <2>2, <2>3, WireTake, WireWrite DEF dosend
<1>7. ASSUME NEW k \in Incs, dorecv(k) \/ DataArrives(k) PROVE SendInv'
  <2>1. WireInv'
    BY <1>7, WireKept DEF dorecv, DataArrives, RecvOpen, RecvRead, RecvError, RecvEmpty, RecvPush,
                          RecvClose, RecvWait, RecvEvent, RecvOnClose, chanVars, sendVars
  <2> QED
    BY <1>1, <1>7, <2>1, DataRecv
<1>8. ASSUME NEW k \in Incs, dohand(k) PROVE SendInv'
  <2>1. WireInv'
    BY <1>8, WireKept DEF dohand, HandTake, HandLast, ParseOne, ParseNone, ParseReject, ParsePanic,
                          chanVars, sendVars
  <2> QED
    BY <1>1, <1>8, <2>1, DataHand
<1> QED
  BY <1>2, <1>3, <1>4, <1>5, <1>6, <1>7, <1>8 DEF Next, Step

LEMMA SendInvHolds == Spec => []SendInv
<1>1. Init => SendInv
  BY LifecycleInit, DataInit, WireInit DEF SendInv
<1> QED
  BY <1>1, SendStep, PTL DEF Spec

(***************************************************************************)
(* Every connection carries whole messages in the order of Send, each at   *)
(* most once, whatever Write cuts off and however often the session is     *)
(* restarted (session.go:226-260, 166-188).                                *)
(***************************************************************************)
THEOREM WireWholeHolds == Spec => []WireWhole
<1>1. SendInv => WireWhole
  BY DEF SendInv, WireInv
<1> QED
  BY <1>1, SendInvHolds, PTL
-----------------------------------------------------------------------------
(* What is received is handed on intact.                                   *)

StreamInv == StreamInOrder /\ Reassembled /\ DatagramsApart

LEMMA StreamInit == Init => StreamInv
BY LastInc DEF Init, StreamInv, StreamInOrder, Reassembled, DatagramsApart, Contiguous, Incs

\* ReadUpTo and ParsedUpTo after a step.
ReadNext(e) ==
  IF recvpc'[inc'] = "push" THEN e <= got' /\ rbuf'[inc'] = Run(inc', e, got') ELSE e = got'

ParsedNext(e, b) ==
  ~isUdp' /\ ~rejected' =>
    /\ handpc'[inc'] = "select" => b <= e /\ tempBuf'[inc'] = Run(inc', b, e)
    /\ handpc'[inc'] = "parse"  => b <= e /\ hbuf'[inc'] = Run(inc', b, e)

LEMMA StreamNext ==
  ASSUME \A k \in Incs : (isUdp' \/ k > inc') => tempBuf'[k] = <<>>,
         NEW f \in [0 .. Len(hander') -> 0 .. MaxUnits],
         Chunks(inc', hander', f), ReadNext(f[Len(hander')]),
         ParsedNext(f[0], Len(handled') * MsgUnits)
  PROVE  StreamInOrder'
<1>1. /\ Chunks(inc, hander, f)' /\ ReadUpTo(f[Len(hander)])' /\ ParsedUpTo(f[0])'
  BY DEF Chunks, Run, ReadUpTo, ReadNext, ParsedUpTo, ParsedNext
<1> QED
  BY <1>1, Zenon DEF StreamInOrder

\* Steps that move no received data.
LEMMA StreamKept ==
  ASSUME ControlType, StreamInv,
         UNCHANGED <<isUdp, inc, hander, handpc, rbuf, hbuf, tempBuf, got, handled, rejected>>,
         inc > 0 => (recvpc'[inc] = "push" <=> recvpc[inc] = "push")
  PROVE  StreamInv'
<1>1. Reassembled' /\ DatagramsApart'
  BY Zenon DEF StreamInv, Reassembled, DatagramsApart, Message, Contiguous
<1>2. \A k \in Incs : (isUdp' \/ k > inc') => tempBuf'[k] = <<>>
  BY DEF StreamInv, StreamInOrder
<1>3. CASE inc > 0
  <2>1. PICK f \in [0 .. Len(hander) -> 0 .. MaxUnits] :
          Chunks(inc, hander, f) /\ ReadUpTo(f[Len(hander)]) /\ ParsedUpTo(f[0])
    BY <1>3 DEF StreamInv, StreamInOrder
  <2>2. ReadNext(f[Len(hander')])
    BY <1>3, <2>1 DEF ReadUpTo, ReadNext
  <2>3. ParsedNext(f[0], Len(handled') * MsgUnits)
    BY <2>1 DEF ParsedUpTo, ParsedNext
  <2>4. Chunks(inc', hander', f) /\ f \in [0 .. Len(hander') -> 0 .. MaxUnits]
    BY <2>1
  <2>5. StreamInOrder'
    BY <1>2, <2>2, <2>3, <2>4, StreamNext
  <2> QED
    BY <1>1, <2>5 DEF StreamInv
<1>4. CASE ~(inc > 0)
  BY <1>1, <1>2, <1>4 DEF StreamInv, StreamInOrder
<1> QED
  BY <1>3, <1>4

\* The next message is cut off the front of what dohand holds.
LEMMA HandsOn ==
  ASSUME inc \in Nat, handled \in Seq(Seq(Units)), Reassembled, UNCHANGED <<inc, isUdp, rejected>>,
         NEW e \in Nat, NEW s \in Seq(Units), Len(s) >= MsgUnits,
         ~isUdp /\ ~rejected =>
           Len(handled) * MsgUnits <= e /\ s = Run(inc, Len(handled) * MsgUnits, e),
         handled' = Append(handled, SubSeq(s, 1, MsgUnits))
  PROVE  /\ Reassembled'
         /\ ~isUdp /\ ~rejected =>
              /\ Len(handled') * MsgUnits <= e
              /\ Rest(s, MsgUnits) = Run(inc, Len(handled') * MsgUnits, e)
<1>1. CASE isUdp \/ rejected
  BY <1>1 DEF Reassembled
<1>2. CASE ~isUdp /\ ~rejected
  <2>1. PICK n \in Nat : n = Len(handled)
    OBVIOUS
  <2>2. PICK b \in Nat : b = n * MsgUnits
    BY Sizes
  <2>3. b <= e /\ s = Run(inc, b, e)
    BY <1>2, <2>1, <2>2
  <2>4. Len(Run(inc, b, e)) >= MsgUnits
    BY <2>3
  <2>5. /\ MsgUnits \in Nat /\ b + MsgUnits <= e
        /\ SubSeq(s, 1, MsgUnits) = Run(inc, b, b + MsgUnits)
        /\ Rest(s, MsgUnits) = Run(inc, b + MsgUnits, e)
    <3>1. /\ b + MsgUnits <= e
          /\ SubSeq(Run(inc, b, e), 1, MsgUnits) = Run(inc, b, b + MsgUnits)
          /\ Rest(Run(inc, b, e), MsgUnits) = Run(inc, b + MsgUnits, e)
      BY <2>3, <2>4, CutOne, Zenon
    <3> QED
      BY <2>3, <3>1, Sizes
  <2>7. Message(inc, n + 1) = Run(inc, b, b + MsgUnits) /\ (n + 1) * MsgUnits = b + MsgUnits
    BY <2>2, MessageIsRun
  <2>8. PICK y \in Seq(Units) : y = SubSeq(s, 1, MsgUnits)
    <3>1. b + MsgUnits \in Nat /\ b <= b + MsgUnits
      BY Sizes
    <3>2. Run(inc, b, b + MsgUnits) \in Seq(Units)
      BY <3>1, RunIsSeq, Zenon
    <3> QED
      BY <2>5, <3>2, Zenon
  <2>9. /\ Len(handled') = n + 1 /\ handled'[n + 1] = y
        /\ \A j \in 1 .. n : handled'[j] = handled[j]
    BY <2>1, <2>8
  <2>10. ASSUME NEW j \in 1 .. n + 1 PROVE handled'[j] = Message(inc, j)
    <3>1. CASE j = n + 1
      BY <2>5, <2>7, <2>8, <2>9, <3>1, Zenon
    <3>2. CASE j # n + 1
      <4>1. j \in 1 .. n
        BY <3>2
      <4> QED
        BY <1>2, <2>1, <2>9, <4>1 DEF Reassembled
    <3> QED
      BY <3>1, <3>2, Zenon
  <2>11. Reassembled'
    <3>1. \A j \in 1 .. Len(handled') : handled'[j] = Message(inc', j)
      BY <2>9, <2>10, ZenonT(30) DEF Message
    <3> QED
      BY <3>1, Zenon DEF Reassembled, Message
  <2> QED
    BY <2>5, <2>7, <2>9, <2>11, Zenon
<1> QED
  BY <1>1, <1>2

LEMMA StreamRestart ==
  ASSUME ControlType, DataType, StreamInv, restart
  PROVE  StreamInv'
<1>1. inc \in Nat /\ inc + 1 \in Incs /\ inc' = inc + 1 /\ inc' \in Nat
  BY LastInc DEF restart, ControlType, Incs
<1>2. UNCHANGED <<isUdp, hbuf, tempBuf>> /\ hander' = <<>> /\ handled' = <<>> /\ got' = 0
  BY DEF restart
<1>3. Reassembled' /\ DatagramsApart'
  <2>1. Len(handled') = 0
    BY <1>2
  <2>2. Reassembled'
    BY <2>1 DEF Reassembled
  <2>3. DatagramsApart'
    BY <1>2 DEF StreamInv, DatagramsApart, Contiguous
  <2> QED
    BY <2>2, <2>3
<1>4. \A k \in Incs : (isUdp' \/ k > inc') => tempBuf'[k] = <<>>
  BY <1>1, <1>2 DEF StreamInv, StreamInOrder, Incs
<1>5. PICK f : f = [j \in 0 .. 0 |-> 0]
  BY Zenon
<1>6. f \in [0 .. Len(hander') -> 0 .. MaxUnits] /\ f[0] = 0 /\ Len(hander') = 0
  BY <1>2, <1>5, Sizes
<1>7. Chunks(inc', hander', f)
  BY <1>6 DEF Chunks
<1>8. recvpc'[inc'] = "open" /\ handpc'[inc'] = "select"
  BY <1>1 DEF restart, ControlType
<1>9. ReadNext(f[Len(hander')])
  BY <1>2, <1>6, <1>8 DEF ReadNext
<1>10. tempBuf'[inc'] = <<>>
  BY <1>1, <1>2 DEF StreamInv, StreamInOrder
<1>11. Run(inc', 0, 0) = <<>>
  BY <1>1, RunEmpty
<1>12. Len(handled') * MsgUnits = 0
  BY <1>2, Sizes
<1>13. ParsedNext(f[0], Len(handled') * MsgUnits)
  BY <1>6, <1>8, <1>10, <1>11, <1>12 DEF ParsedNext
<1>14. StreamInOrder'
  BY <1>4, <1>6, <1>7, <1>9, <1>13, StreamNext
<1> QED
  BY <1>3, <1>14 DEF StreamInv

LEMMA StreamRead ==
  ASSUME ControlType, DataType, StreamInv, inc > 0, inc \in Incs, RecvRead(inc)
  PROVE  StreamInv'
<1>1. UNCHANGED <<isUdp, inc, hander, handpc, hbuf, tempBuf, handled, rejected>>
  BY DEF RecvRead, chanVars, handVars
<1>2. PICK f \in [0 .. Len(hander) -> 0 .. MaxUnits] :
        Chunks(inc, hander, f) /\ ReadUpTo(f[Len(hander)]) /\ ParsedUpTo(f[0])
  BY DEF StreamInv, StreamInOrder
<1>3. PICK b \in 0 .. MaxUnits : got < b /\ got' = b /\ rbuf' = [rbuf EXCEPT ![inc] = Run(inc, got, b)]
  BY RecvReadUnits
<1>4. recvpc[inc] = "read" /\ recvpc'[inc] = "push" /\ got \in Nat
  BY Sizes DEF RecvRead, ControlType, DataType
<1>5. f[Len(hander)] = got
  BY <1>2, <1>4 DEF ReadUpTo
<1>6. rbuf'[inc] = Run(inc, got, b)
  BY <1>3 DEF DataType
<1>7. ReadNext(f[Len(hander')])
  BY <1>1, <1>3, <1>4, <1>5, <1>6 DEF ReadNext
<1>8. ParsedNext(f[0], Len(handled') * MsgUnits)
  BY <1>1, <1>2 DEF ParsedUpTo, ParsedNext
<1>9. Reassembled' /\ DatagramsApart'
  BY <1>1, Zenon DEF StreamInv, Reassembled, DatagramsApart, Message, Contiguous
<1>10. \A k \in Incs : (isUdp' \/ k > inc') => tempBuf'[k] = <<>>
  BY <1>1 DEF StreamInv, StreamInOrder
<1>11. Chunks(inc', hander', f) /\ f \in [0 .. Len(hander') -> 0 .. MaxUnits]
  BY <1>1, <1>2
<1> QED
  BY <1>7, <1>8, <1>9, <1>10, <1>11, StreamNext DEF StreamInv

LEMMA StreamPush ==
  ASSUME ControlType, DataType, StreamInv, inc > 0, inc \in Incs, RecvPush(inc)
  PROVE  StreamInv'
<1>1. /\ UNCHANGED <<isUdp, inc, handpc, hbuf, tempBuf, handled, rejected, got>>
      /\ hander' = Append(hander, rbuf[inc])
  BY DEF RecvPush, handVars
<1>2. PICK f \in [0 .. Len(hander) -> 0 .. MaxUnits] :
        Chunks(inc, hander, f) /\ ReadUpTo(f[Len(hander)]) /\ ParsedUpTo(f[0])
  BY DEF StreamInv, StreamInOrder
<1>3. recvpc[inc] = "push" /\ recvpc'[inc] = "read" /\ got \in 0 .. MaxUnits
  BY DEF RecvPush, ControlType, DataType
<1>4. f[Len(hander)] <= got /\ rbuf[inc] = Run(inc, f[Len(hander)], got)
  BY <1>2, <1>3 DEF ReadUpTo
<1>5. inc \in Nat /\ hander \in Seq(Seq(Units)) /\ rbuf[inc] \in Seq(Units)
  BY DEF ControlType, DataType
<1>6. PICK g \in [0 .. Len(hander') -> 0 .. MaxUnits] :
        Chunks(inc, hander', g) /\ g[0] = f[0] /\ g[Len(hander')] = got
  <2>1. \E g \in [0 .. Len(Append(hander, rbuf[inc])) -> 0 .. MaxUnits] :
          /\ Chunks(inc, Append(hander, rbuf[inc]), g)
          /\ g[0] = f[0] /\ g[Len(Append(hander, rbuf[inc]))] = got
    BY <1>2, <1>3, <1>4, <1>5, LastChunk, ZenonT(40)
  <2> QED
    BY <1>1, <2>1, Zenon
<1>7. ReadNext(g[Len(hander')])
  BY <1>1, <1>3, <1>6 DEF ReadNext
<1>8. ParsedNext(g[0], Len(handled') * MsgUnits)
  BY <1>1, <1>2, <1>6 DEF ParsedUpTo, ParsedNext
<1>9. Reassembled' /\ DatagramsApart'
  BY <1>1, Zenon DEF StreamInv, Reassembled, DatagramsApart, Message, Contiguous
<1>10. \A k \in Incs : (isUdp' \/ k > inc') => tempBuf'[k] = <<>>
  BY <1>1 DEF StreamInv, StreamInOrder
<1>11. Chunks(inc', hander', g)
  BY <1>1, <1>6
<1> QED
  BY <1>7, <1>8, <1>9, <1>10, <1>11, StreamNext DEF StreamInv

LEMMA StreamTake ==
  ASSUME ControlType, DataType, StreamInv, inc > 0, inc \in Incs, HandTake(inc)
  PROVE  StreamInv'
<1>1. /\ UNCHANGED <<isUdp, inc, recvpc, rbuf, got, tempBuf, handled, rejected>>
      /\ hander # <<>> /\ hander' = Tail(hander)
      /\ hbuf' = [hbuf EXCEPT ![inc] = tempBuf[inc] \o Head(hander)]
  BY DEF HandTake, recvVars
<1>2. PICK f \in [0 .. Len(hander) -> 0 .. MaxUnits] :
        Chunks(inc, hander, f) /\ ReadUpTo(f[Len(hander)]) /\ ParsedUpTo(f[0])
  BY DEF StreamInv, StreamInOrder
<1>3. handpc[inc] = "select" /\ handpc'[inc] = "parse"
  BY DEF HandTake, ControlType
<1>4. /\ inc \in Nat /\ hander \in Seq(Seq(Units)) /\ Head(hander) \in Seq(Units)
      /\ hbuf \in [Incs -> Seq(Units)]
  <2>1. /\ inc \in Nat /\ hander \in Seq(Seq(Units)) /\ hbuf \in [Incs -> Seq(Units)]
    BY DEF ControlType, DataType
  <2> QED
    BY <1>1, <2>1
<1>5. /\ f[0] \in Nat /\ f[1] \in Nat /\ f[0] <= f[1] /\ Head(hander) = Run(inc, f[0], f[1])
      /\ \E g \in [0 .. Len(Tail(hander)) -> 0 .. MaxUnits] :
           Chunks(inc, Tail(hander), g) /\ g[0] = f[1] /\ g[Len(Tail(hander))] = f[Len(hander)]
  BY <1>1, <1>2, <1>4, FirstChunk, Zenon
<1>6. PICK g \in [0 .. Len(hander') -> 0 .. MaxUnits] :
        Chunks(inc, hander', g) /\ g[0] = f[1] /\ g[Len(hander')] = f[Len(hander)]
  BY <1>1, <1>5, Zenon
<1>7. ReadNext(g[Len(hander')])
  BY <1>1, <1>2, <1>6 DEF ReadNext, ReadUpTo
<1>8. hbuf'[inc] = tempBuf[inc] \o Head(hander)
  BY <1>1, <1>4, Zenon
<1>9. ParsedNext(g[0], Len(handled') * MsgUnits)
  <2> SUFFICES ASSUME ~isUdp, ~rejected, NEW b, b = Len(handled) * MsgUnits
               PROVE  b <= f[1] /\ hbuf'[inc] = Run(inc, b, f[1])
    BY <1>1, <1>3, <1>6 DEF ParsedNext
  <2>1. b \in Nat
    BY Sizes DEF DataType
  <2>2. b <= f[0] /\ tempBuf[inc] = Run(inc, b, f[0])
    BY <1>2, <1>3 DEF ParsedUpTo
  <2>3. /\ inc \in Nat /\ f[0] \in Nat /\ f[1] \in Nat /\ f[0] <= f[1]
        /\ IsRun(tempBuf[inc], inc, b, f[0]) /\ IsRun(Head(hander), inc, f[0], f[1])
    BY <1>4, <1>5, <2>2, Zenon DEF IsRun
  <2>4. IsRun(tempBuf[inc] \o Head(hander), inc, b, f[1])
    BY <2>1, <2>2, <2>3, ConcatRuns, Zenon
  <2>5. b <= f[1]
    BY <2>1, <2>2, <2>3
  <2> QED
    BY <1>8, <2>4, <2>5, Zenon DEF IsRun
<1>10. DatagramsApart'
  <2> SUFFICES ASSUME isUdp, NEW k \in Incs PROVE Contiguous(hbuf'[k])
    BY <1>1 DEF DatagramsApart, Contiguous
  <2>1. CASE k = inc
    <3>1. tempBuf[inc] = <<>>
      BY DEF StreamInv, StreamInOrder
    <3>2. hbuf'[inc] = Head(hander)
      BY <1>4, <1>8, <3>1
    <3>3. Contiguous(Run(inc, f[0], f[1]))
      BY <1>4, <1>5, RunContiguous
    <3> QED
      BY <1>5, <2>1, <3>2, <3>3
  <2>2. CASE k # inc
    BY <1>1, <1>4, <2>2 DEF StreamInv, DatagramsApart
  <2> QED
    BY <2>1, <2>2
<1>11. Reassembled'
  BY <1>1 DEF StreamInv, Reassembled, Message
<1>12. \A k \in Incs : (isUdp' \/ k > inc') => tempBuf'[k] = <<>>
  BY <1>1 DEF StreamInv, StreamInOrder
<1>13. Chunks(inc', hander', g)
  BY <1>1, <1>6
<1> QED
  BY <1>7, <1>9, <1>10, <1>11, <1>12, <1>13, StreamNext DEF StreamInv

\* What dohand parses when closer is closed is the rest of the stream, or its
\* start.
LEMMA LastData ==
  ASSUME ControlType, DataType, inc > 0, inc \in Incs, HandLast(inc),
         NEW f \in [0 .. Len(hander) -> 0 .. MaxUnits], Chunks(inc, hander, f), ParsedUpTo(f[0])
  PROVE  \E e \in Nat, s \in Seq(Units) :
           /\ ~isUdp /\ ~rejected =>
                Len(handled) * MsgUnits <= e /\ s = Run(inc, Len(handled) * MsgUnits, e)
           /\ \/ handled' = handled
              \/ Len(s) >= MsgUnits /\ handled' = Append(handled, SubSeq(s, 1, MsgUnits))
<1>1. PICK s : s = tempBuf[inc] \o (IF hander = <<>> THEN <<>> ELSE Head(hander))
  OBVIOUS
<1>2. \/ handled' = handled
      \/ Len(s) >= MsgUnits /\ handled' = Append(handled, SubSeq(s, 1, MsgUnits))
  BY <1>1, Zenon DEF HandLast
<1>3. handpc[inc] = "select"
  BY DEF HandLast
<1>4. inc \in Nat /\ hander \in Seq(Seq(Units)) /\ tempBuf[inc] \in Seq(Units)
  BY DEF ControlType, DataType
<1>5. PICK b \in Nat : b = Len(handled) * MsgUnits
  BY Sizes DEF DataType
<1>6. ~isUdp /\ ~rejected => b <= f[0] /\ tempBuf[inc] = Run(inc, b, f[0])
  BY <1>3, <1>5 DEF ParsedUpTo
<1>7. CASE hander = <<>>
  <2>1. s = tempBuf[inc]
    BY <1>1, <1>4, <1>7
  <2>2. f[0] \in Nat
    BY <1>4, <1>7, Sizes
  <2> QED
    BY <1>2, <1>4, <1>5, <1>6, <2>1, <2>2, Zenon
<1>8. CASE hander # <<>>
  <2>0. Head(hander) \in Seq(Units)
    BY <1>4, <1>8
  <2>1. s = tempBuf[inc] \o Head(hander) /\ Head(hander) \in Seq(Units)
    BY <1>1, <1>8, <2>0, Zenon
  <2>2. s \in Seq(Units)
    BY <1>4, <2>1
  <2>3. f[0] \in Nat /\ f[1] \in Nat /\ f[0] <= f[1] /\ Head(hander) = Run(inc, f[0], f[1])
    BY <1>4, <1>8, FirstChunk, Zenon
  <2>4. ASSUME ~isUdp, ~rejected PROVE b <= f[1] /\ s = Run(inc, b, f[1])
    <3>1. b <= f[0] /\ IsRun(tempBuf[inc], inc, b, f[0]) /\ IsRun(Head(hander), inc, f[0], f[1])
      BY <1>6, <2>3, <2>4, Zenon DEF IsRun
    <3>2. f[0] \in Nat /\ f[1] \in Nat /\ f[0] <= f[1]
      BY <2>3
    <3>3. IsRun(tempBuf[inc] \o Head(hander), inc, b, f[1])
      BY <1>4, <3>1, <3>2, ConcatRuns, Zenon
    <3>4. b <= f[1]
      BY <3>1, <3>2
    <3> QED
      BY <2>1, <3>3, <3>4, Zenon DEF IsRun
  <2>5. ~isUdp /\ ~rejected =>
          Len(handled) * MsgUnits <= f[1] /\ s = Run(inc, Len(handled) * MsgUnits, f[1])
    BY <1>5, <2>4, Zenon
  <2> QED
    BY <1>2, <2>2, <2>3, <2>5, Zenon
<1> QED
  BY <1>7, <1>8, Zenon

LEMMA StreamLast ==
  ASSUME ControlType, DataType, StreamInv, inc > 0, inc \in Incs, HandLast(inc)
  PROVE  StreamInv'
<1>1. /\ UNCHANGED <<isUdp, inc, recvpc, rbuf, hbuf, got, rejected>>
      /\ hander' = IF hander = <<>> THEN hander ELSE Tail(hander)
      /\ tempBuf' = [tempBuf EXCEPT ![inc] = <<>>]
  BY DEF HandLast, recvVars
<1>2. PICK f \in [0 .. Len(hander) -> 0 .. MaxUnits] :
        Chunks(inc, hander, f) /\ ReadUpTo(f[Len(hander)]) /\ ParsedUpTo(f[0])
  BY DEF StreamInv, StreamInOrder
<1>3. /\ inc \in Nat /\ hander \in Seq(Seq(Units)) /\ handled \in Seq(Seq(Units))
      /\ handpc'[inc] = "ended"
  BY DEF HandLast, ControlType, DataType
<1>4. PICK g \in [0 .. Len(hander') -> 0 .. MaxUnits] :
        Chunks(inc, hander', g) /\ g[Len(hander')] = f[Len(hander)]
  <2>1. CASE hander = <<>>
    BY <1>1, <1>2, <2>1, Zenon
  <2>2. CASE hander # <<>>
    <3>1. \E g \in [0 .. Len(Tail(hander)) -> 0 .. MaxUnits] :
            Chunks(inc, Tail(hander), g) /\ g[0] = f[1] /\ g[Len(Tail(hander))] = f[Len(hander)]
      BY <1>2, <1>3, <2>2, FirstChunk, Zenon
    <3> QED
      BY <1>1, <2>2, <3>1, Zenon
  <2> QED
    BY <2>1, <2>2
<1>5. ReadNext(g[Len(hander')])
  BY <1>1, <1>2, <1>4 DEF ReadNext, ReadUpTo
<1>6. ParsedNext(g[0], Len(handled') * MsgUnits)
  BY <1>1, <1>3 DEF ParsedNext
<1>7. Reassembled'
  <2>1. PICK e \in Nat, s \in Seq(Units) :
           /\ ~isUdp /\ ~rejected =>
                Len(handled) * MsgUnits <= e /\ s = Run(inc, Len(handled) * MsgUnits, e)
           /\ \/ handled' = handled
              \/ Len(s) >= MsgUnits /\ handled' = Append(handled, SubSeq(s, 1, MsgUnits))
    BY <1>2, LastData
  <2>2. CASE handled' = handled
    BY <1>1, <2>2 DEF StreamInv, Reassembled, Message
  <2>3. CASE Len(s) >= MsgUnits /\ handled' = Append(handled, SubSeq(s, 1, MsgUnits))
    BY <1>1, <1>3, <2>1, <2>3, HandsOn, Zenon DEF StreamInv
  <2> QED
    BY <2>1, <2>2, <2>3
<1>8. DatagramsApart'
  BY <1>1 DEF StreamInv, DatagramsApart, Contiguous
<1>9. \A k \in Incs : (isUdp' \/ k > inc') => tempBuf'[k] = <<>>
  BY <1>1 DEF StreamInv, StreamInOrder, DataType
<1>10. Chunks(inc', hander', g)
  BY <1>1, <1>4
<1> QED
  BY <1>5, <1>6, <1>7, <1>8, <1>9, <1>10, StreamNext DEF StreamInv

LEMMA StreamOne ==
  ASSUME ControlType, DataType, StreamInv, inc > 0, inc \in Incs, ParseOne(inc)
  PROVE  StreamInv'
<1>1. /\ UNCHANGED <<isUdp, inc, recvpc, rbuf, got, hander, rejected>>
      /\ handpc[inc] = "parse" /\ Len(hbuf[inc]) >= MsgUnits
      /\ handled' = Append(handled, SubSeq(hbuf[inc], 1, MsgUnits))
  BY DEF ParseOne, recvVars, chanVars
<1>2. PICK f \in [0 .. Len(hander) -> 0 .. MaxUnits] :
        Chunks(inc, hander, f) /\ ReadUpTo(f[Len(hander)]) /\ ParsedUpTo(f[0])
  BY DEF StreamInv, StreamInOrder
<1>3. /\ inc \in Nat /\ hander \in Seq(Seq(Units)) /\ handled \in Seq(Seq(Units))
      /\ hbuf \in [Incs -> Seq(Units)] /\ tempBuf \in [Incs -> Seq(Units)]
      /\ handpc \in [Incs -> HandPC]
  BY SMTT(60) DEF ControlType, DataType
<1>4. f[0] \in Nat
  <2>1. Len(hander) \in Nat /\ 0 \in 0 .. Len(hander) /\ 0 .. MaxUnits \subseteq Nat
    BY <1>3, Sizes
  <2> QED
    BY <2>1, Zenon
<1>5. ~isUdp /\ ~rejected =>
        Len(handled) * MsgUnits <= f[0] /\ hbuf[inc] = Run(inc, Len(handled) * MsgUnits, f[0])
  BY <1>1, <1>2 DEF ParsedUpTo
<1>6. PICK s \in Seq(Units) : s = hbuf[inc]
  BY <1>3
<1>7. /\ Reassembled'
      /\ ~isUdp /\ ~rejected =>
           /\ Len(handled') * MsgUnits <= f[0]
           /\ Rest(s, MsgUnits) = Run(inc, Len(handled') * MsgUnits, f[0])
  BY <1>1, <1>3, <1>4, <1>5, <1>6, HandsOn, Zenon DEF StreamInv
<1>8. \/ /\ Len(s) = MsgUnits /\ tempBuf' = [tempBuf EXCEPT ![inc] = <<>>]
         /\ hbuf' = [hbuf EXCEPT ![inc] = <<>>] /\ handpc' = [handpc EXCEPT ![inc] = "select"]
      \/ /\ hbuf' = [hbuf EXCEPT ![inc] = Rest(s, MsgUnits)] /\ UNCHANGED <<tempBuf, handpc>>
  BY <1>6, Zenon DEF ParseOne, Rest
<1>9. Len(s) = MsgUnits => Rest(s, MsgUnits) = <<>>
  BY Sizes DEF Rest
<1>10. \/ handpc'[inc] = "select" /\ tempBuf'[inc] = Rest(s, MsgUnits)
       \/ handpc'[inc] = "parse" /\ hbuf'[inc] = Rest(s, MsgUnits)
  BY <1>1, <1>3, <1>8, <1>9
<1>11. ParsedNext(f[0], Len(handled') * MsgUnits)
  BY <1>1, <1>7, <1>10 DEF ParsedNext
<1>12. ReadNext(f[Len(hander')])
  BY <1>1, <1>2 DEF ReadNext, ReadUpTo
<1>13. DatagramsApart'
  <2> SUFFICES ASSUME isUdp, NEW k \in Incs PROVE Contiguous(hbuf'[k])
    BY <1>1, Zenon DEF DatagramsApart, Contiguous
  <2>1. CASE k = inc
    <3>1. Contiguous(s) /\ MsgUnits \in Nat /\ MsgUnits <= Len(s)
      BY <1>1, <1>6, Sizes DEF StreamInv, DatagramsApart
    <3>2. Contiguous(Rest(s, MsgUnits))
      BY <3>1, SuffixContiguous
    <3>3. hbuf'[inc] = Rest(s, MsgUnits)
      BY <1>3, <1>8, <1>9
    <3> QED
      BY <2>1, <3>2, <3>3
  <2>2. CASE k # inc
    <3>1. hbuf'[k] = hbuf[k]
      BY <1>3, <1>8, <2>2
    <3> QED
      BY <3>1 DEF StreamInv, DatagramsApart
  <2> QED
    BY <2>1, <2>2
<1>14. \A k \in Incs : (isUdp' \/ k > inc') => tempBuf'[k] = <<>>
  BY <1>1, <1>3, <1>8, Zenon DEF StreamInv, StreamInOrder
<1>15. Chunks(inc', hander', f) /\ f \in [0 .. Len(hander') -> 0 .. MaxUnits]
  BY <1>1, <1>2
<1> QED
  BY <1>7, <1>11, <1>12, <1>13, <1>14, <1>15, StreamNext DEF StreamInv

\* ParseMsg needs more, refuses the data, or panics: nothing is handed on.
LEMMA StreamStop ==
  ASSUME ControlType, DataType, StreamInv, inc > 0, inc \in Incs,
         ParseNone(inc) \/ ParseReject(inc) \/ ParsePanic(inc)
  PROVE  StreamInv'
<1> USE DEF ParseNone, ParseReject, ParsePanic
<1>1. /\ UNCHANGED <<isUdp, inc, recvpc, rbuf, got, hander, handled>>
      /\ handpc[inc] = "parse" /\ hbuf' = [hbuf EXCEPT ![inc] = <<>>]
  BY DEF recvVars, chanVars
<1>2. PICK f \in [0 .. Len(hander) -> 0 .. MaxUnits] :
        Chunks(inc, hander, f) /\ ReadUpTo(f[Len(hander)]) /\ ParsedUpTo(f[0])
  BY DEF StreamInv, StreamInOrder
<1>3. /\ hbuf \in [Incs -> Seq(Units)] /\ tempBuf \in [Incs -> Seq(Units)]
      /\ handpc \in [Incs -> HandPC]
  BY Zenon DEF ControlType, DataType
<1>4. ReadNext(f[Len(hander')])
  BY <1>1, <1>2 DEF ReadNext, ReadUpTo
<1>5. ParsedNext(f[0], Len(handled') * MsgUnits)
  <2>1. CASE ParseNone(inc)
    <3>1. rejected' = rejected /\ handpc'[inc] = "select" /\ (~isUdp => tempBuf'[inc] = hbuf[inc])
      BY <1>3, <2>1
    <3> QED
      BY <1>1, <1>2, <3>1 DEF ParsedUpTo, ParsedNext
  <2>2. CASE ParseReject(inc)
    BY <2>2 DEF ParsedNext
  <2>3. CASE ParsePanic(inc)
    <3>1. handpc'[inc] = "ended"
      BY <1>3, <2>3
    <3> QED
      BY <1>1, <3>1 DEF ParsedNext
  <2> QED
    BY <2>1, <2>2, <2>3, Zenon
<1>6. Reassembled'
  <2>1. ~rejected' => ~rejected
    BY Zenon
  <2>2. isUdp' = isUdp /\ inc' = inc /\ handled' = handled
    BY <1>1
  <2>3. Reassembled
    BY DEF StreamInv
  <2> QED
    BY <2>1, <2>2, <2>3, SMTT(60) DEF Reassembled, Message
<1>7. DatagramsApart'
  <2>1. \A k \in Incs : hbuf'[k] = hbuf[k] \/ hbuf'[k] = <<>>
    BY <1>1, <1>3
  <2>2. Contiguous(<<>>)
    BY DEF Contiguous
  <2>3. ASSUME NEW k \in Incs, isUdp'
        PROVE  Contiguous(hbuf'[k])
    <3>1. Contiguous(hbuf[k])
      BY <1>1, <2>3 DEF StreamInv, DatagramsApart
    <3> QED
      BY <2>1, <2>2, <3>1
  <2> QED
    BY <2>3, Zenon DEF DatagramsApart, Contiguous
<1>8. \A k \in Incs : (isUdp' \/ k > inc') => tempBuf'[k] = <<>>
  <2>1. \A k \in Incs : \/ tempBuf'[k] = tempBuf[k] \/ tempBuf'[k] = <<>>
                        \/ ~isUdp /\ k = inc
    BY <1>3
  <2>2. inc \in Nat
    BY DEF ControlType
  <2>3. \A k \in Incs : (isUdp \/ k > inc) => tempBuf[k] = <<>>
    BY DEF StreamInv, StreamInOrder
  <2>4. ~(inc > inc)
    BY <2>2
  <2>5. isUdp' = isUdp /\ inc' = inc
    BY <1>1
  <2> QED
    BY <2>1, <2>3, <2>4, <2>5, Zenon
<1>9. Chunks(inc', hander', f) /\ f \in [0 .. Len(hander') -> 0 .. MaxUnits]
  BY <1>1, <1>2
<1> QED
  BY <1>4, <1>5, <1>6, <1>7, <1>8, <1>9, StreamNext DEF StreamInv

LEMMA StreamStep == SendInv /\ StreamInv /\ [Next]_vars => StreamInv'
<1> SUFFICES ASSUME SendInv, StreamInv, [Next]_vars PROVE StreamInv'
  OBVIOUS
<1>1. ControlType /\ Lifecycle /\ DataType
  BY DEF SendInv
<1>2. CASE UNCHANGED vars
  BY <1>1, <1>2, StreamKept DEF vars
<1>3. CASE restart
  BY <1>1, <1>3, StreamRestart
<1>4. CASE Send \/ Close \/ PeerCloses
  BY <1>1, <1>4, StreamKept DEF Send, Close, PeerCloses, chanVars, handVars, recvVars
<1>5. ASSUME NEW k \in Incs, dosend(k) PROVE StreamInv'
  BY <1>1, <1>5, StreamKept DEF dosend, SendQuit, SendTake, SendWrite, SendError, chanVars, handVars, recvVars
<1>6. ASSUME NEW k \in Incs, dorecv(k) \/ DataArrives(k) PROVE StreamInv'
  <2>1. k = inc /\ inc > 0 /\ inc \in Incs
    BY <1>1, <1>6, CurrentOnly DEF dorecv, DataArrives, RecvOpen, RecvRead, RecvError, RecvEmpty, RecvPush,
                     RecvClose, RecvWait, RecvEvent, RecvOnClose, Running
  <2>2. CASE RecvRead(k)
    BY <1>1, <2>1, <2>2, StreamRead
  <2>3. CASE RecvPush(k)
    BY <1>1, <2>1, <2>3, StreamPush
  <2>4. CASE \/ RecvOpen(k) \/ RecvError(k) \/ RecvEmpty(k)
             \/ RecvClose(k) \/ RecvWait(k) \/ RecvEvent(k) \/ RecvOnClose(k)
    <3>1. UNCHANGED <<isUdp, inc, hander, handpc, rbuf, hbuf, tempBuf, got, handled, rejected>>
      BY <2>4 DEF RecvOpen, RecvError, RecvEmpty, RecvClose, RecvWait, RecvEvent, RecvOnClose,
                  chanVars, handVars
    <3>2. recvpc[inc] # "push" /\ recvpc'[inc] # "push"
      BY <1>1, <2>1, <2>4 DEF RecvOpen, RecvError, RecvEmpty, RecvClose, RecvWait, RecvEvent, RecvOnClose,
                              ControlType
    <3> QED
      BY <1>1, <3>1, <3>2, StreamKept
  <2> QED
    BY <1>6, <2>2, <2>3, <2>4 DEF dorecv, DataArrives
<1>7. ASSUME NEW k \in Incs, dohand(k) PROVE StreamInv'
  <2>1. k = inc /\ inc > 0 /\ inc \in Incs
    BY <1>1, <1>7, CurrentOnly, Zenon
       DEF dohand, HandTake, HandLast, ParseOne, ParseNone, ParseReject, ParsePanic, Running
  <2> QED
    BY <1>1, <1>7, <2>1, StreamTake, StreamLast, StreamOne, StreamStop DEF dohand
<1> QED
  BY <1>2, <1>3, <1>4, <1>5, <1>6, <1>7 DEF Next, Step

(***************************************************************************)
(* What is received is handed on intact, whatever cuts the network makes   *)
(* in the stream: messages of a TCP connection come out whole, in order    *)
(* and without a gap, a datagram is never glued to another, and channels   *)
(* and buffers stay within their bounds (session.go:331-399).              *)
(***************************************************************************)
THEOREM ReceivedIntactHolds == Spec => []ReceivedIntact
<1>1. SendInv /\ StreamInv => ReceivedIntact
  BY DEF SendInv, StreamInv, ReceivedIntact, TypeOK
<1> QED
  BY <1>1, SendInvHolds, StreamInit, StreamStep, PTL DEF Spec
=============================================================================
