------------------------ MODULE DispatchOrderProofs ------------------------
(***************************************************************************)
(* Sessions are handled in order, for any number of threads, services,     *)
(* sessions and callers, any hash and any queue length.                    *)
(***************************************************************************)
EXTENDS DispatchProofs

LEMMA AppendFacts ==
  ASSUME NEW S, NEW q \in Seq(S), NEW m \in S
  PROVE  /\ Append(q, m) \in Seq(S)
         /\ Append(q, m) # << >>
         /\ Len(Append(q, m)) = Len(q) + 1
         /\ \A k \in 1 .. Len(q) : Append(q, m)[k] = q[k]
         /\ Append(q, m)[Len(q) + 1] = m
OBVIOUS

LEMMA HeadTailFacts ==
  ASSUME NEW S, NEW q \in Seq(S), q # << >>
  PROVE  /\ Head(q) \in S /\ Head(q) = q[1]
         /\ Tail(q) \in Seq(S)
         /\ Len(Tail(q)) = Len(q) - 1
         /\ \A k \in 1 .. Len(Tail(q)) : Tail(q)[k] = q[k + 1]
OBVIOUS

LEMMA SystemIsNoMsg == \A m \in Msg : m # System /\ m.kind # "System"
BY DEF Msg, Kinds, System

\* What a step may do to a message that stays queued.
Kept ==
  /\ \A p \in Producers : sent[p] <= sent'[p]
  /\ \A p \in Producers : ppc[p] \in {"lastsignal", "gone"} => ppc'[p] \in {"lastsignal", "gone"}

LEMMA QueuedKept ==
  ASSUME TypeOK, TypeOK', Kept, NEW s, NEW th, NEW m \in Msg, Queued(s, th, m),
         m.kind = "Data" => last'[m.from] < m.n
  PROVE  Queued(s, th, m)'
<1>1. m.from \in Producers /\ m.n \in Nat
  BY DEF Msg
<1>2. sent[m.from] \in Nat /\ sent'[m.from] \in Nat
  BY <1>1 DEF TypeOK
<1> QED
  BY <1>1, <1>2 DEF Kept, Queued

LEMMA QueueMessages ==
  ASSUME TypeOK, NEW s \in Services, NEW th \in Threads
  PROVE  /\ messageQ[s][th] \in Seq(Msg \cup {System})
         /\ Len(messageQ[s][th]) \in Nat
         /\ \A k \in 1 .. Len(messageQ[s][th]) : messageQ[s][th][k] \in Msg \cup {System}
<1>1. messageQ[s][th] \in Seq(Msg \cup {System})
  BY DEF TypeOK
<1> QED
  BY <1>1

LEMMA QueueInOrderNext ==
  ASSUME NEW s, NEW th, NEW r, r = messageQ'[s][th],
         \A k \in 1 .. Len(r) : r[k] # System => Queued(s, th, r[k])',
         \A j, k \in 1 .. Len(r) : j < k => Before(r[j], r[k])
  PROVE  QueueInOrder(s, th)'
BY DEF QueueInOrder, Queued, Before

\* Steps that leave the queues and what was handled alone.
LEMMA OrderKept ==
  ASSUME TypeOK, TypeOK', OrderInv, Kept, UNCHANGED <<messageQ, last, closed>>
  PROVE  OrderInv'
<1>1. \A p \in Producers : last'[p] <= sent'[p]
  BY DEF OrderInv, Kept, TypeOK
<1>2. \A p \in closed' : ppc'[p] \in {"lastsignal", "gone"}
  <2>1. \A p \in closed : p \in Producers /\ ppc[p] \in {"lastsignal", "gone"}
    BY DEF OrderInv, TypeOK
  <2> QED
    BY <2>1 DEF Kept
<1>3. ASSUME NEW s \in Services, NEW th \in Threads
      PROVE  QueueInOrder(s, th)'
  <2>1. QueueInOrder(s, th) /\ messageQ'[s][th] = messageQ[s][th]
    BY DEF OrderInv
  <2>2. \A m \in Msg : Queued(s, th, m) => Queued(s, th, m)'
    BY QueuedKept DEF Queued
  <2> QED
    BY <2>1, <2>2, QueueMessages, QueueInOrderNext DEF QueueInOrder
<1>4. CloseIsLast'
  BY DEF OrderInv, CloseIsLast
<1> QED
  BY <1>1, <1>2, <1>3, <1>4 DEF OrderInv

\* The next message of a producer comes after those it has queued.
LEMMA BeforeNext ==
  ASSUME TypeOK, NEW p \in Producers, ppc[p] = "run", NEW kind \in Kinds,
         NEW s, NEW th, NEW a \in Msg \cup {System}, a # System => Queued(s, th, a)
  PROVE  Before(a, NextMsg(p, kind))
<1> SUFFICES ASSUME a \in Msg, a.from = p, Queued(s, th, a)
             PROVE  a.n < NextMsg(p, kind).n /\ a.kind # "Close"
  BY DEF Before, NextMsg
<1>1. a.n \in Nat /\ a.n <= sent[p] /\ sent[p] \in Nat
  BY DEF Queued, Msg, TypeOK
<1>2. a.kind # "Close"
  BY DEF Queued
<1> QED
  BY <1>1, <1>2 DEF NextMsg

\* A producer that is not done pushes its next message.
LEMMA OrderPush ==
  ASSUME TypeOK, TypeOK', OrderInv, Kept, UNCHANGED <<last, closed>>,
         NEW p \in Producers, NEW kind \in Kinds, ppc[p] = "run",
         Push(SvcOf[p], Target(p, kind), NextMsg(p, kind)),
         sent' = [sent EXCEPT ![p] = @ + 1],
         kind = "Close" => ppc'[p] = "lastsignal"
  PROVE  OrderInv'
<1> DEFINE s0 == SvcOf[p]
           t0 == Target(p, kind)
<1>0. PICK m : m = NextMsg(p, kind)
  OBVIOUS
<1>1. m \in Msg /\ m.from = p /\ m.kind = kind /\ m.n = sent[p] + 1 /\ sent'[p] = m.n
  BY <1>0 DEF NextMsg, Msg, TypeOK
<1>2. s0 \in Services /\ t0 \in Threads
  BY DispatchAssumption, TargetIsThread
<1>3. /\ messageQ'[s0][t0] = Append(messageQ[s0][t0], m)
      /\ \A s \in Services, th \in Threads :
           <<s, th>> # <<s0, t0>> => messageQ'[s][th] = messageQ[s][th]
  BY <1>0, <1>2, Zenon DEF Push, TypeOK
<1>4. \A q \in Producers : last'[q] <= sent'[q]
  BY DEF OrderInv, Kept, TypeOK
<1>5. \A q \in closed' : ppc'[q] \in {"lastsignal", "gone"}
  <2>1. \A q \in closed : q \in Producers /\ ppc[q] \in {"lastsignal", "gone"}
    BY DEF OrderInv, TypeOK
  <2> QED
    BY <2>1 DEF Kept
<1>7. sent[p] \in Nat /\ last[p] \in Nat /\ last[p] <= sent[p]
  BY DEF OrderInv, TypeOK
<1>6. ASSUME NEW s \in Services, NEW th \in Threads
      PROVE  QueueInOrder(s, th)'
  <2> SUFFICES ASSUME NEW q, q = messageQ[s][th], NEW r, r = messageQ'[s][th]
               PROVE  QueueInOrder(s, th)'
    OBVIOUS
  <2>1. /\ q \in Seq(Msg \cup {System}) /\ Len(q) \in Nat
        /\ \A k \in 1 .. Len(q) : q[k] \in Msg \cup {System}
        /\ \A k \in 1 .. Len(q) : q[k] # System => Queued(s, th, q[k])
        /\ \A j, k \in 1 .. Len(q) : j < k => Before(q[j], q[k])
    BY QueueMessages DEF OrderInv, QueueInOrder
  <2>2. \A a \in Msg : Queued(s, th, a) => Queued(s, th, a)'
    BY QueuedKept DEF Queued
  <2>3. CASE r = q
    <3>1. \A k \in 1 .. Len(q) : q[k] # System => Queued(s, th, q[k])'
      BY <2>1, <2>2
    <3> QED
      BY <2>1, <2>3, <3>1, QueueInOrderNext, Zenon
  <2>4. CASE s = s0 /\ th = t0
    <3>2. /\ Len(r) = Len(q) + 1 /\ r[Len(q) + 1] = m
          /\ \A k \in 1 .. Len(q) : r[k] = q[k]
      <4>1. r = Append(q, m) /\ m \in Msg \cup {System}
        BY <1>1, <1>3, <2>4
      <4> QED
        BY <2>1, <4>1, AppendFacts, SMTT(60)
    <3>3. Queued(s, th, m)'
      <4>1. s = SvcOf[m.from] /\ th = Target(m.from, m.kind)
        BY <1>1, <2>4
      <4>2. m.n <= sent'[m.from] /\ last'[m.from] < m.n
        BY <1>1, <1>7
      <4>3. m.kind = "Close" => ppc'[m.from] \in {"lastsignal", "gone"}
        BY <1>1
      <4> QED
        BY <4>1, <4>2, <4>3 DEF Queued
    <3>4. \A k \in 1 .. Len(q) : Before(q[k], m)
      BY <1>0, <2>1, SystemIsNoMsg, BeforeNext, Zenon
    <3>5. \A k \in 1 .. Len(r) : k \in 1 .. Len(q) \/ k = Len(q) + 1
      BY <2>1, <3>2
    <3>6. ASSUME NEW j \in 1 .. Len(r), NEW k \in 1 .. Len(r), j < k
          PROVE  Before(r[j], r[k])
      <4>1. j \in 1 .. Len(q) /\ r[j] = q[j]
        BY <2>1, <3>2, <3>6
      <4> QED
        BY <2>1, <3>2, <3>4, <3>5, <3>6, <4>1
    <3>7. ASSUME NEW k \in 1 .. Len(r), r[k] # System
          PROVE  Queued(s, th, r[k])'
      <4>1. CASE k \in 1 .. Len(q)
        BY <2>1, <2>2, <3>2, <3>7, <4>1, Zenon
      <4> QED
        BY <3>2, <3>3, <3>5, <4>1
    <3> QED
      BY <3>6, <3>7, QueueInOrderNext
  <2> QED
    BY <1>3, <2>3, <2>4
<1>8. ASSUME NEW r \in Sessions, r \in closed, getProcessor(r) = ThreadId[SvcOf[r]],
             NEW s \in Services, NEW th \in Threads,
             NEW k \in 1 .. Len(messageQ'[s][th]), messageQ'[s][th][k] # System
      PROVE  messageQ'[s][th][k].from # r
  <2>1. r # p
    BY <1>8 DEF OrderInv
  <2>2. CASE messageQ'[s][th] = messageQ[s][th]
    BY <1>8, <2>2 DEF OrderInv, CloseIsLast
  <2>3. CASE s = s0 /\ th = t0
    <3>1. messageQ[s][th] \in Seq(Msg \cup {System}) /\ Len(messageQ[s][th]) \in Nat
      BY QueueMessages
    <3>2. m \in Msg \cup {System}
      BY <1>1
    <3>3. /\ Len(messageQ'[s][th]) = Len(messageQ[s][th]) + 1
          /\ messageQ'[s][th][Len(messageQ[s][th]) + 1] = m
          /\ \A l \in 1 .. Len(messageQ[s][th]) : messageQ'[s][th][l] = messageQ[s][th][l]
      <4>1. messageQ'[s][th] = Append(messageQ[s][th], m)
        BY <1>3, <2>3
      <4> QED
        BY <3>1, <3>2, <4>1, AppendFacts
    <3>4. CASE k \in 1 .. Len(messageQ[s][th])
      BY <1>8, <3>3, <3>4, Zenon DEF OrderInv, CloseIsLast
    <3>5. CASE k = Len(messageQ[s][th]) + 1
      BY <1>1, <2>1, <3>3, <3>5
    <3> QED
      BY <1>8, <3>1, <3>3, <3>4, <3>5, SMTT(60)
  <2> QED
    BY <1>3, <2>2, <2>3
<1>9. CloseIsLast'
  BY <1>8 DEF CloseIsLast
<1> QED
  BY <1>4, <1>5, <1>6, <1>9 DEF OrderInv

\* A thread takes the first message of a queue.
LEMMA OrderTake ==
  ASSUME TypeOK, TypeOK', OrderInv, Kept, NEW u \in Threads, Received(u),
         Record(Head(messageQ[at[u]][u]))
  PROVE  OrderInv'
<1>0. PICK s0 : s0 = at[u]
  OBVIOUS
<1>1. /\ s0 \in Services
      /\ messageQ[s0][u] \in Seq(Msg \cup {System}) /\ Len(messageQ[s0][u]) \in Nat
      /\ messageQ[s0][u] # <<>>
  <2>1. s0 \in Services
    BY <1>0 DEF Received, InCall
  <2> QED
    BY <1>0, <2>1, QueueMessages DEF Received
<1>2. /\ messageQ'[s0][u] = Tail(messageQ[s0][u])
      /\ \A s \in Services, th \in Threads :
           ~(s = s0 /\ th = u) => messageQ'[s][th] = messageQ[s][th]
  BY <1>0, <1>1 DEF Received, TypeOK
<1>3. PICK m : m = Head(messageQ[s0][u]) /\ m = messageQ[s0][u][1]
  BY <1>1
<1>4. m \in Msg \cup {System} /\ 1 \in 1 .. Len(messageQ[s0][u])
  BY <1>1, <1>3, HeadTailFacts
<1>5. m # System => m \in Msg /\ Queued(s0, u, m)
  BY <1>1, <1>3, <1>4 DEF OrderInv, QueueInOrder
<1>6. ASSUME NEW s \in Services, NEW th \in Threads, NEW k \in 1 .. Len(messageQ'[s][th])
      PROVE  \E l \in 1 .. Len(messageQ[s][th]) :
               /\ messageQ'[s][th][k] = messageQ[s][th][l]
               /\ s = s0 /\ th = u => l = k + 1 /\ l > 1
               /\ ~(s = s0 /\ th = u) => l = k
  <2>1. CASE s = s0 /\ th = u
    <3>1. Len(messageQ'[s0][u]) = Len(messageQ[s0][u]) - 1
      BY <1>1, <1>2, HeadTailFacts
    <3>2. k + 1 \in 1 .. Len(messageQ[s][th]) /\ k + 1 > 1
      BY <1>1, <1>6, <2>1, <3>1
    <3>3. messageQ'[s0][u][k] = messageQ[s0][u][k + 1]
      <4>1. k \in 1 .. Len(Tail(messageQ[s0][u]))
        BY <1>2, <1>6, <2>1, Zenon
      <4> QED
        BY <1>1, <1>2, <4>1, HeadTailFacts
    <3>4. /\ messageQ'[s][th][k] = messageQ[s][th][k + 1]
          /\ s = s0 /\ th = u => k + 1 = k + 1 /\ k + 1 > 1
          /\ ~(s = s0 /\ th = u) => k + 1 = k
      BY <2>1, <3>2, <3>3
    <3> QED
      BY <3>2, <3>4
  <2>2. CASE ~(s = s0 /\ th = u)
    BY <1>2, <2>2
  <2> QED
    BY <2>1, <2>2
\* What is left in the queues was queued before, behind m if in its queue.
<1>7. ASSUME NEW s \in Services, NEW th \in Threads, NEW k \in 1 .. Len(messageQ'[s][th]),
             NEW a, a = messageQ'[s][th][k], a # System
      PROVE  /\ a \in Msg /\ Queued(s, th, a)
             /\ m # System /\ s = s0 /\ th = u => Before(m, a)
             /\ \A r \in Sessions : CloseIsLast /\ r \in closed /\ getProcessor(r) = ThreadId[SvcOf[r]]
                  => a.from # r
  <2>1. PICK l \in 1 .. Len(messageQ[s][th]) :
          a = messageQ[s][th][l] /\ (s = s0 /\ th = u => l > 1)
    BY <1>6, <1>7
  <2>2. QueueInOrder(s, th)
    BY DEF OrderInv
  <2>3. a \in Msg /\ Queued(s, th, a)
    BY <1>7, <2>1, <2>2, QueueMessages DEF QueueInOrder
  <2>4. ASSUME s = s0, th = u PROVE Before(m, a)
    <3>1. m = messageQ[s][th][1] /\ 1 \in 1 .. Len(messageQ[s][th]) /\ 1 < l
      BY <1>3, <1>4, <2>1, <2>4
    <3> QED
      BY <2>1, <2>2, <3>1, Zenon DEF QueueInOrder
  <2> QED
    BY <1>7, <2>1, <2>3, <2>4 DEF CloseIsLast
<1>8. ASSUME NEW r \in Producers
      PROVE  last'[r] = last[r] \/ (m # System /\ m.kind = "Data" /\ m.from = r /\ last'[r] = m.n)
  <2>1. CASE m.kind = "Data"
    <3>1. last' = [last EXCEPT ![m.from] = m.n] /\ m # System
      BY <1>0, <1>3, <2>1 DEF Record, System
    <3>2. last \in [Producers -> Nat]
      BY DEF TypeOK
    <3> QED
      BY <2>1, <3>1, <3>2
  <2>2. CASE m.kind # "Data"
    BY <1>0, <1>3, <2>2, Zenon DEF Record
  <2> QED
    BY <2>1, <2>2
<1>9. \A r \in closed' : r \in closed \/ (m # System /\ m.kind = "Close" /\ m.from = r)
  <2>1. CASE m.kind = "Close"
    <3>1. closed' = closed \cup {m.from} /\ m # System
      BY <1>0, <1>3, <2>1 DEF Record, System
    <3> QED
      BY <2>1, <3>1
  <2>2. CASE m.kind # "Close"
    <3>1. closed' = closed
      BY <1>0, <1>3, <2>2 DEF Record
    <3> QED
      BY <3>1
  <2> QED
    BY <2>1, <2>2
<1>10. ASSUME NEW r \in Producers
       PROVE  last'[r] <= sent'[r]
  <2>1. sent[r] <= sent'[r] /\ sent[r] \in Nat /\ sent'[r] \in Nat /\ last[r] \in Nat /\ last[r] <= sent[r]
    BY DEF Kept, TypeOK, OrderInv
  <2>2. CASE m # System /\ m.from = r /\ last'[r] = m.n
    BY <1>5, <2>1, <2>2 DEF Queued, Msg
  <2> QED
    BY <1>8, <2>1, <2>2
<1>11. ASSUME NEW r \in closed'
       PROVE  ppc'[r] \in {"lastsignal", "gone"}
  <2>1. r \in Producers
    BY DEF TypeOK
  <2>2. ppc[r] \in {"lastsignal", "gone"}
    BY <1>5, <1>9 DEF OrderInv, Queued
  <2> QED
    BY <2>1, <2>2 DEF Kept
<1>12. ASSUME NEW s \in Services, NEW th \in Threads
       PROVE  QueueInOrder(s, th)'
  <2> SUFFICES ASSUME NEW q, q = messageQ'[s][th]
               PROVE  QueueInOrder(s, th)'
    OBVIOUS
  <2>1. ASSUME NEW k \in 1 .. Len(q), q[k] # System
        PROVE  Queued(s, th, q[k])'
    <3>1. PICK a : a = q[k]
      OBVIOUS
    <3>2. a \in Msg /\ Queued(s, th, a) /\ (m # System /\ s = s0 /\ th = u => Before(m, a))
      BY <1>7, <2>1, <3>1
    <3>3. ASSUME a.kind = "Data" PROVE last'[a.from] < a.n
      <4>1. a.from \in Producers
        BY <3>2 DEF Msg
      <4>2. CASE m # System /\ m.kind = "Data" /\ m.from = a.from /\ last'[a.from] = m.n
        <5>1. s = s0 /\ th = u
          BY <1>5, <3>2, <3>3, <4>2 DEF Queued
        <5> QED
          BY <2>1, <3>1, <3>2, <4>2, <5>1 DEF Before
      <4> QED
        BY <1>8, <3>2, <3>3, <4>1, <4>2 DEF Queued
    <3>4. Queued(s, th, a)'
      BY <3>2, <3>3, QueuedKept
    <3> QED
      BY <3>1, <3>4
  <2>2. ASSUME NEW j \in 1 .. Len(q), NEW k \in 1 .. Len(q), j < k
        PROVE  Before(q[j], q[k])
    <3>1. PICK l \in 1 .. Len(messageQ[s][th]) :
            /\ q[j] = messageQ[s][th][l]
            /\ s = s0 /\ th = u => l = j + 1
            /\ ~(s = s0 /\ th = u) => l = j
      BY <1>6, <2>2, Zenon
    <3>2. PICK n \in 1 .. Len(messageQ[s][th]) :
            /\ q[k] = messageQ[s][th][n]
            /\ s = s0 /\ th = u => n = k + 1
            /\ ~(s = s0 /\ th = u) => n = k
      BY <1>6, <2>2
    <3>3. l < n
      BY <2>2, <3>1, <3>2
    <3> QED
      BY <3>1, <3>2, <3>3 DEF OrderInv, QueueInOrder
  <2> QED
    BY <2>1, <2>2, QueueInOrderNext
<1>13. ASSUME NEW r \in Sessions, r \in closed', getProcessor(r) = ThreadId[SvcOf[r]],
              NEW s \in Services, NEW th \in Threads,
              NEW k \in 1 .. Len(messageQ'[s][th]), messageQ'[s][th][k] # System,
              messageQ'[s][th][k].from = r
       PROVE  FALSE
  <2>1. PICK a : a = messageQ'[s][th][k]
    OBVIOUS
  <2>2. a # System /\ a \in Msg /\ Queued(s, th, a) /\ a.from = r
        /\ (m # System /\ s = s0 /\ th = u => Before(m, a))
    BY <1>7, <1>13, <2>1
  <2>3. r \notin closed
    BY <1>7, <1>13, <2>1 DEF OrderInv
  <2>4. m # System /\ m.kind = "Close" /\ m.from = r
    BY <1>9, <1>13, <2>3
  <2>5. s = s0 /\ th = u
    <3>1. s = SvcOf[r] /\ th = Target(r, a.kind) /\ s0 = SvcOf[r] /\ u = Target(r, m.kind)
      BY <1>5, <2>2, <2>4 DEF Queued
    <3> QED
      BY <1>13, <3>1 DEF Target
  <2> QED
    BY <2>2, <2>4, <2>5 DEF Before
<1>14. CloseIsLast'
  BY <1>13 DEF CloseIsLast
<1> QED
  BY <1>10, <1>11, <1>12, <1>14 DEF OrderInv

\* Service.destroy offers System messages, which nobody handles.
LEMMA OrderDestroy ==
  ASSUME TypeOK, TypeOK', OrderInv, NEW s0 \in Services, destroy(s0)
  PROVE  OrderInv'
<1>1. UNCHANGED <<sent, ppc, last, closed>>
  BY DEF destroy, prodVars, history
<1>2. \A s \in Services, th \in Threads :
        messageQ'[s][th] = messageQ[s][th] \/ messageQ'[s][th] = Append(messageQ[s][th], System)
  BY DEF destroy, TypeOK
<1>3. ASSUME NEW s \in Services, NEW th \in Threads,
             NEW k \in 1 .. Len(messageQ'[s][th]), messageQ'[s][th][k] # System
      PROVE  k \in 1 .. Len(messageQ[s][th]) /\ messageQ'[s][th][k] = messageQ[s][th][k]
  <2>1. messageQ[s][th] \in Seq(Msg \cup {System}) /\ Len(messageQ[s][th]) \in Nat
    BY QueueMessages
  <2>2. CASE messageQ'[s][th] = Append(messageQ[s][th], System)
    <3>1. /\ Len(messageQ'[s][th]) = Len(messageQ[s][th]) + 1
          /\ messageQ'[s][th][Len(messageQ[s][th]) + 1] = System
          /\ \A l \in 1 .. Len(messageQ[s][th]) : messageQ'[s][th][l] = messageQ[s][th][l]
      BY <2>1, <2>2, AppendFacts
    <3> QED
      BY <1>3, <2>1, <3>1
  <2> QED
    BY <1>2, <1>3, <2>2
<1>4. ASSUME NEW s \in Services, NEW th \in Threads
      PROVE  QueueInOrder(s, th)'
  <2> SUFFICES ASSUME NEW q, q = messageQ[s][th], NEW r, r = messageQ'[s][th]
               PROVE  QueueInOrder(s, th)'
    OBVIOUS
  <2>1. \A k \in 1 .. Len(r) : r[k] # System => k \in 1 .. Len(q) /\ r[k] = q[k]
    BY <1>3
  <2>2. QueueInOrder(s, th)
    BY DEF OrderInv
  <2>3. ASSUME NEW k \in 1 .. Len(r), r[k] # System PROVE Queued(s, th, r[k])'
    <3>1. Queued(s, th, q[k]) /\ r[k] = q[k]
      BY <2>1, <2>2, <2>3 DEF QueueInOrder
    <3> QED
      BY <1>1, <3>1 DEF Queued
  <2>4. ASSUME NEW j \in 1 .. Len(r), NEW k \in 1 .. Len(r), j < k
        PROVE  Before(r[j], r[k])
    <3>1. CASE r[j] # System /\ r[k] # System
      BY <2>1, <2>2, <2>4, <3>1 DEF QueueInOrder
    <3> QED
      BY <3>1 DEF Before
  <2> QED
    BY <2>3, <2>4, QueueInOrderNext
<1>5. ASSUME NEW r \in Sessions, r \in closed', getProcessor(r) = ThreadId[SvcOf[r]],
             NEW s \in Services, NEW th \in Threads,
             NEW k \in 1 .. Len(messageQ'[s][th]), messageQ'[s][th][k] # System
      PROVE  messageQ'[s][th][k].from # r
  <2>1. k \in 1 .. Len(messageQ[s][th]) /\ messageQ'[s][th][k] = messageQ[s][th][k]
    BY <1>3, <1>5
  <2> QED
    BY <1>1, <1>5, <2>1 DEF OrderInv, CloseIsLast
<1>6. CloseIsLast'
  BY <1>5 DEF CloseIsLast
<1> QED
  BY <1>1, <1>4, <1>6 DEF OrderInv

LEMMA OrderStep == TypeOK /\ OrderInv /\ [Next]_vars => OrderInv'
<1> SUFFICES ASSUME TypeOK, OrderInv, [Next]_vars PROVE OrderInv'
  OBVIOUS
<1>1. TypeOK'
  BY TypeStep
<1>0. sent \in [Producers -> Nat] /\ ppc \in [Producers -> {"run", "signal", "lastsignal", "gone"}]
  BY DEF TypeOK
<1>2. CASE UNCHANGED <<messageQ, sent, ppc, last, closed>>
  BY <1>0, <1>1, <1>2, OrderKept DEF Kept
<1>3. ASSUME NEW p \in Producers, Produce(p) PROVE OrderInv'
  <2>1. CASE ParseMsg(p)
    <3>1. Kept /\ UNCHANGED <<last, closed>>
      BY <1>0, <2>1 DEF ParseMsg, Kept, history
    <3>2. CASE Full(SvcOf[p], Target(p, "Data"))
      BY <1>1, <2>1, <3>1, <3>2, OrderKept DEF ParseMsg
    <3>3. CASE ~Full(SvcOf[p], Target(p, "Data"))
      BY <1>1, <2>1, <3>1, <3>3, OrderPush, Zenon DEF ParseMsg, Kinds
    <3> QED
      BY <3>2, <3>3
  <2>2. CASE PushRequest(p)
    <3>1. Kept /\ UNCHANGED <<last, closed>>
      BY <1>0, <2>2, SMTT(20) DEF PushRequest, Kept, history
    <3>2. CASE Full(SvcOf[p], Target(p, "Data"))
      BY <1>1, <2>2, <3>1, <3>2, OrderKept DEF PushRequest
    <3>3. CASE ~Full(SvcOf[p], Target(p, "Data"))
      BY <1>1, <2>2, <3>1, <3>3, OrderPush, Zenon DEF PushRequest, Kinds
    <3> QED
      BY <3>2, <3>3
  <2>3. ASSUME NEW kind \in {"HeartBeat", "Close"}, sessionEvent(p, kind)
        PROVE  OrderInv'
    <3>1. Kept /\ UNCHANGED <<last, closed>>
      BY <1>0, <2>3, SMTT(60) DEF sessionEvent, MayEmit, Kept, history
    <3>2. kind = "Close" => ppc'[p] = "lastsignal"
      BY <1>0, <2>3 DEF sessionEvent
    <3> QED
      BY <1>1, <2>3, <3>1, <3>2, OrderPush, Zenon DEF sessionEvent, MayEmit, Kinds
  <2>4. ASSUME NEW kind \in {"HeartBeat", "Close"}, EventTimeout(p, kind)
        PROVE  OrderInv'
    <3>1. Kept /\ UNCHANGED <<messageQ, last, closed>>
      BY <1>0, <2>4 DEF EventTimeout, MayEmit, Kept, queueVars, history
    <3> QED
      BY <1>1, <3>1, OrderKept
  <2>5. CASE Signal(p)
    <3>1. Kept /\ UNCHANGED <<messageQ, last, closed>>
      BY <1>0, <2>5 DEF Signal, Kept, history
    <3> QED
      BY <1>1, <3>1, OrderKept
  <2> QED
    BY <1>3, <2>1, <2>2, <2>3, <2>4, <2>5 DEF Produce
<1>4. ASSUME NEW th \in Threads, Thread(th) PROVE OrderInv'
  <2>1. CASE Handle(th) \/ HandlePanics(th)
    <3>1. Kept
      BY <1>0, <2>1 DEF Handle, HandlePanics, prodVars, Kept
    <3> QED
      BY <1>1, <2>1, <3>1, OrderTake DEF Handle, HandlePanics
  <2> QED
    BY <1>2, <1>4, <2>1 DEF Thread, Check, Return, EndScan, Wake, LoopTimer, queueVars, prodVars, history
<1>5. CASE Stopping
  <2>1. ASSUME NEW s \in Services, destroy(s) PROVE OrderInv'
    BY <1>1, <2>1, OrderDestroy
  <2> QED
    BY <1>2, <1>5, <2>1 DEF Stopping, Stop, CloseServer, SignalThread, StopReturns, queueVars, prodVars, history
<1> QED
  BY <1>2, <1>3, <1>4, <1>5 DEF Next, Stopped, vars

(***************************************************************************)
(* For any number of sessions, callers, threads and services and any hash, *)
(* what a service is handed of one session is in order: its data as        *)
(* pushed, each message at most once, and, if its data goes to the         *)
(* service's own thread, nothing after SessionClose (service.go:44-86).    *)
(***************************************************************************)
THEOREM SessionsInOrderHolds == Spec => []SessionsInOrder
<1>1. Init => OrderInv
  <2> SUFFICES ASSUME Init PROVE OrderInv
    OBVIOUS
  <2>1. \A s \in Services, th \in Threads : messageQ[s][th] = <<>>
    BY DEF Init
  <2>2. \A s \in Services, th \in Threads : QueueInOrder(s, th)
    BY <2>1 DEF QueueInOrder
  <2> QED
    BY <2>1, <2>2, SMTT(60) DEF Init, OrderInv, CloseIsLast
<1>2. TypeOK /\ OrderInv => SessionsInOrder
  <2> SUFFICES ASSUME TypeOK, OrderInv PROVE HandledInOrder
    BY DEF SessionsInOrder, OrderInv
  <2>1. ASSUME NEW s \in Services, NEW th \in Threads, NEW p \in Producers,
               NEW k \in 1 .. Len(messageQ[s][th]),
               messageQ[s][th][k].kind = "Data", messageQ[s][th][k].from = p
        PROVE  /\ messageQ[s][th][k].n > last[p]
               /\ \A j \in 1 .. k - 1 :
                    messageQ[s][th][j].kind = "Data" /\ messageQ[s][th][j].from = p
                    => messageQ[s][th][j].n < messageQ[s][th][k].n
    <3> SUFFICES ASSUME NEW q, q = messageQ[s][th]
                 PROVE  /\ q[k].n > last[p]
                        /\ \A j \in 1 .. k - 1 : q[j].kind = "Data" /\ q[j].from = p => q[j].n < q[k].n
      OBVIOUS
    <3>1. /\ q[k] # System => Queued(s, th, q[k])
          /\ \A j \in 1 .. Len(q) : j < k => Before(q[j], q[k])
      BY <2>1 DEF OrderInv, QueueInOrder
    <3>2. q[k] # System /\ Len(q) \in Nat /\ q[k] \in Msg
      BY <2>1, QueueMessages DEF System
    <3>3. q[k].n > last[p]
      <4>1. last[p] < q[k].n
        BY <2>1, <3>1, <3>2 DEF Queued
      <4> QED
        BY <4>1
    <3>4. ASSUME NEW j \in 1 .. k - 1, q[j].kind = "Data", q[j].from = p
          PROVE  q[j].n < q[k].n
      <4>1. q[j] # System /\ j \in 1 .. Len(q) /\ j < k
        BY <2>1, <3>2, <3>4 DEF System
      <4> QED
        BY <2>1, <3>1, <3>2, <3>4, <4>1 DEF Before
    <3> QED
      BY <3>3, <3>4
  <2> QED
    BY <2>1 DEF HandledInOrder
<1> QED
  BY <1>1, <1>2, OrderStep, TypeCorrect, PTL DEF Spec
=============================================================================
