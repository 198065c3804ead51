------------------------------ MODULE Dispatch ------------------------------
(***************************************************************************)
(* The processor threads of a stnet Server and the message queues of its   *)
(* Services (stnet/server.go, stnet/service.go).                           *)
(*                                                                         *)
(* Every Service owns one bounded channel messageQ[th] per processor       *)
(* thread; every thread owns a one-slot channel netSignal[th] that wakes   *)
(* it.  Sessions (their dohand and dorecv goroutines) push with ParseMsg   *)
(* and sessionEvent, other goroutines with PushRequest; thread th drains   *)
(* messageQ[th] of every service.  A push and the wake-up that follows it  *)
(* are two steps, and so are a thread's look at a queue and its decision   *)
(* to sleep.                                                               *)
(***************************************************************************)
EXTENDS Integers, Sequences, FiniteSets

CONSTANTS
  ProcessorThreadsNum,  \* threads 0 .. ProcessorThreadsNum - 1
  NumServices,          \* services 1 .. NumServices, in allServices order
  ThreadId,             \* ThreadId[s]: the thread AddService gave service s
  Sessions,             \* sessions that push received messages and events
  Unawaited,            \* the sessions among them that destroy does not wait for
  Callers,              \* goroutines that call Server.PushRequest
  SvcOf,                \* SvcOf[p]: the service producer p pushes to
  HashOf,               \* HashOf[p]: what imp.HashProcessor returns for p
  IdOf,                 \* IdOf[p]: session id of p
  QueueLen,             \* capacity of a messageQ channel (10240 in the code)
  Batch,                \* messages one messageThread call handles (1024)
  MaxMsg,               \* bound: MaxMsg[p] is the number of messages p pushes
  Panics                \* may user code called from handleMsg panic?

Threads   == 0 .. ProcessorThreadsNum - 1
Services  == 1 .. NumServices
Producers == Sessions \cup Callers

ASSUME DispatchAssumption ==
  /\ ProcessorThreadsNum \in Nat \ {0}
  /\ NumServices \in Nat \ {0}
  /\ ThreadId \in [Services -> Threads]
  /\ Sessions \cap Callers = {} /\ Unawaited \subseteq Sessions
  /\ SvcOf \in [Producers -> Services]
  /\ HashOf \in [Producers -> Int]
  /\ IdOf \in [Producers -> Nat]
  /\ QueueLen \in Nat \ {0}
  /\ Batch \in Nat \ {0}
  /\ MaxMsg \in [Producers -> Nat]
  /\ Panics \in BOOLEAN

VARIABLES
  messageQ,   \* messageQ[s][th]: queued messages of service s for thread th
  netSignal,  \* netSignal[th] = 1: a wake-up token is in the channel
  isClose,    \* Server.isClose
  pc,         \* pc[th]: where thread th is in its loop
  at,         \* at[th]: the service whose queue the thread looks at
  i,          \* i[th]: messages handled by the current messageThread call
  nmsg,       \* nmsg[th] = 1: an earlier call of this round handled some
  ppc,        \* ppc[p]: where producer p is
  wake,       \* wake[p]: the thread p is about to signal
  sent,       \* sent[p]: messages p has tried to push
  spc,        \* where Server.Stop is
  left,       \* services not yet destroyed / threads not yet signalled
  last,       \* history: number of the last Data message of p handled
  closed,     \* history: the sessions imp.SessionClose has been called for
  panicked    \* history: the threads on which a handler has panicked

queueVars  == <<messageQ, netSignal>>
threadVars == <<pc, at, i, nmsg>>
prodVars   == <<ppc, wake, sent>>
stopVars   == <<isClose, spc, left>>
history    == <<last, closed, panicked>>
vars == <<messageQ, netSignal, isClose, pc, at, i, nmsg, ppc, wake, sent,
          spc, left, last, closed, panicked>>

Kinds == {"Data", "HeartBeat", "Close"}
Msg   == [from : Producers, kind : Kinds, n : Nat]
System == [kind |-> "System"]   \* the message destroy() pushes; nobody handles it
-----------------------------------------------------------------------------
(* The thread a Data message of p goes to: a positive hash is taken modulo *)
(* the number of threads, zero means the service's own thread, a negative  *)
(* one falls back to the session id.                                       *)
getProcessor(p) ==
  IF HashOf[p] > 0 THEN HashOf[p] % ProcessorThreadsNum
  ELSE IF HashOf[p] = 0 THEN ThreadId[SvcOf[p]]
  ELSE IF p \in Sessions THEN IdOf[p] % ProcessorThreadsNum
  ELSE ThreadId[SvcOf[p]]

\* Mutant: events follow the session id instead of the service's thread.
Target_ById(p, kind) ==
  IF kind = "Data" THEN getProcessor(p) ELSE IdOf[p] % ProcessorThreadsNum

Target(p, kind) ==
  IF kind = "Data" THEN getProcessor(p) ELSE ThreadId[SvcOf[p]]

\* Threads that own services run imp.Loop and sleep with a timer; the others
\* sleep on netSignal alone.
LoopThread(th) == \E s \in Services : ThreadId[s] = th

Full(s, th) == Len(messageQ[s][th]) >= QueueLen

Push(s, th, m) ==
  messageQ' = [messageQ EXCEPT ![s][th] = Append(@, m)]

Init ==
  /\ messageQ = [s \in Services |-> [th \in Threads |-> <<>>]]
  /\ netSignal = [th \in Threads |-> 0]
  /\ isClose = FALSE
  /\ pc = [th \in Threads |-> "check"]
  /\ at = [th \in Threads |-> 1]
  /\ i = [th \in Threads |-> 0]
  /\ nmsg = [th \in Threads |-> 0]
  /\ ppc = [p \in Producers |-> "run"]
  /\ wake = [p \in Producers |-> 0]
  /\ sent = [p \in Producers |-> 0]
  /\ spc = "run"
  /\ left = {}
  /\ last = [p \in Producers |-> 0]
  /\ closed = {}
  /\ panicked = {}
-----------------------------------------------------------------------------
(* Producers.                                                              *)

NextMsg(p, kind) == [from |-> p, kind |-> kind, n |-> sent[p] + 1]

\* Service.ParseMsg: the message is dropped when the queue is full, and the
\* thread is signalled either way.
ParseMsg(p) ==
  LET th == Target(p, "Data") IN
  /\ p \in Sessions
  /\ ppc[p] = "run"
  /\ sent[p] < MaxMsg[p]
  /\ IF Full(SvcOf[p], th) THEN UNCHANGED messageQ
                           ELSE Push(SvcOf[p], th, NextMsg(p, "Data"))
  /\ sent' = [sent EXCEPT ![p] = @ + 1]
  /\ ppc' = [ppc EXCEPT ![p] = "signal"]
  /\ wake' = [wake EXCEPT ![p] = th]
  /\ UNCHANGED <<netSignal, threadVars, stopVars, history>>

\* Service.PushRequest: a full queue is an error to the caller and signals
\* nobody.
PushRequest(p) ==
  LET th == Target(p, "Data") IN
  /\ p \in Callers
  /\ ppc[p] = "run"
  /\ sent[p] < MaxMsg[p]
  /\ sent' = [sent EXCEPT ![p] = @ + 1]
  /\ IF Full(SvcOf[p], th)
     THEN UNCHANGED <<messageQ, ppc, wake>>
     ELSE /\ Push(SvcOf[p], th, NextMsg(p, "Data"))
          /\ ppc' = [ppc EXCEPT ![p] = "signal"]
          /\ wake' = [wake EXCEPT ![p] = th]
  /\ UNCHANGED <<netSignal, threadVars, stopVars, history>>

MayEmit(p, kind) ==
  /\ p \in Sessions
  /\ ppc[p] = "run"
  /\ kind = "HeartBeat" => sent[p] < MaxMsg[p]

\* Service.sessionEvent for Close and HeartBeat: waits for room on the
\* service's own thread, then signals it.
sessionEvent(p, kind) ==
  LET th == Target(p, kind) IN
  /\ MayEmit(p, kind)
  /\ ~Full(SvcOf[p], th)
  /\ Push(SvcOf[p], th, NextMsg(p, kind))
  /\ sent' = [sent EXCEPT ![p] = @ + 1]
  /\ ppc' = [ppc EXCEPT ![p] = IF kind = "Close" THEN "lastsignal" ELSE "signal"]
  /\ wake' = [wake EXCEPT ![p] = th]
  /\ UNCHANGED <<netSignal, threadVars, stopVars, history>>

\* ... or gives up after 100 ms of a full queue and drops the event.
EventTimeout(p, kind) ==
  /\ MayEmit(p, kind)
  /\ Full(SvcOf[p], Target(p, kind))
  /\ sent' = [sent EXCEPT ![p] = @ + 1]
  /\ ppc' = [ppc EXCEPT ![p] = IF kind = "Close" THEN "gone" ELSE "run"]
  /\ UNCHANGED <<queueVars, wake, threadVars, stopVars, history>>

\* The select with a default that follows every push: one token at most.
Signal(p) ==
  /\ ppc[p] \in {"signal", "lastsignal"}
  /\ netSignal' = [netSignal EXCEPT ![wake[p]] = 1]
  /\ ppc' = [ppc EXCEPT ![p] = IF @ = "lastsignal" THEN "gone" ELSE "run"]
  /\ wake' = [wake EXCEPT ![p] = 0]
  /\ UNCHANGED <<messageQ, sent, threadVars, stopVars, history>>
-----------------------------------------------------------------------------
(* Processor threads.                                                      *)

\* The loop condition; a new round scans the queues of all services.
Check(th) ==
  /\ pc[th] = "check"
  /\ pc' = [pc EXCEPT ![th] = IF isClose THEN "quit" ELSE "scan"]
  /\ UNCHANGED <<queueVars, at, i, nmsg, prodVars, stopVars, history>>

InCall(th) == pc[th] = "scan" /\ at[th] \in Services

Received(th) ==
  /\ InCall(th)
  /\ i[th] < Batch
  /\ messageQ[at[th]][th] # <<>>
  /\ messageQ' = [messageQ EXCEPT ![at[th]][th] = Tail(@)]

\* What the user code has seen once handleMsg got m; a System message has
\* no handler.
Record(m) ==
  /\ last' = IF m.kind = "Data" THEN [last EXCEPT ![m.from] = m.n] ELSE last
  /\ closed' = IF m.kind = "Close" THEN closed \cup {m.from} ELSE closed

\* handleMsg returns.
Handle(th) ==
  /\ Received(th)
  /\ Record(Head(messageQ[at[th]][th]))
  /\ i' = [i EXCEPT ![th] = @ + 1]
  /\ UNCHANGED <<netSignal, pc, at, nmsg, prodVars, stopVars, panicked>>

\* handleMsg panics: handlePanic recovers, and messageThread, whose result
\* is not named, returns 0 whatever it handled before.
HandlePanics(th) ==
  /\ Panics
  /\ Received(th)
  /\ Head(messageQ[at[th]][th]) # System
  /\ Record(Head(messageQ[at[th]][th]))
  /\ at' = [at EXCEPT ![th] = @ + 1]
  /\ i' = [i EXCEPT ![th] = 0]
  /\ panicked' = panicked \cup {th}
  /\ UNCHANGED <<netSignal, pc, nmsg, prodVars, stopVars>>

\* Mutant: a full batch is reported like an empty queue.
Return_IgnoresFullBatch(th) ==
  /\ InCall(th)
  /\ i[th] = Batch \/ messageQ[at[th]][th] = <<>>
  /\ nmsg' = [nmsg EXCEPT ![th] = IF i[th] > 0 /\ i[th] < Batch THEN 1 ELSE @]
  /\ at' = [at EXCEPT ![th] = @ + 1]
  /\ i' = [i EXCEPT ![th] = 0]
  /\ UNCHANGED <<queueVars, pc, prodVars, stopVars, history>>

\* messageThread returns: the queue is empty or the batch is full.
Return(th) ==
  /\ InCall(th)
  /\ i[th] = Batch \/ messageQ[at[th]][th] = <<>>
  /\ nmsg' = [nmsg EXCEPT ![th] = IF i[th] > 0 THEN 1 ELSE @]
  /\ at' = [at EXCEPT ![th] = @ + 1]
  /\ i' = [i EXCEPT ![th] = 0]
  /\ UNCHANGED <<queueVars, pc, prodVars, stopVars, history>>

\* End of the round: a loop thread always sleeps, the others only when the
\* round handled nothing.
EndScan(th) ==
  /\ pc[th] = "scan"
  /\ at[th] > NumServices
  /\ pc' = [pc EXCEPT ![th] =
              IF LoopThread(th) \/ nmsg[th] = 0 THEN "wait" ELSE "check"]
  /\ at' = [at EXCEPT ![th] = 1]
  /\ nmsg' = [nmsg EXCEPT ![th] = 0]
  /\ UNCHANGED <<queueVars, i, prodVars, stopVars, history>>

Wake(th) ==
  /\ pc[th] = "wait"
  /\ netSignal[th] = 1
  /\ netSignal' = [netSignal EXCEPT ![th] = 0]
  /\ pc' = [pc EXCEPT ![th] = "check"]
  /\ UNCHANGED <<messageQ, at, i, nmsg, prodVars, stopVars, history>>

LoopTimer(th) ==
  /\ LoopThread(th)
  /\ pc[th] = "wait"
  /\ pc' = [pc EXCEPT ![th] = "check"]
  /\ UNCHANGED <<queueVars, at, i, nmsg, prodVars, stopVars, history>>
-----------------------------------------------------------------------------
(* Server.Stop.                                                            *)

Stop ==
  /\ spc = "run"
  /\ spc' = "destroy"
  /\ left' = Services
  /\ UNCHANGED <<queueVars, threadVars, prodVars, isClose, history>>

\* Service.destroy: Listener.Close and Connector.Close return once the
\* sessions of the service are gone (NothingLeft of Listener, ClosedForGood
\* of Connector), but for the session of a UDP listener and those of
\* connectors that Connect.Close destroys on its own; then a System message
\* is offered to every queue, without a signal.
destroy(s) ==
  /\ spc = "destroy"
  /\ s \in left
  /\ \A p \in Sessions \ Unawaited : SvcOf[p] = s => ppc[p] = "gone"
  /\ left' = left \ {s}
  /\ messageQ' = [messageQ EXCEPT ![s] =
        [th \in Threads |-> IF Full(s, th) THEN @[th] ELSE Append(@[th], System)]]
  /\ UNCHANGED <<netSignal, threadVars, prodVars, isClose, spc, history>>

\* Mutant: the threads are woken before they can see that the server closed.
CloseServer_Late ==
  /\ spc = "destroy"
  /\ left = {}
  /\ spc' = "signal"
  /\ left' = Threads
  /\ UNCHANGED <<queueVars, threadVars, prodVars, isClose, history>>

CloseServer ==
  /\ spc = "destroy"
  /\ left = {}
  /\ isClose' = TRUE
  /\ spc' = "signal"
  /\ left' = Threads
  /\ UNCHANGED <<queueVars, threadVars, prodVars, history>>

SignalThread(th) ==
  /\ spc = "signal"
  /\ th \in left
  /\ left' = left \ {th}
  /\ netSignal' = [netSignal EXCEPT ![th] = 1]
  /\ UNCHANGED <<messageQ, threadVars, prodVars, isClose, spc, history>>

\* wg.Wait, then imp.Destroy of every service.
StopReturns ==
  /\ spc = "signal"
  /\ left = {}
  /\ \A th \in Threads : pc[th] = "quit"
  /\ spc' = "done"
  /\ UNCHANGED <<queueVars, threadVars, prodVars, isClose, left, history>>
-----------------------------------------------------------------------------
Produce(p) ==
  \/ ParseMsg(p)
  \/ PushRequest(p)
  \/ \E kind \in {"HeartBeat", "Close"} : sessionEvent(p, kind) \/ EventTimeout(p, kind)
  \/ Signal(p)

Thread(th) ==
  \/ Check(th)
  \/ Handle(th)
  \/ HandlePanics(th)
  \/ Return(th)
  \/ EndScan(th)
  \/ Wake(th)
  \/ LoopTimer(th)

Stopping ==
  \/ Stop
  \/ \E s \in Services : destroy(s)
  \/ CloseServer
  \/ \E th \in Threads : SignalThread(th)
  \/ StopReturns

\* Stop has returned: callers may still push, nobody handles.
Stopped == spc = "done" /\ UNCHANGED vars

Next ==
  \/ \E p \in Producers : Produce(p)
  \/ \E th \in Threads : Thread(th)
  \/ Stopping
  \/ Stopped

Spec == Init /\ [][Next]_vars

(***************************************************************************)
(* Fairness: the Go scheduler runs every runnable goroutine and timers     *)
(* fire.  Pushing is not forced, nor is calling Stop, but a session whose  *)
(* service is being destroyed has had its socket closed, so its dorecv     *)
(* reaches the Close event.                                                *)
(***************************************************************************)
CloseSession(p) ==
  spc = "destroy" /\ (sessionEvent(p, "Close") \/ EventTimeout(p, "Close"))

Fairness ==
  /\ \A th \in Threads : WF_vars(Thread(th))
  /\ \A p \in Producers : WF_vars(Signal(p))
  /\ \A p \in Sessions : WF_vars(CloseSession(p))
  /\ WF_vars(Stopping /\ spc # "run")

FairSpec == Spec /\ Fairness
-----------------------------------------------------------------------------
TypeOK ==
  /\ messageQ \in [Services -> [Threads -> Seq(Msg \cup {System})]]
  /\ netSignal \in [Threads -> {0, 1}]
  /\ isClose \in BOOLEAN
  /\ pc \in [Threads -> {"check", "scan", "wait", "quit"}]
  /\ at \in [Threads -> 1 .. NumServices + 1]
  /\ i \in [Threads -> 0 .. Batch]
  /\ nmsg \in [Threads -> {0, 1}]
  /\ ppc \in [Producers -> {"run", "signal", "lastsignal", "gone"}]
  /\ wake \in [Producers -> Threads]
  /\ sent \in [Producers -> Nat]
  /\ spc \in {"run", "destroy", "signal", "done"}
  /\ left \in SUBSET (Services \cup Threads)
  /\ last \in [Producers -> Nat]
  /\ closed \in SUBSET Producers
  /\ panicked \in SUBSET Threads

\* Somebody who pushed for th has not signalled it yet.
AboutToSignal(th) ==
  \E p \in Producers : ppc[p] \in {"signal", "lastsignal"} /\ wake[p] = th

\* A message that some handler should get is queued for th in service s.
Pending(s, th) == \E k \in 1 .. Len(messageQ[s][th]) : messageQ[s][th][k] # System

\* A thread between rounds, or between messageThread calls, has reset the
\* counters of the last one.
RoundsReset ==
  \A th \in Threads :
    /\ pc[th] # "scan" => at[th] = 1 /\ nmsg[th] = 0
    /\ ~InCall(th) => i[th] = 0

\* The services in whose queues th found nothing since it last woke up.
FoundEmpty(th) ==
  IF pc[th] = "wait" THEN Services
  ELSE IF pc[th] = "scan" /\ nmsg[th] = 0 THEN 1 .. at[th] - 1
  ELSE {}

(***************************************************************************)
(* The inductive form of NoLostWakeup: a message that reached a queue      *)
(* after the thread looked into it has left a token in netSignal, or its   *)
(* producer is about to put one there (server.go:236-248, service.go:      *)
(* 124-129).                                                               *)
(***************************************************************************)
WakeupInv ==
  /\ RoundsReset
  /\ \A th \in Threads \ panicked : ~LoopThread(th) =>
       \A s \in FoundEmpty(th) :
         Pending(s, th) => netSignal[th] = 1 \/ AboutToSignal(th)

\* A worker is blocked on netSignal with no token in the channel, nobody
\* about to put one, and a message queued for it.
SleepsOnMessage(th) ==
  /\ pc[th] = "wait" /\ ~LoopThread(th)
  /\ netSignal[th] = 0 /\ ~AboutToSignal(th)
  /\ \E s \in Services : Pending(s, th)

(***************************************************************************)
(* No wake-up is lost: a worker on which no handler has panicked sleeps    *)
(* only until there is a message (server.go:236-246).                      *)
(***************************************************************************)
NoLostWakeup == \A th \in Threads \ panicked : ~SleepsOnMessage(th)

(***************************************************************************)
(* Once Stop has set isClose, a sleeping thread has a token or is still to *)
(* be signalled: Stop cannot wait for a thread that sleeps for ever.       *)
(***************************************************************************)
StopWakesEveryone ==
  \A th \in Threads :
    spc = "signal" /\ pc[th] = "wait" => netSignal[th] = 1 \/ th \in left

\* The inductive form: a thread that Stop has signalled keeps the token
\* until it wakes up for the last time.
StopInv ==
  spc = "signal" =>
    /\ isClose
    /\ \A th \in Threads \ left : netSignal[th] = 1 \/ pc[th] \in {"check", "quit"}

(***************************************************************************)
(* The Data messages of one producer are handled in the order it pushed    *)
(* them and each at most once, whatever the other producers and threads    *)
(* do: what is still queued is newer than what was handled, and queued in  *)
(* order.                                                                  *)
(***************************************************************************)
HandledInOrder ==
  \A s \in Services, th \in Threads :
    LET q == messageQ[s][th]
        IsData(k, p) == q[k].kind = "Data" /\ q[k].from = p
    IN  \A p \in Producers, k \in 1 .. Len(q) :
          IsData(k, p) => /\ q[k].n > last[p]
                          /\ \A j \in 1 .. k - 1 : IsData(j, p) => q[j].n < q[k].n

(***************************************************************************)
(* A session whose data is hashed to its service's own thread is never     *)
(* handed to HandleMessage after SessionClose was called for it.  (With    *)
(* any other hash the Close event may overtake queued data.)               *)
(***************************************************************************)
CloseIsLast ==
  \A p \in Sessions :
    p \in closed /\ getProcessor(p) = ThreadId[SvcOf[p]] =>
      \A s \in Services, th \in Threads : \A k \in 1 .. Len(messageQ[s][th]) :
        messageQ[s][th][k] # System => messageQ[s][th][k].from # p

\* A queued message is in the queue of its service and thread and was pushed;
\* Data was not handled before, and after Close nothing more is pushed.
Queued(s, th, m) ==
  /\ s = SvcOf[m.from] /\ th = Target(m.from, m.kind)
  /\ m.n <= sent[m.from]
  /\ m.kind = "Data" => last[m.from] < m.n
  /\ m.kind = "Close" => ppc[m.from] \in {"lastsignal", "gone"}

\* A message a of the producer of b that is ahead of b in its queue.
Before(a, b) ==
  a # System /\ b # System /\ a.from = b.from => a.n < b.n /\ a.kind # "Close"

QueueInOrder(s, th) ==
  LET q == messageQ[s][th] IN
  /\ \A k \in 1 .. Len(q) : q[k] # System => Queued(s, th, q[k])
  /\ \A j, k \in 1 .. Len(q) : j < k => Before(q[j], q[k])

(***************************************************************************)
(* The inductive form of SessionsInOrder: every queue is in order, nothing *)
(* was handled that was not pushed, and a session whose Close event was    *)
(* handled pushes nothing any more (service.go:44-86, 113-194).            *)
(***************************************************************************)
OrderInv ==
  /\ \A p \in Producers : last[p] <= sent[p]
  /\ \A p \in closed : ppc[p] \in {"lastsignal", "gone"}
  /\ \A s \in Services, th \in Threads : QueueInOrder(s, th)
  /\ CloseIsLast

(***************************************************************************)
(* What a service sees of a session is in order: its data as pushed, each  *)
(* message once, and nothing after SessionClose (service.go:44-86).        *)
(***************************************************************************)
SessionsInOrder == HandledInOrder /\ CloseIsLast

(***************************************************************************)
(* Nobody sleeps through what it must see: neither a message queued for it *)
(* nor Stop (server.go:236-248, service.go:124-129).                       *)
(***************************************************************************)
NobodySleepsOn == NoLostWakeup /\ StopWakesEveryone

(***************************************************************************)
(* Every queue is drained again and again until the server closes: no      *)
(* message waits for ever for a thread whose handlers do not panic.        *)
(***************************************************************************)
QueuesDrain ==
  \A s \in Services, th \in Threads :
    Pending(s, th) ~> (isClose \/ th \in panicked \/ ~Pending(s, th))

(***************************************************************************)
(* Server.Stop returns: no thread is left asleep and no session keeps a    *)
(* service from being destroyed.                                           *)
(***************************************************************************)
StopTerminates == (spc = "destroy") ~> (spc = "done")
=============================================================================
