-------------------------------- MODULE Rpc ---------------------------------
(***************************************************************************)
(* Remote calls through a ServiceRpc (stnet/rpc.go): the goroutines that   *)
(* call RpcCall or RpcCall_Sync, the session's parser (Unmarshal), the     *)
(* service's message thread (HandleMessage) and its Loop, and the peer.    *)
(*                                                                         *)
(* A call stands for its own ReqCmdSeq.  rpcMutex is held over atomic      *)
(* steps, except that Unmarshal holds it while it sends a response into    *)
(* the signal channel of a synchronous call, which has capacity one.       *)
(***************************************************************************)
EXTENDS Integers

CONSTANTS
  Calls,    \* calls of rpc_call
  NoCall,
  KindsOf,  \* KindsOf[c]: the kinds of call that c may be
  Copies    \* bound: copies of a response that UDP delivers

Kind == [sync : BOOLEAN, callback : BOOLEAN, exception : BOOLEAN]

ASSUME RpcAssumption ==
  /\ NoCall \notin Calls /\ Copies \in Nat \ {0}
  /\ KindsOf \in [Calls -> SUBSET Kind]

VARIABLES
  udp,      \* are the calls UdpRpcCall and UdpRpcCall_Sync?
  kind,     \* kind[c]: synchronous? with a callback, an exception function?
  pc,       \* pc[c]: where the caller of c is
  reqs,     \* keys of rpcRequests
  signal,   \* signal[c]: responses in rpcRequest.signal
  holder,   \* the call whose response Unmarshal waits to send, holding rpcMutex
  wire,     \* requests on their way to the peer
  replies,  \* replies[c]: copies of the response on their way back
  code,     \* code[c]: its RspCode
  queue,    \* queue[c]: responses that wait for HandleMessage
  callbacks, exceptions   \* history: how often each function of c was called

netVars == <<wire, replies, code>>
hist    == <<callbacks, exceptions>>
vars == <<udp, kind, pc, reqs, signal, holder, wire, replies, code, queue,
          callbacks, exceptions>>

Codes == {"ok", "error"}   \* RspCode: zero, RpcErrNoRemoteFunc or RpcErrFuncParamErr

IsOneWay(c) == ~kind[c].callback /\ ~kind[c].exception
Unlocked    == holder = NoCall

Init ==
  /\ udp \in BOOLEAN
  /\ kind \in {k \in [Calls -> Kind] : \A c \in Calls : k[c] \in KindsOf[c]}
  /\ pc = [c \in Calls |-> "idle"]
  /\ reqs = {}
  /\ signal = [c \in Calls |-> 0] /\ holder = NoCall
  /\ wire = {} /\ replies = [c \in Calls |-> 0] /\ code = [c \in Calls |-> "ok"]
  /\ queue = [c \in Calls |-> 0]
  /\ callbacks = [c \in Calls |-> 0] /\ exceptions = [c \in Calls |-> 0]
-----------------------------------------------------------------------------
(* The caller.                                                             *)

\* rpc_call registers the request under a fresh sequence number.
rpc_call(c) ==
  /\ pc[c] = "idle" /\ Unlocked
  /\ reqs' = reqs \cup {c}
  /\ pc' = [pc EXCEPT ![c] = "send"]
  /\ UNCHANGED <<udp, kind, signal, holder, netVars, queue, hist>>

sendRpcReq(c) ==
  /\ pc[c] = "send"
  /\ wire' = wire \cup {c}
  /\ pc' = [pc EXCEPT ![c] = IF kind[c].sync THEN "select" ELSE "returned"]
  /\ UNCHANGED <<udp, kind, reqs, signal, holder, replies, code, queue, hist>>

\* rpc_call returns the error and leaves the request registered.
SendFails(c) ==
  /\ pc[c] = "send"
  /\ pc' = [pc EXCEPT ![c] = "failed"]
  /\ UNCHANGED <<udp, kind, reqs, signal, holder, netVars, queue, hist>>

SyncReceives(c) ==
  /\ pc[c] = "select" /\ signal[c] > 0
  /\ signal' = [signal EXCEPT ![c] = @ - 1]
  /\ pc' = [pc EXCEPT ![c] = "response"]
  /\ UNCHANGED <<udp, kind, reqs, holder, netVars, queue, hist>>

\* The timer of the call; select takes it even when there is a response.
SyncTimeout(c) ==
  /\ pc[c] = "select"
  /\ pc' = [pc EXCEPT ![c] = "timeout"]
  /\ UNCHANGED <<udp, kind, reqs, signal, holder, netVars, queue, hist>>

SyncGivesUp(c) ==
  /\ pc[c] = "timeout" /\ Unlocked
  /\ reqs' = reqs \ {c}
  /\ exceptions' = [exceptions EXCEPT ![c] = IF kind[c].exception THEN @ + 1 ELSE @]
  /\ pc' = [pc EXCEPT ![c] = "returned"]
  /\ UNCHANGED <<udp, kind, signal, holder, netVars, queue, callbacks>>
-----------------------------------------------------------------------------
(* handleRpcRsp, on the caller's goroutine or on the message thread.       *)

\* Mutant: the request is looked up but stays registered.
handleRpcRsp_Keeps(c) ==
  /\ Unlocked
  /\ reqs' = reqs
  /\ \/ c \notin reqs /\ UNCHANGED hist
     \/ /\ c \in reqs /\ code[c] = "ok"
        /\ callbacks' = [callbacks EXCEPT ![c] = IF kind[c].callback THEN @ + 1 ELSE @]
        /\ UNCHANGED exceptions
     \/ /\ c \in reqs /\ (code[c] # "ok" \/ kind[c].callback)
        /\ exceptions' = [exceptions EXCEPT ![c] = IF kind[c].exception THEN @ + 1 ELSE @]
        /\ UNCHANGED callbacks

\* Whoever removes the request calls one of its functions: the callback, or
\* the exception when the peer reports an error or the result cannot be
\* unpacked.  A response nobody waits for is logged.
handleRpcRsp(c) ==
  /\ Unlocked
  /\ reqs' = reqs \ {c}
  /\ \/ c \notin reqs /\ UNCHANGED hist
     \/ /\ c \in reqs /\ code[c] = "ok"
        /\ callbacks' = [callbacks EXCEPT ![c] = IF kind[c].callback THEN @ + 1 ELSE @]
        /\ UNCHANGED exceptions
     \/ /\ c \in reqs /\ (code[c] # "ok" \/ kind[c].callback)
        /\ exceptions' = [exceptions EXCEPT ![c] = IF kind[c].exception THEN @ + 1 ELSE @]
        /\ UNCHANGED callbacks

SyncHandles(c) ==
  /\ pc[c] = "response"
  /\ handleRpcRsp(c)
  /\ pc' = [pc EXCEPT ![c] = "returned"]
  /\ UNCHANGED <<udp, kind, signal, holder, netVars, queue>>

HandleMessage(c) ==
  /\ queue[c] > 0
  /\ queue' = [queue EXCEPT ![c] = @ - 1]
  /\ handleRpcRsp(c)
  /\ UNCHANGED <<udp, kind, pc, signal, holder, netVars>>
-----------------------------------------------------------------------------
(* Loop.  Any registered request may have timed out by now.                *)

\* Mutant: the exception is called for those without a signal channel only.
Loop_Async(timeouts) ==
  /\ Unlocked
  /\ reqs' = reqs \ timeouts
  /\ exceptions' = [c \in Calls |->
        IF c \in timeouts /\ kind[c].exception /\ ~kind[c].sync
        THEN exceptions[c] + 1 ELSE exceptions[c]]
  /\ UNCHANGED <<udp, kind, pc, signal, holder, netVars, queue, callbacks>>

\* Mutant: an expired request of a synchronous call is left to its timer.
Loop_Keeps(timeouts) ==
  /\ Unlocked
  /\ reqs' = reqs \ {c \in timeouts : ~kind[c].sync}
  /\ UNCHANGED <<udp, kind, pc, signal, holder, netVars, queue, hist>>

\* Expired requests are removed; the exception functions of those with a
\* signal channel, the synchronous ones, are called.
Loop(timeouts) ==
  /\ Unlocked
  /\ reqs' = reqs \ timeouts
  /\ exceptions' = [c \in Calls |->
        IF c \in timeouts /\ kind[c].exception /\ kind[c].sync
        THEN exceptions[c] + 1 ELSE exceptions[c]]
  /\ UNCHANGED <<udp, kind, pc, signal, holder, netVars, queue, callbacks>>
-----------------------------------------------------------------------------
(* The peer and the network.                                               *)

\* handleRpcReq at the peer: an error is answered always, a result unless the
\* call is one-way.  TCP delivers the answer once, UDP perhaps several times.
handleRpcReq(c) ==
  /\ c \in wire
  /\ wire' = wire \ {c}
  /\ \E r \in Codes, n \in 1 .. IF udp THEN Copies ELSE 1 :
       /\ replies' = [replies EXCEPT ![c] = IF r = "ok" /\ IsOneWay(c) THEN 0 ELSE n]
       /\ code' = [code EXCEPT ![c] = r]
  /\ UNCHANGED <<udp, kind, pc, reqs, signal, holder, queue, hist>>
-----------------------------------------------------------------------------
(* Unmarshal, for a response.                                              *)

\* Mutant: Unmarshal always waits for a receiver, as if signal had no buffer.
Unmarshal_Unbuffered(c) ==
  /\ Unlocked /\ replies[c] > 0
  /\ replies' = [replies EXCEPT ![c] = @ - 1]
  /\ IF c \in reqs /\ kind[c].sync
     THEN holder' = c /\ UNCHANGED <<signal, queue>>
     ELSE queue' = [queue EXCEPT ![c] = @ + 1] /\ UNCHANGED <<holder, signal>>
  /\ UNCHANGED <<udp, kind, pc, reqs, wire, code, hist>>

\* The response of a synchronous call goes to its caller, any other one to
\* the message thread.
Unmarshal(c) ==
  /\ Unlocked /\ replies[c] > 0
  /\ replies' = [replies EXCEPT ![c] = @ - 1]
  /\ IF ~(c \in reqs /\ kind[c].sync)
     THEN queue' = [queue EXCEPT ![c] = @ + 1] /\ UNCHANGED <<holder, signal>>
     ELSE IF signal[c] = 0
     THEN signal' = [signal EXCEPT ![c] = 1] /\ UNCHANGED <<holder, queue>>
     ELSE holder' = c /\ UNCHANGED <<signal, queue>>
  /\ UNCHANGED <<udp, kind, pc, reqs, wire, code, hist>>

\* Room in the channel for the response Unmarshal waits with.
UnmarshalSends(c) ==
  /\ holder = c /\ signal[c] = 0
  /\ signal' = [signal EXCEPT ![c] = 1]
  /\ holder' = NoCall
  /\ UNCHANGED <<udp, kind, pc, reqs, netVars, queue, hist>>
-----------------------------------------------------------------------------
Caller(c) ==
  \/ sendRpcReq(c) \/ SendFails(c)
  \/ SyncReceives(c) \/ SyncHandles(c) \/ SyncTimeout(c) \/ SyncGivesUp(c)

Parser(c) == Unmarshal(c) \/ UnmarshalSends(c)

Next ==
  \/ \E c \in Calls : rpc_call(c) \/ Caller(c) \/ Parser(c)
  \/ \E c \in Calls : HandleMessage(c) \/ handleRpcReq(c)
  \/ \E timeouts \in SUBSET reqs : Loop(timeouts)

Spec == Init /\ [][Next]_vars

(***************************************************************************)
(* Fairness: timers fire, and the caller, the parser, the message thread   *)
(* and Loop (called every LoopMSec by the server) run.  Nobody has to      *)
(* call, and the peer has to answer nothing.                               *)
(***************************************************************************)
Fairness ==
  /\ \A c \in Calls : /\ WF_vars(Caller(c))
                      /\ WF_vars(Parser(c)) /\ WF_vars(HandleMessage(c))
                      /\ WF_vars(c \in reqs /\ Loop({d \in reqs : d = c}))

FairSpec == Spec /\ Fairness
-----------------------------------------------------------------------------
(* Properties.                                                             *)

\* Every variable has its type; a signal channel holds one response at most.
TypeOK ==
  /\ udp \in BOOLEAN /\ kind \in [Calls -> Kind]
  /\ pc \in [Calls -> {"idle", "send", "select", "response", "timeout", "returned", "failed"}]
  /\ reqs \in SUBSET Calls
  /\ signal \in [Calls -> 0 .. 1] /\ holder \in Calls \cup {NoCall}
  /\ wire \in SUBSET Calls /\ replies \in [Calls -> Nat]
  /\ code \in [Calls -> Codes] /\ queue \in [Calls -> Nat]
  /\ callbacks \in [Calls -> Nat] /\ exceptions \in [Calls -> Nat]

\* The functions of a call exclude each other, whichever of handleRpcRsp, Loop
\* and the timer gets to it first and however many responses arrive: the
\* callback is called once and then no exception ever; an asynchronous call
\* hears of one exception at most.
OneOutcome ==
  \A c \in Calls : /\ callbacks[c] <= 1
                   /\ callbacks[c] = 1 => exceptions[c] = 0
                   /\ ~kind[c].sync => exceptions[c] <= 1

\* A synchronous call that has both functions and has returned without an error
\* has had one of them called, also when Loop removes its request between the
\* arrival of the response and handleRpcRsp.
SyncHasOutcome ==
  \A c \in Calls :
    kind[c].sync /\ kind[c].callback /\ kind[c].exception /\ pc[c] = "returned"
      => callbacks[c] + exceptions[c] > 0

\* Over TCP the parser never waits while it holds rpcMutex (rpc.go:360).
ParserNeverWaits == ~udp => Unlocked

\* The state from which rpcMutex is never released: a second copy of a response
\* waits for a caller that does not read its signal channel any more.
Jammed ==
  \E c \in Calls : holder = c /\ signal[c] = 1 /\ pc[c] \notin {"send", "select"}

\* A call returns, and its request does not stay registered, also when nothing
\* is answered or the request could not be sent (until the parser is jammed,
\* which takes UDP and a duplicated response).
CallsEnd ==
  \A c \in Calls :
    /\ (pc[c] = "send") ~> (pc[c] \in {"returned", "failed"} \/ (udp /\ Jammed))
    /\ (c \in reqs) ~> (c \notin reqs \/ (udp /\ Jammed))
=============================================================================
