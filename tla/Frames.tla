------------------------------ MODULE Frames ------------------------------
(***************************************************************************)
(* How the services of stnet put messages on a stream and find them again: *)
(* a frame is a length of four bytes, the frame's own, and the encoded     *)
(* message (stnet/encode.go, rpc.go, simpleimp.go).  The message itself is *)
(* only its size; the bytes that arrive are only counted, since where they *)
(* are cut is what the services have to cope with.                         *)
(***************************************************************************)
EXTENDS Integers, Sequences

CONSTANTS
  MaxMsgSize,  \* var MaxMsgSize: frames from this length on are refused
  Sizes,       \* sizes of the encoded messages
  MaxFrames    \* bound: messages per session

\* A length has four bytes.
ASSUME FrameAssumption ==
  /\ MaxMsgSize \in Nat /\ MaxFrames \in Nat
  /\ Sizes \subseteq Nat /\ \A n \in Sizes : (n + 4) \div 2^24 < 2^8

VARIABLES
  proto,    \* the service: "rpc", "spb" or "json"
  sent,     \* the frames on the stream: their first four bytes, their length and where they start
  toolong,  \* number of messages that the sender was refused
  arrived,  \* number of bytes in the receiver's buffer or before
  parsed,   \* number of bytes consumed
  calls     \* what Unmarshal has returned with lenParsed > 0: lengths, -1 for an error

frameVars == <<proto, sent, toolong, arrived, parsed, calls>>

Byte(n, shift) == (n \div 2^shift) % 256

\* The heads of encodeProtocol (rpc) and EncodeProtocol (spb and json).
encodeProtocol(n) == <<Byte(n, 24), Byte(n, 16), Byte(n, 8), Byte(n, 0)>>

EncodeProtocol(n) == <<Byte(n, 24), Byte(n, 18), Byte(n, 8), Byte(n, 0)>>

\* Mutant: the length takes in the byte with the flags.
msgLenAll(b) == b[4] + 2^8 * b[3] + 2^16 * b[2] + 2^24 * b[1]

msgLen(b) == b[4] + 2^8 * b[3] + 2^16 * b[2]

MsgLen(b) == b[4] + 2^8 * b[3] + 2^16 * b[2] + 2^24 * b[1]

\* sendRpcReq and sendRpcRsp set bits of the first byte, which the length must leave zero.
RpcFlags == {2, 3}

FrameInit ==
  /\ proto \in {"rpc", "spb", "json"}
  /\ sent = <<>> /\ toolong = 0 /\ arrived = 0 /\ parsed = 0 /\ calls = <<>>

\* The number of bytes sent.
Total == IF sent = <<>> THEN 0 ELSE sent[Len(sent)].start + sent[Len(sent)].len

Push(head, n) == sent' = Append(sent, [head |-> head, len |-> n, start |-> Total])

\* sendRpcReq, sendRpcRsp
sendRpc(size, flag) ==
  /\ proto = "rpc" /\ Len(sent) + toolong < MaxFrames
  /\ LET head == encodeProtocol(size + 4)
     IN IF head[1] > 0 THEN toolong' = toolong + 1 /\ UNCHANGED sent
                       ELSE Push([head EXCEPT ![1] = flag], size + 4) /\ UNCHANGED toolong
  /\ UNCHANGED <<proto, arrived, parsed, calls>>

\* SendSpbCmd, SendJsonCmd
SendCmd(size) ==
  /\ proto \in {"spb", "json"} /\ Len(sent) < MaxFrames
  /\ Push(EncodeProtocol(size + 4), size + 4)
  /\ UNCHANGED <<proto, toolong, arrived, parsed, calls>>

\* Read returns with some bytes: up to the middle of a head, of a message, or to its end.
Arrive(n) ==
  /\ n > arrived /\ arrived' = n
  /\ UNCHANGED <<proto, sent, toolong, parsed, calls>>

Cuts == UNION {{sent[i].start + c : c \in {1, 3, 4, sent[i].len - 1, sent[i].len}} : i \in DOMAIN sent}

\* The length that a service reads.
lengthOf(head) == IF proto = "rpc" THEN msgLen(head) ELSE MsgLen(head)

\* The Unmarshal of the three services: lenParsed, 0 to wait for more, and err.
Unmarshal(head, len) ==
  LET n == lengthOf(head)
  IN CASE len < 4 -> [lenParsed |-> 0, err |-> FALSE]
       [] len >= 4 /\ (n < 4 \/ n >= MaxMsgSize) -> [lenParsed |-> len, err |-> TRUE]
       [] OTHER -> [lenParsed |-> IF len < n THEN 0 ELSE n, err |-> FALSE]

\* One call of Unmarshal on what the buffer holds.  Off the start of a frame the bytes that the
\* service takes for a length are those of some message: not followed any further.
Parse ==
  /\ \E i \in DOMAIN sent :
       /\ parsed = sent[i].start
       /\ LET r == Unmarshal(sent[i].head, arrived - parsed)
          IN /\ r.lenParsed > 0
             /\ parsed' = parsed + r.lenParsed
             /\ calls' = Append(calls, IF r.err THEN -1 ELSE r.lenParsed)
  /\ UNCHANGED <<proto, sent, toolong, arrived>>

FrameNext ==
  \/ \E size \in Sizes, flag \in RpcFlags : sendRpc(size, flag)
  \/ \E size \in Sizes : SendCmd(size)
  \/ \E n \in Cuts : Arrive(n)
  \/ Parse

FrameSpec == FrameInit /\ [][FrameNext]_frameVars

\* Frames that the service can carry: the length of spb and json frames has 16 good bits, as
\* EncodeProtocol shifts by 18 for the third byte.
Carried(f) == f.len < MaxMsgSize /\ (proto # "rpc" => f.len < 2^16)
AllCarried == \A i \in DOMAIN sent : Carried(sent[i])

\* While only frames that the service can carry were sent, Unmarshal gives them back one by one,
\* each with its length, however the stream is cut: the flags of rpc never reach the length, no
\* frame is refused, and none that has arrived whole is left waiting for bytes of the next.
FramesRead ==
  AllCarried =>
    /\ calls = [i \in DOMAIN calls |-> sent[i].len]
    /\ \A i \in DOMAIN sent :
         parsed = sent[i].start /\ arrived >= sent[i].start + sent[i].len =>
           Unmarshal(sent[i].head, arrived - parsed).lenParsed = sent[i].len

\* Its inductive form: the frames lie one behind the other, the head of a frame that can be carried gives its
\* length, and what was consumed ends where the first frame begins that Unmarshal has not returned.
FrameInv ==
  /\ proto \in {"rpc", "spb", "json"} /\ toolong \in Nat /\ arrived \in Nat /\ parsed \in Nat
  /\ sent \in Seq([head : [1 .. 4 -> Nat], len : Nat, start : Nat]) /\ calls \in Seq(Int)
  /\ \A i \in DOMAIN sent : sent[i].len >= 4 /\ (Carried(sent[i]) => lengthOf(sent[i].head) = sent[i].len)
  /\ \A i, j \in DOMAIN sent : i < j => sent[i].start + sent[i].len <= sent[j].start
  /\ AllCarried =>
       /\ Len(calls) <= Len(sent) /\ \A i \in DOMAIN calls : calls[i] = sent[i].len
       /\ parsed = IF Len(calls) = Len(sent) THEN Total ELSE sent[Len(calls) + 1].start
===========================================================================
