----------------------------- MODULE HttpConn -----------------------------
(***************************************************************************)
(* One connection of ServiceHttp (stnet/servicehttp.go): requests arrive   *)
(* one after the other and cut anywhere, Unmarshal finds them, a handler   *)
(* answers each through httpWriter, and a client reads the answers.        *)
(*                                                                         *)
(* The stream is a sequence of pieces: "line" and "end" of a head, "data"  *)
(* of a body, "zero" for the chunk of length 0, which is the CRLF before   *)
(* it, "0" and CRLF, and "crlf" for what follows it.  A head has the       *)
(* Content-Length n, or n = None, or n = Chunked.  A handler is the        *)
(* sequence of the calls it makes.                                         *)
(***************************************************************************)
EXTENDS Integers, SequencesExt

CONSTANTS
  Bodies,    \* the kinds of requests: Content-Length, None or Chunked
  Handlers,  \* sequences of calls [f, n], f in SetLength, SetOther, WriteHeader, Write
  MaxReqs    \* bound: requests on the connection

VARIABLES
  wire,   \* pieces that the client has sent and that have not arrived
  reqs,   \* the requests it has sent
  data,   \* what the session holds in its buffer
  taken,  \* the requests that Unmarshal has returned, with their handler; errors as Broken
  pc,     \* the next call of the handler of the last one
  w,      \* its httpWriter
  out     \* what was sent to the client: heads and bytes of bodies

connVars == <<wire, reqs, data, taken, pc, w, out>>

None    == -1
Chunked == -2
Broken  == [n |-> None, calls |-> <<>>, broken |-> TRUE]

NewWriter == [length |-> None, other |-> FALSE, wrote |-> FALSE, buf |-> <<>>]

ConnInit ==
  /\ wire = <<>> /\ reqs = <<>> /\ data = <<>> /\ taken = <<>>
  /\ pc = 1 /\ w = NewWriter /\ out = <<>>

P(kind, n) == [p |-> kind, n |-> n]

\* The client sends a request.
Request(n) ==
  /\ Len(reqs) < MaxReqs
  /\ reqs' = Append(reqs, n)
  /\ wire' = wire \o <<P("line", n), P("end", n)>>
               \o CASE n = None -> <<>>
                    [] n = Chunked -> <<P("data", 0), P("zero", 0), P("crlf", 0)>>
                    [] OTHER -> [i \in 1 .. n |-> P("data", 0)]
  /\ UNCHANGED <<data, taken, pc, w, out>>

Receive(k) ==
  /\ k \in 1 .. Len(wire)
  /\ data' = data \o SubSeq(wire, 1, k) /\ wire' = SubSeq(wire, k + 1, Len(wire))
  /\ UNCHANGED <<reqs, taken, pc, w, out>>

Index(kind) == LET at == {i \in DOMAIN data : data[i].p = kind} IN IF at = {} THEN 0 ELSE Min(at)

\* Mutant: the body is not waited for.
lenParsedEarly ==
  LET head == Index("end")
      n == data[head].n
  IN CASE head = 0 -> 0
       [] head # 0 /\ data[1].p # "line" -> Len(data)
       [] head # 0 /\ data[1].p = "line" /\ n = None -> head
       [] head # 0 /\ data[1].p = "line" /\ n = Chunked -> Index("zero")
       [] OTHER -> Min({head + n, Len(data)})

\* lenParsed of Unmarshal, 0 to wait for more; a request that does not begin with its line is an
\* error that consumes everything.
lenParsed ==
  LET head == Index("end")
      n == data[head].n
  IN CASE head = 0 -> 0
       [] head # 0 /\ data[1].p # "line" -> Len(data)
       [] head # 0 /\ data[1].p = "line" /\ n = None -> head
       [] head # 0 /\ data[1].p = "line" /\ n = Chunked -> Index("zero")
       [] OTHER -> IF Len(data) < head + n THEN 0 ELSE head + n

Idle == taken # <<>> => pc > Len(Last(taken).calls)

\* Unmarshal finds a request and HandleMessage starts its handler.
Take(calls) ==
  /\ Idle /\ lenParsed > 0
  /\ taken' = Append(taken, IF data[1].p # "line" THEN Broken
                            ELSE [n |-> data[1].n, calls |-> calls, broken |-> FALSE])
  /\ data' = SubSeq(data, lenParsed + 1, Len(data))
  /\ pc' = 1 /\ w' = NewWriter
  /\ UNCHANGED <<wire, reqs, out>>

HeadOf(status, length) == [status |-> status, length |-> length]
Body(n) == [i \in 1 .. n |-> HeadOf(0, 0)]

\* Mutant: the head stays in buf and is sent again.
FlushAgain(v, n) ==
  LET head == IF v.length = None /\ ~v.other
              THEN [i \in DOMAIN v.buf |-> IF i = Len(v.buf) THEN [v.buf[i] EXCEPT !.length = n] ELSE v.buf[i]]
              ELSE v.buf
  IN [w |-> v, sent |-> head \o Body(n)]

\* Send of the head in buf, closed by an empty line, and of n bytes; without a head, of the bytes.
Flush(v, n) ==
  LET head == IF v.length = None /\ ~v.other
              THEN [i \in DOMAIN v.buf |-> IF i = Len(v.buf) THEN [v.buf[i] EXCEPT !.length = n] ELSE v.buf[i]]
              ELSE v.buf
  IN [w |-> [v EXCEPT !.buf = <<>>], sent |-> head \o Body(n)]

\* Statuses that end the head at once.
Bare(status) == status \in 100 .. 199 \cup {204, 304}

WriteHeader(v, status) ==
  LET u == [v EXCEPT !.buf = Append(@, HeadOf(status, v.length)), !.wrote = TRUE]
  IN IF Bare(status) THEN Flush(u, 0) ELSE [w |-> u, sent |-> <<>>]

Write(v, n) ==
  LET u == IF v.wrote THEN v
           ELSE WriteHeader([v EXCEPT !.length = IF @ = None THEN n ELSE @], 200).w
  IN IF u.buf # <<>> THEN Flush(u, n) ELSE [w |-> u, sent |-> Body(n)]

\* The handler makes its next call.
Call ==
  /\ ~Idle
  /\ LET c == Last(taken).calls[pc]
         r == CASE c.f = "SetLength" -> [w |-> [w EXCEPT !.length = c.n], sent |-> <<>>]
                [] c.f = "SetOther" -> [w |-> [w EXCEPT !.other = TRUE], sent |-> <<>>]
                [] c.f = "WriteHeader" -> WriteHeader(w, c.n)
                [] c.f = "Write" -> Write(w, c.n)
     IN w' = r.w /\ out' = out \o r.sent
  /\ pc' = pc + 1
  /\ UNCHANGED <<wire, reqs, data, taken>>

ConnNext ==
  \/ \E n \in Bodies : Request(n)
  \/ \E k \in 1 .. Len(wire) : Receive(k)
  \/ \E calls \in Handlers : Take(calls)
  \/ Call

-----------------------------------------------------------------------------
\* Only the last request is chunked: the crlf at its end stays in the buffer and is taken for the
\* beginning of the next request.
ChunkedLast == \A i \in DOMAIN reqs : reqs[i] = Chunked => i = Len(reqs)

\* However the stream is cut, Unmarshal returns the requests that were sent, in their order and
\* with their bodies, and only waits if the next one is not complete.
RequestsInOrder ==
  ChunkedLast =>
    /\ \A i \in DOMAIN taken : ~taken[i].broken /\ taken[i].n = reqs[i]
    /\ lenParsed = 0 /\ wire = <<>> => Len(taken) = Len(reqs)

-----------------------------------------------------------------------------
Count(calls, f) == Len(SelectSeq(calls, LAMBDA c : c.f = f))
Written(calls) == FoldSeq(LAMBDA c, s : (IF c.f = "Write" THEN c.n ELSE 0) + s, 0, calls)
First(calls, f) == LET at == {i \in DOMAIN calls : calls[i].f = f} IN IF at = {} THEN Len(calls) + 1 ELSE Min(at)

Status(calls) ==
  LET i == First(calls, "WriteHeader") IN IF i > Len(calls) THEN 200 ELSE calls[i].n

\* A handler whose answer the client can tell from the next one: one head, made before the body;
\* with a status that has a body, at least one Write, and its length known when the head is made:
\* set by the handler, or taken from the only Write, which only happens if the head is made by that
\* Write or has no other field.
Delimited(calls) ==
  LET head == First(calls, "WriteHeader")
      body == First(calls, "Write")
  IN /\ Count(calls, "WriteHeader") <= 1 /\ (head <= Len(calls) => head < body)
     /\ \/ Bare(Status(calls)) /\ Written(calls) = 0
        \/ /\ Count(calls, "SetLength") = 1 /\ Count(calls, "Write") >= 1
           /\ First(calls, "SetLength") < Min({head, body})
           /\ calls[First(calls, "SetLength")].n = Written(calls)
        \/ /\ Count(calls, "SetLength") = 0 /\ Count(calls, "Write") = 1
           /\ Count(calls, "WriteHeader") = 0 \/ Count(calls, "SetOther") = 0

\* The answers as a client reads them: a head with its length, as many bytes, and so on.
RECURSIVE Answers(_)
Answers(s) ==
  IF s = <<>> THEN <<>>
  ELSE LET h == Head(s)
           n == IF Bare(h.status) THEN 0 ELSE h.length
       IN IF h.status = 0 \/ n = None \/ Len(s) < n + 1 \/ \E i \in 2 .. n + 1 : s[i].status # 0
          THEN <<-1>>
          ELSE <<h.status>> \o Answers(SubSeq(s, n + 2, Len(s)))

\* While handlers keep to that, the client reads one answer for each request that was handled, in
\* order and with its status, whatever the writer put in one Send or in several.
AnswersInOrder ==
  Idle /\ (\A i \in DOMAIN taken : ~taken[i].broken /\ Delimited(taken[i].calls)) =>
    Answers(out) = [i \in DOMAIN taken |-> Status(taken[i].calls)]
===========================================================================
