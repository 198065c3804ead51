----------------------------- MODULE SpbMessage -----------------------------
(***************************************************************************)
(* One message in the spb encoding: the sender marshals vals of the types  *)
(* from, the receiver unmarshals into variables of the types to that hold  *)
(* old.  Marshal and Unmarshal handle one value with tag 0; an rpc call    *)
(* has a value for each parameter, with tags from 1 (stnet/encode.go).     *)
(***************************************************************************)
EXTENDS Spb

CONSTANTS
  Types,          \* the pairs <<from, to>> of sequences of types
  Messages(_, _)  \* the messages for such a pair: records with from, vals, to, old and the first tag

VARIABLES
  msg,    \* the message, see Messages
  buf,    \* the bytes that arrive
  ix,     \* Spb.index of the receiver, counted from 1
  got,    \* what it has unpacked
  err,    \* its error
  stage   \* "pack", "refused", "sent", "cut"

spbVars == <<msg, buf, ix, got, err, stage>>

SpbInit ==
  /\ \E t \in Types : msg \in Messages(t[1], t[2])
  /\ buf = <<>> /\ ix = 1 /\ got = <<>> /\ err = "nil" /\ stage = "pack"

rpcMarshal(tag, T, v) == pack(tag, T, v, TRUE)
rpcUnmarshal(T, old) == unpack(T, old, TRUE, buf, ix)

\* SpbEncode, or rpcMarshal for one parameter after the other.
SpbEncode ==
  /\ stage = "pack"
  /\ LET b == FlattenSeq([i \in DOMAIN msg.vals |-> rpcMarshal(msg.tag + i - 1, msg.from[i], msg.vals[i])])
     IN IF Refused \in Range(b) THEN stage' = "refused" /\ UNCHANGED buf
                                ELSE stage' = "sent" /\ buf' = b
  /\ UNCHANGED <<msg, ix, got, err>>

\* Only the first n bytes are handed to the decoder.
Cut(n) ==
  /\ stage = "sent" /\ got = <<>> /\ n < Len(buf)
  /\ stage' = "cut" /\ buf' = SubSeq(buf, 1, n)
  /\ UNCHANGED <<msg, ix, got, err>>

\* SpbDecode, or rpcUnmarshal of the next parameter.
SpbDecode ==
  /\ stage \in {"sent", "cut"} /\ err = "nil" /\ Len(got) < Len(msg.to)
  /\ LET i == Len(got) + 1
         r == rpcUnmarshal(msg.to[i], msg.old[i])
     IN got' = Append(got, r.val) /\ ix' = r.ix /\ err' = r.err
  /\ UNCHANGED <<msg, buf, stage>>

SpbNext == SpbEncode \/ SpbDecode \/ \E n \in 0 .. Len(buf) : Cut(n)

Received == err # "nil" \/ Len(got) = Len(msg.to)

-----------------------------------------------------------------------------
(* What should arrive, field by field and without bytes. *)

RECURSIVE Omitted(_, _)
Omitted(T, v) ==
  CASE T.k = "ptr" -> Omitted(T.el, v[1])
    [] T.k = "struct" -> FALSE
    [] T.k = "bool" -> ~v
    [] T.k \in {"string", "slice", "map"} -> v = <<>>
    [] OTHER -> v = 0

\* The content of a variable of type T that held old, after a v of type F was sent to it.  Floats
\* travel as integers and are not taken back; nor are values for a pointer in a struct, nor
\* negative numbers for an unsigned variable; the least integer of a width loses its sign in a
\* wider variable.
RECURSIVE Expected(_, _, _, _)
Expected(F, v, T, old) ==
  LET Fresh(G, w, U) == IF U.k = "ptr" THEN <<Expected(G, w, U.el, Zero(U.el))>>
                                       ELSE Expected(G, w, U, Zero(U))
      source(j) == {i \in DOMAIN F.fields : /\ FieldTag(F, i) = FieldTag(T, j)
                                            /\ F.fields[i].require \/ ~Omitted(F.fields[i].typ, v[i])}
  IN CASE F.k = "ptr" -> Expected(F.el, v[1], T, old)
       [] F.k \in {"int", "uint", "bool", "float"} /\ T.k \in {"int", "uint", "bool"} ->
            LET n == IF F.k = "bool" THEN IF v THEN 1 ELSE 0 ELSE v
            IN IF F.k = "int" /\ T.k = "int" /\ n = -2^(F.w - 1) /\ T.w > F.w THEN -n
               ELSE IF T.k = "int" THEN Signed(n, T.w)
               ELSE IF n < 0 THEN old ELSE IF T.k = "uint" THEN Unsigned(n, T.w) ELSE n > 0
       [] F.k = "string" /\ T.k = "string" -> v
       [] F.k = "slice" /\ T.k = "slice" -> [i \in DOMAIN v |-> Fresh(F.el, v[i], T.el)]
       [] F.k = "map" /\ T.k = "map" ->
            MakeMap([i \in DOMAIN v |-> <<Fresh(F.key, v[i][1], T.key), Fresh(F.el, v[i][2], T.el)>>])
       [] F.k = "struct" /\ T.k = "struct" ->
            [j \in DOMAIN T.fields |->
               IF source(j) = {} THEN old[j]
               ELSE LET i == Min(source(j)) IN Expected(F.fields[i].typ, v[i], T.fields[j].typ, old[j])]
       [] OTHER -> old

RECURSIVE Plain(_)
Plain(T) ==
  CASE T.k = "float" -> FALSE
    [] T.k = "struct" -> \A i \in DOMAIN T.fields : T.fields[i].typ.k # "ptr" /\ Plain(T.fields[i].typ)
    [] T.k \in {"slice", "ptr"} -> Plain(T.el)
    [] T.k = "map" -> Plain(T.key) /\ Plain(T.el)
    [] OTHER -> TRUE

SameTypes == msg.to = msg.from /\ \A i \in DOMAIN msg.to : Plain(msg.to[i])

\* Values that Marshal or an rpc call packs are the ones that unpack restores in zero variables of
\* the same types, the least integer of each width included, and all bytes are consumed (types
\* without floats and without pointers in a struct, which unpack does not set).
RoundTrip ==
  /\ stage = "sent" /\ Received /\ SameTypes
  /\ \A i \in DOMAIN msg.to : msg.old[i] = Zero(msg.to[i])
  => err = "nil" /\ got = msg.vals /\ ix = Len(buf) + 1

\* A receiver whose types differ (a field more, a field less, another order or another type under
\* the same tag) still consumes the whole message without an error: unpack takes the fields whose
\* tags and kinds it has, skipField the others, and a field that was left out keeps what it held.
Compatible ==
  stage = "sent" /\ Received =>
    /\ err = "nil" /\ ix = Len(buf) + 1
    /\ got = [i \in DOMAIN msg.to |-> Expected(msg.from[i], msg.vals[i], msg.to[i], msg.old[i])]

\* What arrives whole is understood: exactly, by a receiver with the sender's types, and field by field
\* by any other (Marshal and Unmarshal, spb.go).
Understood == RoundTrip /\ Compatible

\* A message that lost its end is never taken for a complete one: unpack reports an error for
\* every proper prefix of an encoding (same types, no pointers in a struct: see Plain).
TruncationDetected ==
  stage = "cut" /\ Received /\ SameTypes => err # "nil"
=============================================================================
