----------------------------- MODULE MCFormats -----------------------------
(***************************************************************************)
(* Small instances of the formats of stnet and stconfig, and of the proxy, *)
(* of which only safety is checked here.  They share no state: the first   *)
(* state of a behaviour says which one it is about.                        *)
(***************************************************************************)
EXTENDS SpbMessage, Frames, HttpMux, HttpConn, Ini, Proxy, ProxyConfig

VARIABLE part  \* one of Parts

-----------------------------------------------------------------------------
(* spb *)

Uint8   == [k |-> "uint", w |-> 8]
Int8    == [k |-> "int", w |-> 8]
Uint64  == [k |-> "uint", w |-> Word]
Int64   == [k |-> "int", w |-> Word]
Bool    == [k |-> "bool"]
Float8  == [k |-> "float", w |-> 8]
Str     == [k |-> "string"]
Chan    == [k |-> "other"]
Slice(T)     == [k |-> "slice", el |-> T]
MapOf(K, T)  == [k |-> "map", key |-> K, el |-> T]
Ptr(T)       == [k |-> "ptr", el |-> T]
Struct(fs)   == [k |-> "struct", fields |-> fs]
Field(T)          == [tag |-> NoTag, require |-> FALSE, typ |-> T]
Tagged(n, req, T) == [tag |-> n, require |-> req, typ |-> T]

Inner == Struct(<<Field(Int8), Field(Slice(Uint8))>>)

\* Five versions of one message: fields added, removed, moved, retyped, nested.
Versions == {
  Struct(<<Field(Int8), Field(Str)>>),
  Struct(<<Tagged(1, TRUE, Str), Tagged(20, FALSE, Uint8)>>),
  Struct(<<Tagged(20, TRUE, MapOf(Uint8, Inner)), Tagged(1, FALSE, Slice(MapOf(Uint8, Uint8))), Tagged(0, FALSE, Uint64)>>),
  Struct(<<Field(Slice(Ptr(Inner))), Tagged(15, FALSE, Bool), Field(Inner)>>),
  Struct(<<Field(Float8), Field(Ptr(Inner)), Field(Bool)>>)}

Scalars == {Uint8, Int8, Uint64, Int64, Bool, Str, Float8}

\* Values of a type, the boundary ones of its width among them.
RECURSIVE Boundary(_)
Boundary(T) ==
  CASE T.k = "uint" -> {0, 127, 128, 2^T.w - 1}
    [] T.k = "int" -> {-2^(T.w - 1), -1, 0, 2^(T.w - 1) - 1}
    [] T.k = "float" -> {0, 63}
    [] T.k = "bool" -> BOOLEAN
    [] T.k = "string" -> {<<>>, <<0, 200>>}
    [] T.k = "ptr" -> {<<v>> : v \in Boundary(T.el)}
    [] T.k = "slice" -> {<<>>} \cup {<<v, u>> : v \in Boundary(T.el), u \in Boundary(T.el)}
    [] OTHER -> {0}

\* Two values of a struct or a map: everything zero, everything set.
RECURSIVE Full(_)
Full(T) ==
  CASE T.k = "struct" -> [i \in DOMAIN T.fields |-> Full(T.fields[i].typ)]
    [] T.k = "slice" -> <<Full(T.el), Full(T.el)>>
    [] T.k = "ptr" -> <<Full(T.el)>>
    [] T.k = "map" -> <<<<Full(T.key), Full(T.el)>>, <<Zero(T.key), Full(T.el)>>>>
    [] T.k = "int" -> -3
    [] T.k = "uint" -> 200
    [] T.k = "float" -> 5
    [] T.k = "bool" -> TRUE
    [] T.k = "string" -> <<7>>
    [] OTHER -> 0

\* A struct with each field zero or full; a nil pointer cannot be packed.
Sent(T) == {[i \in DOMAIN T.fields |-> IF i \in Z THEN Zero(T.fields[i].typ) ELSE Full(T.fields[i].typ)] :
              Z \in SUBSET {i \in DOMAIN T.fields : T.fields[i].typ.k # "ptr"}}

MCTypes ==
  {<<<<F>>, <<T>>>> : F \in Scalars, T \in Scalars} \cup {<<<<F>>, <<T>>>> : F \in Versions, T \in Versions}
  \cup {<<<<Slice(T)>>, <<Slice(T)>>>> : T \in {Int8, Int64, Str, Ptr(Int8), Chan}}
  \cup {<<<<F, Int8>>, <<F, Int8>>>> : F \in Versions}

\* A scalar has any value and a struct any fields; the parameters of an rpc call are all set and
\* arrive in new variables.
MCMessages(from, to) ==
  LET v == IF Len(from) > 1 THEN {[i \in DOMAIN from |-> Full(from[i])]}
           ELSE {<<x>> : x \in IF from[1].k = "struct" THEN Sent(from[1]) ELSE Boundary(from[1])}
      zero == [i \in DOMAIN to |-> Zero(to[i])]
  IN {[from |-> from, vals |-> x, to |-> to, old |-> old, tag |-> Len(from) - 1] :
        x \in v, old \in IF Len(from) > 1 THEN {zero} ELSE {zero, <<Full(to[1])>>}}

-----------------------------------------------------------------------------
(* Frames: both sides of every limit. *)

MCSizes == {0, 2^8 - 4, 2^16 - 5, 2^16 - 4, 2^18 - 4, MaxMsgSize - 5, MaxMsgSize - 4, 2^24 - 5, 2^24 - 4}

(* Patterns of HttpMux: nested trees and leaves, with a host and without. *)

MCChars == {"/", ":", "a", "b", "c", "g", "h", "1", "2"}
MCPatterns == {<<>>, <<"/">>, <<"/", "a">>, <<"/", "a", "/">>, <<"/", "a", "/", "b">>, <<"h", "/">>, <<"h", "/", "a", "/">>,
               <<"h", "/", "a", "/", "b", "/">>}
MCHosts == {[name |-> n, port |-> p] : n \in {<<"h">>, <<"g">>}, p \in {<<>>, <<"1">>, <<"1", ":", "2">>}}
MCPaths == {<<"/">>, <<"/", "a">>, <<"/", "a", "/">>, <<"/", "a", "/", "b">>, <<"/", "a", "b">>, <<"/", "a", "/", "b", "/", "c">>}

(* Handlers of HttpConn: what http.Error, http.NotFound and usual handlers call. *)

C(f, n) == [f |-> f, n |-> n]
MCHandlers == {
  <<C("Write", 2)>>, <<C("WriteHeader", 404), C("Write", 1)>>, <<C("WriteHeader", 204)>>,
  <<C("SetOther", 0), C("Write", 1)>>, <<C("SetOther", 0), C("WriteHeader", 304)>>,
  <<C("SetLength", 3), C("Write", 1), C("Write", 2)>>,
  <<C("SetLength", 1), C("WriteHeader", 500), C("Write", 1)>>,
  <<C("SetOther", 0), C("WriteHeader", 404), C("Write", 1)>>,
  <<C("Write", 1), C("Write", 1)>>, <<C("WriteHeader", 200)>>, <<>>}
MCBodies == {None, 0, 2, Chunked}

(* Files of Ini: two lines of any kind, or a section and two lines in it or of the next one. *)

MCValues == {[q |-> FALSE, v |-> "x"], [q |-> TRUE, v |-> "y"]}
MCComments == {<<>>, <<"c">>}
MCLines == {[k |-> "comment", c |-> <<"d">>], [k |-> "bad"], [k |-> "blank"]}
  \cup {[k |-> "section", name |-> n] : n \in Names}
  \cup {[k |-> "kv", key |-> key, val |-> v] : key \in Keys, v \in MCValues}
MCFiles ==
  UNION {[1 .. n -> MCLines] : n \in 0 .. 2}
  \cup {f \in [1 .. 3 -> {l \in MCLines : l.k \notin {"bad", "blank"}}] : f[1].k = "section"}

(* Names of ProxyConfig: two ends that listen, two that connect. *)

MCListen == [n \in {"l1", "l2"} |-> IF n = "l1" THEN 1 ELSE 2]
MCConnects == [n \in {"c1", "c2"} |-> IF n = "c1" THEN 3 ELSE 4]

-----------------------------------------------------------------------------
Parts == {"spb", "frames", "mux", "conn", "ini", "proxy", "config"}

\* The formats that a behaviour is not about stay in some state without a history.
SpbIdle == msg = <<>> /\ buf = <<>> /\ ix = 1 /\ got = <<>> /\ err = "nil" /\ stage = "pack"
FrameIdle == proto = "rpc" /\ sent = <<>> /\ toolong = 0 /\ arrived = 0 /\ parsed = 0 /\ calls = <<>>
ConfigIdle == trans = <<>> /\ proxies = NoProxy /\ loaded = "no" /\ cum = NoWeights /\ chosen = Nobody
IniIdle == file = <<>> /\ config = NoConfig /\ saved = NoConfig /\ torn = FALSE /\ edits = 0

MCInit ==
  /\ part \in Parts
  /\ IF part = "spb" THEN SpbInit ELSE SpbIdle
  /\ IF part = "frames" THEN FrameInit ELSE FrameIdle
  /\ IF part = "ini" THEN IniInit ELSE IniIdle
  /\ IF part = "config" THEN ConfigInit ELSE ConfigIdle
  /\ MuxInit /\ ConnInit /\ ProxyInit

MCNext ==
  \/ part = "spb" /\ SpbNext /\ UNCHANGED <<part, frameVars, muxVars, connVars, iniVars, proxyVars, configVars>>
  \/ part = "frames" /\ FrameNext /\ UNCHANGED <<part, spbVars, muxVars, connVars, iniVars, proxyVars, configVars>>
  \/ part = "mux" /\ MuxNext /\ UNCHANGED <<part, spbVars, frameVars, connVars, iniVars, proxyVars, configVars>>
  \/ part = "conn" /\ ConnNext /\ UNCHANGED <<part, spbVars, frameVars, muxVars, iniVars, proxyVars, configVars>>
  \/ part = "ini" /\ IniNext /\ UNCHANGED <<part, spbVars, frameVars, muxVars, connVars, proxyVars, configVars>>
  \/ part = "proxy" /\ ProxyNext /\ UNCHANGED <<part, spbVars, frameVars, muxVars, connVars, iniVars, configVars>>
  \/ part = "config" /\ ConfigNext /\ UNCHANGED <<part, spbVars, frameVars, muxVars, connVars, iniVars, proxyVars>>
=============================================================================
