------------------------------ MODULE HttpMux ------------------------------
(***************************************************************************)
(* HttpHandler of stnet/servicehttp.go: handlers are registered for        *)
(* patterns, each request gets the handler of one pattern.  Strings are    *)
(* sequences of characters; the handler of a pattern is the pattern.  Both *)
(* operations hold the mutex from start to end: each is one step.          *)
(***************************************************************************)
EXTENDS Integers, Sequences

CONSTANTS
  Chars,     \* the characters of patterns, hosts and paths
  Patterns,  \* arguments of Handle
  Hosts,     \* Host of a request: [name, port], port <<>> if there is none
  Paths      \* URL.Path of a request

\* Strings are finite, and requests are well formed: a Host does not begin with a slash (ReadRequest does
\* not look).
ASSUME MuxAssumption ==
  /\ ":" \in Chars /\ Patterns \subseteq Seq(Chars) /\ Paths \subseteq Seq(Chars)
  /\ \A h \in Hosts : h.name \in Seq(Chars) /\ h.port \in Seq(Chars) /\ (h.name # <<>> => Head(h.name) # "/")

VARIABLES
  m,     \* HttpHandler.m: the set of its keys
  es,    \* HttpHandler.es
  hosts  \* HttpHandler.hosts

muxVars == <<m, es, hosts>>

Lowest(S) == CHOOSE i \in S : \A j \in S : i <= j
HasPrefix(s, p) == Len(p) <= Len(s) /\ \A i \in DOMAIN p : s[i] = p[i]
EndsInSlash(s) == s[Len(s)] = "/"

MuxInit == m = {} /\ es = <<>> /\ hosts = FALSE

\* Mutant: entries stay in the order of registration.
appendUnsorted(s, e) == Append(s, e)

\* sort.Search: the first entry shorter than e, es being sorted from longest to shortest.
appendSorted(s, e) ==
  LET shorter == {i \in DOMAIN s : Len(s[i]) < Len(e)}
      i == Lowest(shorter)
  IN IF shorter = {} THEN Append(s, e)
     ELSE [k \in 1 .. Len(s) + 1 |-> IF k < i THEN s[k] ELSE IF k = i THEN e ELSE s[k - 1]]

\* Handle and HandleFunc; they panic without an effect if there is no pattern or if it is taken.
Handle(pattern) ==
  /\ pattern # <<>> /\ pattern \notin m
  /\ m' = m \cup {pattern}
  /\ es' = IF EndsInSlash(pattern) THEN appendSorted(es, pattern) ELSE es
  /\ hosts' = (hosts \/ Head(pattern) # "/")

MuxNext == \E pattern \in Patterns : Handle(pattern)

MuxSpec == MuxInit /\ [][MuxNext]_muxVars

NotFound == <<>>

match(path) ==
  LET prefixes == {i \in DOMAIN es : HasPrefix(path, es[i])}
  IN IF path \in m THEN path ELSE IF prefixes = {} THEN NotFound ELSE es[Lowest(prefixes)]

handler(host, path) ==
  LET h1 == IF hosts THEN match(host \o path) ELSE NotFound
  IN IF h1 # NotFound THEN h1 ELSE match(path)

\* Handler: SplitHostPort fails on a second colon, and only then is its result, "", used.
HostOf(host) ==
  CASE host.port = <<>> -> host.name
    [] \E i \in DOMAIN host.port : host.port[i] = ":" -> <<>>
    [] OTHER -> host.name \o <<":">> \o host.port

Handler(r) == handler(HostOf(r.host), r.path)

-----------------------------------------------------------------------------
Requests == [host : Hosts, path : Paths]

\* The patterns that a string falls under: itself, and the trees that it is in.
Candidates(s) == {p \in m : p = s \/ (EndsInSlash(p) /\ HasPrefix(s, p))}
Longest(S) == IF S = {} THEN NotFound ELSE CHOOSE p \in S : \A q \in S : Len(q) <= Len(p)

\* What Handle keeps: es has the patterns that end in a slash, from longest to shortest, and hosts tells
\* whether a pattern has a host.
MuxInv ==
  /\ m \subseteq Patterns \ {<<>>}
  /\ es \in Seq(m) /\ \A i \in DOMAIN es : EndsInSlash(es[i])
  /\ \A p \in m : EndsInSlash(p) => \E i \in DOMAIN es : es[i] = p
  /\ \A i, j \in DOMAIN es : i < j => Len(es[j]) <= Len(es[i])
  /\ hosts <=> \E p \in m : Head(p) # "/"

\* In whatever order patterns were registered, a request gets the longest pattern that its path
\* falls under, and one with a host in it before any without.
MostSpecificWins ==
  \A r \in Requests :
    LET withHost == Candidates(HostOf(r.host) \o r.path)
    IN Handler(r) = IF withHost # {} THEN Longest(withHost) ELSE Longest(Candidates(r.path))
=============================================================================
