------------------------------ MODULE KVBuffer ------------------------------
(***************************************************************************)
(* The key-value buffer of stkvbuffer: entries are kept in chains of       *)
(* chunks of one block of memory, which a program may map from a file and  *)
(* open again later.  The free list, the nodes and the LRU list are        *)
(* rebuilt from the links and sizes in the chunks.                         *)
(*                                                                         *)
(* Lengths are counted in units.  A chunk has Room units after its link;   *)
(* the first Header units of a chain hold the two sizes, then the key and  *)
(* the value follow without a gap.                                         *)
(***************************************************************************)
EXTENDS Integers, SequencesExt

CONSTANTS
  Keys, Vals,        \* keys and values
  KeyLen, ValLen,    \* their lengths
  Room,              \* units in a chunk (chunkSize - 4)
  Header,            \* units of the two sizes (8)
  MinChunks,         \* chunks of a new buffer
  MaxChunks,         \* bound: chunks of a reopened buffer
  NoKey              \* what bytes that are no key are taken for

ASSUME KVBufferAssumption ==
  /\ KeyLen \in [Keys -> Nat] /\ ValLen \in [Vals -> Nat]
  /\ Header \in Nat /\ Room \in Nat /\ Room > Header
  /\ MinChunks \in Nat \ {0} /\ MaxChunks \in Nat /\ MinChunks <= MaxChunks
  /\ NoKey \notin Keys

VARIABLES
  chunkNum,  \* KVBuffer.chunkNum
  link,      \* link[c]: the first field of chunk c in memory
  size,      \* size[c]: the two sizes in chunk c, if it is the first of a chain
  bytes,     \* bytes[c][o]: the unit at offset o of chunk c
  free,      \* freeChunk, which is kept sorted by index
  node,      \* the nodes in the LRU, by key
  order,     \* their keys, the one used last first (evictList)
  openLru    \* KVBuffer.openLru

memory == <<link, size, bytes>>
vars == <<chunkNum, link, size, bytes, free, node, order, openLru>>

Chunks == 1 .. MaxChunks
Units(x, n) == [i \in 1 .. n |-> <<x, i>>]
Value(v) == Units(v, ValLen[v])
-----------------------------------------------------------------------------
(* Nodes.                                                                  *)

\* n units of chain ch from position at on, in the units mem.
Read(mem, ch, at, n) ==
  [i \in 1 .. n |-> mem[ch[(at + i - 1) \div Room + 1]][(at + i - 1) % Room]]

\* mem after data has been copied into chain ch from position at on.
Copy(mem, ch, at, data) ==
  LET pos(c, o) == (CHOOSE j \in DOMAIN ch : ch[j] = c) * Room - Room + o - at + 1
  IN  [c \in Chunks |-> IF c \notin Range(ch) THEN mem[c]
                        ELSE [o \in 0 .. Room - 1 |->
                                IF pos(c, o) \in DOMAIN data THEN data[pos(c, o)] ELSE mem[c][o]]]

GetKey(mem, n) == Read(mem, n.chunks, Header, n.keySize)

\* Where the value of a node begins: index of the chunk and offset in it.
getValPos(n) == <<(Header + n.keySize) \div Room, (Header + n.keySize) % Room>>

\* The chunk where the value begins is indexed even if the value is empty.
GetVal(n) ==
  IF getValPos(n)[1] >= Len(n.chunks) THEN "index out of range"
  ELSE Read(bytes, n.chunks, Header + n.keySize, n.valSize)
-----------------------------------------------------------------------------
(* Free chunks and eviction.                                               *)

Least(S) == CHOOSE c \in S : \A d \in S : c <= d
ChunksOf(K) == UNION {Range(node[k].chunks) : k \in K}

\* Mutant: the key used last is removed first.
RECURSIVE EvictUntil_Newest(_, _, _)
EvictUntil_Newest(fr, o, n) ==
  IF Cardinality(fr) >= n \/ o = << >> THEN [free |-> fr, order |-> o]
  ELSE EvictUntil_Newest(fr \cup ChunksOf({Head(o)}), Tail(o), n)

\* Free chunks fr and keys o after the oldest keys have been removed until
\* there are n free chunks.
RECURSIVE EvictUntil(_, _, _)
EvictUntil(fr, o, n) ==
  IF Cardinality(fr) >= n \/ o = << >> THEN [free |-> fr, order |-> o]
  ELSE EvictUntil(fr \cup ChunksOf({Last(o)}), Front(o), n)

\* Chain ch extended to n chunks, from the free chunks first and then, one key
\* after the other, from what removing the oldest key frees; without LRU it
\* ends when no chunk is free.
RECURSIVE Extend(_, _, _, _)
Extend(ch, fr, o, n) ==
  IF Len(ch) >= n THEN [chunks |-> ch, free |-> fr, order |-> o]
  ELSE IF fr # {} THEN Extend(Append(ch, Least(fr)), fr \ {Least(fr)}, o, n)
  ELSE IF openLru /\ o # << >> THEN Extend(ch, ChunksOf({Last(o)}), Front(o), n)
  ELSE [chunks |-> ch, free |-> fr, order |-> o]

\* The n smallest elements of S.
Take(S, n) == SubSeq(SetToSortSeq(S, <), 1, n)

\* Links after the chunks of freed have been deleted and the chain ch has been
\* linked from its (zero-based) chunk i on.
Linked(freed, ch, i) ==
  [c \in Chunks |->
     IF c \in Range(SubSeq(ch, i + 1, Len(ch)))
     THEN LET j == CHOOSE j \in i + 1 .. Len(ch) : ch[j] = c
          IN  IF j = Len(ch) THEN c ELSE ch[j + 1]
     ELSE IF c \in freed THEN 0 ELSE link[c]]

Others(k) == SelectSeq(order, LAMBDA x : x # k)
Used(k) == IF k \in DOMAIN node THEN <<k>> \o Others(k) ELSE order
-----------------------------------------------------------------------------
(* NewKVBuffer on a block of memory that is not initialized.  Memory       *)
(* beyond it, which may be added later, holds links that mean nothing.     *)
Init ==
  /\ chunkNum = MinChunks
  /\ link = [c \in Chunks |-> IF c <= MinChunks THEN 0 ELSE c]
  /\ size = [c \in Chunks |-> <<0, 0>>]
  /\ bytes = [c \in Chunks |-> [o \in 0 .. Room - 1 |-> NoKey]]
  /\ free = 1 .. MinChunks
  /\ node = << >> /\ order = << >>
  /\ openLru \in BOOLEAN
-----------------------------------------------------------------------------
(* Get, Set and Del.  A Set of what the whole buffer could not hold, and a *)
(* Set of a new key in a full buffer without LRU, change nothing.          *)

Need(k, v)   == KeyLen[k] + ValLen[v] + Header
chNeed(k, v) == (Need(k, v) + Room - 1) \div Room
Fits(k, v)   == Need(k, v) <= Room * chunkNum

Get(k) ==
  /\ k \in DOMAIN node
  /\ order' = Used(k)
  /\ UNCHANGED <<chunkNum, memory, free, node, openLru>>

SetNew(k, v) ==
  LET e  == EvictUntil(free, order, chNeed(k, v))
      ch == Take(e.free, chNeed(k, v))
  IN
  /\ k \notin DOMAIN node /\ Fits(k, v)
  /\ Cardinality(IF openLru THEN e.free ELSE free) >= chNeed(k, v)
  /\ link' = Linked(ChunksOf(Range(order) \ Range(e.order)), ch, 0)
  /\ size' = [size EXCEPT ![ch[1]] = <<KeyLen[k], ValLen[v]>>]
  /\ bytes' = Copy(bytes, ch, Header, Units(k, KeyLen[k]) \o Value(v))
  /\ free' = e.free \ Range(ch)
  /\ order' = <<k>> \o e.order
  /\ node' = [x \in Range(order') |->
                IF x = k THEN [chunks |-> ch, keySize |-> KeyLen[k], valSize |-> ValLen[v]]
                ELSE node[x]]
  /\ UNCHANGED <<chunkNum, openLru>>

\* Mutant: the chunks that a shorter value leaves over are not freed.
SetOld_Keeps(k, v) ==
  LET n    == node[k]
      x    == Extend(n.chunks, free, Used(k), chNeed(k, v))
      ch   == SubSeq(x.chunks, 1, chNeed(k, v))
      gone == ChunksOf(Range(Used(k)) \ Range(x.order))
  IN
  /\ k \in DOMAIN node /\ Fits(k, v)
  /\ Len(x.chunks) >= chNeed(k, v)
  /\ link' = Linked(gone, ch, getValPos(n)[1])
  /\ size' = [size EXCEPT ![ch[1]] = <<@[1], ValLen[v]>>]
  /\ bytes' = Copy(bytes, ch, Header + n.keySize, Value(v))
  /\ free' = x.free
  /\ order' = <<k>> \o SelectSeq(x.order, LAMBDA y : y # k)
  /\ node' = [y \in Range(order') |->
                IF y = k THEN [n EXCEPT !.chunks = ch, !.valSize = ValLen[v]] ELSE node[y]]
  /\ UNCHANGED <<chunkNum, openLru>>

\* A new value for a key: the chain grows or shrinks at its end, and is linked
\* and written from the chunk on where the value begins.
SetOld(k, v) ==
  LET n    == node[k]
      x    == Extend(n.chunks, free, Used(k), chNeed(k, v))
      ch   == SubSeq(x.chunks, 1, chNeed(k, v))
      over == Range(SubSeq(x.chunks, chNeed(k, v) + 1, Len(x.chunks)))
      gone == ChunksOf(Range(Used(k)) \ Range(x.order))
  IN
  /\ k \in DOMAIN node /\ Fits(k, v)
  /\ Len(x.chunks) >= chNeed(k, v)
  /\ link' = Linked(gone \cup over, ch, getValPos(n)[1])
  /\ size' = [size EXCEPT ![ch[1]] = <<@[1], ValLen[v]>>]
  /\ bytes' = Copy(bytes, ch, Header + n.keySize, Value(v))
  /\ free' = x.free \cup over
  /\ order' = <<k>> \o SelectSeq(x.order, LAMBDA y : y # k)
  /\ node' = [y \in Range(order') |->
                IF y = k THEN [n EXCEPT !.chunks = ch, !.valSize = ValLen[v]] ELSE node[y]]
  /\ UNCHANGED <<chunkNum, openLru>>

\* "buffer is full.": the chunks taken until then are neither given back nor
\* used.
SetOldFull(k, v) ==
  /\ k \in DOMAIN node /\ Fits(k, v)
  /\ ~openLru /\ Len(node[k].chunks) + Cardinality(free) < chNeed(k, v)
  /\ free' = {}
  /\ order' = Used(k)
  /\ UNCHANGED <<chunkNum, memory, node, openLru>>

Del(k) ==
  /\ k \in DOMAIN node
  /\ link' = Linked(ChunksOf({k}), << >>, 0)
  /\ free' = free \cup ChunksOf({k})
  /\ order' = Others(k)
  /\ node' = [x \in DOMAIN node \ {k} |-> node[x]]
  /\ UNCHANGED <<chunkNum, size, bytes, openLru>>
-----------------------------------------------------------------------------
(* NewKVBuffer on memory that holds a buffer.                              *)

\* mpChunkPrev: of several chunks that lead to c the last one counts.
Prev(c) == LET P == {p \in 1 .. chunkNum : link[p] = c /\ p # c}
           IN  IF P = {} THEN 0 ELSE CHOOSE p \in P : \A q \in P : q <= p

\* The chain that ends in c.
RECURSIVE Chain(_)
Chain(c) == IF Prev(c) = 0 THEN <<c>> ELSE Append(Chain(Prev(c)), c)

Rebuilt(c) ==
  LET ch == Chain(c)
  IN  [chunks |-> ch, keySize |-> size[ch[1]][1], valSize |-> size[ch[1]][2]]

KeyOf(n) == IF \E k \in Keys : GetKey(bytes, n) = Units(k, KeyLen[k])
            THEN CHOOSE k \in Keys : GetKey(bytes, n) = Units(k, KeyLen[k])
            ELSE NoKey

Valid(n) == n.keySize + n.valSize <= Len(n.chunks) * Room - Header

\* Mutant: the memory that was added is taken as it is.
Zeroed_NotWritten(n) == link

\* Chunks beyond the old size are written to be free.
Zeroed(n) == [c \in Chunks |-> IF c \in chunkNum + 1 .. n THEN 0 ELSE link[c]]

\* Every chunk that is the end of a chain gives a node; the nodes enter the LRU
\* in the order of their ends.  A chain too short for its sizes is an error, and
\* the memory cannot be opened any more.
Reopen(n) ==
  LET Ends  == {c \in 1 .. chunkNum : link[c] = c}
      found == [c \in Ends |-> KeyOf(Rebuilt(c))]
      last(k) == CHOOSE c \in Ends : found[c] = k /\ \A d \in Ends : found[d] = k => d <= c
  IN
  /\ \A c \in Ends : Valid(Rebuilt(c))
  /\ chunkNum' = n
  /\ link' = Zeroed(n)
  /\ free' = {c \in 1 .. chunkNum : link[c] = 0} \cup (chunkNum + 1 .. n)
  /\ node' = [k \in Range(found) |-> Rebuilt(last(k))]
  /\ order' = SetToSortSeq(Range(found), LAMBDA j, k : last(j) > last(k))
  /\ openLru' \in BOOLEAN
  /\ UNCHANGED <<size, bytes>>
-----------------------------------------------------------------------------
Next ==
  \/ \E k \in Keys : Get(k) \/ Del(k)
  \/ \E k \in Keys, v \in Vals : SetNew(k, v) \/ SetOld(k, v) \/ SetOldFull(k, v)
  \/ \E n \in chunkNum .. MaxChunks : Reopen(n)

Spec == Init /\ [][Next]_vars
-----------------------------------------------------------------------------
(* Properties.                                                             *)

\* Every variable has its type.
TypeOK ==
  /\ chunkNum \in MinChunks .. MaxChunks
  /\ link \in [Chunks -> 0 .. MaxChunks]
  /\ free \in SUBSET (1 .. chunkNum)
  /\ DOMAIN node \subseteq Keys /\ Range(order) = DOMAIN node /\ IsInjective(order)
  /\ \A k \in DOMAIN node : node[k].chunks \in Seq(1 .. chunkNum) /\ node[k].chunks # << >>
  /\ openLru \in BOOLEAN

\* No chunk is in two places: not in two nodes, not twice in one, not in a node
\* and on the free list; and with LRU none is lost, however often nodes grow
\* into each other's chunks (so that Set always finds room in the end); the map
\* and the LRU list name the same nodes (kvbuffer.go's node and order).
ChunksAccounted ==
  /\ TypeOK
  /\ \A k \in DOMAIN node : /\ IsInjective(node[k].chunks)
                            /\ ChunksOf({k}) \cap free = {}
                            /\ ChunksOf({k}) \cap ChunksOf(DOMAIN node \ {k}) = {}
  /\ openLru => free \cup ChunksOf(DOMAIN node) = 1 .. chunkNum

\* The links in memory say what the lists say: "0 free =index end"
\* (kvbuffer.go:15).
LinksMatch ==
  /\ \A c \in free : link[c] = 0
  /\ \A k \in DOMAIN node : \A i \in DOMAIN node[k].chunks :
       LET ch == node[k].chunks
       IN  link[ch[i]] = IF i = Len(ch) THEN ch[i] ELSE ch[i + 1]

Stored == [k \in DOMAIN node |-> GetVal(node[k])]

C == INSTANCE Cache WITH map <- Stored, Values <- {Value(v) : v \in Vals}

\* What Get reads from the chunks is what was last Set, for every key, through
\* growth, eviction and reopening; keys are forgotten from the least recently
\* used end only, and only with LRU (the specification Cache).
CacheSpec == C!Spec
=============================================================================
