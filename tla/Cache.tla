------------------------------- MODULE Cache --------------------------------
(***************************************************************************)
(* What stkvbuffer promises: a map from keys to values, ordered by last    *)
(* use.  A cache with openLru makes room by forgetting the least recently  *)
(* used keys; one without fails instead.  Closing the buffer and opening   *)
(* it again, with more room perhaps, keeps the map.                        *)
(***************************************************************************)
EXTENDS Integers, Sequences, FiniteSets

CONSTANTS Keys, Values

VARIABLES
  map,     \* the value of each key there is
  order,   \* these keys, the one used last first
  openLru

vars == <<map, order, openLru>>

Others(k) == SelectSeq(order, LAMBDA x : x # k)
Elements(s) == {s[i] : i \in 1 .. Len(s)}

Init == map = << >> /\ order = << >> /\ openLru \in BOOLEAN

\* Setting k forgets the last n of the other keys.
Set(k, v, n) ==
  LET kept == SubSeq(Others(k), 1, Len(Others(k)) - n) IN
  /\ n > 0 => openLru
  /\ order' = <<k>> \o kept
  /\ map' = [x \in {k} \cup Elements(kept) |-> IF x = k THEN v ELSE map[x]]
  /\ UNCHANGED openLru

\* Looking a key up, also in a Set that fails, makes it the one used last.
Use(k) ==
  /\ k \in DOMAIN map
  /\ order' = <<k>> \o Others(k)
  /\ UNCHANGED <<map, openLru>>

Del(k) ==
  /\ k \in DOMAIN map
  /\ order' = Others(k)
  /\ map' = [x \in DOMAIN map \ {k} |-> map[x]]
  /\ UNCHANGED openLru

\* The order of use is not kept in the buffer.
Reopen ==
  /\ Len(order') = Cardinality(DOMAIN map) /\ Elements(order') = DOMAIN map
  /\ openLru' \in BOOLEAN
  /\ UNCHANGED map

Next ==
  \/ \E k \in Keys : \E n \in 0 .. Len(Others(k)), v \in Values : Set(k, v, n)
  \/ \E k \in Keys : Use(k) \/ Del(k)
  \/ Reopen

Spec == Init /\ [][Next]_vars
=============================================================================
