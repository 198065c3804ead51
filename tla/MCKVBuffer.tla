----------------------------- MODULE MCKVBuffer -----------------------------
(***************************************************************************)
(* Instances of KVBuffer for TLC: chunks with room for four units, two of  *)
(* which hold the sizes in the first one; the key k2 fills its first chunk *)
(* exactly.                                                                *)
(***************************************************************************)
EXTENDS KVBuffer, TLC

CONSTANTS k1, k2, k3, k4, v0, v2, v3

\* k1 and k4 have the same length.
Symmetry == Permutations({k1, k4})

MCKeyLen == [k \in Keys |-> CASE k \in {k1, k4} -> 1 [] k = k2 -> 2 [] k = k3 -> 4]
MCValLen == [v \in Vals |-> CASE v = v0 -> 0 [] v = v2 -> 2 [] v = v3 -> 3]
=============================================================================
