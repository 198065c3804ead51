SPECIFICATION Spec
CONSTANTS
  k1 = k1
  k2 = k2
  k3 = k3
  k4 = k4
  v0 = v0
  v2 = v2
  v3 = v3
  Keys = {k1, k3, k4}
  Vals = {v0, v3}
  KeyLen <- MCKeyLen
  ValLen <- MCValLen
  Room = 4
  Header = 2
  MinChunks = 2
  MaxChunks = 3
  NoKey = NoKey
INVARIANT ChunksAccounted
INVARIANT LinksMatch
PROPERTY CacheSpec
SYMMETRY Symmetry
