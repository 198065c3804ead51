CONSTANTS
  a1 = a1
  a2 = a2
  c1 = c1
  c2 = c2
  u1 = u1
  Addrs = {a1, a2}
  FirstAddr = a1
  Closers = {}
  Changers = {u1}
  NewAddr <- MCNewAddr
  MaxReconn = 30
  ResetReconn = 10
  DialFails = FALSE
  PeerCloses = FALSE
SPECIFICATION FairSpec
PROPERTIES
  ReconnectsToNewAddr
