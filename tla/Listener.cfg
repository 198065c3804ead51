SPECIFICATION FairSpec
CONSTANTS
  k1 = k1
  k2 = k2
  k3 = k3
  c1 = c1
  c2 = c2
  Socks = {k1, k2}
  Closers = {c1, c2}
  NoSock = NoSock
  ListenFails = TRUE
  AcceptFails = TRUE
CHECK_DEADLOCK FALSE
INVARIANT SessionsTracked
INVARIANT CloseIsComplete
PROPERTY CloseTerminates
PROPERTY UdpReopens
