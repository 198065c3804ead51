SPECIFICATION FairSpec
CONSTANTS
  r1 = r1
  r2 = r2
  Calls = {r1, r2}
  NoCall = NoCall
  Copies = 2
  KindsOf <- MCKindsOf
CHECK_DEADLOCK FALSE
INVARIANT OneOutcome
INVARIANT SyncHasOutcome
INVARIANT ParserNeverWaits
PROPERTY CallsEnd
