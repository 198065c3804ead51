CONSTANTS
  s1 = s1
  s2 = s2
  c1 = c1
  ProcessorThreadsNum = 2
  NumServices = 1
  ThreadId <- MCThreadId
  Sessions = {s2}
  Unawaited = {s2}
  Callers = {c1}
  SvcOf <- MCSvcOf
  HashOf <- MCHashOf
  IdOf <- MCIdOf
  QueueLen = 2
  Batch = 1
  MaxMsg <- MCMaxMsg
  Panics = TRUE
SPECIFICATION Spec
INVARIANTS
  
  NobodySleepsOn
