SPECIFICATION FairSpec
CONSTANTS
  f1 = f1
  f2 = f2
  Users = {u1}
  Pools <- TwoPools
  Unknown = Unknown
  QueueSize = 3
  Limit = 2
  Guard = 2
  Word = 64
  Faults = {"note", "tx", "sync"}
  MaxRequests = 4
  MaxTime = 3
INVARIANTS TypeOK MintsSpaced AcceptedOnce
PROPERTIES RefusalsJustified AcceptedIsDecided
CHECK_DEADLOCK FALSE
