SPECIFICATION FairSpec
CONSTANTS
  Conns = {c1, c2}
  Topics = {t1}
  All = All
  Capacity = 1
  MaxEvents = 2
INVARIANTS TypeOK ClosedLeavesNothing SubscriberMissesNothing
PROPERTIES ForwarderCatchesUp SilentClientLeaves
CHECK_DEADLOCK FALSE
