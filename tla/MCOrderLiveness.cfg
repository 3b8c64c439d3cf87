SPECIFICATION FairSpec
CONSTANTS
  Orders = {o1, o2}
  Notes = {n1, p1, p2}
  PositionNotes = {p1, p2}
  NoNote = NoNote
  Sources = {"server", "listener", "position"}
  Faults = {}
INVARIANTS PositionNoteLive
PROPERTIES OpenOrdersLeave FlushedOrdersSettle
