SPECIFICATION Spec
CONSTANTS
  Orders = {o1, o2, o3}
  Notes = {n1, p1, p2, p3}
  PositionNotes = {p1, p2, p3}
  NoNote = NoNote
  Sources = {"server", "position"}
  Faults = {"error", "panic", "tx", "sync"}
INVARIANTS TypeOK FlushedOrdersHaveNotes ExecutedMeansConsumed
PROPERTIES FinalStaysFinal ExecutedOwnTrade ImplementsLifecycle
SYMMETRY Symmetry
CHECK_DEADLOCK FALSE
