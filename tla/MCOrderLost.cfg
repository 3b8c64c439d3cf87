SPECIFICATION Spec
CONSTANTS
  Orders = {o1, o2}
  Notes = {n1, n2}
  PositionNotes = {}
  NoNote = NoNote
  Sources = {"server"}
  Faults = {}
INVARIANTS NoOrderLost
SYMMETRY Symmetry
