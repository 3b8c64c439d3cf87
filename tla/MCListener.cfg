SPECIFICATION FairSpec
CONSTANTS
  Notes <- MixedNotes
  Faucets = {"f"}
  MaxRestarts = 1
INVARIANTS TypeOK NoteHandledOnce
PROPERTIES NoteBecomesOrder
CHECK_DEADLOCK FALSE
