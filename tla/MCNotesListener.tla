--------------------------- MODULE MCNotesListener ---------------------------
(* Instances of NotesListener for TLC. *)
EXTENDS NotesListener

Order(i)   == [id |-> i, script |-> "ZOROSWAP", public |-> TRUE, items |-> 12, parsable |-> TRUE, faucets |-> {"f"}]

\* Two swap orders, an order for an asset without a pool, a mint note, and an
\* order the listener may not read.
MixedNotes ==
  {Order(1), Order(2),
   [Order(3) EXCEPT !.faucets = {"f", "other"}],
   [Order(4) EXCEPT !.script = "P2ID", !.items = 2, !.faucets = {"f"}],
   [Order(5) EXCEPT !.public = FALSE]}
=============================================================================
