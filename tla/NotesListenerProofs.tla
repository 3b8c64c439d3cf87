------------------------ MODULE NotesListenerProofs ------------------------
(* Theorems about NotesListener, for any set of notes and faucets. *)
EXTENDS NotesListener, TLAPS

\* What the listener has counted for a note is what it remembers of it: an order means
\* that the note is processed, a refusal that it failed, not both, and the notes
\* of the round that are still to be added are neither.
SeenInv ==
  /\ processed \cap failed = {}
  /\ valid \cap (processed \cup failed) = {}
  /\ \A n \in Notes : orders[n] = IF n \in processed THEN 1 ELSE 0
  /\ \A n \in Notes : refusals[n] = IF n \in failed THEN 1 ELSE 0

Inv == TypeOK /\ SeenInv

\* Nothing has been seen when the server starts.
LEMMA ListenerInit == Init => Inv
  BY ListenerAssumption DEF Init, Inv, TypeOK, SeenInv, None

\* Every step of the chain and of the listener, and a restart, keep it.
LEMMA ListenerNext == Inv /\ [Next]_vars => Inv'
<1> SUFFICES ASSUME Inv, [Next]_vars PROVE Inv'
  OBVIOUS
<1> USE ListenerAssumption DEF Inv, TypeOK, SeenInv, chain, task
<1>1. ASSUME NEW n \in Notes, Commit(n) \/ Consume(n) PROVE Inv'
  BY <1>1 DEF Commit, Consume
<1>2. ASSUME sync_state \/ SyncFails \/ FilterFails PROVE Inv'
  BY <1>2 DEF sync_state, SyncFails, FilterFails
<1>3. ASSUME FilterNotes PROVE Inv'
  BY <1>3 DEF FilterNotes, Eligible
<1>4. ASSUME NEW n \in Notes, AddOrder(n) PROVE Inv'
  BY <1>4 DEF AddOrder, Done
<1>5. ASSUME NEW n \in Notes, AddOrderFails(n) PROVE Inv'
  BY <1>5 DEF AddOrderFails, Done
<1>6. ASSUME NEW n \in Notes, AddOrderPanics(n) PROVE Inv'
  BY <1>6 DEF AddOrderPanics
<1>7. ASSUME Restart PROVE Inv'
  BY <1>7 DEF Restart, None
<1>8. CASE UNCHANGED vars
  BY <1>8 DEF vars
<1>9. QED
  BY <1>1, <1>2, <1>3, <1>4, <1>5, <1>6, <1>7, <1>8 DEF Next, Listener, Add

\* The filter of failed and processed notes is enough for one order or one refusal per
\* note and start, whatever syncs show of the chain and whenever the server restarts.
THEOREM ListenerHandlesOnce == Spec => []NoteHandledOnce
<1>1. Inv => NoteHandledOnce
  BY DEF Inv, SeenInv, NoteHandledOnce
<1>2. QED
  BY <1>1, ListenerInit, ListenerNext, PTL DEF Spec

\* What the listener keeps stays within the notes there are, and its store within those
\* the chain has or had.
THEOREM ListenerTypeOK == Spec => []TypeOK
<1>1. Inv => TypeOK
  BY DEF Inv
<1>2. QED
  BY <1>1, ListenerInit, ListenerNext, PTL DEF Spec
=============================================================================
