---------------------------- MODULE NotesListener ----------------------------
(***************************************************************************)
(* The task that looks for public notes addressed to the pool and turns    *)
(* them into orders: its rounds of sync, filter and add_order, what it     *)
(* remembers of the notes it has seen, and restarts, which forget it all.  *)
(*                                                                         *)
(* A note is a record of what the listener tells notes apart by.  The      *)
(* chain changes between any two steps of the task; what the engine does   *)
(* with an order is the subject of OrderFlow.                              *)
(***************************************************************************)
EXTENDS Integers, FiniteSets

CONSTANTS
  Notes,        \* the notes with the pool's tag that ever appear
  Faucets,      \* AmmState::valid_faucets
  MaxRestarts   \* bound

\* Script: the kind known for its root, or "unknown"; items: the length of the
\* storage; parsable: the beneficiary and the tag in the storage are valid;
\* faucets: those of the attached and of the wanted asset.
NoteRecord ==
  [id : Nat, script : {"DEPOSIT", "WITHDRAW", "ZOROSWAP", "POSITION", "P2ID", "unknown"},
   public : BOOLEAN, items : Nat, parsable : BOOLEAN, faucets : SUBSET (Faucets \cup {"other"})]

ASSUME ListenerAssumption ==
  /\ Notes \subseteq NoteRecord /\ MaxRestarts \in Nat
  /\ \A m, n \in Notes : m.id = n.id => m = n

VARIABLES
  committed,  \* the notes on the chain that are not consumed
  consumed,   \* the notes the chain has consumed
  store,      \* the committed notes in the client's store
  processed,  \* processed_notes
  failed,     \* failed_notes
  step,       \* the listener's next step, "dead" when its thread has panicked
  valid,      \* valid_notes: the notes of this round still to be added
  orders,     \* note -> how many orders the listener made for it since startup
  refusals,   \* note -> how many Failed events it broadcast for it since startup
  restarts

chain == <<committed, consumed>>
task  == <<store, processed, failed, step, valid>>
vars  == <<chain, task, orders, refusals, restarts>>

None == [n \in Notes |-> 0]

TypeOK ==
  /\ committed \subseteq Notes /\ consumed \subseteq Notes /\ committed \cap consumed = {}
  /\ store \subseteq committed \cup consumed
  /\ processed \subseteq Notes /\ failed \subseteq Notes /\ valid \subseteq Notes
  /\ step \in {"sync", "filter", "add", "dead"}
  /\ orders \in [Notes -> Nat] /\ refusals \in [Notes -> Nat]
  /\ restarts \in 0..MaxRestarts

Init ==
  /\ committed = {} /\ consumed = {}
  /\ store = {} /\ processed = {} /\ failed = {} /\ step = "sync" /\ valid = {}
  /\ orders = None /\ refusals = None /\ restarts = 0

-----------------------------------------------------------------------------
(* The chain *)

Commit(n) ==
  /\ n \notin committed \cup consumed
  /\ committed' = committed \cup {n}
  /\ UNCHANGED <<consumed, task, orders, refusals, restarts>>

\* By the pool, for an order of the listener or one a client has posted, or by
\* its creator, who takes it back.
Consume(n) ==
  /\ n \in committed
  /\ committed' = committed \ {n} /\ consumed' = consumed \cup {n}
  /\ UNCHANGED <<task, orders, refusals, restarts>>

-----------------------------------------------------------------------------
(* One round of NotesListener::start *)

\* Fault: notes that are only expected are fetched too.
sync_state_expected ==
  /\ step = "sync"
  /\ store' = Notes
  /\ step' = "filter"
  /\ UNCHANGED <<chain, processed, failed, valid, orders, refusals, restarts>>

sync_state ==
  /\ step = "sync"
  /\ store' = committed
  /\ step' = "filter"
  /\ UNCHANGED <<chain, processed, failed, valid, orders, refusals, restarts>>

\* A failed sync is logged; the round goes on with what the store holds.
SyncFails ==
  /\ step = "sync"
  /\ step' = "filter"
  /\ UNCHANGED <<chain, store, processed, failed, valid, orders, refusals, restarts>>

\* TrustedNote::from_input_note knows the script.
trusted(n) == n.script # "unknown"

\* Fault: the notes that failed are tried again.
Eligible_retry(n) == n \notin processed /\ n.public /\ trusted(n)

Eligible(n) == n \notin failed \cup processed /\ n.public /\ trusted(n)

\* get_notes_filtered, and the loop that fills valid_notes.
FilterNotes ==
  /\ step = "filter"
  /\ valid' = {n \in store : Eligible(n)}
  /\ step' = IF valid' = {} THEN "sync" ELSE "add"
  /\ UNCHANGED <<chain, store, processed, failed, orders, refusals, restarts>>

\* The store cannot be read, or a record of it is no note: the whole round is skipped.
FilterFails ==
  /\ step = "filter"
  /\ step' = "sync"
  /\ UNCHANGED <<chain, store, processed, failed, valid, orders, refusals, restarts>>

\* The storage is indexed up to its tenth element without a look at its length.
IndexPanics(n) == n.items < 10

involves_faucets(n) == n.faucets \subseteq Faucets

\* add_order takes the note.
Accepted(n) == ~IndexPanics(n) /\ n.parsable /\ involves_faucets(n)

\* The listener is done with one of the notes.
Done(n) ==
  /\ valid' = valid \ {n}
  /\ step' = IF valid' = {} THEN "sync" ELSE "add"

AddOrder(n) ==
  /\ step = "add" /\ n \in valid /\ Accepted(n)
  /\ orders' = [orders EXCEPT ![n] = @ + 1]
  /\ processed' = processed \cup {n}
  /\ Done(n)
  /\ UNCHANGED <<chain, store, failed, refusals, restarts>>

\* add_order returns an error.  None of its messages is one of the three that
\* would mark the note as processed.
AddOrderFails(n) ==
  /\ step = "add" /\ n \in valid /\ ~IndexPanics(n) /\ ~Accepted(n)
  /\ failed' = failed \cup {n}
  /\ refusals' = [refusals EXCEPT ![n] = @ + 1]
  /\ Done(n)
  /\ UNCHANGED <<chain, store, processed, orders, restarts>>

\* The panic ends the listener's thread in a development build, and the process
\* in a release build; either way nobody listens until a restart.
AddOrderPanics(n) ==
  /\ step = "add" /\ n \in valid /\ IndexPanics(n)
  /\ step' = "dead"
  /\ UNCHANGED <<chain, store, processed, failed, valid, orders, refusals, restarts>>

\* Fault: the old store is kept, and what was processed with it.
Restart_keeps ==
  /\ restarts < MaxRestarts
  /\ restarts' = restarts + 1
  /\ step' = "sync" /\ valid' = {}
  /\ orders' = None /\ refusals' = None
  /\ UNCHANGED <<chain, store, processed, failed>>

\* A crash at any point and a new start: the store is deleted, the orders and
\* what was seen of the notes are forgotten.
Restart ==
  /\ restarts < MaxRestarts
  /\ restarts' = restarts + 1
  /\ store' = {} /\ processed' = {} /\ failed' = {}
  /\ step' = "sync" /\ valid' = {}
  /\ orders' = None /\ refusals' = None
  /\ UNCHANGED chain

-----------------------------------------------------------------------------
Add(n) == AddOrder(n) \/ AddOrderFails(n) \/ AddOrderPanics(n)

Listener == sync_state \/ SyncFails \/ FilterNotes \/ FilterFails \/ (\E n \in Notes : Add(n))

Next == (\E n \in Notes : Commit(n) \/ Consume(n)) \/ Listener \/ Restart

Spec == Init /\ [][Next]_vars

\* The thread keeps running its loop, and neither syncs nor reads of the store
\* fail for ever.  Nothing is assumed of the chain, and nobody needs to restart
\* the server.
FairSpec == Spec /\ WF_vars(Listener) /\ SF_vars(sync_state) /\ SF_vars(FilterNotes)

-----------------------------------------------------------------------------
(* Properties *)

\* Between two starts the listener makes at most one order for a note and
\* reports at most one refusal, never both, however often the store shows it.
NoteHandledOnce ==
  \A n \in Notes : orders[n] + refusals[n] <= 1

\* A public order note that stays on the chain becomes an order, after a
\* restart has lost the first one too, or the listener has died.
NoteBecomesOrder ==
  \A n \in Notes :
    (n \in committed /\ n.public /\ trusted(n) /\ Accepted(n) /\ orders[n] = 0)
       ~> (orders[n] > 0 \/ n \notin committed \/ step = "dead")
=============================================================================
