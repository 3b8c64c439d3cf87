----------------------------- MODULE OrderFlow -----------------------------
(***************************************************************************)
(* How an order travels through the server: the tasks that add it to the   *)
(* shared AmmState (request handlers, the notes listener, position swaps), *)
(* the trading engine that flushes, plucks and executes batches, and the   *)
(* status events that are broadcast on the way.                            *)
(*                                                                         *)
(* AmmState is a set of concurrent maps without a common lock, so every    *)
(* access to a map is a step of its own.  An iteration over a map is one   *)
(* step: an insertion that races with it is seen or not.  What happens to  *)
(* a note on the chain is the subject of ZoroPool; here an execution only  *)
(* succeeds or not.  "Failed" stands for the statuses Failed and Expired.  *)
(***************************************************************************)
EXTENDS Integers, FiniteSets, Functions

CONSTANTS
  Orders,         \* order ids, one per call of add_order
  Notes,          \* note ids
  PositionNotes,  \* the notes of kind Position
  NoNote,         \* not a note
  Sources,        \* who adds orders: subset of {"server", "listener", "position"}
  Faults          \* what may go wrong outside: subset of {"error", "panic", "tx", "sync"}

ASSUME OrderFlowAssumption ==
  /\ NoNote \notin Notes
  /\ PositionNotes \subseteq Notes
  /\ Sources \subseteq {"server", "listener", "position"}
  /\ Faults \subseteq {"error", "panic", "tx", "sync"}

VARIABLES
  call,           \* the add_order call of each order: its next step, note and source
  notes,          \* AmmState::notes: the orders whose note is in the map
  open_orders,    \* AmmState::open_orders
  closed_orders,  \* AmmState::closed_orders
  position,       \* AmmState::positions: the note of the one position there is
  processed,      \* the listener's processed_notes
  step,           \* the engine's next step
  batch,          \* the orders flushed in this cycle
  plucked,        \* the orders of the batch whose notes were taken
  inputs,         \* the orders whose notes are inputs of the transaction
  results,        \* note -> what PoolExecution::new said of it, its output note, and
                  \* the order whose trade a position's note was executed for
  prelim,         \* order -> status the preliminary task has still to broadcast
  status,         \* the last status broadcast for each order
  consumed        \* the notes consumed on the chain

amm    == <<notes, open_orders, closed_orders>>
engine == <<step, batch, plucked, inputs, results>>
vars   == <<call, amm, position, processed, engine, prelim, status, consumed>>

NoteOf(o)   == call[o].note
NotesOf(os) == {NoteOf(o) : o \in os}
OrdersOf(n) == {o \in Orders : NoteOf(o) = n}

\* AmmState::note_ids: the entries add_order has inserted; none is ever removed.
note_ids == {o \in Orders : call[o].pc \notin {"idle", "note_ids"}}

Final    == {"Executed", "Failed"}
Statuses == {"none", "Pending", "Matching", "Matched"} \cup Final
Calls    == [pc : {"idle", "note_ids", "notes", "open", "announce", "done"},
             note : Notes \cup {NoNote}, source : Sources \cup {"none"}]
Steps    == {"tick", "clear", "matching", "pluck", "prepare", "execute", "abort", "report", "dead"}
Results  == [result : {"Success", "Failed"}, output : PositionNotes \cup {NoNote},
             trade : SUBSET Orders]

Empty == [x \in {} |-> x]

TypeOK ==
  /\ call \in [Orders -> Calls]
  /\ notes \subseteq Orders /\ open_orders \subseteq Orders /\ closed_orders \subseteq Orders
  /\ position \in PositionNotes \cup {NoNote}
  /\ processed \subseteq Notes /\ consumed \subseteq Notes
  /\ step \in Steps
  /\ batch \subseteq Orders /\ plucked \subseteq batch /\ inputs \subseteq plucked
  /\ DOMAIN results \subseteq NotesOf(batch)
  /\ \A n \in DOMAIN results : results[n] \in Results
  /\ DOMAIN prelim \subseteq Orders
  /\ \A o \in DOMAIN prelim : prelim[o] \in Statuses
  /\ status \in [Orders -> Statuses]

Init ==
  /\ call = [o \in Orders |-> [pc |-> "idle", note |-> NoNote, source |-> "none"]]
  /\ notes = {} /\ open_orders = {} /\ closed_orders = {}
  /\ position = NoNote /\ processed = {} /\ consumed = {}
  /\ step = "tick" /\ batch = {} /\ plucked = {} /\ inputs = {}
  /\ results = Empty /\ prelim = Empty
  /\ status = [o \in Orders |-> "none"]

-----------------------------------------------------------------------------
(* The tasks that add orders *)

Goto(o, pc) == call' = [call EXCEPT ![o].pc = pc]

\* POST positions/new.
AddPosition(n) ==
  /\ "position" \in Sources /\ position = NoNote
  /\ position' = n
  /\ UNCHANGED <<call, amm, processed, engine, prelim, status, consumed>>

\* A call of add_order passes its checks.  The handlers take any note, twice
\* too.  The listener is a single task and takes notes it has not processed;
\* its store may be behind the chain.  add_position_order clones the note the
\* position has now.
StartOrder(o, n, source) ==
  /\ call[o].pc = "idle"
  /\ source = "listener" =>
       /\ n \notin processed
       /\ \A p \in Orders : call[p].source = "listener" => call[p].pc = "done"
  /\ source = "position" => n = position
  /\ call' = [call EXCEPT ![o] = [pc |-> "note_ids", note |-> n, source |-> source]]
  /\ UNCHANGED <<amm, position, processed, engine, prelim, status, consumed>>

\* Fault: the order is published before its note is stored.
InsertNoteId_publishing(o) ==
  /\ call[o].pc = "note_ids"
  /\ open_orders' = open_orders \cup {o}
  /\ Goto(o, "notes")
  /\ UNCHANGED <<notes, closed_orders, position, processed, engine, prelim, status, consumed>>

\* add_order fills three maps one after the other.
InsertNoteId(o) ==
  /\ call[o].pc = "note_ids"
  /\ Goto(o, "notes")
  /\ UNCHANGED <<amm, position, processed, engine, prelim, status, consumed>>

InsertNote(o) ==
  /\ call[o].pc = "notes"
  /\ notes' = notes \cup {o}
  /\ Goto(o, "open")
  /\ UNCHANGED <<open_orders, closed_orders, position, processed, engine, prelim, status, consumed>>

\* The handler of a submitted note answers at once; the others announce.
InsertOpenOrder(o) ==
  /\ call[o].pc = "open"
  /\ open_orders' = open_orders \cup {o}
  /\ Goto(o, IF call[o].source = "server" THEN "done" ELSE "announce")
  /\ UNCHANGED <<notes, closed_orders, position, processed, engine, prelim, status, consumed>>

\* The listener and add_position_order broadcast Pending after the order is
\* open; the listener remembers the note.
Announce(o) ==
  /\ call[o].pc = "announce"
  /\ status' = [status EXCEPT ![o] = "Pending"]
  /\ processed' = IF call[o].source = "listener" THEN processed \cup {NoteOf(o)} ELSE processed
  /\ Goto(o, "done")
  /\ UNCHANGED <<amm, position, engine, prelim, consumed>>

-----------------------------------------------------------------------------
(* The trading engine: one cycle of TradingEngine::start *)

\* Fault: the plucked notes survive into the next cycle.
EndCycle_stale ==
  /\ step' = "tick"
  /\ batch' = {} /\ inputs' = {} /\ results' = Empty
  /\ UNCHANGED plucked

\* What a cycle keeps in local variables goes with it.
EndCycle ==
  /\ step' = "tick"
  /\ batch' = {} /\ plucked' = {} /\ inputs' = {} /\ results' = Empty

\* The first half of flush_open_orders; a cycle skipped for stale prices
\* changes nothing.
FlushSnapshot ==
  /\ step = "tick"
  /\ batch' = open_orders
  /\ step' = "clear"
  /\ UNCHANGED <<call, amm, position, processed, plucked, inputs, results, prelim, status, consumed>>

\* Fault: the flush forgets to empty the map.
FlushClear_kept ==
  /\ step = "clear"
  /\ closed_orders' = closed_orders \cup batch
  /\ step' = IF batch = {} THEN "tick" ELSE "matching"
  /\ UNCHANGED <<call, notes, open_orders, position, processed, batch, plucked, inputs, results, prelim, status, consumed>>

\* The second half: the snapshot is closed and the map is emptied, of an order
\* that came after the snapshot too, also when the snapshot was empty.
FlushClear ==
  /\ step = "clear"
  /\ closed_orders' = closed_orders \cup batch
  /\ open_orders' = {}
  /\ step' = IF batch = {} THEN "tick" ELSE "matching"
  /\ UNCHANGED <<call, notes, position, processed, batch, plucked, inputs, results, prelim, status, consumed>>

BroadcastMatching ==
  /\ step = "matching"
  /\ status' = [o \in Orders |-> IF o \in batch THEN "Matching" ELSE status[o]]
  /\ step' = "pluck"
  /\ UNCHANGED <<call, amm, position, processed, batch, plucked, inputs, results, prelim, consumed>>

\* pluck_note takes the note of each order; orders without one are dropped
\* from the cycle without a word.
PluckNotes ==
  /\ step = "pluck"
  /\ plucked' = batch \cap notes
  /\ notes' = notes \ batch
  /\ IF plucked' = {}
     THEN EndCycle
     ELSE step' = "prepare" /\ UNCHANGED <<batch, inputs, results>>
  /\ UNCHANGED <<call, open_orders, closed_orders, position, processed, prelim, status, consumed>>

\* Fault: additional_details is kept over the cycles, by position, and the first entry stays.
DetailsOf_first(n) ==
  LET earlier == {o \in closed_orders \ batch : call[o].source = "position"} IN
  IF n \in PositionNotes /\ earlier # {} THEN earlier
  ELSE {o \in batch : NoteOf(o) = n /\ call[o].source = "position"}

\* The orders of the batch that put an entry for a note in additional_details,
\* a map by note id: the last one in the shuffled batch stays.
DetailsOf(n)  == {o \in batch : NoteOf(o) = n /\ call[o].source = "position"}
HasDetails(n) == DetailsOf(n) # {}

\* What PoolExecution::new may say of a note: it is executed, it is refused and
\* still an input of the transaction, or it is left alone.
Outcomes(n) ==
  IF n \in PositionNotes
  THEN IF HasDetails(n) THEN {"Success", "Refused"} ELSE {"Refused"}
  ELSE {"Success", "Failed", "Refused"}

\* Notes nobody has heard of yet.
FreshNotes ==
  PositionNotes \ (consumed \cup {position} \cup NotesOf(Orders)
                            \cup {results[n].output : n \in DOMAIN results})

\* Fault: the preliminary status of a success is already the final one.
PreliminaryStatus_final(result) == IF result = "Success" THEN "Executed" ELSE "Failed"

PreliminaryStatus(result) == IF result = "Success" THEN "Matched" ELSE "Failed"

\* Fault: the final status is taken from the preliminary mapping.
StatusOf_preliminary(result) == PreliminaryStatus(result)

\* OrderStatus::from(ExecutionResult).
StatusOf(result) == IF result = "Success" THEN "Executed" ELSE "Failed"

\* Fault: a position keeps its note after a success too.
ResultOf_spent(n, outcome, respawned, trade) ==
  [result |-> IF outcome = "Success" THEN "Success" ELSE "Failed",
   output |-> IF n \notin PositionNotes THEN NoNote ELSE n,
   trade |-> trade]

\* A note's result record: a position that fails keeps its note as output, one
\* that succeeds gets the respawned one.
ResultOf(n, outcome, respawned, trade) ==
  [result |-> IF outcome = "Success" THEN "Success" ELSE "Failed",
   output |-> IF n \notin PositionNotes THEN NoNote
              ELSE IF outcome = "Success" THEN respawned ELSE n,
   trade |-> trade]

\* execute_notes up to the transaction request.  The sync it starts with hands
\* the thread over, so an earlier preliminary task has finished.  Notes are
\* looked at one by one, the later result of a note replacing the earlier; the
\* preliminary task names the last order of the batch with the note.  Every
\* order of a position's note runs with the one entry of additional_details.
\* A DEPOSIT or ZOROSWAP input whose script bounces aborts the transaction.
Prepare(outcome, last, trade, respawned) ==
  /\ step = "prepare" /\ prelim = Empty
  /\ \A n \in NotesOf(plucked) : last[n] \in plucked /\ NoteOf(last[n]) = n
  /\ \A n \in NotesOf(plucked) :
       IF last[n] \in DetailsOf(n) THEN trade[n] = {last[n]}
       ELSE IF HasDetails(n) THEN \E o \in DetailsOf(n) : trade[n] = {o}
       ELSE trade[n] = {}
  /\ \A o \in plucked : outcome[o] \in Outcomes(NoteOf(o))
  /\ inputs' = {o \in plucked : outcome[o] # "Refused"}
  /\ results' = [n \in NotesOf(plucked) |-> ResultOf(n, outcome[last[n]], respawned, trade[n])]
  /\ \A n \in NotesOf(plucked) : results'[n].output = NoNote => n \notin PositionNotes
  /\ prelim' = [o \in Range(last) |-> PreliminaryStatus(results'[NoteOf(o)].result)]
  /\ \/ inputs' = {} /\ step' = "report"
     \/ inputs' # {} /\ step' = "execute"
     \/ (\E o \in inputs' : NoteOf(o) \notin PositionNotes) /\ step' = "abort"
  /\ UNCHANGED <<call, amm, position, processed, batch, plucked, status, consumed>>

\* One of the notes makes execute_notes return early (an unknown asset, a price
\* that is missing, an account that cannot be imported, a failed sync).  The
\* error is logged: nothing is broadcast and the notes are gone.
PrepareFails ==
  /\ step = "prepare" /\ prelim = Empty
  /\ "error" \in Faults
  /\ EndCycle
  /\ UNCHANGED <<call, amm, position, processed, prelim, status, consumed>>

\* The curve's answer is unwrapped: an error ends the engine's thread in a
\* development build, where the rest of the server goes on, and the process in a
\* release build (panic = "abort"), where nothing does.
PreparePanics ==
  /\ step = "prepare" /\ prelim = Empty
  /\ "panic" \in Faults
  /\ step' = "dead"
  /\ UNCHANGED <<call, amm, position, processed, batch, plucked, inputs, results, prelim, status, consumed>>

\* The preliminary task; it runs on the engine's thread, when that awaits.
PrelimBroadcast ==
  /\ prelim # Empty /\ step # "dead"
  /\ status' = [o \in Orders |-> IF o \in DOMAIN prelim THEN prelim[o] ELSE status[o]]
  /\ prelim' = Empty
  /\ UNCHANGED <<call, amm, position, processed, engine, consumed>>

\* A transaction takes each note once, and only notes that are still there.
Acceptable(os) ==
  /\ \A o, p \in os : NoteOf(o) = NoteOf(p) => o = p
  /\ NotesOf(os) \cap consumed = {}

\* Fault: the results are reported without waiting for the preliminary task.
Yielded_not == TRUE

\* Awaiting the transaction lets the preliminary task finish first.
Yielded == prelim = Empty

\* The whole batch is one transaction.
ExecuteTx ==
  /\ step = "execute" /\ Yielded
  /\ Acceptable(inputs)
  /\ consumed' = consumed \cup NotesOf(inputs)
  /\ step' = "report"
  /\ UNCHANGED <<call, amm, position, processed, batch, plucked, inputs, results, prelim, status>>

\* The transaction is refused, all of it for one note: the cycle ends with a log line.
ExecuteTxFails ==
  /\ step \in {"execute", "abort"} /\ Yielded
  /\ step = "abort" \/ ~Acceptable(inputs) \/ "tx" \in Faults
  /\ EndCycle
  /\ UNCHANGED <<call, amm, position, processed, prelim, status, consumed>>

\* The transaction is in, the sync after it fails: the cycle ends as if it had
\* not been.
SyncAfterTxFails ==
  /\ step = "execute" /\ Yielded
  /\ Acceptable(inputs) /\ "sync" \in Faults
  /\ consumed' = consumed \cup NotesOf(inputs)
  /\ EndCycle
  /\ UNCHANGED <<call, amm, position, processed, prelim, status>>

\* One result is reported, to the order get_order_id finds for the note; the
\* note of the position is replaced by the output note, also after a failure.
Report(n, o) ==
  /\ step = "report" /\ n \in DOMAIN results
  /\ o \in note_ids /\ NoteOf(o) = n
  /\ position' = IF results[n].output # NoNote /\ HasDetails(n) THEN results[n].output ELSE position
  /\ status' = [status EXCEPT ![o] = StatusOf(results[n].result)]
  /\ IF DOMAIN results = {n}
     THEN EndCycle
     ELSE results' = Restrict(results, DOMAIN results \ {n}) /\ UNCHANGED <<step, batch, plucked, inputs>>
  /\ UNCHANGED <<call, amm, processed, prelim, consumed>>

-----------------------------------------------------------------------------
AddOrders ==
  \/ \E n \in PositionNotes : AddPosition(n)
  \/ \E o \in Orders, n \in Notes, s \in Sources : StartOrder(o, n, s)
  \/ \E o \in Orders : InsertNoteId(o) \/ InsertNote(o) \/ InsertOpenOrder(o) \/ Announce(o)

Engine ==
  \/ FlushSnapshot \/ FlushClear \/ BroadcastMatching \/ PluckNotes
  \/ \E outcome \in [plucked -> {"Success", "Failed", "Refused"}],
        last \in [NotesOf(plucked) -> plucked],
        trade \in [NotesOf(plucked) -> {{}} \cup {{o} : o \in Orders}],
        respawned \in FreshNotes \cup {NoNote} : Prepare(outcome, last, trade, respawned)
  \/ PrepareFails \/ PreparePanics
  \/ ExecuteTx \/ ExecuteTxFails \/ SyncAfterTxFails
  \/ \E n \in Notes, o \in Orders : Report(n, o)

Next == AddOrders \/ Engine \/ PrelimBroadcast

Spec == Init /\ [][Next]_vars

\* The engine's thread keeps running its loop, and the task it spawned; the
\* interval timer ticks, and prices_are_stale names oracle ids that no pool
\* has, so that it never skips a cycle for ever.
FairSpec == Spec /\ WF_vars(Engine) /\ WF_vars(PrelimBroadcast)

-----------------------------------------------------------------------------
(* Properties *)

\* An order the engine can see has its note in the map until the engine takes
\* it: pluck_note, whose failure would drop the order silently, never misses.
FlushedOrdersHaveNotes ==
  open_orders \cup (IF step \in {"clear", "matching", "pluck"} THEN batch ELSE {}) \subseteq notes

\* A client that is told its order was executed can rely on the chain having
\* consumed the note, whatever failed around it.
ExecutedMeansConsumed ==
  \A o \in Orders : status[o] = "Executed" => NoteOf(o) \in consumed

\* Two orders name the same note.
NoteShared == \E o \in Orders : NoteOf(o) # NoNote /\ OrdersOf(NoteOf(o)) # {o}

\* For an order whose note no other order names, the outcome the client saw
\* last is not taken back: only the Pending of a slow caller may follow it.
FinalStaysFinal ==
  [][\A o \in Orders :
       status[o] \in Final /\ OrdersOf(NoteOf(o)) = {o} /\ status'[o] # status[o]
       => status'[o] = "Pending"]_vars

\* An open order does not stay open while the engine lives.
OpenOrdersLeave ==
  \A o \in Orders : (o \in open_orders) ~> (o \notin open_orders \/ step = "dead")

\* Without failures outside, and when no note was submitted twice, every order
\* that a cycle flushes is told its outcome, executed or not, unless a note of its
\* own batch bounces: the notes of that batch are gone, and of its orders only
\* those that failed by themselves are told so.
FlushedOrdersSettle ==
  \A o \in Orders :
    (step = "matching" /\ o \in batch)
      ~> (status[o] \in Final \/ NoteShared \/ (step = "abort" /\ o \in plucked))

\* "Matching engine will process it automatically": an order the server has
\* acknowledged waits in open_orders or was taken by the engine.
NoOrderLost ==
  \A o \in Orders : call[o].pc = "done" => o \in open_orders \cup closed_orders

\* A position's order that is told Executed has had its own trade executed, when
\* no other order names its note: additional_details, results and get_order_id are
\* three maps by note id, and the note of the position changes between the cycles.
OwnTrade ==
  \A o \in Orders :
    /\ call[o].source = "position" /\ OrdersOf(NoteOf(o)) = {o}
    /\ status'[o] = "Executed" /\ status[o] # "Executed"
    => o \in results[NoteOf(o)].trade
ExecutedOwnTrade == [][OwnTrade]_vars

\* Between two cycles the note the server hands out for a position is the live one,
\* which its owner can reclaim: as long as no fault outside ends a cycle early, and
\* no two orders named one note.
PositionNoteLive ==
  step = "tick" /\ ~NoteShared => position \notin consumed

-----------------------------------------------------------------------------
(* Refinement *)

\* How far an order has come: add_order has accepted it, it is open, a cycle
\* took it, or the flush dropped it.
PhaseOf(o) ==
  IF call[o].pc = "idle" THEN "new"
  ELSE IF call[o].pc \in {"note_ids", "notes", "open"} THEN "accepted"
  ELSE IF o \in open_orders THEN "open"
  ELSE IF o \in closed_orders THEN "taken"
  ELSE "dropped"

Lifecycle == INSTANCE OrderLifecycle
  WITH phase <- [o \in Orders |-> PhaseOf(o)], note <- [o \in Orders |-> NoteOf(o)],
       spent <- consumed, told <- status

\* The maps, the flush, the engine's cycle and the preliminary task together keep
\* the promise of OrderLifecycle: no order is taken twice or comes back, no note
\* is spent twice or for an order nobody took, and no status is told too early.
ImplementsLifecycle == Lifecycle!Spec
=============================================================================
