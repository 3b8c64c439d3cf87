-------------------------- MODULE OrderFlowProofs --------------------------
(* Theorems about OrderFlow, for any number of orders, callers and notes. *)
EXTENDS OrderFlow, TLAPS

\* Calls that have begun have a note.  An order between the insertions has its note stored; an order the engine can
\* see has left add_order, and after the flush it is not open again.
CallsInv ==
  /\ \A o \in Orders : call[o].pc = "idle" <=> call[o].note = NoNote
  /\ \A o \in Orders : call[o].pc = "open" => o \in notes
  /\ \A o \in open_orders \cup batch : call[o].pc \in {"announce", "done"}
  /\ step \in {"matching", "pluck"} => batch \cap open_orders = {}
  /\ step = "tick" => plucked = {} /\ inputs = {} /\ DOMAIN results = {}

\* A success is only on its way to be reported when its note is an input of
\* the transaction, and only reported when that was consumed.
ResultsInv ==
  /\ \A o \in DOMAIN prelim : prelim[o] # "Executed"
  /\ step = "execute" =>
       \A n \in DOMAIN results : results[n].result = "Success" => n \in NotesOf(inputs)
  /\ step = "report" =>
       \A n \in DOMAIN results : results[n].result = "Success" => n \in consumed

Inv == TypeOK /\ CallsInv /\ FlushedOrdersHaveNotes /\ ResultsInv /\ ExecutedMeansConsumed

\* The inductive invariant holds when the server starts.
LEMMA InvInit == Init => Inv
  BY OrderFlowAssumption
  DEF Init, Inv, TypeOK, CallsInv, FlushedOrdersHaveNotes, ResultsInv, ExecutedMeansConsumed,
      Calls, Steps, Statuses, Final, Empty, NotesOf, NoteOf

\* Every step of every task keeps it.
LEMMA InvNext == Inv /\ [Next]_vars => Inv'
<1> SUFFICES ASSUME Inv, [Next]_vars PROVE Inv'
  OBVIOUS
<1> USE OrderFlowAssumption
<1> USE DEF Inv, TypeOK, CallsInv, FlushedOrdersHaveNotes, ResultsInv, ExecutedMeansConsumed,
    Calls, Steps, Statuses, Results, Final, amm, engine, NotesOf, NoteOf
<1>1. ASSUME NEW n \in PositionNotes, AddPosition(n) PROVE Inv'
  BY <1>1 DEF AddPosition
<1>2. ASSUME NEW o \in Orders, NEW n \in Notes, NEW s \in Sources, StartOrder(o, n, s) PROVE Inv'
  BY <1>2 DEF StartOrder
<1>3. ASSUME NEW o \in Orders, InsertNoteId(o) PROVE Inv'
  BY <1>3 DEF InsertNoteId, Goto
<1>4. ASSUME NEW o \in Orders, InsertNote(o) PROVE Inv'
  BY <1>4 DEF InsertNote, Goto
<1>5. ASSUME NEW o \in Orders, InsertOpenOrder(o) PROVE Inv'
  BY <1>5 DEF InsertOpenOrder, Goto
<1>6. ASSUME NEW o \in Orders, Announce(o) PROVE Inv'
  BY <1>6 DEF Announce, Goto
<1>7. ASSUME FlushSnapshot PROVE Inv'
  BY <1>7 DEF FlushSnapshot
<1>8. ASSUME FlushClear PROVE Inv'
  <2>1. CASE batch = {}
    <3> HIDE DEF NotesOf
    <3>1. NotesOf({}) = {}
      BY DEF NotesOf
    <3>2. plucked = {} /\ inputs = {} /\ DOMAIN results = {}
      BY <2>1, <3>1
    <3>3. QED
      BY <1>8, <2>1, <3>2 DEF FlushClear
  <2>2. CASE batch # {}
    BY <1>8, <2>2 DEF FlushClear
  <2>3. QED
    BY <2>1, <2>2
<1>9. ASSUME BroadcastMatching PROVE Inv'
  BY <1>9 DEF BroadcastMatching
<1>10. ASSUME PluckNotes PROVE Inv'
  BY <1>10 DEF PluckNotes, EndCycle, Empty
<1>11. ASSUME PrepareFails PROVE Inv'
  BY <1>11 DEF PrepareFails, EndCycle, Empty
<1>12. ASSUME PreparePanics PROVE Inv'
  BY <1>12 DEF PreparePanics
<1>13. ASSUME ExecuteTx PROVE Inv'
  BY <1>13 DEF ExecuteTx
<1>14. ASSUME ExecuteTxFails PROVE Inv'
  BY <1>14 DEF ExecuteTxFails, EndCycle, Empty
<1>15. ASSUME SyncAfterTxFails PROVE Inv'
  BY <1>15 DEF SyncAfterTxFails, EndCycle, Empty
<1>16. ASSUME NEW n \in Notes, NEW o \in Orders, Report(n, o) PROVE Inv'
  BY <1>16 DEF Report, EndCycle, Empty, StatusOf, Restrict, note_ids
<1>17. ASSUME PrelimBroadcast PROVE Inv'
  BY <1>17 DEF PrelimBroadcast, Empty
<1>18. ASSUME NEW outcome \in [plucked -> {"Success", "Failed", "Refused"}],
              NEW last \in [NotesOf(plucked) -> plucked],
              NEW trade \in [NotesOf(plucked) -> {{}} \cup {{o} : o \in Orders}],
              NEW respawned \in FreshNotes \cup {NoNote},
              Prepare(outcome, last, trade, respawned)
       PROVE  Inv'
  <2>1. respawned \in PositionNotes \cup {NoNote}
    BY DEF FreshNotes
  <2>2. \A n \in NotesOf(plucked) : results'[n] \in Results
    BY <1>18, <2>1 DEF Prepare, ResultOf
  <2>3. \A n \in NotesOf(plucked) : results'[n].result = "Success" => n \in NotesOf(inputs')
    BY <1>18 DEF Prepare, ResultOf
  <2>4. \A o \in DOMAIN prelim' : prelim'[o] \in {"Matched", "Failed"}
    BY <1>18 DEF Prepare, PreliminaryStatus
  <2>5. DOMAIN prelim' \subseteq Orders
    BY <1>18 DEF Prepare, Range
  <2>6. /\ DOMAIN results' = NotesOf(plucked)
        /\ step' \in {"report", "execute", "abort"} /\ (step' = "report" => inputs' = {})
        /\ inputs' \subseteq plucked
        /\ UNCHANGED <<call, amm, position, processed, batch, plucked, status, consumed>>
    BY <1>18 DEF Prepare
  <2>7. TypeOK'
    BY <2>2, <2>4, <2>5, <2>6
  <2>8. ResultsInv'
    BY <2>3, <2>4, <2>6
  <2>9. CallsInv' /\ FlushedOrdersHaveNotes' /\ ExecutedMeansConsumed'
    BY <2>6
  <2>10. QED
    BY <2>7, <2>8, <2>9
<1>19. CASE UNCHANGED vars
  BY <1>19 DEF vars
<1>20. QED
  BY <1>1, <1>2, <1>3, <1>4, <1>5, <1>6, <1>7, <1>8, <1>9, <1>10, <1>11, <1>12, <1>13,
     <1>14, <1>15, <1>16, <1>17, <1>18, <1>19 DEF Next, AddOrders, Engine

\* An order the engine can see has its note stored, however many callers of
\* add_order run at once and wherever each is (AmmState::add_order against
\* flush_open_orders and pluck_note).
THEOREM PluckNeverMisses == Spec => []FlushedOrdersHaveNotes
<1>1. Inv => FlushedOrdersHaveNotes
  BY DEF Inv
<1>2. QED
  BY <1>1, InvInit, InvNext, PTL DEF Spec

\* A status Executed is never broadcast for a note the chain has not consumed,
\* whatever fails and however often a note is submitted.
THEOREM ExecutedIsTrue == Spec => []ExecutedMeansConsumed
<1>1. Inv => ExecutedMeansConsumed
  BY DEF Inv
<1>2. QED
  BY <1>1, InvInit, InvNext, PTL DEF Spec

\* The maps, the engine's locals and the events keep their types.
THEOREM OrderFlowTypeOK == Spec => []TypeOK
<1>1. Inv => TypeOK
  BY DEF Inv
<1>2. QED
  BY <1>1, InvInit, InvNext, PTL DEF Spec

-----------------------------------------------------------------------------
(* OrderFlow implements OrderLifecycle *)

\* An order is open or closed, not both, and closed ones have left add_order.  The
\* batch was open until the flush is over and is closed from then on; whatever the
\* preliminary task has to announce was in a batch, and is no Executed.  A
\* transaction has inputs.
TakenInv ==
  /\ open_orders \cap closed_orders = {}
  /\ \A o \in closed_orders : call[o].pc \in {"announce", "done"}
  /\ step = "clear" => batch \subseteq open_orders
  /\ step \notin {"tick", "clear"} => batch \subseteq closed_orders
  /\ DOMAIN prelim \subseteq closed_orders
  /\ \A o \in DOMAIN prelim : prelim[o] \in {"Matched", "Failed"}
  /\ step = "execute" => inputs # {}

LInv == Inv /\ TakenInv

\* No order has come anywhere when the server starts.
LEMMA TakenInit == Init => TakenInv
  BY DEF Init, TakenInv, Empty

\* Every step of every task keeps orders apart that way.
LEMMA TakenNext == LInv /\ [Next]_vars => TakenInv'
<1> SUFFICES ASSUME LInv, [Next]_vars PROVE TakenInv'
  OBVIOUS
<1> USE DEF LInv, Inv, TypeOK, CallsInv, TakenInv, Calls, Steps, amm, engine
<1>1. ASSUME NEW n \in PositionNotes, AddPosition(n) PROVE TakenInv'
  BY <1>1 DEF AddPosition
<1>2. ASSUME NEW o \in Orders, NEW n \in Notes, NEW s \in Sources, StartOrder(o, n, s) PROVE TakenInv'
  BY <1>2 DEF StartOrder
<1>3. ASSUME NEW o \in Orders, InsertNoteId(o) \/ InsertNote(o) PROVE TakenInv'
  BY <1>3 DEF InsertNoteId, InsertNote, Goto
<1>4. ASSUME NEW o \in Orders, InsertOpenOrder(o) PROVE TakenInv'
  BY <1>4 DEF InsertOpenOrder, Goto
<1>5. ASSUME NEW o \in Orders, Announce(o) PROVE TakenInv'
  BY <1>5 DEF Announce, Goto
<1>6. ASSUME FlushSnapshot PROVE TakenInv'
  BY <1>6 DEF FlushSnapshot
<1>7. ASSUME FlushClear PROVE TakenInv'
  BY <1>7 DEF FlushClear
<1>8. ASSUME BroadcastMatching PROVE TakenInv'
  BY <1>8 DEF BroadcastMatching
<1>9. ASSUME PluckNotes PROVE TakenInv'
  BY <1>9 DEF PluckNotes, EndCycle
<1>10. ASSUME PrepareFails \/ ExecuteTxFails \/ SyncAfterTxFails PROVE TakenInv'
  BY <1>10 DEF PrepareFails, ExecuteTxFails, SyncAfterTxFails, EndCycle
<1>11. ASSUME PreparePanics PROVE TakenInv'
  BY <1>11 DEF PreparePanics
<1>12. ASSUME ExecuteTx PROVE TakenInv'
  BY <1>12 DEF ExecuteTx
<1>13. ASSUME NEW n \in Notes, NEW o \in Orders, Report(n, o) PROVE TakenInv'
  BY <1>13 DEF Report, EndCycle
<1>14. ASSUME PrelimBroadcast PROVE TakenInv'
  BY <1>14 DEF PrelimBroadcast, Empty
<1>15. ASSUME NEW outcome \in [plucked -> {"Success", "Failed", "Refused"}],
              NEW last \in [NotesOf(plucked) -> plucked],
              NEW trade \in [NotesOf(plucked) -> {{}} \cup {{o} : o \in Orders}],
              NEW respawned \in FreshNotes \cup {NoNote},
              Prepare(outcome, last, trade, respawned)
       PROVE  TakenInv'
  <2>1. DOMAIN prelim' \subseteq plucked
    BY <1>15 DEF Prepare, Range
  <2>2. \A o \in DOMAIN prelim' : prelim'[o] \in {"Matched", "Failed"}
    BY <1>15 DEF Prepare, PreliminaryStatus
  <2>3. /\ UNCHANGED <<call, open_orders, closed_orders, batch>>
        /\ step = "prepare" /\ step' \in {"report", "execute", "abort"} /\ (step' = "report" => inputs' = {})
        /\ (step' = "execute" => inputs' # {})
    BY <1>15 DEF Prepare
  <2>4. QED
    BY <2>1, <2>2, <2>3
<1>16. CASE UNCHANGED vars
  BY <1>16 DEF vars
<1>17. QED
  BY <1>1, <1>2, <1>3, <1>4, <1>5, <1>6, <1>7, <1>8, <1>9, <1>10, <1>11, <1>12, <1>13,
     <1>14, <1>15, <1>16 DEF Next, AddOrders, Engine

\* The maps tell the phase of an order.
LEMMA PhaseOfOrder ==
  ASSUME LInv, NEW o \in Orders
  PROVE  /\ PhaseOf(o) = "new" <=> call[o].pc = "idle"
         /\ PhaseOf(o) = "open" <=> o \in open_orders
         /\ PhaseOf(o) = "taken" <=> o \in closed_orders
         /\ call[o].pc \in {"announce", "done"} => PhaseOf(o) \in {"open", "taken", "dropped"}
  BY DEF LInv, Inv, TypeOK, CallsInv, TakenInv, Calls, PhaseOf

\* The server starts where the lifecycle starts.
LEMMA LifecycleInit == Init => Lifecycle!Init
  BY DEF Init, Lifecycle!Init, PhaseOf, NoteOf

\* A step that touches neither the calls nor the maps leaves every order where it is.
LEMMA PhaseKept ==
  ASSUME UNCHANGED <<call, open_orders, closed_orders>>
  PROVE  UNCHANGED <<[o \in Orders |-> PhaseOf(o)], [o \in Orders |-> NoteOf(o)]>>
  BY DEF PhaseOf, NoteOf

\* A step that only changes what clients were told tells the truth.
LEMMA TellStep ==
  ASSUME LInv, LInv', UNCHANGED <<call, open_orders, closed_orders, consumed>>,
         \A o \in Orders : status'[o] # status[o] => Lifecycle!Truthful(o, status'[o])
  PROVE  Lifecycle!Next
<1>1. status' \in [Orders -> {"none", "Pending", "Matching", "Matched", "Executed", "Failed"}]
  BY DEF LInv, Inv, TypeOK, Statuses, Final
<1>2. Lifecycle!Tell
  BY <1>1, PhaseKept DEF Lifecycle!Tell
<1>3. QED
  BY <1>2 DEF Lifecycle!Next

\* A transaction spends the notes of its inputs.
LEMMA SpendStep ==
  ASSUME LInv, step = "execute", Acceptable(inputs), consumed' = consumed \cup NotesOf(inputs),
         UNCHANGED <<call, open_orders, closed_orders, status>>
  PROVE  Lifecycle!Next
<1>1. inputs \subseteq Orders /\ inputs # {} /\ inputs \subseteq closed_orders
  BY DEF LInv, Inv, TypeOK, TakenInv
<1>2. inputs \subseteq Lifecycle!In("taken")
  BY <1>1, PhaseOfOrder DEF Lifecycle!In
<1>3. \A o \in inputs : NoteOf(o) \notin consumed
  BY DEF Acceptable, NotesOf
<1>4. consumed' = consumed \cup {[p \in Orders |-> NoteOf(p)][o] : o \in inputs}
  BY <1>1 DEF NotesOf
<1>5. Lifecycle!Spend(inputs)
  BY <1>1, <1>2, <1>3, <1>4, PhaseKept DEF Lifecycle!Spend, Acceptable
<1>6. QED
  BY <1>1, <1>5 DEF Lifecycle!Next

\* The flush takes the batch and drops what opened after the snapshot.
LEMMA TakeStep ==
  ASSUME LInv, FlushClear
  PROVE  [Lifecycle!Next]_Lifecycle!lifecycleVars
<1> USE DEF FlushClear
<1>1. batch \subseteq Orders /\ batch \subseteq open_orders /\ open_orders \subseteq Orders
  BY DEF LInv, Inv, TypeOK, TakenInv
<1>2. CASE open_orders = {}
  <2>1. UNCHANGED <<call, open_orders, closed_orders, consumed, status>>
    BY <1>1, <1>2
  <2>2. QED
    BY <2>1, PhaseKept DEF Lifecycle!lifecycleVars
<1>3. CASE open_orders # {}
  <2>1. \A o \in Orders :
          PhaseOf(o)' = IF o \in batch THEN "taken" ELSE IF PhaseOf(o) = "open" THEN "dropped" ELSE PhaseOf(o)
    BY <1>1 DEF PhaseOf, LInv, Inv, TypeOK, CallsInv, TakenInv, Calls
  <2>2. batch \subseteq Lifecycle!In("open") /\ Lifecycle!In("open") # {}
    BY <1>1, <1>3, PhaseOfOrder DEF Lifecycle!In
  <2>3. Lifecycle!Take(batch)
    BY <1>1, <2>1, <2>2 DEF Lifecycle!Take, NoteOf
  <2>4. QED
    BY <1>1, <2>3 DEF Lifecycle!Next
<1>4. QED
  BY <1>2, <1>3

\* Every step of every task is a step of the lifecycle or changes nothing of it.
LEMMA LifecycleNext == LInv /\ LInv' /\ [Next]_vars => [Lifecycle!Next]_Lifecycle!lifecycleVars
<1> SUFFICES ASSUME LInv, LInv', [Next]_vars
             PROVE  [Lifecycle!Next]_Lifecycle!lifecycleVars
  OBVIOUS
<1> DEFINE Told == \A o \in Orders : status'[o] # status[o] => Lifecycle!Truthful(o, status'[o])
<1>a. ASSUME UNCHANGED <<call, open_orders, closed_orders, consumed, status>>
      PROVE  UNCHANGED Lifecycle!lifecycleVars
  BY <1>a, PhaseKept DEF Lifecycle!lifecycleVars
<1>b. ASSUME UNCHANGED <<call, open_orders, closed_orders, consumed>>, Told PROVE Lifecycle!Next
  BY <1>b, TellStep
<1>1. ASSUME NEW n \in PositionNotes, AddPosition(n) PROVE UNCHANGED Lifecycle!lifecycleVars
  BY <1>1, <1>a DEF AddPosition, amm
<1>2. ASSUME NEW o \in Orders, NEW n \in Notes, NEW s \in Sources, StartOrder(o, n, s)
      PROVE  Lifecycle!Next
  <2>1. /\ PhaseOf(o) = "new" /\ PhaseOf(o)' = "accepted" /\ NoteOf(o)' = n
        /\ \A p \in Orders \ {o} : PhaseOf(p)' = PhaseOf(p) /\ NoteOf(p)' = NoteOf(p)
        /\ UNCHANGED <<consumed, status>>
    BY <1>2 DEF StartOrder, PhaseOf, NoteOf, amm, LInv, Inv, TypeOK, Calls
  <2>2. Lifecycle!Accept(o, n)
    BY <2>1 DEF Lifecycle!Accept
  <2>3. QED
    BY <2>2 DEF Lifecycle!Next
<1>3. ASSUME NEW o \in Orders, InsertNoteId(o) \/ InsertNote(o)
      PROVE  UNCHANGED Lifecycle!lifecycleVars
  <2>1. \A p \in Orders : PhaseOf(p)' = PhaseOf(p) /\ NoteOf(p)' = NoteOf(p)
    BY <1>3 DEF InsertNoteId, InsertNote, Goto, PhaseOf, NoteOf, amm, LInv, Inv, TypeOK, Calls
  <2>2. UNCHANGED <<consumed, status>>
    BY <1>3 DEF InsertNoteId, InsertNote
  <2>3. QED
    BY <2>1, <2>2 DEF Lifecycle!lifecycleVars
<1>4. ASSUME NEW o \in Orders, InsertOpenOrder(o) PROVE Lifecycle!Next
  <2>1. /\ PhaseOf(o) = "accepted" /\ PhaseOf(o)' = "open" /\ NoteOf(o)' = NoteOf(o)
        /\ \A p \in Orders \ {o} : PhaseOf(p)' = PhaseOf(p) /\ NoteOf(p)' = NoteOf(p)
        /\ UNCHANGED <<consumed, status>>
    BY <1>4 DEF InsertOpenOrder, Goto, PhaseOf, NoteOf, LInv, Inv, TypeOK, Calls
  <2>2. Lifecycle!Open(o)
    BY <2>1 DEF Lifecycle!Open
  <2>3. QED
    BY <2>2 DEF Lifecycle!Next
<1>5. ASSUME NEW o \in Orders, Announce(o) PROVE Lifecycle!Next
  <2>1. \A p \in Orders : PhaseOf(p)' = PhaseOf(p) /\ NoteOf(p)' = NoteOf(p)
    BY <1>5 DEF Announce, Goto, PhaseOf, NoteOf, amm, LInv, Inv, TypeOK, Calls
  <2>2. PhaseOf(o) \in {"open", "taken", "dropped"}
    BY <1>5, PhaseOfOrder DEF Announce
  <2>3. UNCHANGED consumed /\ status' = [status EXCEPT ![o] = "Pending"]
    BY <1>5 DEF Announce
  <2>4. status' \in [Orders -> {"none", "Pending", "Matching", "Matched", "Executed", "Failed"}]
    BY DEF LInv, Inv, TypeOK, Statuses, Final
  <2>5. \A p \in Orders : status'[p] # status[p] => p = o /\ status'[p] = "Pending"
    BY <2>3 DEF LInv, Inv, TypeOK
  <2>6. Lifecycle!Tell
    BY <2>1, <2>2, <2>3, <2>4, <2>5 DEF Lifecycle!Tell, Lifecycle!Truthful
  <2>7. QED
    BY <2>6 DEF Lifecycle!Next
<1>6. ASSUME FlushSnapshot \/ PluckNotes \/ PrepareFails \/ PreparePanics \/ ExecuteTxFails
      PROVE  UNCHANGED Lifecycle!lifecycleVars
  BY <1>6, <1>a
     DEF FlushSnapshot, PluckNotes, PrepareFails, PreparePanics, ExecuteTxFails, amm
<1>7. ASSUME BroadcastMatching PROVE Lifecycle!Next
  <2>1. \A o \in batch : PhaseOf(o) = "taken"
    BY <1>7, PhaseOfOrder DEF BroadcastMatching, LInv, Inv, TypeOK, TakenInv
  <2>2. Told
    BY <1>7, <2>1 DEF BroadcastMatching, Lifecycle!Truthful, LInv, Inv, TypeOK
  <2>3. QED
    BY <1>7, <1>b, <2>2 DEF BroadcastMatching, amm
<1>8. ASSUME ExecuteTx \/ SyncAfterTxFails PROVE Lifecycle!Next
  BY <1>8, SpendStep DEF ExecuteTx, SyncAfterTxFails, amm
<1>9. ASSUME NEW n \in Notes, NEW o \in Orders, Report(n, o) PROVE Lifecycle!Next
  <2>1. PICK p \in batch : NoteOf(p) = n
    BY <1>9 DEF Report, NotesOf, LInv, Inv, TypeOK
  <2>2. p \in Lifecycle!In("taken")
    BY <1>9, <2>1, PhaseOfOrder DEF Report, LInv, Inv, TypeOK, TakenInv, Lifecycle!In
  <2>3. NoteOf(o) = n /\ status' = [status EXCEPT ![o] = StatusOf(results[n].result)]
    BY <1>9 DEF Report
  <2>4. results[n].result = "Success" => n \in consumed
    BY <1>9 DEF Report, LInv, Inv, ResultsInv
  <2>5. \A q \in Orders : status'[q] # status[q] =>
          q = o /\ status'[q] \in {"Executed", "Failed"} /\ (status'[q] = "Executed" => n \in consumed)
    BY <2>3, <2>4 DEF StatusOf, LInv, Inv, TypeOK
  <2>6. Told
    BY <2>1, <2>2, <2>3, <2>5 DEF Lifecycle!Truthful, Lifecycle!In
  <2>7. QED
    BY <1>9, <1>b, <2>6 DEF Report, amm
<1>10. ASSUME PrelimBroadcast PROVE Lifecycle!Next
  <2>1. \A o \in DOMAIN prelim : o \in Lifecycle!In("taken") /\ PhaseOf(o) = "taken"
    BY PhaseOfOrder DEF LInv, Inv, TypeOK, TakenInv, Lifecycle!In
  <2>2. \A o \in DOMAIN prelim : prelim[o] \in {"Matched", "Failed"}
    BY DEF LInv, TakenInv
  <2>3. Told
    BY <1>10, <2>1, <2>2 DEF PrelimBroadcast, Lifecycle!Truthful, LInv, Inv, TypeOK
  <2>4. QED
    BY <1>10, <1>b, <2>3 DEF PrelimBroadcast, amm
<1>11. ASSUME NEW outcome \in [plucked -> {"Success", "Failed", "Refused"}],
              NEW last \in [NotesOf(plucked) -> plucked],
              NEW trade \in [NotesOf(plucked) -> {{}} \cup {{o} : o \in Orders}],
              NEW respawned \in FreshNotes \cup {NoNote},
              Prepare(outcome, last, trade, respawned)
       PROVE  UNCHANGED Lifecycle!lifecycleVars
  BY <1>11, <1>a DEF Prepare, amm
<1>12. CASE UNCHANGED vars
  BY <1>12, <1>a DEF vars, amm
<1>13. QED
  BY <1>1, <1>2, <1>3, <1>4, <1>5, <1>6, <1>7, <1>8, <1>9, <1>10, <1>11, <1>12, TakeStep
     DEF Next, AddOrders, Engine

\* The maps, the flush, the engine's cycle and the preliminary task keep the promise of
\* OrderLifecycle: no order is taken twice or comes back, no note is spent twice, and
\* no status is told too early (AmmState, TradingEngine::start, execute_notes).
THEOREM OrderFlowImplementsLifecycle == Spec => ImplementsLifecycle
<1>1. Init => LInv
  BY InvInit, TakenInit DEF LInv
<1>2. LInv /\ [Next]_vars => LInv'
  BY InvNext, TakenNext DEF LInv
<1>3. QED
  BY <1>1, <1>2, LifecycleInit, LifecycleNext, PTL DEF Spec, ImplementsLifecycle, Lifecycle!Spec
-----------------------------------------------------------------------------
(* The note of the position *)

\* The position's orders name position notes, and there are none before there is a
\* position; a position's note is an input of a transaction only for such an order.
PositionOrders ==
  /\ \A o \in Orders : call[o].source = "position" => NoteOf(o) \in PositionNotes /\ position # NoNote
  /\ \A o \in inputs : NoteOf(o) \in PositionNotes => HasDetails(NoteOf(o))
  /\ \A n \in consumed \cap PositionNotes :
       \E o \in Orders : call[o].source = "position" /\ NoteOf(o) = n
  /\ step = "execute" => NotesOf(inputs) \subseteq DOMAIN results

\* The orders whose result is still to come name the note the position has.  Its
\* replacement is not consumed, and neither is the note itself unless the result
\* that replaces it is there.
PositionLive ==
  /\ \A o \in Orders : call[o].source = "position" /\ o \notin closed_orders => NoteOf(o) = position
  /\ \A o \in batch :
       call[o].source = "position" /\ step # "report" => NoteOf(o) = position
  /\ step \in {"execute", "report"} =>
       \A n \in DOMAIN results : HasDetails(n) =>
         /\ n = position
         /\ results[n].output \in PositionNotes \ consumed
         /\ step = "execute" => results[n].output \notin NotesOf(inputs)
  /\ position \in consumed =>
       step = "report" /\ position \in DOMAIN results /\ HasDetails(position)

PositionInv == PositionOrders /\ (~NoteShared => PositionLive)


\* No position has a note when the server starts.
LEMMA PositionInit == Init => PositionInv
  BY OrderFlowAssumption
  DEF Init, PositionInv, PositionOrders, PositionLive, NotesOf, NoteOf, Empty

\* Two orders that name one note go on naming it.
LEMMA SharedForGood ==
  ASSUME LInv, [Next]_vars, NoteShared
  PROVE  NoteShared'
<1>1. PICK o \in Orders, p \in Orders : o # p /\ NoteOf(o) # NoNote /\ NoteOf(p) = NoteOf(o)
  BY DEF NoteShared, OrdersOf
<1>2. call[o].pc # "idle" /\ call[p].pc # "idle"
  BY <1>1 DEF LInv, Inv, TypeOK, CallsInv, NoteOf
<1>3. \A q \in Orders : call[q].pc # "idle" => call'[q].note = call[q].note
  <2> USE DEF LInv, Inv, TypeOK, Calls
  <2>1. ASSUME NEW q \in Orders, NEW n \in Notes, NEW s \in Sources, StartOrder(q, n, s)
        PROVE  \A r \in Orders : call[r].pc # "idle" => call'[r].note = call[r].note
    BY <2>1 DEF StartOrder
  <2>2. ASSUME NEW q \in Orders, InsertNoteId(q) \/ InsertNote(q) \/ InsertOpenOrder(q) \/ Announce(q)
        PROVE  \A r \in Orders : call'[r].note = call[r].note
    BY <2>2 DEF InsertNoteId, InsertNote, InsertOpenOrder, Announce, Goto
  <2>3. ASSUME Engine \/ PrelimBroadcast \/ UNCHANGED vars PROVE call' = call
    BY <2>3 DEF Engine, FlushSnapshot, FlushClear, BroadcastMatching, PluckNotes, Prepare, PrepareFails,
       PreparePanics, ExecuteTx, ExecuteTxFails, SyncAfterTxFails, Report, PrelimBroadcast, vars
  <2>4. ASSUME NEW n \in PositionNotes, AddPosition(n) PROVE call' = call
    BY <2>4 DEF AddPosition
  <2>5. QED
    BY <2>1, <2>2, <2>3, <2>4 DEF Next, AddOrders
<1>4. NoteOf(o)' = NoteOf(o) /\ NoteOf(p)' = NoteOf(p)
  BY <1>2, <1>3 DEF NoteOf
<1>5. QED
  BY <1>1, <1>4 DEF NoteShared, OrdersOf

\* Nobody's calls change: the orders of the batch say the same of a note.
LEMMA DetailsKept ==
  ASSUME UNCHANGED <<call, batch>>, NEW n
  PROVE  HasDetails(n)' = HasDetails(n) /\ \A os : NotesOf(os)' = NotesOf(os)
  BY DEF HasDetails, DetailsOf, NotesOf, NoteOf

\* Every step of every task keeps the position's note apart from the spent ones, as long
\* as no sync fails after a transaction.
LEMMA PositionNext == "sync" \notin Faults /\ LInv /\ PositionInv /\ [Next]_vars => PositionInv'
<1> SUFFICES ASSUME "sync" \notin Faults, LInv, PositionInv, [Next]_vars PROVE PositionInv'
  OBVIOUS
<1> USE OrderFlowAssumption
<1> USE DEF LInv, Inv, TypeOK, TakenInv, PositionInv, PositionOrders, PositionLive, amm, engine
<1>sh. ~NoteShared' => ~NoteShared
  BY SharedForGood
<1> HIDE DEF NoteShared
<1>1. ASSUME NEW n \in PositionNotes, AddPosition(n) PROVE PositionInv'
  <2>1. /\ position = NoNote /\ position' = n /\ n # NoNote
        /\ UNCHANGED <<call, amm, processed, engine, prelim, status, consumed>>
    BY <1>1 DEF AddPosition
  <2>2. \A o \in Orders : call[o].source # "position"
    BY <2>1
  <2>3. n \notin consumed
    BY <2>2
  <2>4. \A m : ~HasDetails(m)
    BY <2>2 DEF HasDetails, DetailsOf
  <2>5. \A m : HasDetails(m)' = HasDetails(m)
    BY <2>1, DetailsKept
  <2>6. \A os : NotesOf(os)' = NotesOf(os)
    BY <2>1 DEF NotesOf, NoteOf
  <2>7. QED
    BY <1>sh, <2>1, <2>2, <2>3, <2>4, <2>5, <2>6 DEF NoteOf
<1>2. ASSUME NEW q \in Orders, NEW n \in Notes, NEW s \in Sources, StartOrder(q, n, s) PROVE PositionInv'
  <2>1. /\ call[q].pc = "idle" /\ (s = "position" => n = position)
        /\ call' = [call EXCEPT ![q] = [pc |-> "note_ids", note |-> n, source |-> s]]
        /\ UNCHANGED <<amm, position, processed, engine, prelim, status, consumed>>
    BY <1>2 DEF StartOrder
  <2>2. call'[q].note = n /\ call'[q].source = s /\ \A o \in Orders \ {q} : call'[o] = call[o]
    BY <2>1
  <2>3. q \notin batch /\ q \notin closed_orders
    BY <2>1 DEF CallsInv
  <2>4. \A m : HasDetails(m)' = HasDetails(m)
    BY <2>1, <2>2, <2>3 DEF HasDetails, DetailsOf, NoteOf
  <2>5. NotesOf(inputs)' = NotesOf(inputs)
    BY <2>1, <2>2, <2>3 DEF NotesOf, NoteOf
  <2>6. \A m \in consumed \cap PositionNotes : \E o \in Orders : call'[o].source = "position" /\ call'[o].note = m
    <3>1. SUFFICES ASSUME NEW m \in consumed \cap PositionNotes
                   PROVE  \E o \in Orders : call'[o].source = "position" /\ call'[o].note = m
      OBVIOUS
    <3>2. PICK o \in Orders : call[o].source = "position" /\ NoteOf(o) = m
      OBVIOUS
    <3>3. o # q
      BY <2>1, <3>1, <3>2 DEF CallsInv, NoteOf
    <3>4. QED
      BY <2>2, <3>2, <3>3 DEF NoteOf
  <2>7. PositionOrders'
    BY <2>1, <2>2, <2>3, <2>4, <2>5, <2>6 DEF NoteOf
  <2>8. ~NoteShared' => PositionLive'
    BY <1>sh, <2>1, <2>2, <2>3, <2>4, <2>5 DEF NoteOf
  <2>9. QED
    BY <2>7, <2>8
<1>3. ASSUME NEW q \in Orders, InsertNoteId(q) \/ InsertNote(q) \/ InsertOpenOrder(q) \/ Announce(q)
      PROVE  PositionInv'
  <2>1. UNCHANGED <<closed_orders, position, engine, consumed>>
    BY <1>3 DEF InsertNoteId, InsertNote, InsertOpenOrder, Announce
  <2>2. \A o \in Orders : call'[o].note = call[o].note /\ call'[o].source = call[o].source
    BY <1>3 DEF InsertNoteId, InsertNote, InsertOpenOrder, Announce, Goto, Calls
  <2>3. \A m : HasDetails(m)' = HasDetails(m)
    BY <2>1, <2>2 DEF HasDetails, DetailsOf, NoteOf
  <2>4. NotesOf(inputs)' = NotesOf(inputs)
    BY <2>1, <2>2 DEF NotesOf, NoteOf
  <2>5. QED
    BY <1>sh, <2>1, <2>2, <2>3, <2>4 DEF NoteOf
<1>4. ASSUME FlushSnapshot PROVE PositionInv'
  <2>1. /\ step = "tick" /\ step' = "clear" /\ batch' = open_orders
        /\ plucked = {} /\ inputs = {} /\ DOMAIN results = {}
        /\ UNCHANGED <<call, amm, position, plucked, inputs, results, consumed>>
    BY <1>4 DEF FlushSnapshot, CallsInv
  <2>2. \A o \in batch' : o \notin closed_orders'
    BY <2>1
  <2>3. QED
    BY <1>sh, <2>1, <2>2 DEF NoteOf
<1>5. ASSUME FlushClear \/ BroadcastMatching \/ PreparePanics PROVE PositionInv'
  <2>1. /\ closed_orders \subseteq closed_orders' /\ step \in {"clear", "matching", "prepare"}
        /\ step' \in {"tick", "matching", "pluck", "dead"}
        /\ UNCHANGED <<call, position, batch, plucked, inputs, results, consumed>>
    BY <1>5 DEF FlushClear, BroadcastMatching, PreparePanics
  <2>2. \A m : HasDetails(m)' = HasDetails(m)
    BY <2>1, DetailsKept
  <2>3. QED
    BY <1>sh, <2>1, <2>2 DEF NoteOf
<1>6. ASSUME PluckNotes PROVE PositionInv'
  <2>1. /\ step = "pluck" /\ step' \in {"tick", "prepare"} /\ batch' \subseteq batch
        /\ UNCHANGED <<call, closed_orders, position, consumed>>
        /\ inputs' = {} \/ (inputs' = inputs /\ batch' = batch)
    BY <1>6 DEF PluckNotes, EndCycle
  <2>2. inputs' = inputs /\ batch' = batch => \A m : HasDetails(m)' = HasDetails(m)
    BY <2>1, DetailsKept
  <2>3. QED
    BY <1>sh, <2>1, <2>2 DEF NoteOf
<1>7. ASSUME PrepareFails \/ ExecuteTxFails PROVE PositionInv'
  <2>1. /\ step \in {"prepare", "execute", "abort"} /\ step' = "tick" /\ batch' = {} /\ inputs' = {}
        /\ UNCHANGED <<call, closed_orders, position, consumed>>
    BY <1>7 DEF PrepareFails, ExecuteTxFails, EndCycle
  <2>2. PositionOrders'
    BY <2>1 DEF NoteOf
  <2>3. ~NoteShared => position \notin consumed
    <3>1. ASSUME ~NoteShared, step = "execute" PROVE position \notin consumed
      BY <3>1
    <3>2. QED
      BY <2>1, <3>1
  <2>4. QED
    BY <1>sh, <2>1, <2>2, <2>3 DEF NoteOf
<1>8. ASSUME NEW outcome \in [plucked -> {"Success", "Failed", "Refused"}],
             NEW last \in [NotesOf(plucked) -> plucked],
             NEW trade \in [NotesOf(plucked) -> {{}} \cup {{o} : o \in Orders}],
             NEW respawned \in FreshNotes \cup {NoNote},
             Prepare(outcome, last, trade, respawned)
      PROVE  PositionInv'
  <2>1. /\ step = "prepare" /\ step' \in {"report", "execute", "abort"}
        /\ UNCHANGED <<call, closed_orders, position, batch, plucked, consumed>>
        /\ inputs' = {o \in plucked : outcome[o] # "Refused"}
        /\ results' = [n \in NotesOf(plucked) |-> ResultOf(n, outcome[last[n]], respawned, trade[n])]
        /\ \A n \in NotesOf(plucked) : results'[n].output = NoNote => n \notin PositionNotes
        /\ \A n \in NotesOf(plucked) : last[n] \in plucked /\ NoteOf(last[n]) = n
        /\ \A o \in plucked : outcome[o] \in Outcomes(NoteOf(o))
    BY <1>8 DEF Prepare
  <2>2. \A m : HasDetails(m)' = HasDetails(m)
    BY <2>1, DetailsKept
  <2>3. \A o \in inputs' : NoteOf(o) \in PositionNotes => HasDetails(NoteOf(o)) /\ outcome[o] = "Success"
    BY <2>1 DEF Outcomes
  <2>4. NotesOf(inputs)' \subseteq NotesOf(plucked) /\ NotesOf(inputs)' = NotesOf(inputs')
    BY <2>1 DEF NotesOf, NoteOf
  <2>5. PositionOrders'
    BY <2>1, <2>2, <2>3, <2>4 DEF NoteOf
  <2>6. ASSUME ~NoteShared, NEW n \in NotesOf(plucked), HasDetails(n)
        PROVE  /\ n = position
               /\ results'[n].output \in PositionNotes \ consumed
               /\ results'[n].output \notin NotesOf(inputs')
    <3>1. PICK o \in batch : NoteOf(o) = n /\ call[o].source = "position"
      BY <2>6 DEF HasDetails, DetailsOf
    <3>2. n = position /\ position \notin consumed /\ n \in PositionNotes
      BY <2>1, <2>6, <3>1
    <3>3. results'[n].output = IF outcome[last[n]] = "Success" THEN respawned ELSE n
      BY <2>1, <3>2 DEF ResultOf
    <3>4. CASE outcome[last[n]] = "Success"
      <4>1. respawned \in FreshNotes
        BY <2>1, <3>2, <3>3, <3>4
      <4>2. respawned \in PositionNotes \ consumed /\ respawned \notin NotesOf(Orders)
        BY <4>1 DEF FreshNotes
      <4>3. NotesOf(inputs') \subseteq NotesOf(Orders)
        BY <2>1 DEF NotesOf
      <4>4. QED
        BY <3>2, <3>3, <3>4, <4>2, <4>3
    <3>5. CASE outcome[last[n]] # "Success"
      <4>1. \A p \in inputs' : NoteOf(p) # n
        <5>1. SUFFICES ASSUME NEW p \in inputs', NoteOf(p) = n PROVE FALSE
          OBVIOUS
        <5>2. p \in Orders /\ last[n] \in Orders /\ NoteOf(last[n]) = n /\ n # NoNote
          BY <2>1, <3>2
        <5>3. p = last[n]
          BY <2>6, <5>1, <5>2 DEF NoteShared, OrdersOf
        <5>4. QED
          BY <2>3, <3>2, <3>5, <5>1, <5>3
      <4>2. n \notin NotesOf(inputs')
        BY <4>1 DEF NotesOf
      <4>3. QED
        BY <3>2, <3>3, <3>5, <4>2
    <3>6. QED
      BY <3>4, <3>5
  <2>7. ASSUME ~NoteShared PROVE PositionLive'
    <3>1. DOMAIN results' = NotesOf(plucked)
      BY <2>1
    <3>2. position \notin consumed
      BY <2>1, <2>7
    <3>3. \A n \in DOMAIN results' : HasDetails(n) =>
            /\ n = position
            /\ results'[n].output \in PositionNotes \ consumed
            /\ results'[n].output \notin NotesOf(inputs)'
      BY <2>4, <2>6, <2>7, <3>1
    <3>4. QED
      BY <2>1, <2>2, <2>7, <3>2, <3>3 DEF NoteOf
  <2>8. QED
    BY <1>sh, <2>5, <2>7
<1>9. ASSUME ExecuteTx PROVE PositionInv'
  <2>1. /\ step = "execute" /\ step' = "report" /\ consumed' = consumed \cup NotesOf(inputs)
        /\ UNCHANGED <<call, closed_orders, position, batch, plucked, inputs, results>>
    BY <1>9 DEF ExecuteTx
  <2>2. \A m : HasDetails(m)' = HasDetails(m)
    BY <2>1, DetailsKept
  <2>3. \A n \in NotesOf(inputs) \cap PositionNotes : HasDetails(n)
    BY DEF NotesOf
  <2>4. \A n : HasDetails(n) => \E o \in Orders : call[o].source = "position" /\ NoteOf(o) = n
    BY DEF HasDetails, DetailsOf
  <2>5. NoNote \notin NotesOf(inputs)
    BY DEF NotesOf, NoteOf, CallsInv
  <2>6. PositionOrders'
    BY <2>1, <2>2, <2>3, <2>4 DEF NoteOf
  <2>7. ASSUME ~NoteShared PROVE PositionLive'
    <3>1. position \notin consumed /\ NotesOf(inputs) \subseteq DOMAIN results
      BY <2>1, <2>7
    <3>2. position \in NotesOf(inputs) => position \in DOMAIN results /\ HasDetails(position)
      BY <2>3, <2>5, <3>1
    <3>3. \A n \in DOMAIN results : HasDetails(n) =>
            n = position /\ results[n].output \in PositionNotes \ consumed'
      BY <2>1, <2>7
    <3>4. QED
      BY <2>1, <2>2, <2>7, <3>1, <3>2, <3>3 DEF NoteOf
  <2>8. QED
    BY <1>sh, <2>6, <2>7
<1>10. ASSUME NEW n \in Notes, NEW q \in Orders, Report(n, q) PROVE PositionInv'
  <2>1. /\ step = "report" /\ n \in DOMAIN results
        /\ position' = IF results[n].output # NoNote /\ HasDetails(n) THEN results[n].output ELSE position
        /\ UNCHANGED <<call, closed_orders, consumed>>
    BY <1>10 DEF Report
  <2>2. \/ DOMAIN results = {n} /\ step' = "tick" /\ batch' = {} /\ inputs' = {}
        \/ /\ DOMAIN results' = DOMAIN results \ {n} /\ \A m \in DOMAIN results' : results'[m] = results[m]
           /\ UNCHANGED <<step, batch, inputs>>
    BY <1>10 DEF Report, EndCycle, Restrict
  <2>3. results[n].output = NoNote \/ results[n].output \in PositionNotes
    BY <2>1 DEF Results
  <2>4. PositionOrders'
    <3>1. position # NoNote => position' # NoNote
      BY <2>1
    <3>2. inputs' # {} => inputs' = inputs /\ \A m : HasDetails(m)' = HasDetails(m)
      BY <2>1, <2>2, DetailsKept
    <3>3. QED
      BY <2>1, <2>2, <3>1, <3>2 DEF NoteOf
  <2>5. ASSUME ~NoteShared, ~HasDetails(n) PROVE PositionLive'
    <3>1. position' = position
      BY <2>1, <2>5
    <3>2. CASE step' = "tick"
      <4>1. position \notin consumed
        BY <2>1, <2>2, <2>5, <3>2
      <4>2. QED
        BY <2>1, <2>2, <2>5, <3>1, <3>2, <4>1 DEF NoteOf
    <3>3. CASE step' # "tick"
      <4>1. \A m : HasDetails(m)' = HasDetails(m)
        BY <2>1, <2>2, <3>3, DetailsKept
      <4>2. QED
        BY <2>1, <2>2, <2>5, <3>1, <3>3, <4>1 DEF NoteOf
    <3>4. QED
      BY <3>2, <3>3
  <2>6. ASSUME ~NoteShared, HasDetails(n) PROVE PositionLive'
    <3>1. n = position /\ results[n].output \in PositionNotes \ consumed
      BY <2>1, <2>6
    <3>2. position' = results[n].output /\ position' \notin consumed
      BY <2>1, <2>6, <3>1
    <3>3. PICK p \in batch : NoteOf(p) = n /\ call[p].source = "position"
      BY <2>6 DEF HasDetails, DetailsOf
    <3>4. p \in closed_orders
      BY <2>1, <3>3
    <3>5. \A o \in Orders : NoteOf(o) = position => o = p
      BY <2>6, <3>1, <3>3 DEF NoteShared, OrdersOf
    <3>6. \A o \in Orders : call[o].source = "position" => o \in closed_orders
      BY <2>6, <3>4, <3>5
    <3>7. CASE step' = "tick"
      BY <2>1, <2>2, <3>2, <3>6, <3>7 DEF NoteOf
    <3>8. CASE step' # "tick"
      <4>1. \A m : HasDetails(m)' = HasDetails(m)
        BY <2>1, <2>2, <3>8, DetailsKept
      <4>2. \A m \in DOMAIN results' : ~HasDetails(m)'
        BY <2>1, <2>2, <2>6, <3>1, <3>8, <4>1
      <4>3. step' = "report"
        BY <2>1, <2>2, <3>8
      <4>4. QED
        BY <2>1, <3>2, <3>6, <4>2, <4>3 DEF NoteOf
    <3>9. QED
      BY <3>7, <3>8
  <2>7. QED
    BY <1>sh, <2>4, <2>5, <2>6
<1>11. ASSUME PrelimBroadcast \/ UNCHANGED vars PROVE PositionInv'
  <2>1. UNCHANGED <<call, closed_orders, position, engine, consumed>>
    BY <1>11 DEF PrelimBroadcast, vars
  <2>2. \A m : HasDetails(m)' = HasDetails(m)
    BY <2>1, DetailsKept
  <2>3. \A os : NotesOf(os)' = NotesOf(os)
    BY <2>1, DetailsKept
  <2>4. QED
    BY <1>sh, <2>1, <2>2, <2>3 DEF NoteOf
<1>12. ~SyncAfterTxFails
  BY DEF SyncAfterTxFails
<1>13. QED
  BY <1>1, <1>2, <1>3, <1>4, <1>5, <1>6, <1>7, <1>8, <1>9, <1>10, <1>11, <1>12
  DEF Next, AddOrders, Engine

\* Between two cycles the server hands out a live note for a position, whatever else
\* fails, unless a sync fails after a transaction or two orders named one note
\* (TradingEngine::start, which replaces the note only after the sync; AddPosition,
\* add_position_order and pool_execution's respawned note).
THEOREM PositionStaysLive == Spec => [](("sync" \notin Faults) => PositionNoteLive)
<1> DEFINE PInv == LInv /\ (("sync" \notin Faults) => PositionInv)
<1>1. Init => PInv
  BY InvInit, TakenInit, PositionInit DEF LInv
<1>2. PInv /\ [Next]_vars => PInv'
  BY InvNext, TakenNext, PositionNext DEF LInv
<1>3. PInv => (("sync" \notin Faults) => PositionNoteLive)
  BY DEF PositionInv, PositionLive, PositionNoteLive
<1>4. QED
  BY <1>1, <1>2, <1>3, PTL DEF Spec
-----------------------------------------------------------------------------
(* What an order that shares its note with no other one is told in the end *)

\* No other order names the note of o.
Sole(o) == call[o].pc # "idle" /\ OrdersOf(NoteOf(o)) = {o}

\* Nothing is said of an order before it exists.  A final status is said of a closed
\* order, never of one in a batch that is not executed yet, and agrees with what is
\* still to be said of it: the result to be reported and the preliminary status.  The
\* preliminary statuses are gone before results of a transaction are reported.
FinalInv ==
  /\ \A o \in Orders : call[o].pc = "idle" => status[o] = "none"
  /\ \A o \in DOMAIN prelim : step \notin {"execute", "abort"} => prelim[o] = "Failed"
  /\ \A o \in Orders : Sole(o) =>
       /\ status[o] \in Final => o \in closed_orders
       /\ step \in {"matching", "pluck", "prepare"} /\ o \in batch =>
            status[o] \notin Final /\ o \notin DOMAIN prelim
       /\ step \in {"execute", "abort"} /\ o \in DOMAIN prelim => status[o] \notin Final
       /\ status[o] \in Final /\ o \in DOMAIN prelim => status[o] = prelim[o]
       /\ step \in {"execute", "report"} /\ NoteOf(o) \in DOMAIN results =>
            /\ status[o] \in Final => status[o] = StatusOf(results[NoteOf(o)].result)
            /\ o \in DOMAIN prelim => prelim[o] = PreliminaryStatus(results[NoteOf(o)].result)
       /\ step = "execute" /\ o \in DOMAIN prelim => NoteOf(o) \in DOMAIN results

\* The result for a position's order is that of its own trade.
TradeInv ==
  step \in {"execute", "report"} =>
    \A o \in Orders :
      Sole(o) /\ call[o].source = "position" /\ NoteOf(o) \in DOMAIN results
      => o \in results[NoteOf(o)].trade

FInv == LInv /\ FinalInv /\ TradeInv

\* Nothing has been said when the server starts.
LEMMA FinalInit == Init => FinalInv /\ TradeInv
  BY DEF Init, FinalInv, TradeInv, Sole, Final, Empty

\* A note that is named once was not named by more orders before.
LEMMA SoleBefore ==
  ASSUME FInv, NEW q \in Orders, NEW n \in Notes, NEW s \in Sources, StartOrder(q, n, s),
         NEW o \in Orders \ {q}, Sole(o)'
  PROVE  Sole(o)
<1>1. /\ call[q].pc = "idle" /\ call[q].note = NoNote
      /\ call'[o] = call[o] /\ call[o].note # NoNote
      /\ \A p \in Orders \ {q} : call'[p] = call[p]
  BY DEF FInv, LInv, Inv, TypeOK, CallsInv, StartOrder, Sole
<1>2. QED
  BY <1>1 DEF Sole, OrdersOf, NoteOf

\* Every step of every task keeps FinalInv and TradeInv.
LEMMA FinalNext == FInv /\ LInv' /\ [Next]_vars => FinalInv' /\ TradeInv'
<1> SUFFICES ASSUME FInv, LInv', [Next]_vars PROVE FinalInv' /\ TradeInv'
  OBVIOUS
<1> USE DEF FInv, LInv, Inv, TypeOK, TakenInv, FinalInv, TradeInv, Sole, OrdersOf, NoteOf,
    Final, amm, engine
<1>1. ASSUME NEW n \in PositionNotes, AddPosition(n) PROVE FinalInv' /\ TradeInv'
  BY <1>1 DEF AddPosition
<1>2. ASSUME NEW q \in Orders, NEW n \in Notes, NEW s \in Sources, StartOrder(q, n, s)
      PROVE  FinalInv' /\ TradeInv'
  <2> HIDE DEF Sole, OrdersOf
  <2>1. /\ UNCHANGED <<open_orders, closed_orders, step, batch, results, prelim, status>>
        /\ call' = [call EXCEPT ![q] = [pc |-> "note_ids", note |-> n, source |-> s]]
        /\ call[q].pc = "idle"
    BY <1>2 DEF StartOrder
  <2>2. status[q] = "none" /\ q \notin closed_orders /\ q \notin batch /\ q \notin DOMAIN prelim
    BY <2>1 DEF CallsInv
  <2>3. \A o \in Orders \ {q} : call'[o] = call[o] /\ (Sole(o)' => Sole(o))
    BY <1>2, <2>1, SoleBefore
  <2>4. Sole(q)' /\ step \in {"execute", "report"} => NoteOf(q)' \notin DOMAIN results
    <3>1. SUFFICES ASSUME Sole(q)', n \in NotesOf(batch) PROVE FALSE
      BY <2>1
    <3>2. PICK p \in batch : call[p].note = n
      BY <3>1 DEF NotesOf
    <3>3. QED
      BY <2>1, <2>2, <3>1, <3>2 DEF Sole, OrdersOf
  <2>5. FinalInv'
    BY <2>1, <2>2, <2>3, <2>4
  <2>6. TradeInv'
    BY <2>1, <2>3, <2>4
  <2>7. QED
    BY <2>5, <2>6
<1>3. ASSUME NEW q \in Orders, InsertNoteId(q) \/ InsertNote(q) \/ InsertOpenOrder(q) \/ Announce(q)
      PROVE  FinalInv' /\ TradeInv'
  <2>1. \A o \in Orders : /\ call'[o].note = call[o].note /\ call'[o].source = call[o].source
                          /\ (call'[o].pc # "idle" /\ call[o].pc # "idle") \/ call'[o] = call[o]
    BY <1>3 DEF InsertNoteId, InsertNote, InsertOpenOrder, Announce, Goto, Calls
  <2>2. \A o \in Orders : Sole(o)' <=> Sole(o)
    BY <2>1
  <2>3. UNCHANGED <<closed_orders, step, batch, results, prelim>>
    BY <1>3 DEF InsertNoteId, InsertNote, InsertOpenOrder, Announce
  <2>4. \A o \in Orders : \/ status'[o] = status[o]
                          \/ status'[o] = "Pending" /\ call'[o].pc # "idle"
    <3>1. CASE Announce(q)
      <4>1. /\ status' = [status EXCEPT ![q] = "Pending"]
            /\ call' = [call EXCEPT ![q].pc = "done"]
        BY <3>1 DEF Announce, Goto
      <4>2. status'[q] = "Pending" /\ \A o \in Orders \ {q} : status'[o] = status[o]
        BY <4>1
      <4>3. call'[q].pc = "done"
        BY <4>1 DEF Calls
      <4>4. QED
        BY <4>2, <4>3
    <3>2. CASE ~Announce(q)
      BY <1>3, <3>2 DEF InsertNoteId, InsertNote, InsertOpenOrder
    <3>3. QED
      BY <3>1, <3>2
  <2> HIDE DEF Sole, OrdersOf
  <2>5. FinalInv'
    BY <2>1, <2>2, <2>3, <2>4
  <2>6. TradeInv'
    BY <2>1, <2>2, <2>3
  <2>7. QED
    BY <2>5, <2>6
<1>4. ASSUME FlushSnapshot PROVE FinalInv' /\ TradeInv'
  BY <1>4 DEF FlushSnapshot
<1>5. ASSUME FlushClear PROVE FinalInv' /\ TradeInv'
  BY <1>5 DEF FlushClear
<1>6. ASSUME BroadcastMatching PROVE FinalInv' /\ TradeInv'
  BY <1>6 DEF BroadcastMatching, CallsInv
<1>7. ASSUME PluckNotes PROVE FinalInv' /\ TradeInv'
  BY <1>7 DEF PluckNotes, EndCycle
<1>8. ASSUME PrepareFails \/ PreparePanics PROVE FinalInv' /\ TradeInv'
  BY <1>8 DEF PrepareFails, PreparePanics, EndCycle, Empty
<1>9. ASSUME ExecuteTx \/ ExecuteTxFails \/ SyncAfterTxFails PROVE FinalInv' /\ TradeInv'
  BY <1>9 DEF ExecuteTx, ExecuteTxFails, SyncAfterTxFails, EndCycle, Yielded, Empty
<1>10. ASSUME NEW n \in Notes, NEW q \in Orders, Report(n, q) PROVE FinalInv' /\ TradeInv'
  <2>1. /\ step = "report" /\ n \in DOMAIN results /\ q \in note_ids /\ NoteOf(q) = n
        /\ status' = [status EXCEPT ![q] = StatusOf(results[n].result)]
        /\ UNCHANGED <<call, closed_orders, prelim>>
    BY <1>10 DEF Report
  <2>2. \/ step' = "tick"
        \/ /\ results' = Restrict(results, DOMAIN results \ {n}) /\ UNCHANGED <<step, batch>>
    BY <1>10 DEF Report, EndCycle
  <2>3. call[q].pc # "idle"
    BY <2>1 DEF note_ids
  <2>4. ASSUME Sole(q) PROVE q \in batch
    <3>1. PICK p \in batch : NoteOf(p) = n
      BY <2>1 DEF NotesOf
    <3>2. QED
      BY <2>1, <2>4, <3>1
  <2>5. \A m \in DOMAIN results \ {n} : Restrict(results, DOMAIN results \ {n})[m] = results[m]
    BY DEF Restrict
  <2>6. DOMAIN Restrict(results, DOMAIN results \ {n}) = DOMAIN results \ {n}
    BY DEF Restrict
  <2> HIDE DEF Sole, OrdersOf
  <2>7. \A o \in Orders : Sole(o)' <=> Sole(o)
    BY <2>1 DEF Sole, OrdersOf
  <2>8. status'[q] \in Final /\ \A o \in Orders \ {q} : status'[o] = status[o]
    BY <2>1 DEF StatusOf
  <2>9. ASSUME Sole(q), q \in DOMAIN prelim PROVE status'[q] = prelim[q]
    BY <2>1, <2>9 DEF StatusOf, PreliminaryStatus
  <2>10. \A o \in Orders : call'[o].pc = "idle" => status'[o] = "none"
    BY <2>1, <2>3, <2>8
  <2>11. step' \in {"tick", "report"}
    BY <2>1, <2>2
  <2>12. step' = "report" => \A m \in DOMAIN results' : m # n /\ m \in DOMAIN results /\ results'[m] = results[m]
    BY <2>2, <2>5, <2>6
  <2>13. \A o \in Orders : Sole(o) /\ status'[o] \in Final => o \in closed_orders
    BY <2>1, <2>4, <2>8
  <2>14. \A o \in Orders : Sole(o) /\ status'[o] \in Final /\ o \in DOMAIN prelim => status'[o] = prelim[o]
    BY <2>8, <2>9
  <2>15. \A o \in Orders : /\ Sole(o) /\ step' = "report" /\ NoteOf(o) \in DOMAIN results'
                            => o # q /\ NoteOf(o) \in DOMAIN results /\ results'[NoteOf(o)] = results[NoteOf(o)]
    BY <2>1, <2>12
  <2>16. FinalInv'
    BY <2>1, <2>7, <2>8, <2>10, <2>11, <2>13, <2>14, <2>15
  <2>17. TradeInv'
    BY <2>1, <2>7, <2>11, <2>15
  <2>18. QED
    BY <2>16, <2>17
<1>11. ASSUME PrelimBroadcast PROVE FinalInv' /\ TradeInv'
  BY <1>11 DEF PrelimBroadcast, Empty, StatusOf, PreliminaryStatus
<1>12. ASSUME NEW outcome \in [plucked -> {"Success", "Failed", "Refused"}],
              NEW last \in [NotesOf(plucked) -> plucked],
              NEW trade \in [NotesOf(plucked) -> {{}} \cup {{o} : o \in Orders}],
              NEW respawned \in FreshNotes \cup {NoNote},
              Prepare(outcome, last, trade, respawned)
       PROVE  FinalInv' /\ TradeInv'
  <2>1. /\ step = "prepare" /\ step' \in {"report", "execute", "abort"}
        /\ inputs' = {o \in plucked : outcome[o] # "Refused"}
        /\ step' = "report" <=> inputs' = {}
        /\ UNCHANGED <<call, closed_orders, batch, plucked, status>>
        /\ results' = [n \in NotesOf(plucked) |-> ResultOf(n, outcome[last[n]], respawned, trade[n])]
        /\ prelim' = [o \in Range(last) |-> PreliminaryStatus(results'[NoteOf(o)].result)]
        /\ \A n \in NotesOf(plucked) : last[n] \in plucked /\ NoteOf(last[n]) = n
    BY <1>12 DEF Prepare
  <2>2. \A n \in NotesOf(plucked) :
          IF last[n] \in DetailsOf(n) THEN trade[n] = {last[n]}
          ELSE IF HasDetails(n) THEN \E o \in DetailsOf(n) : trade[n] = {o}
          ELSE trade[n] = {}
    BY <1>12 DEF Prepare
  <2>3. \A n \in NotesOf(plucked) :
          /\ results'[n].trade = trade[n]
          /\ results'[n].result = "Success" => outcome[last[n]] = "Success"
    BY <2>1 DEF ResultOf
  <2>4. \A o \in DOMAIN prelim' :
          /\ o \in plucked /\ NoteOf(o) \in DOMAIN results'
          /\ prelim'[o] = PreliminaryStatus(results'[NoteOf(o)].result)
    <3>1. SUFFICES ASSUME NEW o \in DOMAIN prelim'
                   PROVE  /\ o \in plucked /\ NoteOf(o) \in DOMAIN results'
                          /\ prelim'[o] = PreliminaryStatus(results'[NoteOf(o)].result)
      OBVIOUS
    <3>2. PICK n \in NotesOf(plucked) : o = last[n]
      BY <2>1, <3>1 DEF Range
    <3> HIDE DEF NoteOf
    <3>3. o \in plucked /\ NoteOf(o) = n
      BY <2>1, <3>2
    <3>4. DOMAIN results' = NotesOf(plucked)
      BY <2>1
    <3>5. o \in Range(last)
      BY <2>1, <3>1
    <3>6. QED
      BY <2>1, <3>2, <3>3, <3>4, <3>5
  <2>5. ASSUME step' = "report" PROVE \A n \in NotesOf(plucked) : results'[n].result # "Success"
    BY <2>1, <2>3, <2>5
  <2>6. ASSUME NEW o \in Orders, Sole(o), NoteOf(o) \in DOMAIN results'
        PROVE  o \in batch /\ last[NoteOf(o)] = o
    BY <2>1, <2>6
  <2> HIDE DEF Sole, OrdersOf
  <2>7. \A o \in Orders : Sole(o)' <=> Sole(o)
    BY <2>1 DEF Sole, OrdersOf
  <2>8. \A o \in DOMAIN prelim' : step' \notin {"execute", "abort"} => prelim'[o] = "Failed"
    BY <2>1, <2>4, <2>5 DEF PreliminaryStatus
  <2>9. FinalInv'
    BY <2>1, <2>4, <2>6, <2>7, <2>8
  <2>10. ASSUME NEW o \in Orders, Sole(o), call[o].source = "position", NoteOf(o) \in DOMAIN results'
         PROVE  o \in results'[NoteOf(o)].trade
    <3>1. o \in DetailsOf(NoteOf(o))
      BY <2>6, <2>10 DEF DetailsOf
    <3>2. QED
      BY <2>1, <2>2, <2>3, <2>6, <2>10, <3>1
  <2>11. TradeInv'
    BY <2>1, <2>7, <2>10
  <2>12. QED
    BY <2>9, <2>11
<1>13. CASE UNCHANGED vars
  BY <1>13 DEF vars
<1>14. QED
  BY <1>1, <1>2, <1>3, <1>4, <1>5, <1>6, <1>7, <1>8, <1>9, <1>10, <1>11, <1>12, <1>13
     DEF Next, AddOrders, Engine

\* FInv is inductive.
LEMMA FInvInit == Init => FInv
  BY InvInit, TakenInit, FinalInit DEF FInv, LInv

\* Every step keeps what final statuses and trades are tied to.
LEMMA FInvNext == FInv /\ [Next]_vars => FInv'
<1> SUFFICES ASSUME FInv, [Next]_vars PROVE FInv'
  OBVIOUS
<1>1. LInv'
  BY InvNext, TakenNext DEF FInv, LInv
<1>2. QED
  BY <1>1, FinalNext DEF FInv

\* A step that says something final of a sole order again says the same: the matching
\* and preliminary broadcasts come before the final one, and the results of a note agree.
LEMMA FinalKept ==
  ASSUME FInv, [Next]_vars, NEW o \in Orders,
         status[o] \in Final, OrdersOf(NoteOf(o)) = {o}, status'[o] # status[o]
  PROVE  status'[o] = "Pending"
<1> USE DEF FInv, LInv, Inv, TypeOK
<1>1. Sole(o)
  BY DEF FinalInv, Final, Sole
<1> HIDE DEF Sole
<1>2. ASSUME NEW n \in PositionNotes, AddPosition(n) PROVE FALSE
  BY <1>2 DEF AddPosition
<1>3. ASSUME NEW q \in Orders, NEW n \in Notes, NEW s \in Sources, StartOrder(q, n, s) PROVE FALSE
  BY <1>3 DEF StartOrder
<1>4. ASSUME NEW q \in Orders, InsertNoteId(q) \/ InsertNote(q) \/ InsertOpenOrder(q) PROVE FALSE
  BY <1>4 DEF InsertNoteId, InsertNote, InsertOpenOrder
<1>5. ASSUME NEW q \in Orders, Announce(q) PROVE status'[o] = "Pending"
  BY <1>5 DEF Announce
<1>6. ASSUME FlushSnapshot \/ FlushClear \/ PluckNotes PROVE FALSE
  BY <1>6 DEF FlushSnapshot, FlushClear, PluckNotes
<1>7. ASSUME BroadcastMatching PROVE FALSE
  <2>1. o \in batch
    BY <1>7 DEF BroadcastMatching
  <2>2. QED
    BY <1>1, <1>7, <2>1 DEF BroadcastMatching, FinalInv
<1>8. ASSUME NEW outcome \in [plucked -> {"Success", "Failed", "Refused"}],
             NEW last \in [NotesOf(plucked) -> plucked],
             NEW trade \in [NotesOf(plucked) -> {{}} \cup {{p} : p \in Orders}],
             NEW respawned \in FreshNotes \cup {NoNote},
             Prepare(outcome, last, trade, respawned)
      PROVE  FALSE
  BY <1>8 DEF Prepare
<1>9. ASSUME \/ PrepareFails \/ PreparePanics
             \/ ExecuteTx \/ ExecuteTxFails \/ SyncAfterTxFails
      PROVE  FALSE
  BY <1>9 DEF PrepareFails, PreparePanics, ExecuteTx, ExecuteTxFails, SyncAfterTxFails
<1>10. ASSUME NEW n \in Notes, NEW q \in Orders, Report(n, q) PROVE FALSE
  <2>1. /\ step = "report" /\ n \in DOMAIN results /\ NoteOf(q) = n
        /\ status' = [status EXCEPT ![q] = StatusOf(results[n].result)]
    BY <1>10 DEF Report
  <2>2. q = o
    BY <2>1
  <2>3. status'[o] = StatusOf(results[NoteOf(o)].result)
    BY <2>1, <2>2
  <2>4. status[o] = StatusOf(results[NoteOf(o)].result)
    BY <1>1, <2>1, <2>2 DEF FinalInv
  <2>5. QED
    BY <2>3, <2>4
<1>11. ASSUME PrelimBroadcast PROVE FALSE
  <2>1. o \in DOMAIN prelim /\ status'[o] = prelim[o]
    BY <1>11 DEF PrelimBroadcast
  <2>2. QED
    BY <1>1, <2>1 DEF FinalInv
<1>12. CASE UNCHANGED vars
  BY <1>12 DEF vars
<1>13. QED
  BY <1>2, <1>3, <1>4, <1>5, <1>6, <1>7, <1>8, <1>9, <1>10, <1>11, <1>12
     DEF Next, AddOrders, Engine

\* What the client of an order saw last as its outcome is not taken back by a broadcast
\* of a later cycle or of the preliminary task, for an order whose note no other names.
THEOREM FinalIsFinal == Spec => FinalStaysFinal
<1>1. FInv /\ [Next]_vars =>
        [\A o \in Orders :
           status[o] \in Final /\ OrdersOf(NoteOf(o)) = {o} /\ status'[o] # status[o]
           => status'[o] = "Pending"]_vars
  BY FinalKept
<1>2. QED
  BY <1>1, FInvInit, FInvNext, PTL DEF Spec, FinalStaysFinal

\* Only the report of a result says Executed, and the entry of additional_details it was
\* computed with is that of the order it is reported to.
LEMMA OwnTradeStep == FInv /\ [Next]_vars => [OwnTrade]_vars
<1> SUFFICES ASSUME FInv, [Next]_vars, NEW o \in Orders,
                    call[o].source = "position", OrdersOf(NoteOf(o)) = {o},
                    status'[o] = "Executed", status[o] # "Executed"
             PROVE  o \in results[NoteOf(o)].trade
  BY DEF OwnTrade
<1> USE DEF FInv, LInv, Inv, TypeOK
<1>1. ASSUME NEW n \in PositionNotes, AddPosition(n) PROVE FALSE
  BY <1>1 DEF AddPosition
<1>2. ASSUME NEW q \in Orders, NEW n \in Notes, NEW s \in Sources, StartOrder(q, n, s) PROVE FALSE
  BY <1>2 DEF StartOrder
<1>3. ASSUME NEW q \in Orders, InsertNoteId(q) \/ InsertNote(q) \/ InsertOpenOrder(q) PROVE FALSE
  BY <1>3 DEF InsertNoteId, InsertNote, InsertOpenOrder
<1>4. ASSUME NEW q \in Orders, Announce(q) PROVE FALSE
  BY <1>4 DEF Announce
<1>5. ASSUME FlushSnapshot \/ FlushClear \/ BroadcastMatching \/ PluckNotes PROVE FALSE
  BY <1>5 DEF FlushSnapshot, FlushClear, BroadcastMatching, PluckNotes
<1>6. ASSUME NEW outcome \in [plucked -> {"Success", "Failed", "Refused"}],
             NEW last \in [NotesOf(plucked) -> plucked],
             NEW trade \in [NotesOf(plucked) -> {{}} \cup {{p} : p \in Orders}],
             NEW respawned \in FreshNotes \cup {NoNote},
             Prepare(outcome, last, trade, respawned)
      PROVE  FALSE
  BY <1>6 DEF Prepare
<1>7. ASSUME \/ PrepareFails \/ PreparePanics
             \/ ExecuteTx \/ ExecuteTxFails \/ SyncAfterTxFails
      PROVE  FALSE
  BY <1>7 DEF PrepareFails, PreparePanics, ExecuteTx, ExecuteTxFails, SyncAfterTxFails
<1>8. ASSUME NEW n \in Notes, NEW q \in Orders, Report(n, q)
      PROVE  o \in results[NoteOf(o)].trade
  <2>1. /\ step = "report" /\ n \in DOMAIN results /\ NoteOf(q) = n /\ q \in note_ids
        /\ status' = [status EXCEPT ![q] = StatusOf(results[n].result)]
    BY <1>8 DEF Report
  <2>2. q = o
    BY <2>1
  <2>3. Sole(o)
    BY <2>1, <2>2 DEF Sole, note_ids
  <2>4. QED
    BY <2>1, <2>2, <2>3 DEF TradeInv
<1>9. ASSUME PrelimBroadcast PROVE FALSE
  BY <1>9 DEF PrelimBroadcast, TakenInv
<1>10. CASE UNCHANGED vars
  BY <1>10 DEF vars
<1>11. QED
  BY <1>1, <1>2, <1>3, <1>4, <1>5, <1>6, <1>7, <1>8, <1>9, <1>10
     DEF Next, AddOrders, Engine

\* The owner of a position is told Executed for the trade asked for, not for another
\* order's on the same position, when no other order names the note.
THEOREM ExecutedIsOwnTrade == Spec => ExecutedOwnTrade
  BY OwnTradeStep, FInvInit, FInvNext, PTL DEF Spec, ExecutedOwnTrade
=============================================================================
