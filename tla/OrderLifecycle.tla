--------------------------- MODULE OrderLifecycle ---------------------------
(***************************************************************************)
(* What the server promises about an order, whatever maps, tasks and       *)
(* threads it is built from: an accepted order opens once, is taken from   *)
(* the open orders at most once and never comes back; only notes of taken  *)
(* orders are spent, together and each once; and what a client is told     *)
(* never runs ahead of what happened to its order.  OrderFlow implements   *)
(* this specification.                                                     *)
(*                                                                         *)
(* Taking the open orders empties them: an order that opens while they are *)
(* taken may be dropped.  The code does that (flush_open_orders), so the   *)
(* promise is no stronger.                                                 *)
(***************************************************************************)
EXTENDS Integers

CONSTANTS Orders, Notes, NoNote

VARIABLES
  phase,  \* how far each order has come
  note,   \* the note each order is about
  spent,  \* the notes spent on the chain
  told    \* the status each order's client was told last

lifecycleVars == <<phase, note, spent, told>>

In(p) == {o \in Orders : phase[o] = p}

Init ==
  /\ phase = [o \in Orders |-> "new"]
  /\ note = [o \in Orders |-> NoNote]
  /\ spent = {}
  /\ told = [o \in Orders |-> "none"]

Accept(o, n) ==
  /\ phase[o] = "new"
  /\ phase' = [phase EXCEPT ![o] = "accepted"]
  /\ note' = [note EXCEPT ![o] = n]
  /\ UNCHANGED <<spent, told>>

Open(o) ==
  /\ phase[o] = "accepted"
  /\ phase' = [phase EXCEPT ![o] = "open"]
  /\ UNCHANGED <<note, spent, told>>

\* The orders of os are taken, other open ones dropped.
Take(os) ==
  /\ In("open") # {} /\ os \subseteq In("open")
  /\ phase' = [o \in Orders |-> IF o \in os THEN "taken"
                                ELSE IF phase[o] = "open" THEN "dropped" ELSE phase[o]]
  /\ UNCHANGED <<note, spent, told>>

\* One transaction: distinct notes that nobody has spent.
Spend(os) ==
  /\ os # {} /\ os \subseteq In("taken")
  /\ \A o, p \in os : note[o] = note[p] => o = p
  /\ \A o \in os : note[o] \notin spent
  /\ spent' = spent \cup {note[o] : o \in os}
  /\ UNCHANGED <<phase, note, told>>

\* What a client may be told.  An outcome is that of the note: it can reach an
\* order that is not taken itself, but shares the note of one that is.
Truthful(o, s) ==
  \/ s = "Pending" /\ phase[o] \in {"open", "taken", "dropped"}
  \/ s \in {"Matching", "Matched"} /\ phase[o] = "taken"
  \/ s = "Failed" /\ \E p \in In("taken") : note[p] = note[o]
  \/ s = "Executed" /\ (\E p \in In("taken") : note[p] = note[o]) /\ note[o] \in spent

Tell ==
  /\ told' \in [Orders -> {"none", "Pending", "Matching", "Matched", "Executed", "Failed"}]
  /\ \A o \in Orders : told'[o] # told[o] => Truthful(o, told'[o])
  /\ UNCHANGED <<phase, note, spent>>

Next ==
  \/ \E o \in Orders, n \in Notes : Accept(o, n)
  \/ \E o \in Orders : Open(o)
  \/ \E os \in SUBSET Orders : Take(os) \/ Spend(os)
  \/ Tell

Spec == Init /\ [][Next]_lifecycleVars
=============================================================================
