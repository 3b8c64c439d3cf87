------------------------------ MODULE PoolView ------------------------------
(***************************************************************************)
(* The note of a position as the server keeps it beside ZoroPool           *)
(* (AmmState::positions): a client takes it from the server to reclaim the *)
(* position, and the server uses it as the input of the next trade.        *)
(***************************************************************************)
EXTENDS ZoroPool

CONSTANT NoPosition  \* not a note

VARIABLE position  \* AmmState::positions: the note of the one position there is

viewVars == <<poolVars, position>>

\* GET /positions/get_note: what the map holds.
position_get_note == position

ViewInit ==
  /\ PoolInit
  /\ position = NoPosition

\* POST positions/new: the note is stored as it is given.
add_position(n) ==
  /\ position = NoPosition
  /\ n \in notes /\ n.kind = "POSITION"
  /\ position' = n
  /\ UNCHANGED poolVars

\* Fault: what the position already had of the bought asset is forgotten.
RespawnedAssets_replaced(assets, sell, sold, buy, bought) ==
  [f \in Faucets |-> IF f = buy THEN bought ELSE IF f = sell THEN assets[f] - sold ELSE 0]

\* The assets of respawn_position_note: the sold and the bought asset.
RespawnedAssets(assets, sell, sold, buy, bought) ==
  [f \in Faucets |-> IF f = buy THEN assets[f] + bought
                     ELSE IF f = sell THEN assets[f] - sold ELSE 0]

\* A trade on the position.  The new note, under the next serial number,
\* replaces the position's when execute_notes returns Ok; a refused trade puts
\* the old note back, an error leaves it.
\* The tag and the type of the two notes differ, but are no part of a note's id, and
\* RecreatedNote has neither.
TradePosition(price, past_deadline, sell, sold, buy, minimum, serial) ==
  LET c == get_curve_amount_out(pool_states[sell], pool_states[buy], sold, price)
      respawned == RecreatedNote(position, serial,
                     RespawnedAssets(position.assets, sell, sold, buy, c.amount_out))
  IN /\ position \in notes
     /\ ExecutePosition(position, price, past_deadline, sell, sold, buy, minimum, serial)
     /\ \/ /\ engine' = "up" /\ reported'.result = "SwapSuccess"
           /\ pool_states' = AfterSwap(sell, buy, c)
           /\ position' = respawned
        \/ /\ pool_states' = pool_states
           /\ UNCHANGED position
     /\ UNCHANGED created

\* AmmState is new after a restart: positions live in memory only.
RestartServer ==
  /\ Restart
  /\ position' = NoPosition
  /\ UNCHANGED created

ViewNext ==
  \/ /\ UserNext \/ (ServerNext /\ UNCHANGED created)
     /\ UNCHANGED position
  \/ \E n \in notes : add_position(n)
  \/ \E price \in Prices, past_deadline \in BOOLEAN, sell, buy \in Faucets,
        sold, minimum \in Amounts, serial \in Serials :
       TradePosition(price, past_deadline, sell, sold, buy, minimum, serial)
  \/ RestartServer

ViewSpec == ViewInit /\ [][ViewNext]_viewVars

-----------------------------------------------------------------------------
(* Properties *)

\* After a trade on a note of at most the two traded assets the server carries on with the
\* note that POSITION made: respawn_position_note computes in Rust what
\* prepare_assets_for_recreation_of_the_note computes in the script, from the same trade, over
\* any sequence of trades.  (respawn_position_note leaves a third asset out and the script keeps
\* it: with one, the server is left with a note that does not exist.)
RespawnKept ==
  /\ position \in notes \ notes' /\ position' \notin {position, NoPosition}
  /\ \A f \in Faucets : position.assets[f] > 0 => vault'[f] # vault[f]
  /\ vault' # vault
  => position_get_note' \in notes'
RespawnAgrees == [][RespawnKept]_viewVars
=============================================================================
