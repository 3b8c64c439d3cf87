------------------------- MODULE MCWebSocketEvents -------------------------
(* Instances of WebSocketEvents for TLC. *)
EXTENDS WebSocketEvents
=============================================================================
