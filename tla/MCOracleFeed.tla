---------------------------- MODULE MCOracleFeed ----------------------------
(* Instances of OracleFeed for TLC. *)
EXTENDS OracleFeed, TLC

CONSTANTS f1, f2

\* Two pools, with oracle ids of their own, and with ids no canary names.
TwoPools  == <<f1, f2>>
Named     == (f1 :> "BTC") @@ (f2 :> "ETH")
Hex       == (f1 :> "e62df6c8") @@ (f2 :> "ff61491a")
MinusOne  == -1
=============================================================================
