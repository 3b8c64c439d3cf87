-------------------------- MODULE MCGuardedFaucet --------------------------
(* Instances of GuardedFaucet for TLC. *)
EXTENDS GuardedFaucet

CONSTANTS f1, f2

\* Two configured pools.
TwoPools == <<f1, f2>>
=============================================================================
