----------------------------- MODULE MCZoroPool -----------------------------
(* Instances of ZoroPool for TLC, with the curve of the default build. *)
EXTENDS ZoroPool, DummyCurve
=============================================================================
