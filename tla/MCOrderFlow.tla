---------------------------- MODULE MCOrderFlow ----------------------------
(* Instances of OrderFlow for TLC. *)
EXTENDS OrderFlow, TLC

\* Orders and notes are interchangeable.
Symmetry == Permutations(Orders) \cup Permutations(Notes \ PositionNotes) \cup Permutations(PositionNotes)
=============================================================================
