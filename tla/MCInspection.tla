---------------------------- MODULE MCInspection ----------------------------
(* Inspection for TLC: event types and values are interchangeable.         *)
EXTENDS Inspection

Symmetry == Permutations(EventTypes) \cup Permutations(Values)
=============================================================================
