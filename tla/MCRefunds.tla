------------------------------ MODULE MCRefunds ------------------------------
(* Instances of Refunds for TLC: slots and refunds are interchangeable. *)
EXTENDS Refunds, TLC

Symmetry == Permutations(Slots) \cup Permutations(Refunds)
SlotSymmetry == Permutations(Slots)
=============================================================================
