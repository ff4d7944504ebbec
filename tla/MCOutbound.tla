----------------------------- MODULE MCOutbound -----------------------------
(* Outbound for TLC: callers are interchangeable. *)
EXTENDS Outbound, TLC

Symmetry == Permutations(Callers)
=============================================================================
