------------------------------ MODULE MCStore ------------------------------
(* Store for TLC: messages are interchangeable. *)
EXTENDS Store, TLC

Symmetry == Permutations(Msgs)
=============================================================================
