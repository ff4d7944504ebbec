----------------------------- MODULE MCSimPin -----------------------------
(* SimPin for TLC: callers are interchangeable. *)
EXTENDS SimPin, TLC

Symmetry == Permutations(Requests)
=============================================================================
