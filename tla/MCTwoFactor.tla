----------------------------- MODULE MCTwoFactor -----------------------------
(* Instances of TwoFactor for TLC. *)
EXTENDS TwoFactor, TLC

\* Slots and recovery codes are interchangeable.
Symmetry == Permutations(Requests) \cup Permutations(Codes)
=============================================================================
