----------------------------- MODULE MCRateLimit -----------------------------
(* Instances of RateLimit for TLC. *)
EXTENDS RateLimit, TLC

\* Slots and failure ids are interchangeable.
Symmetry == Permutations(Requests) \cup Permutations(Ids)
=============================================================================
