----------------------------- MODULE MCProfiles -----------------------------
(* Instances of Profiles for TLC. *)
EXTENDS Profiles, TLC

\* Bodies are named by their length: empty, two of legal lengths, one too long.
MCBodyLen == [b \in Bodies |-> b]

\* Slots, accounts and aliases are interchangeable.
Symmetry == Permutations(Requests) \cup Permutations(Users) \cup Permutations(Aliases)
=============================================================================
