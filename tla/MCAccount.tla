------------------------------ MODULE MCAccount ------------------------------
(* Instance of Account for TLC. *)
EXTENDS Account, TLC

\* Slots are interchangeable, and so are passwords that are long enough.
Symmetry == Permutations(Requests) \cup Permutations(Passwords \ TooShort)

\* Two spellings of one address.
MCLower(a) == IF a = "Ann" THEN "ann" ELSE a
=============================================================================
