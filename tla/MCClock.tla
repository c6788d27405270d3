------------------------------- MODULE MCClock -------------------------------
(* Instance of Clock for TLC. *)
EXTENDS Clock

\* Codes of nearby steps differ, those of steps 1000 apart are equal.
MCBin(step) == (step % 1000) * 1000003
=============================================================================
