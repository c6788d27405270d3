------------------------------- MODULE TotpCode -------------------------------
(***************************************************************************)
(* The 6-digit codes of one seed (src/src/auth/totp.rs).  HMAC-SHA1 is     *)
(* external: Bin(step) stands for the 31 bits that dynamic truncation      *)
(* takes from the tag of a step.  A code that is six digits is the number  *)
(* it shows; every other string is Malformed.                              *)
(***************************************************************************)
EXTENDS Integers

CONSTANTS
    Bin(_),         \* Bin(step): truncated HMAC of the step under the seed
    PERIOD_SECS,
    DRIFT_STEPS,
    Modulus,        \* 10^DIGITS
    Malformed

ASSUME TotpConstants == /\ PERIOD_SECS \in Nat \ {0}
                        /\ DRIFT_STEPS \in Nat
                        /\ Modulus \in Nat \ {0}
                        /\ Malformed \notin Nat

code_at_step(step) == Bin(step) % Modulus

code_at(now_secs) == code_at_step(now_secs \div PERIOD_SECS)

\* (step + delta).max(0)
candidate(step) == IF step < 0 THEN 0 ELSE step

\* Mutant: 0..DRIFT_STEPS.
deltasForward == 0..DRIFT_STEPS

deltas == (-DRIFT_STEPS)..DRIFT_STEPS

verify(now_secs, code) ==
    /\ code # Malformed
    /\ \E delta \in deltas :
          code_at_step(candidate(now_secs \div PERIOD_SECS + delta)) = code
=============================================================================
