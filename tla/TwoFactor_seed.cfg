\* Activation overlapping disable and a second enrollment.
SPECIFICATION Spec
CONSTANTS
    Null = Null
    Requests = {r1, r2}
    Codes = {c1}
    MaxEnrolls = 2
    MaxChallenges = 1
    MaxRestarts = 0
    FixedKey = TRUE
    Faulty = FALSE
SYMMETRY Symmetry
INVARIANTS
    ActiveSeedWasProven
