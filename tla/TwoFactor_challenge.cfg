\* One challenge presented twice.
SPECIFICATION Spec
CONSTANTS
    Null = Null
    Requests = {r1, r2}
    Codes = {c1}
    MaxEnrolls = 1
    MaxChallenges = 1
    MaxRestarts = 0
    FixedKey = TRUE
    Faulty = FALSE
SYMMETRY Symmetry
PROPERTY
    ChallengeSingleUse
