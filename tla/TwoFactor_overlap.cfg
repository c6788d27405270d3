\* Two overlapping requests, two enrollments, a restart under a fresh key, ignored errors.
SPECIFICATION Spec
CONSTANTS
    Null = Null
    Requests = {r1, r2}
    Codes = {c1}
    MaxEnrolls = 2
    MaxChallenges = 1
    MaxRestarts = 1
    FixedKey = FALSE
    Faulty = TRUE
SYMMETRY Symmetry
INVARIANTS
    TypeOK
    CodesBelongToSecret
    PasswordAloneNeedsTotpOff
    TotpFactorWasActivated
    SpentChallengesGone
    RedeemedCodesConsumed
PROPERTY
    EntitledWhenServed
