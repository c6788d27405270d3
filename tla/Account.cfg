\* Two spellings of one address and a second account; sessions that run out under a request.
SPECIFICATION Spec
CONSTANTS
    Null = Null
    Requests = {r1, r2}
    Addresses = {"Ann", "ann", "bob", "nobody"}
    Implausible = {"nobody"}
    to_lowercase <- MCLower
    Passwords = {p1, p2, short}
    TooShort = {short}
    SESSION_TTL_SECS = 2
    MaxTime = 2
    MaxSessions = 2
SYMMETRY Symmetry
INVARIANTS
    TypeOK
    SessionsProvePassword
    ReplyShowsUpdate
PROPERTIES
    RefusedAfterUpdate
