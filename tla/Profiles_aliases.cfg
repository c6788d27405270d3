\* Two requests of two users over three aliases, a quota of one: no alias is touched for another.
SPECIFICATION Spec
CONSTANTS
    Null = Null
    Requests = {r1, r2}
    Users = {u1, u2}
    Aliases = {a1, a2, a3}
    Bodies = {1}
    BodyLen <- MCBodyLen
    ExpectedVersions = {0}
    BlobMaxBytes = 2
    MaxAliasesFree = 1
    PoolSize = 2
    MaxRowId = 4
SYMMETRY Symmetry
INVARIANT
    QuotaOvershootBounded
PROPERTY
    RequestsAreAtomic
