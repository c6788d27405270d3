\* Three requests of two users on one alias, two connections.
SPECIFICATION Spec
CONSTANTS
    Null = Null
    Requests = {r1, r2, r3}
    Users = {u1, u2}
    Aliases = {a1}
    Bodies = {0, 1, 3}
    BodyLen <- MCBodyLen
    ExpectedVersions = {0, 1}
    BlobMaxBytes = 2
    MaxAliasesFree = 1
    PoolSize = 2
    MaxRowId = 2
SYMMETRY Symmetry
INVARIANTS
    TypeOK
    ChecksStillHold
    BlobIsLastAcked
PROPERTY
    RequestsAreAtomic
