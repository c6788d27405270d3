\* The documented quota, with two concurrent requests.
SPECIFICATION Spec
CONSTANTS
    Null = Null
    Requests = {r1, r2}
    Users = {u1}
    Aliases = {a1, a2}
    Bodies = {1}
    BodyLen <- MCBodyLen
    ExpectedVersions = {0}
    BlobMaxBytes = 2
    MaxAliasesFree = 1
    PoolSize = 2
    MaxRowId = 2
SYMMETRY Symmetry
INVARIANT
    QuotaRespected
