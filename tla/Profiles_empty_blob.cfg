\* Uploads may be empty.
SPECIFICATION Spec
CONSTANTS
    Null = Null
    Requests = {r1}
    Users = {u1}
    Aliases = {a1}
    Bodies = {0, 1}
    BodyLen <- MCBodyLen
    ExpectedVersions = {0, 1}
    BlobMaxBytes = 2
    MaxAliasesFree = 1
    PoolSize = 1
    MaxRowId = 1
SYMMETRY Symmetry
PROPERTY
    NoBlobMeansNoUpload
