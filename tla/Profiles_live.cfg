\* Three requests, two connections: no circular wait, and locks are released without timeouts.
SPECIFICATION FairSpec
CONSTANTS
    Null = Null
    Requests = {r1, r2, r3}
    Users = {u1}
    Aliases = {a1}
    Bodies = {1}
    BodyLen <- MCBodyLen
    ExpectedVersions = {0}
    BlobMaxBytes = 2
    MaxAliasesFree = 1
    PoolSize = 2
    MaxRowId = 1
INVARIANT
    NoWaitCycle
PROPERTY
    LocksAreReleased
