\* A caller, twice, against an endpoint and its shard.
CONSTANTS
    c1 = c1
    front = front
    shard1 = shard1
    A = A
    B = B
    Junk = Junk
    Nothing = Nothing
    Callers = {c1}
    Endpoints = {front, shard1}
    Default = front
    Collections = {A, B}
    MaxCalls = 2
    MaxEdits = 1
SPECIFICATION FairSpec
INVARIANT TypeOK
INVARIANT DownloadGenuine
INVARIANT UploadApplied
INVARIANT AppliedOnce
INVARIANT TransferInSession
INVARIANT SixPosts
PROPERTY CallsReturn
CHECK_DEADLOCK FALSE
