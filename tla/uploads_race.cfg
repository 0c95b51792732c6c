SPECIFICATION FairSpec
CONSTANTS
    a = a
    b = b
    NoOwner = NoOwner
    NoDescriptor = NoDescriptor
    NoRequest = NoRequest
    NoId = NoId
    SizeOf <- OneByteEach
    Ids = {u1, u2}
    Owners = {d1}
    Descriptors = {a, b}
    Requests = {r1}
    Streams = {s1, s2}
    MaxReservations = 2
    MaxBytes = 1
    MaxUploads = 2
    CleanupBatch = 1
    Lifetime = 0
    MaxNow = 1
    MaxEpoch = 2
    MaxToken = 2
    FaultKinds = {"db", "io", "crash"}
    MaxFaults = 1
INVARIANTS DiskWithinQuota ReadyHasFile OneWriter
PROPERTIES CompletedStays Reclaimed
