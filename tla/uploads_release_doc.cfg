SPECIFICATION Spec
CONSTANTS
    a = a
    b = b
    NoOwner = NoOwner
    NoDescriptor = NoDescriptor
    NoRequest = NoRequest
    NoId = NoId
    SizeOf <- OneByteEach
    Ids = {u1}
    Owners = {d1}
    Descriptors = {a}
    Requests = {}
    Streams = {s1}
    MaxReservations = 1
    MaxBytes = 1
    MaxUploads = 1
    CleanupBatch = 1
    Lifetime = 0
    MaxNow = 0
    MaxEpoch = 1
    MaxToken = 2
    FaultKinds = {"db"}
    MaxFaults = 2
INVARIANTS ReleaseHasSlot
