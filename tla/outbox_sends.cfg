CONSTANTS
    Requests = {r1}
    Files = {f1, f2, f3}
    NoFile = NoFile
    NoRequest = NoRequest
    MaxStored = 2
    TaskLimit = 1
    MaxFaults = 2
    MaxStarts = 2
SPECIFICATION FairSpec
INVARIANTS PostedOnce OriginalsKept DiskAccounted
PROPERTIES Resolves Freed
CHECK_DEADLOCK FALSE
