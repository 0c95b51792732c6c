SPECIFICATION FairSpec
CONSTANTS
    Keys = {av, im, loc}
    Avatars = {av}
    Locals = {loc}
    Sized = {im}
    Cap = 2
    QueueLimit = 1
    Bytes = 2
    Trim = 1
    Entries = 2
    TrimEntries = 1
    Responses <- EachKind
    NoRequest = NoRequest
    NoResult = NoResult
    NoNet = NoNet
    MaxRequests = 2
    MaxContexts = 2
    MaxStarts = 2
    MaxFaults = 1
INVARIANTS SlotOwnsFile CachedIsWhole WithinBudget AvatarsEvicted
PROPERTIES Implements Served
