SPECIFICATION FairSpec
CONSTANTS
    Chats = {1}
    Identities = {3}
    Messages = {}
    Top = 4
    PageSize = 1
    Batch = 1
    MaxEpoch = 2
    MaxEvents = 2
    FaultKinds = {"cut", "block", "reconnect", "select", "crash"}
    MaxFaults = 1
PROPERTIES Converges
INVARIANTS EpochIsolation
