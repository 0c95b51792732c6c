SPECIFICATION Spec
CONSTANTS
    Chats = {1, 2}
    Identities = {}
    Messages = {5}
    Top = 4
    PageSize = 1
    Batch = 2
    MaxEpoch = 1
    MaxEvents = 3
    FaultKinds = {"cut", "rollback", "crash", "view"}
    MaxFaults = 1
INVARIANTS Coverage NotifiedOnce
PROPERTIES NoRegress
