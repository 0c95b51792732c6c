SPECIFICATION Spec
CONSTANTS
    r1 = r1
    r2 = r2
    f1 = f1
    f2 = f2
    hi = hi
    cat = cat
    NoFile = NoFile
    NoRequest = NoRequest
    NoText = NoText
    NoContent = NoContent
    Texts = {hi}
    Contents = {cat}
    ContentOf <- OneContent
    Requests = {r1, r2}
    Files = {f1}
    Payload <- CaptionAndText
    ForeignTexts = {}
    Window = 1
    Skew = 0
    EchoDelay = 0
    MaxNow = 2
    MaxRows = 2
    Joins = {TRUE, FALSE}
    Receipts = {}
    FaultKinds = {"reset", "result", "crash", "automation", "reject"}
    MaxFaults = 1
INVARIANTS AcceptanceOrder NoStolenEcho
