SPECIFICATION Spec
CONSTANTS
    r1 = r1
    r2 = r2
    f1 = f1
    f2 = f2
    hi = hi
    cat = cat
    NoFile = NoFile
    NoRequest = NoRequest
    NoText = NoText
    NoContent = NoContent
    Texts = {hi}
    Contents = {cat}
    ContentOf <- OneContent
    Requests = {r1, r2}
    Files = {}
    Payload <- SameTexts
    ForeignTexts = {hi}
    Window = 2
    Skew = 0
    EchoDelay = 1
    MaxNow = 3
    MaxRows = 3
    Joins = {TRUE}
    Receipts = {}
    FaultKinds = {"automation"}
    MaxFaults = 1
INVARIANTS NoStolenEcho
