SPECIFICATION Spec
CONSTANTS
    r1 = r1
    r2 = r2
    f1 = f1
    f2 = f2
    hi = hi
    cat = cat
    Files = {f1}
    NoFile = NoFile
    Requests = {r1}
    NoRequest = NoRequest
    Texts = {hi}
    NoText = NoText
    Payload <- CaptionAndText
    Contents = {cat}
    NoContent = NoContent
    ContentOf <- OneContent
    ForeignTexts = {}
    Window = 0
    Skew = 0
    EchoDelay = 0
    MaxNow = 0
    MaxRows = 2
    Joins = {TRUE}
    Receipts = {"delivered", "failed"}
    FaultKinds = {"reset", "reject", "result", "scan", "look", "replace", "crash", "probe", "automation"}
    MaxFaults = 2
INVARIANTS TypeOK AtMostOnce PredecessorsTaken UnstartedIsTrue OriginalKept
PROPERTIES NoRegression
