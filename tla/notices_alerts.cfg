SPECIFICATION FairSpec
CONSTANTS
    Chats = {a, b}
    NoChat = NoChat
    QueueLimit = 1
    Limit = 1
    Abilities <- Everything
    MaxMessages = 2
    MaxStarts = 2
    MaxTimeouts = 1
INVARIANTS NewestKept ClickOpensItsChat Accounted
PROPERTIES ReadingDismisses
CHECK_DEADLOCK FALSE
