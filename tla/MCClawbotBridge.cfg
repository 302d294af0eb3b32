SPECIFICATION Spec
CONSTANTS
    a = a
    e = e
    d = d
    r = r
    Messages = {a, e, r, d}
    Direct = {d}
    Text = {a, r, d}
    Unnamed = {d}
    Refused = {r}
    Sync = Sync
    None = None
    PageSize = 1
    MaxPages = 2
    MaxFaults = 1
    MaxCrashes = 1
    MaxTokens = 3
    Seconds = {0, 1}
    BlockSize = 4
    Bad = Bad
INVARIANTS
    TypeOK
    SecondReplyHasACause
    ProcessedTextWasAnswered
PROPERTY UnblockedTextIsAnswered
CHECK_DEADLOCK FALSE
