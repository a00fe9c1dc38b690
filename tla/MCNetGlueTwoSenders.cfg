CONSTANTS
    Bufs = {b1, b2}
    NULL = NULL
    Replies = TRUE
    AllocMayFail = FALSE
    MaxInits = 1
    MaxUnplugs = 0
SPECIFICATION Spec
INVARIANTS AcceptedIsSent
