CONSTANTS
    Bufs = {b1, b2}
    NULL = NULL
    Replies = TRUE
    AllocMayFail = TRUE
    MaxInits = 2
    MaxUnplugs = 1
SPECIFICATION FairSpec
INVARIANTS NoUseAfterFree NoLeak OnePacketAtATime OneSender
PROPERTIES SendReturnsEventually ReceptionGoesOn
