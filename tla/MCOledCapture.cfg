CONSTANTS
    MaxFrames = 3
    MaxLen = 2
    MaxFifo = 1
    MaxLate = 1
SPECIFICATION FairSpec
INVARIANTS WholeFrame NeverMixed ShownInOrder
PROPERTIES CompletedIsShown
