CONSTANTS
    Width = 4
    Valid <- MCValid
    addr_list_size = 3
    MaxChanges = 1
    MaxNoise = 1
    Length <- MCLength
    MemSize = 2
    MaxData = 2
    MaxTransfers = 3
    MaxLate = 1
SPECIFICATION MCWireSpec
PROPERTIES InterruptionIsTold
