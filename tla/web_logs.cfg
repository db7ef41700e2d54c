CONSTANTS
    a = a
    b = b
    x = x
    Writers <- TwoWriters
    Devices <- OneDevice
    MaxEntries = 3
    Count = 2
    MaxLoads = 2
    MaxLog = 4
    MaxTime = 1
SPECIFICATION FairSpec
INVARIANTS TypeOK BufferIsLast ShownWindow ThreadInOrder
PROPERTIES LogsShown
CHECK_DEADLOCK FALSE
