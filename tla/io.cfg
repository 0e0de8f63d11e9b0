SPECIFICATION Spec
CONSTANTS
    Writers <- All
    Readers <- All
    Files <- MCFiles
    Appended <- MCAppended
    BufSiz = 2
    MemSize = 3
    Latencies = {0, 1, 3}
    MaxItems = 5
    MaxFaults = 2
INVARIANTS
    CloseMeansWritten
    ReadsInOrder
    EndIsTheEnd
PROPERTY CallsReturn
\* A client may close its stream and stop.
CHECK_DEADLOCK FALSE
