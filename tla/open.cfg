SPECIFICATION Spec
CONSTANTS
    ByteMax = 7
    BufSize = 20
    Caps <- MCCaps
    Lists <- MCLists
    RawLists <- MCRawLists
    Opens <- MCOpens
    Junk = {0, 7}
    MaxPuts = 4
INVARIANTS
    CapsAreInOrder
    WrittenIsReadable
