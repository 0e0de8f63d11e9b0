SPECIFICATION Spec
CONSTANTS
    Records <- MCRecords
    Indexes <- MCIndexes
    FastPeers = 1
    Careful = TRUE
INVARIANTS
    EntriesNameTheirPeers
    PeersInOrder
    NeverStrays
