SPECIFICATION Spec
CONSTANTS
    Packets <- AllPackets
    Nested <- NestedPackets
INVARIANTS
    LookupsAreRight
    
    SeekCoherent
PROPERTIES
    FirstErrorWins
    ReadsWhatThePacketSays
