SPECIFICATION Spec
CONSTANTS
    MaxSegs = 3
    MaxSegs4 = 2
    MaxLen = 2
INVARIANTS
    RebuildsPath
    SegmentsToldApart
