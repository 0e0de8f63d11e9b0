SPECIFICATION Spec
CONSTANTS
    Routes <- MCRoutes
    Damaged <- MCDamaged
    ByteMax = 12
INVARIANTS
    RebuildsTheRoute
    OffsetsAreTrue
\* The call returns.
CHECK_DEADLOCK FALSE
