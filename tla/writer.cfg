SPECIFICATION Spec
CONSTANTS
    x = x
    y = y
    Items <- MCItems
    Bodies <- MCBodies
    Data <- MCData
    FastSize = 6
    FastPres = 2
    GrowStep = 2
    MaxSize = 20
    MaxLen = 6
    SetsNlri = FALSE
INVARIANTS
    NeverStrays
    FieldsAreFramed
PROPERTIES
    WritesTheDocument
