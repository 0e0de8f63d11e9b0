SPECIFICATION Spec
CONSTANTS
    MaxBitLen = 3
    Prefixes <- FewPrefixes
    PageSize = 2
    MaxPages = 3
    CountMod = 8
    InsertsSupernets = TRUE
    RemovesForks = FALSE
    Repeats = FALSE
INVARIANTS
    StoredIsFound
