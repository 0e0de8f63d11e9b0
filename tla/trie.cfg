SPECIFICATION Spec
CONSTANTS
    MaxBitLen = 3
    Prefixes <- DefaultAndForks
    PageSize = 2
    MaxPages = 2
    CountMod = 4
    InsertsSupernets = FALSE
    RemovesForks = FALSE
    Repeats = TRUE
INVARIANTS
    TreeIsSound
    SearchesAreRight
    WalksAreRight
    CountCovers
PROPERTIES
    NodesStay
    ImplementsPrefixSet
