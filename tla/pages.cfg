CONSTANTS
    NPages = 6
    Kind <- Mixed
    Degenerate = {"b"}
    PageConcurrency = 2
    Prefetch = 0
    MayCancel = TRUE
    MaxFaults = 1
SPECIFICATION Spec
CHECK_DEADLOCK FALSE
INVARIANTS
    TypeOK
    ResidentBounded
    OneEngineCallPerHash
    NothingLeftBehind
    ArtifactsInPlace
    DuplicateCarriesText
    NoStall
