CONSTANTS
    Boxes <- Sights
    Scripts <- Texts
    LineHeight = 3
    Letters <- Length
    MaxFound = 3
    MaxRead = 2
    Width = 6
    Height = 13
    Scale = 2
    PadX = 3
    PadY = 0
    MinRegion = 2
    MinGap = 1
    MaxDepth = 2
    MaxHeight = 6
    Overlap = 3
    Margin = 1
    MaxCheck = 400
    MinMatch = 20
    ShortLine = 3
    MinLines = 6
    Window = 2
    LoopLength = 12
SPECIFICATION Spec
CHECK_DEADLOCK FALSE
INVARIANTS
    TypeOK
    NoInkClipped
    NeverUpwards
    ReadOnce
    LoopCut
