CONSTANTS
    LineWidth = 3
    Letters <- MCLetters
    Width <- MCWidth
    Lines <- MCLines
    Accent <- MCAccent
    Til = "T"
    TilBefore = "P"
    KeyBytes = 2
    MaxEntries = 8
    MaxText = 16
    RdramLimit = 80
    RingSlots = 2
    RingBytes = 12
    ArenaBytes = 48
    SlackMax = 5
    MaxControls = 2
    StaticMin = 2
    FragmentMin = 5
    CartMin = 4
    CacheCap = 1
    Exact <- MCExact
    Image <- MCImage
    Block = 4
    Heap = 32
    Live = 60
    LiveBytes = 8
    RomSize = 48
    MenuFrom = 0
    MenuTo = 4
    HostBytes = 148
    Mode = {0, 1, 2}
    TableMax = 2
    MaxPublished = 2
SPECIFICATION Spec
CHECK_DEADLOCK FALSE
INVARIANTS TextsWhole ResourceKept
PROPERTY CursorsAgree
