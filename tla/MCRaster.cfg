CONSTANTS
    Matrix = {"a", "b"}
    Camera = {"p"}
    MaxModel = 2
    MaxLights = 2
    MaxProduct = 2
    ColourBuffer = {"front", "back"}
    DepthBuffer = {"depth"}
    Sample = {s1, s2}
    MaxValue = 1
    MaxLevel = 2
    MaxCommands = 2
    Segment = {1}
    MaxIdeal = 3
    NearW = 1
    TmemBytes = 64
    PaletteBase = 32
    DxtCarry = 4
    RdramBytes = 9000
    Mosaic <- MCMosaic
SPECIFICATION MCSpec
CHECK_DEADLOCK FALSE
INVARIANTS ColourCoherent VertexByStack ArithmeticRight
PROPERTY ListEnds
