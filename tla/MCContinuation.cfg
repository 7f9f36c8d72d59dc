CONSTANTS
    Func <- MCFunc
    Root = "root"
    Site <- MCSite
    Of <- MCOf
    Kind <- MCKind
    Callees <- MCCallees
    Data = {0, 1}
    Zero = 0
    None = None
    MaxFrames = 3
SPECIFICATION LiveSpec
CHECK_DEADLOCK FALSE
INVARIANTS FramesMirrorStack
PROPERTIES ImplementsGuestCalls GoesOn
