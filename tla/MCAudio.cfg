SPECIFICATION Spec
CONSTANTS
    Modes = {"timed", "clocked", "compat"}
    Sizes = {1, 2}
    MaxBuffers = 4
    None = None
    Slots = 3
    Frames = {3, 4}
    Target = 9
    WaitMs = 2
INVARIANTS PlayedInOrder PlaybackSound
PROPERTIES NeverEarly Answered
CHECK_DEADLOCK FALSE
