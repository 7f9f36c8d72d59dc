SPECIFICATION Spec
CONSTANTS
    RingCap = 2
    Every = 2
    Types = {1, 2}
    SpmemSize = 1
    Slots = {1, 2}
    Sessions <- MCSessions
INVARIANTS OneMoment LastSaveSurvives AutoLoadOnce RingIsPending PictureKept SetupNotCharged
