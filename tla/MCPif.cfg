SPECIFICATION Spec
CONSTANTS
    A = A
    Up = Up
    x = x
    y = y
    none = none
    NumBlocks = 2
    Data = {x, y}
    Formatted = x
    Batch = 1
    MaxTime = 4
    PifSize = 64
    Sessions <- MCSessions
    Keys = {A}
    None = none
    Sticks = {Up}
    RecordingMax = 2
    ScriptMax = 2
    Delay = 1
    Hold = 1
    MaxRetrace = 2
    MaxPolls = 3
    MaxProcesses = 3
INVARIANTS ReplayFaithful LossWindow KeysAsReported RefreshIsControllers
