SPECIFICATION ClockSpec
CONSTANTS
    NormalPeriod = 3
    FastPeriod = 1
    RetraceTargets = {2}
    PollTargets = {2}
    Keys = {TRUE, FALSE}
    MaxRetraces = 3
    MaxTime = 6
INVARIANTS Paced SpeedMatches
