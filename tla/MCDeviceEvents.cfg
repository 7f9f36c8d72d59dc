CONSTANTS
    rdp = rdp
    si = si
    timer = timer
    Queue = {rdp, si, timer}
    Cap <- MCCap
    Route <- MCRoute
    Early <- MCEarly
    Mask <- MCAll
    RingCap = 2
    SiBatch = 8
    CompareMode = TRUE
    IdleOnly = TRUE
    MaxTasks = 2
    MaxSi = 1
SPECIFICATION LiveSpec
INVARIANTS InOrderOnce NothingInvented
PROPERTIES CompletionKept EverythingDelivered
