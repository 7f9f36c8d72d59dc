CONSTANTS
    a = a
    b = b
    c = c
    m1 = m1
    m2 = m2
    Thread = {a, b, c}
    Queue = {m1}
    EventQueue = {m1}
    Pri <- MCPri
    Cap <- MCCap
    MaxSlots = 2
    Boot = b
    RunQ = RunQ
    None = None
SPECIFICATION LiveSpec
CHECK_DEADLOCK FALSE
PROPERTIES ImplementsPriorityScheduler TopThreadRuns
