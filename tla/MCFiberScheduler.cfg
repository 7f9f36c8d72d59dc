SPECIFICATION Spec
CONSTANTS
    a = a
    b = b
    c = c
    d = d
    Thread = {a, b, c, d}
    Pri <- MCPri
    MaxSlots = 3
    Boot = b
    RunQ = RunQ
    WaitQ = WaitQ
    Main = Main
    Sched = Sched
    None = None
INVARIANTS ListsSound FreshFiber
