SPECIFICATION Spec
CONSTANTS
    t1 = t1
    t2 = t2
    t3 = t3
    f1 = f1
    f2 = f2
    Threads = {t1, t2, t3}
    Frames = {f1}
    Frame0 = f1
    Files = {1}
    Registered = {1}
    InitialPages = 2
    MaxPageNo = 2
    MaxPins = 2
    MaxVersion = 2
    MaxCalls = 3
    Menu <- FlushAllMenu
    Faults = {}
    NoPage = NoPage
    NoFrame = NoFrame
PROPERTIES FlushAllIsStable
