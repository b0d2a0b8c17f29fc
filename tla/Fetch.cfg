SPECIFICATION Spec
CONSTANTS
    t1 = t1
    t2 = t2
    t3 = t3
    f1 = f1
    f2 = f2
    Threads = {t1, t2, t3}
    Frames = {f1}
    Frame0 = f1
    Files = {1}
    Registered = {1}
    InitialPages = 2
    MaxPageNo = 2
    MaxPins = 2
    MaxVersion = 3
    MaxCalls = 5
    Menu <- FetchMenu
    Faults = {"read", "write", "sync"}
    NoPage = NoPage
    NoFrame = NoFrame
SYMMETRY ThreadSymmetry
INVARIANTS TypeOK PinnedStaysBound PinsAccounted DiskNeverAhead NoLostWakeup
PROPERTIES NoLostUpdate CleanOnlyWhenStable FlushPageIsStable
