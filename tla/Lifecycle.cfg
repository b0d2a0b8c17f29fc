SPECIFICATION Spec
CONSTANTS
    t1 = t1
    t2 = t2
    t3 = t3
    f1 = f1
    f2 = f2
    Threads = {t1, t2, t3}
    Frames = {f1, f2}
    Frame0 = f1
    Files = {1}
    Registered = {1}
    InitialPages = 1
    MaxPageNo = 2
    MaxPins = 2
    MaxVersion = 2
    MaxCalls = 4
    Menu <- LifecycleMenu
    Faults = {"write", "sync", "init"}
    NoPage = NoPage
    NoFrame = NoFrame
INVARIANTS ClosedOwnsNothing FramesConserved PublishedIsInitialised
PROPERTIES RetirementGate CleanOnlyWhenStable ImplementsPageStore ShutdownIsClean
