SPECIFICATION Spec
CONSTANTS
    t1 = t1
    t2 = t2
    w1 = w1
    w2 = w2
    w3 = w3
    NoWnd = NoWnd
    Task = {t1, t2}
    Window = {w1, w2}
    WndTask <- MCWndTask
    ChildOf <- MCChildOf
    Part <- MCPart
    IsSystemQueue = TRUE
    QueueSize = 3
    MaxPosted = 3
    Calls <- MCSysCalls
    Posts <- MCSysPosts
    Reentrant = TRUE
    MaxNest = 2
INVARIANT RemovedIsQueued
