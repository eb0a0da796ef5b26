SPECIFICATION MCFairSpec
CONSTANTS
    t1 = t1
    t2 = t2
    w1 = w1
    w2 = w2
    w3 = w3
    NoWnd = NoWnd
    Task = {t1, t2}
    Window = {w1, w2}
    WndTask <- MCWndTask
    ChildOf <- MCChildOf
    Part <- MCPart
    IsSystemQueue = TRUE
    QueueSize = 3
    MaxPosted = 3
    Calls <- MCSysCalls
    Posts <- MCSysPosts
    Reentrant = FALSE
    MaxNest = 1
    ta = ta
    tb = tb
    tc = tc
    MaxActive = 11
    HTASK = {ta, tb, tc}
    Native = ta
    MaxDepth = 4
    MaxCalls = 1
    MaxQueued = 1
    MsgNo = {1}
    Exits = FALSE
    Habits = {"plain"}
INVARIANTS CursorIsQueued OwnersWoken
PROPERTIES ImplementsMsgQueue EventuallyRead SendReturns RunAgain
