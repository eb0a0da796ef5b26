SPECIFICATION MCSpec
CONSTANTS
    t1 = t1
    t2 = t2
    w1 = w1
    w2 = w2
    w3 = w3
    NoWnd = NoWnd
    Task = {t1, t2}
    Window = {w1, w3}
    WndTask <- MCWndTask
    ChildOf <- MCChildOf
    Part <- MCPart
    IsSystemQueue = FALSE
    QueueSize = 3
    MaxPosted = 4
    Calls <- MCAppCalls
    Posts <- MCAppPosts
    Reentrant = FALSE
    MaxNest = 1
    ta = ta
    tb = tb
    tc = tc
    MaxActive = 10
    HTASK = {ta, tb, tc}
    Native = ta
    MaxDepth = 5
    MaxCalls = 1
    MaxQueued = 0
    MsgNo = {1}
    Exits = TRUE
    Habits = {"yields", "dialogs", "replies"}
INVARIANTS PoolIsPartitioned SendStackIntact RepliedByOwnHandler PickedUpAtOnce InSendNested
PROPERTY ImplementsMsgQueue
SYMMETRY Alike
CONSTRAINT FewActive
