SPECIFICATION FairSpec
CONSTANTS
    ta = ta
    tb = tb
    w1 = w1
    NoTask = NoTask
    NoWnd = NoWnd
    Task = {ta, tb}
    Window = {w1}
    WndTask <- MCWndTask
    SYNC_TIMERS = 2
    Second = 2
    Timeout = {1, 3}
    Peeks <- MCPeeks
    MaxEvents = 1
    Measured = FALSE
INVARIANTS MaxTimerCovers NoOversleep
PROPERTY TimersKeepFiring
CHECK_DEADLOCK FALSE
