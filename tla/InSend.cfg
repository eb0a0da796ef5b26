SPECIFICATION TaskSpec
CONSTANTS
    ta = ta
    tb = tb
    tc = tc
    MaxActive = 11
    HTASK = {ta, tb, tc}
    Native = ta
    MaxDepth = 5
    MaxCalls = 1
    MaxQueued = 1
    MsgNo = {1}
    Exits = FALSE
    Habits = {"dialogs", "replies"}
INVARIANT InSendRestored
