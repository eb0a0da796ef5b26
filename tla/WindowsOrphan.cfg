SPECIFICATION MCSpec
CONSTANTS
    w1 = w1
    w2 = w2
    w3 = w3
    w4 = w4
    Win = {w1, w2, w3, w4}
    Root = Root
    None = None
    TaskOf <- MCTaskOf
    Catchers = {w3}
    frame = frame
    kid = kid
    grandkid = grandkid
    other = other
    Pane = {frame, kid, grandkid, other}
    Screen = Screen
    NoPane = NoPane
    hWndParent <- MCParent
    MaxEvents = 2
INVARIANTS OwnersOutlive
