SPECIFICATION PaintSpec
CONSTANTS
    frame = frame
    kid = kid
    grandkid = grandkid
    other = other
    Pane = {frame, kid, grandkid, other}
    Screen = Screen
    NoPane = NoPane
    hWndParent <- MCParent
    MaxEvents = 2
INVARIANTS HiddenIsUnmapped
