SPECIFICATION MCSpec
CONSTANTS
    t1 = t1
    t2 = t2
    w1 = w1
    w2 = w2
    w3 = w3
    NoWnd = NoWnd
    Task = {t1, t2}
    Window = {w1, w3}
    WndTask <- MCWndTask
    ChildOf <- MCChildOf
    Part <- MCPart
    IsSystemQueue = FALSE
    QueueSize = 2
    MaxPosted = 3
    Calls <- MCCalls
    pen = pen
    win = win
    Signature = {pen, win}
    NoType = NoType
    BlockSize = 2
    TableBlocks = 2
    OmMask = 8
    WordSize = 16
    LowWater = 2
    RefLimit = 2
    MaxObjects = 5
    MaxLocks = 3
    s1 = s1
    s2 = s2
    s3 = s3
    Str = {s1, s2, s3}
    strsize <- MCSize
    hash <- MCHash
    Number = {2, 5}
    ATOMBASE = 12
    AtomWord = 16
    MaxTable = 3
    MaxRefs = 2
    Objs = {o1, o2}
    Sizes = {12, 22}
    Discardable = {TRUE}
    uStartAddr = 16
    InitEnd = 152
    Grow = 32
    SegMax = 184
    Delta = 2
    HeapLocks = 1
    Prog = {p1, p2}
    Nobody = Nobody
    Text = "text"
    Predefined = {"dib"}
    Registered = {"own"}
    Bytes = {0, 1, 127, 128, 255}
    Words = {0, 1, 32767, 32768, 65535}
    Counts = {1, 3, 7}
SYMMETRY Alike
INVARIANTS
    TypeOK Ordered NoOrphan
    TableTypeOK TagsPartitioned HandleFindsObject LockedSurvives StaleRejected
    HeldAtomsKept RefsCounted
    HeapExact BlocksKept NothingLost
    NeverStuck OpenIsExclusive ReadsItsOwn
    InstructionsExact JumpsDecide
    PartsTypeOK
CHECK_DEADLOCK FALSE
