SPECIFICATION MCSpec
CONSTANTS
    e1 = e1
    p1 = p1
    c1 = c1
    i1 = i1
    i2 = i2
    i3 = i3
    f1 = f1
    k1 = k1
    NoWatcher = NoWatcher
    Watchers = {e1, c1, p1, f1, k1, i1, i2, i3}
    Kind <- MCKind
    NUMPRI = 2
    RawPris = {0, 2}
    MaxDepth = 2
    MaxQueue = 2
    MaxRef = 1
INVARIANTS
    PendingAgrees
    DrainedInOrder
    CallbackEvents
    ActiveAgrees
    RefsBalanced
