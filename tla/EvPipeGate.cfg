SPECIFICATION Spec
CONSTANTS
    Senders = {s1, s2}
    Asyncs = {a1}
    Sigs = {g1}
    NoSource = NoSource
    PipeCap = 2
    DrainMax = 4
INVARIANT WakePendingShown
