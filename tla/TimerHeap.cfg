SPECIFICATION Spec
CONSTANTS
    DHEAP = 2
    Timers = {t1, t2, t3}
    NoTimer = NoTimer
    Afters = {0, 2}
    Repeats = {0, 1}
    MaxTime = 2
INVARIANTS
    HeapSound
PROPERTY ImplementsTimerQueue
