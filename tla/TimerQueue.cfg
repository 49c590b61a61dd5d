SPECIFICATION Spec
CONSTANTS
    Timers = {t1, t2, t3}
    NoTimer = NoTimer
    Afters = {0, 2}
    Repeats = {0, 1}
    MaxTime = 2
INVARIANTS
    ExpiryDelivered
    EarlierFirst
    OncePerPass
    TimerInv
