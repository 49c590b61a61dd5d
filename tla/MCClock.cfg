SPECIFICATION Spec
CONSTANTS
    Periodics = {p1}
    Off = Off
    Half = 2
    BlockTime = 3
    BlockTime2 = 20
    Interval = 3
    CbStep = 2
    Delay = 2
    MaxStale = 1
    MaxAhead = 0
    Ticks = {1, 3}
    Moves <- MCMoves
    MaxMono = 5
    MaxSets = 1
INVARIANTS
    JumpNoticed
    TimesSound
PROPERTIES
    NeverPushed
