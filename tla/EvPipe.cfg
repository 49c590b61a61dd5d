\* Two senders, one async and one signal; an evpipe of one byte, drained one
\* byte at a time, so that it fills up and writes to it fail.
SPECIFICATION FairSpec
CONSTANTS
    Senders = {s1, s2}
    Asyncs = {a1}
    Sigs = {g1}
    NoSource = NoSource
    PipeCap = 1
    DrainMax = 1
INVARIANTS
    IInv
    NoLostWakeup
    PassDelivers
PROPERTY EventuallyDelivered
