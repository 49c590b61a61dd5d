SPECIFICATION FocusSpec
CONSTANTS
    w1 = w1
    w2 = w2
    w3 = w3
    w4 = w4
    f1 = f1
    f2 = f2
    f3 = f3
    f4 = f4
    NoFile = NoFile
    NFD = 3
    Files = {f1, f2, f3, f4}
    EpermFiles = {f3}
    Watchers = {w1, w2, w3, w4}
    FdOf <- MCFdOf
    RetryUnset = FALSE
    MaxGen <- MCMaxGen
    MaxChanges = 2
SYMMETRY Symmetry
INVARIANTS
    WatchedIsRegistered
    StaleIgnored
    Listed
