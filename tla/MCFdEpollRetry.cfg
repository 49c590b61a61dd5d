SPECIFICATION Spec
CONSTANTS
    w1 = w1
    w2 = w2
    w3 = w3
    w4 = w4
    f1 = f1
    f2 = f2
    f3 = f3
    f4 = f4
    NoFile = NoFile
    NFD = 1
    Files = {f1}
    EpermFiles = {}
    Watchers = {w1}
    FdOf <- MCFdOf
    RetryUnset = TRUE
    MaxGen <- MCMaxGen
    MaxChanges = 2
INVARIANTS
    WatchedIsRegistered
