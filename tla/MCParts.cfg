SPECIFICATION PartsSpec
CONSTANTS
    Loops = {"A", "B"}
    NoLoop = "none"
    Sigs = {"s", "t"}
    Watchers = {1, 2, 3, 4}
    LoopOf <- MCLoopOf
    SigOf <- MCSigOf
    MaxKernels = 4
    Spurious = TRUE
    Pids = {1, 2}
    HashSize = 2
    Childs = {"a", "b", "c"}
    PidOf <- MCPidOf
    Traced = {"a"}
    Stats = {"d", "e"}
    MaxFsOps = 4
    MaxQueue = 2
    Slots = {1, 2}
    MaxOnce = 3
    RThreads = {"x", "y", "z"}
    Ports = {1, 2}
    MaxInitFails = 1
    Backends = {"port", "kqueue", "iouring", "linuxaio", "epoll", "poll", "select"}
    MaxForks = 2
    Events = {"a", "b", "c"}
    Set <- MCSet
    MaxAdds = 2
    Fds = {1, 2}
    MaxOps = 4
    SqEntries = 2
    CqEntries = 2
    Handles = {"u", "v", "w"}
    Bucket <- MCBucket
    FirstMax = 1
    MaxRefs = 2
    MaxFails = 1
CHECK_DEADLOCK FALSE
INVARIANTS
    PartsTypeOK
    SignalsArrive
    ChildrenReported
    RingSound
    BackendSound
    StatSound
    InternalUnreferenced
    NothingLeft
    ForkedFresh
    EmbedFollows
    OnceSound
    EventSound
    WepollHears
    WepollMemory
    PortClosedSafely
    TreeSound
    RegistrySound
    HeapKept
