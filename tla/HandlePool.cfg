SPECIFICATION MCSpec
CONSTANTS
    t1 = t1
    t2 = t2
    t3 = t3
    d1 = d1
    d2 = d2
    Threads = {t1, t2, t3}
    Devices = {d1, d2}
    MaxHandles = 4
    Shapes = {shape}
    Algos = {"default", "fast"}
    Deterministic = {"default"}
    DefaultAlgo = "default"
    Need <- MCNeed
    Missing = missing
    MaxActive = 2
    Keys = {k1, k2, k3}
    MaxSizes = {0, 1, 2}
    DefaultSize = 2
    FftDevices = {d1}
    Nobody = nobody
    Streams = {s1, s2}
    RnnDevices = {d1}
    NoThread = nothread
    MaxKernels = 7
    HostStreams = {s1, s2}
    Ptrs = {p1, p2}
    Sizes = {1, 2}
    Sliced = {p1, p2}
    MaxWork = 2
    Failures = TRUE
SYMMETRY Symmetry
VIEW View
INVARIANTS PoolSafe RunsAsDemanded CacheIsRecent PlanAlive UsesInOrder MemoryIsKept
PROPERTIES EntriesStay ImplementsPool
