SPECIFICATION MCSpec
CONSTANTS
    None = none
    Unknown = unknown
    Plain = plain
    names = names
    otherNames = otherNames
    SampleTypes <- MCTypes
    SampleValues <- MCValues
    MaxElements = 3
    t1 = t1
    t2 = t2
    t3 = t3
    t4 = t4
    c1 = c1
    c2 = c2
    c3 = c3
    Threads <- MCThreads
    Callbacks <- MCCallbacks
    Throwing <- MCThrowing
    Asking <- MCAsking
    Outcomes = {"value", "error"}
    Nothing = nothing
    Callers = {m1, m2}
    MaxWorkers = 2
    Jobs = {j1, j2}
    Default = 2
    Settings = {1, 3}
    Lens = {1, 3}
    Grains = {2}
CHECK_DEADLOCK FALSE
INVARIANTS WaitersAgree SubtypingIsSound UnifiedFitsAll FrameAlive JobsAnswer
PROPERTIES ListIsFrozen WaitersReturn CallbacksRun NumThreadsFixed AllEnd
