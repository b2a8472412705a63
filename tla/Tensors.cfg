SPECIFICATION MCSpec
CONSTANTS
    StorageSize = 6
    MaxDims = 3
    MaxNumel = 6
    MaxIndex = 2
    MaxStride = 3
    Refused = refused
    NumThreads = 2
    Max32 = 4
    LineSize = 2
    Undefined = undefined
    Idle = idle
    IterNumel = {6}
    IterOffset = 0
    MaxBatch = 3
    MaxLength = 4
    MaxLayers = 2
    Padding = padding
    NoGrad = nograd
    MaxOrder = 8
    MaxNodes = 6
INVARIANTS ViewKeepsOrder VisitsEachOnce ReductionsSplitSafely OverlapIsTold PackingIsTransparent TreesAreCounted ContractionsFollowTree
PROPERTY ElementsOfSelf
