SPECIFICATION MCSpec
CONSTANTS
    StorageSize = 6
    MaxDims = 3
    MaxNumel = 6
    MaxIndex = 1
    MaxStride = 6
    Refused = refused
    Names = {a, b, c}
    Wildcard = none
SYMMETRY Symmetry
VIEW Futures
INVARIANT NamesMatchByTheRules
PROPERTY NamesFollowDims
