SPECIFICATION ParSpec
CONSTANTS
    Nothing = nothing
    Callers = {m1, m2}
    MaxWorkers = 2
    Jobs = {j1, j2}
    Default = 2
    Settings = {1, 3}
    Lens = {3}
    Grains = {1}
CHECK_DEADLOCK FALSE
INVARIANT ResultsFit
