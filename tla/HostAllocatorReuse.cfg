SPECIFICATION HostSpec
CONSTANTS
    Ptrs = {p1, p2}
    HostStreams = {s1, s2}
    Sizes = {1, 2}
    Sliced = {}
    MaxWork = 2
    Failures = TRUE
INVARIANT NoReuseInFlight
