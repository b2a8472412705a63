SPECIFICATION Spec
CONSTANTS
    libA = libA
    libB = libB
    libC = libC
    add = add
    mul = mul
    s1 = s1
    s2 = s2
    Libs = {libA, libB, libC}
    Plan <- SharedPlan
    Names = {add, mul}
    Schemas = {s1, s2}
    Defs = {1, 2, 3}
    Listeners = {x1}
    MaxLoads = 2
    None = none
INVARIANTS FoundIsRegistered
CHECK_DEADLOCK FALSE
