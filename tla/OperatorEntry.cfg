SPECIFICATION KernelSpec
CONSTANTS
    t1 = t1
    t2 = t2
    t3 = t3
    r1 = r1
    r2 = r2
    r3 = r3
    cpu = cpu
    undefined = undefined
    Threads = {t1, t2, t3}
    Keys = {cpu, undefined}
    UndefinedKey = undefined
    CatchAll = catchall
    Regs = {r1, r2, r3}
    Lazy = {r1, r2}
    UnboxedOnly = {r3}
    MaxFunctors = 5
    None = none
SYMMETRY Sym
INVARIANTS KernelsInForce UnloadSafe FunctorOutlivesCall

PROPERTY ImplementsRegistry
