SPECIFICATION SpecAll
CONSTANTS
    t1 = t1
    t2 = t2
    t3 = t3
    r1 = r1
    r2 = r2
    f1 = f1
    f2 = f2
    cpu = cpu
    undefined = undefined
    Threads = {t1, t2, t3}
    Keys = {cpu, undefined}
    UndefinedKey = undefined
    CatchAll = catchall
    Regs = {r1, r2}
    FbRegs = {f1, f2}
    Functors = {f1, f2}
    NoKey = nokey
    None = none
SYMMETRY Sym
INVARIANTS FunctorSet
