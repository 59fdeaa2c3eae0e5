SPECIFICATION Spec
CONSTANTS
    Thread = {t1, t2}
    t1 = t1
    t2 = t2
    MaxValue = 3
    MaxWork = 2
INVARIANTS
    TypeOK
    FlipAfterGpuDone
PROPERTIES
    CallReturns
    ImplementsGate
CHECK_DEADLOCK FALSE
