SPECIFICATION Spec
CONSTANTS
    NULL = NULL
    Resource = {r1, r2}
    Alloc = {a1, a2, a3}
    Thread = {t1, t2}
SYMMETRY Symmetry
INVARIANTS
    TypeOK
    Attributed
    MemoryBacked
    PrimaryMarked
    PresentsResident
    NothingLeftBehind
