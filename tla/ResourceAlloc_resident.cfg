SPECIFICATION Spec
CONSTANTS
    NULL = NULL
    Resource = {r1}
    Alloc = {a1}
    Thread = {t1}
SYMMETRY Symmetry
PROPERTY
    FailureRetires
