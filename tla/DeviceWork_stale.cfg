SPECIFICATION Spec
CONSTANTS
    Resource = {r1}
    Query = {q1}
    MaxWork = 2
    None = None
    Asked <- EveryAsked
INVARIANT NoStaleData
