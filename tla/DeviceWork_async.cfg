SPECIFICATION Spec
CONSTANTS
    Resource = {r1, r2}
    Query = {q1}
    MaxWork = 2
    None = None
    Asked <- EveryAsked
INVARIANTS
    TypeOK
    BornAsAsked
    ToldTrue
    ConsumerSeesReleased
PROPERTIES
    StagingGetsReady
