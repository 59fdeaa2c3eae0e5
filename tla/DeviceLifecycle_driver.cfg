SPECIFICATION Spec
CONSTANTS
    Logger = {t1, t2}
    LogEnabled = TRUE
    None = None
    StateBlock = {s1, s2}
    StateDesc <- EveryDesc
    NoBlock = NoBlock
SYMMETRY Symmetry
INVARIANTS
    TypeOK
    NothingLeft
    LayersOutliveUsers
    InterfaceHonoured
    OneLogFile
