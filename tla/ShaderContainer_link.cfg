SPECIFICATION Spec
CONSTANTS
    Shader <- EveryShader
    Pipeline <- EveryPipeline
    MaxSigEntries = 6
    MaxSoEntries = 4
    NoReg = 99
    Nothing = Nothing
CHECK_DEADLOCK FALSE
INVARIANTS
    TypeOK
    ReadsInside
    SignatureComplete
    StagesLink
    ContainerSound
    ReadersFindElements
PROPERTIES
    ScanTerminates
