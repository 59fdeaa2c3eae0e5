SPECIFICATION Spec
CONSTANTS
    T1 = T1
    T2 = T2
    Parent = Parent
    Typed = Typed
    Other = Other
    Reader = Reader
    Alone = Alone
    Thread = {T1, T2}
    Format = {Parent, Typed, Other, Reader, Alone}
    Families <- Family
    Forbidden = {Parent, Reader}
    ReadOnly = {Reader}
    Setting <- EverySetting
    Count = {0, 1, 8, 33}
    Invalid = Invalid
    MaxUint = 3
    MaxCalls = 2
CHECK_DEADLOCK FALSE
SYMMETRY Symmetry
INVARIANTS
    TypeOK
    AnswersIndependentOfCache
    NeverOverclaims
