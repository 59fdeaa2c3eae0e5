SPECIFICATION Spec
CONSTANTS
    s1 = s1
    s2 = s2
    e1 = e1
    e2 = e2
    f1 = f1
    f2 = f2
    c1 = c1
    c2 = c2
    NULL = NULL
    Shader = {s1, s2}
    Layout = {e1, e2}
    Code = {c1, c2}
    Elems = {f1, f2}
    Unresolvable <- UnresolvableDef
    Retyped <- RetypedDef
    Reconcile = TRUE
    MaxCookie = 3
SYMMETRY Symmetry
INVARIANTS
    TypeOK
    CacheSound
    CurrentShaderBound
    NoForeignRecon
PROPERTIES
    BindsCurrentPair
