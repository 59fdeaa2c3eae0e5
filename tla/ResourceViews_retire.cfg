SPECIFICATION Spec
CONSTANTS
    r1 = r1
    r2 = r2
    r3 = r3
    rtv = rtv
    srv = srv
    uav = uav
    a1 = a1
    a2 = a2
    a3 = a3
    NULL = NULL
    Resource = {r1, r2, r3}
    View = {rtv, srv, uav}
    Kind <- KindDef
    Image = {a1, a2, a3}
    Interface = 110
    Asked = {"shared", "present"}
    MaxLost = 1
SYMMETRY Symmetry
INVARIANTS
    RetiredAfterMemory
