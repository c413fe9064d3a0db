SPECIFICATION Spec
CONSTANTS
    u1 = u1  u2 = u2  t1 = t1  t2 = t2  g1 = g1  g2 = g2  g3 = g3  c1 = c1
    nobody = nobody
    Users = {u1, u2}
    Tokens = {t1, t2}
    Groups = {g1, g2, g3}
    Conns = {c1}
    AllConns = AllConns
    Shared = {c1}
    ConnOwner <- NoOwner
    Requests = {r1}
    MaxRows = 3
SYMMETRY Symmetry
INVARIANTS TypeOK HierarchyAcyclic VisibleAgreesWithAccess
PROPERTIES LiftNeedsReadWrite TokenNeverEscalates
