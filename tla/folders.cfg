SPECIFICATION Spec
CONSTANTS
    Folders = {a, b, c}
    Files = {x}
    Root = Root
    None = None
    Clients = {k1, k2}
    Movers = {k1}
SYMMETRY Symmetry
INVARIANTS
    TypeOK
    Acyclic
    StrandedOnlyLate
    CascadesComplete
CHECK_DEADLOCK FALSE
