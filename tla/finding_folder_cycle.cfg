SPECIFICATION Spec
CONSTANTS
    Folders = {a, b, c}
    Files = {x}
    Root = Root
    None = None
    Clients = {k1, k2}
    Movers = {k1, k2}
INVARIANTS
    Acyclic
CHECK_DEADLOCK FALSE
