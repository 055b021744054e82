SPECIFICATION Spec
CONSTANTS
    p1 = p1
    p2 = p2
    None = None
    Procs = {p1, p2}
    NI = 3
    NS = 5
    Names = {"a", "d"}
    Paths <- MCPaths
    Tree <- MCTree
    MAX_CALLS = 3
SYMMETRY Symmetry
INVARIANTS
    OneSlot
    RefExact
    LinksExact
    Reclaimed
