SPECIFICATION SearchSpec
CONSTANTS
    a = a
    b = b
    c = c
    d = d
    other = other
    Files = {"f"}
    ModuleNames = {a, b, c, d, other}
    Graphs <- AllGraphs
    Depths = {0, 1, 3}
INVARIANT NearestDistances
CHECK_DEADLOCK FALSE
