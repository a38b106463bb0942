SPECIFICATION Spec
CONSTANTS
    Files = {f1, f2}
    ModuleNames = {m1}
    NoName = NoName
    MaxBatch = 2
    MaxId <- SomeMaxId
SYMMETRY Symmetry
INVARIANTS TablesWellFormed CountersAhead
PROPERTIES AbandonedStaysOut ImplementsStore
