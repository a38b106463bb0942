SPECIFICATION Spec
CONSTANTS
    Files = {1, 2}
    Names = {"a", "b"}
    Contents <- CallContents
    MaxId = 3
INVARIANT AllCallersListed
