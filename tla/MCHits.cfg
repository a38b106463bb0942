SPECIFICATION Spec
CONSTANTS
    Files = {1, 2}
    Names = {"a", "b"}
    Contents <- PlainContents
    MaxId = 4
INVARIANT HitsDenote
