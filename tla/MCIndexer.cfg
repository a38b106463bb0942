SPECIFICATION Spec
CONSTANTS
    Files = {1, 2}
    Names = {"a", "b"}
    Contents <- OverloadContents
    MaxId = 4
INVARIANTS RowsAreOneReading EdgesAreCalls EdgesKept VectorsMatch RecordedDenotes
