SPECIFICATION Spec
CONSTANTS
    Keys <- SomeKeys
    Kind <- SomeKind
    Default <- SomeDefault
    SizeRange = 16
    MaxPort = 6
    Blank = Blank
    Yes = Yes
    No = No
    Word = Word
    Unset = Unset
    Invalid = Invalid
    Environments <- SomeEnvironments
    EnvFiles <- SomeFiles
    Chunks = {c1, c2}
    MaxEvents = 2
    Empty = Empty
    Skipped = Skipped
    BadJson = BadJson
INVARIANTS WaitsDouble GivesUpRightly ReturnsTheReply TriesAsConfigured
PROPERTIES DeliveredOnce CallEnds
CHECK_DEADLOCK FALSE
