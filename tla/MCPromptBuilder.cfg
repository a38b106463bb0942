SPECIFICATION Spec
CONSTANTS
    Requests <- SomeRequests
    Options <- SomeOptions
    Readings <- SomeReadings
    Unreadable = Unreadable
    Malformed = Malformed
    Own = Own
    Foreign = Foreign
    None = None
INVARIANTS WithinContext SectionsWithinLimits CutsAtTheEnd FailedReadingsForgotten
