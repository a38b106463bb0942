SPECIFICATION Spec
CONSTANTS
    Sessions = {s1, s2, s3}
    Posts = {p1, p2}
    Signals = {int, term}
INVARIANTS SessionsAreStreams NoSessionOutlivesServer
PROPERTIES SignalEnds SecondSignalEnds
CHECK_DEADLOCK FALSE
