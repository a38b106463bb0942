SPECIFICATION Spec
CONSTANTS
    Words <- SomeWords
    Anonymous = "(anonymous)"
    Star = "* "
    Glued <- SomeGlued
    Trees <- SomeTrees
    Sources <- SomeSources
INVARIANTS SymbolsInOrder MembersAgree CallsReachInnermost CallersTogether BasesNextToClassFound
CHECK_DEADLOCK FALSE
