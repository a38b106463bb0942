SPECIFICATION Spec
CONSTANTS
    Clients = {c1, c2}
    Files = {f1, f2}
INVARIANTS Confined CorpusFollows
PROPERTIES BootstrapSettles EveryRequestEnds ShutdownEnds
