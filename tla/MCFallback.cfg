SPECIFICATION Spec
CONSTANTS
    MaxTexts = 3
    MaxBatch = 2
    Stray = Stray
    Corpora <- SomeCorpora
    Symbols <- SomeSymbols
    Points <- SomePoints
    Headers = {1}
    Queries <- SomeQueries
    module_top_k = 2
    symbol_top_k = 2
    public_symbol_limit = 2
    related_symbol_limit = 2
    context_token_limit = 12
    MaxBuilds = 2
INVARIANT FallsBack
CHECK_DEADLOCK FALSE
