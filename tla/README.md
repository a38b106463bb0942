# QodeLoc in TLA+

QodeLoc indexes a C++ repository into a DuckDB graph of symbols and edges and a
Qdrant collection of vectors, and answers questions about the code over HTTP; a
TypeScript adapter offers the same to an IDE as MCP tools. This directory holds
TLA+ models of it, translated from the source, the TLC runs that check them on
small instances, and theorems about them that TLAPS checks for all instances.
Paths below are relative to `src/`; line numbers of every definition are in
`PROJECT.json` under `map`.

## The system

| Component | Source | State | Operations |
|---|---|---|---|
| Dependency graph | `core/src/storage.cpp` | five tables, `transaction_open_`, five id counters | transactions, batched writes, `delete_files`, queries |
| Indexer | `core/src/indexer.cpp` | `symbols_`, the last result | `index`, `update`, `update_from_git` |
| Vector store | `core/src/vector_store.cpp` | `collection_once_`; the collection in Qdrant | `upsert_records`, `delete_files`, `search` |
| Embedder | `core/src/embedder.cpp` | none between calls | `embed`, `embed_batch` |
| Embedding server | `infra/embeddings/server.py` | none | `POST /v1/embeddings` |
| Retriever, hierarchy | `core/src/retriever.cpp`, `hierarchy.cpp` | the corpus in memory | `build`, `clear_corpus`, `retrieve` |
| Prompt builder | `core/src/prompt_builder.cpp` | a cache of templates | `build` |
| LLM client | `core/src/llm.cpp` | none between calls | `complete`, `stream` |
| API server, main | `core/src/api.cpp`, `main.cpp` | bootstrap state, `running`, acceptor, three threads | `start`, `stop`, seven handlers |
| MCP adapter | `mcp-adapter/src` | the server, a map of SSE sessions | sessions, messages, tool calls, `stop` |
| Parser | `core/src/parser.cpp` | within a file: scopes, `known_classes_` | the walk of the syntax tree |
| Symbol resolution | `core/src/indexer.cpp` (`SymbolLookup`) | none between passes | names of calls and bases to symbols |
| Configuration | `core/src/config.cpp` | none | `load` |
| Git watcher, module interface, infrastructure | `core/src/git_watcher.cpp`, `infra/`, `scripts/` | none | I/O and other programs |

`main` loads the configuration, wires the components, starts the API server's
worker thread and a bootstrap thread that runs `Indexer::index` and
`Retriever::build` once, and waits for a signal. A pass of the indexer parses
files, resolves the names of their calls and bases among each other, has the
embedder turn snippets into vectors, replaces the files' rows in the graph
inside one DuckDB transaction, and then replaces their points in Qdrant, one
request per file and one upsert. `/reindex` runs an incremental pass on the
worker thread and rebuilds the retriever from its result. `/search` asks Qdrant
and the in-memory hierarchy and enriches each hit from the graph; `/explain`
builds a prompt from a template file and a search and sends it to the LLM
router. The adapter turns a tool call into one HTTP request to the core, with a
timeout.

What is hard here, and what has to be right:

- **Two stores without a common transaction.** The graph is committed before
  Qdrant is touched, and a pass may raise or the process die in between. Rows,
  edges, points and `symbols_` must still agree wherever the code lets a reader
  combine them.
- **Ids that are handed out again.** Counters live in memory, are not reset by
  a rollback, and start over from `MAX(id) + 1` after a restart. No id in use
  may be given to another row.
- **Nested transactions with a `noexcept` rollback.** A write call joins its
  caller's transaction or opens its own; a rollback that fails is swallowed.
- **Objects without locks, used by two threads.** Only the bootstrap state keeps
  handlers away from the indexer and the retriever while they are filled.
- **Liveness of three threads**, with synchronous reads on the only io thread.
- **Names made in two places.** The parser qualifies a name where it declares
  it, the lookup where it uses it; a call finds its callee, a base its class and
  a definition its declaration only if the two agree.
- **A build that raises half way.** The retriever takes the corpus before it has
  the vectors of the modules, and goes on to answer from it.
- **Batches, retries, budgets, caches**: vectors paired with texts by position,
  retries that must not repeat what a caller has seen, a prompt that must fit, a
  template that is kept after one good reading only.
- **Asynchronous shutdown** of the adapter, whose map of sessions changes while
  `stop()` awaits.

The complete list, at the lines where it bites and with the properties that
cover it, is `hazards` in `PROJECT.json`.

## Modules

| Module | Models | Extends |
|---|---|---|
| `GraphTables` | the five tables, what "well formed" means, the effect of each DELETE | |
| `GraphStore` | the abstract store: calls and transactions are atomic | `GraphTables` |
| `DependencyGraph` | `storage.cpp`, statement by statement; implements `GraphStore` | `GraphTables` |
| `ModuleDependencies` | `transitive_module_dependencies`, round by round | `GraphTables` |
| `VectorStore` | the effect of a request on the Qdrant collection | |
| `Indexer` | passes over files, on both stores | `VectorStore` |
| `Parser` | the walk over one syntax tree | |
| `Linking` | the files of a pass parsed in turn, then resolved | `Parser` |
| `Embedder` | one `embed_batch` | |
| `Retriever` | which corpus a search runs on | |
| `Retrieval` | the hierarchy, its ranking, contexts; implements `Retriever` | `Embedder` |
| `ApiServer` | the three threads, sessions and handlers, shutdown | `Retriever` |
| `PromptBuilder` | builds one after another, with the template cache | |
| `Config` | where an option comes from and what its text stands for | |
| `LlmClient` | one client made and one `complete` or `stream` | `Config` |
| `McpAdapter` | the adapter's event loop | |
| `...Proofs` | theorems about the module they are named after; `DependencyGraphProofs` also about `ModuleDependencies`, `RetrievalProofs` also about `Embedder`, `LinkingProofs` also about `Parser` | that module |

An `MC` module gives the constants of a run that cannot be written in a `.cfg`.
An operator introduced by "Variant:" is a plausible mistake in the definition
that follows it; `mutants` in `PROJECT.json` says which property notices it.

### DependencyGraph

`db` is what is committed, `work` what the connection sees, `inTxn` the engine's
own idea of a transaction and `open` is `transaction_open_`: the code lets the
last two drift apart, so they are two variables. `next` holds the five
counters. `call` is the member function that runs, with its remaining items and
the rows it has prepared; `started` is `TransactionScope::started`. Each SQL
statement is an action (`DeleteTheCalls` ... `DeleteTheSymbols`, `PrepareSymbol`,
`PrepareEdge`, `PrepareInclude`, `Insert`), so that `Raise` and `Crash` come
between any two. `Raise` runs the destructor of the scope: it rolls back when
the call owns its transaction and leaves the caller's alone otherwise. A failed
COMMIT (`CommitFails`) and a failed ROLLBACK (`EngineGivesUp`) leave open what
became of the engine's transaction. The caller is the indexer: after an
exception inside its transaction it rolls back.

`GraphStore` is the promise: each call takes effect as a whole or not at all,
an explicit transaction makes its calls durable together, nothing else changes
the durable tables. `ImplementsStore` maps the tables to `db`, the open
transaction to `open` outside a call that opened it itself, and the staged
tables to what the last whole call left.

### ModuleDependencies

One `Round` is one turn of the `while` in `transitive_module_dependencies`
(`SearchSpec` is the specification of one search);
`frontier`, `visited`, `depth` and `dependencies` are its locals. The graph does
not change meanwhile: the handler runs on the thread that writes. The reference,
`AtDistance`, speaks of walks along symbols and knows neither frontiers nor the
module columns that the edges carry as copies.

### Indexer and VectorStore

`symbols`, `calls` and `next` are the graph as the indexer sees it,
`collection`, `points` and `ensured` the collection and `collection_once_`,
`recorded` is `symbols_`, `pass` the locals of `process_files`. What a file
holds is chosen when it is parsed, so files change at any time. The graph
transaction is one step (`CommitGraph` or `GraphFails`): that it is atomic is
what `ImplementsStore` says. Every Qdrant request is a step that returns
(`Returns`) or raises (`Raises`), and one that raises may have taken effect.
`Crash` and `Start` keep both stores and recompute the counter;
`LoseCollection` is somebody removing Qdrant's volume. `stored`, `together` and
`stale` are history variables that only the properties read: `stored[f]` holds
the declarations the rows of `f` were written from, each at its place in the
pass, and `Settled(f)` says that no file of the pass that last wrote `f` was
written again since.

### Parser and Linking

A tree is the sequence of its nodes in the order of the source, each with the
node above it; a name is the sequence of its words. The frames of `walk` that
are still open are `pending`, `known` is `known_classes_`, and each kind of
declaration is an action that emits a symbol and goes on with the children. The
tree is an input: tree-sitter is not modelled. Names that the code takes from
odd places stay odd. A definition behind a pointer is named by the whole text of
its declarator, split at each `::`: `T* a::A::f() {}` has the words `* a`, `A`
and `f()` (`FunctionLikeName`). A base keeps its template arguments (`BaseText`).
`Followed` joins such a text to the name before it, `Glued` says which word the
two words at the seam become. A reference declaration passes as a function, a
template is named by its last child, be it a declaration without a function's
declarator (`variable`). `Linking` lets `Parser` walk the files of a pass one after
another and then resolves: `CandidateNames`, `Resolved` and `Edges` are
`candidate_names`, `SymbolLookup::resolve` and the edges of a pass. `Indexer`
resolves by equal names, which is what is left of `Linking` when every name is
a bare one in one scope.

### Embedder, Retriever and Retrieval

Text `i` and its vector are the number `i`, so a misplaced vector shows. A reply
is any sequence of rows (too few, too many, repeated or missing indices, in any
order); `ExactReply` is what `infra/embeddings/server.py` sends.

`Retrieval` builds on it: `BuildStarts` is `build()` up to the embedding (the
buckets, the symbols of a summary, the corpus that is ready already),
`EmbedSummaries` the embedder's steps, `BuildEnds` and `BuildRaises` the two
ends. `Retrieve` is one `retrieve()`: modules by cosine and name, symbols of
these modules by score and name, Qdrant's hits instead when there are any, and
for each symbol its relations and as many lines of its context as fit.
`std::sort` leaves equal elements in any order, so `Firsts` returns a set of
results. Cosine and lexical scores are whatever the query assigns.

`Retriever` is what the server needs to know of this: which files the corpus
stems from, whether it is ready, whether its modules have records.
`ImplementsRetriever` maps one to the other.

### ApiServer

`main`, `boot` and `worker` say where each thread is; `session` is the
connection that `handle_session` serves, with the step of its handler;
`backlog` and `client` are the peers; one that has sent may give up and be gone
when the server reads. `RespondRaises` is a `dump()` that raises, on
a result or on an error's body. `Dispatch` is the test of the bootstrap
state and of `ready()` with which handlers begin, `Refuse` a method, path, body
or field that is not taken. `lookup` stands for `/deps`, `/callers` and
`/module`, which start by looking up what they are asked about; `/explain` does
too and then waits for the model (`Explain`, `Explained`). A corpus, the graph
and `symbols_` are sets of files here.

### PromptBuilder

A text is the sequence of the token counts of its lines, a template file the
list of its entries. `Load` takes the template from the cache or reads the file,
which may not open, not parse, be incomplete or bear another template's name.
`Render` fills the three sections, each under its own budget of items and
tokens, and puts them into the template; an unknown variable raises. `CutUser`
and `CutSystem` are the two uses of `trim_to_token_limit` in `build`.
`BuildAgain` is the next request, with the file edited in between or not. The 24
words of a summary are the code's.

### Config and LlmClient

`Lookup` goes through environment, `.env` file and defaults; `Parse` is the
parser of each kind of value with what `std::stoull` and `std::stoll` accept.
`Construct` loads the options and makes the client, or refuses. One call
follows. `Exchange` is what happens on the socket (connect, write, read, the
status, the body), `Local` what the client does with it: events one by one, the
callback that may refuse a chunk, the sleep before a retry. A body is its
sequence of events: a chunk, an event without content, an event that is
skipped, bad JSON. `fault` is the class of the last `RequestError`.

### McpAdapter

A step is what Node runs between two awaits. `sessions` is the Map, `stream` the
SSE response behind each session; `HandleMessages` looks the session up and
`BodyRead` or `BodyTooLate` uses it after the await. `stop` and `server` are the
locals of each call of `stop()`, one per signal, whose loop visits the live Map.
After `server.close()` no request comes in over a connection that was kept
alive; whether the SDK's `close()` lets other events in is left open.

## Runs

| Run | Bounds | Shows |
|---|---|---|
| `MCDependencyGraph` | 2 files, 1 module, ids up to 2 symbols and 1 row in every other table, batches of 1 and 2 | `TablesWellFormed`, `CountersAhead`, `AbandonedStaysOut`, and that the store implements `GraphStore` |
| `MCModuleDependencies` | 4 modules, every subset of 9 edges of three kinds with cycles and a NULL target, `max_depth` 0, 1, 3 | `NearestDistances` |
| `MCIndexer` | 2 files that call each other, one may declare a name twice and call itself, 4 ids | `RowsAreOneReading`, `EdgesAreCalls`, `EdgesKept`, `VectorsMatch`, `RecordedDenotes` |
| `MCLinking` | 77 trees of up to 14 nodes, alone and in pairs | `SymbolsInOrder`, `MembersAgree`, `CallsReachInnermost`, `CallersTogether`, `BasesNextToClassFound` |
| `MCRetrieval` | 4 corpora of up to 3 modules, built twice in batches of 1 and 2, 32 queries, every limit 2 | `VectorsInPlace`, `BestFirst`, `AlwaysFinds`, `HeadersFirst`, `ContextsFit`, and that it implements `Retriever` |
| `MCApiServer` | 2 clients, 2 files | `Confined`, `CorpusFollows`, `BootstrapSettles`, `EveryRequestEnds`, `ShutdownEnds` |
| `MCPromptBuilder` | 27 retrievals, 5 context limits, 6 divisions of the budget and 2 that are refused, 11 readings of the template | `WithinContext`, `SectionsWithinLimits`, `CutsAtTheEnd`, `FailedReadingsForgotten` |
| `MCLlmClient` | 99 settings of environment and file, 16 numbers in a `std::size_t`, bodies of up to 2 events | `WaitsDouble`, `GivesUpRightly`, `ReturnsTheReply`, `TriesAsConfigured`, `DeliveredOnce`, `CallEnds` |
| `MCMcpAdapter` | 3 sessions, 2 messages, both signals | `SessionsAreStreams`, `NoSessionOutlivesServer`, `SignalEnds`, `SecondSignalEnds` |
| `MCCallers`, `MCHits`, `MCFallback` | as for `MCIndexer` and `MCRetrieval`, with other contents | a document and the code disagree, see Findings |

No run checks a type invariant: those the modules state are proved, and the
types of `Parser`, `Linking`, `Retrieval` and `PromptBuilder` are parts of the
inductive invariants of their proofs.

Why these bounds are enough. Two files are what it takes for a pass to touch
one and not the other, which is what deletion, resolution and the vector sync
have to get right; a third behaves as the second. Two symbol ids give an edge
two ends that are deleted together or apart; four ids in `MCIndexer` allow a
pass over both files, an abandoned pass, a restart that hands ids out again and
a further pass. With one module `ensure_module` meets both a missing and an
existing name; that columns and keys stay right for any number of modules is
what the theorems add. Two clients are needed for one to hold up the other.
Three sessions let `stop()` find one, await its end, and meet one that was
opened and one that was closed meanwhile. Four modules have walks of every
length up to the largest limit, shortcuts and cycles. The trees have every kind
of node at least once, scopes nested twice, members inside and outside a class
that stands before or after the caller, and the same name in up to three scopes;
pairs of files add a name that two files declare. Three modules under a limit
of two leave one out, batches of one and two split them evenly and not, and a
second build replaces a corpus with another or with none. Sixteen numbers stand
for 2 ^ 64 so that -1 wraps to a count a run can use up. Eleven readings of the
template hold one of each way to fail. `MaxId`, `MaxBatch`, `MaxTexts`,
`MaxBuilds`, `MaxEvents` are bounds of the models, not of the code: a step that
would pass them is not taken.

`CHECK_DEADLOCK FALSE` stands where a call or a process comes to its end:
`MCModuleDependencies`, `MCLinking`, `MCRetrieval` and `MCFallback` (whose
builds are bounded), `MCLlmClient`, `MCMcpAdapter`. The other models never stop;
`ApiServer` says with `Over` that the process has ended.

### Fairness

- `ApiServer`: weak fairness of each thread (`Main`, `Boot`, `Worker`): the
  operating system schedules runnable threads, and inside a step a call to a
  backend returns or raises. `ClientsSpeak`: a client that has connected sends
  its request or leaves. The code does not enforce this, because the timeout of
  the beast stream does not bound the synchronous read; without it neither
  `EveryRequestEnds` nor `ShutdownEnds` holds.
- `LlmClient`: the calling thread goes on, and every exchange with the router
  ends. The second is again an assumption about the peer.
- `McpAdapter`: the event loop runs what is ready of `start()` and `stop()`.
  Nothing is assumed of the core, the peers or the signals, nor that a body that
  is awaited ever ends: the `server.close()` of Node 18 and later also stops the
  check of `requestTimeout`, and after it nothing else would end one. So
  `SignalEnds` has the hypothesis `EveryBodyEnds`, without which it is false;
  `SecondSignalEnds` has none. A process that fails has ended too for both; that
  it may fail, on a message whose session closed while its body was read, is a
  hazard that no property covers.
- The other specifications state safety only.

## Proofs

All theorems are about any values of the constants that satisfy the named
assumptions of the module they extend.

`DependencyGraphProofs`, for any files, module names, batch size and id bounds:

- `CountersStayAhead`: `Spec => [](TypeOK /\ CountersAhead)`. `CountersAhead`
  alone is not inductive: after a restart it follows from the committed rows
  only if `work` holds nothing else (`ClosedIsClean`), and `MAX(id) + 1` is
  above every id only if the ids of a table are bounded (`Bounded`, from which
  well-foundedness of the naturals gives a largest id). The conjunction `Core`
  is inductive; one lemma per operation, with `TransactionCore` and
  `StatementCore` for what the operations share.
- `GraphStaysWellFormed`: `Spec => []TablesWellFormed`, on top of `Core`. An
  INSERT keeps references intact because the rows it inserts were prepared so
  (`RowsReady`); the DELETE of the symbols does because the statements before
  it removed what refers to them (`DeletionSoFar`). Both are part of the
  inductive invariant `GraphInv`.
- `AbandonedWritesAreLost`: `Spec => AbandonedStaysOut`, from `RunningIsOpen`: a
  call runs only while `transaction_open_` is set.
- `GraphImplementsStore`: `Spec => ImplementsStore`. A statement in the middle of
  a call is a stutter of the store and the end of the call is the call, so the
  invariant must say what the statements before have done to the tables the
  last whole call left: `Deleting` table by table for `delete_files`, `Writing`
  for the inserts, `Staged` for what `whole` is between calls, and `TxnInv` for
  how the engine's transaction, `transaction_open_` and a raised exception
  belong together. Their conjunction with `GraphInv` is `StoreInv`.

Its last part is about the search, for any set of well-formed graphs and any
depths (`GraphsAreTables`; that the store only holds such graphs is
`GraphStaysWellFormed`):

- `RoundsAreSpheres`: before the round of depth `n` the frontier is the set of
  modules at distance `n - 1`, the visited set what is no further, and the
  result what lies between (`LoopInvariant`). Inductive because a walk of
  length `n + 1` passes, one edge before its end, a module that is not nearer
  than `n`.
- `DistancesAreExact`: the search returns each module at distance 1 to
  `max_depth` with its distance, and no other. An empty frontier may end it
  early because a module further out would have one at every distance before
  it; that modules of one id are one, and that the copied columns say what the
  symbols say, comes from well-formedness.

`IndexerProofs`, for any files, names, contents and bound on the ids: all five
safety properties (`RowsFollowAReading`, `EdgesJoinTheirCalls`, `EdgesStay`,
`VectorsFollowTheGraph`, `IdsInMemoryDenote`) and the type invariant, from one
inductive invariant `IndexInv`. It adds to the properties that no id in use, in
the graph or in `symbols_`, reaches `next` (`Counting`: without it a new row
could take the id of a recorded symbol); that the rows of a file lie one behind
the other as the pass numbered them (`Readings`: a commit must not make two
readings of one file meet, and a declaration is counted through its place);
that an edge joins files one pass wrote (`Passes`: otherwise rewriting one file
would touch an edge of a settled pass); and that a pass in its vector sync has
marked its files stale, has their rows at hand and has left points only of the
files it has still to visit (`Syncs`).

`ApiServerProofs`: `BootstrapIsAlone` (`Confined`) and `RetrieverFollowsIndexer`
(`CorpusFollows`). The bootstrap state follows the bootstrap thread
(`StateFollowsBoot`), and a handler that uses the indexer or the retriever was
let in by "ready", which is never taken back (`HandlersWaited`).

`LinkingProofs`, for any syntax trees in the order of the source
(`TreesAreInOrder`: a node comes after the one above it, with nothing but its
own descendants in between) and any files of a pass. The inductive invariant
`LinkingInv` (`LinkingInvariant`) has three parts:

- `WalkInv`: each open frame carries the scope of its node (`Path`), `pending`
  lists the frontier, which are the shown nodes not yet walked whose parent was
  walked, in the order of the source, and `symbols` lists the declarations
  among the nodes before it, each read rightly (`ReadRight`: the name of a class
  or a function, the bases of a class, and that a function is a method when it
  stands in a class or names one that was known). That an action preserves it rests on `FrontierSteps`: the frontier
  after a node is what is left of it with the node's children in front.
- `PassInv`: the rows of the pass end with the symbols of its last file.
- `EdgesInv`: once linked, the edges are those of all rows, and none before.

From it follow `SymbolsAreInOrder` (`SymbolsInOrder`); `CallersStayTogether`
(`CallersTogether`) and `CallsFindInnermost` (`CallsReachInnermost`), from what
`Resolved` returns for a list of candidates (`ResolvedFirst`: the first that
names a symbol, at its lowest index), from the candidates being longest first,
and from `NameTellsScopes`: the property speaks of the C++ scopes of the caller,
the lookup only knows its name, and the lemma says for which callers
(`TellsScopes`) the one gives the other; `BasesNextToClassAreFound`
(`BasesNextToClassFound`), because the parser's full name of a base that is one
word, without template arguments, is without that word the scope from which the
lookup starts; and
`MembersHaveOneName` (`MembersAgree`), where `QualifiesTo` says when
`QualifyName` gives a written name the meaning it has in its scope. That lemma
is where a class whose scopes repeat fails: `a::f`, written in `a` for
`a::a::f`, is taken for a full name.

`RetrievalProofs`, for any corpora, queries, limits and replies of the embedding
backend:

- `VectorsStandInPlace` (`VectorsInPlace`): a vector stands in the place of its
  text, since an accepted reply has each index of the batch once.
- `AnswersAreBest` (`BestFirst`): for any order of equal elements the firsts of
  a ranking have nothing better outside.
- `AnswersAreFound` (`AlwaysFinds`), which needs that a corpus with symbols has
  modules and each module members (`ModulesInv`): an empty rank of modules
  would leave the hierarchy without an answer.
- `SummariesNameHeadersFirst` (`HeadersFirst`) and `ContextsAreCut`
  (`ContextsFit`).
- `RetrievalImplementsRetriever` (`ImplementsRetriever`): a build is one step of
  `Retriever` where it starts and one where it ends, and the embedder's steps
  are stutters. The invariant `RetrievalInv` says what a build leaves behind at
  each of its ends (`VectorsInv`: vectors for all modules or for none).

`PromptBuilderProofs`, for any requests, budgets and template files: `PromptsFit`
(`WithinContext`), `SectionsFitTheirBudgets` (`SectionsWithinLimits`),
`OnlyEndsAreCut` (`CutsAtTheEnd`) and `NoTraceOfFailedReadings`
(`FailedReadingsForgotten`), from `PromptInvariant`. Its parts are the options
as the constructor accepted them, a cache that is empty or holds one complete
reading (`CacheInv`), and for each phase of a build what the texts are made
from (`TextsInv`): the system text is whole until the user text has no token
left, and what was cut from the user text is an end that did not fit.

`LlmClientProofs`, for any configuration, environment, file and width of a
number: `RetriesAreUsedUp` (`GivesUpRightly`), `ChunksAreDeliveredOnce` and
`ReplyIsDelivered`, from `Attempts` (how many requests were sent in each
phase), `Delivery` (what the callback has seen in each phase) and `Backoffs`;
`WaitsAreDoubled` (`WaitsDouble`): the current backoff and the time slept are
those of the attempt, computed from the start; `TriesAreConfigured`
(`TriesAsConfigured`): what `Lookup` finds in the environment or in the first
line of the file is what the client tries.

`McpAdapterProofs`: `MapHoldsOpenStreams` and `StopLeavesNoSession`, from the fact
that only the first `stop()` takes the server (`ServerTakenOnce`): a second
signal does not close what it has not taken.

Recursion. Walks, scopes, token counts, trimming, waits and template entries are
recursive functions on an interval or folds along a sequence, and what they
compute is proved for every length. The provers take no induction scheme, so
the induction is on sets: a non-empty set of naturals has a least element
(`LeastExists`, from the well-foundedness of the naturals), hence no
counterexample of least length exists (`Inductive`), and hence the function
that a recursive definition chooses exists (`RecursionExists`) and obeys its
equation.

Only model-checked: liveness (`BootstrapSettles`, `EveryRequestEnds`,
`ShutdownEnds`, `CallEnds`, `SignalEnds`, `SecondSignalEnds`), which with `ENABLED`
is out of the prover's reach. Every safety property of the runs is a theorem.

What the proofs corrected. Some properties held in every run and not in general:
the proof failed at a case that no instance had, and the property now names it. The user text may be left
with a blank line, so `CutsAtTheEnd` speaks of its tokens. `MembersAgree` leaves
out friends and a full name that begins with the same scopes twice;
`BasesNextToClassFound` a class that is declared by a qualified name, whose
bases the lookup seeks in the scope this name says and the parser in the one
around the declaration. `TreesAreInOrder` had to say that a parent's
descendants lie together.

## Findings

Where a document of the repository says one thing and the code does another:

- `MCCallers`: an update of a file loses the calls that unchanged files make
  into it, until the next full index; `mcp-adapter/src/tools.ts:130` promises
  all direct callers. `EdgesKept` is what does hold: the calls among the files
  of one pass keep their edges until one of these files is written again.
- `MCHits`: a point whose deletion failed may carry, after a restart, the id of
  another symbol, whose callers the hit then shows; `docs/api-internal.md:396`.
  `VectorsMatch` is what holds: it cannot happen to a file whose last sync
  finished.
- `MCFallback`: `/search` fails when Qdrant cannot be reached, where
  `docs/api-internal.md:181` says that it falls back to the hierarchy.
  `AlwaysFinds` is what holds: it falls back when Qdrant is disabled or finds
  nothing.

Behaviour that no document contradicts, but that a reader of the code may not
expect, met while translating it:

- An incremental pass narrows `symbols_` and the retriever's corpus to the
  changed files (`CorpusFollows` says that the two stay together): a symbol of
  an unchanged file is then answered with 404.
- An edge between two files of a pass may be lost although neither changed: it
  led to a third file that declares the same name and was rewritten. This is why
  `EdgesKept` asks for `Settled`.
- A base class in an enclosing scope gets no edge, only one next to the class
  (`BasesNextToClassFound`). Nor does a base with template arguments: in
  `class D : Base<int>` the name that is looked up is `Base<int>`, which no
  symbol has.
- The constructor of a class outside any namespace is named as the class
  (`MembersAgree`), and its calls are looked up from no scope.
- A definition behind a pointer is named by its declarator's text. With a
  qualifier, as in `T* a::A::f() {}`, it is no method, and its calls are looked
  up in scopes that do not exist and then by short name (`TellsScopes`).
- A message whose body never ends holds the adapter's shutdown until a second
  signal (`SignalEnds`, `SecondSignalEnds`).
- A negative count in the configuration wraps around (`TriesAsConfigured` leaves
  it out).
- After a build that raised, modules have no vectors and all score 0, so a
  search answers from the first modules by name.
- A template that is complete but uses an unknown variable is kept, and fails
  every request until a restart (`FailedReadingsForgotten`).
- `/explain` holds the only worker thread for as long as the model takes.

## Not modelled

- The git watcher: it runs `git diff --name-only` and splits the output.
  `update` takes any set of changed files, so what git leaves out (untracked
  files) or spells differently (quoted names) is among its inputs.
- The module interface (no state), containers, scripts and the router's
  configuration (other programs).
- tree-sitter, and from the parser: signatures, the columns of a symbol, and
  what `normalize_qualified_name` does to the names it is given (a name of the
  model is what it leaves; a pointer's declarator, which it splits as if it were
  a name, and a base, which it never sees, are modelled as they are written).
- `Indexer` keeps symbols and calls; inheritance is resolved and written as
  calls are, and includes refer to nothing.
- From configuration: finding the `.env` file, quotes and trimming, the
  resolution of paths, and the adapter's own `config.ts`.
- The formulas of scores, the wording of summaries, contexts and prompt lines;
  the JSON of requests and responses.
- From the adapter: refused requests, a connection on which no request comes,
  tool schemas, path handling, `waitForCoreReady`, which nothing calls. That the
  core goes on working on a request whose caller gave up is in `ApiServer`,
  whose client may be gone before the server reads what it sent.
- Peers of the core that fall silent in the middle of a request
  (`ClientsSpeak`) or of an exchange with the router: assumed away, see
  Fairness.
- A restart of an API server whose loop ended by itself: `main` never does it.

## Plan

Done, in this order: the dependency graph with its abstract store and theorems;
the indexer over both stores; the API server with the retriever; the module
search with its theorems; embedder, LLM client, adapter, prompt builder; the
parser and the resolution of names; the hierarchy and the retriever as a
refinement of what the server sees; configuration with the client it makes; the
template cache; `/explain`; the refinement of the store and of the retriever,
and every safety property, as theorems.

What is left to model: `Indexer` over the names of `Linking` (the composition
multiplies two large state spaces; a set of readings computed from `Trees` would
do), and the adapter's refused requests.

What is left to prove: facts across modules. That the atomic graph transaction of
`Indexer` is what `GraphStore` promises is argued above, not proved; a mapping
from `Indexer`'s rows to the tables would do it. And measures that every step
between two waits decreases, from which the liveness properties follow by
fairness alone.
