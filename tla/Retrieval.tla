----------------------------- MODULE Retrieval -----------------------------
(***************************************************************************)
(* core/src/hierarchy.cpp and core/src/retriever.cpp on top of Embedder:   *)
(* a corpus is divided into modules, each module is summed up by some of   *)
(* its symbols and its summary is embedded; a query ranks the modules and  *)
(* then symbols, and every symbol found is shown with its relations and    *)
(* as much of its context as the token limit holds.  A summary is the list *)
(* of symbols it names, and the text that Embedder numbers i is that of    *)
(* module i.  A text is the number of its tokens, a name its place in the  *)
(* order of names.  Cosines are the scores a query gives to vectors.       *)
(***************************************************************************)
EXTENDS Embedder

CONSTANTS
    Corpora,    \* what build() may be called with: sequences of Symbols
    Symbols,
    Points,     \* the symbols that have a point in Qdrant
    Headers,    \* the files that are headers
    Queries,    \* [modules : scores of the vectors, symbols : of the names]
    module_top_k, symbol_top_k, public_symbol_limit,
    related_symbol_limit, context_token_limit,
    MaxBuilds   \* bound on the calls of build()

Relation == [name : Nat, file : Nat, tokens : Nat]
Symbol == [name : Nat, module : Nat, file : Nat, kind : 0..5, line : Nat,
           signature : Nat, source : Nat,
           callers : SUBSET Relation, callees : SUBSET Relation]

ASSUME OptionsArePositive ==
    {module_top_k, symbol_top_k, public_symbol_limit, related_symbol_limit,
     context_token_limit} \subseteq Nat \ {0}
ASSUME CorporaAreOfSymbols ==
    /\ \A s \in Symbols : s \in Symbol /\ IsFiniteSet(s.callers) /\ IsFiniteSet(s.callees)
    /\ Points \subseteq Symbols
    /\ \A c \in Corpora : c \in Seq(Symbols) /\ Cardinality({c[i].module : i \in DOMAIN c}) <= MaxTexts
ASSUME QueriesScore ==
    \A q \in Queries : /\ \A v \in 1..MaxTexts \cup {Stray} : q.modules[v] \in Int
                       /\ \A s \in Symbols : q.symbols[s.name] \in Int

VARIABLES
    symbols,        \* symbols_, of the retriever and of its hierarchy
    corpus_ready,
    attached,       \* storage_ is set
    modules,        \* modules_: [module, members, profile]
    vectors,        \* their embeddings, module by module; none before they are embedded
    building,       \* build() waits for the embeddings
    builds,
    answer          \* of the last retrieve()

retrievalVars == <<symbols, corpus_ready, attached, modules, vectors, building, builds, answer>>
vars == <<embedderVars, retrievalVars>>

NoAnswer == [outcome |-> "none"]

Init ==
    /\ EmbedderInit
    /\ symbols = <<>> /\ corpus_ready = FALSE /\ attached = FALSE
    /\ modules = <<>> /\ vectors = <<>>
    /\ building = FALSE /\ builds = 0 /\ answer = NoAnswer

-----------------------------------------------------------------------------
(* Sorting.  std::sort leaves equal elements in any order.                 *)

Lexicographic(u, v) ==
    \E i \in DOMAIN u : u[i] < v[i] /\ \A j \in 1..(i - 1) : u[j] = v[j]

\* The first limit elements of a set in the order of their keys.
Firsts(key, limit) ==
    LET S == DOMAIN key
        Before(x, y) == Lexicographic(key[x], key[y])
    IN  {p \in [1..Least(limit, Cardinality(S)) -> S] :
            /\ \A i, j \in DOMAIN p : i < j => p[i] # p[j] /\ ~ Before(p[j], p[i])
            /\ \A x \in S \ {p[i] : i \in DOMAIN p}, i \in DOMAIN p : ~ Before(x, p[i])}

-----------------------------------------------------------------------------
(* HierarchicalIndex::build.                                               *)

IsHeader(s) == s.file \in Headers
CandidateKeys(S) == [s \in S |-> <<s.kind, s.file, s.line, s.name>>]

\* Variant: headers and other files are sorted together.
SelectedTogether(members) == Firsts(CandidateKeys(members), public_symbol_limit)

Public(members) == {s \in members : IsHeader(s)}
Room(members) ==
    public_symbol_limit - Least(public_symbol_limit, Cardinality(Public(members)))

\* build_module_profile: the symbols of headers, then those of other files,
\* up to the limit.
Selected(members) ==
    UNION {{p \o f : f \in Firsts(CandidateKeys(members \ Public(members)), Room(members))} :
             p \in Firsts(CandidateKeys(Public(members)), public_symbol_limit)}

ModulesOf(indexed) == {indexed[i].module : i \in DOMAIN indexed}
MembersOf(indexed, m) == {indexed[i] : i \in {i \in DOMAIN indexed : indexed[i].module = m}}

\* The buckets in the order of the modules' names.
Buckets(indexed) ==
    LET bucket(m) == {[module |-> m, members |-> MembersOf(indexed, m), profile |-> p] :
                         p \in Selected(MembersOf(indexed, m))}
        all == UNION {bucket(m) : m \in ModulesOf(indexed)}
    IN  UNION {{b \in [DOMAIN names -> all] : \A i \in DOMAIN names : b[i] \in bucket(names[i])} :
                 names \in Firsts([m \in ModulesOf(indexed) |-> <<m>>], MaxTexts)}

\* Variant: a corpus is only ready when it was ready before.
StaysReady(indexed) == corpus_ready /\ indexed # <<>>
BecomesReady(indexed) == indexed # <<>>

\* build() up to the call of the embedding backend.
BuildStarts(indexed) ==
    /\ ~ building /\ builds < MaxBuilds
    /\ symbols' = indexed
    /\ corpus_ready' = BecomesReady(indexed)
    /\ modules' \in Buckets(indexed)
    /\ vectors' = <<>>
    /\ building' = (indexed # <<>>)
    /\ IF indexed = <<>> THEN UNCHANGED embedderVars ELSE EmbedBatch(Len(modules'))
    /\ builds' = builds + 1
    /\ answer' = NoAnswer
    /\ UNCHANGED attached

EmbedSummaries == building /\ Embed /\ UNCHANGED retrievalVars

BuildEnds ==
    /\ building /\ phase = "returned" /\ Len(result) = Len(modules)
    /\ vectors' = result
    /\ building' = FALSE
    /\ UNCHANGED <<embedderVars, symbols, corpus_ready, attached, modules, builds, answer>>

\* What was set before the embedding stays.
BuildRaises ==
    /\ building /\ phase = "raised"
    /\ building' = FALSE
    /\ UNCHANGED <<embedderVars, symbols, corpus_ready, attached, modules, vectors, builds, answer>>

Attach ==
    /\ ~ building /\ ~ attached
    /\ attached' = TRUE
    /\ UNCHANGED <<embedderVars, symbols, corpus_ready, modules, vectors, building, builds, answer>>

-----------------------------------------------------------------------------
(* HierarchicalIndex::search.                                              *)

\* A module without a vector has cosine 0.
ModuleScore(query, i) == IF vectors = <<>> THEN 0 ELSE query.modules[vectors[i]]

\* Variant: the first modules by name.
FirstModules(query) == Firsts([i \in DOMAIN modules |-> <<i>>], module_top_k)

RankModules(query) ==
    Firsts([i \in DOMAIN modules |-> <<- ModuleScore(query, i), i>>], module_top_k)

RankSymbols(query, candidates) ==
    LET key == [s \in candidates |->
                   <<- query.symbols[s.name], s.module, s.name, s.file, s.line>>]
    IN  Firsts(key, symbol_top_k)

-----------------------------------------------------------------------------
(* Retriever::enrich_symbol.                                               *)

Related(relations) ==
    Firsts([r \in relations |-> <<r.name, r.file>>], related_symbol_limit)

Lines(s, callers, callees) ==
    LET listed(relations) ==
          IF relations = <<>> THEN <<>>
          ELSE <<1>> \o [i \in DOMAIN relations |-> relations[i].tokens]
    IN  <<2, 2, s.signature, s.source>> \o listed(callers) \o listed(callees)

SumTo(lines, n) ==
    LET sum[i \in 0..n] == IF i = 0 THEN 0 ELSE sum[i - 1] + lines[i]
    IN  sum[n]

\* Variant: the line that passes the limit is still taken.
CutAfter(lines) ==
    CHOOSE n \in 0..Len(lines) :
        /\ \A k \in 1..n : SumTo(lines, k - 1) < context_token_limit
        /\ n < Len(lines) => SumTo(lines, n) >= context_token_limit

\* build_context stops at the first line that does not fit; a line without
\* tokens (and one for what the symbol does not have) is passed over.
Cut(lines) ==
    CHOOSE n \in 0..Len(lines) :
        /\ \A k \in 1..n : lines[k] = 0 \/ SumTo(lines, k) <= context_token_limit
        /\ n < Len(lines) => lines[n + 1] > 0 /\ SumTo(lines, n + 1) > context_token_limit

Contexts(s) ==
    {[symbol |-> s, callers |-> callers, callees |-> callees,
      kept |-> Cut(Lines(s, callers, callees))] :
        callers \in Related(s.callers), callees \in Related(s.callees)}

-----------------------------------------------------------------------------
(* Retriever::retrieve.                                                    *)

\* What Qdrant answers: points up to the limit it was given, best first.
Hits == {h \in UNION {[1..n -> Points] : n \in 0..symbol_top_k} :
            \A i, j \in DOMAIN h : i # j => h[i] # h[j]}

\* Variant: only what the vector store found.
HitsOnly(hits, ranked) == hits
Found(hits, ranked) == IF hits # <<>> THEN hits ELSE ranked

searchLeavesAlone ==
    <<embedderVars, symbols, corpus_ready, attached, modules, vectors, building, builds>>

Asked == corpus_ready /\ attached /\ ~ building /\ answer = NoAnswer

\* Without a vector store there are no hits.
Retrieve(query, store) ==
    /\ Asked
    /\ \E top \in RankModules(query) :
       \E ranked \in RankSymbols(query, UNION {modules[top[i]].members : i \in DOMAIN top}) :
       \E hits \in IF store = "answers" THEN Hits ELSE {<<>>} :
       LET found == Found(hits, ranked) IN
       \E contexts \in [DOMAIN found -> UNION {Contexts(found[i]) : i \in DOMAIN found}] :
          /\ \A i \in DOMAIN found : contexts[i].symbol = found[i]
          /\ answer' = [outcome |-> "ok", query |-> query, store |-> store, modules |-> top,
                        ranked |-> hits = <<>>, symbols |-> contexts]
    /\ UNCHANGED searchLeavesAlone

\* The query is not embedded, or the vector store was asked and raises.
RetrieveRaises(query, store) ==
    /\ Asked
    /\ answer' = [outcome |-> "raised", query |-> query, store |-> store]
    /\ UNCHANGED searchLeavesAlone

Answered == answer # NoAnswer /\ answer' = NoAnswer /\ UNCHANGED searchLeavesAlone

-----------------------------------------------------------------------------

Next ==
    \/ \E indexed \in Corpora : BuildStarts(indexed)
    \/ EmbedSummaries \/ BuildEnds \/ BuildRaises \/ Attach
    \/ \E query \in Queries : \/ \E store \in {"disabled", "answers"} : Retrieve(query, store)
                              \/ \E store \in {"not asked", "unreachable"} : RetrieveRaises(query, store)
    \/ Answered

Spec == Init /\ [][Next]_vars

-----------------------------------------------------------------------------
(* Properties.                                                             *)

Answers == answer # NoAnswer /\ answer.outcome = "ok"

\* As long as the backend sends one right row for each summary, no module that
\* was left out suits the query better than one that was taken, whatever the
\* batches and the order of the rows, and the hierarchy's symbols are the best
\* ones of these modules (hierarchy.cpp:109-147, 312-380, embedder.cpp:91-115).
BestFirst ==
    Answers /\ exact /\ vectors # <<>> =>
        LET taken == {answer.modules[i] : i \in DOMAIN answer.modules}
            score == answer.query.modules
            near(s) == answer.query.symbols[s.name]
            shown == {answer.symbols[i].symbol : i \in DOMAIN answer.symbols}
        IN  /\ \A i \in taken, j \in DOMAIN modules \ taken : score[i] >= score[j]
            /\ answer.ranked =>
                 \A s \in shown : \E i \in taken :
                    /\ s \in modules[i].members
                    /\ \A t \in (UNION {modules[j].members : j \in taken}) \ shown : near(s) >= near(t)

\* An answer is never without a symbol: not when Qdrant finds nothing, nor
\* when the modules of the corpus were never embedded (retriever.cpp:110-135).
AlwaysFinds == Answers => answer.symbols # <<>>

\* A symbol of another file is in a summary only next to all symbols that the
\* headers of its module declare (hierarchy.cpp:233-286).
HeadersFirst ==
    \A i \in DOMAIN modules :
        LET chosen == {modules[i].profile[k] : k \in DOMAIN modules[i].profile}
        IN  (\E s \in chosen : ~ IsHeader(s)) =>
                \A s \in modules[i].members : IsHeader(s) => s \in chosen

\* The context of a symbol holds its lines in their order up to the limit of
\* tokens and no more, and stops short of the limit only where the next line
\* would pass it; its relations are no more than related_symbol_limit, and
\* none that sorts before one of them is missing (retriever.cpp:153-267).
ContextsFit ==
    Answers => \A i \in DOMAIN answer.symbols :
        LET c == answer.symbols[i]
            lines == Lines(c.symbol, c.callers, c.callees)
            missing == c.symbol.callers \ {c.callers[k] : k \in DOMAIN c.callers}
        IN  /\ SumTo(lines, c.kept) <= context_token_limit
            /\ c.kept = Len(lines) \/ SumTo(lines, c.kept + 1) > context_token_limit
            /\ missing # {} => Len(c.callers) = related_symbol_limit
            /\ \A r \in missing, k \in DOMAIN c.callers : c.callers[k].name <= r.name

\* The server's view of the retriever: a corpus that is taken as a whole, is
\* ready unless it is empty, and has its modules' records once build()
\* returns, but not when it raises (module Retriever).
Files == {s.file : s \in Symbols}
R == INSTANCE Retriever WITH
        corpus <- {symbols[i].file : i \in DOMAIN symbols}, corpusReady <- corpus_ready,
        profiled <- vectors # <<>>, attached <- attached
ImplementsRetriever == R!RetrieverInit /\ [][R!RetrieverNext(Files)]_(R!retrieverVars)

\* "The retriever queries Qdrant first and falls back to the in-memory
\* hierarchy when vector search is disabled or unavailable."
FallsBack == answer # NoAnswer /\ answer.store = "unreachable" => answer.outcome = "ok"

=============================================================================
