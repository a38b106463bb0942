------------------------- MODULE ModuleDependencies -------------------------
(***************************************************************************)
(* One call of DependencyGraph::transitive_module_dependencies             *)
(* (core/src/storage.cpp): a breadth-first search over the module columns  *)
(* of calls, inheritance and includes, cut at max_depth.  One step is one  *)
(* round of the loop; the caller holds the only thread that writes, so the *)
(* tables do not change meanwhile.  The code returns the rows ordered by   *)
(* depth, then id, and names instead of ids; a set of (id, depth) pairs    *)
(* loses neither a repetition at another depth nor a wrong depth.          *)
(***************************************************************************)
EXTENDS GraphTables

CONSTANTS Graphs,   \* the tables a call may find
          Depths    \* the values of max_depth

ASSUME GraphsAreTables ==
    /\ \A t \in Graphs : t \in Tables /\ WellFormed(t)
    /\ Depths \subseteq Nat

VARIABLES
    tables,      \* the store
    source,      \* the module_name asked for
    max_depth,
    depth,       \* the round about to run
    frontier, visited,
    dependencies,
    returned

searchVars == <<tables, source, max_depth, depth, frontier, visited, dependencies,
                returned>>

-----------------------------------------------------------------------------

\* The three SELECT DISTINCT of a round.
CalledFrom(t, F)    == {c.toModule : c \in {r \in t.calls : r.fromModule \in F}}
\* Variant: from a base to its derived classes.
DerivedOf(t, F)     == {c.fromModule : c \in {r \in t.inheritance : r.toModule \in F}}
InheritedBy(t, F)   == {c.toModule : c \in {r \in t.inheritance : r.fromModule \in F}}
IncludedFrom(t, F)  == {i.target : i \in {r \in t.includes :
                                            r.fromModule \in F /\ r.target # 0}}

NextIds(t, F) == CalledFrom(t, F) \cup InheritedBy(t, F) \cup IncludedFrom(t, F)

HasRow(t, id) == \E m \in t.modules : m.id = id

\* Modules not seen before, which visited.insert(...).second keeps.
Unseen(ids) == ids \ visited

SearchInit ==
    /\ tables \in Graphs
    /\ source \in ModuleNames
    /\ max_depth \in Depths
    /\ depth = 1
    /\ dependencies = {}
    /\ IF max_depth = 0 \/ ~ KnownModule(tables, source)
       THEN frontier = {} /\ visited = {}
       ELSE /\ frontier = {ModuleIdOf(tables, source)}
            /\ visited = frontier
    /\ returned = (frontier = {})

RoundsLeft == depth <= max_depth

Round ==
    /\ ~ returned
    /\ RoundsLeft
    /\ frontier # {}
    /\ LET next_frontier == Unseen(NextIds(tables, frontier)) IN
       /\ frontier' = next_frontier
       /\ visited' = visited \cup next_frontier
       /\ dependencies' = dependencies \cup
            {[id |-> m, depth |-> depth] :
                m \in {n \in next_frontier : HasRow(tables, n)}}
    /\ depth' = depth + 1
    /\ UNCHANGED <<tables, source, max_depth, returned>>

Return ==
    /\ ~ returned
    /\ ~ RoundsLeft \/ frontier = {}
    /\ returned' = TRUE
    /\ UNCHANGED <<tables, source, max_depth, depth, frontier, visited,
                   dependencies>>

SearchNext == Round \/ Return

SearchSpec == SearchInit /\ [][SearchNext]_searchVars

-----------------------------------------------------------------------------
(* The reference: walks along edges, without any search.                   *)

ModuleIds(t) == {m.id : m \in t.modules}

\* A symbol of module a calls or derives from a symbol of b, or includes b:
\* read from the symbols, not from the columns copied into the edges.
DependsOn(t, a, b) ==
    \E s \in t.symbols :
        /\ s.module = a
        /\ \/ \E e \in t.calls \cup t.inheritance :
                 /\ e.from = s.id
                 /\ \E target \in t.symbols : target.id = e.to /\ target.module = b
           \/ \E i \in t.includes : i.from = s.id /\ i.target = b /\ b # 0

\* b can be reached from a along exactly n edges.
Walk(t, p, n, a, b) ==
    /\ p[0] = a /\ p[n] = b
    /\ \A i \in 0..(n - 1) : DependsOn(t, p[i], p[i + 1])

Reaches(t, a, b, n) == \E p \in [0..n -> ModuleIds(t)] : Walk(t, p, n, a, b)

Nearer(t, a, b, n) == \E k \in 0..(n - 1) : Reaches(t, a, b, k)

\* b lies at distance n of a: a walk of that length and no shorter one.
AtDistance(t, a, b, n) == Reaches(t, a, b, n) /\ ~ Nearer(t, a, b, n)

-----------------------------------------------------------------------------

Asked == KnownModule(tables, source) /\ max_depth # 0

SearchTypeOK ==
    /\ tables \in Graphs /\ source \in ModuleNames /\ max_depth \in Depths
    /\ depth \in 1..(max_depth + 1)
    /\ frontier \subseteq ModuleIds(tables)
    /\ visited \subseteq ModuleIds(tables)
    /\ dependencies \subseteq [id : ModuleIds(tables), depth : 1..max_depth]
    /\ returned \in BOOLEAN

\* What the search has established before the round of this depth.
SearchedTo(n) ==
    LET from == ModuleIdOf(tables, source) IN
    /\ frontier = {m \in ModuleIds(tables) : AtDistance(tables, from, m, n)}
    /\ visited = {m \in ModuleIds(tables) : Nearer(tables, from, m, n + 1)}
    /\ dependencies = {d \in [id : ModuleIds(tables), depth : 1..n] :
                            AtDistance(tables, from, d.id, d.depth)}

\* The loop invariant of transitive_module_dependencies: after the rounds up
\* to n the frontier is the modules at distance n, visited the modules within
\* n, and what is listed the modules at distances 1 to n, with their distance.
LoopInvariant ==
    IF Asked THEN SearchedTo(depth - 1)
             ELSE frontier = {} /\ visited = {} /\ dependencies = {} /\ returned

\* transitive_module_dependencies returns every module the asked one depends
\* on at distance 1 to max_depth, once, with its least distance, and nothing
\* else: not the module itself, however the graph loops.
NearestDistances ==
    returned =>
        dependencies =
            IF KnownModule(tables, source)
            THEN {d \in [id : ModuleIds(tables), depth : 1..max_depth] :
                    AtDistance(tables, ModuleIdOf(tables, source), d.id, d.depth)}
            ELSE {}

=============================================================================
