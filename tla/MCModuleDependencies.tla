------------------------ MODULE MCModuleDependencies ------------------------
EXTENDS ModuleDependencies

\* Module i holds symbol i, so an edge between two modules is an edge between
\* their symbols.
Module(name, i) == [id |-> i, name |-> name]
Edge(i, j, k) == [id |-> k, from |-> i, to |-> j, fromModule |-> i, toModule |-> j]
Include(i, j, k) == [id |-> k, from |-> i, fromModule |-> i, target |-> j]

CONSTANTS a, b, c, d, other

Rows == [modules |-> {Module(a, 1), Module(b, 2), Module(c, 3), Module(d, 4)},
         symbols |-> {[id |-> i, module |-> i, file |-> "f"] : i \in 1..4}]

Calls == {Edge(1, 2, 1), Edge(2, 3, 2), Edge(3, 1, 3), Edge(3, 4, 4)}
Bases == {Edge(1, 3, 1), Edge(4, 4, 2)}
Targets == {Include(1, 4, 1), Include(4, 2, 2), Include(3, 0, 3)}

AllGraphs ==
    {[modules |-> Rows.modules, symbols |-> Rows.symbols, calls |-> cs,
      inheritance |-> bs, includes |-> is] :
        cs \in SUBSET Calls, bs \in SUBSET Bases, is \in SUBSET Targets}
=============================================================================
