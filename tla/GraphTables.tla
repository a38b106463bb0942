----------------------------- MODULE GraphTables -----------------------------
(***************************************************************************)
(* The five DuckDB tables of the dependency graph (core/src/storage.cpp)   *)
(* as a record of sets of rows, and what each SQL statement of the store   *)
(* does to them.  Names, signatures, line numbers and include paths are    *)
(* left out: no statement selects or joins on them here.                   *)
(***************************************************************************)
EXTENDS Integers, FiniteSets

CONSTANTS
    Files,        \* normalized source file paths
    ModuleNames   \* normalized module names

Id == Nat \ {0}

ModuleRow  == [id : Id, name : ModuleNames]
SymbolRow  == [id : Id, module : Id, file : Files]
\* A row of "calls" (caller to callee) or of "inheritance" (derived to base).
EdgeRow    == [id : Id, from : Id, to : Id, fromModule : Id, toModule : Id]
\* target = 0 stands for a NULL target_module_id.
IncludeRow == [id : Id, from : Id, fromModule : Id, target : Nat]

EdgeTables == {"calls", "inheritance"}
TableNames == {"modules", "symbols", "calls", "includes", "inheritance"}

Tables == [modules     : SUBSET ModuleRow,
           symbols     : SUBSET SymbolRow,
           calls       : SUBSET EdgeRow,
           includes    : SUBSET IncludeRow,
           inheritance : SUBSET EdgeRow]

EmptyTables == [modules |-> {}, symbols |-> {}, calls |-> {},
                includes |-> {}, inheritance |-> {}]

-----------------------------------------------------------------------------
(* The four DELETE statements of delete_files, in the code's order.        *)

SymbolIdsOf(t, F) == {s.id : s \in {r \in t.symbols : r.file \in F}}

WithoutEdges(rows, ids) == {r \in rows : r.from \notin ids /\ r.to \notin ids}

\* Variant: only the edges that start in the files.
DeleteOutgoingCalls(t, F) ==
    [t EXCEPT !.calls = {r \in @ : r.from \notin SymbolIdsOf(t, F)}]

DeleteCalls(t, F) ==
    [t EXCEPT !.calls = WithoutEdges(@, SymbolIdsOf(t, F))]

DeleteIncludes(t, F) ==
    [t EXCEPT !.includes = {r \in @ : r.from \notin SymbolIdsOf(t, F)}]

DeleteInheritance(t, F) ==
    [t EXCEPT !.inheritance = WithoutEdges(@, SymbolIdsOf(t, F))]

DeleteSymbols(t, F) ==
    [t EXCEPT !.symbols = {r \in @ : r.file \notin F}]

\* All that a call of delete_files promises: the rows of the files are gone,
\* and with them every edge that starts or ends in one of their symbols.
FilesDeleted(t, F) ==
    LET ids == SymbolIdsOf(t, F) IN
    [t EXCEPT !.symbols     = {r \in @ : r.file \notin F},
              !.calls       = WithoutEdges(@, ids),
              !.inheritance = WithoutEdges(@, ids),
              !.includes    = {r \in @ : r.from \notin ids}]

-----------------------------------------------------------------------------
(* Lookups.                                                                *)

KnownSymbol(t, s) == \E r \in t.symbols : r.id = s
ModuleOf(t, s) == (CHOOSE r \in t.symbols : r.id = s).module

KnownModule(t, name) == \E r \in t.modules : r.name = name
ModuleIdOf(t, name) == (CHOOSE r \in t.modules : r.name = name).id

-----------------------------------------------------------------------------
(* What makes a set of tables a graph.                                     *)

\* Primary keys, and one row for each module name.
KeysUnique(t) ==
    /\ \A table \in TableNames : \A r1, r2 \in t[table] :
            r1.id = r2.id => r1 = r2
    /\ \A m1, m2 \in t.modules : m1.name = m2.name => m1 = m2

EdgesJoin(t, rows) ==
    \A e \in rows :
        /\ \E s \in t.symbols : s.id = e.from /\ s.module = e.fromModule
        /\ \E s \in t.symbols : s.id = e.to /\ s.module = e.toModule

IncludesJoin(t, rows) ==
    \A i \in rows :
        /\ \E s \in t.symbols : s.id = i.from /\ s.module = i.fromModule
        /\ i.target # 0 => \E m \in t.modules : m.id = i.target

\* No dangling reference, and the module columns copied into an edge agree
\* with the module of the symbol the edge names.
ReferencesResolve(t) ==
    /\ \A s \in t.symbols : \E m \in t.modules : m.id = s.module
    /\ EdgesJoin(t, t.calls)
    /\ EdgesJoin(t, t.inheritance)
    /\ IncludesJoin(t, t.includes)

WellFormed(t) == KeysUnique(t) /\ ReferencesResolve(t)

=============================================================================
