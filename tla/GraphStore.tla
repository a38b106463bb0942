------------------------------ MODULE GraphStore ------------------------------
(***************************************************************************)
(* What the dependency graph store promises its callers: every call of a   *)
(* write operation takes effect as a whole or not at all, an explicit      *)
(* transaction groups calls so that all or none of them become durable,    *)
(* and nothing else ever changes the durable tables.  DependencyGraph      *)
(* implements this specification statement by statement.                   *)
(***************************************************************************)
EXTENDS GraphTables

VARIABLES
    tables,   \* the durable tables
    open,     \* the caller runs an explicit transaction
    staged    \* the tables as that transaction sees them

storeVars == <<tables, open, staged>>

StoreInit ==
    /\ tables = EmptyTables
    /\ open = FALSE
    /\ staged = EmptyTables

-----------------------------------------------------------------------------
(* The effect of one whole call on the tables it works on.                 *)

\* Rows are only added, only to the named tables, and keys stay unique.
Grown(t, t2, names) ==
    /\ \A table \in names : t[table] \subseteq t2[table]
    /\ \A table \in TableNames \ names : t2[table] = t[table]
    /\ KeysUnique(t2)

FilesDeletedIn(t, t2) == \E F \in SUBSET Files : t2 = FilesDeleted(t, F)

\* Modules appear only for the symbols that are written with them.
SymbolsWritten(t, t2) ==
    /\ Grown(t, t2, {"modules", "symbols"})
    /\ \A s \in t2.symbols \ t.symbols : \E m \in t2.modules : m.id = s.module
    /\ \A m \in t2.modules \ t.modules :
            \E s \in t2.symbols \ t.symbols : s.module = m.id

EdgesWritten(t, t2, table) ==
    /\ Grown(t, t2, {table})
    /\ EdgesJoin(t, t2[table] \ t[table])

IncludesWritten(t, t2) ==
    /\ Grown(t, t2, {"modules", "includes"})
    /\ \A i \in t2.includes \ t.includes :
            /\ \E s \in t.symbols : s.id = i.from /\ s.module = i.fromModule
            /\ i.target # 0 => \E m \in t2.modules : m.id = i.target
    /\ \A m \in t2.modules \ t.modules :
            \E i \in t2.includes \ t.includes : i.target = m.id

CallDone(t, t2) ==
    \/ FilesDeletedIn(t, t2)
    \/ SymbolsWritten(t, t2)
    \/ \E table \in EdgeTables : EdgesWritten(t, t2, table)
    \/ IncludesWritten(t, t2)

-----------------------------------------------------------------------------

Begin == ~open /\ open' = TRUE /\ staged' = tables /\ UNCHANGED tables

Commit == open /\ open' = FALSE /\ tables' = staged /\ staged' = staged

\* A rollback, a crash, or a commit that failed.
Abort == open /\ open' = FALSE /\ staged' = tables /\ UNCHANGED tables

CallInTransaction ==
    /\ open
    /\ CallDone(staged, staged')
    /\ UNCHANGED <<tables, open>>

CallAlone ==
    /\ ~open
    /\ CallDone(tables, tables')
    /\ staged' = tables'
    /\ UNCHANGED open

StoreNext == Begin \/ Commit \/ Abort \/ CallInTransaction \/ CallAlone

StoreSpec == StoreInit /\ [][StoreNext]_storeVars

=============================================================================
