--------------------------- MODULE DependencyGraph ---------------------------
(***************************************************************************)
(* core/src/storage.cpp: DuckDbStorageStore, reached through the           *)
(* DependencyGraph and Storage wrappers.  One connection, one thread.      *)
(* Every SQL statement is a step, so that an exception or a crash can fall *)
(* between any two statements of a call.                                   *)
(*                                                                         *)
(* DuckDB itself is external: a statement takes effect or raises; what a   *)
(* failed COMMIT or ROLLBACK does to the engine's transaction is left      *)
(* open.  The caller is the one in core/src/indexer.cpp and the tests: it  *)
(* calls one member function at a time and, when a call raises inside a    *)
(* transaction it began itself, rolls back.                                *)
(***************************************************************************)
EXTENDS GraphTables, Sequences

CONSTANTS
    NoName,     \* the empty target_module_name of an IncludeEdge
    MaxBatch,   \* bound: elements in one write call
    MaxId       \* bound, for each table: the largest id handed out

ASSUME NoNameIsNoModule == NoName \notin ModuleNames
ASSUME BoundsAreNat == MaxBatch \in Nat /\ MaxId \in [TableNames -> Nat]

VARIABLES
    db,       \* committed tables: what survives the process
    work,     \* tables as the connection sees them
    inTxn,    \* DuckDB has a transaction open on the connection
    ready,    \* ready_
    open,     \* transaction_open_
    next,     \* next_symbol_id_, next_module_id_, ...
    call,     \* the member function that is running, with its locals
    raised,   \* a call raised inside the caller's own transaction
    whole     \* history: the tables as the last whole call left them

engineVars == <<db, work, inTxn>>
callerVars == <<raised, whole>>
vars == <<db, work, inTxn, ready, open, next, call, raised, whole>>

SymbolItem  == [file : Files, name : ModuleNames]
EdgeItem    == [from : Id, to : Id]
IncludeItem == [from : Id, name : ModuleNames \cup {NoName}]

\* The write functions, named for the table they fill.
WriteTables == {"symbols", "calls", "inheritance", "includes"}
ItemOf(table) == CASE table = "symbols"  -> SymbolItem
                   [] table = "includes" -> IncludeItem
                   [] OTHER              -> EdgeItem
RowOf(table)  == CASE table = "symbols"  -> SymbolRow
                   [] table = "includes" -> IncludeRow
                   [] OTHER              -> EdgeRow

\* "started" is TransactionScope::started: the call owns its transaction.
Idle == [fn |-> "idle"]
DeleteCall == [fn : {"delete_files"}, started : BOOLEAN, files : SUBSET Files,
               step : {"calls", "includes", "inheritance", "symbols", "end"}]
WriteCall(table) ==
    [fn : {"write"}, table : {table}, started : BOOLEAN,
     items : Seq(ItemOf(table)), rows : SUBSET RowOf(table),
     step : {"prepare", "end"}]
CallOK ==
    \/ call = Idle
    \/ call \in DeleteCall
    \/ \E table \in WriteTables : call \in WriteCall(table)

TypeOK ==
    /\ db \in Tables
    /\ work \in Tables
    /\ inTxn \in BOOLEAN
    /\ ready \in BOOLEAN
    /\ open \in BOOLEAN
    /\ next \in [TableNames -> Id]
    /\ CallOK
    /\ raised \in BOOLEAN
    /\ whole \in Tables

-----------------------------------------------------------------------------
(* Construction and crash.                                                 *)

Ids(t, table) == {r.id : r \in t[table]}
\* COALESCE(MAX(id), 0) + 1
AfterLargest(ids) ==
    IF ids = {} THEN 1
    ELSE 1 + CHOOSE m \in ids : \A i \in ids : i <= m
\* Variant: MAX(id) without the + 1.
CountersAtLargest(t) == [table \in TableNames |-> AfterLargest(Ids(t, table)) - 1]
RefreshedCounters(t) == [table \in TableNames |-> AfterLargest(Ids(t, table))]

Init ==
    /\ db = EmptyTables
    /\ work = EmptyTables
    /\ inTxn = FALSE
    /\ ready = FALSE
    /\ open = FALSE
    /\ next = [table \in TableNames |-> 1]
    /\ call = Idle
    /\ raised = FALSE
    /\ whole = EmptyTables

\* The constructor succeeds: connect, CREATE TABLE IF NOT EXISTS, counters.
\* When it fails it leaves ready_ false: no step of this model.
Open ==
    /\ ~ready
    /\ ready' = TRUE
    /\ next' = RefreshedCounters(db)
    /\ UNCHANGED <<engineVars, open, call, callerVars>>

\* The process dies; the engine discards what was not committed.
Crash ==
    /\ ready
    /\ ready' = FALSE
    /\ work' = db
    /\ inTxn' = FALSE
    /\ open' = FALSE
    /\ call' = Idle
    /\ raised' = FALSE
    /\ whole' = db
    /\ next' = [table \in TableNames |-> 1]
    /\ UNCHANGED db

-----------------------------------------------------------------------------
(* Transactions.                                                           *)

EngineBegin == ~inTxn /\ inTxn' = TRUE /\ UNCHANGED <<db, work>>

EngineCommit == inTxn /\ db' = work /\ inTxn' = FALSE /\ UNCHANGED work

EngineRollback == inTxn /\ work' = db /\ inTxn' = FALSE /\ UNCHANGED db

\* After COMMIT or ROLLBACK raised, or ROLLBACK succeeded: the transaction
\* is as it was, or it has ended without effect.
EngineGivesUp == EngineRollback \/ UNCHANGED engineVars

\* rollback_transaction is noexcept: the flag is cleared whatever became of
\* the ROLLBACK statement.
RollbackEffect == EngineGivesUp /\ open' = FALSE

Free == ready /\ call = Idle

BeginTransaction ==
    /\ Free
    /\ ~open
    /\ EngineBegin
    /\ open' = TRUE
    /\ UNCHANGED <<ready, next, call, callerVars>>

\* Variant: commit_transaction does not look at transaction_open_.
CommitUnflagged ==
    /\ Free
    /\ ~raised
    /\ EngineCommit
    /\ open' = FALSE
    /\ UNCHANGED <<ready, next, call, callerVars>>

CommitTransaction ==
    /\ Free
    /\ open
    /\ ~raised
    /\ EngineCommit
    /\ open' = FALSE
    /\ UNCHANGED <<ready, next, call, callerVars>>

\* COMMIT raises before transaction_open_ is cleared.
CommitFails ==
    /\ Free
    /\ open
    /\ ~raised
    /\ EngineGivesUp
    /\ raised' = TRUE
    /\ UNCHANGED <<ready, open, next, call, whole>>

RollbackTransaction ==
    /\ Free
    /\ open
    /\ RollbackEffect
    /\ raised' = FALSE
    /\ whole' = db
    /\ UNCHANGED <<ready, next, call>>

-----------------------------------------------------------------------------
(* Calls.  An empty argument returns at once and is no step.               *)

\* begin_transaction_if_needed, then the body starts at its first statement.
\* When BEGIN raises nothing has changed: no step.
Enter(body) ==
    /\ Free
    /\ ~raised
    /\ IF open THEN UNCHANGED engineVars ELSE EngineBegin
    /\ open' = TRUE
    /\ call' = body
    /\ UNCHANGED <<ready, next, callerVars>>

\* Variant: the scope takes the caller's transaction for its own.
DeleteFilesOwning(F) ==
    Enter([fn |-> "delete_files", started |-> TRUE, files |-> F, step |-> "calls"])

DeleteFiles(F) ==
    Enter([fn |-> "delete_files", started |-> ~open, files |-> F, step |-> "calls"])

Write(table, items) ==
    Enter([fn |-> "write", table |-> table, started |-> ~open,
           items |-> items, rows |-> {}, step |-> "prepare"])

\* transaction.commit() at the end of a body: COMMIT when the call owns its
\* transaction, nothing when an outer one is running.
Finish ==
    /\ call # Idle
    /\ call.step = "end"
    /\ IF call.started THEN EngineCommit /\ open' = FALSE
                       ELSE UNCHANGED <<engineVars, open>>
    /\ call' = Idle
    /\ whole' = work
    /\ UNCHANGED <<ready, next, raised>>

\* An exception leaves the body: ~TransactionScope rolls back its own
\* transaction; inside the caller's transaction that is the caller's to do.
\* When it was the INSERT of ensure_module that failed, its id is spent.
Raise ==
    /\ call # Idle
    /\ IF call.started
         THEN RollbackEffect /\ UNCHANGED raised
         ELSE raised' = TRUE /\ UNCHANGED <<engineVars, open>>
    /\ call' = Idle
    /\ \/ UNCHANGED next
       \/ /\ call.fn = "write" /\ call.table \in {"symbols", "includes"}
          /\ call.step = "prepare" /\ next.modules <= MaxId.modules
          /\ next' = [next EXCEPT !.modules = @ + 1]
    /\ UNCHANGED <<ready, whole>>

RunningDelete(step) == call.fn = "delete_files" /\ call.step = step

DeleteStatement(step, after, t) ==
    /\ RunningDelete(step)
    /\ work' = t
    /\ call' = [call EXCEPT !.step = after]
    /\ UNCHANGED <<db, inTxn, ready, open, next, callerVars>>

DeleteTheCalls ==
    DeleteStatement("calls", "includes", DeleteCalls(work, call.files))
DeleteTheIncludes ==
    DeleteStatement("includes", "inheritance", DeleteIncludes(work, call.files))
DeleteTheInheritance ==
    DeleteStatement("inheritance", "symbols", DeleteInheritance(work, call.files))
DeleteTheSymbols ==
    DeleteStatement("symbols", "end", DeleteSymbols(work, call.files))
DeleteStep ==
    DeleteTheCalls \/ DeleteTheIncludes \/ DeleteTheInheritance \/ DeleteTheSymbols

-----------------------------------------------------------------------------
(* The bodies of the write functions: one element of the batch at a time,  *)
(* then one INSERT of all the rows.                                        *)

Preparing(table) ==
    /\ call.fn = "write"
    /\ call.table = table
    /\ call.step = "prepare"
    /\ call.items # <<>>

\* ensure_module looks a module up by its name and inserts it when missing.
WithModule(t, name, id) ==
    IF KnownModule(t, name) THEN t
    ELSE [t EXCEPT !.modules = @ \cup {[id |-> id, name |-> name]}]

RowReady(row, t, counters) ==
    /\ work' = t
    /\ next' = counters
    /\ call' = [call EXCEPT !.items = Tail(@), !.rows = @ \cup {row}]
    /\ UNCHANGED <<db, inTxn, ready, open, callerVars>>

\* The counters after one row of the table, and one module if it was missing.
Counted(table, t, name) ==
    [next EXCEPT ![table] = @ + 1,
                 !.modules = IF KnownModule(t, name) THEN @ ELSE @ + 1]

PrepareSymbol ==
    /\ Preparing("symbols")
    /\ LET item == Head(call.items)
           t == WithModule(work, item.name, next.modules)
           row == [id |-> next.symbols, module |-> ModuleIdOf(t, item.name),
                   file |-> item.file]
       IN  RowReady(row, t, Counted("symbols", work, item.name))

\* An edge whose end has no row raises "Unknown symbol id": only Raise can
\* follow.  write_calls and write_inheritances are the same code.
PrepareEdge(table) ==
    /\ Preparing(table)
    /\ LET item == Head(call.items)
           row == [id |-> next[table], from |-> item.from, to |-> item.to,
                   fromModule |-> ModuleOf(work, item.from),
                   toModule |-> ModuleOf(work, item.to)]
       IN  /\ KnownSymbol(work, item.from)
           /\ KnownSymbol(work, item.to)
           /\ RowReady(row, work, [next EXCEPT ![table] = @ + 1])

PrepareInclude ==
    /\ Preparing("includes")
    /\ LET item == Head(call.items)
           unnamed == item.name = NoName
           t == IF unnamed THEN work ELSE WithModule(work, item.name, next.modules)
           row == [id |-> next.includes, from |-> item.from,
                   fromModule |-> ModuleOf(work, item.from),
                   target |-> IF unnamed THEN 0 ELSE ModuleIdOf(t, item.name)]
       IN  /\ KnownSymbol(work, item.from)
           /\ RowReady(row, t, IF unnamed THEN [next EXCEPT !.includes = @ + 1]
                               ELSE Counted("includes", work, item.name))

\* The PRIMARY KEY makes the INSERT raise when an id is taken.
Insert ==
    /\ call.fn = "write"
    /\ call.step = "prepare"
    /\ call.items = <<>>
    /\ \A row \in call.rows : row.id \notin Ids(work, call.table)
    /\ work' = [work EXCEPT ![call.table] = @ \cup call.rows]
    /\ call' = [call EXCEPT !.step = "end"]
    /\ UNCHANGED <<db, inTxn, ready, open, next, callerVars>>

PrepareRow ==
    PrepareSymbol \/ (\E table \in EdgeTables : PrepareEdge(table)) \/ PrepareInclude

-----------------------------------------------------------------------------

\* Symbol ids a caller may pass to a write call, known or not.
SomeId == 1..MaxId.symbols
Batches(S) == UNION {[1..n -> S] : n \in 1..MaxBatch}
Fits(table, items) == next[table] + Len(items) <= MaxId[table] + 1

WriteSome(table, Items) ==
    \E items \in Batches(Items) : Fits(table, items) /\ Write(table, items)

WriteSymbols == WriteSome("symbols", SymbolItem)
WriteEdges   == \E table \in EdgeTables :
                    WriteSome(table, [from : SomeId, to : SomeId])
WriteIncludes == WriteSome("includes", [from : SomeId, name : ModuleNames \cup {NoName}])
DeleteSome    == \E F \in (SUBSET Files) \ {{}} : DeleteFiles(F)

Next ==
    \/ Open \/ Crash
    \/ BeginTransaction \/ CommitTransaction \/ CommitFails \/ RollbackTransaction
    \/ DeleteSome \/ WriteSymbols \/ WriteEdges \/ WriteIncludes
    \/ DeleteStep \/ PrepareRow \/ Insert \/ Finish \/ Raise

Spec == Init /\ [][Next]_vars

-----------------------------------------------------------------------------
(* Properties.                                                             *)

\* After every statement, committed or not, keys are unique and no edge,
\* include or symbol points to a row that is gone: delete_files removes the
\* edges before the symbols, the write functions insert modules first and
\* refuse unknown symbols (storage.cpp:724-772, 293-590).
TablesWellFormed == WellFormed(db) /\ WellFormed(work)

\* No id that is in use, committed, uncommitted or about to be inserted, can
\* be handed out again: counters survive a rollback and start above the
\* largest committed id after a restart (storage.cpp:798-816, 961-968).
PendingRows(table) ==
    IF call.fn = "write" /\ call.table = table THEN call.rows ELSE {}
CountersAhead ==
    ready => \A table \in TableNames :
        \A r \in db[table] \cup work[table] \cup PendingRows(table) :
            r.id < next[table]

(* What the two invariants above rest on.                                  *)

\* The rows a write call has prepared can be inserted as they stand.
RowsReady ==
    call.fn = "write" =>
        /\ \A r1, r2 \in call.rows : r1.id = r2.id => r1 = r2
        /\ call.table = "symbols" =>
              \A r \in call.rows : \E m \in work.modules : m.id = r.module
        /\ call.table \in EdgeTables => EdgesJoin(work, call.rows)
        /\ call.table = "includes" => IncludesJoin(work, call.rows)

\* What the DELETE statements that already ran have cleared.
DeletionSoFar ==
    call.fn = "delete_files" =>
        LET ids == SymbolIdsOf(work, call.files) IN
        /\ call.step \in {"includes", "inheritance", "symbols"} =>
              work.calls = WithoutEdges(work.calls, ids)
        /\ call.step \in {"inheritance", "symbols"} =>
              \A i \in work.includes : i.from \notin ids
        /\ call.step = "symbols" =>
              work.inheritance = WithoutEdges(work.inheritance, ids)

ClosedIsClean == ~ready => call = Idle /\ work = db

\* When a ROLLBACK failed and left the engine's transaction open, its rows
\* are never made durable: every later BEGIN raises and commit_transaction
\* does nothing without the flag (storage.cpp:256-286).
AbandonedStaysOut == [][inTxn /\ ~open => db' = db]_vars

-----------------------------------------------------------------------------
(* Refinement.  Between the statements of a call, and after one that       *)
(* raised, the store still shows the tables the last whole call left.      *)

InCallersTxn == open /\ ~(call # Idle /\ call.started)

Store == INSTANCE GraphStore WITH
    tables <- db,
    open   <- InCallersTxn,
    staged <- whole

\* Every call takes effect as a whole or not at all, whatever statement
\* raises and wherever the process dies.
ImplementsStore == Store!StoreSpec

=============================================================================
