------------------------ MODULE DependencyGraphProofs ------------------------
(***************************************************************************)
(* For all files, modules, batch sizes and id bounds.  Of the store two    *)
(* invariants are inductive, the second on top of the first; the search    *)
(* over the modules comes last.                                            *)
(*                                                                         *)
(* Core: types, and every counter above every id in use.  A counter only   *)
(* rises while the process lives and never looks at what a rollback took   *)
(* away; a restart recomputes it from the committed rows, of which there   *)
(* must be a largest (Bounded), and finds no other rows (ClosedIsClean).   *)
(*                                                                         *)
(* GraphInv: the tables are well formed, the rows a write call has         *)
(* prepared can be inserted as they stand (RowsReady), and a deletion that *)
(* has come to the symbols has left no edge or include that needs them     *)
(* (DeletionSoFar).                                                        *)
(***************************************************************************)
EXTENDS DependencyGraph, ModuleDependencies, WellFoundedInduction, TLAPS

\* A non-empty set of naturals with a bound has a largest element, so that
\* the counter MAX(id) + 1 is well defined.
LEMMA LargestExists ==
    ASSUME NEW ids \in SUBSET Nat, ids # {},
           NEW bound \in Nat, \A i \in ids : i < bound
    PROVE  \E m \in ids : \A i \in ids : i <= m
<1> DEFINE uppers == {n \in Nat : \A i \in ids : i <= n}
<1>1. uppers \in SUBSET Nat /\ uppers # {}
  <2>1. bound \in uppers  OBVIOUS
  <2> QED  BY <2>1
<1> HIDE DEF uppers
<1>2. PICK least \in uppers : \A n \in uppers : least <= n
  <2> DEFINE less == OpToRel(<, Nat)
  <2>1. IsWellFoundedOn(less, Nat)
    BY NatLessThanWellFounded
  <2>2. \A x, y \in Nat : y < x => <<y, x>> \in less
    BY DEF OpToRel
  <2> HIDE DEF less
  <2>3. PICK x \in uppers : \A y \in uppers : ~ (<<y, x>> \in less)
    BY <1>1, <2>1, WFMin
  <2>4. ASSUME NEW n \in uppers PROVE x <= n
    <3>1. x \in Nat /\ n \in Nat
      BY <1>1
    <3>2. ~ (n < x)
      BY <3>1, <2>2, <2>3
    <3> QED  BY <3>1, <3>2
  <2> QED  BY <2>4
<1>3. least \in Nat /\ \A i \in ids : i <= least
  BY <1>2 DEF uppers
<1>4. CASE least \in ids
  BY <1>3, <1>4
<1>5. CASE least \notin ids
  <2>1. PICK i0 \in ids : TRUE  OBVIOUS
  <2>2. least - 1 \in Nat /\ \A i \in ids : i <= least - 1
    BY <1>3, <1>5, <2>1
  <2>3. least - 1 \in uppers
    BY <2>2 DEF uppers
  <2> QED  BY <1>2, <1>3, <2>3
<1> QED  BY <1>4, <1>5

LEMMA AfterLargestIsAbove ==
    ASSUME NEW ids \in SUBSET Id,
           NEW bound \in Nat, \A i \in ids : i < bound
    PROVE  AfterLargest(ids) \in Id /\ \A i \in ids : i < AfterLargest(ids)
<1>1. CASE ids = {}
  BY <1>1 DEF AfterLargest, Id
<1>2. CASE ids # {}
  <2> DEFINE largest == CHOOSE m \in ids : \A i \in ids : i <= m
  <2>1. ids \in SUBSET Nat  BY DEF Id
  <2>2. \E m \in ids : \A i \in ids : i <= m
    BY <1>2, <2>1, LargestExists
  <2>3. largest \in ids /\ \A i \in ids : i <= largest
    BY <2>2
  <2>4. AfterLargest(ids) = 1 + largest
    BY <1>2 DEF AfterLargest
  <2> HIDE DEF largest
  <2> QED  BY <2>1, <2>3, <2>4 DEF Id
<1> QED  BY <1>1, <1>2

-----------------------------------------------------------------------------
(* The statements map tables to tables.                                    *)

LEMMA DeletesGiveTables ==
    ASSUME NEW t \in Tables, NEW F \in SUBSET Files
    PROVE  /\ DeleteCalls(t, F) \in Tables
           /\ DeleteIncludes(t, F) \in Tables
           /\ DeleteInheritance(t, F) \in Tables
           /\ DeleteSymbols(t, F) \in Tables
BY DEF Tables, DeleteCalls, DeleteIncludes, DeleteInheritance, DeleteSymbols, WithoutEdges

LEMMA WithModuleKnowsIt ==
    ASSUME NEW t \in Tables, NEW name \in ModuleNames, NEW id \in Id
    PROVE  /\ WithModule(t, name, id) \in Tables
           /\ KnownModule(WithModule(t, name, id), name)
<1>1. CASE KnownModule(t, name)
  BY <1>1 DEF WithModule
<1>2. CASE ~ KnownModule(t, name)
  <2> DEFINE row == [id |-> id, name |-> name]
  <2>1. row \in ModuleRow  BY DEF ModuleRow
  <2>2. WithModule(t, name, id) = [t EXCEPT !.modules = @ \cup {row}]
    BY <1>2 DEF WithModule
  <2>3. WithModule(t, name, id).modules = t.modules \cup {row}
    BY <2>2 DEF Tables
  <2> QED  BY <2>1, <2>2, <2>3 DEF Tables, KnownModule
<1> QED  BY <1>1, <1>2

LEMMA ModuleIdOfFound ==
    ASSUME NEW t \in Tables, NEW name, KnownModule(t, name)
    PROVE  /\ ModuleIdOf(t, name) \in Id
           /\ \E m \in t.modules : m.id = ModuleIdOf(t, name) /\ m.name = name
<1> DEFINE m == CHOOSE r \in t.modules : r.name = name
<1>1. m \in t.modules /\ m.name = name
  BY DEF KnownModule
<1>2. ModuleIdOf(t, name) = m.id
  BY DEF ModuleIdOf
<1> HIDE DEF m
<1> QED  BY <1>1, <1>2 DEF Tables, ModuleRow

LEMMA ModuleOfFound ==
    ASSUME NEW t \in Tables, NEW s, KnownSymbol(t, s)
    PROVE  /\ ModuleOf(t, s) \in Id
           /\ \E r \in t.symbols : r.id = s /\ r.module = ModuleOf(t, s)
<1> DEFINE row == CHOOSE r \in t.symbols : r.id = s
<1>1. row \in t.symbols /\ row.id = s
  BY DEF KnownSymbol
<1>2. ModuleOf(t, s) = row.module
  BY DEF ModuleOf
<1> HIDE DEF row
<1> QED  BY <1>1, <1>2 DEF Tables, SymbolRow

-----------------------------------------------------------------------------
(* Type correctness and the counters, which need each other: a restart     *)
(* takes the largest id of each committed table.                           *)

Bounded(t) == \A table \in TableNames : \E n \in Nat : \A r \in t[table] : r.id < n

Core == TypeOK /\ CountersAhead /\ ClosedIsClean /\ Bounded(db)

LEMMA RunningWrite ==
    ASSUME CallOK, call.fn = "write"
    PROVE  /\ call.table \in WriteTables
           /\ call \in WriteCall(call.table)
BY DEF CallOK, Idle, DeleteCall, WriteCall

LEMMA RunningDeletion ==
    ASSUME CallOK, call.fn = "delete_files"
    PROVE  call \in DeleteCall
BY DEF CallOK, Idle, DeleteCall, WriteCall

LEMMA IdOfRow ==
    ASSUME NEW t \in Tables, NEW table \in TableNames, NEW r \in t[table]
    PROVE  r.id \in Id
BY DEF Tables, TableNames, ModuleRow, SymbolRow, EdgeRow, IncludeRow

LEMMA OnesAreCounters == [table \in TableNames |-> 1] \in [TableNames -> Id]
BY DEF Id

LEMMA InitCore == Init => Core
<1> SUFFICES ASSUME Init PROVE Core  OBVIOUS
<1>1. EmptyTables \in Tables  BY DEF EmptyTables, Tables
<1>2. \A table \in TableNames : EmptyTables[table] = {}
  BY DEF EmptyTables, TableNames
<1>3. TypeOK  BY <1>1, OnesAreCounters DEF Init, TypeOK, CallOK
<1>4. CountersAhead  BY DEF Init, CountersAhead
<1>5. ClosedIsClean  BY DEF Init, ClosedIsClean
<1>6. Bounded(db)  BY <1>2 DEF Init, Bounded
<1> QED  BY <1>3, <1>4, <1>5, <1>6 DEF Core

LEMMA OpenCore == Core /\ Open => Core'
<1> SUFFICES ASSUME Core, Open PROVE Core'  OBVIOUS
<1> USE DEF Core
<1>1. ASSUME NEW table \in TableNames
      PROVE  /\ next'[table] \in Id
             /\ \A r \in db[table] : r.id < next'[table]
  <2>1. PICK n \in Nat : \A r \in db[table] : r.id < n
    BY DEF Bounded
  <2>2. db \in Tables  BY DEF TypeOK
  <2>3. Ids(db, table) \in SUBSET Id /\ \A i \in Ids(db, table) : i < n
    BY <2>1, <2>2, IdOfRow DEF Ids
  <2>4. next'[table] = AfterLargest(Ids(db, table))
    BY DEF Open, RefreshedCounters
  <2> QED  BY <2>3, <2>4, AfterLargestIsAbove DEF Ids
<1>2. next' \in [TableNames -> Id]
  BY <1>1 DEF Open, RefreshedCounters
<1>3. call = Idle /\ work = db
  BY DEF Open, ClosedIsClean
<1>4. TypeOK'
  BY <1>2 DEF Open, TypeOK, CallOK, engineVars, callerVars
<1>5. CountersAhead'
  BY <1>1, <1>3 DEF Open, CountersAhead, PendingRows, Idle, engineVars, callerVars
<1>6. ClosedIsClean' /\ Bounded(db)'
  BY DEF Open, ClosedIsClean, Bounded, engineVars
<1> QED  BY <1>4, <1>5, <1>6

LEMMA CrashCore == Core /\ Crash => Core'
<1> SUFFICES ASSUME Core, Crash PROVE Core'  OBVIOUS
<1> USE DEF Core, Crash
<1>1. TypeOK'  BY OnesAreCounters DEF TypeOK, CallOK
<1>2. CountersAhead' /\ ClosedIsClean' /\ Bounded(db)'
  BY DEF CountersAhead, ClosedIsClean, Bounded
<1> QED  BY <1>1, <1>2

\* Transaction control moves the tables between db and work; the counters
\* and the pending rows stay or go.
LEMMA TransactionCore ==
    ASSUME Core, ready, ready',
           EngineBegin \/ EngineCommit \/ EngineGivesUp,
           open' \in BOOLEAN, raised' \in BOOLEAN, whole' \in Tables,
           CallOK', \A table \in TableNames : PendingRows(table)' \subseteq PendingRows(table),
           next' \in [TableNames -> Id],
           \A table \in TableNames : next[table] <= next'[table]
    PROVE  Core'
<1> USE DEF Core
<1>1. /\ db' \in {db, work} /\ work' \in {db, work} /\ inTxn' \in BOOLEAN
  BY DEF EngineBegin, EngineCommit, EngineGivesUp, EngineRollback, engineVars, TypeOK
<1>2. TypeOK'
  BY <1>1 DEF TypeOK
<1>3. ASSUME NEW table \in TableNames,
             NEW r \in db'[table] \cup work'[table] \cup PendingRows(table)'
      PROVE  r.id < next'[table]
  <2>1. r \in db[table] \cup work[table] \cup PendingRows(table)
    BY <1>1, <1>3
  <2>2. r.id < next[table]
    BY <2>1 DEF CountersAhead
  <2>3. r.id \in Int
    <3>1. CASE r \in db[table] \cup work[table]
      BY <3>1, IdOfRow DEF TypeOK, Id
    <3>2. CASE r \in PendingRows(table)
      <4>1. call.fn = "write" /\ call.table = table /\ r \in call.rows
        BY <3>2 DEF PendingRows
      <4>2. call \in WriteCall(table) /\ table \in WriteTables
        BY <4>1, RunningWrite DEF TypeOK
      <4> QED  BY <4>1, <4>2
               DEF WriteCall, RowOf, WriteTables, SymbolRow, EdgeRow, IncludeRow, Id
    <3> QED  BY <2>1, <3>1, <3>2
  <2>4. next[table] \in Int /\ next'[table] \in Int
    BY DEF TypeOK, Id
  <2> QED  BY <2>2, <2>3, <2>4
<1>4. CountersAhead'
  BY <1>3 DEF CountersAhead
<1>5. Bounded(db)'
  <2>1. \A table \in TableNames : next'[table] \in Nat
    BY DEF Id
  <2> QED  BY <1>3, <2>1 DEF Bounded
<1>6. ClosedIsClean'  BY DEF ClosedIsClean
<1> QED  BY <1>2, <1>4, <1>5, <1>6

LEMMA ControlCore ==
    Core /\ (BeginTransaction \/ CommitTransaction \/ CommitFails
             \/ RollbackTransaction) => Core'
<1> SUFFICES ASSUME Core, BeginTransaction \/ CommitTransaction \/ CommitFails
                          \/ RollbackTransaction
             PROVE  Core'
  OBVIOUS
<1>1. ready /\ ready' /\ call' = call /\ next' = next
  BY DEF BeginTransaction, CommitTransaction, CommitFails, RollbackTransaction, Free
<1>2. EngineBegin \/ EngineCommit \/ EngineGivesUp
  BY DEF BeginTransaction, CommitTransaction, CommitFails, RollbackTransaction,
         RollbackEffect
<1>3. /\ open' \in BOOLEAN /\ raised' \in BOOLEAN /\ whole' \in Tables
      /\ next \in [TableNames -> Id] /\ CallOK
  BY DEF Core, TypeOK, BeginTransaction, CommitTransaction, CommitFails,
         RollbackTransaction, RollbackEffect, callerVars
<1>4. CallOK' /\ \A table \in TableNames : PendingRows(table)' \subseteq PendingRows(table)
  BY <1>1, <1>3 DEF CallOK, PendingRows
<1>5. \A table \in TableNames : next[table] <= next'[table]
  BY <1>1, <1>3 DEF Id
<1> QED  BY <1>1, <1>2, <1>3, <1>4, <1>5, TransactionCore

LEMMA DeleteFilesCore ==
    ASSUME NEW F \in SUBSET Files
    PROVE  Core /\ DeleteFiles(F) => Core'
<1> SUFFICES ASSUME Core, DeleteFiles(F) PROVE Core'  OBVIOUS
<1> DEFINE body == [fn |-> "delete_files", started |-> ~open, files |-> F, step |-> "calls"]
<1>1. Enter(body)  BY DEF DeleteFiles
<1>2. body \in DeleteCall  BY DEF Core, TypeOK, DeleteCall
<1>3. body.fn # "write"  OBVIOUS
<1> HIDE DEF body
<1>4. CallOK'  BY <1>1, <1>2 DEF Enter, CallOK
<1>5. \A table \in TableNames : PendingRows(table)' = {}
  BY <1>1, <1>3 DEF Enter, PendingRows
<1> QED
  BY <1>1, <1>4, <1>5, TransactionCore
  DEF Core, TypeOK, Enter, Free, EngineGivesUp, callerVars, Id

LEMMA WriteCore ==
    ASSUME NEW table \in WriteTables, NEW items \in Seq(ItemOf(table))
    PROVE  Core /\ Write(table, items) => Core'
<1> SUFFICES ASSUME Core, Write(table, items) PROVE Core'  OBVIOUS
<1> DEFINE body == [fn |-> "write", table |-> table, started |-> ~open,
                    items |-> items, rows |-> {}, step |-> "prepare"]
<1>1. Enter(body)  BY DEF Write
<1>2. body \in WriteCall(table)  BY DEF Core, TypeOK, WriteCall
<1>3. body.rows = {}  OBVIOUS
<1> HIDE DEF body
<1>4. CallOK'  BY <1>1, <1>2 DEF Enter, CallOK
<1>5. \A tab \in TableNames : PendingRows(tab)' = {}
  BY <1>1, <1>3 DEF Enter, PendingRows
<1> QED
  BY <1>1, <1>4, <1>5, TransactionCore
  DEF Core, TypeOK, Enter, Free, EngineGivesUp, callerVars, Id

LEMMA FinishCore == Core /\ Finish => Core'
<1> SUFFICES ASSUME Core, Finish PROVE Core'  OBVIOUS
<1>1. ready /\ ready' /\ next' = next /\ call' = Idle
  BY DEF Core, ClosedIsClean, Finish
<1>2. EngineCommit \/ EngineGivesUp
  BY DEF Finish, EngineGivesUp
<1>3. CallOK' /\ \A table \in TableNames : PendingRows(table)' = {}
  BY <1>1 DEF CallOK, PendingRows, Idle
<1>4. open' \in BOOLEAN /\ raised' \in BOOLEAN /\ whole' \in Tables
  BY DEF Core, TypeOK, Finish
<1>5. next \in [TableNames -> Id] /\ \A table \in TableNames : next[table] <= next'[table]
  BY <1>1 DEF Core, TypeOK, Id
<1> QED  BY <1>1, <1>2, <1>3, <1>4, <1>5, TransactionCore

LEMMA RaiseCore == Core /\ Raise => Core'
<1> SUFFICES ASSUME Core, Raise PROVE Core'  OBVIOUS
<1>1. ready /\ ready' /\ call' = Idle /\ whole' = whole
  BY DEF Core, ClosedIsClean, Raise
<1>2. EngineGivesUp
  BY DEF Raise, RollbackEffect, EngineGivesUp
<1>3. CallOK' /\ \A table \in TableNames : PendingRows(table)' = {}
  BY <1>1 DEF CallOK, PendingRows, Idle
<1>4. open' \in BOOLEAN /\ raised' \in BOOLEAN /\ whole' \in Tables
  BY <1>1 DEF Core, TypeOK, Raise, RollbackEffect
<1>5. /\ next' \in [TableNames -> Id]
      /\ \A table \in TableNames : next[table] <= next'[table]
  <2>1. CASE next' = next
    BY <2>1 DEF Core, TypeOK, Id
  <2>2. CASE next' = [next EXCEPT !.modules = @ + 1]
    BY <2>2 DEF Core, TypeOK, Id
  <2> QED  BY <2>1, <2>2 DEF Raise
<1> QED  BY <1>1, <1>2, <1>3, <1>4, <1>5, TransactionCore

\* A statement changes what the connection sees and the running call only.
LEMMA StatementCore ==
    ASSUME Core, ready,
           UNCHANGED <<db, inTxn, ready, open, callerVars>>,
           work' \in Tables, CallOK', next' \in [TableNames -> Id],
           \A table \in TableNames : next[table] <= next'[table],
           \A table \in TableNames : \A r \in work'[table] \cup PendingRows(table)' :
                r \in work[table] \cup PendingRows(table) \/ r.id < next'[table]
    PROVE  Core'
<1> USE DEF Core
<1>1. TypeOK'  BY DEF TypeOK, callerVars
<1>2. ASSUME NEW table \in TableNames,
             NEW r \in db[table] \cup work[table] \cup PendingRows(table)
      PROVE  r.id < next'[table]
  <2>1. r.id < next[table]
    BY DEF CountersAhead
  <2>2. r.id \in Int
    <3>1. CASE r \in db[table] \cup work[table]
      BY <3>1, IdOfRow DEF TypeOK, Id
    <3>2. CASE r \in PendingRows(table)
      <4>1. call.fn = "write" /\ call.table = table /\ r \in call.rows
        BY <3>2 DEF PendingRows
      <4>2. call \in WriteCall(table) /\ table \in WriteTables
        BY <4>1, RunningWrite DEF TypeOK
      <4> QED  BY <4>1, <4>2
               DEF WriteCall, RowOf, WriteTables, SymbolRow, EdgeRow, IncludeRow, Id
    <3> QED  BY <3>1, <3>2
  <2>3. next[table] \in Int /\ next'[table] \in Int
    BY DEF TypeOK, Id
  <2> QED  BY <2>1, <2>2, <2>3
<1>3. CountersAhead'  BY <1>2 DEF CountersAhead
<1>4. Bounded(db)' /\ ClosedIsClean'  BY DEF Bounded, ClosedIsClean
<1> QED  BY <1>1, <1>3, <1>4

LEMMA DeleteStepCore == Core /\ DeleteStep => Core'
<1> SUFFICES ASSUME Core, DeleteStep PROVE Core'  OBVIOUS
<1>1. PICK step \in {"calls", "includes", "inheritance", "symbols"},
           after \in {"includes", "inheritance", "symbols", "end"},
           t \in {DeleteCalls(work, call.files), DeleteIncludes(work, call.files),
                  DeleteInheritance(work, call.files), DeleteSymbols(work, call.files)} :
        DeleteStatement(step, after, t)
  BY DEF DeleteStep, DeleteTheCalls, DeleteTheIncludes, DeleteTheInheritance,
         DeleteTheSymbols
<1>2. call \in DeleteCall /\ call.fn = "delete_files"
  BY <1>1, RunningDeletion DEF DeleteStatement, RunningDelete, Core, TypeOK
<1>3. work \in Tables /\ call.files \in SUBSET Files
  BY <1>2 DEF Core, TypeOK, DeleteCall
<1>4. t \in Tables
  BY <1>1, <1>3, DeletesGiveTables
<1>5. ASSUME NEW table \in TableNames PROVE t[table] \subseteq work[table]
  BY <1>3 DEF TableNames, Tables, DeleteCalls, DeleteIncludes, DeleteInheritance,
              DeleteSymbols, WithoutEdges
<1>6. call' \in DeleteCall /\ call'.fn = "delete_files"
  BY <1>1, <1>2 DEF DeleteStatement, DeleteCall
<1>7. CallOK' /\ \A table \in TableNames : PendingRows(table)' = {}
  BY <1>6 DEF CallOK, PendingRows
<1>8. ready
  BY <1>2 DEF Core, ClosedIsClean, Idle
<1>9. next \in [TableNames -> Id] /\ \A table \in TableNames : next[table] <= next[table]
  BY DEF Core, TypeOK, Id
<1> QED
  BY <1>1, <1>4, <1>5, <1>7, <1>8, <1>9, StatementCore DEF DeleteStatement

LEMMA InsertCore == Core /\ Insert => Core'
<1> SUFFICES ASSUME Core, Insert PROVE Core'  OBVIOUS
<1>1. call.table \in WriteTables /\ call \in WriteCall(call.table)
  BY RunningWrite DEF Insert, Core, TypeOK
<1>2. call.rows \in SUBSET RowOf(call.table)
  BY <1>1 DEF WriteCall
<1>3. work' \in Tables
  <2>1. work \in Tables /\ work' = [work EXCEPT ![call.table] = @ \cup call.rows]
    BY DEF Core, TypeOK, Insert
  <2> QED  BY <1>1, <1>2, <2>1 DEF Tables, WriteTables, RowOf
<1>4. call' \in WriteCall(call.table) /\ call'.rows = call.rows
      /\ call'.table = call.table /\ call'.fn = "write"
  BY <1>1 DEF Insert, WriteCall
<1>5. CallOK'
  BY <1>1, <1>4 DEF CallOK
<1>6. ASSUME NEW table \in TableNames, NEW r \in work'[table] \cup PendingRows(table)'
      PROVE  r \in work[table] \cup PendingRows(table)
  <2>1. work'[table] \subseteq work[table] \cup PendingRows(table)
    BY <1>1 DEF Insert, PendingRows, Core, TypeOK, Tables, TableNames, WriteTables
  <2>2. PendingRows(table)' = PendingRows(table)
    BY <1>1, <1>4 DEF PendingRows, WriteCall
  <2> QED  BY <2>1, <2>2
<1>7. ready
  BY DEF Core, ClosedIsClean, Idle, Insert
<1>8. next \in [TableNames -> Id] /\ \A table \in TableNames : next[table] <= next[table]
  BY DEF Core, TypeOK, Id
<1> QED
  BY <1>3, <1>5, <1>6, <1>7, <1>8, StatementCore DEF Insert

LEMMA RowReadyCore ==
    ASSUME Core, NEW table \in WriteTables, Preparing(table),
           NEW row \in RowOf(table), row.id = next[table],
           NEW t \in Tables,
           NEW counters \in [TableNames -> Id],
           \A tab \in TableNames : next[tab] <= counters[tab],
           next[table] < counters[table],
           \A tab \in TableNames : \A r \in t[tab] :
                r \in work[tab] \/ r.id < counters[tab],
           RowReady(row, t, counters)
    PROVE  Core'
<1>1. call \in WriteCall(table) /\ call.fn = "write" /\ call.table = table
      /\ call.items # <<>>
  BY RunningWrite DEF Core, TypeOK, Preparing
<1>2. /\ call'.rows = call.rows \cup {row} /\ call'.fn = "write"
      /\ call'.table = table /\ call' \in WriteCall(table)
  <2>1. Tail(call.items) \in Seq(ItemOf(table))
    BY <1>1 DEF WriteCall
  <2> QED  BY <1>1, <2>1 DEF RowReady, WriteCall
<1>3. CallOK'
  BY <1>2 DEF CallOK
<1>4. ASSUME NEW tab \in TableNames, NEW r \in work'[tab] \cup PendingRows(tab)'
      PROVE  r \in work[tab] \cup PendingRows(tab) \/ r.id < next'[tab]
  <2>1. CASE r \in work'[tab]
    BY <2>1 DEF RowReady
  <2>2. CASE r \in PendingRows(tab)'
    <3>1. tab = table /\ r \in call.rows \cup {row}
      BY <1>2, <2>2 DEF PendingRows
    <3>2. CASE r = row
      BY <3>1, <3>2 DEF RowReady
    <3>3. CASE r \in call.rows
      BY <1>1, <3>1, <3>3 DEF PendingRows
    <3> QED  BY <3>1, <3>2, <3>3
  <2> QED  BY <2>1, <2>2
<1>5. ready
  BY <1>1 DEF Core, ClosedIsClean, Idle
<1> QED
  BY <1>3, <1>4, <1>5, StatementCore DEF RowReady

\* Looking a module up by name, and inserting it under the next id when it is
\* missing, keeps every module id below the counter.
LEMMA CountedRises ==
    ASSUME Core, NEW table \in WriteTables, NEW name \in ModuleNames
    PROVE  LET counters == Counted(table, work, name)
               t == WithModule(work, name, next.modules)
           IN  /\ counters \in [TableNames -> Id]
               /\ next[table] < counters[table]
               /\ \A tab \in TableNames : next[tab] <= counters[tab]
               /\ \A tab \in TableNames : \A r \in t[tab] :
                        r \in work[tab] \/ r.id < counters[tab]
<1> DEFINE counters == Counted(table, work, name)
           t == WithModule(work, name, next.modules)
<1>1. next \in [TableNames -> Id] /\ work \in Tables
  BY DEF Core, TypeOK
<1>2. /\ counters[table] = next[table] + 1
      /\ counters.modules = IF KnownModule(work, name) THEN next.modules
                            ELSE next.modules + 1
      /\ \A tab \in TableNames \ {table, "modules"} : counters[tab] = next[tab]
      /\ DOMAIN counters = TableNames
      /\ counters = [tab \in TableNames |-> counters[tab]]
  BY <1>1 DEF Counted, WriteTables, TableNames
<1>3. ASSUME NEW tab \in TableNames
      PROVE  counters[tab] \in Id /\ next[tab] <= counters[tab]
  <2>1. next[tab] \in Id  BY <1>1
  <2>2. counters[tab] \in {next[tab], next[tab] + 1}
    BY <1>2
  <2> QED  BY <2>1, <2>2 DEF Id
<1>4. counters \in [TableNames -> Id]
  BY <1>2, <1>3
<1>5. next[table] < counters[table]
  BY <1>1, <1>2 DEF WriteTables, TableNames, Id
<1>6. ASSUME NEW tab \in TableNames, NEW r \in t[tab]
      PROVE  r \in work[tab] \/ r.id < counters[tab]
  <2>1. CASE KnownModule(work, name)
    BY <2>1 DEF WithModule
  <2>2. CASE ~ KnownModule(work, name)
    <3>1. t = [work EXCEPT !.modules = @ \cup {[id |-> next.modules, name |-> name]}]
      BY <2>2 DEF WithModule
    <3>2. next.modules < counters.modules
      BY <1>1, <1>2, <2>2 DEF TableNames, Id
    <3> HIDE DEF counters
    <3>3. CASE tab = "modules"
      BY <1>1, <3>1, <3>2, <3>3 DEF Tables
    <3>4. CASE tab # "modules"
      BY <1>1, <3>1, <3>4 DEF Tables, TableNames
    <3> QED  BY <3>3, <3>4
  <2> QED  BY <2>1, <2>2
<1> QED  BY <1>3, <1>4, <1>5, <1>6

LEMMA PrepareSymbolCore == Core /\ PrepareSymbol => Core'
<1> SUFFICES ASSUME Core, PrepareSymbol PROVE Core'  OBVIOUS
<1> DEFINE item == Head(call.items)
           t == WithModule(work, item.name, next.modules)
           counters == Counted("symbols", work, item.name)
           row == [id |-> next.symbols, module |-> ModuleIdOf(t, item.name),
                   file |-> item.file]
<1>1. Preparing("symbols") /\ RowReady(row, t, counters)
  BY DEF PrepareSymbol
<1>2. item \in SymbolItem
  BY <1>1, RunningWrite DEF Preparing, Core, TypeOK, WriteCall, ItemOf
<1>3. item.name \in ModuleNames /\ item.file \in Files
  BY <1>2 DEF SymbolItem
<1>4. work \in Tables /\ next.modules \in Id /\ next.symbols \in Id
  BY DEF Core, TypeOK, TableNames
<1>5. t \in Tables /\ ModuleIdOf(t, item.name) \in Id
  BY <1>3, <1>4, WithModuleKnowsIt, ModuleIdOfFound
<1>6. row \in RowOf("symbols") /\ row.id = next["symbols"]
  BY <1>3, <1>4, <1>5 DEF RowOf, SymbolRow
<1>7. "symbols" \in WriteTables  BY DEF WriteTables
<1>8. /\ counters \in [TableNames -> Id]
      /\ next["symbols"] < counters["symbols"]
      /\ \A tab \in TableNames : next[tab] <= counters[tab]
      /\ \A tab \in TableNames : \A r \in t[tab] : r \in work[tab] \/ r.id < counters[tab]
  BY <1>3, <1>7, CountedRises
<1> HIDE DEF t, counters, row
<1> QED  BY <1>1, <1>5, <1>6, <1>7, <1>8, RowReadyCore

LEMMA PrepareEdgeCore ==
    ASSUME NEW table \in EdgeTables
    PROVE  Core /\ PrepareEdge(table) => Core'
<1> SUFFICES ASSUME Core, PrepareEdge(table) PROVE Core'  OBVIOUS
<1> DEFINE item == Head(call.items)
           counters == [next EXCEPT ![table] = @ + 1]
           row == [id |-> next[table], from |-> item.from, to |-> item.to,
                   fromModule |-> ModuleOf(work, item.from),
                   toModule |-> ModuleOf(work, item.to)]
<1>1. /\ Preparing(table) /\ RowReady(row, work, counters)
      /\ KnownSymbol(work, item.from) /\ KnownSymbol(work, item.to)
  BY DEF PrepareEdge
<1>2. table \in WriteTables /\ table \in TableNames
      /\ ItemOf(table) = EdgeItem /\ RowOf(table) = EdgeRow
  BY DEF EdgeTables, WriteTables, TableNames, ItemOf, RowOf
<1>3. item \in EdgeItem
  BY <1>1, <1>2, RunningWrite DEF Preparing, Core, TypeOK, WriteCall
<1>4. work \in Tables /\ next \in [TableNames -> Id]
  BY DEF Core, TypeOK
<1>5. ModuleOf(work, item.from) \in Id /\ ModuleOf(work, item.to) \in Id
  BY <1>1, <1>4, ModuleOfFound
<1>6. row \in RowOf(table) /\ row.id = next[table]
  BY <1>2, <1>3, <1>4, <1>5 DEF EdgeItem, EdgeRow
<1>7. /\ counters \in [TableNames -> Id]
      /\ next[table] < counters[table]
      /\ \A tab \in TableNames : next[tab] <= counters[tab]
  BY <1>2, <1>4 DEF Id
<1> HIDE DEF counters, row
<1> QED  BY <1>1, <1>2, <1>4, <1>6, <1>7, RowReadyCore

LEMMA PrepareIncludeCore == Core /\ PrepareInclude => Core'
<1> SUFFICES ASSUME Core, PrepareInclude PROVE Core'  OBVIOUS
<1> DEFINE item == Head(call.items)
           unnamed == item.name = NoName
           t == IF unnamed THEN work ELSE WithModule(work, item.name, next.modules)
           counters == IF unnamed THEN [next EXCEPT !.includes = @ + 1]
                       ELSE Counted("includes", work, item.name)
           row == [id |-> next.includes, from |-> item.from,
                   fromModule |-> ModuleOf(work, item.from),
                   target |-> IF unnamed THEN 0 ELSE ModuleIdOf(t, item.name)]
<1>1. /\ Preparing("includes") /\ RowReady(row, t, counters)
      /\ KnownSymbol(work, item.from)
  BY DEF PrepareInclude
<1>2. item \in IncludeItem
  BY <1>1, RunningWrite DEF Preparing, Core, TypeOK, WriteCall, ItemOf
<1>3. item.from \in Id /\ (unnamed \/ item.name \in ModuleNames)
  BY <1>2 DEF IncludeItem
<1>4. work \in Tables /\ next \in [TableNames -> Id]
      /\ next.modules \in Id /\ next.includes \in Id
  BY DEF Core, TypeOK, TableNames
<1>5. t \in Tables /\ row.target \in Nat
  BY <1>3, <1>4, WithModuleKnowsIt, ModuleIdOfFound DEF Id
<1>6. row \in RowOf("includes") /\ row.id = next["includes"]
  BY <1>1, <1>3, <1>4, <1>5, ModuleOfFound DEF RowOf, IncludeRow
<1>7. "includes" \in WriteTables  BY DEF WriteTables
<1>8. /\ counters \in [TableNames -> Id]
      /\ next["includes"] < counters["includes"]
      /\ \A tab \in TableNames : next[tab] <= counters[tab]
      /\ \A tab \in TableNames : \A r \in t[tab] : r \in work[tab] \/ r.id < counters[tab]
  <2>1. CASE unnamed
    BY <1>4, <2>1 DEF TableNames, Id
  <2>2. CASE ~ unnamed
    BY <1>3, <1>7, <2>2, CountedRises
  <2> QED  BY <2>1, <2>2
<1> HIDE DEF t, counters, row
<1> QED  BY <1>1, <1>5, <1>6, <1>7, <1>8, RowReadyCore

LEMMA StutterCore == Core /\ UNCHANGED vars => Core'
BY DEF Core, TypeOK, CallOK, CountersAhead, PendingRows, ClosedIsClean, Bounded, vars

LEMMA BatchesAreSequences ==
    ASSUME NEW T, NEW S \in SUBSET T, NEW items \in Batches(S)
    PROVE  items \in Seq(T)
<1>1. PICK n \in 1..MaxBatch : items \in [1..n -> S]
  BY DEF Batches
<1>2. n \in Nat /\ items \in [1..n -> T]
  BY <1>1, BoundsAreNat
<1> QED  BY <1>2

LEMMA WriteSomeCore ==
    Core /\ (WriteSymbols \/ WriteEdges \/ WriteIncludes) => Core'
<1> SUFFICES ASSUME Core, WriteSymbols \/ WriteEdges \/ WriteIncludes PROVE Core'
  OBVIOUS
<1>1. CASE WriteSymbols
  <2>1. PICK items \in Batches(SymbolItem) : Write("symbols", items)
    BY <1>1 DEF WriteSymbols, WriteSome
  <2>2. items \in Seq(ItemOf("symbols"))
    BY BatchesAreSequences DEF ItemOf
  <2> QED  BY <2>1, <2>2, WriteCore DEF WriteTables
<1>2. CASE WriteEdges
  <2>1. PICK table \in EdgeTables, items \in Batches([from : SomeId, to : SomeId]) :
            Write(table, items)
    BY <1>2 DEF WriteEdges, WriteSome
  <2>2. [from : SomeId, to : SomeId] \subseteq EdgeItem
    BY DEF SomeId, EdgeItem, Id
  <2>3. items \in Seq(EdgeItem)
    BY <2>2, BatchesAreSequences
  <2>4. ItemOf(table) = EdgeItem /\ table \in WriteTables
    BY DEF ItemOf, EdgeTables, WriteTables
  <2> QED  BY <2>1, <2>3, <2>4, WriteCore
<1>3. CASE WriteIncludes
  <2>1. PICK items \in Batches([from : SomeId, name : ModuleNames \cup {NoName}]) :
            Write("includes", items)
    BY <1>3 DEF WriteIncludes, WriteSome
  <2>2. [from : SomeId, name : ModuleNames \cup {NoName}] \subseteq IncludeItem
    BY DEF SomeId, IncludeItem, Id
  <2>3. items \in Seq(ItemOf("includes"))
    BY <2>2, BatchesAreSequences DEF ItemOf
  <2> QED  BY <2>1, <2>3, WriteCore DEF WriteTables
<1> QED  BY <1>1, <1>2, <1>3

LEMMA NextCore == Core /\ [Next]_vars => Core'
<1> SUFFICES ASSUME Core, [Next]_vars PROVE Core'  OBVIOUS
<1>1. CASE DeleteSome
  BY <1>1, DeleteFilesCore DEF DeleteSome
<1>2. CASE PrepareRow
  BY <1>2, PrepareSymbolCore, PrepareEdgeCore, PrepareIncludeCore DEF PrepareRow
<1> QED
  BY <1>1, <1>2, OpenCore, CrashCore, ControlCore, WriteSomeCore, DeleteStepCore,
     InsertCore, FinishCore, RaiseCore, StutterCore DEF Next

\* Every variable keeps its type, and no id in use can be handed out again,
\* for all files, modules, batch sizes and id bounds.
THEOREM CountersStayAhead == Spec => [](TypeOK /\ CountersAhead)
<1>1. Core => TypeOK /\ CountersAhead  BY DEF Core
<1> QED  BY <1>1, InitCore, NextCore, PTL DEF Spec

-----------------------------------------------------------------------------
(* Referential integrity.                                                  *)

LEMMA KeysSurviveLoss ==
    ASSUME NEW t, NEW t2, KeysUnique(t),
           \A table \in TableNames : t2[table] \subseteq t[table]
    PROVE  KeysUnique(t2)
BY DEF KeysUnique, TableNames

LEMMA EdgeDeletesKeepReferences ==
    ASSUME NEW t \in Tables, NEW F \in SUBSET Files, WellFormed(t)
    PROVE  /\ WellFormed(DeleteCalls(t, F))
           /\ WellFormed(DeleteIncludes(t, F))
           /\ WellFormed(DeleteInheritance(t, F))
<1> USE DEF WellFormed
<1>1. \A t2 \in {DeleteCalls(t, F), DeleteIncludes(t, F), DeleteInheritance(t, F)} :
        /\ \A table \in TableNames : t2[table] \subseteq t[table]
        /\ t2.symbols = t.symbols /\ t2.modules = t.modules
  BY DEF Tables, TableNames, DeleteCalls, DeleteIncludes, DeleteInheritance, WithoutEdges
<1>2. \A t2 \in {DeleteCalls(t, F), DeleteIncludes(t, F), DeleteInheritance(t, F)} :
        /\ KeysUnique(t2)
        /\ ReferencesResolve(t2)
  <2> TAKE t2 \in {DeleteCalls(t, F), DeleteIncludes(t, F), DeleteInheritance(t, F)}
  <2>1. KeysUnique(t2)  BY <1>1, KeysSurviveLoss
  <2>2. ReferencesResolve(t2)
    BY <1>1 DEF ReferencesResolve, EdgesJoin, IncludesJoin, TableNames
  <2> QED  BY <2>1, <2>2
<1> QED  BY <1>2

\* Once no edge names a symbol of the files, the symbols can go.
LEMMA SymbolDeleteKeepsReferences ==
    ASSUME NEW t \in Tables, NEW F \in SUBSET Files, WellFormed(t),
           t.calls = WithoutEdges(t.calls, SymbolIdsOf(t, F)),
           t.inheritance = WithoutEdges(t.inheritance, SymbolIdsOf(t, F)),
           \A i \in t.includes : i.from \notin SymbolIdsOf(t, F)
    PROVE  WellFormed(DeleteSymbols(t, F))
<1> DEFINE t2 == DeleteSymbols(t, F)
<1>1. /\ t2.symbols = {r \in t.symbols : r.file \notin F}
      /\ t2.modules = t.modules /\ t2.calls = t.calls
      /\ t2.includes = t.includes /\ t2.inheritance = t.inheritance
  BY DEF DeleteSymbols, Tables
<1> HIDE DEF t2
<1>2. KeysUnique(t2)
  BY <1>1, KeysSurviveLoss DEF WellFormed, TableNames
<1>3. ASSUME NEW s \in t.symbols, s.id \notin SymbolIdsOf(t, F)
      PROVE  s \in t2.symbols
  BY <1>1, <1>3 DEF SymbolIdsOf
<1>4. ASSUME NEW rows, EdgesJoin(t, rows), rows = WithoutEdges(rows, SymbolIdsOf(t, F))
      PROVE  EdgesJoin(t2, rows)
  <2> SUFFICES ASSUME NEW e \in rows
               PROVE  /\ \E s \in t2.symbols : s.id = e.from /\ s.module = e.fromModule
                      /\ \E s \in t2.symbols : s.id = e.to /\ s.module = e.toModule
    BY DEF EdgesJoin
  <2>1. e.from \notin SymbolIdsOf(t, F) /\ e.to \notin SymbolIdsOf(t, F)
    BY <1>4 DEF WithoutEdges
  <2> QED  BY <1>3, <1>4, <2>1 DEF EdgesJoin
<1>5. IncludesJoin(t2, t2.includes)
  BY <1>1, <1>3 DEF WellFormed, ReferencesResolve, IncludesJoin
<1>6. \A s \in t2.symbols : \E m \in t2.modules : m.id = s.module
  BY <1>1 DEF WellFormed, ReferencesResolve
<1> QED
  BY <1>1, <1>2, <1>4, <1>5, <1>6 DEF WellFormed, ReferencesResolve, t2

\* More symbols and modules break no reference.
LEMMA ReferencesGrow ==
    ASSUME NEW t, NEW t2, t.symbols \subseteq t2.symbols, t.modules \subseteq t2.modules,
           NEW rows
    PROVE  /\ EdgesJoin(t, rows) => EdgesJoin(t2, rows)
           /\ IncludesJoin(t, rows) => IncludesJoin(t2, rows)
BY DEF EdgesJoin, IncludesJoin

LEMMA NewModuleKeepsReferences ==
    ASSUME NEW t \in Tables, WellFormed(t), NEW name, NEW id,
           \A m \in t.modules : m.id # id
    PROVE  WellFormed(WithModule(t, name, id))
<1> DEFINE row == [id |-> id, name |-> name]
           t2 == WithModule(t, name, id)
<1>1. CASE KnownModule(t, name)
  BY <1>1 DEF WithModule
<1>2. CASE ~ KnownModule(t, name)
  <2>1. /\ t2.modules = t.modules \cup {row} /\ t2.symbols = t.symbols
        /\ t2.calls = t.calls /\ t2.includes = t.includes
        /\ t2.inheritance = t.inheritance
    BY <1>2 DEF WithModule, Tables
  <2>2. \A m \in t.modules : m.name # name
    BY <1>2 DEF KnownModule
  <2> HIDE DEF t2
  <2>3. KeysUnique(t2)
    BY <2>1, <2>2 DEF WellFormed, KeysUnique, TableNames
  <2>4. ReferencesResolve(t2)
    BY <2>1, ReferencesGrow DEF WellFormed, ReferencesResolve
  <2> QED  BY <2>3, <2>4 DEF WellFormed, t2
<1> QED  BY <1>1, <1>2

LEMMA InsertKeepsReferences ==
    ASSUME NEW t \in Tables, WellFormed(t), NEW table \in WriteTables, NEW rows,
           \A r1, r2 \in rows : r1.id = r2.id => r1 = r2,
           \A r \in rows : r.id \notin Ids(t, table),
           table = "symbols" => \A r \in rows : \E m \in t.modules : m.id = r.module,
           table \in EdgeTables => EdgesJoin(t, rows),
           table = "includes" => IncludesJoin(t, rows)
    PROVE  WellFormed([t EXCEPT ![table] = @ \cup rows])
<1> DEFINE t2 == [t EXCEPT ![table] = @ \cup rows]
<1>1. /\ t2[table] = t[table] \cup rows
      /\ \A other \in TableNames \ {table} : t2[other] = t[other]
  BY DEF Tables, TableNames, WriteTables
<1> HIDE DEF t2
<1>2. \A r1 \in t[table], r2 \in rows : r1.id # r2.id
  BY DEF Ids
<1>3. KeysUnique(t2)
  <2>1. ASSUME NEW tab \in TableNames, NEW r1 \in t2[tab], NEW r2 \in t2[tab],
               r1.id = r2.id
        PROVE  r1 = r2
    <3>1. CASE tab = table
      BY <1>1, <1>2, <2>1, <3>1 DEF WellFormed, KeysUnique
    <3>2. CASE tab # table
      BY <1>1, <2>1, <3>2 DEF WellFormed, KeysUnique
    <3> QED  BY <3>1, <3>2
  <2>2. t2.modules = t.modules
    BY <1>1 DEF WriteTables, TableNames
  <2> QED  BY <2>1, <2>2 DEF WellFormed, KeysUnique
<1>4. t.symbols \subseteq t2.symbols /\ t2.modules = t.modules
  BY <1>1 DEF WriteTables, TableNames
<1>5. \A s \in t2.symbols : \E m \in t2.modules : m.id = s.module
  BY <1>1, <1>4 DEF WellFormed, ReferencesResolve, WriteTables, TableNames
<1>6. \A edges \in EdgeTables : EdgesJoin(t, t2[edges])
  BY <1>1 DEF WellFormed, ReferencesResolve, EdgesJoin, EdgeTables, TableNames
<1>7. IncludesJoin(t, t2.includes)
  BY <1>1 DEF WellFormed, ReferencesResolve, IncludesJoin, TableNames
<1>8. ReferencesResolve(t2)
  BY <1>4, <1>5, <1>6, <1>7, ReferencesGrow DEF ReferencesResolve, EdgeTables
<1> QED  BY <1>3, <1>8 DEF WellFormed, t2

\* The inductive invariant: the tables are well formed after every statement,
\* because a write call holds only rows that can be inserted, and a delete call
\* clears the edges before the symbols they name.
GraphInv == Core /\ TablesWellFormed /\ RowsReady /\ DeletionSoFar

LEMMA EmptyIsWellFormed == WellFormed(EmptyTables)
BY DEF EmptyTables, WellFormed, KeysUnique, ReferencesResolve, EdgesJoin, IncludesJoin,
       TableNames

LEMMA InitGraph == Init => GraphInv
BY InitCore, EmptyIsWellFormed
   DEF Init, GraphInv, TablesWellFormed, RowsReady, DeletionSoFar, Idle

\* A step that moves whole tables between db and work, and leaves no call or a
\* call that has done nothing yet.
LEMMA MovesGraph ==
    ASSUME GraphInv, Core', db' \in {db, work}, work' \in {db, work},
           \/ call'.fn = "idle"
           \/ call'.fn = "delete_files" /\ call'.step = "calls"
           \/ call'.fn = "write" /\ call'.rows = {}
    PROVE  GraphInv'
<1>1. TablesWellFormed'  BY DEF GraphInv, TablesWellFormed
<1>2. RowsReady'  BY DEF RowsReady, EdgesJoin, IncludesJoin
<1>3. DeletionSoFar'  BY DEF DeletionSoFar
<1> QED  BY <1>1, <1>2, <1>3 DEF GraphInv

LEMMA ControlGraph ==
    GraphInv /\ (Open \/ Crash \/ BeginTransaction \/ CommitTransaction \/ CommitFails
                 \/ RollbackTransaction \/ Finish \/ Raise) => GraphInv'
<1> SUFFICES ASSUME GraphInv,
                    Open \/ Crash \/ BeginTransaction \/ CommitTransaction \/ CommitFails
                    \/ RollbackTransaction \/ Finish \/ Raise
             PROVE  GraphInv'
  OBVIOUS
<1>1. Core'
  BY OpenCore, CrashCore, ControlCore, FinishCore, RaiseCore DEF GraphInv
<1>2. db' \in {db, work} /\ work' \in {db, work}
  BY DEF Open, Crash, BeginTransaction, CommitTransaction, CommitFails,
         RollbackTransaction, Finish, Raise, RollbackEffect, EngineGivesUp,
         EngineBegin, EngineCommit, EngineRollback, engineVars
<1>3. call' = Idle
  BY DEF GraphInv, Core, ClosedIsClean, Open, Crash, BeginTransaction,
         CommitTransaction, CommitFails, RollbackTransaction, Finish, Raise, Free
<1> QED  BY <1>1, <1>2, <1>3, MovesGraph DEF Idle

LEMMA DeleteSomeGraph == GraphInv /\ DeleteSome => GraphInv'
<1> SUFFICES ASSUME GraphInv, NEW F \in SUBSET Files, DeleteFiles(F) PROVE GraphInv'
  BY DEF DeleteSome
<1>1. Core'  BY DeleteFilesCore DEF GraphInv
<1>2. db' = db /\ work' = work /\ call'.fn = "delete_files" /\ call'.step = "calls"
  BY DEF DeleteFiles, Enter, EngineBegin, engineVars
<1> QED  BY <1>1, <1>2, MovesGraph

LEMMA WriteGraph ==
    GraphInv /\ (WriteSymbols \/ WriteEdges \/ WriteIncludes) => GraphInv'
<1> SUFFICES ASSUME GraphInv, WriteSymbols \/ WriteEdges \/ WriteIncludes PROVE GraphInv'
  OBVIOUS
<1>1. Core'  BY WriteSomeCore DEF GraphInv
<1>2. PICK table, items : Write(table, items)
  BY DEF WriteSymbols, WriteEdges, WriteIncludes, WriteSome
<1>3. db' = db /\ work' = work /\ call'.fn = "write" /\ call'.rows = {}
  BY <1>2 DEF Write, Enter, EngineBegin, engineVars
<1> QED  BY <1>1, <1>3, MovesGraph

LEMMA DeleteStepGraph == GraphInv /\ DeleteStep => GraphInv'
<1> SUFFICES ASSUME GraphInv, DeleteStep PROVE GraphInv'  OBVIOUS
<1>1. Core'  BY DeleteStepCore DEF GraphInv
<1> DEFINE F == call.files
<1>2. call \in DeleteCall /\ call.fn = "delete_files"
  BY RunningDeletion DEF GraphInv, Core, TypeOK, DeleteStep, DeleteTheCalls,
     DeleteTheIncludes, DeleteTheInheritance, DeleteTheSymbols, DeleteStatement, RunningDelete
<1>3. /\ work \in Tables /\ F \in SUBSET Files /\ WellFormed(work) /\ WellFormed(db)
  BY <1>2 DEF GraphInv, Core, TypeOK, TablesWellFormed, DeleteCall
<1>4. /\ db' = db /\ call'.fn = "delete_files" /\ call'.files = F
      /\ call'.step \in {"includes", "inheritance", "symbols", "end"}
  BY <1>2 DEF DeleteStep, DeleteTheCalls, DeleteTheIncludes, DeleteTheInheritance,
     DeleteTheSymbols, DeleteStatement, DeleteCall
<1>5. RowsReady'  BY <1>4 DEF RowsReady
<1>6. CASE DeleteTheCalls
  <2>1. work' = DeleteCalls(work, F) /\ call'.step = "includes"
    BY <1>2, <1>6 DEF DeleteTheCalls, DeleteStatement, DeleteCall
  <2>2. WellFormed(work')
    BY <1>3, <2>1, EdgeDeletesKeepReferences
  <2>3. /\ work'.symbols = work.symbols
        /\ work'.calls = WithoutEdges(work.calls, SymbolIdsOf(work, F))
    BY <1>3, <2>1 DEF DeleteCalls, Tables
  <2>4. DeletionSoFar'
    BY <1>4, <2>1, <2>3 DEF DeletionSoFar, SymbolIdsOf, WithoutEdges
  <2> QED  BY <1>1, <1>3, <1>4, <1>5, <2>2, <2>4 DEF GraphInv, TablesWellFormed
<1>7. CASE DeleteTheIncludes
  <2>1. work' = DeleteIncludes(work, F) /\ call.step = "includes" /\ call'.step = "inheritance"
    BY <1>2, <1>7 DEF DeleteTheIncludes, DeleteStatement, DeleteCall, RunningDelete
  <2>2. WellFormed(work')
    BY <1>3, <2>1, EdgeDeletesKeepReferences
  <2>3. /\ work'.symbols = work.symbols /\ work'.calls = work.calls
        /\ work'.includes = {r \in work.includes : r.from \notin SymbolIdsOf(work, F)}
    BY <1>3, <2>1 DEF DeleteIncludes, Tables
  <2>4. DeletionSoFar'
    BY <1>2, <1>4, <2>1, <2>3 DEF GraphInv, DeletionSoFar, SymbolIdsOf, WithoutEdges
  <2> QED  BY <1>1, <1>3, <1>4, <1>5, <2>2, <2>4 DEF GraphInv, TablesWellFormed
<1>8. CASE DeleteTheInheritance
  <2>1. work' = DeleteInheritance(work, F) /\ call.step = "inheritance"
        /\ call'.step = "symbols"
    BY <1>2, <1>8 DEF DeleteTheInheritance, DeleteStatement, DeleteCall, RunningDelete
  <2>2. WellFormed(work')
    BY <1>3, <2>1, EdgeDeletesKeepReferences
  <2>3. /\ work'.symbols = work.symbols /\ work'.calls = work.calls
        /\ work'.includes = work.includes
        /\ work'.inheritance = WithoutEdges(work.inheritance, SymbolIdsOf(work, F))
    BY <1>3, <2>1 DEF DeleteInheritance, Tables
  <2>4. DeletionSoFar'
    BY <1>2, <1>4, <2>1, <2>3 DEF GraphInv, DeletionSoFar, SymbolIdsOf, WithoutEdges
  <2> QED  BY <1>1, <1>3, <1>4, <1>5, <2>2, <2>4 DEF GraphInv, TablesWellFormed
<1>9. CASE DeleteTheSymbols
  <2>1. work' = DeleteSymbols(work, F) /\ call.step = "symbols" /\ call'.step = "end"
    BY <1>2, <1>9 DEF DeleteTheSymbols, DeleteStatement, DeleteCall, RunningDelete
  <2>2. WellFormed(work')
    BY <1>2, <1>3, <2>1, SymbolDeleteKeepsReferences DEF GraphInv, DeletionSoFar
  <2>3. DeletionSoFar'
    BY <1>4, <2>1 DEF DeletionSoFar
  <2> QED  BY <1>1, <1>3, <1>4, <1>5, <2>2, <2>3 DEF GraphInv, TablesWellFormed
<1> QED  BY <1>6, <1>7, <1>8, <1>9 DEF DeleteStep

LEMMA InsertGraph == GraphInv /\ Insert => GraphInv'
<1> SUFFICES ASSUME GraphInv, Insert PROVE GraphInv'  OBVIOUS
<1>1. Core'  BY InsertCore DEF GraphInv
<1>2. call.table \in WriteTables /\ call \in WriteCall(call.table) /\ call.fn = "write"
  BY RunningWrite DEF Insert, GraphInv, Core, TypeOK
<1>3. /\ work \in Tables /\ WellFormed(work) /\ WellFormed(db)
      /\ \A r \in call.rows : r.id \notin Ids(work, call.table)
      /\ work' = [work EXCEPT ![call.table] = @ \cup call.rows] /\ db' = db
  BY DEF GraphInv, Core, TypeOK, TablesWellFormed, Insert
<1>4. WellFormed(work')
  BY <1>2, <1>3, InsertKeepsReferences DEF GraphInv, RowsReady
<1>5. /\ call'.fn = "write" /\ call'.rows = call.rows /\ call'.table = call.table
  BY <1>2 DEF Insert, WriteCall
<1>6. work.symbols \subseteq work'.symbols /\ work.modules \subseteq work'.modules
  BY <1>2, <1>3 DEF Tables, WriteTables
<1>7. RowsReady'
  BY <1>2, <1>5, <1>6, ReferencesGrow DEF GraphInv, RowsReady
<1>8. DeletionSoFar'  BY <1>5 DEF DeletionSoFar
<1> QED  BY <1>1, <1>3, <1>4, <1>7, <1>8 DEF GraphInv, TablesWellFormed

\* One more row of a write call is ready, and perhaps one more module inserted.
LEMMA RowReadyGraph ==
    ASSUME GraphInv, Core', NEW table \in WriteTables, Preparing(table),
           NEW row, row.id = next[table], NEW t, NEW counters, RowReady(row, t, counters),
           WellFormed(t), work.symbols \subseteq t.symbols, work.modules \subseteq t.modules,
           table = "symbols" => \E m \in t.modules : m.id = row.module,
           table \in EdgeTables => EdgesJoin(t, {row}),
           table = "includes" => IncludesJoin(t, {row})
    PROVE  GraphInv'
<1>1. call \in WriteCall(table) /\ call.fn = "write" /\ call.table = table
  BY RunningWrite DEF GraphInv, Core, TypeOK, Preparing
<1>2. /\ call'.rows = call.rows \cup {row} /\ call'.fn = "write" /\ call'.table = table
      /\ work' = t /\ db' = db
  BY <1>1 DEF RowReady, WriteCall
<1>3. \A r \in call.rows : r.id < next[table]
  <2>1. ready /\ table \in TableNames
    BY <1>1 DEF GraphInv, Core, ClosedIsClean, Idle, WriteTables, TableNames
  <2> QED  BY <1>1, <2>1 DEF GraphInv, Core, CountersAhead, PendingRows
<1>4. next[table] \in Int
  BY DEF GraphInv, Core, TypeOK, Id, WriteTables, TableNames
<1>5. \A r \in call.rows : r.id # row.id
  BY <1>3, <1>4
<1>6. \A r1, r2 \in call'.rows : r1.id = r2.id => r1 = r2
  BY <1>1, <1>2, <1>5 DEF GraphInv, RowsReady
<1>7. /\ table \in EdgeTables => EdgesJoin(t, call'.rows)
      /\ table = "includes" => IncludesJoin(t, call'.rows)
      /\ table = "symbols" => \A r \in call'.rows : \E m \in t.modules : m.id = r.module
  <2>1. CASE table \in EdgeTables
    <3>1. EdgesJoin(t, call.rows)
      BY <1>1, <2>1, ReferencesGrow DEF GraphInv, RowsReady
    <3> QED  BY <1>2, <2>1, <3>1 DEF EdgesJoin, EdgeTables
  <2>2. CASE table = "includes"
    <3>1. IncludesJoin(t, call.rows)
      BY <1>1, <2>2, ReferencesGrow DEF GraphInv, RowsReady
    <3> QED  BY <1>2, <2>2, <3>1 DEF IncludesJoin, EdgeTables
  <2>3. CASE table = "symbols"
    BY <1>1, <1>2, <2>3 DEF GraphInv, RowsReady, EdgeTables
  <2> QED  BY <2>1, <2>2, <2>3 DEF WriteTables, EdgeTables
<1>8. RowsReady'  BY <1>2, <1>6, <1>7 DEF RowsReady
<1>9. DeletionSoFar'  BY <1>2 DEF DeletionSoFar
<1>10. TablesWellFormed'  BY <1>2 DEF GraphInv, TablesWellFormed
<1> QED  BY <1>8, <1>9, <1>10 DEF GraphInv

\* What ensure_module leaves: the module under its name, all else as it was.
LEMMA EnsureModuleGraph ==
    ASSUME GraphInv, ready, NEW name \in ModuleNames
    PROVE  LET t == WithModule(work, name, next.modules) IN
           /\ WellFormed(t)
           /\ work.symbols \subseteq t.symbols /\ work.modules \subseteq t.modules
           /\ \E m \in t.modules : m.id = ModuleIdOf(t, name)
<1> DEFINE t == WithModule(work, name, next.modules)
<1>1. /\ work \in Tables /\ next.modules \in Id /\ WellFormed(work)
      /\ next.modules = next["modules"]
  BY DEF GraphInv, Core, TypeOK, TableNames, TablesWellFormed
<1>2. \A m \in work.modules : m.id < next.modules
  BY DEF GraphInv, Core, CountersAhead, TableNames
<1>3. \A m \in work.modules : m.id # next.modules
  BY <1>1, <1>2 DEF Id
<1>4. WellFormed(t)
  BY <1>1, <1>3, NewModuleKeepsReferences
<1>5. work.symbols \subseteq t.symbols /\ work.modules \subseteq t.modules
  BY <1>1 DEF WithModule, Tables
<1>6. \E m \in t.modules : m.id = ModuleIdOf(t, name)
  BY <1>1, WithModuleKnowsIt, ModuleIdOfFound
<1> QED  BY <1>4, <1>5, <1>6

LEMMA PrepareSymbolGraph == GraphInv /\ PrepareSymbol => GraphInv'
<1> SUFFICES ASSUME GraphInv, PrepareSymbol PROVE GraphInv'  OBVIOUS
<1> DEFINE item == Head(call.items)
           t == WithModule(work, item.name, next.modules)
           counters == Counted("symbols", work, item.name)
           row == [id |-> next.symbols, module |-> ModuleIdOf(t, item.name),
                   file |-> item.file]
<1>1. Core' /\ Preparing("symbols") /\ RowReady(row, t, counters)
  BY PrepareSymbolCore DEF PrepareSymbol, GraphInv
<1>2. item \in SymbolItem /\ ready
  BY <1>1, RunningWrite
  DEF Preparing, GraphInv, Core, TypeOK, WriteCall, ItemOf, ClosedIsClean, Idle
<1>3. /\ WellFormed(t)
      /\ work.symbols \subseteq t.symbols /\ work.modules \subseteq t.modules
      /\ \E m \in t.modules : m.id = row.module
  BY <1>2, EnsureModuleGraph DEF SymbolItem
<1>4. row.id = next["symbols"] /\ "symbols" \in WriteTables /\ "symbols" \notin EdgeTables
  BY DEF WriteTables, EdgeTables
<1> HIDE DEF t, counters, row
<1> QED  BY <1>1, <1>3, <1>4, RowReadyGraph

LEMMA PrepareEdgeGraph ==
    ASSUME NEW table \in EdgeTables
    PROVE  GraphInv /\ PrepareEdge(table) => GraphInv'
<1> SUFFICES ASSUME GraphInv, PrepareEdge(table) PROVE GraphInv'  OBVIOUS
<1> DEFINE item == Head(call.items)
           counters == [next EXCEPT ![table] = @ + 1]
           row == [id |-> next[table], from |-> item.from, to |-> item.to,
                   fromModule |-> ModuleOf(work, item.from),
                   toModule |-> ModuleOf(work, item.to)]
<1>1. /\ Core' /\ Preparing(table) /\ RowReady(row, work, counters)
      /\ KnownSymbol(work, item.from) /\ KnownSymbol(work, item.to)
  BY PrepareEdgeCore DEF PrepareEdge, GraphInv
<1>2. work \in Tables /\ WellFormed(work)
  BY DEF GraphInv, Core, TypeOK, TablesWellFormed
<1>3. EdgesJoin(work, {row})
  BY <1>1, <1>2, ModuleOfFound DEF EdgesJoin
<1>4. row.id = next[table] /\ table \in WriteTables /\ table \notin {"symbols", "includes"}
  BY DEF WriteTables, EdgeTables
<1> HIDE DEF counters, row
<1> QED  BY <1>1, <1>2, <1>3, <1>4, RowReadyGraph

LEMMA PrepareIncludeGraph == GraphInv /\ PrepareInclude => GraphInv'
<1> SUFFICES ASSUME GraphInv, PrepareInclude PROVE GraphInv'  OBVIOUS
<1> DEFINE item == Head(call.items)
           unnamed == item.name = NoName
           t == IF unnamed THEN work ELSE WithModule(work, item.name, next.modules)
           counters == IF unnamed THEN [next EXCEPT !.includes = @ + 1]
                       ELSE Counted("includes", work, item.name)
           row == [id |-> next.includes, from |-> item.from,
                   fromModule |-> ModuleOf(work, item.from),
                   target |-> IF unnamed THEN 0 ELSE ModuleIdOf(t, item.name)]
<1>1. /\ Core' /\ Preparing("includes") /\ RowReady(row, t, counters)
      /\ KnownSymbol(work, item.from)
  BY PrepareIncludeCore DEF PrepareInclude, GraphInv
<1>2. item \in IncludeItem /\ ready
  BY <1>1, RunningWrite
  DEF Preparing, GraphInv, Core, TypeOK, WriteCall, ItemOf, ClosedIsClean, Idle
<1>3. work \in Tables /\ WellFormed(work)
  BY DEF GraphInv, Core, TypeOK, TablesWellFormed
<1>4. /\ WellFormed(t)
      /\ work.symbols \subseteq t.symbols /\ work.modules \subseteq t.modules
      /\ row.target # 0 => \E m \in t.modules : m.id = row.target
  <2>1. CASE unnamed
    BY <1>3, <2>1
  <2>2. CASE ~ unnamed
    <3>1. item.name \in ModuleNames
      BY <1>2, <2>2 DEF IncludeItem
    <3> QED  BY <1>2, <2>2, <3>1, EnsureModuleGraph
  <2> QED  BY <2>1, <2>2
<1>5. \E s \in work.symbols : s.id = row.from /\ s.module = row.fromModule
  BY <1>1, <1>3, ModuleOfFound
<1> HIDE DEF t, row
<1>6. IncludesJoin(t, {row})
  BY <1>4, <1>5 DEF IncludesJoin
<1>7. "includes" \in WriteTables /\ "includes" \notin EdgeTables
  BY DEF WriteTables, EdgeTables
<1>8. row.id = next["includes"]
  BY DEF row
<1> HIDE DEF counters
<1> QED  BY <1>1, <1>4, <1>6, <1>7, <1>8, RowReadyGraph

LEMMA NextGraph == GraphInv /\ [Next]_vars => GraphInv'
<1> SUFFICES ASSUME GraphInv, [Next]_vars PROVE GraphInv'  OBVIOUS
<1>1. CASE UNCHANGED vars
  BY <1>1, StutterCore DEF GraphInv, TablesWellFormed, RowsReady, DeletionSoFar, vars
<1>2. CASE PrepareRow
  BY <1>2, PrepareSymbolGraph, PrepareEdgeGraph, PrepareIncludeGraph DEF PrepareRow
<1> QED
  BY <1>1, <1>2, ControlGraph, DeleteSomeGraph, WriteGraph, DeleteStepGraph,
     InsertGraph DEF Next

\* After every statement of every call, committed or not, and across crashes
\* and restarts, no edge, include or symbol points to a row that is gone.
THEOREM GraphStaysWellFormed == Spec => []TablesWellFormed
<1>1. GraphInv => TablesWellFormed  BY DEF GraphInv
<1> QED  BY <1>1, InitGraph, NextGraph, PTL DEF Spec

-----------------------------------------------------------------------------
(* A transaction the flag has given up on.                                 *)

RunningIsOpen == call # Idle => open

LEMMA NextRunningIsOpen == RunningIsOpen /\ [Next]_vars => RunningIsOpen'
<1> SUFFICES ASSUME RunningIsOpen, [Next]_vars PROVE RunningIsOpen'  OBVIOUS
<1> USE DEF RunningIsOpen
<1>1. CASE DeleteSome \/ WriteSymbols \/ WriteEdges \/ WriteIncludes
  BY <1>1 DEF DeleteSome, WriteSymbols, WriteEdges, WriteIncludes, WriteSome,
              DeleteFiles, Write, Enter
<1>2. CASE DeleteStep \/ PrepareRow \/ Insert
  <2>1. call.fn \in {"delete_files", "write"} /\ open' = open
    BY <1>2 DEF DeleteStep, DeleteTheCalls, DeleteTheIncludes, DeleteTheInheritance,
       DeleteTheSymbols, DeleteStatement, RunningDelete, PrepareRow, PrepareSymbol,
       PrepareEdge, PrepareInclude, Preparing, RowReady, Insert
  <2> QED  BY <2>1 DEF Idle
<1>3. CASE Finish \/ Raise \/ Crash
  BY <1>3 DEF Finish, Raise, Crash
<1>4. CASE Open \/ BeginTransaction \/ CommitTransaction \/ CommitFails
           \/ RollbackTransaction
  BY <1>4 DEF Open, BeginTransaction, CommitTransaction, CommitFails,
              RollbackTransaction, Free
<1>5. CASE UNCHANGED vars
  BY <1>5 DEF vars
<1> QED  BY <1>1, <1>2, <1>3, <1>4, <1>5 DEF Next

\* What an abandoned transaction wrote never becomes durable.
THEOREM AbandonedWritesAreLost == Spec => AbandonedStaysOut
<1>1. Init => RunningIsOpen  BY DEF Init, RunningIsOpen
<1>2. RunningIsOpen /\ [Next]_vars => [inTxn /\ ~open => db' = db]_vars
  <2> SUFFICES ASSUME RunningIsOpen, Next, inTxn, ~open PROVE db' = db
    OBVIOUS
  <2>1. call = Idle  BY DEF RunningIsOpen
  <2>2. CASE DeleteSome \/ WriteSymbols \/ WriteEdges \/ WriteIncludes
    BY <2>2 DEF DeleteSome, WriteSymbols, WriteEdges, WriteIncludes, WriteSome,
                DeleteFiles, Write, Enter, EngineBegin
  <2>3. CASE DeleteStep \/ PrepareRow \/ Insert
    BY <2>3 DEF DeleteStep, DeleteTheCalls, DeleteTheIncludes, DeleteTheInheritance,
       DeleteTheSymbols, DeleteStatement, PrepareRow, PrepareSymbol,
       PrepareEdge, PrepareInclude, RowReady, Insert
  <2>4. CASE Finish \/ Raise
    BY <2>1, <2>4 DEF Finish, Raise
  <2>5. CASE Open \/ Crash \/ BeginTransaction \/ CommitTransaction \/ CommitFails
             \/ RollbackTransaction
    BY <2>5 DEF Open, Crash, BeginTransaction, CommitTransaction, CommitFails,
                RollbackTransaction, EngineBegin, engineVars
  <2> QED  BY <2>2, <2>3, <2>4, <2>5 DEF Next
<1> QED  BY <1>1, <1>2, NextRunningIsOpen, PTL DEF Spec, AbandonedStaysOut

-----------------------------------------------------------------------------
(* DependencyGraph implements GraphStore.  The committed tables are the    *)
(* durable ones, and "whole", the tables the last whole call left, are     *)
(* what the caller's transaction has staged.  Every statement of a call is *)
(* a stutter, and its end is the call: what the statements before it have  *)
(* done to "whole" so far is the invariant (StoreInv).                     *)

\* The engine's transaction and the two flags.  An open transaction that the
\* engine has lost is one in which a COMMIT or a call has raised.
TxnInv ==
    /\ ~ inTxn => work = db
    /\ raised => open
    /\ call # Idle => open /\ ~ raised
    /\ open /\ ~ raised => inTxn

\* What the statements of delete_files that already ran have removed.
Deleting ==
    call.fn = "delete_files" =>
        LET ids == SymbolIdsOf(whole, call.files) IN
        /\ work.modules = whole.modules
        /\ work.calls = IF call.step = "calls" THEN whole.calls
                        ELSE WithoutEdges(whole.calls, ids)
        /\ work.includes = IF call.step \in {"calls", "includes"} THEN whole.includes
                           ELSE {r \in whole.includes : r.from \notin ids}
        /\ work.inheritance = IF call.step \in {"symbols", "end"}
                              THEN WithoutEdges(whole.inheritance, ids)
                              ELSE whole.inheritance
        /\ work.symbols = IF call.step = "end"
                          THEN {r \in whole.symbols : r.file \notin call.files}
                          ELSE whole.symbols

\* Before its INSERT a write call has only added modules that its rows name.
Preparations ==
    /\ \A table \in TableNames \ {"modules"} : work[table] = whole[table]
    /\ whole.modules \subseteq work.modules
    /\ call.table \in EdgeTables => work.modules = whole.modules
    /\ call.table = "symbols" =>
          \A m \in work.modules \ whole.modules : \E r \in call.rows : r.module = m.id
    /\ call.table = "includes" =>
          \A m \in work.modules \ whole.modules : \E r \in call.rows : r.target = m.id

Writing ==
    call.fn = "write" =>
        /\ call.step = "prepare" => Preparations
        /\ call.step = "end" => Store!CallDone(whole, work)

\* What is staged, between calls and outside the caller's transaction.
Staged ==
    /\ ~ InCallersTxn => whole = db
    /\ open /\ ~ raised /\ call = Idle => whole = work

StoreInv == GraphInv /\ TxnInv /\ Staged /\ Deleting /\ Writing

\* A step of the store, or one that it does not see.
StoreStep == [Store!StoreNext]_(Store!storeVars)

-----------------------------------------------------------------------------
(* Transaction control, crash and restart.                                 *)

LEMMA InitStoreInv == Init => StoreInv /\ Store!StoreInit
<1> SUFFICES ASSUME Init PROVE StoreInv /\ Store!StoreInit
  OBVIOUS
<1>1. GraphInv
  BY InitGraph
<1>2. ~ InCallersTxn /\ TxnInv /\ Staged /\ Deleting /\ Writing
  BY DEF Init, InCallersTxn, TxnInv, Staged, Deleting, Writing, Idle
<1>3. Store!StoreInit
  BY <1>2 DEF Init, Store!StoreInit, EmptyTables, Store!EmptyTables
<1> QED
  BY <1>1, <1>2, <1>3 DEF StoreInv

LEMMA StutterIsNoStep ==
    ASSUME UNCHANGED <<db, whole, InCallersTxn>>
    PROVE  StoreStep
  BY DEF StoreStep, Store!storeVars

LEMMA OpenIsNoStep == StoreInv /\ Open => StoreInv' /\ StoreStep
<1> SUFFICES ASSUME StoreInv, Open PROVE StoreInv' /\ StoreStep
  OBVIOUS
<1>1. GraphInv'
  BY NextGraph DEF StoreInv, Next
<1>2. UNCHANGED <<db, work, inTxn, open, call, raised, whole>>
  BY DEF Open, engineVars, callerVars
<1>3. UNCHANGED InCallersTxn
  BY <1>2 DEF InCallersTxn
<1>4. TxnInv' /\ Staged' /\ Deleting' /\ Writing'
  BY <1>2, <1>3 DEF StoreInv, TxnInv, Staged, Deleting, Writing, Preparations,
     Store!CallDone, Store!FilesDeletedIn, Store!SymbolsWritten, Store!EdgesWritten,
     Store!IncludesWritten, Store!Grown
<1> QED
  BY <1>1, <1>2, <1>3, <1>4, StutterIsNoStep DEF StoreInv

LEMMA CrashAborts == StoreInv /\ Crash => StoreInv' /\ StoreStep
<1> SUFFICES ASSUME StoreInv, Crash PROVE StoreInv' /\ StoreStep
  OBVIOUS
<1>1. GraphInv'
  BY NextGraph DEF StoreInv, Next
<1>2. InCallersTxn' = FALSE
  BY DEF Crash, InCallersTxn
<1>3. TxnInv' /\ Staged' /\ Deleting' /\ Writing'
  BY <1>2 DEF Crash, TxnInv, Staged, Deleting, Writing, Idle
<1>4. StoreStep
  <2>1. CASE InCallersTxn
    BY <1>2, <2>1 DEF Crash, StoreStep, Store!StoreNext, Store!Abort
  <2>2. CASE ~ InCallersTxn
    <3>1. UNCHANGED <<db, whole>> /\ InCallersTxn = FALSE
      BY <2>2 DEF Crash, StoreInv, Staged, InCallersTxn
    <3> QED
      BY <1>2, <3>1, StutterIsNoStep
  <2> QED
    BY <2>1, <2>2
<1> QED
  BY <1>1, <1>3, <1>4 DEF StoreInv

LEMMA IdleRunsNothing ==
    ASSUME call' = Idle PROVE Deleting' /\ Writing' /\ (InCallersTxn' <=> open')
  BY DEF Deleting, Writing, InCallersTxn, Idle

LEMMA ControlSteps ==
    StoreInv /\ (BeginTransaction \/ CommitTransaction \/ CommitFails \/ RollbackTransaction)
    => StoreInv' /\ StoreStep
<1> SUFFICES ASSUME StoreInv,
                    BeginTransaction \/ CommitTransaction \/ CommitFails \/ RollbackTransaction
             PROVE  StoreInv' /\ StoreStep
  OBVIOUS
<1>1. GraphInv'
  BY NextGraph DEF StoreInv, Next
<1>2. call = Idle /\ call' = Idle /\ open \in BOOLEAN /\ open' \in BOOLEAN
  BY <1>1 DEF BeginTransaction, CommitTransaction, CommitFails, RollbackTransaction, Free,
     StoreInv, GraphInv, Core, TypeOK
<1>3. Deleting' /\ Writing' /\ (InCallersTxn' <=> open') /\ (InCallersTxn <=> open)
  BY <1>2, IdleRunsNothing DEF InCallersTxn
<1>4. CASE BeginTransaction
  <2>1. TxnInv' /\ Staged'
    BY <1>2, <1>3, <1>4
       DEF BeginTransaction, EngineBegin, callerVars, StoreInv, TxnInv, Staged
  <2>2. Store!Begin
    BY <1>2, <1>3, <1>4
       DEF BeginTransaction, EngineBegin, callerVars, StoreInv, Staged, Store!Begin
  <2> QED
    BY <1>1, <1>3, <2>1, <2>2 DEF StoreInv, StoreStep, Store!StoreNext
<1>5. CASE CommitTransaction
  <2>1. TxnInv' /\ Staged'
    BY <1>2, <1>3, <1>5
       DEF CommitTransaction, EngineCommit, callerVars, StoreInv, TxnInv, Staged
  <2>2. Store!Commit
    BY <1>2, <1>3, <1>5
       DEF CommitTransaction, EngineCommit, callerVars, StoreInv, Staged, Store!Commit
  <2> QED
    BY <1>1, <1>3, <2>1, <2>2 DEF StoreInv, StoreStep, Store!StoreNext
<1>6. CASE CommitFails
  <2>1. UNCHANGED <<db, whole, open, call>> /\ open /\ raised'
    BY <1>2, <1>6 DEF CommitFails, EngineGivesUp, EngineRollback, engineVars
  <2>2. UNCHANGED InCallersTxn
    BY <2>1 DEF InCallersTxn
  <2>3. TxnInv'
    <3>1. ~ inTxn' => work' = db'
      <4>1. CASE EngineRollback
        BY <4>1 DEF EngineRollback
      <4>2. CASE UNCHANGED engineVars
        BY <4>2 DEF engineVars, StoreInv, TxnInv
      <4> QED
        BY <1>6, <4>1, <4>2 DEF CommitFails, EngineGivesUp
    <3> QED
      BY <1>2, <2>1, <3>1 DEF TxnInv
  <2>4. Staged'
    BY <1>3, <2>1 DEF Staged
  <2> QED
    BY <1>1, <1>3, <2>1, <2>2, <2>3, <2>4, StutterIsNoStep DEF StoreInv
<1>7. CASE RollbackTransaction
  <2>1. TxnInv' /\ Staged'
    BY <1>2, <1>3, <1>7 DEF RollbackTransaction, RollbackEffect, EngineGivesUp, EngineRollback,
       engineVars, StoreInv, TxnInv, Staged
  <2>2. Store!Abort
    BY <1>2, <1>3, <1>7 DEF RollbackTransaction, RollbackEffect, EngineGivesUp, EngineRollback,
       engineVars, Store!Abort
  <2> QED
    BY <1>1, <1>3, <2>1, <2>2 DEF StoreInv, StoreStep, Store!StoreNext
<1> QED
  BY <1>4, <1>5, <1>6, <1>7

-----------------------------------------------------------------------------
(* A call begins, goes on and raises: the store sees nothing.              *)

LEMMA EnterIsNoStep ==
    ASSUME StoreInv, GraphInv', NEW body, Enter(body), body # Idle,
           body.started = ~ open, work = whole => Deleting' /\ Writing'
    PROVE  StoreInv' /\ StoreStep
<1>1. open \in BOOLEAN /\ call = Idle /\ call' = body /\ open' = TRUE
  BY DEF Enter, Free, StoreInv, GraphInv, Core, TypeOK
<1>2. UNCHANGED <<db, work, raised, whole>> /\ ~ raised /\ inTxn'
  BY DEF Enter, EngineBegin, engineVars, callerVars, StoreInv, TxnInv
<1>3. UNCHANGED InCallersTxn
  BY <1>1 DEF InCallersTxn
<1>4. work = whole
  <2>1. CASE open
    BY <1>1, <1>2, <2>1 DEF StoreInv, Staged
  <2>2. CASE ~ open
    BY <1>1, <2>2 DEF Enter, EngineBegin, StoreInv, Staged, TxnInv, InCallersTxn
  <2> QED
    BY <2>1, <2>2
<1>5. TxnInv' /\ Staged'
  BY <1>1, <1>2, <1>3 DEF StoreInv, TxnInv, Staged
<1> QED
  BY <1>2, <1>3, <1>4, <1>5, StutterIsNoStep DEF StoreInv

LEMMA DeleteBegins == StoreInv /\ DeleteSome => StoreInv' /\ StoreStep
<1> SUFFICES ASSUME StoreInv, NEW F \in SUBSET Files, DeleteFiles(F), DeleteSome
             PROVE  StoreInv' /\ StoreStep
  BY DEF DeleteSome
<1> DEFINE body == [fn |-> "delete_files", started |-> ~open, files |-> F, step |-> "calls"]
<1>1. GraphInv'
  BY NextGraph DEF StoreInv, Next
<1>2. Enter(body) /\ body # Idle /\ body.started = ~ open
  BY DEF DeleteFiles, Idle
<1>3. call' = body /\ UNCHANGED <<work, whole>>
  BY <1>2 DEF Enter, EngineBegin, engineVars, callerVars
<1>4. work = whole => Deleting' /\ Writing'
  BY <1>3 DEF Deleting, Writing
<1> HIDE DEF body
<1> QED
  BY <1>1, <1>2, <1>4, EnterIsNoStep

LEMMA WriteBegins ==
    StoreInv /\ (WriteSymbols \/ WriteEdges \/ WriteIncludes) => StoreInv' /\ StoreStep
<1> SUFFICES ASSUME StoreInv, WriteSymbols \/ WriteEdges \/ WriteIncludes
             PROVE  StoreInv' /\ StoreStep
  OBVIOUS
<1>1. GraphInv'
  BY NextGraph DEF StoreInv, Next
<1>2. PICK table, items : table \in WriteTables /\ Write(table, items)
  BY DEF WriteSymbols, WriteEdges, WriteIncludes, WriteSome, WriteTables, EdgeTables
<1> DEFINE body == [fn |-> "write", table |-> table, started |-> ~open,
                    items |-> items, rows |-> {}, step |-> "prepare"]
<1>3. Enter(body) /\ body # Idle /\ body.started = ~ open
  BY <1>2 DEF Write, Idle
<1>4. call' = body /\ UNCHANGED <<work, whole>>
  BY <1>3 DEF Enter, EngineBegin, engineVars, callerVars
<1>5. work = whole => Deleting' /\ Writing'
  BY <1>4 DEF Deleting, Writing, Preparations
<1> HIDE DEF body
<1> QED
  BY <1>1, <1>3, <1>5, EnterIsNoStep

LEMMA RaiseIsNoStep == StoreInv /\ Raise => StoreInv' /\ StoreStep
<1> SUFFICES ASSUME StoreInv, Raise PROVE StoreInv' /\ StoreStep
  OBVIOUS
<1>1. GraphInv'
  BY NextGraph DEF StoreInv, Next
<1>2. call # Idle /\ call' = Idle /\ whole' = whole /\ open /\ ~ raised /\ inTxn
  BY DEF Raise, StoreInv, TxnInv
<1>3. Deleting' /\ Writing' /\ (InCallersTxn' <=> open')
  BY <1>2, IdleRunsNothing
<1>4. CASE call.started
  <2>1. db' = db /\ open' = FALSE /\ raised' = raised /\ EngineGivesUp
    BY <1>4 DEF Raise, RollbackEffect, EngineGivesUp, EngineRollback, engineVars
  <2>2. ~ InCallersTxn /\ ~ InCallersTxn'
    BY <1>2, <1>3, <1>4, <2>1 DEF InCallersTxn
  <2>3. TxnInv' /\ Staged'
    BY <1>2, <2>1, <2>2
       DEF StoreInv, TxnInv, Staged, EngineGivesUp, EngineRollback, engineVars
  <2> QED
    BY <1>1, <1>2, <1>3, <2>1, <2>2, <2>3, StutterIsNoStep DEF StoreInv, InCallersTxn
<1>5. CASE ~ call.started
  <2>1. UNCHANGED <<db, work, inTxn, open>> /\ raised' = TRUE
    BY <1>5 DEF Raise, engineVars
  <2>2. InCallersTxn /\ InCallersTxn' /\ UNCHANGED InCallersTxn
    BY <1>2, <1>3, <1>5, <2>1 DEF InCallersTxn
  <2>3. TxnInv' /\ Staged'
    BY <1>2, <2>1, <2>2 DEF StoreInv, TxnInv, Staged
  <2> QED
    BY <1>1, <1>2, <1>3, <2>1, <2>2, <2>3, StutterIsNoStep DEF StoreInv
<1> QED
  BY <1>4, <1>5

\* A statement in the middle of a call.
LEMMA StatementIsNoStep ==
    ASSUME StoreInv, GraphInv', call # Idle, call' # Idle, call'.started = call.started,
           UNCHANGED <<db, inTxn, ready, open, callerVars>>, Deleting', Writing'
    PROVE  StoreInv' /\ StoreStep
<1>1. UNCHANGED <<raised, whole, InCallersTxn>>
  BY DEF callerVars, InCallersTxn
<1>2. TxnInv' /\ Staged'
  BY <1>1 DEF StoreInv, TxnInv, Staged
<1> QED
  BY <1>1, <1>2, StutterIsNoStep DEF StoreInv

-----------------------------------------------------------------------------
(* delete_files.                                                           *)

LEMMA DeleteStatementIsNoStep == StoreInv /\ DeleteStep => StoreInv' /\ StoreStep
<1> SUFFICES ASSUME StoreInv, DeleteStep PROVE StoreInv' /\ StoreStep
  OBVIOUS
<1> DEFINE F == call.files
           ids == SymbolIdsOf(whole, F)
<1>1. GraphInv'
  BY NextGraph DEF StoreInv, Next
<1>2. call \in DeleteCall /\ call.fn = "delete_files" /\ work \in Tables
  BY RunningDeletion DEF StoreInv, GraphInv, Core, TypeOK, DeleteStep, DeleteTheCalls,
     DeleteTheIncludes, DeleteTheInheritance, DeleteTheSymbols, DeleteStatement, RunningDelete
<1>3. /\ call'.fn = "delete_files" /\ call'.files = F /\ call'.started = call.started
      /\ UNCHANGED <<db, inTxn, ready, open, raised, whole>>
  BY <1>2 DEF DeleteStep, DeleteTheCalls, DeleteTheIncludes, DeleteTheInheritance,
     DeleteTheSymbols, DeleteStatement, DeleteCall, callerVars
<1>4. /\ work.modules = whole.modules
      /\ call.step # "end"
      /\ work.symbols = whole.symbols /\ SymbolIdsOf(work, F) = ids
  BY <1>2 DEF StoreInv, Deleting, SymbolIdsOf, DeleteStep, DeleteTheCalls, DeleteTheIncludes,
     DeleteTheInheritance, DeleteTheSymbols, DeleteStatement, RunningDelete
<1>5. Deleting'
  <2>1. CASE DeleteTheCalls
    <3>1. /\ call.step = "calls" /\ call'.step = "includes"
          /\ work' = DeleteCalls(work, F)
      BY <1>2, <2>1 DEF DeleteTheCalls, DeleteStatement, RunningDelete, DeleteCall
    <3>2. /\ work'.modules = work.modules /\ work'.symbols = work.symbols
          /\ work'.includes = work.includes /\ work'.inheritance = work.inheritance
          /\ work'.calls = WithoutEdges(work.calls, ids)
      BY <1>2, <1>4, <3>1 DEF DeleteCalls, Tables
    <3> QED
      BY <1>2, <1>3, <1>4, <3>1, <3>2 DEF StoreInv, Deleting
  <2>2. CASE DeleteTheIncludes
    <3>1. /\ call.step = "includes" /\ call'.step = "inheritance"
          /\ work' = DeleteIncludes(work, F)
      BY <1>2, <2>2 DEF DeleteTheIncludes, DeleteStatement, RunningDelete, DeleteCall
    <3>2. /\ work'.modules = work.modules /\ work'.symbols = work.symbols
          /\ work'.calls = work.calls /\ work'.inheritance = work.inheritance
          /\ work'.includes = {r \in work.includes : r.from \notin ids}
      BY <1>2, <1>4, <3>1 DEF DeleteIncludes, Tables
    <3> QED
      BY <1>2, <1>3, <1>4, <3>1, <3>2 DEF StoreInv, Deleting
  <2>3. CASE DeleteTheInheritance
    <3>1. /\ call.step = "inheritance" /\ call'.step = "symbols"
          /\ work' = DeleteInheritance(work, F)
      BY <1>2, <2>3 DEF DeleteTheInheritance, DeleteStatement, RunningDelete, DeleteCall
    <3>2. /\ work'.modules = work.modules /\ work'.symbols = work.symbols
          /\ work'.calls = work.calls /\ work'.includes = work.includes
          /\ work'.inheritance = WithoutEdges(work.inheritance, ids)
      BY <1>2, <1>4, <3>1 DEF DeleteInheritance, Tables
    <3> QED
      BY <1>2, <1>3, <1>4, <3>1, <3>2 DEF StoreInv, Deleting
  <2>4. CASE DeleteTheSymbols
    <3>1. /\ call.step = "symbols" /\ call'.step = "end"
          /\ work' = DeleteSymbols(work, F)
      BY <1>2, <2>4 DEF DeleteTheSymbols, DeleteStatement, RunningDelete, DeleteCall
    <3>2. /\ work'.modules = work.modules /\ work'.inheritance = work.inheritance
          /\ work'.calls = work.calls /\ work'.includes = work.includes
          /\ work'.symbols = {r \in work.symbols : r.file \notin F}
      BY <1>2, <3>1 DEF DeleteSymbols, Tables
    <3> QED
      BY <1>2, <1>3, <1>4, <3>1, <3>2 DEF StoreInv, Deleting
  <2> QED
    BY <2>1, <2>2, <2>3, <2>4 DEF DeleteStep
<1>6. Writing'
  BY <1>3 DEF Writing
<1>7. call # Idle /\ call' # Idle
  BY <1>2, <1>3 DEF Idle
<1> QED
  BY <1>1, <1>3, <1>5, <1>6, <1>7, StatementIsNoStep DEF callerVars

\* What the four statements have done together is one deletion.
LEMMA DeletionIsWhole ==
    ASSUME StoreInv, call.fn = "delete_files", call.step = "end"
    PROVE  Store!CallDone(whole, work)
<1> DEFINE F == call.files
           ids == SymbolIdsOf(whole, F)
<1>1. call \in DeleteCall /\ F \in SUBSET Files /\ work \in Tables /\ whole \in Tables
  BY RunningDeletion DEF StoreInv, GraphInv, Core, TypeOK, DeleteCall
<1>2. /\ work.modules = whole.modules
      /\ work.calls = WithoutEdges(whole.calls, ids)
      /\ work.includes = {r \in whole.includes : r.from \notin ids}
      /\ work.inheritance = WithoutEdges(whole.inheritance, ids)
      /\ work.symbols = {r \in whole.symbols : r.file \notin F}
  BY DEF StoreInv, Deleting
<1>3. FilesDeleted(whole, F) =
        [modules |-> work.modules, symbols |-> work.symbols, calls |-> work.calls,
         includes |-> work.includes, inheritance |-> work.inheritance]
  BY <1>1, <1>2 DEF FilesDeleted, Tables
<1>4. work = [modules |-> work.modules, symbols |-> work.symbols, calls |-> work.calls,
              includes |-> work.includes, inheritance |-> work.inheritance]
  BY <1>1 DEF Tables
<1>5. Store!FilesDeleted(whole, F) = FilesDeleted(whole, F)
  BY DEF FilesDeleted, Store!FilesDeleted, WithoutEdges, Store!WithoutEdges,
     SymbolIdsOf, Store!SymbolIdsOf
<1> QED
  BY <1>1, <1>3, <1>4, <1>5 DEF Store!CallDone, Store!FilesDeletedIn

-----------------------------------------------------------------------------
(* The write functions.                                                    *)

\* ensure_module inserts at most the module of that name.
LEMMA EnsuredModule ==
    ASSUME NEW t \in Tables, NEW name \in ModuleNames, NEW id \in Id
    PROVE  LET t2 == WithModule(t, name, id) IN
           /\ \A table \in TableNames \ {"modules"} : t2[table] = t[table]
           /\ t.modules \subseteq t2.modules
           /\ \A m \in t2.modules \ t.modules : ModuleIdOf(t2, name) = m.id
<1>1. CASE KnownModule(t, name)
  BY <1>1 DEF WithModule
<1>2. CASE ~ KnownModule(t, name)
  <2> DEFINE row == [id |-> id, name |-> name]
             t2 == WithModule(t, name, id)
  <2>1. t2 = [t EXCEPT !.modules = @ \cup {row}]
    BY <1>2 DEF WithModule
  <2>2. /\ t2.modules = t.modules \cup {row}
        /\ \A table \in TableNames \ {"modules"} : t2[table] = t[table]
    BY <2>1 DEF Tables, TableNames
  <2>3. \A r \in t2.modules : r.name = name => r = row
    BY <1>2, <2>2 DEF KnownModule
  <2>4. row \in t2.modules /\ row.name = name
    BY <2>2
  <2>5. (CHOOSE r \in t2.modules : r.name = name) = row
    BY <2>3, <2>4
  <2>6. ModuleIdOf(t2, name) = row.id
    BY <2>5 DEF ModuleIdOf
  <2> QED
    BY <2>2, <2>6
<1> QED
  BY <1>1, <1>2

\* One more row is ready, and perhaps the module that it names is inserted.
LEMMA RowReadyIsNoStep ==
    ASSUME StoreInv, GraphInv', NEW table \in WriteTables, Preparing(table),
           NEW row, NEW t, NEW counters, RowReady(row, t, counters),
           \A tab \in TableNames \ {"modules"} : t[tab] = work[tab],
           work.modules \subseteq t.modules,
           table \in EdgeTables => t.modules = work.modules,
           table = "symbols" => \A m \in t.modules \ work.modules : row.module = m.id,
           table = "includes" => \A m \in t.modules \ work.modules : row.target = m.id
    PROVE  StoreInv' /\ StoreStep
<1>1. call \in WriteCall(table) /\ call.fn = "write" /\ call.table = table /\ call.step = "prepare"
  BY RunningWrite DEF StoreInv, GraphInv, Core, TypeOK, Preparing
<1>2. /\ call'.fn = "write" /\ call'.table = table /\ call'.step = "prepare"
      /\ call'.started = call.started /\ call'.rows = call.rows \cup {row}
      /\ work' = t /\ UNCHANGED <<db, inTxn, ready, open, callerVars, whole>>
  BY <1>1 DEF RowReady, WriteCall, callerVars
<1>3. Preparations
  BY <1>1 DEF StoreInv, Writing
<1>4. Preparations'
  <2>1. \A tab \in TableNames \ {"modules"} : work'[tab] = whole'[tab]
    BY <1>2, <1>3 DEF Preparations
  <2>2. whole'.modules \subseteq work'.modules
    BY <1>2, <1>3 DEF Preparations
  <2>3. table \in EdgeTables => work'.modules = whole'.modules
    BY <1>1, <1>2, <1>3 DEF Preparations
  <2>4. table = "symbols" =>
          \A m \in work'.modules \ whole'.modules : \E r \in call'.rows : r.module = m.id
    BY <1>1, <1>2, <1>3 DEF Preparations
  <2>5. table = "includes" =>
          \A m \in work'.modules \ whole'.modules : \E r \in call'.rows : r.target = m.id
    BY <1>1, <1>2, <1>3 DEF Preparations
  <2> QED
    BY <1>2, <2>1, <2>2, <2>3, <2>4, <2>5 DEF Preparations
<1>5. Deleting' /\ Writing'
  BY <1>2, <1>4 DEF Deleting, Writing
<1>6. call # Idle /\ call' # Idle
  BY <1>1, <1>2 DEF Idle
<1> QED
  BY <1>2, <1>5, <1>6, StatementIsNoStep

LEMMA PrepareIsNoStep == StoreInv /\ PrepareRow => StoreInv' /\ StoreStep
<1> SUFFICES ASSUME StoreInv, PrepareRow PROVE StoreInv' /\ StoreStep
  OBVIOUS
<1>1. GraphInv'
  BY NextGraph DEF StoreInv, Next
<1>2. work \in Tables /\ next.modules \in Id
  BY DEF StoreInv, GraphInv, Core, TypeOK, TableNames
<1> DEFINE item == Head(call.items)
<1>3. CASE PrepareSymbol
  <2> DEFINE t == WithModule(work, item.name, next.modules)
             row == [id |-> next.symbols, module |-> ModuleIdOf(t, item.name),
                     file |-> item.file]
             counters == Counted("symbols", work, item.name)
  <2>1. Preparing("symbols") /\ RowReady(row, t, counters)
    BY <1>3 DEF PrepareSymbol
  <2>2. item.name \in ModuleNames
    <3>1. item \in SymbolItem
      BY <2>1, RunningWrite DEF Preparing, StoreInv, GraphInv, Core, TypeOK, WriteCall, ItemOf
    <3> QED
      BY <3>1 DEF SymbolItem
  <2>3. /\ \A table \in TableNames \ {"modules"} : t[table] = work[table]
        /\ work.modules \subseteq t.modules
        /\ \A m \in t.modules \ work.modules : ModuleIdOf(t, item.name) = m.id
    BY <1>2, <2>2, EnsuredModule
  <2>4. row.module = ModuleIdOf(t, item.name)
    OBVIOUS
  <2>5. "symbols" \in WriteTables /\ "symbols" \notin EdgeTables
    BY DEF WriteTables, EdgeTables
  <2> HIDE DEF t, row, counters
  <2> QED
    BY <1>1, <2>1, <2>3, <2>4, <2>5, RowReadyIsNoStep
<1>4. ASSUME NEW table \in EdgeTables, PrepareEdge(table) PROVE StoreInv' /\ StoreStep
  <2>1. PICK row, counters : Preparing(table) /\ RowReady(row, work, counters)
    BY <1>4 DEF PrepareEdge
  <2>2. table \in WriteTables /\ table \notin {"symbols", "includes"}
    BY DEF WriteTables, EdgeTables
  <2> QED
    BY <1>1, <2>1, <2>2, RowReadyIsNoStep
<1>5. CASE PrepareInclude
  <2> DEFINE unnamed == item.name = NoName
             t == IF unnamed THEN work ELSE WithModule(work, item.name, next.modules)
             row == [id |-> next.includes, from |-> item.from,
                     fromModule |-> ModuleOf(work, item.from),
                     target |-> IF unnamed THEN 0 ELSE ModuleIdOf(t, item.name)]
             counters == IF unnamed THEN [next EXCEPT !.includes = @ + 1]
                         ELSE Counted("includes", work, item.name)
  <2>1. Preparing("includes") /\ RowReady(row, t, counters)
    BY <1>5 DEF PrepareInclude
  <2>2. item.name \in ModuleNames \cup {NoName}
    <3>1. item \in IncludeItem
      BY <2>1, RunningWrite DEF Preparing, StoreInv, GraphInv, Core, TypeOK, WriteCall, ItemOf
    <3> QED
      BY <3>1 DEF IncludeItem
  <2>3. /\ \A table \in TableNames \ {"modules"} : t[table] = work[table]
        /\ work.modules \subseteq t.modules
        /\ \A m \in t.modules \ work.modules : row.target = m.id
    BY <1>2, <2>2, EnsuredModule
  <2>4. "includes" \in WriteTables /\ "includes" \notin EdgeTables
    BY DEF WriteTables, EdgeTables
  <2> HIDE DEF t, row, counters
  <2> QED
    BY <1>1, <2>1, <2>3, <2>4, RowReadyIsNoStep
<1> QED
  BY <1>3, <1>4, <1>5 DEF PrepareRow

\* The INSERT of all the rows completes the call.
LEMMA InsertIsNoStep == StoreInv /\ Insert => StoreInv' /\ StoreStep
<1> SUFFICES ASSUME StoreInv, Insert PROVE StoreInv' /\ StoreStep
  OBVIOUS
<1> DEFINE table == call.table
<1>1. GraphInv'
  BY NextGraph DEF StoreInv, Next
<1>2. table \in WriteTables /\ call \in WriteCall(table) /\ call.fn = "write"
  BY RunningWrite DEF Insert, StoreInv, GraphInv, Core, TypeOK
<1>3. /\ call'.fn = "write" /\ call'.started = call.started /\ call'.step = "end"
      /\ UNCHANGED <<db, inTxn, ready, open, callerVars, whole>>
  BY <1>2 DEF Insert, WriteCall, callerVars
<1>4. Preparations
  BY DEF StoreInv, Writing, Insert
<1>5. /\ work \in Tables /\ whole \in Tables /\ KeysUnique(work')
      /\ work'[table] = work[table] \cup call.rows
      /\ \A tab \in TableNames \ {table} : work'[tab] = work[tab]
      /\ \A r \in call.rows : r \notin work[table]
  BY <1>1, <1>2 DEF StoreInv, GraphInv, Core, TypeOK, TablesWellFormed, WellFormed, Insert,
     Tables, TableNames, WriteTables, Ids
<1>6. Store!KeysUnique(work')
  BY <1>5 DEF KeysUnique, Store!KeysUnique, TableNames, Store!TableNames
<1>7. Store!CallDone(whole, work')
  <2>1. CASE table = "symbols"
    <3>1. /\ work'.modules = work.modules /\ whole.modules \subseteq work.modules
          /\ work'.symbols = whole.symbols \cup call.rows
          /\ \A r \in call.rows : r \notin whole.symbols
          /\ \A tab \in TableNames \ {"modules", "symbols"} : work'[tab] = whole[tab]
      BY <1>4, <1>5, <2>1 DEF Preparations, TableNames
    <3>2. Store!Grown(whole, work', {"modules", "symbols"})
      BY <1>6, <3>1 DEF Store!Grown, TableNames, Store!TableNames
    <3>3. \A s \in call.rows : \E m \in work.modules : m.id = s.module
      BY <1>2, <2>1 DEF StoreInv, GraphInv, RowsReady
    <3>4. \A m \in work.modules \ whole.modules : \E s \in call.rows : s.module = m.id
      BY <1>4, <2>1 DEF Preparations
    <3>5. Store!SymbolsWritten(whole, work')
      BY <3>1, <3>2, <3>3, <3>4 DEF Store!SymbolsWritten
    <3> QED
      BY <3>5 DEF Store!CallDone
  <2>2. CASE table \in EdgeTables
    <3>1. /\ work'[table] = whole[table] \cup call.rows
          /\ work'.symbols = whole.symbols /\ work.symbols = whole.symbols
          /\ \A tab \in TableNames \ {table} : work'[tab] = whole[tab]
      BY <1>4, <1>5, <2>2 DEF Preparations, TableNames, EdgeTables
    <3>2. Store!Grown(whole, work', {table})
      BY <1>6, <3>1 DEF Store!Grown, TableNames, Store!TableNames
    <3>3. EdgesJoin(work, call.rows)
      BY <1>2, <2>2 DEF StoreInv, GraphInv, RowsReady
    <3>4. Store!EdgesJoin(whole, work'[table] \ whole[table])
      BY <3>1, <3>3 DEF EdgesJoin, Store!EdgesJoin
    <3>5. Store!EdgesWritten(whole, work', table)
      BY <3>2, <3>4 DEF Store!EdgesWritten
    <3> QED
      BY <2>2, <3>5 DEF Store!CallDone, EdgeTables, Store!EdgeTables
  <2>3. CASE table = "includes"
    <3>1. /\ work'.modules = work.modules /\ whole.modules \subseteq work.modules
          /\ work'.includes = whole.includes \cup call.rows
          /\ work.symbols = whole.symbols
          /\ \A r \in call.rows : r \notin whole.includes
          /\ \A tab \in TableNames \ {"modules", "includes"} : work'[tab] = whole[tab]
      BY <1>4, <1>5, <2>3 DEF Preparations, TableNames
    <3>2. Store!Grown(whole, work', {"modules", "includes"})
      BY <1>6, <3>1 DEF Store!Grown, TableNames, Store!TableNames
    <3>3. IncludesJoin(work, call.rows)
      BY <1>2, <2>3 DEF StoreInv, GraphInv, RowsReady
    <3>4. \A m \in work.modules \ whole.modules : \E i \in call.rows : i.target = m.id
      BY <1>4, <2>3 DEF Preparations
    <3>5. Store!IncludesWritten(whole, work')
      BY <3>1, <3>2, <3>3, <3>4 DEF Store!IncludesWritten, IncludesJoin
    <3> QED
      BY <3>5 DEF Store!CallDone
  <2> QED
    BY <1>2, <2>1, <2>2, <2>3 DEF WriteTables, EdgeTables
<1>8. Deleting' /\ Writing'
  <2>1. Store!CallDone(whole, work)'
    BY <1>3, <1>7
  <2> QED
    BY <1>3, <2>1 DEF Deleting, Writing
<1>9. call # Idle /\ call' # Idle
  BY <1>2, <1>3 DEF Idle
<1> QED
  BY <1>1, <1>3, <1>8, <1>9, StatementIsNoStep

-----------------------------------------------------------------------------

\* The end of a call is the call, in the caller's transaction or alone.
LEMMA FinishIsTheCall == StoreInv /\ Finish => StoreInv' /\ StoreStep
<1> SUFFICES ASSUME StoreInv, Finish PROVE StoreInv' /\ StoreStep
  OBVIOUS
<1>1. GraphInv'
  BY NextGraph DEF StoreInv, Next
<1>2. /\ call # Idle /\ call.step = "end" /\ open /\ ~ raised /\ inTxn
      /\ call' = Idle /\ whole' = work /\ raised' = raised
  BY DEF Finish, StoreInv, TxnInv
<1>3. Store!CallDone(whole, work)
  <2>1. call.fn \in {"delete_files", "write"}
    BY <1>2 DEF StoreInv, GraphInv, Core, TypeOK, CallOK, DeleteCall, WriteCall
  <2> QED
    BY <1>2, <2>1, DeletionIsWhole DEF StoreInv, Writing
<1>4. Deleting' /\ Writing' /\ (InCallersTxn' <=> open')
  BY <1>2, IdleRunsNothing
<1>5. CASE call.started
  <2>1. db' = work /\ work' = work /\ inTxn' = FALSE /\ open' = FALSE
    BY <1>5 DEF Finish, EngineCommit
  <2>2. InCallersTxn = FALSE /\ InCallersTxn' = FALSE
    BY <1>2, <1>5, <2>1 DEF InCallersTxn
  <2>3. db = whole
    BY <2>2 DEF StoreInv, Staged
  <2>4. Store!CallAlone
    BY <1>2, <1>3, <2>1, <2>2, <2>3 DEF Store!CallAlone
  <2>5. TxnInv' /\ Staged'
    BY <1>2, <2>1 DEF TxnInv, Staged
  <2> QED
    BY <1>1, <1>4, <2>4, <2>5 DEF StoreInv, StoreStep, Store!StoreNext
<1>6. CASE ~ call.started
  <2>1. UNCHANGED <<db, work, inTxn, open>>
    BY <1>6 DEF Finish, engineVars
  <2>2. InCallersTxn = TRUE /\ InCallersTxn' = TRUE
    BY <1>2, <1>6, <2>1 DEF InCallersTxn
  <2>3. Store!CallInTransaction
    BY <1>2, <1>3, <2>1, <2>2 DEF Store!CallInTransaction
  <2>4. TxnInv' /\ Staged'
    BY <1>2, <2>1, <2>2 DEF TxnInv, Staged
  <2> QED
    BY <1>1, <1>4, <2>3, <2>4 DEF StoreInv, StoreStep, Store!StoreNext
<1> QED
  BY <1>5, <1>6

LEMMA NextImplementsStore == StoreInv /\ [Next]_vars => StoreInv' /\ StoreStep
<1> SUFFICES ASSUME StoreInv, [Next]_vars PROVE StoreInv' /\ StoreStep
  OBVIOUS
<1>1. CASE UNCHANGED vars
  <2>1. GraphInv'
    BY NextGraph DEF StoreInv
  <2>2. UNCHANGED <<db, work, inTxn, open, call, raised, whole>>
    BY <1>1 DEF vars
  <2>3. UNCHANGED InCallersTxn
    BY <2>2 DEF InCallersTxn
  <2>4. TxnInv' /\ Staged' /\ Deleting' /\ Writing'
    BY <2>2, <2>3 DEF StoreInv, TxnInv, Staged, Deleting, Writing, Preparations,
       Store!CallDone, Store!FilesDeletedIn, Store!SymbolsWritten, Store!EdgesWritten,
       Store!IncludesWritten, Store!Grown
  <2> QED
    BY <2>1, <2>2, <2>3, <2>4, StutterIsNoStep DEF StoreInv
<1> QED
  BY <1>1, OpenIsNoStep, CrashAborts, ControlSteps, DeleteBegins, WriteBegins,
     DeleteStatementIsNoStep, PrepareIsNoStep, InsertIsNoStep, FinishIsTheCall, RaiseIsNoStep
     DEF Next

\* Whatever statement raises and wherever the process dies, each call of the
\* store takes effect as a whole or not at all, and a transaction's calls
\* become durable together (storage.cpp:256-286, 293-590, 724-772, 914-922).
THEOREM GraphImplementsStore == Spec => ImplementsStore
<1>1. Init => StoreInv /\ Store!StoreInit
  BY InitStoreInv
<1>2. StoreInv /\ [Next]_vars => StoreInv' /\ [Store!StoreNext]_(Store!storeVars)
  BY NextImplementsStore DEF StoreStep
<1> QED
  BY <1>1, <1>2, PTL DEF Spec, ImplementsStore, Store!StoreSpec

-----------------------------------------------------------------------------
(* The search over the modules.                                            *)
(*                                                                         *)
(* For every well-formed graph, every asked module and every max_depth it  *)
(* lists exactly the modules at each distance.  LoopInvariant is           *)
(* inductive: the next frontier is the next distance because a walk of     *)
(* length n + 1 passes, one edge before its end, a module that is not      *)
(* nearer than n.  That an empty frontier ends the search rightly needs    *)
(* more: a module further out would have a module at every distance before *)
(* it (PrefixIsNearest), for a shortcut to a prefix shortens the walk.     *)

LEMMA TargetsAreModules ==
    ASSUME NEW t \in Graphs, NEW F
    PROVE  NextIds(t, F) \subseteq ModuleIds(t)
<1>1. t \in Tables /\ WellFormed(t)
  BY GraphsAreTables
<1>2. \A c \in t.calls \cup t.inheritance : c.toModule \in ModuleIds(t)
  BY <1>1 DEF WellFormed, ReferencesResolve, EdgesJoin, ModuleIds
<1>3. \A i \in t.includes : i.target # 0 => i.target \in ModuleIds(t)
  BY <1>1 DEF WellFormed, ReferencesResolve, IncludesJoin, ModuleIds
<1> QED
  BY <1>2, <1>3 DEF NextIds, CalledFrom, InheritedBy, IncludedFrom

\* The columns copied into the edges say what the symbols say.
LEMMA NextIsDependsOn ==
    ASSUME NEW t \in Graphs, NEW F, NEW m
    PROVE  m \in NextIds(t, F) <=> \E f \in F : DependsOn(t, f, m)
<1>1. WellFormed(t)
  BY GraphsAreTables
<1>2. \A s1, s2 \in t.symbols : s1.id = s2.id => s1 = s2
  BY <1>1 DEF WellFormed, KeysUnique, TableNames
<1>3. ASSUME NEW e \in t.calls \cup t.inheritance, NEW a
      PROVE  e.fromModule = a /\ e.toModule = m
               <=> \E s \in t.symbols :
                     /\ s.module = a /\ e.from = s.id
                     /\ \E target \in t.symbols :
                            target.id = e.to /\ target.module = m
  <2>1. /\ \E s \in t.symbols : s.id = e.from /\ s.module = e.fromModule
        /\ \E s \in t.symbols : s.id = e.to /\ s.module = e.toModule
    BY <1>1 DEF WellFormed, ReferencesResolve, EdgesJoin
  <2> QED  BY <1>2, <2>1
<1>4. ASSUME NEW i \in t.includes, NEW a
      PROVE  i.fromModule = a <=> \E s \in t.symbols : s.module = a /\ i.from = s.id
  <2>1. \E s \in t.symbols : s.id = i.from /\ s.module = i.fromModule
    BY <1>1 DEF WellFormed, ReferencesResolve, IncludesJoin
  <2> QED  BY <1>2, <2>1
<1>5. ASSUME NEW a
      PROVE  DependsOn(t, a, m)
               <=> \/ \E e \in t.calls \cup t.inheritance :
                        e.fromModule = a /\ e.toModule = m
                   \/ \E i \in t.includes : i.fromModule = a /\ i.target = m /\ m # 0
  <2>1. DependsOn(t, a, m)
          <=> \/ \E e \in t.calls \cup t.inheritance : \E s \in t.symbols :
                   /\ s.module = a /\ e.from = s.id
                   /\ \E target \in t.symbols : target.id = e.to /\ target.module = m
              \/ \E i \in t.includes :
                   /\ \E s \in t.symbols : s.module = a /\ i.from = s.id
                   /\ i.target = m /\ m # 0
    BY Zenon DEF DependsOn
  <2>2. ASSUME NEW e \in t.calls \cup t.inheritance
        PROVE  e.fromModule = a /\ e.toModule = m
                 <=> \E s \in t.symbols :
                       /\ s.module = a /\ e.from = s.id
                       /\ \E target \in t.symbols :
                              target.id = e.to /\ target.module = m
    BY <1>3
  <2>3. ASSUME NEW i \in t.includes
        PROVE  i.fromModule = a <=> \E s \in t.symbols : s.module = a /\ i.from = s.id
    BY <1>4
  <2> QED  BY <2>1, <2>2, <2>3
<1>6. m \in NextIds(t, F)
        <=> \/ \E e \in t.calls \cup t.inheritance : e.fromModule \in F /\ e.toModule = m
            \/ \E i \in t.includes : i.fromModule \in F /\ i.target = m /\ m # 0
  BY DEF NextIds, CalledFrom, InheritedBy, IncludedFrom
<1>7. ASSUME m \in NextIds(t, F) PROVE \E f \in F : DependsOn(t, f, m)
  <2>1. CASE \E e \in t.calls \cup t.inheritance : e.fromModule \in F /\ e.toModule = m
    BY <1>5, <2>1
  <2>2. CASE \E i \in t.includes : i.fromModule \in F /\ i.target = m /\ m # 0
    BY <1>5, <2>2
  <2> QED  BY <1>6, <1>7, <2>1, <2>2
<1>8. ASSUME NEW f \in F, DependsOn(t, f, m) PROVE m \in NextIds(t, F)
  BY <1>5, <1>6, <1>8
<1> QED  BY <1>7, <1>8

\* A walk can be lengthened by an edge.
LEMMA OneEdgeFurther ==
    ASSUME NEW t \in Graphs, NEW a, NEW b, NEW c, NEW n \in Nat,
           Reaches(t, a, b, n), DependsOn(t, b, c)
    PROVE  Reaches(t, a, c, n + 1)
<1>1. PICK p \in [0..n -> ModuleIds(t)] : Walk(t, p, n, a, b)
  BY DEF Reaches
<1>2. c \in ModuleIds(t)
  BY NextIsDependsOn, TargetsAreModules, b \in {b}
<1> DEFINE q == [i \in 0..(n + 1) |-> IF i <= n THEN p[i] ELSE c]
<1>3. q \in [0..(n + 1) -> ModuleIds(t)]
  BY <1>2
<1>4. q[0] = a /\ q[n + 1] = c
  BY <1>1 DEF Walk
<1>5. ASSUME NEW i \in 0..((n + 1) - 1) PROVE DependsOn(t, q[i], q[i + 1])
  <2>1. CASE i = n
    <3>1. q[i] = b /\ q[i + 1] = c
      BY <1>1, <2>1 DEF Walk
    <3> QED  BY <3>1
  <2>2. CASE i < n
    <3>1. i \in 0..(n - 1) /\ q[i] = p[i] /\ q[i + 1] = p[i + 1]
      BY <2>2
    <3>2. DependsOn(t, p[i], p[i + 1])
      BY <1>1, <3>1 DEF Walk
    <3> QED  BY <3>1, <3>2
  <2> QED  BY <2>1, <2>2
<1> HIDE DEF q
<1>6. Walk(t, q, n + 1, a, c)
  BY <1>4, <1>5 DEF Walk
<1> QED  BY <1>3, <1>6 DEF Reaches

\* A walk can be cut: its beginning is a walk.
LEMMA Beginning ==
    ASSUME NEW t, NEW a, NEW b, NEW n \in Nat, NEW k \in 0..n,
           NEW p \in [0..n -> ModuleIds(t)], Walk(t, p, n, a, b)
    PROVE  p[k] \in ModuleIds(t) /\ Reaches(t, a, p[k], k)
<1> DEFINE q == [i \in 0..k |-> p[i]]
<1>1. q \in [0..k -> ModuleIds(t)] /\ p[k] \in ModuleIds(t)
  OBVIOUS
<1>2. q[0] = a /\ q[k] = p[k]
  BY DEF Walk
<1>3. ASSUME NEW i \in 0..(k - 1) PROVE DependsOn(t, q[i], q[i + 1])
  <2>1. i \in 0..(n - 1) /\ q[i] = p[i] /\ q[i + 1] = p[i + 1]
    OBVIOUS
  <2> QED  BY <2>1 DEF Walk
<1> HIDE DEF q
<1>4. Walk(t, q, k, a, p[k])
  BY <1>2, <1>3 DEF Walk
<1> QED  BY <1>1, <1>4 DEF Reaches

\* A shorter way to a module of a walk shortens the walk.
LEMMA Shortcut ==
    ASSUME NEW t, NEW a, NEW b, NEW n \in Nat, NEW k \in 0..n,
           NEW p \in [0..n -> ModuleIds(t)], Walk(t, p, n, a, b),
           NEW j \in 0..(k - 1), Reaches(t, a, p[k], j)
    PROVE  Nearer(t, a, b, n)
<1>1. PICK r \in [0..j -> ModuleIds(t)] : Walk(t, r, j, a, p[k])
  BY DEF Reaches
<1> DEFINE l == j + (n - k)
           q == [i \in 0..l |-> IF i <= j THEN r[i] ELSE p[i - j + k]]
<1>2. l \in 0..(n - 1) /\ l \in Nat
  OBVIOUS
<1>3. q \in [0..l -> ModuleIds(t)]
  <2>1. \A i \in 0..l : ~ (i <= j) => i - j + k \in 0..n
    OBVIOUS
  <2> QED  BY <2>1
<1>4. q[0] = a
  BY <1>1 DEF Walk
<1>5. q[l] = b
  <2>1. CASE k = n
    <3>1. l = j
      BY <2>1
    <3> QED  BY <1>1, <2>1, <3>1 DEF Walk
  <2>2. CASE k < n
    <3>1. ~ (l <= j) /\ l - j + k = n
      BY <2>2
    <3> QED  BY <3>1 DEF Walk
  <2> QED  BY <2>1, <2>2
<1>6. ASSUME NEW i \in 0..(l - 1) PROVE DependsOn(t, q[i], q[i + 1])
  <2>1. CASE i < j
    <3>1. i \in 0..(j - 1) /\ q[i] = r[i] /\ q[i + 1] = r[i + 1]
      BY <2>1
    <3> QED  BY <1>1, <3>1 DEF Walk
  <2>2. CASE i >= j
    <3>1. i - j + k \in 0..(n - 1) /\ (i + 1) - j + k = (i - j + k) + 1
      BY <2>2
    <3>2. q[i] = p[i - j + k]
      <4>1. CASE i = j
        <5>1. i - j + k = k /\ r[j] = p[k]
          BY <1>1, <4>1 DEF Walk
        <5> QED  BY <4>1, <5>1
      <4>2. CASE i > j
        BY <4>2
      <4> QED  BY <2>2, <4>1, <4>2
    <3>3. q[i + 1] = p[(i - j + k) + 1]
      BY <2>2, <3>1
    <3>4. DependsOn(t, p[i - j + k], p[(i - j + k) + 1])
      BY <3>1 DEF Walk
    <3> QED  BY <3>2, <3>3, <3>4
  <2> QED  BY <2>1, <2>2
<1> HIDE DEF q
<1>7. Walk(t, q, l, a, b)
  BY <1>4, <1>5, <1>6 DEF Walk
<1> QED  BY <1>2, <1>3, <1>7 DEF Reaches, Nearer

\* Before a module at distance n lies one at each smaller distance.
LEMMA PrefixIsNearest ==
    ASSUME NEW t, NEW a, NEW b, NEW n \in Nat, NEW k \in 0..n,
           AtDistance(t, a, b, n)
    PROVE  \E m \in ModuleIds(t) : AtDistance(t, a, m, k)
<1>1. PICK p \in [0..n -> ModuleIds(t)] : Walk(t, p, n, a, b)
  BY DEF AtDistance, Reaches
<1>2. p[k] \in ModuleIds(t) /\ Reaches(t, a, p[k], k)
  BY <1>1, Beginning
<1>3. ~ Nearer(t, a, p[k], k)
  BY <1>1, Shortcut DEF AtDistance, Nearer
<1> QED  BY <1>2, <1>3 DEF AtDistance

\* The modules at distance n + 1 are the targets of the edges that leave the
\* modules at distance n and lead to no module within n.
LEMMA NextDistance ==
    ASSUME NEW t \in Graphs, NEW a, NEW b, NEW n \in Nat
    PROVE  AtDistance(t, a, b, n + 1)
             <=> /\ \E m \in ModuleIds(t) : AtDistance(t, a, m, n) /\ DependsOn(t, m, b)
                 /\ ~ Nearer(t, a, b, n + 1)
<1>1. ASSUME NEW m, AtDistance(t, a, m, n), DependsOn(t, m, b)
      PROVE  Reaches(t, a, b, n + 1)
  BY <1>1, OneEdgeFurther DEF AtDistance
<1>2. ASSUME AtDistance(t, a, b, n + 1)
      PROVE  \E m \in ModuleIds(t) : AtDistance(t, a, m, n) /\ DependsOn(t, m, b)
  <2>1. PICK p \in [0..(n + 1) -> ModuleIds(t)] : Walk(t, p, n + 1, a, b)
    BY <1>2 DEF AtDistance, Reaches
  <2>2. DependsOn(t, p[n], b)
    BY <2>1 DEF Walk
  <2>3. p[n] \in ModuleIds(t) /\ Reaches(t, a, p[n], n)
    BY <2>1, Beginning, n \in 0..(n + 1), n + 1 \in Nat
  <2>4. ~ Nearer(t, a, p[n], n)
    BY <1>2, <2>1, Shortcut, n \in 0..(n + 1), n + 1 \in Nat
       DEF AtDistance, Nearer
  <2> QED  BY <2>2, <2>3, <2>4 DEF AtDistance
<1> QED  BY <1>1, <1>2 DEF AtDistance

LEMMA OneDistanceMore ==
    ASSUME NEW t, NEW a, NEW b, NEW n \in Nat
    PROVE  Nearer(t, a, b, n + 2)
             <=> Nearer(t, a, b, n + 1) \/ AtDistance(t, a, b, n + 1)
<1>1. \A k : k \in 0..((n + 2) - 1) <=> k \in 0..((n + 1) - 1) \/ k = n + 1
  OBVIOUS
<1> QED  BY <1>1 DEF Nearer, AtDistance

LEMMA DistanceZero ==
    ASSUME NEW t, NEW a \in ModuleIds(t), NEW b
    PROVE  /\ AtDistance(t, a, b, 0) <=> b = a
           /\ Nearer(t, a, b, 1) <=> b = a
<1>1. ~ Nearer(t, a, b, 0)
  BY DEF Nearer
<1>2. Reaches(t, a, b, 0) <=> b = a
  <2>1. ASSUME Reaches(t, a, b, 0) PROVE b = a
    BY <2>1 DEF Reaches, Walk
  <2>2. ASSUME b = a PROVE Reaches(t, a, b, 0)
    <3> DEFINE p == [i \in 0..0 |-> a]
    <3>1. p \in [0..0 -> ModuleIds(t)] /\ p[0] = a
      OBVIOUS
    <3> HIDE DEF p
    <3>2. Walk(t, p, 0, a, b)
      BY <2>2, <3>1 DEF Walk
    <3> QED  BY <3>1, <3>2 DEF Reaches
  <2> QED  BY <2>1, <2>2
<1>3. Nearer(t, a, b, 1) <=> Reaches(t, a, b, 0)
  <2>1. 0..(1 - 1) = {0}
    OBVIOUS
  <2> QED  BY <2>1 DEF Nearer
<1> QED  BY <1>1, <1>2, <1>3 DEF AtDistance

-----------------------------------------------------------------------------

LEMMA AskedModule ==
    ASSUME SearchTypeOK, KnownModule(tables, source)
    PROVE  tables \in Graphs /\ ModuleIdOf(tables, source) \in ModuleIds(tables)
<1>1. \E m \in tables.modules : m.name = source
  BY DEF KnownModule
<1>2. (CHOOSE r \in tables.modules : r.name = source) \in tables.modules
  BY <1>1
<1> QED  BY <1>2 DEF SearchTypeOK, ModuleIdOf, ModuleIds

SearchInv == SearchTypeOK /\ LoopInvariant /\ NearestDistances

LEMMA SearchInitEstablishes ==
    ASSUME SearchInit
    PROVE  SearchInv
<1> USE GraphsAreTables
<1>1. max_depth \in Nat /\ depth = 1 /\ dependencies = {} /\ tables \in Graphs
  BY DEF SearchInit
<1>2. CASE ~ Asked
  <2>1. frontier = {} /\ visited = {} /\ returned
    BY <1>2 DEF SearchInit, Asked
  <2>2. max_depth = 0 => 1..max_depth = {}
    BY <1>1
  <2>3. [id : ModuleIds(tables), depth : {}] = {}
    OBVIOUS
  <2>4. NearestDistances
    BY <1>1, <1>2, <2>2, <2>3 DEF NearestDistances, Asked
  <2> QED  BY <1>1, <1>2, <2>1, <2>4 DEF SearchInit, SearchInv, SearchTypeOK, LoopInvariant
<1>3. CASE Asked
  <2> DEFINE from == ModuleIdOf(tables, source)
  <2>1. frontier = {from} /\ visited = {from} /\ ~ returned
    BY <1>3 DEF SearchInit, Asked
  <2>2. from \in ModuleIds(tables)
    <3>1. (CHOOSE r \in tables.modules : r.name = source) \in tables.modules
      BY <1>3 DEF Asked, KnownModule
    <3> QED  BY <3>1 DEF ModuleIdOf, ModuleIds
  <2>3. SearchTypeOK
    BY <1>1, <1>3, <2>1, <2>2 DEF SearchInit, SearchTypeOK, Asked
  <2> HIDE DEF from
  <2>4. \A m : AtDistance(tables, from, m, 0) <=> m = from
    BY <2>2, DistanceZero
  <2>5. \A m : Nearer(tables, from, m, 0 + 1) <=> m = from
    <3>1. 0 + 1 = 1
      OBVIOUS
    <3> QED  BY <2>2, <3>1, DistanceZero
  <2>6. [id : ModuleIds(tables), depth : 1..0] = {}
    OBVIOUS
  <2>7. SearchedTo(0)
    <3>1. frontier = {m \in ModuleIds(tables) : AtDistance(tables, from, m, 0)}
      BY <2>1, <2>2, <2>4
    <3>2. visited = {m \in ModuleIds(tables) : Nearer(tables, from, m, 0 + 1)}
      BY <2>1, <2>2, <2>5
    <3>3. dependencies = {d \in [id : ModuleIds(tables), depth : 1..0] :
                            AtDistance(tables, from, d.id, d.depth)}
      <4> DEFINE listed == {d \in [id : ModuleIds(tables), depth : 1..0] :
                                AtDistance(tables, from, d.id, d.depth)}
      <4>1. \A d : d \notin listed
        BY <2>6
      <4> HIDE DEF listed
      <4>2. dependencies = listed
        BY <1>1, <4>1
      <4> QED  BY <4>2 DEF listed
    <3> QED  BY <3>1, <3>2, <3>3 DEF SearchedTo, from
  <2> QED  BY <1>1, <1>3, <2>1, <2>3, <2>7
           DEF SearchInv, LoopInvariant, NearestDistances
<1> QED  BY <1>2, <1>3

LEMMA RoundPreserves ==
    ASSUME SearchInv, Round
    PROVE  SearchInv'
<1> DEFINE from == ModuleIdOf(tables, source)
           n == depth - 1
           reached == Unseen(NextIds(tables, frontier))
<1>1. Asked /\ ~ returned /\ SearchedTo(n)
  BY DEF SearchInv, LoopInvariant, Round
<1>2. /\ tables \in Graphs /\ n \in Nat /\ max_depth \in Nat
      /\ depth = n + 1 /\ depth \in 1..max_depth
  BY GraphsAreTables DEF SearchInv, SearchTypeOK, Round, RoundsLeft
<1>3. UNCHANGED <<tables, source, max_depth, returned>> /\ depth' = depth + 1
  BY DEF Round
<1>4. /\ frontier' = reached
      /\ visited' = visited \cup reached
      /\ dependencies' = dependencies \cup
            {[id |-> m, depth |-> depth] :
                m \in {k \in reached : HasRow(tables, k)}}
  BY DEF Round
<1> HIDE DEF from, n
<1>5. reached = {m \in ModuleIds(tables) : AtDistance(tables, from, m, n + 1)}
  <2>1. reached \subseteq ModuleIds(tables)
    BY <1>2, TargetsAreModules DEF Unseen
  <2>2. ASSUME NEW m \in ModuleIds(tables)
        PROVE  m \in reached <=> AtDistance(tables, from, m, n + 1)
    <3>1. m \in NextIds(tables, frontier)
            <=> \E f \in ModuleIds(tables) :
                    AtDistance(tables, from, f, n) /\ DependsOn(tables, f, m)
      BY <1>1, <1>2, NextIsDependsOn DEF SearchedTo, from
    <3>2. m \in visited <=> Nearer(tables, from, m, n + 1)
      BY <1>1 DEF SearchedTo, from
    <3> QED  BY <1>2, <3>1, <3>2, NextDistance DEF Unseen
  <2> QED  BY <2>1, <2>2
<1>6. \A m \in reached : HasRow(tables, m)
  BY <1>5 DEF HasRow, ModuleIds
<1> HIDE DEF reached
<1>7. visited' = {m \in ModuleIds(tables) : Nearer(tables, from, m, n + 2)}
  BY <1>1, <1>2, <1>4, <1>5, OneDistanceMore DEF SearchedTo, from
<1>8. dependencies' = {d \in [id : ModuleIds(tables), depth : 1..(n + 1)] :
                            AtDistance(tables, from, d.id, d.depth)}
  <2>1. dependencies = {d \in [id : ModuleIds(tables), depth : 1..n] :
                            AtDistance(tables, from, d.id, d.depth)}
    BY <1>1 DEF SearchedTo, from
  <2>2. dependencies' = dependencies \cup {[id |-> m, depth |-> n + 1] : m \in reached}
    BY <1>2, <1>4, <1>6
  <2>3. \A k : k \in 1..(n + 1) <=> k \in 1..n \/ k = n + 1
    BY <1>2
  <2>4. ASSUME NEW d
        PROVE  d \in dependencies' <=>
                 /\ d \in [id : ModuleIds(tables), depth : 1..(n + 1)]
                 /\ AtDistance(tables, from, d.id, d.depth)
    <3>1. d \in {[id |-> m, depth |-> n + 1] : m \in reached}
            <=> /\ d \in [id : ModuleIds(tables), depth : {n + 1}]
                /\ AtDistance(tables, from, d.id, d.depth)
      BY <1>5
    <3>2. d \in [id : ModuleIds(tables), depth : 1..(n + 1)]
            <=> \/ d \in [id : ModuleIds(tables), depth : 1..n]
                \/ d \in [id : ModuleIds(tables), depth : {n + 1}]
      BY <2>3
    <3> QED  BY <2>1, <2>2, <3>1, <3>2
  <2> QED  BY <2>4
<1>9. SearchedTo(depth - 1)'
  <2>1. from' = from
    BY <1>3 DEF from
  <2>2. depth' - 1 = n + 1 /\ (n + 1) + 1 = n + 2
    BY <1>2, <1>3
  <2> QED  BY <1>3, <1>4, <1>5, <1>7, <1>8, <2>1, <2>2 DEF SearchedTo, from
<1>10. SearchTypeOK'
  <2>1. depth' \in 1..(max_depth' + 1)
    BY <1>2, <1>3
  <2>2. dependencies' \subseteq [id : ModuleIds(tables'), depth : 1..max_depth']
    <3>1. 1..(n + 1) \subseteq 1..max_depth
      BY <1>2
    <3> QED  BY <1>3, <1>8, <3>1
  <2> QED  BY <1>3, <1>4, <1>5, <1>7, <2>1, <2>2 DEF SearchInv, SearchTypeOK
<1> QED  BY <1>1, <1>3, <1>9, <1>10
         DEF SearchInv, LoopInvariant, NearestDistances, Asked

LEMMA ReturnPreserves ==
    ASSUME SearchInv, Return
    PROVE  SearchInv'
<1> DEFINE from == ModuleIdOf(tables, source)
           n == depth - 1
<1>1. Asked /\ SearchedTo(n)
  BY DEF SearchInv, LoopInvariant, Return
<1>2. n \in Nat /\ max_depth \in Nat /\ n \in 0..max_depth /\ depth = n + 1
  BY GraphsAreTables DEF SearchInv, SearchTypeOK
<1>3. UNCHANGED <<tables, source, max_depth, depth, frontier, visited, dependencies>>
  BY DEF Return
<1>4. n = max_depth \/ frontier = {}
  BY <1>2 DEF Return, RoundsLeft
<1> HIDE DEF n, from
<1>5. dependencies = {d \in [id : ModuleIds(tables), depth : 1..max_depth] :
                            AtDistance(tables, from, d.id, d.depth)}
  <2>1. dependencies = {d \in [id : ModuleIds(tables), depth : 1..n] :
                            AtDistance(tables, from, d.id, d.depth)}
    BY <1>1 DEF SearchedTo, from
  <2>2. ASSUME NEW d \in [id : ModuleIds(tables), depth : 1..max_depth],
               AtDistance(tables, from, d.id, d.depth)
        PROVE  d.depth \in 1..n
    <3>1. CASE n = max_depth
      BY <3>1
    <3>2. CASE frontier = {} /\ d.depth > n
      <4>1. d.depth \in Nat /\ n \in 0..d.depth
        BY <1>2, <3>2
      <4>2. \E m \in ModuleIds(tables) : AtDistance(tables, from, m, n)
        BY <2>2, <4>1, PrefixIsNearest
      <4> QED  BY <1>1, <3>2, <4>2 DEF SearchedTo, from
    <3> QED  BY <1>2, <1>4, <3>1, <3>2
  <2>3. 1..n \subseteq 1..max_depth
    BY <1>2
  <2> QED  BY <2>1, <2>2, <2>3
<1>6. NearestDistances'
  BY <1>1, <1>3, <1>5 DEF NearestDistances, Asked, from
<1>7. SearchTypeOK' /\ LoopInvariant'
  <2>1. returned' \in BOOLEAN
    BY DEF Return
  <2>2. SearchTypeOK'
    BY <1>3, <2>1 DEF SearchInv, SearchTypeOK
  <2>3. LoopInvariant'
    BY <1>1, <1>3 DEF LoopInvariant, SearchedTo, Asked, n
  <2> QED  BY <2>2, <2>3
<1> QED  BY <1>6, <1>7 DEF SearchInv

LEMMA SearchInvHolds == SearchSpec => []SearchInv
<1>1. SearchInit => SearchInv
  BY SearchInitEstablishes
<1>2. SearchInv /\ [SearchNext]_searchVars => SearchInv'
  <2> SUFFICES ASSUME SearchInv, [SearchNext]_searchVars PROVE SearchInv'
    OBVIOUS
  <2>1. CASE Round
    BY <2>1, RoundPreserves
  <2>2. CASE Return
    BY <2>2, ReturnPreserves
  <2>3. CASE UNCHANGED searchVars
    BY <2>3 DEF searchVars, SearchInv, SearchTypeOK, LoopInvariant, SearchedTo, Asked, NearestDistances
  <2> QED  BY <2>1, <2>2, <2>3 DEF SearchNext
<1> QED  BY <1>1, <1>2, PTL DEF SearchSpec

\* transitive_module_dependencies answers every question with exactly the
\* modules at distances 1 to max_depth: on any graph, loops included.
THEOREM DistancesAreExact == SearchSpec => []NearestDistances
<1>1. SearchInv => NearestDistances
  BY DEF SearchInv
<1> QED  BY SearchInvHolds, <1>1, PTL

\* Between two rounds of transitive_module_dependencies the frontier and the
\* visited set are the sphere and the ball around the asked module.
THEOREM RoundsAreSpheres == SearchSpec => [](SearchTypeOK /\ LoopInvariant)
<1>1. SearchInv => SearchTypeOK /\ LoopInvariant
  BY DEF SearchInv
<1> QED  BY SearchInvHolds, <1>1, PTL
================================================================================
