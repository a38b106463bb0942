------------------------------- MODULE Indexer -------------------------------
(***************************************************************************)
(* core/src/indexer.cpp: a pass over source files (process_files) and the  *)
(* two operations that start one, as core/src/main.cpp and the /reindex    *)
(* handler of core/src/api.cpp call them: index() once when the process    *)
(* starts, then update() any number of times.  The passes write two        *)
(* stores that share no transaction, the DuckDB graph and the Qdrant       *)
(* collection; requests fail and the process dies and restarts at any      *)
(* point.  Files are edited, created and removed all the while: whatever   *)
(* a pass finds on disk is a choice of the step that looks.                *)
(*                                                                         *)
(* The graph transaction of a pass is one step here: DependencyGraph shows *)
(* that it takes effect as a whole or not at all.  Only symbols and calls  *)
(* are kept; inheritance edges are resolved and written the same way.      *)
(***************************************************************************)
EXTENDS VectorStore, Sequences

CONSTANTS
    Files,      \* source files, numbered in the order of their sorted paths
    Names,      \* qualified names
    Contents,   \* what a file may hold: its symbols in order, with their calls
    MaxId       \* bound: the largest symbol id handed out

Declaration == [name : Names, calls : SUBSET Names]

ASSUME FilesAreNumbered == Files \subseteq Nat /\ IsFiniteSet(Files)
ASSUME ContentsAreSeqs == Contents \subseteq Seq(Declaration)
ASSUME MaxIdIsNat == MaxId \in Nat

VARIABLES
    symbols,    \* the rows of the symbols table: [id, file, name]
    calls,      \* the rows of the calls table: [from, to]
    next,       \* next_symbol_id_
    recorded,   \* symbols_, the result of the last pass that succeeded
    phase,      \* the process: down, or what became of its first index()
    pass,       \* the pass that is running, with its locals
    stored,     \* history: the declarations a file's rows were written from,
                \* at their places in the pass
    together,   \* history: the files of the pass that last wrote a file
    stale       \* history: files whose vector sync was begun and not finished

graphVars   == <<symbols, calls>>
historyVars == <<stored, together, stale>>
vars == <<symbols, calls, next, recorded, phase, pass, stored, together,
          stale, collection, points, ensured>>

Row   == [id : Nat \ {0}, file : Files, name : Names]
Edge  == [from : Nat \ {0}, to : Nat \ {0}]
\* A PendingSymbol: one declaration and the file it was parsed from.
Pending == [file : Files, name : Names, calls : SUBSET Names]

Idle == [step |-> "idle"]
Running ==
    [step : {"parse", "delete_vectors"}, doomed : SUBSET Files,
     todo : SUBSET Files, pending : Seq(Pending), rows : SUBSET Row]

TypeOK ==
    /\ symbols \subseteq Row
    /\ calls \subseteq Edge
    /\ next \in Nat \ {0}
    /\ recorded \subseteq Row
    /\ phase \in {"down", "indexing", "serving", "error"}
    /\ pass = Idle \/ pass \in Running
    /\ DOMAIN stored = Files
    /\ \A f \in Files : stored[f] \in [DOMAIN stored[f] -> Declaration]
    /\ together \in [Files -> SUBSET Files]
    /\ stale \subseteq Files
    /\ collection \in BOOLEAN
    /\ points \subseteq Row
    /\ ensured \in BOOLEAN

Init ==
    /\ symbols = {}
    /\ calls = {}
    /\ next = 1
    /\ recorded = {}
    /\ phase = "down"
    /\ pass = Idle
    /\ stored = [f \in Files |-> <<>>]
    /\ together = [f \in Files |-> {}]
    /\ stale = {}
    /\ VectorInit

-----------------------------------------------------------------------------
(* Starting a pass.                                                        *)

Ids(rows) == {r.id : r \in rows}
\* COALESCE(MAX(id), 0) + 1
AfterLargest(ids) ==
    IF ids = {} THEN 1
    ELSE 1 + CHOOSE m \in ids : \A i \in ids : i <= m

Begun(doomed, parsed) ==
    [step |-> "parse", doomed |-> doomed, todo |-> parsed,
     pending |-> <<>>, rows |-> {}]

\* The process starts, opens the tables and runs index() over the files that
\* exist.  Without one process_files returns an empty result at once.
Start(present) ==
    /\ phase = "down"
    /\ next' = AfterLargest(Ids(symbols))
    /\ IF present = {} THEN phase' = "serving" /\ UNCHANGED pass
                       ELSE phase' = "indexing" /\ pass' = Begun(present, present)
    /\ UNCHANGED <<graphVars, recorded, historyVars, vectorVars>>

\* Variant: the counters are read from the tables again before an update.
UpdateRefreshing(changed, existing) ==
    /\ phase = "serving"
    /\ pass = Idle
    /\ changed # {}
    /\ pass' = Begun(changed, existing)
    /\ next' = AfterLargest(Ids(symbols))
    /\ UNCHANGED <<graphVars, recorded, phase, historyVars, vectorVars>>

\* update(): files that no longer exist are deleted and not parsed.
Update(changed, existing) ==
    /\ phase = "serving"
    /\ pass = Idle
    /\ changed # {}
    /\ pass' = Begun(changed, existing)
    /\ UNCHANGED <<graphVars, next, recorded, phase, historyVars, vectorVars>>

\* No changed file has a source extension: an empty result, and it is recorded.
UpdateNothing ==
    /\ phase = "serving"
    /\ pass = Idle
    /\ recorded' = {}
    /\ UNCHANGED <<graphVars, next, phase, pass, historyVars, vectorVars>>

-----------------------------------------------------------------------------
(* Parsing.                                                                *)

First(S) == CHOOSE f \in S : \A g \in S : f <= g

Parsing == pass.step = "parse" /\ pass.todo # {}

\* A file is read when its turn comes, not when the pass was begun.
ParseFile(content) ==
    /\ Parsing
    /\ LET f == First(pass.todo)
           declared == [i \in DOMAIN content |->
                          [file |-> f, name |-> content[i].name,
                           calls |-> content[i].calls]]
       IN  pass' = [pass EXCEPT !.todo = @ \ {f}, !.pending = @ \o declared]
    /\ UNCHANGED <<graphVars, next, recorded, phase, historyVars, vectorVars>>

\* The file is gone or cannot be read: a warning, and its old rows still go.
SkipFile ==
    /\ Parsing
    /\ pass' = [pass EXCEPT !.todo = @ \ {First(pass.todo)}]
    /\ UNCHANGED <<graphVars, next, recorded, phase, historyVars, vectorVars>>

-----------------------------------------------------------------------------
(* Embedding and the graph transaction.                                    *)

Parsed == pass.step = "parse" /\ pass.todo = {}
Count == Len(pass.pending)

RowAt(i) == [id |-> next + i - 1, file |-> pass.pending[i].file,
             name |-> pass.pending[i].name]

\* SymbolLookup knows the symbols of this pass only; the first one of a name
\* wins.
Resolves(name, j) ==
    /\ pass.pending[j].name = name
    /\ \A k \in 1..(j - 1) : pass.pending[k].name # name

CallsAmong(pairs) ==
    LET made == {p \in pairs : \E name \in pass.pending[p[1]].calls : Resolves(name, p[2])}
    IN  {[from |-> next + p[1] - 1, to |-> next + p[2] - 1] : p \in made}

\* Variant: a symbol is known to those after it only.
BackwardCalls == CallsAmong({p \in (1..Count) \X (1..Count) : p[2] <= p[1]})
NewCalls ==
    CallsAmong((1..Count) \X (1..Count))

DeclaredIn(f) ==
    [i \in {j \in 1..Count : pass.pending[j].file = f} |->
        [name |-> pass.pending[i].name, calls |-> pass.pending[i].calls]]

\* What delete_files leaves.  Variants: only files with new symbols are
\* deleted; only the edges that start in a deleted symbol are.
KeptOfUnparsed ==
    {s \in symbols : \A i \in 1..Count : pass.pending[i].file # s.file}
KeptSymbols == {s \in symbols : s.file \notin pass.doomed}
Gone == Ids({s \in symbols : s.file \in pass.doomed})
KeptOutgoing == {e \in calls : e.from \notin Gone}
KeptCalls == {e \in calls : e.from \notin Gone /\ e.to \notin Gone}

\* Every snippet was embedded, and the transaction committed: delete_files,
\* write_symbols, the edges of this pass.
CommitGraph ==
    /\ Parsed
    /\ next + Count <= MaxId + 1
    /\ LET rows == {RowAt(i) : i \in 1..Count} IN
           /\ symbols' = KeptSymbols \cup rows
           /\ calls' = KeptCalls \cup NewCalls
           /\ pass' = [pass EXCEPT !.step = "delete_vectors",
                                   !.todo = pass.doomed, !.rows = rows]
    /\ next' = next + Count
    /\ stored' = [f \in Files |-> IF f \in pass.doomed THEN DeclaredIn(f)
                                                       ELSE stored[f]]
    /\ together' = [f \in Files |-> IF f \in pass.doomed THEN pass.doomed
                                                         ELSE together[f]]
    /\ stale' = stale \cup pass.doomed
    /\ UNCHANGED <<recorded, phase, vectorVars>>

\* An exception leaves the pass.  The first index() is not tried again.
Fails ==
    /\ pass' = Idle
    /\ phase' = IF phase = "indexing" THEN "error" ELSE phase

\* The embedding backend or the transaction raises: the graph is as before,
\* the ids the transaction took are spent.
GraphFails ==
    /\ Parsed
    /\ Fails
    /\ next' \in {n \in next..(next + Count) : n <= MaxId + 1}
    /\ UNCHANGED <<graphVars, recorded, historyVars, vectorVars>>

-----------------------------------------------------------------------------
(* The vector sync.                                                        *)

Syncing == pass.step = "delete_vectors"

\* Variant: no request for a file without symbols.
DeleteVectorsOfParsed ==
    /\ Syncing
    /\ pass.todo # {}
    /\ IF \E r \in pass.rows : r.file = First(pass.todo)
         THEN Returns(WithoutFile(First(pass.todo)))
         ELSE UNCHANGED vectorVars
    /\ pass' = [pass EXCEPT !.todo = @ \ {First(pass.todo)}]
    /\ UNCHANGED <<graphVars, next, recorded, phase, historyVars>>

DeleteVectors ==
    /\ Syncing
    /\ pass.todo # {}
    /\ Returns(WithoutFile(First(pass.todo)))
    /\ pass' = [pass EXCEPT !.todo = @ \ {First(pass.todo)}]
    /\ UNCHANGED <<graphVars, next, recorded, phase, historyVars>>

\* The last request, none when there are no rows; then record_result.
UpsertVectors ==
    /\ Syncing
    /\ pass.todo = {}
    /\ IF pass.rows = {} THEN UNCHANGED vectorVars
                         ELSE Returns(Upserted(pass.rows))
    /\ pass' = Idle
    /\ phase' = "serving"
    /\ recorded' = pass.rows
    /\ stale' = stale \ pass.doomed
    /\ UNCHANGED <<graphVars, next, stored, together>>

\* The graph has been committed already; record_result is not reached.
SyncFails ==
    /\ Syncing
    /\ IF pass.todo # {} THEN Raises(WithoutFile(First(pass.todo)))
       ELSE pass.rows # {} /\ Raises(Upserted(pass.rows))
    /\ Fails
    /\ UNCHANGED <<graphVars, next, recorded, historyVars>>

-----------------------------------------------------------------------------
(* The environment.                                                        *)

\* The process dies or is stopped; both stores stay.
Crash ==
    /\ phase # "down"
    /\ phase' = "down"
    /\ pass' = Idle
    /\ recorded' = {}
    /\ next' = 1
    /\ Forget
    /\ UNCHANGED <<graphVars, historyVars>>

LoseCollection ==
    /\ collection
    /\ Wipe
    /\ stale' = stale \cup {f \in Files : DOMAIN stored[f] # {}}
    /\ UNCHANGED <<graphVars, next, recorded, phase, pass, stored, together>>

-----------------------------------------------------------------------------

StartSome  == \E present \in SUBSET Files : Start(present)
UpdateSome == \E changed \in SUBSET Files : \E existing \in SUBSET changed :
                  Update(changed, existing)
ParseSome  == \E content \in Contents : ParseFile(content)

Next ==
    \/ StartSome \/ UpdateSome \/ UpdateNothing
    \/ ParseSome \/ SkipFile
    \/ CommitGraph \/ GraphFails
    \/ DeleteVectors \/ UpsertVectors \/ SyncFails
    \/ Crash \/ LoseCollection

Spec == Init /\ [][Next]_vars

-----------------------------------------------------------------------------
(* Properties.                                                             *)

\* The rows of a file are those of one reading of it, each declaration once:
\* no pass leaves rows of an older reading behind or writes them twice,
\* whatever failed before it (indexer.cpp:432-622).
RowsAreOneReading ==
    \A f \in Files, name \in Names :
        Cardinality({s \in symbols : s.file = f /\ s.name = name})
          = Cardinality({i \in DOMAIN stored[f] : stored[f][i].name = name})

Reads(f, name, callee) ==
    \E i \in DOMAIN stored[f] :
        stored[f][i].name = name /\ callee \in stored[f][i].calls

\* Every edge joins two stored symbols, and the caller's file, as it was
\* read, makes that call: ids handed out again after a rollback or a restart
\* never give an old edge a new end (indexer.cpp:551-585).
EdgesAreCalls ==
    \A e \in calls : \E s, t \in symbols :
        /\ s.id = e.from
        /\ t.id = e.to
        /\ Reads(s.file, s.name, t.name)

\* No file of the pass that last wrote f was written by a later one.
Settled(f) == \A g \in together[f] : together[g] = together[f]

Calls(s, name) ==
    \E e \in calls : e.from = s.id /\ \E t \in symbols : t.id = e.to /\ t.name = name

\* A call between two files of one pass has its edge for as long as no file of
\* that pass is written again (indexer.cpp:551-585).  The two alone are not
\* enough: the edge may lead to a third that declares the name as well.
EdgesKept ==
    \A f \in Files : Settled(f) =>
        \A g \in together[f] : \A i \in DOMAIN stored[f], j \in DOMAIN stored[g] :
            stored[g][j].name \in stored[f][i].calls =>
                \E s \in symbols : /\ s.file = f
                                   /\ s.name = stored[f][i].name
                                   /\ Calls(s, stored[g][j].name)

\* A file whose last vector sync finished is in Qdrant exactly as it is in
\* the graph, whatever failed for other files and however often the process
\* restarted (indexer.cpp:591-611, storage.cpp:961-968).
VectorsMatch ==
    \A f \in Files \ stale :
        {p \in points : p.file = f} = {s \in symbols : s.file = f}

\* The handlers look a symbol up in symbols_ and ask the graph about its id:
\* when the id has rows they are that symbol's, even after passes that
\* failed half way left symbols_ behind (api.cpp:275-300, indexer.cpp:624-629).
RecordedDenotes ==
    \A r \in recorded, s \in symbols : r.id = s.id => r = s

-----------------------------------------------------------------------------
(* What the documents say and the code does not keep.                      *)

\* "List all direct callers for the requested symbol."
AllCallersListed ==
    phase = "serving" /\ pass = Idle /\ stale = {} =>
        \A s, t \in symbols :
            (\A i \in DOMAIN stored[s.file] :
                stored[s.file][i].name = s.name => t.name \in stored[s.file][i].calls)
            => Calls(s, t.name)

\* A search hit is enriched with "direct callers and callees": those of the
\* symbol the hit shows, when its id has any.
HitsDenote ==
    phase = "serving" /\ pass = Idle =>
        \A p \in points, s \in symbols : p.id = s.id => p = s

=============================================================================
