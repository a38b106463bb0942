------------------------------ MODULE ApiServer ------------------------------
(***************************************************************************)
(* core/src/api.cpp and core/src/main.cpp: three threads around one        *)
(* Indexer and one Retriever.  main starts the server, spawns the          *)
(* bootstrap thread, waits for a signal and joins the others; the worker   *)
(* accepts one connection at a time and runs its handler to the end; the   *)
(* bootstrap thread builds the first corpus and reports it through the     *)
(* bootstrap state, which every handler consults first.                    *)
(*                                                                         *)
(* The Indexer is seen from here as the files of symbols_: how it fills    *)
(* them and the graph is module Indexer.                                   *)
(* "lookup" stands for /deps, /callers and /module, which start from the   *)
(* symbol or module they are asked about; /explain does too and then waits *)
(* for the language model (module LlmClient) on the same thread.           *)
(***************************************************************************)
EXTENDS Retriever, Naturals, Sequences

CONSTANTS
    Clients,   \* peers that connect to the HTTP port
    Files      \* source files

VARIABLES
    main,       \* where the main thread is
    boot,       \* where the bootstrap thread is
    state,      \* bootstrap_state.state
    running,    \* Impl::running
    accepting,  \* the acceptor is open and an async_accept is outstanding
    stopped,    \* io_context.stop() was called
    worker,     \* the thread that runs io_context.run()
    session,    \* handle_session and the handler it dispatched to
    backlog,    \* connections the kernel has queued for accept
    client,     \* what each client has done
    indexed     \* files of Indexer::symbols_

mainVars    == <<main, stopped>>
serverVars  == <<running, accepting, worker, session>>
clientVars  == <<backlog, client>>
vars == <<main, boot, state, running, accepting, stopped, worker, session,
          backlog, client, indexed,
          corpus, corpusReady, profiled, attached>>

Requests == [kind : {"search", "status"}]
            \cup [kind : {"lookup", "explain"}, file : Files]
            \cup [kind : {"reindex"}, changed : SUBSET Files]
Answers == {"ok", "unavailable", "refused", "not_found", "failed"}

Away == [at |-> "away"]
Waiting == [at |-> "waiting"]
Left == [at |-> "left"]
Sent(request) == [at |-> "sent", request |-> request]

Quiet == [step |-> "idle"]
Closed == [step |-> "rearm"]
Connected == [step : {"read"}, client : Clients]
Handling ==
    [step : {"dispatch", "work", "ask", "refresh", "respond"},
     client : Clients, request : Requests, answer : Answers \cup {"none"}]

TypeOK ==
    /\ main \in {"starting", "waiting", "stopping", "joining", "exited"}
    /\ boot \in {"none", "indexing", "building", "done"}
    /\ state \in {"initializing", "indexing", "ready", "error"}
    /\ running \in BOOLEAN
    /\ accepting \in BOOLEAN
    /\ stopped \in BOOLEAN
    /\ worker \in {"none", "running", "ended"}
    /\ session \in {Quiet, Closed} \cup Connected \cup Handling
    /\ backlog \in Seq(Clients)
    /\ client \in [Clients -> {Away, Waiting, Left} \cup {Sent(r) : r \in Requests}]
    /\ indexed \subseteq Files
    /\ corpus \subseteq Files
    /\ corpusReady \in BOOLEAN
    /\ profiled \in BOOLEAN
    /\ attached \in BOOLEAN

\* attach_indexer and attach_retriever have run: the storage is wired.  What
\* an earlier process left in the graph is the concern of module Indexer.
Init ==
    /\ main = "starting"
    /\ boot = "none"
    /\ state = "initializing"
    /\ running = FALSE
    /\ accepting = FALSE
    /\ stopped = FALSE
    /\ worker = "none"
    /\ session = Quiet
    /\ backlog = <<>>
    /\ client = [c \in Clients |-> Away]
    /\ indexed = {}
    /\ corpus = {} /\ corpusReady = FALSE /\ profiled = FALSE /\ attached = TRUE

-----------------------------------------------------------------------------
(* The main thread.                                                        *)

\* start() and the spawn of the bootstrap thread, which sets its state first.
Start ==
    /\ main = "starting"
    /\ running' = TRUE
    /\ accepting' = TRUE
    /\ worker' = "running"
    /\ main' = "waiting"
    /\ boot' = "indexing"
    /\ state' = "indexing"
    /\ UNCHANGED <<stopped, session, clientVars, indexed, retrieverVars>>

\* SIGINT or SIGTERM: stop() lowers the flag and closes the acceptor ...
Signal ==
    /\ main = "waiting"
    /\ running' = FALSE
    /\ accepting' = FALSE
    /\ main' = "stopping"
    /\ UNCHANGED <<boot, state, stopped, worker, session, clientVars, indexed, retrieverVars>>

\* ... stops the loop and waits for the worker; main then waits for the
\* bootstrap thread.
StopLoop ==
    /\ main = "stopping"
    /\ stopped' = TRUE
    /\ main' = "joining"
    /\ UNCHANGED <<boot, state, serverVars, clientVars, indexed,
                   retrieverVars>>

Exit ==
    /\ main = "joining"
    /\ worker = "ended"
    /\ boot = "done"
    /\ main' = "exited"
    /\ UNCHANGED <<boot, state, stopped, serverVars, clientVars, indexed, retrieverVars>>

-----------------------------------------------------------------------------
(* The bootstrap thread.                                                   *)

\* Variant: the corpus is reported ready before the retriever is built.
BootIndexedReady(found) ==
    /\ boot = "indexing"
    /\ boot' = "building"
    /\ state' = "ready"
    /\ indexed' = found
    /\ UNCHANGED <<mainVars, serverVars, clientVars, retrieverVars>>

\* index() returns.
BootIndexed(found) ==
    /\ boot = "indexing"
    /\ boot' = "building"
    /\ indexed' = found
    /\ UNCHANGED <<mainVars, state, serverVars, clientVars, retrieverVars>>

\* Variant: the exception is only logged.
BootIndexFailsSilently ==
    /\ boot = "indexing"
    /\ boot' = "done"
    /\ UNCHANGED <<mainVars, state, serverVars, clientVars, indexed, retrieverVars>>

\* index() raises.
BootIndexFails ==
    /\ boot = "indexing"
    /\ boot' = "done"
    /\ state' = "error"
    /\ UNCHANGED <<mainVars, serverVars, clientVars, indexed, retrieverVars>>

\* retriever.build() returns, or raises.
BootBuilt ==
    /\ boot = "building"
    /\ boot' = "done"
    /\ \/ Build(indexed) /\ state' = "ready"
       \/ BuildRaises(indexed) /\ state' = "error"
    /\ UNCHANGED <<mainVars, serverVars, clientVars, indexed, attached>>

-----------------------------------------------------------------------------
(* The worker: one session at a time.                                      *)

Accept ==
    /\ worker = "running"
    /\ session = Quiet
    /\ accepting
    /\ ~stopped
    /\ backlog # <<>>
    /\ session' = [step |-> "read", client |-> Head(backlog)]
    /\ backlog' = Tail(backlog)
    /\ accepting' = FALSE
    /\ UNCHANGED <<mainVars, boot, state, running, worker, client, indexed, retrieverVars>>

\* An accept that completes with an error is not followed by another one.
AcceptFails ==
    /\ worker = "running"
    /\ session = Quiet
    /\ accepting
    /\ ~stopped
    /\ accepting' = FALSE
    /\ UNCHANGED <<mainVars, boot, state, running, worker, session, clientVars,
                   indexed, retrieverVars>>

InSession(step) == worker = "running" /\ session.step = step

\* Variant: a peer that has left is waited for.
ReadOnlyRequests ==
    /\ InSession("read")
    /\ client[session.client].at = "sent"
    /\ session' = [step |-> "dispatch", client |-> session.client,
                   request |-> client[session.client].request, answer |-> "none"]
    /\ UNCHANGED <<mainVars, boot, state, running, accepting, worker, clientVars,
                   indexed, retrieverVars>>

\* http::read blocks until the request is there or the peer has left.  A peer
\* that has sent need not wait any longer: after the timeout of requestJson its
\* connection may be gone, or the request is there all the same, and is run.
Read ==
    /\ InSession("read")
    /\ LET peer == client[session.client] IN
         \/ /\ peer.at \in {"left", "sent"}
            /\ session' = Closed
            /\ client' = [client EXCEPT ![session.client] = Away]
         \/ /\ peer.at = "sent"
            /\ session' = [step |-> "dispatch", client |-> session.client,
                           request |-> peer.request, answer |-> "none"]
            /\ UNCHANGED client
    /\ UNCHANGED <<mainVars, boot, state, running, accepting, worker, backlog,
                   indexed, retrieverVars>>

Moves(step, answer) ==
    session' = [session EXCEPT !.step = step, !.answer = answer]

handlerLeavesAlone == <<mainVars, boot, state, running, accepting, worker, clientVars>>

\* A method, a path or a body that dispatch() does not take, or a handler that
\* misses its field.
Refuse ==
    /\ InSession("dispatch")
    /\ session.request.kind # "status"
    /\ Moves("respond", "refused")
    /\ UNCHANGED <<handlerLeavesAlone, indexed, retrieverVars>>

\* What a handler asks before it touches the Indexer: bootstrap_snapshot, and
\* ready() of what it uses.
Open(kind) == state = "ready" /\ (kind = "search" => Ready)

Dispatch ==
    /\ InSession("dispatch")
    /\ LET kind == session.request.kind IN
         CASE Open(kind)      -> Moves("work", "none")
           [] kind = "status" -> Moves("respond", "ok")
           [] OTHER           -> Moves("respond", "unavailable")
    /\ UNCHANGED <<handlerLeavesAlone, indexed, retrieverVars>>

Working(kind) == InSession("work") /\ session.request.kind = kind

\* Qdrant answers or not, each time anew.
Search ==
    /\ Working("search")
    /\ \E reachable \in BOOLEAN : Moves("respond", Retrieved(reachable))
    /\ UNCHANGED <<handlerLeavesAlone, indexed, retrieverVars>>

\* The query is not embedded, or the storage raises.
SearchFails ==
    /\ Working("search")
    /\ Moves("respond", "failed")
    /\ UNCHANGED <<handlerLeavesAlone, indexed, retrieverVars>>

\* snapshot() reads the statistics of the Indexer and the modules of the
\* retriever once the bootstrap is complete.
Status ==
    /\ Working("status")
    /\ Moves("respond", "ok")
    /\ UNCHANGED <<handlerLeavesAlone, indexed, retrieverVars>>

\* find_symbol_by_name and handle_module look in Indexer::symbols_.
Known(file) == file \in indexed

Lookup ==
    /\ Working("lookup")
    /\ Moves("respond", IF Known(session.request.file) THEN "ok" ELSE "not_found")
    /\ UNCHANGED <<handlerLeavesAlone, indexed, retrieverVars>>

\* The prompt is built, and the request sent ...
Explain ==
    /\ Working("explain")
    /\ IF Known(session.request.file) THEN Moves("ask", "none") ELSE Moves("respond", "not_found")
    /\ UNCHANGED <<handlerLeavesAlone, indexed, retrieverVars>>

\* ... and complete() returns or raises.
Explained ==
    /\ InSession("ask")
    /\ \E answer \in {"ok", "failed"} : Moves("respond", answer)
    /\ UNCHANGED <<handlerLeavesAlone, indexed, retrieverVars>>

\* The graph, the prompt builder or the arguments raise.
HandlerFails ==
    /\ \E kind \in {"status", "lookup", "explain"} : Working(kind)
    /\ Moves("respond", "failed")
    /\ UNCHANGED <<handlerLeavesAlone, indexed, retrieverVars>>

\* Indexer::update: symbols_ becomes what is read of the changed files.  The
\* changes are named by the request or, by default, by git.
Reindex(existing) ==
    /\ Working("reindex")
    /\ existing \subseteq session.request.changed
    /\ indexed' = existing
    /\ Moves("refresh", "none")
    /\ UNCHANGED <<handlerLeavesAlone, retrieverVars>>

\* update() raises; the retriever is not touched.
ReindexFails ==
    /\ Working("reindex")
    /\ Moves("respond", "failed")
    /\ UNCHANGED <<handlerLeavesAlone, indexed, retrieverVars>>

\* Variant: when the build raises the old corpus stays.
RefreshOrKeep ==
    /\ InSession("refresh")
    /\ Build(indexed) \/ UNCHANGED <<corpus, corpusReady, profiled>>
    /\ AttachStorage
    /\ Moves("respond", "ok")
    /\ UNCHANGED <<handlerLeavesAlone, indexed>>

\* clear_corpus, clear_storage, attach_storage, build; a build that raises
\* becomes a warning in the answer.
Refresh ==
    /\ InSession("refresh")
    /\ Build(indexed) \/ BuildRaises(indexed)
    /\ AttachStorage
    /\ Moves("respond", "ok")
    /\ UNCHANGED <<handlerLeavesAlone, indexed>>

\* The response is written, or the write fails; the connection is closed.
Respond ==
    /\ InSession("respond")
    /\ session' = Closed
    /\ client' = [client EXCEPT ![session.client] = Away]
    /\ UNCHANGED <<mainVars, boot, state, running, accepting, worker, backlog,
                   indexed, retrieverVars>>

\* body.dump() raises on text that is not UTF-8, of the sources in a result
\* or of a path or an exception in an error: nothing catches it before the
\* worker's own handler, and the loop ends.
RespondRaises ==
    /\ InSession("respond")
    /\ session' = Quiet
    /\ client' = [client EXCEPT ![session.client] = Away]
    /\ worker' = "ended"
    /\ running' = FALSE
    /\ UNCHANGED <<mainVars, boot, state, accepting, backlog, indexed, retrieverVars>>

\* The accept handler goes on only while the server runs; on an acceptor that
\* main has closed in between the new accept completes with an error.
Rearm ==
    /\ InSession("rearm")
    /\ session' = Quiet
    /\ accepting' = running
    /\ UNCHANGED <<mainVars, boot, state, running, worker, clientVars, indexed, retrieverVars>>

\* Variant: running stays up.
LoopEndsUnseen ==
    /\ worker = "running"
    /\ session = Quiet
    /\ stopped \/ ~accepting
    /\ worker' = "ended"
    /\ accepting' = FALSE
    /\ UNCHANGED <<mainVars, boot, state, running, session, clientVars, indexed, retrieverVars>>

\* run() returns when it was stopped or has nothing left to do.
LoopEnds ==
    /\ worker = "running"
    /\ session = Quiet
    /\ stopped \/ ~accepting
    /\ worker' = "ended"
    /\ running' = FALSE
    /\ accepting' = FALSE
    /\ UNCHANGED <<mainVars, boot, state, session, clientVars, indexed, retrieverVars>>

-----------------------------------------------------------------------------
(* Clients.                                                                *)

environmentLeavesAlone == <<mainVars, boot, state, serverVars, indexed, retrieverVars>>

Connect(c) ==
    /\ client[c] = Away
    /\ main \in {"waiting", "stopping"}
    /\ client' = [client EXCEPT ![c] = Waiting]
    /\ backlog' = Append(backlog, c)
    /\ UNCHANGED <<environmentLeavesAlone>>

Send(c, request) ==
    /\ client[c] = Waiting
    /\ client' = [client EXCEPT ![c] = Sent(request)]
    /\ UNCHANGED <<environmentLeavesAlone, backlog>>

Leave(c) ==
    /\ client[c] = Waiting
    /\ client' = [client EXCEPT ![c] = Left]
    /\ UNCHANGED <<environmentLeavesAlone, backlog>>

-----------------------------------------------------------------------------

Main == Start \/ StopLoop \/ Exit
Boot == BootIndexFails \/ BootBuilt \/ \E found \in SUBSET Files : BootIndexed(found)
Handler ==
    \/ Read \/ Refuse \/ Dispatch \/ Search \/ SearchFails
    \/ Status \/ Lookup \/ Explain \/ Explained \/ HandlerFails
    \/ ReindexFails \/ \E existing \in SUBSET Files : Reindex(existing)
    \/ Refresh \/ Respond \/ RespondRaises \/ Rearm
Worker == Accept \/ AcceptFails \/ Handler \/ LoopEnds
ClientActs == \E c \in Clients : Leave(c) \/ \E request \in Requests : Send(c, request)

\* After main has returned nothing happens any more.
Over == main = "exited" /\ UNCHANGED vars

Next ==
    \/ Main \/ Signal \/ Boot \/ Worker
    \/ ClientActs \/ (\E c \in Clients : Connect(c))
    \/ Over

\* The threads are scheduled, and every call to a backend returns or raises.
Fairness == WF_vars(Main) /\ WF_vars(Boot) /\ WF_vars(Worker)
\* A client that has connected does not stay silent: the timeout of the beast
\* stream does not bound the synchronous read.
ClientsSpeak == \A c \in Clients :
    WF_vars(Leave(c) \/ \E request \in Requests : Send(c, request))

Spec == Init /\ [][Next]_vars /\ Fairness /\ ClientsSpeak

-----------------------------------------------------------------------------
(* Properties.                                                             *)

\* The Indexer and the Retriever have no lock of their own: the bootstrap
\* thread and a handler never use them at the same time, because handlers go
\* on only after the bootstrap state is "ready" (api.cpp:382-398, 434-441).
Confined ==
    boot \in {"indexing", "building"} => session.step \notin {"work", "ask", "refresh"}

\* Between requests the retriever holds the symbols that Indexer::symbols_
\* holds and is ready unless there are none, also after an update or a
\* rebuild that raised (main.cpp:118-129, api.cpp:678-715).
CorpusFollows ==
    state = "ready" /\ session.step # "refresh" =>
        corpus = indexed /\ attached /\ (corpusReady <=> indexed # {})

\* The bootstrap never stays "indexing" for ever, whatever raises
\* (main.cpp:106-138).
BootstrapSettles == main = "waiting" ~> state \in {"ready", "error"}

\* A connection is answered or closed unless the server stops, and a loop
\* that has died shows in running() (api.cpp:804-860, 966-977).
EveryRequestEnds ==
    \A c \in Clients : client[c] # Away ~> client[c] = Away \/ ~running

\* A signal ends the process even when it arrives during a session or during
\* the first index (api.cpp:989-1004, main.cpp:140-154).
ShutdownEnds == main = "stopping" ~> main = "exited"

=============================================================================
