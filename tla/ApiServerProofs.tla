---------------------------- MODULE ApiServerProofs ----------------------------
(***************************************************************************)
(* For any clients and files: the bootstrap thread and the handlers never  *)
(* share the indexer or the retriever, and the retriever's corpus is that  *)
(* of the indexer between requests.                                        *)
(***************************************************************************)
EXTENDS ApiServer, TLAPS

\* The bootstrap state follows the bootstrap thread.
StateFollowsBoot ==
    /\ main = "starting" => boot = "none"
    /\ boot = "none" => state = "initializing"
    /\ boot \in {"indexing", "building"} => state = "indexing"

\* Handlers that use the indexer or the retriever were let in by "ready".
HandlersWaited == session.step \in {"work", "ask", "refresh"} => state = "ready"

ServerInv == TypeOK /\ StateFollowsBoot /\ HandlersWaited /\ attached /\ CorpusFollows

-----------------------------------------------------------------------------
(* Sessions.                                                               *)

\* The step of a session says what else is known of it.
LEMMA SessionByStep ==
    ASSUME TypeOK
    PROVE  /\ session.step \in {"idle", "rearm", "read", "dispatch", "work", "ask", "refresh",
                                "respond"}
           /\ session.step = "read" => session \in Connected
           /\ session.step \in {"dispatch", "work", "ask", "refresh", "respond"} =>
                 session \in Handling
  BY DEF TypeOK, Quiet, Closed, Connected, Handling

LEMMA MovesKeeps ==
    ASSUME session \in Handling, NEW step \in {"work", "ask", "refresh", "respond"},
           NEW answer \in Answers \cup {"none"}, Moves(step, answer)
    PROVE  session' \in Handling /\ session'.step = step
  BY DEF Moves, Handling

\* A request that has arrived is one that a client can send.
LEMMA SentIsRequest ==
    ASSUME TypeOK, NEW c \in Clients, client[c].at = "sent"
    PROVE  client[c].request \in Requests
  BY DEF TypeOK, Away, Waiting, Left, Sent

LEMMA InitServerInv == Init => ServerInv
<1> SUFFICES ASSUME Init PROVE ServerInv
  OBVIOUS
<1>1. client \in [Clients -> {Away, Waiting, Left} \cup {Sent(r) : r \in Requests}]
  BY DEF Init
<1>2. session \in {Quiet, Closed} \cup Connected \cup Handling /\ backlog \in Seq(Clients)
  BY DEF Init
<1>3. TypeOK
  BY <1>1, <1>2, Zenon DEF Init, TypeOK
<1> QED
  BY <1>3 DEF Init, ServerInv, StateFollowsBoot, HandlersWaited, CorpusFollows, Quiet

-----------------------------------------------------------------------------

LEMMA MainKeeps == ServerInv /\ (Main \/ Signal) => ServerInv'
<1> SUFFICES ASSUME ServerInv, Main \/ Signal PROVE ServerInv'
  OBVIOUS
<1> USE DEF ServerInv, serverVars, clientVars, retrieverVars
<1>1. TypeOK'
  BY DEF Main, Signal, Start, StopLoop, Exit, TypeOK
<1> QED
  BY <1>1 DEF Main, Signal, Start, StopLoop, Exit, TypeOK, StateFollowsBoot, HandlersWaited,
     CorpusFollows

LEMMA BootKeeps == ServerInv /\ Boot => ServerInv'
<1> SUFFICES ASSUME ServerInv, Boot PROVE ServerInv'
  OBVIOUS
<1> USE DEF ServerInv, mainVars, serverVars, clientVars, retrieverVars
<1>1. ASSUME NEW found \in SUBSET Files, BootIndexed(found) PROVE ServerInv'
  BY <1>1 DEF BootIndexed, TypeOK, StateFollowsBoot, HandlersWaited, CorpusFollows
<1>2. CASE BootIndexFails
  BY <1>2 DEF BootIndexFails, TypeOK, StateFollowsBoot, HandlersWaited, CorpusFollows
<1>3. CASE BootBuilt
  <2>1. TypeOK'
    BY <1>3 DEF BootBuilt, Build, BuildRaises, TypeOK
  <2>2. session.step \notin {"work", "ask", "refresh"}
    BY <1>3 DEF BootBuilt, StateFollowsBoot, HandlersWaited
  <2> QED
    BY <1>3, <2>1, <2>2
       DEF BootBuilt, Build, BuildRaises, StateFollowsBoot, HandlersWaited, CorpusFollows
<1> QED
  BY <1>1, <1>2, <1>3 DEF Boot

LEMMA ClientKeeps ==
    ServerInv /\ (ClientActs \/ \E c \in Clients : Connect(c)) => ServerInv'
<1> SUFFICES ASSUME ServerInv, ClientActs \/ \E c \in Clients : Connect(c) PROVE ServerInv'
  OBVIOUS
<1> USE DEF ServerInv, environmentLeavesAlone, mainVars, serverVars, retrieverVars
<1> DEFINE Range == {Away, Waiting, Left} \cup {Sent(r) : r \in Requests}
<1>1. /\ client' \in [Clients -> Range]
      /\ backlog' \in Seq(Clients)
  <2>1. Away \in Range /\ Waiting \in Range /\ Left \in Range
        /\ \A r \in Requests : Sent(r) \in Range
    OBVIOUS
  <2>2. client \in [Clients -> Range] /\ backlog \in Seq(Clients)
    BY DEF TypeOK
  <2> HIDE DEF Range
  <2>3. ASSUME NEW c \in Clients, Connect(c)
        PROVE  client' \in [Clients -> Range] /\ backlog' \in Seq(Clients)
    BY <2>1, <2>2, <2>3 DEF Connect
  <2>4. ASSUME NEW c \in Clients, Leave(c)
        PROVE  client' \in [Clients -> Range] /\ backlog' \in Seq(Clients)
    BY <2>1, <2>2, <2>4 DEF Leave
  <2>5. ASSUME NEW c \in Clients, NEW r \in Requests, Send(c, r)
        PROVE  client' \in [Clients -> Range] /\ backlog' \in Seq(Clients)
    BY <2>1, <2>2, <2>5 DEF Send
  <2> QED
    BY <2>3, <2>4, <2>5 DEF ClientActs
<1>2. UNCHANGED <<environmentLeavesAlone>>
  BY DEF ClientActs, Connect, Send, Leave
<1> QED
  BY <1>1, <1>2 DEF TypeOK, StateFollowsBoot, HandlersWaited, CorpusFollows

-----------------------------------------------------------------------------
(* The worker.                                                             *)

\* Outside a handler the worker touches nothing that it shares.
LEMMA LoopKeeps ==
    ServerInv /\ (Accept \/ AcceptFails \/ LoopEnds \/ Rearm) => ServerInv'
<1> SUFFICES ASSUME ServerInv, Accept \/ AcceptFails \/ LoopEnds \/ Rearm PROVE ServerInv'
  OBVIOUS
<1> USE DEF ServerInv, mainVars, clientVars, retrieverVars, Quiet, Closed, InSession
<1>1. CASE Accept
  <2>1. session' \in Connected /\ session'.step = "read" /\ backlog' \in Seq(Clients)
    BY <1>1 DEF Accept, TypeOK, Connected
  <2> QED
    BY <1>1, <2>1 DEF Accept, TypeOK, StateFollowsBoot, HandlersWaited, CorpusFollows
<1>2. CASE AcceptFails
  BY <1>2 DEF AcceptFails, TypeOK, StateFollowsBoot, HandlersWaited, CorpusFollows
<1>3. CASE LoopEnds
  BY <1>3 DEF LoopEnds, TypeOK, StateFollowsBoot, HandlersWaited, CorpusFollows
<1>4. CASE Rearm
  BY <1>4 DEF Rearm, TypeOK, StateFollowsBoot, HandlersWaited, CorpusFollows
<1> QED
  BY <1>1, <1>2, <1>3, <1>4

\* The ends of a session.
LEMMA PeerKeeps == ServerInv /\ (Read \/ Respond \/ RespondRaises) => ServerInv'
<1> SUFFICES ASSUME ServerInv, Read \/ Respond \/ RespondRaises PROVE ServerInv'
  OBVIOUS
<1> USE DEF ServerInv, mainVars, clientVars, retrieverVars, InSession
<1>1. CASE Read
  <2>1. session \in Connected /\ session.client \in Clients
    BY <1>1, SessionByStep DEF Read, Connected
  <2>2. /\ \/ session' = Closed
           \/ session' \in Handling /\ session'.step = "dispatch"
        /\ client' \in [Clients -> {Away, Waiting, Left} \cup {Sent(r) : r \in Requests}]
    <3>1. CASE session' = Closed /\ client' = [client EXCEPT ![session.client] = Away]
      BY <2>1, <3>1 DEF TypeOK
    <3>2. CASE /\ client[session.client].at = "sent" /\ UNCHANGED client
               /\ session' = [step |-> "dispatch", client |-> session.client,
                              request |-> client[session.client].request, answer |-> "none"]
      <4>1. client[session.client].request \in Requests
        BY <2>1, <3>2, SentIsRequest
      <4> QED
        BY <2>1, <3>2, <4>1 DEF Handling, TypeOK
    <3> QED
      BY <1>1, <3>1, <3>2 DEF Read
  <2> QED
    BY <1>1, <2>2 DEF Read, TypeOK, StateFollowsBoot, HandlersWaited, CorpusFollows, Closed
<1>2. CASE Respond \/ RespondRaises
  <2>1. /\ session' = Closed \/ session' = Quiet
        /\ client' \in [Clients -> {Away, Waiting, Left} \cup {Sent(r) : r \in Requests}]
        /\ worker' \in {"running", "ended"} /\ running' \in BOOLEAN
        /\ session.step = "respond"
        /\ UNCHANGED <<main, stopped, boot, state, accepting, backlog, indexed, corpus,
                       corpusReady, profiled, attached>>
    BY <1>2 DEF Respond, RespondRaises, TypeOK
  <2>2. TypeOK'
    BY <2>1 DEF TypeOK
  <2> QED
    BY <2>1, <2>2 DEF StateFollowsBoot, HandlersWaited, CorpusFollows, Closed, Quiet
<1> QED
  BY <1>1, <1>2

\* A handler's step that leaves the corpora alone: it goes on only when the
\* bootstrap state is "ready".
LEMMA QuietHandlersKeep ==
    ASSUME ServerInv, session \in Handling, session.step # "refresh",
           NEW step \in {"work", "ask", "refresh", "respond"},
           NEW answer \in Answers \cup {"none"}, Moves(step, answer),
           step = "respond" \/ state = "ready",
           UNCHANGED <<handlerLeavesAlone, indexed, retrieverVars>>
    PROVE  ServerInv'
<1>1. session' \in Handling /\ session'.step = step
  BY MovesKeeps
<1> QED
  BY <1>1 DEF ServerInv, TypeOK, StateFollowsBoot, HandlersWaited, CorpusFollows,
     handlerLeavesAlone, mainVars, clientVars, retrieverVars

LEMMA HandlerKeeps ==
    ServerInv /\ (\/ Refuse \/ Dispatch \/ Search \/ SearchFails \/ Status \/ Lookup \/ Explain
                  \/ Explained \/ HandlerFails \/ ReindexFails) => ServerInv'
<1> SUFFICES ASSUME ServerInv,
                    \/ Refuse \/ Dispatch \/ Search \/ SearchFails \/ Status \/ Lookup
                    \/ Explain \/ Explained \/ HandlerFails \/ ReindexFails
             PROVE  ServerInv'
  OBVIOUS
<1>1. session \in Handling /\ session.step \in {"dispatch", "work", "ask"}
  BY SessionByStep DEF ServerInv, Refuse, Dispatch, Search, SearchFails, Status, Lookup, Explain,
     Explained, HandlerFails, ReindexFails, Working, InSession
<1>2. UNCHANGED <<handlerLeavesAlone, indexed, retrieverVars>>
  BY DEF Refuse, Dispatch, Search, SearchFails, Status, Lookup, Explain, Explained, HandlerFails,
     ReindexFails
<1>3. \E step \in {"work", "ask", "respond"}, answer \in Answers \cup {"none"} :
         Moves(step, answer) /\ (step = "respond" \/ state = "ready")
  <2>1. CASE Refuse \/ SearchFails \/ Status \/ Lookup \/ Explained \/ HandlerFails \/ ReindexFails
    BY <2>1 DEF Refuse, SearchFails, Status, Lookup, Explained, HandlerFails, ReindexFails, Answers
  <2>2. CASE Dispatch
    BY <2>2 DEF Dispatch, Open, Answers
  <2>3. CASE Search
    BY <2>3 DEF Search, Retrieved, Answers
  <2>4. CASE Explain
    BY <2>4 DEF Explain, ServerInv, HandlersWaited, Working, InSession, Answers
  <2> QED
    BY <2>1, <2>2, <2>3, <2>4
<1> QED
  BY <1>1, <1>2, <1>3, QuietHandlersKeep

\* /reindex: symbols_ first, and the retriever before the answer.
LEMMA ReindexKeeps ==
    ServerInv /\ (Refresh \/ \E existing \in SUBSET Files : Reindex(existing)) => ServerInv'
<1> SUFFICES ASSUME ServerInv, Refresh \/ \E existing \in SUBSET Files : Reindex(existing)
             PROVE  ServerInv'
  OBVIOUS
<1> USE DEF ServerInv, handlerLeavesAlone, mainVars, clientVars, retrieverVars
<1>1. ASSUME NEW existing \in SUBSET Files, Reindex(existing) PROVE ServerInv'
  <2>1. session \in Handling /\ session.step = "work"
    BY <1>1, SessionByStep DEF Reindex, Working, InSession
  <2>2. session' \in Handling /\ session'.step = "refresh"
    BY <1>1, <2>1, MovesKeeps DEF Reindex
  <2> QED
    BY <1>1, <2>1, <2>2 DEF Reindex, TypeOK, StateFollowsBoot, HandlersWaited, CorpusFollows
<1>2. CASE Refresh
  <2>1. session \in Handling /\ session.step = "refresh"
    BY <1>2, SessionByStep DEF Refresh, InSession
  <2>2. session' \in Handling /\ session'.step = "respond"
    BY <1>2, <2>1, MovesKeeps DEF Refresh, Answers
  <2>3. /\ corpus' = indexed /\ indexed' = indexed
        /\ corpusReady' = (indexed # {}) /\ profiled' \in BOOLEAN
        /\ attached'
    BY <1>2 DEF Refresh, Build, BuildRaises, AttachStorage
  <2>4. TypeOK'
    BY <1>2, <2>2, <2>3 DEF Refresh, TypeOK, AttachStorage
  <2> QED
    BY <1>2, <2>2, <2>3, <2>4 DEF Refresh, StateFollowsBoot, HandlersWaited, CorpusFollows
<1> QED
  BY <1>1, <1>2

LEMMA StepServerInv == ServerInv /\ [Next]_vars => ServerInv'
<1>1. ServerInv /\ UNCHANGED vars => ServerInv'
  BY DEF vars, ServerInv, TypeOK, StateFollowsBoot, HandlersWaited, CorpusFollows
<1> QED
  BY <1>1, MainKeeps, BootKeeps, ClientKeeps, LoopKeeps, PeerKeeps, HandlerKeeps, ReindexKeeps
     DEF Next, Worker, Handler, Over

LEMMA ServerInvHolds == Spec => []ServerInv
  BY InitServerInv, StepServerInv, PTL DEF Spec

-----------------------------------------------------------------------------

\* The bootstrap thread and a handler never use the indexer or the retriever
\* at the same time (api.cpp:382-398, 434-441, main.cpp:106-138).
THEOREM BootstrapIsAlone == Spec => []Confined
<1>1. ServerInv => Confined
  BY DEF ServerInv, StateFollowsBoot, HandlersWaited, Confined
<1> QED BY <1>1, ServerInvHolds, PTL

\* Between requests the retriever searches the symbols that lookups see, also
\* after an update or a rebuild that raised (main.cpp:118-129, api.cpp:678-715).
THEOREM RetrieverFollowsIndexer == Spec => []CorpusFollows
<1>1. ServerInv => CorpusFollows
  BY DEF ServerInv
<1> QED BY <1>1, ServerInvHolds, PTL

\* Every variable keeps its type, and a session has the fields of its step.
THEOREM ServerTypes == Spec => []TypeOK
<1>1. ServerInv => TypeOK
  BY DEF ServerInv
<1> QED BY <1>1, ServerInvHolds, PTL

================================================================================
