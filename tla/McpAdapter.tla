----------------------------- MODULE McpAdapter -----------------------------
(***************************************************************************)
(* The MCP adapter (mcp-adapter/src: server.ts, core-client.ts, index.ts): *)
(* the sessions of the SSE server, the messages posted to them, the calls  *)
(* of the core behind a message and the shutdown.  Node runs one turn at a *)
(* time; a step is what runs between two awaits.  Requests that are        *)
(* refused (unknown path, session or key) and /health change nothing and   *)
(* have no step, and a connection on which no request comes is not         *)
(* modelled.  What the SDK's transport does when it is closed, and Node's  *)
(* fatal unhandled rejection, are taken from how server.ts uses them;      *)
(* whether closing a transport lets other events in between is left open.  *)
(***************************************************************************)
EXTENDS Integers, FiniteSets

CONSTANTS
    Sessions,   \* session ids, each given out once
    Posts,      \* message requests
    Signals     \* SIGINT and SIGTERM, each delivered at most once

VARIABLES
    process,    \* "starting", "up", "exited", "failed"
    httpServer, \* the field is set
    listening,  \* the socket accepts
    sessions,   \* the Map of server.ts
    stream,     \* the SSE response behind a session
    post,       \* "none", "reading", "calling", "answered", "dropped"
    session,    \* the session a message was posted to
    stop,       \* "idle", "closing", "waiting", "done"
    server      \* the calls of stop() that took the server

vars == <<process, httpServer, listening, sessions, stream, post, session,
          stop, server>>

Up == process = "up"

Init ==
    /\ process = "starting" /\ httpServer = FALSE /\ listening = FALSE
    /\ sessions = {} /\ stream = [s \in Sessions |-> "none"]
    /\ post = [p \in Posts |-> "none"] /\ session \in [Posts -> Sessions]
    /\ stop = [k \in Signals |-> "idle"] /\ server = {}

-----------------------------------------------------------------------------
(* index.ts and start().                                                   *)

Listen ==
    /\ process = "starting"
    /\ httpServer' = TRUE
    /\ \/ process' = "up" /\ listening' = TRUE
       \/ process' = "failed" /\ UNCHANGED listening
    /\ UNCHANGED <<sessions, stream, post, session, stop, server>>

-----------------------------------------------------------------------------
(* Sessions.                                                               *)

\* handleSse; connect() attaches the close handler in the same turn.
HandleSse(s) ==
    /\ Up /\ listening
    /\ stream[s] = "none"
    /\ sessions' = sessions \cup {s}
    /\ stream' = [stream EXCEPT ![s] = "open"]
    /\ UNCHANGED <<process, httpServer, listening, post, session, stop, server>>

\* Variant: onclose is not set.
Forgotten(s) == sessions

OnClose(s) == sessions \ {s}

\* The peer goes away: the transport closes and onclose runs.
PeerGone(s) ==
    /\ Up
    /\ stream[s] = "open"
    /\ stream' = [stream EXCEPT ![s] = "closed"]
    /\ sessions' = OnClose(s)
    /\ UNCHANGED <<process, httpServer, listening, post, session, stop, server>>

-----------------------------------------------------------------------------
(* Messages.                                                               *)

\* The session is looked up before readBody awaits.
HandleMessages(p) ==
    /\ Up /\ listening
    /\ post[p] = "none" /\ session[p] \in sessions
    /\ post' = [post EXCEPT ![p] = "reading"]
    /\ UNCHANGED <<process, httpServer, listening, sessions, stream, session,
                   stop, server>>

\* readBody raises, or the message is none that calls a tool.
BodyRefused(p) ==
    /\ Up /\ post[p] = "reading"
    /\ post' = [post EXCEPT ![p] = "answered"]
    /\ UNCHANGED <<process, httpServer, listening, sessions, stream, session,
                   stop, server>>

\* handlePostMessage on an open transport: 202, and the tool calls the core.
BodyRead(p) ==
    /\ Up /\ post[p] = "reading" /\ stream[session[p]] = "open"
    /\ post' = [post EXCEPT ![p] = "calling"]
    /\ UNCHANGED <<process, httpServer, listening, sessions, stream, session,
                   stop, server>>

\* handlePostMessage on a transport that closed meanwhile answers 500 and
\* raises; the handler answers again, and that rejection is not handled.
BodyTooLate(p) ==
    /\ Up /\ post[p] = "reading" /\ stream[session[p]] = "closed"
    /\ process' = "failed"
    /\ UNCHANGED <<httpServer, listening, sessions, stream, post, session,
                   stop, server>>

\* requestJson: the core answers or refuses, or AbortSignal.timeout fires.
\* The result or the error goes out on the stream, if it is open.
Finish(p) ==
    /\ Up /\ post[p] = "calling"
    /\ post' = [post EXCEPT ![p] = IF stream[session[p]] = "open"
                                   THEN "answered" ELSE "dropped"]
    /\ UNCHANGED <<process, httpServer, listening, sessions, stream, session,
                   stop, server>>

\* How a message ends whose body is awaited.
BodyEnds(p) == BodyRefused(p) \/ BodyRead(p) \/ BodyTooLate(p)

-----------------------------------------------------------------------------
(* stop().                                                                 *)

\* Variant: one session is closed, not all.
LeftAtFirst(k) == IF stop[k] = "idle" THEN sessions ELSE {}

\* The iterator of the Map is live: it also visits what came during an await.
Left(k) == sessions

\* One turn of the loop over the sessions, or what follows the loop.
Turn(k, took) ==
    \/ \E s \in Left(k) :
         /\ stream' = [stream EXCEPT ![s] = "closed"]
         /\ sessions' = sessions \ {s}
         /\ stop' = [stop EXCEPT ![k] = "closing"]
         /\ UNCHANGED <<process, listening>>
    \/ /\ Left(k) = {}
       /\ IF took
          THEN /\ listening' = FALSE
               /\ stop' = [stop EXCEPT ![k] = "waiting"]
               /\ UNCHANGED process
          ELSE /\ stop' = [stop EXCEPT ![k] = "done"]
               /\ process' = "exited"
               /\ UNCHANGED listening
       /\ UNCHANGED <<sessions, stream>>

\* Variant: the field stays set, and every stop() waits for the server.
FieldKept == httpServer

\* this.httpServer = undefined: the first stop() takes the server.
FieldTaken == FALSE

Signal(k) ==
    /\ Up /\ stop[k] = "idle"
    /\ httpServer' = FieldTaken
    /\ server' = IF httpServer THEN server \cup {k} ELSE server
    /\ Turn(k, httpServer)
    /\ UNCHANGED <<post, session>>

Continue(k) ==
    /\ Up /\ stop[k] = "closing"
    /\ Turn(k, k \in server)
    /\ UNCHANGED <<httpServer, post, session, server>>

\* server.close() calls back when the last connection is gone; exit(0).  It
\* has also stopped Node's check of requestTimeout: a request whose body does
\* not come keeps its connection.
Exit(k) ==
    /\ Up /\ stop[k] = "waiting"
    /\ \A s \in Sessions : stream[s] # "open"
    /\ \A p \in Posts : post[p] # "reading"
    /\ stop' = [stop EXCEPT ![k] = "done"]
    /\ process' = "exited"
    /\ UNCHANGED <<httpServer, listening, sessions, stream, post, session, server>>

-----------------------------------------------------------------------------

Peers == \/ \E s \in Sessions : HandleSse(s) \/ PeerGone(s)
         \/ \E p \in Posts : HandleMessages(p) \/ BodyEnds(p) \/ Finish(p)
         \/ \E k \in Signals : Signal(k)

StopGoesOn(k) == Continue(k) \/ Exit(k)

Next == Listen \/ Peers \/ \E k \in Signals : StopGoesOn(k)

\* The event loop runs what is ready of start() and stop().  Nothing is
\* assumed of the core, of the peers, whose bodies need not end, or of the
\* signals.
Spec == Init /\ [][Next]_vars /\ WF_vars(Listen) /\ \A k \in Signals : WF_vars(StopGoesOn(k))

-----------------------------------------------------------------------------

TypeOK ==
    /\ process \in {"starting", "up", "exited", "failed"}
    /\ httpServer \in BOOLEAN /\ listening \in BOOLEAN
    /\ sessions \subseteq Sessions
    /\ stream \in [Sessions -> {"none", "open", "closed"}]
    /\ post \in [Posts -> {"none", "reading", "calling", "answered", "dropped"}]
    /\ session \in [Posts -> Sessions]
    /\ stop \in [Signals -> {"idle", "closing", "waiting", "done"}]
    /\ server \subseteq Signals /\ Cardinality(server) <= 1
    /\ listening => process # "starting"

\* The Map of handleSse holds exactly the sessions whose stream is open,
\* whoever closed the others: no session leaks and none is lost.
SessionsAreStreams == sessions = {s \in Sessions : stream[s] = "open"}

\* When a stop() closes the server no session is left behind, also none that
\* was opened while stop() awaited the end of another.
NoSessionOutlivesServer ==
    (process = "up" /\ ~ listening) => sessions = {}

\* A signal ends the process, whatever sessions, messages and other signals
\* stop() finds on its way, if no message is left whose body never ends
\* (index.ts:18-27, server.ts:99-125).
EveryBodyEnds == \A p \in Posts : (post[p] = "reading") ~> (post[p] # "reading" \/ ~ Up)
SignalEnds == EveryBodyEnds => ((\E k \in Signals : stop[k] # "idle") ~> ~ Up)

\* A second signal ends it also where a body keeps the first stop() waiting:
\* the second finds no server to wait for (server.ts:99-115).
SecondSignalEnds ==
    (\E j, k \in Signals : j # k /\ stop[j] # "idle" /\ stop[k] # "idle") ~> ~ Up

=============================================================================
