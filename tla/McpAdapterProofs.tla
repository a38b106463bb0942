--------------------------- MODULE McpAdapterProofs ---------------------------
(***************************************************************************)
(* For any sessions, messages and signals: the Map of sessions is the set  *)
(* of open streams, and no session outlives the server.                    *)
(***************************************************************************)
EXTENDS McpAdapter, FiniteSetTheorems, TLAPS

\* The field httpServer is set once, before any stop(), and the first stop()
\* takes it.
ServerTakenOnce ==
    /\ httpServer \/ process = "starting" => server = {}
    /\ server = {} \/ \E k \in Signals : server = {k}

AdapterInv == TypeOK /\ SessionsAreStreams /\ NoSessionOutlivesServer /\ ServerTakenOnce

LEMMA OneServer ==
    ASSUME NEW S, S = {} \/ \E k \in Signals : S = {k}
    PROVE  S \subseteq Signals => Cardinality(S) \in Nat /\ Cardinality(S) <= 1
<1>1. Cardinality({}) = 0
  BY FS_EmptySet, Zenon
<1>2. ASSUME NEW k PROVE Cardinality({k}) = 1
  BY FS_Singleton, Zenon
<1> QED BY <1>1, <1>2

LEMMA InitAdapterInv == Init => AdapterInv
<1> SUFFICES ASSUME Init PROVE AdapterInv
  OBVIOUS
<1>1. Cardinality(server) \in Nat /\ Cardinality(server) <= 1
  BY OneServer DEF Init
<1>2. TypeOK
  BY <1>1 DEF Init, TypeOK
<1> QED
  BY <1>2 DEF Init, AdapterInv, SessionsAreStreams, NoSessionOutlivesServer, ServerTakenOnce

\* One turn of a stop() that holds the server or not.
LEMMA TurnKeeps ==
    ASSUME AdapterInv, Up, NEW k \in Signals, NEW took \in BOOLEAN, Turn(k, took)
    PROVE  /\ process' \in {"up", "exited"} /\ listening' \in BOOLEAN
           /\ sessions' \subseteq Sessions
           /\ stream' \in [Sessions -> {"none", "open", "closed"}]
           /\ stop' \in [Signals -> {"idle", "closing", "waiting", "done"}]
           /\ SessionsAreStreams'
           /\ NoSessionOutlivesServer'
<1> USE DEF AdapterInv, TypeOK, Up, Turn, Left
<1>1. /\ process' \in {"up", "exited"} /\ listening' \in BOOLEAN
      /\ stop' \in [Signals -> {"idle", "closing", "waiting", "done"}]
  OBVIOUS
<1>2. /\ sessions' \subseteq Sessions
      /\ stream' \in [Sessions -> {"none", "open", "closed"}]
      /\ SessionsAreStreams'
  BY DEF SessionsAreStreams
<1>3. NoSessionOutlivesServer'
  BY DEF NoSessionOutlivesServer
<1> QED BY <1>1, <1>2, <1>3

LEMMA StepAdapterInv == AdapterInv /\ [Next]_vars => AdapterInv'
<1> SUFFICES ASSUME AdapterInv, [Next]_vars PROVE AdapterInv'
  OBVIOUS
<1> USE DEF AdapterInv
<1>1. CASE Listen
  BY <1>1 DEF Listen, TypeOK, SessionsAreStreams, NoSessionOutlivesServer, ServerTakenOnce
<1>2. ASSUME NEW s \in Sessions, HandleSse(s) PROVE AdapterInv'
  <2>1. TypeOK' /\ SessionsAreStreams'
    BY <1>2 DEF HandleSse, Up, TypeOK, SessionsAreStreams
  <2> QED BY <1>2, <2>1 DEF HandleSse, Up, NoSessionOutlivesServer, ServerTakenOnce
<1>3. ASSUME NEW s \in Sessions, PeerGone(s) PROVE AdapterInv'
  <2>1. TypeOK' /\ SessionsAreStreams'
    BY <1>3 DEF PeerGone, OnClose, Up, TypeOK, SessionsAreStreams
  <2> QED BY <1>3, <2>1 DEF PeerGone, OnClose, Up, NoSessionOutlivesServer, ServerTakenOnce
<1>4. ASSUME NEW p \in Posts, HandleMessages(p) \/ BodyRefused(p) \/ BodyRead(p) \/ Finish(p)
      PROVE  AdapterInv'
  <2>1. /\ post' \in [Posts -> {"none", "reading", "calling", "answered", "dropped"}]
        /\ UNCHANGED <<process, httpServer, listening, sessions, stream, session, stop, server>>
    BY <1>4 DEF HandleMessages, BodyRefused, BodyRead, Finish, TypeOK
  <2> QED BY <2>1 DEF TypeOK, SessionsAreStreams, NoSessionOutlivesServer, ServerTakenOnce
<1>5. ASSUME NEW p \in Posts, BodyTooLate(p) PROVE AdapterInv'
  BY <1>5 DEF BodyTooLate, Up, TypeOK, SessionsAreStreams, NoSessionOutlivesServer, ServerTakenOnce
<1>6. ASSUME NEW k \in Signals, Signal(k) PROVE AdapterInv'
  <2>1. ServerTakenOnce' /\ server' \subseteq Signals /\ httpServer' \in BOOLEAN
        /\ UNCHANGED <<post, session>> /\ process' # "starting"
    BY <1>6, TurnKeeps DEF Signal, FieldTaken, Up, ServerTakenOnce, TypeOK
  <2>2. Cardinality(server') \in Nat /\ Cardinality(server') <= 1
    BY <2>1, OneServer DEF ServerTakenOnce
  <2>3. httpServer \in BOOLEAN /\ Turn(k, httpServer) /\ Up
    BY <1>6 DEF Signal, TypeOK
  <2>4. TypeOK'
    BY <2>1, <2>2, <2>3, TurnKeeps DEF TypeOK
  <2> QED BY <2>1, <2>3, <2>4, TurnKeeps
<1>7. ASSUME NEW k \in Signals, Continue(k) PROVE AdapterInv'
  <2>1. (k \in server) \in BOOLEAN /\ Turn(k, k \in server) /\ Up
        /\ UNCHANGED <<httpServer, post, session, server>>
    BY <1>7 DEF Continue
  <2>2. process' # "starting" /\ TypeOK'
    BY <2>1, TurnKeeps DEF TypeOK
  <2>3. ServerTakenOnce'
    BY <2>1, <2>2 DEF ServerTakenOnce, Up
  <2> QED BY <2>1, <2>2, <2>3, TurnKeeps
<1>8. ASSUME NEW k \in Signals, Exit(k) PROVE AdapterInv'
  BY <1>8 DEF Exit, Up, TypeOK, SessionsAreStreams, NoSessionOutlivesServer, ServerTakenOnce
<1>9. CASE UNCHANGED vars
  BY <1>9 DEF vars, TypeOK, SessionsAreStreams, NoSessionOutlivesServer, ServerTakenOnce
<1> QED
  BY <1>1, <1>2, <1>3, <1>4, <1>5, <1>6, <1>7, <1>8, <1>9
     DEF Next, Peers, BodyEnds, StopGoesOn

LEMMA AdapterInvHolds == Spec => []AdapterInv
  BY InitAdapterInv, StepAdapterInv, PTL DEF Spec

\* The Map of handleSse holds exactly the sessions whose stream is open
\* (server.ts:127-173).
THEOREM MapHoldsOpenStreams == Spec => []SessionsAreStreams
<1>1. AdapterInv => SessionsAreStreams
  BY DEF AdapterInv
<1> QED BY <1>1, AdapterInvHolds, PTL

\* A stop() that closes the server has closed every session before, those
\* opened during its awaits included (server.ts:99-125).
THEOREM StopLeavesNoSession == Spec => []NoSessionOutlivesServer
<1>1. AdapterInv => NoSessionOutlivesServer
  BY DEF AdapterInv
<1> QED BY <1>1, AdapterInvHolds, PTL

\* Types, and that no two calls of stop() take the server.
THEOREM AdapterTypes == Spec => []TypeOK
<1>1. AdapterInv => TypeOK
  BY DEF AdapterInv
<1> QED BY <1>1, AdapterInvHolds, PTL

===============================================================================
