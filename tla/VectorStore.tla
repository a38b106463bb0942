----------------------------- MODULE VectorStore -----------------------------
(***************************************************************************)
(* core/src/vector_store.cpp: what the HTTP requests of one VectorStore do *)
(* to the Qdrant collection.  The store is enabled.  Vectors, scores and   *)
(* most of the payload are left out: a point is its id, the symbol's file  *)
(* and its name.  Qdrant is another process: its collection survives the   *)
(* core, and a request that raises may or may not have taken effect.       *)
(***************************************************************************)
EXTENDS Integers, FiniteSets

VARIABLES
    collection,   \* the collection exists in Qdrant
    points,       \* its points: [id, file, name]
    ensured       \* collection_once_ has run to its end in this process

vectorVars == <<collection, points, ensured>>

VectorInit == collection = FALSE /\ points = {} /\ ensured = FALSE

-----------------------------------------------------------------------------
(* The effect of a request on the points.                                  *)

\* A filter on the payload's file path.
WithoutFile(f) == {p \in points : p.file # f}

\* A point replaces the one that has its id.
Upserted(records) ==
    {p \in points : \A r \in records : r.id # p.id} \cup records

-----------------------------------------------------------------------------
(* A member function returns, or raises.                                   *)

\* call_once: the collection is looked up, and created when missing, by the
\* first call that gets through; a collection lost later is not created again.
Returns(after) ==
    /\ ensured => collection
    /\ collection' = TRUE
    /\ ensured' = TRUE
    /\ points' = after

\* Refused, timed out, or answered with an error: nothing was done, or only
\* the collection was created, or all of it and the answer was lost.
Raises(after) ==
    \/ UNCHANGED vectorVars
    \/ /\ ~ensured
       /\ collection' = TRUE
       /\ ensured' \in BOOLEAN
       /\ UNCHANGED points
    \/ Returns(after)

\* Somebody removes Qdrant's volume.
Wipe == collection' = FALSE /\ points' = {} /\ UNCHANGED ensured

\* The process ends: the next one has a fresh once_flag.
Forget == ensured' = FALSE /\ UNCHANGED <<collection, points>>

=============================================================================
