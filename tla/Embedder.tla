------------------------------ MODULE Embedder ------------------------------
(***************************************************************************)
(* One call of Embedder::embed_batch (core/src/embedder.cpp): the texts go *)
(* to the embedding backend in batches, and the vectors come back in the   *)
(* order of the texts.  Text i is the number i and its vector is i as      *)
(* well, so a vector in the wrong place is visible.  The HTTP exchange is  *)
(* one step that ends with a reply or raises.                              *)
(***************************************************************************)
EXTENDS Integers, Sequences, FiniteSets

CONSTANTS
    MaxTexts, MaxBatch,   \* bounds on the texts of a call and on batch_size
    Stray                 \* a vector that belongs to no text, or a row without an index

ASSUME BoundsAreNumbers == MaxTexts \in Nat /\ MaxBatch \in Nat \ {0}
ASSUME StrayIsNoNumber == Stray \notin Int

VARIABLES
    texts,        \* how many texts the call embeds
    batch_size,
    offset,
    result,       \* the vectors so far
    phase,        \* "embedding", "returned" or "raised"
    exact         \* every reply so far had one right row for each text

embedderVars == <<texts, batch_size, offset, result, phase, exact>>

Least(a, b) == IF a <= b THEN a ELSE b

-----------------------------------------------------------------------------
(* The backend.                                                            *)

Rows(count) == [index : 0..count \cup {Stray}, embedding : 1..count \cup {Stray}]

\* A row per text, some missing, repeated or one too many, in any order.  The
\* bare {"embedding": ...} accepted for one text is a row without an index.
Replies(count) == UNION {[1..n -> Rows(count)] : n \in 0..(count + 1)}

\* A right row names the text it embeds, or stands in its place.
RightRow(rows, i) ==
    rows[i].embedding = IF rows[i].index = Stray THEN i ELSE rows[i].index + 1

\* What the embeddings API promises: one right row for each input.
ExactReply(rows, count) ==
    /\ Len(rows) = count
    /\ \A i \in 1..count : RightRow(rows, i)
    /\ {rows[i].embedding : i \in 1..count} = 1..count

-----------------------------------------------------------------------------
(* parse_embeddings_response.                                              *)

\* Variant: rows without an index all count as the first.
FirstIndex(rows, i) == IF rows[i].index = Stray THEN 0 ELSE rows[i].index

RowIndex(rows, i) == IF rows[i].index = Stray THEN i - 1 ELSE rows[i].index

\* std::sort by index: any order of rows that compare equal.
Sorted(rows) ==
    LET at(i) == RowIndex(rows, i)
        orders == {p \in [1..Len(rows) -> 1..Len(rows)] :
                     /\ \A i, j \in 1..Len(rows) : i # j => p[i] # p[j]
                     /\ \A i \in 1..(Len(rows) - 1) : at(p[i]) <= at(p[i + 1])}
    IN  {[i \in 1..Len(rows) |-> rows[p[i]].embedding] : p \in orders}

RightCount(rows, count) == Len(rows) = count

-----------------------------------------------------------------------------

\* No call yet.
EmbedderInit ==
    /\ texts = 0
    /\ batch_size \in 1..MaxBatch
    /\ offset = 0 /\ result = <<>> /\ phase = "returned" /\ exact = TRUE

\* embed_batch(count texts).
EmbedBatch(count) ==
    /\ texts' = count /\ offset' = 0 /\ result' = <<>>
    /\ phase' = "embedding" /\ exact' = TRUE
    /\ UNCHANGED batch_size

Count == Least(batch_size, texts - offset)

\* The vector for text k of a batch is the text's own number.
Placed(embeddings) ==
    [i \in DOMAIN embeddings |->
        IF embeddings[i] = Stray THEN Stray ELSE offset + embeddings[i]]

RequestBatch ==
    /\ phase = "embedding" /\ offset < texts
    /\ \E rows \in Replies(Count) :
        /\ exact' = (exact /\ ExactReply(rows, Count))
        /\ IF RightCount(rows, Count)
           THEN /\ \E embeddings \in Sorted(rows) :
                      result' = result \o Placed(embeddings)
                /\ offset' = offset + batch_size
                /\ UNCHANGED phase
           ELSE /\ phase' = "raised"
                /\ UNCHANGED <<result, offset>>
    /\ UNCHANGED <<texts, batch_size>>

\* Resolving, connecting, writing or reading fails, the status is not 2xx, or
\* the body is not the JSON that is expected.
RequestRaises ==
    /\ phase = "embedding" /\ offset < texts
    /\ phase' = "raised"
    /\ UNCHANGED <<texts, batch_size, offset, result, exact>>

Return ==
    /\ phase = "embedding" /\ offset >= texts
    /\ phase' = "returned"
    /\ UNCHANGED <<texts, batch_size, offset, result, exact>>

Embed == RequestBatch \/ RequestRaises \/ Return

-----------------------------------------------------------------------------

\* Indexer and Retriever pair vectors with symbols by position.  A call that
\* returns has a vector for every text, one that is not over has those of the
\* batches before its offset, whatever the backend sent; and each vector stands
\* where its text does, across batches and whatever order the rows of a reply
\* come in, as long as the backend sends one right row for each text
\* (embedder.cpp:91-115, 207-237).
VectorsInPlace ==
    /\ phase # "raised" => Len(result) = Least(offset, texts)
    /\ phase = "returned" => Len(result) = texts
    /\ exact => \A i \in DOMAIN result : result[i] = i

=============================================================================
