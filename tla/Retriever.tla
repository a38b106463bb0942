------------------------------ MODULE Retriever ------------------------------
(***************************************************************************)
(* What core/src/retriever.cpp promises the server: which corpus a search  *)
(* runs on.  A corpus is the set of files whose symbols it holds.  How it  *)
(* is profiled and searched is module Retrieval, which implements this.    *)
(***************************************************************************)

VARIABLES
    corpus,        \* symbols_: the files they come from
    corpusReady,   \* corpus_ready_
    profiled,      \* hierarchy_ has its module records
    attached       \* storage_ is set

retrieverVars == <<corpus, corpusReady, profiled, attached>>

RetrieverInit ==
    /\ corpus = {}
    /\ corpusReady = FALSE
    /\ profiled = FALSE
    /\ attached = FALSE

Ready == corpusReady /\ attached

AttachStorage == attached' = TRUE

\* build() returns; with no symbols the hierarchy stays empty.  clear_corpus()
\* is the same without symbols.
Build(indexed) ==
    /\ corpus' = indexed
    /\ corpusReady' = (indexed # {})
    /\ profiled' = (indexed # {})

\* The embedding of the modules raises: the corpus is in place all the same.
BuildRaises(indexed) ==
    /\ indexed # {}
    /\ corpus' = indexed
    /\ corpusReady' = TRUE
    /\ profiled' = FALSE

RetrieverNext(files) ==
    \/ \E indexed \in SUBSET files : Build(indexed) /\ UNCHANGED attached
    \/ \E indexed \in SUBSET files : BuildRaises(indexed) /\ UNCHANGED attached
    \/ AttachStorage /\ UNCHANGED <<corpus, corpusReady, profiled>>

\* How retrieve() can end for a query that was embedded.  A store that cannot
\* be reached raises; one that finds nothing leaves the hierarchy's ranking.
Retrieved(reachable) == IF reachable THEN "ok" ELSE "failed"

=============================================================================
