---- MODULE Recall ----
(***************************************************************************)
(* Which chunks the RAG tool gives for a question: the retrieval plan that *)
(* a model makes of it, the search for every query of the plan, and the    *)
(* reranking, RagService.retrieve_with_mode and rerank.  What a search of  *)
(* the collection or of the disk finds, in the asked document or in all,   *)
(* is a ranking of the chunks for each query.                              *)
(***************************************************************************)
EXTENDS Integers, FiniteSets, Sequences, SequencesExt, Selection

CONSTANTS
    question,                   \* the query that was asked
    Queries,                    \* what the model may ask instead: <<key, spelling>>
    Unusable,                   \* a blank string, or no string
    Chunks,                     \* the stored chunks
    MAX_RETRIEVAL_SUB_QUERIES,
    RAG_RETRIEVE_TOP_K,
    RAG_RERANK_TOP_K

ASSUME QueriesAssumption == Unusable \notin Queries \cup {question}
ASSUME TopAssumption ==
    MAX_RETRIEVAL_SUB_QUERIES \in Nat /\ RAG_RETRIEVE_TOP_K \in Nat /\ RAG_RERANK_TOP_K \in Nat

(* strip().casefold(), by which queries are compared.  Of the spellings of a *)
(* key a request searches for one only, so a ranking for each key will do.   *)
Key(query) == query[1]

Usable(query) == query # Unusable

FirstOf(s, n) == SubSeq(s, 1, IF n < Len(s) THEN n ELSE Len(s))

(* build_retrieval_plan: a call that fails, or an answer that is no object,  *)
(* leaves the question as it is, like an answer without anything usable.     *)
RetrievalPlan(answer) ==
    LET items == answer.sub_queries
        usable == Selected(items, {i \in DOMAIN items : Usable(items[i])})
    IN [rewritten_query |-> IF Usable(answer.rewritten_query) THEN answer.rewritten_query ELSE question,
        sub_queries |-> FirstOf(usable, MAX_RETRIEVAL_SUB_QUERIES)]

(* The first of the items that have the same key. *)
Deduped(items, keys) ==
    Selected(items, {i \in DOMAIN items : \A j \in 1 .. i - 1 : keys[j] # keys[i]})

(* _normalize_retrieval_queries *)
RetrievalQueries(plan) ==
    LET queries == <<plan.rewritten_query>> \o plan.sub_queries
    IN Deduped(queries, [i \in DOMAIN queries |-> Key(queries[i])])

(* Both searches give the first top_k for each query, and _dedupe_sources    *)
(* makes one list of them.                                                   *)
Retrieved(queries, rankings) ==
    LET sources == FlattenSeq([i \in DOMAIN queries |->
                                  FirstOf(rankings[Key(queries[i])], RAG_RETRIEVE_TOP_K)])
    IN Deduped(sources, sources)

Ordered(sources, ranking) ==
    Selected(ranking, {i \in DOMAIN ranking : ranking[i] \in Range(sources)})

(* Mistake: the candidates are cut before they are ranked. *)
CutThenRanked(sources, reranking) ==
    LET cut == FirstOf(sources, RAG_RERANK_TOP_K)
    IN IF reranking = <<>> THEN cut ELSE Ordered(cut, reranking)

(* rerank; <<>> is a rerank model that did not load. *)
Reranked(sources, reranking) ==
    FirstOf(IF reranking = <<>> THEN sources ELSE Ordered(sources, reranking), RAG_RERANK_TOP_K)

(* retrieve_document_context *)
RetrievedDocs(request) ==
    Reranked(Retrieved(RetrievalQueries(RetrievalPlan(request.answer)), request.rankings),
             request.reranking)
====
