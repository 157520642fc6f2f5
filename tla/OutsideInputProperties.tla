---- MODULE OutsideInputProperties ----
(***************************************************************************)
(* What the store may rely on in the chunks of a document, and the client  *)
(* of a daemon in the answers to its lines.                                *)
(***************************************************************************)
EXTENDS OutsideInput

chunks == SplitIntoChunks(text)

LettersOf(part) == Range(part) \cap Letters

(* No chunk is blank or longer than chunk_size, for which the overlap makes  *)
(* way, and there is one for every document that has a letter.               *)
ChunksFit ==
    /\ \A i \in DOMAIN chunks : ~Blank(chunks[i]) /\ Len(chunks[i]) <= chunk_size
    /\ LettersOf(text) # {} => chunks # <<>>

(* No letter of the document is lost, the letters keep their order within a  *)
(* chunk and from one to the next, and a chunk shares letters with no        *)
(* earlier one but its neighbour, and no more than chunk_overlap.            *)
TextKept ==
    /\ UNION {LettersOf(chunks[i]) : i \in DOMAIN chunks} = LettersOf(text)
    /\ \A i \in DOMAIN chunks : \A m, n \in DOMAIN chunks[i] :
         m < n /\ {chunks[i][m], chunks[i][n]} \subseteq Letters => chunks[i][m] < chunks[i][n]
    /\ \A i, j \in DOMAIN chunks : i < j =>
         LET shared == LettersOf(chunks[i]) \cap LettersOf(chunks[j])
         IN /\ Cardinality(shared) <= chunk_overlap
            /\ shared # {} => j = i + 1
            /\ \A a \in LettersOf(chunks[i]), b \in LettersOf(chunks[j]) \ shared : a < b

(* The queries of a plan, however they are spelt.                            *)
Intents(plan) == {Key(query) : query \in {plan.rewritten_query} \cup Range(plan.sub_queries)}

Position(ranking, chunk) == CHOOSE i \in DOMAIN ranking : ranking[i] = chunk

(* No chunk is given twice, and as many are given as may be.  With a rerank  *)
(* model these are the best of all that the queries of the plan found: none  *)
(* that any of them found and that is not given ranks before one that is.    *)
(* Without one the main query's come first.                                  *)
BestChunksGiven ==
    recall # NoRecall =>
        LET plan == RetrievalPlan(recall.answer)
            given == RetrievedDocs(recall)
            found == UNION {Range(FirstOf(recall.rankings[key], RAG_RETRIEVE_TOP_K)) :
                               key \in Intents(plan)}
        IN /\ Cardinality(Range(given)) = Len(given)
           /\ Len(given) = Least(RAG_RERANK_TOP_K, Cardinality(found))
           /\ Range(given) \subseteq found
           /\ recall.reranking # <<>> =>
                \A best \in Range(given), other \in found \ Range(given) :
                    Position(recall.reranking, best) < Position(recall.reranking, other)
           /\ recall.reranking = <<>> =>
                LET main == FirstOf(recall.rankings[Key(plan.rewritten_query)], RAG_RETRIEVE_TOP_K)
                IN IsPrefix(given, main) \/ IsPrefix(main, given)

(* Every line is answered, in order and under its own id, until one that     *)
(* cannot be read or whose answer cannot be written, or a shutdown; the      *)
(* daemon stops exactly if that was answered; and what CoreClient sends, its *)
(* own id on it, is never taken for someone else's.                          *)
AnswersInOrder ==
    LET n == Len(connection.answers)
    IN /\ \A k \in 1..n :
            /\ connection.answers[k].id = IdOf(lines[k])
            /\ lines[k].form = "object" /\ Valid(lines[k]) =>
                 ReadResponse(connection.answers[k], lines[k].id) =
                     (IF lines[k].method \in Methods THEN "result" ELSE "JsonRpcError")
       /\ connection.state = "open" <=>
            /\ n = Len(lines)
            /\ ~\E k \in 1..n : ShouldShutdown(lines[k])
       /\ connection.state = "stopped" <=>
            n > 0 /\ "result" \in DOMAIN connection.answers[n]
                  /\ connection.answers[n].result = "core.shutdown"
       /\ n < Len(lines) /\ connection.state = "broken" =>
            lines[n + 1].form = "unreadable" \/ ~Encodable(lines[n + 1])
====
