---- MODULE OutsideInput ----
(***************************************************************************)
(* The functions of the system that answer whatever text comes from        *)
(* outside: an uploaded document is cut into chunks, a question is planned *)
(* by a model and recalls chunks, the lines of a connection are answered.  *)
(* Each is taken through its inputs, the document one character longer at  *)
(* every step, the connection one line.                                    *)
(***************************************************************************)
EXTENDS Chunking, Recall, RpcConversation

CONSTANTS
    MAX_TEXT,  \* bound: characters of a document
    MAX_LINES  \* bound: lines of a connection

ASSUME InputAssumption ==
    /\ MAX_TEXT \in Nat /\ Letters = 1..MAX_TEXT
    /\ IsFiniteSet(Chunks) /\ Chunks = 1..Cardinality(Chunks)

VARIABLES
    text,       \* the document
    recall,     \* a question's plan and the rankings of the chunks
    lines,      \* what the client has sent
    connection  \* the daemon's end of it

vars == <<text, recall, lines, connection>>

NoRecall == <<>>

Init == text = <<>> /\ recall = NoRecall /\ lines = <<>> /\ connection = NewConnection

(* Every letter is another one, so that its way into the chunks shows. *)
LongerText ==
    /\ lines = <<>> /\ recall = NoRecall /\ Len(text) < MAX_TEXT
    /\ \E char \in {Len(text) + 1, Space, NewLine, Stop} : text' = Append(text, char)
    /\ UNCHANGED <<recall, lines, connection>>

AnotherLine ==
    /\ text = <<>> /\ recall = NoRecall /\ Len(lines) < MAX_LINES
    /\ \E line \in Lines :
         /\ lines' = Append(lines, line)
         /\ connection' = HandleLine(connection, line)
    /\ UNCHANGED <<text, recall>>

Answers ==
    [rewritten_query : Queries \cup {Unusable},
     sub_queries : SeqOf(Queries \cup {Unusable}, MAX_RETRIEVAL_SUB_QUERIES + 1)]

(* The chunks are numbered as the question ranks them. *)
Rankings ==
    {rankings \in [{Key(query) : query \in Queries \cup {question}} -> SetToSeqs(Chunks)] :
        \A i \in Chunks : rankings[Key(question)][i] = i}

AnotherQuestion ==
    /\ text = <<>> /\ lines = <<>> /\ recall = NoRecall
    /\ \E answer \in Answers, rankings \in Rankings, reranking \in SetToSeqs(Chunks) \cup {<<>>} :
         recall' = [answer |-> answer, rankings |-> rankings, reranking |-> reranking]
    /\ UNCHANGED <<text, lines, connection>>

Next == LongerText \/ AnotherQuestion \/ AnotherLine

Spec == Init /\ [][Next]_vars
====
