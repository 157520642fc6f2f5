SPECIFICATION Spec
CONSTANTS
    MAX_TEXT = 7
    MAX_LINES = 2
    Letters <- MCLetters
    Space = Space
    NewLine = NewLine
    Stop = Stop
    chunk_size = 3
    RAG_CHUNK_OVERLAP = 2
    RAG_MIN_CHUNK_SIZE = 2
    question <- MCQuestion
    Queries <- MCQueries
    Unusable = Unusable
    Chunks = {1, 2, 3, 4}
    MAX_RETRIEVAL_SUB_QUERIES = 2
    RAG_RETRIEVE_TOP_K = 3
    RAG_RERANK_TOP_K = 2
    Ids = {i1}
    OddIds = {o1}
    Null = Null
    Absent = Absent
CHECK_DEADLOCK FALSE
INVARIANTS
    ChunksFit
    TextKept
    BestChunksGiven
    AnswersInOrder
