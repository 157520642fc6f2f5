SPECIFICATION Spec
CONSTANTS
    Threads = {t1, t2}
    Documents = {d1, d2}
    Names = {n1, n2}
    d1 = d1
    d2 = d2
    n1 = n1
    n2 = n2
    Uploads <- AllUploads
    NoDocument = NoDocument
    Nobody = Nobody
    MAX_REQUESTS = 3
    MAX_RETRIEVALS = 1
    MAX_QUERIES = 2
    MAX_RESTARTS = 1
SYMMETRY Symmetry
INVARIANTS
    TypeOK
    OneEmbeddingModel
    
    
    MissExplained
PROPERTIES
    RequestsRunOut
