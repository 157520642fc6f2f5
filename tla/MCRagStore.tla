---- MODULE MCRagStore ----
(* RagStore for two documents: their uploads race for the same directory and *)
(* for the one collection.                                                   *)
EXTENDS RagStoreProperties, TLC

CONSTANTS d1, d2, n1, n2

(* Either document under either name, which makes them interchangeable. *)
AllUploads == Documents \X Names
Symmetry == Permutations(Threads) \cup Permutations(Documents) \cup Permutations(Names)

(* One document under two names. *)
RenamedUploads == {<<d1, n1>>, <<d1, n2>>}

(* Nothing raises but what the service itself brings about. *)
NextWithoutFailures == (\E t \in Threads : Begin(t) \/ Step(t)) \/ Restart
SpecWithoutFailures == Init /\ [][NextWithoutFailures]_vars
====
