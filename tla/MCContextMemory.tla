---- MODULE MCContextMemory ----
(* ContextMemory for processes whose names do not matter, and records that *)
(* differ only in their size, in where their answer's key is and in what   *)
(* of a character stands where they are cut.                               *)
EXTENDS ContextMemoryProperties, TLC

CONSTANTS r1, r2

AnswerAtCases == [r \in Records |-> IF r = r2 THEN 1 ELSE 2]
SplitCases == [r \in Records |-> IF r \in {r1, r2} THEN 1 ELSE 0]

Symmetry == Permutations(Processes) \cup Permutations(Records \ {r1, r2})
====
