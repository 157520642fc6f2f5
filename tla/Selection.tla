---- MODULE Selection ----
(***************************************************************************)
(* What a loop over a sequence keeps of it: the members at some places, in *)
(* their order.  SelectSeq, for places instead of a test of the member.    *)
(***************************************************************************)
EXTENDS Naturals, FiniteSets, Sequences

(* The place of i among the members of S, and the member at place n. *)
Rank(S, i) == Cardinality({j \in S : j <= i})

Nth(S, n) == CHOOSE i \in S : Rank(S, i) = n

Selected(s, S) == [n \in 1 .. Cardinality(S) |-> s[Nth(S, n)]]
====
