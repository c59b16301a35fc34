------------------------------ MODULE MCIndexer ------------------------------
(* Indexer on a small instance. *)
EXTENDS Indexer, TLC

CONSTANTS p1, p2, n1, n2, s1, s2, d1, d2, bad

MCDerived == (s1 :> n1) @@ (s2 :> n1)

Symmetry == Permutations({p1, p2}) \cup Permutations({s1, s2}) \cup Permutations({d1, d2})
=============================================================================
