--------------------------- MODULE MCCatalogQuery ---------------------------
(* CatalogQuery on a small instance. *)
EXTENDS CatalogQuery, TLC

CONSTANTS p1, p2, n1, n2, s1, s2, d1, d2, bad, h1, h2

\* Names, sources, good documents and handlers are interchangeable.
Symmetry == Permutations({n1, n2}) \cup Permutations({s1, s2})
            \cup Permutations({d1, d2}) \cup Permutations({h1, h2})
=============================================================================
