---------------------------- MODULE MCQuerySession ----------------------------
(* QuerySession on small instances. *)
EXTENDS QuerySession

CONSTANTS h1, h2, n1, n2, n3, s1, s2, s3, d1, d2

Symmetry == Permutations({h1, h2}) \cup Permutations({n1, n2, n3})
            \cup Permutations({s1, s2, s3}) \cup Permutations({d1, d2})
=============================================================================
