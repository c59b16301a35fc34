----------------------------- MODULE MCSpecStore -----------------------------
(* SpecStore on a small instance. *)
EXTENDS SpecStore, TLC

CONSTANTS p1, p2, n1, n2, s1, s2, d1, d2, bad

MCProcs == {p1, p2}
MCNames == {n1, n2}
MCSources == {s1, s2}
MCDocs == {d1, d2, bad}

\* Everything is interchangeable but the document that does not parse.
Symmetry == Permutations(MCProcs) \cup Permutations(MCNames)
            \cup Permutations(MCSources) \cup Permutations({d1, d2})
=============================================================================
