----------------------------- MODULE MCMaxLink -----------------------------
(* MaxLink on small instances.                                             *)
EXTENDS MaxLink, TLC

CONSTANTS c1, c2, h1, h2

\* The queries of a kind are interchangeable.
Symmetry == Permutations(CmdQueries) \cup Permutations(HbQueries)
=============================================================================
