---- MODULE MCObligations ----
EXTENDS Obligations, TLC
Symmetry == Permutations(Generation) \cup Permutations(Editor)
====
