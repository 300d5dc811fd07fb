----------------------------- MODULE MCRetainers -----------------------------
EXTENDS RetainersInv, TLC

\* Plan ids and slots are interchangeable, and so are clients.
Symmetry == Permutations(Client) \cup Permutations(Plan) \cup Permutations(Run)
              \cup Permutations(Editor)
==============================================================================
