--------------------------- MODULE MCTwitterEngine ---------------------------
(* TwitterEngine for TLC: names, connections and passwords are             *)
(* interchangeable (the name "server" is not among the model values).      *)
EXTENDS TwitterEngine, TLC

Symmetry == Permutations(Names) \cup Permutations(Conns) \cup Permutations(Passwords)
=============================================================================
