--------------------------- MODULE MCConnRegistry ---------------------------
(* Instances of ConnRegistry for TLC.  Connections, workers and addresses    *)
(* are interchangeable; descriptors are not, their order matters.            *)
EXTENDS ConnRegistry

Symmetry == Permutations(Conns) \cup Permutations(Workers) \cup Permutations(Objs)
=============================================================================
