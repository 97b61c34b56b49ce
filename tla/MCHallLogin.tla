----------------------------- MODULE MCHallLogin -----------------------------
EXTENDS HallLogin, TLC

\* Threads, sessions and tokens are interchangeable.
Symmetry == Permutations(Workers) \cup Permutations(Sessions) \cup Permutations(Tokens)
=============================================================================
