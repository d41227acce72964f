-------------------------------- MODULE MCGomoku -------------------------------
\* The threads are interchangeable.
EXTENDS Gomoku, TLC
MCSymmetry == Permutations(Threads)
================================================================================
