--------------------------- MODULE MCLeakDetector ---------------------------
(* A heap of six chunks for LeakDetector: three blocks with their records.     *)
EXTENDS LeakDetector

CONSTANTS m1, m2, m3, m4, m5, m6

Symmetry == Permutations(Chunks)
=============================================================================
