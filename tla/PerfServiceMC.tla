---------------------------- MODULE PerfServiceMC ----------------------------
(* Model values and symmetry for checking PerfService with TLC. *)
EXTENDS PerfService, TLC

CONSTANTS p1, p2, i1, i2, r1, r2, r3, n1, n2

\* The members of each set are interchangeable.
Symmetry == Permutations(Procs) \cup Permutations(Tids)
              \cup Permutations(Records) \cup Permutations(Names)
=============================================================================
