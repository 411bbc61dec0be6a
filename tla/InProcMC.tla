------------------------------ MODULE InProcMC ------------------------------
(* Model values and symmetry for checking InProc with TLC. *)
EXTENDS InProc, TLC

CONSTANTS t1, t2, r1, r2, r3, a1, a2, a3, a4, a5, n1, n2

\* The members of each set are interchangeable; used where no liveness is
\* checked.
Symmetry == Permutations(Threads) \cup Permutations(Records)
              \cup Permutations(Trees) \cup Permutations(Names)
=============================================================================
