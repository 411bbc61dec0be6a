---------------------------- MODULE PerfReportMC ----------------------------
(* Model values and symmetry for checking PerfReport with TLC. *)
EXTENDS PerfReport, TLC

CONSTANTS t1, t2, r1, r2, a1, a2, n1

\* The members of each set are interchangeable; no liveness is checked.
Symmetry == Permutations(Threads) \cup Permutations(Records) \cup Permutations(Trees)
=============================================================================
