----------------------------- MODULE ScopedLockMC -----------------------------
(* Model values and symmetry for checking ScopedLock with TLC. *)
EXTENDS ScopedLock, TLC

CONSTANTS t1, t2, t3

\* All but the loading thread are interchangeable.
Symmetry == Permutations(Threads \ {Loader})
=============================================================================
