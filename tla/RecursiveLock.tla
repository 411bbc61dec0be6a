---------------------------- MODULE RecursiveLock ----------------------------
(***************************************************************************)
(* What SCOPED_LOCK promises the rest of the library: a thread that is in  *)
(* a locked scope may enter further ones, and no other thread may.  The    *)
(* other modules take each operation that locks for one atomic step on     *)
(* the strength of this.                                                   *)
(***************************************************************************)
EXTENDS Naturals

CONSTANT Threads

VARIABLE nest     \* nest[t]: the locked scopes that thread t is in

Init == nest = [t \in Threads |-> 0]

Acquire(t) ==
  /\ \A s \in Threads : s # t => nest[s] = 0
  /\ nest' = [nest EXCEPT ![t] = @ + 1]

Release(t) ==
  /\ nest[t] > 0
  /\ nest' = [nest EXCEPT ![t] = @ - 1]

Next == \E t \in Threads : Acquire(t) \/ Release(t)

Spec == Init /\ [][Next]_nest
=============================================================================
