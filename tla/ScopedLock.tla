------------------------------ MODULE ScopedLock ------------------------------
(***************************************************************************)
(* class ScopedMutex (src/src/rdk_perf_scopedlock.cpp) over one pthread    *)
(* mutex that the first scope initialises.  The test of _bMutexInit and    *)
(* the initialisation are not locked themselves: what makes them safe is   *)
(* that the module constructors of the library log, and logging locks,     *)
(* while the thread that loads the library is the only one to use it       *)
(* (LogModuleInit in src/src/rdk_perf_logging.cpp).                        *)
(***************************************************************************)
EXTENDS Naturals

CONSTANTS Threads,
          Loader,     \* the thread that loads the library
          Nobody,     \* the holder of a free mutex
          MaxNest     \* bound of the model: scopes of a thread within others

ASSUME LoaderAssumption == Loader \in Threads /\ Nobody \notin Threads
ASSUME MaxNestAssumption == MaxNest \in Nat \ {0}

VARIABLES loading,      \* how far the module constructor has come
          _bMutexInit,
          holder, depth,  \* the mutex: its holder and recursion count
          pc,           \* pc[t]: where thread t is in ScopedMutex::ScopedMutex
          nest          \* nest[t]: the locked scopes thread t is in

mutex == <<holder, depth>>
vars == <<loading, _bMutexInit, mutex, pc, nest>>

Init ==
  /\ loading = "start"
  /\ _bMutexInit = FALSE
  /\ holder = Nobody /\ depth = 0
  /\ pc = [t \in Threads |-> "outside"]
  /\ nest = [t \in Threads |-> 0]

Goto(t, from, to) == pc[t] = from /\ pc' = [pc EXCEPT ![t] = to]

-----------------------------------------------------------------------------
\* Mutant: the module constructor does not log.
LogModuleInitQuietly ==
  /\ loading = "start" /\ loading' = "logging"
  /\ UNCHANGED <<_bMutexInit, mutex, pc, nest>>

\* LogModuleInit logs a warning, which is never filtered, and RDKPerfLogging
\* enters a locked scope.
LogModuleInit ==
  /\ loading = "start" /\ loading' = "logging"
  /\ Goto(Loader, "outside", "testing")
  /\ UNCHANGED <<_bMutexInit, mutex, nest>>

\* The library is loaded when the scope of that message is left.
Loaded ==
  /\ loading = "logging" /\ loading' = "done"
  /\ pc[Loader] = "outside" /\ nest[Loader] = 0
  /\ UNCHANGED <<_bMutexInit, mutex, pc, nest>>

\* From then on any thread may enter a scope, within another one or not.
EnterScope(t) ==
  /\ loading = "done" /\ nest[t] < MaxNest
  /\ Goto(t, "outside", "testing")
  /\ UNCHANGED <<loading, _bMutexInit, mutex, nest>>

\* Mutant: the mutex is initialised by every scope.
AlwaysInit(t) ==
  /\ Goto(t, "testing", "initialising")
  /\ UNCHANGED <<loading, _bMutexInit, mutex, nest>>

\* The test of _bMutexInit in the constructor.
TestInit(t) ==
  /\ \/ ~_bMutexInit /\ Goto(t, "testing", "initialising")
     \/ _bMutexInit /\ Goto(t, "testing", "locking")
  /\ UNCHANGED <<loading, _bMutexInit, mutex, nest>>

\* pthread_mutex_init.  On a mutex in use it is undefined; it sets the words
\* of the mutex to those of a free one.  That it fails is left out: on Linux it
\* does not for a recursive mutex with no other attribute.  (The code would log
\* it, and the scope of that message would initialise the mutex once more.)
InitMutex(t) ==
  /\ Goto(t, "initialising", "flagging")
  /\ holder' = Nobody /\ depth' = 0
  /\ UNCHANGED <<loading, _bMutexInit, nest>>

\* InitMutex sets the flag once the mutex is made.
SetInit(t) ==
  /\ Goto(t, "flagging", "locking")
  /\ _bMutexInit' = TRUE
  /\ UNCHANGED <<loading, mutex, nest>>

\* pthread_mutex_lock on a recursive mutex.
Lock(t) ==
  /\ Goto(t, "locking", "outside")
  /\ holder \in {Nobody, t}
  /\ holder' = t /\ depth' = depth + 1
  /\ nest' = [nest EXCEPT ![t] = @ + 1]
  /\ UNCHANGED <<loading, _bMutexInit>>

\* Mutant: the mutex is freed at the first unlock.
UnlockAll(t) ==
  /\ pc[t] = "outside" /\ nest[t] > 0
  /\ nest' = [nest EXCEPT ![t] = @ - 1]
  /\ holder' = Nobody /\ depth' = 0
  /\ UNCHANGED <<loading, _bMutexInit, pc>>

\* Mutant: the recursion count only grows.
UnlockUncounted(t) ==
  /\ pc[t] = "outside" /\ nest[t] > 0
  /\ nest' = [nest EXCEPT ![t] = @ - 1]
  /\ holder' = IF nest[t] = 1 THEN Nobody ELSE t
  /\ depth' = depth
  /\ UNCHANGED <<loading, _bMutexInit, pc>>

\* The destructor: pthread_mutex_unlock, which refuses all but the holder.
Unlock(t) ==
  /\ pc[t] = "outside" /\ nest[t] > 0
  /\ nest' = [nest EXCEPT ![t] = @ - 1]
  /\ \/ /\ holder = t
        /\ depth' = depth - 1
        /\ holder' = IF depth = 1 THEN Nobody ELSE t
     \/ holder # t /\ UNCHANGED mutex
  /\ UNCHANGED <<loading, _bMutexInit, pc>>

Next ==
  \/ LogModuleInit
  \/ Loaded
  \/ \E t \in Threads :
       \/ EnterScope(t) \/ TestInit(t) \/ InitMutex(t)
       \/ SetInit(t) \/ Lock(t) \/ Unlock(t)

Spec == Init /\ [][Next]_vars

-----------------------------------------------------------------------------
(* Properties *)

\* The mutex is held by a thread or by nobody, no deeper than scopes nest.
TypeOK ==
  /\ loading \in {"start", "logging", "done"}
  /\ _bMutexInit \in BOOLEAN
  /\ holder \in Threads \cup {Nobody}
  /\ depth \in 0..MaxNest
  /\ pc \in [Threads -> {"outside", "testing", "initialising", "flagging", "locking"}]
  /\ nest \in [Threads -> 0..MaxNest]

\* The mutex agrees with the scopes: its holder is the thread that is in
\* locked scopes, and its count is their number, so that the last of them to
\* be left frees it and none before.
MutexCountsScopes ==
  /\ holder = Nobody => depth = 0
  /\ \A t \in Threads : IF holder = t THEN depth > 0 /\ nest[t] = depth ELSE nest[t] = 0

\* No thread initialises the mutex, or is about to, once the library is
\* loaded, so no scope is ever entered on a mutex that is made anew.
NoLateInit ==
  loading = "done" => /\ _bMutexInit
                      /\ \A t \in Threads : pc[t] \notin {"initialising", "flagging"}

Promise == INSTANCE RecursiveLock

\* Lazy initialisation or not, scopes exclude one another as RecursiveLock
\* says.
LockSpec == Promise!Spec
=============================================================================
