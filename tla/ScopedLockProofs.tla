--------------------------- MODULE ScopedLockProofs ---------------------------
(***************************************************************************)
(* ScopedMutex implements RecursiveLock, for any threads and any nesting.  *)
(***************************************************************************)
EXTENDS ScopedLock, TLAPS

\* While the library is being loaded only its loader is in a scope, that of
\* the message it logs, and the mutex is initialised before that is entered.
LoadingAlone ==
  /\ loading = "start" => \A t \in Threads : pc[t] = "outside" /\ nest[t] = 0
  /\ loading = "logging" =>
       /\ \A t \in Threads \ {Loader} : pc[t] = "outside" /\ nest[t] = 0
       /\ pc[Loader] # "outside" => nest[Loader] = 0
       /\ pc[Loader] \in {"outside", "locking"} => _bMutexInit

\* A thread has room for the scope that it is entering.
RoomToEnter == \A t \in Threads : pc[t] # "outside" => nest[t] < MaxNest

LockInv == TypeOK /\ MutexCountsScopes /\ NoLateInit /\ LoadingAlone /\ RoomToEnter

\* Before the library is loaded the invariant holds.
LEMMA LockInvInit == Init => LockInv
  <1> SUFFICES ASSUME Init PROVE LockInv
    OBVIOUS
  <1>1. \A t \in Threads : pc[t] = "outside" /\ nest[t] = 0
    BY DEF Init
  <1>2. 0 \in 0..MaxNest /\ 0 < MaxNest
    BY MaxNestAssumption
  <1>3. TypeOK
    <2>1. pc \in [Threads -> {"outside", "testing", "initialising", "flagging", "locking"}]
      BY DEF Init
    <2>2. nest \in [Threads -> 0..MaxNest]
      BY <1>2 DEF Init
    <2>3. QED BY <1>2, <2>1, <2>2 DEF Init, TypeOK
  <1>4. MutexCountsScopes
    BY <1>1, LoaderAssumption DEF Init, MutexCountsScopes
  <1>5. NoLateInit /\ LoadingAlone /\ RoomToEnter
    BY <1>1, LoaderAssumption DEF Init, NoLateInit, LoadingAlone, RoomToEnter
  <1>6. QED BY <1>3, <1>4, <1>5 DEF LockInv

\* Moving one thread from one place of the constructor to another.
LEMMA GotoMoves ==
  ASSUME NEW t \in Threads, NEW from, NEW to, Goto(t, from, to), TypeOK,
         to \in {"outside", "testing", "initialising", "flagging", "locking"}
  PROVE  /\ pc[t] = from /\ pc'[t] = to
         /\ \A s \in Threads : s # t => pc'[s] = pc[s]
         /\ pc' \in [Threads -> {"outside", "testing", "initialising", "flagging", "locking"}]
  BY DEF Goto, TypeOK

\* The constructor of ScopedMutex up to the lock keeps the invariant.
LEMMA EntryInductive ==
  ASSUME LockInv, NEW t \in Threads,
         EnterScope(t) \/ TestInit(t) \/ InitMutex(t) \/ SetInit(t)
  PROVE  LockInv'
  <1> USE LoaderAssumption, MaxNestAssumption
  <1> USE DEF LockInv, mutex
  <1>1. CASE EnterScope(t)
    BY <1>1, GotoMoves
    DEF EnterScope, TypeOK, MutexCountsScopes, NoLateInit, LoadingAlone, RoomToEnter
  <1>2. CASE TestInit(t)
    BY <1>2, GotoMoves
    DEF TestInit, TypeOK, MutexCountsScopes, NoLateInit, LoadingAlone, RoomToEnter
  <1>3. CASE InitMutex(t)
    <2>1. t = Loader /\ loading = "logging" /\ \A s \in Threads : nest[s] = 0
      BY <1>3, GotoMoves DEF InitMutex, TypeOK, NoLateInit, LoadingAlone
    <2>2. QED
      BY <1>3, <2>1, GotoMoves
      DEF InitMutex, TypeOK, MutexCountsScopes, NoLateInit, LoadingAlone, RoomToEnter
  <1>4. CASE SetInit(t)
    BY <1>4, GotoMoves
    DEF SetInit, TypeOK, MutexCountsScopes, NoLateInit, LoadingAlone, RoomToEnter
  <1>5. QED BY <1>1, <1>2, <1>3, <1>4

\* pthread_mutex_lock keeps the invariant.
LEMMA LockInductive ==
  ASSUME LockInv, NEW t \in Threads, Lock(t)
  PROVE  LockInv'
  <1> USE LoaderAssumption, MaxNestAssumption
  <1>1. /\ pc[t] = "locking" /\ pc'[t] = "outside"
        /\ \A s \in Threads : s # t => pc'[s] = pc[s]
        /\ pc' \in [Threads -> {"outside", "testing", "initialising", "flagging", "locking"}]
    BY GotoMoves DEF Lock, LockInv
  <1>2. /\ nest'[t] = nest[t] + 1 /\ \A s \in Threads : s # t => nest'[s] = nest[s]
        /\ nest[t] \in 0..MaxNest /\ nest[t] < MaxNest
        /\ holder' = t /\ depth' = depth + 1
        /\ UNCHANGED <<loading, _bMutexInit>>
    BY <1>1 DEF Lock, LockInv, TypeOK, RoomToEnter
  <1>3. depth = nest[t] /\ \A s \in Threads : s # t => nest[s] = 0
    BY DEF Lock, LockInv, MutexCountsScopes
  <1>4. depth + 1 \in 0..MaxNest /\ depth + 1 > 0
    BY <1>2, <1>3
  <1>5. nest' \in [Threads -> 0..MaxNest]
    BY <1>2, <1>3, <1>4 DEF Lock, LockInv, TypeOK
  <1>6. TypeOK'
    BY <1>1, <1>2, <1>4, <1>5 DEF LockInv, TypeOK
  <1>7. MutexCountsScopes'
    BY <1>2, <1>3, <1>4 DEF MutexCountsScopes
  <1>8. NoLateInit' /\ LoadingAlone' /\ RoomToEnter'
    BY <1>1, <1>2, <1>3 DEF LockInv, TypeOK, NoLateInit, LoadingAlone, RoomToEnter
  <1>9. QED BY <1>6, <1>7, <1>8 DEF LockInv

\* The destructor of ScopedMutex keeps the invariant.
LEMMA UnlockInductive ==
  ASSUME LockInv, NEW t \in Threads, Unlock(t)
  PROVE  LockInv'
  <1> USE LoaderAssumption, MaxNestAssumption
  <1>1. /\ pc[t] = "outside" /\ nest[t] > 0 /\ nest[t] \in 0..MaxNest
        /\ nest'[t] = nest[t] - 1 /\ \A s \in Threads : s # t => nest'[s] = nest[s]
        /\ UNCHANGED <<loading, _bMutexInit, pc>>
    BY DEF Unlock, LockInv, TypeOK
  <1>2. holder = t /\ depth = nest[t] /\ \A s \in Threads : s # t => nest[s] = 0
    BY <1>1 DEF LockInv, MutexCountsScopes
  <1>3. depth' = nest[t] - 1 /\ holder' = IF nest[t] = 1 THEN Nobody ELSE t
    BY <1>2 DEF Unlock, mutex
  <1>4. nest[t] - 1 \in 0..MaxNest
    BY <1>1
  <1>5. nest' \in [Threads -> 0..MaxNest]
    BY <1>1, <1>4 DEF Unlock, LockInv, TypeOK
  <1>6. TypeOK'
    BY <1>1, <1>3, <1>4, <1>5 DEF LockInv, TypeOK
  <1>7. MutexCountsScopes'
    <2>1. CASE nest[t] = 1
      BY <1>1, <1>2, <1>3, <2>1 DEF MutexCountsScopes
    <2>2. CASE nest[t] # 1
      <3>1. nest[t] - 1 > 0 BY <1>1, <2>2
      <3>2. QED BY <1>1, <1>2, <1>3, <2>2, <3>1 DEF MutexCountsScopes
    <2>3. QED BY <2>1, <2>2
  <1>8. NoLateInit' /\ LoadingAlone'
    BY <1>1, <1>2 DEF LockInv, TypeOK, NoLateInit, LoadingAlone
  <1>9. RoomToEnter'
    BY <1>1 DEF LockInv, RoomToEnter
  <1>10. QED BY <1>6, <1>7, <1>8, <1>9 DEF LockInv

\* Every step keeps the invariant.
LEMMA LockInvInductive ==
  ASSUME LockInv, [Next]_vars
  PROVE  LockInv'
  <1> USE DEF LockInv, mutex
  <1>1. CASE LogModuleInit
    BY <1>1, LoaderAssumption, MaxNestAssumption, GotoMoves
    DEF LogModuleInit, TypeOK, MutexCountsScopes, NoLateInit, LoadingAlone, RoomToEnter
  <1>2. CASE Loaded
    BY <1>2, LoaderAssumption
    DEF Loaded, TypeOK, MutexCountsScopes, NoLateInit, LoadingAlone, RoomToEnter
  <1>3. CASE UNCHANGED vars
    BY <1>3
    DEF vars, TypeOK, MutexCountsScopes, NoLateInit, LoadingAlone, RoomToEnter
  <1> HIDE DEF LockInv
  <1>4. QED
    BY <1>1, <1>2, <1>3, EntryInductive, LockInductive, UnlockInductive DEF Next

\* The strengthened invariant holds throughout.
THEOREM LockInvariant == Spec => []LockInv
  BY LockInvInit, LockInvInductive, PTL DEF Spec

\* Every variable of the lock stays in its domain: no thread nests deeper than
\* MaxNest scopes, whether it finds the mutex made or makes it.
THEOREM LockTypeCorrect == Spec => []TypeOK
  <1>1. LockInv => TypeOK BY DEF LockInv
  <1>2. QED BY <1>1, LockInvariant, PTL

\* The mutex counts the scopes of its holder, whatever threads race for it.
THEOREM MutexAlwaysCountsScopes == Spec => []MutexCountsScopes
  <1>1. LockInv => MutexCountsScopes BY DEF LockInv
  <1>2. QED BY <1>1, LockInvariant, PTL

\* The lazy initialisation of ScopedMutex never runs after the library has
\* been loaded, so the race on _bMutexInit cannot happen.
THEOREM InitIsNeverLate == Spec => []NoLateInit
  <1>1. LockInv => NoLateInit BY DEF LockInv
  <1>2. QED BY <1>1, LockInvariant, PTL

\* SCOPED_LOCK is a recursive lock: ScopedMutex implements RecursiveLock.
THEOREM ScopesExclude == Spec => LockSpec
  <1>1. Init => Promise!Init
    BY DEF Init, Promise!Init
  <1>2. ASSUME LockInv, [Next]_vars PROVE [Promise!Next]_nest
    <2>1. ASSUME NEW t \in Threads, Lock(t) PROVE Promise!Acquire(t)
      <3>1. \A s \in Threads : s # t => nest[s] = 0
        BY <1>2, <2>1, LoaderAssumption DEF LockInv, MutexCountsScopes, Lock
      <3>2. QED BY <2>1, <3>1 DEF Lock, Promise!Acquire
    <2>2. ASSUME NEW t \in Threads, Unlock(t) PROVE Promise!Release(t)
      BY <2>2 DEF Unlock, Promise!Release
    <2>3. QED
      BY <1>2, <2>1, <2>2
      DEF Next, vars, LogModuleInit, Loaded, EnterScope, TestInit, InitMutex, SetInit,
          Promise!Next
  <1>3. QED BY <1>1, <1>2, LockInvariant, PTL DEF Spec, LockSpec, Promise!Spec
=============================================================================
