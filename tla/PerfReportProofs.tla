---------------------------- MODULE PerfReportProofs ----------------------------
(***************************************************************************)
(* The inductive invariant of PerfReport: what the reports say is true of  *)
(* the calls.  It rests on that of scoped use, and on facts about sums.    *)
(***************************************************************************)
EXTENDS PerfReport, InProcScopedProofs, FiniteSetTheorems

-----------------------------------------------------------------------------
(* Sums of the values of a function over a finite set *)

Total(f, S) == SumFunctionOnSet(f, S)

\* The element that SumFunctionOnSet takes out of a set.
SomeOf(V) == CHOOSE x \in V : TRUE

\* g is what SumFunctionOnSet computes on the way, for the subsets of S with at
\* most n elements.
IsSum(g, f, S, n) ==
  LET Few == {V \in SUBSET S : Cardinality(V) <= n}
  IN  g = [V \in Few |->
             IF V = {} THEN 0
             ELSE f[SomeOf(V)] + g[V \ {SomeOf(V)}]]

\* The set without one of its elements.
LEMMA OneLess ==
  ASSUME NEW S, IsFiniteSet(S), NEW V \in SUBSET S
  PROVE  /\ IsFiniteSet(V) /\ Cardinality(V) \in Nat /\ Cardinality(V) <= Cardinality(S)
         /\ V = {} <=> Cardinality(V) = 0
         /\ \A x \in V : V \ {x} \in SUBSET S /\ Cardinality(V \ {x}) = Cardinality(V) - 1
  <1>1. IsFiniteSet(V) /\ Cardinality(V) <= Cardinality(S)
    BY FS_Subset
  <1>2. Cardinality(V) \in Nat
    BY <1>1, FS_CardinalityType
  <1>3. V = {} <=> Cardinality(V) = 0
    BY <1>1, FS_EmptySet
  <1>4. \A x \in V : Cardinality(V \ {x}) = Cardinality(V) - 1
    BY <1>1, FS_RemoveElement
  <1>5. QED BY <1>1, <1>2, <1>3, <1>4

\* The sum can be computed.
LEMMA SumExists ==
  ASSUME NEW f, NEW S, IsFiniteSet(S), NEW n \in Nat
  PROVE  \E g : IsSum(g, f, S, n)
  <1>1. PICK N : N = {k \in Nat : \E g : IsSum(g, f, S, k)}
    OBVIOUS
  <1>2. 0 \in N
    <2>1. PICK g : g = [V \in {{}} |-> 0]
      OBVIOUS
    <2>2. {V \in SUBSET S : Cardinality(V) <= 0} = {{}}
      <3>1. \A V \in SUBSET S : Cardinality(V) <= 0 <=> V = {}
        BY OneLess
      <3>2. QED BY <3>1
    <2>3. IsSum(g, f, S, 0)
      BY <2>1, <2>2 DEF IsSum
    <2>4. QED BY <1>1, <2>3
  <1>3. ASSUME NEW k \in Nat, k \in N PROVE k + 1 \in N
    <2>1. PICK g : IsSum(g, f, S, k)
      BY <1>1, <1>3
    <2>2. PICK Few, More : /\ Few = {V \in SUBSET S : Cardinality(V) <= k}
                           /\ More = {V \in SUBSET S : Cardinality(V) <= k + 1}
      OBVIOUS
    <2>3. PICK h : h = [V \in More |->
                          IF V \in Few THEN g[V]
                          ELSE f[SomeOf(V)] + g[V \ {SomeOf(V)}]]
      OBVIOUS
    <2>4. \A V \in Few : V \in More /\ h[V] = g[V]
      <3>1. \A V \in Few : Cardinality(V) \in Nat
        BY <2>2, OneLess
      <3>2. Few \subseteq More
        BY <2>2, <3>1
      <3>3. QED BY <2>3, <3>2
    <2>5. ASSUME NEW V \in More, V # {}
          PROVE  V \ {SomeOf(V)} \in Few
      <3>1. PICK y \in V : y = SomeOf(V)
        BY <2>5 DEF SomeOf
      <3>2. V \ {y} \in SUBSET S /\ Cardinality(V \ {y}) = Cardinality(V) - 1
            /\ Cardinality(V) \in Nat /\ Cardinality(V) <= k + 1
        BY <2>2, OneLess
      <3>3. QED BY <2>2, <3>1, <3>2
    <2>6. ASSUME NEW V \in More
          PROVE  h[V] = IF V = {} THEN 0
                        ELSE f[SomeOf(V)] + h[V \ {SomeOf(V)}]
      <3>1. CASE V \in Few
        <4>1. g[V] = IF V = {} THEN 0
                     ELSE f[SomeOf(V)] + g[V \ {SomeOf(V)}]
          BY <2>1, <2>2, <3>1 DEF IsSum
        <4>2. QED BY <2>4, <2>5, <3>1, <4>1
      <3>2. CASE V \notin Few
        <4>1. V # {}
          BY <2>2, <3>2, OneLess
        <4>2. QED BY <2>3, <2>4, <2>5, <3>2, <4>1
      <3>3. QED BY <3>1, <3>2
    <2>7. h = [V \in More |->
                 IF V = {} THEN 0
                 ELSE f[SomeOf(V)] + h[V \ {SomeOf(V)}]]
      BY <2>3, <2>6
    <2>8. IsSum(h, f, S, k + 1)
      BY <2>2, <2>7 DEF IsSum
    <2>9. QED BY <1>1, <2>8
  <1>4. n \in N
    BY <1>2, <1>3, InductiveSet
  <1>5. QED BY <1>1, <1>4

\* The recursion that g solves over the subsets of S.
Sums(g, f, S) ==
  \A V \in SUBSET S :
    g[V] = IF V = {} THEN 0 ELSE f[SomeOf(V)] + g[V \ {SomeOf(V)}]

\* What SumFunctionOnSet computes.
LEMMA TotalIsSum ==
  ASSUME NEW f, NEW S, IsFiniteSet(S)
  PROVE  \E g : Total(f, S) = g[S] /\ Sums(g, f, S)
  <1>1. {V \in SUBSET S : Cardinality(V) <= Cardinality(S)} = SUBSET S
    BY OneLess
  <1>2. \A g : IsSum(g, f, S, Cardinality(S)) <=>
               g = [V \in SUBSET S |->
                      IF V = {} THEN 0
                      ELSE f[SomeOf(V)] + g[V \ {SomeOf(V)}]]
    BY <1>1 DEF IsSum
  <1>3. \E g : IsSum(g, f, S, Cardinality(S))
    BY SumExists, FS_CardinalityType
  <1>4. PICK h : h = CHOOSE g :
               g = [V \in SUBSET S |->
                      IF V = {} THEN 0
                      ELSE f[SomeOf(V)] + g[V \ {SomeOf(V)}]]
    OBVIOUS
  <1>5. h = [V \in SUBSET S |->
                      IF V = {} THEN 0
                      ELSE f[SomeOf(V)] + h[V \ {SomeOf(V)}]]
    BY <1>2, <1>3, <1>4
  <1>6. Total(f, S) = h[S]
    BY <1>4 DEF Total, SumFunctionOnSet, FoldFunctionOnSet, MapThenFoldSet, SomeOf
  <1>7. \A V \in SUBSET S :
                     h[V] = IF V = {} THEN 0
                            ELSE f[SomeOf(V)] + h[V \ {SomeOf(V)}]
    BY <1>5
  <1>8. Sums(h, f, S)
    BY <1>7 DEF Sums
  <1>9. QED BY <1>6, <1>8

\* It has one solution for a set, even when the two are for different functions
\* that agree there and for different sets that it is in.
LEMMA SumsAgree ==
  ASSUME NEW f, NEW g, NEW e, NEW h, NEW S, NEW T, Sums(e, f, S), Sums(h, g, T),
         NEW U, U \subseteq S, U \subseteq T, IsFiniteSet(U), \A x \in U : f[x] = g[x]
  PROVE  e[U] = h[U]
  <1>1. PICK N : N = {n \in Nat : \A V \in SUBSET U : Cardinality(V) = n => e[V] = h[V]}
    OBVIOUS
  <1>2. 0 \in N
    <2>1. \A V \in SUBSET U : Cardinality(V) = 0 => V = {}
      BY OneLess
    <2>2. e[{}] = 0 /\ h[{}] = 0
      BY DEF Sums
    <2>3. QED BY <1>1, <2>1, <2>2
  <1>3. ASSUME NEW n \in Nat, n \in N PROVE n + 1 \in N
    <2>1. SUFFICES ASSUME NEW V \in SUBSET U, Cardinality(V) = n + 1 PROVE e[V] = h[V]
      BY <1>1
    <2>2. V # {}
      <3>1. n + 1 # 0
        OBVIOUS
      <3>2. QED BY <2>1, <3>1, OneLess
    <2>3. PICK x \in V : x = SomeOf(V)
      BY <2>2 DEF SomeOf
    <2>4. V \ {x} \in SUBSET U /\ Cardinality(V \ {x}) = n
      <3>1. V \ {x} \in SUBSET U /\ Cardinality(V \ {x}) = Cardinality(V) - 1
        BY OneLess
      <3>2. QED BY <2>1, <3>1
    <2>5. e[V \ {x}] = h[V \ {x}] /\ f[x] = g[x]
      BY <1>1, <1>3, <2>4
    <2>6. e[V] = f[x] + e[V \ {x}] /\ h[V] = g[x] + h[V \ {x}]
      BY <2>2, <2>3 DEF Sums
    <2>7. QED BY <2>5, <2>6
  <1>4. Cardinality(U) \in N
    BY <1>2, <1>3, InductiveSet, FS_CardinalityType
  <1>5. QED BY <1>1, <1>4

\* The sum depends on the values of the function in the set only.
LEMMA TotalAgrees ==
  ASSUME NEW f, NEW g, NEW S, IsFiniteSet(S), \A x \in S : f[x] = g[x]
  PROVE  Total(f, S) = Total(g, S)
  <1>1. PICK e : Total(f, S) = e[S] /\ Sums(e, f, S)
    BY TotalIsSum
  <1>2. PICK h : Total(g, S) = h[S] /\ Sums(h, g, S)
    BY TotalIsSum
  <1>3. e[S] = h[S]
    BY <1>1, <1>2, SumsAgree
  <1>4. QED BY <1>1, <1>2, <1>3

\* The sum is that of one element and of the rest.
LEMMA TotalOfSome ==
  ASSUME NEW f, NEW S, IsFiniteSet(S)
  PROVE  /\ S = {} => Total(f, S) = 0
         /\ S # {} => /\ SomeOf(S) \in S
                      /\ Total(f, S) = f[SomeOf(S)] + Total(f, S \ {SomeOf(S)})
  <1>1. PICK e : Total(f, S) = e[S] /\ Sums(e, f, S)
    BY TotalIsSum
  <1>2. CASE S = {}
    BY <1>1, <1>2 DEF Sums
  <1>3. CASE S # {}
    <2>1. PICK x \in S : x = SomeOf(S)
      BY <1>3 DEF SomeOf
    <2>2. PICK T : T = S \ {x}
      OBVIOUS
    <2>3. IsFiniteSet(T) /\ T \subseteq S
      BY <2>2, OneLess
    <2>4. PICK h : Total(f, T) = h[T] /\ Sums(h, f, T)
      BY <2>3, TotalIsSum
    <2>5. e[T] = h[T]
      BY <1>1, <2>3, <2>4, SumsAgree
    <2>6. e[S] = f[x] + e[T]
      BY <1>1, <1>3, <2>1, <2>2 DEF Sums
    <2>7. QED BY <1>1, <1>3, <2>1, <2>2, <2>4, <2>5, <2>6
  <1>4. QED BY <1>2, <1>3

\* So it is whatever element is taken, and the sum of numbers is a number.
LEMMA TotalOfOne ==
  ASSUME NEW f, NEW S, IsFiniteSet(S), \A x \in S : f[x] \in Nat
  PROVE  /\ Total(f, S) \in Nat
         /\ \A x \in S : Total(f, S) = f[x] + Total(f, S \ {x})
  <1>1. PICK N : N = {n \in Nat : \A V \in SUBSET S : Cardinality(V) <= n =>
                        /\ Total(f, V) \in Nat
                        /\ \A x \in V : Total(f, V) = f[x] + Total(f, V \ {x})}
    OBVIOUS
  <1>2. 0 \in N
    <2>1. \A V \in SUBSET S : Cardinality(V) <= 0 => V = {} /\ IsFiniteSet(V)
      BY OneLess
    <2>2. \A V \in SUBSET S : Cardinality(V) <= 0 => V = {} /\ Total(f, V) = 0
      BY <2>1, TotalOfSome
    <2>3. \A V \in SUBSET S : Cardinality(V) <= 0 =>
                        /\ Total(f, V) \in Nat
                        /\ \A x \in V : Total(f, V) = f[x] + Total(f, V \ {x})
      BY <2>2
    <2>4. QED BY <1>1, <2>3
  <1>3. ASSUME NEW n \in Nat, n \in N PROVE n + 1 \in N
    <2>1. SUFFICES ASSUME NEW V \in SUBSET S, Cardinality(V) <= n + 1
                   PROVE  /\ Total(f, V) \in Nat
                          /\ \A x \in V : Total(f, V) = f[x] + Total(f, V \ {x})
      BY <1>1
    <2>2. ASSUME NEW W \in SUBSET V, NEW x \in V, x \notin W
          PROVE  /\ Total(f, W) \in Nat /\ f[x] \in Nat
                 /\ \A y \in W : Total(f, W) = f[y] + Total(f, W \ {y})
      <3>1. IsFiniteSet(V) /\ IsFiniteSet(V \ {x}) /\ Cardinality(V \ {x}) = Cardinality(V) - 1
            /\ Cardinality(V) \in Nat
        BY OneLess
      <3>2. W \in SUBSET (V \ {x})
        BY <2>2
      <3>3. Cardinality(W) <= Cardinality(V \ {x}) /\ Cardinality(W) \in Nat
        BY <3>1, <3>2, OneLess
      <3>4. W \in SUBSET S /\ Cardinality(W) <= n
        BY <2>1, <3>1, <3>3
      <3>5. QED BY <1>1, <1>3, <3>4
    <2>3. IsFiniteSet(V)
      BY OneLess
    <2>4. CASE V = {}
      <3>1. Total(f, V) = 0
        BY <2>3, <2>4, TotalOfSome
      <3>2. QED BY <2>4, <3>1
    <2>5. CASE V # {}
      <3>1. PICK c \in V : Total(f, V) = f[c] + Total(f, V \ {c})
        BY <2>3, <2>5, TotalOfSome
      <3>2. ASSUME NEW x \in V PROVE Total(f, V) = f[x] + Total(f, V \ {x})
        <4>1. CASE x = c
          BY <3>1, <4>1
        <4>2. CASE x # c
          <5>1. PICK W \in SUBSET V : W = (V \ {c}) \ {x} /\ W = (V \ {x}) \ {c}
            OBVIOUS
          <5>2. Total(f, V \ {c}) = f[x] + Total(f, W)
            BY <2>2, <4>2, <5>1
          <5>3. Total(f, V \ {x}) = f[c] + Total(f, W)
            BY <2>2, <4>2, <5>1
          <5>4. Total(f, W) \in Nat /\ f[x] \in Nat
            BY <2>2, <5>1
          <5>5. Total(f, V \ {c}) \in Nat /\ f[c] \in Nat
            BY <2>2
          <5>6. QED BY <3>1, <5>2, <5>3, <5>4, <5>5
        <4>3. QED BY <4>1, <4>2
      <3>3. Total(f, V) \in Nat
        <4>1. Total(f, V \ {c}) \in Nat /\ f[c] \in Nat
          BY <2>2
        <4>2. QED BY <3>1, <4>1
      <3>4. QED BY <3>2, <3>3
    <2>6. QED BY <2>4, <2>5
  <1>4. Cardinality(S) \in N
    BY <1>2, <1>3, InductiveSet, FS_CardinalityType
  <1>5. QED BY <1>1, <1>4, FS_CardinalityType

\* The sum of none.
LEMMA TotalOfNone == ASSUME NEW f PROVE Total(f, {}) = 0
  BY TotalOfSome, FS_EmptySet

\* A function that has one value more.
LEMMA TotalOfOneMore ==
  ASSUME NEW f, NEW S, IsFiniteSet(S), \A x \in S : f[x] \in Nat,
         NEW g, NEW c, c \notin S, g[c] \in Nat, \A x \in S : g[x] = f[x]
  PROVE  Total(g, S \cup {c}) = g[c] + Total(f, S)
  <1> DEFINE T == S \cup {c}
  <1>1. S = T \ {c} /\ c \in T
    OBVIOUS
  <1>2. IsFiniteSet(T) /\ \A x \in T : g[x] \in Nat
    BY <1>1, FS_AddElement
  <1>3. Total(g, T) = g[c] + Total(g, S)
    BY <1>1, <1>2, TotalOfOne
  <1>4. Total(g, S) = Total(f, S)
    BY TotalAgrees
  <1>5. QED BY <1>1, <1>3, <1>4

\* Another value for one element.
LEMMA TotalOfOneChanged ==
  ASSUME NEW f, NEW S, IsFiniteSet(S), \A x \in S : f[x] \in Nat,
         NEW g, NEW c \in S, g[c] \in Nat, \A x \in S \ {c} : g[x] = f[x]
  PROVE  /\ Total(f, S) \in Nat /\ Total(g, S) \in Nat
         /\ Total(g, S) + f[c] = Total(f, S) + g[c]
  <1>1. PICK T : T = S \ {c} /\ T \subseteq S
    OBVIOUS
  <1>2. \A x \in S : g[x] \in Nat
    OBVIOUS
  <1>3. Total(g, S) = g[c] + Total(g, T) /\ Total(f, S) = f[c] + Total(f, T)
    BY <1>1, <1>2, TotalOfOne
  <1>4. IsFiniteSet(T)
    BY <1>1, FS_Subset
  <1>5. Total(f, T) = Total(g, T) /\ Total(f, T) \in Nat
    BY <1>1, <1>4, TotalAgrees, TotalOfOne
  <1>6. QED BY <1>2, <1>3, <1>5, TotalOfOne

\* Larger values have a larger sum.
LEMMA TotalMonotonic ==
  ASSUME NEW S, IsFiniteSet(S), NEW f, NEW g,
         \A x \in S : f[x] \in Nat /\ g[x] \in Nat /\ f[x] <= g[x]
  PROVE  Total(f, S) <= Total(g, S)
  <1>1. PICK N : N = {n \in Nat : \A V \in SUBSET S : Cardinality(V) = n =>
                        Total(f, V) <= Total(g, V)}
    OBVIOUS
  <1>2. 0 \in N
    <2>1. \A V \in SUBSET S : Cardinality(V) = 0 => V = {}
      BY OneLess
    <2>2. Total(f, {}) = 0 /\ Total(g, {}) = 0
      BY TotalOfNone
    <2>3. QED BY <1>1, <2>1, <2>2
  <1>3. ASSUME NEW n \in Nat, n \in N PROVE n + 1 \in N
    <2>1. SUFFICES ASSUME NEW V \in SUBSET S, Cardinality(V) = n + 1
                   PROVE  Total(f, V) <= Total(g, V)
      BY <1>1
    <2>2. V # {} /\ IsFiniteSet(V)
      <3>1. n + 1 # 0
        OBVIOUS
      <3>2. QED BY <2>1, <3>1, OneLess
    <2>3. PICK x \in V : TRUE
      BY <2>2
    <2>4. V \ {x} \in SUBSET S /\ Cardinality(V \ {x}) = Cardinality(V) - 1
      BY OneLess
    <2>5. Cardinality(V \ {x}) = n
      BY <2>1, <2>4
    <2>6. Total(f, V \ {x}) <= Total(g, V \ {x})
      BY <1>1, <1>3, <2>4, <2>5
    <2>7. Total(f, V) = f[x] + Total(f, V \ {x}) /\ Total(g, V) = g[x] + Total(g, V \ {x})
      BY <2>2, TotalOfOne
    <2>8. IsFiniteSet(V \ {x})
      BY <2>4, OneLess
    <2>9. Total(f, V \ {x}) \in Nat /\ Total(g, V \ {x}) \in Nat
      BY <2>4, <2>8, TotalOfOne
    <2>10. QED BY <2>6, <2>7, <2>9
  <1>4. Cardinality(S) \in N
    BY <1>2, <1>3, InductiveSet, FS_CardinalityType
  <1>5. QED BY <1>1, <1>4

\* No element has more than the sum.
LEMMA TotalCoversOne ==
  ASSUME NEW f, NEW S, IsFiniteSet(S), \A x \in S : f[x] \in Nat, NEW x \in S
  PROVE  f[x] <= Total(f, S)
  <1>1. PICK T : T = S \ {x} /\ T \subseteq S
    OBVIOUS
  <1>2. Total(f, S) = f[x] + Total(f, T)
    BY <1>1, TotalOfOne
  <1>3. IsFiniteSet(T)
    BY <1>1, FS_Subset
  <1>4. Total(f, T) \in Nat
    BY <1>1, <1>3, TotalOfOne
  <1>5. QED BY <1>2, <1>4

\* So many values of at most so much.
LEMMA TotalBounded ==
  ASSUME NEW S, IsFiniteSet(S), NEW f, NEW m \in Nat,
         \A x \in S : f[x] \in Nat /\ f[x] <= m
  PROVE  Total(f, S) <= Cardinality(S) * m
  <1>1. PICK N : N = {n \in Nat : \A V \in SUBSET S : Cardinality(V) = n =>
                        Total(f, V) <= n * m}
    OBVIOUS
  <1>2. 0 \in N
    <2>1. \A V \in SUBSET S : Cardinality(V) = 0 => V = {}
      BY OneLess
    <2>2. Total(f, {}) = 0 /\ 0 * m = 0
      BY TotalOfNone
    <2>3. QED BY <1>1, <2>1, <2>2
  <1>3. ASSUME NEW n \in Nat, n \in N PROVE n + 1 \in N
    <2>1. SUFFICES ASSUME NEW V \in SUBSET S, Cardinality(V) = n + 1
                   PROVE  Total(f, V) <= (n + 1) * m
      BY <1>1
    <2>2. V # {} /\ IsFiniteSet(V)
      <3>1. n + 1 # 0
        OBVIOUS
      <3>2. QED BY <2>1, <3>1, OneLess
    <2>3. PICK x \in V : TRUE
      BY <2>2
    <2>4. V \ {x} \in SUBSET S /\ Cardinality(V \ {x}) = Cardinality(V) - 1
      BY OneLess
    <2>5. Cardinality(V \ {x}) = n
      BY <2>1, <2>4
    <2>6. Total(f, V \ {x}) <= n * m
      BY <1>1, <1>3, <2>4, <2>5
    <2>7. Total(f, V) = f[x] + Total(f, V \ {x}) /\ f[x] \in Nat /\ f[x] <= m
      BY <2>2, TotalOfOne
    <2>8. IsFiniteSet(V \ {x})
      BY <2>4, OneLess
    <2>9. Total(f, V \ {x}) \in Nat
      BY <2>4, <2>8, TotalOfOne
    <2>10. n * m \in Nat /\ (n + 1) * m = n * m + m
      OBVIOUS
    <2>11. QED BY <2>6, <2>7, <2>9, <2>10
  <1>4. Cardinality(S) \in N
    BY <1>2, <1>3, InductiveSet, FS_CardinalityType
  <1>5. QED BY <1>1, <1>4

-----------------------------------------------------------------------------
(* The inductive invariant *)

\* The time of the model and what the clocks of the machine can show by then.
ClockTyped ==
  /\ now \in 0..MaxTime
  /\ machine \in [wallClock : Nat, userCPU : 0..now, systemCPU : 0..now]
  /\ \E w \in WallClocks \cup {StartTime} : machine.wallClock <= w + now

\* What is remembered of when record r was opened.
Began == [time : 0..MaxTime, userCPU : 0..MaxTime, systemCPU : 0..MaxTime, clockSet : BOOLEAN]

\* The marker of an open record is the wall clock of when it was opened, as
\* long as the clock was not set, and the CPU time if it was read.
MarkerTrue(r) ==
  /\ began[r].time <= now
  /\ began[r].userCPU <= machine.userCPU
  /\ began[r].systemCPU <= machine.systemCPU
  /\ ~began[r].clockSet => machine.wallClock = marker[r].wallClock + (now - began[r].time)
  /\ began[r].systemCPU # 0 => /\ marker[r].userCPU = began[r].userCPU
                               /\ marker[r].systemCPU = began[r].systemCPU

MarkersTrue ==
  /\ marker \in [Records -> TimeStamp]
  /\ began \in [Records -> Began]
  /\ \A r \in Records : IsOpen(r) => MarkerTrue(r)

\* The clock of the process was marked when it printed last, or later if a
\* thread was new.
IntervalTrue ==
  /\ m_clock \in TimeStamp
  /\ reported \in [time : 0..MaxTime, clockSet : BOOLEAN, newThread : BOOLEAN]
  /\ processFound => reported.time <= now
  /\ processFound /\ ~reported.clockSet =>
       /\ m_clock.wallClock <= machine.wallClock
       /\ machine.wallClock - m_clock.wallClock <= now - reported.time
       /\ ~reported.newThread => machine.wallClock - m_clock.wallClock = now - reported.time

\* A thread that was reported since its last call returned has an inactive tree.
QuietIsInactive ==
  /\ quiet \in [Threads -> {0, 1}]
  /\ \A t \in Threads : quiet[t] = 1 => HasTree(t) /\ IsInactive(trees[mapThreads[t]])

\* A call of the logs.
Call == [time : 0..MaxTime, userCPU : 0..MaxTime, systemCPU : 0..MaxTime,
         clockSet : BOOLEAN, cpuRead : BOOLEAN]
Log == [total : Seq(Call), interval : Seq(Call)]

\* The nodes that were entered have their numbers and their logs.
TreeTyped(a) ==
  /\ IsFiniteSet(DOMAIN calls[a]) /\ DOMAIN calls[a] \subseteq Node \ {Root}
  /\ DOMAIN stats[a] = IF Live(a) THEN DOMAIN calls[a] \cup {Root} ELSE {}
  /\ ~Live(a) => DOMAIN calls[a] = {}
  /\ \A n \in DOMAIN stats[a] : stats[a][n] \in Stats
  /\ \A n \in DOMAIN calls[a] : /\ calls[a][n] \in Log
                              /\ Len(calls[a][n].interval) <= Len(calls[a][n].total)
                              /\ Parent(n) \in DOMAIN calls[a] \cup {Root}

NumbersTyped ==
  /\ DOMAIN stats = Trees /\ DOMAIN calls = Trees
  /\ \A a \in Trees : TreeTyped(a)
  /\ \A r \in Records : IsOpen(r) => rec[r].node \in DOMAIN calls[rec[r].tree]

\* The bound of the model.
CallsBounded == CallsMade <= MaxCalls

IsMax(x, S) == x \in S /\ \A y \in S : y <= x
IsMin(x, S) == x \in S /\ \A y \in S : x <= y

\* What a half of the numbers says of a log.
Tells(told, log) ==
  /\ told.count = Len(log)
  /\ Undisturbed(log) => /\ told.time = SumOf(log, "time")
                         /\ IsMax(told.max, TimesOf(log) \cup {0})
                         /\ IsMin(told.min, TimesOf(log) \cup {INITIAL_MIN_VALUE})
  /\ SHOW_CPU /\ CPUWasRead(log) => /\ told.userCPU = SumOf(log, "userCPU")
                                    /\ told.systemCPU = SumOf(log, "systemCPU")

\* So do both halves, of the logs of the same span.
NodeTells(a, n) ==
  /\ Tells(stats[a][n].total, calls[a][n].total)
  /\ Tells(stats[a][n].interval, calls[a][n].interval)

NumbersTell == \A a \in Trees : \A n \in DOMAIN calls[a] : NodeTells(a, n)

\* The true time spent on the path of n.
Spent(a, n) == SumOf(calls[a][n].total, "time") + OpenTime(a, n)

\* The time at a node covers the time at its children.  It is this that no
\* step disturbs: the sums that are reported are behind while calls are open.
TreeNests(a) ==
  \A n \in DOMAIN calls[a] :
    SumFunction([m \in Children(a, n) |-> Spent(a, m)]) <= Spent(a, n)

TimeNests == \A a \in Trees : TreeNests(a)

\* All of it, with that of scoped use.
RInv == /\ SInv
        /\ ClockTyped /\ MarkersTrue /\ IntervalTrue /\ QuietIsInactive
        /\ NumbersTyped /\ CallsBounded /\ NumbersTell /\ TimeNests

-----------------------------------------------------------------------------
(* The steps of scoped use *)

\* What each step does to the variables of InProc is a step of scoped use.
LEMMA ReportIsScopedUse ==
  ASSUME [ReportNext]_reportVars
  PROVE  [ScopedNext]_vars
  <1>1. CASE Tick
    BY <1>1 DEF Tick
  <1>2. CASE SetClock
    BY <1>2 DEF SetClock
  <1>3. ASSUME NEW r \in Records, NEW t \in Threads, NEW name \in Names, Open(r, t, name)
        PROVE  ScopedNext
    BY <1>3 DEF Open, ScopedNext
  <1>4. ASSUME NEW r \in Records, Innermost(r), Close(r) PROVE ScopedNext
    BY <1>4 DEF Close, ScopedNext, DestroyRecord
  <1>5. ASSUME NEW t \in Threads, ReportOne(t) \/ CloseOne(t) PROVE ScopedNext
    BY <1>5 DEF ReportOne, CloseOne, ScopedNext
  <1>6. CASE ReportAll
    BY <1>6 DEF ReportAll, ScopedNext
  <1>7. CASE CloseAll
    BY <1>7 DEF CloseAll, ScopedNext
  <1>8. CASE UNCHANGED reportVars
    BY <1>8 DEF reportVars
  <1>9. QED BY <1>1, <1>2, <1>3, <1>4, <1>5, <1>6, <1>7, <1>8 DEF ReportNext

\* Only a constructor opens a record and only its destructor closes it.
LEMMA RecordsOfStep ==
  ASSUME SInv
  PROVE  /\ \A r \in Records, t \in Threads, name \in Names : Open(r, t, name) =>
              /\ ~IsOpen(r) /\ IsOpen(r)'
              /\ rec'[r].thread = t /\ rec'[r].tree = mapThreads'[t]
              /\ \A q \in Records \ {r} : rec'[q] = rec[q]
         /\ \A r \in Records : Close(r) =>
              /\ IsOpen(r) /\ ~IsOpen(r)'
              /\ \A q \in Records \ {r} : rec'[q] = rec[q]
         /\ Tick \/ SetClock \/ ReportAll \/ CloseAll => rec' = rec
         /\ \A t \in Threads : ReportOne(t) \/ CloseOne(t) => rec' = rec
  <1>1. ASSUME NEW r \in Records, NEW t \in Threads, NEW name \in Names, Open(r, t, name)
        PROVE  /\ ~IsOpen(r) /\ IsOpen(r)'
               /\ rec'[r].thread = t /\ rec'[r].tree = mapThreads'[t]
               /\ \A q \in Records \ {r} : rec'[q] = rec[q]
    <2>1. ~IsOpen(r)
      BY <1>1 DEF Open, OpenRecord
    <2>2. PICK a, n :
            /\ rec' = [rec EXCEPT ![r] = [thread |-> t, tree |-> a, node |-> n]]
            /\ mapThreads' = [mapThreads EXCEPT ![t] = a]
      BY <1>1 DEF Open, OpenRecord
    <2>3. /\ rec'[r] = [thread |-> t, tree |-> a, node |-> n] /\ mapThreads'[t] = a
          /\ \A q \in Records \ {r} : rec'[q] = rec[q]
      BY <2>2 DEF SInv, IInv, TypeOK
    <2>4. IsOpen(r)'
      BY <2>3, NullAssumption DEF IsOpen, Closed
    <2>5. QED BY <2>1, <2>3, <2>4
  <1>2. ASSUME NEW r \in Records, Close(r)
        PROVE  /\ IsOpen(r) /\ ~IsOpen(r)'
               /\ \A q \in Records \ {r} : rec'[q] = rec[q]
    BY <1>2 DEF Close, CloseRecord, Attached, IsOpen, SInv, IInv, TypeOK
  <1>3. Tick \/ SetClock \/ ReportAll \/ CloseAll => rec' = rec
    BY DEF Tick, SetClock, ReportAll, CloseAll, ReportProcess, CloseProcess, vars
  <1>4. \A t \in Threads : ReportOne(t) \/ CloseOne(t) => rec' = rec
    BY DEF ReportOne, CloseOne, ReportThread, CloseThread
  <1>5. QED BY <1>1, <1>2, <1>3, <1>4

-----------------------------------------------------------------------------
(* Clocks *)

\* Sums and differences that fit in a word.
LEMMA WordArithmetic ==
  ASSUME NEW a \in Nat, NEW b \in Nat
  PROVE  /\ Plus(a, b) \in Word /\ Minus(a, b) \in Word
         /\ a + b < Modulus => Plus(a, b) = a + b
         /\ b <= a /\ a < Modulus => Minus(a, b) = a - b
  <1>1. PICK m \in Nat : m = Modulus /\ m > 0
    BY WidthAssumption
  <1>2. /\ (a + b) % m \in 0..(m - 1) /\ (a - b) % m \in 0..(m - 1)
        /\ a + b < m => (a + b) % m = a + b
        /\ b <= a /\ a < m => (a - b) % m = a - b
    BY <1>1
  <1>3. QED BY <1>1, <1>2 DEF Plus, Minus, Word

\* The machine's time stays in its domain.
LEMMA ClockStaysTyped ==
  ASSUME ClockTyped, [ReportNext]_reportVars
  PROVE  ClockTyped'
  <1>1. CASE Tick
    <2>1. PICK w \in WallClocks \cup {StartTime} : machine.wallClock <= w + now
      BY DEF ClockTyped
    <2>2. w \in Nat
      BY ReportAssumption
    <2>3. now' = now + 1 /\ now' \in 0..MaxTime
      BY <1>1, ReportAssumption DEF Tick, ClockTyped
    <2>4. /\ machine' \in [wallClock : Nat, userCPU : 0..now', systemCPU : 0..now']
          /\ machine'.wallClock = machine.wallClock + 1
      <3>1. PICK u, s :
              /\ u = (IF now % 2 = 0 THEN machine.userCPU + 1 ELSE machine.userCPU)
              /\ s = (IF now % 2 = 1 THEN machine.systemCPU + 1 ELSE machine.systemCPU)
        OBVIOUS
      <3>2. machine' = [machine EXCEPT !.wallClock = @ + 1, !.userCPU = u, !.systemCPU = s]
        BY <1>1, <3>1 DEF Tick
      <3>3. u \in 0..now' /\ s \in 0..now'
        BY <2>3, <3>1 DEF ClockTyped
      <3>4. machine \in [wallClock : Nat, userCPU : 0..now, systemCPU : 0..now]
        BY DEF ClockTyped
      <3>5. machine' = [wallClock |-> machine.wallClock + 1, userCPU |-> u, systemCPU |-> s]
        BY <3>2, <3>4
      <3>6. QED BY <3>3, <3>4, <3>5
    <2>5. machine'.wallClock <= w + now'
      BY <2>1, <2>2, <2>3, <2>4 DEF ClockTyped
    <2>6. QED BY <2>3, <2>4, <2>5 DEF ClockTyped
  <1>2. CASE SetClock
    <2>1. PICK w \in WallClocks : machine' = [machine EXCEPT !.wallClock = w]
      BY <1>2 DEF SetClock
    <2>2. w \in Nat /\ now' = now
      BY <1>2, ReportAssumption DEF SetClock
    <2>3. QED BY <2>1, <2>2 DEF ClockTyped
  <1>3. CASE UNCHANGED clocks
    BY <1>3 DEF clocks, ClockTyped
  <1>4. QED BY <1>1, <1>2, <1>3
        DEF ReportNext, Open, Close, ReportOne, CloseOne, ReportAll, CloseAll, reportVars

\* So it fits in the words of the clocks, and is read as it is once the
\* process has used system time.
LEMMA MachineFits ==
  ASSUME ClockTyped
  PROVE  /\ machine \in TimeStamp /\ Marker(machine) \in TimeStamp
         /\ Marker(machine).wallClock = machine.wallClock
         /\ machine.systemCPU # 0 => Marker(machine) = machine
         /\ now \in Nat /\ now < Modulus
         /\ machine.userCPU \in Nat /\ machine.userCPU < Modulus
         /\ machine.systemCPU \in Nat /\ machine.systemCPU < Modulus
         /\ machine.wallClock \in Nat /\ machine.wallClock < Modulus
  <1>1. PICK w \in WallClocks \cup {StartTime} : machine.wallClock <= w + now
    BY DEF ClockTyped
  <1>2. w \in Nat /\ MaxTime \in Nat /\ Modulus \in Nat /\ w + MaxTime < Modulus
    BY ReportAssumption, WidthAssumption
  <1>3. now \in 0..MaxTime
        /\ machine \in [wallClock : Nat, userCPU : 0..now, systemCPU : 0..now]
    BY DEF ClockTyped
  <1>4. /\ now \in Nat /\ now < Modulus
        /\ machine.userCPU \in Nat /\ machine.userCPU < Modulus
        /\ machine.systemCPU \in Nat /\ machine.systemCPU < Modulus
        /\ machine.wallClock \in Nat /\ machine.wallClock < Modulus
    BY <1>1, <1>2, <1>3
  <1>5. machine \in TimeStamp
    BY <1>2, <1>3, <1>4 DEF TimeStamp, Word
  <1>6. /\ Marker(machine) \in TimeStamp
        /\ Marker(machine).wallClock = machine.wallClock
        /\ machine.systemCPU # 0 => Marker(machine) = machine
    BY <1>2, <1>5 DEF Marker, ReadClocks, TimeStamp, Word
  <1>7. QED BY <1>4, <1>5, <1>6

\* The constructor marks the clock of its record.
LEMMA OpenKeepsMarkers ==
  ASSUME SInv, ClockTyped, MarkersTrue,
         NEW r \in Records, NEW t \in Threads, NEW name \in Names, Open(r, t, name)
  PROVE  MarkersTrue'
  <1>1. PICK b, m : /\ b = [time |-> now, userCPU |-> machine.userCPU,
                            systemCPU |-> machine.systemCPU, clockSet |-> FALSE]
                    /\ m = Marker(machine)
    OBVIOUS
  <1>2. marker' = [marker EXCEPT ![r] = m] /\ began' = [began EXCEPT ![r] = b]
        /\ now' = now /\ machine' = machine
    BY <1>1 DEF Open, clocks
  <1>3. m \in TimeStamp /\ b \in Began
    <2>1. now \in 0..MaxTime /\ machine.userCPU \in 0..MaxTime /\ machine.systemCPU \in 0..MaxTime
      BY ReportAssumption DEF ClockTyped
    <2>2. QED BY <1>1, <2>1, MachineFits DEF Began
  <1>4. /\ marker' \in [Records -> TimeStamp] /\ began' \in [Records -> Began]
        /\ marker'[r] = m /\ began'[r] = b
        /\ \A q \in Records \ {r} : marker'[q] = marker[q] /\ began'[q] = began[q]
    BY <1>2, <1>3 DEF MarkersTrue
  <1>5. MarkerTrue(r)'
    <2>1. /\ b.time = now /\ b.userCPU = machine.userCPU /\ b.systemCPU = machine.systemCPU
          /\ m.wallClock = machine.wallClock
          /\ b.systemCPU # 0 => m = machine
      BY <1>1, MachineFits
    <2>2. QED BY <1>2, <1>4, <2>1, MachineFits DEF MarkerTrue
  <1>6. ASSUME NEW q \in Records \ {r}, IsOpen(q)' PROVE MarkerTrue(q)'
    <2>1. IsOpen(q)
      BY <1>6, RecordsOfStep DEF IsOpen
    <2>2. QED BY <1>2, <1>4, <2>1 DEF MarkerTrue, MarkersTrue
  <1>7. QED BY <1>4, <1>5, <1>6 DEF MarkersTrue

\* The destructor forgets it.
LEMMA CloseKeepsMarkers ==
  ASSUME SInv, ClockTyped, MarkersTrue, NEW r \in Records, Close(r)
  PROVE  MarkersTrue'
  <1>1. marker' = [marker EXCEPT ![r] = ZeroStamp] /\ began' = [began EXCEPT ![r] = NotBegun]
        /\ now' = now /\ machine' = machine
    BY DEF Close, clocks
  <1>2. ZeroStamp \in TimeStamp /\ NotBegun \in Began
    BY ReportAssumption, WidthAssumption DEF ZeroStamp, TimeStamp, Word, NotBegun, Began
  <1>3. /\ marker' \in [Records -> TimeStamp] /\ began' \in [Records -> Began]
        /\ \A q \in Records \ {r} : marker'[q] = marker[q] /\ began'[q] = began[q]
    BY <1>1, <1>2 DEF MarkersTrue
  <1>4. ASSUME NEW q \in Records, IsOpen(q)' PROVE MarkerTrue(q)'
    <2>1. IsOpen(q) /\ q # r
      BY <1>4, RecordsOfStep DEF IsOpen
    <2>2. QED BY <1>1, <1>3, <2>1 DEF MarkerTrue, MarkersTrue
  <1>5. QED BY <1>3, <1>4 DEF MarkersTrue

\* Time passes for the machine and for the history alike.
LEMMA TickKeepsMarkers ==
  ASSUME SInv, ClockTyped, MarkersTrue, Tick
  PROVE  MarkersTrue'
  <1>1. /\ now' = now + 1 /\ marker' = marker /\ began' = began /\ rec' = rec
        /\ machine'.wallClock = machine.wallClock + 1
        /\ machine'.userCPU >= machine.userCPU /\ machine'.systemCPU >= machine.systemCPU
        /\ machine'.userCPU \in Nat /\ machine'.systemCPU \in Nat
    <2>1. PICK u, s :
            /\ u = (IF now % 2 = 0 THEN machine.userCPU + 1 ELSE machine.userCPU)
            /\ s = (IF now % 2 = 1 THEN machine.systemCPU + 1 ELSE machine.systemCPU)
      OBVIOUS
    <2>2. machine' = [machine EXCEPT !.wallClock = @ + 1, !.userCPU = u, !.systemCPU = s]
      BY <2>1 DEF Tick
    <2>3. u \in Nat /\ s \in Nat /\ u >= machine.userCPU /\ s >= machine.systemCPU
      BY <2>1, MachineFits
    <2>4. machine \in [wallClock : Nat, userCPU : 0..now, systemCPU : 0..now]
      BY DEF ClockTyped
    <2>5. machine' = [wallClock |-> machine.wallClock + 1, userCPU |-> u, systemCPU |-> s]
      BY <2>2, <2>4
    <2>6. now' = now + 1 /\ marker' = marker /\ began' = began /\ rec' = rec
      BY DEF Tick, numbers, history, vars
    <2>7. QED BY <2>3, <2>5, <2>6
  <1>2. ASSUME NEW r \in Records, IsOpen(r)' PROVE MarkerTrue(r)'
    <2>1. IsOpen(r) /\ MarkerTrue(r)
      BY <1>1, <1>2 DEF IsOpen, MarkersTrue
    <2>2. began[r] \in Began /\ marker[r] \in TimeStamp
      BY DEF MarkersTrue
    <2>3. /\ began[r].time \in Nat /\ began[r].userCPU \in Nat /\ began[r].systemCPU \in Nat
          /\ marker[r].wallClock \in Int
      BY <2>2, ReportAssumption DEF Began, TimeStamp, Word
    <2>4. QED BY <1>1, <2>1, <2>3, MachineFits DEF MarkerTrue
  <1>3. QED BY <1>1, <1>2 DEF MarkersTrue

\* The clock is set: what was marked says nothing of wall time any more.
LEMMA SetClockKeepsMarkers ==
  ASSUME SInv, ClockTyped, MarkersTrue, SetClock
  PROVE  MarkersTrue'
  <1>1. /\ now' = now /\ marker' = marker /\ rec' = rec
        /\ machine'.userCPU = machine.userCPU /\ machine'.systemCPU = machine.systemCPU
    BY DEF SetClock, numbers, vars, ClockTyped
  <1>2. began' = [r \in Records |-> IF IsOpen(r) THEN [began[r] EXCEPT !.clockSet = TRUE]
                                                ELSE began[r]]
    BY DEF SetClock
  <1>3. ASSUME NEW r \in Records
        PROVE  /\ began'[r] \in Began
               /\ began'[r].time = began[r].time /\ began'[r].userCPU = began[r].userCPU
               /\ began'[r].systemCPU = began[r].systemCPU
               /\ IsOpen(r) => began'[r].clockSet
    <2>1. began[r] \in Began
      BY DEF MarkersTrue
    <2>2. began'[r] = IF IsOpen(r) THEN [began[r] EXCEPT !.clockSet = TRUE] ELSE began[r]
      BY <1>2
    <2>3. QED BY <2>1, <2>2 DEF Began
  <1>4. began' \in [Records -> Began]
    BY <1>2, <1>3
  <1>5. ASSUME NEW r \in Records, IsOpen(r)' PROVE MarkerTrue(r)'
    <2>1. IsOpen(r) /\ MarkerTrue(r)
      BY <1>1, <1>5 DEF IsOpen, MarkersTrue
    <2>2. QED BY <1>1, <1>3, <2>1 DEF MarkerTrue
  <1>6. QED BY <1>1, <1>4, <1>5 DEF MarkersTrue

\* The markers of the open records stay true.
LEMMA MarkersStayTrue ==
  ASSUME SInv, ClockTyped, MarkersTrue, [ReportNext]_reportVars
  PROVE  MarkersTrue'
  <1>1. ASSUME marker' = marker, began' = began, now' = now, machine' = machine, rec' = rec
        PROVE  MarkersTrue'
    BY <1>1 DEF MarkersTrue, MarkerTrue, IsOpen
  <1>2. ASSUME NEW t \in Threads, ReportOne(t) \/ CloseOne(t) PROVE MarkersTrue'
    BY <1>1, <1>2, RecordsOfStep DEF ReportOne, CloseOne, clocks
  <1>3. CASE ReportAll \/ CloseAll
    BY <1>1, <1>3, RecordsOfStep DEF ReportAll, CloseAll, clocks
  <1>4. CASE UNCHANGED reportVars
    BY <1>1, <1>4 DEF reportVars, vars, clocks, numbers, history
  <1>5. QED
    BY <1>2, <1>3, <1>4, OpenKeepsMarkers, CloseKeepsMarkers, TickKeepsMarkers,
       SetClockKeepsMarkers
    DEF ReportNext

\* What the destructor measures: words, and the true times unless the clock
\* was set or the CPU time was not read when the call began.
LEMMA MeasuredIsTrue ==
  ASSUME ClockTyped, MarkersTrue, NEW r \in Records, IsOpen(r)
  PROVE  /\ Measured(r) \in TimeStamp
         /\ TrueCall(r) \in Call
         /\ ~TrueCall(r).clockSet => Measured(r).wallClock = TrueCall(r).time
         /\ SHOW_CPU /\ TrueCall(r).cpuRead =>
              /\ Measured(r).userCPU = TrueCall(r).userCPU
              /\ Measured(r).systemCPU = TrueCall(r).systemCPU
  <1>1. PICK b \in Began, m \in TimeStamp : b = began[r] /\ m = marker[r]
    BY DEF MarkersTrue
  <1>2. /\ b.time \in Nat /\ b.userCPU \in Nat /\ b.systemCPU \in Nat /\ b.clockSet \in BOOLEAN
        /\ m.wallClock \in Nat /\ m.userCPU \in Nat /\ m.systemCPU \in Nat
    BY <1>1, ReportAssumption, WidthAssumption DEF Began, TimeStamp, Word
  <1>3. MarkerTrue(r)
    BY DEF MarkersTrue
  <1>4. PICK read : read = Marker(machine)
    OBVIOUS
  <1>5. /\ read.wallClock \in Nat /\ read.userCPU \in Nat /\ read.systemCPU \in Nat
        /\ read.wallClock = machine.wallClock
        /\ machine.systemCPU # 0 => read = machine
    BY <1>4, MachineFits, WidthAssumption DEF TimeStamp, Word
  <1>6. PICK delta : delta = Elapsed(m, machine)
    OBVIOUS
  <1>7. delta = [wallClock |-> Minus(read.wallClock, m.wallClock),
                 userCPU |-> Minus(read.userCPU, m.userCPU),
                 systemCPU |-> Minus(read.systemCPU, m.systemCPU)]
    BY <1>4, <1>6 DEF Elapsed, Marker
  <1>8. /\ Minus(read.wallClock, m.wallClock) \in Word /\ Minus(read.userCPU, m.userCPU) \in Word
        /\ Minus(read.systemCPU, m.systemCPU) \in Word /\ 0 \in Word
    <2>1. 0 \in Word
      BY WidthAssumption DEF Word
    <2>2. QED BY <1>2, <1>5, <2>1, WordArithmetic
  <1>9. Measured(r) = IF SHOW_CPU THEN delta ELSE [ZeroStamp EXCEPT !.wallClock = delta.wallClock]
    BY <1>1, <1>6 DEF Measured
  <1>10. /\ Measured(r) \in TimeStamp
         /\ Measured(r).wallClock = delta.wallClock
         /\ SHOW_CPU => Measured(r) = delta
    BY <1>7, <1>8, <1>9 DEF TimeStamp, ZeroStamp
  <1>11. TrueCall(r) = [time |-> now - b.time, userCPU |-> machine.userCPU - b.userCPU,
                        systemCPU |-> machine.systemCPU - b.systemCPU,
                        clockSet |-> b.clockSet, cpuRead |-> b.systemCPU # 0]
    BY <1>1 DEF TrueCall
  <1>12. TrueCall(r) \in Call
    <2>1. /\ now - b.time \in 0..MaxTime /\ machine.userCPU - b.userCPU \in 0..MaxTime
          /\ machine.systemCPU - b.systemCPU \in 0..MaxTime
      BY <1>1, <1>2, <1>3, ReportAssumption DEF MarkerTrue, ClockTyped
    <2>2. QED BY <1>2, <1>11, <2>1 DEF Call
  <1>13. ~b.clockSet => delta.wallClock = now - b.time
    <2>1. SUFFICES ASSUME ~b.clockSet PROVE delta.wallClock = now - b.time
      OBVIOUS
    <2>2. machine.wallClock = m.wallClock + (now - b.time) /\ b.time <= now
      BY <1>1, <1>3, <2>1 DEF MarkerTrue
    <2>3. m.wallClock <= read.wallClock /\ read.wallClock < Modulus
          /\ read.wallClock - m.wallClock = now - b.time
      BY <1>2, <1>5, <2>2, MachineFits
    <2>4. QED BY <1>2, <1>5, <1>7, <2>3, WordArithmetic
  <1>14. b.systemCPU # 0 => /\ delta.userCPU = machine.userCPU - b.userCPU
                            /\ delta.systemCPU = machine.systemCPU - b.systemCPU
    <2>1. SUFFICES ASSUME b.systemCPU # 0
                   PROVE  /\ delta.userCPU = machine.userCPU - b.userCPU
                          /\ delta.systemCPU = machine.systemCPU - b.systemCPU
      OBVIOUS
    <2>2. /\ m.userCPU = b.userCPU /\ m.systemCPU = b.systemCPU
          /\ b.userCPU <= machine.userCPU /\ b.systemCPU <= machine.systemCPU
      BY <1>1, <1>3, <2>1 DEF MarkerTrue
    <2>3. read = machine
      BY <1>2, <1>5, <2>1, <2>2, MachineFits
    <2>4. QED BY <1>2, <1>5, <1>7, <2>2, <2>3, MachineFits, WordArithmetic
  <1>15. PICK c : c = TrueCall(r)
    OBVIOUS
  <1>16. /\ c.time = now - b.time
         /\ c.clockSet <=> b.clockSet
         /\ c.cpuRead <=> b.systemCPU # 0
         /\ c.userCPU = machine.userCPU - b.userCPU
         /\ c.systemCPU = machine.systemCPU - b.systemCPU
    <2>1. PICK time, user, system, set, read1 :
            /\ time = now - b.time /\ user = machine.userCPU - b.userCPU
            /\ system = machine.systemCPU - b.systemCPU
            /\ set = b.clockSet /\ read1 = (b.systemCPU # 0)
      OBVIOUS
    <2>2. c = [time |-> time, userCPU |-> user, systemCPU |-> system,
               clockSet |-> set, cpuRead |-> read1]
      BY <1>11, <1>15, <2>1
    <2>3. QED BY <2>1, <2>2
  <1>17. ~c.clockSet => Measured(r).wallClock = c.time
    <2>1. Measured(r).wallClock = delta.wallClock
      BY <1>10
    <2>2. SUFFICES ASSUME ~c.clockSet PROVE delta.wallClock = c.time
      BY <2>1
    <2>3. ~b.clockSet
      BY <1>16, <2>2
    <2>4. QED BY <1>13, <1>16, <2>3
  <1>18. SHOW_CPU /\ c.cpuRead => /\ Measured(r).userCPU = c.userCPU
                                  /\ Measured(r).systemCPU = c.systemCPU
    <2>1. SUFFICES ASSUME SHOW_CPU, c.cpuRead
                   PROVE  /\ Measured(r).userCPU = c.userCPU
                          /\ Measured(r).systemCPU = c.systemCPU
      OBVIOUS
    <2>2. Measured(r) = delta
      BY <1>10, <2>1
    <2>3. b.systemCPU # 0
      BY <1>16, <2>1
    <2>4. QED BY <1>14, <1>16, <2>2, <2>3
  <1>19. Measured(r) \in TimeStamp
    BY <1>10
  <1>20. QED BY <1>12, <1>15, <1>17, <1>18, <1>19

-----------------------------------------------------------------------------
(* The interval of the next report *)

\* After a mark the interval is empty.
LEMMA MarkStartsInterval ==
  ASSUME ClockTyped, m_clock' = Marker(machine), machine' = machine, now' = now,
         reported' \in [time : 0..MaxTime, clockSet : BOOLEAN, newThread : BOOLEAN],
         \/ reported'.time = now
         \/ reported'.newThread /\ reported'.time <= now
  PROVE  IntervalTrue'
  <1>1. PICK m \in TimeStamp : m = m_clock' /\ m.wallClock = machine.wallClock
    BY MachineFits
  <1>2. reported'.time \in Nat /\ reported'.time <= now
    BY MachineFits, ReportAssumption
  <1>3. m_clock' \in TimeStamp /\ m_clock'.wallClock = machine.wallClock
    BY <1>1
  <1>4. /\ m_clock'.wallClock <= machine'.wallClock
        /\ machine'.wallClock - m_clock'.wallClock <= now' - reported'.time
    BY <1>2, <1>3, MachineFits
  <1>5. ~reported'.newThread => machine'.wallClock - m_clock'.wallClock = now' - reported'.time
    BY <1>3, MachineFits
  <1>6. QED BY <1>2, <1>3, <1>4, <1>5 DEF IntervalTrue

\* The constructor marks the clock of the process when the thread is new.
LEMMA OpenKeepsInterval ==
  ASSUME SInv, ClockTyped, IntervalTrue,
         NEW r \in Records, NEW t \in Threads, NEW name \in Names, Open(r, t, name)
  PROVE  IntervalTrue'
  <1>1. machine' = machine /\ now' = now /\ m_clock' = MarkNewTree(t)
    BY DEF Open, clocks
  <1>2. CASE processFound
    <2>1. PICK new \in BOOLEAN : new <=> reported.newThread \/ ~HasTree(t)
      OBVIOUS
    <2>2. reported' = [reported EXCEPT !.newThread = new]
      BY <1>2, <2>1 DEF Open, IntervalTrue
    <2>3. /\ reported' \in [time : 0..MaxTime, clockSet : BOOLEAN, newThread : BOOLEAN]
          /\ reported'.time = reported.time /\ reported'.clockSet = reported.clockSet
          /\ reported'.newThread = new
      BY <2>2 DEF IntervalTrue
    <2>4. CASE HasTree(t)
      <3>1. m_clock' = m_clock
        BY <1>1, <2>4 DEF MarkNewTree
      <3>2. new <=> reported.newThread
        BY <2>1, <2>4
      <3>3. QED BY <1>1, <1>2, <2>3, <3>1, <3>2 DEF IntervalTrue
    <2>5. CASE ~HasTree(t)
      <3>1. m_clock' = Marker(machine)
        BY <1>1, <2>5 DEF MarkNewTree
      <3>2. reported'.newThread /\ reported'.time <= now
        BY <1>2, <2>1, <2>3, <2>5 DEF IntervalTrue
      <3>3. QED BY <1>1, <2>3, <3>1, <3>2, MarkStartsInterval
    <2>6. QED BY <2>4, <2>5
  <1>3. CASE ~processFound
    <2>1. ~HasTree(t)
      BY <1>3 DEF SInv, IInv, TableConsistent
    <2>2. m_clock' = Marker(machine)
      BY <1>1, <2>1 DEF MarkNewTree
    <2>3. reported' = [time |-> now, clockSet |-> FALSE, newThread |-> FALSE]
      BY <1>3 DEF Open
    <2>4. now \in 0..MaxTime
      BY DEF ClockTyped
    <2>5. QED BY <1>1, <2>2, <2>3, <2>4, MarkStartsInterval
  <1>4. QED BY <1>2, <1>3

\* A report marks it when it has printed a thread.
LEMMA ReportAllKeepsInterval ==
  ASSUME ClockTyped, IntervalTrue, ReportAll
  PROVE  IntervalTrue'
  <1>1. PICK printed \in BOOLEAN : printed <=> \E t \in Threads : HasTree(t)'
    OBVIOUS
  <1>2. /\ m_clock' = IF printed THEN Marker(machine) ELSE m_clock
        /\ reported' = IF printed THEN [time |-> now, clockSet |-> FALSE, newThread |-> FALSE]
                                  ELSE reported
        /\ machine' = machine /\ now' = now /\ processFound' = processFound
    BY <1>1 DEF ReportAll, MarkReport, ReportProcess, clocks
  <1>3. now \in 0..MaxTime
    BY DEF ClockTyped
  <1>4. CASE printed
    BY <1>2, <1>3, <1>4, MarkStartsInterval
  <1>5. CASE ~printed
    BY <1>2, <1>5 DEF IntervalTrue
  <1>6. QED BY <1>4, <1>5

\* Time passes in the interval, and a clock that is set ends what is known.
LEMMA TimeKeepsInterval ==
  ASSUME ClockTyped, IntervalTrue, Tick \/ SetClock
  PROVE  IntervalTrue'
  <1>1. /\ m_clock' = m_clock /\ processFound' = processFound
        /\ m_clock.wallClock \in Int /\ reported.time \in Int
    BY WidthAssumption, ReportAssumption
    DEF Tick, SetClock, numbers, vars, IntervalTrue, TimeStamp, Word
  <1>2. CASE Tick
    <2>1. machine'.wallClock = machine.wallClock + 1 /\ now' = now + 1 /\ reported' = reported
      BY <1>2 DEF Tick, history, ClockTyped
    <2>2. /\ machine.wallClock \in Int /\ now \in Int
      BY MachineFits
    <2>3. QED BY <1>1, <2>1, <2>2 DEF IntervalTrue
  <1>3. CASE SetClock
    <2>1. reported' = [reported EXCEPT !.clockSet = TRUE] /\ now' = now
      BY <1>3 DEF SetClock
    <2>2. /\ reported' \in [time : 0..MaxTime, clockSet : BOOLEAN, newThread : BOOLEAN]
          /\ reported'.clockSet /\ reported'.time = reported.time
      BY <2>1 DEF IntervalTrue
    <2>3. QED BY <1>1, <2>1, <2>2 DEF IntervalTrue
  <1>4. QED BY <1>2, <1>3

\* What is known of the interval stays true.
LEMMA IntervalStaysTrue ==
  ASSUME SInv, ClockTyped, IntervalTrue, [ReportNext]_reportVars
  PROVE  IntervalTrue'
  <1>1. ASSUME m_clock' = m_clock, reported' = reported, machine' = machine, now' = now,
               processFound' = processFound
        PROVE  IntervalTrue'
    BY <1>1 DEF IntervalTrue
  <1>2. ASSUME NEW r \in Records, Close(r) PROVE IntervalTrue'
    BY <1>1, <1>2 DEF Close, CloseRecord, clocks
  <1>3. ASSUME NEW t \in Threads, ReportOne(t) \/ CloseOne(t) PROVE IntervalTrue'
    BY <1>1, <1>3 DEF ReportOne, CloseOne, ReportThread, CloseThread, clocks
  <1>4. CASE CloseAll
    <2>1. ~processFound' /\ m_clock' = ZeroStamp /\ reported' = NothingReported
      BY <1>4 DEF CloseAll, CloseProcess
    <2>2. /\ ZeroStamp \in TimeStamp
          /\ NothingReported \in [time : 0..MaxTime, clockSet : BOOLEAN, newThread : BOOLEAN]
      BY ReportAssumption, WidthAssumption DEF ZeroStamp, TimeStamp, Word, NothingReported
    <2>3. QED BY <2>1, <2>2 DEF IntervalTrue
  <1>5. CASE UNCHANGED reportVars
    BY <1>1, <1>5 DEF reportVars, vars, clocks, numbers, history
  <1>6. QED
    BY <1>2, <1>3, <1>4, <1>5, OpenKeepsInterval, ReportAllKeepsInterval, TimeKeepsInterval
    DEF ReportNext

-----------------------------------------------------------------------------
(* Quiet threads *)

\* An operation of one thread leaves the trees of the others inactive.
LEMMA OthersStayQuiet ==
  ASSUME SInv, QuietIsInactive, NEW t \in Threads, quiet' = [quiet EXCEPT ![t] = 0],
         \A u \in Threads \ {t} : HasTree(u) =>
           mapThreads'[u] = mapThreads[u] /\ trees'[mapThreads[u]] = trees[mapThreads[u]]
  PROVE  QuietIsInactive'
  <1>1. /\ quiet' \in [Threads -> {0, 1}] /\ quiet'[t] = 0
        /\ \A u \in Threads \ {t} : quiet'[u] = quiet[u]
    BY DEF QuietIsInactive
  <1>2. ASSUME NEW u \in Threads, quiet'[u] = 1
        PROVE  HasTree(u)' /\ IsInactive(trees[mapThreads[u]])'
    <2>1. u # t /\ HasTree(u) /\ IsInactive(trees[mapThreads[u]])
      BY <1>1, <1>2 DEF QuietIsInactive
    <2>2. mapThreads'[u] = mapThreads[u] /\ trees'[mapThreads[u]] = trees[mapThreads[u]]
      BY <2>1
    <2>3. QED BY <2>1, <2>2 DEF HasTree, IsInactive, Top
  <1>3. QED BY <1>1, <1>2 DEF QuietIsInactive

\* The report of all threads closes those that were quiet before it.
LEMMA ReportAllKeepsQuiet ==
  ASSUME SInv, QuietIsInactive, ReportAll
  PROVE  QuietIsInactive'
  <1>1. ReportProcess /\ mapThreads' = MapWithout(InactiveThreads)
        /\ quiet' = [t \in Threads |-> IF HasTree(t)' /\ ~Calling(t) THEN quiet[t] + 1 ELSE 0]
    BY DEF ReportAll, ReportProcess
  <1>2. ASSUME NEW t \in Threads, HasTree(t)', ~Calling(t)
        PROVE  quiet[t] = 0 /\ IsInactive(trees[mapThreads[t]])'
    <2>1. t \notin InactiveThreads /\ HasTree(t) /\ mapThreads'[t] = mapThreads[t]
      BY <1>1, <1>2 DEF MapWithout, HasTree
    <2>2. quiet[t] = 0
      BY <2>1 DEF QuietIsInactive, InactiveThreads
    <2>3. PICK a \in Trees : a = mapThreads[t] /\ Live(a) /\ Live(a)'
      BY <1>2, <2>1 DEF HasTree, Live, SInv, IInv, TypeOK
    <2>4. trees'[a] = ReportData(TreesWithout(InactiveThreads)[a])
      BY <1>1, <2>3 DEF ReportProcess, ReportTrees
    <2>5. TreesWithout(InactiveThreads)[a] = trees[a]
      <3>1. ~\E u \in InactiveThreads : mapThreads[u] = a
        BY <2>1, <2>3 DEF InactiveThreads, SInv, IInv, TableConsistent
      <3>2. QED BY <3>1 DEF TreesWithout
    <2>6. trees[a] \in Tree /\ Top(trees[a]) = Root
      BY <1>2, <2>1, <2>3, NotCallingShowsRoot, LiveTree DEF SInv
    <2>7. ~ReportData(trees[a]).newCalls /\ Top(ReportData(trees[a])) = Root
      BY <2>6 DEF ReportData, ReportNodes, Tree, Top
    <2>8. QED BY <2>1, <2>2, <2>3, <2>4, <2>5, <2>7 DEF IsInactive, Top
  <1>3. quiet' \in [Threads -> {0, 1}]
    BY <1>1, <1>2
  <1>4. \A t \in Threads : quiet'[t] = 1 => HasTree(t)' /\ ~Calling(t)
    BY <1>1
  <1>5. QED BY <1>2, <1>3, <1>4 DEF QuietIsInactive

\* A thread that is quiet stays so until it calls.
LEMMA QuietStaysInactive ==
  ASSUME SInv, QuietIsInactive, [ReportNext]_reportVars
  PROVE  QuietIsInactive'
  <1>1. ASSUME quiet' = quiet, mapThreads' = mapThreads, trees' = trees PROVE QuietIsInactive'
    BY <1>1 DEF QuietIsInactive, HasTree, IsInactive, Top
  <1>2. ASSUME NEW r \in Records, NEW t \in Threads, NEW name \in Names, Open(r, t, name)
        PROVE  QuietIsInactive'
    <2>1. PICK a \in GetOrNewTree(t) :
            /\ mapThreads' = [mapThreads EXCEPT ![t] = a]
            /\ trees' = [trees EXCEPT ![a] = AddNode(trees[a], name)]
      BY <1>2 DEF Open, OpenRecord
    <2>2. \A u \in Threads \ {t} : HasTree(u) => mapThreads[u] # a
      BY <2>1, GetOrNewTreeType DEF SInv, IInv, TableConsistent, HasTree, Live
    <2>3. \A u \in Threads \ {t} : HasTree(u) =>
            mapThreads'[u] = mapThreads[u] /\ trees'[mapThreads[u]] = trees[mapThreads[u]]
      BY <2>1, <2>2 DEF SInv, IInv, TypeOK, HasTree
    <2>4. quiet' = [quiet EXCEPT ![t] = 0]
      BY <1>2 DEF Open
    <2>5. QED BY <2>3, <2>4, OthersStayQuiet
  <1>3. ASSUME NEW r \in Records, Close(r) PROVE QuietIsInactive'
    <2>1. PICK t \in Threads, a \in Trees : /\ t = rec[r].thread /\ a = rec[r].tree
                                           /\ HasTree(t) /\ mapThreads[t] = a
      BY <1>3, OpenRecordIsCall, RecordsOfStep
    <2>2. \A u \in Threads \ {t} : HasTree(u) => mapThreads[u] # a
      BY <2>1 DEF SInv, IInv, TableConsistent
    <2>3. mapThreads' = mapThreads /\ \A b \in Trees \ {a} : trees'[b] = trees[b]
      BY <1>3, <2>1 DEF Close, CloseRecord, SInv, IInv, TypeOK
    <2>4. \A u \in Threads \ {t} : HasTree(u) =>
            mapThreads'[u] = mapThreads[u] /\ trees'[mapThreads[u]] = trees[mapThreads[u]]
      BY <2>2, <2>3 DEF SInv, IInv, TypeOK, HasTree
    <2>5. quiet' = [quiet EXCEPT ![t] = 0]
      BY <1>3, <2>1 DEF Close
    <2>6. QED BY <2>4, <2>5, OthersStayQuiet
  <1>4. ASSUME NEW t \in Threads, ReportOne(t) PROVE QuietIsInactive'
    <2>1. /\ quiet' = quiet /\ mapThreads' = mapThreads
          /\ trees' = [trees EXCEPT ![mapThreads[t]] = ReportData(@)]
          /\ mapThreads[t] \in Trees
      BY <1>4 DEF ReportOne, ReportThread, HasTree, SInv, IInv, TypeOK
    <2>2. ASSUME NEW a \in Trees, IsInactive(trees[a]) PROVE IsInactive(trees'[a])
      <3>1. trees[a] \in Tree
        BY DEF SInv, IInv, TypeOK
      <3>2. trees'[a] \in {trees[a], ReportData(trees[a])}
        BY <2>1 DEF SInv, IInv, TypeOK
      <3>3. QED BY <2>2, <3>1, <3>2 DEF IsInactive, ReportData, ReportNodes, Tree, Top
    <2>3. \A u \in Threads : HasTree(u) => mapThreads[u] \in Trees
      BY DEF SInv, IInv, TypeOK, HasTree
    <2>4. QED BY <2>1, <2>2, <2>3 DEF QuietIsInactive, HasTree, IsInactive, Top
  <1>5. ASSUME NEW t \in Threads, CloseOne(t) PROVE QuietIsInactive'
    <2>1. /\ quiet' = [quiet EXCEPT ![t] = 0]
          /\ mapThreads' = MapWithout({t}) /\ trees' = TreesWithout({t}) /\ HasTree(t)
      BY <1>5 DEF CloseOne, CloseThread
    <2>2. ASSUME NEW u \in Threads \ {t}, HasTree(u)
          PROVE  mapThreads'[u] = mapThreads[u] /\ trees'[mapThreads[u]] = trees[mapThreads[u]]
      <3>1. mapThreads[u] \in Trees /\ mapThreads[u] # mapThreads[t]
        BY <2>1, <2>2 DEF SInv, IInv, TypeOK, HasTree, TableConsistent
      <3>2. QED BY <2>1, <3>1 DEF MapWithout, TreesWithout
    <2>3. QED BY <2>1, <2>2, OthersStayQuiet
  <1>6. CASE CloseAll
    BY <1>6 DEF CloseAll, QuietIsInactive
  <1>7. CASE Tick \/ SetClock \/ UNCHANGED reportVars
    BY <1>1, <1>7 DEF Tick, SetClock, reportVars, vars, history
  <1>8. QED BY <1>2, <1>3, <1>4, <1>5, <1>6, <1>7, ReportAllKeepsQuiet DEF ReportNext

-----------------------------------------------------------------------------
(* What each step does to the numbers and to the logs *)

\* Record r is opened at node n of the tree at a: both exist from then on.
Entered(r, t, a, n) ==
  /\ ~IsOpen(r) /\ rec'[r] = [thread |-> t, tree |-> a, node |-> n]
  /\ \A q \in Records \ {r} : rec'[q] = rec[q]
  /\ Live(a)' /\ \A b \in Trees \ {a} : Live(b)' <=> Live(b)
  /\ \/ Parent(n) = Root
     \/ \E q \in Records : IsOpen(q) /\ rec[q].tree = a /\ rec[q].node = Parent(n)
  /\ DOMAIN stats' = Trees /\ DOMAIN calls' = Trees
  /\ \A b \in Trees \ {a} : stats'[b] = stats[b] /\ calls'[b] = calls[b]
  /\ DOMAIN stats'[a] = DOMAIN stats[a] \cup {Root, n}
  /\ DOMAIN calls'[a] = DOMAIN calls[a] \cup {n}
  /\ \A m \in DOMAIN stats'[a] : stats'[a][m] = IF m \in DOMAIN stats[a] THEN stats[a][m]
                                              ELSE IF m = Root THEN RootStats ELSE NewStats
  /\ \A m \in DOMAIN calls'[a] : calls'[a][m] = IF m \in DOMAIN calls[a] THEN calls[a][m]
                                                                    ELSE NoLog

\* Record r of node n of the tree at a is closed and measured.
Charged(r, a, n) ==
  /\ IsOpen(r) /\ rec[r].tree = a /\ rec[r].node = n /\ Live(a) /\ n \in DOMAIN calls[a]
  /\ ~IsOpen(r)' /\ \A q \in Records \ {r} : rec'[q] = rec[q]
  /\ mapThreads' = mapThreads
  /\ DOMAIN stats' = Trees /\ DOMAIN calls' = Trees
  /\ \A b \in Trees : DOMAIN stats'[b] = DOMAIN stats[b] /\ DOMAIN calls'[b] = DOMAIN calls[b]
  /\ \A b \in Trees : \A m \in DOMAIN stats[b] :
       stats'[b][m] = IF b = a /\ m = n THEN IncrementStats(stats[a][n], Measured(r))
                                       ELSE stats[b][m]
  /\ \A b \in Trees : \A m \in DOMAIN calls[b] :
       calls'[b][m] = IF b = a /\ m = n
                      THEN [total |-> Append(calls[a][n].total, TrueCall(r)),
                            interval |-> Append(calls[a][n].interval, TrueCall(r))]
                      ELSE calls[b][m]

\* The tree at a is deleted, or there is none.
Gone(a) == ~Live(a)' /\ DOMAIN stats'[a] = {} /\ DOMAIN calls'[a] = {}

\* Its numbers stay, or start a new interval together with its logs.
Kept(a) ==
  /\ Live(a) /\ Live(a)'
  /\ DOMAIN stats'[a] = DOMAIN stats[a] /\ DOMAIN calls'[a] = DOMAIN calls[a]
  /\ \/ /\ \A n \in DOMAIN stats[a] : stats'[a][n] = stats[a][n]
        /\ \A n \in DOMAIN calls[a] : calls'[a][n] = calls[a][n]
     \/ /\ \A n \in DOMAIN stats[a] : stats'[a][n] = ResetInterval(stats[a][n])
        /\ \A n \in DOMAIN calls[a] :
             calls'[a][n] = [calls[a][n] EXCEPT !.interval = <<>>]

\* The constructor.
LEMMA OpenEnters ==
  ASSUME SInv, NumbersTyped,
         NEW r \in Records, NEW t \in Threads, NEW name \in Names, Open(r, t, name)
  PROVE  \E a \in Trees, n \in Node \ {Root} : Entered(r, t, a, n)
  <1>1. PICK a \in GetOrNewTree(t), grown \in Tree, old \in Seq(Node) :
          Opened(r, t, name, a, grown, old)
    BY OpenRecordEffect DEF SInv, Open
  <1>2. PICK n : n = Top(grown)
    OBVIOUS
  <1>3. /\ a \in Trees /\ mapThreads[t] \in {a, Null} /\ a # Null
        /\ mapThreads[t] = Null => ~Live(a)
        /\ mapThreads[t] = a => Live(a)
    BY GetOrNewTreeType, LiveTree DEF SInv
  <1>4. /\ Len(old) \in Nat /\ Len(old) >= 1 /\ old[Len(old)] \in Node
        /\ n = AddChild(old[Len(old)], name)
    BY <1>1, <1>2, LastOfSeq DEF Opened
  <1>5. n \in Node \ {Root} /\ Parent(n) = old[Len(old)]
    <2>1. n \in Node /\ Parent(n) = old[Len(old)] /\ Len(n) = Len(old[Len(old)]) + 1
      BY <1>4, AddChildType
    <2>2. Len(old[Len(old)]) \in Nat
      BY <1>4 DEF Node
    <2>3. n # Root
      BY <2>1, <2>2 DEF Root
    <2>4. QED BY <2>1, <2>3
  <1>6. /\ rec'[r] = [thread |-> t, tree |-> a, node |-> n]
        /\ \A q \in Records \ {r} : rec'[q] = rec[q]
        /\ ~IsOpen(r)
        /\ mapThreads' = [mapThreads EXCEPT ![t] = a]
    BY <1>1, <1>2 DEF Opened, SInv, IInv, TypeOK
  <1>7. mapThreads'[t] = a /\ \A u \in Threads \ {t} : mapThreads'[u] = mapThreads[u]
    BY <1>6 DEF SInv, IInv, TypeOK
  <1>8. Live(a)' /\ \A b \in Trees \ {a} : Live(b)' <=> Live(b)
    <2>1. \A b \in Trees \ {a} : b # Null
      BY LiveTree DEF SInv
    <2>2. QED BY <1>3, <1>7, <2>1 DEF Live
  <1>9. \/ Parent(n) = Root
        \/ \E q \in Records : IsOpen(q) /\ rec[q].tree = a /\ rec[q].node = Parent(n)
    <2>1. CASE ~Live(a)
      <3>1. old = <<Root>>
        BY <1>1, <1>3, <2>1, LiveTree DEF Opened, SInv, EmptyTree
      <3>2. QED BY <1>5, <3>1
    <2>2. CASE Live(a)
      <3>1. HasTree(t) /\ mapThreads[t] = a /\ old = trees[a].activeNode
        BY <1>1, <1>3, <2>2 DEF Opened, HasTree
      <3>2. IsCallPath(old)
        BY <2>2, <3>1, <1>3, LiveTree DEF SInv
      <3>3. CASE Len(old) = 1
        <4>1. Len(old[Len(old)]) = 0
          BY <3>2, <3>3 DEF IsCallPath
        <4>2. QED BY <1>4, <1>5, <4>1 DEF Root, Node
      <3>4. CASE Len(old) # 1
        <4>1. Len(old) \in 2..Len(old)
          <5>1. \A k \in Nat : k >= 1 /\ k # 1 => k \in 2..k
            OBVIOUS
          <5>2. QED BY <1>4, <3>4, <5>1
        <4>2. PICK q \in Records : rec[q] = [thread |-> t, tree |-> a, node |-> old[Len(old)]]
          BY <3>1, <4>1 DEF SInv, StackMirrorsCalls
        <4>3. IsOpen(q)
          BY <4>2, NullAssumption DEF IsOpen, Closed
        <4>4. QED BY <1>5, <4>2, <4>3
      <3>5. QED BY <3>3, <3>4
    <2>3. QED BY <2>1, <2>2
  <1>10. rec'[r].tree = a /\ rec'[r].node = n
    BY <1>6
  <1>11. /\ stats' = [stats EXCEPT ![a] = EnterNode(EnterNode(@, Root, RootStats), n, NewStats)]
         /\ calls' = [calls EXCEPT ![a] = EnterNode(@, n, NoLog)]
    BY <1>10 DEF Open
  <1>12. /\ DOMAIN stats' = Trees /\ DOMAIN calls' = Trees
         /\ \A b \in Trees \ {a} : stats'[b] = stats[b] /\ calls'[b] = calls[b]
         /\ stats'[a] = EnterNode(EnterNode(stats[a], Root, RootStats), n, NewStats)
         /\ calls'[a] = EnterNode(calls[a], n, NoLog)
    BY <1>3, <1>11 DEF NumbersTyped
  <1>13. /\ DOMAIN calls'[a] = DOMAIN calls[a] \cup {n}
         /\ \A m \in DOMAIN calls'[a] : calls'[a][m] = IF m \in DOMAIN calls[a] THEN calls[a][m]
                                                                           ELSE NoLog
    BY <1>12 DEF EnterNode
  <1>14. PICK rooted : rooted = EnterNode(stats[a], Root, RootStats)
    OBVIOUS
  <1>15. /\ DOMAIN rooted = DOMAIN stats[a] \cup {Root}
         /\ \A m \in DOMAIN rooted : rooted[m] = IF m \in DOMAIN stats[a] THEN stats[a][m]
                                               ELSE RootStats
    BY <1>14 DEF EnterNode
  <1>16. /\ DOMAIN stats'[a] = DOMAIN rooted \cup {n}
         /\ \A m \in DOMAIN stats'[a] : stats'[a][m] = IF m \in DOMAIN rooted THEN rooted[m]
                                                     ELSE NewStats
    BY <1>12, <1>14 DEF EnterNode
  <1>17. /\ DOMAIN stats'[a] = DOMAIN stats[a] \cup {Root, n}
         /\ \A m \in DOMAIN stats'[a] : stats'[a][m] = IF m \in DOMAIN stats[a] THEN stats[a][m]
                                              ELSE IF m = Root THEN RootStats ELSE NewStats
    BY <1>15, <1>16
  <1>18. Entered(r, t, a, n)
    BY <1>6, <1>8, <1>9, <1>12, <1>13, <1>17 DEF Entered
  <1>19. QED BY <1>3, <1>5, <1>18

\* The destructor.
LEMMA CloseCharges ==
  ASSUME SInv, NumbersTyped, NEW r \in Records, Close(r)
  PROVE  \E a \in Trees, n \in Node \ {Root} : Charged(r, a, n)
  <1>1. PICK a, n : a = rec[r].tree /\ n = rec[r].node
    OBVIOUS
  <1>2. /\ IsOpen(r) /\ Live(a) /\ mapThreads' = mapThreads
        /\ ~IsOpen(r)' /\ \A q \in Records \ {r} : rec'[q] = rec[q]
    BY <1>1, RecordsOfStep DEF Close, CloseRecord, Attached
  <1>3. a \in Trees /\ n \in Node \ {Root}
    BY <1>1, <1>2, OpenRecordIsCall
  <1>4. n \in DOMAIN calls[a]
    BY <1>1, <1>2 DEF NumbersTyped
  <1>5. /\ stats' = [stats EXCEPT ![a][n] = IncrementStats(@, Measured(r))]
        /\ calls' = [calls EXCEPT ![a][n] = [total |-> Append(@.total, TrueCall(r)),
                                             interval |-> Append(@.interval, TrueCall(r))]]
    BY <1>1 DEF Close
  <1>6. DOMAIN stats = Trees /\ DOMAIN calls = Trees
    BY DEF NumbersTyped
  <1>7. PICK s, c : /\ s = IncrementStats(stats[a][n], Measured(r))
                    /\ c = [total |-> Append(calls[a][n].total, TrueCall(r)),
                            interval |-> Append(calls[a][n].interval, TrueCall(r))]
    OBVIOUS
  <1>8. /\ stats' = [stats EXCEPT ![a] = [stats[a] EXCEPT ![n] = s]]
        /\ calls' = [calls EXCEPT ![a] = [calls[a] EXCEPT ![n] = c]]
    BY <1>3, <1>5, <1>6, <1>7
  <1>9. /\ DOMAIN stats' = Trees /\ DOMAIN calls' = Trees
        /\ \A b \in Trees : DOMAIN stats'[b] = DOMAIN stats[b] /\ DOMAIN calls'[b] = DOMAIN calls[b]
    BY <1>3, <1>6, <1>8
  <1>10. \A b \in Trees : \A m \in DOMAIN stats[b] :
           stats'[b][m] = IF b = a /\ m = n THEN s ELSE stats[b][m]
    BY <1>3, <1>6, <1>8
  <1>11. \A b \in Trees : \A m \in DOMAIN calls[b] :
           calls'[b][m] = IF b = a /\ m = n THEN c ELSE calls[b][m]
    BY <1>3, <1>6, <1>8
  <1>12. Charged(r, a, n)
    BY <1>1, <1>2, <1>4, <1>7, <1>9, <1>10, <1>11 DEF Charged
  <1>13. QED BY <1>3, <1>12

\* Reports and closes.
LEMMA MaintenanceKeeps ==
  ASSUME SInv, NumbersTyped,
         ReportAll \/ CloseAll \/ \E t \in Threads : ReportOne(t) \/ CloseOne(t)
  PROVE  /\ rec' = rec /\ now' = now /\ began' = began
         /\ DOMAIN stats' = Trees /\ DOMAIN calls' = Trees
         /\ \A a \in Trees : Gone(a) \/ Kept(a)
  <1>1. rec' = rec /\ now' = now /\ began' = began
    BY RecordsOfStep DEF ReportAll, CloseAll, ReportOne, CloseOne, clocks
  <1>2. ASSUME NEW S \in SUBSET Threads, mapThreads' = MapWithout(S),
               NEW s, NEW c, stats' = KeepLive(s, NoNodes), calls' = KeepLive(c, NoNodes)
        PROVE  /\ DOMAIN stats' = Trees /\ DOMAIN calls' = Trees
               /\ \A a \in Trees : \/ Gone(a)
                                   \/ /\ Live(a) /\ Live(a)'
                                      /\ stats'[a] = s[a] /\ calls'[a] = c[a]
    <2>1. DOMAIN stats' = Trees /\ DOMAIN calls' = Trees
      BY <1>2 DEF KeepLive
    <2>2. ASSUME NEW a \in Trees, ~Live(a)' PROVE Gone(a)
      <3>1. stats'[a] = NoNodes /\ calls'[a] = NoNodes
        BY <1>2, <2>2 DEF KeepLive
      <3>2. DOMAIN NoNodes = {}
        BY DEF NoNodes
      <3>3. QED BY <2>2, <3>1, <3>2 DEF Gone
    <2>3. ASSUME NEW a \in Trees, Live(a)'
          PROVE  Live(a) /\ stats'[a] = s[a] /\ calls'[a] = c[a]
      <3>1. stats'[a] = s[a] /\ calls'[a] = c[a]
        BY <1>2, <2>3 DEF KeepLive
      <3>2. Live(a)
        BY <1>2, <2>3, LiveTree DEF Live, MapWithout, SInv
      <3>3. QED BY <3>1, <3>2
    <2>4. QED BY <2>1, <2>2, <2>3
  <1>3. ASSUME NEW a \in Trees, NEW A, a \in A, Live(a), Live(a)',
               stats'[a] = ReportStats(A)[a], calls'[a] = StartInterval(A)[a]
        PROVE  Kept(a)
    <2>1. /\ stats'[a] = [n \in DOMAIN stats[a] |-> ResetInterval(stats[a][n])]
          /\ calls'[a] = [n \in DOMAIN calls[a] |-> [calls[a][n] EXCEPT !.interval = <<>>]]
      BY <1>3 DEF ReportStats, StartInterval
    <2>2. QED BY <1>3, <2>1 DEF Kept
  <1>4. CASE ReportAll
    <2>1. /\ mapThreads' = MapWithout(InactiveThreads) /\ InactiveThreads \subseteq Threads
          /\ stats' = KeepLive(ReportStats(Trees), NoNodes)
          /\ calls' = KeepLive(StartInterval(Trees), NoNodes)
      BY <1>4 DEF ReportAll, ReportProcess, InactiveThreads
    <2>2. QED BY <1>1, <1>2, <1>3, <2>1
  <1>5. CASE CloseAll
    <2>1. PICK S \in SUBSET Threads :
             /\ mapThreads' = MapWithout(S)
             /\ stats' = KeepLive(stats, NoNodes) /\ calls' = KeepLive(calls, NoNodes)
      BY <1>5 DEF CloseAll, CloseProcess
    <2>2. /\ DOMAIN stats' = Trees /\ DOMAIN calls' = Trees
          /\ \A a \in Trees : \/ Gone(a)
                              \/ /\ Live(a) /\ Live(a)'
                                 /\ stats'[a] = stats[a] /\ calls'[a] = calls[a]
      BY <1>2, <2>1
    <2>3. \A a \in Trees : Gone(a) \/ Kept(a)
      BY <2>2 DEF Kept
    <2>4. QED BY <1>1, <2>2, <2>3
  <1>6. ASSUME NEW t \in Threads, CloseOne(t)
        PROVE  /\ DOMAIN stats' = Trees /\ DOMAIN calls' = Trees
               /\ \A a \in Trees : Gone(a) \/ Kept(a)
    <2>1. /\ mapThreads' = MapWithout({t})
          /\ stats' = KeepLive(stats, NoNodes) /\ calls' = KeepLive(calls, NoNodes)
      BY <1>6 DEF CloseOne, CloseThread
    <2>2. QED BY <1>2, <2>1 DEF Kept
  <1>7. ASSUME NEW t \in Threads, ReportOne(t)
        PROVE  /\ DOMAIN stats' = Trees /\ DOMAIN calls' = Trees
               /\ \A a \in Trees : Gone(a) \/ Kept(a)
    <2>1. /\ mapThreads' = mapThreads
          /\ stats' = ReportStats({mapThreads[t]}) /\ calls' = StartInterval({mapThreads[t]})
      BY <1>7 DEF ReportOne, ReportThread
    <2>2. \A a \in Trees : Live(a)' <=> Live(a)
      BY <2>1 DEF Live
    <2>3. DOMAIN stats' = Trees /\ DOMAIN calls' = Trees
      BY <2>1 DEF ReportStats, StartInterval
    <2>4. ASSUME NEW a \in Trees, a # mapThreads[t] PROVE Gone(a) \/ Kept(a)
      <3>1. stats'[a] = stats[a] /\ calls'[a] = calls[a]
        BY <2>1, <2>4 DEF ReportStats, StartInterval
      <3>2. QED BY <2>2, <3>1 DEF Gone, Kept, NumbersTyped, TreeTyped
    <2>5. ASSUME NEW a \in Trees, a = mapThreads[t] PROVE Kept(a)
      <3>1. Live(a)
        BY <2>5 DEF Live
      <3>2. QED BY <1>3, <2>1, <2>2, <2>5, <3>1
    <2>6. QED BY <2>3, <2>4, <2>5
  <1>8. QED BY <1>1, <1>4, <1>5, <1>6, <1>7

-----------------------------------------------------------------------------
(* The numbers stay words *)

\* The operations of PerfNode on its numbers.
LEMMA TimingTypes ==
  /\ NewStats \in Stats /\ RootStats \in Stats
  /\ \A s \in Stats : ResetInterval(s) \in Stats
  /\ \A s \in Stats, delta \in TimeStamp : IncrementStats(s, delta) \in Stats
  <1>1. 0 \in Word /\ 1 \in Word /\ INITIAL_MIN_VALUE \in Word
    BY WidthAssumption, InitialMinAssumption DEF Word
  <1>2. NoCalls \in Summary /\ ZeroStamp \in TimeStamp
    BY <1>1 DEF NoCalls, Summary, ZeroStamp, TimeStamp
  <1>3. NewStats \in Stats
    BY <1>2 DEF NewStats, Stats
  <1>4. RootStats \in Stats
    <2>1. PICK new \in Stats : new = NewStats
      BY <1>3
    <2>2. PICK s \in Summary, i \in Summary : /\ s = [new.total EXCEPT !.count = 1]
                                             /\ i = [new.interval EXCEPT !.count = 1]
      <3>1. new.total \in Summary /\ new.interval \in Summary
        BY DEF Stats
      <3>2. \A sum \in Summary : [sum EXCEPT !.count = 1] \in Summary
        BY <1>1 DEF Summary
      <3>3. QED BY <3>1, <3>2
    <2>3. RootStats = [new EXCEPT !.total = s, !.interval = i]
      BY <2>1, <2>2 DEF RootStats, Stats
    <2>4. QED BY <2>3 DEF Stats
  <1>5. \A s \in Stats : ResetInterval(s) \in Stats
    BY <1>2 DEF ResetInterval, Stats
  <1>6. ASSUME NEW sum \in Summary, NEW delta \in TimeStamp
        PROVE  AddCall(sum, delta) \in Summary
    <2>1. /\ sum.count \in Nat /\ sum.time \in Nat /\ sum.userCPU \in Nat /\ sum.systemCPU \in Nat
          /\ delta.wallClock \in Nat /\ delta.userCPU \in Nat /\ delta.systemCPU \in Nat
      BY WidthAssumption DEF Summary, TimeStamp, Word
    <2>2. /\ Plus(sum.count, 1) \in Word /\ Plus(sum.time, delta.wallClock) \in Word
          /\ Plus(sum.userCPU, delta.userCPU) \in Word
          /\ Plus(sum.systemCPU, delta.systemCPU) \in Word
      BY <2>1, WordArithmetic
    <2>3. sum.max \in Word /\ sum.min \in Word /\ delta.wallClock \in Word
      BY DEF Summary, TimeStamp
    <2>4. QED BY <2>2, <2>3 DEF AddCall, Summary
  <1>7. \A s \in Stats, delta \in TimeStamp : IncrementStats(s, delta) \in Stats
    BY <1>6 DEF IncrementStats, Stats
  <1>8. QED BY <1>3, <1>4, <1>5, <1>7

\* Two logs with one more call.
LEMMA LogGrows ==
  ASSUME NEW log \in Log, NEW c \in Call, Len(log.interval) <= Len(log.total)
  PROVE  LET grown == [total |-> Append(log.total, c), interval |-> Append(log.interval, c)]
         IN  grown \in Log /\ Len(grown.interval) <= Len(grown.total)
  <1>1. log.total \in Seq(Call) /\ log.interval \in Seq(Call)
    BY DEF Log
  <1>2. /\ Append(log.total, c) \in Seq(Call) /\ Append(log.interval, c) \in Seq(Call)
        /\ Len(Append(log.total, c)) = Len(log.total) + 1 /\ Len(log.total) \in Nat
        /\ Len(Append(log.interval, c)) = Len(log.interval) + 1 /\ Len(log.interval) \in Nat
    BY <1>1, AppendSeq
  <1>3. QED BY <1>2 DEF Log

\* The node that is entered has numbers of its own from then on.
LEMMA EnteredKeepsTyped ==
  ASSUME SInv, NumbersTyped, NEW r \in Records, NEW t \in Threads,
         NEW a \in Trees, NEW n \in Node \ {Root}, Entered(r, t, a, n)
  PROVE  NumbersTyped'
  <1> USE DEF Entered
  <1>1. ASSUME NEW b \in Trees \ {a} PROVE TreeTyped(b)'
    <2>1. TreeTyped(b) /\ (Live(b)' <=> Live(b)) /\ stats'[b] = stats[b] /\ calls'[b] = calls[b]
      BY DEF NumbersTyped
    <2>2. QED BY <2>1 DEF TreeTyped
  <1>2. TreeTyped(a)'
    <2>1. TreeTyped(a) /\ Live(a)'
      BY DEF NumbersTyped
    <2>2. /\ IsFiniteSet(DOMAIN calls'[a]) /\ DOMAIN calls'[a] \subseteq Node \ {Root}
          /\ DOMAIN stats'[a] = DOMAIN calls'[a] \cup {Root}
      <3>1. IsFiniteSet(DOMAIN calls[a] \cup {n})
        BY <2>1, FS_AddElement DEF TreeTyped
      <3>2. DOMAIN stats[a] \cup {Root} = DOMAIN calls[a] \cup {Root}
        BY <2>1 DEF TreeTyped
      <3>3. DOMAIN calls[a] \subseteq Node \ {Root}
        BY <2>1 DEF TreeTyped
      <3>4. QED BY <3>1, <3>2, <3>3
    <2>3. \A m \in DOMAIN stats'[a] : stats'[a][m] \in Stats
      BY <2>1, TimingTypes DEF TreeTyped
    <2>4. ASSUME NEW m \in DOMAIN calls'[a]
          PROVE  /\ calls'[a][m] \in Log
                 /\ Len(calls'[a][m].interval) <= Len(calls'[a][m].total)
      <3>1. NoLog \in Log /\ Len(NoLog.interval) <= Len(NoLog.total)
        BY DEF NoLog, Log
      <3>2. CASE m \in DOMAIN calls[a]
        BY <2>1, <3>2 DEF TreeTyped
      <3>3. CASE m \notin DOMAIN calls[a]
        BY <3>1, <3>3
      <3>4. QED BY <3>2, <3>3
    <2>5. \A m \in DOMAIN calls'[a] : Parent(m) \in DOMAIN calls'[a] \cup {Root}
      <3>1. Parent(n) \in DOMAIN calls[a] \cup {Root}
        BY DEF NumbersTyped
      <3>2. QED BY <2>1, <3>1 DEF TreeTyped
    <2>6. QED BY <2>1, <2>2, <2>3, <2>4, <2>5 DEF TreeTyped
  <1>3. ASSUME NEW q \in Records, IsOpen(q)' PROVE rec'[q].node \in DOMAIN calls'[rec'[q].tree]
    <2>1. CASE q = r
      <3>1. rec'[q].node = n /\ rec'[q].tree = a
        BY <2>1
      <3>2. QED BY <3>1
    <2>2. CASE q # r
      <3>1. IsOpen(q) /\ rec'[q] = rec[q]
        BY <1>3, <2>2 DEF IsOpen
      <3>2. rec[q].node \in DOMAIN calls[rec[q].tree]
        BY <3>1 DEF NumbersTyped
      <3>3. CASE rec[q].tree = a
        BY <3>1, <3>2, <3>3
      <3>4. CASE rec[q].tree # a
        <4>1. rec[q].tree \in Trees => calls'[rec[q].tree] = calls[rec[q].tree]
          BY <3>4
        <4>2. rec[q].tree \in Trees
          BY <3>1, OpenRecordIsCall
        <4>3. QED BY <3>1, <3>2, <4>1, <4>2
      <3>5. QED BY <3>3, <3>4
    <2>3. QED BY <2>1, <2>2
  <1>4. QED BY <1>1, <1>2, <1>3 DEF NumbersTyped

\* A measured call is added to the numbers and to the logs of its node.
LEMMA ChargedKeepsTyped ==
  ASSUME SInv, ClockTyped, MarkersTrue, NumbersTyped, NEW r \in Records,
         NEW a \in Trees, NEW n \in Node \ {Root}, Charged(r, a, n)
  PROVE  NumbersTyped'
  <1> USE DEF Charged
  <1>1. Measured(r) \in TimeStamp /\ TrueCall(r) \in Call
    BY MeasuredIsTrue
  <1>2. ASSUME NEW b \in Trees PROVE TreeTyped(b)'
    <2>1. TreeTyped(b) /\ (Live(b)' <=> Live(b))
      BY DEF NumbersTyped, Live
    <2>2. ASSUME NEW m \in DOMAIN stats'[b] PROVE stats'[b][m] \in Stats
      <3>1. m \in DOMAIN stats[b] /\ stats[b][m] \in Stats
        BY <2>1 DEF TreeTyped
      <3>2. IncrementStats(stats[b][m], Measured(r)) \in Stats
        BY <1>1, <3>1, TimingTypes
      <3>3. QED BY <3>1, <3>2
    <2>3. ASSUME NEW m \in DOMAIN calls'[b]
          PROVE  /\ calls'[b][m] \in Log
                 /\ Len(calls'[b][m].interval) <= Len(calls'[b][m].total)
      <3>1. /\ m \in DOMAIN calls[b] /\ calls[b][m] \in Log
            /\ Len(calls[b][m].interval) <= Len(calls[b][m].total)
        BY <2>1 DEF TreeTyped
      <3>2. PICK grown : grown = [total |-> Append(calls[b][m].total, TrueCall(r)),
                                  interval |-> Append(calls[b][m].interval, TrueCall(r))]
        OBVIOUS
      <3>3. grown \in Log /\ Len(grown.interval) <= Len(grown.total)
        BY <1>1, <3>1, <3>2, LogGrows
      <3>4. calls'[b][m] \in {grown, calls[b][m]}
        <4>1. CASE b = a /\ m = n
          <5>1. calls'[b][m] = [total |-> Append(calls[a][n].total, TrueCall(r)),
                                interval |-> Append(calls[a][n].interval, TrueCall(r))]
            BY <3>1, <4>1
          <5>2. QED BY <3>2, <4>1, <5>1
        <4>2. CASE ~(b = a /\ m = n)
          <5>1. calls'[b][m] = calls[b][m]
            BY <3>1, <4>2
          <5>2. QED BY <5>1
        <4>3. QED BY <4>1, <4>2
      <3>5. QED BY <3>1, <3>3, <3>4
    <2>4. DOMAIN stats'[b] = DOMAIN stats[b] /\ DOMAIN calls'[b] = DOMAIN calls[b]
      OBVIOUS
    <2>5. QED BY <2>1, <2>2, <2>3, <2>4 DEF TreeTyped
  <1>3. ASSUME NEW q \in Records, IsOpen(q)' PROVE rec'[q].node \in DOMAIN calls'[rec'[q].tree]
    <2>1. IsOpen(q) /\ rec'[q] = rec[q]
      BY <1>3 DEF IsOpen
    <2>2. rec[q].node \in DOMAIN calls[rec[q].tree]
      BY <2>1 DEF NumbersTyped
    <2>3. rec[q].tree \in Trees
      BY <2>1, OpenRecordIsCall
    <2>4. QED BY <2>1, <2>2, <2>3
  <1>4. QED BY <1>2, <1>3 DEF NumbersTyped

\* Two logs of which one starts again.
LEMMA LogRestarts ==
  ASSUME NEW log \in Log
  PROVE  LET again == [log EXCEPT !.interval = <<>>]
         IN  /\ again \in Log /\ again.total = log.total /\ again.interval = <<>>
             /\ Len(again.interval) <= Len(again.total)
  <1>1. PICK none \in Seq(Call) : none = <<>>
    <2>1. <<>> \in Seq(Call)
      OBVIOUS
    <2>2. QED BY <2>1
  <1>2. PICK again : again = [log EXCEPT !.interval = none]
    OBVIOUS
  <1>3. again \in Log /\ again.total = log.total /\ again.interval = <<>>
    BY <1>1, <1>2 DEF Log
  <1>4. Len(again.total) \in Nat /\ Len(again.interval) = 0
    BY <1>3 DEF Log
  <1>5. QED BY <1>1, <1>2, <1>3, <1>4

\* Reports and closes leave the numbers of the trees that stay, or start their
\* intervals again.
LEMMA MaintenanceKeepsTyped ==
  ASSUME SInv, SInv', NumbersTyped, rec' = rec,
         DOMAIN stats' = Trees, DOMAIN calls' = Trees, \A a \in Trees : Gone(a) \/ Kept(a)
  PROVE  NumbersTyped'
  <1>1. ASSUME NEW a \in Trees, Gone(a) PROVE TreeTyped(a)'
    <2>1. IsFiniteSet({})
      BY FS_EmptySet
    <2>2. QED BY <1>1, <2>1 DEF Gone, TreeTyped
  <1>2. ASSUME NEW a \in Trees, Kept(a) PROVE TreeTyped(a)'
    <2>1. /\ TreeTyped(a) /\ Live(a) /\ Live(a)'
          /\ DOMAIN stats'[a] = DOMAIN stats[a] /\ DOMAIN calls'[a] = DOMAIN calls[a]
      BY <1>2 DEF NumbersTyped, Kept
    <2>2. \A n \in DOMAIN stats[a] : stats'[a][n] \in Stats
      BY <1>2, <2>1, TimingTypes DEF Kept, TreeTyped
    <2>3. ASSUME NEW n \in DOMAIN calls[a]
          PROVE  /\ calls'[a][n] \in Log
                 /\ Len(calls'[a][n].interval) <= Len(calls'[a][n].total)
      <3>1. calls[a][n] \in Log /\ Len(calls[a][n].interval) <= Len(calls[a][n].total)
        BY <2>1 DEF TreeTyped
      <3>2. \/ calls'[a][n] = calls[a][n]
            \/ calls'[a][n] = [calls[a][n] EXCEPT !.interval = <<>>]
        BY <1>2 DEF Kept
      <3>3. QED BY <3>1, <3>2, LogRestarts
    <2>4. QED BY <2>1, <2>2, <2>3 DEF TreeTyped
  <1>3. ASSUME NEW r \in Records, IsOpen(r)' PROVE rec'[r].node \in DOMAIN calls'[rec'[r].tree]
    <2>1. IsOpen(r) /\ rec'[r] = rec[r]
      BY <1>3 DEF IsOpen
    <2>2. rec[r].tree \in Trees /\ rec[r].node \in DOMAIN calls[rec[r].tree]
      BY <2>1, OpenRecordIsCall DEF NumbersTyped
    <2>3. Live(rec[r].tree)'
      BY <1>3, <2>1 DEF SInv, MemorySafe, Attached, Live
    <2>4. QED BY <2>1, <2>2, <2>3 DEF Gone, Kept
  <1>4. QED BY <1>1, <1>2, <1>3 DEF NumbersTyped

\* Time and the wall clock leave the trees and their numbers alone.
LEMMA ClockLeavesNumbers ==
  ASSUME Tick \/ SetClock \/ UNCHANGED reportVars
  PROVE  UNCHANGED <<vars, stats, calls>>
  BY DEF Tick, SetClock, reportVars, numbers, history

\* The numbers stay those of the nodes and stay words.
LEMMA NumbersStayTyped ==
  ASSUME SInv, SInv', ClockTyped, MarkersTrue, NumbersTyped, [ReportNext]_reportVars
  PROVE  NumbersTyped'
  <1>1. ASSUME NEW r \in Records, NEW t \in Threads, NEW name \in Names, Open(r, t, name)
        PROVE  NumbersTyped'
    BY <1>1, OpenEnters, EnteredKeepsTyped
  <1>2. ASSUME NEW r \in Records, Close(r) PROVE NumbersTyped'
    BY <1>2, CloseCharges, ChargedKeepsTyped
  <1>3. CASE ReportAll \/ CloseAll \/ \E t \in Threads : ReportOne(t) \/ CloseOne(t)
    BY <1>3, MaintenanceKeeps, MaintenanceKeepsTyped
  <1>4. CASE Tick \/ SetClock \/ UNCHANGED reportVars
    BY <1>4, ClockLeavesNumbers DEF NumbersTyped, TreeTyped, vars, IsOpen, Live
  <1>5. QED BY <1>1, <1>2, <1>3, <1>4 DEF ReportNext

-----------------------------------------------------------------------------
(* The bound of the model on the calls *)

\* The calls measured in one tree.
CallsIn(a) == Total([n \in DOMAIN calls[a] |-> Len(calls[a][n].total)], DOMAIN calls[a])

\* No node has more calls than its tree, and no tree more than all.
LEMMA CallsAdd ==
  ASSUME NumbersTyped
  PROVE  /\ CallsMade = Total([a \in Trees |-> CallsIn(a)], Trees) /\ CallsMade \in Nat
         /\ \A a \in Trees : /\ CallsIn(a) \in Nat /\ CallsIn(a) <= CallsMade
                             /\ \A n \in DOMAIN calls[a] : /\ Len(calls[a][n].total) \in Nat
                                                         /\ Len(calls[a][n].total) <= CallsIn(a)
  <1>1. ASSUME NEW a \in Trees
        PROVE  /\ CallsIn(a) \in Nat
               /\ \A n \in DOMAIN calls[a] : /\ Len(calls[a][n].total) \in Nat
                                           /\ Len(calls[a][n].total) <= CallsIn(a)
    <2>1. PICK f : f = [n \in DOMAIN calls[a] |-> Len(calls[a][n].total)]
      OBVIOUS
    <2>2. IsFiniteSet(DOMAIN calls[a]) /\ \A n \in DOMAIN calls[a] : calls[a][n] \in Log
      BY DEF NumbersTyped, TreeTyped
    <2>3. \A n \in DOMAIN calls[a] : f[n] \in Nat /\ f[n] = Len(calls[a][n].total)
      BY <2>1, <2>2 DEF Log
    <2>4. Total(f, DOMAIN calls[a]) \in Nat
          /\ \A n \in DOMAIN calls[a] : f[n] <= Total(f, DOMAIN calls[a])
      BY <2>2, <2>3, TotalOfOne, TotalCoversOne
    <2>5. QED BY <2>1, <2>3, <2>4 DEF CallsIn
  <1>2. PICK g : g = [a \in Trees |-> CallsIn(a)]
    OBVIOUS
  <1>3. CallsMade = Total(g, Trees)
    <2>1. g = [a \in Trees |-> SumFunction([n \in DOMAIN calls[a] |-> Len(calls[a][n].total)])]
      BY <1>2 DEF CallsIn, Total, SumFunction
    <2>2. CallsMade = SumFunction(g)
      BY <2>1 DEF CallsMade
    <2>3. DOMAIN g = Trees
      BY <1>2
    <2>4. QED BY <2>2, <2>3 DEF SumFunction, Total
  <1>4. \A a \in Trees : g[a] \in Nat /\ g[a] = CallsIn(a)
    BY <1>1, <1>2
  <1>5. Total(g, Trees) \in Nat /\ \A a \in Trees : g[a] <= Total(g, Trees)
    BY <1>4, ReportAssumption, TotalOfOne, TotalCoversOne
  <1>6. QED BY <1>1, <1>2, <1>3, <1>4, <1>5

\* What CallsAdd says of a state, in a form that can be primed.
CallsAddUp ==
  /\ CallsMade = Total([a \in Trees |-> CallsIn(a)], Trees) /\ CallsMade \in Nat
  /\ \A a \in Trees : CallsIn(a) \in Nat

\* It holds before the step.
LEMMA CallsAddNow == NumbersTyped => CallsAddUp
  BY CallsAdd DEF CallsAddUp

\* After the step, too.
LEMMA CallsAddNext == NumbersTyped' => CallsAddUp'
  BY CallsAddNow, PTL

\* What a step does to the calls of each tree adds up.
LEMMA CallsMadeChanges ==
  ASSUME NumbersTyped, NumbersTyped'
  PROVE  /\ (\A a \in Trees : CallsIn(a)' <= CallsIn(a)) => CallsMade' <= CallsMade
         /\ \A a \in Trees : /\ CallsIn(a)' = CallsIn(a) + 1
                             /\ \A b \in Trees \ {a} : CallsIn(b)' = CallsIn(b)
                             => CallsMade' = CallsMade + 1
  <1>1. PICK f : f = [a \in Trees |-> CallsIn(a)]
    OBVIOUS
  <1>2. PICK g : g = [a \in Trees |-> CallsIn(a)']
    OBVIOUS
  <1>3. CallsMade = Total(f, Trees) /\ \A a \in Trees : f[a] \in Nat /\ f[a] = CallsIn(a)
    BY <1>1, CallsAdd
  <1>4. CallsMade' = Total(g, Trees) /\ \A a \in Trees : g[a] \in Nat /\ g[a] = CallsIn(a)'
    BY <1>2, CallsAddNext DEF CallsAddUp
  <1>5. (\A a \in Trees : CallsIn(a)' <= CallsIn(a)) => CallsMade' <= CallsMade
    BY <1>3, <1>4, ReportAssumption, TotalMonotonic
  <1>6. ASSUME NEW a \in Trees, CallsIn(a)' = CallsIn(a) + 1,
               \A b \in Trees \ {a} : CallsIn(b)' = CallsIn(b)
        PROVE  CallsMade' = CallsMade + 1
    <2>1. Total(g, Trees) + f[a] = Total(f, Trees) + g[a]
          /\ Total(f, Trees) \in Nat /\ Total(g, Trees) \in Nat
      BY <1>3, <1>4, <1>6, ReportAssumption, TotalOfOneChanged
    <2>2. g[a] = f[a] + 1 /\ f[a] \in Nat
      BY <1>3, <1>4, <1>6
    <2>3. QED BY <1>3, <1>4, <2>1, <2>2
  <1>7. QED BY <1>5, <1>6

\* A tree has as many calls as before if its nodes have.
LEMMA SameCallsIn ==
  ASSUME NEW a, DOMAIN calls'[a] = DOMAIN calls[a], IsFiniteSet(DOMAIN calls[a]),
         \A n \in DOMAIN calls[a] : calls'[a][n].total = calls[a][n].total
  PROVE  CallsIn(a)' = CallsIn(a)
  <1>1. PICK f : f = [n \in DOMAIN calls[a] |-> Len(calls[a][n].total)]
    OBVIOUS
  <1>2. PICK g : g = [n \in DOMAIN calls'[a] |-> Len(calls'[a][n].total)]
    OBVIOUS
  <1>3. \A n \in DOMAIN calls[a] : g[n] = f[n]
    BY <1>1, <1>2
  <1>4. Total(g, DOMAIN calls[a]) = Total(f, DOMAIN calls[a])
    BY <1>3, TotalAgrees
  <1>5. QED BY <1>1, <1>2, <1>4 DEF CallsIn

\* A node that is entered has no calls yet.
LEMMA EnteredKeepsBound ==
  ASSUME NumbersTyped, NumbersTyped', CallsBounded, NEW r \in Records, NEW t \in Threads,
         NEW a \in Trees, NEW n \in Node \ {Root}, Entered(r, t, a, n)
  PROVE  CallsBounded'
  <1> USE DEF Entered
  <1>1. CallsIn(a)' = CallsIn(a)
    <2>1. TreeTyped(a)
      BY DEF NumbersTyped
    <2>2. CASE n \in DOMAIN calls[a]
      <3>1. DOMAIN calls'[a] = DOMAIN calls[a] /\ \A m \in DOMAIN calls[a] : calls'[a][m] = calls[a][m]
        BY <2>2
      <3>2. QED BY <2>1, <3>1, SameCallsIn DEF TreeTyped
    <2>3. CASE n \notin DOMAIN calls[a]
      <3>1. PICK D : D = DOMAIN calls[a] /\ IsFiniteSet(D) /\ n \notin D
        BY <2>1, <2>3 DEF TreeTyped
      <3>2. PICK f : f = [m \in D |-> Len(calls[a][m].total)]
        OBVIOUS
      <3>3. PICK g : g = [m \in D \cup {n} |-> Len(calls'[a][m].total)]
        OBVIOUS
      <3>4. \A m \in D : calls'[a][m] = calls[a][m]
        BY <3>1
      <3>5. \A m \in D : g[m] = f[m] /\ f[m] \in Nat
        BY <2>1, <3>1, <3>2, <3>3, <3>4 DEF TreeTyped, Log
      <3>6. g[n] = 0
        BY <3>1, <3>3 DEF NoLog
      <3>7. Total(g, D \cup {n}) = 0 + Total(f, D) /\ Total(f, D) \in Nat
        BY <3>1, <3>5, <3>6, TotalOfOneMore, TotalOfOne
      <3>8. DOMAIN calls'[a] = D \cup {n}
        BY <3>1
      <3>9. Total(g, D \cup {n}) = Total(f, D)
        BY <3>7
      <3>10. CallsIn(a) = Total(f, D)
        BY <3>1, <3>2 DEF CallsIn
      <3>11. CallsIn(a)' = Total(g, D \cup {n})
        BY <3>3, <3>8 DEF CallsIn
      <3>12. QED BY <3>9, <3>10, <3>11
    <2>4. QED BY <2>2, <2>3
  <1>2. \A b \in Trees \ {a} : CallsIn(b)' = CallsIn(b)
    BY DEF CallsIn
  <1>3. \A b \in Trees : CallsIn(b) \in Nat
    BY CallsAdd
  <1>4. \A b \in Trees : CallsIn(b)' <= CallsIn(b)
    BY <1>1, <1>2, <1>3
  <1>5. CallsMade' <= CallsMade
    BY <1>4, CallsMadeChanges
  <1>6. CallsMade \in Nat /\ CallsMade' \in Nat
    BY CallsAdd, CallsAddNext DEF CallsAddUp
  <1>7. QED BY <1>5, <1>6, ReportAssumption DEF CallsBounded

\* A tree has one call more if one of its nodes has.
LEMMA OneMoreCallIn ==
  ASSUME NEW a, TreeTyped(a), DOMAIN calls'[a] = DOMAIN calls[a],
         NEW n \in DOMAIN calls[a], NEW c, calls'[a][n].total = Append(calls[a][n].total, c),
         \A m \in DOMAIN calls[a] \ {n} : calls'[a][m] = calls[a][m]
  PROVE  CallsIn(a)' = CallsIn(a) + 1
  <1>1. PICK D : D = DOMAIN calls[a] /\ D = DOMAIN calls'[a] /\ IsFiniteSet(D) /\ n \in D
    BY DEF TreeTyped
  <1>2. PICK f : f = [m \in D |-> Len(calls[a][m].total)]
    OBVIOUS
  <1>3. PICK g : g = [m \in D |-> Len(calls'[a][m].total)]
    OBVIOUS
  <1>4. \A m \in D : calls[a][m].total \in Seq(Call)
    BY <1>1 DEF TreeTyped, Log
  <1>5. \A m \in D : f[m] \in Nat
    BY <1>2, <1>4
  <1>6. \A m \in D \ {n} : g[m] = f[m]
    BY <1>1, <1>2, <1>3
  <1>7. g[n] = f[n] + 1 /\ f[n] \in Nat /\ g[n] \in Nat
    <2>1. PICK log \in Seq(Call) : log = calls[a][n].total
      BY <1>1, <1>4
    <2>2. Len(Append(log, c)) = Len(log) + 1
      OBVIOUS
    <2>3. f[n] = Len(log) /\ g[n] = Len(Append(log, c)) /\ f[n] \in Nat
      BY <1>1, <1>2, <1>3, <1>5, <2>1
    <2>4. QED BY <2>2, <2>3
  <1>8. Total(g, D) + f[n] = Total(f, D) + g[n] /\ Total(f, D) \in Nat /\ Total(g, D) \in Nat
    BY <1>1, <1>5, <1>6, <1>7, TotalOfOneChanged
  <1>9. Total(g, D) = Total(f, D) + 1
    BY <1>7, <1>8
  <1>10. QED BY <1>1, <1>2, <1>3, <1>9 DEF CallsIn

\* One call more is measured, within the bound.
LEMMA ChargedKeepsBound ==
  ASSUME NumbersTyped, NumbersTyped', CallsMade < MaxCalls, NEW r \in Records,
         NEW a \in Trees, NEW n \in Node \ {Root}, Charged(r, a, n)
  PROVE  CallsBounded'
  <1> USE DEF Charged
  <1>1. ASSUME NEW b \in Trees \ {a} PROVE CallsIn(b)' = CallsIn(b)
    <2>1. IsFiniteSet(DOMAIN calls[b])
      BY DEF NumbersTyped, TreeTyped
    <2>2. \A m \in DOMAIN calls[b] : calls'[b][m] = calls[b][m]
      OBVIOUS
    <2>3. QED BY <2>1, <2>2, SameCallsIn
  <1>2. CallsIn(a)' = CallsIn(a) + 1
    <2>1. TreeTyped(a) /\ n \in DOMAIN calls[a]
      BY DEF NumbersTyped
    <2>2. PICK c : calls'[a][n].total = Append(calls[a][n].total, c)
      <3>1. calls'[a][n].total = Append(calls[a][n].total, TrueCall(r))
        BY <2>1
      <3>2. QED BY <3>1
    <2>3. \A m \in DOMAIN calls[a] \ {n} : calls'[a][m] = calls[a][m]
      BY <2>1
    <2>4. DOMAIN calls'[a] = DOMAIN calls[a]
      OBVIOUS
    <2> HIDE DEF Charged
    <2>5. QED BY <2>1, <2>2, <2>3, <2>4, OneMoreCallIn
  <1>3. CallsMade' = CallsMade + 1
    BY <1>1, <1>2, CallsMadeChanges
  <1>4. CallsMade \in Nat
    BY CallsAdd
  <1>5. QED BY <1>3, <1>4, ReportAssumption DEF CallsBounded

\* Reports and closes make no calls.
LEMMA MaintenanceKeepsBound ==
  ASSUME NumbersTyped, NumbersTyped', CallsBounded, \A a \in Trees : Gone(a) \/ Kept(a)
  PROVE  CallsBounded'
  <1>1. ASSUME NEW a \in Trees, Kept(a) PROVE CallsIn(a)' = CallsIn(a)
    <2>1. TreeTyped(a)
      BY DEF NumbersTyped
    <2>2. \A n \in DOMAIN calls[a] : calls'[a][n].total = calls[a][n].total
      BY <1>1, <2>1, LogRestarts DEF Kept, TreeTyped
    <2>3. QED BY <1>1, <2>1, <2>2, SameCallsIn DEF Kept, TreeTyped
  <1>2. ASSUME NEW a \in Trees, Gone(a) PROVE CallsIn(a)' = 0
    BY <1>2, TotalOfNone DEF Gone, CallsIn
  <1>3. \A a \in Trees : CallsIn(a) \in Nat
    BY CallsAdd
  <1>4. \A a \in Trees : CallsIn(a)' <= CallsIn(a)
    BY <1>1, <1>2, <1>3
  <1>5. CallsMade' <= CallsMade
    BY <1>4, CallsMadeChanges
  <1>6. CallsMade \in Nat /\ CallsMade' \in Nat
    BY CallsAdd, CallsAddNext DEF CallsAddUp
  <1>7. QED BY <1>5, <1>6, ReportAssumption DEF CallsBounded

\* The calls stay within the bound of the model.
LEMMA CallsStayBounded ==
  ASSUME SInv, NumbersTyped, NumbersTyped', CallsBounded, [ReportNext]_reportVars
  PROVE  CallsBounded'
  <1>1. ASSUME NEW r \in Records, NEW t \in Threads, NEW name \in Names, Open(r, t, name)
        PROVE  CallsBounded'
    BY <1>1, OpenEnters, EnteredKeepsBound
  <1>2. ASSUME NEW r \in Records, Close(r) PROVE CallsBounded'
    <2>1. CallsMade < MaxCalls
      BY <1>2 DEF Close
    <2>2. QED BY <1>2, <2>1, CloseCharges, ChargedKeepsBound
  <1>3. CASE ReportAll \/ CloseAll \/ \E t \in Threads : ReportOne(t) \/ CloseOne(t)
    BY <1>3, MaintenanceKeeps, MaintenanceKeepsBound
  <1>4. CASE Tick \/ SetClock \/ UNCHANGED reportVars
    BY <1>4, ClockLeavesNumbers DEF CallsBounded, CallsMade
  <1>5. QED BY <1>1, <1>2, <1>3, <1>4 DEF ReportNext

-----------------------------------------------------------------------------
(* The numbers tell the calls *)

\* The times of a log add up to no more than so many times the longest.
LEMMA SumOfLog ==
  ASSUME NEW log \in Seq(Call), NEW what \in {"time", "userCPU", "systemCPU"}
  PROVE  /\ SumOf(log, what) \in Nat /\ SumOf(log, what) <= Len(log) * MaxTime
         /\ log = <<>> => SumOf(log, what) = 0
         /\ \A c \in Call : SumOf(Append(log, c), what) = SumOf(log, what) + c[what]
  <1>1. PICK D : D = 1..Len(log) /\ D = DOMAIN log
    OBVIOUS
  <1>2. PICK f : f = [i \in D |-> log[i][what]]
    OBVIOUS
  <1>3. Len(log) \in Nat /\ IsFiniteSet(D) /\ Cardinality(D) = Len(log)
    <2>1. Len(log) \in Nat
      OBVIOUS
    <2>2. QED BY <1>1, <2>1, FS_Interval
  <1>4. \A c \in Call : c[what] \in Nat /\ c[what] <= MaxTime
    BY ReportAssumption DEF Call
  <1>5. \A i \in D : f[i] \in Nat /\ f[i] <= MaxTime
    BY <1>1, <1>2, <1>4
  <1>6. SumOf(log, what) = Total(f, D)
    BY <1>1, <1>2 DEF SumOf, SumFunction, Total
  <1>7. Total(f, D) \in Nat /\ Total(f, D) <= Len(log) * MaxTime
    BY <1>3, <1>5, ReportAssumption, TotalOfOne, TotalBounded
  <1>8. log = <<>> => Total(f, D) = 0
    <2>1. log = <<>> => D = {}
      BY <1>1
    <2>2. QED BY <2>1, TotalOfNone
  <1>9. ASSUME NEW c \in Call PROVE SumOf(Append(log, c), what) = SumOf(log, what) + c[what]
    <2>1. PICK longer : longer = Append(log, c)
      OBVIOUS
    <2>2. PICK k \in Nat : k = Len(log) + 1 /\ k \notin D
      BY <1>1, <1>3
    <2>3. DOMAIN longer = D \cup {k} /\ longer[k] = c /\ \A i \in D : longer[i] = log[i]
      BY <1>1, <1>3, <2>1, <2>2
    <2>4. PICK g : g = [i \in D \cup {k} |-> longer[i][what]]
      OBVIOUS
    <2>5. g[k] = c[what] /\ g[k] \in Nat /\ \A i \in D : g[i] = f[i]
      BY <1>2, <1>4, <2>3, <2>4
    <2>6. Total(g, D \cup {k}) = g[k] + Total(f, D)
      BY <1>3, <1>5, <2>2, <2>5, TotalOfOneMore
    <2>7. SumOf(longer, what) = Total(g, D \cup {k})
      BY <2>3, <2>4 DEF SumOf, SumFunction, Total
    <2>8. QED BY <1>6, <1>7, <2>1, <2>5, <2>6, <2>7
  <1>10. QED BY <1>6, <1>7, <1>8, <1>9

\* The numbers of no calls tell the empty log.
LEMMA NoCallsTell == Tells(NoCalls, <<>>)
  <1>1. PICK log \in Seq(Call) : log = <<>>
    <2>1. <<>> \in Seq(Call)
      OBVIOUS
    <2>2. QED BY <2>1
  <1>2. /\ Len(log) = 0 /\ TimesOf(log) = {}
        /\ SumOf(log, "time") = 0 /\ SumOf(log, "userCPU") = 0 /\ SumOf(log, "systemCPU") = 0
    <2>1. Len(log) = 0 /\ DOMAIN log = {}
      BY <1>1
    <2>2. TimesOf(log) = {}
      BY <2>1 DEF TimesOf
    <2>3. QED BY <1>1, <2>1, <2>2, SumOfLog
  <1>3. /\ NoCalls.count = 0 /\ NoCalls.time = 0 /\ NoCalls.max = 0
        /\ NoCalls.min = INITIAL_MIN_VALUE /\ NoCalls.userCPU = 0 /\ NoCalls.systemCPU = 0
    BY DEF NoCalls
  <1>4. IsMax(0, {} \cup {0}) /\ IsMin(INITIAL_MIN_VALUE, {} \cup {INITIAL_MIN_VALUE})
    BY InitialMinAssumption DEF IsMax, IsMin
  <1>5. QED BY <1>1, <1>2, <1>3, <1>4 DEF Tells

\* The sums fit in a word as long as the calls are within the bound.
LEMMA SumsFit ==
  ASSUME NEW n \in Nat, n < MaxCalls, NEW sum \in Nat, sum <= n * MaxTime, NEW x \in 0..MaxTime
  PROVE  sum + x < Modulus /\ n + 1 < Modulus
  <1>1. MaxTime \in Nat /\ MaxCalls \in Nat /\ Modulus \in Nat
        /\ MaxCalls * MaxTime < Modulus /\ MaxCalls < Modulus
    BY ReportAssumption, WidthAssumption
  <1>2. PICK k \in Nat : MaxCalls = n + 1 + k
    <2>1. MaxCalls - (n + 1) \in Nat /\ MaxCalls = n + 1 + (MaxCalls - (n + 1))
      BY <1>1
    <2>2. QED BY <2>1
  <1>3. MaxCalls * MaxTime = n * MaxTime + MaxTime + k * MaxTime
    BY <1>1, <1>2
  <1>4. n * MaxTime \in Nat /\ k * MaxTime \in Nat
    BY <1>1
  <1>5. QED BY <1>1, <1>2, <1>3, <1>4

\* A longer log is undisturbed if the log was and the call is.
LEMMA LongerLog ==
  ASSUME NEW log \in Seq(Call), NEW c \in Call
  PROVE  /\ Undisturbed(Append(log, c)) => Undisturbed(log) /\ ~c.clockSet
         /\ CPUWasRead(Append(log, c)) => CPUWasRead(log) /\ c.cpuRead
         /\ TimesOf(Append(log, c)) = TimesOf(log) \cup {c.time}
  <1>1. PICK longer : longer = Append(log, c)
    OBVIOUS
  <1>2. PICK k \in Nat : k = Len(log) + 1
    OBVIOUS
  <1>3. /\ DOMAIN longer = DOMAIN log \cup {k} /\ longer[k] = c
        /\ \A i \in DOMAIN log : longer[i] = log[i]
    BY <1>1, <1>2
  <1>4. Undisturbed(longer) => Undisturbed(log) /\ ~c.clockSet
    BY <1>3 DEF Undisturbed
  <1>5. CPUWasRead(longer) => CPUWasRead(log) /\ c.cpuRead
    BY <1>3 DEF CPUWasRead
  <1>6. TimesOf(longer) = TimesOf(log) \cup {c.time}
    BY <1>3 DEF TimesOf
  <1>7. QED BY <1>1, <1>4, <1>5, <1>6

\* One call more: its numbers are added to those that tell the log.
LEMMA AddCallTells ==
  ASSUME NEW told \in Summary, NEW log \in Seq(Call), Tells(told, log), Len(log) < MaxCalls,
         NEW delta \in TimeStamp, NEW c \in Call,
         ~c.clockSet => delta.wallClock = c.time,
         SHOW_CPU /\ c.cpuRead => delta.userCPU = c.userCPU /\ delta.systemCPU = c.systemCPU
  PROVE  Tells(AddCall(told, delta), Append(log, c))
  <1>1. PICK more, longer : more = AddCall(told, delta) /\ longer = Append(log, c)
    OBVIOUS
  <1>2. /\ more.count = Plus(told.count, 1)
        /\ more.time = Plus(told.time, delta.wallClock)
        /\ more.max = IF told.max < delta.wallClock THEN delta.wallClock ELSE told.max
        /\ more.min = IF told.min > delta.wallClock THEN delta.wallClock ELSE told.min
        /\ more.userCPU = Plus(told.userCPU, delta.userCPU)
        /\ more.systemCPU = Plus(told.systemCPU, delta.systemCPU)
    BY <1>1 DEF AddCall
  <1>3. Len(log) \in Nat /\ Len(longer) = Len(log) + 1
    BY <1>1
  <1>4. c.time \in 0..MaxTime /\ c.userCPU \in 0..MaxTime /\ c.systemCPU \in 0..MaxTime
    BY DEF Call
  <1>5. ASSUME NEW what \in {"time", "userCPU", "systemCPU"}
        PROVE  /\ SumOf(log, what) \in Nat /\ c[what] \in Nat
               /\ SumOf(longer, what) = SumOf(log, what) + c[what]
               /\ Plus(SumOf(log, what), c[what]) = SumOf(log, what) + c[what]
    <2>1. /\ SumOf(log, what) \in Nat /\ SumOf(log, what) <= Len(log) * MaxTime
          /\ SumOf(longer, what) = SumOf(log, what) + c[what]
      BY <1>1, SumOfLog
    <2>2. c[what] \in 0..MaxTime /\ c[what] \in Nat
      BY <1>4, ReportAssumption
    <2>3. SumOf(log, what) + c[what] < Modulus
      BY <1>3, <2>1, <2>2, SumsFit
    <2>4. QED BY <2>1, <2>2, <2>3, WordArithmetic
  <1>6. more.count = Len(longer)
    <2>1. told.count = Len(log)
      BY DEF Tells
    <2>2. Len(log) + 1 < Modulus
      BY <1>3, WidthAssumption, ReportAssumption
    <2>3. QED BY <1>2, <1>3, <2>1, <2>2, WordArithmetic
  <1>7. ASSUME Undisturbed(longer)
        PROVE  /\ more.time = SumOf(longer, "time")
               /\ IsMax(more.max, TimesOf(longer) \cup {0})
               /\ IsMin(more.min, TimesOf(longer) \cup {INITIAL_MIN_VALUE})
    <2>1. Undisturbed(log) /\ ~c.clockSet
      BY <1>1, <1>7, LongerLog
    <2>2. delta.wallClock = c.time
      BY <2>1
    <2>3. /\ told.time = SumOf(log, "time")
          /\ IsMax(told.max, TimesOf(log) \cup {0})
          /\ IsMin(told.min, TimesOf(log) \cup {INITIAL_MIN_VALUE})
      BY <2>1 DEF Tells
    <2>4. more.time = SumOf(longer, "time")
      BY <1>2, <1>5, <2>2, <2>3
    <2>5. TimesOf(longer) = TimesOf(log) \cup {c.time}
      BY <1>1, LongerLog
    <2>6. /\ \A x \in TimesOf(log) : x \in Nat
          /\ c.time \in Nat /\ told.max \in Nat /\ told.min \in Nat
      <3>1. \A x \in TimesOf(log) : x \in Nat
        <4>1. \A i \in DOMAIN log : log[i] \in Call
          OBVIOUS
        <4>2. \A x \in TimesOf(log) : \E d \in Call : x = d.time
          BY <4>1 DEF TimesOf
        <4>3. QED BY <4>2, ReportAssumption DEF Call
      <3>2. told.max \in Nat /\ told.min \in Nat
        BY WidthAssumption DEF Summary, Word
      <3>3. QED BY <1>4, <3>1, <3>2, ReportAssumption
    <2>7. IsMax(more.max, TimesOf(longer) \cup {0})
      BY <1>2, <2>2, <2>3, <2>5, <2>6 DEF IsMax
    <2>8. IsMin(more.min, TimesOf(longer) \cup {INITIAL_MIN_VALUE})
      <3>1. PICK S : S = TimesOf(log) \cup {INITIAL_MIN_VALUE}
        OBVIOUS
      <3>2. /\ \A y \in S : y \in Nat /\ told.min <= y
            /\ told.min \in S /\ TimesOf(longer) \cup {INITIAL_MIN_VALUE} = S \cup {c.time}
        BY <2>3, <2>5, <2>6, <3>1, InitialMinAssumption DEF IsMin
      <3>3. IsMin(more.min, S \cup {c.time})
        BY <1>2, <2>2, <2>6, <3>2 DEF IsMin
      <3>4. QED BY <3>2, <3>3
    <2>9. QED BY <2>4, <2>7, <2>8
  <1>8. ASSUME SHOW_CPU, CPUWasRead(longer)
        PROVE  more.userCPU = SumOf(longer, "userCPU") /\ more.systemCPU = SumOf(longer, "systemCPU")
    <2>1. CPUWasRead(log) /\ c.cpuRead
      BY <1>1, <1>8, LongerLog
    <2>2. delta.userCPU = c.userCPU /\ delta.systemCPU = c.systemCPU
      BY <1>8, <2>1
    <2>3. told.userCPU = SumOf(log, "userCPU") /\ told.systemCPU = SumOf(log, "systemCPU")
      BY <1>8, <2>1 DEF Tells
    <2>4. QED BY <1>2, <1>5, <2>2, <2>3
  <1>9. QED BY <1>1, <1>6, <1>7, <1>8 DEF Tells

\* A node that is entered has the numbers of no calls.
LEMMA EnteredKeepsTelling ==
  ASSUME NumbersTyped, NumbersTell, NEW r \in Records, NEW t \in Threads,
         NEW a \in Trees, NEW n \in Node \ {Root}, Entered(r, t, a, n)
  PROVE  NumbersTell'
  <1>1. ASSUME NEW b \in Trees \ {a}, NEW m \in DOMAIN calls'[b] PROVE NodeTells(b, m)'
    <2>1. calls'[b] = calls[b] /\ stats'[b] = stats[b]
      BY DEF Entered
    <2>2. QED BY <1>1, <2>1 DEF NumbersTell, NodeTells
  <1>2. ASSUME NEW m \in DOMAIN calls'[a] PROVE NodeTells(a, m)'
    <2>1. TreeTyped(a) /\ DOMAIN calls'[a] = DOMAIN calls[a] \cup {n}
          /\ DOMAIN stats'[a] = DOMAIN stats[a] \cup {Root, n}
      BY DEF NumbersTyped, Entered
    <2>2. CASE m \in DOMAIN calls[a]
      <3>1. m \in DOMAIN stats[a]
        BY <2>1, <2>2 DEF TreeTyped
      <3>2. stats'[a][m] = stats[a][m] /\ calls'[a][m] = calls[a][m]
        BY <2>1, <2>2, <3>1 DEF Entered
      <3>3. QED BY <2>2, <3>2 DEF NumbersTell, NodeTells
    <2>3. CASE m \notin DOMAIN calls[a]
      <3>1. m = n /\ m \notin DOMAIN stats[a] /\ m # Root /\ m \in DOMAIN stats'[a]
        BY <2>1, <2>3 DEF TreeTyped
      <3>2. stats'[a][m] = NewStats /\ calls'[a][m] = NoLog
        BY <1>2, <2>3, <3>1 DEF Entered
      <3>3. /\ NewStats.total = NoCalls /\ NewStats.interval = NoCalls
            /\ NoLog.total = <<>> /\ NoLog.interval = <<>>
        BY DEF NewStats, NoLog
      <3>4. QED BY <3>2, <3>3, NoCallsTell DEF NodeTells
    <2>4. QED BY <2>2, <2>3
  <1>3. QED BY <1>1, <1>2 DEF NumbersTell, Entered

\* A measured call is added to the numbers as it is to the logs.
LEMMA ChargedKeepsTelling ==
  ASSUME ClockTyped, MarkersTrue, NumbersTyped, CallsMade < MaxCalls, NumbersTell,
         NEW r \in Records, NEW a \in Trees, NEW n \in Node \ {Root}, Charged(r, a, n)
  PROVE  NumbersTell'
  <1>1. /\ n \in DOMAIN calls[a] /\ n \in DOMAIN stats[a]
        /\ stats[a][n] \in Stats /\ calls[a][n] \in Log
        /\ Len(calls[a][n].interval) <= Len(calls[a][n].total)
    <2>1. TreeTyped(a) /\ Live(a) /\ n \in DOMAIN calls[a]
      BY DEF NumbersTyped, Charged
    <2>2. QED BY <2>1 DEF TreeTyped
  <1>2. PICK delta \in TimeStamp, c \in Call : delta = Measured(r) /\ c = TrueCall(r)
    BY MeasuredIsTrue DEF Charged
  <1>3. /\ ~c.clockSet => delta.wallClock = c.time
        /\ SHOW_CPU /\ c.cpuRead => delta.userCPU = c.userCPU /\ delta.systemCPU = c.systemCPU
    BY <1>2, MeasuredIsTrue DEF Charged
  <1>4. /\ stats[a][n].total \in Summary /\ stats[a][n].interval \in Summary
        /\ calls[a][n].total \in Seq(Call) /\ calls[a][n].interval \in Seq(Call)
    BY <1>1 DEF Stats, Log
  <1>5. Len(calls[a][n].total) < MaxCalls /\ Len(calls[a][n].interval) < MaxCalls
    <2>1. /\ Len(calls[a][n].total) \in Nat /\ Len(calls[a][n].total) <= CallsIn(a)
          /\ CallsIn(a) \in Nat /\ CallsIn(a) <= CallsMade /\ CallsMade \in Nat
      BY <1>1, CallsAdd
    <2>2. Len(calls[a][n].interval) \in Nat
      BY <1>4
    <2>3. QED BY <1>1, <2>1, <2>2, ReportAssumption
  <1>6. NodeTells(a, n)
    BY <1>1 DEF NumbersTell
  <1>7. /\ Tells(AddCall(stats[a][n].total, delta), Append(calls[a][n].total, c))
        /\ Tells(AddCall(stats[a][n].interval, delta), Append(calls[a][n].interval, c))
    <2>1. Tells(stats[a][n].total, calls[a][n].total)
          /\ Tells(stats[a][n].interval, calls[a][n].interval)
      BY <1>6 DEF NodeTells
    <2>2. QED BY <1>3, <1>4, <1>5, <2>1, AddCallTells
  <1>8. /\ stats'[a][n].total = AddCall(stats[a][n].total, delta)
        /\ stats'[a][n].interval = AddCall(stats[a][n].interval, delta)
    <2>1. stats'[a][n] = IncrementStats(stats[a][n], delta)
      BY <1>1, <1>2 DEF Charged
    <2>2. QED BY <2>1 DEF IncrementStats
  <1>9. /\ calls'[a][n].total = Append(calls[a][n].total, c)
        /\ calls'[a][n].interval = Append(calls[a][n].interval, c)
    <2>1. PICK total, interval : /\ total = Append(calls[a][n].total, c)
                                 /\ interval = Append(calls[a][n].interval, c)
      OBVIOUS
    <2>2. calls'[a][n] = [total |-> total, interval |-> interval]
      BY <1>1, <1>2, <2>1 DEF Charged
    <2>3. calls'[a][n].total = total /\ calls'[a][n].interval = interval
      BY <2>2
    <2>4. QED BY <2>1, <2>3
  <1>10. NodeTells(a, n)'
    BY <1>7, <1>8, <1>9 DEF NodeTells
  <1>11. ASSUME NEW b \in Trees, NEW m \in DOMAIN calls[b], ~(b = a /\ m = n)
         PROVE  NodeTells(b, m)'
    <2>1. m \in DOMAIN stats[b]
      BY DEF NumbersTyped, TreeTyped
    <2>2. stats'[b][m] = stats[b][m] /\ calls'[b][m] = calls[b][m]
      BY <1>11, <2>1 DEF Charged
    <2>3. NodeTells(b, m)
      BY DEF NumbersTell
    <2>4. QED BY <2>2, <2>3 DEF NodeTells
  <1>12. \A b \in Trees : DOMAIN calls'[b] = DOMAIN calls[b]
    BY DEF Charged
  <1>13. QED BY <1>10, <1>11, <1>12 DEF NumbersTell

\* A report starts the interval of the numbers and of the logs again.
LEMMA MaintenanceKeepsTelling ==
  ASSUME NumbersTyped, NumbersTell, \A a \in Trees : Gone(a) \/ Kept(a)
  PROVE  NumbersTell'
  <1>1. ASSUME NEW a \in Trees, Kept(a), NEW n \in DOMAIN calls'[a] PROVE NodeTells(a, n)'
    <2>1. /\ n \in DOMAIN calls[a] /\ n \in DOMAIN stats[a]
          /\ stats[a][n] \in Stats /\ calls[a][n] \in Log
      BY <1>1 DEF Kept, NumbersTyped, TreeTyped
    <2>2. NodeTells(a, n)
      BY <2>1 DEF NumbersTell
    <2>3. CASE stats'[a][n] = stats[a][n] /\ calls'[a][n] = calls[a][n]
      BY <2>2, <2>3 DEF NodeTells
    <2>4. CASE /\ stats'[a][n] = ResetInterval(stats[a][n])
               /\ calls'[a][n] = [calls[a][n] EXCEPT !.interval = <<>>]
      <3>1. stats'[a][n].total = stats[a][n].total /\ stats'[a][n].interval = NoCalls
        BY <2>1, <2>4 DEF ResetInterval, Stats
      <3>2. calls'[a][n].total = calls[a][n].total /\ calls'[a][n].interval = <<>>
        BY <2>1, <2>4, LogRestarts
      <3>3. QED BY <2>2, <3>1, <3>2, NoCallsTell DEF NodeTells
    <2>5. QED BY <1>1, <2>1, <2>3, <2>4 DEF Kept
  <1>2. ASSUME NEW a \in Trees, Gone(a) PROVE DOMAIN calls'[a] = {}
    BY <1>2 DEF Gone
  <1>3. QED BY <1>1, <1>2 DEF NumbersTell

\* The numbers go on telling the calls.
LEMMA NumbersStayTelling ==
  ASSUME SInv, ClockTyped, MarkersTrue, NumbersTyped, NumbersTell, [ReportNext]_reportVars
  PROVE  NumbersTell'
  <1>1. ASSUME NEW r \in Records, NEW t \in Threads, NEW name \in Names, Open(r, t, name)
        PROVE  NumbersTell'
    BY <1>1, OpenEnters, EnteredKeepsTelling
  <1>2. ASSUME NEW r \in Records, Close(r) PROVE NumbersTell'
    <2>1. CallsMade < MaxCalls
      BY <1>2 DEF Close
    <2>2. QED BY <1>2, <2>1, CloseCharges, ChargedKeepsTelling
  <1>3. CASE ReportAll \/ CloseAll \/ \E t \in Threads : ReportOne(t) \/ CloseOne(t)
    BY <1>3, MaintenanceKeeps, MaintenanceKeepsTelling
  <1>4. CASE Tick \/ SetClock \/ UNCHANGED reportVars
    BY <1>4, ClockLeavesNumbers DEF NumbersTell, NodeTells
  <1>5. QED BY <1>1, <1>2, <1>3, <1>4 DEF ReportNext

-----------------------------------------------------------------------------
(* A node covers its children *)

\* Record r is open at node n of the tree at a.
At(r, a, n) == IsOpen(r) /\ rec[r].tree = a /\ rec[r].node = n

\* What the argument about nesting rests on.
NestingBase == SInv /\ ClockTyped /\ MarkersTrue /\ NumbersTyped

\* At most one record is open at a node, and it is the open time there.
SpentKnown ==
  /\ \A a \in Trees, n \in Node : \A q, r \in Records : At(q, a, n) /\ At(r, a, n) => q = r
  /\ \A a \in Trees, n \in Node :
       /\ \A r \in Records : At(r, a, n) => OpenTime(a, n) = now - began[r].time
       /\ (\A r \in Records : ~At(r, a, n)) => OpenTime(a, n) = 0
       /\ OpenTime(a, n) \in Nat
  /\ \A a \in Trees : \A n \in DOMAIN calls[a] :
       n \in Node \ {Root} /\ SumOf(calls[a][n].total, "time") \in Nat /\ Spent(a, n) \in Nat

\* A thread has one tree and a node is on its stack once, so one record is
\* open at a node.
LEMMA SpentIsKnown == NestingBase => SpentKnown
  <1>1. SUFFICES ASSUME NestingBase PROVE SpentKnown
    OBVIOUS
  <1>2. ASSUME NEW a \in Trees, NEW n \in Node, NEW q \in Records, NEW r \in Records,
               At(q, a, n), At(r, a, n)
        PROVE  q = r
    <2>1. /\ rec[q] \in [thread : Threads, tree : Trees, node : Node \ {Root}]
          /\ rec[r] \in [thread : Threads, tree : Trees, node : Node \ {Root}]
          /\ HasTree(rec[q].thread) /\ mapThreads[rec[q].thread] = a
          /\ HasTree(rec[r].thread) /\ mapThreads[rec[r].thread] = a
      BY <1>1, <1>2, OpenRecordIsCall DEF At, NestingBase
    <2>2. rec[q].thread = rec[r].thread
      BY <1>1, <2>1 DEF NestingBase, SInv, IInv, TableConsistent
    <2>3. rec[q] = rec[r]
      BY <1>2, <2>1, <2>2 DEF At
    <2>4. Attached(q) /\ Attached(r)
      BY <1>1, <1>2 DEF At, NestingBase, SInv, MemorySafe
    <2>5. QED BY <1>1, <2>3, <2>4 DEF NestingBase, SInv, IInv, OpenRecordsOnStack
  <1>3. ASSUME NEW a \in Trees, NEW n \in Node
        PROVE  /\ \A r \in Records : At(r, a, n) => OpenTime(a, n) = now - began[r].time
               /\ (\A r \in Records : ~At(r, a, n)) => OpenTime(a, n) = 0
               /\ OpenTime(a, n) \in Nat
    <2>1. PICK here : here = {r \in Records : At(r, a, n)}
      OBVIOUS
    <2>2. PICK f : f = [r \in here |-> now - began[r].time]
      OBVIOUS
    <2>3. OpenTime(a, n) = Total(f, here)
      BY <2>1, <2>2 DEF OpenTime, At, SumFunction, Total
    <2>4. CASE here = {}
      <3>1. OpenTime(a, n) = 0
        BY <2>3, <2>4, TotalOfNone
      <3>2. QED BY <2>1, <2>4, <3>1
    <2>5. CASE here # {}
      <3>1. PICK r \in Records : here = {r} /\ At(r, a, n)
        BY <1>2, <2>1, <2>5
      <3>2. f[r] = now - began[r].time /\ f[r] \in Nat
        <4>1. began[r].time \in Nat /\ began[r].time <= now /\ now \in Nat
          BY <1>1, <3>1, MachineFits, ReportAssumption
          DEF NestingBase, At, MarkersTrue, MarkerTrue, Began
        <4>2. QED BY <2>2, <3>1, <4>1
      <3>3. Total(f, {r}) = f[r] + Total(f, {})
        <4>1. IsFiniteSet({r}) /\ {r} \ {r} = {}
          BY FS_Singleton
        <4>2. QED BY <3>2, <4>1, TotalOfOne
      <3>4. OpenTime(a, n) = now - began[r].time
        BY <2>3, <3>1, <3>2, <3>3, TotalOfNone
      <3>5. QED BY <1>2, <3>1, <3>2, <3>4
    <2>6. QED BY <2>4, <2>5
  <1>4. ASSUME NEW a \in Trees, NEW n \in DOMAIN calls[a]
        PROVE  /\ n \in Node \ {Root} /\ SumOf(calls[a][n].total, "time") \in Nat
               /\ Spent(a, n) \in Nat
    <2>1. n \in Node \ {Root} /\ calls[a][n].total \in Seq(Call)
      BY <1>1 DEF NestingBase, NumbersTyped, TreeTyped, Log
    <2>2. SumOf(calls[a][n].total, "time") \in Nat
      BY <2>1, SumOfLog
    <2>3. QED BY <1>3, <2>1, <2>2 DEF Spent
  <1>5. QED BY <1>2, <1>3, <1>4 DEF SpentKnown

\* After the step, too.
LEMMA SpentIsKnownNext == NestingBase' => SpentKnown'
  BY SpentIsKnown, PTL

\* The same records open at the same time at a node are the same open time.
LEMMA SameOpenTime ==
  ASSUME SpentKnown, SpentKnown', now' = now, NEW a \in Trees, NEW n \in Node,
         \A r \in Records : At(r, a, n)' <=> At(r, a, n),
         \A r \in Records : At(r, a, n) => began'[r].time = began[r].time
  PROVE  OpenTime(a, n)' = OpenTime(a, n)
  <1>1. CASE \E r \in Records : At(r, a, n)
    <2>1. PICK r \in Records : At(r, a, n) /\ At(r, a, n)'
      BY <1>1
    <2>2. OpenTime(a, n) = now - began[r].time /\ OpenTime(a, n)' = now' - began'[r].time
      BY <2>1 DEF SpentKnown
    <2>3. QED BY <2>1, <2>2
  <1>2. CASE \A r \in Records : ~At(r, a, n)
    <2>1. \A r \in Records : ~At(r, a, n)'
      BY <1>2
    <2>2. OpenTime(a, n) = 0 /\ OpenTime(a, n)' = 0
      BY <1>2, <2>1 DEF SpentKnown
    <2>3. QED BY <2>2
  <1>3. QED BY <1>1, <1>2

\* The nodes of a tree nest if the time spent at them did not change.
LEMMA SameTimeNests ==
  ASSUME NEW a \in Trees, TreeTyped(a), TreeNests(a), DOMAIN calls'[a] = DOMAIN calls[a],
         \A n \in DOMAIN calls[a] : Spent(a, n)' = Spent(a, n)
  PROVE  TreeNests(a)'
  <1>1. ASSUME NEW n \in DOMAIN calls[a]
        PROVE  SumFunction([m \in Children(a, n)' |-> Spent(a, m)'])
                 = SumFunction([m \in Children(a, n) |-> Spent(a, m)])
    <2>1. PICK C : C = Children(a, n) /\ C = Children(a, n)' /\ C \subseteq DOMAIN calls[a]
      BY DEF Children
    <2>2. [m \in C |-> Spent(a, m)'] = [m \in C |-> Spent(a, m)]
      BY <2>1
    <2>3. QED BY <2>1, <2>2
  <1>2. QED BY <1>1 DEF TreeNests

\* The stack on which an open record has its node: that of the thread of the
\* tree.
LEMMA OpenOnStack ==
  ASSUME SInv, NEW a \in Trees, NEW c \in Node, NEW q \in Records, At(q, a, c)
  PROVE  \E t \in Threads, stack \in Seq(Node) :
           /\ HasTree(t) /\ mapThreads[t] = a /\ stack = trees[a].activeNode
           /\ IsCallPath(stack) /\ Len(stack) \in Nat
           /\ Len(c) \in 1..(Len(stack) - 1) /\ stack[Len(c) + 1] = c
  <1>1. PICK t \in Threads : t = rec[q].thread
    BY OpenRecordIsCall DEF At
  <1>2. HasTree(t) /\ mapThreads[t] = a /\ IsOnStack(c, trees[a])
    BY <1>1, OpenRecordIsCall DEF At
  <1>3. PICK stack : stack = trees[a].activeNode
    OBVIOUS
  <1>4. IsCallPath(stack) /\ stack \in Seq(Node)
    BY <1>2, <1>3, LiveTree DEF SInv, IInv, StackIsCallPath, TypeOK, Tree
  <1>5. QED BY <1>2, <1>3, <1>4 DEF IsOnStack

\* A call is open in the one that made it.
LEMMA OpenChild ==
  ASSUME SInv, NEW a \in Trees, NEW c \in Node, NEW q \in Records, At(q, a, c),
         Parent(c) # Root
  PROVE  \E p \in Records : At(p, a, Parent(c))
  <1>1. PICK t \in Threads, stack \in Seq(Node) :
           /\ HasTree(t) /\ mapThreads[t] = a /\ stack = trees[a].activeNode
           /\ IsCallPath(stack) /\ Len(stack) \in Nat
           /\ Len(c) \in 1..(Len(stack) - 1) /\ stack[Len(c) + 1] = c
    BY OpenOnStack
  <1>2. PICK i \in Nat : i = Len(c) /\ i \in 1..Len(stack) /\ i + 1 \in 2..Len(stack)
    BY <1>1
  <1>3. Parent(c) = stack[i]
    <2>1. Parent(stack[i + 1]) = stack[(i + 1) - 1]
      BY <1>1, <1>2 DEF IsCallPath
    <2>2. (i + 1) - 1 = i /\ stack[i + 1] = c
      BY <1>1, <1>2
    <2>3. QED BY <2>1, <2>2
  <1>4. i \in 2..Len(stack)
    <2>1. i # 1
      <3>1. SUFFICES ASSUME i = 1 PROVE FALSE
        OBVIOUS
      <3>2. Len(stack[1]) = 0 /\ stack[1] \in Node
        BY <1>1, <1>2, <3>1 DEF IsCallPath
      <3>3. QED BY <1>3, <3>1, <3>2 DEF Node, Root
    <2>2. QED BY <1>2, <2>1
  <1>5. PICK p \in Records : rec[p] = [thread |-> t, tree |-> a, node |-> stack[i]]
    BY <1>1, <1>4 DEF SInv, StackMirrorsCalls
  <1>6. QED BY <1>3, <1>5, NullAssumption DEF At, IsOpen, Closed

\* A call is in one other at a time.
LEMMA OneOpenChild ==
  ASSUME SInv, NEW a \in Trees, NEW c \in Node, NEW d \in Node,
         NEW q \in Records, At(q, a, c), NEW p \in Records, At(p, a, d),
         Parent(c) = Parent(d)
  PROVE  c = d
  <1>1. PICK t \in Threads, stack \in Seq(Node) :
           /\ HasTree(t) /\ mapThreads[t] = a /\ stack = trees[a].activeNode
           /\ Len(c) \in 1..(Len(stack) - 1) /\ stack[Len(c) + 1] = c
    BY OpenOnStack
  <1>2. Len(d) \in 1..(Len(trees[a].activeNode) - 1) /\ trees[a].activeNode[Len(d) + 1] = d
    BY OpenOnStack
  <1>3. Len(c) = Len(d)
    <2>1. ASSUME NEW n \in Node, Len(n) \in Nat \ {0} PROVE Len(Parent(n)) = Len(n) - 1
      <3>1. PICK k \in Nat : k = Len(n) - 1
        <4>1. Len(n) - 1 \in Nat
          BY <2>1 DEF Node
        <4>2. QED BY <4>1
      <3>2. k \in 0..Len(n) /\ 1 - 1 <= k
        BY <2>1, <3>1
      <3>3. Len(SubSeq(n, 1, k)) = k
        BY <3>2 DEF Node
      <3>4. QED BY <3>1, <3>3 DEF Parent
    <2>2. Len(c) \in Nat \ {0} /\ Len(d) \in Nat \ {0}
      BY <1>1, <1>2 DEF Node
    <2>3. QED BY <2>1, <2>2
  <1>4. QED BY <1>1, <1>2, <1>3

\* The children of a node as they are summed.
LEMMA ChildrenSum ==
  ASSUME NEW a \in Trees, TreeTyped(a), NEW n
  PROVE  /\ IsFiniteSet(Children(a, n)) /\ Children(a, n) \subseteq DOMAIN calls[a]
         /\ SumFunction([m \in Children(a, n) |-> Spent(a, m)])
              = Total([m \in Children(a, n) |-> Spent(a, m)], Children(a, n))
  <1>1. Children(a, n) \subseteq DOMAIN calls[a]
    BY DEF Children
  <1>2. IsFiniteSet(Children(a, n))
    BY <1>1, FS_Subset DEF TreeTyped
  <1>3. DOMAIN [m \in Children(a, n) |-> Spent(a, m)] = Children(a, n)
    OBVIOUS
  <1>4. QED BY <1>1, <1>2, <1>3 DEF SumFunction, Total

\* A unit of time passes at the node of each open call.
LEMMA TickAddsTime ==
  ASSUME SpentKnown, SpentKnown', MarkersTrue, now \in Nat, now' = now + 1,
         rec' = rec, calls' = calls, began' = began,
         NEW a \in Trees, NEW n \in DOMAIN calls[a]
  PROVE  Spent(a, n)' = IF \E r \in Records : At(r, a, n) THEN Spent(a, n) + 1
                                                          ELSE Spent(a, n)
  <1>1. n \in Node /\ n \in DOMAIN calls'[a] /\ \A r \in Records : At(r, a, n)' <=> At(r, a, n)
    BY DEF SpentKnown, At, IsOpen
  <1>2. PICK x \in Nat : x = SumOf(calls[a][n].total, "time")
    BY DEF SpentKnown
  <1>3. Spent(a, n) = x + OpenTime(a, n) /\ Spent(a, n)' = x + OpenTime(a, n)'
    <2>1. SumOf(calls[a][n].total, "time")' = x
      BY <1>2 DEF SumOf
    <2>2. QED BY <1>2, <2>1 DEF Spent
  <1>4. CASE \E r \in Records : At(r, a, n)
    <2>1. PICK r \in Records : At(r, a, n) /\ At(r, a, n)'
      BY <1>1, <1>4
    <2>2. OpenTime(a, n) = now - began[r].time /\ OpenTime(a, n)' = now' - began'[r].time
      BY <1>1, <2>1 DEF SpentKnown
    <2>3. began[r].time \in Nat
      BY <2>1, ReportAssumption DEF MarkersTrue, Began
    <2>4. QED BY <1>2, <1>3, <1>4, <2>2, <2>3
  <1>5. CASE \A r \in Records : ~At(r, a, n)
    <2>1. OpenTime(a, n) = 0 /\ OpenTime(a, n)' = 0
      BY <1>1, <1>5 DEF SpentKnown
    <2>2. QED BY <1>3, <1>5, <2>1
  <1>6. QED BY <1>4, <1>5

\* So it passes at a node if it passes at a child, and at one child only.
LEMMA TickNests ==
  ASSUME NestingBase, NestingBase', TimeNests, now' = now + 1,
         rec' = rec, calls' = calls, began' = began
  PROVE  TimeNests'
  <1>1. SpentKnown /\ SpentKnown'
    BY SpentIsKnown, SpentIsKnownNext
  <1>2. SInv /\ MarkersTrue /\ now \in Nat
    BY MachineFits DEF NestingBase
  <1>3. ASSUME NEW a \in Trees, NEW n \in DOMAIN calls[a]
        PROVE  SumFunction([m \in Children(a, n) |-> Spent(a, m)])' <= Spent(a, n)'
    <2>1. PICK C : C = Children(a, n) /\ C = Children(a, n)'
      BY DEF Children
    <2>2. PICK f : f = [m \in C |-> Spent(a, m)]
      OBVIOUS
    <2>3. PICK g : g = [m \in C |-> Spent(a, m)']
      OBVIOUS
    <2>4. TreeTyped(a) /\ TreeTyped(a)'
      BY DEF NestingBase, NumbersTyped
    <2>5. /\ IsFiniteSet(C) /\ C \subseteq DOMAIN calls[a]
          /\ Total(f, C) = SumFunction([m \in Children(a, n) |-> Spent(a, m)])
      BY <2>1, <2>2, <2>4, ChildrenSum
    <2>6. SumFunction([m \in Children(a, n) |-> Spent(a, m)])' = Total(g, C)
      <3>1. DOMAIN g = C
        BY <2>3
      <3>2. QED BY <2>1, <2>3, <3>1 DEF SumFunction, Total
    <2>7. Total(f, C) <= Spent(a, n)
      BY <2>5 DEF TimeNests, TreeNests
    <2>8. \A m \in DOMAIN calls[a] : Spent(a, m) \in Nat
      BY <1>1 DEF SpentKnown
    <2>9. \A m \in DOMAIN calls[a] :
            Spent(a, m)' = IF \E r \in Records : At(r, a, m) THEN Spent(a, m) + 1
                                                             ELSE Spent(a, m)
      BY <1>1, <1>2, TickAddsTime
    <2>10. \A m \in C : f[m] = Spent(a, m) /\ f[m] \in Nat
      BY <2>2, <2>5, <2>8
    <2>11. \A m \in C : g[m] = IF \E r \in Records : At(r, a, m) THEN f[m] + 1 ELSE f[m]
      BY <2>3, <2>5, <2>9, <2>10
    <2>12. Total(f, C) \in Nat
      BY <2>5, <2>10, TotalOfOne
    <2>13. CASE \A m \in C, r \in Records : ~At(r, a, m)
      <3>1. Total(g, C) = Total(f, C)
        BY <2>5, <2>11, <2>13, TotalAgrees
      <3>2. QED BY <2>6, <2>7, <2>8, <2>9, <2>12, <3>1
    <2>14. CASE \E m \in C, r \in Records : At(r, a, m)
      <3>1. PICK c \in C, q \in Records : At(q, a, c)
        BY <2>14
      <3>2. c \in Node /\ Parent(c) = n /\ n \in Node \ {Root} /\ C \subseteq Node
        BY <1>1, <2>1, <2>5 DEF SpentKnown, Children
      <3>3. \E p \in Records : At(p, a, n)
        BY <1>2, <3>1, <3>2, OpenChild
      <3>4. ASSUME NEW m \in C \ {c} PROVE \A r \in Records : ~At(r, a, m)
        <4>1. Parent(m) = n /\ m \in Node
          BY <2>1, <3>2 DEF Children
        <4>2. QED BY <1>2, <3>1, <3>2, <4>1, OneOpenChild
      <3>5. g[c] = f[c] + 1 /\ \A m \in C \ {c} : g[m] = f[m]
        BY <2>11, <3>1, <3>4
      <3>6. Total(g, C) + f[c] = Total(f, C) + g[c] /\ Total(g, C) \in Nat
        <4>1. g[c] \in Nat
          BY <2>10, <3>5
        <4>2. QED BY <2>5, <2>10, <3>5, <4>1, TotalOfOneChanged
      <3>7. Total(g, C) = Total(f, C) + 1
        BY <2>10, <2>12, <3>5, <3>6
      <3>8. Spent(a, n)' = Spent(a, n) + 1
        BY <2>9, <3>3
      <3>9. QED BY <2>6, <2>7, <2>8, <2>12, <3>7, <3>8
    <2>15. QED BY <2>13, <2>14
  <1>4. QED BY <1>3 DEF TimeNests, TreeNests


\* The same calls returned, and the same are open since the same time.
LEMMA SameSpent ==
  ASSUME SpentKnown, SpentKnown', now' = now, NEW a \in Trees, NEW n \in DOMAIN calls[a],
         calls'[a][n].total = calls[a][n].total,
         \A r \in Records : At(r, a, n)' <=> At(r, a, n),
         \A r \in Records : At(r, a, n) => began'[r].time = began[r].time
  PROVE  Spent(a, n)' = Spent(a, n)
  <1>1. n \in Node
    BY DEF SpentKnown
  <1>2. OpenTime(a, n)' = OpenTime(a, n)
    BY <1>1, SameOpenTime
  <1>3. SumOf(calls[a][n].total, "time")' = SumOf(calls[a][n].total, "time")
    BY DEF SumOf
  <1>4. QED BY <1>2, <1>3 DEF Spent

\* Setting the clock does not change the true time.
LEMMA SetClockNests ==
  ASSUME NestingBase, NestingBase', TimeNests, now' = now, rec' = rec, calls' = calls,
         \A r \in Records : began'[r].time = began[r].time
  PROVE  TimeNests'
  <1>1. SpentKnown /\ SpentKnown'
    BY SpentIsKnown, SpentIsKnownNext
  <1>2. ASSUME NEW a \in Trees PROVE TreeNests(a)'
    <2>1. \A n \in DOMAIN calls[a] : Spent(a, n)' = Spent(a, n)
      BY <1>1, SameSpent DEF At, IsOpen
    <2>2. TreeTyped(a) /\ TreeNests(a)
      BY DEF NestingBase, NumbersTyped, TimeNests
    <2>3. QED BY <2>1, <2>2, SameTimeNests
  <1>3. QED BY <1>2 DEF TimeNests

\* A call that returns was open for as long as it is logged.
LEMMA ChargedNests ==
  ASSUME NestingBase, NestingBase', TimeNests, NEW r \in Records,
         NEW a \in Trees, NEW n \in Node \ {Root}, Charged(r, a, n),
         now' = now, \A q \in Records \ {r} : began'[q] = began[q]
  PROVE  TimeNests'
  <1>1. SpentKnown /\ SpentKnown'
    BY SpentIsKnown, SpentIsKnownNext
  <1>2. /\ At(r, a, n) /\ ~IsOpen(r)' /\ n \in DOMAIN calls[a]
        /\ \A q \in Records \ {r} : rec'[q] = rec[q]
        /\ \A b \in Trees : DOMAIN calls'[b] = DOMAIN calls[b]
        /\ \A b \in Trees : \A m \in DOMAIN calls[b] :
             calls'[b][m] = IF b = a /\ m = n
                            THEN [total |-> Append(calls[a][n].total, TrueCall(r)),
                                  interval |-> Append(calls[a][n].interval, TrueCall(r))]
                            ELSE calls[b][m]
    BY DEF Charged, At
  <1>3. ASSUME NEW b \in Trees, NEW m \in DOMAIN calls[b] PROVE Spent(b, m)' = Spent(b, m)
    <2>1. CASE b = a /\ m = n
      <3>1. PICK log \in Seq(Call) : log = calls[a][n].total
        BY <1>2 DEF NestingBase, NumbersTyped, TreeTyped, Log
      <3>2. PICK c \in Call : c = TrueCall(r)
        BY MeasuredIsTrue, <1>2 DEF NestingBase, At
      <3>3. calls'[a][n].total = Append(log, c)
        BY <1>2, <3>1, <3>2
      <3>4. c.time = now - began[r].time
        BY <3>2 DEF TrueCall
      <3>5. SumOf(log, "time") \in Nat /\ c.time \in Nat
            /\ SumOf(Append(log, c), "time") = SumOf(log, "time") + c.time
        <4>1. c.time \in Nat
          BY ReportAssumption DEF Call
        <4>2. SumOf(Append(log, c), "time") = SumOf(log, "time") + c["time"]
          BY SumOfLog
        <4>3. SumOf(log, "time") \in Nat
          BY SumOfLog
        <4>4. QED BY <4>1, <4>2, <4>3
      <3>6. Spent(a, n) = SumOf(log, "time") + c.time
        <4>1. OpenTime(a, n) = now - began[r].time
          BY <1>1, <1>2 DEF SpentKnown
        <4>2. QED BY <3>1, <3>4, <4>1 DEF Spent
      <3>7. OpenTime(a, n)' = 0
        <4>1. ASSUME NEW q \in Records PROVE ~At(q, a, n)'
          <5>1. CASE q = r
            BY <1>2, <5>1 DEF At
          <5>2. CASE q # r
            <6>1. ~At(q, a, n)
              BY <1>1, <1>2, <5>2 DEF SpentKnown
            <6>2. rec'[q] = rec[q]
              BY <1>2, <5>2
            <6>3. QED BY <6>1, <6>2 DEF At, IsOpen
          <5>3. QED BY <5>1, <5>2
        <4>2. QED BY <1>1, <4>1 DEF SpentKnown
      <3>8. Spent(a, n)' = SumOf(Append(log, c), "time") + 0
        BY <3>3, <3>7 DEF Spent, SumOf
      <3>9. QED BY <2>1, <3>5, <3>6, <3>8
    <2>2. CASE ~(b = a /\ m = n)
      <3>1. calls'[b][m] = calls[b][m]
        BY <1>2, <2>2
      <3>2. ~At(r, b, m) /\ ~At(r, b, m)'
        BY <1>2, <2>2 DEF At
      <3>3. \A q \in Records \ {r} : At(q, b, m)' <=> At(q, b, m)
        BY <1>2 DEF At, IsOpen
      <3>4. /\ \A q \in Records : At(q, b, m)' <=> At(q, b, m)
            /\ \A q \in Records : At(q, b, m) => began'[q].time = began[q].time
        BY <3>2, <3>3
      <3>5. QED BY <1>1, <3>1, <3>4, SameSpent
    <2>3. QED BY <2>1, <2>2
  <1>4. ASSUME NEW b \in Trees PROVE TreeNests(b)'
    <2>1. TreeTyped(b) /\ TreeNests(b) /\ DOMAIN calls'[b] = DOMAIN calls[b]
      BY <1>2 DEF NestingBase, NumbersTyped, TimeNests
    <2>2. QED BY <1>3, <2>1, SameTimeNests
  <1>5. QED BY <1>4 DEF TimeNests

\* Reports and closes leave what was measured of the trees that stay.
LEMMA MaintenanceNests ==
  ASSUME NestingBase, NestingBase', TimeNests,
         rec' = rec, now' = now, began' = began, \A a \in Trees : Gone(a) \/ Kept(a)
  PROVE  TimeNests'
  <1>1. SpentKnown /\ SpentKnown'
    BY SpentIsKnown, SpentIsKnownNext
  <1>2. ASSUME NEW a \in Trees, Gone(a) PROVE TreeNests(a)'
    BY <1>2 DEF Gone, TreeNests
  <1>3. ASSUME NEW a \in Trees, Kept(a) PROVE TreeNests(a)'
    <2>1. TreeTyped(a) /\ TreeNests(a) /\ DOMAIN calls'[a] = DOMAIN calls[a]
      BY <1>3 DEF NestingBase, NumbersTyped, TimeNests, Kept
    <2>2. ASSUME NEW n \in DOMAIN calls[a] PROVE Spent(a, n)' = Spent(a, n)
      <3>1. calls[a][n] \in Log
        BY <2>1 DEF TreeTyped
      <3>2. \/ calls'[a][n] = calls[a][n]
            \/ calls'[a][n] = [calls[a][n] EXCEPT !.interval = <<>>]
        BY <1>3 DEF Kept
      <3>3. calls'[a][n].total = calls[a][n].total
        BY <3>1, <3>2, LogRestarts
      <3>4. QED BY <1>1, <3>3, SameSpent DEF At, IsOpen
    <2>3. QED BY <2>1, <2>2, SameTimeNests
  <1>4. QED BY <1>2, <1>3 DEF TimeNests


\* A node that is entered adds no time: it is open from now on, and was not.
LEMMA EnteredSpends ==
  ASSUME SpentKnown, SpentKnown', NEW r \in Records, NEW t \in Threads,
         NEW a \in Trees, NEW n \in Node \ {Root}, Entered(r, t, a, n),
         now \in Nat, now' = now, began'[r].time = now,
         \A q \in Records \ {r} : began'[q] = began[q]
  PROVE  /\ \A b \in Trees : \A m \in DOMAIN calls[b] : Spent(b, m)' = Spent(b, m)
         /\ n \notin DOMAIN calls[a] => Spent(a, n)' = 0
  <1>1. /\ At(r, a, n)' /\ ~IsOpen(r)
        /\ \A q \in Records \ {r} : rec'[q] = rec[q]
        /\ \A b \in Trees \ {a} : calls'[b] = calls[b]
        /\ DOMAIN calls'[a] = DOMAIN calls[a] \cup {n}
        /\ \A m \in DOMAIN calls'[a] : calls'[a][m] = IF m \in DOMAIN calls[a] THEN calls[a][m]
                                                                          ELSE NoLog
    <2>1. rec'[r] = [thread |-> t, tree |-> a, node |-> n]
      BY DEF Entered
    <2>2. At(r, a, n)'
      BY <2>1, NullAssumption DEF At, IsOpen, Closed
    <2>3. QED BY <2>2 DEF Entered
  <1>2. ASSUME NEW q \in Records PROVE ~At(q, a, n)
    <2>1. CASE q = r
      BY <1>1, <2>1 DEF At
    <2>2. CASE q # r
      <3>1. ~At(q, a, n)'
        BY <1>1, <2>2 DEF SpentKnown
      <3>2. rec'[q] = rec[q]
        BY <1>1, <2>2
      <3>3. QED BY <3>1, <3>2 DEF At, IsOpen
    <2>3. QED BY <2>1, <2>2
  <1>3. OpenTime(a, n) = 0 /\ OpenTime(a, n)' = 0
    <2>1. OpenTime(a, n) = 0
      BY <1>2 DEF SpentKnown
    <2>2. OpenTime(a, n)' = now' - began'[r].time
      BY <1>1 DEF SpentKnown
    <2>3. QED BY <2>1, <2>2
  <1>4. ASSUME NEW b \in Trees, NEW m \in DOMAIN calls[b] PROVE Spent(b, m)' = Spent(b, m)
    <2>1. calls'[b][m] = calls[b][m]
      BY <1>1
    <2>2. CASE b = a /\ m = n
      <3>1. SumOf(calls[a][n].total, "time")' = SumOf(calls[a][n].total, "time")
        BY <2>1, <2>2 DEF SumOf
      <3>2. QED BY <1>3, <2>2, <3>1 DEF Spent
    <2>3. CASE ~(b = a /\ m = n)
      <3>1. ~At(r, b, m) /\ ~At(r, b, m)'
        BY <1>1, <2>3 DEF At
      <3>2. \A q \in Records \ {r} : At(q, b, m)' <=> At(q, b, m)
        BY <1>1 DEF At, IsOpen
      <3>3. /\ \A q \in Records : At(q, b, m)' <=> At(q, b, m)
            /\ \A q \in Records : At(q, b, m) => began'[q].time = began[q].time
        BY <3>1, <3>2
      <3>4. QED BY <2>1, <3>3, SameSpent
    <2>4. QED BY <2>2, <2>3
  <1>5. ASSUME n \notin DOMAIN calls[a] PROVE Spent(a, n)' = 0
    <2>1. PICK log \in Seq(Call) : log = <<>>
      <3>1. <<>> \in Seq(Call)
        OBVIOUS
      <3>2. QED BY <3>1
    <2>2. calls'[a][n] = NoLog
      BY <1>1, <1>5
    <2>3. calls'[a][n].total = log
      BY <2>1, <2>2 DEF NoLog
    <2>4. SumOf(log, "time") = 0
      BY <2>1, SumOfLog
    <2>5. QED BY <1>3, <2>3, <2>4 DEF Spent, SumOf
  <1>6. QED BY <1>4, <1>5

\* A new node has no children yet, and is one more of its parent.
LEMMA EnteredNests ==
  ASSUME NestingBase, NestingBase', TimeNests, NEW r \in Records, NEW t \in Threads,
         NEW a \in Trees, NEW n \in Node \ {Root}, Entered(r, t, a, n),
         now' = now, began'[r].time = now, \A q \in Records \ {r} : began'[q] = began[q]
  PROVE  TimeNests'
  <1>1. SpentKnown /\ SpentKnown' /\ now \in Nat
    BY SpentIsKnown, SpentIsKnownNext, MachineFits DEF NestingBase
  <1>2. /\ \A b \in Trees : \A m \in DOMAIN calls[b] : Spent(b, m)' = Spent(b, m)
        /\ n \notin DOMAIN calls[a] => Spent(a, n)' = 0
    BY <1>1, EnteredSpends
  <1>3. \A b \in Trees : TreeTyped(b) /\ TreeTyped(b)' /\ TreeNests(b)
    BY DEF NestingBase, NumbersTyped, TimeNests
  <1>4. DOMAIN calls'[a] = DOMAIN calls[a] \cup {n} /\ \A b \in Trees \ {a} : calls'[b] = calls[b]
    BY DEF Entered
  <1>5. ASSUME NEW b \in Trees, b # a \/ n \in DOMAIN calls[a] PROVE TreeNests(b)'
    <2>1. DOMAIN calls'[b] = DOMAIN calls[b]
      BY <1>4, <1>5
    <2>2. QED BY <1>2, <1>3, <2>1, SameTimeNests
  <1>6. CASE n \notin DOMAIN calls[a]
    <2>1. ASSUME NEW k \in DOMAIN calls'[a]
          PROVE  SumFunction([m \in Children(a, k) |-> Spent(a, m)])' <= Spent(a, k)'
      <3>1. PICK C : C = Children(a, k)
        OBVIOUS
      <3>2. PICK D : D = Children(a, k)'
        OBVIOUS
      <3>3. PICK f : f = [m \in C |-> Spent(a, m)]
        OBVIOUS
      <3>4. PICK g : g = [m \in D |-> Spent(a, m)']
        OBVIOUS
      <3>5. /\ IsFiniteSet(C) /\ C \subseteq DOMAIN calls[a]
            /\ SumFunction([m \in Children(a, k) |-> Spent(a, m)]) = Total(f, C)
        BY <1>3, <3>1, <3>3, ChildrenSum
      <3>6. SumFunction([m \in Children(a, k) |-> Spent(a, m)])' = Total(g, D)
        <4>1. DOMAIN g = D
          BY <3>4
        <4>2. QED BY <3>2, <3>4, <4>1 DEF SumFunction, Total
      <3>7. Spent(a, k)' \in Nat
        BY <1>1, <2>1 DEF SpentKnown
      <3>8. \A m \in C : f[m] \in Nat /\ Spent(a, m)' = f[m]
        BY <1>1, <1>2, <3>3, <3>5 DEF SpentKnown
      <3>9. CASE k = n
        <4>1. \A m \in DOMAIN calls[a] : Parent(m) # n
          BY <1>3, <1>6 DEF TreeTyped
        <4>2. Parent(n) # n
          <5>1. n \in Seq(Names) /\ n # <<>>
            BY DEF Node, Root
          <5>2. Len(SubSeq(n, 1, Len(n) - 1)) # Len(n)
            BY <5>1
          <5>3. QED BY <5>2 DEF Parent
        <4>3. D = {}
          BY <1>4, <3>2, <3>9, <4>1, <4>2 DEF Children
        <4>4. Total(g, D) = 0
          BY <4>3, TotalOfNone
        <4>5. QED BY <3>6, <3>7, <4>4
      <3>10. CASE k # n
        <4>1. k \in DOMAIN calls[a] /\ Spent(a, k)' = Spent(a, k)
          BY <1>2, <1>4, <2>1, <3>10
        <4>2. Total(f, C) <= Spent(a, k)
          BY <1>3, <3>5, <4>1 DEF TreeNests
        <4>3. Total(g, D) = Total(f, C)
          <5>1. CASE Parent(n) = k
            <6>1. D = C \cup {n} /\ n \notin C
              BY <1>4, <1>6, <3>1, <3>2, <5>1 DEF Children
            <6>2. g[n] = 0 /\ g[n] \in Nat /\ \A m \in C : g[m] = f[m]
              BY <1>2, <1>6, <3>4, <3>8, <6>1
            <6>3. Total(g, D) = g[n] + Total(f, C)
              <7>1. \A m \in C : f[m] \in Nat
                BY <3>8
              <7>2. IsFiniteSet(C)
                BY <3>5
              <7>3. n \notin C
                BY <6>1
              <7>4. g[n] \in Nat
                BY <6>2
              <7>5. \A m \in C : g[m] = f[m]
                BY <6>2
              <7>6. Total(g, C \cup {n}) = g[n] + Total(f, C)
                BY <7>1, <7>2, <7>3, <7>4, <7>5, TotalOfOneMore
              <7>7. QED BY <6>1, <7>6
            <6>4. Total(f, C) \in Nat
              BY <3>5, <3>8, TotalOfOne
            <6>5. QED BY <6>2, <6>3, <6>4
          <5>2. CASE Parent(n) # k
            <6>1. D = C
              BY <1>4, <3>1, <3>2, <5>2 DEF Children
            <6>2. \A m \in C : g[m] = f[m]
              BY <3>4, <3>8, <6>1
            <6>3. QED BY <3>5, <6>1, <6>2, TotalAgrees
          <5>3. QED BY <5>1, <5>2
        <4>4. QED BY <3>6, <4>1, <4>2, <4>3
      <3>11. QED BY <3>9, <3>10
    <2>2. TreeNests(a)'
      BY <2>1 DEF TreeNests
    <2>3. QED BY <1>5, <2>2 DEF TimeNests
  <1>7. CASE n \in DOMAIN calls[a]
    BY <1>5, <1>7 DEF TimeNests
  <1>8. QED BY <1>6, <1>7

\* The time of a node covers that of its children, whatever happens.
LEMMA TimeStaysNested ==
  ASSUME NestingBase, NestingBase', TimeNests, [ReportNext]_reportVars
  PROVE  TimeNests'
  <1>1. ASSUME NEW r \in Records, NEW t \in Threads, NEW name \in Names, Open(r, t, name)
        PROVE  TimeNests'
    <2>1. PICK a \in Trees, n \in Node \ {Root} : Entered(r, t, a, n)
      BY <1>1, OpenEnters DEF NestingBase
    <2>2. PICK b : b = [time |-> now, userCPU |-> machine.userCPU,
                        systemCPU |-> machine.systemCPU, clockSet |-> FALSE]
      OBVIOUS
    <2>3. began' = [began EXCEPT ![r] = b] /\ now' = now
      BY <1>1, <2>2 DEF Open, clocks
    <2>4. began'[r] = b /\ \A q \in Records \ {r} : began'[q] = began[q]
      BY <2>3 DEF NestingBase, MarkersTrue
    <2>5. began'[r].time = now
      BY <2>2, <2>4
    <2>6. QED BY <2>1, <2>3, <2>4, <2>5, EnteredNests
  <1>2. ASSUME NEW r \in Records, Close(r) PROVE TimeNests'
    <2>1. PICK a \in Trees, n \in Node \ {Root} : Charged(r, a, n)
      BY <1>2, CloseCharges DEF NestingBase
    <2>2. now' = now /\ \A q \in Records \ {r} : began'[q] = began[q]
      BY <1>2 DEF Close, clocks, NestingBase, MarkersTrue
    <2>3. QED BY <2>1, <2>2, ChargedNests
  <1>3. CASE ReportAll \/ CloseAll \/ \E t \in Threads : ReportOne(t) \/ CloseOne(t)
    BY <1>3, MaintenanceKeeps, MaintenanceNests DEF NestingBase
  <1>4. CASE Tick
    BY <1>4, TickNests DEF Tick, vars, numbers, history
  <1>5. CASE SetClock
    <2>1. now' = now /\ rec' = rec /\ calls' = calls
      BY <1>5 DEF SetClock, vars, numbers
    <2>2. \A r \in Records : began'[r].time = began[r].time
      <3>1. \A r \in Records : \/ began'[r] = [began[r] EXCEPT !.clockSet = TRUE]
                               \/ began'[r] = began[r]
        BY <1>5 DEF SetClock
      <3>2. \A r \in Records : began[r] \in Began
        BY DEF NestingBase, MarkersTrue
      <3>3. QED BY <3>1, <3>2 DEF Began
    <2>3. QED BY <2>1, <2>2, SetClockNests
  <1>6. CASE UNCHANGED reportVars
    <2>1. now' = now /\ rec' = rec /\ calls' = calls /\ began' = began
      BY <1>6 DEF reportVars, vars, clocks, history
    <2>2. QED BY <2>1, SetClockNests
  <1>7. QED BY <1>1, <1>2, <1>3, <1>4, <1>5, <1>6 DEF ReportNext


-----------------------------------------------------------------------------
(* The invariant is inductive *)

\* Nothing is measured at the start.
LEMMA InitRInv == ReportInit => RInv
  <1>1. SUFFICES ASSUME ReportInit PROVE RInv
    OBVIOUS
  <1> USE <1>1
  <1>2. SInv
    BY InitSInv DEF ReportInit
  <1>3. /\ \A r \in Records : ~IsOpen(r)
        /\ \A t \in Threads : mapThreads[t] = Null
        /\ processFound = FALSE
    BY DEF ReportInit, Init, IsOpen
  <1>4. ZeroStamp \in TimeStamp
    BY WidthAssumption DEF ZeroStamp, TimeStamp, Word
  <1>5. ClockTyped
    <2>1. machine = [wallClock |-> StartTime, userCPU |-> 0, systemCPU |-> 0] /\ now = 0
      BY DEF ReportInit, ZeroStamp
    <2>2. StartTime \in Nat /\ now \in 0..MaxTime /\ 0 \in 0..now
      BY <2>1, ReportAssumption
    <2>3. machine \in [wallClock : Nat, userCPU : 0..now, systemCPU : 0..now]
      BY <2>1, <2>2
    <2>4. machine.wallClock <= StartTime + now
      BY <2>1, <2>2
    <2>5. QED BY <2>2, <2>3, <2>4 DEF ClockTyped
  <1>6. MarkersTrue
    <2>1. NotBegun \in Began
      BY ReportAssumption DEF NotBegun, Began
    <2>2. QED BY <1>3, <1>4, <2>1 DEF ReportInit, MarkersTrue
  <1>7. IntervalTrue
    <2>1. NothingReported \in [time : 0..MaxTime, clockSet : BOOLEAN, newThread : BOOLEAN]
      BY ReportAssumption DEF NothingReported
    <2>2. QED BY <1>3, <1>4, <2>1 DEF ReportInit, IntervalTrue
  <1>8. QuietIsInactive
    BY DEF ReportInit, QuietIsInactive
  <1>9. /\ DOMAIN stats = Trees /\ DOMAIN calls = Trees
        /\ \A a \in Trees : DOMAIN stats[a] = {} /\ DOMAIN calls[a] = {}
    BY DEF ReportInit, NoNodes
  <1>10. NumbersTyped
    <2>1. \A a \in Trees : ~Live(a)
      BY <1>3, NullAssumption DEF Live
    <2>2. QED BY <1>3, <1>9, <2>1, FS_EmptySet DEF NumbersTyped, TreeTyped
  <1>11. CallsBounded
    <2>1. PICK f : f = [a \in Trees |-> CallsIn(a)]
      OBVIOUS
    <2>2. \A a \in Trees : f[a] \in Nat /\ f[a] <= 0
      BY <1>9, <2>1, TotalOfNone DEF CallsIn
    <2>3. Total(f, Trees) <= Cardinality(Trees) * 0
      BY <2>2, ReportAssumption, TotalBounded
    <2>4. Cardinality(Trees) \in Nat
      BY ReportAssumption, FS_CardinalityType
    <2>5. CallsMade = Total(f, Trees) /\ CallsMade \in Nat
      BY <1>10, <2>1, CallsAdd
    <2>6. QED BY <2>3, <2>4, <2>5, ReportAssumption DEF CallsBounded
  <1>12. NumbersTell
    BY <1>9 DEF NumbersTell
  <1>13. TimeNests
    BY <1>9 DEF TimeNests, TreeNests
  <1>14. QED BY <1>2, <1>5, <1>6, <1>7, <1>8, <1>10, <1>11, <1>12, <1>13 DEF RInv

\* Each step keeps each part of it.
LEMMA NextRInv ==
  ASSUME RInv, [ReportNext]_reportVars
  PROVE  RInv'
  <1>1. /\ SInv /\ ClockTyped /\ MarkersTrue /\ IntervalTrue /\ QuietIsInactive
        /\ NumbersTyped /\ CallsBounded /\ NumbersTell /\ TimeNests
    BY DEF RInv
  <1>2. SInv'
    BY <1>1, ReportIsScopedUse, ScopedNextSInv
  <1>3. ClockTyped' /\ MarkersTrue' /\ IntervalTrue' /\ QuietIsInactive'
    BY <1>1, ClockStaysTyped, MarkersStayTrue, IntervalStaysTrue, QuietStaysInactive
  <1>4. NumbersTyped'
    BY <1>1, <1>2, NumbersStayTyped
  <1>5. CallsBounded' /\ NumbersTell'
    BY <1>1, <1>4, CallsStayBounded, NumbersStayTelling
  <1>6. NestingBase /\ NestingBase'
    BY <1>1, <1>2, <1>3, <1>4 DEF NestingBase
  <1>7. TimeNests'
    BY <1>1, <1>6, TimeStaysNested
  <1>8. QED BY <1>2, <1>3, <1>4, <1>5, <1>7 DEF RInv

\* The inductive invariant holds in every state of PerfReport, for any number
\* of threads, records, trees and names and any times within the widths.
THEOREM RInvIsInvariant == ReportSpec => []RInv
  <1>1. RInv /\ [ReportNext]_reportVars => RInv'
    BY NextRInv
  <1>2. QED BY <1>1, InitRInv, PTL DEF ReportSpec

\* The clocks and the numbers only watch: without them, each behaviour is one
\* of InProc under scoped use, and all that is proved of it holds here.
THEOREM MeasuringIsScopedUse == ReportSpec => ScopedSpec
  <1>1. ReportInit => Init
    BY DEF ReportInit
  <1>2. [ReportNext]_reportVars => [ScopedNext]_vars
    BY ReportIsScopedUse
  <1>3. QED BY <1>1, <1>2, PTL DEF ReportSpec, ScopedSpec

-----------------------------------------------------------------------------
(* What the reports say *)

\* The clocks and the numbers of the nodes stay words, and the numbers are
\* those of the nodes of the trees in the map.
THEOREM ReportTypeCorrect == ReportSpec => []ReportTypeOK
  <1>1. RInv => ReportTypeOK
    BY MachineFits
    DEF RInv, ReportTypeOK, MarkersTrue, IntervalTrue, NumbersTyped, TreeTyped
  <1>2. QED BY <1>1, RInvIsInvariant, PTL

\* The greatest and the least of a set of numbers are those of the library.
LEMMA ExtremesAreExtremes ==
  ASSUME NEW S \in SUBSET Nat, NEW x
  PROVE  /\ IsMax(x, S) => x = Max(S)
         /\ IsMin(x, S) => x = Min(S)
  <1>1. ASSUME IsMax(x, S) PROVE x = Max(S)
    <2>1. x \in S /\ \A y \in S : x >= y
      BY <1>1 DEF IsMax
    <2>2. Max(S) \in S /\ \A y \in S : Max(S) >= y
      BY <2>1 DEF Max
    <2>3. x \in Nat /\ Max(S) \in Nat /\ x >= Max(S) /\ Max(S) >= x
      BY <2>1, <2>2
    <2>4. QED BY <2>3
  <1>2. ASSUME IsMin(x, S) PROVE x = Min(S)
    <2>1. x \in S /\ \A y \in S : x <= y
      BY <1>2 DEF IsMin
    <2>2. Min(S) \in S /\ \A y \in S : Min(S) <= y
      BY <2>1 DEF Min
    <2>3. x \in Nat /\ Min(S) \in Nat /\ x <= Min(S) /\ Min(S) <= x
      BY <2>1, <2>2
    <2>4. QED BY <2>3
  <1>3. QED BY <1>1, <1>2

\* Count, sum, maximum and minimum of a node are those of the calls on its
\* path, in total and since the last report, unless the clock was set in one.
THEOREM StatsAreTrue == ReportSpec => []StatsTellCalls
  <1>1. RInv => StatsTellCalls
    <2>1. SUFFICES ASSUME RInv, NEW a \in Trees, NEW n \in DOMAIN calls[a],
                          NEW span \in {"total", "interval"}
          PROVE  LET told == stats[a][n][span]
                     log == calls[a][n][span]
                 IN  /\ told.count = Len(log)
                     /\ Undisturbed(log) =>
                          /\ told.time = SumOf(log, "time")
                          /\ told.max = Max(TimesOf(log) \cup {0})
                          /\ told.min = Min(TimesOf(log) \cup {INITIAL_MIN_VALUE})
      BY DEF StatsTellCalls
    <2>2. PICK told, log : told = stats[a][n][span] /\ log = calls[a][n][span]
      OBVIOUS
    <2>3. Tells(told, log) /\ log \in Seq(Call)
      BY <2>1, <2>2 DEF RInv, NumbersTell, NodeTells, NumbersTyped, TreeTyped, Log
    <2>4. TimesOf(log) \cup {0} \subseteq Nat
          /\ TimesOf(log) \cup {INITIAL_MIN_VALUE} \subseteq Nat
      <3>1. \A i \in DOMAIN log : log[i] \in Call
        BY <2>3
      <3>2. \A c \in Call : c.time \in Nat
        BY ReportAssumption DEF Call
      <3>3. TimesOf(log) \subseteq Nat
        BY <3>1, <3>2 DEF TimesOf
      <3>4. QED BY <3>3, InitialMinAssumption
    <2>5. QED BY <2>2, <2>3, <2>4, ExtremesAreExtremes DEF Tells
  <1>2. QED BY <1>1, RInvIsInvariant, PTL

\* The CPU time of a node is what the process used during the calls on its
\* path, when system time had been used before each of them.
THEOREM CPUIsTrue == ReportSpec => []CPUTellsCalls
  <1>1. RInv => CPUTellsCalls
    BY DEF RInv, CPUTellsCalls, NumbersTell, NodeTells, Tells
  <1>2. QED BY <1>1, RInvIsInvariant, PTL

\* The total of a node covers those of its children, however reports, returns
\* and new calls interleave.
THEOREM ChildrenAreCovered == ReportSpec => []ChildrenWithinParent
  <1>1. RInv => ChildrenWithinParent
    <2>1. SUFFICES ASSUME RInv, NEW a \in Trees, NEW n \in DOMAIN calls[a],
                          \A m \in Children(a, n) \cup {n} : Undisturbed(calls[a][m].total)
          PROVE  SumFunction([m \in Children(a, n) |-> stats[a][m].total.time])
                   <= stats[a][n].total.time + OpenTime(a, n)
      BY DEF ChildrenWithinParent
    <2>2. SpentKnown /\ TreeTyped(a) /\ TreeNests(a)
      BY <2>1, SpentIsKnown DEF RInv, NestingBase, NumbersTyped, TimeNests
    <2>3. PICK C : C = Children(a, n)
      OBVIOUS
    <2>4. PICK f : f = [m \in C |-> stats[a][m].total.time]
      OBVIOUS
    <2>5. PICK g : g = [m \in C |-> Spent(a, m)]
      OBVIOUS
    <2>6. /\ IsFiniteSet(C) /\ C \subseteq DOMAIN calls[a]
          /\ Total(g, C) <= Spent(a, n)
      BY <2>2, <2>3, <2>5, ChildrenSum DEF TreeNests
    <2>7. SumFunction([m \in Children(a, n) |-> stats[a][m].total.time]) = Total(f, C)
      <3>1. DOMAIN f = C
        BY <2>4
      <3>2. QED BY <2>3, <2>4, <3>1 DEF SumFunction, Total
    <2>8. \A m \in C \cup {n} : stats[a][m].total.time = SumOf(calls[a][m].total, "time")
      BY <2>1, <2>3, <2>6 DEF RInv, NumbersTell, NodeTells, Tells
    <2>9. ASSUME NEW m \in C PROVE f[m] \in Nat /\ g[m] \in Nat /\ f[m] <= g[m]
      <3>1. m \in DOMAIN calls[a] /\ m \in Node
        BY <2>2, <2>6 DEF SpentKnown
      <3>2. /\ SumOf(calls[a][m].total, "time") \in Nat /\ OpenTime(a, m) \in Nat
            /\ Spent(a, m) = SumOf(calls[a][m].total, "time") + OpenTime(a, m)
        BY <2>2, <3>1 DEF SpentKnown, Spent
      <3>3. f[m] = SumOf(calls[a][m].total, "time") /\ g[m] = Spent(a, m)
        BY <2>4, <2>5, <2>8
      <3>4. QED BY <3>2, <3>3
    <2>10. Total(f, C) <= Total(g, C) /\ Total(f, C) \in Nat /\ Total(g, C) \in Nat
      BY <2>6, <2>9, TotalMonotonic, TotalOfOne
    <2>11. Spent(a, n) = stats[a][n].total.time + OpenTime(a, n) /\ Spent(a, n) \in Nat
      BY <2>2, <2>8 DEF SpentKnown, Spent
    <2>12. QED BY <2>6, <2>7, <2>10, <2>11
  <1>2. QED BY <1>1, RInvIsInvariant, PTL

\* A longer time has no fewer milliseconds.
LEMMA MillisecondsGrow ==
  ASSUME NEW x \in Nat, NEW y \in Nat, x <= y
  PROVE  InMilliseconds(x) <= InMilliseconds(y)
  <1>1. PICK m \in Nat : m = Millisecond /\ m > 0
    BY WordAssumption
  <1>2. x \div m <= y \div m
    BY <1>1
  <1>3. QED BY <1>1, <1>2 DEF InMilliseconds

\* The interval that a report of the process prints is the true time since
\* the last one that printed, and is shorter when a thread was new since.
THEOREM IntervalIsTrue == ReportSpec => []ReportCoversInterval
  <1>1. RInv => ReportCoversInterval
    <2>1. SUFFICES ASSUME RInv, processFound, ~reported.clockSet
          PROVE  LET printed == InMilliseconds(Elapsed(m_clock, machine).wallClock)
                     gap == now - reported.time
                 IN  /\ printed <= InMilliseconds(gap)
                     /\ ~reported.newThread => printed = InMilliseconds(gap)
      BY DEF ReportCoversInterval
    <2>2. /\ machine.wallClock \in Nat /\ machine.wallClock < Modulus
          /\ Marker(machine).wallClock = machine.wallClock
          /\ now \in Nat
      BY <2>1, MachineFits DEF RInv
    <2>3. /\ m_clock.wallClock \in Nat /\ m_clock.wallClock <= machine.wallClock
          /\ reported.time \in Nat /\ reported.time <= now
          /\ machine.wallClock - m_clock.wallClock <= now - reported.time
          /\ ~reported.newThread => machine.wallClock - m_clock.wallClock = now - reported.time
      BY <2>1, WidthAssumption, ReportAssumption DEF RInv, IntervalTrue, TimeStamp, Word
    <2>4. Elapsed(m_clock, machine).wallClock = Minus(machine.wallClock, m_clock.wallClock)
      BY <2>2 DEF Elapsed, Marker
    <2>5. Elapsed(m_clock, machine).wallClock = machine.wallClock - m_clock.wallClock
      BY <2>2, <2>3, <2>4, WordArithmetic
    <2>6. machine.wallClock - m_clock.wallClock \in Nat /\ now - reported.time \in Nat
      BY <2>2, <2>3
    <2>7. QED BY <2>3, <2>5, <2>6, MillisecondsGrow
  <1>2. QED BY <1>1, RInvIsInvariant, PTL

\* The tree of a thread that returned from its last call is gone after the
\* second report: a new thread with its pthread_t does not continue it.
THEOREM QuietTreesGo == ReportSpec => []QuietThreadsGo
  <1>1. RInv => QuietThreadsGo
    BY DEF RInv, QuietIsInactive, QuietThreadsGo
  <1>2. QED BY <1>1, RInvIsInvariant, PTL


=============================================================================
