---------------------------- MODULE SharedLemmas ----------------------------
(***************************************************************************)
(* Facts that several proofs rest on: positions taken modulo the size of a *)
(* ring, the number of threads that are at a step, and induction for a set *)
(* of numbers (the induction theorems of the library take an operator).    *)
(***************************************************************************)
EXTENDS Integers, FiniteSets, FiniteSetTheorems, TLAPS

-----------------------------------------------------------------------------
(* Positions and the cells of a ring. *)

\* The quotient and the remainder of a position by the size C of the ring.
LEMMA DivMod ==
    ASSUME NEW C \in Nat \ {0}, NEW a \in Nat
    PROVE  /\ a \div C \in Nat
           /\ a % C \in 0 .. C - 1
           /\ a = C * (a \div C) + (a % C)
  BY SMT

\* Multiples of C are at least C apart.
LEMMA MultiplesApart ==
    ASSUME NEW C \in Nat, NEW q \in Nat, NEW k \in Nat, q < k
    PROVE  C * q + C <= C * k
  <1>1. C * (k - q - 1) >= 0
    BY SMT
  <1>2. C * (k - q - 1) = C * k - C * q - C
    BY SMT
  <1> QED
    BY <1>1, <1>2, SMT

\* A quotient and a remainder are determined by their number.
LEMMA DivModUnique ==
    ASSUME NEW C \in Nat \ {0}, NEW q \in Nat, NEW r \in 0 .. C - 1,
           NEW a \in Nat, a = C * q + r
    PROVE  a \div C = q /\ a % C = r
  <1> DEFINE k == a \div C
             s == a % C
  <1>1. k \in Nat /\ s \in 0 .. C - 1 /\ a = C * k + s
    BY DivMod
  <1>2. C * q \in Nat /\ C * k \in Nat
    BY <1>1, SMT
  <1> HIDE DEF k, s
  <1>3. CASE k < q
    <2>1. C * k + C <= C * q
      BY <1>1, <1>3, MultiplesApart
    <2> QED
      BY <1>1, <1>2, <2>1, SMT
  <1>4. CASE q < k
    <2>1. C * q + C <= C * k
      BY <1>1, <1>4, MultiplesApart
    <2> QED
      BY <1>1, <1>2, <2>1, SMT
  <1>5. CASE q = k
    <2>1. r = s
      BY <1>1, <1>2, <1>5, SMT
    <2> QED
      BY <1>5, <2>1 DEF k, s
  <1> QED
    BY <1>1, <1>3, <1>4, <1>5, SMT

\* Two different positions less than C apart are in different cells.
LEMMA NearPositionsDiffer ==
    ASSUME NEW C \in Nat \ {0}, NEW a \in Nat, NEW b \in Nat,
           a < b, b < a + C
    PROVE  a % C # b % C
  <1> DEFINE q == a \div C
             k == b \div C
  <1>1. /\ q \in Nat /\ a % C \in 0 .. C - 1 /\ a = C * q + (a % C)
        /\ k \in Nat /\ b % C \in 0 .. C - 1 /\ b = C * k + (b % C)
    BY DivMod
  <1>2. C * q \in Nat /\ C * k \in Nat
    BY <1>1, SMT
  <1> HIDE DEF q, k
  <1>3. CASE q < k
    <2>1. C * q + C <= C * k
      BY <1>1, <1>3, MultiplesApart
    <2> QED
      BY <1>1, <1>2, <2>1, SMT
  <1>4. CASE k < q
    <2>1. C * k + C <= C * q
      BY <1>1, <1>4, MultiplesApart
    <2> QED
      BY <1>1, <1>2, <2>1, SMT
  <1>5. CASE q = k
    BY <1>1, <1>2, <1>5, SMT
  <1> QED
    BY <1>1, <1>3, <1>4, <1>5, SMT

\* A position and the one a whole round later are in the same cell, one round
\* apart.
LEMMA NextRound ==
    ASSUME NEW C \in Nat \ {0}, NEW a \in Nat
    PROVE  (a + C) % C = a % C /\ (a + C) \div C = (a \div C) + 1
  <1> DEFINE q == a \div C
             r == a % C
             b == a + C
  <1>1. q \in Nat /\ r \in 0 .. C - 1 /\ a = C * q + r
    BY DivMod
  <1>2. b \in Nat /\ q + 1 \in Nat /\ b = C * (q + 1) + r
    BY <1>1, SMT
  <1>3. b \div C = q + 1 /\ b % C = r
    <2> HIDE DEF q, r, b
    <2> QED
      BY <1>1, <1>2, DivModUnique
  <1> QED
    BY <1>3

LEMMA NextRoundSameCell ==
    ASSUME NEW C \in Nat \ {0}, NEW a \in Nat
    PROVE  (a + C) % C = a % C
  BY NextRound

\* So are two positions any number of rounds apart.
LEMMA RoundsSameCell ==
    ASSUME NEW C \in Nat \ {0}, NEW a \in Nat, NEW m \in Nat
    PROVE  (a + C * m) % C = a % C
  <1>1. /\ a \div C \in Nat /\ a % C \in 0 .. C - 1
        /\ a = C * (a \div C) + (a % C)
    BY DivMod
  <1>2. /\ (a \div C) + m \in Nat /\ a + C * m \in Nat
        /\ a + C * m = C * ((a \div C) + m) + (a % C)
    BY <1>1, SMT
  <1> QED
    BY <1>1, <1>2, DivModUnique

\* Reducing a position before moving on from it changes nothing.
LEMMA ReducedPosition ==
    ASSUME NEW C \in Nat \ {0}, NEW a \in Nat, NEW b \in Nat
    PROVE  ((a % C) + b) % C = (a + b) % C
  <1> DEFINE q == a \div C
             r == a % C
  <1>1. q \in Nat /\ r \in 0 .. C - 1 /\ a = C * q + r
    BY DivMod
  <1> HIDE DEF q, r
  <1>2. r + b \in Nat /\ a + b = (r + b) + C * q
    BY <1>1, SMT
  <1>3. ((r + b) + C * q) % C = (r + b) % C
    BY <1>1, <1>2, RoundsSameCell
  <1>4. (r + b) % C = (a + b) % C
    BY <1>2, <1>3
  <1> QED
    BY <1>4 DEF r

\* Positions of the first and of the second round.
LEMMA FirstRounds ==
    ASSUME NEW C \in Nat \ {0}, NEW a \in 0 .. C - 1
    PROVE  a % C = a /\ (a + C) % C = a
  <1>1. a \in Nat /\ a = C * 0 + a
    BY SMT
  <1>2. a % C = a
    BY <1>1, DivModUnique
  <1> QED
    BY <1>1, <1>2, NextRound

\* A cell has one position in every round.
LEMMA PositionInRound ==
    ASSUME NEW C \in Nat \ {0}, NEW c \in 0 .. C - 1, NEW k \in Nat
    PROVE  \E n \in Nat : n % C = c /\ n \div C = k
  <1>1. C * k + c \in Nat
    BY SMT
  <1> QED
    BY <1>1, DivModUnique

\* Of two positions in a cell the later one is in a later round.
LEMMA LaterRound ==
    ASSUME NEW C \in Nat \ {0}, NEW a \in Nat, NEW b \in Nat,
           a % C = b % C
    PROVE  /\ a < b <=> a \div C < b \div C
           /\ a = b <=> a \div C = b \div C
  <1> DEFINE q == a \div C
             k == b \div C
             r == a % C
  <1>1. /\ q \in Nat /\ k \in Nat /\ r \in 0 .. C - 1
        /\ a = C * q + r /\ b = C * k + r
    BY DivMod
  <1>2. C * q \in Nat /\ C * k \in Nat
    BY <1>1, SMT
  <1> HIDE DEF q, k, r
  <1>3. q < k => C * q + C <= C * k
    BY <1>1, MultiplesApart
  <1>4. k < q => C * k + C <= C * q
    BY <1>1, MultiplesApart
  <1>5. (a < b <=> q < k) /\ (a = b <=> q = k)
    BY <1>1, <1>2, <1>3, <1>4, SMT
  <1> QED
    BY <1>5 DEF q, k

\* Any C consecutive positions use every cell.
LEMMA EveryCellOnce ==
    ASSUME NEW C \in Nat \ {0}, NEW r \in Nat, NEW c \in 0 .. C - 1
    PROVE  \E n \in r .. r + C - 1 : n % C = c
  <1> DEFINE q == r \div C
             n == C * q + c
  <1>1. /\ q \in Nat /\ r % C \in 0 .. C - 1 /\ r = C * q + (r % C)
    BY DivMod
  <1>2. C * q \in Nat
    BY <1>1, SMT
  <1>3. n \in Nat /\ n + C \in Nat /\ n = C * q + c
    BY <1>2, SMT
  <1> HIDE DEF q, n
  <1>4. n % C = c
    <2>1. q \in Nat /\ n \in Nat /\ n = C * q + c
      BY <1>1, <1>3
    <2>2. n \div C = q /\ n % C = c
      BY <2>1, DivModUnique
    <2> QED
      BY <2>2
  <1>5. (n + C) % C = c
    BY <1>3, <1>4, NextRound
  <1>6. CASE r <= n
    <2>1. n \in r .. r + C - 1
      BY <1>1, <1>2, <1>3, <1>6, SMT
    <2> QED
      BY <1>4, <2>1
  <1>7. CASE n < r
    <2>1. n + C \in r .. r + C - 1
      BY <1>1, <1>2, <1>3, <1>7, SMT
    <2> QED
      BY <1>5, <2>1
  <1> QED
    BY <1>3, <1>6, <1>7, SMT

-----------------------------------------------------------------------------
(* Counting the threads of a finite set T that are at a step of a program. *)

Count(T, f, step) == Cardinality({t \in T : f[t] = step})

LEMMA CountIsNat ==
    ASSUME NEW T, IsFiniteSet(T), NEW f, NEW step
    PROVE  Count(T, f, step) \in Nat
  <1>1. {t \in T : f[t] = step} \in SUBSET T
    OBVIOUS
  <1> QED
    BY <1>1, FS_Subset, FS_CardinalityType DEF Count

\* Nobody is counted exactly if nobody is there.
LEMMA CountZero ==
    ASSUME NEW T, IsFiniteSet(T), NEW f, NEW step
    PROVE  Count(T, f, step) = 0 <=> \A t \in T : f[t] # step
  <1> DEFINE S == {t \in T : f[t] = step}
  <1>1. IsFiniteSet(S)
    <2>1. S \in SUBSET T
      OBVIOUS
    <2> QED
      BY <2>1, FS_Subset
  <1>2. Cardinality(S) = 0 <=> S = {}
    BY <1>1, FS_EmptySet
  <1> QED
    BY <1>2 DEF Count

LEMMA SameCount ==
    ASSUME NEW T, NEW f, NEW g, NEW step,
           \A t \in T : g[t] = step <=> f[t] = step
    PROVE  Count(T, g, step) = Count(T, f, step)
  <1>1. {t \in T : g[t] = step} = {t \in T : f[t] = step}
    OBVIOUS
  <1> QED
    BY <1>1 DEF Count

\* Nobody but u moves when f becomes g.
OnlyMover(T, f, g, u) == \A t \in T : t # u => g[t] = f[t]

\* A thread that moves is counted at its new step and no longer at its old one.
LEMMA CountAfterMove ==
    ASSUME NEW T, IsFiniteSet(T), NEW f, NEW g,
           NEW u \in T, OnlyMover(T, f, g, u), NEW step
    PROVE  Count(T, g, step) = Count(T, f, step) + (IF g[u] = step THEN 1 ELSE 0)
                                           - (IF f[u] = step THEN 1 ELSE 0)
  <1> DEFINE S == {t \in T : f[t] = step}
             G == {t \in T : g[t] = step}
  <1>1. IsFiniteSet(S) /\ Cardinality(S) \in Nat
    <2>1. S \in SUBSET T
      OBVIOUS
    <2> QED
      BY <2>1, FS_Subset, FS_CardinalityType
  <1>2. u \in S <=> f[u] = step
    OBVIOUS
  <1>3. Cardinality(G) = Cardinality(S) + (IF g[u] = step THEN 1 ELSE 0)
                                        - (IF f[u] = step THEN 1 ELSE 0)
    <2>1. CASE g[u] = step
      <3>1. G = S \cup {u}
        BY <2>1 DEF OnlyMover
      <3> HIDE DEF S, G
      <3>2. Cardinality(G) = IF u \in S THEN Cardinality(S)
                                        ELSE Cardinality(S) + 1
        BY <1>1, <3>1, FS_AddElement
      <3> QED
        BY <1>1, <1>2, <2>1, <3>2
    <2>2. CASE g[u] # step
      <3>1. G = S \ {u}
        BY <2>2 DEF OnlyMover
      <3> HIDE DEF S, G
      <3>2. Cardinality(G) = IF u \in S THEN Cardinality(S) - 1
                                        ELSE Cardinality(S)
        BY <1>1, <3>1, FS_RemoveElement
      <3> QED
        BY <1>1, <1>2, <2>2, <3>2
    <2> QED
      BY <2>1, <2>2
  <1> QED
    BY <1>3 DEF Count

OnlyMovers(T, f, g, u, w) == \A t \in T : t # u /\ t # w => g[t] = f[t]

LEMMA CountAfterTwoMoves ==
    ASSUME NEW T, IsFiniteSet(T), NEW f, NEW h,
           NEW u \in T, NEW w \in T, u # w,
           OnlyMovers(T, f, h, u, w), NEW step
    PROVE  Count(T, h, step) = Count(T, f, step) + (IF h[u] = step THEN 1 ELSE 0)
                                           - (IF f[u] = step THEN 1 ELSE 0)
                                           + (IF h[w] = step THEN 1 ELSE 0)
                                           - (IF f[w] = step THEN 1 ELSE 0)
  <1>1. PICK g : /\ g[u] = h[u] /\ g[w] = f[w]
                 /\ OnlyMover(T, f, g, u) /\ OnlyMover(T, g, h, w)
    <2> DEFINE G == [t \in T |-> IF t = u THEN h[u] ELSE f[t]]
    <2>1. /\ G[u] = h[u] /\ G[w] = f[w]
          /\ \A t \in T : t # u => G[t] = f[t]
          /\ \A t \in T : t # w => h[t] = G[t]
      BY DEF OnlyMovers
    <2> QED
      BY <2>1 DEF OnlyMover
  <1>2. Count(T, g, step) = Count(T, f, step) + (IF g[u] = step THEN 1 ELSE 0)
                                        - (IF f[u] = step THEN 1 ELSE 0)
    BY <1>1, CountAfterMove
  <1>3. Count(T, h, step) = Count(T, g, step) + (IF h[w] = step THEN 1 ELSE 0)
                                        - (IF g[w] = step THEN 1 ELSE 0)
    BY <1>1, CountAfterMove
  <1> QED
    BY <1>1, <1>2, <1>3, CountIsNat

-----------------------------------------------------------------------------
(* Sequences without repetitions. *)

LEMMA DistinctElements ==
    ASSUME NEW S, IsFiniteSet(S), NEW n \in Nat, NEW s \in [1 .. n -> S],
           \A i, j \in 1 .. n : i # j => s[i] # s[j]
    PROVE  n <= Cardinality(S)
  <1>1. IsFiniteSet(1 .. n) /\ Cardinality(1 .. n) = n
    BY FS_Interval
  <1>2. Cardinality(S) \in Nat
    BY FS_CardinalityType
  <1>3. ~(Cardinality(S) < Cardinality(1 .. n))
    BY <1>1, FS_PigeonHole
  <1> QED
    BY <1>1, <1>2, <1>3

-----------------------------------------------------------------------------
(* Induction. *)

\* Induction for a set of numbers.  Were m outside, then n |-> n - 1 would map
\* the numbers outside that are at most m injectively to the ones below m,
\* which are fewer.
LEMMA SetInduction ==
    ASSUME NEW S, 0 \in S, \A n \in Nat : n \in S => n + 1 \in S
    PROVE  Nat \subseteq S
  <1> SUFFICES ASSUME NEW m \in Nat, m \notin S PROVE FALSE
    OBVIOUS
  <1> DEFINE A == {n \in 0 .. m : n \notin S}
             f == [n \in A |-> n - 1]
  <1>1. IsFiniteSet(A)
    <2>1. IsFiniteSet(0 .. m)
      BY FS_Interval
    <2> QED
      BY <2>1, FS_Subset
  <1>2. /\ IsFiniteSet(A \ {m}) /\ Cardinality(A \ {m}) < Cardinality(A)
    <2>1. m \in A
      OBVIOUS
    <2> HIDE DEF A
    <2>2. Cardinality(A) \in Nat
      BY <1>1, FS_CardinalityType
    <2>3. /\ IsFiniteSet(A \ {m})
          /\ Cardinality(A \ {m}) = IF m \in A THEN Cardinality(A) - 1
                                                ELSE Cardinality(A)
      BY <1>1, FS_RemoveElement
    <2> QED
      BY <2>1, <2>2, <2>3
  <1>3. ASSUME NEW n \in A
        PROVE  n - 1 \in A \ {m}
    <2>1. n \in Nat /\ n # 0 /\ n \notin S /\ n <= m
      OBVIOUS
    <2>2. n - 1 \in Nat /\ (n - 1) + 1 = n /\ n - 1 < m
      BY <2>1
    <2>3. n - 1 \notin S
      BY <2>1, <2>2
    <2> QED
      BY <2>2, <2>3
  <1>4. f \in [A -> A \ {m}]
    BY <1>3
  <1>5. \E x, y \in A : x # y /\ f[x] = f[y]
    <2> HIDE DEF A, f
    <2> QED
      BY <1>1, <1>2, <1>4, FS_PigeonHole
  <1> QED
    BY <1>5

\* A set of numbers that is not empty has a smallest one.
LEMMA SmallestNumber ==
    ASSUME NEW S \in SUBSET Nat, S # {}
    PROVE  \E m \in S : \A n \in S : m <= n
  <1> SUFFICES ASSUME \A m \in S : \E n \in S : n < m
               PROVE  FALSE
    <2>1. \A m, n \in Nat : ~(n < m) => m <= n
      OBVIOUS
    <2> QED
      BY <2>1
  <1> DEFINE T == {k \in Nat : \A n \in S : k < n}
  <1>1. 0 \in T
    <2>1. 0 \notin S
      OBVIOUS
    <2> QED
      BY <2>1
  <1>2. ASSUME NEW k \in Nat, k \in T
        PROVE  k + 1 \in T
    <2>1. k + 1 \notin S
      <3> SUFFICES ASSUME k + 1 \in S PROVE FALSE
        OBVIOUS
      <3>1. PICK n \in S : n < k + 1
        OBVIOUS
      <3>2. k < n
        BY <1>2
      <3> QED
        BY <3>1, <3>2
    <2>2. \A n \in S : k < n /\ n # k + 1 /\ n \in Nat
      BY <1>2, <2>1
    <2> QED
      BY <2>2
  <1>3. Nat \subseteq T
    <2> HIDE DEF T
    <2> QED
      BY <1>1, <1>2, SetInduction
  <1>4. PICK n \in S : TRUE
    OBVIOUS
  <1>5. n \in T /\ n \in S
    BY <1>3, <1>4
  <1>6. n < n /\ n \in Nat
    BY <1>5
  <1> QED
    BY <1>6
=============================================================================
