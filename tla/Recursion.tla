------------------------------ MODULE Recursion ------------------------------
(***************************************************************************)
(* Lemmas about what is defined by recursion: what holds at the beginning  *)
(* of an interval and of each next number holds throughout, a function can *)
(* be defined along it, sums over finite sets are what they should be,      *)
(* remainders go around a circle, and a filter keeps of a list what it     *)
(* keeps of the list before its last element, and then that one or not.    *)
(*                                                                         *)
(* A property is a set here, not an operator: that a set without a least   *)
(* element is empty follows from the well-foundedness of the strict        *)
(* subsets of a finite set.                                                *)
(***************************************************************************)
EXTENDS Integers, FiniteSets, FiniteSetsExt, Filtering, FiniteSetTheorems, SequenceTheorems,
        WellFoundedInduction, TLAPS

\* A set of natural numbers has a least element.
LEMMA LeastNatural ==
  ASSUME NEW S \in SUBSET Nat, S # {}
  PROVE  \E n \in S : \A k \in S : n <= k
<1> DEFINE D == {0 .. k : k \in S}
<1>1. D \subseteq FiniteSubsetsOf(Nat) /\ D # {}
  <2>1. \A k \in S : IsFiniteSet(0 .. k) /\ 0 .. k \subseteq Nat
    BY FS_Interval
  <2>. QED BY <2>1 DEF FiniteSubsetsOf
<1>2. IsWellFoundedOn(StrictSubsetOrdering(Nat), FiniteSubsetsOf(Nat))
  BY FS_StrictSubsetOrderingWellFounded
<1>3. PICK T \in D : \A U \in D : <<U, T>> \notin StrictSubsetOrdering(Nat)
  BY <1>1, <1>2, WFMin
<1>4. PICK n \in S : T = 0 .. n
  OBVIOUS
<1>5. ASSUME NEW k \in S, k < n PROVE FALSE
  <2>1. 0 .. k \subseteq 0 .. n /\ 0 .. k # 0 .. n /\ 0 .. k \in D
    BY <1>5
  <2>2. 0 .. k \in SUBSET Nat /\ 0 .. n \in SUBSET Nat
    OBVIOUS
  <2>3. <<0 .. k, 0 .. n>> \in StrictSubsetOrdering(Nat)
    BY <2>1, <2>2, Zenon DEF StrictSubsetOrdering
  <2>. QED BY <1>3, <1>4, <2>1, <2>3
<1>. QED BY <1>5

\* What holds at the beginning and of each next one holds throughout.
LEMMA Climbing ==
  ASSUME NEW lo \in Int, NEW hi \in Int, NEW S, lo \in S,
         \A i \in lo .. hi : i \in S /\ i # hi => i + 1 \in S
  PROVE  lo .. hi \subseteq S
<1> DEFINE D == {d \in Nat : lo + d <= hi /\ lo + d \notin S}
<1>1. CASE D = {}
  <2>1. ASSUME NEW i \in lo .. hi PROVE i \in S
    <3>1. PICK d \in Nat : i = lo + d
      <4>1. i - lo \in Nat /\ i = lo + (i - lo)
        OBVIOUS
      <4>. QED BY <4>1
    <3>2. d \notin D
      BY <1>1
    <3>. QED BY <3>1, <3>2
  <2>. QED BY <2>1
<1>2. CASE D # {}
  <2>1. PICK d \in D : \A e \in D : d <= e
    <3>1. D \in SUBSET Nat
      OBVIOUS
    <3> HIDE DEF D
    <3>. QED BY <1>2, <3>1, LeastNatural
  <2>2. d # 0 /\ d - 1 \in Nat /\ d - 1 \notin D
    BY <2>1
  <2>3. lo + d - 1 \in S /\ lo + d - 1 \in lo .. hi /\ lo + d - 1 # hi
    BY <2>1, <2>2
  <2>. QED BY <2>1, <2>3
<1>. QED BY <1>1, <1>2

\* f and h start alike at lo, and each next value of them follows from the last.
GoOnAlike(f, h, lo, hi) ==
  f[lo] = h[lo] /\ \A i \in lo + 1 .. hi : f[i - 1] = h[i - 1] => f[i] = h[i]

\* Two functions that go on alike from one value are the same.
LEMMA GoingOnAlike ==
  ASSUME NEW lo \in Int, NEW hi \in Int, NEW f, NEW h, GoOnAlike(f, h, lo, hi)
  PROVE  \A i \in lo .. hi : f[i] = h[i]
<1> DEFINE S == {i \in Int : f[i] = h[i]}
<1>1. lo \in S
  BY DEF GoOnAlike
<1>2. \A i \in lo .. hi : i \in S /\ i # hi => i + 1 \in S
  <2> SUFFICES ASSUME NEW i \in lo .. hi, i \in S, i # hi PROVE i + 1 \in S
    OBVIOUS
  <2>1. i + 1 \in lo + 1 .. hi /\ (i + 1) - 1 = i
    OBVIOUS
  <2>. QED BY <2>1 DEF GoOnAlike
<1>3. lo .. hi \subseteq S
  <2> HIDE DEF S
  <2>. QED BY <1>1, <1>2, Climbing
<1>. QED BY <1>3

\* f starts at lo with a and goes on to hi as g says.
Iterates(f, lo, hi, a, g) == f[lo] = a /\ \A i \in lo + 1 .. hi : f[i] = g[<<i, f[i - 1]>>]

\* There is a function that starts with a value and goes on as another one says.
LEMMA Iteration ==
  ASSUME NEW lo \in Int, NEW hi \in Int, lo <= hi, NEW V, NEW a \in V,
         NEW g \in [(lo + 1 .. hi) \X V -> V]
  PROVE  \E f \in [lo .. hi -> V] : Iterates(f, lo, hi, a, g)
<1> DEFINE S == {n \in lo .. hi : \E f \in [lo .. n -> V] : Iterates(f, lo, n, a, g)}
<1>1. lo \in S
  <2>1. [i \in lo .. lo |-> a] \in [lo .. lo -> V] /\ Iterates([i \in lo .. lo |-> a], lo, lo, a, g)
    BY DEF Iterates
  <2>2. lo \in lo .. hi
    OBVIOUS
  <2>3. \E f \in [lo .. lo -> V] : Iterates(f, lo, lo, a, g)
    BY <2>1, Zenon
  <2>. QED BY <2>2, <2>3
<1>2. ASSUME NEW m \in lo .. hi, m \in S, m # hi PROVE m + 1 \in S
  <2>1. PICK f \in [lo .. m -> V] : Iterates(f, lo, m, a, g)
    BY <1>2
  <2>2. PICK n \in lo + 1 .. hi : n = m + 1 /\ m = n - 1
    BY <1>2
  <2>3. g[<<n, f[m]>>] \in V
    BY <2>2
  <2> DEFINE h == [i \in lo .. n |-> IF i = n THEN g[<<n, f[m]>>] ELSE f[i]]
  <2>4. h \in [lo .. n -> V]
    BY <2>2, <2>3
  <2>5. h[lo] = a
    BY <2>1, <2>2 DEF Iterates
  <2>6. ASSUME NEW i \in lo + 1 .. n PROVE h[i] = g[<<i, h[i - 1]>>]
    <3>1. h[i - 1] = f[i - 1]
      BY <2>2
    <3>2. CASE i = n
      <4>1. h[n] = g[<<n, f[m]>>]
        BY <2>2
      <4>. QED BY <2>2, <3>1, <3>2, <4>1
    <3>3. CASE i # n
      <4>1. i \in lo + 1 .. m /\ h[i] = f[i]
        BY <2>2, <3>3
      <4>. QED BY <2>1, <3>1, <4>1 DEF Iterates
    <3>. QED BY <3>2, <3>3
  <2>7. Iterates(h, lo, n, a, g)
    BY <2>5, <2>6 DEF Iterates
  <2>. QED BY <2>2, <2>4, <2>7
<1>3. lo .. hi \subseteq S
  <2> HIDE DEF S
  <2>. QED BY <1>1, <1>2, Climbing
<1>. QED BY <1>3

------------------------------------------------------------------------------

\* The remainder is what is left of whole multiples.
LEMMA ModOf ==
  ASSUME NEW q \in Nat \ {0}, NEW a \in Int
  PROVE  a % q \in 0 .. q - 1 /\ a = q * (a \div q) + (a % q) /\ a \div q \in Int
OBVIOUS

\* There is one way to divide.
LEMMA ModUnique ==
  ASSUME NEW q \in Nat \ {0}, NEW d \in Int, NEW r \in 0 .. q - 1
  PROVE  (q * d + r) % q = r
OBVIOUS

\* Whole multiples do not change the remainder.
LEMMA ModShift ==
  ASSUME NEW q \in Nat \ {0}, NEW a \in Int, NEW d \in Int
  PROVE  (a - q * d) % q = a % q
<1>1. PICK e \in Int, r \in 0 .. q - 1 : a = q * e + r /\ a % q = r
  BY ModOf
<1>2. a - q * d = q * (e - d) + r
  BY <1>1
<1>. QED BY <1>1, <1>2, ModUnique

\* A position counted around a circle of n.
LEMMA Wraps ==
  ASSUME NEW n \in Nat \ {0}, NEW x \in 0 .. n - 1
  PROVE  x % n = x /\ (x + n) % n = x
<1>1. x = n * 0 + x /\ x + n = n * 1 + x
  OBVIOUS
<1>. QED BY <1>1, ModUnique

------------------------------------------------------------------------------
(***************************************************************************)
(* Sums over finite sets, as MapThenSumSet has them: one element, which is *)
(* chosen, and the sum over the others.                                    *)
(***************************************************************************)

\* g has the sums of f over the subsets of S.
Adds(g, f, S) ==
  g = [s \in SUBSET S |-> IF s = {} THEN 0
                          ELSE f[CHOOSE x \in s : TRUE] + g[s \ {CHOOSE x \in s : TRUE}]]

\* g has the sums over a finite set of numbers.
SumsOf(g, f, S) ==
  IsFiniteSet(S) /\ (\A x \in S : f[x] \in Int) /\ g \in [SUBSET S -> Int] /\ Adds(g, f, S)

\* A set without one of its elements has one element less.
LEMMA OneLess ==
  ASSUME NEW S, IsFiniteSet(S), NEW T \in SUBSET S, NEW x \in T
  PROVE  /\ IsFiniteSet(T) /\ IsFiniteSet(T \ {x})
         /\ Cardinality(T) \in Nat \ {0} /\ Cardinality(T \ {x}) = Cardinality(T) - 1
         /\ Cardinality(T) <= Cardinality(S)
<1>1. IsFiniteSet(T) /\ Cardinality(T) <= Cardinality(S)
  BY FS_Subset
<1>2. Cardinality(T \ {x}) = Cardinality(T) - 1 /\ IsFiniteSet(T \ {x})
  BY <1>1, FS_RemoveElement
<1>3. Cardinality(T) \in Nat /\ Cardinality(T) # 0
  BY <1>1, FS_CardinalityType, FS_EmptySet
<1>. QED BY <1>1, <1>2, <1>3

\* Such sums exist: n rounds of adding reach every subset of n elements.
LEMMA SumsExist ==
  ASSUME NEW S, IsFiniteSet(S), NEW f, \A x \in S : f[x] \in Int
  PROVE  \E g : SumsOf(g, f, S)
<1>1. PICK N \in Nat : N = Cardinality(S)
  BY FS_CardinalityType
<1> DEFINE One(s) == CHOOSE x \in s : TRUE
           Round(g) == [s \in SUBSET S |-> IF s = {} THEN 0 ELSE f[One(s)] + g[s \ {One(s)}]]
           Sums == [SUBSET S -> Int]
           zero == [s \in SUBSET S |-> 0]
           step == [p \in (1 + 1 .. N + 1) \X Sums |-> Round(p[2])]
<1>2. \A s \in SUBSET S : s # {} => One(s) \in s
  OBVIOUS
<1> HIDE DEF One
<1>3. \A g \in Sums : Round(g) \in Sums
  <2> SUFFICES ASSUME NEW g \in Sums PROVE Round(g) \in Sums
    OBVIOUS
  <2>1. ASSUME NEW s \in SUBSET S, s # {}
        PROVE  f[One(s)] + g[s \ {One(s)}] \in Int
    <3>1. One(s) \in S /\ s \ {One(s)} \in SUBSET S
      BY <1>2, <2>1
    <3>. QED BY <3>1
  <2>2. \A s \in SUBSET S : (IF s = {} THEN 0 ELSE f[One(s)] + g[s \ {One(s)}]) \in Int
    BY <2>1
  <2>. QED BY <2>2
<1>4. zero \in Sums
  OBVIOUS
<1> HIDE DEF Sums, zero, Round
<1>5. step \in [(1 + 1 .. N + 1) \X Sums -> Sums]
  BY <1>3
<1>6. PICK G \in [1 .. N + 1 -> Sums] : Iterates(G, 1, N + 1, zero, step)
  <2>1. 1 \in Int /\ N + 1 \in Int /\ 1 <= N + 1
    OBVIOUS
  <2> HIDE DEF step
  <2>. QED BY <1>4, <1>5, <2>1, Iteration
<1>7. \A n \in 2 .. N + 1 : G[n] = Round(G[n - 1])
  <2> SUFFICES ASSUME NEW n \in 2 .. N + 1 PROVE G[n] = Round(G[n - 1])
    OBVIOUS
  <2>1. n \in 1 + 1 .. N + 1 /\ n - 1 \in 1 .. N + 1
    OBVIOUS
  <2>2. G[n] = step[<<n, G[n - 1]>>]
    <3> HIDE DEF step
    <3>. QED BY <1>6, <2>1, Zenon DEF Iterates
  <2>. QED BY <2>1, <2>2
\* From the n-th round on the sums over n elements stay.
<1> DEFINE Settled == {n \in Int : \A s \in SUBSET S : Cardinality(s) < n => G[n][s] = G[n + 1][s]}
<1>8. \A n \in 1 .. N : n \in Settled
  <2>0. \A n \in 1 .. N + 1 : G[n][{}] = 0
    <3> SUFFICES ASSUME NEW n \in 1 .. N + 1 PROVE G[n][{}] = 0
      OBVIOUS
    <3>1. CASE n = 1
      BY <1>6, <3>1 DEF Iterates, zero
    <3>2. CASE n # 1
      <4>1. n \in 2 .. N + 1
        BY <3>2
      <4>2. G[n] = Round(G[n - 1])
        BY <1>7, <4>1
      <4>. QED BY <4>2 DEF Round
    <3>. QED BY <3>1, <3>2
  <2>1. CASE N = 0
    BY <2>1
  <2>2. CASE N # 0
    <3>1. 1 \in Settled
      <4> SUFFICES ASSUME NEW s \in SUBSET S, Cardinality(s) < 1 PROVE G[1][s] = G[1 + 1][s]
        OBVIOUS
      <4>1. s = {}
        <5>1. IsFiniteSet(s) /\ Cardinality(s) \in Nat
          BY FS_Subset, FS_CardinalityType
        <5>2. Cardinality(s) = 0
          BY <5>1
        <5>. QED BY <5>1, <5>2, FS_EmptySet
      <4>2. 1 \in 1 .. N + 1 /\ 1 + 1 \in 1 .. N + 1
        BY <2>2
      <4>. QED BY <2>0, <4>1, <4>2
    <3>2. ASSUME NEW n \in 1 .. N, n \in Settled, n # N PROVE n + 1 \in Settled
      <4> SUFFICES ASSUME NEW s \in SUBSET S, Cardinality(s) < n + 1
                   PROVE  G[n + 1][s] = G[(n + 1) + 1][s]
        OBVIOUS
      <4>1. /\ n + 1 \in 2 .. N + 1 /\ (n + 1) + 1 \in 2 .. N + 1 /\ (n + 1) - 1 = n
            /\ ((n + 1) + 1) - 1 = n + 1
        BY <3>2
      <4>2. G[n + 1] = Round(G[n]) /\ G[(n + 1) + 1] = Round(G[n + 1])
        BY <1>7, <4>1
      <4>3. CASE s = {}
        BY <4>2, <4>3 DEF Round
      <4>4. CASE s # {}
        <5>1. PICK x \in s : x = One(s)
          BY <1>2, <4>4
        <5>2. s \ {x} \in SUBSET S /\ Cardinality(s \ {x}) < n
          <6>1. Cardinality(s \ {x}) = Cardinality(s) - 1 /\ Cardinality(s) \in Nat
            BY OneLess
          <6>. QED BY <6>1
        <5>3. G[n][s \ {x}] = G[n + 1][s \ {x}]
          BY <3>2, <5>2
        <5>. QED BY <4>2, <4>4, <5>1, <5>3 DEF Round
      <4>. QED BY <4>3, <4>4
    <3> HIDE DEF Settled
    <3>3. 1 .. N \subseteq Settled
      <4>1. 1 \in Int /\ N \in Int
        OBVIOUS
      <4>2. \A n \in 1 .. N : n \in Settled /\ n # N => n + 1 \in Settled
        BY <3>2
      <4>. QED BY <3>1, <4>1, <4>2, Climbing
    <3>. QED BY <3>3
  <2>. QED BY <2>1, <2>2
<1> DEFINE g == G[N + 1]
<1>9. g \in Sums
  BY <1>6
<1>10. \A s \in SUBSET S : g[s] = IF s = {} THEN 0 ELSE f[One(s)] + g[s \ {One(s)}]
  <2> SUFFICES ASSUME NEW s \in SUBSET S
               PROVE  g[s] = IF s = {} THEN 0 ELSE f[One(s)] + g[s \ {One(s)}]
    OBVIOUS
  <2>1. CASE N = 0
    <3>1. S = {}
      BY <1>1, <2>1, FS_EmptySet
    <3>2. s = {}
      BY <3>1
    <3>3. g[s] = 0
      BY <1>6, <2>1, <3>2 DEF Iterates, zero
    <3>. QED BY <3>2, <3>3
  <2>2. CASE N # 0
    <3>1. N + 1 \in 2 .. N + 1 /\ (N + 1) - 1 = N /\ N \in 1 .. N
      BY <2>2
    <3>2. g = Round(G[N])
      BY <1>7, <3>1
    <3>3. CASE s = {}
      BY <3>2, <3>3 DEF Round
    <3>4. CASE s # {}
      <4>1. PICK x \in s : x = One(s)
        BY <1>2, <3>4
      <4>2. s \ {x} \in SUBSET S /\ Cardinality(s \ {x}) < N
        <5>1. Cardinality(s \ {x}) = Cardinality(s) - 1 /\ Cardinality(s) \in Nat /\ Cardinality(s) <= N
          BY <1>1, OneLess
        <5>. QED BY <5>1
      <4>3. G[N][s \ {x}] = g[s \ {x}]
        BY <1>8, <3>1, <4>2
      <4>4. g[s] = f[x] + G[N][s \ {x}]
        BY <3>2, <3>4, <4>1 DEF Round
      <4>. QED BY <3>4, <4>1, <4>3, <4>4
    <3>. QED BY <3>3, <3>4
  <2>. QED BY <2>1, <2>2
<1>11. g = [s \in SUBSET S |-> IF s = {} THEN 0 ELSE f[One(s)] + g[s \ {One(s)}]]
  <2> HIDE DEF g
  <2>. QED BY <1>9, <1>10 DEF Sums
<1>12. Adds(g, f, S)
  <2> HIDE DEF g
  <2>. QED BY <1>11 DEF Adds, One
<1>. QED BY <1>9, <1>12 DEF SumsOf, Sums

\* One more element by size at a time.
LEMMA ByElements ==
  ASSUME NEW S, IsFiniteSet(S), NEW P \in SUBSET SUBSET S,
         {} \in P, \A T \in SUBSET S : (\A x \in T : T \ {x} \in P) => T \in P
  PROVE  P = SUBSET S
<1>1. PICK N \in Nat : N = Cardinality(S)
  BY FS_CardinalityType
<1> DEFINE Upto == {n \in Int : \A T \in SUBSET S : Cardinality(T) <= n => T \in P}
<1>2. 0 \in Upto
  <2> SUFFICES ASSUME NEW T \in SUBSET S, Cardinality(T) <= 0 PROVE T \in P
    OBVIOUS
  <2>1. IsFiniteSet(T) /\ Cardinality(T) = 0
    BY FS_Subset, FS_CardinalityType
  <2>2. T = {}
    BY <2>1, FS_EmptySet
  <2>. QED BY <2>2
<1>3. ASSUME NEW n \in 0 .. N, n \in Upto, n # N PROVE n + 1 \in Upto
  <2> SUFFICES ASSUME NEW T \in SUBSET S, Cardinality(T) <= n + 1 PROVE T \in P
    OBVIOUS
  <2>1. ASSUME NEW x \in T PROVE T \ {x} \in P
    <3>1. Cardinality(T \ {x}) = Cardinality(T) - 1 /\ Cardinality(T) \in Nat
      BY OneLess
    <3>2. Cardinality(T \ {x}) <= n
      BY <3>1
    <3>. QED BY <1>3, <3>2
  <2>. QED BY <2>1
<1>4. 0 .. N \subseteq Upto
  <2> HIDE DEF Upto
  <2>1. 0 \in Int /\ N \in Int
    OBVIOUS
  <2>2. \A n \in 0 .. N : n \in Upto /\ n # N => n + 1 \in Upto
    BY <1>3
  <2>. QED BY <1>2, <2>1, <2>2, Climbing
<1>5. ASSUME NEW T \in SUBSET S PROVE T \in P
  <2>1. N \in Upto
    <3> HIDE DEF Upto
    <3>. QED BY <1>4
  <2>2. Cardinality(T) <= N
    BY <1>1, FS_Subset
  <2>. QED BY <2>1, <2>2
<1>. QED BY <1>5

\* Whichever element is taken out, the rest adds up to what is left.
LEMMA AnyElement ==
  ASSUME NEW S, NEW f, NEW g, SumsOf(g, f, S), NEW U \in SUBSET S, NEW z \in U
  PROVE  g[U] = f[z] + g[U \ {z}]
<1>. IsFiniteSet(S) /\ (\A x \in S : f[x] \in Int) /\ g \in [SUBSET S -> Int] /\ Adds(g, f, S)
  BY DEF SumsOf
<1> DEFINE P == {T \in SUBSET S : \A x \in T : g[T] = f[x] + g[T \ {x}]}
<1>1. {} \in P
  OBVIOUS
<1>2. ASSUME NEW T \in SUBSET S, \A x \in T : T \ {x} \in P PROVE T \in P
  <2> SUFFICES ASSUME NEW x \in T PROVE g[T] = f[x] + g[T \ {x}]
    OBVIOUS
  <2>1. PICK c \in T : g[T] = f[c] + g[T \ {c}]
    <3>1. PICK c \in T : c = CHOOSE y \in T : TRUE
      OBVIOUS
    <3>2. g[T] = IF T = {} THEN 0 ELSE f[CHOOSE y \in T : TRUE] + g[T \ {CHOOSE y \in T : TRUE}]
      BY DEF Adds
    <3>. QED BY <3>1, <3>2
  <2>2. CASE c = x
    BY <2>1, <2>2
  <2>3. CASE c # x
    <3>1. g[T \ {c}] = f[x] + g[(T \ {c}) \ {x}]
      BY <1>2, <2>3
    <3>2. g[T \ {x}] = f[c] + g[(T \ {x}) \ {c}]
      BY <1>2, <2>3
    <3>3. (T \ {c}) \ {x} = (T \ {x}) \ {c}
      OBVIOUS
    <3>4. f[x] \in Int /\ f[c] \in Int /\ g[(T \ {x}) \ {c}] \in Int
      OBVIOUS
    <3>5. g[T] = f[c] + (f[x] + g[(T \ {x}) \ {c}]) /\ g[T \ {x}] = f[c] + g[(T \ {x}) \ {c}]
      BY <2>1, <3>1, <3>2, <3>3, Zenon
    <3>6. \A i, j, l \in Int : j + (i + l) = i + (j + l)
      OBVIOUS
    <3>7. f[c] + (f[x] + g[(T \ {x}) \ {c}]) = f[x] + (f[c] + g[(T \ {x}) \ {c}])
      BY <3>4, <3>6
    <3>. QED BY <3>5, <3>7
  <2>. QED BY <2>2, <2>3
<1>3. P = SUBSET S
  <2> HIDE DEF P
  <2>1. \A T \in SUBSET S : (\A x \in T : T \ {x} \in P) => T \in P
    BY <1>2
  <2>2. P \in SUBSET SUBSET S
    BY DEF P
  <2>. QED BY <1>1, <2>1, <2>2, ByElements
<1>. QED BY <1>3

\* Sums over a subset are the sums over the set.
LEMMA SameSums ==
  ASSUME NEW S, NEW f, NEW g, SumsOf(g, f, S), NEW R \in SUBSET S, NEW k, Adds(k, f, R),
         NEW U \in SUBSET R
  PROVE  k[U] = g[U]
<1>. IsFiniteSet(S) /\ (\A x \in S : f[x] \in Int) /\ g \in [SUBSET S -> Int] /\ Adds(g, f, S)
  BY DEF SumsOf
<1> DEFINE P == {T \in SUBSET R : k[T] = g[T]}
<1>0. IsFiniteSet(R)
  BY FS_Subset
<1>1. \A T \in SUBSET R : k[T] = IF T = {} THEN 0
                                 ELSE f[CHOOSE y \in T : TRUE] + k[T \ {CHOOSE y \in T : TRUE}]
  BY DEF Adds
<1>2. \A T \in SUBSET S : g[T] = IF T = {} THEN 0
                                 ELSE f[CHOOSE y \in T : TRUE] + g[T \ {CHOOSE y \in T : TRUE}]
  BY DEF Adds
<1>3. {} \in P
  BY <1>1, <1>2
<1>4. ASSUME NEW T \in SUBSET R, \A x \in T : T \ {x} \in P PROVE T \in P
  <2>1. CASE T = {}
    BY <1>3, <2>1
  <2>2. CASE T # {}
    <3>1. PICK c \in T : c = CHOOSE y \in T : TRUE
      BY <2>2
    <3>2. k[T] = f[c] + k[T \ {c}]
      BY <1>1, <2>2, <3>1
    <3>3. g[T] = f[c] + g[T \ {c}]
      BY <1>2, <2>2, <3>1
    <3>4. k[T \ {c}] = g[T \ {c}]
      BY <1>4, <3>1
    <3>. QED BY <3>2, <3>3, <3>4
  <2>. QED BY <2>1, <2>2
<1>5. P = SUBSET R
  <2> HIDE DEF P
  <2>1. \A T \in SUBSET R : (\A x \in T : T \ {x} \in P) => T \in P
    BY <1>4
  <2>2. P \in SUBSET SUBSET R
    BY DEF P
  <2>. QED BY <1>0, <1>3, <2>1, <2>2, ByElements
<1>. QED BY <1>5

\* Sums over sets without a common element add up.
LEMMA SumsOfParts ==
  ASSUME NEW S, NEW f, NEW g, SumsOf(g, f, S), NEW A \in SUBSET S,
         NEW C \in SUBSET S, A \intersect C = {}
  PROVE  g[A \union C] = g[A] + g[C]
<1>0. \A T \in SUBSET S : \A x \in T : g[T] = f[x] + g[T \ {x}]
  <2> SUFFICES ASSUME NEW T \in SUBSET S, NEW x \in T PROVE g[T] = f[x] + g[T \ {x}]
    OBVIOUS
  <2>. QED BY AnyElement
<1>. IsFiniteSet(S) /\ (\A x \in S : f[x] \in Int) /\ g \in [SUBSET S -> Int] /\ Adds(g, f, S)
  BY DEF SumsOf
<1> DEFINE P == {B \in SUBSET S : A \intersect B = {} => g[A \union B] = g[A] + g[B]}
<1>1. {} \in P
  <2>1. g[{}] = 0
    BY DEF Adds
  <2>2. A \union {} = A /\ g[A] \in Int
    OBVIOUS
  <2>. QED BY <2>1, <2>2
<1>2. ASSUME NEW B \in SUBSET S, \A x \in B : B \ {x} \in P PROVE B \in P
  <2> SUFFICES ASSUME A \intersect B = {} PROVE g[A \union B] = g[A] + g[B]
    OBVIOUS
  <2>1. CASE B = {}
    BY <1>1, <2>1
  <2>2. CASE B # {}
    <3>1. PICK x : x \in B
      BY <2>2
    <3>2. g[B] = f[x] + g[B \ {x}] /\ g[A \union B] = f[x] + g[(A \union B) \ {x}]
      <4>1. A \union B \in SUBSET S /\ x \in A \union B
        BY <3>1
      <4>. QED BY <1>0, <3>1, <4>1
    <3>3. (A \union B) \ {x} = A \union (B \ {x}) /\ A \intersect (B \ {x}) = {}
      BY <3>1
    <3>4. g[A \union (B \ {x})] = g[A] + g[B \ {x}]
      BY <1>2, <3>1, <3>3
    <3>5. f[x] \in Int /\ g[A] \in Int /\ g[B \ {x}] \in Int
      BY <3>1
    <3>6. g[A \union B] = f[x] + (g[A] + g[B \ {x}])
      BY <3>2, <3>3, <3>4, Zenon
    <3>7. \A i, j, l \in Int : i + (j + l) = j + (i + l)
      OBVIOUS
    <3>8. f[x] + (g[A] + g[B \ {x}]) = g[A] + (f[x] + g[B \ {x}])
      BY <3>5, <3>7
    <3>. QED BY <3>2, <3>6, <3>8
  <2>. QED BY <2>1, <2>2
<1>3. P = SUBSET S
  <2> HIDE DEF P
  <2>1. \A T \in SUBSET S : (\A x \in T : T \ {x} \in P) => T \in P
    BY <1>2
  <2>2. P \in SUBSET SUBSET S
    BY DEF P
  <2>. QED BY <1>1, <2>1, <2>2, ByElements
<1>. QED BY <1>3

\* A sum of parts that are at most b each.
LEMMA SumsBounded ==
  ASSUME NEW S, NEW f, NEW g, SumsOf(g, f, S), NEW b \in Int, \A x \in S : f[x] <= b,
         NEW U \in SUBSET S
  PROVE  g[U] \in Int /\ Cardinality(U) \in Nat /\ g[U] <= b * Cardinality(U)
<1>0. \A T \in SUBSET S : \A x \in T : g[T] = f[x] + g[T \ {x}]
  <2> SUFFICES ASSUME NEW T \in SUBSET S, NEW x \in T PROVE g[T] = f[x] + g[T \ {x}]
    OBVIOUS
  <2>. QED BY AnyElement
<1>. IsFiniteSet(S) /\ (\A x \in S : f[x] \in Int) /\ g \in [SUBSET S -> Int] /\ Adds(g, f, S)
  BY DEF SumsOf
<1> DEFINE P == {T \in SUBSET S : g[T] <= b * Cardinality(T)}
<1>1. {} \in P
  <2>1. g[{}] = 0 /\ Cardinality({}) = 0
    BY FS_EmptySet DEF Adds
  <2>. QED BY <2>1
<1>2. ASSUME NEW T \in SUBSET S, \A x \in T : T \ {x} \in P PROVE T \in P
  <2>1. CASE T = {}
    BY <1>1, <2>1
  <2>2. CASE T # {}
    <3>1. PICK x \in T : TRUE
      BY <2>2
    <3>2. PICK n \in Nat : n = Cardinality(T \ {x}) /\ Cardinality(T) = n + 1
      BY <3>1, OneLess
    <3>3. g[T] = f[x] + g[T \ {x}] /\ g[T \ {x}] \in Int /\ f[x] \in Int /\ f[x] <= b
      BY <1>0, <3>1
    <3>4. g[T \ {x}] <= b * n
      BY <1>2, <3>1, <3>2
    <3>5. b * (n + 1) = b * n + b /\ b * n \in Int
      OBVIOUS
    <3>. QED BY <3>2, <3>3, <3>4, <3>5
  <2>. QED BY <2>1, <2>2
<1>3. P = SUBSET S
  <2>. HIDE DEF P
  <2>1. P \in SUBSET SUBSET S
    BY DEF P
  <2>. QED BY <1>1, <1>2, <2>1, ByElements
<1>4. IsFiniteSet(U) /\ Cardinality(U) \in Nat
  BY FS_Subset, FS_CardinalityType
<1>. QED BY <1>3, <1>4

\* A sum of natural numbers is one.
LEMMA SumsOfNaturals ==
  ASSUME NEW S, NEW f, NEW g, SumsOf(g, f, S), \A x \in S : f[x] \in Nat, NEW U \in SUBSET S
  PROVE  g[U] \in Nat
<1>0. \A T \in SUBSET S : \A x \in T : g[T] = f[x] + g[T \ {x}]
  <2> SUFFICES ASSUME NEW T \in SUBSET S, NEW x \in T PROVE g[T] = f[x] + g[T \ {x}]
    OBVIOUS
  <2>. QED BY AnyElement
<1>. IsFiniteSet(S) /\ (\A x \in S : f[x] \in Int) /\ g \in [SUBSET S -> Int] /\ Adds(g, f, S)
  BY DEF SumsOf
<1> DEFINE P == {T \in SUBSET S : g[T] \in Nat}
<1>1. {} \in P
  BY DEF Adds
<1>2. ASSUME NEW T \in SUBSET S, \A x \in T : T \ {x} \in P PROVE T \in P
  <2>1. CASE T = {}
    BY <1>1, <2>1
  <2>2. CASE T # {}
    <3>1. PICK x : x \in T
      BY <2>2
    <3>2. g[T] = f[x] + g[T \ {x}]
      BY <1>0, <3>1
    <3>3. f[x] \in Nat /\ g[T \ {x}] \in Nat
      BY <1>2, <3>1
    <3>. QED BY <3>2, <3>3
  <2>. QED BY <2>1, <2>2
<1>3. P = SUBSET S
  <2> HIDE DEF P
  <2>1. \A T \in SUBSET S : (\A x \in T : T \ {x} \in P) => T \in P
    BY <1>2
  <2>2. P \in SUBSET SUBSET S
    BY DEF P
  <2>. QED BY <1>1, <2>1, <2>2, ByElements
<1>. QED BY <1>3

\* Sums over what was there do not depend on what came.
Prolongs(f, R, k, S) ==
  IsFiniteSet(R) /\ R \subseteq S /\ \A x \in R : f[x] = k[x] /\ f[x] \in Int

SameOn(h, g, R) == \A U \in SUBSET R : h[U] = g[U]

LEMMA SumsStay ==
  ASSUME NEW f, NEW R, NEW k, NEW S, Prolongs(f, R, k, S), NEW g, SumsOf(g, k, S)
  PROVE  \E h : SumsOf(h, f, R) /\ SameOn(h, g, R)
<1>0. IsFiniteSet(R) /\ R \subseteq S /\ \A x \in R : f[x] = k[x] /\ f[x] \in Int
  BY DEF Prolongs
<1>1. PICK h : SumsOf(h, f, R)
  BY <1>0, SumsExist
<1>2. Adds(h, k, R)
  <2> DEFINE In(v) == [u \in SUBSET R |->
                         IF u = {} THEN 0
                         ELSE v[CHOOSE y \in u : TRUE] + h[u \ {CHOOSE y \in u : TRUE}]]
  <2>1. \A u \in SUBSET R : u # {} => (CHOOSE y \in u : TRUE) \in R
    OBVIOUS
  <2>2. In(f) = In(k)
    BY <1>0, <2>1
  <2>3. h = In(f)
    BY <1>1 DEF SumsOf, Adds
  <2>. QED BY <2>2, <2>3 DEF Adds
<1>3. ASSUME NEW U \in SUBSET R PROVE h[U] = g[U]
  BY <1>0, <1>2, SameSums
<1>. QED BY <1>1, <1>3 DEF SameOn

------------------------------------------------------------------------------
(* Filters. *)

\* What holds of the empty sequence and of each that is one longer holds of all.
LEMMA ByAppending ==
  ASSUME NEW E, NEW S, <<>> \in S, \A s \in Seq(E), e \in E : s \in S => Append(s, e) \in S
  PROVE  Seq(E) \subseteq S
<1> SUFFICES ASSUME NEW s \in Seq(E) PROVE s \in S
  OBVIOUS
<1> DEFINE P == {n \in Int : SubSeq(s, 1, n) \in S}
<1>0. PICK N \in Nat : N = Len(s)
  OBVIOUS
<1>1. 0 \in P
  <2>1. SubSeq(s, 1, 0) = <<>> /\ 0 \in Int
    OBVIOUS
  <2>2. SubSeq(s, 1, 0) \in S
    BY <2>1, Zenon
  <2>. QED BY <2>1, <2>2
<1>2. ASSUME NEW n \in 0 .. N, n \in P, n # N PROVE n + 1 \in P
  <2>1. s[n + 1] \in E /\ SubSeq(s, 1, n) \in Seq(E)
    BY <1>0, <1>2
  <2>2. SubSeq(s, 1, n + 1) = Append(SubSeq(s, 1, n), s[n + 1])
    BY <1>0, <1>2
  <2>3. SubSeq(s, 1, n) \in S /\ n + 1 \in Int
    BY <1>2
  <2>4. Append(SubSeq(s, 1, n), s[n + 1]) \in S
    BY <2>1, <2>3
  <2>5. SubSeq(s, 1, n + 1) \in S
    BY <2>2, <2>4, Zenon
  <2>. QED BY <2>3, <2>5
<1>3. 0 .. N \subseteq P
  <2>1. 0 \in Int /\ N \in Int
    OBVIOUS
  <2>2. \A n \in 0 .. N : n \in P /\ n # N => n + 1 \in P
    BY <1>2
  <2> HIDE DEF P
  <2>. QED BY <1>1, <2>1, <2>2, Climbing
<1>4. SubSeq(s, 1, N) \in S
  BY <1>3
<1>5. SubSeq(s, 1, N) = s
  BY <1>0
<1>. QED BY <1>4, <1>5

\* The loop of a filter.
KeepsTo(k, s, T) ==
  k = [n \in 0 .. Len(s) |-> IF n = 0 THEN <<>>
                             ELSE IF s[n] \in T THEN Append(k[n - 1], s[n]) ELSE k[n - 1]]

LEMMA KeptLoop ==
  ASSUME NEW E, NEW s \in Seq(E), NEW T
  PROVE  \E k \in [0 .. Len(s) -> Seq(E)] : KeepsTo(k, s, T) /\ Kept(s, T) = k[Len(s)]
<1>0. PICK N \in Nat : N = Len(s)
  OBVIOUS
<1> DEFINE g == [p \in (0 + 1 .. N) \X Seq(E) |->
                   IF s[p[1]] \in T THEN Append(p[2], s[p[1]]) ELSE p[2]]
<1>1. g \in [(0 + 1 .. N) \X Seq(E) -> Seq(E)]
  BY <1>0
<1>2. PICK k \in [0 .. N -> Seq(E)] : Iterates(k, 0, N, <<>>, g)
  <2>1. 0 \in Int /\ N \in Int /\ 0 <= N /\ <<>> \in Seq(E)
    OBVIOUS
  <2> HIDE DEF g
  <2>. QED BY <1>1, <2>1, Iteration
<1>3. k[0] = <<>>
  BY <1>2 DEF Iterates
<1>4. ASSUME NEW n \in 1 .. N
      PROVE  k[n] = IF s[n] \in T THEN Append(k[n - 1], s[n]) ELSE k[n - 1]
  <2>1. n \in 0 + 1 .. N /\ n - 1 \in 0 .. N
    OBVIOUS
  <2>2. k[n] = g[<<n, k[n - 1]>>]
    <3> HIDE DEF g
    <3>. QED BY <1>2, <2>1, Zenon DEF Iterates
  <2>. QED BY <2>1, <2>2
<1>5. KeepsTo(k, s, T)
  <2>1. k = [n \in 0 .. N |-> k[n]]
    OBVIOUS
  <2>2. ASSUME NEW n \in 0 .. N
        PROVE  k[n] = IF n = 0 THEN <<>>
                      ELSE IF s[n] \in T THEN Append(k[n - 1], s[n]) ELSE k[n - 1]
    <3>1. CASE n = 0
      BY <1>3, <3>1
    <3>2. CASE n # 0
      <4>1. n \in 1 .. N
        BY <3>2
      <4>. QED BY <1>4, <3>2, <4>1, Zenon
    <3>. QED BY <3>1, <3>2
  <2>. QED BY <1>0, <2>1, <2>2 DEF KeepsTo
<1> DEFINE h == CHOOSE h : KeepsTo(h, s, T)
<1>6. KeepsTo(h, s, T)
  BY <1>5
<1>7. Kept(s, T) = h[N]
  BY <1>0 DEF Kept, KeepsTo
<1> HIDE DEF h
<1>8. h[N] = k[N]
  <2>1. \A n \in 0 .. N : h[n] = IF n = 0 THEN <<>>
                             ELSE IF s[n] \in T THEN Append(h[n - 1], s[n]) ELSE h[n - 1]
    BY <1>0, <1>6 DEF KeepsTo
  <2>2. GoOnAlike(h, k, 0, N)
    <3>1. h[0] = k[0]
      BY <1>3, <2>1
    <3>2. ASSUME NEW n \in 0 + 1 .. N, h[n - 1] = k[n - 1] PROVE h[n] = k[n]
      <4>1. n \in 1 .. N /\ n \in 0 .. N /\ n # 0
        OBVIOUS
      <4>. QED BY <1>4, <2>1, <3>2, <4>1
    <3>. QED BY <3>1, <3>2 DEF GoOnAlike
  <2>3. 0 \in Int /\ N \in Int /\ N \in 0 .. N
    OBVIOUS
  <2>. QED BY <2>2, <2>3, GoingOnAlike
<1>. QED BY <1>0, <1>2, <1>5, <1>7, <1>8

LEMMA KeptType ==
  ASSUME NEW E, NEW s \in Seq(E), NEW T
  PROVE  Kept(s, T) \in Seq(E)
<1>1. PICK k \in [0 .. Len(s) -> Seq(E)] : Kept(s, T) = k[Len(s)]
  BY KeptLoop
<1>. QED BY <1>1

LEMMA KeptOfNone ==
  ASSUME NEW T
  PROVE  Kept(<<>>, T) = <<>>
<1>1. <<>> \in Seq({}) /\ Len(<<>>) = 0
  OBVIOUS
<1>2. PICK k \in [0 .. Len(<<>>) -> Seq({})] : KeepsTo(k, <<>>, T) /\ Kept(<<>>, T) = k[Len(<<>>)]
  BY <1>1, KeptLoop
<1>. QED BY <1>1, <1>2 DEF KeepsTo

\* One more element is appended to what is kept, or not.
LEMMA KeptAppended ==
  ASSUME NEW E, NEW s \in Seq(E), NEW e \in E, NEW T
  PROVE  Kept(Append(s, e), T) = IF e \in T THEN Append(Kept(s, T), e) ELSE Kept(s, T)
<1>0. PICK N \in Nat : N = Len(s)
  OBVIOUS
<1>1. PICK t \in Seq(E) : /\ t = Append(s, e) /\ Len(t) = N + 1 /\ t[N + 1] = e
                          /\ \A n \in 1 .. N : t[n] = s[n]
  <2>1. /\ Append(s, e) \in Seq(E) /\ Len(Append(s, e)) = N + 1 /\ Append(s, e)[N + 1] = e
        /\ \A n \in 1 .. N : Append(s, e)[n] = s[n]
    BY <1>0
  <2>. QED BY <2>1, Zenon
<1>2. PICK k \in [0 .. Len(s) -> Seq(E)] : KeepsTo(k, s, T) /\ Kept(s, T) = k[Len(s)]
  BY KeptLoop
<1>3. PICK h \in [0 .. Len(t) -> Seq(E)] : KeepsTo(h, t, T) /\ Kept(t, T) = h[Len(t)]
  BY KeptLoop
<1>4. \A n \in 0 .. N : k[n] = IF n = 0 THEN <<>>
                             ELSE IF s[n] \in T THEN Append(k[n - 1], s[n]) ELSE k[n - 1]
  BY <1>0, <1>2 DEF KeepsTo
<1>5. \A n \in 0 .. N + 1 : h[n] = IF n = 0 THEN <<>>
                             ELSE IF t[n] \in T THEN Append(h[n - 1], t[n]) ELSE h[n - 1]
  BY <1>1, <1>3 DEF KeepsTo
<1>6. GoOnAlike(h, k, 0, N)
  <2>1. h[0] = k[0]
    BY <1>4, <1>5
  <2>2. ASSUME NEW n \in 0 + 1 .. N, h[n - 1] = k[n - 1] PROVE h[n] = k[n]
    <3>1. n \in 1 .. N /\ n \in 0 .. N /\ n # 0 /\ n \in 0 .. N + 1
      OBVIOUS
    <3>. QED BY <1>1, <1>4, <1>5, <2>2, <3>1
  <2>. QED BY <2>1, <2>2 DEF GoOnAlike
<1>7. h[N] = k[N]
  <2>1. 0 \in Int /\ N \in Int /\ N \in 0 .. N
    OBVIOUS
  <2>. QED BY <1>6, <2>1, GoingOnAlike
<1>8. N + 1 \in 0 .. N + 1 /\ N + 1 # 0 /\ (N + 1) - 1 = N
  OBVIOUS
<1>9. h[N + 1] = IF e \in T THEN Append(h[N], e) ELSE h[N]
  BY <1>1, <1>5, <1>8
<1>. QED BY <1>0, <1>1, <1>2, <1>3, <1>7, <1>9

\* Which elements are in the set matters only for those of the sequence.
LEMMA KeptAlike ==
  ASSUME NEW E, NEW T, NEW U, \A e \in E : e \in T <=> e \in U, NEW s \in Seq(E)
  PROVE  Kept(s, T) = Kept(s, U)
<1> DEFINE S == {r \in Seq(E) : Kept(r, T) = Kept(r, U)}
<1>1. <<>> \in S
  BY KeptOfNone
<1>2. ASSUME NEW r \in Seq(E), NEW e \in E, r \in S PROVE Append(r, e) \in S
  <2>1. Kept(Append(r, e), T) = IF e \in T THEN Append(Kept(r, T), e) ELSE Kept(r, T)
    BY KeptAppended
  <2>2. Kept(Append(r, e), U) = IF e \in U THEN Append(Kept(r, U), e) ELSE Kept(r, U)
    BY KeptAppended
  <2>3. Kept(r, T) = Kept(r, U) /\ (e \in T <=> e \in U)
    BY <1>2
  <2>4. Kept(Append(r, e), T) = Kept(Append(r, e), U)
    <3>1. CASE e \in T
      BY <2>1, <2>2, <2>3, <3>1, Zenon
    <3>2. CASE e \notin T
      BY <2>1, <2>2, <2>3, <3>2, Zenon
    <3>. QED BY <3>1, <3>2
  <2>. QED BY <2>4
<1>3. Seq(E) \subseteq S
  <2> HIDE DEF S
  <2>. QED BY <1>1, <1>2, ByAppending
<1>. QED BY <1>3

\* A filter after another one.
LEMMA KeptTwice ==
  ASSUME NEW E, NEW T, NEW U, NEW s \in Seq(E)
  PROVE  Kept(Kept(s, T), U) = Kept(s, T \intersect U)
<1> DEFINE S == {r \in Seq(E) : Kept(Kept(r, T), U) = Kept(r, T \intersect U)}
<1>1. <<>> \in S
  BY KeptOfNone
<1>2. ASSUME NEW r \in Seq(E), NEW e \in E, r \in S PROVE Append(r, e) \in S
  <2>0. PICK k \in Seq(E) : k = Kept(r, T)
    BY KeptType
  <2>1. Kept(Append(r, e), T) = IF e \in T THEN Append(k, e) ELSE k
    BY <2>0, KeptAppended
  <2>2. Kept(Append(r, e), T \intersect U)
          = IF e \in T \intersect U THEN Append(Kept(r, T \intersect U), e) ELSE Kept(r, T \intersect U)
    BY KeptAppended
  <2>3. Kept(Append(k, e), U) = IF e \in U THEN Append(Kept(k, U), e) ELSE Kept(k, U)
    BY KeptAppended
  <2>4. Kept(Kept(Append(r, e), T), U) = Kept(Append(r, e), T \intersect U)
    <3>1. Kept(k, U) = Kept(r, T \intersect U)
      BY <1>2, <2>0
    <3>2. CASE e \in T /\ e \in U
      <4>1. e \in T \intersect U
        BY <3>2
      <4>. QED BY <2>1, <2>2, <2>3, <3>1, <3>2, <4>1, Zenon
    <3>3. CASE e \notin T \/ e \notin U
      <4>1. e \notin T \intersect U
        BY <3>3
      <4>2. CASE e \in T
        BY <2>1, <2>2, <2>3, <3>1, <3>3, <4>1, <4>2, Zenon
      <4>3. CASE e \notin T
        BY <2>1, <2>2, <2>3, <3>1, <4>1, <4>3, Zenon
      <4>. QED BY <4>2, <4>3
    <3>. QED BY <3>2, <3>3
  <2>. QED BY <2>4
<1>3. Seq(E) \subseteq S
  <2> HIDE DEF S
  <2>. QED BY <1>1, <1>2, ByAppending
<1>. QED BY <1>3

\* As many are kept as are in the set.
LEMMA KeptCount ==
  ASSUME NEW E, NEW T, NEW s \in Seq(E)
  PROVE  /\ IsFiniteSet({n \in 1 .. Len(s) : s[n] \in T})
         /\ Len(Kept(s, T)) = Cardinality({n \in 1 .. Len(s) : s[n] \in T})
<1> DEFINE At(r) == {n \in 1 .. Len(r) : r[n] \in T}
           S == {r \in Seq(E) : IsFiniteSet(At(r)) /\ Len(Kept(r, T)) = Cardinality(At(r))}
<1>1. <<>> \in S
  <2>1. At(<<>>) = {}
    OBVIOUS
  <2>2. IsFiniteSet({}) /\ Cardinality({}) = 0
    BY FS_EmptySet
  <2>. QED BY <2>1, <2>2, KeptOfNone
<1>2. ASSUME NEW r \in Seq(E), NEW e \in E, r \in S PROVE Append(r, e) \in S
  <2>0. PICK k \in Seq(E) : k = Kept(r, T)
    BY KeptType
  <2>1. Kept(Append(r, e), T) = IF e \in T THEN Append(k, e) ELSE k
    BY <2>0, KeptAppended
  <2>2. At(Append(r, e)) = IF e \in T THEN At(r) \union {Len(r) + 1} ELSE At(r)
    OBVIOUS
  <2>3. Len(r) + 1 \notin At(r)
    OBVIOUS
  <2>4. IsFiniteSet(At(r)) /\ Len(k) = Cardinality(At(r))
    BY <1>2, <2>0
  <2>5. IsFiniteSet(At(r) \union {Len(r) + 1})
        /\ Cardinality(At(r) \union {Len(r) + 1}) = Cardinality(At(r)) + 1
    <3> HIDE DEF At
    <3>. QED BY <2>3, <2>4, FS_AddElement
  <2>6. Append(r, e) \in Seq(E) /\ Len(Append(k, e)) = Len(k) + 1
    OBVIOUS
  <2> HIDE DEF At
  <2>. QED BY <2>1, <2>2, <2>4, <2>5, <2>6
<1>3. Seq(E) \subseteq S
  <2> HIDE DEF S
  <2>. QED BY <1>1, <1>2, ByAppending
<1>. QED BY <1>3

\* As many pass a filter as the filter says, and no more than there are.
LEMMA KeptOfWhole ==
  ASSUME NEW E, NEW s \in Seq(E), NEW T
  PROVE  Len(Kept(s, T)) \in Nat /\ Len(Kept(s, T)) <= Len(s)
<1>1. PICK M : M = {n \in 1 .. Len(s) : s[n] \in T}
  OBVIOUS
<1>2. Len(Kept(s, T)) = Cardinality(M)
  BY <1>1, KeptCount
<1>3. IsFiniteSet(1 .. Len(s)) /\ Cardinality(1 .. Len(s)) = Len(s)
  <2>1. PICK N \in Nat : N = Len(s)
    OBVIOUS
  <2>2. IsFiniteSet(1 .. N) /\ Cardinality(1 .. N) = IF 1 > N THEN 0 ELSE N - 1 + 1
    BY FS_Interval
  <2>3. Cardinality(1 .. N) = N
    BY <2>2
  <2>. QED BY <2>1, <2>2, <2>3
<1>4. M \subseteq 1 .. Len(s)
  BY <1>1
<1>5. Cardinality(M) \in Nat /\ Cardinality(M) <= Cardinality(1 .. Len(s))
  BY <1>3, <1>4, FS_Subset, FS_CardinalityType
<1>. QED BY <1>2, <1>3, <1>5

\* Each element of a sequence stands in a relation, a set of pairs, to all after it.
InOrder(s, R) == \A i, j \in 1 .. Len(s) : i < j => <<s[i], s[j]>> \in R

Occurs(e, s) == \E i \in 1 .. Len(s) : s[i] = e

LEMMA OccursAppended ==
  ASSUME NEW E, NEW s \in Seq(E), NEW e \in E, NEW d
  PROVE  Occurs(d, Append(s, e)) <=> Occurs(d, s) \/ d = e
<1>0. PICK n \in Nat : n = Len(s)
  OBVIOUS
<1>1. PICK t \in Seq(E) : /\ t = Append(s, e) /\ Len(t) = n + 1 /\ t[n + 1] = e
                          /\ \A i \in 1 .. n : t[i] = s[i]
  <2>1. /\ Append(s, e) \in Seq(E) /\ Len(Append(s, e)) = n + 1 /\ Append(s, e)[n + 1] = e
        /\ \A i \in 1 .. n : Append(s, e)[i] = s[i]
    BY <1>0
  <2>. QED BY <2>1, Zenon
<1>2. 1 .. n + 1 = (1 .. n) \union {n + 1}
  OBVIOUS
<1>3. Occurs(d, t) <=> Occurs(d, s) \/ d = e
  BY <1>0, <1>1, <1>2 DEF Occurs
<1>. QED BY <1>1, <1>3

\* What is kept is what passes.
LEMMA KeptMembers ==
  ASSUME NEW E, NEW T, NEW s \in Seq(E), NEW d
  PROVE  Occurs(d, Kept(s, T)) <=> Occurs(d, s) /\ d \in T
<1> DEFINE S == {r \in Seq(E) : Occurs(d, Kept(r, T)) <=> Occurs(d, r) /\ d \in T}
<1>1. <<>> \in S
  BY KeptOfNone DEF Occurs
<1>2. ASSUME NEW r \in Seq(E), NEW e \in E, r \in S PROVE Append(r, e) \in S
  <2>0. PICK k \in Seq(E) : k = Kept(r, T)
    BY KeptType
  <2>1. Kept(Append(r, e), T) = IF e \in T THEN Append(k, e) ELSE k
    BY <2>0, KeptAppended
  <2>2. Occurs(d, Append(r, e)) <=> Occurs(d, r) \/ d = e
    BY OccursAppended
  <2>3. Occurs(d, Append(k, e)) <=> Occurs(d, k) \/ d = e
    BY OccursAppended
  <2>4. Append(r, e) \in Seq(E) /\ (Occurs(d, k) <=> Occurs(d, r) /\ d \in T)
    BY <1>2, <2>0
  <2>5. Occurs(d, Kept(Append(r, e), T)) <=> Occurs(d, Append(r, e)) /\ d \in T
    <3>1. CASE e \in T
      BY <2>1, <2>2, <2>3, <2>4, <3>1, Zenon
    <3>2. CASE e \notin T
      BY <2>1, <2>2, <2>4, <3>2, Zenon
    <3>. QED BY <3>1, <3>2
  <2>. QED BY <2>4, <2>5
<1>3. Seq(E) \subseteq S
  <2> HIDE DEF S
  <2>. QED BY <1>1, <1>2, ByAppending
<1>. QED BY <1>3

LEMMA OrderAppended ==
  ASSUME NEW E, NEW R, NEW s \in Seq(E), NEW e \in E
  PROVE  InOrder(Append(s, e), R) <=> InOrder(s, R) /\ \A d \in E : Occurs(d, s) => <<d, e>> \in R
<1>0. PICK n \in Nat : n = Len(s)
  OBVIOUS
<1>1. PICK t \in Seq(E) : /\ t = Append(s, e) /\ Len(t) = n + 1 /\ t[n + 1] = e
                          /\ \A i \in 1 .. n : t[i] = s[i]
  <2>1. /\ Append(s, e) \in Seq(E) /\ Len(Append(s, e)) = n + 1 /\ Append(s, e)[n + 1] = e
        /\ \A i \in 1 .. n : Append(s, e)[i] = s[i]
    BY <1>0
  <2>. QED BY <2>1, Zenon
<1>2. \A i \in 1 .. n : s[i] \in E
  BY <1>0
<1>3. ASSUME InOrder(t, R) PROVE InOrder(s, R) /\ \A d \in E : Occurs(d, s) => <<d, e>> \in R
  <2>1. InOrder(s, R)
    BY <1>0, <1>1, <1>3 DEF InOrder
  <2>2. \A i \in 1 .. n : <<s[i], e>> \in R
    BY <1>1, <1>3 DEF InOrder
  <2>. QED BY <2>1, <2>2, <1>0 DEF Occurs
<1>4. ASSUME InOrder(s, R), \A d \in E : Occurs(d, s) => <<d, e>> \in R PROVE InOrder(t, R)
  <2>1. \A i \in 1 .. n : <<s[i], e>> \in R
    BY <1>0, <1>2, <1>4 DEF Occurs
  <2>2. ASSUME NEW i \in 1 .. n + 1, NEW j \in 1 .. n + 1, i < j PROVE <<t[i], t[j]>> \in R
    <3>1. CASE j = n + 1
      <4>1. i \in 1 .. n /\ t[j] = e
        BY <2>2, <3>1, <1>1
      <4>. QED BY <4>1, <1>1, <2>1
    <3>2. CASE j # n + 1
      <4>1. i \in 1 .. n /\ j \in 1 .. n
        BY <2>2, <3>2
      <4>. QED BY <4>1, <1>0, <1>1, <1>4, <2>2 DEF InOrder
    <3>. QED BY <3>1, <3>2
  <2>. QED BY <2>2, <1>1 DEF InOrder
<1>. QED BY <1>1, <1>3, <1>4

\* What is kept stays in order.
LEMMA KeptInOrder ==
  ASSUME NEW E, NEW T, NEW R, NEW s \in Seq(E), InOrder(s, R)
  PROVE  InOrder(Kept(s, T), R)
<1> DEFINE S == {r \in Seq(E) : InOrder(r, R) => InOrder(Kept(r, T), R)}
<1>1. <<>> \in S
  BY KeptOfNone DEF InOrder
<1>2. ASSUME NEW r \in Seq(E), NEW e \in E, r \in S PROVE Append(r, e) \in S
  <2>0. PICK k \in Seq(E) : k = Kept(r, T)
    BY KeptType
  <2>1. Kept(Append(r, e), T) = IF e \in T THEN Append(k, e) ELSE k
    BY <2>0, KeptAppended
  <2>2. Append(r, e) \in Seq(E) /\ (InOrder(r, R) => InOrder(k, R))
    BY <1>2, <2>0
  <2>3. ASSUME InOrder(Append(r, e), R) PROVE InOrder(k, R) /\ InOrder(Append(k, e), R)
    <3>1. InOrder(r, R) /\ \A d \in E : Occurs(d, r) => <<d, e>> \in R
      BY <2>3, OrderAppended
    <3>2. \A d \in E : Occurs(d, k) => Occurs(d, r)
      BY <2>0, KeptMembers
    <3>3. InOrder(k, R) /\ \A d \in E : Occurs(d, k) => <<d, e>> \in R
      BY <2>2, <3>1, <3>2
    <3>. QED BY <3>3, OrderAppended
  <2>4. InOrder(Append(r, e), R) => InOrder(Kept(Append(r, e), T), R)
    <3>1. CASE e \in T
      BY <2>1, <2>3, <3>1, Zenon
    <3>2. CASE e \notin T
      BY <2>1, <2>3, <3>2, Zenon
    <3>. QED BY <3>1, <3>2
  <2>. QED BY <2>2, <2>4
<1>3. Seq(E) \subseteq S
  <2> HIDE DEF S
  <2>. QED BY <1>1, <1>2, ByAppending
<1>. QED BY <1>3

==============================================================================
