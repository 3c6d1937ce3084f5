-------------------------- MODULE AttestationProofs --------------------------
(***************************************************************************)
(* Proofs about what others attest to: the reports of an oracle's sources, *)
(* for every number of reporters, values and configurations, the auditors' *)
(* ring signatures, for every group, ring and hash function, and the       *)
(* figures that quality control makes of its sensors' readings.            *)
(***************************************************************************)
EXTENDS Oracle, RingSignature, QualityControl, Recursion, SequenceTheorems, TLAPS

------------------------------------------------------------------------------
(* Oracle. *)

(***************************************************************************)
(* Finite sets of integers, and integer division.                          *)
(***************************************************************************)

\* A finite set of integers has a greatest element.
LEMMA Greatest ==
  ASSUME NEW S \in SUBSET Int, IsFiniteSet(S), S # {}
  PROVE  \E m \in S : \A x \in S : x <= m
<1> SUFFICES ASSUME ~ \E m \in S : \A x \in S : x <= m PROVE FALSE
  OBVIOUS
<1> DEFINE D == {T \in SUBSET S : T # {} /\ ~ \E m \in T : \A x \in T : x <= m}
<1>1. D \subseteq FiniteSubsetsOf(S) /\ D # {}
  <2>1. \A T \in SUBSET S : IsFiniteSet(T)
    BY FS_Subset
  <2>2. S \in D
    OBVIOUS
  <2>. QED BY <2>1, <2>2 DEF FiniteSubsetsOf
<1>2. PICK T \in D : \A U \in D : <<U, T>> \notin StrictSubsetOrdering(S)
  <2>1. IsWellFoundedOn(StrictSubsetOrdering(S), FiniteSubsetsOf(S))
    BY FS_StrictSubsetOrderingWellFounded
  <2>. QED BY <1>1, <2>1, WFMin
<1>3. PICK x \in T : TRUE
  OBVIOUS
<1>4. T \ {x} \notin D
  <2>1. <<T \ {x}, T>> \in StrictSubsetOrdering(S)
    BY <1>3 DEF StrictSubsetOrdering
  <2>. QED BY <1>2, <2>1
<1>5. CASE T \ {x} = {}
  <2>1. \A y \in T : y <= x
    BY <1>5
  <2>. QED BY <2>1
<1>6. CASE T \ {x} # {}
  <2>1. PICK m \in T \ {x} : \A y \in T \ {x} : y <= m
    BY <1>4, <1>6
  <2>2. CASE m <= x
    <3>1. \A y \in T : y <= x
      BY <2>1, <2>2
    <3>. QED BY <3>1
  <2>3. CASE x < m
    <3>1. \A y \in T : y <= m
      BY <2>1, <2>3
    <3>. QED BY <3>1
  <2>. QED BY <2>2, <2>3
<1>. QED BY <1>5, <1>6

\* What a function takes a finite set to is finite.
LEMMA FiniteImage ==
  ASSUME NEW R, IsFiniteSet(R), NEW T, NEW f \in [R -> T], \A t \in T : \E x \in R : f[x] = t
  PROVE  IsFiniteSet(T)
<1>1. f \in Surjection(R, T)
  BY DEF Surjection
<1>. QED BY <1>1, FS_Surjection

\* It has a least element too: the greatest one of its mirror image, negated.
LEMMA Least ==
  ASSUME NEW S \in SUBSET Int, IsFiniteSet(S), S # {}
  PROVE  \E m \in S : \A x \in S : m <= x
<1> DEFINE T == {-x : x \in S}
           f == [x \in S |-> -x]
<1>1. f \in [S -> T] /\ \A x \in S : f[x] = -x
  OBVIOUS
<1>2. \A t \in T : \E x \in S : f[x] = t
  <2>1. \A t \in T : \E x \in S : t = -x
    OBVIOUS
  <2>. HIDE DEF f, T
  <2>. QED BY <1>1, <2>1
<1>3. T # {} /\ T \in SUBSET Int
  <2>1. \A x \in S : -x \in Int
    OBVIOUS
  <2>2. PICK x \in S : TRUE
    OBVIOUS
  <2>3. -x \in T
    OBVIOUS
  <2>4. T \in SUBSET Int
    BY <2>1
  <2>. QED BY <2>3, <2>4
<1>4. IsFiniteSet(T)
  <2>. HIDE DEF f, T
  <2>. QED BY <1>1, <1>2, FiniteImage
<1>5. PICK m \in T : \A x \in T : x <= m
  <2>. HIDE DEF T
  <2>. QED BY <1>3, <1>4, Greatest
<1>6. PICK y \in S : m = -y
  OBVIOUS
<1>7. \A x \in S : -x <= m
  BY <1>5
<1>8. \A x \in S : y <= x
  BY <1>6, <1>7
<1>. QED BY <1>8

\* The extrema FiniteSetsExt chooses.
LEMMA Extrema ==
  ASSUME NEW S \in SUBSET Int, IsFiniteSet(S), S # {}
  PROVE  /\ Min(S) \in S /\ Max(S) \in S
         /\ \A x \in S : Min(S) <= x /\ x <= Max(S)
<1>1. \E m \in S : \A x \in S : x <= m
  BY Greatest
<1>2. \E m \in S : \A x \in S : m <= x
  BY Least
<1>3. Max(S) \in S /\ \A x \in S : x <= Max(S)
  BY <1>1 DEF Max
<1>4. Min(S) \in S /\ \A x \in S : Min(S) <= x
  BY <1>2 DEF Min
<1>. QED BY <1>3, <1>4

LEMMA TimesMonotone ==
  ASSUME NEW a \in Int, NEW b \in Int, NEW c \in Nat, a <= b
  PROVE  a * c <= b * c
OBVIOUS

LEMMA TimesOneMore ==
  ASSUME NEW a \in Int, NEW c \in Nat
  PROVE  a * (c + 1) = a * c + a /\ a * c \in Int
OBVIOUS

\* A quotient that fits its width and is at most d comes of less than d + 1 times.
LEMMA BoundedQuotient ==
  ASSUME NEW a \in Nat, NEW y \in Nat \ {0}, NEW w \in Nat \ {0}, NEW d \in Nat,
         a < w * y, (a \div y) % w <= d
  PROVE  a < (d + 1) * y
<1> DEFINE q == a \div y
<1>1. q \in Nat /\ q * y <= a /\ a < (q + 1) * y
  OBVIOUS
<1> HIDE DEF q
<1>2. q < w
  <2>1. CASE w <= q
    <3>1. w * y <= q * y
      BY <1>1, <2>1, TimesMonotone
    <3>. QED BY <1>1, <3>1
  <2>. QED BY <1>1, <2>1
<1>3. q % w = q
  BY <1>1, <1>2
<1>4. q + 1 <= d + 1
  BY <1>1, <1>3 DEF q
<1>5. (q + 1) * y <= (d + 1) * y
  BY <1>1, <1>4, TimesMonotone
<1>. QED BY <1>1, <1>5

\* The average of two numbers is between them, whichever way it is rounded.
LEMMA HalfBetween ==
  ASSUME NEW a \in Int, NEW b \in Int, NEW lo \in Int, NEW hi \in Int,
         lo <= a, a <= hi, lo <= b, b <= hi
  PROVE  Half(a + b) \in lo .. hi
BY DEF Half

(***************************************************************************)
(* Ranks and medians.                                                      *)
(***************************************************************************)

Said(R, rep) == {rep[r].value : r \in R}

\* The reports of the reporters R are reports of integers.
Reported(R, rep) == IsFiniteSet(R) /\ \A r \in R : rep[r].value \in Int

LEMMA SaidFinite ==
  ASSUME NEW R, NEW rep, Reported(R, rep)
  PROVE  IsFiniteSet(Said(R, rep)) /\ Said(R, rep) \in SUBSET Int
<1> DEFINE f == [r \in R |-> rep[r].value]
<1>1. f \in [R -> Said(R, rep)] /\ \A v \in Said(R, rep) : \E r \in R : f[r] = v
  BY DEF Said
<1>2. IsFiniteSet(Said(R, rep))
  <2>. HIDE DEF f
  <2>. QED BY <1>1, FiniteImage DEF Reported
<1>. QED BY <1>2 DEF Said, Reported

\* Those that said less than v, and those that said at most v.
Less(R, rep, v) == {r \in R : rep[r].value < v}
AtMost(R, rep, v) == {r \in R : rep[r].value <= v}

LEMMA Counts ==
  ASSUME NEW R, NEW rep, Reported(R, rep)
  PROVE  /\ Cardinality(R) \in Nat
         /\ \A v : /\ IsFiniteSet(Less(R, rep, v)) /\ Cardinality(Less(R, rep, v)) \in Nat
                  /\ IsFiniteSet(AtMost(R, rep, v)) /\ Cardinality(AtMost(R, rep, v)) \in Nat
BY FS_Subset, FS_CardinalityType DEF Reported, Less, AtMost

\* Every rank is held by a value somebody said: the least one that enough are at most.
LEMMA RankExists ==
  ASSUME NEW R, NEW rep, Reported(R, rep), NEW i \in 1 .. Cardinality(R)
  PROVE  \E v \in Said(R, rep) : IsRanked(v, i, R, rep)
<1> DEFINE S == {v \in Said(R, rep) : Cardinality(AtMost(R, rep, v)) >= i}
<1>1. Cardinality(R) \in Nat /\ R # {}
  BY Counts, FS_EmptySet
<1>2. S # {}
  <2>1. PICK m \in Said(R, rep) : \A x \in Said(R, rep) : x <= m
    <3>1. Said(R, rep) # {}
      BY <1>1 DEF Said
    <3>. QED BY <3>1, SaidFinite, Greatest
  <2>2. AtMost(R, rep, m) = R
    BY <2>1 DEF AtMost, Said
  <2>. QED BY <1>1, <2>1, <2>2
<1>3. IsFiniteSet(S) /\ S \in SUBSET Int
  BY SaidFinite, FS_Subset
<1>4. PICK v \in S : \A x \in S : v <= x
  <2>. HIDE DEF S
  <2>. QED BY <1>2, <1>3, Least
<1>5. Cardinality(Less(R, rep, v)) < i
  <2>1. SUFFICES ASSUME Cardinality(Less(R, rep, v)) >= i PROVE FALSE
    BY Counts
  <2>2. Less(R, rep, v) # {}
    BY <2>1, FS_EmptySet
  <2>3. Reported(Less(R, rep, v), rep)
    BY Counts DEF Reported, Less
  <2>4. PICK u \in Said(Less(R, rep, v), rep) : \A x \in Said(Less(R, rep, v), rep) : x <= u
    <3>1. Said(Less(R, rep, v), rep) # {}
      BY <2>2 DEF Said
    <3>. QED BY <2>3, <3>1, SaidFinite, Greatest
  <2>5. u \in Said(R, rep) /\ u < v /\ u \in Int /\ v \in Int
    BY <1>3, <2>3, SaidFinite DEF Said, Less
  <2>6. AtMost(R, rep, u) = Less(R, rep, v)
    <3>1. \A r \in R : rep[r].value <= u <=> rep[r].value < v
      BY <2>4, <2>5 DEF Said, Less, Reported
    <3>. QED BY <3>1 DEF AtMost, Less
  <2>7. u \in S
    BY <2>1, <2>5, <2>6
  <2>. QED BY <1>4, <2>5, <2>7
<1>. QED BY <1>4, <1>5 DEF IsRanked, Less, AtMost

\* The sorted values are a sequence of what was said, each in its rank.
LEMMA Sorted ==
  ASSUME NEW R, NEW rep, Reported(R, rep)
  PROVE  LET s == SortedValues(R, rep)
         IN  /\ s \in Seq(Int) /\ Len(s) = Cardinality(R)
             /\ \A i \in 1 .. Cardinality(R) :
                  s[i] \in Said(R, rep) /\ s[i] \in Int /\ IsRanked(s[i], i, R, rep)
<1> DEFINE s == SortedValues(R, rep)
<1>1. \A i \in 1 .. Cardinality(R) : s[i] \in Said(R, rep) /\ IsRanked(s[i], i, R, rep)
  BY RankExists DEF SortedValues, Said
<1>2. s \in [1 .. Cardinality(R) -> Int]
  BY <1>1, SaidFinite DEF SortedValues
<1>3. s \in Seq(Int) /\ Len(s) = Cardinality(R)
  <2>. HIDE DEF s
  <2>. QED BY <1>2, Counts, LenProperties
<1>. QED BY <1>1, <1>2, <1>3

LEMMA DisjointUnion ==
  ASSUME NEW A, NEW B, IsFiniteSet(A), IsFiniteSet(B), A \cap B = {}
  PROVE  Cardinality(A \cup B) = Cardinality(A) + Cardinality(B)
<1>1. Cardinality(A \cup B) = Cardinality(A) + Cardinality(B) - Cardinality(A \cap B)
  BY FS_Union
<1>2. Cardinality(A \cap B) = 0
  BY FS_EmptySet
<1>. QED BY <1>1, <1>2, FS_CardinalityType

\* A rank that a set of reporters reaches from both ends is held within what it said.
LEMMA RankWithin ==
  ASSUME NEW R, NEW rep, Reported(R, rep), NEW H \in SUBSET R, H # {},
         NEW i \in 1 .. Cardinality(R), NEW v \in Int, IsRanked(v, i, R, rep),
         i <= Cardinality(H), Cardinality(R) < i + Cardinality(H)
  PROVE  v \in Min(Said(H, rep)) .. Max(Said(H, rep))
<1> DEFINE lo == Min(Said(H, rep))
           hi == Max(Said(H, rep))
<1>1. IsFiniteSet(H) /\ Cardinality(H) \in Nat /\ Cardinality(R) \in Nat
  BY FS_Subset, FS_CardinalityType DEF Reported
<1>2. lo \in Int /\ hi \in Int /\ \A r \in H : lo <= rep[r].value /\ rep[r].value <= hi
  <2>1. Reported(H, rep) /\ Said(H, rep) # {}
    BY <1>1 DEF Reported, Said
  <2>2. \A r \in H : rep[r].value \in Said(H, rep)
    BY DEF Said
  <2>. QED BY <2>1, <2>2, SaidFinite, Extrema
<1> HIDE DEF lo, hi
<1>3. v <= hi
  <2>1. SUFFICES ASSUME hi < v PROVE FALSE
    BY <1>2
  <2>2. H \subseteq Less(R, rep, v)
    BY <1>2, <2>1 DEF Less, Reported
  <2>3. Cardinality(H) <= Cardinality(Less(R, rep, v))
    BY <2>2, Counts, FS_Subset
  <2>. QED BY <1>1, <2>3, Counts DEF IsRanked, Less
<1>4. lo <= v
  <2>1. SUFFICES ASSUME v < lo PROVE FALSE
    BY <1>2
  <2>2. H \cap AtMost(R, rep, v) = {}
    BY <1>2, <2>1 DEF AtMost, Reported
  <2>3. Cardinality(H \cup AtMost(R, rep, v)) = Cardinality(H) + Cardinality(AtMost(R, rep, v))
    BY <1>1, <2>2, Counts, DisjointUnion
  <2>4. Cardinality(H \cup AtMost(R, rep, v)) <= Cardinality(R)
    <3>1. H \cup AtMost(R, rep, v) \in SUBSET R
      BY DEF AtMost
    <3>. QED BY <3>1, FS_Subset DEF Reported
  <2>5. Cardinality(AtMost(R, rep, v)) >= i
    BY DEF IsRanked, AtMost
  <2>. QED BY <1>1, <2>3, <2>4, <2>5, Counts
<1>. QED BY <1>2, <1>3, <1>4 DEF lo, hi

\* The median of what all said lies between two values of any majority.
LEMMA MedianOfMajority ==
  ASSUME NEW R, NEW rep, Reported(R, rep), NEW H \in SUBSET R,
         2 * Cardinality(H) > Cardinality(R)
  PROVE  /\ H # {}
         /\ Min(Said(H, rep)) \in Int /\ Max(Said(H, rep)) \in Int
         /\ Median(SortedValues(R, rep)) \in Min(Said(H, rep)) .. Max(Said(H, rep))
<1> DEFINE s == SortedValues(R, rep)
           n == Cardinality(R)
           h == Cardinality(H)
           lo == Min(Said(H, rep))
           hi == Max(Said(H, rep))
<1>1. n \in Nat /\ h \in Nat /\ IsFiniteSet(H) /\ h <= n
  BY FS_Subset, FS_CardinalityType DEF Reported
<1>2. H # {}
  BY <1>1, FS_EmptySet
<1>3. lo \in Int /\ hi \in Int
  <2>1. Reported(H, rep) /\ Said(H, rep) # {}
    BY <1>1, <1>2 DEF Reported, Said
  <2>. QED BY <2>1, SaidFinite, Extrema
<1>4. Len(s) = n
  BY Sorted
<1>5. \A i \in 1 .. n : i <= h /\ n < i + h => s[i] \in lo .. hi /\ s[i] \in Int
  <2>1. TAKE i \in 1 .. n
  <2>2. HAVE i <= h /\ n < i + h
  <2>3. s[i] \in Int /\ IsRanked(s[i], i, R, rep)
    BY Sorted
  <2>. HIDE DEF s
  <2>. QED BY <1>2, <2>2, <2>3, RankWithin
<1> HIDE DEF s, n, h, lo, hi
<1>6. 2 * h > n
  BY DEF h, n
<1>7. CASE n % 2 = 1
  <2>1. (n \div 2) + 1 \in 1 .. n /\ (n \div 2) + 1 <= h /\ n < (n \div 2) + 1 + h
    BY <1>1, <1>6, <1>7
  <2>2. Median(s) = s[(n \div 2) + 1]
    BY <1>4, <1>7 DEF Median
  <2>3. Median(s) \in lo .. hi
    BY <1>5, <2>1, <2>2
  <2>. QED BY <1>2, <1>3, <2>3 DEF s, lo, hi
<1>8. CASE n % 2 # 1
  <2> DEFINE m == n \div 2
  <2>1. /\ m \in 1 .. n /\ m <= h /\ n < m + h
        /\ m + 1 \in 1 .. n /\ m + 1 <= h /\ n < m + 1 + h
    BY <1>1, <1>6, <1>8
  <2>2. Median(s) = Half(s[m] + s[m + 1])
    BY <1>4, <1>8 DEF Median
  <2>3. s[m] \in lo .. hi /\ s[m + 1] \in lo .. hi
    BY <1>5, <2>1
  <2>4. Median(s) \in lo .. hi
    <3>1. PICK a, b \in Int : a = s[m] /\ b = s[m + 1]
      BY <1>5, <2>1
    <3>2. lo <= a /\ a <= hi /\ lo <= b /\ b <= hi
      BY <1>3, <2>3, <3>1
    <3>3. Half(a + b) \in lo .. hi
      BY <1>3, <3>2, HalfBetween
    <3>. QED BY <2>2, <3>1, <3>3
  <2>. QED BY <1>2, <1>3, <2>4 DEF s, lo, hi
<1>. QED BY <1>7, <1>8

\* It lies between two values of all of them.
LEMMA MedianOfAll ==
  ASSUME NEW R, NEW rep, Reported(R, rep), R # {}
  PROVE  /\ Median(SortedValues(R, rep)) \in Int
         /\ \E x, y \in R : /\ rep[x].value <= Median(SortedValues(R, rep))
                            /\ Median(SortedValues(R, rep)) <= rep[y].value
<1>1. Cardinality(R) \in Nat /\ Cardinality(R) # 0
  BY FS_CardinalityType, FS_EmptySet DEF Reported
<1>2. /\ Min(Said(R, rep)) \in Int /\ Max(Said(R, rep)) \in Int
      /\ Median(SortedValues(R, rep)) \in Min(Said(R, rep)) .. Max(Said(R, rep))
  <2>1. 2 * Cardinality(R) > Cardinality(R)
    BY <1>1
  <2>. QED BY <2>1, MedianOfMajority
<1>3. Min(Said(R, rep)) \in Said(R, rep) /\ Max(Said(R, rep)) \in Said(R, rep)
  <2>1. Said(R, rep) # {}
    BY DEF Said
  <2>. QED BY <2>1, SaidFinite, Extrema
<1>4. PICK x, y \in R : rep[x].value = Min(Said(R, rep)) /\ rep[y].value = Max(Said(R, rep))
  BY <1>3 DEF Said
<1>. QED BY <1>2, <1>4

(***************************************************************************)
(* Deviations.                                                             *)
(***************************************************************************)

LEMMA AbsNat ==
  ASSUME NEW x \in Int
  PROVE  Abs(x) \in Nat /\ (x # 0 => Abs(x) # 0)
BY DEF Abs

\* A value does not deviate from itself.
LEMMA NoDeviation ==
  ASSUME NEW v \in Int
  PROVE  DeviationBps(v, v) = 0
<1>1. CASE v = 0
  BY <1>1 DEF DeviationBps
<1>2. CASE v # 0
  <2>1. Abs(v - v) = 0
    BY DEF Abs
  <2>2. PICK y \in Nat \ {0} : y = Abs(v)
    BY <1>2, AbsNat
  <2>3. ((0 * Bps) \div y) % U32 = 0
    BY OracleAssumption
  <2>. QED BY <1>2, <2>1, <2>2, <2>3 DEF DeviationBps
<1>. QED BY <1>1, <1>2

\* A value that is accepted, its deviation not too large for 32 bits, is within the bound.
LEMMA AcceptedWithin ==
  ASSUME NEW v \in Int, NEW ref \in Int, config \in FeedConfig,
         DeviationBps(v, ref) <= config.max_deviation,
         ref # 0 => Abs(v - ref) * Bps < U32 * Abs(ref)
  PROVE  Within(v, ref)
<1>1. config.max_deviation \in Nat
  BY DEF FeedConfig
<1>2. CASE ref = 0
  BY <1>1, <1>2, OracleAssumption DEF DeviationBps, Within
<1>3. CASE ref # 0
  <2>1. PICK y \in Nat \ {0} : y = Abs(ref)
    BY <1>3, AbsNat
  <2>2. PICK a \in Nat : a = Abs(v - ref) * Bps
    <3>1. Abs(v - ref) \in Nat
      BY AbsNat
    <3>. QED BY <3>1, OracleAssumption
  <2>3. a < U32 * y /\ (a \div y) % U32 <= config.max_deviation
    BY <1>3, <2>1, <2>2 DEF DeviationBps
  <2>4. a < (config.max_deviation + 1) * y
    BY <1>1, <2>3, BoundedQuotient, OracleAssumption
  <2>. QED BY <1>3, <2>1, <2>2, <2>4 DEF Within
<1>. QED BY <1>2, <1>3

\* What lies between two values that are within the bound is within it.
LEMMA WithinConvex ==
  ASSUME NEW x \in Int, NEW m \in Int, NEW y \in Int, x <= m, m <= y, NEW ref \in Int,
         config \in FeedConfig, Within(x, ref), Within(y, ref)
  PROVE  Within(m, ref)
<1>1. CASE ref = 0
  BY <1>1 DEF Within
<1>2. CASE ref # 0
  <2>1. PICK z \in {x, y} : Abs(m - ref) <= Abs(z - ref)
    <3>1. CASE m <= ref
      BY <3>1 DEF Abs
    <3>2. CASE ref <= m
      BY <3>2 DEF Abs
    <3>. QED BY <3>1, <3>2
  <2>2. Abs(m - ref) * Bps <= Abs(z - ref) * Bps
    <3>1. Abs(m - ref) \in Int /\ Abs(z - ref) \in Int
      BY AbsNat
    <3>. QED BY <2>1, <3>1, TimesMonotone, OracleAssumption
  <2>3. Abs(z - ref) * Bps < (config.max_deviation + 1) * Abs(ref)
    BY <1>2 DEF Within
  <2>4. /\ Abs(m - ref) * Bps \in Int /\ Abs(z - ref) * Bps \in Int
        /\ (config.max_deviation + 1) * Abs(ref) \in Int
    <3>1. Abs(m - ref) \in Int /\ Abs(z - ref) \in Int /\ Abs(ref) \in Int
      BY AbsNat
    <3>2. Bps \in Int /\ config.max_deviation + 1 \in Int
      BY OracleAssumption DEF FeedConfig
    <3>. QED BY <3>1, <3>2
  <2>5. Abs(m - ref) * Bps < (config.max_deviation + 1) * Abs(ref)
    BY <2>2, <2>3, <2>4
  <2>. QED BY <1>2, <2>5 DEF Within
<1>. QED BY <1>1, <1>2

(***************************************************************************)
(* The invariant: what is stored has its type, a configuration in force is *)
(* one that was validated, and only registered reporters have reported.    *)
(***************************************************************************)

ReportsOK(rep) == rep \in [DOMAIN rep -> OracleReport] /\ DOMAIN rep \subseteq Reporter

OracleInv ==
  /\ config # None => config \in FeedConfig /\ ValidFeedConfig(config)
  /\ sources \in [DOMAIN sources -> OracleSource] /\ DOMAIN sources \subseteq Reporter
  /\ ReportsOK(reports) /\ DOMAIN reports \subseteq DOMAIN sources
  /\ snapshot # None => snapshot \in OracleSnapshot
  /\ fallback # None => fallback \in OracleSnapshot
  /\ broken \in BOOLEAN
  /\ o_now \in Nat /\ rounds \in Nat

LEMMA FreshReported ==
  ASSUME NEW rep, ReportsOK(rep), NEW R \in SUBSET Fresh(rep)
  PROVE  Reported(R, rep) /\ R \subseteq DOMAIN rep
<1>1. R \in SUBSET Reporter /\ R \subseteq DOMAIN rep
  BY DEF ReportsOK, Fresh
<1>2. IsFiniteSet(R)
  BY <1>1, FS_Subset, OracleAssumption
<1>3. \A r \in R : rep[r].value \in Int
  BY <1>1 DEF ReportsOK, OracleReport
<1>. QED BY <1>1, <1>2, <1>3 DEF Reported

LEMMA RewardSlash ==
  ASSUME NEW x \in OracleSource
  PROVE  /\ Reward(x) \in OracleSource /\ Reward(x).slash_count = x.slash_count
         /\ Slash(x) \in OracleSource
<1>1. x.stake \in Nat /\ x.reward_points \in Nat /\ x.slash_count \in Nat
  BY DEF OracleSource
<1>2. Reward(x) \in OracleSource
  BY <1>1 DEF OracleSource, Reward
<1>3. Reward(x).slash_count = x.slash_count
  BY DEF OracleSource, Reward
<1>4. (IF x.stake > 1 THEN x.stake - 1 ELSE 0) \in Nat /\ x.slash_count + 1 \in Nat
  BY <1>1
<1>5. Slash(x) \in OracleSource
  BY <1>1, <1>4 DEF OracleSource, Slash
<1>. QED BY <1>2, <1>3, <1>5

\* The reports once one came in.
WithReport(r, v, t) ==
  [x \in DOMAIN reports \union {r} |->
     IF x = r THEN [value |-> v, observed_at |-> t] ELSE reports[x]]

LEMMA NewReports ==
  ASSUME OracleInv, NEW r \in DOMAIN sources, NEW v \in Int, NEW t \in Nat
  PROVE  /\ ReportsOK(WithReport(r, v, t))
         /\ DOMAIN WithReport(r, v, t) \subseteq DOMAIN sources
<1> DEFINE rep == WithReport(r, v, t)
           x == [value |-> v, observed_at |-> t]
<1>1. x \in OracleReport
  BY DEF OracleReport
<1>2. r \in Reporter /\ DOMAIN reports \subseteq DOMAIN sources /\ DOMAIN reports \subseteq Reporter
  BY DEF OracleInv, ReportsOK
<1>3. \A y \in DOMAIN reports : reports[y] \in OracleReport
  BY DEF OracleInv, ReportsOK
<1>4. rep = [y \in DOMAIN reports \union {r} |-> IF y = r THEN x ELSE reports[y]]
  BY DEF WithReport
<1> HIDE DEF rep, x
<1>5. DOMAIN rep = DOMAIN reports \union {r}
  BY <1>4
<1>6. \A y \in DOMAIN rep : rep[y] \in OracleReport
  BY <1>1, <1>3, <1>4
<1>7. rep \in [DOMAIN rep -> OracleReport]
  BY <1>4, <1>6
<1>. QED BY <1>2, <1>5, <1>7 DEF ReportsOK, rep

\* The reporters of a recomputation that are rewarded; the other fresh ones are slashed.
Accepted(rep) ==
  {r \in Fresh(rep) :
     DeviationBps(rep[r].value, Median(SortedValues(Fresh(rep), rep))) <= config.max_deviation}

NewSnapshot(rep) ==
  [value |-> Median(SortedValues(Accepted(rep), rep)),
   observed_at |-> Max({rep[r].observed_at : r \in Accepted(rep)}),
   source_count |-> Cardinality(Accepted(rep))]

\* What a recomputation leaves behind.
LEMMA Recomputed ==
  ASSUME NEW rep, Recompute(rep)
  PROVE  /\ broken' \in BOOLEAN
         /\ \/ sources' = sources
            \/ /\ Enough(Fresh(rep))
               /\ sources' = [r \in DOMAIN sources |->
                                IF r \in Accepted(rep) THEN Reward(sources[r])
                                ELSE IF r \in Fresh(rep) THEN Slash(sources[r])
                                ELSE sources[r]]
         /\ \/ snapshot' = snapshot
            \/ Enough(Accepted(rep)) /\ snapshot' = NewSnapshot(rep)
BY DEF Recompute, FallBack, Accepted, NewSnapshot

\* Those that are enough are somebody.
LEMMA EnoughNonempty ==
  ASSUME config # None, OracleInv, NEW R, Enough(R)
  PROVE  R # {}
<1>1. config.min_sources \in Nat /\ config.min_sources # 0
  BY DEF OracleInv, FeedConfig, ValidFeedConfig
<1>2. Cardinality({}) = 0
  BY FS_EmptySet
<1>. QED BY <1>1, <1>2 DEF Enough

LEMMA NewSnapshotTyped ==
  ASSUME NEW rep, ReportsOK(rep), Accepted(rep) # {}
  PROVE  NewSnapshot(rep) \in OracleSnapshot
<1> DEFINE A == Accepted(rep)
           T == {rep[r].observed_at : r \in A}
           f == [r \in A |-> rep[r].observed_at]
<1>1. A \in SUBSET Fresh(rep)
  BY DEF Accepted
<1>2. Reported(A, rep) /\ A \subseteq DOMAIN rep
  BY <1>1, FreshReported
<1>3. Median(SortedValues(A, rep)) \in Int /\ Cardinality(A) \in Nat
  BY <1>2, MedianOfAll, Counts
<1>4. \A r \in A : rep[r].observed_at \in Nat
  BY <1>2 DEF ReportsOK, OracleReport
<1>5. f \in [A -> T] /\ \A t \in T : \E r \in A : f[r] = t
  OBVIOUS
<1>6. T # {} /\ T \in SUBSET Nat
  BY <1>4
<1>7. Max(T) \in Nat
  <2>1. IsFiniteSet(T)
    <3>. HIDE DEF f, T
    <3>. QED BY <1>2, <1>5, FiniteImage DEF Reported
  <2>2. T \in SUBSET Int
    BY <1>6
  <2>. HIDE DEF T
  <2>. QED BY <1>6, <2>1, <2>2, Extrema
<1>. QED BY <1>3, <1>7 DEF NewSnapshot, OracleSnapshot

LEMMA InvInit == Init => OracleInv
<1> SUFFICES ASSUME Init PROVE OracleInv
  OBVIOUS
<1>1. DOMAIN <<>> = {}
  OBVIOUS
<1>2. \A S : <<>> \in [{} -> S]
  BY <1>1
<1>. QED BY <1>1, <1>2 DEF Init, OracleInv, ReportsOK

\* Steps of the controllers and of time.
LEMMA ControlKeepsInv ==
  ASSUME OracleInv
  PROVE  /\ \A a \in Address : OracleInit(a) => OracleInv'
         /\ \A c, t \in Address : SetTimelockContract(c, t) => OracleInv'
         /\ \A a \in Address, c \in Configs : ConfigureFeed(a, c) => OracleInv'
         /\ \A a \in Address : ClearCircuitBreaker(a) => OracleInv'
         /\ OracleTick => OracleInv'
<1>1. \A a \in Address : OracleInit(a) => OracleInv'
  BY DEF OracleInit, OracleInv, ReportsOK, ValidFeedConfig
<1>2. \A c, t \in Address : SetTimelockContract(c, t) => OracleInv'
  BY DEF SetTimelockContract, OracleInv, ReportsOK, ValidFeedConfig
<1>3. \A a \in Address, c \in Configs : ConfigureFeed(a, c) => OracleInv'
  BY OracleAssumption DEF ConfigureFeed, OracleInv, ReportsOK, ValidFeedConfig
<1>4. \A a \in Address : ClearCircuitBreaker(a) => OracleInv'
  BY DEF ClearCircuitBreaker, control, OracleInv, ReportsOK, ValidFeedConfig
<1>5. OracleTick => OracleInv'
  BY DEF OracleTick, control, OracleInv, ReportsOK, ValidFeedConfig
<1>. QED BY <1>1, <1>2, <1>3, <1>4, <1>5

LEMMA RegisterSourceKeepsInv ==
  ASSUME OracleInv, NEW a \in Address, NEW r \in Reporter, NEW s \in Stakes,
         RegisterSource(a, r, s)
  PROVE  OracleInv'
<1> DEFINE x == [stake |-> s, reward_points |-> 0, slash_count |-> 0]
<1>1. x \in OracleSource
  BY OracleAssumption DEF RegisterSource, OracleSource
<1>2. sources' = [y \in DOMAIN sources \union {r} |-> IF y = r THEN x ELSE sources[y]]
  BY DEF RegisterSource
<1> HIDE DEF x
<1>3. DOMAIN sources' = DOMAIN sources \union {r}
  BY <1>2
<1>4. sources' \in [DOMAIN sources' -> OracleSource]
  BY <1>1, <1>2, <1>3 DEF OracleInv
<1>. QED BY <1>3, <1>4 DEF RegisterSource, control, OracleInv, ReportsOK, ValidFeedConfig

LEMMA FallbacksKeepInv ==
  ASSUME OracleInv
  PROVE  /\ \A a \in Address, f \in Fallbacks : SetFallbackValue(a, f) => OracleInv'
         /\ GetFeedValue => OracleInv'
<1>1. ASSUME NEW a \in Address, NEW f \in Fallbacks, SetFallbackValue(a, f) PROVE OracleInv'
  <2>1. PICK x : x = [value |-> f.value, observed_at |-> f.observed_at, source_count |-> 0]
    OBVIOUS
  <2>2. x \in OracleSnapshot
    BY <2>1, OracleAssumption DEF OracleSnapshot
  <2>3. fallback' = x
    BY <1>1, <2>1 DEF SetFallbackValue
  <2>. QED BY <1>1, <2>2, <2>3
           DEF SetFallbackValue, control, OracleInv, ReportsOK, ValidFeedConfig
<1>2. GetFeedValue => OracleInv'
  BY DEF GetFeedValue, FallBack, control, OracleInv, ReportsOK, ValidFeedConfig
<1>. QED BY <1>1, <1>2

\* What a report leaves of the sources: each was kept, rewarded or slashed.
LEMMA SourcesStayTyped ==
  ASSUME OracleInv, NEW rep, Recompute(rep)
  PROVE  sources' \in [DOMAIN sources -> OracleSource]
<1>1. \A r \in DOMAIN sources :
        Reward(sources[r]) \in OracleSource /\ Slash(sources[r]) \in OracleSource
  BY RewardSlash DEF OracleInv
<1>. QED BY <1>1, Recomputed DEF OracleInv

LEMMA SubmitReportKeepsInv ==
  ASSUME OracleInv, NEW r \in Reporter, NEW v \in Values, NEW t \in 0 .. MaxTime,
         SubmitReport(r, v, t)
  PROVE  OracleInv'
<1>1. PICK rep : rep = WithReport(r, v, t)
  OBVIOUS
<1>2. reports' = rep /\ Recompute(rep)
  BY <1>1 DEF SubmitReport, WithReport
<1>3. ReportsOK(rep) /\ DOMAIN rep \subseteq DOMAIN sources
  <2>1. r \in DOMAIN sources /\ v \in Int /\ t \in Nat
    BY OracleAssumption DEF SubmitReport
  <2>. QED BY <1>1, <2>1, NewReports
<1>4. sources' \in [DOMAIN sources -> OracleSource]
  BY <1>2, SourcesStayTyped
<1>5. DOMAIN sources' = DOMAIN sources
  BY <1>4
<1>6. snapshot' # None => snapshot' \in OracleSnapshot
  <2>1. CASE snapshot' = snapshot
    BY <2>1 DEF OracleInv
  <2>2. CASE Enough(Accepted(rep)) /\ snapshot' = NewSnapshot(rep)
    <3>1. Accepted(rep) # {}
      BY <2>2, EnoughNonempty DEF SubmitReport
    <3>. QED BY <1>3, <2>2, <3>1, NewSnapshotTyped
  <2>. QED BY <1>2, <2>1, <2>2, Recomputed
<1>7. broken' \in BOOLEAN
  BY <1>2, Recomputed
<1>8. /\ config' = config /\ fallback' = fallback /\ o_now' = o_now
      /\ rounds' = rounds + 1
  BY DEF SubmitReport, control
<1>9. ReportsOK(reports)' /\ DOMAIN reports' \subseteq DOMAIN sources'
  BY <1>2, <1>3, <1>5 DEF ReportsOK
<1>10. (config # None => config \in FeedConfig /\ ValidFeedConfig(config))'
  BY <1>8 DEF OracleInv, ValidFeedConfig
<1>11. sources' \in [DOMAIN sources' -> OracleSource] /\ DOMAIN sources' \subseteq Reporter
  BY <1>4, <1>5 DEF OracleInv
<1>12. /\ fallback' # None => fallback' \in OracleSnapshot
       /\ o_now' \in Nat /\ rounds' \in Nat
  BY <1>8 DEF OracleInv
<1>. QED BY <1>6, <1>7, <1>9, <1>10, <1>11, <1>12 DEF OracleInv

LEMMA InvStutter == OracleInv /\ UNCHANGED o_vars => OracleInv'
BY DEF o_vars, control, OracleInv, ReportsOK, ValidFeedConfig

(***************************************************************************)
(* What the oracle stores has its type, the configuration in force was     *)
(* validated (configure_feed), and every report is a registered source's.  *)
(***************************************************************************)
THEOREM OracleInvariant == Spec => []OracleInv
<1>1. OracleInv /\ [Next]_o_vars => OracleInv'
  BY ControlKeepsInv, RegisterSourceKeepsInv, FallbacksKeepInv, SubmitReportKeepsInv, InvStutter
  DEF Next
<1>. QED BY <1>1, InvInit, PTL DEF Spec

(***************************************************************************)
(* What a minority can do.                                                 *)
(***************************************************************************)

\* What is accepted is within the bound of the median of the fresh reports, and so
\* is the median of what is accepted.
LEMMA SnapshotNear ==
  ASSUME OracleInv, config # None, NEW rep, ReportsOK(rep),
         Enough(Accepted(rep)), NoWrap(Fresh(rep), rep)
  PROVE  Within(NewSnapshot(rep).value, Median(SortedValues(Fresh(rep), rep)))
<1> DEFINE F == Fresh(rep)
           A == Accepted(rep)
           ref == Median(SortedValues(F, rep))
           m == Median(SortedValues(A, rep))
<1>1. A \in SUBSET F /\ A # {}
  BY EnoughNonempty DEF Accepted
<1>2. Reported(A, rep) /\ Reported(F, rep)
  BY <1>1, FreshReported
<1>3. ref \in Int /\ m \in Int
  BY <1>1, <1>2, MedianOfAll
<1>4. PICK x, y \in A : rep[x].value <= m /\ m <= rep[y].value
  BY <1>1, <1>2, MedianOfAll
<1>5. config \in FeedConfig
  BY DEF OracleInv
<1>6. ASSUME NEW r \in A PROVE rep[r].value \in Int /\ Within(rep[r].value, ref)
  <2>1. PICK v \in Int : v = rep[r].value
    BY <1>2 DEF Reported
  <2>2. DeviationBps(v, ref) <= config.max_deviation
    BY <2>1 DEF Accepted
  <2>3. ref # 0 => Abs(v - ref) * Bps < U32 * Abs(ref)
    BY <1>1, <2>1 DEF NoWrap
  <2>. HIDE DEF ref
  <2>4. Within(v, ref)
    BY <1>3, <1>5, <2>2, <2>3, AcceptedWithin
  <2>. QED BY <2>1, <2>4
<1>7. Within(m, ref)
  <2>1. PICK u, w \in Int : u = rep[x].value /\ w = rep[y].value
    BY <1>6
  <2>2. Within(u, ref) /\ Within(w, ref) /\ u <= m /\ m <= w
    BY <1>4, <1>6, <2>1
  <2>. HIDE DEF ref, m
  <2>. QED BY <1>3, <1>5, <2>2, WithinConvex
<1>. QED BY <1>7 DEF NewSnapshot

(***************************************************************************)
(* Whatever fewer than half of the fresh reporters say, a new snapshot     *)
(* (recompute_snapshot) is within the allowed deviation of a value between *)
(* two that the others reported.                                           *)
(***************************************************************************)
THEOREM MinorityCannotMove == Spec => MinorityBounded
<1>1. ASSUME OracleInv, NEW r \in Reporter, NEW v \in Values, NEW t \in 0 .. MaxTime,
             SubmitReport(r, v, t), snapshot' # snapshot, NoWrap(Fresh(reports'), reports'),
             NEW H \in SUBSET Fresh(reports'), 2 * Cardinality(H) > Cardinality(Fresh(reports'))
      PROVE  NearWhatWasSaid(H, reports')
  <2>1. PICK rep : rep = WithReport(r, v, t)
    OBVIOUS
  <2>2. reports' = rep /\ Recompute(rep) /\ config # None
    BY <1>1, <2>1 DEF SubmitReport, WithReport
  <2>3. ReportsOK(rep)
    <3>1. r \in DOMAIN sources /\ v \in Int /\ t \in Nat
      BY <1>1, OracleAssumption DEF SubmitReport
    <3>. QED BY <1>1, <2>1, <3>1, NewReports
  <2>4. Enough(Accepted(rep)) /\ snapshot' = NewSnapshot(rep)
    BY <1>1, <2>2, Recomputed
  <2> DEFINE ref == Median(SortedValues(Fresh(rep), rep))
  <2>5. Within(snapshot'.value, ref)
    BY <1>1, <2>2, <2>3, <2>4, SnapshotNear
  <2>6. ref \in Min(Said(H, rep)) .. Max(Said(H, rep))
    <3>1. Reported(Fresh(rep), rep)
      BY <2>3, FreshReported
    <3>. QED BY <1>1, <2>2, <3>1, MedianOfMajority
  <2>. HIDE DEF ref
  <2>. QED BY <2>2, <2>5, <2>6 DEF NearWhatWasSaid, Said
<1>2. ASSUME OracleInv, [Next]_o_vars
      PROVE  [BoundedStep]_o_vars
  <2>1. ASSUME snapshot' # snapshot
        PROVE  \E r \in Reporter, v \in Values, t \in 0 .. MaxTime : SubmitReport(r, v, t)
    BY <1>2, <2>1
    DEF Next, o_vars, OracleInit, SetTimelockContract, ConfigureFeed, RegisterSource,
        SetFallbackValue, GetFeedValue, FallBack, ClearCircuitBreaker, OracleTick
  <2>. QED BY <1>1, <1>2, <2>1 DEF BoundedStep
<1>. QED BY <1>2, OracleInvariant, PTL DEF Spec, MinorityBounded

\* The median of reports most of which agree is what they say, and they do not deviate.
LEMMA MajorityAccepted ==
  ASSUME OracleInv, config # None, NEW rep, ReportsOK(rep), NEW r \in Fresh(rep),
         2 * Cardinality(Agreeing(r, rep)) > Cardinality(Fresh(rep))
  PROVE  r \in Accepted(rep)
<1> DEFINE F == Fresh(rep)
           H == Agreeing(r, rep)
           ref == Median(SortedValues(F, rep))
<1>1. Reported(F, rep) /\ H \in SUBSET F
  BY FreshReported DEF Agreeing
<1>2. PICK v \in Int : v = rep[r].value
  BY <1>1 DEF Reported
<1>3. Said(H, rep) = {v}
  BY <1>2 DEF Said, Agreeing
<1>4. Min(Said(H, rep)) = v /\ Max(Said(H, rep)) = v
  <2>1. IsFiniteSet({v})
    BY FS_Singleton
  <2>. QED BY <1>3, <2>1, Extrema
<1>5. ref = v
  <2>1. ref \in v .. v
    BY <1>1, <1>4, MedianOfMajority
  <2>. QED BY <2>1
<1>6. DeviationBps(v, ref) <= config.max_deviation
  <2>1. DeviationBps(v, v) = 0 /\ config.max_deviation \in Nat
    BY NoDeviation DEF OracleInv, FeedConfig
  <2>. QED BY <1>5, <2>1
<1>. QED BY <1>2, <1>6 DEF Accepted

(***************************************************************************)
(* A reporter that says what most fresh reporters say is not slashed       *)
(* (slash_source), in its own round or in any other's.                     *)
(***************************************************************************)
THEOREM MajorityKeepsItsStake == Spec => AgreeingNotSlashed
<1>1. ASSUME OracleInv, NEW x \in Reporter, NEW v \in Values, NEW t \in 0 .. MaxTime,
             SubmitReport(x, v, t), NEW r \in DOMAIN sources,
             sources'[r].slash_count > sources[r].slash_count
      PROVE  /\ r \in Fresh(reports')
             /\ 2 * Cardinality(Agreeing(r, reports')) <= Cardinality(Fresh(reports'))
  <2>1. PICK rep : rep = WithReport(x, v, t)
    OBVIOUS
  <2>2. reports' = rep /\ Recompute(rep) /\ config # None
    BY <1>1, <2>1 DEF SubmitReport, WithReport
  <2>3. ReportsOK(rep)
    <3>1. x \in DOMAIN sources /\ v \in Int /\ t \in Nat
      BY <1>1, OracleAssumption DEF SubmitReport
    <3>. QED BY <1>1, <2>1, <3>1, NewReports
  <2>4. sources[r].slash_count \in Nat /\ sources[r] \in OracleSource
    BY <1>1 DEF OracleInv, OracleSource
  <2>5. r \in Fresh(rep) /\ r \notin Accepted(rep)
    <3>1. sources'[r] # sources[r] /\ sources'[r] # Reward(sources[r])
      BY <1>1, <2>4, RewardSlash
    <3>. QED BY <2>2, <3>1, Recomputed
  <2>6. ~ 2 * Cardinality(Agreeing(r, rep)) > Cardinality(Fresh(rep))
    BY <1>1, <2>2, <2>3, <2>5, MajorityAccepted
  <2>7. Cardinality(Agreeing(r, rep)) \in Nat /\ Cardinality(Fresh(rep)) \in Nat
    <3>1. Reported(Fresh(rep), rep) /\ Reported(Agreeing(r, rep), rep)
      BY <2>3, FreshReported DEF Agreeing
    <3>. QED BY <3>1, Counts
  <2>. QED BY <2>2, <2>5, <2>6, <2>7
<1>2. ASSUME OracleInv, [Next]_o_vars
      PROVE  [UnslashedStep]_o_vars
  <2>1. ASSUME NEW r \in DOMAIN sources, sources'[r].slash_count > sources[r].slash_count
        PROVE  \E x \in Reporter, v \in Values, t \in 0 .. MaxTime : SubmitReport(x, v, t)
    <3>1. sources[r].slash_count \in Nat
      BY <1>2 DEF OracleInv, OracleSource
    <3>2. sources'[r] # sources[r]
      BY <2>1, <3>1
    <3>. QED
      BY <1>2, <3>2
      DEF Next, o_vars, OracleInit, SetTimelockContract, ConfigureFeed, RegisterSource,
          SetFallbackValue, GetFeedValue, ClearCircuitBreaker, OracleTick
  <2>. QED BY <1>1, <1>2, <2>1 DEF UnslashedStep
<1>. QED BY <1>2, OracleInvariant, PTL DEF Spec, AgreeingNotSlashed

------------------------------------------------------------------------------
(* Ring signatures: the challenges around a ring. *)

\* The signer's response undoes its secret: the commitment is that of the nonce.
LEMMA ResponseUndoesSecret ==
  ASSUME NEW q \in Nat \ {0}, NEW alpha \in Int, NEW c \in Int, NEW x \in Int
  PROVE  (((alpha - c * x) % q) + c * (x % q)) % q = alpha % q
<1>0. c * x \in Int /\ alpha - c * x \in Int
  OBVIOUS
<1>1. PICK e \in Int, r \in 0 .. q - 1 : alpha - c * x = q * e + r /\ (alpha - c * x) % q = r
  BY <1>0, ModOf
<1>2. PICK d \in Int, y \in 0 .. q - 1 : x = q * d + y /\ x % q = y
  BY ModOf
<1>3. r + c * y = alpha - q * (e + c * d)
  <2>1. c * x = q * (c * d) + c * y
    BY <1>2
  <2>. QED BY <1>1, <2>1
<1>4. e + c * d \in Int
  OBVIOUS
<1>5. (alpha - q * (e + c * d)) % q = alpha % q
  BY <1>4, ModShift
<1>. QED BY <1>1, <1>2, <1>3, <1>5

\* It is a number.
LEMMA ResponseIsInt ==
  ASSUME NEW q \in Nat \ {0}, NEW alpha \in Int, NEW c \in Int, NEW x \in Int
  PROVE  (alpha - c * x) % q \in Int
<1>1. c * x \in Int /\ alpha - c * x \in Int
  OBVIOUS
<1>2. (alpha - c * x) % q \in 0 .. q - 1 /\ q \in Int
  BY <1>1, ModOf
<1>. QED BY <1>2

\* A challenge is a member of the group.
LEMMA ChallengeInGroup ==
  ASSUME RingAssumption, NEW ring \in Ring, NEW m \in Statement, NEW s \in Int, NEW c \in Int, NEW p \in Int
  PROVE  NextChallenge(ring, m, s, c, p) \in Member
<1>1. s + c * p \in Int
  OBVIOUS
<1>2. (s + c * p) % Q \in 0 .. Q - 1
  BY <1>1, ModOf DEF RingAssumption
<1>. QED BY <1>2 DEF NextChallenge, Commitment, Member, RingAssumption

\* f is the function that Challenges defines by recursion.
FollowsRing(f, ring, m, sig) ==
  f = [i \in 0 .. Len(ring) |->
         IF i = 0 THEN sig.c0 ELSE NextChallenge(ring, m, sig.s[i], f[i - 1], ring[i])]

\* There is one, so Challenges is as its definition says.
LEMMA VerifiersChallenges ==
  ASSUME RingAssumption, NEW ring \in Ring, NEW m \in Statement, NEW sig,
         sig.c0 \in Member, \A i \in 1 .. Len(ring) : sig.s[i] \in Int
  PROVE  FollowsRing(Challenges(ring, m, sig), ring, m, sig)
<1> DEFINE n == Len(ring)
           g == [p \in (1 .. n) \X Member |-> NextChallenge(ring, m, sig.s[p[1]], p[2], ring[p[1]])]
<1>1. ring \in Seq(Nat) /\ n \in Nat
  BY DEF RingAssumption
<1>2. ASSUME NEW i \in 1 .. n, NEW c \in Member PROVE NextChallenge(ring, m, sig.s[i], c, ring[i]) \in Member
  <2>1. ring[i] \in Nat /\ sig.s[i] \in Int
    <3>1. i \in 1 .. Len(ring)
      OBVIOUS
    <3> HIDE DEF n, g
    <3>. QED BY <1>1, <3>1
  <2>2. ring[i] \in Int /\ c \in Int
    BY <2>1 DEF Member, RingAssumption
  <2>. QED BY <2>1, <2>2, ChallengeInGroup
<1>3. g \in [(1 .. n) \X Member -> Member]
  BY <1>2
<1>4. PICK f \in [0 .. n -> Member] : Iterates(f, 0, n, sig.c0, g)
  <2>1. 0 \in Int /\ n \in Int /\ 0 <= n /\ 0 + 1 = 1
    BY <1>1
  <2> HIDE DEF g, n
  <2>. QED BY <1>3, <2>1, Iteration
<1>5. ASSUME NEW i \in 1 .. n PROVE f[i] = NextChallenge(ring, m, sig.s[i], f[i - 1], ring[i])
  <2>1. f[i] = g[<<i, f[i - 1]>>]
    <3>1. i \in 0 + 1 .. n
      OBVIOUS
    <3> HIDE DEF g
    <3>. QED BY <1>4, <3>1, Zenon DEF Iterates
  <2>2. i - 1 \in 0 .. n
    BY <1>1
  <2>3. f[i - 1] \in Member
    <3> HIDE DEF n, g
    <3>. QED BY <1>4, <2>2
  <2>. QED BY <2>1, <2>2, <2>3
<1>6. FollowsRing(f, ring, m, sig)
  <2>1. f[0] = sig.c0
    BY <1>4 DEF Iterates
  <2>2. \A i \in 0 .. n : f[i] = IF i = 0 THEN sig.c0
                                 ELSE NextChallenge(ring, m, sig.s[i], f[i - 1], ring[i])
    BY <1>5, <2>1
  <2>. QED BY <2>2 DEF FollowsRing
<1>7. Challenges(ring, m, sig) = CHOOSE h : FollowsRing(h, ring, m, sig)
  BY DEF Challenges, FollowsRing
<1>8. FollowsRing(CHOOSE h : FollowsRing(h, ring, m, sig), ring, m, sig)
  <2> HIDE DEF FollowsRing
  <2>. QED BY <1>6
<1>. QED BY <1>7, <1>8

\* f is the function that SignersChallenges defines by recursion.
FollowsSigner(f, ring, k, m, alpha, drawn) ==
  f = [j \in 1 .. Len(ring) |->
         IF j = 1 THEN Hash(ring, m, PublicKey(alpha))
         ELSE NextChallenge(ring, m, drawn[Around(ring, k, j - 1)], f[j - 1],
                            ring[Around(ring, k, j - 1)])]

\* Which place after the k-th member has the i-th one.
Place(ring, k, i) == IF i > k THEN i - k ELSE i - k + Len(ring)

\* The place is one of the ring's, and the only one from which Around leads to the member.
LEMMA PlaceIsAround ==
  ASSUME RingAssumption, NEW ring \in Ring, NEW k \in 1 .. Len(ring), NEW i \in 1 .. Len(ring)
  PROVE  /\ Place(ring, k, i) \in 1 .. Len(ring)
         /\ \A j \in 1 .. Len(ring) : Around(ring, k, j) = i <=> j = Place(ring, k, i)
<1>1. PICK n \in Nat : n = Len(ring)
  BY DEF RingAssumption
<1>2. Place(ring, k, i) \in 1 .. n
  BY <1>1 DEF Place
<1>3. ASSUME NEW j \in 1 .. n PROVE Around(ring, k, j) = i <=> j = Place(ring, k, i)
  <2>1. CASE k - 1 + j < n
    <3>1. k - 1 + j \in 0 .. n - 1 /\ n \in Nat \ {0}
      BY <1>1, <2>1
    <3>2. (k - 1 + j) % n = k - 1 + j
      BY <3>1, Wraps
    <3>3. Around(ring, k, j) = k + j
      <4>1. Around(ring, k, j) = ((k - 1 + j) % n) + 1
        BY <1>1 DEF Around
      <4>2. k \in Int /\ j \in Int
        BY <1>1
      <4>3. (k - 1 + j) + 1 = k + j
        BY <4>2
      <4>. QED BY <3>2, <4>1, <4>3
    <3>. QED BY <1>1, <2>1, <3>3 DEF Place
  <2>2. CASE k - 1 + j >= n
    <3>1. k - 1 + j - n \in 0 .. n - 1 /\ n \in Nat \ {0} /\ (k - 1 + j - n) + n = k - 1 + j
      BY <1>1, <2>2
    <3>2. (k - 1 + j) % n = k - 1 + j - n
      BY <3>1, Wraps
    <3>3. Around(ring, k, j) = k + j - n
      <4>1. Around(ring, k, j) = ((k - 1 + j) % n) + 1
        BY <1>1 DEF Around
      <4>2. k \in Int /\ j \in Int /\ n \in Int
        BY <1>1
      <4>3. (k - 1 + j - n) + 1 = k + j - n
        BY <4>2
      <4>. QED BY <3>2, <4>1, <4>3
    <3>. QED BY <1>1, <2>2, <3>3 DEF Place
  <2>. QED BY <1>1, <2>1, <2>2
<1>. QED BY <1>1, <1>2, <1>3

\* So every place after the k-th is that of a member.
LEMMA AroundIsMember ==
  ASSUME RingAssumption, NEW ring \in Ring, NEW k \in 1 .. Len(ring), NEW j \in Int
  PROVE  Around(ring, k, j) \in 1 .. Len(ring)
<1>1. PICK n \in Nat : n = Len(ring)
  BY DEF RingAssumption
<1>2. n \in Nat \ {0} /\ k - 1 + j \in Int
  BY <1>1
<1>3. (k - 1 + j) % n \in 0 .. n - 1
  BY <1>2, ModOf
<1>. QED BY <1>1, <1>3 DEF Around

\* What the signer computes for the j-th member after it, from the challenge before.
SignersStep(ring, k, m, drawn, j, c) ==
  NextChallenge(ring, m, drawn[Around(ring, k, j - 1)], c, ring[Around(ring, k, j - 1)])

\* It is a member of the group.
LEMMA SignersStepInGroup ==
  ASSUME RingAssumption, NEW ring \in Ring, NEW k \in 1 .. Len(ring), NEW m \in Statement,
         NEW drawn \in [1 .. Len(ring) -> Scalars], NEW j \in Int, NEW c \in Member
  PROVE  SignersStep(ring, k, m, drawn, j, c) \in Member
<1>1. PICK n \in Nat : n = Len(ring)
  BY DEF RingAssumption
<1>2. ring \in Seq(Nat) /\ Scalars \subseteq Int /\ Member \subseteq Int
  BY DEF RingAssumption, Member
<1>3. j - 1 \in Int
  OBVIOUS
<1>4. PICK i : i \in 1 .. Len(ring) /\ i = Around(ring, k, j - 1)
  BY <1>3, AroundIsMember
<1>5. drawn[i] \in Int /\ ring[i] \in Int /\ c \in Int
  <2>1. drawn[i] \in Scalars
    BY <1>4
  <2>2. ring[i] \in Nat
    BY <1>1, <1>2, <1>4, SMTT(30)
  <2>3. drawn[i] \in Int
    BY <1>2, <2>1, Zenon
  <2>4. c \in Int
    BY <1>2, Zenon
  <2>. QED BY <2>2, <2>3, <2>4
<1>6. NextChallenge(ring, m, drawn[i], c, ring[i]) \in Member
  BY <1>5, ChallengeInGroup
<1>. QED BY <1>4, <1>6 DEF SignersStep

\* The signer's challenges are as their definition says, and of the group.
LEMMA SignersGoAround ==
  ASSUME RingAssumption, NEW ring \in Ring, NEW k \in 1 .. Len(ring), NEW m \in Statement,
         NEW alpha \in Scalars, NEW drawn \in [1 .. Len(ring) -> Scalars]
  PROVE  /\ FollowsSigner(SignersChallenges(ring, k, m, alpha, drawn), ring, k, m, alpha, drawn)
         /\ SignersChallenges(ring, k, m, alpha, drawn) \in [1 .. Len(ring) -> Member]
<1>1. PICK n \in Nat \ {0} : n = Len(ring)
  BY DEF RingAssumption
<1>2. PICK a \in Member : a = Hash(ring, m, PublicKey(alpha))
  <2>1. alpha % Q \in 0 .. Q - 1
    <3>1. Q \in Nat \ {0} /\ alpha \in Int
      BY DEF RingAssumption
    <3>. QED BY <3>1, ModOf
  <2>. QED BY <2>1 DEF PublicKey, Member, RingAssumption
<1>3. \A j \in 2 .. n, c \in Member : SignersStep(ring, k, m, drawn, j, c) \in Member
  <2> SUFFICES ASSUME NEW j \in 2 .. n, NEW c \in Member
               PROVE  SignersStep(ring, k, m, drawn, j, c) \in Member
    OBVIOUS
  <2>1. j \in Int
    OBVIOUS
  <2>. QED BY <2>1, SignersStepInGroup
<1> DEFINE g == [p \in (1 + 1 .. n) \X Member |-> SignersStep(ring, k, m, drawn, p[1], p[2])]
<1>4. g \in [(1 + 1 .. n) \X Member -> Member]
  BY <1>3
<1>5. PICK f \in [1 .. n -> Member] : Iterates(f, 1, n, a, g)
  <2>1. 1 \in Int /\ n \in Int /\ 1 <= n
    OBVIOUS
  <2> HIDE DEF g
  <2>. QED BY <1>4, <2>1, Iteration
<1>6. \A j \in 2 .. n : f[j] = SignersStep(ring, k, m, drawn, j, f[j - 1])
  <2> SUFFICES ASSUME NEW j \in 2 .. n
               PROVE  f[j] = SignersStep(ring, k, m, drawn, j, f[j - 1])
    OBVIOUS
  <2>1. j \in 1 + 1 .. n
    OBVIOUS
  <2>2. f[j] = g[<<j, f[j - 1]>>]
    <3> HIDE DEF g
    <3>. QED BY <1>5, <2>1, Zenon DEF Iterates
  <2>3. f[j - 1] \in Member
    <3>1. j - 1 \in 1 .. n
      OBVIOUS
    <3>. QED BY <3>1
  <2>. QED BY <2>1, <2>2, <2>3
<1>7. f[1] = a
  BY <1>5 DEF Iterates
<1> HIDE DEF g
<1> DEFINE Step(h) == [j \in 1 .. Len(ring) |->
                         IF j = 1 THEN a ELSE SignersStep(ring, k, m, drawn, j, h[j - 1])]
<1>8. \A h : FollowsSigner(h, ring, k, m, alpha, drawn) <=> h = Step(h)
  BY <1>2 DEF FollowsSigner, SignersStep
<1> HIDE DEF Step
<1>9. FollowsSigner(f, ring, k, m, alpha, drawn)
  <2>1. \A j \in 1 .. n : f[j] = IF j = 1 THEN a ELSE SignersStep(ring, k, m, drawn, j, f[j - 1])
    <3>1. \A j \in 1 .. n : j = 1 \/ j \in 2 .. n
      OBVIOUS
    <3>. QED BY <1>6, <1>7, <3>1, Zenon
  <2>2. f = Step(f)
    BY <1>1, <2>1 DEF Step
  <2>. QED BY <1>8, <2>2
<1>10. SignersChallenges(ring, k, m, alpha, drawn) = CHOOSE h : FollowsSigner(h, ring, k, m, alpha, drawn)
  BY DEF SignersChallenges, FollowsSigner
<1>11. FollowsSigner(CHOOSE h : FollowsSigner(h, ring, k, m, alpha, drawn), ring, k, m, alpha, drawn)
  <2> HIDE DEF FollowsSigner
  <2>. QED BY <1>9
<1>12. PICK h : h = SignersChallenges(ring, k, m, alpha, drawn) /\ FollowsSigner(h, ring, k, m, alpha, drawn)
  BY <1>10, <1>11
<1>13. h \in [1 .. n -> Member]
  <2>1. h = Step(h)
    BY <1>8, <1>12
  <2>2. h[1] = f[1] /\ \A j \in 2 .. n : h[j] = SignersStep(ring, k, m, drawn, j, h[j - 1])
    <3>1. \A j \in 1 .. n : h[j] = IF j = 1 THEN a ELSE SignersStep(ring, k, m, drawn, j, h[j - 1])
      BY <1>1, <2>1, Zenon DEF Step
    <3>2. 1 \in 1 .. n /\ \A j \in 2 .. n : j \in 1 .. n /\ j # 1
      OBVIOUS
    <3>. QED BY <1>7, <3>1, <3>2
  <2>3. \A j \in 1 + 1 .. n : h[j - 1] = f[j - 1] => h[j] = f[j]
    BY <1>6, <2>2
  <2>4. \A j \in 1 .. n : h[j] = f[j]
    <3>1. 1 \in Int /\ n \in Int
      OBVIOUS
    <3>2. GoOnAlike(h, f, 1, n)
      BY <2>2, <2>3 DEF GoOnAlike
    <3>. QED BY <3>1, <3>2, GoingOnAlike, SMTT(30)
  <2>5. h = [j \in 1 .. n |-> f[j]]
    <3>1. h = [j \in 1 .. n |-> h[j]]
      BY <1>1, <2>1 DEF Step
    <3>. QED BY <2>4, <3>1
  <2>. QED BY <2>5
<1>. QED BY <1>1, <1>12, <1>13

------------------------------------------------------------------------------
(* Signer and verifiers. *)

\* The member after the i-th, around a ring of n.
MemberAfter(n, i) == IF i = n THEN 1 ELSE i + 1

\* How far past the k-th of n members the i-th is: from 1, the next one, to n, the k-th itself.
Past(n, k, i) == IF i > k THEN i - k ELSE i - k + n

\* The member after is one further on, and the one after the k-th itself is the first.
LEMMA OneFurtherOn ==
  ASSUME NEW n \in Int, NEW k \in Int, NEW i \in Int, 1 <= k, k <= n, 1 <= i, i <= n
  PROVE  /\ i # k => Past(n, k, i) # n /\ Past(n, k, MemberAfter(n, i)) = Past(n, k, i) + 1
         /\ i = k => Past(n, k, i) = n /\ Past(n, k, MemberAfter(n, i)) = 1
<1>1. CASE i = n /\ i = k
  <2>1. Past(n, k, i) = n
    BY <1>1 DEF Past
  <2>2. MemberAfter(n, i) = 1
    BY <1>1 DEF MemberAfter
  <2>3. Past(n, k, 1) = 1
    BY <1>1 DEF Past
  <2>. QED BY <1>1, <2>1, <2>2, <2>3
<1>2. CASE i = n /\ k < n
  <2>1. Past(n, k, i) = n - k
    BY <1>2 DEF Past
  <2>2. MemberAfter(n, i) = 1
    BY <1>2 DEF MemberAfter
  <2>3. Past(n, k, 1) = 1 - k + n
    BY DEF Past
  <2>4. n - k # n /\ 1 - k + n = (n - k) + 1 /\ i # k
    BY <1>2
  <2>. QED BY <2>1, <2>2, <2>3, <2>4
<1>3. CASE i < n /\ i = k
  <2>1. Past(n, k, i) = n
    BY <1>3 DEF Past
  <2>2. MemberAfter(n, i) = i + 1
    BY <1>3 DEF MemberAfter
  <2>3. Past(n, k, i + 1) = 1
    BY <1>3 DEF Past
  <2>. QED BY <1>3, <2>1, <2>2, <2>3
<1>4. CASE i < n /\ i < k
  <2>1. Past(n, k, i) = i - k + n
    BY <1>4 DEF Past
  <2>2. MemberAfter(n, i) = i + 1
    BY <1>4 DEF MemberAfter
  <2>3. Past(n, k, i + 1) = i + 1 - k + n
    BY <1>4 DEF Past
  <2>4. i - k + n # n /\ i + 1 - k + n = (i - k + n) + 1 /\ i # k
    BY <1>4
  <2>. QED BY <2>1, <2>2, <2>3, <2>4
<1>5. CASE i < n /\ k < i
  <2>1. Past(n, k, i) = i - k
    BY <1>5 DEF Past
  <2>2. MemberAfter(n, i) = i + 1
    BY <1>5 DEF MemberAfter
  <2>3. Past(n, k, i + 1) = i + 1 - k
    BY <1>5 DEF Past
  <2>4. i - k # n /\ i + 1 - k = (i - k) + 1 /\ i # k
    BY <1>5
  <2>. QED BY <2>1, <2>2, <2>3, <2>4
<1>. QED BY <1>1, <1>2, <1>3, <1>4, <1>5

\* A member's place counts from the one after the signer, who comes last.
LEMMA PlaceOfNext ==
  ASSUME RingAssumption, NEW ring \in Ring, NEW k \in 1 .. Len(ring), NEW i \in 1 .. Len(ring)
  PROVE  /\ i # k => /\ Place(ring, k, i) # Len(ring)
                     /\ Place(ring, k, MemberAfter(Len(ring), i)) = Place(ring, k, i) + 1
         /\ i = k => /\ Place(ring, k, i) = Len(ring)
                     /\ Place(ring, k, MemberAfter(Len(ring), i)) = 1
<1>1. PICK n \in Nat : n = Len(ring)
  BY DEF RingAssumption
<1>2. \A j : Place(ring, k, j) = Past(n, k, j)
  BY <1>1 DEF Place, Past
<1>3. n \in Int /\ k \in Int /\ i \in Int /\ 1 <= k /\ k <= n /\ 1 <= i /\ i <= n
  BY <1>1
<1>4. /\ i # k => Past(n, k, i) # n /\ Past(n, k, MemberAfter(n, i)) = Past(n, k, i) + 1
      /\ i = k => Past(n, k, i) = n /\ Past(n, k, MemberAfter(n, i)) = 1
  BY <1>3, OneFurtherOn
<1>. QED BY <1>1, <1>2, <1>4

\* What is signed closes: the verifier meets the signer's challenges, and at the signer the nonce.
LEMMA SignedCloses ==
  ASSUME RingAssumption, NEW ring \in Ring, NEW k \in Nat, NEW x \in Secret, NEW m \in Statement,
         NEW alpha \in Scalars, NEW drawn \in [1 .. Len(ring) -> Scalars], MaySign(ring, k, x)
  PROVE  Closes(ring, m, Sign(ring, k, x, m, alpha, drawn))
<1>1. PICK n \in Nat \ {0} : n = Len(ring) /\ k \in 1 .. n
  BY DEF RingAssumption, MaySign
<1>2. alpha \in Int /\ x \in Int /\ Q \in Nat \ {0} /\ Member \subseteq Int /\ Scalars \subseteq Int
  BY DEF RingAssumption, Member
<1>3. PICK cs : /\ cs = SignersChallenges(ring, k, m, alpha, drawn)
                /\ FollowsSigner(cs, ring, k, m, alpha, drawn)
                /\ cs \in [1 .. n -> Member]
  BY <1>1, SignersGoAround
<1>4. PICK sig : sig = Sign(ring, k, x, m, alpha, drawn)
  OBVIOUS
<1>5. \A i \in 1 .. n : /\ Place(ring, k, i) \in 1 .. n
                         /\ \A j \in 1 .. n : Around(ring, k, j) = i <=> j = Place(ring, k, i)
  <2> SUFFICES ASSUME NEW i \in 1 .. n
               PROVE  /\ Place(ring, k, i) \in 1 .. n
                      /\ \A j \in 1 .. n : Around(ring, k, j) = i <=> j = Place(ring, k, i)
    OBVIOUS
  <2>1. k \in 1 .. Len(ring) /\ i \in 1 .. Len(ring)
    BY <1>1
  <2>. QED BY <1>1, <2>1, PlaceIsAround
<1>6. ASSUME NEW i \in 1 .. n
       PROVE  /\ i # k => Place(ring, k, i) # n /\ Place(ring, k, MemberAfter(n, i)) = Place(ring, k, i) + 1
              /\ i = k => Place(ring, k, i) = n /\ Place(ring, k, MemberAfter(n, i)) = 1
  <2>1. k \in 1 .. Len(ring) /\ i \in 1 .. Len(ring)
    BY <1>1
  <2>. QED BY <1>1, <2>1, PlaceOfNext
<1>7. 1 \in 1 .. n /\ n \in 1 .. n
  BY <1>1
<1>8. sig.c0 = cs[Place(ring, k, 1)]
  <2>1. \A j \in 1 .. n : Around(ring, k, j) = 1 <=> j = Place(ring, k, 1)
    BY <1>5, <1>7
  <2>2. Place(ring, k, 1) \in 1 .. n
    BY <1>5, <1>7
  <2>3. Place(ring, k, 1) = CHOOSE j \in 1 .. n : Around(ring, k, j) = 1
    BY <2>1, <2>2
  <2>. QED BY <1>1, <1>3, <1>4, <2>3 DEF Sign
<1>9. \A i \in 1 .. n : sig.s[i] = IF i = k THEN (alpha - cs[n] * x) % Q ELSE drawn[i]
  BY <1>1, <1>3, <1>4 DEF Sign
<1>10. sig.c0 \in Member
  <2>1. Place(ring, k, 1) \in 1 .. n
    BY <1>5, <1>7
  <2>. QED BY <1>3, <1>8, <2>1
<1>11. cs[n] \in Int
  BY <1>2, <1>3, <1>7
<1>12. \A i \in 1 .. n : sig.s[i] \in Int
  <2>1. (alpha - cs[n] * x) % Q \in Int
    BY <1>2, <1>11, ResponseIsInt
  <2>. QED BY <1>1, <1>2, <1>9, <2>1
<1>13. PICK c : c = Challenges(ring, m, sig) /\ FollowsRing(c, ring, m, sig)
  BY <1>1, <1>10, <1>12, VerifiersChallenges
<1>14. c[0] = sig.c0 /\ \A i \in 1 .. n : c[i] = NextChallenge(ring, m, sig.s[i], c[i - 1], ring[i])
  <2>1. \A i \in 0 .. n : c[i] = IF i = 0 THEN sig.c0
                                 ELSE NextChallenge(ring, m, sig.s[i], c[i - 1], ring[i])
    BY <1>1, <1>13, Zenon DEF FollowsRing
  <2>. QED BY <2>1
\* The challenge the signer had for the member after the i-th.
<1>15. PICK d : \A i \in 0 .. n : d[i] = cs[Place(ring, k, MemberAfter(n, i))]
  <2> DEFINE e == [i \in 0 .. n |-> cs[Place(ring, k, MemberAfter(n, i))]]
  <2>1. \A i \in 0 .. n : e[i] = cs[Place(ring, k, MemberAfter(n, i))]
    OBVIOUS
  <2> HIDE DEF e
  <2>. QED BY <2>1
<1>16. d[0] = sig.c0
  <2>1. MemberAfter(n, 0) = 1 /\ 0 \in 0 .. n
    BY DEF MemberAfter
  <2>. QED BY <1>8, <1>15, <2>1
<1>17. ASSUME NEW i \in 1 .. n, c[i - 1] = d[i - 1] PROVE c[i] = d[i]
  <2>1. PICK j \in 1 .. n : j = Place(ring, k, i)
    BY <1>5
  <2>2. d[i - 1] = cs[j]
    <3>1. i - 1 \in 0 .. n /\ MemberAfter(n, i - 1) = i
      BY DEF MemberAfter
    <3>. QED BY <1>15, <2>1, <3>1
  <2>3. d[i] = cs[Place(ring, k, MemberAfter(n, i))]
    <3>1. i \in 0 .. n
      OBVIOUS
    <3>. QED BY <1>15, <3>1
  <2>4. c[i] = NextChallenge(ring, m, sig.s[i], cs[j], ring[i])
    BY <1>14, <1>17, <2>2
  <2>5. CASE i # k
    <3>1. j # n /\ Place(ring, k, MemberAfter(n, i)) = j + 1
      BY <1>6, <2>1, <2>5
    <3>2. Around(ring, k, j) = i
      BY <1>5, <2>1
    <3>3. cs[j + 1] = NextChallenge(ring, m, drawn[i], cs[j], ring[i])
      <4>1. j + 1 \in 1 .. n /\ j + 1 # 1 /\ (j + 1) - 1 = j
        BY <3>1
      <4>. QED BY <1>1, <1>3, <3>2, <4>1 DEF FollowsSigner
    <3>4. sig.s[i] = drawn[i]
      BY <1>9, <2>5
    <3>. QED BY <2>3, <2>4, <3>1, <3>3, <3>4
  <2>6. CASE i = k
    <3>1. j = n /\ Place(ring, k, MemberAfter(n, i)) = 1
      BY <1>6, <2>1, <2>6
    <3>2. cs[1] = Hash(ring, m, PublicKey(alpha))
      BY <1>1, <1>3 DEF FollowsSigner
    <3>3. sig.s[i] = (alpha - cs[n] * x) % Q /\ ring[i] = x % Q
      BY <1>9, <2>6 DEF MaySign, PublicKey
    <3>4. Commitment(sig.s[i], cs[j], ring[i]) = PublicKey(alpha)
      <4>1. (((alpha - cs[n] * x) % Q) + cs[n] * (x % Q)) % Q = alpha % Q
        BY <1>2, <1>11, ResponseUndoesSecret
      <4>. QED BY <3>1, <3>3, <4>1 DEF Commitment, PublicKey
    <3>. QED BY <2>3, <2>4, <3>1, <3>2, <3>4 DEF NextChallenge
  <2>. QED BY <2>5, <2>6
<1>18. c[n] = d[n]
  <2>1. GoOnAlike(c, d, 0, n)
    <3>1. c[0] = d[0]
      BY <1>14, <1>16
    <3>2. \A i \in 0 + 1 .. n : c[i - 1] = d[i - 1] => c[i] = d[i]
      <4> SUFFICES ASSUME NEW i \in 0 + 1 .. n, c[i - 1] = d[i - 1] PROVE c[i] = d[i]
        OBVIOUS
      <4>1. i \in 1 .. n
        OBVIOUS
      <4>. QED BY <1>17, <4>1
    <3>. QED BY <3>1, <3>2 DEF GoOnAlike
  <2>2. 0 \in Int /\ n \in Int
    OBVIOUS
  <2>3. \A i \in 0 .. n : c[i] = d[i]
    BY <2>1, <2>2, GoingOnAlike
  <2>4. n \in 0 .. n
    OBVIOUS
  <2>. QED BY <2>3, <2>4
<1>19. d[n] = sig.c0
  <2>1. MemberAfter(n, n) = 1 /\ n \in 0 .. n
    BY DEF MemberAfter
  <2>. QED BY <1>8, <1>15, <2>1
<1>20. c[n] = sig.c0
  BY <1>18, <1>19
<1>. QED BY <1>1, <1>4, <1>13, <1>20 DEF Closes

\* Of what the signer asks and of its shape, only duplicates are left to refuse.
LEMMA SignedIsValid ==
  ASSUME RingAssumption, NEW ring \in Ring, NEW k \in Nat, NEW x \in Secret, NEW m \in Statement,
         NEW alpha \in Scalars, NEW drawn \in [1 .. Len(ring) -> Scalars], MaySign(ring, k, x)
  PROVE  ValidRing(ring, Sign(ring, k, x, m, alpha, drawn)) = NoDuplicates(ring)
<1>1. PICK n \in Nat : n = Len(ring)
  BY DEF RingAssumption
<1>2. PICK s : s = Sign(ring, k, x, m, alpha, drawn).s
  OBVIOUS
<1>3. Len(s) = Len(ring)
  <2>1. PICK f \in [1 .. n -> UNION {{s[i]} : i \in 1 .. n}] : f = s
    BY <1>1, <1>2 DEF Sign
  <2>. QED BY <1>1, <2>1
<1>. QED BY <1>2, <1>3 DEF ValidRing, NoDuplicates, MaySign

\* The two verifiers make the same checks.
LEMMA VerifiersAgree ==
  ASSUME RingAssumption, NEW ring \in Ring, NEW m, NEW sig
  PROVE  VerifyRingSignature(ring, m, sig) = SdkVerify(ring, m, sig)
<1>1. PICK n \in Nat : n = Len(ring)
  BY DEF RingAssumption
<1>2. MinRingSize \in Nat /\ MaxRingSize \in Nat
  BY DEF RingAssumption
<1>3. (\A i, j \in 1 .. n : i # j => ring[i] # ring[j])
        <=> \A i \in 1 .. n : \A j \in 1 .. i - 1 : ring[j] # ring[i]
  <2>1. ASSUME \A i \in 1 .. n : \A j \in 1 .. i - 1 : ring[j] # ring[i],
               NEW i \in 1 .. n, NEW j \in 1 .. n, i # j
        PROVE  ring[i] # ring[j]
    BY <2>1
  <2>2. ASSUME \A i, j \in 1 .. n : i # j => ring[i] # ring[j],
               NEW i \in 1 .. n, NEW j \in 1 .. i - 1
        PROVE  ring[j] # ring[i]
    BY <2>2
  <2>. QED BY <2>1, <2>2
<1>4. (n \in MinRingSize .. MaxRingSize) <=> ~(n < MinRingSize \/ n > MaxRingSize)
  BY <1>2
<1>. QED BY <1>1, <1>3, <1>4 DEF VerifyRingSignature, SdkVerify, ValidRing

(***************************************************************************)
(* What an auditor signs over a ring without duplicates the contract and   *)
(* the SDK accept, for every group order, hash, ring, place of the signer, *)
(* nonce and response drawn; and the two verifiers never differ            *)
(* (ring_signature.rs of the SDK and of the contract).  The property is of *)
(* every signature by itself: no step but signing touches it.              *)
(***************************************************************************)
THEOREM SignedIsAccepted == RingSpec => []SignedVerifies
<1>1. RingInit => SignedVerifies
  BY DEF RingInit, SignedVerifies
<1>2. SignedVerifies /\ [RingNext]_trail_vars => SignedVerifies'
  <2> SUFFICES ASSUME SignedVerifies, [RingNext]_trail_vars PROVE SignedVerifies'
    OBVIOUS
  <2>1. CASE UNCHANGED signatures
    BY <2>1 DEF SignedVerifies
  <2>2. ASSUME NEW ring \in Ring, NEW x \in Secret, NEW m \in Statement, NEW alpha \in Scalars,
               NEW k \in 1 .. Len(ring), NEW drawn \in [1 .. Len(ring) -> Scalars],
               AuditorSigns(ring, k, x, m, alpha, drawn)
        PROVE  SignedVerifies'
    <3>1. PICK sig : sig = Sign(ring, k, x, m, alpha, drawn)
      OBVIOUS
    <3>2. signatures' = signatures \union {[ring |-> ring, statement |-> m, sig |-> sig, by |-> x]}
      BY <2>2, <3>1 DEF AuditorSigns
    <3>3. MaySign(ring, k, x) /\ k \in Nat
      BY <2>2, RingAssumption DEF AuditorSigns
    <3>4. VerifyRingSignature(ring, m, sig) = NoDuplicates(ring)
      <4>1. Closes(ring, m, sig)
        BY <3>1, <3>3, RingAssumption, SignedCloses
      <4>2. ValidRing(ring, sig) = NoDuplicates(ring)
        BY <3>1, <3>3, RingAssumption, SignedIsValid
      <4>. QED BY <4>1, <4>2 DEF VerifyRingSignature, ValidRing, NoDuplicates
    <3>5. \A r \in Ring, t \in Statement : VerifyRingSignature(r, t, sig) = SdkVerify(r, t, sig)
      BY RingAssumption, VerifiersAgree
    <3>. QED BY <3>2, <3>4, <3>5 DEF SignedVerifies
  <2>3. CASE TrailInit
    BY <2>1, <2>3 DEF TrailInit
  <2>4. CASE MainHalts
    BY <2>1, <2>4 DEF MainHalts
  <2>5. ASSUME NEW p \in Handover, NEW ring \in Ring, NEW m \in Statement, NEW signed \in signatures,
               RecordHandover(p, ring, m, signed.sig)
        PROVE  SignedVerifies'
    BY <2>1, <2>5 DEF RecordHandover
  <2>6. CASE UNCHANGED trail_vars
    BY <2>1, <2>6 DEF trail_vars
  <2>. QED BY <2>2, <2>3, <2>4, <2>5, <2>6 DEF RingNext
<1>. QED BY <1>1, <1>2, PTL DEF RingSpec

\* A commitment is a member of the group.
LEMMA CommitmentIsMember ==
  ASSUME RingAssumption, NEW s \in Int, NEW c \in Int, NEW p \in Int
  PROVE  Commitment(s, c, p) \in Member
<1>1. s + c * p \in Int
  OBVIOUS
<1>2. (s + c * p) % Q \in 0 .. Q - 1
  BY <1>1, ModOf DEF RingAssumption
<1>. QED BY <1>2 DEF Commitment, Member

\* A signature's challenge is a hash of the ring and the statement it was made for.
LEMMA SignedChallenge ==
  ASSUME RingAssumption, NEW ring \in Ring, NEW k \in Nat, NEW x \in Secret, NEW m \in Statement,
         NEW alpha \in Scalars, NEW drawn \in [1 .. Len(ring) -> Scalars], MaySign(ring, k, x)
  PROVE  /\ \E l \in Member : Sign(ring, k, x, m, alpha, drawn).c0 = Hash(ring, m, l)
         /\ Sign(ring, k, x, m, alpha, drawn).c0 \in Member
         /\ Len(Sign(ring, k, x, m, alpha, drawn).s) = Len(ring)
         /\ \A i \in 1 .. Len(ring) : Sign(ring, k, x, m, alpha, drawn).s[i] \in Int
<1>1. PICK n \in Nat \ {0} : n = Len(ring) /\ k \in 1 .. n
  BY DEF RingAssumption, MaySign
<1>2. alpha \in Int /\ x \in Int /\ Q \in Nat \ {0} /\ Member \subseteq Int /\ Scalars \subseteq Int
  BY DEF RingAssumption, Member
<1>3. PICK cs : /\ cs = SignersChallenges(ring, k, m, alpha, drawn)
                /\ FollowsSigner(cs, ring, k, m, alpha, drawn)
                /\ cs \in [1 .. n -> Member]
  BY <1>1, SignersGoAround
<1>4. PICK sig : sig = Sign(ring, k, x, m, alpha, drawn)
  OBVIOUS
<1>5. PICK j \in 1 .. n : Around(ring, k, j) = 1 /\ sig.c0 = cs[j]
  <2>1. k \in 1 .. Len(ring) /\ 1 \in 1 .. Len(ring)
    BY <1>1
  <2>2. \E j \in 1 .. n : Around(ring, k, j) = 1
    <3>1. /\ Place(ring, k, 1) \in 1 .. Len(ring)
          /\ \A j \in 1 .. Len(ring) : Around(ring, k, j) = 1 <=> j = Place(ring, k, 1)
      BY <2>1, PlaceIsAround
    <3>. QED BY <1>1, <3>1
  <2>3. (CHOOSE j \in 1 .. n : Around(ring, k, j) = 1) \in 1 .. n
    BY <2>2
  <2>4. sig.c0 = cs[CHOOSE j \in 1 .. n : Around(ring, k, j) = 1]
    BY <1>1, <1>3, <1>4 DEF Sign
  <2>. QED BY <2>2, <2>3, <2>4
<1>6. \E l \in Member : cs[j] = Hash(ring, m, l)
  <2>1. CASE j = 1
    <3>1. cs[1] = Hash(ring, m, PublicKey(alpha))
      BY <1>1, <1>3 DEF FollowsSigner
    <3>2. PublicKey(alpha) \in Member
      <4>1. alpha % Q \in 0 .. Q - 1
        BY <1>2, ModOf
      <4>. QED BY <4>1 DEF PublicKey, Member
    <3>. QED BY <2>1, <3>1, <3>2
  <2>2. CASE j # 1
    <3>1. PICK i \in 1 .. n : i = Around(ring, k, j - 1)
      <4>1. (k - 1 + (j - 1)) % n \in 0 .. n - 1
        <5>1. k - 1 + (j - 1) \in Int
          BY <1>1
        <5>. QED BY <5>1, ModOf
      <4>. QED BY <1>1, <4>1 DEF Around
    <3>2. j - 1 \in 1 .. n
      BY <2>2
    <3>3. cs[j] = NextChallenge(ring, m, drawn[i], cs[j - 1], ring[i])
      BY <1>1, <1>3, <2>2, <3>1 DEF FollowsSigner
    <3>4. drawn[i] \in Int /\ cs[j - 1] \in Int /\ ring[i] \in Int
      <4>1. drawn[i] \in Int
        BY <1>1, <1>2
      <4>2. cs[j - 1] \in Int
        BY <1>2, <1>3, <3>2
      <4>3. ring[i] \in Nat
        <5>1. ring \in Seq(Nat) /\ i \in 1 .. Len(ring)
          BY <1>1 DEF RingAssumption
        <5>. QED BY <5>1, ElementOfSeq
      <4>4. ring[i] \in Int
        BY <4>3
      <4>. QED BY <4>1, <4>2, <4>4, Zenon
    <3>5. Commitment(drawn[i], cs[j - 1], ring[i]) \in Member
      BY <1>2, <3>4, CommitmentIsMember
    <3>. QED BY <3>3, <3>5 DEF NextChallenge
  <2>. QED BY <2>1, <2>2
<1>7. sig.c0 \in Member
  BY <1>3, <1>5
<1>8. Len(sig.s) = Len(ring)
  <2>1. PICK s : s = sig.s
    OBVIOUS
  <2>2. PICK f \in [1 .. n -> UNION {{s[i]} : i \in 1 .. n}] : f = s
    BY <1>1, <1>4, <2>1 DEF Sign
  <2>3. Len(f) = n
    OBVIOUS
  <2>. QED BY <1>1, <2>1, <2>2, <2>3
<1>9. \A i \in 1 .. Len(ring) : sig.s[i] \in Int
  <2>1. \A i \in 1 .. n : sig.s[i] = IF i = k THEN (alpha - cs[n] * x) % Q ELSE drawn[i]
    BY <1>1, <1>3, <1>4 DEF Sign
  <2>2. cs[n] \in Int
    <3>1. n \in 1 .. n
      OBVIOUS
    <3>. QED BY <1>2, <1>3, <3>1
  <2>3. (alpha - cs[n] * x) % Q \in Int
    BY <1>2, <2>2, ResponseIsInt
  <2>. QED BY <1>1, <1>2, <2>1, <2>3
<1>. QED BY <1>4, <1>5, <1>6, <1>7, <1>8, <1>9

\* What closes around a ring ends in a hash of that ring and statement.
LEMMA ClosingChallenge ==
  ASSUME RingAssumption, NEW ring \in Ring, NEW m \in Statement, NEW sig,
         sig.c0 \in Member, \A i \in 1 .. Len(sig.s) : sig.s[i] \in Int,
         VerifyRingSignature(ring, m, sig)
  PROVE  \E l \in Member : sig.c0 = Hash(ring, m, l)
<1>1. PICK n \in Nat \ {0} : n = Len(ring) /\ n = Len(sig.s)
  <2>1. Len(ring) \in MinRingSize .. MaxRingSize /\ Len(sig.s) = Len(ring)
    BY Zenon DEF VerifyRingSignature, ValidRing
  <2>2. MinRingSize \in Nat \ {0} /\ MaxRingSize \in Nat
    BY DEF RingAssumption
  <2>3. Len(ring) \in Nat \ {0}
    BY <2>1, <2>2
  <2>. QED BY <2>1, <2>3
<1>2. \A i \in 1 .. Len(ring) : sig.s[i] \in Int
  BY <1>1
<1>3. PICK c : c = Challenges(ring, m, sig) /\ FollowsRing(c, ring, m, sig)
  BY <1>2, VerifiersChallenges
<1>4. c[n] = sig.c0
  BY <1>1, <1>3 DEF VerifyRingSignature, Closes
<1>5. c[0] = sig.c0 /\ \A i \in 1 .. n : c[i] = NextChallenge(ring, m, sig.s[i], c[i - 1], ring[i])
  <2>1. \A i \in 0 .. n : c[i] = IF i = 0 THEN sig.c0
                                 ELSE NextChallenge(ring, m, sig.s[i], c[i - 1], ring[i])
    BY <1>1, <1>3, Zenon DEF FollowsRing
  <2>. QED BY <2>1
<1>6. c[n - 1] \in Int
  <2> DEFINE S == {i \in 0 .. n : c[i] \in Member}
  <2>1. 0 \in S
    BY <1>5
  <2>2. \A i \in 0 .. n : i \in S /\ i # n => i + 1 \in S
    <3> SUFFICES ASSUME NEW i \in 0 .. n, i \in S, i # n PROVE i + 1 \in S
      OBVIOUS
    <3>1. PICK j \in 1 .. n : j = i + 1 /\ j - 1 = i
      OBVIOUS
    <3>2. c[j] = NextChallenge(ring, m, sig.s[j], c[i], ring[j])
      BY <1>5, <3>1
    <3>3. c[i] \in Int /\ sig.s[j] \in Int /\ ring[j] \in Int
      <4>1. c[i] \in Int
        BY DEF Member, RingAssumption
      <4>2. sig.s[j] \in Int
        BY <1>1, <1>2
      <4>3. ring[j] \in Nat
        <5>1. ring \in Seq(Nat) /\ j \in 1 .. Len(ring)
          BY <1>1 DEF RingAssumption
        <5>. QED BY <5>1, ElementOfSeq
      <4>. QED BY <4>1, <4>2, <4>3
    <3>4. c[j] \in Member
      BY <3>2, <3>3, ChallengeInGroup
    <3>. QED BY <3>1, <3>4
  <2>3. 0 \in Int /\ n \in Int
    OBVIOUS
  <2>4. 0 .. n \subseteq S
    <3> HIDE DEF S
    <3>. QED BY <2>1, <2>2, <2>3, Climbing
  <2>5. n - 1 \in 0 .. n
    OBVIOUS
  <2>6. c[n - 1] \in Member
    BY <2>4, <2>5
  <2>. QED BY <2>6 DEF Member, RingAssumption
<1>7. Commitment(sig.s[n], c[n - 1], ring[n]) \in Member
  <2>1. sig.s[n] \in Int
    BY <1>1, <1>2
  <2>2. ring[n] \in Int
    <3>1. ring \in Seq(Nat) /\ n \in 1 .. Len(ring)
      BY <1>1 DEF RingAssumption
    <3>2. ring[n] \in Nat
      BY <3>1, ElementOfSeq
    <3>. QED BY <3>2
  <2>. QED BY <1>6, <2>1, <2>2, CommitmentIsMember, Zenon
<1>. QED BY <1>4, <1>5, <1>7 DEF NextChallenge

\* So it is accepted for no other ring and no other statement.
LEMMA SignatureIsOfItsRing ==
  ASSUME RingAssumption, HashSeparates,
         NEW ring \in Ring, NEW k \in Nat, NEW x \in Secret, NEW m \in Statement,
         NEW alpha \in Scalars, NEW drawn \in [1 .. Len(ring) -> Scalars], MaySign(ring, k, x),
         NEW r \in Ring, NEW t \in Statement,
         VerifyRingSignature(r, t, Sign(ring, k, x, m, alpha, drawn))
  PROVE  r = ring /\ t = m
<1>1. PICK sig : sig = Sign(ring, k, x, m, alpha, drawn)
  OBVIOUS
<1>2. /\ \E l \in Member : sig.c0 = Hash(ring, m, l)
      /\ sig.c0 \in Member
      /\ Len(sig.s) = Len(ring)
      /\ \A i \in 1 .. Len(ring) : sig.s[i] \in Int
  <2>1. /\ \E l \in Member : Sign(ring, k, x, m, alpha, drawn).c0 = Hash(ring, m, l)
        /\ Sign(ring, k, x, m, alpha, drawn).c0 \in Member
        /\ Len(Sign(ring, k, x, m, alpha, drawn).s) = Len(ring)
        /\ \A i \in 1 .. Len(ring) : Sign(ring, k, x, m, alpha, drawn).s[i] \in Int
    BY SignedChallenge
  <2>. QED BY <1>1, <2>1
<1>3. \E l \in Member : sig.c0 = Hash(r, t, l)
  BY <1>1, <1>2, ClosingChallenge
<1>4. /\ sig.c0 \in {Hash(ring, m, l) : l \in 0 .. Q - 1}
      /\ sig.c0 \in {Hash(r, t, l) : l \in 0 .. Q - 1}
  BY <1>2, <1>3 DEF Member
<1>5. \/ ring = r /\ m = t
      \/ {Hash(ring, m, l) : l \in 0 .. Q - 1} \intersect {Hash(r, t, l) : l \in 0 .. Q - 1} = {}
  <2>1. \A r1, r2 \in Ring, m1, m2 \in Statement :
          \/ r1 = r2 /\ m1 = m2
          \/ {Hash(r1, m1, l) : l \in 0 .. Q - 1} \intersect {Hash(r2, m2, l) : l \in 0 .. Q - 1} = {}
    BY HashSeparates
  <2> DEFINE D(u, v) == {Hash(u, v, l) : l \in 0 .. Q - 1}
  <2>2. \A r1, r2 \in Ring, m1, m2 \in Statement :
          (r1 = r2 /\ m1 = m2) \/ D(r1, m1) \intersect D(r2, m2) = {}
    BY <2>1
  <2>3. (ring = r /\ m = t) \/ D(ring, m) \intersect D(r, t) = {}
    <3> HIDE DEF D
    <3>. QED BY <2>2
  <2>. QED BY <2>3
<1>. QED BY <1>4, <1>5, Zenon

(***************************************************************************)
(* The inductive invariant of the trail: every signature was made as sign  *)
(* makes it, by a member of the ring it names; every record copies the     *)
(* ring and the statement of one; and the index of a product is what a     *)
(* filter of the ids finds.                                                *)
(***************************************************************************)
SignedBy(signed, ring, k, alpha, drawn) ==
  /\ MaySign(ring, k, signed.by)
  /\ signed.ring = ring
  /\ signed.sig = Sign(ring, k, signed.by, signed.statement, alpha, drawn)

Genuine(signed) ==
  /\ signed.by \in Secret /\ signed.statement \in Statement
  /\ \E ring \in Ring, k \in Nat, alpha \in Scalars :
       \E drawn \in [1 .. Len(ring) -> Scalars] : SignedBy(signed, ring, k, alpha, drawn)

Attested(record) ==
  \E signed \in signatures :
    /\ signed.ring = record.ring /\ signed.statement = record.statement
    /\ \E i \in 1 .. record.ring_size : signed.ring[i] = PublicKey(signed.by)

\* The ids of the product's records.
Ids(rs) == [n \in 1 .. Len(rs) |-> n]
Of(rs, p) == {n \in 1 .. Len(rs) : rs[n].product = p}

TrailInv ==
  /\ \A signed \in signatures : Genuine(signed)
  /\ records \in Seq(Record)
  /\ \A n \in 1 .. Len(records) : Attested(records[n])
  /\ DOMAIN product_records = Handover
  /\ \A p \in Handover : product_records[p] = Kept(Ids(records), Of(records, p))

\* Signatures stay, so what is attested stays so.
LEMMA AttestedStays ==
  ASSUME signatures \subseteq signatures', NEW record, Attested(record) PROVE Attested(record)'
  BY DEF Attested

\* One more record is one more id, at the end of its product's list alone.
LEMMA OneMoreId ==
  ASSUME NEW rs \in Seq(Record), NEW r \in Record, NEW p
  PROVE  Kept(Ids(Append(rs, r)), Of(Append(rs, r), p))
           = IF r.product = p THEN Append(Kept(Ids(rs), Of(rs, p)), Len(rs) + 1)
             ELSE Kept(Ids(rs), Of(rs, p))
<1>1. PICK n \in Nat : n = Len(rs)
  OBVIOUS
<1>2. PICK ss \in Seq(Record) : /\ ss = Append(rs, r) /\ Len(ss) = n + 1 /\ ss[n + 1] = r
                                /\ \A i \in 1 .. n : ss[i] = rs[i]
  <2>1. /\ Append(rs, r) \in Seq(Record) /\ Len(Append(rs, r)) = n + 1 /\ Append(rs, r)[n + 1] = r
        /\ \A i \in 1 .. n : Append(rs, r)[i] = rs[i]
    BY <1>1, AppendProperties
  <2>. QED BY <2>1
<1>3. PICK ids : ids = Ids(rs) /\ ids \in Seq(1 .. n) /\ ids \in Seq(1 .. n + 1) /\ Len(ids) = n
  <2>1. /\ Ids(rs) \in [1 .. n -> 1 .. n]
        /\ Ids(rs) \in [1 .. n -> 1 .. n + 1]
    BY <1>1 DEF Ids
  <2>. QED BY <2>1
<1>4. Ids(ss) = Append(ids, n + 1)
  <2>1. \A i \in 1 .. n : ids[i] = i
    BY <1>1, <1>3 DEF Ids
  <2>2. Append(ids, n + 1) = [i \in 1 .. n + 1 |-> i]
    BY <1>3, <2>1
  <2>. QED BY <1>2, <2>2 DEF Ids
<1>6. Kept(Append(ids, n + 1), Of(ss, p))
        = IF n + 1 \in Of(ss, p) THEN Append(Kept(ids, Of(ss, p)), n + 1) ELSE Kept(ids, Of(ss, p))
  <2>1. PICK E, e, T : E = 1 .. n + 1 /\ e = n + 1 /\ T = Of(ss, p)
    OBVIOUS
  <2>2. e \in E /\ ids \in Seq(E)
    BY <1>3, <2>1
  <2>3. Kept(Append(ids, e), T) = IF e \in T THEN Append(Kept(ids, T), e) ELSE Kept(ids, T)
    BY <2>2, KeptAppended
  <2>. QED BY <2>1, <2>3
<1>7. Kept(ids, Of(ss, p)) = Kept(ids, Of(rs, p))
  <2>1. \A i \in 1 .. n : i \in Of(ss, p) <=> i \in Of(rs, p)
    BY <1>1, <1>2 DEF Of
  <2>. QED BY <1>3, <2>1, KeptAlike
<1>8. n + 1 \in Of(ss, p) <=> r.product = p
  BY <1>2 DEF Of
<1>. QED BY <1>1, <1>2, <1>3, <1>4, <1>6, <1>7, <1>8, Zenon

\* A signature that is added was made as sign makes it.
LEMMA TrailSigns ==
  ASSUME TrailInv, NEW ring \in Ring, NEW x \in Secret, NEW m \in Statement, NEW alpha \in Scalars,
         NEW k \in 1 .. Len(ring), NEW drawn \in [1 .. Len(ring) -> Scalars],
         AuditorSigns(ring, k, x, m, alpha, drawn)
  PROVE  TrailInv'
<1>1. PICK new : new = [ring |-> ring, statement |-> m, sig |-> Sign(ring, k, x, m, alpha, drawn), by |-> x]
  OBVIOUS
<1>2. /\ signatures' = signatures \union {new} /\ UNCHANGED <<records, product_records>>
      /\ MaySign(ring, k, x)
  BY <1>1 DEF AuditorSigns
<1>3. Genuine(new)
  <2>1. k \in Nat
    BY RingAssumption
  <2>2. SignedBy(new, ring, k, alpha, drawn)
    BY <1>1, <1>2 DEF SignedBy
  <2>3. new.by = x /\ new.statement = m
    BY <1>1
  <2>. QED BY <2>1, <2>2, <2>3 DEF Genuine
<1>4. \A signed \in signatures' : Genuine(signed)
  BY <1>2, <1>3 DEF TrailInv
<1>5. \A n \in 1 .. Len(records) : Attested(records[n])'
  <2>1. signatures \subseteq signatures'
    BY <1>2
  <2>2. ASSUME NEW n \in 1 .. Len(records) PROVE Attested(records[n])'
    <3>1. PICK r : r = records[n]
      OBVIOUS
    <3>2. Attested(r)
      BY <3>1 DEF TrailInv
    <3>3. Attested(r)'
      BY <2>1, <3>2, AttestedStays
    <3>. QED BY <1>2, <3>1, <3>3 DEF Attested
  <2>. QED BY <2>2
<1>. QED BY <1>2, <1>4, <1>5 DEF TrailInv, Ids, Of

\* A record that is added copies the ring and the statement of the signature shown for it.
LEMMA TrailRecords ==
  ASSUME TrailInv, NEW p \in Handover, NEW ring \in Ring, NEW m \in Statement, NEW signed \in signatures,
         RecordHandover(p, ring, m, signed.sig)
  PROVE  TrailInv'
<1>1. PICK r \in Record : r = [product |-> p, ring |-> ring, ring_size |-> Len(ring), statement |-> m]
  <2>1. Len(ring) \in Nat
    BY RingAssumption DEF RingAssumption
  <2>. QED BY <2>1 DEF Record
<1>2. /\ records' = Append(records, r)
      /\ product_records' = [product_records EXCEPT ![p] = Append(@, Len(records) + 1)]
      /\ signatures' = signatures /\ VerifyRingSignature(ring, m, signed.sig)
  BY <1>1 DEF RecordHandover, NextRecordId
<1>3. Attested(r)
  <2>1. PICK own \in Ring, k \in Nat, alpha \in Scalars :
          \E drawn \in [1 .. Len(own) -> Scalars] : SignedBy(signed, own, k, alpha, drawn)
    BY DEF TrailInv, Genuine
  <2>2. PICK drawn \in [1 .. Len(own) -> Scalars] : SignedBy(signed, own, k, alpha, drawn)
    BY <2>1
  <2>3. signed.by \in Secret /\ signed.statement \in Statement
    BY DEF TrailInv, Genuine
  <2>4. PICK x \in Secret, t \in Statement : x = signed.by /\ t = signed.statement
    BY <2>3
  <2>5. /\ MaySign(own, k, x) /\ signed.ring = own
        /\ VerifyRingSignature(ring, m, Sign(own, k, x, t, alpha, drawn))
    BY <1>2, <2>2, <2>4 DEF SignedBy
  <2>6. ring = own /\ m = t
    BY <2>5, RingAssumption, HashSeparates, SignatureIsOfItsRing
  <2>7. k \in 1 .. Len(own) /\ own[k] = PublicKey(x)
    BY <2>5 DEF MaySign
  <2>. QED BY <1>1, <2>4, <2>5, <2>6, <2>7 DEF Attested
<1>4. PICK n \in Nat : n = Len(records)
  BY DEF TrailInv
<1>5. /\ records' \in Seq(Record) /\ Len(records') = n + 1 /\ records'[n + 1] = r
      /\ \A i \in 1 .. n : records'[i] = records[i]
  BY <1>2, <1>4, AppendProperties DEF TrailInv
<1>6. \A i \in 1 .. Len(records') : Attested(records'[i])
  <2>1. ASSUME NEW i \in 1 .. n + 1 PROVE Attested(records'[i])
    <3>1. CASE i = n + 1
      BY <1>3, <1>5, <3>1
    <3>2. CASE i # n + 1
      <4>1. i \in 1 .. n
        BY <3>2
      <4>. QED BY <1>4, <1>5, <4>1 DEF TrailInv
    <3>. QED BY <3>1, <3>2
  <2>. QED BY <1>5, <2>1
<1>7. (\A i \in 1 .. Len(records) : Attested(records[i]))'
  BY <1>2, <1>6 DEF Attested
<1>8. DOMAIN product_records' = Handover
  BY <1>2 DEF TrailInv
<1>9. ASSUME NEW q \in Handover PROVE product_records'[q] = Kept(Ids(records'), Of(records', q))
  <2>1. Kept(Ids(records'), Of(records', q))
          = IF r.product = q THEN Append(Kept(Ids(records), Of(records, q)), Len(records) + 1)
            ELSE Kept(Ids(records), Of(records, q))
    BY <1>2, OneMoreId DEF TrailInv
  <2>2. product_records[q] = Kept(Ids(records), Of(records, q)) /\ DOMAIN product_records = Handover
    BY DEF TrailInv
  <2>3. r.product = p
    BY <1>1
  <2>4. CASE q = p
    <3>1. product_records'[q] = Append(product_records[q], Len(records) + 1)
      BY <1>2, <2>2, <2>4
    <3>. QED BY <2>1, <2>2, <2>3, <2>4, <3>1, Zenon
  <2>5. CASE q # p
    <3>1. product_records'[q] = product_records[q]
      BY <1>2, <2>2, <2>5
    <3>. QED BY <2>1, <2>2, <2>3, <2>5, <3>1, Zenon
  <2>. QED BY <2>4, <2>5
<1>10. \A s \in signatures' : Genuine(s)
  BY <1>2 DEF TrailInv
<1>. QED BY <1>5, <1>7, <1>8, <1>9, <1>10 DEF TrailInv

(***************************************************************************)
(* The inductive invariant holds throughout.                               *)
(***************************************************************************)
THEOREM TrailInvariant == RingSpec => []TrailInv
<1>1. RingInit => TrailInv
  <2> SUFFICES ASSUME RingInit PROVE TrailInv
    OBVIOUS
  <2>1. records = <<>> /\ Len(records) = 0 /\ records \in Seq(Record) /\ signatures = {}
    BY DEF RingInit
  <2>2. ASSUME NEW p \in Handover PROVE product_records[p] = Kept(Ids(records), Of(records, p))
    <3>1. Ids(records) = <<>>
      BY <2>1 DEF Ids
    <3>2. Kept(<<>>, Of(records, p)) = <<>>
      BY KeptOfNone
    <3>3. product_records[p] = <<>>
      BY DEF RingInit
    <3>. QED BY <3>1, <3>2, <3>3
  <2>3. DOMAIN product_records = Handover
    BY DEF RingInit
  <2>. QED BY <2>1, <2>2, <2>3 DEF TrailInv
<1>2. TrailInv /\ [RingNext]_trail_vars => TrailInv'
  <2> SUFFICES ASSUME TrailInv, [RingNext]_trail_vars PROVE TrailInv'
    OBVIOUS
  <2>1. CASE UNCHANGED <<signatures, records, product_records>>
    BY <2>1 DEF TrailInv, Attested, Ids, Of
  <2>2. ASSUME NEW ring \in Ring, NEW x \in Secret, NEW m \in Statement, NEW alpha \in Scalars,
               NEW k \in 1 .. Len(ring), NEW drawn \in [1 .. Len(ring) -> Scalars],
               AuditorSigns(ring, k, x, m, alpha, drawn)
        PROVE  TrailInv'
    BY <2>2, TrailSigns
  <2>3. CASE TrailInit
    BY <2>1, <2>3 DEF TrailInit
  <2>4. CASE MainHalts
    BY <2>1, <2>4 DEF MainHalts
  <2>5. ASSUME NEW p \in Handover, NEW ring \in Ring, NEW m \in Statement, NEW signed \in signatures,
               RecordHandover(p, ring, m, signed.sig)
        PROVE  TrailInv'
    BY <2>5, TrailRecords
  <2>6. CASE UNCHANGED trail_vars
    BY <2>1, <2>6 DEF trail_vars
  <2>. QED BY <2>2, <2>3, <2>4, <2>5, <2>6 DEF RingNext
<1>. QED BY <1>1, <1>2, PTL DEF RingSpec

(***************************************************************************)
(* No handover is on record but for a statement that a member of the very  *)
(* ring signed, and each is listed once, in order, under its product       *)
(* (record_handover, verify_ring_signature): for every group order, every  *)
(* set of rings, statements and products, and every hash that does not     *)
(* collide on rings and statements.                                        *)
(***************************************************************************)
THEOREM HandoversAreAttested == RingSpec => []HandoversAttested
<1>1. TrailInv => HandoversAttested
  <2> SUFFICES ASSUME TrailInv PROVE HandoversAttested
    OBVIOUS
  <2>1. \A n \in 1 .. Len(records) : Attested(records[n])
    BY DEF TrailInv
  <2>2. \A p \in Handover : product_records[p] = Kept(Ids(records), Of(records, p))
    BY DEF TrailInv
  <2>. QED BY <2>1, <2>2 DEF HandoversAttested, Attested, Ids, Of
<1>. QED BY <1>1, TrailInvariant, PTL

------------------------------------------------------------------------------
(* Quality control. *)

Reading ==
  [sensor : QcAccount, parameter : Parameter, value : Int, time : 0 .. MaxLedger,
   low : {band[1] : band \in Bands}, high : {band[2] : band \in Bands},
   status : {"critical", "warning", "normal"}]

Certificate == [from : Int, until : Int]

Figures == [count : Nat, sum : Int, min : Int, max : Int, avg : Int]

QualityTypeOK ==
  /\ readings \in [Goods -> Seq(Reading)] /\ certificates \in [Goods -> Seq(Certificate)]
  /\ \A p \in Goods : Len(readings[p]) <= MaxReadings
  /\ stats \in [Goods -> [Parameter -> Figures]]
  /\ ledger \in 0 .. MaxLedger

\* Where the readings of a parameter are, and the values of all.
MineIn(s, x) == {n \in 1 .. Len(s) : s[n].parameter = x}
ValueAt(s) == [n \in 1 .. Len(s) |-> s[n].value]

\* The figures of a parameter are those of its readings; the sum lies between as many times
\* the least and the greatest.
FiguresOf(s, x, f) ==
  /\ f.count = Cardinality(MineIn(s, x))
  /\ \A g : SumsOf(g, ValueAt(s), 1 .. Len(s)) => f.sum = g[MineIn(s, x)]
  /\ MineIn(s, x) # {} =>
       /\ \E n \in MineIn(s, x) : s[n].value = f.min
       /\ \E n \in MineIn(s, x) : s[n].value = f.max
       /\ \A n \in MineIn(s, x) : f.min <= s[n].value /\ s[n].value <= f.max
       /\ f.min * f.count <= f.sum /\ f.sum <= f.max * f.count
       /\ f.avg = Quotient(f.sum, f.count)

QualityInv ==
  QualityTypeOK /\ \A p \in Goods, x \in Parameter : FiguresOf(readings[p], x, stats[p][x])

\* A quotient, towards zero, lies between what bounds as many times it.
LEMMA QuotientBetween ==
  ASSUME NEW a \in Int, NEW b \in Nat \ {0}, NEW lo \in Int, NEW hi \in Int, lo * b <= a, a <= hi * b
  PROVE  Quotient(a, b) \in Int /\ lo <= Quotient(a, b) /\ Quotient(a, b) <= hi
<1>1. CASE a >= 0
  <2>1. PICK q \in Int : q = a \div b /\ q * b <= a /\ a < (q + 1) * b
    OBVIOUS
  <2>2. lo <= q
    <3>1. CASE q + 1 <= lo
      <4>1. (q + 1) * b <= lo * b
        BY <3>1, TimesMonotone
      <4>. QED BY <2>1, <4>1
    <3>. QED BY <3>1
  <2>3. q <= hi
    <3>1. CASE hi + 1 <= q
      <4>1. (hi + 1) * b <= q * b
        BY <3>1, TimesMonotone
      <4>2. (hi + 1) * b = hi * b + b
        OBVIOUS
      <4>. QED BY <2>1, <4>1, <4>2
    <3>. QED BY <3>1
  <2>. QED BY <1>1, <2>1, <2>2, <2>3 DEF Quotient
<1>2. CASE a < 0
  <2>1. PICK q \in Int : q = (-a) \div b /\ q * b <= -a /\ -a < (q + 1) * b
    BY <1>2
  <2>2. lo <= -q
    <3>1. CASE -q + 1 <= lo
      <4>1. (-q + 1) * b <= lo * b
        BY <3>1, TimesMonotone
      <4>2. (-q + 1) * b = -(q * b) + b
        OBVIOUS
      <4>. QED BY <2>1, <4>1, <4>2
    <3>. QED BY <3>1
  <2>3. -q <= hi
    <3>1. CASE hi <= -(q + 1)
      <4>1. hi * b <= (-(q + 1)) * b
        BY <3>1, TimesMonotone
      <4>2. (-(q + 1)) * b = -((q + 1) * b)
        OBVIOUS
      <4>. QED BY <2>1, <4>1, <4>2
    <3>. QED BY <3>1
  <2>. QED BY <1>2, <2>1, <2>2, <2>3 DEF Quotient
<1>. QED BY <1>1, <1>2

\* One more reading.
Longer(s, t, e) ==
  /\ Len(s) \in Nat /\ Len(t) = Len(s) + 1 /\ t[Len(s) + 1] = e /\ e.value \in Int
  /\ \A n \in 1 .. Len(s) : t[n] = s[n] /\ s[n].value \in Int

LEMMA OneReadingMore ==
  ASSUME NEW s \in Seq(Reading), NEW e \in Reading
  PROVE  Append(s, e) \in Seq(Reading) /\ Longer(s, Append(s, e), e)
<1>1. \A r \in Reading : r.value \in Int
  BY DEF Reading
<1> HIDE DEF Reading
<1>2. \A n \in 1 .. Len(s) : s[n] \in Reading
  OBVIOUS
<1>3. PICK t : t = Append(s, e)
  OBVIOUS
<1>4. /\ t \in Seq(Reading) /\ Len(s) \in Nat /\ Len(t) = Len(s) + 1
      /\ \A n \in 1 .. Len(s) : t[n] = s[n]
      /\ t[Len(s) + 1] = e
  BY <1>3
<1>. QED BY <1>1, <1>2, <1>3, <1>4 DEF Longer

LEMMA MineInLonger ==
  ASSUME NEW s, NEW t, NEW e, NEW x, Longer(s, t, e)
  PROVE  /\ MineIn(s, x) \subseteq 1 .. Len(s)
         /\ MineIn(t, x) = IF e.parameter = x THEN MineIn(s, x) \union {Len(s) + 1} ELSE MineIn(s, x)
<1>1. PICK N \in Nat : N = Len(s)
  BY DEF Longer
<1>2. 1 .. N + 1 = (1 .. N) \union {N + 1}
  OBVIOUS
<1>3. Len(t) = N + 1 /\ t[N + 1] = e /\ \A n \in 1 .. N : t[n] = s[n]
  BY <1>1 DEF Longer
<1>4. MineIn(s, x) = {n \in 1 .. N : s[n].parameter = x} /\ MineIn(t, x) = {n \in 1 .. N + 1 : t[n].parameter = x}
  BY <1>1, <1>3 DEF MineIn
<1>. QED BY <1>1, <1>2, <1>3, <1>4

LEMMA SumsBeforeReading ==
  ASSUME NEW s, NEW t, NEW e, Longer(s, t, e), NEW g, SumsOf(g, ValueAt(t), 1 .. Len(t))
  PROVE  \E h : SumsOf(h, ValueAt(s), 1 .. Len(s)) /\ SameOn(h, g, 1 .. Len(s))
<1>1. PICK N \in Nat : N = Len(s)
  BY DEF Longer
<1>2. Len(t) = N + 1 /\ \A n \in 1 .. N : t[n] = s[n] /\ s[n].value \in Int
  BY <1>1 DEF Longer
<1>3. PICK f, k : f = ValueAt(s) /\ k = ValueAt(t)
  OBVIOUS
<1>4. \A n \in 1 .. N : f[n] = s[n].value /\ k[n] = t[n].value
  <2>1. \A n \in 1 .. N : n \in 1 .. N + 1
    OBVIOUS
  <2>. QED BY <1>1, <1>2, <1>3, <2>1 DEF ValueAt
<1>5. PICK I, J : I = 1 .. N /\ J = 1 .. N + 1
  OBVIOUS
<1>6. IsFiniteSet(I) /\ I \subseteq J
  BY <1>5, FS_Interval
<1>7. Prolongs(f, I, k, J)
  BY <1>2, <1>4, <1>5, <1>6 DEF Prolongs
<1>8. SumsOf(g, k, J)
  BY <1>2, <1>3, <1>5
<1>9. \E h : SumsOf(h, f, I) /\ SameOn(h, g, I)
  BY <1>7, <1>8, SumsStay
<1>. QED BY <1>1, <1>3, <1>5, <1>9

\* The figures of another parameter stay.
LEMMA FiguresPassed ==
  ASSUME NEW s, NEW t, NEW e, Longer(s, t, e), NEW x, e.parameter # x, NEW f, FiguresOf(s, x, f)
  PROVE  FiguresOf(t, x, f)
<1>1. \A n \in 1 .. Len(s) : t[n] = s[n]
  BY DEF Longer
<1>2. MineIn(t, x) = MineIn(s, x) /\ MineIn(s, x) \subseteq 1 .. Len(s)
  BY MineInLonger
<1>3. ASSUME NEW g, SumsOf(g, ValueAt(t), 1 .. Len(t)) PROVE f.sum = g[MineIn(t, x)]
  <2>1. PICK h : /\ SumsOf(h, ValueAt(s), 1 .. Len(s))
                 /\ \A U \in SUBSET (1 .. Len(s)) : h[U] = g[U]
    BY <1>3, SumsBeforeReading DEF SameOn
  <2>. QED BY <1>2, <2>1 DEF FiguresOf
<1>4. \A n \in MineIn(s, x) : t[n].value = s[n].value
  BY <1>1, <1>2
<1>. QED BY <1>2, <1>3, <1>4 DEF FiguresOf

\* A reading is taken into the figures.
LEMMA FiguresTaken ==
  ASSUME NEW s, NEW t, NEW e, Longer(s, t, e), NEW x, e.parameter = x, NEW f \in Figures, FiguresOf(s, x, f)
  PROVE  UpdatedStats(f, e.value) \in Figures /\ FiguresOf(t, x, UpdatedStats(f, e.value))
<1>2. PICK N \in Nat : N = Len(s)
  BY DEF Longer
<1>3. PICK v \in Int : v = e.value
  BY DEF Longer
<1>4. PICK M : M = MineIn(s, x)
  OBVIOUS
<1>5. /\ MineIn(t, x) = M \union {N + 1} /\ M \subseteq 1 .. N /\ Len(t) = N + 1
      /\ t[N + 1] = e /\ \A n \in 1 .. N : t[n] = s[n]
  <2>1. /\ MineIn(t, x) = M \union {Len(s) + 1} /\ M \subseteq 1 .. Len(s)
    BY <1>4, MineInLonger
  <2>2. /\ Len(t) = Len(s) + 1 /\ t[Len(s) + 1] = e /\ \A n \in 1 .. Len(s) : t[n] = s[n]
    BY DEF Longer
  <2>. QED BY <1>2, <2>1, <2>2
<1>6. /\ f.count \in Nat /\ f.sum \in Int /\ f.min \in Int /\ f.max \in Int
      /\ f.count = Cardinality(M)
  BY <1>4 DEF Figures, FiguresOf
<1>7. \A n \in M : t[n].value = s[n].value /\ s[n].value \in Int
  <2>1. \A n \in 1 .. N : t[n] = s[n] /\ s[n].value \in Int
    BY <1>2 DEF Longer
  <2>. QED BY <1>5, <2>1
<1>8. IsFiniteSet(M) /\ N + 1 \notin M
  <2>1. IsFiniteSet(1 .. N)
    BY FS_Interval
  <2>2. IsFiniteSet(M)
    BY <1>5, <2>1, FS_Subset
  <2>. QED BY <1>5, <2>2
<1>9. Cardinality(M \union {N + 1}) = f.count + 1
  BY <1>6, <1>8, FS_AddElement
<1>10. M = {} <=> f.count = 0
  BY <1>6, <1>8, FS_EmptySet
<1>11. PICK u : u = UpdatedStats(f, v)
  OBVIOUS
<1>12. /\ u.count = f.count + 1 /\ u.sum = f.sum + v
       /\ u.min = (IF f.count = 0 \/ v < f.min THEN v ELSE f.min)
       /\ u.max = (IF f.count = 0 \/ v > f.max THEN v ELSE f.max)
       /\ u.avg = Quotient(f.sum + v, f.count + 1)
       /\ u = [count |-> u.count, sum |-> u.sum, min |-> u.min, max |-> u.max, avg |-> u.avg]
  BY <1>11 DEF UpdatedStats
<1>13. ASSUME NEW g, SumsOf(g, ValueAt(t), 1 .. Len(t)) PROVE u.sum = g[M \union {N + 1}]
  <2>1. PICK h : /\ SumsOf(h, ValueAt(s), 1 .. Len(s))
                 /\ \A U \in SUBSET (1 .. Len(s)) : h[U] = g[U]
    BY <1>13, SumsBeforeReading DEF SameOn
  <2>2. f.sum = g[M]
    BY <1>2, <1>4, <1>5, <2>1 DEF FiguresOf
  <2>3. PICK j, J, w : j = N + 1 /\ J = 1 .. N + 1 /\ w = ValueAt(t)
    OBVIOUS
  <2>4. g[M \union {j}] = w[j] + g[(M \union {j}) \ {j}]
    <3>1. j \in J /\ 1 .. N \subseteq J
      BY <2>3
    <3>2. M \union {j} \in SUBSET J /\ j \in M \union {j}
      BY <1>5, <3>1
    <3>3. SumsOf(g, w, J)
      BY <1>5, <1>13, <2>3
    <3>. QED BY <3>2, <3>3, AnyElement
  <2>5. (M \union {j}) \ {j} = M
    BY <1>8, <2>3
  <2>6. ValueAt(t)[N + 1] = v
    BY <1>3, <1>5 DEF ValueAt
  <2>7. g[M \union {N + 1}] = v + f.sum
    BY <2>2, <2>3, <2>4, <2>5, <2>6
  <2>. QED BY <1>6, <1>12, <2>7
<1>14. f.count = 0 => f.sum = 0
  <2> SUFFICES ASSUME f.count = 0 PROVE f.sum = 0
    OBVIOUS
  <2>1. M = {}
    BY <1>10
  <2>2. \A n \in 1 .. N : ValueAt(s)[n] \in Int
    BY <1>2 DEF Longer, ValueAt
  <2>3. PICK h : SumsOf(h, ValueAt(s), 1 .. N)
    <3>1. IsFiniteSet(1 .. N)
      BY FS_Interval
    <3>. QED BY <2>2, <3>1, SumsExist
  <2>4. h[{}] = 0
    BY <2>3 DEF SumsOf, Adds
  <2>. QED BY <1>2, <1>4, <2>1, <2>3, <2>4 DEF FiguresOf
<1>15. f.count # 0 =>
         /\ \E n \in M : s[n].value = f.min
         /\ \E n \in M : s[n].value = f.max
         /\ \A n \in M : f.min <= s[n].value /\ s[n].value <= f.max
         /\ f.min * f.count <= f.sum /\ f.sum <= f.max * f.count
  BY <1>4, <1>10 DEF FiguresOf
<1>16. u.min \in Int /\ u.max \in Int /\ u.min <= v /\ v <= u.max
       /\ (f.count # 0 => u.min <= f.min /\ f.max <= u.max)
       /\ (u.min = v \/ (u.min = f.min /\ f.count # 0)) /\ (u.max = v \/ (u.max = f.max /\ f.count # 0))
  BY <1>3, <1>6, <1>12
<1>17. u.min * u.count <= u.sum /\ u.sum <= u.max * u.count
  <2>1. u.min * f.count <= f.sum /\ f.sum <= u.max * f.count
    <3>1. CASE f.count = 0
      BY <1>14, <1>16, <3>1
    <3>2. CASE f.count # 0
      <4>1. u.min * f.count <= f.min * f.count /\ f.max * f.count <= u.max * f.count
        BY <1>6, <1>16, <3>2, TimesMonotone
      <4>2. u.min * f.count \in Int /\ f.min * f.count \in Int /\ f.max * f.count \in Int /\ u.max * f.count \in Int
        BY <1>6, <1>16
      <4>. QED BY <1>6, <1>15, <3>2, <4>1, <4>2
    <3>. QED BY <3>1, <3>2
  <2>2. /\ u.min * (f.count + 1) = u.min * f.count + u.min /\ u.max * (f.count + 1) = u.max * f.count + u.max
        /\ u.min * f.count \in Int /\ u.max * f.count \in Int
    BY <1>6, <1>16, TimesOneMore
  <2>3. PICK least, most \in Int : least = u.min * f.count /\ most = u.max * f.count
    BY <2>2
  <2>4. u.min * u.count = least + u.min /\ u.max * u.count = most + u.max
    BY <1>12, <2>2, <2>3
  <2>5. least <= f.sum /\ f.sum <= most
    BY <2>1, <2>3
  <2>6. least + u.min <= f.sum + v /\ f.sum + v <= most + u.max
    BY <1>6, <1>16, <2>5
  <2>. QED BY <1>12, <2>4, <2>6
<1>18. u \in Figures
  <2>1. u.count \in Nat \ {0} /\ u.sum \in Int
    BY <1>3, <1>6, <1>12
  <2>2. Quotient(u.sum, u.count) \in Int
    BY <1>16, <1>17, <2>1, QuotientBetween
  <2>. QED BY <1>12, <1>16, <2>1, <2>2 DEF Figures
<1>19. FiguresOf(t, x, u)
  <2>1. \A n \in M \union {N + 1} : u.min <= t[n].value /\ t[n].value <= u.max
    <3>1. t[N + 1].value = v
      BY <1>3, <1>5
    <3>2. ASSUME NEW n \in M PROVE u.min <= t[n].value /\ t[n].value <= u.max
      BY <1>6, <1>7, <1>10, <1>15, <1>16
    <3>. QED BY <1>16, <3>1, <3>2
  <2>2. (\E n \in M \union {N + 1} : t[n].value = u.min) /\ (\E n \in M \union {N + 1} : t[n].value = u.max)
    <3>1. t[N + 1].value = v
      BY <1>3, <1>5
    <3>. QED BY <1>7, <1>15, <1>16, <3>1
  <2>. QED BY <1>5, <1>9, <1>12, <1>13, <1>17, <2>1, <2>2 DEF FiguresOf
<1>. QED BY <1>3, <1>11, <1>18, <1>19

LEMMA QualityBegins == QualityInit => QualityInv
<1> SUFFICES ASSUME QualityInit PROVE QualityInv
  OBVIOUS
<1>1. /\ readings = [p \in Goods |-> <<>>] /\ certificates = [p \in Goods |-> <<>>]
      /\ stats = [p \in Goods |-> [x \in Parameter |-> NoStats]] /\ ledger = 0
  BY DEF QualityInit
<1>2. NoStats \in Figures /\ NoStats.count = 0 /\ NoStats.sum = 0
  BY DEF NoStats, Figures
<1>3. QualityTypeOK
  <2>1. MaxLedger \in Nat /\ MaxReadings \in Nat
    BY QualityAssumption
  <2>2. 0 \in 0 .. MaxLedger /\ Len(<<>>) <= MaxReadings
    BY <2>1
  <2> HIDE DEF Reading, Certificate, Figures
  <2>. QED BY <1>1, <1>2, <2>2 DEF QualityTypeOK
<1>4. ASSUME NEW p \in Goods, NEW x \in Parameter PROVE FiguresOf(readings[p], x, stats[p][x])
  <2>1. MineIn(<<>>, x) = {} /\ Cardinality({}) = 0 /\ 1 .. Len(<<>>) = {}
    BY FS_EmptySet DEF MineIn
  <2>2. ASSUME NEW g, SumsOf(g, ValueAt(<<>>), 1 .. Len(<<>>)) PROVE g[{}] = 0
    BY <2>2 DEF SumsOf, Adds
  <2>3. FiguresOf(<<>>, x, NoStats)
    BY <1>2, <2>1, <2>2 DEF FiguresOf
  <2>. QED BY <1>1, <2>3
<1>. QED BY <1>3, <1>4 DEF QualityInv

\* A call that touches neither readings nor figures.
LEMMA FiguresStand ==
  ASSUME QualityInv, UNCHANGED <<readings, stats>>, ledger' \in 0 .. MaxLedger,
         certificates' \in [Goods -> Seq(Certificate)]
  PROVE  QualityInv'
BY DEF QualityInv, QualityTypeOK

LEMMA CertificationKeeps ==
  ASSUME QualityInv, NEW p \in Goods, NEW who, NEW until \in 0 .. MaxLedger,
         AddQualityCertification(p, who, 0, until)
  PROVE  QualityInv'
<1>1. QualityTypeOK
  BY DEF QualityInv
<1>2. UNCHANGED <<readings, stats, ledger>>
  BY DEF AddQualityCertification
<1>3. PICK c \in Certificate : certificates' = [certificates EXCEPT ![p] = Append(@, c)]
  <2>1. MaxLedger \in Nat
    BY QualityAssumption
  <2>2. [from |-> 0, until |-> until] \in Certificate
    BY <2>1 DEF Certificate
  <2>. QED BY <2>2 DEF AddQualityCertification
<1>4. certificates' \in [Goods -> Seq(Certificate)]
  <2>1. certificates \in [Goods -> Seq(Certificate)]
    BY <1>1 DEF QualityTypeOK
  <2> HIDE DEF Certificate
  <2>. QED BY <1>3, <2>1
<1>5. ledger' \in 0 .. MaxLedger
  BY <1>1, <1>2 DEF QualityTypeOK
<1>. QED BY <1>2, <1>4, <1>5, FiguresStand

LEMMA ReadingKeeps ==
  ASSUME QualityInv, NEW p \in Goods, NEW who \in QcAccount, NEW param \in Parameter,
         NEW value \in ReadingValues, NEW band \in Bands,
         RecordQualityReading(p, who, param, value, band[1], band[2])
  PROVE  QualityInv'
<1>1. QualityTypeOK
  BY DEF QualityInv
<1>2. UNCHANGED <<certificates, ledger>> /\ Len(readings[p]) < MaxReadings
  BY DEF RecordQualityReading
<1>3. PICK e \in Reading : /\ readings' = [readings EXCEPT ![p] = Append(@, e)]
                           /\ e.parameter = param /\ e.value = value
  <2>1. PICK status \in {"critical", "warning", "normal"} : status = ReadingStatus(value, band[1], band[2])
    BY Zenon DEF ReadingStatus
  <2>2. PICK e : e = [sensor |-> who, parameter |-> param, value |-> value, time |-> ledger,
                      low |-> band[1], high |-> band[2], status |-> status]
    OBVIOUS
  <2>3. value \in Int /\ ledger \in 0 .. MaxLedger
    BY <1>1, QualityAssumption DEF QualityTypeOK
  <2>4. band[1] \in {b[1] : b \in Bands} /\ band[2] \in {b[2] : b \in Bands}
    OBVIOUS
  <2>5. e \in Reading
    BY <2>2, <2>3, <2>4 DEF Reading
  <2>6. readings' = [readings EXCEPT ![p] = Append(@, e)]
    BY <2>1, <2>2 DEF RecordQualityReading
  <2>. QED BY <2>2, <2>5, <2>6
<1>4. PICK s \in Seq(Reading) : s = readings[p]
  BY <1>1 DEF QualityTypeOK
<1>5. PICK f \in Figures : f = stats[p][param]
  BY <1>1 DEF QualityTypeOK
<1>6. PICK u : u = UpdatedStats(f, value)
  OBVIOUS
<1>7. stats' = [stats EXCEPT ![p][param] = u]
  BY <1>5, <1>6 DEF RecordQualityReading
<1>8. FiguresOf(s, param, f)
  BY <1>4, <1>5 DEF QualityInv
<1>9. Append(s, e) \in Seq(Reading) /\ Longer(s, Append(s, e), e)
  BY OneReadingMore
<1>10. /\ Append(s, e) \in Seq(Reading) /\ Len(Append(s, e)) = Len(s) + 1 /\ Len(s) \in Nat
       /\ u \in Figures /\ FiguresOf(Append(s, e), param, u)
  BY <1>3, <1>6, <1>8, <1>9, FiguresTaken DEF Longer
<1>11. readings' = [readings EXCEPT ![p] = Append(s, e)]
  BY <1>3, <1>4
<1>12. /\ readings \in [Goods -> Seq(Reading)] /\ stats \in [Goods -> [Parameter -> Figures]]
       /\ \A q \in Goods : Len(readings[q]) <= MaxReadings
  BY <1>1 DEF QualityTypeOK
<1> HIDE DEF Reading, Figures
<1>13. /\ readings' \in [Goods -> Seq(Reading)]
       /\ \A q \in Goods : readings'[q] = IF q = p THEN Append(s, e) ELSE readings[q]
  BY <1>10, <1>11, <1>12
<1>14. /\ stats' \in [Goods -> [Parameter -> Figures]]
       /\ \A q \in Goods, x \in Parameter :
            stats'[q][x] = IF q = p /\ x = param THEN u ELSE stats[q][x]
  BY <1>7, <1>10, <1>12
<1>15. Len(Append(s, e)) <= MaxReadings
  <2>1. MaxReadings \in Nat
    BY QualityAssumption
  <2>. QED BY <1>2, <1>4, <1>10, <2>1
<1>16. QualityTypeOK'
  BY <1>1, <1>2, <1>12, <1>13, <1>14, <1>15 DEF QualityTypeOK
<1>17. ASSUME NEW q \in Goods, NEW x \in Parameter PROVE FiguresOf(readings'[q], x, stats'[q][x])
  <2>1. FiguresOf(readings[q], x, stats[q][x])
    BY DEF QualityInv
  <2>2. CASE q # p
    BY <1>13, <1>14, <2>1, <2>2
  <2>3. CASE q = p /\ x = param
    BY <1>10, <1>13, <1>14, <2>3
  <2>4. CASE q = p /\ x # param
    <3>1. FiguresOf(Append(s, e), x, stats[p][x])
      BY <1>3, <1>4, <1>9, <2>1, <2>4, FiguresPassed
    <3>. QED BY <1>13, <1>14, <2>4, <3>1
  <2>. QED BY <2>2, <2>3, <2>4
<1>. QED BY <1>16, <1>17 DEF QualityInv

\* Readings, thresholds and figures keep their types, and every figure is that of
\* the readings it was made of (record_quality_reading, update_parameter_stats).
THEOREM QualityInvariant == QualitySpec => []QualityInv
<1>1. QualityInit => QualityInv
  BY QualityBegins
<1>2. QualityInv /\ [QualityNext]_qc_vars => QualityInv'
  <2> SUFFICES ASSUME QualityInv, [QualityNext]_qc_vars PROVE QualityInv'
    OBVIOUS
  <2>1. QualityTypeOK
    BY DEF QualityInv
  <2>2. ledger \in 0 .. MaxLedger /\ certificates \in [Goods -> Seq(Certificate)]
    BY <2>1 DEF QualityTypeOK
  <2>3. CASE CloseLedger
    <3>1. UNCHANGED <<readings, stats, certificates>> /\ ledger' = ledger + 1 /\ ledger < MaxLedger
      BY <2>3 DEF CloseLedger
    <3>2. ledger' \in 0 .. MaxLedger
      BY <2>2, <3>1, QualityAssumption
    <3>. QED BY <2>2, <3>1, <3>2, FiguresStand
  <2>4. CASE UNCHANGED qc_vars
    <3>1. UNCHANGED <<readings, stats, certificates, ledger>>
      BY <2>4 DEF qc_vars
    <3>. QED BY <2>2, <3>1, FiguresStand
  <2>5. ASSUME NEW p \in Goods, NEW who \in QcAccount,
               \/ InitQualityControl(p, who) \/ StoreProduct(p, who)
               \/ \E ps \in SUBSET Parameter : DefineQualityParameters(p, who, ps)
               \/ \E sensor \in QcAccount : AuthorizeSensor(p, who, sensor) \/ RevokeSensor(p, who, sensor)
        PROVE  QualityInv'
    <3>1. UNCHANGED <<readings, stats, certificates, ledger>>
      BY <2>5 DEF InitQualityControl, StoreProduct, DefineQualityParameters, AuthorizeSensor, RevokeSensor
    <3>. QED BY <2>2, <3>1, FiguresStand
  <2>6. ASSUME NEW p \in Goods, NEW who \in QcAccount, NEW until \in 0 .. MaxLedger,
               AddQualityCertification(p, who, 0, until)
        PROVE  QualityInv'
    BY <2>6, CertificationKeeps
  <2>7. ASSUME NEW p \in Goods, NEW who \in QcAccount, NEW param \in Parameter,
               NEW value \in ReadingValues, NEW band \in Bands,
               RecordQualityReading(p, who, param, value, band[1], band[2])
        PROVE  QualityInv'
    BY <2>7, ReadingKeeps
  <2>. QED BY <2>3, <2>4, <2>5, <2>6, <2>7 DEF QualityNext
<1>. QED BY <1>1, <1>2, PTL DEF QualitySpec

\* The sum as the property has it is the one the figures keep.
LEMMA MappedSum ==
  ASSUME NEW p, NEW I, NEW f, NEW g, SumsOf(g, f, I), \A n \in I : f[n] = readings[p][n].value,
         NEW U \in SUBSET I
  PROVE  Total(p, U) = g[U]
<1>1. IsFiniteSet(I) /\ \A n \in I : f[n] \in Int
  BY DEF SumsOf
<1> DEFINE Is(k) == k = [s \in SUBSET U |-> IF s = {} THEN 0
                           ELSE readings[p][CHOOSE y \in s : TRUE].value
                                  + k[s \ {CHOOSE y \in s : TRUE}]]
           k == CHOOSE k : Is(k)
<1>2. ASSUME NEW j PROVE Adds(j, f, U) <=> Is(j)
  <2>1. \A s \in SUBSET U : s # {} => (CHOOSE x \in s : TRUE) \in U
    OBVIOUS
  <2>2. [s \in SUBSET U |-> IF s = {} THEN 0
                            ELSE readings[p][CHOOSE x \in s : TRUE].value
                                   + j[s \ {CHOOSE x \in s : TRUE}]]
        = [s \in SUBSET U |-> IF s = {} THEN 0
                              ELSE f[CHOOSE x \in s : TRUE] + j[s \ {CHOOSE x \in s : TRUE}]]
    BY <2>1
  <2>. QED BY <2>2, Zenon DEF Adds
<1>3. \E j : Is(j)
  <2>1. IsFiniteSet(U) /\ \A n \in U : f[n] \in Int
    BY <1>1, FS_Subset
  <2> HIDE DEF Is
  <2>2. \E j : SumsOf(j, f, U)
    BY <2>1, SumsExist
  <2>. QED BY <1>2, <2>2 DEF SumsOf
<1>4. Adds(k, f, U)
  <2> HIDE DEF Is
  <2>. QED BY <1>2, <1>3
<1>5. Total(p, U) = k[U]
  BY DEF Total, MapThenSumSet, MapThenFoldSet
<1> HIDE DEF Is, k
<1>6. U \in SUBSET U
  OBVIOUS
<1>7. k[U] = g[U]
  <2>1. PICK sums : sums = k
    OBVIOUS
  <2>2. Adds(sums, f, U)
    BY <1>4, <2>1
  <2>3. sums[U] = g[U]
    BY <1>6, <2>2, SameSums
  <2>. QED BY <2>1, <2>3
<1>. QED BY <1>5, <1>7

LEMMA MeanIsTrue ==
  ASSUME QualityInv, NEW p \in Goods, NEW x \in Parameter, MineIn(readings[p], x) # {}
  PROVE  stats[p][x].avg = Quotient(Total(p, MineIn(readings[p], x)), stats[p][x].count)
<1>1. PICK s \in Seq(Reading) : s = readings[p]
  BY DEF QualityInv, QualityTypeOK
<1>2. PICK I : I = 1 .. Len(s) /\ IsFiniteSet(I)
  BY FS_Interval
<1>3. PICK f : f = ValueAt(s)
  OBVIOUS
<1>4. \A n \in I : f[n] = readings[p][n].value /\ f[n] \in Int
  <2>1. \A n \in I : s[n] \in Reading
    BY <1>2
  <2>. QED BY <1>1, <1>2, <1>3, <2>1 DEF Reading, ValueAt
<1>5. PICK g : SumsOf(g, f, I)
  BY <1>2, <1>4, SumsExist
<1>6. PICK M : M = MineIn(readings[p], x)
  OBVIOUS
<1>7. M \in SUBSET I
  BY <1>1, <1>2, <1>6 DEF MineIn
<1>8. Total(p, M) = g[M]
  BY <1>4, <1>5, <1>7, MappedSum
<1>9. FiguresOf(s, x, stats[p][x])
  BY <1>1 DEF QualityInv
<1>10. stats[p][x].sum = g[M] /\ stats[p][x].avg = Quotient(stats[p][x].sum, stats[p][x].count)
  BY <1>1, <1>2, <1>3, <1>5, <1>6, <1>9 DEF FiguresOf
<1>. QED BY <1>6, <1>8, <1>10

LEMMA ReadingsCounted ==
  ASSUME QualityInv, NEW p \in Goods, NEW x \in Parameter
  PROVE  Len(GetQualityReadings(p, x, 0, MaxLedger, MaxReadings)) = stats[p][x].count
<1>1. PICK s \in Seq(Reading) : s = readings[p]
  BY DEF QualityInv, QualityTypeOK
<1>2. PICK T : T = {r \in Range(s) : r.parameter = x /\ r.time >= 0 /\ r.time <= MaxLedger}
  OBVIOUS
<1>3. PICK k : k = Kept(s, T)
  OBVIOUS
<1>4. \A n \in 1 .. Len(s) : s[n] \in T <=> s[n].parameter = x
  <2>1. \A n \in 1 .. Len(s) : s[n] \in Reading /\ s[n] \in Range(s)
    BY DEF Range
  <2>2. \A r \in Reading : r.time >= 0 /\ r.time <= MaxLedger
    BY QualityAssumption DEF Reading
  <2>. QED BY <1>2, <2>1, <2>2
<1>5. {n \in 1 .. Len(s) : s[n] \in T} = MineIn(s, x)
  BY <1>4 DEF MineIn
<1>6. Len(k) = Cardinality(MineIn(s, x))
  BY <1>3, <1>5, KeptCount
<1>7. stats[p][x].count = Cardinality(MineIn(s, x))
  BY <1>1 DEF QualityInv, FiguresOf
<1>8. k \in Seq(Reading) /\ Len(k) \in Nat /\ Len(k) <= Len(s) /\ Len(s) \in Nat
  BY <1>3, KeptType, KeptOfWhole
<1>9. Len(s) <= MaxReadings /\ MaxReadings \in Nat
  BY <1>1, QualityAssumption DEF QualityInv, QualityTypeOK
<1>10. PICK wanted \in Nat : wanted = (IF MaxReadings = 0 THEN 1 ELSE MaxReadings)
  BY <1>9
<1>11. GetQualityReadings(p, x, 0, MaxLedger, MaxReadings) = SubSeq(k, 1, IF wanted < Len(k) THEN wanted ELSE Len(k))
  BY <1>1, <1>2, <1>3, <1>10, Zenon DEF GetQualityReadings
<1>12. ~ (wanted < Len(k))
  BY <1>8, <1>9, <1>10
<1>13. GetQualityReadings(p, x, 0, MaxLedger, MaxReadings) = SubSeq(k, 1, Len(k))
  BY <1>11, <1>12
<1>14. Len(SubSeq(k, 1, Len(k))) = Len(k)
  <2> HIDE DEF Reading
  <2>. QED BY <1>8
<1>. QED BY <1>6, <1>7, <1>13, <1>14

LEMMA FiguresAreTrue ==
  ASSUME QualityInv
  PROVE  FiguresFollowReadings
<1> SUFFICES ASSUME NEW p \in Goods, NEW x \in Parameter
             PROVE  LET mine   == {n \in 1 .. Len(readings[p]) : readings[p][n].parameter = x}
                        values == {readings[p][n].value : n \in mine}
                        s      == stats[p][x]
                    IN  /\ s.count = Cardinality(mine)
                        /\ mine # {} => /\ s.min = Min(values) /\ s.max = Max(values)
                                        /\ s.avg = Quotient(Total(p, mine), s.count)
                                        /\ s.min <= s.avg /\ s.avg <= s.max
                        /\ Len(GetQualityReadings(p, x, 0, MaxLedger, MaxReadings)) = s.count
                        /\ Len(GetQualityCertifications(p)) <= GetQualitySummary(p).certifications
  BY DEF FiguresFollowReadings
<1> DEFINE mine == {n \in 1 .. Len(readings[p]) : readings[p][n].parameter = x}
           values == {readings[p][n].value : n \in mine}
           s == stats[p][x]
<1>1. mine = MineIn(readings[p], x)
  BY DEF MineIn
<1>2. FiguresOf(readings[p], x, s)
  BY DEF QualityInv
<1>3. s.count = Cardinality(mine)
  BY <1>1, <1>2 DEF FiguresOf
<1>4. ASSUME mine # {}
      PROVE  /\ s.min = Min(values) /\ s.max = Max(values)
             /\ s.avg = Quotient(Total(p, mine), s.count)
             /\ s.min <= s.avg /\ s.avg <= s.max
  <2>1. s \in Figures
    BY DEF QualityInv, QualityTypeOK
  <2>2. s.min \in Int /\ s.max \in Int /\ s.sum \in Int /\ s.count \in Nat
    BY <2>1 DEF Figures
  <2>3. /\ \E n \in mine : readings[p][n].value = s.min
        /\ \E n \in mine : readings[p][n].value = s.max
        /\ \A n \in mine : s.min <= readings[p][n].value /\ readings[p][n].value <= s.max
        /\ s.min * s.count <= s.sum /\ s.sum <= s.max * s.count
        /\ s.avg = Quotient(s.sum, s.count)
    BY <1>1, <1>2, <1>4 DEF FiguresOf
  <2>4. \A n \in mine : readings[p][n].value \in Int
    <3>1. readings[p] \in Seq(Reading)
      BY DEF QualityInv, QualityTypeOK
    <3>2. \A n \in mine : readings[p][n] \in Reading
      BY <3>1
    <3>. QED BY <3>2 DEF Reading
  <2>5. s.min \in values /\ s.max \in values /\ \A v \in values : v \in Int /\ s.min <= v /\ v <= s.max
    BY <2>3, <2>4
  <2>6. s.min = Min(values) /\ s.max = Max(values)
    <3> HIDE DEF values, s
    <3>1. Min(values) \in values /\ \A v \in values : Min(values) <= v
      BY <2>5 DEF Min
    <3>2. Max(values) \in values /\ \A v \in values : v <= Max(values)
      BY <2>5 DEF Max
    <3>. QED BY <2>2, <2>5, <3>1, <3>2
  <2>7. s.avg = Quotient(Total(p, mine), s.count)
    BY <1>1, <1>4, MeanIsTrue
  <2>8. s.count \in Nat \ {0}
    <3>1. IsFiniteSet(mine)
      <4>1. Len(readings[p]) \in Nat /\ mine \subseteq 1 .. Len(readings[p])
        BY DEF QualityInv, QualityTypeOK
      <4>2. IsFiniteSet(1 .. Len(readings[p]))
        BY <4>1, FS_Interval
      <4>. QED BY <4>1, <4>2, FS_Subset
    <3>. QED BY <1>3, <1>4, <2>2, <3>1, FS_EmptySet
  <2>9. s.min <= s.avg /\ s.avg <= s.max
    <3> HIDE DEF s
    <3>. QED BY <2>2, <2>3, <2>8, QuotientBetween
  <2>. QED BY <2>6, <2>7, <2>9
<1>5. Len(GetQualityReadings(p, x, 0, MaxLedger, MaxReadings)) = s.count
  BY ReadingsCounted
<1>6. Len(GetQualityCertifications(p)) <= GetQualitySummary(p).certifications
  <2>1. PICK c \in Seq(Certificate) : c = certificates[p]
    BY DEF QualityInv, QualityTypeOK
  <2>2. PICK T : GetQualityCertifications(p) = Kept(c, T)
    BY <2>1 DEF GetQualityCertifications
  <2>3. Len(Kept(c, T)) <= Len(c)
    BY KeptOfWhole
  <2>4. GetQualitySummary(p).certifications = Len(c)
    BY <2>1 DEF GetQualitySummary
  <2>. QED BY <2>2, <2>3, <2>4
<1>. QED BY <1>3, <1>4, <1>5, <1>6

\* Figures follow readings: for any number of products, parameters and readings,
\* also below zero, what the statistics and the queries say is what the stored
\* readings say (get_parameter_stats, get_quality_readings, get_quality_summary).
THEOREM FiguresFollow == QualitySpec => []FiguresFollowReadings
<1>1. QualityInv => FiguresFollowReadings
  BY FiguresAreTrue
<1>. QED BY <1>1, QualityInvariant, PTL

==============================================================================
