---------------------------- MODULE OrderLemmas ----------------------------
(***************************************************************************)
(* Facts about the natural numbers that proofs of several modules rest on. *)
(* Those about their order are stated of sets: a proof by induction        *)
(* applies them to the set of the numbers for which its claim holds, or    *)
(* fails.                                                                  *)
(***************************************************************************)
EXTENDS Naturals, FiniteSets, Functions, FiniteSetTheorems, WellFoundedInduction, TLAPS

\* A set of numbers that is not empty has a least element: strict inclusion is
\* well-founded on the finite sets 0..x.
LEMMA Least ==
    ASSUME NEW T, T \subseteq Nat, T # {}
    PROVE \E x \in T : \A y \in T : x <= y
<1>. DEFINE Segments == {0..x : x \in T}
<1>1. Segments \subseteq FiniteSubsetsOf(Nat)
  <2>1. \A x \in T : IsFiniteSet(0..x)
    BY FS_Interval
  <2>. QED
    BY <2>1 DEF FiniteSubsetsOf
<1>2. \E X \in Segments : \A Y \in Segments : ~(<<Y, X>> \in StrictSubsetOrdering(Nat))
  <2>1. IsWellFoundedOn(StrictSubsetOrdering(Nat), FiniteSubsetsOf(Nat))
    BY FS_StrictSubsetOrderingWellFounded
  <2>2. Segments # {}
    OBVIOUS
  <2>. HIDE DEF Segments
  <2>. QED
    BY <2>1, <2>2, <1>1, WFMin
<1>3. PICK x \in T : \A y \in T : ~(<<0..y, 0..x>> \in StrictSubsetOrdering(Nat))
  BY <1>2
<1>4. ASSUME NEW y \in T, y < x PROVE FALSE
  <2>1. x \in 0..x /\ x \notin 0..y /\ 0..y \subseteq 0..x
    BY <1>4
  <2>2. (0..y) # (0..x)
    BY <2>1
  <2>3. <<0..y, 0..x>> \in (SUBSET Nat) \X (SUBSET Nat)
    OBVIOUS
  <2>. QED
    BY <2>1, <2>2, <2>3, <1>3 DEF StrictSubsetOrdering
<1>. QED
  BY <1>4

\* A set that holds 0 and the successor of each of its numbers holds them all.
LEMMA EveryNumber ==
    ASSUME NEW S, 0 \in S, \A n \in Nat : n \in S => n + 1 \in S
    PROVE Nat \subseteq S
<1>1. SUFFICES ASSUME Nat \ S # {} PROVE FALSE
  OBVIOUS
<1>2. PICK x \in Nat \ S : \A y \in Nat \ S : x <= y
  BY <1>1, Least
<1>3. x - 1 \in Nat /\ x - 1 \in S
  BY <1>2
<1>. QED
  BY <1>2, <1>3

\* The same up to a bound.
LEMMA UpTo ==
    ASSUME NEW S, NEW m \in Nat, 0 \in S, \A n \in 0..m : n < m /\ n \in S => n + 1 \in S
    PROVE 0..m \subseteq S
<1>. DEFINE R == S \cup {n \in Nat : n > m}
<1>1. 0 \in R /\ \A n \in Nat : n \in R => n + 1 \in R
  OBVIOUS
<1>2. Nat \subseteq R
  <2>. HIDE DEF R
  <2>. QED
    BY <1>1, EveryNumber
<1>. QED
  BY <1>2

\* A set of numbers with a bound that is not empty has a greatest element.
LEMMA Greatest ==
    ASSUME NEW T, T \subseteq Nat, T # {}, NEW n \in Nat, \A y \in T : y <= n
    PROVE \E x \in T : \A y \in T : y <= x
<1>. DEFINE Bounds == {k \in Nat : \A y \in T : y <= k}
<1>1. PICK k \in Bounds : \A j \in Bounds : k <= j
  <2>1. Bounds # {} /\ Bounds \subseteq Nat
    OBVIOUS
  <2>. HIDE DEF Bounds
  <2>. QED
    BY <2>1, Least
<1>2. k \in T
  <2>1. SUFFICES ASSUME k \notin T PROVE FALSE
    OBVIOUS
  <2>2. \A y \in T : y <= k - 1
    BY <2>1, <1>1
  <2>3. PICK y \in T : y \in Nat /\ y <= k - 1
    BY <2>2
  <2>4. k - 1 \in Nat
    BY <2>3
  <2>. QED
    BY <2>2, <2>4, <1>1
<1>. QED
  BY <1>1, <1>2

\* A finite set of numbers has a bound.
LEMMA FiniteBounded ==
    ASSUME NEW T, T \subseteq Nat, IsFiniteSet(T)
    PROVE \E n \in Nat : \A y \in T : y <= n
<1>. DEFINE Unbounded == {S \in FiniteSubsetsOf(Nat) : ~\E n \in Nat : \A y \in S : y <= n}
<1>1. SUFFICES ASSUME Unbounded # {} PROVE FALSE
  BY DEF FiniteSubsetsOf
<1>2. PICK S \in Unbounded : \A R \in Unbounded : ~(<<R, S>> \in StrictSubsetOrdering(Nat))
  <2>1. IsWellFoundedOn(StrictSubsetOrdering(Nat), FiniteSubsetsOf(Nat))
    BY FS_StrictSubsetOrderingWellFounded
  <2>2. Unbounded \subseteq FiniteSubsetsOf(Nat)
    OBVIOUS
  <2>. HIDE DEF Unbounded
  <2>. QED
    BY <1>1, <2>1, <2>2, WFMin
<1>3. PICK x \in S : x \in Nat
  BY <1>2 DEF FiniteSubsetsOf
<1>4. S \ {x} \in FiniteSubsetsOf(Nat) /\ <<S \ {x}, S>> \in StrictSubsetOrdering(Nat)
  BY <1>2, <1>3, FS_RemoveElement DEF FiniteSubsetsOf, StrictSubsetOrdering
<1>5. PICK n \in Nat : \A y \in S \ {x} : y <= n
  BY <1>2, <1>4
<1>6. CASE x <= n
  BY <1>2, <1>5, <1>6
<1>7. CASE n < x
  <2>1. \A y \in S : y <= x
    BY <1>2, <1>3, <1>5, <1>7 DEF FiniteSubsetsOf
  <2>. QED
    BY <1>2, <1>3, <2>1
<1>. QED
  BY <1>3, <1>6, <1>7

\* The functions that list the numbers of a set in their order.
Listings(T) ==
    {f \in [1..Cardinality(T) -> T] : \A i, j \in 1..Cardinality(T) : i < j => f[i] < f[j]}

\* They list all of the set ...
LEMMA ListingsComplete ==
    ASSUME NEW T, T \subseteq Nat, IsFiniteSet(T), NEW f \in Listings(T)
    PROVE \A x \in T : \E i \in 1..Cardinality(T) : f[i] = x
<1>. DEFINE n == Cardinality(T)
<1>1. n \in Nat
  BY FS_CardinalityType
<1>2. f \in [1..n -> T] /\ \A i, j \in 1..n : i < j => f[i] < f[j]
  BY DEF Listings
<1>3. f \in Injection(1..n, T)
  <2>1. ASSUME NEW i \in 1..n, NEW j \in 1..n, f[i] = f[j] PROVE i = j
    <3>1. f[i] \in Nat /\ f[j] \in Nat
      BY <1>2
    <3>2. ~(i < j) /\ ~(j < i)
      BY <1>2, <2>1, <3>1
    <3>. QED
      BY <1>1, <3>2
  <2>. QED
    BY <1>2, <2>1 DEF Injection, IsInjective
<1>4. Cardinality(1..n) = n
  BY <1>1, FS_Interval
<1>5. f \in Surjection(1..n, T)
  BY <1>3, <1>4, FS_Injection
<1>. QED
  BY <1>5 DEF Surjection

\* ... and every finite set has one.
LEMMA ListingExists ==
    ASSUME NEW T, T \subseteq Nat, IsFiniteSet(T)
    PROVE Listings(T) # {}
<1>. DEFINE Unlisted == {S \in FiniteSubsetsOf(Nat) : Listings(S) = {}}
<1>1. SUFFICES ASSUME Unlisted # {} PROVE FALSE
  BY DEF FiniteSubsetsOf
<1>2. PICK S \in Unlisted : \A R \in Unlisted : ~(<<R, S>> \in StrictSubsetOrdering(Nat))
  <2>1. IsWellFoundedOn(StrictSubsetOrdering(Nat), FiniteSubsetsOf(Nat))
    BY FS_StrictSubsetOrderingWellFounded
  <2>2. Unlisted \subseteq FiniteSubsetsOf(Nat)
    OBVIOUS
  <2>. HIDE DEF Unlisted
  <2>. QED
    BY <1>1, <2>1, <2>2, WFMin
<1>3. S \subseteq Nat /\ IsFiniteSet(S) /\ Listings(S) = {}
  BY <1>2 DEF FiniteSubsetsOf
<1>4. S # {}
  <2>1. SUFFICES ASSUME S = {} PROVE FALSE
    OBVIOUS
  <2>2. Cardinality(S) = 0
    BY <2>1, FS_EmptySet
  <2>3. [i \in 1..0 |-> 0] \in Listings(S)
    BY <2>2 DEF Listings
  <2>. QED
    BY <1>3, <2>3
<1>5. PICK x \in S : \A y \in S : y <= x
  <2>1. PICK n \in Nat : \A y \in S : y <= n
    BY <1>3, FiniteBounded
  <2>. QED
    BY <1>3, <1>4, <2>1, Greatest
<1>. DEFINE R == S \ {x}
            n == Cardinality(R)
<1>6. IsFiniteSet(R) /\ n \in Nat /\ Cardinality(S) = n + 1
  <2>1. Cardinality(S) \in Nat /\ IsFiniteSet(R) /\ n = Cardinality(S) - 1
    BY <1>3, FS_RemoveElement, FS_CardinalityType
  <2>2. n \in Nat
    BY <2>1, FS_CardinalityType
  <2>. QED
    BY <2>1, <2>2
<1>7. Listings(R) # {}
  <2>1. R \in FiniteSubsetsOf(Nat) /\ <<R, S>> \in StrictSubsetOrdering(Nat)
    BY <1>3, <1>6 DEF FiniteSubsetsOf, StrictSubsetOrdering
  <2>. QED
    BY <1>2, <2>1
<1>8. PICK f : f \in [1..n -> R] /\ \A i, j \in 1..n : i < j => f[i] < f[j]
  BY <1>7 DEF Listings
<1>. HIDE DEF R, n
<1>9. R = S \ {x}
  BY DEF R
<1>. DEFINE g == [i \in 1..(n + 1) |-> IF i = n + 1 THEN x ELSE f[i]]
<1>10. g \in [1..(n + 1) -> S]
  BY <1>6, <1>8, <1>9
<1>11. ASSUME NEW i \in 1..(n + 1), NEW j \in 1..(n + 1), i < j PROVE g[i] < g[j]
  <2>1. i \in 1..n /\ g[i] = f[i] /\ f[i] \in R
    BY <1>6, <1>8, <1>11
  <2>2. CASE j = n + 1
    <3>1. f[i] \in Nat /\ x \in Nat /\ f[i] <= x /\ f[i] # x
      BY <1>3, <1>5, <1>9, <2>1
    <3>2. g[j] = x
      BY <2>2
    <3>. QED
      BY <2>1, <3>1, <3>2
  <2>3. CASE j # n + 1
    BY <1>6, <1>8, <1>11, <2>1, <2>3
  <2>. QED
    BY <2>2, <2>3
<1>. QED
  BY <1>3, <1>6, <1>10, <1>11 DEF Listings

-----------------------------------------------------------------------------
\* A multiple of n that is not zero is at least n.
LEMMA AtLeastOnce ==
    ASSUME NEW n \in Nat, NEW d \in Nat, d >= 1
    PROVE n * d >= n
<1>1. PICK e \in Nat : d = e + 1
  BY d - 1 \in Nat, d = (d - 1) + 1
<1>2. n * d = n * e + n
  BY <1>1
<1>3. n * e \in Nat
  OBVIOUS
<1>. QED
  BY <1>2, <1>3

\* Quotient and remainder ...
LEMMA Division ==
    ASSUME NEW a \in Nat, NEW s \in Nat \ {0}
    PROVE /\ a \div s \in Nat /\ a % s \in 0..(s - 1)
          /\ a = s * (a \div s) + (a % s)
OBVIOUS

\* ... are what they are in one way only, ...
LEMMA OneDivision ==
    ASSUME NEW s \in Nat \ {0}, NEW q \in Nat, NEW r \in 0..(s - 1),
           NEW p \in Nat, NEW t \in 0..(s - 1), s * q + r = s * p + t
    PROVE q = p /\ r = t
<1>1. ASSUME NEW x \in Nat, NEW y \in Nat, x < y,
             NEW u \in 0..(s - 1), NEW v \in 0..(s - 1), s * x + u = s * y + v
      PROVE FALSE
  <2>1. s * (y - x) >= s
    BY <1>1, AtLeastOnce, y - x \in Nat, y - x >= 1
  <2>2. s * (y - x) = s * y - s * x
    OBVIOUS
  <2>3. s * x \in Int /\ s * y \in Int
    OBVIOUS
  <2>. QED
    BY <1>1, <2>1, <2>2, <2>3
<1>2. ~(q < p) /\ ~(p < q)
  BY <1>1
<1>3. q = p
  BY <1>2
<1>4. s * q \in Int
  OBVIOUS
<1>. QED
  BY <1>3, <1>4

\* ... so that they can be read off a sum, ...
LEMMA DivisionOfSum ==
    ASSUME NEW s \in Nat \ {0}, NEW q \in Nat, NEW r \in 0..(s - 1)
    PROVE (s * q + r) \div s = q /\ (s * q + r) % s = r
<1>1. s * q \in Nat
  OBVIOUS
<1>. DEFINE a == s * q + r
<1>2. a \in Nat
  BY <1>1
<1>. HIDE DEF a
<1>3. /\ a \div s \in Nat /\ a % s \in 0..(s - 1)
      /\ a = s * (a \div s) + (a % s)
  BY <1>2, Division
<1>. QED
  BY <1>3, OneDivision DEF a

\* ... and what is less than t times s has a quotient below t.
LEMMA QuotientBelow ==
    ASSUME NEW s \in Nat \ {0}, NEW q \in Nat, NEW r \in Nat, NEW t \in Nat, s * q + r < s * t
    PROVE q < t
<1>1. SUFFICES ASSUME q >= t PROVE FALSE
  OBVIOUS
<1>2. q - t \in Nat /\ s * (q - t) \in Nat
  BY <1>1
<1>3. s * (q - t) = s * q - s * t /\ s * q \in Int /\ s * t \in Int
  BY <1>1
<1>. QED
  BY <1>2, <1>3
=============================================================================
