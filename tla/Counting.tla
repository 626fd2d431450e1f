------------------------------ MODULE Counting ------------------------------
(***************************************************************************)
(* Facts about finite sets of numbers that the proofs of several           *)
(* components rest on: least members, and how many members the first n of  *)
(* a set are.                                                              *)
(***************************************************************************)
EXTENDS Integers, FiniteSetTheorems, WellFoundedInduction, TLAPS

\* The members of S below q.
Below(S, q) == {p \in S : p < q}

\* The members of S that fewer than n others precede.
Leading(S, n) == {q \in S : Cardinality(Below(S, q)) < n}

-----------------------------------------------------------------------------
\* A nonempty set of naturals has a least member.  (The well-founded order is
\* that of the initial intervals.)
LEMMA LeastMember ==
    ASSUME NEW S \in SUBSET Nat, S # {}
    PROVE  \E e \in S : \A f \in S : e <= f
<1> DEFINE R == StrictSubsetOrdering(Nat)
           T == {0..e : e \in S}
<1>1. T \subseteq FiniteSubsetsOf(Nat) /\ T # {}
  <2>1. \A e \in S : IsFiniteSet(0..e) /\ 0..e \subseteq Nat
      BY FS_Interval
  <2> QED BY <2>1 DEF FiniteSubsetsOf
<1>2. PICK X \in T : \A Y \in T : ~(<<Y, X>> \in R)
  <2>1. IsWellFoundedOn(R, FiniteSubsetsOf(Nat))
      BY FS_StrictSubsetOrderingWellFounded
  <2> HIDE DEF R, T
  <2> QED BY <1>1, <2>1, WFMin
<1>3. PICK e \in S : X = 0..e
    OBVIOUS
<1>4. ASSUME NEW f \in S, f < e
      PROVE  FALSE
  <2>1. 0..f \subseteq 0..e /\ 0..f # 0..e /\ 0..f \subseteq Nat /\ 0..e \subseteq Nat
      BY <1>4
  <2>2. <<0..f, 0..e>> \in R
      BY <2>1 DEF StrictSubsetOrdering
  <2>3. 0..f \in T
      OBVIOUS
  <2> HIDE DEF R, T
  <2> QED BY <1>2, <1>3, <2>2, <2>3
<1> QED BY <1>4

\* Fewer members precede the smaller of two.
LEMMA BelowGrows ==
    ASSUME NEW S \in SUBSET Nat, IsFiniteSet(S), NEW p \in S, NEW q \in S, p < q
    PROVE  Cardinality(Below(S, p)) < Cardinality(Below(S, q))
<1>1. /\ Below(S, p) \subseteq Below(S, q)
      /\ p \in Below(S, q) /\ p \notin Below(S, p)
  <2>1. \A r \in S : r < p => r < q
      OBVIOUS
  <2>2. ~(p < p)
      OBVIOUS
  <2> QED BY <2>1, <2>2 DEF Below
<1>2. Below(S, p) \in SUBSET S /\ Below(S, q) \in SUBSET S
    BY DEF Below
<1>3. IsFiniteSet(Below(S, p)) /\ IsFiniteSet(Below(S, q))
    BY <1>2, FS_Subset
<1>4. Below(S, p) # Below(S, q)
    BY <1>1
<1>5. /\ Cardinality(Below(S, p)) <= Cardinality(Below(S, q))
      /\ Cardinality(Below(S, p)) # Cardinality(Below(S, q))
    BY <1>1, <1>3, <1>4, FS_Subset
<1> QED BY <1>3, <1>5, FS_CardinalityType

\* The first n members are at most n, ...
LEMMA LeadingBounded ==
    ASSUME NEW S \in SUBSET Nat, IsFiniteSet(S), NEW n \in Nat
    PROVE  /\ IsFiniteSet(Leading(S, n))
           /\ Cardinality(Leading(S, n)) \in Nat
           /\ Cardinality(Leading(S, n)) <= n
<1> DEFINE rank == [q \in Leading(S, n) |-> Cardinality(Below(S, q))]
<1>1. IsFiniteSet(0..(n - 1)) /\ Cardinality(0..(n - 1)) = n
    BY FS_Interval
<1>2. ASSUME NEW q \in S
      PROVE  Cardinality(Below(S, q)) \in Nat
  <2>1. Below(S, q) \in SUBSET S
      BY DEF Below
  <2> QED BY <2>1, FS_Subset, FS_CardinalityType
<1>3. rank \in [Leading(S, n) -> 0..(n - 1)]
  <2>1. ASSUME NEW q \in Leading(S, n)
        PROVE  Cardinality(Below(S, q)) \in 0..(n - 1)
    <3>1. q \in S /\ Cardinality(Below(S, q)) < n
        BY DEF Leading
    <3>2. Cardinality(Below(S, q)) \in Nat
        BY <1>2, <3>1
    <3> QED BY <3>1, <3>2
  <2> QED BY <2>1
<1>4. ASSUME NEW p \in Leading(S, n), NEW q \in Leading(S, n), rank[p] = rank[q]
      PROVE  p = q
  <2>1. p \in S /\ q \in S /\ Cardinality(Below(S, p)) = Cardinality(Below(S, q))
      BY <1>4 DEF Leading
  <2>2. Cardinality(Below(S, p)) \in Nat /\ Cardinality(Below(S, q)) \in Nat
      BY <1>2, <2>1
  <2>3. ~(p < q)
      BY <2>1, <2>2, BelowGrows
  <2>4. ~(q < p)
      BY <2>1, <2>2, BelowGrows
  <2> QED BY <2>1, <2>3, <2>4
<1>5. rank \in Injection(Leading(S, n), 0..(n - 1))
    BY <1>3, <1>4 DEF Injection, IsInjective
<1> HIDE DEF rank
<1>6. IsFiniteSet(Leading(S, n)) /\ Cardinality(Leading(S, n)) <= n
    BY <1>1, <1>5, FS_Injection
<1> QED BY <1>6, FS_CardinalityType

\* ... and exactly n unless they are all.
LEMMA LeadingFull ==
    ASSUME NEW S \in SUBSET Nat, IsFiniteSet(S), NEW n \in Nat, Leading(S, n) # S
    PROVE  Cardinality(Leading(S, n)) = n
<1> DEFINE rest == S \ Leading(S, n)
<1>1. rest \in SUBSET Nat /\ rest # {}
    BY DEF Leading
<1>2. PICK e \in rest : \A f \in rest : e <= f
    BY <1>1, LeastMember
<1>3. Below(S, e) \in SUBSET Leading(S, n)
  <2>1. ASSUME NEW f \in S, f < e, f \notin Leading(S, n)
        PROVE  FALSE
    <3>1. e <= f /\ e \in Nat /\ f \in Nat
        BY <1>1, <1>2, <2>1
    <3> QED BY <2>1, <3>1
  <2> QED BY <2>1 DEF Below
<1>4. Cardinality(Below(S, e)) <= Cardinality(Leading(S, n))
    BY <1>3, LeadingBounded, FS_Subset
<1>5. ~(Cardinality(Below(S, e)) < n)
    BY <1>2 DEF Leading
<1>6. Cardinality(Below(S, e)) \in Nat
  <2>1. IsFiniteSet(Leading(S, n))
      BY LeadingBounded
  <2>2. IsFiniteSet(Below(S, e))
      BY <1>3, <2>1, FS_Subset
  <2> QED BY <2>2, FS_CardinalityType
<1>7. Cardinality(Leading(S, n)) \in Nat /\ Cardinality(Leading(S, n)) <= n
    BY LeadingBounded
<1> QED BY <1>4, <1>5, <1>6, <1>7

\* A bound below zero takes nothing.
LEMMA LeadingNone ==
    ASSUME NEW S \in SUBSET Nat, IsFiniteSet(S), NEW n \in Int, n <= 0
    PROVE  Leading(S, n) = {}
<1>1. ASSUME NEW q \in S
      PROVE  ~(Cardinality(Below(S, q)) < n)
  <2>1. Below(S, q) \in SUBSET S
      BY DEF Below
  <2>2. Cardinality(Below(S, q)) \in Nat
      BY <2>1, FS_Subset, FS_CardinalityType
  <2> QED BY <2>2
<1> QED BY <1>1 DEF Leading
=============================================================================
