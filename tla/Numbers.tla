------------------------------ MODULE Numbers -------------------------------
(***************************************************************************)
(* Lemmas about sets of numbers that the proofs of several components      *)
(* need.  The first stands in for induction: it comes from the             *)
(* well-foundedness of the strict subset ordering of the finite sets.      *)
(***************************************************************************)
EXTENDS Naturals, FiniteSets, FiniteSetTheorems, WellFoundedInduction, TLAPS

(* Every non-empty set of natural numbers has a least member.              *)
LEMMA LeastNumber ==
    ASSUME NEW S, S \subseteq Nat, S # {}
    PROVE \E m \in S : \A k \in S : m <= k
<1> DEFINE Upto == {0..m : m \in S}
<1>1. Upto # {} /\ Upto \subseteq FiniteSubsetsOf(Nat)
  <2>1. \A m \in S : IsFiniteSet(0..m) /\ 0..m \subseteq Nat
    BY FS_Interval
  <2>2. QED
    BY <2>1 DEF FiniteSubsetsOf
<1>2. IsWellFoundedOn(StrictSubsetOrdering(Nat), FiniteSubsetsOf(Nat))
  BY FS_StrictSubsetOrderingWellFounded
<1>3. PICK x \in Upto : \A y \in Upto : ~ (<<y, x>> \in StrictSubsetOrdering(Nat))
  <2> HIDE DEF Upto
  <2> QED BY <1>1, <1>2, WFMin
<1>4. PICK m \in S : x = 0..m
  BY <1>3
<1>5. ASSUME NEW k \in S, k < m
      PROVE  FALSE
  <2>1. 0..k \subseteq 0..m /\ 0..k # 0..m /\ 0..k \in SUBSET Nat /\ 0..m \in SUBSET Nat
    BY <1>5
  <2>2. <<0..k, 0..m>> \in StrictSubsetOrdering(Nat)
    BY <2>1 DEF StrictSubsetOrdering
  <2>3. QED
    BY <1>3, <1>4, <2>2
<1>6. QED
  BY <1>5

(* Of two members of a finite set of numbers the greater has the higher rank. *)
LEMMA RanksDiffer ==
    ASSUME NEW S, S \subseteq Nat, IsFiniteSet(S)
    PROVE  \A i, k \in S :
               i < k => Cardinality({j \in S : j <= i}) # Cardinality({j \in S : j <= k})
<1> SUFFICES ASSUME NEW i \in S, NEW k \in S, i < k
             PROVE  Cardinality({j \in S : j <= i}) # Cardinality({j \in S : j <= k})
  OBVIOUS
<1> DEFINE A == {j \in S : j <= i}
           B == {j \in S : j <= k}
<1>1. i \in Nat /\ k \in Nat /\ i < k /\ \A j \in S : j \in Nat
  OBVIOUS
<1>2. A \in SUBSET B /\ k \in B /\ k \notin A /\ B \in SUBSET S
  <2>1. \A j \in S : j <= i => j <= k
    BY <1>1
  <2>2. ~ (k <= i) /\ k <= k
    BY <1>1
  <2>3. QED
    BY <2>1, <2>2, Zenon
<1> HIDE DEF A, B
<1>3. IsFiniteSet(B)
  BY <1>2, FS_Subset
<1>4. Cardinality(B) # Cardinality(A)
  BY <1>2, <1>3, FS_Subset
<1>5. QED
  BY <1>4 DEF A, B

(* The n-th of a finite set of numbers: the ranks of its members are the numbers up to its size. *)
LEMMA Ranked ==
    ASSUME NEW S, S \subseteq Nat, IsFiniteSet(S), NEW n \in 1..Cardinality(S)
    PROVE  \E i \in S : Cardinality({j \in S : j <= i}) = n
<1> DEFINE rank == [i \in S |-> Cardinality({j \in S : j <= i})]
<1>0. Cardinality(S) \in Nat /\ IsFiniteSet(1..Cardinality(S)) /\ Cardinality(1..Cardinality(S)) = Cardinality(S)
  BY FS_CardinalityType, FS_Interval
<1>1. \A i \in S : rank[i] \in 1..Cardinality(S)
  <2> TAKE i \in S
  <2>1. {j \in S : j <= i} \in SUBSET S /\ i \in {j \in S : j <= i}
    OBVIOUS
  <2>2. /\ IsFiniteSet({j \in S : j <= i})
        /\ Cardinality({j \in S : j <= i}) <= Cardinality(S)
        /\ Cardinality({j \in S : j <= i}) \in Nat
    BY <2>1, FS_Subset, FS_CardinalityType
  <2>3. Cardinality({j \in S : j <= i}) # 0
    BY <2>1, <2>2, FS_EmptySet
  <2>4. QED
    BY <1>0, <2>2, <2>3
<1>2. \A i, k \in S : i < k => rank[i] # rank[k]
  BY RanksDiffer
<1>3. rank \in Injection(S, 1..Cardinality(S))
  <2>1. rank \in [S -> 1..Cardinality(S)]
    BY <1>1
  <2>2. \A a, b \in S : rank[a] = rank[b] => a = b
    BY <1>2
  <2>3. QED
    <3> HIDE DEF rank
    <3> QED BY <2>1, <2>2 DEF Injection, IsInjective
<1>4. rank \in Surjection(S, 1..Cardinality(S))
  <2> HIDE DEF rank
  <2> QED BY <1>0, <1>3, FS_Injection
<1>5. \E i \in S : rank[i] = n
  <2> HIDE DEF rank
  <2> QED BY <1>4 DEF Surjection
<1>6. QED
  BY <1>5
(* A finite one has a greatest member, too: the one with the fewest above. *)
LEMMA GreatestNumber ==
    ASSUME NEW S, S \subseteq Nat, S # {}, IsFiniteSet(S)
    PROVE  \E m \in S : \A k \in S : k <= m
<1> DEFINE Above(m) == {k \in S : k > m}
           counts == {Cardinality(Above(m)) : m \in S}
<1>1. \A m \in S : Above(m) \in SUBSET S /\ IsFiniteSet(Above(m)) /\ Cardinality(Above(m)) \in Nat
  BY FS_Subset, FS_CardinalityType
<1>2. counts # {} /\ counts \subseteq Nat
  <2> HIDE DEF Above
  <2> QED BY <1>1
<1>3. PICK n \in counts : \A k \in counts : n <= k
  <2> HIDE DEF counts
  <2> QED BY <1>2, LeastNumber
<1>4. PICK m \in S : n = Cardinality(Above(m))
  BY <1>3
<1>5. ASSUME NEW k \in S, ~(k <= m)
      PROVE  FALSE
  <2>1. k \in Nat /\ m \in Nat /\ k > m /\ \A j \in S : j \in Nat
    BY <1>5
  <2>2. Above(k) \in SUBSET Above(m) /\ k \in Above(m) /\ k \notin Above(k)
    <3>1. \A j \in S : j > k => j > m
      BY <2>1
    <3>2. ~(k > k)
      BY <2>1
    <3>3. QED
      BY <1>5, <2>1, <3>1, <3>2, Zenon
  <2> HIDE DEF Above
  <2>3. Cardinality(Above(k)) < Cardinality(Above(m))
    <3>1. Above(k) # Above(m)
      BY <2>2
    <3>2. Cardinality(Above(k)) <= Cardinality(Above(m)) /\ Cardinality(Above(k)) # Cardinality(Above(m))
      BY <1>1, <2>2, <3>1, FS_Subset
    <3>3. QED
      BY <1>1, <3>2
  <2>4. n <= Cardinality(Above(k))
    BY <1>3
  <2>5. QED
    BY <1>1, <1>4, <2>3, <2>4
<1>6. QED
  BY <1>5
=============================================================================
