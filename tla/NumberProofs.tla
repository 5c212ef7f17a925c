---------------------------- MODULE NumberProofs ----------------------------
(***************************************************************************)
(* Lemmas about block numbers that the proofs about the engine and the     *)
(* poller share: least and greatest elements, and what becomes of a uint64 *)
(* subtraction that wraps around when it is converted to a score.          *)
(***************************************************************************)
EXTENDS BlockNumbers, FiniteSetsExt, WellFoundedInduction, TLAPS

\* Every block number of a wrapped-around subtraction is, as a score, the number
\* the subtraction was meant to be: sortedset.SCORE undoes the wrap (the two
\* callers of Sub64 clear a tracker up to the score).
LEMMA ScoreOfSub64 ==
    ASSUME NEW a \in Nat, NEW b \in Nat, a < Half, b < Half
    PROVE  Score(Sub64(a, b)) = a - b
BY HalfAssumption DEF Score, Sub64

-----------------------------------------------------------------------------
(* Least and greatest elements *)

\* A non-empty set of block numbers has a least element, and Min finds it.
LEMMA MinOfNaturals ==
    ASSUME NEW S \in SUBSET Nat, S # {}
    PROVE  Min(S) \in S /\ \A n \in S : Min(S) <= n
<1>1. PICK m \in S : \A n \in S : ~(<<n, m>> \in OpToRel(<, Nat))
  BY NatLessThanWellFounded, WFMin
<1>2. ASSUME NEW n \in S, n < m
      PROVE  <<n, m>> \in OpToRel(<, Nat)
  <2>1. <<n, m>> \in { p \in Nat \X Nat : p[1] < p[2] }
    BY <1>2
  <2> QED
    BY <2>1 DEF OpToRel
<1>3. \A n \in S : m <= n
  <2> SUFFICES ASSUME NEW n \in S
               PROVE  m <= n
    OBVIOUS
  <2>1. ~(n < m)
    BY <1>1, <1>2
  <2> QED
    BY <2>1
<1> QED
  BY <1>3 DEF Min

\* A non-empty set of block numbers up to b has a greatest element, which Max finds:
\* the one at the least distance from b.
LEMMA MaxOfBounded ==
    ASSUME NEW b \in Nat, NEW S \in SUBSET (0 .. b), S # {}
    PROVE  Max(S) \in S /\ \A n \in S : n <= Max(S)
<1> DEFINE D == { b - n : n \in S }
<1>1. D \in SUBSET Nat /\ D # {}
  OBVIOUS
<1>2. Min(D) \in D /\ \A d \in D : Min(D) <= d
  BY <1>1, MinOfNaturals
<1>3. PICK m \in S : Min(D) = b - m
  BY <1>2
<1>4. \A n \in S : b - m <= b - n
  BY <1>2, <1>3
<1>5. \A n \in S : m >= n
  BY <1>4
<1> QED
  BY <1>5 DEF Max

\* Max of two numbers
LEMMA MaxOfTwo ==
    ASSUME NEW a \in Int, NEW b \in Int
    PROVE  Max({a, b}) \in {a, b} /\ a <= Max({a, b}) /\ b <= Max({a, b})
<1>1. \E x \in {a, b} : \A y \in {a, b} : x >= y
  OBVIOUS
<1> QED
  BY <1>1 DEF Max

=============================================================================
