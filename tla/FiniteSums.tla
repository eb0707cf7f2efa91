------------------------------- MODULE FiniteSums -------------------------------
(***************************************************************************)
(* What a sum over a finite set obeys: it is a natural number, grows with   *)
(* the set, and one element more or less changes it by that element's term. *)
(*                                                                          *)
(* A sum is defined by recursion on the set, so each fact is an induction.  *)
(* It is made as a search for the least counterexample: the strict subsets  *)
(* of a finite set, and the naturals, are well-founded, so a collection of  *)
(* counterexamples that is not empty has a least one, and the step from a   *)
(* smaller set leads it to a contradiction.                                 *)
(***************************************************************************)
EXTENDS Integers, FiniteSetsExt, FiniteSetTheorems, TLAPS

(* The sum of f over S, as the components write it.                          *)
Total(f, S) == MapThenSumSet(LAMBDA x : f[x], S)

(* The element a sum takes first.                                            *)
Pick(s) == CHOOSE x \in s : TRUE

(* The body of the recursion, over sums that are already known.              *)
Sum(f, sums, s) == IF s = {} THEN 0 ELSE f[Pick(s)] + sums[s \ {Pick(s)}]

(* The sums over the subsets of S.                                           *)
Sums(f, S) == CHOOSE sums : sums = [s \in SUBSET S |-> Sum(f, sums, s)]

-----------------------------------------------------------------------------
(* Among subsets of a finite set, some one has no other below it.            *)
LEMMA LeastSubset ==
  ASSUME NEW S, IsFiniteSet(S), NEW F, F \subseteq SUBSET S, F # {}
  PROVE  \E T \in F : \A U \in F : U \subseteq T => U = T
  <1>1. FiniteSubsetsOf(S) = SUBSET S
      BY FS_FiniteSubsetsOfFinite
  <1>2. IsWellFoundedOn(StrictSubsetOrdering(S), FiniteSubsetsOf(S))
      BY FS_StrictSubsetOrderingWellFounded
  <1>3. PICK T \in F : \A U \in F : <<U, T>> \notin StrictSubsetOrdering(S)
      BY <1>1, <1>2, WFMin
  <1> QED
      BY <1>3 DEF StrictSubsetOrdering

(* Among natural numbers, one is least.                                      *)
LEMMA LeastNatural ==
  ASSUME NEW N, N \subseteq Nat, N # {}
  PROVE  \E n \in N : \A m \in N : n <= m
  <1>1. PICK n \in N : \A m \in N : <<m, n>> \notin OpToRel(<, Nat)
      BY NatLessThanWellFounded, WFMin
  <1>2. \A m \in N : ~(m < n)
      BY <1>1 DEF OpToRel
  <1> QED
      BY <1>2

-----------------------------------------------------------------------------
(* The subsets of S with fewer than n elements.                              *)
Smaller(S, n) == {s \in SUBSET S : Cardinality(s) < n}

(* The recursion has a solution on the subsets below any size: a solution    *)
(* for the next size is made from the one before.                            *)
LEMMA SumsBelow ==
  ASSUME NEW f, NEW S, IsFiniteSet(S), NEW n \in Nat
  PROVE  \E sums : sums = [s \in Smaller(S, n) |-> Sum(f, sums, s)]
  <1> DEFINE Bad == {m \in Nat : ~\E sums : sums = [s \in Smaller(S, m) |-> Sum(f, sums, s)]}
  <1> SUFFICES ASSUME Bad # {} PROVE FALSE
      OBVIOUS
  <1> HIDE DEF Bad
  <1>1. PICK m \in Bad : \A k \in Bad : m <= k
      BY LeastNatural DEF Bad
  <1>2. m \in Nat /\ ~\E sums : sums = [s \in Smaller(S, m) |-> Sum(f, sums, s)]
      BY DEF Bad
  <1>3. \A s \in SUBSET S : IsFiniteSet(s) /\ Cardinality(s) \in Nat
      BY FS_Subset, FS_CardinalityType
  <1>4. m # 0
    <2> SUFFICES ASSUME m = 0 PROVE FALSE
        OBVIOUS
    <2>1. Smaller(S, m) = {}
        BY <1>3 DEF Smaller
    <2> DEFINE none == [s \in {} |-> 0]
    <2>2. none = [s \in Smaller(S, m) |-> Sum(f, none, s)]
        BY <2>1
    <2> QED
        BY <1>2, <2>2
  <1>5. m - 1 \in Nat /\ m - 1 \notin Bad
      BY <1>1, <1>2, <1>4
  <1>6. PICK part : part = [s \in Smaller(S, m - 1) |-> Sum(f, part, s)]
      BY <1>5 DEF Bad
  <1> DEFINE whole == [s \in Smaller(S, m) |-> Sum(f, part, s)]
  <1>7. ASSUME NEW s \in Smaller(S, m) PROVE Sum(f, whole, s) = Sum(f, part, s)
    <2>1. CASE s = {}
        BY <2>1 DEF Sum
    <2>2. CASE s # {}
      <3>1. Pick(s) \in s
          BY <2>2 DEF Pick
      <3> DEFINE rest == s \ {Pick(s)}
      <3>2. rest \in SUBSET S /\ Cardinality(rest) = Cardinality(s) - 1
          BY <1>3, <3>1, FS_RemoveElement DEF Smaller
      <3>3. rest \in Smaller(S, m) /\ rest \in Smaller(S, m - 1)
          BY <1>2, <1>3, <3>2 DEF Smaller
      <3>4. whole[rest] = part[rest]
          BY <1>6, <3>3
      <3> QED
          BY <2>2, <3>4 DEF Sum
    <2> QED
        BY <2>1, <2>2
  <1>8. whole = [s \in Smaller(S, m) |-> Sum(f, whole, s)]
      BY <1>7
  <1> QED
      BY <1>2, <1>8

(* The recursion therefore has a solution on all of them.                    *)
LEMMA SumsDefined ==
  ASSUME NEW f, NEW S, IsFiniteSet(S), NEW s \in SUBSET S
  PROVE  Sums(f, S)[s] = Sum(f, Sums(f, S), s)
  <1>1. PICK n \in Nat : n = Cardinality(S) + 1
      BY FS_CardinalityType
  <1>2. \A t \in SUBSET S : Cardinality(t) < n
      BY <1>1, FS_CardinalityType, FS_Subset
  <1>3. Smaller(S, n) = SUBSET S
      BY <1>2 DEF Smaller
  <1>4. \E sums : sums = [t \in Smaller(S, n) |-> Sum(f, sums, t)]
      BY SumsBelow
  <1>5. Sums(f, S) = [t \in SUBSET S |-> Sum(f, Sums(f, S), t)]
      BY <1>3, <1>4 DEF Sums
  <1> QED
      BY <1>5

(* Which set the recursion started from makes no difference to a subset.     *)
LEMMA SumsAgree ==
  ASSUME NEW f, NEW S, IsFiniteSet(S), NEW T \in SUBSET S, NEW s \in SUBSET T
  PROVE  Sums(f, S)[s] = Sums(f, T)[s]
  <1> DEFINE Bad == {t \in SUBSET T : Sums(f, S)[t] # Sums(f, T)[t]}
  <1> SUFFICES ASSUME Bad # {} PROVE FALSE
      OBVIOUS
  <1>1. IsFiniteSet(T)
      BY FS_Subset
  <1>2. PICK t \in Bad : \A u \in Bad : u \subseteq t => u = t
    <2>1. Bad \subseteq SUBSET T
        OBVIOUS
    <2> HIDE DEF Bad
    <2> QED
        BY <1>1, <2>1, LeastSubset
  <1>3. Sums(f, S)[t] = Sum(f, Sums(f, S), t) /\ Sums(f, T)[t] = Sum(f, Sums(f, T), t)
      BY <1>1, SumsDefined
  <1>4. t # {} /\ Pick(t) \in t
      BY <1>3 DEF Sum, Pick
  <1>5. t \ {Pick(t)} \in SUBSET T /\ t \ {Pick(t)} \notin Bad
      BY <1>2, <1>4
  <1> QED
      BY <1>3, <1>5 DEF Sum

(* A sum is one term and the sum of the rest.                                *)
LEMMA TotalStep ==
  ASSUME NEW f, NEW S, IsFiniteSet(S)
  PROVE  Total(f, S) = IF S = {} THEN 0 ELSE f[Pick(S)] + Total(f, S \ {Pick(S)})
  <1>1. \A T : Total(f, T) = Sums(f, T)[T]
      BY DEF Total, Sums, Sum, Pick, MapThenSumSet, MapThenFoldSet
  <1>2. Sums(f, S)[S] = Sum(f, Sums(f, S), S)
      BY SumsDefined
  <1>3. LET rest == S \ {Pick(S)} IN Sums(f, S)[rest] = Sums(f, rest)[rest]
      BY SumsAgree
  <1> QED
      BY <1>1, <1>2, <1>3 DEF Sum

-----------------------------------------------------------------------------
(* Nothing sums to zero.                                                     *)
LEMMA TotalEmpty == ASSUME NEW f PROVE Total(f, {}) = 0
  BY TotalStep, FS_EmptySet

(* A sum of natural numbers is one.                                          *)
LEMMA TotalNat ==
  ASSUME NEW D, NEW f \in [D -> Nat], NEW S \in SUBSET D, IsFiniteSet(S)
  PROVE  Total(f, S) \in Nat
  <1> DEFINE Bad == {t \in SUBSET S : Total(f, t) \notin Nat}
  <1> SUFFICES ASSUME Bad # {} PROVE FALSE
      OBVIOUS
  <1>1. PICK t \in Bad : \A u \in Bad : u \subseteq t => u = t
    <2>1. Bad \subseteq SUBSET S
        OBVIOUS
    <2> HIDE DEF Bad
    <2> QED
        BY <2>1, LeastSubset
  <1>2. Total(f, t) = IF t = {} THEN 0 ELSE f[Pick(t)] + Total(f, t \ {Pick(t)})
      BY TotalStep, FS_Subset
  <1>3. t # {} /\ Pick(t) \in t
      BY <1>2 DEF Pick
  <1>4. t \ {Pick(t)} \in SUBSET S /\ t \ {Pick(t)} \notin Bad
      BY <1>1, <1>3
  <1> QED
      BY <1>2, <1>3, <1>4

(* Any element may be taken out first, not only the one picked.              *)
LEMMA TotalRemove ==
  ASSUME NEW D, NEW f \in [D -> Nat], NEW S \in SUBSET D, IsFiniteSet(S), NEW y \in S
  PROVE  Total(f, S) = f[y] + Total(f, S \ {y})
  <1> DEFINE Bad == {t \in SUBSET S : \E z \in t : Total(f, t) # f[z] + Total(f, t \ {z})}
  <1> SUFFICES ASSUME Bad # {} PROVE FALSE
      OBVIOUS
  <1>1. PICK t \in Bad : \A u \in Bad : u \subseteq t => u = t
    <2>1. Bad \subseteq SUBSET S
        OBVIOUS
    <2> HIDE DEF Bad
    <2> QED
        BY <2>1, LeastSubset
  <1>2. PICK z \in t : Total(f, t) # f[z] + Total(f, t \ {z})
      OBVIOUS
  <1> DEFINE x == Pick(t)
  <1>3. x \in t
      BY DEF Pick
  <1> HIDE DEF x
  <1>4. Total(f, t) = f[x] + Total(f, t \ {x})
      BY TotalStep, FS_Subset DEF x
  <1>5. x # z
      BY <1>2, <1>4
  <1>6. t \ {x} \notin Bad /\ t \ {z} \notin Bad
      BY <1>1, <1>3
  <1>7. /\ Total(f, t \ {x}) = f[z] + Total(f, (t \ {x}) \ {z})
        /\ Total(f, t \ {z}) = f[x] + Total(f, (t \ {z}) \ {x})
      BY <1>3, <1>5, <1>6
  <1>8. (t \ {x}) \ {z} = (t \ {z}) \ {x}
      OBVIOUS
  <1>9. Total(f, (t \ {z}) \ {x}) \in Nat
      BY TotalNat, FS_Subset
  <1>10. f[x] \in Nat /\ f[z] \in Nat
      BY <1>3
  <1> QED
      BY <1>2, <1>4, <1>7, <1>8, <1>9, <1>10

(* One element more adds its term.                                           *)
LEMMA TotalAdd ==
  ASSUME NEW D, NEW f \in [D -> Nat], NEW S \in SUBSET D, IsFiniteSet(S), NEW y \in D \ S
  PROVE  Total(f, S \cup {y}) = Total(f, S) + f[y]
  <1>1. S \cup {y} \in SUBSET D /\ IsFiniteSet(S \cup {y}) /\ (S \cup {y}) \ {y} = S
      BY FS_AddElement
  <1>2. Total(f, S \cup {y}) = f[y] + Total(f, S)
      BY <1>1, TotalRemove
  <1> QED
      BY <1>2, TotalNat

(* A part sums to no more than the whole.                                    *)
LEMMA TotalMonotone ==
  ASSUME NEW D, NEW f \in [D -> Nat], NEW S \in SUBSET D, IsFiniteSet(S), NEW T \in SUBSET S
  PROVE  Total(f, T) <= Total(f, S)
  <1> DEFINE Bad == {t \in SUBSET S : T \subseteq t /\ ~(Total(f, T) <= Total(f, t))}
  <1> SUFFICES ASSUME Bad # {} PROVE FALSE
      OBVIOUS
  <1>1. PICK t \in Bad : \A u \in Bad : u \subseteq t => u = t
    <2>1. Bad \subseteq SUBSET S
        OBVIOUS
    <2> HIDE DEF Bad
    <2> QED
        BY <2>1, LeastSubset
  <1>2. Total(f, t) \in Nat /\ Total(f, T) \in Nat
      BY TotalNat, FS_Subset
  <1>3. PICK y \in t : y \notin T
      BY <1>2
  <1>4. t \ {y} \notin Bad
      BY <1>1
  <1>5. Total(f, t) = f[y] + Total(f, t \ {y})
      BY TotalRemove, FS_Subset
  <1>6. Total(f, t \ {y}) \in Nat /\ f[y] \in Nat
      BY TotalNat, FS_Subset
  <1> QED
      BY <1>2, <1>3, <1>4, <1>5, <1>6
=============================================================================
