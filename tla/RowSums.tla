-------------------------------- MODULE RowSums --------------------------------
(***************************************************************************)
(* SUM over the rows of a table (MapThenSumSet of the community modules)   *)
(* does not depend on the order in which it takes the rows: what proofs    *)
(* about CountSendsSince and Analytics need to know of it.  The library's  *)
(* induction rules take operators; these proofs take a smallest            *)
(* counterexample instead, which is a fact about sets.                     *)
(***************************************************************************)
EXTENDS FiniteSetsExt, FiniteSetTheorems, TLAPS

Total(g, S) == MapThenSumSet(LAMBDA x : g[x], S)

Pick(s) == CHOOSE x \in s : TRUE

\* One step of the sum of g's values over s, the rest taken from sum.
Step(sum, g, s) == IF s = {} THEN 0 ELSE g[Pick(s)] + sum[s \ {Pick(s)}]

\* sum adds up g over every part of S.
Adds(sum, g, S) == \A s \in SUBSET S : sum[s] = Step(sum, g, s)

\* sum is the function that the recursive definition names.
IsFold(sum, g, S) == sum = [s \in SUBSET S |-> Step(sum, g, s)]

LEMMA PickOne == ASSUME NEW s, s # {} PROVE Pick(s) \in s
BY DEF Pick

LEMMA LeastNumber ==
    ASSUME NEW N \in SUBSET Nat, N # {}
    PROVE  \E n \in N : \A m \in N : ~(m < n)
<1>1. PICK n \in N : \A m \in N : <<m, n>> \notin OpToRel(<, Nat)
  BY NatLessThanWellFounded, WFMin
<1> QED
  BY <1>1 DEF OpToRel

LEMMA SmallestPart ==
    ASSUME NEW S, IsFiniteSet(S), NEW Parts \in SUBSET (SUBSET S), Parts # {}
    PROVE  \E s \in Parts : \A u \in Parts : u \subseteq s => u = s
<1>1. FiniteSubsetsOf(S) = SUBSET S
  BY FS_FiniteSubsetsOfFinite
<1>2. IsWellFoundedOn(StrictSubsetOrdering(S), SUBSET S)
  BY <1>1, FS_StrictSubsetOrderingWellFounded
<1>3. PICK s \in Parts : \A u \in Parts : <<u, s>> \notin StrictSubsetOrdering(S)
  BY <1>2, WFMin
<1> QED
  BY <1>3 DEF StrictSubsetOrdering

-----------------------------------------------------------------------------
(* The recursion has a solution, and every solution gives the same sum. *)

LEMMA SumExists ==
    ASSUME NEW S, IsFiniteSet(S), NEW g
    PROVE  \E sum : IsFold(sum, g, S)
<1> DEFINE Upto(n) == {s \in SUBSET S : Cardinality(s) <= n}
           Solves(sum, n) == /\ sum = [s \in SUBSET S |-> sum[s]]
                             /\ \A s \in Upto(n) : sum[s] = Step(sum, g, s)
           Unsolved == {n \in Nat : ~\E sum : Solves(sum, n)}
<1>0. \A s \in SUBSET S : /\ IsFiniteSet(s) /\ Cardinality(s) \in Nat
                          /\ Cardinality(s) = 0 <=> s = {}
                          /\ Cardinality(s) <= Cardinality(S)
  BY FS_Subset, FS_CardinalityType, FS_EmptySet
<1>1. Unsolved = {}
  <2>1. ASSUME Unsolved # {} PROVE FALSE
    <3>1. PICK n \in Unsolved : \A m \in Unsolved : ~(m < n)
      BY <2>1, LeastNumber
    <3>2. n \in Nat /\ ~\E sum : Solves(sum, n)
      OBVIOUS
    <3>3. CASE n = 0
      <4> DEFINE zero == [s \in SUBSET S |-> 0]
      <4>1. Upto(0) = {{}}
        BY <1>0
      <4>2. zero[{}] = Step(zero, g, {})
        BY DEF Step
      <4>3. Solves(zero, 0)
        BY <4>1, <4>2
      <4> QED
        BY <3>2, <3>3, <4>3
    <3>4. CASE n # 0
      <4>1. n - 1 \in Nat /\ n - 1 < n
        BY <3>2, <3>4
      <4>2. n - 1 \notin Unsolved
        BY <3>1, <4>1
      <4>3. PICK old : Solves(old, n - 1)
        BY <4>1, <4>2
      <4> DEFINE new == [s \in SUBSET S |-> Step(old, g, s)]
      <4>4. \A s \in Upto(n - 1) : new[s] = old[s]
        BY <4>3
      <4>5. ASSUME NEW s \in Upto(n) PROVE new[s] = Step(new, g, s)
        <5>1. CASE s = {}
          BY <5>1 DEF Step
        <5>2. CASE s # {}
          <6>1. Pick(s) \in s /\ s \ {Pick(s)} \in SUBSET S
            BY <5>2, PickOne
          <6>2. Cardinality(s \ {Pick(s)}) = Cardinality(s) - 1
            BY <1>0, <6>1, FS_RemoveElement
          <6>3. s \ {Pick(s)} \in Upto(n - 1)
            BY <1>0, <3>2, <6>1, <6>2
          <6> QED
            BY <4>4, <5>2, <6>3 DEF Step
        <5> QED
          BY <5>1, <5>2
      <4>6. new = [s \in SUBSET S |-> new[s]]
        OBVIOUS
      <4>7. Solves(new, n)
        BY <4>5, <4>6
      <4> QED
        BY <3>2, <4>7
    <3> QED
      BY <3>3, <3>4
  <2> QED
    BY <2>1
<1>2. Cardinality(S) \in Nat
  BY FS_CardinalityType
<1>3. PICK sum : Solves(sum, Cardinality(S))
  BY <1>1, <1>2
<1>4. \A s \in SUBSET S : sum[s] = Step(sum, g, s)
  BY <1>0, <1>3
<1>5. sum = [s \in SUBSET S |-> sum[s]]
  BY <1>3
<1>6. sum = [s \in SUBSET S |-> Step(sum, g, s)]
  BY <1>4, <1>5
<1> QED
  BY <1>6 DEF IsFold

LEMMA SumUnique ==
    ASSUME NEW S, IsFiniteSet(S), NEW g, NEW h, \A x \in S : g[x] = h[x],
           NEW sum, Adds(sum, g, S), NEW other, Adds(other, h, S)
    PROVE  \A s \in SUBSET S : sum[s] = other[s]
<1> DEFINE Apart == {s \in SUBSET S : sum[s] # other[s]}
<1>1. ASSUME Apart # {} PROVE FALSE
  <2>1. PICK s \in Apart : \A u \in Apart : u \subseteq s => u = s
    <3> HIDE DEF Apart
    <3>1. Apart \in SUBSET (SUBSET S)
      BY DEF Apart
    <3> QED
      BY <1>1, <3>1, SmallestPart
  <2>2. sum[s] = Step(sum, g, s) /\ other[s] = Step(other, h, s)
    BY DEF Adds
  <2>3. s # {}
    BY <2>2 DEF Step
  <2>4. Pick(s) \in s
    BY <2>3, PickOne
  <2>5. sum[s \ {Pick(s)}] = other[s \ {Pick(s)}]
    BY <2>1, <2>4
  <2> QED
    BY <2>2, <2>3, <2>4, <2>5 DEF Step
<1> QED
  BY <1>1

\* The sum that MapThenSumSet chooses is such a solution.
LEMMA TotalIs ==
    ASSUME NEW S, IsFiniteSet(S), NEW g, NEW sum, Adds(sum, g, S)
    PROVE  Total(g, S) = sum[S]
<1>0. PICK f : IsFold(f, g, S)
  BY SumExists
<1> DEFINE fold(r) == [s \in SUBSET S |-> IF s = {} THEN 0
                                          ELSE g[Pick(s)] + r[s \ {Pick(s)}]]
           total == CHOOSE r : r = fold(r)
<1>1. \E r : r = fold(r)
  <2>2. f = fold(f)
    BY <1>0 DEF Step, IsFold
  <2> HIDE DEF fold
  <2> QED
    BY <2>2
<1>2. total = fold(total)
  BY <1>1
<1>3. Total(g, S) = total[S]
  BY DEF Total, MapThenSumSet, MapThenFoldSet, Pick
<1>4. Adds(total, g, S)
  <2> HIDE DEF total
  <2> QED
    BY <1>2 DEF Adds, Step
<1> HIDE DEF total
<1> QED
  BY <1>3, <1>4, SumUnique

-----------------------------------------------------------------------------
(* What sums of natural numbers do. *)

Counts(g, S) == \A x \in S : g[x] \in Nat

LEMMA TotalSolved ==
    ASSUME NEW S, IsFiniteSet(S), NEW g
    PROVE  \E sum : Adds(sum, g, S) /\ \A s \in SUBSET S : Total(g, s) = sum[s]
<1>1. PICK sum : IsFold(sum, g, S)
  BY SumExists
<1>2. Adds(sum, g, S)
  BY <1>1 DEF Adds, IsFold
<1>3. ASSUME NEW s \in SUBSET S PROVE Total(g, s) = sum[s]
  <2>1. IsFiniteSet(s) /\ Adds(sum, g, s)
    BY <1>2, FS_Subset DEF Adds
  <2> QED
    BY <2>1, TotalIs
<1> QED
  BY <1>2, <1>3

LEMMA TotalEmpty == ASSUME NEW g PROVE Total(g, {}) = 0
<1>1. PICK sum : Adds(sum, g, {}) /\ \A s \in SUBSET {} : Total(g, s) = sum[s]
  BY FS_EmptySet, TotalSolved
<1> QED
  BY <1>1 DEF Adds, Step

\* As the definition takes the rows, so far.
LEMMA TotalPicked ==
    ASSUME NEW S, IsFiniteSet(S), NEW g, S # {}
    PROVE  Total(g, S) = g[Pick(S)] + Total(g, S \ {Pick(S)})
<1>1. PICK sum : Adds(sum, g, S) /\ \A s \in SUBSET S : Total(g, s) = sum[s]
  BY TotalSolved
<1>2. Total(g, S) = sum[S] /\ Total(g, S \ {Pick(S)}) = sum[S \ {Pick(S)}]
  BY <1>1
<1> QED
  BY <1>1, <1>2 DEF Adds, Step

LEMMA TotalNatural ==
    ASSUME NEW S, IsFiniteSet(S), NEW g, Counts(g, S)
    PROVE  Total(g, S) \in Nat
<1> DEFINE Wrong == {s \in SUBSET S : Total(g, s) \notin Nat}
<1>1. ASSUME Wrong # {} PROVE FALSE
  <2>1. PICK s \in Wrong : \A u \in Wrong : u \subseteq s => u = s
    <3>1. Wrong \in SUBSET (SUBSET S)
      OBVIOUS
    <3> HIDE DEF Wrong
    <3> QED
      BY <1>1, <3>1, SmallestPart
  <2>2. s # {} /\ IsFiniteSet(s)
    <3>1. Total(g, {}) = 0 /\ Total(g, s) \notin Nat
      BY TotalEmpty
    <3>2. s # {}
      BY <3>1
    <3>3. IsFiniteSet(s)
      BY FS_Subset
    <3> QED
      BY <3>2, <3>3
  <2>3. Pick(s) \in s
    BY <2>2, PickOne
  <2>4. Total(g, s \ {Pick(s)}) \in Nat
    BY <2>1, <2>3
  <2>5. Total(g, s) = g[Pick(s)] + Total(g, s \ {Pick(s)})
    BY <2>2, TotalPicked
  <2> QED
    BY <2>3, <2>4, <2>5 DEF Counts
<1> QED
  BY <1>1

\* Any row can be taken first.
LEMMA TotalWithout ==
    ASSUME NEW S, IsFiniteSet(S), NEW g, Counts(g, S), NEW x \in S
    PROVE  Total(g, S) = g[x] + Total(g, S \ {x})
<1> DEFINE Wrong == {s \in SUBSET S : \E y \in s : Total(g, s) # g[y] + Total(g, s \ {y})}
<1>0. \A s \in SUBSET S : IsFiniteSet(s) /\ Counts(g, s) /\ Total(g, s) \in Nat
  <2>1. \A s \in SUBSET S : IsFiniteSet(s) /\ Counts(g, s)
    BY FS_Subset DEF Counts
  <2> QED
    BY <2>1, TotalNatural
<1>1. ASSUME Wrong # {} PROVE FALSE
  <2>1. PICK s \in Wrong : \A u \in Wrong : u \subseteq s => u = s
    <3>1. Wrong \in SUBSET (SUBSET S)
      OBVIOUS
    <3> HIDE DEF Wrong
    <3> QED
      BY <1>1, <3>1, SmallestPart
  <2>2. PICK y \in s : Total(g, s) # g[y] + Total(g, s \ {y})
    BY <2>1
  <2> DEFINE z == Pick(s)
  <2>3. z \in s /\ Total(g, s) = g[z] + Total(g, s \ {z})
    BY <1>0, <2>2, PickOne, TotalPicked
  <2>4. y # z
    BY <2>2, <2>3
  <2>5. s \ {z} \notin Wrong /\ s \ {y} \notin Wrong
    BY <2>1, <2>2, <2>3
  <2> HIDE DEF z
  <2> DEFINE rest == s \ {y, z}
  <2>6. Total(g, s \ {z}) = g[y] + Total(g, rest)
    <3>1. (s \ {z}) \ {y} = rest
      OBVIOUS
    <3> QED
      BY <2>2, <2>4, <2>5, <3>1
  <2>7. Total(g, s \ {y}) = g[z] + Total(g, rest)
    <3>1. (s \ {y}) \ {z} = rest
      OBVIOUS
    <3> QED
      BY <2>3, <2>4, <2>5, <3>1
  <2>8. g[y] \in Nat /\ g[z] \in Nat /\ Total(g, rest) \in Nat
    BY <1>0, <2>3 DEF Counts
  <2> HIDE DEF rest
  <2>9. g[z] + (g[y] + Total(g, rest)) = g[y] + (g[z] + Total(g, rest))
    BY <2>8
  <2> QED
    BY <2>2, <2>3, <2>6, <2>7, <2>9
<1> QED
  BY <1>1

\* More rows, or larger numbers in them, add up to no less.
LEMMA TotalGrows ==
    ASSUME NEW S, IsFiniteSet(S), NEW h, Counts(h, S),
           NEW T \in SUBSET S, NEW g, Counts(g, T), \A x \in T : g[x] <= h[x]
    PROVE  Total(g, T) <= Total(h, S)
<1> DEFINE Wrong == {s \in SUBSET S : ~(Total(g, s \cap T) <= Total(h, s))}
<1>0. \A s \in SUBSET S : /\ IsFiniteSet(s) /\ Counts(h, s) /\ Total(h, s) \in Nat
                          /\ IsFiniteSet(s \cap T) /\ Counts(g, s \cap T)
                          /\ Total(g, s \cap T) \in Nat
  <2>1. \A s \in SUBSET S : /\ IsFiniteSet(s) /\ Counts(h, s)
                            /\ IsFiniteSet(s \cap T) /\ Counts(g, s \cap T)
    BY FS_Subset DEF Counts
  <2> QED
    BY <2>1, TotalNatural
<1>1. ASSUME Wrong # {} PROVE FALSE
  <2>1. PICK s \in Wrong : \A u \in Wrong : u \subseteq s => u = s
    <3>1. Wrong \in SUBSET (SUBSET S)
      OBVIOUS
    <3> HIDE DEF Wrong
    <3> QED
      BY <1>1, <3>1, SmallestPart
  <2>2. s # {}
    <3>1. Total(g, {}) = 0 /\ Total(h, {}) = 0 /\ {} \cap T = {}
      BY TotalEmpty
    <3> QED
      BY <3>1
  <2>3. PICK x : x \in s
    BY <2>2
  <2>4. s \ {x} \in SUBSET S /\ s \ {x} \notin Wrong
    BY <2>1, <2>3
  <2> DEFINE less == Total(g, (s \ {x}) \cap T)
             more == Total(h, s \ {x})
             part == Total(g, s \cap T)
  <2>5. less \in Nat /\ more \in Nat /\ less <= more
    BY <1>0, <2>4
  <2>6. Total(h, s) = h[x] + more /\ h[x] \in Nat
    BY <1>0, <2>3, TotalWithout DEF Counts
  <2>7. part <= h[x] + less
    <3>1. CASE x \in T
      <4>1. (s \cap T) \ {x} = (s \ {x}) \cap T
        OBVIOUS
      <4>2. part = g[x] + Total(g, (s \cap T) \ {x})
        <5>1. x \in s \cap T /\ IsFiniteSet(s \cap T) /\ Counts(g, s \cap T)
          BY <1>0, <2>3, <3>1
        <5> QED
          BY <5>1, TotalWithout
      <4>3. part = g[x] + less /\ g[x] \in Nat /\ g[x] <= h[x]
        BY <3>1, <4>1, <4>2 DEF Counts
      <4> HIDE DEF less, part
      <4> QED
        BY <2>5, <2>6, <4>3
    <3>2. CASE x \notin T
      <4>1. s \cap T = (s \ {x}) \cap T
        BY <3>2
      <4>2. part = less
        BY <4>1
      <4> HIDE DEF less, part
      <4> QED
        BY <2>5, <2>6, <4>2
    <3> QED
      BY <3>1, <3>2
  <2>8. part \in Nat /\ ~(part <= Total(h, s))
    BY <1>0, <2>1
  <2> HIDE DEF less, more, part
  <2> QED
    BY <2>5, <2>6, <2>7, <2>8
<1>2. S \cap T = T
  OBVIOUS
<1>3. S \notin Wrong
  BY <1>1
<1> QED
  BY <1>2, <1>3

\* Only the numbers over S count.
LEMMA TotalSame ==
    ASSUME NEW S, IsFiniteSet(S), NEW g, NEW h, \A x \in S : g[x] = h[x]
    PROVE  Total(g, S) = Total(h, S)
<1>1. PICK sum : Adds(sum, g, S) /\ \A s \in SUBSET S : Total(g, s) = sum[s]
  BY TotalSolved
<1>2. PICK other : Adds(other, h, S) /\ \A s \in SUBSET S : Total(h, s) = other[s]
  BY TotalSolved
<1>3. sum[S] = other[S]
  BY <1>1, <1>2, SumUnique
<1> QED
  BY <1>1, <1>2, <1>3

\* Rows that each hold at least 1 and at most n.
LEMMA TotalBounds ==
    ASSUME NEW S, IsFiniteSet(S), NEW g, Counts(g, S), NEW n \in Nat,
           \A x \in S : 1 <= g[x] /\ g[x] <= n
    PROVE  Cardinality(S) <= Total(g, S) /\ Total(g, S) <= n * Cardinality(S)
<1> DEFINE Fits(s) == Cardinality(s) <= Total(g, s) /\ Total(g, s) <= n * Cardinality(s)
           Wrong == {s \in SUBSET S : ~Fits(s)}
<1>0. \A s \in SUBSET S : /\ IsFiniteSet(s) /\ Counts(g, s) /\ Total(g, s) \in Nat
                          /\ Cardinality(s) \in Nat
  <2>1. \A s \in SUBSET S : IsFiniteSet(s) /\ Counts(g, s)
    BY FS_Subset DEF Counts
  <2> QED
    BY <2>1, TotalNatural, FS_CardinalityType
<1>1. ASSUME Wrong # {} PROVE FALSE
  <2>1. PICK s \in Wrong : \A u \in Wrong : u \subseteq s => u = s
    <3>1. Wrong \in SUBSET (SUBSET S)
      OBVIOUS
    <3> HIDE DEF Wrong
    <3> QED
      BY <1>1, <3>1, SmallestPart
  <2>2. s # {}
    BY TotalEmpty, FS_EmptySet
  <2>3. PICK x : x \in s
    BY <2>2
  <2>4. Fits(s \ {x})
    BY <2>1, <2>3
  <2> DEFINE rest == Total(g, s \ {x})
             k == Cardinality(s \ {x})
  <2>5. rest \in Nat /\ k \in Nat /\ k <= rest /\ rest <= n * k
    BY <1>0, <2>4
  <2>6. Total(g, s) = g[x] + rest /\ g[x] \in Nat /\ 1 <= g[x] /\ g[x] <= n
    BY <1>0, <2>3, TotalWithout DEF Counts
  <2>7. Cardinality(s) = k + 1
    <3>1. IsFiniteSet(s) /\ Cardinality(s) \in Nat
      BY <1>0
    <3>2. Cardinality(s \ {x}) = Cardinality(s) - 1
      BY <2>3, <3>1, FS_RemoveElement
    <3> QED
      BY <3>1, <3>2
  <2>8. ~(Cardinality(s) <= Total(g, s) /\ Total(g, s) <= n * Cardinality(s))
    BY <2>1
  <2> HIDE DEF rest, k
  <2>9. n * (k + 1) = n * k + n /\ n * k \in Nat
    BY <2>5
  <2> QED
    BY <2>5, <2>6, <2>7, <2>8, <2>9
<1>2. S \notin Wrong
  BY <1>1
<1> QED
  BY <1>2
=============================================================================
