------------------------------- MODULE SumProofs -------------------------------
(***************************************************************************)
(* Sums over finite sets, as MapThenSumSet of the community modules makes  *)
(* them: what the models count, images, rows and operations, is such a sum.*)
(* The proofs go by the least set that is a counterexample.                *)
(***************************************************************************)
EXTENDS Integers, FiniteSets, FiniteSetsExt, FiniteSetTheorems, WellFoundedInduction, TLAPS

SumOf(f, S) == MapThenSumSet(LAMBDA x : f[x], S)

\* What MapThenSumSet computes with: the sum over each subset.
Some(s) == CHOOSE x \in s : TRUE
IsSums(h, f, S) ==
    h = [s \in SUBSET S |-> IF s = {} THEN 0 ELSE f[Some(s)] + h[s \ {Some(s)}]]

LEMMA SumOfUnfolds ==
    ASSUME NEW f, NEW S
    PROVE  SumOf(f, S) = (CHOOSE h : IsSums(h, f, S))[S]
BY DEF SumOf, MapThenSumSet, MapThenFoldSet, IsSums, Some

LEMMA SomeIsIn == ASSUME NEW s, s # {} PROVE Some(s) \in s
BY DEF Some

\* Of finite sets there is a least one.
LEMMA LeastSet ==
    ASSUME NEW S, IsFiniteSet(S), NEW T, T \subseteq SUBSET S, T # {}
    PROVE  \E m \in T : \A t \in T : t \subseteq m => t = m
<1>1. IsWellFoundedOn(StrictSubsetOrdering(S), SUBSET S)
  BY FS_StrictSubsetOrderingWellFounded, FS_FiniteSubsetsOfFinite
<1>2. PICK m \in T : \A t \in T : <<t, m>> \notin StrictSubsetOrdering(S)
  BY <1>1, WFMin
<1>3. ASSUME NEW t \in T, t \subseteq m, t # m PROVE FALSE
  <2>1. t \in SUBSET S /\ m \in SUBSET S
    BY <1>3
  <2>2. <<t, m>> \in StrictSubsetOrdering(S)
    BY <1>3, <2>1 DEF StrictSubsetOrdering
  <2>3. QED
    BY <1>2, <1>3, <2>2
<1>4. QED
  BY <1>3

\* A nonempty set of naturals has a least element.
LEMMA LeastNat ==
    ASSUME NEW S \in SUBSET Nat, S # {}
    PROVE  \E i \in S : \A j \in S : i <= j
<1> DEFINE R == OpToRel(<, Nat)
<1>1. IsWellFoundedOn(R, Nat)
  BY NatLessThanWellFounded
<1>2. PICK i \in S : \A j \in S : <<j, i>> \notin R
  BY <1>1, WFMin
<1>3. R = {ss \in Nat \X Nat : ss[1] < ss[2]}
  BY Zenon DEF OpToRel
<1> HIDE DEF R
<1>4. ASSUME NEW j \in S PROVE i <= j
  <2>1. <<j, i>> \notin R /\ i \in Nat /\ j \in Nat
    BY <1>2
  <2>2. ~(j < i)
    BY <2>1, <1>3
  <2>3. QED
    BY <2>1, <2>2
<1>5. QED
  BY <1>4

LEMMA SumsStep ==
    ASSUME NEW f, NEW S, NEW h, IsSums(h, f, S), NEW s \in SUBSET S
    PROVE  /\ s = {} => h[s] = 0
           /\ s # {} => h[s] = f[Some(s)] + h[s \ {Some(s)}]
BY DEF IsSums

\* Sums over the subsets of two sets agree where both are made.
LEMMA SumsAgree ==
    ASSUME NEW f, NEW S, IsFiniteSet(S), NEW U \in SUBSET S, NEW g, NEW h,
           IsSums(g, f, S), IsSums(h, f, U)
    PROVE  \A s \in SUBSET U : g[s] = h[s]
<1> DEFINE T == {s \in SUBSET U : g[s] # h[s]}
<1> SUFFICES ASSUME T # {} PROVE FALSE
  OBVIOUS
<1>0. T \subseteq SUBSET S
  OBVIOUS
<1> HIDE DEF T
<1>2. PICK m \in T : \A t \in T : t \subseteq m => t = m
  BY <1>0, LeastSet
<1>1. m \in SUBSET U /\ m \in SUBSET S /\ g[m] # h[m]
  BY DEF T
<1>3. m # {}
  <2>1. CASE m = {}
    <3>1. g[m] = 0 /\ h[m] = 0
      BY <1>1, <2>1, SumsStep
    <3>2. QED
      BY <1>1, <3>1
  <2>2. QED
    BY <2>1
<1>4. Some(m) \in m
  BY <1>3, SomeIsIn
<1>5. m \ {Some(m)} \notin T
  BY <1>2, <1>4
<1>6. g[m \ {Some(m)}] = h[m \ {Some(m)}]
  BY <1>1, <1>5 DEF T
<1>7. g[m] = f[Some(m)] + g[m \ {Some(m)}]
  BY <1>1, <1>3, SumsStep
<1>8. h[m] = f[Some(m)] + h[m \ {Some(m)}]
  BY <1>1, <1>3, SumsStep
<1>9. QED
  BY <1>1, <1>6, <1>7, <1>8

LEMMA SumsExist ==
    ASSUME NEW f, NEW S, IsFiniteSet(S)
    PROVE  \E h : IsSums(h, f, S)
<1> DEFINE T == {s \in SUBSET S : ~\E h : IsSums(h, f, s)}
<1> SUFFICES ASSUME T # {} PROVE FALSE
  OBVIOUS
<1>0. T \subseteq SUBSET S
  OBVIOUS
<1> HIDE DEF T
<1>1. PICK m \in T : \A t \in T : t \subseteq m => t = m
  BY <1>0, LeastSet
<1>2. IsFiniteSet(m) /\ m \in SUBSET S /\ ~\E h : IsSums(h, f, m)
  BY FS_Subset DEF T
<1> DEFINE H(u) == CHOOSE h : IsSums(h, f, u)
           g == [s \in SUBSET m |-> IF s = {} THEN 0 ELSE f[Some(s)] + H(s \ {Some(s)})[s \ {Some(s)}]]
<1>3. ASSUME NEW u \in SUBSET m, u # m PROVE IsSums(H(u), f, u)
  <2>1. u \in SUBSET S /\ u \notin T
    BY <1>1, <1>2, <1>3
  <2>2. \E h : IsSums(h, f, u)
    BY <2>1 DEF T
  <2>3. QED
    BY <2>2
<1> HIDE DEF H
<1>4. ASSUME NEW u \in SUBSET m, u # m PROVE g[u] = H(u)[u]
  <2>1. CASE u = {}
    <3>1. g[u] = 0
      BY <1>4, <2>1
    <3>2. IsSums(H(u), f, u) /\ u \in SUBSET u
      BY <1>3, <1>4
    <3>3. H(u)[u] = 0
      BY <2>1, <3>2, SumsStep
    <3>4. QED
      BY <3>1, <3>3
  <2>2. CASE u # {}
    <3> DEFINE w == u \ {Some(u)}
    <3>1. Some(u) \in u /\ w \in SUBSET u /\ w # m /\ w \in SUBSET m
      BY <1>4, <2>2, SomeIsIn
    <3>2. IsSums(H(u), f, u) /\ IsSums(H(w), f, w) /\ IsFiniteSet(u)
      BY <1>2, <1>3, <1>4, <3>1, FS_Subset
    <3> HIDE DEF w
    <3>3. H(u)[w] = H(w)[w]
      BY <3>1, <3>2, SumsAgree
    <3>4. H(u)[u] = f[Some(u)] + H(u)[w]
      BY <2>2, <3>2, SumsStep DEF w
    <3>5. g[u] = f[Some(u)] + H(w)[w]
      BY <2>2, <1>4 DEF w
    <3>6. QED
      BY <3>3, <3>4, <3>5
  <2>3. QED
    BY <2>1, <2>2
<1>5. ASSUME NEW s \in SUBSET m, s # {} PROVE H(s \ {Some(s)})[s \ {Some(s)}] = g[s \ {Some(s)}]
  <2>1. Some(s) \in s
    BY <1>5, SomeIsIn
  <2>2. s \ {Some(s)} \in SUBSET m /\ s \ {Some(s)} # m
    BY <2>1
  <2>3. QED
    BY <1>4, <2>2
<1>6. g = [s \in SUBSET m |-> IF s = {} THEN 0 ELSE f[Some(s)] + g[s \ {Some(s)}]]
  <2>1. \A s \in SUBSET m : (IF s = {} THEN 0 ELSE f[Some(s)] + H(s \ {Some(s)})[s \ {Some(s)}])
                            = (IF s = {} THEN 0 ELSE f[Some(s)] + g[s \ {Some(s)}])
    BY <1>5
  <2>2. QED
    BY <2>1
<1>7. IsSums(g, f, m)
  BY <1>6 DEF IsSums
<1>8. QED
  BY <1>2, <1>7

LEMMA SumOfStep ==
    ASSUME NEW f, NEW S, IsFiniteSet(S), S # {}
    PROVE  SumOf(f, S) = f[Some(S)] + SumOf(f, S \ {Some(S)})
<1> DEFINE H(u) == CHOOSE h : IsSums(h, f, u)
           w == S \ {Some(S)}
<1>1. IsFiniteSet(w) /\ w \in SUBSET S
  BY FS_Subset
<1>2. IsSums(H(S), f, S) /\ IsSums(H(w), f, w)
  BY <1>1, SumsExist
<1>3. SumOf(f, S) = H(S)[S] /\ SumOf(f, w) = H(w)[w]
  BY SumOfUnfolds
<1> HIDE DEF H, w
<1>4. H(S)[w] = H(w)[w]
  BY <1>1, <1>2, SumsAgree
<1>5. H(S)[S] = f[Some(S)] + H(S)[w]
  BY <1>2, SumsStep DEF w
<1>6. QED
  BY <1>3, <1>4, <1>5 DEF w

\* The sum over nothing is 0.
LEMMA SumOfEmpty == ASSUME NEW f PROVE SumOf(f, {}) = 0
<1>1. IsFiniteSet({})
  BY FS_EmptySet
<1>2. IsSums(CHOOSE h : IsSums(h, f, {}), f, {})
  BY <1>1, SumsExist
<1>3. QED
  BY <1>2, SumOfUnfolds, SumsStep

\* A sum of naturals is one.
LEMMA SumOfIsNat ==
    ASSUME NEW S, IsFiniteSet(S), NEW f, \A x \in S : f[x] \in Nat
    PROVE  SumOf(f, S) \in Nat
<1> DEFINE T == {s \in SUBSET S : SumOf(f, s) \notin Nat}
<1> SUFFICES ASSUME T # {} PROVE FALSE
  OBVIOUS
<1>0. T \subseteq SUBSET S
  OBVIOUS
<1> HIDE DEF T
<1>1. PICK m \in T : \A t \in T : t \subseteq m => t = m
  BY <1>0, LeastSet
<1>2. m \in SUBSET S /\ SumOf(f, m) \notin Nat
  BY DEF T
<1>3. m # {} /\ IsFiniteSet(m)
  <2>1. SumOf(f, {}) = 0
    BY SumOfEmpty
  <2>2. m # {}
    BY <1>2, <2>1, SumOfEmpty
  <2>3. QED
    BY <1>2, <2>2, FS_Subset
<1>4. Some(m) \in m
  BY <1>3, SomeIsIn
<1>5. m \ {Some(m)} \notin T
  BY <1>1, <1>4
<1>6. SumOf(f, m \ {Some(m)}) \in Nat
  BY <1>2, <1>5 DEF T
<1>7. f[Some(m)] \in Nat
  BY <1>2, <1>4
<1>8. SumOf(f, m) = f[Some(m)] + SumOf(f, m \ {Some(m)})
  BY <1>3, SumOfStep
<1>9. QED
  BY <1>2, <1>6, <1>7, <1>8

\* It does not matter with which element one begins.
LEMMA SumOfTakesOut ==
    ASSUME NEW S, IsFiniteSet(S), NEW f, \A x \in S : f[x] \in Nat, NEW y \in S
    PROVE  SumOf(f, S) = f[y] + SumOf(f, S \ {y})
<1> DEFINE T == {s \in SUBSET S : \E z \in s : SumOf(f, s) # f[z] + SumOf(f, s \ {z})}
<1> SUFFICES ASSUME T # {} PROVE FALSE
  OBVIOUS
<1>0. T \subseteq SUBSET S
  OBVIOUS
<1> HIDE DEF T
<1>1. PICK m \in T : \A t \in T : t \subseteq m => t = m
  BY <1>0, LeastSet
<1>2. PICK z \in m : SumOf(f, m) # f[z] + SumOf(f, m \ {z})
  BY <1>1 DEF T
<1> DEFINE x == Some(m)
<1>3. IsFiniteSet(m) /\ x \in m /\ m \in SUBSET S
  <2>1. m \in SUBSET S /\ m # {}
    BY <1>2 DEF T
  <2>2. QED
    BY <2>1, FS_Subset, SomeIsIn
<1>4. SumOf(f, m) = f[x] + SumOf(f, m \ {x})
  BY <1>2, <1>3, SumOfStep
<1> HIDE DEF x
<1>5. x # z
  BY <1>2, <1>4
<1>6. m \ {x} \notin T /\ m \ {x} \in SUBSET S /\ z \in m \ {x}
  BY <1>1, <1>3, <1>5
<1>7. SumOf(f, m \ {x}) = f[z] + SumOf(f, (m \ {x}) \ {z})
  BY <1>6, Zenon DEF T
<1>15. m \ {z} \notin T /\ m \ {z} \in SUBSET S /\ x \in m \ {z}
  BY <1>1, <1>3, <1>5
<1>8. SumOf(f, m \ {z}) = f[x] + SumOf(f, (m \ {z}) \ {x})
  BY <1>15, Zenon DEF T
<1>9. (m \ {z}) \ {x} = (m \ {x}) \ {z}
  OBVIOUS
<1>10. f[x] \in Nat /\ f[z] \in Nat
  BY <1>3
<1>11. SumOf(f, (m \ {x}) \ {z}) \in Nat
  <2>1. IsFiniteSet((m \ {x}) \ {z}) /\ \A u \in (m \ {x}) \ {z} : f[u] \in Nat
    BY <1>3, FS_Subset
  <2>2. QED
    BY <2>1, SumOfIsNat
<1>12. SumOf(f, m) = f[x] + (f[z] + SumOf(f, (m \ {x}) \ {z}))
  BY <1>4, <1>7
<1>13. SumOf(f, m \ {z}) = f[x] + SumOf(f, (m \ {x}) \ {z})
  BY <1>8, <1>9
<1>14. QED
  BY <1>2, <1>10, <1>11, <1>12, <1>13

\* The sum depends on the summands only.
LEMMA SumOfSame ==
    ASSUME NEW S, IsFiniteSet(S), NEW f, NEW g, \A x \in S : f[x] = g[x]
    PROVE  SumOf(f, S) = SumOf(g, S)
<1> DEFINE T == {s \in SUBSET S : SumOf(f, s) # SumOf(g, s)}
<1> SUFFICES ASSUME T # {} PROVE FALSE
  OBVIOUS
<1>0. T \subseteq SUBSET S
  OBVIOUS
<1> HIDE DEF T
<1>1. PICK m \in T : \A t \in T : t \subseteq m => t = m
  BY <1>0, LeastSet
<1>2. m \in SUBSET S /\ SumOf(f, m) # SumOf(g, m)
  BY DEF T
<1>3. m # {} /\ IsFiniteSet(m)
  <2>1. SumOf(f, {}) = 0
    BY SumOfEmpty
  <2>2. m # {}
    BY <1>2, <2>1, SumOfEmpty
  <2>3. QED
    BY <1>2, <2>2, FS_Subset
<1>4. Some(m) \in m
  BY <1>3, SomeIsIn
<1>5. m \ {Some(m)} \notin T
  BY <1>1, <1>4
<1>6. SumOf(f, m \ {Some(m)}) = SumOf(g, m \ {Some(m)})
  BY <1>2, <1>5 DEF T
<1>7. f[Some(m)] = g[Some(m)]
  BY <1>2, <1>4
<1>8. SumOf(f, m) = f[Some(m)] + SumOf(f, m \ {Some(m)})
  BY <1>3, SumOfStep
<1>9. SumOf(g, m) = g[Some(m)] + SumOf(g, m \ {Some(m)})
  BY <1>3, SumOfStep
<1>10. QED
  BY <1>2, <1>6, <1>7, <1>8, <1>9

\* A larger summand makes no smaller sum.
LEMMA SumOfLeq ==
    ASSUME NEW S, IsFiniteSet(S), NEW f, NEW g,
           \A x \in S : f[x] \in Nat /\ g[x] \in Nat /\ f[x] <= g[x]
    PROVE  SumOf(f, S) <= SumOf(g, S)
<1> DEFINE T == {s \in SUBSET S : ~(SumOf(f, s) <= SumOf(g, s))}
<1> SUFFICES ASSUME T # {} PROVE FALSE
  OBVIOUS
<1>0. T \subseteq SUBSET S
  OBVIOUS
<1> HIDE DEF T
<1>1. PICK m \in T : \A t \in T : t \subseteq m => t = m
  BY <1>0, LeastSet
<1>2. m \in SUBSET S /\ ~(SumOf(f, m) <= SumOf(g, m))
  BY DEF T
<1>3. m # {} /\ IsFiniteSet(m)
  <2>1. SumOf(f, {}) = 0 /\ SumOf(g, {}) = 0
    BY SumOfEmpty
  <2>2. m # {}
    BY <1>2, <2>1
  <2>3. QED
    BY <1>2, <2>2, FS_Subset
<1> DEFINE x == Some(m)
           t == m \ {x}
<1>4. x \in m /\ t \in SUBSET S /\ t # m /\ t \subseteq m
  BY <1>2, <1>3, SomeIsIn
<1>5. t \notin T
  BY <1>1, <1>4
<1>6. SumOf(f, m) = f[x] + SumOf(f, t) /\ SumOf(g, m) = g[x] + SumOf(g, t)
  BY <1>3, SumOfStep
<1>7. IsFiniteSet(t) /\ \A y \in t : f[y] \in Nat /\ g[y] \in Nat
  BY <1>4, FS_Subset
<1>8. f[x] \in Nat /\ g[x] \in Nat /\ f[x] <= g[x]
  BY <1>2, <1>4
<1> HIDE DEF x, t
<1>9. SumOf(f, t) \in Nat /\ SumOf(g, t) \in Nat
  BY <1>7, SumOfIsNat
<1>10. SumOf(f, t) <= SumOf(g, t)
  BY <1>4, <1>5 DEF T
<1>11. QED
  BY <1>2, <1>6, <1>8, <1>9, <1>10

\* The sum of sums of two summands.
LEMMA SumOfPlus ==
    ASSUME NEW S, IsFiniteSet(S), NEW f, NEW g, NEW h,
           \A x \in S : f[x] \in Nat /\ g[x] \in Nat /\ h[x] = f[x] + g[x]
    PROVE  SumOf(h, S) = SumOf(f, S) + SumOf(g, S)
<1> DEFINE T == {s \in SUBSET S : SumOf(h, s) # SumOf(f, s) + SumOf(g, s)}
<1> SUFFICES ASSUME T # {} PROVE FALSE
  OBVIOUS
<1>0. T \subseteq SUBSET S
  OBVIOUS
<1> HIDE DEF T
<1>1. PICK m \in T : \A t \in T : t \subseteq m => t = m
  BY <1>0, LeastSet
<1>2. m \in SUBSET S /\ SumOf(h, m) # SumOf(f, m) + SumOf(g, m)
  BY DEF T
<1>3. m # {} /\ IsFiniteSet(m)
  <2>1. SumOf(f, {}) = 0 /\ SumOf(g, {}) = 0 /\ SumOf(h, {}) = 0 /\ 0 = 0 + 0
    BY SumOfEmpty
  <2>2. ASSUME m = {} PROVE FALSE
    <3>1. SumOf(h, {}) # SumOf(f, {}) + SumOf(g, {})
      BY <1>2, <2>2
    <3>2. QED
      BY <2>1, <3>1
  <2>3. QED
    BY <1>2, <2>2, FS_Subset
<1> DEFINE x == Some(m)
           t == m \ {x}
<1>4. x \in m /\ t \in SUBSET S /\ t # m /\ t \subseteq m
  BY <1>2, <1>3, SomeIsIn
<1>5. t \notin T
  BY <1>1, <1>4
<1>6. /\ SumOf(f, m) = f[x] + SumOf(f, t) /\ SumOf(g, m) = g[x] + SumOf(g, t)
      /\ SumOf(h, m) = h[x] + SumOf(h, t)
  BY <1>3, SumOfStep
<1>7. IsFiniteSet(t) /\ \A y \in t : f[y] \in Nat /\ g[y] \in Nat
  BY <1>4, FS_Subset
<1>8. f[x] \in Nat /\ g[x] \in Nat /\ h[x] = f[x] + g[x]
  BY <1>2, <1>4
<1> HIDE DEF x, t
<1>9. SumOf(f, t) \in Nat /\ SumOf(g, t) \in Nat
  BY <1>7, SumOfIsNat
<1>10. SumOf(h, t) = SumOf(f, t) + SumOf(g, t)
  BY <1>4, <1>5 DEF T
<1>11. QED
  BY <1>2, <1>6, <1>8, <1>9, <1>10

\* Counting is summing ones.
LEMMA SumOfOnes ==
    ASSUME NEW S, IsFiniteSet(S), NEW f, \A x \in S : f[x] = 1
    PROVE  SumOf(f, S) = Cardinality(S)
<1> DEFINE T == {s \in SUBSET S : SumOf(f, s) # Cardinality(s)}
<1> SUFFICES ASSUME T # {} PROVE FALSE
  OBVIOUS
<1>0. T \subseteq SUBSET S
  OBVIOUS
<1> HIDE DEF T
<1>1. PICK m \in T : \A t \in T : t \subseteq m => t = m
  BY <1>0, LeastSet
<1>2. m \in SUBSET S /\ SumOf(f, m) # Cardinality(m)
  BY DEF T
<1>3. m # {} /\ IsFiniteSet(m)
  <2>1. SumOf(f, {}) = 0 /\ Cardinality({}) = 0
    BY SumOfEmpty, FS_EmptySet
  <2>2. m # {}
    BY <1>2, <2>1
  <2>3. QED
    BY <1>2, <2>2, FS_Subset
<1> DEFINE x == Some(m)
           t == m \ {x}
<1>4. x \in m /\ t \in SUBSET S /\ t # m /\ t \subseteq m
  BY <1>2, <1>3, SomeIsIn
<1>5. t \notin T
  BY <1>1, <1>4
<1>6. SumOf(f, m) = f[x] + SumOf(f, t)
  BY <1>3, SumOfStep
<1>7. Cardinality(t) = Cardinality(m) - 1 /\ Cardinality(m) \in Nat
  BY <1>3, <1>4, FS_RemoveElement, FS_CardinalityType
<1>8. f[x] = 1
  BY <1>2, <1>4
<1> HIDE DEF x, t
<1>9. SumOf(f, t) = Cardinality(t)
  BY <1>4, <1>5 DEF T
<1>10. QED
  BY <1>2, <1>6, <1>7, <1>8, <1>9

\* Two sums that differ in one place at most.
LEMMA SumOfMoves ==
    ASSUME NEW S, NEW R, IsFiniteSet(S), IsFiniteSet(R), NEW f, NEW g, NEW y,
           S \ {y} = R \ {y}, \A x \in S : f[x] \in Nat, \A x \in R : g[x] \in Nat,
           \A x \in S \ {y} : f[x] = g[x]
    PROVE  /\ SumOf(f, S) \in Nat /\ SumOf(g, R) \in Nat
           /\ y \in S /\ y \in R => SumOf(g, R) = SumOf(f, S) - f[y] + g[y]
           /\ y \in S /\ y \notin R => SumOf(g, R) = SumOf(f, S) - f[y]
           /\ y \notin S /\ y \in R => SumOf(g, R) = SumOf(f, S) + g[y]
           /\ y \notin S /\ y \notin R => SumOf(g, R) = SumOf(f, S)
<1> DEFINE rest == S \ {y}
<1>1. IsFiniteSet(rest) /\ \A x \in rest : f[x] \in Nat /\ f[x] = g[x]
  BY FS_Subset
<1>2. y \notin S => rest = S
  OBVIOUS
<1>3. y \notin R => rest = R
  OBVIOUS
<1>4. rest = R \ {y}
  OBVIOUS
<1>5. y \in S => SumOf(f, S) = f[y] + SumOf(f, rest)
  BY SumOfTakesOut
<1>6. y \in R => SumOf(g, R) = g[y] + SumOf(g, R \ {y})
  BY SumOfTakesOut
<1> HIDE DEF rest
<1>7. SumOf(f, rest) = SumOf(g, rest) /\ SumOf(f, rest) \in Nat
  BY <1>1, SumOfSame, SumOfIsNat
<1>8. SumOf(f, S) \in Nat /\ SumOf(g, R) \in Nat
  BY SumOfIsNat
<1>9. (y \in S => f[y] \in Nat) /\ (y \in R => g[y] \in Nat)
  OBVIOUS
<1>10. CASE y \in S /\ y \in R
  <2>1. SumOf(g, R) = SumOf(f, S) - f[y] + g[y]
    BY <1>4, <1>5, <1>6, <1>7, <1>9, <1>10
  <2>2. QED
    BY <1>8, <1>10, <2>1
<1>11. CASE y \in S /\ y \notin R
  <2>1. SumOf(g, R) = SumOf(f, S) - f[y]
    BY <1>3, <1>5, <1>7, <1>9, <1>11
  <2>2. QED
    BY <1>8, <1>11, <2>1
<1>12. CASE y \notin S /\ y \in R
  <2>1. rest = S /\ SumOf(g, R \ {y}) = SumOf(g, rest)
    BY <1>2, <1>4, <1>12
  <2>2. SumOf(g, R) = g[y] + SumOf(f, S)
    BY <1>6, <1>7, <1>12, <2>1
  <2>3. SumOf(g, R) = SumOf(f, S) + g[y]
    BY <1>8, <1>9, <1>12, <2>2
  <2>4. QED
    BY <1>8, <1>12, <2>3
<1>13. CASE y \notin S /\ y \notin R
  <2>1. SumOf(g, R) = SumOf(f, S)
    BY <1>2, <1>3, <1>7, <1>13
  <2>2. QED
    BY <1>8, <1>13, <2>1
<1>14. QED
  BY <1>10, <1>11, <1>12, <1>13

\* Only what is not 0 counts.
LEMMA SumOfOfPart ==
    ASSUME NEW S, IsFiniteSet(S), NEW R \in SUBSET S, NEW f, NEW g,
           \A x \in R : f[x] = g[x] /\ f[x] \in Nat, \A x \in S \ R : g[x] = 0
    PROVE  SumOf(f, R) = SumOf(g, S)
<1> DEFINE T == {s \in SUBSET S : SumOf(f, s \cap R) # SumOf(g, s)}
<1>1. T = {}
  <2> SUFFICES ASSUME T # {} PROVE FALSE
    OBVIOUS
  <2>1. T \subseteq SUBSET S
    OBVIOUS
  <2> HIDE DEF T
  <2>2. PICK m \in T : \A t \in T : t \subseteq m => t = m
    BY <2>1, LeastSet
  <2>3. m \in SUBSET S /\ SumOf(f, m \cap R) # SumOf(g, m)
    BY <2>2 DEF T
  <2>4. m # {} /\ IsFiniteSet(m)
    <3>1. SumOf(f, {}) = 0 /\ SumOf(g, {}) = 0 /\ {} \cap R = {}
      BY SumOfEmpty
    <3>2. m # {}
      BY <2>3, <3>1
    <3>3. QED
      BY <2>3, <3>2, FS_Subset
  <2> DEFINE x == Some(m)
             t == m \ {x}
  <2>5. x \in m /\ t \in SUBSET S /\ t # m /\ t \subseteq m
    BY <2>3, <2>4, SomeIsIn
  <2>6. t \notin T
    BY <2>2, <2>5
  <2>7. SumOf(g, m) = g[x] + SumOf(g, t)
    BY <2>4, SumOfStep
  <2> HIDE DEF x, t
  <2>8. SumOf(f, t \cap R) = SumOf(g, t)
    BY <2>5, <2>6 DEF T
  <2>9. IsFiniteSet(t \cap R) /\ IsFiniteSet(m \cap R)
    BY <2>4, <2>5, FS_Subset
  <2>10. SumOf(f, t \cap R) \in Nat
    <3>1. \A u \in t \cap R : f[u] \in Nat
      OBVIOUS
    <3>2. QED
      BY <2>9, <3>1, SumOfIsNat
  <2>11. CASE x \in R
    <3>1. (m \cap R) \ {x} = t \cap R /\ x \in m \cap R
      BY <2>5, <2>11 DEF t
    <3>2. \A u \in m \cap R : f[u] \in Nat
      OBVIOUS
    <3>3. SumOf(f, m \cap R) = f[x] + SumOf(f, (m \cap R) \ {x})
      BY <2>9, <3>1, <3>2, SumOfTakesOut
    <3>4. f[x] = g[x]
      BY <2>11
    <3>5. QED
      BY <2>3, <2>7, <2>8, <3>1, <3>3, <3>4
  <2>12. CASE x \notin R
    <3>1. m \cap R = t \cap R
      BY <2>5, <2>12 DEF t
    <3>2. g[x] = 0
      BY <2>3, <2>5, <2>12
    <3>3. SumOf(f, m \cap R) = SumOf(g, t) /\ SumOf(g, t) \in Nat
      BY <2>8, <2>10, <3>1
    <3>4. SumOf(g, m) = 0 + SumOf(g, t)
      BY <2>7, <3>2
    <3>5. SumOf(g, m) = SumOf(g, t)
      BY <3>3, <3>4
    <3>6. QED
      BY <2>3, <3>3, <3>5
  <2>13. QED
    BY <2>11, <2>12
<1>2. S \cap R = R /\ S \in SUBSET S
  OBVIOUS
<1>3. QED
  BY <1>1, <1>2

--------------------------------------------------------------------------------
(* Sums along sequences: from 1 up to a length.                            *)

LEMMA UpTo == ASSUME NEW n \in Nat PROVE IsFiniteSet(1 .. n) /\ n + 1 \notin 1 .. n
<1>1. 1 \in Int /\ n \in Int
  OBVIOUS
<1>2. QED
  BY <1>1, FS_Interval

\* One more.
LEMMA SumOfExtends ==
    ASSUME NEW n \in Nat, NEW f, NEW g, g[n + 1] \in Nat,
           \A i \in 1 .. n : f[i] \in Nat /\ g[i] = f[i]
    PROVE  SumOf(f, 1 .. n) \in Nat /\ SumOf(g, 1 .. n + 1) = SumOf(f, 1 .. n) + g[n + 1]
<1>1. IsFiniteSet(1 .. n) /\ IsFiniteSet(1 .. n + 1) /\ n + 1 \in 1 .. n + 1
  BY UpTo
<1>2. (1 .. n + 1) \ {n + 1} = 1 .. n
  OBVIOUS
<1>3. \A i \in 1 .. n + 1 : g[i] \in Nat
  <2>1. \A i \in 1 .. n + 1 : i = n + 1 \/ i \in 1 .. n
    OBVIOUS
  <2>2. QED
    BY <2>1
<1>4. SumOf(g, 1 .. n + 1) = g[n + 1] + SumOf(g, (1 .. n + 1) \ {n + 1})
  BY <1>1, <1>3, SumOfTakesOut
<1>5. SumOf(f, 1 .. n) = SumOf(g, 1 .. n)
  BY <1>1, SumOfSame
<1>6. SumOf(f, 1 .. n) \in Nat
  BY <1>1, SumOfIsNat
<1>7. SumOf(g, 1 .. n + 1) = g[n + 1] + SumOf(f, 1 .. n)
  <2>1. SumOf(g, (1 .. n + 1) \ {n + 1}) = SumOf(g, 1 .. n)
    BY <1>2
  <2>2. QED
    BY <1>4, <1>5, <2>1
<1> DEFINE a == SumOf(g, 1 .. n + 1)
           b == SumOf(f, 1 .. n)
<1>8. a = g[n + 1] + b /\ b \in Nat /\ g[n + 1] \in Nat
  BY <1>6, <1>7
<1> HIDE DEF a, b
<1>9. b \in Nat /\ a = b + g[n + 1]
  BY <1>8
<1>10. QED
  BY <1>9 DEF a, b

\* One sequence after the other.
LEMMA SumOfConcat ==
    ASSUME NEW m \in Nat, NEW n \in Nat, NEW f, NEW h, NEW g,
           \A i \in 1 .. m : f[i] \in Nat /\ g[i] = f[i],
           \A i \in 1 .. n : h[i] \in Nat /\ g[m + i] = h[i]
    PROVE  SumOf(g, 1 .. m + n) = SumOf(f, 1 .. m) + SumOf(h, 1 .. n)
<1> DEFINE T == {k \in 0 .. n : SumOf(g, 1 .. m + k) # SumOf(f, 1 .. m) + SumOf(h, 1 .. k)}
<1>1. T = {}
  <2> SUFFICES ASSUME T # {} PROVE FALSE
    OBVIOUS
  <2>1. T \in SUBSET Nat
    OBVIOUS
  <2> HIDE DEF T
  <2>2. PICK k \in T : \A j \in T : k <= j
    BY <2>1, LeastNat
  <2>3. k \in 0 .. n /\ SumOf(g, 1 .. m + k) # SumOf(f, 1 .. m) + SumOf(h, 1 .. k)
    BY <2>2 DEF T
  <2>4. SumOf(f, 1 .. m) \in Nat
    BY UpTo, SumOfIsNat
  <2>5. k # 0
    <3> SUFFICES ASSUME k = 0 PROVE FALSE
      OBVIOUS
    <3>1. 1 .. k = {} /\ m + k = m
      OBVIOUS
    <3>2. SumOf(h, 1 .. k) = 0
      BY <3>1, SumOfEmpty
    <3>3. SumOf(g, 1 .. m) = SumOf(f, 1 .. m)
      BY UpTo, SumOfSame
    <3>4. QED
      BY <2>3, <2>4, <3>1, <3>2, <3>3
  <2>6. PICK p \in Nat : k = p + 1
    <3>1. k - 1 \in Nat /\ k = (k - 1) + 1
      BY <2>3, <2>5
    <3>2. QED
      BY <3>1
  <2>7. p \in 0 .. n /\ p \notin T
    BY <2>2, <2>3, <2>6
  <2>8. SumOf(g, 1 .. m + p) = SumOf(f, 1 .. m) + SumOf(h, 1 .. p)
    BY <2>7 DEF T
  <2>9. /\ m + p \in Nat /\ \A i \in 1 .. m + p : g[i] \in Nat
        /\ g[m + p + 1] = h[p + 1] /\ h[p + 1] \in Nat
    <3>1. \A i \in 1 .. m + p : i \in 1 .. m \/ (i - m \in 1 .. n /\ i = m + (i - m))
      BY <2>3, <2>6
    <3>2. \A i \in 1 .. m + p : g[i] \in Nat
      BY <3>1
    <3>3. p + 1 \in 1 .. n /\ m + (p + 1) = m + p + 1
      BY <2>3, <2>6
    <3>4. QED
      BY <3>2, <3>3
  <2>10. SumOf(g, 1 .. m + p + 1) = SumOf(g, 1 .. m + p) + g[m + p + 1]
    BY <2>9, SumOfExtends
  <2>11. \A i \in 1 .. p : h[i] \in Nat
    BY <2>3, <2>6
  <2>12. SumOf(h, 1 .. p + 1) = SumOf(h, 1 .. p) + h[p + 1] /\ SumOf(h, 1 .. p) \in Nat
    BY <2>9, <2>11, SumOfExtends
  <2>13. m + p + 1 = m + k
    BY <2>6
  <2>14. QED
    BY <2>3, <2>4, <2>6, <2>8, <2>9, <2>10, <2>12, <2>13
<1>2. n \in 0 .. n
  OBVIOUS
<1>3. QED
  BY <1>1, <1>2
================================================================================
