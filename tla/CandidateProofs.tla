---------------------------- MODULE CandidateProofs ----------------------------
(***************************************************************************)
(* Proofs about Classification and Candidate.  First a picture that has    *)
(* nothing against it, however many detections it has and in whatever      *)
(* order; then the counts; then what holds of every delivery at every      *)
(* stage, and what the steps of one do to the channel, the rows and the    *)
(* sums.                                                                   *)
(***************************************************************************)
EXTENDS Candidate, SumProofs, TLAPS

-----------------------------------------------------------------------------
(* Non-maximum suppression.                                                *)

Adds(d, n, kept) ==
    {i \in Confident(d) : Rank(d, i) = n - 1 /\ \A k \in kept : ~Duplicates(d[k], d[i])}

IsKept(h, d, N) ==
    h = [n \in 0 .. N |-> IF n = 0 THEN {} ELSE h[n - 1] \cup Adds(d, n, h[n - 1])]

LEMMA KeptIsChosen == ASSUME NEW d PROVE Kept(d) = CHOOSE h : IsKept(h, d, Len(d))
BY DEF Kept, IsKept, Adds

LEMMA KeptExists == ASSUME NEW d, NEW N \in Nat PROVE \E h : IsKept(h, d, N)
<1> DEFINE T == {n \in Nat : ~\E h : IsKept(h, d, n)}
<1> SUFFICES ASSUME T # {} PROVE FALSE
  OBVIOUS
<1>1. PICK m \in T : \A n \in T : m <= n
  BY LeastNat
<1>2. m \in Nat /\ ~\E h : IsKept(h, d, m)
  OBVIOUS
<1>3. CASE m = 0
  <2> DEFINE g == [n \in 0 .. 0 |-> {}]
  <2>1. g = [n \in 0 .. 0 |-> IF n = 0 THEN {} ELSE g[n - 1] \cup Adds(d, n, g[n - 1])]
    OBVIOUS
  <2>2. QED
    BY <1>2, <1>3, <2>1 DEF IsKept
<1>4. CASE m # 0
  <2>1. m - 1 \in Nat /\ m - 1 \notin T
    BY <1>1, <1>2, <1>4
  <2>2. PICK h : IsKept(h, d, m - 1)
    BY <2>1
  <2> DEFINE g == [n \in 0 .. m |-> IF n = m THEN h[m - 1] \cup Adds(d, m, h[m - 1]) ELSE h[n]]
  <2>3. ASSUME NEW n \in 0 .. m
        PROVE  g[n] = IF n = 0 THEN {} ELSE g[n - 1] \cup Adds(d, n, g[n - 1])
    <3>1. CASE n = m
      <4>1. g[n] = h[m - 1] \cup Adds(d, m, h[m - 1])
        BY <3>1
      <4>2. g[m - 1] = h[m - 1]
        BY <1>2, <1>4
      <4>3. QED
        BY <3>1, <4>1, <4>2, <1>4
    <3>2. CASE n # m
      <4>1. n \in 0 .. m - 1
        BY <1>2, <3>2
      <4>2. h[n] = IF n = 0 THEN {} ELSE h[n - 1] \cup Adds(d, n, h[n - 1])
        BY <2>2, <4>1 DEF IsKept
      <4>3. g[n] = h[n]
        BY <3>2
      <4>4. n # 0 => g[n - 1] = h[n - 1]
        BY <1>2, <4>1
      <4> HIDE DEF g
      <4>5. QED
        BY <4>2, <4>3, <4>4
    <3>3. QED
      BY <3>1, <3>2
  <2>4. g = [n \in 0 .. m |-> g[n]]
    OBVIOUS
  <2>5. IsKept(g, d, m)
    <3> HIDE DEF g
    <3>1. QED
      BY <2>3, <2>4 DEF IsKept
  <2>6. QED
    BY <1>2, <2>5
<1>5. QED
  BY <1>3, <1>4

LEMMA KeptSteps ==
    ASSUME NEW d \in Seq(Detection)
    PROVE  /\ Kept(d)[0] = {}
           /\ \A n \in 1 .. Len(d) : Kept(d)[n] = Kept(d)[n - 1] \cup Adds(d, n, Kept(d)[n - 1])
<1>1. Len(d) \in Nat
  OBVIOUS
<1>2. IsKept(Kept(d), d, Len(d))
  BY <1>1, KeptExists, KeptIsChosen
<1>3. QED
  BY <1>1, <1>2 DEF IsKept

LEMMA KeptGrows ==
    ASSUME NEW d \in Seq(Detection), NEW n \in 0 .. Len(d)
    PROVE  Kept(d)[n] \subseteq Nms(d)
<1> DEFINE T == {k \in 0 .. Len(d) : ~(Kept(d)[Len(d) - k] \subseteq Kept(d)[Len(d)])}
<1>1. Len(d) \in Nat
  OBVIOUS
<1>2. T = {}
  <2> SUFFICES ASSUME T # {} PROVE FALSE
    OBVIOUS
  <2>0. T \in SUBSET Nat
    OBVIOUS
  <2> HIDE DEF T
  <2>1. PICK m \in T : \A k \in T : m <= k
    BY <2>0, LeastNat
  <2>2. m \in 0 .. Len(d) /\ ~(Kept(d)[Len(d) - m] \subseteq Kept(d)[Len(d)])
    BY DEF T
  <2>3. m # 0
    BY <1>1, <2>2
  <2>4. m - 1 \in 0 .. Len(d) /\ m - 1 \notin T
    BY <1>1, <2>1, <2>2, <2>3
  <2>5. Kept(d)[Len(d) - (m - 1)] \subseteq Kept(d)[Len(d)]
    BY <2>4 DEF T
  <2>6. Len(d) - (m - 1) \in 1 .. Len(d) /\ (Len(d) - (m - 1)) - 1 = Len(d) - m
    BY <1>1, <2>2, <2>3
  <2>7. Kept(d)[Len(d) - m] \subseteq Kept(d)[Len(d) - (m - 1)]
    BY <2>6, KeptSteps
  <2>8. QED
    BY <2>2, <2>5, <2>7
<1>3. Len(d) - n \in 0 .. Len(d) /\ Len(d) - (Len(d) - n) = n
  BY <1>1
<1>4. QED
  BY <1>2, <1>3 DEF Nms

LEMMA KeptAreConfident == ASSUME NEW d \in Seq(Detection) PROVE Nms(d) \subseteq Confident(d)
<1> DEFINE T == {n \in 0 .. Len(d) : ~(Kept(d)[n] \subseteq Confident(d))}
<1>1. Len(d) \in Nat
  OBVIOUS
<1>2. T = {}
  <2> SUFFICES ASSUME T # {} PROVE FALSE
    OBVIOUS
  <2>0. T \in SUBSET Nat
    OBVIOUS
  <2> HIDE DEF T
  <2>1. PICK m \in T : \A n \in T : m <= n
    BY <2>0, LeastNat
  <2>2. m \in 0 .. Len(d) /\ ~(Kept(d)[m] \subseteq Confident(d))
    BY DEF T
  <2>3. m # 0
    BY <2>2, KeptSteps
  <2>4. m - 1 \in 0 .. Len(d) /\ m - 1 \notin T /\ m \in 1 .. Len(d)
    BY <1>1, <2>1, <2>2, <2>3
  <2>5. Kept(d)[m - 1] \subseteq Confident(d)
    BY <2>4 DEF T
  <2>6. Kept(d)[m] = Kept(d)[m - 1] \cup Adds(d, m, Kept(d)[m - 1])
    BY <2>4, KeptSteps
  <2>7. QED
    BY <2>2, <2>5, <2>6 DEF Adds
<1>3. Len(d) \in 0 .. Len(d)
  BY <1>1
<1>4. QED
  BY <1>2, <1>3 DEF Nms

LEMMA ConfidentIsFinite ==
    ASSUME NEW d \in Seq(Detection)
    PROVE  /\ IsFiniteSet(Confident(d)) /\ Confident(d) \subseteq 1 .. Len(d)
           /\ \A i \in Confident(d) : i \in Nat /\ d[i] \in Detection /\ d[i].score \in Int
<1>1. Len(d) \in Nat /\ Confident(d) \subseteq 1 .. Len(d)
  BY DEF Confident
<1>2. IsFiniteSet(1 .. Len(d))
  BY <1>1, FS_Interval
<1>3. ASSUME NEW i \in Confident(d) PROVE i \in Nat /\ d[i] \in Detection /\ d[i].score \in Int
  <2>1. i \in Nat /\ d[i] \in Detection
    BY <1>1
  <2>2. QED
    BY <2>1 DEF Detection
<1>4. QED
  BY <1>1, <1>2, <1>3, FS_Subset

Ahead(d, i) == {j \in Confident(d) : Better(d, j, i)}

LEMMA RankIsBelow ==
    ASSUME NEW d \in Seq(Detection), NEW i \in Confident(d)
    PROVE  /\ Rank(d, i) \in Nat /\ Rank(d, i) + 1 \in 1 .. Len(d)
           /\ IsFiniteSet(Ahead(d, i)) /\ Rank(d, i) = Cardinality(Ahead(d, i))
<1>1. Len(d) \in Nat /\ i \in 1 .. Len(d) /\ d[i].score \in Int
  BY ConfidentIsFinite
<1>2. IsFiniteSet(1 .. Len(d)) /\ Cardinality(1 .. Len(d)) = Len(d)
  BY <1>1, FS_Interval
<1>3. IsFiniteSet((1 .. Len(d)) \ {i}) /\ Cardinality((1 .. Len(d)) \ {i}) = Len(d) - 1
  BY <1>1, <1>2, FS_RemoveElement
<1>4. Ahead(d, i) \subseteq (1 .. Len(d)) \ {i}
  BY <1>1, ConfidentIsFinite DEF Ahead, Better
<1>5. IsFiniteSet(Ahead(d, i)) /\ Cardinality(Ahead(d, i)) <= Len(d) - 1
  BY <1>3, <1>4, FS_Subset
<1>6. Cardinality(Ahead(d, i)) \in Nat
  BY <1>5, FS_CardinalityType
<1>7. Rank(d, i) = Cardinality(Ahead(d, i))
  BY DEF Rank, Ahead
<1>8. QED
  BY <1>1, <1>5, <1>6, <1>7

\* Every confident detection is kept, or there is one like it that is.
LEMMA AllAreSeen ==
    ASSUME NEW d \in Seq(Detection), NEW i \in Confident(d)
    PROVE  \E k \in Nms(d) : k = i \/ Duplicates(d[k], d[i])
<1> DEFINE r == Rank(d, i) + 1
<1>1. r \in 1 .. Len(d) /\ r - 1 = Rank(d, i) /\ r - 1 \in 0 .. Len(d) /\ r \in 0 .. Len(d)
  BY RankIsBelow
<1> HIDE DEF r
<1>2. Kept(d)[r] \subseteq Nms(d) /\ Kept(d)[r - 1] \subseteq Nms(d)
  BY <1>1, KeptGrows
<1>3. Kept(d)[r] = Kept(d)[r - 1] \cup Adds(d, r, Kept(d)[r - 1])
  BY <1>1, KeptSteps
<1>4. CASE \E k \in Kept(d)[r - 1] : Duplicates(d[k], d[i])
  BY <1>2, <1>4
<1>5. CASE ~\E k \in Kept(d)[r - 1] : Duplicates(d[k], d[i])
  <2>1. i \in Adds(d, r, Kept(d)[r - 1])
    BY <1>1, <1>5 DEF Adds
  <2>2. QED
    BY <1>2, <1>3, <2>1
<1>6. QED
  BY <1>4, <1>5

\* The best detection is kept.
LEMMA BestIsKept ==
    ASSUME NEW d \in Seq(Detection), Confident(d) # {}
    PROVE  \E i \in Confident(d) \cap Nms(d) : \A j \in Confident(d) : ~Better(d, j, i)
<1> DEFINE ranks == {Rank(d, i) : i \in Confident(d)}
<1>1. ranks \in SUBSET Nat /\ ranks # {}
  BY RankIsBelow
<1>2. PICK r \in ranks : \A q \in ranks : r <= q
  BY <1>1, LeastNat
<1>3. PICK i \in Confident(d) : Rank(d, i) = r
  OBVIOUS
<1>4. \A j \in Confident(d) : Rank(d, i) <= Rank(d, j)
  BY <1>2, <1>3
<1> HIDE DEF ranks
<1>5. ASSUME NEW j \in Confident(d), Better(d, j, i) PROVE FALSE
  <2>1. i \in Nat /\ j \in Nat /\ d[i].score \in Int /\ d[j].score \in Int
    BY ConfidentIsFinite
  <2>2. ASSUME NEW k \in Ahead(d, j) PROVE k \in Ahead(d, i)
    <3>1. k \in Confident(d) /\ Better(d, k, j)
      BY DEF Ahead
    <3>2. k \in Nat /\ d[k].score \in Int
      BY <3>1, ConfidentIsFinite
    <3>3. Better(d, k, i)
      BY <1>5, <2>1, <3>1, <3>2 DEF Better
    <3>4. QED
      BY <3>1, <3>3 DEF Ahead
  <2>3. j \in Ahead(d, i) /\ j \notin Ahead(d, j)
    BY <1>5, <2>1 DEF Ahead, Better
  <2>4. Ahead(d, j) \in SUBSET Ahead(d, i) /\ Ahead(d, j) # Ahead(d, i)
    BY <2>2, <2>3
  <2>5. IsFiniteSet(Ahead(d, i)) /\ Rank(d, i) \in Nat /\ Rank(d, j) \in Nat
    BY RankIsBelow
  <2>6. Rank(d, i) = Cardinality(Ahead(d, i)) /\ Rank(d, j) = Cardinality(Ahead(d, j))
    BY RankIsBelow
  <2>7. Rank(d, j) <= Rank(d, i) /\ Rank(d, j) # Rank(d, i)
    BY <2>4, <2>5, <2>6, FS_Subset
  <2>8. Rank(d, i) <= Rank(d, j)
    BY <1>4
  <2>9. QED
    BY <2>5, <2>7, <2>8
<1>6. Rank(d, i) = 0
  <2>1. Ahead(d, i) = {}
    BY <1>5 DEF Ahead
  <2>2. QED
    BY <2>1, RankIsBelow, FS_EmptySet
<1>7. 1 \in 1 .. Len(d) /\ 1 \in 0 .. Len(d)
  BY ConfidentIsFinite
<1>8. Kept(d)[1] = Kept(d)[0] \cup Adds(d, 1, Kept(d)[0]) /\ Kept(d)[0] = {}
  BY <1>7, KeptSteps
<1>9. i \in Adds(d, 1, {})
  BY <1>6 DEF Adds
<1>10. i \in Nms(d)
  BY <1>7, <1>8, <1>9, KeptGrows
<1>11. QED
  BY <1>5, <1>10

\* If one face is kept it is the only one there is.
LEMMA OneIsTheOnly ==
    ASSUME NEW d \in Seq(Detection), NEW i, Nms(d) = {i}, Confident(d) # {}
    PROVE  i \in Confident(d) /\ IsOnlyFace(d, i)
<1>1. i \in Confident(d) /\ \A j \in Confident(d) : ~Better(d, j, i)
  BY BestIsKept
<1>2. \A j \in Confident(d) \ {i} : Duplicates(d[i], d[j])
  BY AllAreSeen
<1>3. QED
  BY <1>1, <1>2 DEF IsOnlyFace

-----------------------------------------------------------------------------
(* Zones.                                                                  *)

Rectangle == [x : Int, y : Int, w : Nat, h : Nat]

LEMMA SharedIsNat ==
    ASSUME NEW a \in Int, NEW la \in Int, NEW b \in Int, NEW lb \in Int
    PROVE  Shared(a, la, b, lb) \in Nat
BY DEF Shared, Greatest, Least

\* Products with a common factor compare as the other factors.
LEMMA ProductsCompare ==
    ASSUME NEW a \in Nat, NEW b \in Nat, NEW c \in Nat
    PROVE  /\ a * b \in Nat /\ a <= b => a * c <= b * c
           /\ c > 0 /\ a * c <= b * c => a <= b
           /\ a > 0 /\ b > 0 => a * b > 0
           /\ a * 0 = 0 /\ 0 * a = 0
OBVIOUS

LEMMA ZoneShape ==
    /\ Unit \in Nat /\ Unit > 0 /\ Side = 4 * Unit
    /\ \A z \in Zone : Column(z) \in 0 .. 2 /\ (z - 1) \div 3 \in 0 .. 2
    /\ \A z \in Zone : \E o \in Zone : Column(o) = 1 /\ (o - 1) \div 3 = (z - 1) \div 3
    /\ \A r \in 0 .. 2 : \E o \in Zone : Column(o) = 1 /\ (o - 1) \div 3 = r
BY ClassificationConstants DEF Unit, Zone, Column

\* What a face shares with a block.
Across(face, c) == Shared(face.x, face.w, c * Unit, 2 * Unit)
Down(face, r) == Shared(face.y, face.h, r * Unit, 2 * Unit)
Tall(face) == Shared(face.y, face.h, 0, Side)

LEMMA BlockArea ==
    ASSUME NEW face, NEW z
    PROVE  OverlapArea(face, Block(z)) = Across(face, Column(z)) * Down(face, (z - 1) \div 3)
BY DEF OverlapArea, Block, Across, Down

LEMMA AreasAreNat ==
    ASSUME NEW face, face.x \in Int, face.y \in Int, face.w \in Nat, face.h \in Nat
    PROVE  /\ \A c \in 0 .. 2 : Across(face, c) \in Nat /\ Down(face, c) \in Nat
           /\ \A z \in Zone : OverlapArea(face, Block(z)) \in Nat
<1>1. ASSUME NEW c \in 0 .. 2 PROVE Across(face, c) \in Nat /\ Down(face, c) \in Nat
  <2>1. PICK b \in Int : b = c * Unit
    BY ZoneShape
  <2>2. PICK two \in Int : two = 2 * Unit
    BY ZoneShape
  <2>3. face.w \in Int /\ face.h \in Int
    OBVIOUS
  <2>4. Shared(face.x, face.w, b, two) \in Nat /\ Shared(face.y, face.h, b, two) \in Nat
    BY <2>3, SharedIsNat
  <2>5. QED
    BY <2>1, <2>2, <2>4 DEF Across, Down
<1>2. ASSUME NEW z \in Zone PROVE OverlapArea(face, Block(z)) \in Nat
  <2>1. Across(face, Column(z)) \in Nat /\ Down(face, (z - 1) \div 3) \in Nat
    BY <1>1, ZoneShape
  <2>2. QED
    BY <2>1, BlockArea, ProductsCompare
<1>3. QED
  BY <1>1, <1>2

Beats(v, z, o) == v[o] < v[z] \/ (v[o] = v[z] /\ o <= z)

\* Of the zones there is a best one.
LEMMA BestZone ==
    ASSUME NEW v \in [Zone -> Nat]
    PROVE  \E z \in Zone : \A o \in Zone : Beats(v, z, o)
<1> DEFINE T == {s \in SUBSET Zone : s # {} /\ ~\E z \in s : \A o \in s : Beats(v, z, o)}
<1>1. IsFiniteSet(Zone)
  <2>1. 1 \in Int /\ 9 \in Int
    OBVIOUS
  <2>2. QED
    BY <2>1, FS_Interval DEF Zone
<1>2. T = {}
  <2> SUFFICES ASSUME T # {} PROVE FALSE
    OBVIOUS
  <2>0. T \subseteq SUBSET Zone
    OBVIOUS
  <2> HIDE DEF T
  <2>1. PICK m \in T : \A t \in T : t \subseteq m => t = m
    BY <1>1, <2>0, LeastSet
  <2>2. m \in SUBSET Zone /\ m # {} /\ ~\E z \in m : \A o \in m : Beats(v, z, o)
    BY DEF T
  <2>3. PICK x \in m : TRUE
    BY <2>2
  <2>4. x \in Nat /\ v[x] \in Nat
    BY <2>2 DEF Zone
  <2>5. CASE m = {x}
    <3>1. Beats(v, x, x)
      BY <2>4 DEF Beats
    <3>2. QED
      BY <2>2, <2>5, <3>1
  <2>6. CASE m # {x}
    <3>1. m \ {x} \notin T /\ m \ {x} # {} /\ m \ {x} \in SUBSET Zone
      BY <2>1, <2>2, <2>3, <2>6
    <3>2. PICK z \in m \ {x} : \A o \in m \ {x} : Beats(v, z, o)
      BY <3>1 DEF T
    <3>3. z \in Nat /\ v[z] \in Nat
      BY <3>1 DEF Zone
    <3>4. CASE Beats(v, z, x)
      BY <2>2, <3>2, <3>4
    <3>5. CASE ~Beats(v, z, x)
      <4>1. ASSUME NEW o \in m PROVE Beats(v, x, o)
        <5>1. o \in Nat /\ v[o] \in Nat
          BY <2>2 DEF Zone
        <5>2. CASE o = x
          BY <2>4, <5>2 DEF Beats
        <5>3. CASE o # x
          <6>1. Beats(v, z, o)
            BY <3>2, <5>3
          <6>2. QED
            BY <2>4, <3>3, <3>5, <5>1, <6>1 DEF Beats
        <5>4. QED
          BY <5>2, <5>3
      <4>2. QED
        BY <2>2, <4>1
    <3>6. QED
      BY <3>4, <3>5
  <2>7. QED
    BY <2>5, <2>6
<1>3. Zone # {}
  BY DEF Zone
<1>4. QED
  BY <1>2, <1>3

LEMMA FaceZoneIsBest ==
    ASSUME NEW face, face.x \in Int, face.y \in Int, face.w \in Nat, face.h \in Nat
    PROVE  /\ FaceZone(face) \in Zone
           /\ \A o \in Zone : OverlapArea(face, Block(o)) <= OverlapArea(face, Block(FaceZone(face)))
<1> DEFINE v == [z \in Zone |-> OverlapArea(face, Block(z))]
<1>1. v \in [Zone -> Nat]
  BY AreasAreNat
<1>2. \E z \in Zone : \A o \in Zone : Beats(v, z, o)
  BY <1>1, BestZone
<1>3. \E z \in Zone : \A o \in Zone :
        \/ OverlapArea(face, Block(o)) < OverlapArea(face, Block(z))
        \/ OverlapArea(face, Block(o)) = OverlapArea(face, Block(z)) /\ o <= z
  BY <1>2 DEF Beats
<1>4. /\ FaceZone(face) \in Zone
      /\ \A o \in Zone :
            \/ OverlapArea(face, Block(o)) < OverlapArea(face, Block(FaceZone(face)))
            \/ OverlapArea(face, Block(o)) = OverlapArea(face, Block(FaceZone(face)))
  BY <1>3, Zenon DEF FaceZone
<1>5. QED
  BY <1>4, AreasAreNat

\* A face in an outer zone is in an outer half at least as much as in the middle.
LEMMA OuterZoneIsOuterHalf ==
    ASSUME NEW face, face.x \in Int, face.y \in Int, face.w \in Nat, face.h \in Nat,
           IsAcceptedZone(FaceZone(face))
    PROVE  \E x \in {0, 2 * Unit} :
                OverlapArea(face, HalfFrom(x)) >= OverlapArea(face, HalfFrom(Unit))
<1> DEFINE z == FaceZone(face)
           c == Column(z)
           r == (z - 1) \div 3
<1>1. z \in Zone /\ c \in {0, 2} /\ r \in 0 .. 2
  BY FaceZoneIsBest, ZoneShape DEF IsAcceptedZone
<1>2. \A o \in Zone : OverlapArea(face, Block(o)) <= Across(face, c) * Down(face, r)
  BY FaceZoneIsBest, BlockArea
<1>3. \A n \in 0 .. 2 : OverlapArea(face, HalfFrom(n * Unit)) = Across(face, n) * Tall(face)
  BY DEF OverlapArea, HalfFrom, Across, Tall
<1> HIDE DEF z, c, r
<1>4. /\ Across(face, c) \in Nat /\ Across(face, 1) \in Nat /\ Down(face, r) \in Nat
      /\ \A n \in 0 .. 2 : Down(face, n) \in Nat
  BY <1>1, AreasAreNat
<1>5. Tall(face) \in Nat
  <2>1. 0 \in Int /\ Side \in Int /\ face.h \in Int
    BY ZoneShape
  <2>2. QED
    BY <2>1, SharedIsNat DEF Tall
<1>6. \A n \in 0 .. 2 : Across(face, 1) * Down(face, n) <= Across(face, c) * Down(face, r)
  BY <1>2, ZoneShape, BlockArea
<1>7. Across(face, 1) * Tall(face) <= Across(face, c) * Tall(face)
  <2>1. CASE Down(face, r) > 0
    <3>1. Across(face, 1) * Down(face, r) <= Across(face, c) * Down(face, r)
      BY <1>1, <1>6
    <3>2. Across(face, 1) <= Across(face, c)
      BY <1>4, <2>1, <3>1, ProductsCompare
    <3>3. Across(face, 1) * Tall(face) <= Across(face, c) * Tall(face)
      BY <1>4, <1>5, <3>2, ProductsCompare
    <3>4. QED
      BY <3>3
  <2>2. CASE Down(face, r) = 0 /\ Across(face, 1) > 0
    <3>1. ASSUME NEW n \in 0 .. 2 PROVE Down(face, n) = 0
      <4>1. Across(face, 1) * Down(face, n) <= 0
        BY <1>4, <1>6, <2>2, ProductsCompare
      <4>2. QED
        BY <1>4, <2>2, <4>1, ProductsCompare
    <3>2. Down(face, 0) = 0 /\ Down(face, 2) = 0
      BY <3>1
    <3>3. Tall(face) = 0
      BY <3>2, ZoneShape DEF Tall, Down, Shared, Greatest, Least
    <3>4. Across(face, 1) * Tall(face) = 0 /\ Across(face, c) * Tall(face) = 0
      BY <1>4, <3>3, ProductsCompare
    <3>5. QED
      BY <3>4
  <2>3. CASE Across(face, 1) = 0
    <3>1. Across(face, 1) * Tall(face) = 0
      BY <1>5, <2>3, ProductsCompare
    <3>2. Across(face, c) * Tall(face) \in Nat
      BY <1>4, <1>5, ProductsCompare
    <3>3. QED
      BY <3>1, <3>2
  <2>4. QED
    BY <1>4, <2>1, <2>2, <2>3
<1>8. /\ OverlapArea(face, HalfFrom(0)) = Across(face, 0) * Tall(face)
      /\ OverlapArea(face, HalfFrom(Unit)) = Across(face, 1) * Tall(face)
      /\ OverlapArea(face, HalfFrom(2 * Unit)) = Across(face, 2) * Tall(face)
  <2>1. 0 * Unit = 0 /\ 1 * Unit = Unit
    BY ZoneShape
  <2>2. QED
    BY <1>3, <2>1
<1>9. Across(face, c) * Tall(face) \in Nat /\ Across(face, 1) * Tall(face) \in Nat
  BY <1>4, <1>5, ProductsCompare
<1>10. QED
  BY <1>1, <1>7, <1>8, <1>9

LEMMA AreaIsBounded ==
    ASSUME NEW face, face.x \in Int, face.y \in Int, face.w \in Nat, face.h \in Nat,
           AreaReasons(face) = {}
    PROVE  100 * FaceArea(face) \in Threshold.minFaceArea * Side * Side .. Threshold.maxFaceArea * Side * Side
<1>1. PICK all : all = Side * Side
  OBVIOUS
<1>2. all \in Nat /\ all > 0
  BY <1>1, ZoneShape, ProductsCompare, ClassificationConstants
<1>3. Threshold.minFaceArea \in Nat /\ Threshold.maxFaceArea \in Nat
  BY ClassificationConstants
<1>4. FaceArea(face) \in Nat
  <2>1. face.w \in Int /\ face.h \in Int /\ 0 \in Int /\ Side \in Int
    BY ClassificationConstants
  <2>2. Shared(face.x, face.w, 0, Side) \in Nat /\ Shared(face.y, face.h, 0, Side) \in Nat
    BY <2>1, SharedIsNat
  <2>3. QED
    BY <2>2, ProductsCompare DEF FaceArea, OverlapArea, Frame
<1>5. ~Below(FaceArea(face), all, Threshold.minFaceArea) /\ ~Above(FaceArea(face), all, Threshold.maxFaceArea)
  BY <1>1 DEF AreaReasons
<1>6. 100 * FaceArea(face) >= Threshold.minFaceArea * all
  BY <1>2, <1>3, <1>4, <1>5 DEF Below
<1>7. 100 * FaceArea(face) <= Threshold.maxFaceArea * all
  BY <1>2, <1>3, <1>4, <1>5 DEF Above
<1>8. Threshold.minFaceArea * Side * Side = Threshold.minFaceArea * all
      /\ Threshold.maxFaceArea * Side * Side = Threshold.maxFaceArea * all
  BY <1>1, <1>3, ClassificationConstants
<1>9. QED
  BY <1>2, <1>3, <1>4, <1>6, <1>7, <1>8

-----------------------------------------------------------------------------
\* What is classified as fit is an off-centre selfie, however its detections
\* are suppressed and its zones overlap (classify.rs, postprocess.rs).
THEOREM FitIsOffCentre ==
    ASSUME NEW p \in Pictures, Classify(p) = {} PROVE IsOffCentreSelfie(p)
<1> DEFINE d == p.detections
<1>1. d \in Seq(Detection)
  BY DEF Pictures
<1>2. /\ ~(Cardinality(Nms(d)) > 1) /\ Frontal(d) # {}
      /\ AreaReasons(d[CHOOSE i \in Frontal(d) : TRUE]) = {}
      /\ IsAcceptedZone(FaceZone(d[CHOOSE i \in Frontal(d) : TRUE]))
  BY DEF Classify
<1>3. PICK i : i = CHOOSE j \in Frontal(d) : TRUE
  OBVIOUS
<1>4. i \in Frontal(d)
  BY <1>2, <1>3
<1>5. i \in Nms(d) /\ IsFrontal(d[i])
  BY <1>4 DEF Frontal
<1> HIDE DEF d
<1>6. Nms(d) = {i} /\ Confident(d) # {}
  <2>1. Nms(d) \subseteq Confident(d) /\ IsFiniteSet(Nms(d))
    BY <1>1, KeptAreConfident, ConfidentIsFinite, FS_Subset
  <2>2. Cardinality(Nms(d)) \in Nat /\ Cardinality(Nms(d)) # 0
    BY <1>5, <2>1, FS_CardinalityType, FS_EmptySet
  <2>3. Cardinality(Nms(d)) = 1
    BY <1>2, <2>2
  <2>4. QED
    BY <1>5, <2>1, <2>3, FS_Singleton
<1>7. i \in Confident(d) /\ IsOnlyFace(d, i)
  BY <1>1, <1>6, OneIsTheOnly
<1>8. PICK face : face = d[i]
  OBVIOUS
<1>9. face.x \in Int /\ face.y \in Int /\ face.w \in Nat /\ face.h \in Nat
  <2>1. face \in Detection
    BY <1>1, <1>7, <1>8, ConfidentIsFinite
  <2>2. QED
    BY <2>1 DEF Detection
<1>10. AreaReasons(face) = {} /\ IsAcceptedZone(FaceZone(face)) /\ IsFrontal(face)
  BY <1>2, <1>3, <1>5, <1>8
<1>11. \E x \in {0, 2 * Unit} : OverlapArea(face, HalfFrom(x)) >= OverlapArea(face, HalfFrom(Unit))
  BY <1>9, <1>10, OuterZoneIsOuterHalf
<1>12. 100 * FaceArea(face) \in Threshold.minFaceArea * Side * Side .. Threshold.maxFaceArea * Side * Side
  BY <1>9, <1>10, AreaIsBounded
<1>13. QED
  BY <1>7, <1>8, <1>10, <1>11, <1>12 DEF IsOffCentreSelfie, d

-----------------------------------------------------------------------------
(* Counts.                                                                 *)

Counts == [posts : Nat, images : Nat, saved : Nat, rejected : Nat,
           category : [DetectionCategory -> Nat], sole : [DetectionCategory -> Nat]]

Three(f) == f["Face"] + f["Text"] + f["Metadata"]

LEMMA ThreeSum ==
    ASSUME NEW f \in [DetectionCategory -> Nat]
    PROVE  Three(f) \in Nat /\ SumOf(f, DetectionCategory) = Three(f)
<1>0. IsFiniteSet({"Metadata"}) /\ IsFiniteSet({"Text", "Metadata"})
  <2>1. IsFiniteSet({}) /\ {} \cup {"Metadata"} = {"Metadata"}
        /\ {"Metadata"} \cup {"Text"} = {"Text", "Metadata"}
    BY FS_EmptySet
  <2>2. IsFiniteSet({} \cup {"Metadata"})
    BY <2>1, FS_AddElement
  <2>3. IsFiniteSet({"Metadata"} \cup {"Text"})
    BY <2>1, <2>2, FS_AddElement
  <2>4. QED
    BY <2>1, <2>2, <2>3
<1>1. IsFiniteSet(DetectionCategory) /\ DetectionCategory = {"Face", "Text", "Metadata"}
  <2>1. IsFiniteSet({"Text", "Metadata"} \cup {"Face"})
    BY <1>0, FS_AddElement
  <2>2. {"Text", "Metadata"} \cup {"Face"} = DetectionCategory
    BY DEF DetectionCategory
  <2>3. QED
    BY <2>1, <2>2 DEF DetectionCategory
<1>2. \A x \in DetectionCategory : f[x] \in Nat
  OBVIOUS
<1>3. SumOf(f, DetectionCategory) = f["Face"] + SumOf(f, DetectionCategory \ {"Face"})
  BY <1>1, <1>2, SumOfTakesOut
<1>4. DetectionCategory \ {"Face"} = {"Text", "Metadata"}
  BY <1>1
<1>5. IsFiniteSet({"Text", "Metadata"}) /\ \A x \in {"Text", "Metadata"} : f[x] \in Nat
  BY <1>0, <1>1, <1>2
<1>6. SumOf(f, {"Text", "Metadata"}) = f["Text"] + SumOf(f, {"Text", "Metadata"} \ {"Text"})
  BY <1>5, SumOfTakesOut
<1>7. {"Text", "Metadata"} \ {"Text"} = {"Metadata"}
  OBVIOUS
<1>8. IsFiniteSet({"Metadata"}) /\ \A x \in {"Metadata"} : f[x] \in Nat
  BY <1>0, <1>1, <1>2
<1>9. SumOf(f, {"Metadata"}) = f["Metadata"] + SumOf(f, {"Metadata"} \ {"Metadata"})
  BY <1>8, SumOfTakesOut
<1>10. {"Metadata"} \ {"Metadata"} = {} /\ SumOf(f, {}) = 0
  BY SumOfEmpty
<1>11. f["Face"] \in Nat /\ f["Text"] \in Nat /\ f["Metadata"] \in Nat
  BY <1>1, <1>2
<1>12. SumOf(f, {"Metadata"}) = f["Metadata"] + 0
  BY <1>9, <1>10
<1>13. SumOf(f, {"Text", "Metadata"}) = f["Text"] + SumOf(f, {"Metadata"})
  BY <1>6, <1>7
<1>14. SumOf(f, DetectionCategory) = f["Face"] + SumOf(f, {"Text", "Metadata"})
  BY <1>3, <1>4
<1>15. QED
  BY <1>11, <1>12, <1>13, <1>14 DEF Three

LEMMA PlusIsCounts == ASSUME NEW a \in Counts, NEW b \in Counts PROVE Plus(a, b) \in Counts
BY DEF Counts, Plus

LEMMA FixedCounts ==
    /\ NoCounts \in Counts /\ SavedOne \in Counts
    /\ \A n \in Nat : Observed(n) \in Counts
    /\ \A reasons : Rejected(reasons) \in Counts
<1>1. ASSUME NEW reasons PROVE Rejected(reasons) \in Counts
  <2>1. NoCounts \in Counts
    BY DEF Counts, NoCounts
  <2>2. QED
    BY <2>1 DEF Counts, NoCounts, Rejected
<1>2. QED
  BY <1>1 DEF Counts, NoCounts, SavedOne, Observed

\* One rejection.
LEMMA RejectedIsOne ==
    ASSUME NEW reasons, reasons # {}
    PROVE  LET c == Rejected(reasons)
           IN  /\ c.rejected = 1 /\ c.saved = 0 /\ c.images = 0
               /\ 1 <= Three(c.category) /\ Three(c.sole) <= 1
<1> DEFINE c == Rejected(reasons)
           seen == {Category(r) : r \in reasons}
<1>1. c.rejected = 1 /\ c.saved = 0 /\ c.images = 0
  BY DEF Rejected, NoCounts
<1>2. c.category = [k \in DetectionCategory |-> IF k \in seen THEN 1 ELSE 0]
  BY DEF Rejected, NoCounts
<1>3. c.sole = [k \in DetectionCategory |-> IF k \in seen /\ seen = {k} THEN 1 ELSE 0]
  BY DEF Rejected, NoCounts
<1>4. seen # {} /\ seen \subseteq DetectionCategory
  BY DEF Category, DetectionCategory
<1> HIDE DEF c, seen
<1>5. "Face" \in seen \/ "Text" \in seen \/ "Metadata" \in seen
  BY <1>4 DEF DetectionCategory
<1>6. 1 <= Three(c.category)
  BY <1>2, <1>5 DEF Three, DetectionCategory
<1>7. Three(c.sole) <= 1
  BY <1>3 DEF Three, DetectionCategory
<1>8. QED
  BY <1>1, <1>6, <1>7 DEF c

\* What a count of decisions may leave open: n images are undecided.
Leaves(c, n) ==
    /\ c.saved + c.rejected + n <= c.images + c.category["Metadata"]
    /\ Three(c.sole) <= c.rejected /\ c.rejected <= Three(c.category)

LEMMA LeavesMakeSense ==
    ASSUME NEW c \in Counts, Leaves(c, 0) PROVE CountsMakeSense(c)
<1>1. /\ c.category \in [DetectionCategory -> Nat] /\ c.sole \in [DetectionCategory -> Nat]
      /\ c.saved \in Nat /\ c.rejected \in Nat
  BY DEF Counts
<1>2. MapThenSumSet(LAMBDA k : c.sole[k], DetectionCategory) = Three(c.sole)
  BY <1>1, ThreeSum DEF SumOf
<1>3. MapThenSumSet(LAMBDA k : c.category[k], DetectionCategory) = Three(c.category)
  BY <1>1, ThreeSum DEF SumOf
<1>4. c.saved + c.rejected <= c.images + c.category["Metadata"]
  BY <1>1 DEF Leaves
<1>5. DOMAIN c = DOMAIN NoCounts
  BY DEF Counts, NoCounts
<1>6. QED
  BY <1>2, <1>3, <1>4, <1>5 DEF CountsMakeSense, Leaves

LEMMA PlusFields ==
    ASSUME NEW a \in Counts, NEW b \in Counts
    PROVE  /\ Plus(a, b).saved = a.saved + b.saved
           /\ Plus(a, b).rejected = a.rejected + b.rejected
           /\ Plus(a, b).images = a.images + b.images
           /\ Plus(a, b).category["Metadata"] = a.category["Metadata"] + b.category["Metadata"]
           /\ Three(Plus(a, b).category) = Three(a.category) + Three(b.category)
           /\ Three(Plus(a, b).sole) = Three(a.sole) + Three(b.sole)
BY DEF Plus, Counts, Three, DetectionCategory

LEMMA CountFields ==
    ASSUME NEW c \in Counts
    PROVE  /\ c.saved \in Nat /\ c.rejected \in Nat /\ c.images \in Nat
           /\ c.category["Metadata"] \in Nat /\ Three(c.category) \in Nat /\ Three(c.sole) \in Nat
BY DEF Counts, Three, DetectionCategory

LEMMA LeavesAdd ==
    ASSUME NEW a \in Counts, NEW b \in Counts, NEW n \in Nat, Leaves(a, n), Leaves(b, 0)
    PROVE  Leaves(Plus(a, b), n)
BY PlusFields, CountFields DEF Leaves

LEMMA LeavesSaved ==
    ASSUME NEW c \in Counts, NEW n \in Nat, Leaves(c, n + 1)
    PROVE  Leaves(Plus(c, SavedOne), n)
<1>1. SavedOne \in Counts
  BY FixedCounts
<1>2. /\ SavedOne.saved = 1 /\ SavedOne.rejected = 0 /\ SavedOne.images = 0
      /\ SavedOne.category["Metadata"] = 0 /\ Three(SavedOne.category) = 0 /\ Three(SavedOne.sole) = 0
  BY DEF SavedOne, NoCounts, Three, DetectionCategory
<1>3. QED
  BY <1>1, <1>2, PlusFields, CountFields DEF Leaves

LEMMA FreshCounts ==
    /\ Leaves(NoCounts, 0) /\ NoCounts.saved = 0
    /\ \A n \in Nat : Leaves(Observed(n), n) /\ Observed(n).saved = 0 /\ Observed(n).rejected = 0
    /\ Leaves(Plus(Observed(0), Rejected({"BlockedByMetadata"})), 0)
    /\ Plus(Observed(0), Rejected({"BlockedByMetadata"})).saved = 0
<1>1. Leaves(NoCounts, 0) /\ NoCounts.saved = 0
  BY DEF Leaves, NoCounts, Three, DetectionCategory
<1>2. ASSUME NEW n \in Nat
      PROVE  Leaves(Observed(n), n) /\ Observed(n).saved = 0 /\ Observed(n).rejected = 0
  BY DEF Leaves, Observed, NoCounts, Three, DetectionCategory
<1> DEFINE c == Rejected({"BlockedByMetadata"})
<1>3. c \in Counts /\ Observed(0) \in Counts
  BY FixedCounts
<1>4. c.rejected = 1 /\ c.saved = 0 /\ c.images = 0 /\ 1 <= Three(c.category) /\ Three(c.sole) <= 1
  BY RejectedIsOne
<1>5. c.category["Metadata"] = 1
  BY DEF Rejected, NoCounts, Category, DetectionCategory
<1> HIDE DEF c
<1>6. Leaves(c, 0)
  BY <1>3, <1>4, <1>5, CountFields DEF Leaves
<1>7. Leaves(Plus(Observed(0), c), 0)
  BY <1>2, <1>3, <1>6, LeavesAdd
<1>8. Plus(Observed(0), c).saved = 0
  BY <1>2, <1>3, <1>4, PlusFields
<1>9. QED
  BY <1>1, <1>2, <1>7, <1>8 DEF c

LEMMA RefusalsAreCounts ==
    ASSUME NEW got \in Seq(Blob)
    PROVE  /\ Refusals(got) \in Counts /\ Refusals(got).saved = 0 /\ Refusals(got).images = 0
           /\ Refusals(got).rejected = Cardinality(DOMAIN got \ Survivors(got))
           /\ Three(Refusals(got).sole) <= Refusals(got).rejected
           /\ Refusals(got).rejected <= Three(Refusals(got).category)
<1> DEFINE refused == DOMAIN got \ Survivors(got)
           of(i) == Rejected(Reasons(got[i]))
           one == [i \in refused |-> of(i).rejected]
           cat(c) == [i \in refused |-> of(i).category[c]]
           alone(c) == [i \in refused |-> of(i).sole[c]]
           new == Refusals(got)
<1>1. IsFiniteSet(refused)
  <2>1. DOMAIN got = 1 .. Len(got) /\ Len(got) \in Nat
    OBVIOUS
  <2>2. IsFiniteSet(DOMAIN got)
    BY <2>1, FS_Interval
  <2>3. QED
    BY <2>2, FS_Subset
<1>2. new = [NoCounts EXCEPT
                !.rejected = SumOf(one, refused),
                !.category = [c \in DetectionCategory |-> SumOf(cat(c), refused)],
                !.sole     = [c \in DetectionCategory |-> SumOf(alone(c), refused)]]
  <2>1. MapThenSumSet(LAMBDA i : of(i).rejected, refused) = SumOf(one, refused)
    BY DEF SumOf, MapThenSumSet, MapThenFoldSet
  <2>2. ASSUME NEW c
        PROVE  /\ MapThenSumSet(LAMBDA i : of(i).category[c], refused) = SumOf(cat(c), refused)
               /\ MapThenSumSet(LAMBDA i : of(i).sole[c], refused) = SumOf(alone(c), refused)
    BY DEF SumOf, MapThenSumSet, MapThenFoldSet
  <2>3. QED
    BY <2>1, <2>2 DEF Refusals
<1>3. ASSUME NEW i \in refused
      PROVE  /\ of(i) \in Counts /\ of(i).rejected = 1
             /\ 1 <= Three(of(i).category) /\ Three(of(i).sole) <= 1
  <2>1. Reasons(got[i]) # {}
    BY DEF Survivors, Fit
  <2>2. QED
    BY <2>1, RejectedIsOne, FixedCounts
<1> HIDE DEF refused, of
<1>4. \A i \in refused : one[i] = 1
  BY <1>3
<1>5. SumOf(one, refused) = Cardinality(refused) /\ Cardinality(refused) \in Nat
  BY <1>1, <1>4, SumOfOnes, FS_CardinalityType
<1>6. ASSUME NEW i \in refused, NEW c \in DetectionCategory
      PROVE  cat(c)[i] = of(i).category[c] /\ alone(c)[i] = of(i).sole[c]
             /\ cat(c)[i] \in Nat /\ alone(c)[i] \in Nat
  BY <1>3 DEF Counts
<1>7. \A c \in DetectionCategory : SumOf(cat(c), refused) \in Nat /\ SumOf(alone(c), refused) \in Nat
  <2>1. SUFFICES ASSUME NEW c \in DetectionCategory
                 PROVE  SumOf(cat(c), refused) \in Nat /\ SumOf(alone(c), refused) \in Nat
    OBVIOUS
  <2>2. \A i \in refused : cat(c)[i] \in Nat /\ alone(c)[i] \in Nat
    BY <1>6
  <2> HIDE DEF cat, alone
  <2>3. QED
    BY <1>1, <2>2, SumOfIsNat
<1>8. "Face" \in DetectionCategory /\ "Text" \in DetectionCategory /\ "Metadata" \in DetectionCategory
  BY DEF DetectionCategory
<1> DEFINE catFT == [i \in refused |-> cat("Face")[i] + cat("Text")[i]]
           catAll == [i \in refused |-> catFT[i] + cat("Metadata")[i]]
           aloneFT == [i \in refused |-> alone("Face")[i] + alone("Text")[i]]
           aloneAll == [i \in refused |-> aloneFT[i] + alone("Metadata")[i]]
<1>9. ASSUME NEW i \in refused
      PROVE  /\ catFT[i] = cat("Face")[i] + cat("Text")[i] /\ catFT[i] \in Nat
             /\ catAll[i] = catFT[i] + cat("Metadata")[i] /\ catAll[i] \in Nat
             /\ one[i] <= catAll[i]
             /\ aloneFT[i] = alone("Face")[i] + alone("Text")[i] /\ aloneFT[i] \in Nat
             /\ aloneAll[i] = aloneFT[i] + alone("Metadata")[i] /\ aloneAll[i] \in Nat
             /\ aloneAll[i] <= one[i]
  <2>1. /\ cat("Face")[i] = of(i).category["Face"] /\ cat("Face")[i] \in Nat
        /\ cat("Text")[i] = of(i).category["Text"] /\ cat("Text")[i] \in Nat
        /\ cat("Metadata")[i] = of(i).category["Metadata"] /\ cat("Metadata")[i] \in Nat
        /\ alone("Face")[i] = of(i).sole["Face"] /\ alone("Face")[i] \in Nat
        /\ alone("Text")[i] = of(i).sole["Text"] /\ alone("Text")[i] \in Nat
        /\ alone("Metadata")[i] = of(i).sole["Metadata"] /\ alone("Metadata")[i] \in Nat
    BY <1>6, <1>8
  <2>2. one[i] = 1
    BY <1>4
  <2>3. /\ 1 <= of(i).category["Face"] + of(i).category["Text"] + of(i).category["Metadata"]
        /\ of(i).sole["Face"] + of(i).sole["Text"] + of(i).sole["Metadata"] <= 1
    BY <1>3 DEF Three
  <2> HIDE DEF cat, alone, one
  <2>4. /\ catFT[i] = cat("Face")[i] + cat("Text")[i]
        /\ catAll[i] = catFT[i] + cat("Metadata")[i]
        /\ aloneFT[i] = alone("Face")[i] + alone("Text")[i]
        /\ aloneAll[i] = aloneFT[i] + alone("Metadata")[i]
    OBVIOUS
  <2> HIDE DEF catFT, catAll, aloneFT, aloneAll
  <2>5. catFT[i] \in Nat /\ aloneFT[i] \in Nat
    BY <2>1, <2>4
  <2>6. catAll[i] \in Nat /\ aloneAll[i] \in Nat
    BY <2>1, <2>4, <2>5
  <2>7. one[i] <= catAll[i]
    BY <2>1, <2>2, <2>3, <2>4
  <2>8. aloneAll[i] <= one[i]
    BY <2>1, <2>2, <2>3, <2>4
  <2>9. QED
    BY <2>4, <2>5, <2>6, <2>7, <2>8
<1>20. \A i \in refused : /\ cat("Face")[i] \in Nat /\ cat("Text")[i] \in Nat /\ cat("Metadata")[i] \in Nat
                          /\ alone("Face")[i] \in Nat /\ alone("Text")[i] \in Nat
                          /\ alone("Metadata")[i] \in Nat
                          /\ one[i] \in Nat
  BY <1>4, <1>6, <1>8
<1> HIDE DEF cat, alone, catFT, catAll, aloneFT, aloneAll, one, new
<1>10. SumOf(catFT, refused) = SumOf(cat("Face"), refused) + SumOf(cat("Text"), refused)
  BY <1>1, <1>9, <1>20, SumOfPlus
<1>11. SumOf(catAll, refused) = SumOf(catFT, refused) + SumOf(cat("Metadata"), refused)
  BY <1>1, <1>9, <1>20, SumOfPlus
<1>12. SumOf(aloneFT, refused) = SumOf(alone("Face"), refused) + SumOf(alone("Text"), refused)
  BY <1>1, <1>9, <1>20, SumOfPlus
<1>13. SumOf(aloneAll, refused) = SumOf(aloneFT, refused) + SumOf(alone("Metadata"), refused)
  BY <1>1, <1>9, <1>20, SumOfPlus
<1>14. SumOf(one, refused) <= SumOf(catAll, refused)
  BY <1>1, <1>9, <1>20, SumOfLeq
<1>15. SumOf(aloneAll, refused) <= SumOf(one, refused)
  BY <1>1, <1>9, <1>20, SumOfLeq
<1>16. /\ new.rejected = SumOf(one, refused) /\ new.saved = 0 /\ new.images = 0
       /\ new.category = [c \in DetectionCategory |-> SumOf(cat(c), refused)]
       /\ new.sole = [c \in DetectionCategory |-> SumOf(alone(c), refused)]
  BY <1>2 DEF NoCounts
<1>17. new \in Counts
  BY <1>2, <1>5, <1>7 DEF Counts, NoCounts
<1>18. Three(new.category) = SumOf(catAll, refused)
  BY <1>8, <1>10, <1>11, <1>16 DEF Three
<1>19. Three(new.sole) = SumOf(aloneAll, refused)
  BY <1>8, <1>12, <1>13, <1>16 DEF Three
<1>21. QED
  BY <1>5, <1>14, <1>15, <1>16, <1>17, <1>18, <1>19 DEF new, refused

\* Classifying all that was downloaded leaves the survivors to be saved.
LEMMA ClassifiedLeaves ==
    ASSUME NEW got \in Seq(Blob), NEW n \in Nat, Len(got) <= n
    PROVE  /\ IsFiniteSet(Survivors(got)) /\ Survivors(got) \subseteq DOMAIN got
           /\ Plus(Observed(n), Refusals(got)) \in Counts
           /\ Plus(Observed(n), Refusals(got)).saved = 0
           /\ Leaves(Plus(Observed(n), Refusals(got)), Cardinality(Survivors(got)))
<1> DEFINE refused == DOMAIN got \ Survivors(got)
           kept == Survivors(got)
           a == Observed(n)
           b == Refusals(got)
<1>1. DOMAIN got = 1 .. Len(got) /\ Len(got) \in Nat
  OBVIOUS
<1>2. IsFiniteSet(DOMAIN got) /\ Cardinality(DOMAIN got) = Len(got)
  <2>1. 1 \in Int /\ Len(got) \in Int
    BY <1>1
  <2>2. /\ IsFiniteSet(1 .. Len(got))
        /\ Cardinality(1 .. Len(got)) = IF 1 > Len(got) THEN 0 ELSE Len(got) - 1 + 1
    BY <2>1, FS_Interval
  <2>3. Cardinality(1 .. Len(got)) = Len(got)
    BY <1>1, <2>2
  <2>4. QED
    BY <1>1, <2>2, <2>3
<1>3. kept \subseteq DOMAIN got
  BY DEF Survivors
<1>4. IsFiniteSet(kept) /\ IsFiniteSet(refused)
  BY <1>2, <1>3, FS_Subset
<1>5. Cardinality(refused) = Cardinality(DOMAIN got) - Cardinality(DOMAIN got \cap kept)
  BY <1>2, FS_Difference
<1>6. DOMAIN got \cap kept = kept
  BY <1>3
<1>7. Cardinality(kept) \in Nat /\ Cardinality(refused) + Cardinality(kept) = Len(got)
  <2>1. Cardinality(kept) \in Nat /\ Cardinality(refused) \in Nat
    BY <1>4, FS_CardinalityType
  <2>2. Cardinality(refused) = Len(got) - Cardinality(kept)
    BY <1>2, <1>5, <1>6
  <2> HIDE DEF refused, kept
  <2>3. QED
    BY <1>1, <2>1, <2>2
<1>8. /\ b \in Counts /\ b.saved = 0 /\ b.images = 0 /\ b.rejected = Cardinality(refused)
      /\ Three(b.sole) <= b.rejected /\ b.rejected <= Three(b.category)
  BY RefusalsAreCounts
<1>9. a \in Counts /\ Leaves(a, n) /\ a.saved = 0 /\ a.rejected = 0
  BY FixedCounts, FreshCounts
<1> HIDE DEF a, b, refused, kept
<1>10. Plus(a, b) \in Counts /\ Plus(a, b).saved = 0
  <2>1. Plus(a, b) \in Counts
    BY <1>8, <1>9, PlusIsCounts
  <2>2. Plus(a, b).saved = a.saved + b.saved
    BY <1>8, <1>9, PlusFields
  <2>3. QED
    BY <1>8, <1>9, <2>1, <2>2
<1>11. Leaves(Plus(a, b), Cardinality(kept))
  <2>1. /\ Plus(a, b).saved = 0 /\ Plus(a, b).rejected = b.rejected
        /\ Plus(a, b).images = a.images
        /\ Plus(a, b).category["Metadata"] = a.category["Metadata"] + b.category["Metadata"]
        /\ Three(Plus(a, b).category) = Three(a.category) + Three(b.category)
        /\ Three(Plus(a, b).sole) = Three(a.sole) + Three(b.sole)
    <3>1. /\ Plus(a, b).saved = a.saved + b.saved
          /\ Plus(a, b).rejected = a.rejected + b.rejected
          /\ Plus(a, b).images = a.images + b.images
          /\ Plus(a, b).category["Metadata"] = a.category["Metadata"] + b.category["Metadata"]
          /\ Three(Plus(a, b).category) = Three(a.category) + Three(b.category)
          /\ Three(Plus(a, b).sole) = Three(a.sole) + Three(b.sole)
      BY <1>8, <1>9, PlusFields
    <3>2. b.rejected \in Nat /\ a.images \in Nat
      BY <1>8, <1>9, CountFields
    <3>3. QED
      BY <1>8, <1>9, <3>1, <3>2
  <2>2. /\ n <= a.images + a.category["Metadata"]
        /\ Three(a.sole) = 0 /\ Three(a.category) \in Nat
    BY <1>9, CountFields DEF Leaves
  <2>3. /\ b.category["Metadata"] \in Nat /\ a.category["Metadata"] \in Nat /\ a.images \in Nat
        /\ b.rejected \in Nat /\ Three(b.category) \in Nat /\ Three(b.sole) \in Nat
    BY <1>8, <1>9, CountFields
  <2>4. b.rejected + Cardinality(kept) <= n
    BY <1>1, <1>7, <1>8
  <2>5. Plus(a, b).saved + Plus(a, b).rejected + Cardinality(kept)
            <= Plus(a, b).images + Plus(a, b).category["Metadata"]
    BY <1>7, <2>1, <2>2, <2>3, <2>4
  <2>6. /\ Three(Plus(a, b).sole) <= Plus(a, b).rejected
        /\ Plus(a, b).rejected <= Three(Plus(a, b).category)
    BY <1>8, <2>1, <2>2, <2>3
  <2>7. QED
    BY <2>5, <2>6 DEF Leaves
<1>12. QED
  BY <1>3, <1>4, <1>10, <1>11 DEF a, b, kept

-----------------------------------------------------------------------------
(* What holds of one delivery, given what is known of the posts and blobs. *)

World == [clear  |-> {p \in Post : labels[p] = {} \/ p \in late},
          self   |-> {p \in Post : labels[p] = {"self"}},
          stored |-> {b \in Blob : rows[b] # <<>> \/ b \in failures},
          fit    |-> {b \in Blob : Fit(b)}]

Grows(w, v) == /\ w.clear \subseteq v.clear /\ w.self = v.self
               /\ w.stored \subseteq v.stored /\ w.fit = v.fit

Shape(r) ==
    \/ r \in [stage : {"absent", "checking", "lost"}]
    \/ r \in [stage : {"passed", "refused"}, counts : Counts]
    \/ r \in [stage : {"downloading"}, counts : Counts, pending : SUBSET Nat, got : Seq(Blob),
              whole : BOOLEAN]
    \/ r \in [stage : {"saving"}, counts : Counts, got : Seq(Blob), records : SUBSET Nat,
              whole : BOOLEAN]
    \/ r \in [stage : {"done"}, whole : BOOLEAN]

\* Each wanted image is under way, or there.
Downloads(p, r) ==
    /\ r.pending \subseteq DOMAIN Images[p] /\ r.counts = Observed(Len(Images[p]))
    /\ Len(r.got) + Cardinality(r.pending) <= Len(Images[p])
    /\ r.pending = {} \/ r.whole
    /\ r.whole => \A i \in DOMAIN Images[p] :
                    i \in r.pending \/ \E k \in DOMAIN r.got : r.got[k] = Images[p][i]

\* What is to be saved is fit, and what is fit is stored or to be saved.
Saves(p, r, w) ==
    /\ IsFiniteSet(r.records) /\ Leaves(r.counts, Cardinality(r.records))
    /\ \A k \in r.records : k \in DOMAIN r.got /\ r.got[k] \in w.fit /\ p \in w.clear
    /\ r.whole => \A i \in DOMAIN Images[p] : Images[p][i] \in w.fit =>
                    Images[p][i] \in w.stored \/ \E k \in r.records : r.got[k] = Images[p][i]

Fine(p, r, w) ==
    /\ r.stage = "checking" => p \notin w.self
    /\ r.stage = "passed" => p \in w.clear /\ r.counts = Observed(Len(Images[p]))
    /\ r.stage = "refused" => r.counts = Plus(Observed(0), Rejected({"BlockedByMetadata"}))
    /\ r.stage = "downloading" => p \in w.clear /\ Downloads(p, r)
    /\ r.stage = "saving" => Saves(p, r, w)
    /\ r.stage = "done" /\ r.whole =>
        \A i \in DOMAIN Images[p] : Images[p][i] \in w.fit => Images[p][i] \in w.stored

PostsInv ==
    /\ labels \in [Post -> {{}, {"self"}, {"thread"}}]
    /\ picture \in [Blob -> UNION {Picture[b] : b \in Blob}]
    /\ delivered \in [Post -> Nat]

JobsInv ==
    /\ DOMAIN job = Job
    /\ \A j \in Job : Shape(job[j]) /\ Fine(j[1], job[j], World)
    /\ \A j \in Job : job[j].stage # "absent" => j[2] <= delivered[j[1]]

QueueInv ==
    /\ queue \in Seq(Job)
    /\ \A m, n \in DOMAIN queue : queue[m] = queue[n] => m = n
    /\ \A n \in DOMAIN queue : job[queue[n]].stage = "saving"

RowsInv ==
    /\ rows \in [Blob -> Seq(Post)]
    /\ \A b \in Blob : rows[b] # <<>> =>
        b \in World.fit /\ \A i \in DOMAIN rows[b] : rows[b][i] \in World.clear
    /\ \A b \in Blob : Len(rows[b]) <= IF b \in unseen THEN 2 ELSE 1

CountsInv == total \in Counts /\ Leaves(total, 0) /\ total.saved + InHand = Rows

LEMMA FineGrows ==
    ASSUME NEW p, NEW r, NEW w, NEW v, Fine(p, r, w), Grows(w, v)
    PROVE  Fine(p, r, v)
BY DEF Fine, Saves, Grows

LEMMA SavingShape ==
    ASSUME NEW r, Shape(r), r.stage = "saving"
    PROVE  r \in [stage : {"saving"}, counts : Counts, got : Seq(Blob), records : SUBSET Nat,
                  whole : BOOLEAN]
BY DEF Shape

LEMMA DownloadingShape ==
    ASSUME NEW r, Shape(r), r.stage = "downloading"
    PROVE  r \in [stage : {"downloading"}, counts : Counts, pending : SUBSET Nat,
                  got : Seq(Blob), whole : BOOLEAN]
BY DEF Shape

LEMMA CountedShape ==
    ASSUME NEW r, Shape(r), r.stage \in {"passed", "refused", "downloading", "saving"}
    PROVE  r.counts \in Counts
BY DEF Shape

\* Only one delivery moves in a step.
Moves(j) == /\ DOMAIN job' = DOMAIN job
            /\ \A k \in DOMAIN job : k # j => job'[k] = job[k]

LEMMA JobTyped ==
    ASSUME NEW j \in Job
    PROVE  /\ j[1] \in Post /\ j[2] \in Nat
           /\ Images[j[1]] \in Seq(Blob) /\ Len(Images[j[1]]) \in Nat
           /\ DOMAIN Images[j[1]] = 1 .. Len(Images[j[1]])
           /\ IsFiniteSet(DOMAIN Images[j[1]])
           /\ Cardinality(DOMAIN Images[j[1]]) = Len(Images[j[1]])
<1>1. j[1] \in Post /\ j[2] \in Nat
  BY CandidateConstants DEF Job
<1>2. /\ Images[j[1]] \in Seq(Blob) /\ Len(Images[j[1]]) \in Nat
      /\ DOMAIN Images[j[1]] = 1 .. Len(Images[j[1]])
  BY <1>1, CandidateConstants
<1>3. 1 \in Int /\ Len(Images[j[1]]) \in Int
  BY <1>2
<1>4. /\ IsFiniteSet(1 .. Len(Images[j[1]]))
      /\ Cardinality(1 .. Len(Images[j[1]]))
            = IF 1 > Len(Images[j[1]]) THEN 0 ELSE Len(Images[j[1]]) - 1 + 1
  BY <1>3, FS_Interval
<1>5. Cardinality(1 .. Len(Images[j[1]])) = Len(Images[j[1]])
  BY <1>2, <1>4
<1>6. QED
  BY <1>1, <1>2, <1>4, <1>5

LEMMA JobIsFinite == IsFiniteSet(Job)
<1>1. IsFiniteSet(Post)
  BY CandidateConstants
<1>2. 1 \in Int /\ 1 + MaxReplays \in Int
  BY CandidateConstants
<1>3. IsFiniteSet(1 .. 1 + MaxReplays)
  BY <1>2, FS_Interval
<1>4. QED
  BY <1>1, <1>3, FS_Product DEF Job

LEMMA LeastIsIn ==
    ASSUME NEW S \in SUBSET Nat, S # {} PROVE Min(S) \in S
<1>1. \E x \in S : \A y \in S : x <= y
  BY LeastNat
<1>2. QED
  BY <1>1 DEF Min

-----------------------------------------------------------------------------
(* Up to the save stage.                                                   *)

LEMMA CheckMetaIsFine ==
    ASSUME PostsInv, JobsInv, NEW j \in Job, NEW fetched \in BOOLEAN, CheckMeta(j, fetched)
    PROVE  Moves(j) /\ Shape(job'[j]) /\ Fine(j[1], job'[j], World)
<1>1. DOMAIN job = Job /\ Fine(j[1], job[j], World) /\ job[j].stage = "checking"
  BY DEF JobsInv, CheckMeta
<1>2. j[1] \in Post /\ Len(Images[j[1]]) \in Nat
  BY JobTyped
<1>3. CASE Passes(j[1], fetched)
  <2>1. Moves(j) /\ job'[j] = [stage |-> "passed", counts |-> Observed(Len(Images[j[1]]))]
    BY <1>1, <1>3 DEF CheckMeta, Moves
  <2>2. Observed(Len(Images[j[1]])) \in Counts
    BY <1>2, FixedCounts
  <2>3. j[1] \in World.clear
    BY <1>1, <1>2, <1>3 DEF Fine, World, Passes, PostsInv
  <2>4. QED
    BY <2>1, <2>2, <2>3 DEF Shape, Fine
<1>4. CASE ~Passes(j[1], fetched)
  <2> DEFINE c == Plus(Observed(0), Rejected({"BlockedByMetadata"}))
  <2>1. Moves(j) /\ job'[j] = [stage |-> "refused", counts |-> c]
    BY <1>1, <1>4 DEF CheckMeta, Moves
  <2>2. c \in Counts
    BY FixedCounts, PlusIsCounts
  <2>3. QED
    BY <2>1, <2>2 DEF Shape, Fine
<1>5. QED
  BY <1>3, <1>4

LEMMA PassOnIsFine ==
    ASSUME JobsInv, NEW j \in Job, PassOn(j)
    PROVE  /\ Moves(j) /\ Shape(job'[j]) /\ Fine(j[1], job'[j], World)
           /\ job'[j].stage = "saving" /\ job'[j].counts.saved = 0
<1>1. /\ DOMAIN job = Job /\ Fine(j[1], job[j], World) /\ Shape(job[j])
      /\ job[j].stage = "refused"
  BY DEF JobsInv, PassOn
<1>2. Moves(j) /\ job'[j] = [stage |-> "saving", counts |-> job[j].counts,
                             got |-> <<>>, records |-> {}, whole |-> FALSE]
  BY <1>1 DEF PassOn, Moves
<1>3. job[j].counts \in Counts
  BY <1>1, CountedShape
<1>4. <<>> \in Seq(Blob)
  OBVIOUS
<1>5. Shape(job'[j])
  BY <1>2, <1>3, <1>4 DEF Shape
<1>6. Leaves(job[j].counts, 0) /\ job[j].counts.saved = 0
  BY <1>1, FreshCounts DEF Fine
<1>7. IsFiniteSet({}) /\ Cardinality({}) = 0
  BY FS_EmptySet
<1>8. Saves(j[1], job'[j], World)
  BY <1>2, <1>6, <1>7 DEF Saves
<1>9. QED
  BY <1>2, <1>5, <1>6, <1>8 DEF Fine

LEMMA StartDownloadsIsFine ==
    ASSUME JobsInv, NEW j \in Job, StartDownloads(j)
    PROVE  Moves(j) /\ Shape(job'[j]) /\ Fine(j[1], job'[j], World)
<1>1. /\ DOMAIN job = Job /\ Fine(j[1], job[j], World) /\ Shape(job[j])
      /\ job[j].stage = "passed"
  BY DEF JobsInv, StartDownloads
<1>2. /\ Moves(j)
      /\ job'[j] = [stage |-> "downloading", counts |-> job[j].counts,
                    pending |-> DOMAIN Images[j[1]], got |-> <<>>, whole |-> TRUE]
  BY <1>1 DEF StartDownloads, Moves
<1>3. job[j].counts \in Counts
  BY <1>1, CountedShape
<1>4. <<>> \in Seq(Blob) /\ Len(<<>>) = 0
  OBVIOUS
<1>5. /\ DOMAIN Images[j[1]] \subseteq Nat /\ Len(Images[j[1]]) \in Nat
      /\ Cardinality(DOMAIN Images[j[1]]) = Len(Images[j[1]])
  BY JobTyped
<1>6. Shape(job'[j])
  BY <1>2, <1>3, <1>4, <1>5 DEF Shape
<1>7. Downloads(j[1], job'[j])
  BY <1>1, <1>2, <1>4, <1>5 DEF Downloads, Fine
<1>8. QED
  BY <1>1, <1>2, <1>6, <1>7 DEF Fine

LEMMA DownloadedIsFine ==
    ASSUME JobsInv, NEW j \in Job, NEW i \in DOMAIN Images[j[1]], NEW ok \in BOOLEAN,
           Downloaded(j, i, ok)
    PROVE  Moves(j) /\ Shape(job'[j]) /\ Fine(j[1], job'[j], World)
<1> DEFINE r == job[j]
           p == j[1]
<1>1. DOMAIN job = Job /\ Fine(p, r, World) /\ Shape(r) /\ r.stage = "downloading" /\ i \in r.pending
  BY DEF JobsInv, Downloaded
<1>2. r \in [stage : {"downloading"}, counts : Counts, pending : SUBSET Nat, got : Seq(Blob),
             whole : BOOLEAN]
  BY <1>1, DownloadingShape
<1>3. /\ Images[p] \in Seq(Blob) /\ Images[p][i] \in Blob /\ Len(Images[p]) \in Nat
      /\ IsFiniteSet(DOMAIN Images[p])
  BY JobTyped
<1>4. Moves(j) /\ job'[j] = [r EXCEPT
            !.pending = IF ok THEN @ \ {i} ELSE {},
            !.got     = IF ok THEN Append(@, Images[p][i]) ELSE @,
            !.whole   = ok]
  BY <1>1 DEF Downloaded, Moves
<1>5. p \in World.clear /\ Downloads(p, r)
  BY <1>1 DEF Fine
<1> HIDE DEF r, p
<1>6. IsFiniteSet(r.pending) /\ Cardinality(r.pending) \in Nat
  BY <1>3, <1>5, FS_Subset, FS_CardinalityType DEF Downloads
<1>7. CASE ok
  <2>1. /\ job'[j].stage = "downloading" /\ job'[j].counts = r.counts
        /\ job'[j].pending = r.pending \ {i} /\ job'[j].got = Append(r.got, Images[p][i])
        /\ job'[j].whole = TRUE
        /\ DOMAIN job'[j] = DOMAIN r
    BY <1>2, <1>4, <1>7
  <2>2. job'[j] = [stage |-> "downloading", counts |-> r.counts, pending |-> r.pending \ {i},
                   got |-> Append(r.got, Images[p][i]), whole |-> TRUE]
    BY <1>2, <1>4, <1>7
  <2>3. /\ Append(r.got, Images[p][i]) \in Seq(Blob) /\ r.got \in Seq(Blob)
        /\ Len(Append(r.got, Images[p][i])) = Len(r.got) + 1 /\ Len(r.got) \in Nat
    BY <1>2, <1>3
  <2>4. Shape(job'[j])
    BY <1>2, <2>2, <2>3 DEF Shape
  <2>5. Cardinality(r.pending \ {i}) = Cardinality(r.pending) - 1
    BY <1>1, <1>6, FS_RemoveElement DEF r
  <2>6. Len(Append(r.got, Images[p][i])) + Cardinality(r.pending \ {i}) <= Len(Images[p])
    BY <1>3, <1>5, <1>6, <2>3, <2>5 DEF Downloads
  <2>7. r.whole
    BY <1>1, <1>5 DEF r, Downloads
  <2>8. ASSUME NEW n \in DOMAIN Images[p]
        PROVE  n \in job'[j].pending \/ \E k \in DOMAIN job'[j].got : job'[j].got[k] = Images[p][n]
    <3>1. CASE n = i
      <4>1. /\ Len(r.got) + 1 \in DOMAIN Append(r.got, Images[p][i])
            /\ Append(r.got, Images[p][i])[Len(r.got) + 1] = Images[p][i]
        BY <2>3, <1>3
      <4>2. QED
        BY <2>1, <3>1, <4>1
    <3>2. CASE n # i /\ n \in r.pending
      BY <2>1, <3>2
    <3>3. CASE n \notin r.pending
      <4>1. PICK k \in DOMAIN r.got : r.got[k] = Images[p][n]
        BY <1>5, <2>7, <3>3 DEF Downloads
      <4>2. /\ k \in DOMAIN Append(r.got, Images[p][i])
            /\ Append(r.got, Images[p][i])[k] = Images[p][n]
        BY <2>3, <1>3, <4>1
      <4>3. QED
        BY <2>1, <4>2
    <3>4. QED
      BY <3>1, <3>2, <3>3
  <2>9. Downloads(p, job'[j])
    BY <1>5, <2>1, <2>6, <2>8 DEF Downloads
  <2>10. QED
    BY <1>4, <1>5, <2>1, <2>4, <2>9 DEF Fine, p
<1>8. CASE ~ok
  <2>1. /\ job'[j].stage = "downloading" /\ job'[j].counts = r.counts
        /\ job'[j].pending = {} /\ job'[j].got = r.got /\ job'[j].whole = FALSE
    BY <1>2, <1>4, <1>8
  <2>2. job'[j] = [stage |-> "downloading", counts |-> r.counts, pending |-> {},
                   got |-> r.got, whole |-> FALSE]
    BY <1>2, <1>4, <1>8
  <2>3. Shape(job'[j])
    BY <1>2, <2>2 DEF Shape
  <2>4. Cardinality({}) = 0 /\ Len(r.got) \in Nat
    BY <1>2, FS_EmptySet
  <2>5. Len(r.got) + Cardinality({}) <= Len(Images[p])
    BY <1>3, <1>5, <1>6, <2>4 DEF Downloads
  <2>6. Downloads(p, job'[j])
    BY <1>5, <2>1, <2>5 DEF Downloads
  <2>7. QED
    BY <1>4, <1>5, <2>1, <2>3, <2>6 DEF Fine, p
<1>9. QED
  BY <1>7, <1>8

LEMMA ClassifyImagesIsFine ==
    ASSUME JobsInv, NEW j \in Job, ClassifyImages(j)
    PROVE  /\ Moves(j) /\ Shape(job'[j]) /\ Fine(j[1], job'[j], World)
           /\ job'[j].stage = "saving" /\ job'[j].counts.saved = 0
<1> DEFINE r == job[j]
           p == j[1]
           n == Len(Images[p])
           c == Plus(Observed(n), Refusals(r.got))
<1>1. DOMAIN job = Job /\ Fine(p, r, World) /\ Shape(r) /\ r.stage = "downloading" /\ r.pending = {}
  BY DEF JobsInv, ClassifyImages
<1>2. r \in [stage : {"downloading"}, counts : Counts, pending : SUBSET Nat, got : Seq(Blob),
             whole : BOOLEAN]
  BY <1>1, DownloadingShape
<1>3. n \in Nat /\ Images[p] \in Seq(Blob)
  BY JobTyped
<1>4. p \in World.clear /\ Downloads(p, r)
  BY <1>1 DEF Fine
<1>5. r.counts = Observed(n) /\ Len(r.got) <= n
  <2>1. Cardinality({}) = 0 /\ Len(r.got) \in Nat
    BY <1>2, FS_EmptySet
  <2>2. Len(r.got) + 0 <= n /\ r.counts = Observed(n)
    BY <1>1, <1>4, <2>1 DEF Downloads
  <2> HIDE DEF n, r
  <2>3. QED
    BY <1>3, <2>1, <2>2
<1>6. Moves(j) /\ job'[j] = [stage |-> "saving", counts |-> c, got |-> r.got,
                             records |-> Survivors(r.got), whole |-> r.whole]
  <2>1. Moves(j) /\ job'[j] = [stage |-> "saving", counts |-> Plus(r.counts, Refusals(r.got)),
                               got |-> r.got, records |-> Survivors(r.got), whole |-> r.whole]
    BY <1>1 DEF ClassifyImages, Moves
  <2>2. QED
    BY <1>5, <2>1
<1>7. r.got \in Seq(Blob) /\ DOMAIN r.got = 1 .. Len(r.got)
  BY <1>2
<1> HIDE DEF n, r, p
<1>8. /\ IsFiniteSet(Survivors(r.got)) /\ Survivors(r.got) \subseteq DOMAIN r.got
      /\ c \in Counts /\ c.saved = 0 /\ Leaves(c, Cardinality(Survivors(r.got)))
  BY <1>3, <1>5, <1>7, ClassifiedLeaves
<1> HIDE DEF c
<1>9. Survivors(r.got) \in SUBSET Nat
  BY <1>7, <1>8
<1>10. Shape(job'[j])
  BY <1>2, <1>6, <1>8, <1>9 DEF Shape
<1>11. \A k \in Survivors(r.got) : r.got[k] \in World.fit
  BY <1>7 DEF Survivors, World
<1>12. ASSUME r.whole, NEW i \in DOMAIN Images[p], Images[p][i] \in World.fit
       PROVE  \E k \in Survivors(r.got) : r.got[k] = Images[p][i]
  <2>1. PICK k \in DOMAIN r.got : r.got[k] = Images[p][i]
    BY <1>1, <1>4, <1>12 DEF Downloads, r
  <2>2. k \in Survivors(r.got)
    BY <1>12, <2>1 DEF Survivors, World
  <2>3. QED
    BY <2>1, <2>2
<1>13. Saves(p, job'[j], World)
  BY <1>4, <1>6, <1>8, <1>11, <1>12 DEF Saves
<1>14. QED
  BY <1>6, <1>8, <1>10, <1>13 DEF Fine, p

-----------------------------------------------------------------------------
(* The save stage.                                                         *)

LEMMA HeadIsSaving ==
    ASSUME JobsInv, QueueInv, NEW j, queue # <<>>, j = Head(queue)
    PROVE  /\ j \in Job /\ job[j].stage = "saving" /\ Shape(job[j])
           /\ job[j] \in [stage : {"saving"}, counts : Counts, got : Seq(Blob),
                          records : SUBSET Nat, whole : BOOLEAN]
           /\ Saves(j[1], job[j], World)
<1>1. j \in Job /\ job[j].stage = "saving" /\ Shape(job[j]) /\ Fine(j[1], job[j], World)
  BY DEF JobsInv, QueueInv
<1>2. QED
  BY <1>1, SavingShape DEF Fine

\* The next record is one of a fit image of a cleared post.
LEMMA NextRecord ==
    ASSUME JobsInv, QueueInv, NEW j \in Job, Saving(j)
    PROVE  /\ Min(job[j].records) \in job[j].records /\ Upcoming(j) \in Blob
           /\ Upcoming(j) \in World.fit /\ j[1] \in World.clear
           /\ job[j].stage = "saving" /\ job[j].counts \in Counts
           /\ Cardinality(Rest(j)) \in Nat /\ IsFiniteSet(Rest(j))
           /\ Leaves(job[j].counts, Cardinality(Rest(j)) + 1)
<1> DEFINE r == job[j]
<1>1. /\ r \in [stage : {"saving"}, counts : Counts, got : Seq(Blob),
                records : SUBSET Nat, whole : BOOLEAN]
      /\ Saves(j[1], r, World) /\ r.records # {}
  BY HeadIsSaving DEF Saving
<1>2. Min(r.records) \in r.records
  BY <1>1, LeastIsIn
<1>3. /\ Min(r.records) \in DOMAIN r.got /\ r.got[Min(r.records)] \in World.fit
      /\ j[1] \in World.clear
  BY <1>1, <1>2 DEF Saves
<1>4. IsFiniteSet(r.records) /\ Leaves(r.counts, Cardinality(r.records))
  BY <1>1 DEF Saves
<1>5. /\ Cardinality(r.records \ {Min(r.records)}) = Cardinality(r.records) - 1
      /\ IsFiniteSet(r.records \ {Min(r.records)})
      /\ Cardinality(r.records) \in Nat /\ Cardinality(r.records \ {Min(r.records)}) \in Nat
  BY <1>2, <1>4, FS_RemoveElement, FS_CardinalityType
<1>6. Cardinality(Rest(j)) + 1 = Cardinality(r.records)
  BY <1>5 DEF Rest
<1>7. QED
  BY <1>1, <1>2, <1>3, <1>4, <1>5, <1>6 DEF Upcoming, Rest

\* What is left is fine once the image of the next record is stored.
LEMMA RestIsFine ==
    ASSUME JobsInv, QueueInv, NEW j \in Job, Saving(j), NEW v, Grows(World, v),
           Upcoming(j) \in v.stored, NEW c \in Counts, Leaves(c, Cardinality(Rest(j))),
           job' = [job EXCEPT ![j].records = Rest(j), ![j].counts = c]
    PROVE  /\ Moves(j) /\ Shape(job'[j]) /\ Fine(j[1], job'[j], v)
           /\ job'[j].stage = "saving" /\ job'[j].counts = c
<1> DEFINE r == job[j]
<1>1. /\ r \in [stage : {"saving"}, counts : Counts, got : Seq(Blob),
                records : SUBSET Nat, whole : BOOLEAN]
      /\ Saves(j[1], r, World) /\ DOMAIN job = Job
  BY HeadIsSaving DEF Saving, JobsInv
<1>2. Moves(j) /\ job'[j] = [r EXCEPT !.records = Rest(j), !.counts = c]
  BY <1>1 DEF Moves
<1>3. Rest(j) \subseteq r.records /\ Rest(j) \in SUBSET Nat /\ IsFiniteSet(Rest(j))
  BY <1>1, NextRecord DEF Rest
<1>4. job'[j] = [stage |-> "saving", counts |-> c, got |-> r.got, records |-> Rest(j),
                 whole |-> r.whole]
  BY <1>1, <1>2
<1>5. Shape(job'[j])
  BY <1>1, <1>3, <1>4 DEF Shape
<1> HIDE DEF r
<1>6. \A k \in Rest(j) : k \in DOMAIN r.got /\ r.got[k] \in v.fit /\ j[1] \in v.clear
  BY <1>1, <1>3 DEF Saves, Grows
<1>7. ASSUME r.whole, NEW i \in DOMAIN Images[j[1]], Images[j[1]][i] \in v.fit
      PROVE  \/ Images[j[1]][i] \in v.stored
             \/ \E k \in Rest(j) : r.got[k] = Images[j[1]][i]
  <2>1. CASE Images[j[1]][i] \in World.stored
    BY <2>1 DEF Grows
  <2>2. CASE \E k \in r.records : r.got[k] = Images[j[1]][i]
    <3>1. PICK k \in r.records : r.got[k] = Images[j[1]][i]
      BY <2>2
    <3>2. CASE k = Min(r.records)
      BY <3>1, <3>2 DEF Upcoming, r
    <3>3. CASE k # Min(r.records)
      BY <3>1, <3>3 DEF Rest, r
    <3>4. QED
      BY <3>2, <3>3
  <2>3. QED
    BY <1>1, <1>7, <2>1, <2>2 DEF Saves, Grows
<1>8. Leaves(c, Cardinality(Rest(j)))
  OBVIOUS
<1> DEFINE s == [stage |-> "saving", counts |-> c, got |-> r.got, records |-> Rest(j),
                 whole |-> r.whole]
<1>9. /\ s.stage = "saving" /\ s.counts = c /\ s.got = r.got /\ s.records = Rest(j)
      /\ s.whole = r.whole
  OBVIOUS
<1>10. job'[j] = s
  BY <1>4
<1> HIDE DEF s
<1>11. Saves(j[1], s, v)
  BY <1>3, <1>6, <1>7, <1>8, <1>9 DEF Saves
<1>12. Fine(j[1], s, v)
  BY <1>9, <1>11 DEF Fine
<1>13. QED
  BY <1>2, <1>5, <1>9, <1>10, <1>12

-----------------------------------------------------------------------------
(* What one moved delivery does to the rest of the state.                  *)

LEMMA SameWorld ==
    ASSUME UNCHANGED <<picture, labels, late, rows, failures>>
    PROVE  World' = World /\ Grows(World, World')
<1>1. World' = World
  BY DEF World, Fit, Reasons
<1>2. QED
  BY <1>1 DEF Grows

LEMMA JobsKeep ==
    ASSUME JobsInv, NEW j \in Job, Moves(j), Shape(job'[j]), Fine(j[1], job'[j], World'),
           Grows(World, World'), delivered' = delivered, job[j].stage # "absent"
    PROVE  JobsInv'
<1>1. DOMAIN job' = Job
  BY DEF JobsInv, Moves
<1>2. ASSUME NEW k \in Job
      PROVE  /\ Shape(job'[k]) /\ Fine(k[1], job'[k], World')
             /\ job'[k].stage # "absent" => k[2] <= delivered[k[1]]
  <2>1. CASE k = j
    BY <2>1 DEF JobsInv
  <2>2. CASE k # j
    <3>1. job'[k] = job[k] /\ Shape(job[k]) /\ Fine(k[1], job[k], World)
      BY <2>2 DEF JobsInv, Moves
    <3>2. Fine(k[1], job[k], World')
      BY <3>1, FineGrows
    <3>3. QED
      BY <3>1, <3>2 DEF JobsInv
  <2>3. QED
    BY <2>1, <2>2
<1>3. QED
  BY <1>1, <1>2 DEF JobsInv

LEMMA QueueKeeps ==
    ASSUME JobsInv, QueueInv, NEW j \in Job, Moves(j), queue' = queue,
           job[j].stage # "saving" \/ job'[j].stage = "saving"
    PROVE  QueueInv'
<1>1. \A n \in DOMAIN queue : job'[queue[n]].stage = "saving"
  BY DEF QueueInv, Moves, JobsInv
<1>2. QED
  BY <1>1 DEF QueueInv

LEMMA QueueTakesIn ==
    ASSUME JobsInv, QueueInv, NEW j \in Job, Moves(j), queue' = Append(queue, j),
           job[j].stage # "saving", job'[j].stage = "saving"
    PROVE  QueueInv'
<1>1. /\ queue \in Seq(Job) /\ queue' \in Seq(Job) /\ DOMAIN queue = 1 .. Len(queue)
      /\ DOMAIN queue' = 1 .. Len(queue) + 1 /\ Len(queue) \in Nat
      /\ queue'[Len(queue) + 1] = j /\ \A n \in 1 .. Len(queue) : queue'[n] = queue[n]
  BY DEF QueueInv
<1>2. \A n \in DOMAIN queue : queue[n] # j
  BY DEF QueueInv
<1>3. ASSUME NEW n \in DOMAIN queue' PROVE job'[queue'[n]].stage = "saving"
  <2>1. CASE n = Len(queue) + 1
    BY <1>1, <2>1
  <2>2. CASE n # Len(queue) + 1
    <3>1. n \in DOMAIN queue
      BY <1>1, <2>2
    <3>2. queue'[n] = queue[n] /\ queue[n] # j /\ queue[n] \in Job /\ job[queue[n]].stage = "saving"
      BY <1>1, <1>2, <3>1 DEF QueueInv
    <3>3. QED
      BY <3>2 DEF JobsInv, Moves
  <2>3. QED
    BY <2>1, <2>2
<1>4. ASSUME NEW m \in DOMAIN queue', NEW n \in DOMAIN queue', queue'[m] = queue'[n]
      PROVE  m = n
  BY <1>1, <1>2, <1>4 DEF QueueInv
<1>5. QED
  BY <1>1, <1>3, <1>4 DEF QueueInv

LEMMA QueueLetsGo ==
    ASSUME JobsInv, QueueInv, NEW j \in Job, Moves(j), queue # <<>>, j = Head(queue),
           queue' = Tail(queue)
    PROVE  QueueInv'
<1>1. /\ queue \in Seq(Job) /\ queue' \in Seq(Job) /\ DOMAIN queue = 1 .. Len(queue)
      /\ DOMAIN queue' = 1 .. Len(queue) - 1 /\ Len(queue) \in Nat /\ Len(queue) > 0
      /\ queue[1] = j /\ \A n \in 1 .. Len(queue) - 1 : queue'[n] = queue[n + 1]
  BY DEF QueueInv
<1>2. ASSUME NEW n \in DOMAIN queue' PROVE job'[queue'[n]].stage = "saving"
  <2>1. n + 1 \in DOMAIN queue /\ 1 \in DOMAIN queue /\ n + 1 # 1 /\ queue'[n] = queue[n + 1]
    BY <1>1
  <2>2. queue[n + 1] # j /\ queue[n + 1] \in Job /\ job[queue[n + 1]].stage = "saving"
    BY <1>1, <2>1 DEF QueueInv
  <2>3. QED
    BY <2>1, <2>2 DEF JobsInv, Moves
<1>3. ASSUME NEW m \in DOMAIN queue', NEW n \in DOMAIN queue', queue'[m] = queue'[n]
      PROVE  m = n
  <2>1. /\ n + 1 \in DOMAIN queue /\ queue'[n] = queue[n + 1] /\ n \in Nat
        /\ m + 1 \in DOMAIN queue /\ queue'[m] = queue[m + 1] /\ m \in Nat
    BY <1>1
  <2>2. m + 1 = n + 1
    BY <1>3, <2>1 DEF QueueInv
  <2>3. QED
    BY <2>1, <2>2
<1>4. QED
  BY <1>1, <1>2, <1>3 DEF QueueInv

\* The saved images of each delivery.
Hand == [j \in Job |-> job[j].counts.saved]

LEMMA InHandIsTotal == InHand = SumOf(Hand, At("saving"))
BY DEF InHand, Hand, At, SumOf, MapThenSumSet, MapThenFoldSet

LEMMA HandIsNat ==
    JobsInv => IsFiniteSet(At("saving")) /\ \A x \in At("saving") : x \in Job /\ Hand[x] \in Nat
<1> SUFFICES ASSUME JobsInv
             PROVE  IsFiniteSet(At("saving")) /\ \A x \in At("saving") : x \in Job /\ Hand[x] \in Nat
  OBVIOUS
<1>1. At("saving") \subseteq Job
  BY DEF At
<1>2. ASSUME NEW x \in At("saving") PROVE Hand[x] \in Nat
  <2>1. x \in Job /\ Shape(job[x]) /\ job[x].stage = "saving"
    BY DEF At, JobsInv
  <2>2. job[x].counts.saved \in Nat
    BY <2>1, CountedShape, CountFields
  <2>3. QED
    BY <2>1, <2>2 DEF Hand
<1>3. QED
  BY <1>1, <1>2, JobIsFinite, FS_Subset

LEMMA InHandMoves ==
    ASSUME JobsInv, JobsInv', NEW j \in Job, Moves(j)
    PROVE  /\ InHand \in Nat /\ InHand' \in Nat
           /\ job[j].stage = "saving" /\ job'[j].stage = "saving" =>
                InHand' = InHand - job[j].counts.saved + job'[j].counts.saved
           /\ job[j].stage = "saving" /\ job'[j].stage # "saving" =>
                InHand' = InHand - job[j].counts.saved
           /\ job[j].stage # "saving" /\ job'[j].stage = "saving" =>
                InHand' = InHand + job'[j].counts.saved
           /\ job[j].stage # "saving" /\ job'[j].stage # "saving" => InHand' = InHand
<1> DEFINE S == At("saving")
           R == At("saving")'
           f == Hand
           g == Hand'
<1>1. IsFiniteSet(S) /\ \A x \in S : x \in Job /\ f[x] \in Nat
  BY HandIsNat
<1>2. IsFiniteSet(R) /\ \A x \in R : x \in Job /\ g[x] \in Nat
  <2>1. (JobsInv => IsFiniteSet(At("saving")) /\ \A x \in At("saving") : x \in Job /\ Hand[x] \in Nat)'
    BY HandIsNat, PTL
  <2>2. QED
    BY <2>1
<1>3. S \ {j} = R \ {j}
  BY DEF At, Moves, JobsInv
<1>4. \A x \in S \ {j} : f[x] = g[x]
  BY <1>1 DEF Hand, Moves, JobsInv
<1>5. InHand = SumOf(f, S)
  BY InHandIsTotal
<1>6. InHand' = SumOf(g, R)
  <2>1. (InHand = SumOf(Hand, At("saving")))'
    BY InHandIsTotal, PTL
  <2>2. QED
    BY <2>1 DEF SumOf, MapThenSumSet, MapThenFoldSet
<1>7. /\ (j \in S <=> job[j].stage = "saving") /\ (j \in R <=> job'[j].stage = "saving")
      /\ f[j] = job[j].counts.saved /\ g[j] = job'[j].counts.saved
  BY DEF At, Hand
<1> HIDE DEF S, R, f, g
<1>8. /\ SumOf(f, S) \in Nat /\ SumOf(g, R) \in Nat
      /\ j \in S /\ j \in R => SumOf(g, R) = SumOf(f, S) - f[j] + g[j]
      /\ j \in S /\ j \notin R => SumOf(g, R) = SumOf(f, S) - f[j]
      /\ j \notin S /\ j \in R => SumOf(g, R) = SumOf(f, S) + g[j]
      /\ j \notin S /\ j \notin R => SumOf(g, R) = SumOf(f, S)
  BY <1>1, <1>2, <1>3, <1>4, SumOfMoves
<1>9. QED
  BY <1>5, <1>6, <1>7, <1>8

Lens == [b \in Blob |-> Len(rows[b])]

LEMMA RowsIsTotal == Rows = SumOf(Lens, Blob)
BY DEF Rows, Lens, SumOf, MapThenSumSet, MapThenFoldSet

LEMMA RowsSame == ASSUME rows' = rows PROVE Rows' = Rows
BY DEF Rows, MapThenSumSet, MapThenFoldSet

LEMMA RowsAdd ==
    ASSUME rows \in [Blob -> Seq(Post)], NEW b \in Blob, NEW p \in Post,
           rows' = [rows EXCEPT ![b] = Append(@, p)]
    PROVE  Rows \in Nat /\ Rows' = Rows + 1
<1>1. /\ rows' \in [Blob -> Seq(Post)] /\ Len(rows'[b]) = Len(rows[b]) + 1 /\ Len(rows[b]) \in Nat
      /\ \A x \in Blob \ {b} : rows'[x] = rows[x]
  OBVIOUS
<1>2. IsFiniteSet(Blob)
  BY CandidateConstants
<1>3. PICK f : f = Lens
  OBVIOUS
<1>4. PICK g : g = Lens'
  OBVIOUS
<1>5. \A x \in Blob : f[x] \in Nat /\ g[x] \in Nat
  BY <1>1, <1>3, <1>4 DEF Lens
<1>6. \A x \in Blob \ {b} : f[x] = g[x]
  BY <1>1, <1>3, <1>4 DEF Lens
<1>7. g[b] = f[b] + 1
  BY <1>1, <1>3, <1>4 DEF Lens
<1>8. Rows = SumOf(f, Blob)
  BY <1>3, RowsIsTotal
<1>9. Rows' = SumOf(g, Blob)
  <2>1. Rows' = SumOf(Lens', Blob)
    BY DEF Rows, Lens, SumOf, MapThenSumSet, MapThenFoldSet
  <2>2. QED
    BY <1>4, <2>1
<1>10. SumOf(f, Blob) \in Nat
  BY <1>2, <1>5, SumOfIsNat
<1>11. SumOf(g, Blob) = SumOf(f, Blob) - f[b] + g[b]
  <2>1. (\A x \in Blob : f[x] \in Nat) /\ \A x \in Blob : g[x] \in Nat
    BY <1>5
  <2>2. SumOf(f, Blob) = f[b] + SumOf(f, Blob \ {b})
    BY <1>2, <2>1, SumOfTakesOut
  <2>3. SumOf(g, Blob) = g[b] + SumOf(g, Blob \ {b})
    BY <1>2, <2>1, SumOfTakesOut
  <2>4. PICK rest : rest = Blob \ {b}
    OBVIOUS
  <2>5. IsFiniteSet(rest) /\ \A x \in rest : f[x] \in Nat /\ f[x] = g[x]
    BY <1>2, <1>5, <1>6, <2>4, FS_Subset
  <2>6. SumOf(f, rest) = SumOf(g, rest)
    BY <2>5, SumOfSame
  <2>7. SumOf(f, rest) \in Nat
    BY <2>5, SumOfIsNat
  <2>8. f[b] \in Nat /\ g[b] \in Nat
    BY <1>5
  <2>9. QED
    BY <2>2, <2>3, <2>4, <2>6, <2>7, <2>8
<1>12. QED
  BY <1>5, <1>7, <1>8, <1>9, <1>10, <1>11

-----------------------------------------------------------------------------
(* The invariant and the steps.                                            *)

Inv == PostsInv /\ JobsInv /\ QueueInv /\ RowsInv /\ CountsInv

LEMMA RowsKeep ==
    ASSUME RowsInv, rows' = rows, unseen' = unseen, Grows(World, World')
    PROVE  RowsInv'
BY DEF RowsInv, Grows

LEMMA NothingSaved ==
    ASSUME JobsInv, CountsInv, JobsInv', NEW j \in Job, Moves(j), rows' = rows, total' = total,
           job[j].stage # "saving", job'[j].stage = "saving" => job'[j].counts.saved = 0
    PROVE  CountsInv'
<1>1. InHand' = InHand
  <2>1. InHand \in Nat
    BY InHandMoves
  <2>2. CASE job'[j].stage = "saving"
    <3>1. InHand' = InHand + job'[j].counts.saved /\ job'[j].counts.saved = 0
      BY <2>2, InHandMoves
    <3>2. QED
      BY <2>1, <3>1
  <2>3. CASE job'[j].stage # "saving"
    BY <2>3, InHandMoves
  <2>4. QED
    BY <2>2, <2>3
<1>2. Rows' = Rows
  BY RowsSame
<1>3. QED
  BY <1>1, <1>2 DEF CountsInv

\* The steps of a delivery before the save stage.
LEMMA EarlyStep ==
    ASSUME Inv, NEW j \in Job, Moves(j), Shape(job'[j]), Fine(j[1], job'[j], World),
           UNCHANGED <<picture, labels, late, delivered, rows, total, unseen, failures>>,
           job[j].stage \notin {"absent", "saving"},
           \/ job'[j].stage # "saving" /\ queue' = queue
           \/ /\ job'[j].stage = "saving" /\ job'[j].counts.saved = 0
              /\ queue' = Append(queue, j)
    PROVE  Inv'
<1>1. World' = World /\ Grows(World, World')
  BY SameWorld
<1>2. Fine(j[1], job'[j], World')
  BY <1>1
<1>3. JobsInv'
  BY <1>1, <1>2, JobsKeep DEF Inv
<1>4. QueueInv'
  BY QueueKeeps, QueueTakesIn DEF Inv
<1>5. CountsInv'
  BY <1>3, NothingSaved DEF Inv
<1>6. RowsInv'
  BY <1>1, RowsKeep DEF Inv
<1>7. PostsInv'
  BY DEF Inv, PostsInv
<1>8. QED
  BY <1>3, <1>4, <1>5, <1>6, <1>7 DEF Inv

LEMMA DeliverStep == ASSUME Inv, NEW p \in Post, Deliver(p) PROVE Inv'
<1>1. World' = World /\ Grows(World, World')
  BY SameWorld DEF Deliver
<1>2. /\ delivered[p] \in Nat /\ delivered' = [delivered EXCEPT ![p] = delivered[p] + 1]
      /\ delivered \in [Post -> Nat]
  BY DEF Deliver, Inv, PostsInv
<1>3. PostsInv'
  <2>1. delivered' \in [Post -> Nat]
    BY <1>2
  <2>2. labels' = labels /\ picture' = picture
    BY DEF Deliver
  <2>3. QED
    BY <2>1, <2>2 DEF Inv, PostsInv
<1>4. RowsInv'
  BY <1>1, RowsKeep DEF Inv, Deliver
<1>5. \A q \in Post : delivered[q] \in Nat /\ delivered'[q] \in Nat /\ delivered[q] <= delivered'[q]
  BY <1>2
<1> DEFINE j == <<p, delivered[p] + 1>>
<1>6. CASE job' = job
  <2>1. \A k \in Job : Fine(k[1], job'[k], World')
    BY <1>1, <1>6 DEF Inv, JobsInv
  <2>2. \A k \in Job : job'[k].stage # "absent" => k[2] <= delivered'[k[1]]
    <3>1. ASSUME NEW k \in Job, job[k].stage # "absent" PROVE k[2] <= delivered'[k[1]]
      <4>1. k[2] <= delivered[k[1]] /\ k[1] \in Post /\ k[2] \in Nat
        BY <3>1, JobTyped DEF Inv, JobsInv
      <4>2. QED
        BY <1>5, <4>1
    <3>2. QED
      BY <1>6, <3>1
  <2>3. JobsInv'
    BY <1>6, <2>1, <2>2 DEF Inv, JobsInv
  <2>4. QueueInv' /\ CountsInv'
    BY <1>6 DEF Inv, QueueInv, CountsInv, Deliver, InHand, Rows, At, MapThenSumSet, MapThenFoldSet
  <2>5. QED
    BY <1>3, <1>4, <2>3, <2>4 DEF Inv
<1>7. CASE /\ j \in Job /\ "self" \notin labels[p]
           /\ job' = [job EXCEPT ![j] = [stage |-> "checking"]]
  <2>1. Moves(j) /\ job'[j] = [stage |-> "checking"]
    BY <1>7 DEF Moves, Inv, JobsInv
  <2>2. job[j].stage = "absent"
    <3>1. j[1] = p /\ j[2] = delivered[p] + 1
      OBVIOUS
    <3>2. ~(j[2] <= delivered[j[1]])
      BY <1>2, <3>1
    <3> HIDE DEF j
    <3>3. QED
      BY <1>7, <3>2 DEF Inv, JobsInv
  <2>3. j[1] = p /\ p \notin World.self
    BY <1>7 DEF World
  <2> HIDE DEF j
  <2>4. Shape(job'[j])
    BY <2>1 DEF Shape
  <2>5. Fine(j[1], job'[j], World')
    BY <1>1, <2>1, <2>3 DEF Fine
  <2>6. ASSUME NEW k \in Job
        PROVE  /\ Shape(job'[k]) /\ Fine(k[1], job'[k], World')
               /\ job'[k].stage # "absent" => k[2] <= delivered'[k[1]]
    <3>1. CASE k = j
      <4>1. k[2] <= delivered'[k[1]]
        BY <1>2, <3>1 DEF j
      <4>2. QED
        BY <2>4, <2>5, <3>1, <4>1
    <3>2. CASE k # j
      <4>1. job'[k] = job[k] /\ Shape(job[k]) /\ Fine(k[1], job[k], World)
        BY <2>1, <3>2 DEF Inv, JobsInv, Moves
      <4>2. ASSUME job[k].stage # "absent" PROVE k[2] <= delivered'[k[1]]
        <5>1. k[2] <= delivered[k[1]] /\ k[1] \in Post /\ k[2] \in Nat
          BY <4>2, JobTyped DEF Inv, JobsInv
        <5>2. QED
          BY <1>5, <5>1
      <4>3. QED
        BY <1>1, <4>1, <4>2
    <3>3. QED
      BY <3>1, <3>2
  <2>7. JobsInv'
    BY <2>1, <2>6 DEF Inv, JobsInv, Moves
  <2>8. queue' = queue /\ rows' = rows /\ total' = total
    BY DEF Deliver
  <2>9. job[j].stage # "saving" /\ job'[j].stage # "saving" /\ j \in Job
    BY <1>7, <2>1, <2>2
  <2>10. QueueInv'
    BY <2>1, <2>8, <2>9, QueueKeeps DEF Inv
  <2>11. CountsInv'
    BY <2>1, <2>7, <2>8, <2>9, NothingSaved DEF Inv
  <2>12. QED
    BY <1>3, <1>4, <2>7, <2>10, <2>11 DEF Inv
<1>8. CASE j \notin Job /\ job' = [job EXCEPT ![j] = [stage |-> "checking"]]
  <2>1. /\ DOMAIN job' = Job /\ \A k \in Job : job'[k] = job[k]
    <3>1. j \notin Job /\ DOMAIN job = Job
      BY <1>8 DEF Inv, JobsInv
    <3> HIDE DEF j
    <3>2. QED
      BY <1>8, <3>1
  <2>2. \A k \in Job : job'[k].stage # "absent" => k[2] <= delivered'[k[1]]
    <3>1. ASSUME NEW k \in Job, job[k].stage # "absent" PROVE k[2] <= delivered'[k[1]]
      <4>1. k[2] <= delivered[k[1]] /\ k[1] \in Post /\ k[2] \in Nat
        BY <3>1, JobTyped DEF Inv, JobsInv
      <4>2. QED
        BY <1>5, <4>1
    <3>2. QED
      BY <2>1, <3>1
  <2>3. JobsInv'
    BY <1>1, <2>1, <2>2 DEF Inv, JobsInv
  <2>4. PICK k \in Job : TRUE
    <3>1. <<p, 1>> \in Job
      BY CandidateConstants DEF Job
    <3>2. QED
      BY <3>1
  <2>5. Moves(k)
    BY <2>1 DEF Moves, Inv, JobsInv
  <2>6. job'[k] = job[k]
    BY <2>1
  <2>7. queue' = queue /\ rows' = rows /\ total' = total
    BY DEF Deliver
  <2>8. QueueInv'
    BY <2>5, <2>6, <2>7, QueueKeeps DEF Inv
  <2>9. CountsInv'
    <3>1. InHand' = InHand
      <4>1. /\ InHand \in Nat
            /\ job[k].stage = "saving" => InHand' = InHand - job[k].counts.saved + job[k].counts.saved
            /\ job[k].stage # "saving" => InHand' = InHand
        BY <2>3, <2>5, <2>6, InHandMoves DEF Inv
      <4>2. job[k].stage = "saving" => job[k].counts.saved \in Nat
        BY CountedShape, CountFields DEF Inv, JobsInv
      <4>3. QED
        BY <4>1, <4>2
    <3>2. QED
      BY <2>7, <3>1, RowsSame DEF Inv, CountsInv
  <2>10. QED
    BY <1>3, <1>4, <2>3, <2>8, <2>9 DEF Inv
<1>9. QED
  BY <1>6, <1>7, <1>8 DEF Deliver

LEMMA ModerateStep == ASSUME Inv, NEW p \in Post, Moderate(p) PROVE Inv'
<1>1. /\ labels[p] = {} /\ labels' = [labels EXCEPT ![p] = {"thread"}] /\ late' = late \cup {p}
      /\ labels \in [Post -> {{}, {"self"}, {"thread"}}]
      /\ UNCHANGED <<picture, delivered, job, queue, rows, total, unseen, failures>>
  BY DEF Moderate, Inv, PostsInv
<1>2. labels' \in [Post -> {{}, {"self"}, {"thread"}}] /\ {"thread"} # {"self"} /\ {} # {"self"}
  BY <1>1
<1>3. PostsInv'
  BY <1>1, <1>2 DEF Inv, PostsInv
<1>4. Grows(World, World')
  <2>1. World'.stored = World.stored /\ World'.fit = World.fit
    BY <1>1 DEF World, Fit, Reasons
  <2>2. World.clear \subseteq World'.clear
    BY <1>1 DEF World
  <2>3. World.self = World'.self
    BY <1>1, <1>2 DEF World
  <2>4. QED
    BY <2>1, <2>2, <2>3 DEF Grows
<1>5. JobsInv'
  BY <1>1, <1>4, FineGrows DEF Inv, JobsInv
<1>6. QueueInv' /\ CountsInv'
  BY <1>1 DEF Inv, QueueInv, CountsInv, InHand, Rows, At, MapThenSumSet, MapThenFoldSet
<1>7. RowsInv'
  BY <1>1, <1>4, RowsKeep DEF Inv
<1>8. QED
  BY <1>3, <1>5, <1>6, <1>7 DEF Inv

LEMMA ClassifyPanicsStep == ASSUME Inv, NEW j \in Job, ClassifyPanics(j) PROVE Inv'
<1>1. Moves(j) /\ job'[j] = [stage |-> "lost"] /\ job[j].stage = "downloading"
  BY DEF ClassifyPanics, Moves, Inv, JobsInv
<1>2. Shape(job'[j]) /\ Fine(j[1], job'[j], World)
  BY <1>1 DEF Shape, Fine
<1>3. QED
  BY <1>1, <1>2, EarlyStep DEF ClassifyPanics

LEMMA BeforeSaving ==
    ASSUME Inv, NEW j \in Job
    PROVE  /\ \A fetched \in BOOLEAN : CheckMeta(j, fetched) => Inv'
           /\ PassOn(j) => Inv'
           /\ StartDownloads(j) => Inv'
           /\ \A i \in DOMAIN Images[j[1]], ok \in BOOLEAN : Downloaded(j, i, ok) => Inv'
           /\ ClassifyImages(j) => Inv'
           /\ ClassifyPanics(j) => Inv'
<1>1. ASSUME NEW fetched \in BOOLEAN, CheckMeta(j, fetched) PROVE Inv'
  <2>1. Moves(j) /\ Shape(job'[j]) /\ Fine(j[1], job'[j], World)
    BY <1>1, CheckMetaIsFine DEF Inv
  <2>2. job[j].stage = "checking" /\ job'[j].stage # "saving"
    BY <1>1 DEF CheckMeta, Inv, JobsInv
  <2>3. QED
    BY <1>1, <2>1, <2>2, EarlyStep DEF CheckMeta
<1>2. ASSUME PassOn(j) PROVE Inv'
  <2>1. /\ Moves(j) /\ Shape(job'[j]) /\ Fine(j[1], job'[j], World)
        /\ job'[j].stage = "saving" /\ job'[j].counts.saved = 0
    BY <1>2, PassOnIsFine DEF Inv
  <2>2. job[j].stage = "refused"
    BY <1>2 DEF PassOn
  <2>3. QED
    BY <1>2, <2>1, <2>2, EarlyStep DEF PassOn
<1>3. ASSUME StartDownloads(j) PROVE Inv'
  <2>1. Moves(j) /\ Shape(job'[j]) /\ Fine(j[1], job'[j], World)
    BY <1>3, StartDownloadsIsFine DEF Inv
  <2>2. job[j].stage = "passed" /\ job'[j].stage # "saving"
    BY <1>3 DEF StartDownloads, Inv, JobsInv
  <2>3. QED
    BY <1>3, <2>1, <2>2, EarlyStep DEF StartDownloads
<1>4. ASSUME NEW i \in DOMAIN Images[j[1]], NEW ok \in BOOLEAN, Downloaded(j, i, ok) PROVE Inv'
  <2>1. Moves(j) /\ Shape(job'[j]) /\ Fine(j[1], job'[j], World)
    BY <1>4, DownloadedIsFine DEF Inv
  <2>2. job[j].stage = "downloading" /\ job'[j].stage # "saving"
    BY <1>4 DEF Downloaded, Inv, JobsInv
  <2>3. QED
    BY <1>4, <2>1, <2>2, EarlyStep DEF Downloaded
<1>5. ASSUME ClassifyImages(j) PROVE Inv'
  <2>1. /\ Moves(j) /\ Shape(job'[j]) /\ Fine(j[1], job'[j], World)
        /\ job'[j].stage = "saving" /\ job'[j].counts.saved = 0
    BY <1>5, ClassifyImagesIsFine DEF Inv
  <2>2. job[j].stage = "downloading"
    BY <1>5 DEF ClassifyImages
  <2>3. QED
    BY <1>5, <2>1, <2>2, EarlyStep DEF ClassifyImages
<1>6. QED
  BY <1>1, <1>2, <1>3, <1>4, <1>5, ClassifyPanicsStep

LEMMA SkipStep == ASSUME Inv, NEW j \in Job, Skip(j) PROVE Inv'
<1> DEFINE c == job[j].counts
<1>1. /\ Saving(j) /\ job' = [job EXCEPT ![j].records = Rest(j)] /\ rows[Upcoming(j)] # <<>>
      /\ UNCHANGED <<picture, labels, late, delivered, queue, rows, total, unseen, failures>>
  BY DEF Skip, Known
<1>2. World' = World /\ Grows(World, World')
  BY <1>1, SameWorld
<1>3. /\ Upcoming(j) \in Blob /\ job[j].stage = "saving" /\ c \in Counts
      /\ Cardinality(Rest(j)) \in Nat /\ Leaves(c, Cardinality(Rest(j)) + 1)
  BY <1>1, NextRecord DEF Inv
<1>4. Upcoming(j) \in World.stored
  BY <1>1, <1>3 DEF World
<1>5. Leaves(c, Cardinality(Rest(j)))
  <2> HIDE DEF c
  <2>1. QED
    BY <1>3, CountFields DEF Leaves
<1>6. job' = [job EXCEPT ![j].records = Rest(j), ![j].counts = c]
  <2>1. job[j] \in [stage : {"saving"}, counts : Counts, got : Seq(Blob),
                    records : SUBSET Nat, whole : BOOLEAN]
    BY <1>3, SavingShape DEF Inv, JobsInv
  <2>2. DOMAIN job = Job
    BY DEF Inv, JobsInv
  <2>3. QED
    BY <1>1, <2>1, <2>2
<1>7. /\ Moves(j) /\ Shape(job'[j]) /\ Fine(j[1], job'[j], World)
      /\ job'[j].stage = "saving" /\ job'[j].counts = c
  <2> HIDE DEF c
  <2>1. QED
    BY <1>1, <1>2, <1>3, <1>4, <1>5, <1>6, RestIsFine DEF Inv
<1>8. JobsInv'
  BY <1>1, <1>2, <1>3, <1>7, JobsKeep DEF Inv
<1>9. QueueInv'
  BY <1>1, <1>7, QueueKeeps DEF Inv
<1>10. CountsInv'
  <2>1. InHand \in Nat /\ InHand' = InHand - c.saved + c.saved /\ c.saved \in Nat
    BY <1>3, <1>7, <1>8, InHandMoves, CountFields DEF Inv
  <2>2. InHand' = InHand /\ Rows' = Rows /\ total' = total
    BY <1>1, <2>1, RowsSame
  <2>3. QED
    BY <2>2 DEF Inv, CountsInv
<1>11. PostsInv' /\ RowsInv'
  BY <1>1, <1>2, RowsKeep DEF Inv, PostsInv
<1>12. QED
  BY <1>8, <1>9, <1>10, <1>11 DEF Inv

LEMMA WriteFailsStep == ASSUME Inv, NEW j \in Job, WriteFails(j) PROVE Inv'
<1> DEFINE c == job[j].counts
<1>1. /\ Saving(j) /\ job' = [job EXCEPT ![j].records = Rest(j)]
      /\ failures' = failures \cup {Upcoming(j)}
      /\ UNCHANGED <<picture, labels, late, delivered, queue, rows, total, unseen>>
  BY DEF WriteFails
<1>2. Grows(World, World')
  <2>1. World'.clear = World.clear /\ World'.self = World.self /\ World'.fit = World.fit
    BY <1>1 DEF World, Fit, Reasons
  <2>2. World.stored \subseteq World'.stored
    BY <1>1 DEF World
  <2>3. QED
    BY <2>1, <2>2 DEF Grows
<1>3. /\ Upcoming(j) \in Blob /\ job[j].stage = "saving" /\ c \in Counts
      /\ Cardinality(Rest(j)) \in Nat /\ Leaves(c, Cardinality(Rest(j)) + 1)
  BY <1>1, NextRecord DEF Inv
<1>4. Upcoming(j) \in World'.stored
  BY <1>1, <1>3 DEF World
<1>5. Leaves(c, Cardinality(Rest(j)))
  <2> HIDE DEF c
  <2>1. QED
    BY <1>3, CountFields DEF Leaves
<1>6. job' = [job EXCEPT ![j].records = Rest(j), ![j].counts = c]
  <2>1. job[j] \in [stage : {"saving"}, counts : Counts, got : Seq(Blob),
                    records : SUBSET Nat, whole : BOOLEAN]
    BY <1>3, SavingShape DEF Inv, JobsInv
  <2>2. DOMAIN job = Job
    BY DEF Inv, JobsInv
  <2>3. QED
    BY <1>1, <2>1, <2>2
<1>7. /\ Moves(j) /\ Shape(job'[j]) /\ Fine(j[1], job'[j], World')
      /\ job'[j].stage = "saving" /\ job'[j].counts = c
  <2> HIDE DEF c
  <2>1. PICK v : v = World'
    OBVIOUS
  <2>2. QED
    BY <1>1, <1>2, <1>3, <1>4, <1>5, <1>6, <2>1, RestIsFine DEF Inv
<1>8. JobsInv'
  BY <1>1, <1>2, <1>3, <1>7, JobsKeep DEF Inv
<1>9. QueueInv'
  BY <1>1, <1>7, QueueKeeps DEF Inv
<1>10. CountsInv'
  <2>1. InHand \in Nat /\ InHand' = InHand - c.saved + c.saved /\ c.saved \in Nat
    BY <1>3, <1>7, <1>8, InHandMoves, CountFields DEF Inv
  <2>2. InHand' = InHand /\ Rows' = Rows /\ total' = total
    BY <1>1, <2>1, RowsSame
  <2>3. QED
    BY <2>2 DEF Inv, CountsInv
<1>11. PostsInv' /\ RowsInv'
  BY <1>1, <1>2, RowsKeep DEF Inv, PostsInv
<1>12. QED
  BY <1>8, <1>9, <1>10, <1>11 DEF Inv

LEMMA SaveStep == ASSUME Inv, NEW j \in Job, NEW checked \in BOOLEAN, Save(j, checked) PROVE Inv'
<1> DEFINE b == Upcoming(j)
           c == Plus(job[j].counts, SavedOne)
<1>1. /\ Saving(j) /\ job' = [job EXCEPT ![j].records = Rest(j), ![j].counts = c]
      /\ rows' = [rows EXCEPT ![b] = Append(rows[b], j[1])]
      /\ IF checked THEN rows[b] = <<>> ELSE b \notin unseen
      /\ unseen' = IF checked THEN unseen ELSE unseen \cup {b}
      /\ UNCHANGED <<picture, labels, late, delivered, queue, total, failures>>
  BY DEF Save, Known
<1>2. /\ b \in Blob /\ b \in World.fit /\ j[1] \in World.clear
      /\ job[j].stage = "saving" /\ job[j].counts \in Counts
      /\ Cardinality(Rest(j)) \in Nat /\ Leaves(job[j].counts, Cardinality(Rest(j)) + 1)
  BY <1>1, NextRecord DEF Inv
<1>3. j[1] \in Post /\ rows \in [Blob -> Seq(Post)]
  BY JobTyped DEF Inv, RowsInv
<1>4. c \in Counts /\ Leaves(c, Cardinality(Rest(j))) /\ c.saved = job[j].counts.saved + 1
      /\ job[j].counts.saved \in Nat
  <2>1. SavedOne \in Counts /\ SavedOne.saved = 1
    BY FixedCounts DEF SavedOne, NoCounts
  <2>2. PICK d : d = job[j].counts
    OBVIOUS
  <2>3. d \in Counts /\ Leaves(d, Cardinality(Rest(j)) + 1)
    BY <1>2, <2>2
  <2>4. Plus(d, SavedOne) \in Counts
    BY <2>1, <2>3, PlusIsCounts
  <2>5. Leaves(Plus(d, SavedOne), Cardinality(Rest(j)))
    BY <1>2, <2>3, LeavesSaved
  <2>6. Plus(d, SavedOne).saved = d.saved + 1 /\ d.saved \in Nat
    BY <2>1, <2>3, PlusFields, CountFields
  <2>7. QED
    BY <2>2, <2>4, <2>5, <2>6
<1> HIDE DEF b, c
<1>5. /\ rows' \in [Blob -> Seq(Post)] /\ rows'[b] = Append(rows[b], j[1])
      /\ rows[b] \in Seq(Post) /\ \A x \in Blob : x # b => rows'[x] = rows[x]
  BY <1>1, <1>2, <1>3
<1>6. rows'[b] # <<>> /\ Len(rows'[b]) = Len(rows[b]) + 1 /\ Len(rows[b]) \in Nat
  BY <1>3, <1>5
<1>7. Grows(World, World')
  <2>1. World'.clear = World.clear /\ World'.self = World.self /\ World'.fit = World.fit
    BY <1>1 DEF World, Fit, Reasons
  <2>2. World.stored \subseteq World'.stored
    BY <1>1, <1>5, <1>6 DEF World
  <2>3. QED
    BY <2>1, <2>2 DEF Grows
<1>8. b \in World'.stored
  BY <1>2, <1>6 DEF World
<1>9. /\ Moves(j) /\ Shape(job'[j]) /\ Fine(j[1], job'[j], World')
      /\ job'[j].stage = "saving" /\ job'[j].counts = c
  <2>1. PICK v : v = World'
    OBVIOUS
  <2>2. Upcoming(j) \in v.stored
    BY <1>8, <2>1 DEF b
  <2>3. QED
    BY <1>1, <1>4, <1>7, <2>1, <2>2, RestIsFine DEF Inv
<1>10. JobsInv'
  BY <1>1, <1>2, <1>7, <1>9, JobsKeep DEF Inv
<1>11. QueueInv'
  BY <1>1, <1>9, QueueKeeps DEF Inv
<1>12. CountsInv'
  <2>1. InHand \in Nat /\ InHand' = InHand - job[j].counts.saved + c.saved
    BY <1>2, <1>9, <1>10, InHandMoves DEF Inv
  <2>2. InHand' = InHand + 1
    BY <1>4, <2>1
  <2>3. Rows \in Nat /\ Rows' = Rows + 1
    BY <1>1, <1>2, <1>3, RowsAdd
  <2>4. total \in Counts /\ Leaves(total, 0) /\ total.saved + InHand = Rows /\ total.saved \in Nat
    BY CountFields DEF Inv, CountsInv
  <2>5. total.saved + (InHand + 1) = Rows + 1
    BY <2>1, <2>3, <2>4
  <2>6. QED
    BY <1>1, <2>2, <2>3, <2>4, <2>5 DEF CountsInv
<1>13. RowsInv'
  <2>1. ASSUME NEW x \in Blob, rows'[x] # <<>>
        PROVE  x \in World'.fit /\ \A i \in DOMAIN rows'[x] : rows'[x][i] \in World'.clear
    <3>1. CASE x = b
      <4>1. \A i \in DOMAIN rows'[b] : rows'[b][i] = j[1] \/ (i \in DOMAIN rows[b] /\ rows'[b][i] = rows[b][i])
        BY <1>3, <1>5
      <4>2. \A i \in DOMAIN rows[b] : rows[b] # <<>> /\ rows[b][i] \in World.clear
        BY <1>2, <1>5 DEF Inv, RowsInv
      <4>3. QED
        BY <1>2, <1>7, <3>1, <4>1, <4>2 DEF Grows
    <3>2. CASE x # b
      BY <1>5, <1>7, <2>1, <3>2 DEF Inv, RowsInv, Grows
    <3>3. QED
      BY <3>1, <3>2
  <2>2. ASSUME NEW x \in Blob PROVE Len(rows'[x]) <= IF x \in unseen' THEN 2 ELSE 1
    <3>1. CASE x = b
      <4>1. CASE checked
        <5>1. Len(rows[b]) = 0
          BY <1>1, <4>1
        <5>2. Len(rows'[b]) = 1
          BY <1>6, <5>1
        <5>3. QED
          BY <3>1, <5>2
      <4>2. CASE ~checked
        <5>1. Len(rows[b]) <= 1
          BY <1>1, <1>2, <4>2 DEF Inv, RowsInv
        <5>2. b \in unseen'
          BY <1>1, <4>2
        <5>3. QED
          BY <1>6, <3>1, <5>1, <5>2
      <4>3. QED
        BY <4>1, <4>2
    <3>2. CASE x # b
      <4>1. Len(rows[x]) <= IF x \in unseen THEN 2 ELSE 1
        BY DEF Inv, RowsInv
      <4>2. rows'[x] = rows[x] /\ (x \in unseen' <=> x \in unseen)
        BY <1>1, <1>5, <3>2
      <4>3. QED
        BY <4>1, <4>2
    <3>3. QED
      BY <3>1, <3>2
  <2>3. QED
    BY <1>5, <2>1, <2>2 DEF RowsInv
<1>14. PostsInv'
  BY <1>1 DEF Inv, PostsInv
<1>15. QED
  BY <1>10, <1>11, <1>12, <1>13, <1>14 DEF Inv

LEMMA RecordCountsStep == ASSUME Inv, NEW j \in Job, RecordCounts(j) PROVE Inv'
<1> DEFINE r == job[j]
<1>1. /\ queue # <<>> /\ j = Head(queue) /\ r.records = {} /\ queue' = Tail(queue)
      /\ total' = Plus(total, r.counts)
      /\ job' = [job EXCEPT ![j] = [stage |-> "done", whole |-> r.whole]]
      /\ UNCHANGED <<picture, labels, late, delivered, rows, unseen, failures>>
  BY DEF RecordCounts
<1>2. /\ r.stage = "saving" /\ Saves(j[1], r, World)
      /\ r \in [stage : {"saving"}, counts : Counts, got : Seq(Blob),
                records : SUBSET Nat, whole : BOOLEAN]
  BY <1>1, HeadIsSaving DEF Inv
<1>3. Moves(j) /\ job'[j] = [stage |-> "done", whole |-> r.whole]
  BY <1>1 DEF Moves, Inv, JobsInv
<1>4. World' = World /\ Grows(World, World')
  BY <1>1, SameWorld
<1>5. Shape(job'[j])
  BY <1>2, <1>3 DEF Shape
<1>6. Fine(j[1], job'[j], World')
  BY <1>1, <1>2, <1>3, <1>4 DEF Fine, Saves
<1>7. JobsInv'
  BY <1>1, <1>2, <1>3, <1>4, <1>5, <1>6, JobsKeep DEF Inv
<1>8. QueueInv'
  BY <1>1, <1>3, QueueLetsGo DEF Inv
<1>9. CountsInv'
  <2>1. r.counts \in Counts /\ Leaves(r.counts, 0)
    BY <1>1, <1>2, FS_EmptySet DEF Saves
  <2>2. total \in Counts /\ Leaves(total, 0) /\ total.saved + InHand = Rows
    BY DEF Inv, CountsInv
  <2>3. total' \in Counts /\ Leaves(total', 0)
    BY <1>1, <2>1, <2>2, PlusIsCounts, LeavesAdd
  <2>4. InHand \in Nat /\ InHand' = InHand - r.counts.saved
    BY <1>2, <1>3, <1>7, InHandMoves DEF Inv
  <2>5. total'.saved = total.saved + r.counts.saved
    BY <1>1, <2>1, <2>2, PlusFields
  <2>6. total.saved \in Nat /\ r.counts.saved \in Nat
    BY <2>1, <2>2, CountFields
  <2>7. Rows' = Rows
    BY <1>1, RowsSame
  <2> HIDE DEF r
  <2>8. total'.saved + InHand' = Rows'
    BY <2>2, <2>4, <2>5, <2>6, <2>7
  <2>9. QED
    BY <2>3, <2>8 DEF CountsInv
<1>10. PostsInv' /\ RowsInv'
  BY <1>1, <1>4, RowsKeep DEF Inv, PostsInv
<1>11. QED
  BY <1>7, <1>8, <1>9, <1>10 DEF Inv

-----------------------------------------------------------------------------
LEMMA InitInv == Init => Inv
<1> SUFFICES ASSUME Init PROVE Inv
  OBVIOUS
<1>1. /\ job = [j \in Job |-> Absent] /\ queue = <<>> /\ rows = [b \in Blob |-> <<>>]
      /\ total = NoCounts /\ delivered = [p \in Post |-> 0]
      /\ picture \in [Blob -> UNION {Picture[b] : b \in Blob}]
      /\ labels \in [Post -> {{}} \cup {{place} : place \in Place}]
  BY DEF Init
<1>2. PostsInv
  <2>1. {{}} \cup {{place} : place \in Place} = {{}, {"self"}, {"thread"}}
    BY DEF Place
  <2>2. QED
    BY <1>1, <2>1 DEF PostsInv
<1>3. JobsInv
  BY <1>1 DEF JobsInv, Shape, Fine, Absent
<1>4. QueueInv
  BY <1>1 DEF QueueInv
<1>5. <<>> \in Seq(Post) /\ Len(<<>>) = 0
  OBVIOUS
<1>6. RowsInv
  BY <1>1, <1>5 DEF RowsInv
<1>7. InHand = 0
  <2>1. At("saving") = {}
    BY <1>1 DEF At, Absent
  <2>2. QED
    BY <2>1, InHandIsTotal, SumOfEmpty
<1>8. Rows = 0
  <2>1. PICK f : f = Lens
    OBVIOUS
  <2>2. \A b \in Blob : f[b] \in Nat /\ f[b] = f[b] + f[b]
    BY <1>1, <1>5, <2>1 DEF Lens
  <2>3. IsFiniteSet(Blob)
    BY CandidateConstants
  <2>4. SumOf(f, Blob) \in Nat
    BY <2>2, <2>3, SumOfIsNat
  <2>5. SumOf(f, Blob) = SumOf(f, Blob) + SumOf(f, Blob)
    BY <2>2, <2>3, SumOfPlus
  <2>6. QED
    BY <2>1, <2>4, <2>5, RowsIsTotal
<1>9. CountsInv
  BY <1>1, <1>7, <1>8, FixedCounts, FreshCounts DEF CountsInv
<1>10. QED
  BY <1>2, <1>3, <1>4, <1>6, <1>9 DEF Inv

LEMMA NextInv == Inv /\ [Next]_vars => Inv'
<1> SUFFICES ASSUME Inv, [Next]_vars PROVE Inv'
  OBVIOUS
<1>1. ASSUME NEW p \in Post, Deliver(p) \/ Moderate(p) PROVE Inv'
  BY <1>1, DeliverStep, ModerateStep
<1>2. ASSUME NEW j \in Job,
             \/ \E fetched \in BOOLEAN : CheckMeta(j, fetched)
             \/ PassOn(j) \/ StartDownloads(j) \/ ClassifyImages(j) \/ ClassifyPanics(j)
             \/ \E i \in DOMAIN Images[j[1]], ok \in BOOLEAN : Downloaded(j, i, ok)
      PROVE  Inv'
  BY <1>2, BeforeSaving
<1>3. ASSUME NEW j \in Job, Skip(j) \/ WriteFails(j) \/ RecordCounts(j) PROVE Inv'
  BY <1>3, SkipStep, WriteFailsStep, RecordCountsStep
<1>4. ASSUME NEW j \in Job, NEW checked \in BOOLEAN, Save(j, checked) PROVE Inv'
  BY <1>4, SaveStep
<1>5. CASE UNCHANGED vars
  <2>1. World' = World
    BY <1>5, SameWorld DEF vars
  <2>2. JobsInv'
    BY <1>5, <2>1 DEF vars, Inv, JobsInv
  <2>3. RowsInv'
    BY <1>5, <2>1 DEF vars, Inv, RowsInv
  <2>4. PostsInv' /\ QueueInv' /\ CountsInv'
    BY <1>5 DEF vars, Inv, PostsInv, QueueInv, CountsInv, InHand, Rows, At, MapThenSumSet,
                MapThenFoldSet
  <2>5. QED
    BY <2>2, <2>3, <2>4 DEF Inv
<1>6. QED
  BY <1>1, <1>2, <1>3, <1>4, <1>5 DEF Next

LEMMA Invariance == Spec => []Inv
<1>1. QED
  BY InitInv, NextInv, PTL DEF Spec

\* A chosen record shows what it was chosen by.
LEMMA ChosenShows ==
    ASSUME NEW S, NEW p, \E w \in S : w.shown = p
    PROVE  /\ (CHOOSE w \in S : w.shown = p) \in S
           /\ (CHOOSE w \in S : w.shown = p).shown = p
OBVIOUS

\* The verdict on a blob is what classify says of its picture.
LEMMA VerdictIsClassify ==
    ASSUME NEW b \in Blob, picture[b] \in UNION {Picture[a] : a \in Blob}
    PROVE  Reasons(b) = Classify(picture[b])
<1>1. [shown |-> picture[b], reasons |-> Classify(picture[b])] \in Verdicts
  BY DEF Verdicts
<1>2. \E w \in Verdicts : w.shown = picture[b]
  BY <1>1
<1>3. PICK v : /\ v = CHOOSE w \in Verdicts : w.shown = picture[b]
               /\ v \in Verdicts /\ v.shown = picture[b]
  BY <1>2, ChosenShows
<1>4. PICK p : v = [shown |-> p, reasons |-> Classify(p)]
  BY <1>3 DEF Verdicts
<1>5. v.shown = p /\ v.reasons = Classify(p)
  BY <1>4
<1>6. QED
  BY <1>3, <1>5 DEF Reasons

\* What is stored is of a post that was not labelled when it was created, and
\* shows an off-centre selfie.
THEOREM OnlyFitIsStored == Spec => []StoredIsFit
<1>1. Inv => StoredIsFit
  <2> SUFFICES ASSUME Inv PROVE StoredIsFit
    OBVIOUS
  <2>1. ASSUME NEW b \in Blob, rows[b] # <<>>
        PROVE  /\ \A i \in DOMAIN rows[b] : labels[rows[b][i]] = {} \/ rows[b][i] \in late
               /\ IsOffCentreSelfie(picture[b])
    <3>1. b \in World.fit /\ \A i \in DOMAIN rows[b] : rows[b][i] \in World.clear
      BY <2>1 DEF Inv, RowsInv
    <3>2. \A i \in DOMAIN rows[b] : labels[rows[b][i]] = {} \/ rows[b][i] \in late
      BY <3>1 DEF World
    <3>3. picture[b] \in UNION {Picture[a] : a \in Blob} /\ Reasons(b) = {}
      BY <3>1 DEF World, Fit, Inv, PostsInv
    <3>4. Reasons(b) = Classify(picture[b])
      BY <3>3, VerdictIsClassify
    <3>5. picture[b] \in Pictures
      BY <3>3, CandidateConstants
    <3>6. QED
      BY <3>2, <3>3, <3>4, <3>5, FitIsOffCentre
  <2>2. QED
    BY <2>1 DEF StoredIsFit
<1>2. QED
  BY <1>1, Invariance, PTL

\* Nothing is stored twice by a replay, and the counts are those of the rows.
THEOREM ReplaysAreHarmless == Spec => []ReplayAddsNoRow
<1>1. Inv => ReplayAddsNoRow
  BY LeavesMakeSense DEF Inv, RowsInv, CountsInv, ReplayAddsNoRow
<1>2. QED
  BY <1>1, Invariance, PTL

\* A fit image of a post that came through is stored.
THEOREM FitIsStored == Spec => []NothingFitIsDropped
<1>1. Inv => NothingFitIsDropped
  <2> SUFFICES ASSUME Inv, NEW j \in At("done"), job[j].whole, NEW i \in DOMAIN Images[j[1]],
                      rows[Images[j[1]][i]] = <<>>, Images[j[1]][i] \notin failures,
                      Fit(Images[j[1]][i])
               PROVE  FALSE
    BY DEF NothingFitIsDropped
  <2>1. j \in Job /\ job[j].stage = "done" /\ Fine(j[1], job[j], World)
    BY DEF At, Inv, JobsInv
  <2>2. Images[j[1]][i] \in Blob
    BY <2>1, JobTyped
  <2>3. Images[j[1]][i] \in World.fit
    BY <2>2 DEF World
  <2>4. Images[j[1]][i] \in World.stored
    BY <2>1, <2>3 DEF Fine
  <2>5. QED
    BY <2>4 DEF World
<1>2. QED
  BY <1>1, Invariance, PTL
==============================================================================
