------------------------------ MODULE ToolsProofs ------------------------------
(***************************************************************************)
(* What the jobs beside the services promise, for every value of the       *)
(* constants: the registry of models and its training (ModelRegistry), the *)
(* opening and the sweep of the store (Storage), the exporters' runs       *)
(* (Exporters), what a batch of live-refine counts (Scoring) and what the  *)
(* price registry quotes (Prices).                                         *)
(***************************************************************************)
EXTENDS MCTools, SumProofs

-----------------------------------------------------------------------------
(* Numbers and sets.                                                       *)

\* A nonempty set of naturals below a bound has a greatest element.
LEMMA GreatestOf ==
    ASSUME NEW n \in Nat, NEW S \in SUBSET (0 .. n - 1), S # {}
    PROVE  \E i \in S : \A j \in S : i >= j
<1> DEFINE T == {n - i : i \in S}
<1>0. \A i \in S : i \in Nat /\ n - i \in Nat
  OBVIOUS
<1>1. T \in SUBSET Nat /\ T # {}
  BY <1>0
<1>2. PICK t \in T : \A u \in T : t <= u
  BY <1>1, LeastNat
<1>3. PICK i \in S : t = n - i
  BY <1>2
<1>4. \A j \in S : n - j \in T
  OBVIOUS
<1>5. ASSUME NEW j \in S PROVE i >= j
  <2>1. n - i <= n - j
    BY <1>2, <1>3, <1>4
  <2>2. QED
    BY <1>0, <2>1
<1>6. QED
  BY <1>5

\* An instance has its own name for the operators on sets; they mean the same.
LEMMA SameSets ==
    /\ \A S : Batch!IsFiniteSet(S) <=> IsFiniteSet(S)
    /\ \A S : Batch!Cardinality(S) = Cardinality(S)
    /\ \A S : Lake!Cardinality(S) = Cardinality(S)
BY DEF Batch!IsFiniteSet, IsFiniteSet, Batch!Cardinality, Lake!Cardinality, Cardinality

-----------------------------------------------------------------------------
(* Scores.                                                                 *)

Judged == [score : 0 .. MaxScore, is_positive : BOOLEAN]
Evaluated == UNION {[images -> Judged] : images \in SUBSET DOMAIN Items}
Cells == {"true_pos", "false_pos", "true_neg", "false_neg"}
Matrix == [Cells -> Nat]

LEMMA ConfusionType ==
    ASSUME NEW labelled \in Evaluated, NEW t
    PROVE  ConfusionAt(labelled, t) \in Matrix
<1>1. IsFiniteSet(DOMAIN labelled)
  <2>1. DOMAIN labelled \in SUBSET DOMAIN Items
    BY DEF Evaluated
  <2>2. QED
    BY <2>1, RegistryConstants, FS_Subset
<1>2. ASSUME NEW cell \in Cells
      PROVE  Cardinality({i \in DOMAIN labelled :
                 Record(labelled[i].is_positive, labelled[i].score >= t) = cell}) \in Nat
  <2> DEFINE S == {i \in DOMAIN labelled :
                 Record(labelled[i].is_positive, labelled[i].score >= t) = cell}
  <2>1. IsFiniteSet(S)
    <3>1. S \subseteq DOMAIN labelled
      OBVIOUS
    <3> HIDE DEF S
    <3>2. QED
      BY <1>1, <3>1, FS_Subset
  <2> HIDE DEF S
  <2>2. QED
    BY <2>1, FS_CardinalityType DEF S
<1>3. QED
  BY <1>2 DEF ConfusionAt, Matrix, Cells

\* Positive images make up the denominator of every recall.
Positives(labelled) == {i \in DOMAIN labelled : labelled[i].is_positive}
Hits(labelled, t) == {i \in Positives(labelled) : labelled[i].score >= t}

LEMMA RecallShare ==
    ASSUME NEW labelled \in Evaluated, NEW t
    PROVE  LET h == Cardinality(Hits(labelled, t))
               p == Cardinality(Positives(labelled))
           IN  /\ h \in 0 .. p /\ p \in Nat
               /\ Recall(ConfusionAt(labelled, t)) =
                    IF p = 0 THEN Undefined ELSE [num |-> h, den |-> p]
<1> DEFINE P == Positives(labelled)
           H == Hits(labelled, t)
           h == Cardinality(H)
           p == Cardinality(P)
           m == ConfusionAt(labelled, t)
<1>1. IsFiniteSet(P)
  <2>1. P \in SUBSET DOMAIN Items
    BY DEF Evaluated, Positives
  <2> HIDE DEF P
  <2>2. QED
    BY <2>1, RegistryConstants, FS_Subset
<1>2. H \subseteq P
  BY DEF Hits
<1>3. \A i \in DOMAIN labelled : labelled[i].is_positive \in BOOLEAN
  BY DEF Evaluated, Judged
<1>4. m.true_pos = h
  <2>1. {i \in DOMAIN labelled :
            Record(labelled[i].is_positive, labelled[i].score >= t) = "true_pos"} = H
    <3>1. \A i \in DOMAIN labelled :
            Record(labelled[i].is_positive, labelled[i].score >= t) = "true_pos" <=>
                labelled[i].is_positive /\ labelled[i].score >= t
      BY <1>3 DEF Record
    <3>2. QED
      BY <3>1 DEF Hits, Positives
  <2>2. m.true_pos = Cardinality({i \in DOMAIN labelled :
            Record(labelled[i].is_positive, labelled[i].score >= t) = "true_pos"})
    BY DEF ConfusionAt
  <2>3. QED
    BY <2>1, <2>2
<1>5. m.false_neg = Cardinality(P \ H)
  <2>1. {i \in DOMAIN labelled :
            Record(labelled[i].is_positive, labelled[i].score >= t) = "false_neg"} = P \ H
    <3>1. \A i \in DOMAIN labelled :
            Record(labelled[i].is_positive, labelled[i].score >= t) = "false_neg" <=>
                labelled[i].is_positive /\ ~(labelled[i].score >= t)
      BY <1>3 DEF Record
    <3>2. QED
      BY <3>1 DEF Hits, Positives
  <2>2. m.false_neg = Cardinality({i \in DOMAIN labelled :
            Record(labelled[i].is_positive, labelled[i].score >= t) = "false_neg"})
    BY DEF ConfusionAt
  <2>3. QED
    BY <2>1, <2>2
<1> HIDE DEF P, H, m
<1>6. IsFiniteSet(H) /\ h \in Nat /\ p \in Nat /\ h <= p
  <2>1. IsFiniteSet(H) /\ Cardinality(H) <= Cardinality(P)
    BY <1>1, <1>2, FS_Subset
  <2>2. QED
    BY <1>1, <2>1, FS_CardinalityType
<1>7. Cardinality(P \ H) = p - h
  <2>1. Cardinality(P \ H) = Cardinality(P) - Cardinality(P \cap H)
    BY <1>1, FS_Difference
  <2>2. P \cap H = H
    BY <1>2
  <2>3. QED
    BY <2>1, <2>2
<1>8. m.true_pos + m.false_neg = p
  BY <1>4, <1>5, <1>6, <1>7
<1>9. Recall(m) = IF p = 0 THEN Undefined ELSE [num |-> h, den |-> p]
  BY <1>4, <1>8 DEF Recall, Ratio
<1>10. QED
  BY <1>6, <1>9 DEF m, H, P

\* The point that is pinned is one of those that qualify: among them one has
\* the greatest recall, and the lowest threshold of those that have it.
LEMMA PinQualifies ==
    ASSUME NEW labelled \in Evaluated, NEW target, Qualifying(labelled, target) # {}
    PROVE  /\ PinAtPrecision(labelled, target) \in Qualifying(labelled, target)
           /\ \A u \in Qualifying(labelled, target) :
                LET rt == Recall(ConfusionAt(labelled, PinAtPrecision(labelled, target)))
                    ru == Recall(ConfusionAt(labelled, u))
                IN  Exceeds(rt, ru) \/ (AtLeast(rt, ru) /\ PinAtPrecision(labelled, target) <= u)
<1> DEFINE Q == Qualifying(labelled, target)
           h(t) == Cardinality(Hits(labelled, t))
           p == Cardinality(Positives(labelled))
           R(t) == Recall(ConfusionAt(labelled, t))
<1>1. Q \subseteq Nat /\ \A t \in Q : Defined(R(t))
  <2>1. OperatingPoints(labelled) \subseteq Nat
    BY DEF OperatingPoints, Evaluated, Judged
  <2>2. QED
    BY <2>1 DEF Qualifying
<1>2. \A t \in Q : h(t) \in 0 .. p /\ p \in Nat /\ p > 0 /\ R(t) = [num |-> h(t), den |-> p]
  <2>1. ASSUME NEW t \in Q
        PROVE  h(t) \in 0 .. p /\ p \in Nat /\ p > 0 /\ R(t) = [num |-> h(t), den |-> p]
    <3>1. /\ h(t) \in 0 .. p /\ p \in Nat
          /\ R(t) = IF p = 0 THEN Undefined ELSE [num |-> h(t), den |-> p]
      BY RecallShare
    <3>2. Defined(R(t))
      BY <1>1
    <3> HIDE DEF p, h, R
    <3>3. p # 0
      BY <3>1, <3>2 DEF Defined, Undefined
    <3>4. QED
      BY <3>1, <3>3
  <2>2. QED
    BY <2>1
<1> HIDE DEF Q, h, p, R
<1>3. Q # {} /\ p \in Nat
  BY <1>2 DEF Q
<1>4. PICK best \in Q : \A u \in Q : h(best) >= h(u)
  <2> DEFINE N == {h(t) : t \in Q}
  <2>1. N \in SUBSET (0 .. (p + 1) - 1) /\ N # {} /\ p + 1 \in Nat
    BY <1>2, <1>3
  <2> HIDE DEF N
  <2>2. PICK n \in N : \A k \in N : n >= k
    BY <2>1, GreatestOf
  <2>3. QED
    BY <2>2 DEF N
<1> DEFINE T == {t \in Q : h(t) = h(best)}
<1>5. PICK t \in T : \A u \in T : t <= u
  <2>1. T \in SUBSET Nat /\ T # {}
    BY <1>1, <1>4
  <2> HIDE DEF T
  <2>2. QED
    BY <2>1, LeastNat
<1>6. ASSUME NEW u \in Q
      PROVE  Exceeds(R(t), R(u)) \/ (AtLeast(R(t), R(u)) /\ t <= u)
  <2>1. h(t) \in Nat /\ h(u) \in Nat /\ p \in Nat /\ p > 0 /\ h(t) >= h(u)
    BY <1>2, <1>4, <1>5, <1>6
  <2>2. R(t) = [num |-> h(t), den |-> p] /\ R(u) = [num |-> h(u), den |-> p]
    BY <1>2, <1>5, <1>6
  <2>3. CASE h(t) = h(u)
    <3>1. AtLeast(R(t), R(u))
      BY <2>1, <2>2, <2>3 DEF AtLeast
    <3>2. t <= u
      BY <1>5, <1>6, <2>3
    <3>3. QED
      BY <3>1, <3>2
  <2>4. CASE h(t) > h(u)
    <3>1. \A a, b, c \in Nat : a > b /\ c > 0 => a * c > b * c
      OBVIOUS
    <3>2. h(t) * p > h(u) * p
      BY <2>1, <2>4, <3>1
    <3>3. QED
      BY <2>2, <3>2 DEF Exceeds
  <2>5. QED
    BY <2>1, <2>3, <2>4
<1>7. t \in Q
  BY <1>5
<1> DEFINE leads(v) == \A u \in Q : Exceeds(R(v), R(u)) \/ (AtLeast(R(v), R(u)) /\ v <= u)
<1>8. PinAtPrecision(labelled, target) = CHOOSE v \in Q : leads(v)
  BY Zenon DEF PinAtPrecision, Q, R
<1>9. \E v \in Q : leads(v)
  BY <1>6, <1>7
<1> HIDE DEF leads
<1>10. PinAtPrecision(labelled, target) \in Q /\ leads(PinAtPrecision(labelled, target))
  BY <1>8, <1>9
<1>11. QED
  BY <1>10, Zenon DEF leads, Q, R

LEMMA PinIsScore ==
    ASSUME RegistryConstants, NEW labelled \in Evaluated, NEW target,
           Qualifying(labelled, target) # {}
    PROVE  PinAtPrecision(labelled, target) \in 0 .. MaxScore
<1>1. PinAtPrecision(labelled, target) \in Qualifying(labelled, target)
  BY PinQualifies
<1>2. OperatingPoints(labelled) \subseteq 0 .. MaxScore
  BY DEF OperatingPoints, Evaluated, Judged
<1>3. QED
  BY <1>1, <1>2 DEF Qualifying

\* A lower threshold finds no less.
LEMMA HitsGrow ==
    ASSUME NEW labelled \in Evaluated, NEW t \in Nat, NEW u \in Nat, u <= t
    PROVE  Cardinality(Hits(labelled, t)) <= Cardinality(Hits(labelled, u))
<1>1. \A i \in DOMAIN labelled : labelled[i].score \in Nat
  BY DEF Evaluated, Judged
<1>2. Hits(labelled, t) \in SUBSET Hits(labelled, u)
  BY <1>1 DEF Hits, Positives
<1>3. IsFiniteSet(Hits(labelled, u))
  <2>1. Hits(labelled, u) \in SUBSET DOMAIN Items
    BY DEF Evaluated, Hits, Positives
  <2> QED
    BY <2>1, RegistryConstants, FS_Subset
<1> QED
  BY <1>2, <1>3, FS_Subset

\* Between two scores the matrix stays the same: a threshold that calls anything
\* positive is as good as the least score above it.
LEMMA ScoresCover ==
    ASSUME NEW labelled \in Evaluated, NEW t \in Nat, Defined(Precision(ConfusionAt(labelled, t)))
    PROVE  \E s \in OperatingPoints(labelled) : ConfusionAt(labelled, s) = ConfusionAt(labelled, t)
<1> DEFINE A == {s \in OperatingPoints(labelled) : s >= t}
           m == ConfusionAt(labelled, t)
<1>1. \A i \in DOMAIN labelled : labelled[i].score \in Nat /\ labelled[i].is_positive \in BOOLEAN
  BY DEF Evaluated, Judged
<1>2. A \in SUBSET Nat
  BY <1>1 DEF OperatingPoints
<1>3. A # {}
  <2>1. SUFFICES ASSUME A = {} PROVE FALSE
    BY <2>1
  <2>2. \A i \in DOMAIN labelled : ~(labelled[i].score >= t)
    BY <2>1 DEF OperatingPoints
  <2>3. \A i \in DOMAIN labelled :
            /\ Record(labelled[i].is_positive, labelled[i].score >= t) # "true_pos"
            /\ Record(labelled[i].is_positive, labelled[i].score >= t) # "false_pos"
    BY <1>1, <2>2 DEF Record
  <2>4. /\ {i \in DOMAIN labelled :
                Record(labelled[i].is_positive, labelled[i].score >= t) = "true_pos"} = {}
        /\ {i \in DOMAIN labelled :
                Record(labelled[i].is_positive, labelled[i].score >= t) = "false_pos"} = {}
    BY <2>3
  <2>5. m.true_pos = Cardinality({}) /\ m.false_pos = Cardinality({})
    BY <2>4 DEF ConfusionAt
  <2>6. m.true_pos = 0 /\ m.false_pos = 0
    BY <2>5, FS_EmptySet
  <2>7. Precision(m) = Undefined
    BY <2>6 DEF Precision, Ratio
  <2> QED
    BY <2>7 DEF Defined, Undefined
<1> HIDE DEF A
<1>4. PICK s \in A : \A u \in A : s <= u
  BY <1>2, <1>3, LeastNat
<1>5. s \in OperatingPoints(labelled) /\ s \in Nat /\ s >= t
  BY <1>2, <1>4 DEF A
<1>6. \A i \in DOMAIN labelled : (labelled[i].score >= s) <=> (labelled[i].score >= t)
  <2>1. SUFFICES ASSUME NEW i \in DOMAIN labelled
                 PROVE  (labelled[i].score >= s) <=> (labelled[i].score >= t)
    BY <2>1
  <2>2. labelled[i].score >= t => labelled[i].score \in A
    BY DEF OperatingPoints, A
  <2> QED
    BY <1>1, <1>4, <1>5, <2>2
<1>7. ConfusionAt(labelled, s) = ConfusionAt(labelled, t)
  <2>1. \A cell \in Cells :
            {i \in DOMAIN labelled : Record(labelled[i].is_positive, labelled[i].score >= s) = cell}
            = {i \in DOMAIN labelled : Record(labelled[i].is_positive, labelled[i].score >= t) = cell}
    <3>1. \A i \in DOMAIN labelled :
            Record(labelled[i].is_positive, labelled[i].score >= s)
            = Record(labelled[i].is_positive, labelled[i].score >= t)
      BY <1>1, <1>6 DEF Record
    <3> QED
      BY <3>1
  <2> QED
    BY <2>1 DEF ConfusionAt, Cells
<1> QED
  BY <1>5, <1>7

\* A threshold, observed as a score or not, that keeps to a precision floor.
KeepsTo(labelled, target, t) ==
    LET m == ConfusionAt(labelled, t)
    IN  Defined(Precision(m)) /\ AtLeast(Precision(m), target) /\ Defined(Recall(m))

\* The threshold pinned at a precision floor is the lowest of the scores that
\* keep to it, and no threshold at all that keeps to it recalls more: nothing is
\* lost by trying only the scores (metrics.rs:31-37, "complete, non-redundant
\* coverage of every operating point").
THEOREM PinLosesNoRecall ==
    ASSUME NEW labelled \in Evaluated, NEW target, NEW t \in Nat, KeepsTo(labelled, target, t)
    PROVE  LET pin == PinAtPrecision(labelled, target)
           IN  /\ pin \in Qualifying(labelled, target)
               /\ \A u \in Qualifying(labelled, target) : pin <= u
               /\ AtLeast(Recall(ConfusionAt(labelled, pin)), Recall(ConfusionAt(labelled, t)))
<1> DEFINE Q == Qualifying(labelled, target)
           h(u) == Cardinality(Hits(labelled, u))
           p == Cardinality(Positives(labelled))
           R(u) == Recall(ConfusionAt(labelled, u))
           pin == PinAtPrecision(labelled, target)
<1>1. PICK s \in OperatingPoints(labelled) : ConfusionAt(labelled, s) = ConfusionAt(labelled, t)
  BY ScoresCover DEF KeepsTo
<1>2. s \in Q
  BY <1>1 DEF KeepsTo, Qualifying
<1>3. /\ pin \in Q
      /\ \A u \in Q : Exceeds(R(pin), R(u)) \/ (AtLeast(R(pin), R(u)) /\ pin <= u)
  BY <1>2, PinQualifies
<1>4. Q \subseteq Nat
  BY DEF Qualifying, OperatingPoints, Evaluated, Judged
<1>5. \A u \in Q : h(u) \in Nat /\ p \in Nat /\ R(u) = [num |-> h(u), den |-> p]
  <2>1. SUFFICES ASSUME NEW u \in Q PROVE h(u) \in Nat /\ p \in Nat /\ R(u) = [num |-> h(u), den |-> p]
    BY <2>1
  <2>2. h(u) \in 0 .. p /\ p \in Nat /\ R(u) = IF p = 0 THEN Undefined ELSE [num |-> h(u), den |-> p]
    BY RecallShare
  <2>3. Defined(R(u))
    BY DEF Qualifying
  <2> HIDE DEF h, p, R
  <2>4. p # 0
    BY <2>2, <2>3 DEF Defined, Undefined
  <2> QED
    BY <2>2, <2>4
<1>6. \A u \in Q : u <= pin => h(pin) <= h(u)
  BY <1>3, <1>4, HitsGrow
<1>7. R(s) = R(t)
  BY <1>1
<1> HIDE DEF Q, h, p, R, pin
<1>8. \A a, b, c \in Nat : a <= b => a * c <= b * c
  OBVIOUS
<1>9. ASSUME NEW u \in Q PROVE pin <= u
  <2>1. SUFFICES ASSUME u < pin PROVE FALSE
    BY <1>3, <1>4, <2>1
  <2>2. h(pin) <= h(u) /\ h(pin) \in Nat /\ h(u) \in Nat /\ p \in Nat
    BY <1>3, <1>4, <1>5, <1>6, <2>1
  <2>3. h(pin) * p <= h(u) * p /\ h(pin) * p \in Nat /\ h(u) * p \in Nat
    BY <1>8, <2>2
  <2>4. ~ Exceeds(R(pin), R(u))
    BY <1>3, <1>5, <2>3 DEF Exceeds
  <2> QED
    BY <1>3, <1>4, <2>1, <2>4
<1>10. AtLeast(R(pin), R(s))
  <2>1. CASE Exceeds(R(pin), R(s))
    <3>1. h(pin) \in Nat /\ h(s) \in Nat /\ p \in Nat
      BY <1>2, <1>3, <1>5
    <3>2. h(pin) * p > h(s) * p /\ h(pin) * p \in Nat /\ h(s) * p \in Nat
      BY <1>2, <1>3, <1>5, <2>1, <3>1 DEF Exceeds
    <3> QED
      BY <1>2, <1>3, <1>5, <3>2 DEF AtLeast
  <2> QED
    BY <1>2, <1>3, <2>1
<1>11. QED
  BY <1>3, <1>7, <1>9, <1>10 DEF Q, R, pin

-----------------------------------------------------------------------------
(* What the variables hold.                                                *)

Splits == [train : SUBSET DOMAIN Items, test : SUBSET DOMAIN Items]
Runs == [run_id : Nat, model_version : Versions, split_id : Splits, matrix : Matrix]
Files == [models : UNION {[vs -> Models] : vs \in SUBSET Versions},
          production : Versions \cup {None}]

TrainingFields == {"phase", "models", "log", "split", "baseline", "iteration",
                   "prompt", "best", "best_f1", "paid", "tested"}

TrainingOK ==
    train.phase # "idle" =>
        /\ DOMAIN train = TrainingFields /\ train = [f \in TrainingFields |-> train[f]]
        /\ train.phase \in {"loop", "logged"}
        /\ train.models \in Files /\ train.log \in Seq(Runs)
        /\ train.split \in Splits /\ train.baseline \in Matrix
        /\ train.prompt \in Prompt /\ train.best \in Prompt
        /\ train.phase = "logged" => train.tested \in Evaluated

TypeOK ==
    /\ registry \in Files /\ log \in Seq(Runs) /\ splits \in Seq(Splits)
    /\ TrainingOK
    /\ reader \subseteq Versions /\ scores \subseteq Versions
    /\ recorded \subseteq Runs /\ IsFiniteSet(recorded)
    /\ damaged \in BOOLEAN

LEMMA VersionType ==
    ASSUME NEW model \in Models, NEW s \in {"V1", "V2"}
    PROVE  VersionUnder(s, model) \in Versions
BY DEF Versions

LEMMA LabelledType ==
    ASSUME NEW test \in SUBSET DOMAIN Items, NEW given \in Scorings(test)
    PROVE  Labelled(test, given) \in Evaluated
<1>1. \A image \in test : IsPositive(image) \in BOOLEAN
  <2>1. ASSUME NEW image \in test PROVE IsPositive(image) \in BOOLEAN
    <3>1. IsPositive(image) <=> Items[image] \in VisibleBands
      BY DEF IsPositive
    <3>2. CASE Items[image] \in VisibleBands
      BY <3>2 DEF IsPositive
    <3>3. CASE ~(Items[image] \in VisibleBands)
      BY <3>3 DEF IsPositive
    <3>4. QED
      BY <3>2, <3>3
  <2>2. QED
    BY <2>1
<1>2. \A image \in test : given[image] \in 0 .. MaxScore
  BY DEF Scorings, Scored
<1>3. Labelled(test, given) \in [test -> Judged]
  BY <1>1, <1>2 DEF Labelled, Judged
<1>4. QED
  BY <1>3 DEF Evaluated

LEMMA CandidateType ==
    ASSUME RegistryConstants, NEW labelled \in Evaluated, train.best \in Prompt
    PROVE  Candidate(labelled) \in Models
<1>1. CASE Qualifying(labelled, Baseline.precision) # {}
  <2>1. PinAtPrecision(labelled, Baseline.precision) \in 0 .. MaxScore
    BY <1>1, PinIsScore
  <2>2. QED
    BY <1>1, <2>1 DEF Candidate, Models
<1>2. CASE Qualifying(labelled, Baseline.precision) = {}
  BY <1>2 DEF Candidate, Models, RegistryConstants
<1>3. QED
  BY <1>1, <1>2

LEMMA RunType ==
    ASSUME NEW id \in Nat, NEW version \in Versions, NEW split \in Splits,
           NEW matrix \in Matrix
    PROVE  Run(id, version, split, matrix) \in Runs
BY DEF Run, Runs

LEMMA InsertType ==
    ASSUME NEW f \in Files, NEW model \in Models
    PROVE  /\ SetLabel(Insert(f, model), Version(model)) \in Files
           /\ SetLabel(Insert(f, model), Version(model)).production = Version(model)
           /\ SetLabel(Insert(f, model), Version(model)).models =
                [v \in DOMAIN f.models \cup {Version(model)} |->
                    IF v = Version(model) THEN model ELSE f.models[v]]
<1> DEFINE ms == [v \in DOMAIN f.models \cup {Version(model)} |->
                    IF v = Version(model) THEN model ELSE f.models[v]]
<1>1. PICK vs \in SUBSET Versions : f.models \in [vs -> Models]
  BY DEF Files
<1>2. Version(model) \in Versions
  BY VersionType DEF Version
<1>3. vs \cup {Version(model)} \in SUBSET Versions /\ ms \in [vs \cup {Version(model)} -> Models]
  BY <1>1, <1>2
<1> HIDE DEF ms
<1>4. ms \in UNION {[us -> Models] : us \in SUBSET Versions}
  BY <1>3
<1>5. Insert(f, model) = [models |-> ms, production |-> f.production]
  BY DEF Insert, Files, ms
<1>6. SetLabel(Insert(f, model), Version(model)) = [models |-> ms, production |-> Version(model)]
  BY <1>5 DEF SetLabel
<1>7. QED
  BY <1>2, <1>4, <1>6 DEF Files, ms

LEMMA EmptyIsFile == EmptyRegistry \in Files /\ DOMAIN EmptyRegistry.models = {}
<1>1. <<>> \in [{} -> Models] /\ DOMAIN <<>> = {}
  OBVIOUS
<1>2. {} \in SUBSET Versions
  OBVIOUS
<1>3. QED
  BY <1>1, <1>2 DEF EmptyRegistry, Files

LEMMA MatrixType ==
    ASSUME RegistryConstants, NEW test \in SUBSET DOMAIN Items, NEW given \in Scorings(test), NEW t
    PROVE  MatrixAt(test, given, t) \in Matrix
<1>1. Labelled(test, given) \in Evaluated
  BY LabelledType
<1>2. QED
  BY <1>1, ConfusionType DEF MatrixAt

\* Appending to a copy of the log, or losing all of it, leaves a log.
LEMMA LogType ==
    ASSUME NEW old \in Seq(Runs), NEW run \in Runs, TypeOK, SaveLog(old, run)
    PROVE  /\ log' \in Seq(Runs)
           /\ recorded' \subseteq Runs /\ IsFiniteSet(recorded')
           /\ recorded \subseteq recorded'
           /\ damaged' = damaged
<1>1. <<>> \in Seq(Runs)
  OBVIOUS
<1>2. Append(old, run) \in Seq(Runs)
  OBVIOUS
<1>3. recorded \subseteq Runs /\ IsFiniteSet(recorded)
  BY DEF TypeOK
<1>4. IsFiniteSet(recorded \cup {run})
  BY <1>3, FS_AddElement
<1>5. QED
  BY <1>1, <1>2, <1>3, <1>4 DEF SaveLog

LEMMA TypeInit == ASSUME RegistryConstants, Init PROVE TypeOK
<1>1. LegacyModel \in Models /\ SeedModel \in Models
  BY DEF LegacyModel, SeedModel, Models, RegistryConstants
<1>2. VersionUnder("V1", LegacyModel) \in Versions /\ Version(SeedModel) \in Versions
  BY <1>1, VersionType DEF Version
<1> DEFINE vs == {VersionUnder("V1", LegacyModel), Version(SeedModel)}
<1>3. vs \in SUBSET Versions
  BY <1>2
<1>4. Shipped.models \in [vs -> Models]
  BY <1>1 DEF Shipped
<1>5. Shipped \in Files
  <2>1. Shipped.models \in UNION {[us -> Models] : us \in SUBSET Versions}
    BY <1>3, <1>4
  <2>2. Shipped = [models |-> Shipped.models, production |-> Version(SeedModel)]
    BY DEF Shipped
  <2>3. QED
    BY <1>2, <2>1, <2>2 DEF Files
<1>6. <<>> \in Seq(Runs) /\ <<>> \in Seq(Splits)
  OBVIOUS
<1>7. TrainingOK
  BY DEF Init, TrainingOK
<1>8. IsFiniteSet({})
  BY FS_EmptySet
<1>9. QED
  BY <1>5, <1>6, <1>7, <1>8 DEF Init, TypeOK

\* The versions that came with the repository or reached the results log.
OnLog == {r.model_version : r \in recorded}
Known == DOMAIN Shipped.models \cup OnLog

\* A registry loads, its V1 keys hold the V1 entry, and it has no other model.
Sound(f) ==
    /\ Loads(f)
    /\ \A v \in DOMAIN f.models : v.scheme = "V1" => f.models[v] = LegacyModel
    /\ DOMAIN f.models \subseteq Known

\* Every registry in use is sound; the candidate is on record before the gate
\* is asked.
RecordInv ==
    /\ Sound(registry)
    /\ train.phase # "idle" => Sound(train.models)
    /\ train.phase = "logged" => Version(Candidate(train.tested)) \in OnLog

LEMMA ByLabelType ==
    ASSUME TypeOK, Loads(registry), registry.production # None
    PROVE  /\ ByLabel(registry) \in Models
           /\ Version(ByLabel(registry)) \in Versions
<1>1. registry.production \in DOMAIN registry.models
  BY DEF Loads
<1>2. ByLabel(registry) \in Models
  BY <1>1 DEF TypeOK, Files, ByLabel
<1>3. QED
  BY <1>2, VersionType DEF Version

LEMMA TypeNext == ASSUME RegistryConstants, TypeOK, RecordInv, [Next]_vars PROVE TypeOK'
<1> USE DEF TypeOK
<1>0. CASE UNCHANGED vars
  BY <1>0 DEF vars, TrainingOK
<1>1. CASE TrainStart
  <2>1. PICK baseline \in Range(log) :
            train' = [phase |-> "loop", models |-> registry, log |-> log,
                         split |-> Default, baseline |-> baseline.matrix,
                         iteration |-> 1, prompt |-> SeedPrompt, best |-> SeedPrompt,
                         best_f1 |-> Undefined, paid |-> 0, tested |-> <<>>]
    BY <1>1 DEF TrainStart
  <2>2. baseline \in Runs
    BY DEF Range
  <2>3. Default \in Splits
    BY <1>1 DEF TrainStart, Default
  <2>4. train'.models \in Files /\ train'.log \in Seq(Runs) /\ train'.split \in Splits
        /\ train'.baseline \in Matrix /\ train'.phase = "loop"
        /\ train'.prompt \in Prompt /\ train'.best \in Prompt
    BY <2>1, <2>2, <2>3 DEF Runs, RegistryConstants
  <2>5. DOMAIN train' = TrainingFields /\ train' = [f \in TrainingFields |-> train'[f]]
    BY <2>1 DEF TrainingFields
  <2>6. TrainingOK'
    BY <2>4, <2>5 DEF TrainingOK
  <2>7. QED
    BY <1>1, <2>6 DEF TrainStart
<1>2. CASE TrainIterate
  <2>1. PICK sample \in StratifiedSample([image \in train.split.train |-> Items[image]],
                PerIteration(train.split), {Items[image] : image \in DOMAIN Items}) :
        \E given \in Scorings(sample), answer \in Refinements :
        LET f1 == F1(MatrixAt(sample, given, LoopThreshold))
            better == Defined(f1) /\ (Defined(train.best_f1) => Exceeds(f1, train.best_f1))
        IN  train' = [train EXCEPT
                        !.iteration = @ + 1,
                        !.paid = @ + Cardinality(sample),
                        !.best = IF better THEN train.prompt ELSE @,
                        !.best_f1 = IF better THEN f1 ELSE @,
                        !.prompt = IF train.iteration < MaxIterations THEN answer ELSE @]
    BY <1>2 DEF TrainIterate
  <2>6. PICK answer, better, f1 :
        answer \in Refinements /\ train' = [train EXCEPT
                        !.iteration = @ + 1,
                        !.paid = @ + Cardinality(sample),
                        !.best = IF better THEN train.prompt ELSE @,
                        !.best_f1 = IF better THEN f1 ELSE @,
                        !.prompt = IF train.iteration < MaxIterations THEN answer ELSE @]
    <3>1. PICK given \in Scorings(sample), answer \in Refinements :
        LET f1 == F1(MatrixAt(sample, given, LoopThreshold))
            better == Defined(f1) /\ (Defined(train.best_f1) => Exceeds(f1, train.best_f1))
        IN  train' = [train EXCEPT
                        !.iteration = @ + 1,
                        !.paid = @ + Cardinality(sample),
                        !.best = IF better THEN train.prompt ELSE @,
                        !.best_f1 = IF better THEN f1 ELSE @,
                        !.prompt = IF train.iteration < MaxIterations THEN answer ELSE @]
      BY <2>1
    <3>2. QED
      BY <3>1
  <2>2. train.phase = "loop" /\ TrainingOK
    BY <1>2 DEF TrainIterate
  <2>3. DOMAIN train' = TrainingFields /\ train' = [f \in TrainingFields |-> train'[f]]
        /\ train'.phase = train.phase /\ train'.models = train.models
        /\ train'.log = train.log /\ train'.split = train.split
        /\ train'.baseline = train.baseline
        /\ train'.best \in {train.best, train.prompt}
        /\ train'.prompt \in {train.prompt, answer}
    BY <2>6, <2>2 DEF TrainingOK, TrainingFields
  <2>4. TrainingOK'
    BY <2>2, <2>3, <2>6 DEF TrainingOK, Refinements
  <2>5. QED
    BY <1>2, <2>4 DEF TrainIterate
<1>3. CASE TrainEvaluate
  <2>1. train.phase = "loop" /\ TrainingOK
    BY <1>3 DEF TrainEvaluate
  <2>2. train.split.test \in SUBSET DOMAIN Items
    BY <2>1 DEF TrainingOK, Splits
  <2> DEFINE test == train.split.test
  <2>3. PICK given \in Scorings(test) :
            /\ SaveLog(train.log, Run(NextRunId, Version(Candidate(Labelled(test, given))),
                                      train.split, MatrixAt(test, given, LoopThreshold)))
            /\ train' = IF log' = <<>> THEN [phase |-> "idle"]
                        ELSE [train EXCEPT !.phase = "logged", !.paid = @ + Cardinality(test),
                                           !.tested = Labelled(test, given)]
    BY <1>3 DEF TrainEvaluate
  <2>4. Labelled(test, given) \in Evaluated
    BY <2>2, LabelledType
  <2>5. NextRunId \in Nat
    BY FS_CardinalityType DEF NextRunId
  <2>6. Version(Candidate(Labelled(test, given))) \in Versions
    BY <2>1, <2>4, CandidateType, VersionType DEF Version, TrainingOK
  <2>7. MatrixAt(test, given, LoopThreshold) \in Matrix
    BY <2>2, MatrixType
  <2>8. Run(NextRunId, Version(Candidate(Labelled(test, given))), train.split,
            MatrixAt(test, given, LoopThreshold)) \in Runs
    BY <2>1, <2>5, <2>6, <2>7, RunType DEF TrainingOK
  <2>9. log' \in Seq(Runs) /\ recorded' \subseteq Runs /\ IsFiniteSet(recorded')
        /\ damaged' = damaged
    BY <2>1, <2>3, <2>8, LogType DEF TrainingOK
  <2>10. TrainingOK'
    <3>1. CASE log' = <<>>
      BY <2>3, <3>1 DEF TrainingOK
    <3>2. CASE log' # <<>>
      <4>1. DOMAIN train' = TrainingFields /\ train' = [f \in TrainingFields |-> train'[f]]
            /\ train'.phase = "logged" /\ train'.models = train.models
            /\ train'.log = train.log /\ train'.split = train.split
            /\ train'.baseline = train.baseline
            /\ train'.best = train.best /\ train'.prompt = train.prompt
            /\ train'.tested = Labelled(test, given)
        BY <2>1, <2>3, <3>2 DEF TrainingOK, TrainingFields
      <4> HIDE DEF test
      <4>2. QED
        BY <2>1, <2>4, <4>1 DEF TrainingOK
    <3>3. QED
      BY <3>1, <3>2
  <2>11. QED
    BY <1>3, <2>9, <2>10 DEF TrainEvaluate
<1>4. CASE TrainAccept
  <2>1. train.phase = "logged" /\ TrainingOK
    BY <1>4 DEF TrainAccept
  <2>2. Candidate(train.tested) \in Models
    BY <2>1, CandidateType DEF TrainingOK
  <2>3. SetLabel(Insert(train.models, Candidate(train.tested)),
                 Version(Candidate(train.tested))) \in Files
    BY <2>1, <2>2, InsertType DEF TrainingOK
  <2>4. registry' \in Files /\ damaged' \in BOOLEAN
    BY <1>4, <2>3, EmptyIsFile DEF TrainAccept, SaveRegistry
  <2>5. QED
    BY <1>4, <2>4 DEF TrainAccept, TrainingOK
<1>5. CASE TrainReject
  BY <1>5 DEF TrainReject, TrainingOK
<1>6. CASE TrainFails
  BY <1>6 DEF TrainFails, TrainingOK
<1>7. CASE Promote
  <2>1. PICK version \in DOMAIN registry.models :
            SaveRegistry(registry, SetLabel(registry, version))
    BY <1>7 DEF Promote
  <2>2. version \in Versions
    BY DEF Files
  <2>3. SetLabel(registry, version) \in Files
    BY <2>2 DEF SetLabel, Files
  <2>4. registry' \in Files /\ damaged' \in BOOLEAN
    BY <2>1, <2>3, EmptyIsFile DEF SaveRegistry
  <2>5. QED
    BY <1>7, <2>4 DEF Promote, TrainingOK
<1>8. CASE CaptureAppraisals
  <2>1. PICK s \in StratifiedSplit(Items, TrainRatio, {Items[i] : i \in DOMAIN Items}) :
            SaveSplits(Append(splits, s))
    BY <1>8 DEF CaptureAppraisals
  <2>2. s \in Splits
    <3> DEFINE bands == {Items[i] : i \in DOMAIN Items}
               picks == {p \in [bands -> SUBSET DOMAIN Items] : \A b \in bands :
                            p[b] \in BandTests(Group(Items, b), TrainRatio)}
    <3>1. PICK test \in {UNION {pick[b] : b \in bands} : pick \in picks} :
                s = [train |-> DOMAIN Items \ test, test |-> test]
      BY DEF StratifiedSplit
    <3>2. PICK pick \in picks : test = UNION {pick[b] : b \in bands}
      BY <3>1
    <3>3. pick \in [bands -> SUBSET DOMAIN Items]
      BY <3>2
    <3> HIDE DEF picks, bands
    <3>4. test \in SUBSET DOMAIN Items
      BY <3>2, <3>3
    <3>5. QED
      BY <3>1, <3>4 DEF Splits
  <2>3. <<>> \in Seq(Splits) /\ Append(splits, s) \in Seq(Splits)
    BY <2>2
  <2>4. splits' \in Seq(Splits)
    BY <2>1, <2>3 DEF SaveSplits
  <2>5. QED
    BY <1>8, <2>4 DEF CaptureAppraisals, TrainingOK
<1>9. CASE RefineEval
  <2>1. Default \in Splits
    BY <1>9 DEF RefineEval, Default
  <2>2. Default.test \in SUBSET DOMAIN Items
    BY <2>1 DEF Splits
  <2>3. PICK given \in Scorings(Default.test) :
            SaveLog(log, Run(NextRunId, Version(ByLabel(registry)), Default,
                             MatrixAt(Default.test, given, ByLabel(registry).threshold)))
    BY <1>9 DEF RefineEval
  <2>4. Version(ByLabel(registry)) \in Versions
    BY <1>9, ByLabelType DEF RefineEval, RecordInv, Sound
  <2>5. NextRunId \in Nat
    BY FS_CardinalityType DEF NextRunId
  <2>6. MatrixAt(Default.test, given, ByLabel(registry).threshold) \in Matrix
    BY <2>2, MatrixType
  <2>7. Run(NextRunId, Version(ByLabel(registry)), Default,
            MatrixAt(Default.test, given, ByLabel(registry).threshold)) \in Runs
    BY <2>1, <2>4, <2>5, <2>6, RunType
  <2>8. log' \in Seq(Runs) /\ recorded' \subseteq Runs /\ IsFiniteSet(recorded')
        /\ damaged' = damaged
    BY <2>3, <2>7, LogType
  <2>9. QED
    BY <1>9, <2>8 DEF RefineEval, TrainingOK
<1>10. CASE RollReader
  BY <1>10 DEF RollReader, TrainingOK, Files
<1>11. CASE RollWriter
  <2>1. Version(ByLabel(registry)) \in Versions
    BY <1>11, ByLabelType DEF RollWriter, RecordInv, Sound
  <2>2. QED
    BY <1>11, <2>1 DEF RollWriter, TrainingOK
<1>12. QED
  BY <1>0, <1>1, <1>2, <1>3, <1>4, <1>5, <1>6, <1>7, <1>8, <1>9, <1>10, <1>11 DEF Next

-----------------------------------------------------------------------------
(* The registry and the results log.                                       *)

\* A run is recorded with its model's version, or the log is lost.
LEMMA SaveLogRecords ==
    ASSUME NEW old, NEW run, SaveLog(old, run)
    PROVE  /\ recorded \subseteq recorded'
           /\ run \in recorded' \/ log' = <<>>
BY DEF SaveLog

LEMMA InsertSound ==
    ASSUME NEW f \in Files, NEW model \in Models, Sound(f), Version(model) \in OnLog
    PROVE  Sound(SetLabel(Insert(f, model), Version(model)))
<1> DEFINE g == SetLabel(Insert(f, model), Version(model))
<1>1. /\ g.production = Version(model)
      /\ g.models = [v \in DOMAIN f.models \cup {Version(model)} |->
                        IF v = Version(model) THEN model ELSE f.models[v]]
  BY InsertType
<1> HIDE DEF g
<1>2. ASSUME NEW v \in DOMAIN g.models
      PROVE  /\ VersionUnder(v.scheme, g.models[v]) = v
             /\ v.scheme = "V1" => g.models[v] = LegacyModel
             /\ v \in Known
  <2>1. CASE v = Version(model)
    <3>1. v.scheme = "V2"
      BY <2>1 DEF Version, VersionUnder
    <3>2. g.models[v] = model
      BY <1>1, <2>1
    <3>3. QED
      BY <2>1, <3>1, <3>2 DEF Version, Known
  <2>2. CASE v # Version(model)
    <3>1. v \in DOMAIN f.models /\ g.models[v] = f.models[v]
      BY <1>1, <2>2
    <3>2. QED
      BY <3>1 DEF Sound, Loads
  <2>3. QED
    BY <2>1, <2>2
<1>3. g.production \in DOMAIN g.models
  BY <1>1
<1>4. Sound(g)
  BY <1>2, <1>3 DEF Sound, Loads
<1>5. QED
  BY <1>4 DEF g

LEMMA RecordInit == ASSUME RegistryConstants, Init PROVE RecordInv
<1> DEFINE old == VersionUnder("V1", LegacyModel)
           new == Version(SeedModel)
<1>1. old.scheme = "V1" /\ new.scheme = "V2"
  BY DEF Version, VersionUnder
<1>2. DOMAIN Shipped.models = {old, new} /\ Shipped.production = new
      /\ Shipped.models[old] = LegacyModel /\ Shipped.models[new] = SeedModel
  <2> HIDE DEF old, new
  <2>1. Shipped = [models |-> [v \in {old, new} |->
                                   IF v.scheme = "V1" THEN LegacyModel ELSE SeedModel],
                   production |-> new]
    BY DEF Shipped, old, new
  <2>2. QED
    BY <1>1, <2>1
<1>3. VersionUnder(old.scheme, LegacyModel) = old /\ VersionUnder(new.scheme, SeedModel) = new
  BY <1>1 DEF Version
<1> HIDE DEF old, new
<1>4. Sound(Shipped)
  BY <1>1, <1>2, <1>3 DEF Sound, Loads, Known
<1>5. QED
  BY <1>4 DEF Init, RecordInv

LEMMA RecordNext == ASSUME RegistryConstants, TypeOK, RecordInv, [Next]_vars PROVE RecordInv'
\* What a sound registry is depends on the records alone, and grows with them.
<1> DEFINE Good(f, versions) ==
        /\ Loads(f)
        /\ \A v \in DOMAIN f.models : v.scheme = "V1" => f.models[v] = LegacyModel
        /\ DOMAIN f.models \subseteq versions
<1>a. Sound(registry)' <=> Good(registry', Known')
  BY DEF Sound, Loads
<1>b. Sound(train.models)' <=> Good(train'.models, Known')
  BY DEF Sound, Loads
<1>c. \A f : Sound(f) <=> Good(f, Known)
  BY DEF Sound
<1>d. recorded \subseteq recorded' => Known \subseteq Known' /\ OnLog \subseteq OnLog'
  BY DEF Known, OnLog
<1>e. \A f : recorded \subseteq recorded' /\ Good(f, Known) => Good(f, Known')
  BY <1>d
<1>f. Good(registry, Known)
  BY <1>c DEF RecordInv
<1>g. Good(EmptyRegistry, Known')
  <2>1. DOMAIN EmptyRegistry.models = {} /\ EmptyRegistry.production = None
    BY EmptyIsFile DEF EmptyRegistry
  <2>2. QED
    BY <2>1 DEF Loads
<1> HIDE DEF Good
<1>0. CASE UNCHANGED vars
  <2>1. registry' = registry /\ train' = train /\ OnLog' = OnLog /\ recorded' = recorded
    BY <1>0 DEF vars, OnLog
  <2>2. Version(Candidate(train.tested))' = Version(Candidate(train.tested))
    BY <2>1 DEF Candidate, Baseline
  <2>3. QED
    BY <2>1, <2>2, <1>a, <1>b, <1>c, <1>e DEF RecordInv
<1>1. CASE TrainStart
  <2>1. train'.phase = "loop" /\ train'.models = registry
        /\ registry' = registry /\ recorded' = recorded
    BY <1>1 DEF TrainStart
  <2>2. QED
    BY <2>1, <1>a, <1>b, <1>e, <1>f DEF RecordInv
<1>2. CASE TrainIterate
  <2>1. train.phase = "loop" /\ registry' = registry /\ recorded' = recorded
    BY <1>2 DEF TrainIterate
  <2>2. train'.phase = "loop" /\ train'.models = train.models
    BY <1>2, <2>1 DEF TrainIterate, TypeOK, TrainingOK, TrainingFields
  <2>3. QED
    BY <2>1, <2>2, <1>a, <1>b, <1>c, <1>e, <1>f DEF RecordInv
<1>3. CASE TrainEvaluate
  <2> DEFINE test == train.split.test
  <2>1. PICK given \in Scorings(test) :
            /\ SaveLog(train.log, Run(NextRunId, Version(Candidate(Labelled(test, given))),
                                      train.split, MatrixAt(test, given, LoopThreshold)))
            /\ train' = IF log' = <<>> THEN [phase |-> "idle"]
                        ELSE [train EXCEPT !.phase = "logged", !.paid = @ + Cardinality(test),
                                           !.tested = Labelled(test, given)]
    BY <1>3 DEF TrainEvaluate
  <2>2. train.phase = "loop" /\ TrainingOK /\ registry' = registry
    BY <1>3 DEF TrainEvaluate, TypeOK
  <2> DEFINE run == Run(NextRunId, Version(Candidate(Labelled(test, given))),
                        train.split, MatrixAt(test, given, LoopThreshold))
  <2>3. recorded \subseteq recorded' /\ (run \in recorded' \/ log' = <<>>)
    BY <2>1, SaveLogRecords
  <2>4. CASE log' = <<>>
    <3>1. train'.phase = "idle"
      BY <2>1, <2>4
    <3>2. QED
      BY <3>1, <2>2, <2>3, <1>a, <1>e, <1>f DEF RecordInv
  <2>5. CASE log' # <<>>
    <3>1. /\ train'.models = train.models /\ train'.baseline = train.baseline
          /\ train'.best = train.best /\ train'.tested = Labelled(test, given)
      BY <2>1, <2>2, <2>5 DEF TrainingOK, TrainingFields
    <3>2. Candidate(train.tested)' = Candidate(Labelled(test, given))
      BY <3>1 DEF Candidate, Baseline
    <3>3. run.model_version = Version(Candidate(Labelled(test, given)))
      BY DEF Run
    <3>4. run.model_version \in OnLog'
      BY <2>3, <2>5 DEF OnLog
    <3>5. Version(Candidate(train.tested))' \in OnLog'
      BY <3>2, <3>3, <3>4 DEF Version, VersionUnder
    <3> HIDE DEF test, run
    <3>6. Good(registry', Known') /\ Good(train'.models, Known')
      BY <2>2, <2>3, <3>1, <1>c, <1>e, <1>f DEF RecordInv
    <3>7. QED
      BY <3>5, <3>6, <1>a, <1>b DEF RecordInv
  <2>6. QED
    BY <2>4, <2>5
<1>4. CASE TrainAccept
  <2>1. train.phase = "logged" /\ TrainingOK /\ train'.phase = "idle" /\ recorded' = recorded
    BY <1>4 DEF TrainAccept, TypeOK
  <2> DEFINE candidate == Candidate(train.tested)
  <2>2. candidate \in Models
    BY <2>1, CandidateType DEF TrainingOK
  <2>3. Sound(SetLabel(Insert(train.models, candidate), Version(candidate)))
    BY <2>1, <2>2, InsertSound DEF TrainingOK, RecordInv
  <2>4. registry' \in {EmptyRegistry,
                       SetLabel(Insert(train.models, candidate), Version(candidate))}
    BY <1>4 DEF TrainAccept, SaveRegistry
  <2> HIDE DEF candidate
  <2>5. QED
    BY <2>1, <2>3, <2>4, <1>a, <1>c, <1>e, <1>g DEF RecordInv
<1>5. CASE TrainReject
  BY <1>5, <1>a, <1>e, <1>f DEF TrainReject, RecordInv
<1>6. CASE TrainFails
  BY <1>6, <1>a, <1>e, <1>f DEF TrainFails, RecordInv
<1>7. CASE Promote
  <2>1. PICK version \in DOMAIN registry.models :
            SaveRegistry(registry, SetLabel(registry, version))
    BY <1>7 DEF Promote
  <2>2. train' = train /\ recorded' = recorded /\ OnLog' = OnLog
    BY <1>7 DEF Promote, OnLog
  <2> DEFINE g == SetLabel(registry, version)
  <2>3. g.models = registry.models /\ g.production = version
    BY DEF SetLabel, TypeOK, Files
  <2> HIDE DEF g
  <2>4. Good(g, Known)
    BY <2>3, <1>f DEF Good, Loads
  <2>5. Good(registry', Known')
    BY <2>1, <2>2, <2>4, <1>e, <1>g DEF SaveRegistry, g
  <2>6. Version(Candidate(train.tested))' = Version(Candidate(train.tested))
    BY <2>2 DEF Candidate, Baseline
  <2>7. QED
    BY <2>2, <2>5, <2>6, <1>a, <1>b, <1>c, <1>e DEF RecordInv
<1>8. ASSUME \/ CaptureAppraisals \/ RefineEval \/ RollReader \/ RollWriter
      PROVE  RecordInv'
  <2>1. registry' = registry /\ train' = train
    BY <1>8 DEF CaptureAppraisals, RefineEval, RollReader, RollWriter
  <2>2. recorded \subseteq recorded'
    BY <1>8, SaveLogRecords DEF CaptureAppraisals, RefineEval, RollReader, RollWriter
  <2>3. Version(Candidate(train.tested))' = Version(Candidate(train.tested))
    BY <2>1 DEF Candidate, Baseline
  <2>4. QED
    BY <2>1, <2>2, <2>3, <1>a, <1>b, <1>c, <1>d, <1>e DEF RecordInv
<1>9. QED
  BY <1>0, <1>1, <1>2, <1>3, <1>4, <1>5, <1>6, <1>7, <1>8 DEF Next

-----------------------------------------------------------------------------
(* Scores and who reads them.                                              *)

\* Whatever is read is in the registry, unless the file was damaged.
ReadInv ==
    ~damaged => scores \ {Version(LegacyModel)} \subseteq reader \cap DOMAIN registry.models

LEMMA ReadNext ==
    ASSUME RegistryConstants, TypeOK, RecordInv, ReadInv, [Next]_vars
    PROVE  ReadInv'
<1> USE DEF ReadInv
<1>0. Version(LegacyModel)' = Version(LegacyModel)
  OBVIOUS
<1>1. CASE TrainAccept
  <2>1. train.phase = "logged" /\ TrainingOK /\ reader' = reader /\ scores' = scores
    BY <1>1 DEF TrainAccept, TypeOK
  <2> DEFINE candidate == Candidate(train.tested)
             new == SetLabel(Insert(train.models, candidate), Version(candidate))
  <2>2. DOMAIN new.models = DOMAIN train.models.models \cup {Version(candidate)}
    <3>1. candidate \in Models /\ train.models \in Files
      BY <2>1, CandidateType DEF TrainingOK
    <3> HIDE DEF candidate
    <3>2. new.models = [v \in DOMAIN train.models.models \cup {Version(candidate)} |->
                            IF v = Version(candidate) THEN candidate
                            ELSE train.models.models[v]]
      BY <3>1, InsertType
    <3>3. QED
      BY <3>2
  <2>3. ~damaged' => ~damaged /\ registry = train.models /\ registry' = new
    BY <1>1 DEF TrainAccept, SaveRegistry, TypeOK
  <2> HIDE DEF new, candidate
  <2>4. QED
    BY <2>1, <2>2, <2>3
<1>2. CASE Promote
  <2>1. PICK version \in DOMAIN registry.models :
            SaveRegistry(registry, SetLabel(registry, version))
    BY <1>2 DEF Promote
  <2>2. SetLabel(registry, version).models = registry.models
    BY DEF SetLabel, TypeOK, Files
  <2>3. ~damaged' => ~damaged /\ registry' = SetLabel(registry, version)
    BY <2>1 DEF SaveRegistry, TypeOK
  <2>4. QED
    BY <1>2, <2>2, <2>3 DEF Promote
<1>3. CASE RollReader
  BY <1>3 DEF RollReader
<1>4. CASE RollWriter
  <2> DEFINE v == registry.production
             m == ByLabel(registry)
  <2>1. v \in reader /\ v \in DOMAIN registry.models
    BY <1>4 DEF RollWriter, RecordInv, Sound, Loads
  <2>2. VersionUnder(v.scheme, m) = v /\ (v.scheme = "V1" => m = LegacyModel)
    BY <2>1 DEF RecordInv, Sound, Loads, ByLabel
  <2>3. v.scheme \in {"V1", "V2"}
    <3>1. v \in Versions
      BY <2>1 DEF TypeOK, Files
    <3>2. QED
      BY <3>1 DEF Versions, VersionUnder
  <2>4. Version(m) = v \/ Version(m) = Version(LegacyModel)
    BY <2>2, <2>3 DEF Version
  <2>5. scores' = scores \cup {Version(m)} /\ reader' = reader /\ registry' = registry
        /\ damaged' = damaged
    BY <1>4 DEF RollWriter
  <2> HIDE DEF m, v
  <2>6. QED
    BY <2>1, <2>4, <2>5
<1>5. CASE UNCHANGED <<registry, reader, scores>> /\ damaged' = damaged
  BY <1>5
<1>6. CASE TrainEvaluate \/ RefineEval
  <2>1. damaged' = damaged
    BY <1>6 DEF TrainEvaluate, RefineEval, SaveLog
  <2>2. QED
    BY <1>5, <1>6, <2>1 DEF TrainEvaluate, RefineEval
<1>7. QED
  BY <1>1, <1>2, <1>3, <1>4, <1>5, <1>6
     DEF Next, vars, TrainStart, TrainIterate, TrainReject, TrainFails, CaptureAppraisals

-----------------------------------------------------------------------------
(* The theorems.                                                           *)

RegistryInv == TypeOK /\ RecordInv /\ ReadInv

LEMMA RegistryInvariant == ASSUME RegistryConstants PROVE Spec => []RegistryInv
<1>1. Init => RegistryInv
  <2>1. Init => ReadInv
    BY DEF Init, ReadInv
  <2>2. QED
    BY <2>1, TypeInit, RecordInit DEF RegistryInv
<1>2. RegistryInv /\ [Next]_vars => RegistryInv'
  BY TypeNext, RecordNext, ReadNext DEF RegistryInv
<1>3. QED
  BY <1>1, <1>2, PTL DEF Spec

\* Every model the production label ever points at came with the repository or
\* has the run that justifies it on record, and the file loads: the candidate's
\* version is recorded before the gate is asked, and no copy of the registry a
\* tool writes back holds any other model.
THEOREM ProductionIsOnRecord == ASSUME RegistryConstants PROVE Spec => []AcceptedIsOnRecord
<1>1. RegistryInv => AcceptedIsOnRecord
  BY DEF RegistryInv, RecordInv, Sound, Known, OnLog, Loads, AcceptedIsOnRecord
<1>2. QED
  BY <1>1, RegistryInvariant, PTL

\* No promotion, training or roll-out of the reader hides a score that was
\* written, but for those of a V1 entry that was promoted.
THEOREM ScoresStayReadable == ASSUME RegistryConstants PROVE Spec => []WrittenScoresAreShown
<1>1. RegistryInv => WrittenScoresAreShown
  BY DEF RegistryInv, ReadInv, WrittenScoresAreShown, Shown
<1>2. QED
  BY <1>1, RegistryInvariant, PTL

LEMMA Shortfall ==
    ASSUME NEW x \in Int, NEW y \in Int, NEW d \in Int, NEW e \in Int,
           (x - y) * d >= 0 - e
    PROVE  (y - x) * d <= e
<1>1. (y - x) * d = 0 - ((x - y) * d)
  OBVIOUS
<1>2. (x - y) * d \in Int /\ (y - x) * d \in Int
  OBVIOUS
<1>3. QED
  BY <1>1, <1>2

\* A candidate the gate accepts keeps the baseline's precision, and the recall
\* it gives up is within the tolerance, at the threshold deployed with it.
THEOREM GateKeepsItsPromise == ASSUME RegistryConstants PROVE Spec => []AcceptedClearsFloor
<1>1. ASSUME RegistryInv, train.phase = "logged", Accepted
      PROVE  AcceptedClearsFloor
  <2> DEFINE q == Qualifying(train.tested, Baseline.precision)
             t == Candidate(train.tested).threshold
             m == ConfusionAt(train.tested, t)
             r == Recall(m)
             b == Baseline.recall
  <2>1. train.tested \in Evaluated /\ train.baseline \in Matrix
    BY <1>1 DEF RegistryInv, TypeOK, TrainingOK
  <2>2. q # {} /\ t = PinAtPrecision(train.tested, Baseline.precision)
    BY <1>1 DEF Accepted, EvaluateGate, Candidate
  <2>3. t \in q
    BY <2>1, <2>2, PinQualifies
  <2>4. Defined(Precision(m)) /\ AtLeast(Precision(m), Baseline.precision)
    BY <2>3 DEF Qualifying
  <2>5. (r.num * b.den - b.num * r.den) * Tolerance.den >= 0 - Tolerance.num * r.den * b.den
    BY <1>1, <2>2 DEF Accepted, EvaluateGate
  <2>6. r.num \in Nat /\ r.den \in Nat
    <3>1. m \in Matrix
      BY <2>1, ConfusionType
    <3> HIDE DEF m
    <3>2. QED
      BY <3>1 DEF Recall, Ratio, Undefined, Matrix, Cells
  <2>7. b.num \in Nat /\ b.den \in Nat
    BY <2>1 DEF Baseline, Recall, Ratio, Undefined, Matrix, Cells
  <2>8. Tolerance.num \in Nat /\ Tolerance.den \in Nat
    BY DEF RegistryConstants
  <2> HIDE DEF r, b, t, q, m
  <2>9. (b.num * r.den - r.num * b.den) * Tolerance.den <= Tolerance.num * r.den * b.den
    <3>1. r.num * b.den \in Int /\ b.num * r.den \in Int /\ Tolerance.num * r.den * b.den \in Int
      BY <2>6, <2>7, <2>8
    <3>2. Tolerance.den \in Int
      BY <2>8
    <3>3. QED
      BY <2>5, <3>1, <3>2, Shortfall
  <2>10. QED
    BY <2>4, <2>9 DEF AcceptedClearsFloor, r, b, t, m
<1>2. RegistryInv => AcceptedClearsFloor
  BY <1>1 DEF AcceptedClearsFloor
<1>3. QED
  BY <1>2, RegistryInvariant, PTL

-----------------------------------------------------------------------------
(* What a training spends.  A stratified sample has at most one image more  *)
(* than asked for per further band, and rounds are counted.                 *)

Bands == {Items[i] : i \in DOMAIN Items}

LEMMA FiniteBands == ASSUME RegistryConstants PROVE IsFiniteSet(Bands) /\ Cardinality(Bands) \in Nat
<1> DEFINE f == [i \in DOMAIN Items |-> Items[i]]
<1>1. f \in Surjection(DOMAIN Items, Bands)
  BY DEF Surjection, Bands
<1>2. IsFiniteSet(DOMAIN Items)
  BY DEF RegistryConstants
<1>3. IsFiniteSet(Bands)
  BY <1>1, <1>2, FS_Surjection
<1>4. QED
  BY <1>3, FS_CardinalityType

LEMMA Monotone ==
    ASSUME NEW a \in Int, NEW b \in Int, a <= b, NEW c \in Nat
    PROVE  c * a <= c * b
OBVIOUS

LEMMA UnionSize ==
    ASSUME NEW A, IsFiniteSet(A), NEW B, IsFiniteSet(B)
    PROVE  /\ IsFiniteSet(A \cup B)
           /\ Cardinality(A \cup B) \in Nat /\ Cardinality(A) \in Nat /\ Cardinality(B) \in Nat
           /\ Cardinality(A \cup B) <= Cardinality(A) + Cardinality(B)
           /\ A \cap B = {} => Cardinality(A \cup B) = Cardinality(A) + Cardinality(B)
<1>1. /\ IsFiniteSet(A \cup B)
      /\ Cardinality(A \cup B) = Cardinality(A) + Cardinality(B) - Cardinality(A \cap B)
  BY FS_Union
<1>2. IsFiniteSet(A \cap B)
  BY FS_Subset
<1>3. /\ Cardinality(A) \in Nat /\ Cardinality(B) \in Nat /\ Cardinality(A \cap B) \in Nat
      /\ A \cap B = {} => Cardinality(A \cap B) = 0
  BY <1>2, FS_CardinalityType, FS_EmptySet
<1>4. A \cap B = {} => Cardinality(A \cup B) = Cardinality(A) + Cardinality(B)
  BY <1>1, <1>3
<1>5. Cardinality(A \cup B) \in Nat /\ Cardinality(A \cup B) <= Cardinality(A) + Cardinality(B)
  BY <1>1, <1>3, FS_CardinalityType
<1>6. QED
  BY <1>1, <1>3, <1>4, <1>5

\* A quota is less than the share of the band and one.
LEMMA QuotaBound ==
    ASSUME NEW n \in Nat \ {0}, NEW S \in Nat \ {0}, NEW T \in Nat \ {0}
    PROVE  /\ Quota(n, S, T) \in 1 .. n
           /\ T * Quota(n, S, T) <= S * n + T - 1
<1> DEFINE x == 2 * S * n + T
           r == x \div (2 * T)
           M == {1, r}
           m == IF r > 1 THEN r ELSE 1
<1>0. x \in Nat /\ 2 * T \in Nat \ {0} /\ S * n \in Nat \ {0} /\ x = 2 * (S * n) + T
  OBVIOUS
<1>1. r \in Nat /\ (2 * T) * r <= x
  <2> HIDE DEF x
  <2>1. \A d \in Nat \ {0} : x \div d \in Nat /\ d * (x \div d) <= x
    BY <1>0
  <2>2. QED
    BY <1>0, <2>1
<1> HIDE DEF r, x
<1>2. Max(M) = m
  <2>1. m \in M /\ (\A y \in M : m >= y) /\ m \in Nat
    BY <1>1
  <2>2. \A z \in M : (\A y \in M : z >= y) => z = m
    BY <1>1
  <2> HIDE DEF m, M
  <2>3. QED
    BY <2>1, <2>2, Zenon DEF Max
<1>3. m \in Nat /\ m >= 1 /\ T * m <= S * n + T - 1
  <2>1. CASE r > 1
    <3>1. 2 * (T * r) <= 2 * (S * n) + T
      BY <1>0, <1>1
    <3>2. T * r \in Nat /\ T * r >= T
      BY <1>1, <2>1
    <3>3. 2 * (T * r) <= 2 * (S * n) + 2 * T - 2
      <4>1. CASE T >= 2
        BY <1>0, <3>1, <3>2, <4>1
      <4>2. CASE T = 1
        BY <1>0, <3>1, <3>2, <4>2
      <4>3. QED
        BY <4>1, <4>2
    <3>4. QED
      BY <1>0, <1>1, <2>1, <3>2, <3>3
  <2>2. CASE ~(r > 1)
    BY <1>0, <2>2
  <2>3. QED
    BY <2>1, <2>2
<1> HIDE DEF m
<1> DEFINE q == IF n < m THEN n ELSE m
           N == {n, m}
<1>4. Min(N) = q
  <2>1. q \in N /\ (\A y \in N : q <= y) /\ q \in Nat
    BY <1>3
  <2>2. \A z \in N : (\A y \in N : z <= y) => z = q
    BY <1>3
  <2> HIDE DEF q, N
  <2>3. QED
    BY <2>1, <2>2, Zenon DEF Min
<1>5. Quota(n, S, T) = q
  <2>1. Quota(n, S, T) = Min({n, Max({1, (2 * S * n + T) \div (2 * T)})})
    BY DEF Quota
  <2>2. QED
    BY <1>2, <1>4, <2>1 DEF r, x
<1>6. q \in 1 .. n /\ q <= m /\ q \in Int
  BY <1>3
<1>7. T * q <= T * m
  BY <1>3, <1>6, Monotone
<1> HIDE DEF q
<1>8. QED
  BY <1>0, <1>3, <1>5, <1>6, <1>7

\* What a band gives to a sample.
LEMMA PickBound ==
    ASSUME NEW group, IsFiniteSet(group), NEW max \in Nat, Cardinality(group) <= max,
           SharesTruncate(max), NEW S \in Nat \ {0}, NEW T \in Nat \ {0},
           NEW pick \in SampleBand(group, S, T)
    PROVE  /\ IsFiniteSet(pick)
           /\ T * Cardinality(pick) <= S * Cardinality(group) + T - 1
<1>1. CASE group = {}
  <2>1. pick = {} /\ Cardinality(group) = 0 /\ Cardinality(pick) = 0 /\ IsFiniteSet(pick)
    BY <1>1, FS_EmptySet DEF SampleBand
  <2>2. QED
    BY <2>1
<1>2. CASE group # {}
  <2>1. PICK n \in Nat \ {0} : n = Cardinality(group)
    BY <1>2, FS_EmptySet, FS_CardinalityType
  <2>2. PICK q \in 1 .. n : q = Quota(n, S, T) /\ T * q <= S * n + T - 1
    BY QuotaBound
  <2>3. pick \in SUBSET group /\ Cardinality(pick) = SampleCount(n, q)
    BY <1>2, <2>1, <2>2 DEF SampleBand, kSubset
  <2>4. SampleCount(n, q) \in Int /\ SampleCount(n, q) <= q
    <3>1. CASE q = n
      BY <3>1 DEF SampleCount
    <3>2. CASE q # n
      <4>1. n \in 1 .. max /\ q \in 1 .. n - 1
        BY <2>1, <2>2, <3>2
      <4>2. F32Count(n, F32Share(q, n)) \in 0 .. q
        BY <4>1 DEF SharesTruncate
      <4>3. QED
        BY <3>2, <4>2 DEF SampleCount
    <3>3. QED
      BY <3>1, <3>2
  <2>5. T * Cardinality(pick) <= T * q
    BY <2>3, <2>4, Monotone
  <2>6. IsFiniteSet(pick)
    BY <2>3, FS_Subset
  <2>7. QED
    BY <2>1, <2>2, <2>3, <2>4, <2>5, <2>6
<1>3. QED
  BY <1>1, <1>2

\* The picks of some bands together.
LEMMA PicksBound ==
    ASSUME NEW pool, IsFiniteSet(DOMAIN pool), NEW max \in Nat, Cardinality(DOMAIN pool) <= max,
           SharesTruncate(max), NEW bands, IsFiniteSet(bands),
           NEW S \in Nat \ {0}, NEW T \in Nat \ {0}, NEW pick,
           \A b \in bands : pick[b] \in SampleBand(Group(pool, b), S, T)
    PROVE  /\ IsFiniteSet(UNION {pick[b] : b \in bands})
           /\ T * Cardinality(UNION {pick[b] : b \in bands}) <=
                S * Cardinality(DOMAIN pool) + Cardinality(bands) * (T - 1)
<1> DEFINE P(R) == UNION {pick[b] : b \in R}
           G(R) == UNION {Group(pool, b) : b \in R}
           OK(R) == /\ IsFiniteSet(P(R))
                    /\ T * Cardinality(P(R)) <= S * Cardinality(G(R)) + Cardinality(R) * (T - 1)
           Bad == {R \in SUBSET bands : ~OK(R)}
<1>1. \A b : Group(pool, b) \in SUBSET DOMAIN pool
  BY DEF Group
<1>2. \A R : G(R) \in SUBSET DOMAIN pool
  BY <1>1
<1>3. \A s \in SUBSET DOMAIN pool : IsFiniteSet(s) /\ Cardinality(s) \in Nat /\ Cardinality(s) <= max
  <2> SUFFICES ASSUME NEW s \in SUBSET DOMAIN pool
               PROVE  IsFiniteSet(s) /\ Cardinality(s) \in Nat /\ Cardinality(s) <= max
    OBVIOUS
  <2>1. IsFiniteSet(s) /\ Cardinality(s) <= Cardinality(DOMAIN pool)
    BY FS_Subset
  <2>2. Cardinality(s) \in Nat /\ Cardinality(DOMAIN pool) \in Nat
    BY <2>1, FS_CardinalityType
  <2>3. QED
    BY <2>1, <2>2
<1>4. Bad = {}
  <2> SUFFICES ASSUME Bad # {} PROVE FALSE
    OBVIOUS
  <2>1. Bad \subseteq SUBSET bands
    OBVIOUS
  <2> HIDE DEF Bad
  <2>2. PICK R \in Bad : \A Q \in Bad : Q \subseteq R => Q = R
    BY <2>1, LeastSet
  <2>3. R \in SUBSET bands /\ ~OK(R)
    BY <2>2 DEF Bad
  <2>4. R # {}
    <3> SUFFICES ASSUME R = {} PROVE OK(R)
      BY <2>3
    <3>1. P(R) = {} /\ G(R) = {}
      OBVIOUS
    <3> HIDE DEF P, G
    <3>2. /\ IsFiniteSet(P(R)) /\ Cardinality(P(R)) = 0 /\ Cardinality(G(R)) = 0
          /\ Cardinality(R) = 0
      BY <3>1, FS_EmptySet
    <3>3. T * 0 = 0 /\ S * 0 = 0 /\ 0 * (T - 1) = 0
      OBVIOUS
    <3>4. QED
      BY <3>2, <3>3
  <2>5. PICK b \in R : TRUE
    BY <2>4
  <2>6. PICK Q : Q = R \ {b}
    OBVIOUS
  <2>7. Q \in SUBSET bands /\ Q \notin Bad
    BY <2>2, <2>3, <2>6
  <2>8. OK(Q)
    BY <2>7 DEF Bad
  <2>9. IsFiniteSet(R) /\ IsFiniteSet(Q) /\ Cardinality(Q) \in Nat
        /\ Cardinality(R) = Cardinality(Q) + 1
    <3>1. IsFiniteSet(R)
      BY <2>3, FS_Subset
    <3>2. IsFiniteSet(Q) /\ Cardinality(Q) = Cardinality(R) - 1
      BY <2>6, <3>1, FS_RemoveElement
    <3>3. Cardinality(Q) \in Nat /\ Cardinality(R) \in Nat
      BY <3>1, <3>2, FS_CardinalityType
    <3>4. QED
      BY <3>1, <3>2, <3>3
  <2>10. P(R) = P(Q) \cup pick[b] /\ G(R) = G(Q) \cup Group(pool, b)
    <3>1. R = Q \cup {b}
      BY <2>6
    <3>2. QED
      BY <3>1
  <2>11. G(Q) \cap Group(pool, b) = {}
    BY <2>6 DEF Group
  <2>12. /\ IsFiniteSet(pick[b])
         /\ T * Cardinality(pick[b]) <= S * Cardinality(Group(pool, b)) + T - 1
    <3>1. IsFiniteSet(Group(pool, b)) /\ Cardinality(Group(pool, b)) <= max
      BY <1>1, <1>3
    <3>2. pick[b] \in SampleBand(Group(pool, b), S, T)
      BY <2>3
    <3>3. QED
      BY <3>1, <3>2, PickBound
  <2> HIDE DEF P, G
  <2>13. PICK p \in Nat, q \in Nat, g \in Nat, h \in Nat :
            /\ p = Cardinality(P(Q)) /\ q = Cardinality(pick[b])
            /\ g = Cardinality(G(Q)) /\ h = Cardinality(Group(pool, b))
    BY <1>1, <1>2, <1>3, <2>8, <2>12, FS_CardinalityType
  <2>14. IsFiniteSet(P(R)) /\ Cardinality(P(R)) \in Nat /\ Cardinality(P(R)) <= p + q
    BY <2>8, <2>10, <2>12, <2>13, UnionSize
  <2>15. Cardinality(G(R)) = g + h
    <3>1. IsFiniteSet(G(Q)) /\ IsFiniteSet(Group(pool, b))
      BY <1>1, <1>2, <1>3
    <3>2. Cardinality(G(Q) \cup Group(pool, b)) = Cardinality(G(Q)) + Cardinality(Group(pool, b))
      BY <2>11, <3>1, UnionSize
    <3>3. QED
      BY <2>10, <2>13, <3>2
  <2>16. T * Cardinality(P(R)) <= T * p + T * q
    <3>1. T * Cardinality(P(R)) <= T * (p + q)
      BY <2>14, Monotone
    <3>2. T * (p + q) = T * p + T * q
      OBVIOUS
    <3>3. QED
      BY <3>1, <3>2
  <2>22. PICK c \in Nat : c = Cardinality(Q)
    BY <2>9
  <2>17. T * p <= S * g + c * (T - 1)
    BY <2>8, <2>13, <2>22
  <2>18. T * q <= S * h + T - 1
    BY <2>12, <2>13
  <2>19. S * (g + h) = S * g + S * h /\ (c + 1) * (T - 1) = c * (T - 1) + (T - 1)
    OBVIOUS
  <2>20. T * Cardinality(P(R)) <= S * (g + h) + (c + 1) * (T - 1)
    <3>1. PICK u \in Int, v \in Int, x \in Int, y \in Int, w \in Int, z \in Int :
            /\ u = T * p /\ v = T * q /\ x = S * g /\ y = S * h
            /\ w = c * (T - 1) /\ z = T * Cardinality(P(R))
      <4>1. /\ T * p \in Int /\ T * q \in Int /\ S * g \in Int /\ S * h \in Int
            /\ c * (T - 1) \in Int
        OBVIOUS
      <4>2. \A n \in Nat : T * n \in Int
        OBVIOUS
      <4>3. T * Cardinality(P(R)) \in Int
        BY <2>14, <4>2
      <4>4. QED
        BY <4>1, <4>3
    <3>2. z <= u + v /\ u <= x + w /\ v <= y + T - 1
      BY <2>16, <2>17, <2>18, <3>1
    <3>3. z <= (x + y) + (w + (T - 1))
      BY <3>2
    <3>4. QED
      BY <2>19, <3>1, <3>3
  <2>21. QED
    BY <2>3, <2>9, <2>14, <2>15, <2>20, <2>22
<1>5. OK(bands)
  BY <1>4
<1>6. /\ S * Cardinality(G(bands)) <= S * Cardinality(DOMAIN pool)
  <2>1. Cardinality(G(bands)) \in Nat /\ Cardinality(G(bands)) <= Cardinality(DOMAIN pool)
        /\ Cardinality(DOMAIN pool) \in Nat
    BY <1>2, <1>3, FS_Subset, FS_CardinalityType
  <2> HIDE DEF G
  <2>2. QED
    BY <2>1, Monotone
<1>7. /\ T * Cardinality(P(bands)) \in Int /\ S * Cardinality(G(bands)) \in Int
      /\ S * Cardinality(DOMAIN pool) \in Int /\ Cardinality(bands) * (T - 1) \in Int
  <2>1. Cardinality(P(bands)) \in Nat /\ Cardinality(G(bands)) \in Nat
        /\ Cardinality(DOMAIN pool) \in Nat /\ Cardinality(bands) \in Nat
    BY <1>2, <1>3, <1>5, FS_CardinalityType
  <2> HIDE DEF P, G
  <2>2. QED
    BY <2>1
<1> HIDE DEF P, G
<1>8. T * Cardinality(P(bands)) <= S * Cardinality(DOMAIN pool) + Cardinality(bands) * (T - 1)
  BY <1>5, <1>6, <1>7
<1>9. QED
  BY <1>5, <1>8 DEF P

LEMMA SampleBound ==
    ASSUME RegistryConstants, SharesTruncate(Cardinality(DOMAIN Items)),
           NEW images \in SUBSET DOMAIN Items, NEW S \in Nat \ {0},
           NEW sample \in StratifiedSample([image \in images |-> Items[image]], S, Bands)
    PROVE  Cardinality(sample) \in Nat /\ Cardinality(sample) <= S + Cardinality(Bands) - 1
<1> DEFINE pool == [image \in images |-> Items[image]]
<1>1. DOMAIN pool = images
  OBVIOUS
<1>2. IsFiniteSet(images) /\ Cardinality(images) \in Nat
      /\ Cardinality(DOMAIN Items) \in Nat /\ Cardinality(images) <= Cardinality(DOMAIN Items)
  BY FS_Subset, FS_CardinalityType DEF RegistryConstants
<1>3. IsFiniteSet(Bands) /\ Cardinality(Bands) \in Nat
  BY FiniteBands
<1> HIDE DEF pool
<1>4. CASE images = {}
  <2>1. sample = {}
    BY <1>1, <1>4 DEF StratifiedSample, pool
  <2>2. Cardinality(sample) = 0
    BY <2>1, FS_EmptySet
  <2>3. QED
    BY <1>3, <2>2
<1>5. CASE images # {}
  <2>1. PICK T \in Nat \ {0} : T = Cardinality(DOMAIN pool)
    BY <1>1, <1>2, <1>5, FS_EmptySet
  <2>2. PICK pick \in [Bands -> SUBSET DOMAIN pool] :
            /\ \A b \in Bands : pick[b] \in SampleBand(Group(pool, b), S, T)
            /\ sample = UNION {pick[b] : b \in Bands}
    <3>1. sample \in {UNION {pick[b] : b \in Bands} : pick \in
            {p \in [Bands -> SUBSET DOMAIN pool] : \A b \in Bands :
                p[b] \in SampleBand(Group(pool, b), S, Cardinality(DOMAIN pool))}}
      BY <1>1, <1>5 DEF StratifiedSample, pool
    <3>2. QED
      BY <2>1, <3>1
  <2>3. IsFiniteSet(sample)
        /\ T * Cardinality(sample) <= S * T + Cardinality(Bands) * (T - 1)
    <3>1. PICK max \in Nat : /\ max = Cardinality(DOMAIN Items) /\ SharesTruncate(max)
                             /\ IsFiniteSet(DOMAIN pool) /\ Cardinality(DOMAIN pool) <= max
      BY <1>1, <1>2
    <3>2. /\ IsFiniteSet(UNION {pick[b] : b \in Bands})
          /\ T * Cardinality(UNION {pick[b] : b \in Bands}) <=
                S * Cardinality(DOMAIN pool) + Cardinality(Bands) * (T - 1)
      <4>1. \A b \in Bands : pick[b] \in SampleBand(Group(pool, b), S, T)
        BY <2>2
      <4>2. IsFiniteSet(DOMAIN pool) /\ Cardinality(DOMAIN pool) <= max /\ SharesTruncate(max)
        BY <3>1
      <4>3. IsFiniteSet(Bands)
        BY <1>3
      <4>4. QED
        BY <4>1, <4>2, <4>3, PicksBound, ZenonT(60)
    <3>3. QED
      BY <2>1, <2>2, <3>2
  <2>4. PICK c \in Nat, k \in Nat : c = Cardinality(sample) /\ k = Cardinality(Bands)
    BY <1>3, <2>3, FS_CardinalityType
  <2>5. k >= 1
    <3>1. PICK i \in images : Items[i] \in Bands
      BY <1>5 DEF Bands
    <3>2. Bands # {}
      BY <3>1
    <3>3. QED
      BY <1>3, <2>4, <3>2, FS_EmptySet
  <2>6. T * c <= S * T + k * (T - 1)
    BY <2>3, <2>4
  <2>7. ASSUME c >= S + k PROVE FALSE
    <3>1. T * (S + k) <= T * c
      BY <2>7, Monotone
    <3>2. T * (S + k) = S * T + k * T /\ k * (T - 1) = k * T - k
      OBVIOUS
    <3>3. PICK u \in Int, v \in Int, w \in Int : u = S * T /\ v = k * T /\ w = T * c
      OBVIOUS
    <3>4. u + v <= w /\ w <= u + (v - k)
      BY <2>6, <3>1, <3>2, <3>3
    <3>5. QED
      BY <2>5, <3>4
  <2>8. QED
    BY <2>4, <2>7
<1>6. QED
  BY <1>4, <1>5

\* What a round is allowed: the final evaluation is paid for in advance.
LEMMA RoundsPaid ==
    ASSUME RegistryConstants, NEW split \in Splits
    PROVE  /\ PerIteration(split) \in Nat /\ Cardinality(split.test) \in Nat
           /\ PerIteration(split) > 0 =>
                PerImageCost * (MaxIterations * PerIteration(split) + Cardinality(split.test)) <= Budget
<1>1. PICK t \in Nat : t = Cardinality(split.test)
  <2>1. split.test \in SUBSET DOMAIN Items
    BY DEF Splits
  <2>2. QED
    BY <2>1, FS_Subset, FS_CardinalityType DEF RegistryConstants
<1>2. PerImageCost \in Nat \ {0} /\ MaxIterations \in Nat \ {0} /\ Budget \in Nat
  BY DEF RegistryConstants
<1> DEFINE reserved == PerImageCost * t
           residual == IF Budget > reserved THEN Budget - reserved ELSE 0
           d == MaxIterations * PerImageCost
           S == residual \div d
<1>3. PerIteration(split) = S
  BY <1>1 DEF PerIteration, PerIterationSampleSize
<1>4. reserved \in Nat /\ d \in Nat \ {0}
  BY <1>2
<1>5. residual \in Nat
  <2> HIDE DEF reserved
  <2>1. QED
    BY <1>2, <1>4
<1>6. S \in Nat /\ d * S <= residual
  <2> HIDE DEF residual, d
  <2>1. \A x \in Nat, y \in Nat \ {0} : x \div y \in Nat /\ y * (x \div y) <= x
    OBVIOUS
  <2>2. QED
    BY <1>4, <1>5, <2>1
<1>7. S > 0 => d * S + reserved <= Budget
  <2> SUFFICES ASSUME S > 0 PROVE d * S + reserved <= Budget
    OBVIOUS
  <2> HIDE DEF S
  <2>1. d * S >= 1
    BY <1>4, <1>6
  <2>2. d * S \in Nat
    BY <1>4, <1>6
  <2>3. residual >= 1 /\ d * S <= residual
    BY <1>5, <1>6, <2>1, <2>2
  <2> HIDE DEF d, reserved
  <2>4. QED
    BY <1>2, <1>4, <2>2, <2>3
<1>8. PerImageCost * (MaxIterations * S + t) = d * S + reserved
  <2>1. PICK s \in Nat : s = S
    BY <1>6
  <2>2. PerImageCost * (MaxIterations * s + t) = (MaxIterations * PerImageCost) * s + PerImageCost * t
    BY <1>2
  <2>3. QED
    BY <2>1, <2>2
<1> HIDE DEF S
<1>9. QED
  BY <1>1, <1>3, <1>6, <1>7, <1>8

-----------------------------------------------------------------------------
\* What a round may cost at most.
PerRound == PerIteration(train.split) + Cardinality(Bands) - 1

SpendInv ==
    train.phase # "idle" =>
        /\ PerIteration(train.split) > 0
        /\ train.paid \in Nat
        /\ train.phase = "loop" =>
            /\ train.iteration \in 1 .. MaxIterations + 1
            /\ train.paid <= (train.iteration - 1) * PerRound
        /\ train.phase = "logged" =>
            train.paid <= MaxIterations * PerRound + Cardinality(train.split.test)

LEMMA RoundCounts ==
    ASSUME RegistryConstants, SharesTruncate(Cardinality(DOMAIN Items)), TypeOK, SpendInv,
           TrainIterate
    PROVE  SpendInv'
<1>1. /\ train.phase = "loop" /\ train.iteration <= MaxIterations
      /\ TrainingOK /\ train.split \in Splits /\ DOMAIN train = TrainingFields
  BY DEF TrainIterate, Iterating, TypeOK, TrainingOK
<1>2. PICK sample \in StratifiedSample([image \in train.split.train |-> Items[image]],
                PerIteration(train.split), Bands) :
        \E best, f1, prompt :
            train' = [train EXCEPT !.iteration = @ + 1, !.paid = @ + Cardinality(sample),
                                   !.best = best, !.best_f1 = f1, !.prompt = prompt]
  <2>1. PICK sample \in StratifiedSample([image \in train.split.train |-> Items[image]],
                PerIteration(train.split), {Items[image] : image \in DOMAIN Items}) :
        \E given \in Scorings(sample), answer \in Refinements :
        LET f1 == F1(MatrixAt(sample, given, LoopThreshold))
            better == Defined(f1) /\ (Defined(train.best_f1) => Exceeds(f1, train.best_f1))
        IN  train' = [train EXCEPT
                        !.iteration = @ + 1,
                        !.paid = @ + Cardinality(sample),
                        !.best = IF better THEN train.prompt ELSE @,
                        !.best_f1 = IF better THEN f1 ELSE @,
                        !.prompt = IF train.iteration < MaxIterations THEN answer ELSE @]
    BY DEF TrainIterate
  <2>2. PICK given \in Scorings(sample), answer \in Refinements :
        LET f1 == F1(MatrixAt(sample, given, LoopThreshold))
            better == Defined(f1) /\ (Defined(train.best_f1) => Exceeds(f1, train.best_f1))
        IN  train' = [train EXCEPT
                        !.iteration = @ + 1,
                        !.paid = @ + Cardinality(sample),
                        !.best = IF better THEN train.prompt ELSE @,
                        !.best_f1 = IF better THEN f1 ELSE @,
                        !.prompt = IF train.iteration < MaxIterations THEN answer ELSE @]
    BY <2>1
  <2>3. \E best, f1, prompt :
            train' = [train EXCEPT !.iteration = @ + 1, !.paid = @ + Cardinality(sample),
                                   !.best = best, !.best_f1 = f1, !.prompt = prompt]
    BY <2>2
  <2>4. QED
    BY <2>1, <2>3 DEF Bands
<1>3. /\ train'.phase = "loop" /\ train'.split = train.split
      /\ train'.iteration = train.iteration + 1
      /\ train'.paid = train.paid + Cardinality(sample)
  BY <1>1, <1>2 DEF TrainingFields
<1>4. PICK S \in Nat \ {0}, c \in Nat, k \in Nat :
        /\ S = PerIteration(train.split) /\ c = Cardinality(sample) /\ k = Cardinality(Bands)
        /\ c <= S + k - 1
  <2>1. PerIteration(train.split) \in Nat \ {0}
    BY <1>1, RoundsPaid DEF SpendInv
  <2>2. train.split.train \in SUBSET DOMAIN Items
    BY <1>1 DEF Splits
  <2>3. Cardinality(sample) \in Nat
        /\ Cardinality(sample) <= PerIteration(train.split) + Cardinality(Bands) - 1
    BY <1>2, <2>1, <2>2, SampleBound
  <2>4. QED
    BY <2>1, <2>3, FiniteBands
<1>5. PICK i \in Nat, p \in Nat :
        /\ i = train.iteration /\ p = train.paid /\ i \in 1 .. MaxIterations
        /\ p <= (i - 1) * (S + k - 1)
  BY <1>1, <1>4 DEF SpendInv, PerRound, RegistryConstants
<1>6. p + c <= i * (S + k - 1)
  <2>1. PICK e \in Nat, j \in Nat : e = S + k - 1 /\ j = i - 1
    BY <1>5
  <2>2. p <= j * e /\ c <= e /\ i = j + 1
    BY <1>4, <1>5, <2>1
  <2>3. (j + 1) * e = j * e + e /\ j * e \in Nat
    OBVIOUS
  <2>4. p + c <= (j + 1) * e
    BY <2>2, <2>3
  <2>5. QED
    BY <2>1, <2>2, <2>4
<1>7. (PerIteration(train.split))' = S /\ Cardinality(Bands)' = k
  BY <1>3, <1>4 DEF PerIteration, Bands
<1>8. PerRound' = S + k - 1
  BY <1>7 DEF PerRound
<1>9. /\ train'.paid = p + c /\ train'.iteration = i + 1 /\ i + 1 \in 1 .. MaxIterations + 1
      /\ i + 1 - 1 = i
  BY <1>3, <1>4, <1>5 DEF RegistryConstants
<1>10. QED
  BY <1>3, <1>4, <1>6, <1>7, <1>8, <1>9 DEF SpendInv

LEMMA SpendNext ==
    ASSUME RegistryConstants, SharesTruncate(Cardinality(DOMAIN Items)), TypeOK, SpendInv,
           [Next]_vars
    PROVE  SpendInv'
<1>1. CASE train' = train \/ train' = [phase |-> "idle"]
  BY <1>1 DEF SpendInv, PerRound, PerIteration, Bands
<1>2. CASE TrainStart
  <2>1. PICK baseline \in Range(log) :
            train' = [phase |-> "loop", models |-> registry, log |-> log,
                         split |-> Default, baseline |-> baseline.matrix,
                         iteration |-> 1, prompt |-> SeedPrompt, best |-> SeedPrompt,
                         best_f1 |-> Undefined, paid |-> 0, tested |-> <<>>]
    BY <1>2 DEF TrainStart
  <2>2. PerIteration(Default) > 0 /\ Default \in Splits
    BY <1>2 DEF TrainStart, TypeOK, Default
  <2>3. /\ train'.phase = "loop" /\ train'.split = Default /\ train'.iteration = 1
        /\ train'.paid = 0
    BY <2>1
  <2>4. PerIteration(train.split)' = PerIteration(Default)
    BY <2>3 DEF PerIteration
  <2>5. PerRound' \in Nat
    <3>1. PerIteration(Default) \in Nat
      BY <2>2, RoundsPaid
    <3>2. Cardinality(Bands)' = Cardinality(Bands) /\ Cardinality(Bands) \in Nat
      BY FiniteBands DEF Bands
    <3>3. QED
      BY <2>2, <2>4, <3>1, <3>2 DEF PerRound
  <2>6. 1 \in 1 .. MaxIterations + 1 /\ 0 <= (1 - 1) * PerRound'
    <3>1. MaxIterations \in Nat
      BY DEF RegistryConstants
    <3>2. \A e \in Nat : 0 <= (1 - 1) * e
      OBVIOUS
    <3>3. 1 \in 1 .. MaxIterations + 1
      BY <3>1
    <3>4. 0 <= (1 - 1) * PerRound'
      BY <2>5, <3>2, Zenon
    <3>5. QED
      BY <3>3, <3>4
  <2>7. QED
    BY <2>2, <2>3, <2>4, <2>6 DEF SpendInv
<1>3. CASE TrainEvaluate
  <2>1. /\ train.phase = "loop" /\ ~(train.iteration <= MaxIterations)
        /\ TrainingOK /\ train.split \in Splits /\ DOMAIN train = TrainingFields
    BY <1>3 DEF TrainEvaluate, Iterating, TypeOK, TrainingOK
  <2>2. CASE train' = [phase |-> "idle"]
    BY <1>1, <2>2
  <2>3. CASE train' # [phase |-> "idle"]
    <3>1. PICK tested : train' = [train EXCEPT !.phase = "logged",
                                    !.paid = @ + Cardinality(train.split.test), !.tested = tested]
      <4>1. PICK given \in Scorings(train.split.test) :
              train' = IF log' = <<>> THEN [phase |-> "idle"]
                       ELSE [train EXCEPT !.phase = "logged",
                                          !.paid = @ + Cardinality(train.split.test),
                                          !.tested = Labelled(train.split.test, given)]
        BY <1>3 DEF TrainEvaluate
      <4>2. QED
        BY <2>3, <4>1
    <3>2. /\ train'.phase = "logged" /\ train'.split = train.split
          /\ train'.paid = train.paid + Cardinality(train.split.test)
      BY <2>1, <3>1 DEF TrainingFields
    <3>3. train.iteration - 1 = MaxIterations /\ train.paid \in Nat
          /\ train.paid <= MaxIterations * PerRound
      <4>1. train.iteration - 1 = MaxIterations
        BY <2>1 DEF SpendInv, RegistryConstants
      <4>2. QED
        BY <2>1, <4>1 DEF SpendInv
    <3>4. Cardinality(train.split.test) \in Nat /\ PerIteration(train.split) \in Nat \ {0}
      BY <2>1, RoundsPaid DEF SpendInv
    <3>5. PerRound \in Nat
      BY <3>4, FiniteBands DEF PerRound
    <3>6. MaxIterations * PerRound \in Nat
      <4>1. MaxIterations \in Nat
        BY DEF RegistryConstants
      <4>2. QED
        BY <3>5, <4>1
    <3>7. PerIteration(train.split)' = PerIteration(train.split) /\ PerRound' = PerRound
          /\ Cardinality(train.split.test)' = Cardinality(train.split.test)
      BY <3>2 DEF PerIteration, PerRound, Bands
    <3>8. train'.paid \in Nat
          /\ train'.paid <= MaxIterations * PerRound + Cardinality(train.split.test)
      BY <3>2, <3>3, <3>4, <3>6
    <3>9. QED
      BY <3>2, <3>4, <3>7, <3>8 DEF SpendInv
  <2>4. QED
    BY <2>2, <2>3
<1>4. QED
  BY <1>1, <1>2, <1>3, RoundCounts
     DEF Next, vars, TrainAccept, TrainReject, TrainFails, Promote, CaptureAppraisals,
         RefineEval, RollReader, RollWriter

\* A training stays within its budget: no more rounds than asked for, no more
\* images in a round than it was allowed and one per further band, and the
\* evaluation at the end was set aside before.
THEOREM TrainingStaysWithinBudget ==
    ASSUME RegistryConstants, SharesTruncate(Cardinality(DOMAIN Items))
    PROVE  Spec => []SpendWithinBudget
<1>1. Init => SpendInv
  BY DEF Init, SpendInv
<1>2. TypeOK /\ SpendInv /\ [Next]_vars => SpendInv'
  BY SpendNext
<1>3. TypeOK /\ SpendInv => SpendWithinBudget
  <2> SUFFICES ASSUME TypeOK, SpendInv, train.phase # "idle"
               PROVE  PerImageCost * train.paid <=
                        Budget + PerImageCost * MaxIterations * (Cardinality(Bands) - 1)
    BY DEF SpendWithinBudget, Bands
  <2>1. train.split \in Splits /\ train.phase \in {"loop", "logged"}
    BY DEF TypeOK, TrainingOK
  <2>2. PICK S \in Nat \ {0}, t \in Nat, k \in Nat :
            /\ S = PerIteration(train.split) /\ t = Cardinality(train.split.test)
            /\ k = Cardinality(Bands)
            /\ PerImageCost * (MaxIterations * S + t) <= Budget
    BY <2>1, RoundsPaid, FiniteBands DEF SpendInv
  <2>3. PICK c \in Nat, m \in Nat, e \in Nat, p \in Nat, b \in Nat :
            /\ c = PerImageCost /\ m = MaxIterations /\ e = S + k - 1 /\ p = train.paid
            /\ b = Budget
    <3>1. S + k - 1 \in Nat
      OBVIOUS
    <3>2. PerImageCost \in Nat /\ MaxIterations \in Nat /\ Budget \in Nat
      BY DEF RegistryConstants
    <3>3. train.paid \in Nat
      BY DEF SpendInv
    <3>4. QED
      BY <3>1, <3>2, <3>3
  <2>4. p <= m * e + t
    <3>1. CASE train.phase = "logged"
      BY <2>2, <2>3, <3>1 DEF SpendInv, PerRound
    <3>2. CASE train.phase = "loop"
      <4>1. PICK i \in Nat : i = train.iteration - 1 /\ i <= m
        BY <2>3, <3>2 DEF SpendInv
      <4>2. p <= i * e
        BY <2>2, <2>3, <3>2, <4>1 DEF SpendInv, PerRound
      <4>3. e * i <= e * m
        BY <4>1, Monotone
      <4>4. e * i = i * e /\ e * m = m * e /\ i * e \in Nat /\ m * e \in Nat
        OBVIOUS
      <4>5. QED
        BY <4>2, <4>3, <4>4
    <3>3. QED
      BY <2>1, <3>1, <3>2
  <2>5. c * p <= c * (m * e + t)
    <3>1. m * e \in Nat
      OBVIOUS
    <3>2. m * e + t \in Int
      BY <3>1
    <3>3. QED
      BY <2>4, <3>2, Monotone
  <2>6. c * (m * e + t) = c * (m * S + t) + c * m * (k - 1)
    BY <2>3
  <2>7. c * (m * S + t) <= b
    BY <2>2, <2>3
  <2>8. c * p \in Int /\ c * (m * S + t) \in Int /\ c * m * (k - 1) \in Int
    OBVIOUS
  <2>9. c * p <= b + c * m * (k - 1)
    BY <2>5, <2>6, <2>7, <2>8
  <2>10. QED
    BY <2>2, <2>3, <2>9
<1>4. Spec => []TypeOK
  BY RegistryInvariant, PTL DEF RegistryInv
<1>5. QED
  BY <1>1, <1>2, <1>3, <1>4, PTL DEF Spec

-----------------------------------------------------------------------------
(* Storage.                                                                *)

(* Opening.  A table is left to do or complete; tables and indices only    *)
(* ever come, and whatever index a table has is of its spec.               *)

Named == DOMAIN Indexed

ProcessState ==
    [at : {"down", "open"}] \cup [at : {"uploading"}, upload : Nat]
    \cup [at : {"pruning"}, todo : Seq(Named)]
    \cup [at : {"tables", "indices"}, todo : Seq(Named), existing : SUBSET Named]
    \cup [at : {"indexing"}, todo : Seq(Named), existing : SUBSET Named,
          missing : SUBSET Lake!Column]

OpenType ==
    /\ table \in [Named -> Lake!Existing \cup {Nothing}]
    /\ proc \in [Process -> ProcessState]
    /\ next \in Nat

Complete(t) == table[t] # Nothing /\ Lake!Indices(t) = Indexed[t]
OfSpec == \A t \in Named : table[t] # Nothing => Lake!Indices(t) \subseteq Indexed[t]

OnTheWay(p) ==
    /\ proc[p].at \in {"tables", "indices", "indexing"} =>
        /\ \A t \in Named : t \in Lake!ToSet(proc[p].todo) \/ Complete(t)
        /\ \A t \in proc[p].existing : table[t] # Nothing
    /\ proc[p].at \in {"indices", "indexing"} =>
        proc[p].todo # <<>> /\ table[Head(proc[p].todo)] # Nothing
    /\ proc[p].at = "indexing" =>
        /\ proc[p].missing \subseteq Indexed[Head(proc[p].todo)]
        /\ Lake!Missing(p, Head(proc[p].todo)) \subseteq proc[p].missing
    /\ proc[p].at \in {"open", "uploading", "pruning"} => \A t \in Named : Complete(t)

OpenInv == OpenType /\ OfSpec /\ \A p \in Process : OnTheWay(p)

Grows ==
    \A t \in Named : table[t] # Nothing =>
        table'[t] # Nothing /\ Lake!Indices(t) \subseteq Lake!Indices(t)'

\* What another process does to the tables leaves a process where it was.
LEMMA OthersStay ==
    ASSUME OpenType, OfSpec', Grows, NEW p \in Process, OnTheWay(p), proc'[p] = proc[p]
    PROVE  OnTheWay(p)'
<1>1. \A t \in Named : Complete(t) => Complete(t)'
  BY DEF Complete, OfSpec, Grows
<1>2. proc[p] \in ProcessState
  BY DEF OpenType
<1>3. ASSUME proc[p].at \in {"indices", "indexing"}
      PROVE  Head(proc[p].todo) \in Named
  BY <1>2, <1>3 DEF ProcessState, OnTheWay
<1>4. proc[p].at \in {"tables", "indices", "indexing"} => proc[p].existing \subseteq Named
  BY <1>2 DEF ProcessState
<1>5. QED
  BY <1>1, <1>3, <1>4 DEF OnTheWay, Grows, Lake!Missing

\* A step of one process, which the others wait for or do not notice.
LEMMA OneStep ==
    ASSUME OpenInv, OpenType', OfSpec', Grows, NEW p \in Process, OnTheWay(p)',
           \A q \in Process \ {p} : proc'[q] = proc[q]
    PROVE  OpenInv'
BY OthersStay DEF OpenInv

\* A step that touches no table.
LEMMA NoTable ==
    ASSUME OpenInv, UNCHANGED table
    PROVE  OfSpec' /\ Grows /\ \A t \in Named : Complete(t)' <=> Complete(t)
BY DEF OpenInv, OfSpec, Grows, Lake!Indices, Complete

LEMMA InitOpen ==
    ASSUME Lake!StorageConstants, Lake!Init
    PROVE  OpenInv
<1>1. table = [t \in Named |-> Nothing] /\ proc = [p \in Process |-> [at |-> "down"]] /\ next = 0
  BY DEF Lake!Init, Lake!StorageConstants, Named, Lake!Down
<1>2. [at |-> "down"] \in ProcessState
  BY DEF ProcessState
<1>3. OpenType
  BY <1>1, <1>2 DEF OpenType
<1>4. QED
  BY <1>1, <1>3 DEF OpenInv, OfSpec, OnTheWay

LEMMA OpenKeeps ==
    ASSUME Lake!StorageConstants, OpenInv, NEW p \in Process, Lake!Open(p)
    PROVE  OpenInv'
<1> DEFINE s == [at |-> "tables", todo |-> Tables,
                 existing |-> {t \in Lake!ToSet(Tables) : table[t] # Nothing}]
<1>1. proc' = [proc EXCEPT ![p] = s] /\ UNCHANGED <<table, next>>
  BY DEF Lake!Open, Lake!Unchanged
<1>2. s \in ProcessState /\ Lake!ToSet(Tables) = Named
  BY DEF ProcessState, Lake!StorageConstants, Named
<1>3. OpenType'
  BY <1>1, <1>2 DEF OpenInv, OpenType
<1>4. OfSpec' /\ Grows
  BY <1>1, NoTable
<1>5. proc'[p] = s
  BY <1>1 DEF OpenInv, OpenType
<1>6. OnTheWay(p)'
  BY <1>1, <1>2, <1>5 DEF OnTheWay
<1>7. \A q \in Process \ {p} : proc'[q] = proc[q]
  BY <1>1 DEF OpenInv, OpenType
<1>8. QED
  BY <1>3, <1>4, <1>6, <1>7, OneStep

\* A process in one of the phases of opening.
LEMMA OpeningState ==
    ASSUME OpenType, NEW p \in Process, proc[p].at \in {"tables", "indices", "indexing"}
    PROVE  /\ proc[p].todo \in Seq(Named) /\ proc[p].existing \in SUBSET Named
           /\ proc[p].at = "indexing" =>
                proc[p] \in [at : {"indexing"}, todo : Seq(Named), existing : SUBSET Named,
                             missing : SUBSET Lake!Column]
           /\ proc[p].at # "indexing" =>
                proc[p] \in [at : {"tables", "indices"}, todo : Seq(Named), existing : SUBSET Named]
BY DEF OpenType, ProcessState

LEMMA CreateTableKeeps ==
    ASSUME Lake!StorageConstants, OpenInv, NEW p \in Process, Lake!CreateTable(p)
    PROVE  OpenInv'
<1> DEFINE t == Head(proc[p].todo)
           found == [proc[p] EXCEPT !.at = "indices"]
           new == [rows |-> 0, small |-> 0, covered |-> <<>>]
<1>1. /\ proc[p].at = "tables" /\ proc[p].todo # <<>>
      /\ proc[p].todo \in Seq(Named) /\ proc[p].existing \in SUBSET Named
      /\ proc[p] \in [at : {"tables", "indices"}, todo : Seq(Named), existing : SUBSET Named]
      /\ OpenType /\ OnTheWay(p) /\ UNCHANGED next
  BY OpeningState DEF Lake!CreateTable, OpenInv, Lake!Unchanged
<1>2. t \in Named
  BY <1>1
<1>3. /\ found \in ProcessState /\ found.at = "indices"
      /\ found.todo = proc[p].todo /\ found.existing = proc[p].existing
  BY <1>1 DEF ProcessState
<1>4. Lake!Down \in ProcessState
  BY DEF Lake!Down, ProcessState
<1>5. new \in Lake!Existing
  <2>1. <<>> \in [{} -> Nat]
    OBVIOUS
  <2>2. QED
    BY <2>1 DEF Lake!Existing
<1>6. CASE t \in proc[p].existing
  <2>1. proc' = [proc EXCEPT ![p] = found] /\ UNCHANGED table
    BY <1>1, <1>6 DEF Lake!CreateTable
  <2>2. OpenType' /\ proc'[p] = found /\ \A q \in Process \ {p} : proc'[q] = proc[q]
    BY <1>1, <1>3, <2>1 DEF OpenType
  <2>3. OnTheWay(p)'
    BY <1>1, <1>3, <1>6, <2>1, <2>2 DEF OnTheWay, Complete, Lake!Indices
  <2>4. QED
    BY <2>1, <2>2, <2>3, NoTable, OneStep
<1>7. CASE t \notin proc[p].existing /\ table[t] # Nothing
  <2>1. proc' = [proc EXCEPT ![p] = Lake!Down] /\ UNCHANGED table
    BY <1>1, <1>7 DEF Lake!CreateTable
  <2>2. OpenType' /\ proc'[p] = Lake!Down /\ \A q \in Process \ {p} : proc'[q] = proc[q]
    BY <1>1, <1>4, <2>1 DEF OpenType
  <2>3. OnTheWay(p)'
    BY <2>2 DEF OnTheWay, Lake!Down
  <2>4. QED
    BY <2>1, <2>2, <2>3, NoTable, OneStep
<1>8. CASE t \notin proc[p].existing /\ table[t] = Nothing
  <2>1. proc' = [proc EXCEPT ![p] = found] /\ table' = [table EXCEPT ![t] = new]
    BY <1>1, <1>8 DEF Lake!CreateTable
  <2>2. OpenType' /\ proc'[p] = found /\ \A q \in Process \ {p} : proc'[q] = proc[q]
    BY <1>1, <1>3, <1>5, <2>1 DEF OpenType
  <2>3. table'[t] = new /\ \A u \in Named \ {t} : table'[u] = table[u]
    BY <1>1, <1>2, <2>1 DEF OpenType
  <2>4. new # Nothing
    BY <1>5 DEF Lake!StorageConstants
  <2>5. OfSpec' /\ Grows
    BY <1>8, <2>3 DEF OpenInv, OfSpec, Grows, Lake!Indices
  <2>6. \A u \in Named : Complete(u) => Complete(u)'
    BY <1>8, <2>3 DEF Complete, Lake!Indices
  <2>7. OnTheWay(p)'
    BY <1>1, <1>2, <1>3, <2>2, <2>3, <2>4, <2>6 DEF OnTheWay
  <2>8. QED
    BY <2>2, <2>5, <2>7, OneStep
<1>9. QED
  BY <1>6, <1>7, <1>8

LEMMA EnsureIndicesKeeps ==
    ASSUME Lake!StorageConstants, OpenInv, NEW p \in Process, Lake!EnsureIndices(p)
    PROVE  OpenInv'
<1> DEFINE t == Head(proc[p].todo)
           s == [at |-> "indexing", todo |-> proc[p].todo, existing |-> proc[p].existing,
                 missing |-> Lake!Missing(p, t)]
<1>1. /\ proc[p].at = "indices"
      /\ proc[p].todo \in Seq(Named) /\ proc[p].existing \in SUBSET Named
      /\ OpenType /\ OnTheWay(p) /\ UNCHANGED <<table, next>>
      /\ proc' = [proc EXCEPT ![p] = s]
  BY OpeningState DEF Lake!EnsureIndices, OpenInv, Lake!Unchanged, OpenType
<1>2. t \in Named /\ proc[p].todo # <<>>
  BY <1>1 DEF OnTheWay
<1>3. Lake!Missing(p, t) \subseteq Indexed[t] /\ Indexed[t] \subseteq Lake!Column
  BY <1>2 DEF Lake!Missing, Lake!Column, Named
<1>4. s \in ProcessState
  BY <1>1, <1>3 DEF ProcessState
<1>5. OpenType' /\ proc'[p] = s /\ \A q \in Process \ {p} : proc'[q] = proc[q]
  BY <1>1, <1>4 DEF OpenType
<1>6. OnTheWay(p)'
  BY <1>1, <1>2, <1>3, <1>5 DEF OnTheWay, Complete, Lake!Indices, Lake!Missing
<1>7. QED
  BY <1>1, <1>5, <1>6, NoTable, OneStep

LEMMA CreateIndexKeeps ==
    ASSUME Lake!StorageConstants, OpenInv, NEW p \in Process, Lake!CreateIndex(p)
    PROVE  OpenInv'
<1>1. /\ proc[p].at = "indexing"
      /\ proc[p].todo \in Seq(Named) /\ proc[p].existing \in SUBSET Named
      /\ proc[p] \in [at : {"indexing"}, todo : Seq(Named), existing : SUBSET Named,
                      missing : SUBSET Lake!Column]
      /\ OpenType /\ OnTheWay(p) /\ UNCHANGED next
  BY OpeningState DEF Lake!CreateIndex, OpenInv, Lake!Unchanged
<1>0. PICK t \in Named : t = Head(proc[p].todo)
  BY <1>1 DEF OnTheWay
<1>2. t \in Named /\ proc[p].todo # <<>> /\ table[t] # Nothing /\ table[t] \in Lake!Existing
  BY <1>0, <1>1 DEF OnTheWay, OpenType
<1>3. PICK column \in proc[p].missing :
        /\ table' = [table EXCEPT ![t].covered = [c \in {column} \cup DOMAIN @ |->
                                                    IF c = column THEN table[t].rows ELSE @[c]]]
        /\ proc' = [proc EXCEPT ![p].missing = @ \ {column}]
  BY <1>0 DEF Lake!CreateIndex
<1> DEFINE old == table[t].covered
           cov == [c \in {column} \cup DOMAIN old |-> IF c = column THEN table[t].rows ELSE old[c]]
<1>4. column \in Indexed[t] /\ Indexed[t] \subseteq Lake!Column
  BY <1>0, <1>1, <1>2, <1>3 DEF OnTheWay, Lake!Column, Named
<1>5. PICK columns \in SUBSET Lake!Column : old \in [columns -> Nat]
  BY <1>2 DEF Lake!Existing
<1>6. cov \in [columns \cup {column} -> Nat] /\ columns \cup {column} \in SUBSET Lake!Column
  BY <1>2, <1>4, <1>5 DEF Lake!Existing
<1> HIDE DEF cov
<1>7. /\ table'[t] = [table[t] EXCEPT !.covered = cov]
      /\ table'[t].covered = cov /\ table'[t].rows = table[t].rows
      /\ table'[t].small = table[t].small
      /\ table' \in [Named -> {table'[u] : u \in Named}]
      /\ \A u \in Named \ {t} : table'[u] = table[u]
  BY <1>1, <1>2, <1>3 DEF OpenType, Lake!Existing, cov
<1>8. table'[t] \in Lake!Existing
  BY <1>2, <1>6, <1>7 DEF Lake!Existing
<1>9. Lake!Indices(t)' = Lake!Indices(t) \cup {column}
  BY <1>5, <1>6, <1>7 DEF Lake!Indices
<1>10. /\ proc'[p] \in [at : {"indexing"}, todo : Seq(Named), existing : SUBSET Named,
                        missing : SUBSET Lake!Column]
       /\ proc'[p].todo = proc[p].todo /\ proc'[p].existing = proc[p].existing
       /\ proc'[p].missing = proc[p].missing \ {column}
       /\ proc' \in [Process -> {proc'[q] : q \in Process}]
       /\ \A q \in Process \ {p} : proc'[q] = proc[q]
  <2> DEFINE s == [proc[p] EXCEPT !.missing = @ \ {column}]
  <2>1. s \in [at : {"indexing"}, todo : Seq(Named), existing : SUBSET Named,
               missing : SUBSET Lake!Column]
    BY <1>1
  <2>2. s.todo = proc[p].todo /\ s.existing = proc[p].existing
        /\ s.missing = proc[p].missing \ {column}
    BY <1>1
  <2>3. proc' = [proc EXCEPT ![p] = s] /\ DOMAIN proc = Process
    BY <1>1, <1>3 DEF OpenType
  <2> HIDE DEF s
  <2>4. proc'[p] = s /\ DOMAIN proc' = Process /\ \A q \in Process \ {p} : proc'[q] = proc[q]
    BY <2>3
  <2>5. proc' = [q \in Process |-> proc'[q]]
    BY <2>3
  <2>6. QED
    BY <2>1, <2>2, <2>4, <2>5
<1>11. proc'[p] \in ProcessState
  BY <1>10 DEF ProcessState
<1>12. OpenType'
  BY <1>1, <1>7, <1>8, <1>10, <1>11 DEF OpenType
<1>13. table'[t] # Nothing
  BY <1>8 DEF Lake!StorageConstants
<1>14. OfSpec' /\ Grows
  <2>1. ASSUME NEW u \in Named, table[u] # Nothing
        PROVE table'[u] # Nothing /\ Lake!Indices(u) \subseteq Lake!Indices(u)'
    <3>1. CASE u = t
      BY <1>9, <1>13, <3>1
    <3>2. CASE u # t
      BY <1>7, <2>1, <3>2 DEF Lake!Indices
    <3>3. QED
      BY <3>1, <3>2
  <2>2. ASSUME NEW u \in Named, table'[u] # Nothing PROVE Lake!Indices(u)' \subseteq Indexed[u]
    <3>1. CASE u = t
      BY <1>2, <1>4, <1>9, <3>1 DEF OpenInv, OfSpec
    <3>2. CASE u # t
      BY <1>7, <2>2, <3>2 DEF Lake!Indices, OpenInv, OfSpec
    <3>3. QED
      BY <3>1, <3>2
  <2>3. QED
    BY <2>1, <2>2 DEF OfSpec, Grows
<1>15. \A u \in Named : Complete(u) => Complete(u)'
  BY <1>14 DEF Complete, OfSpec, Grows
<1>16. OnTheWay(p)'
  <2>1. \A u \in proc'[p].existing : table'[u] # Nothing
    BY <1>1, <1>7, <1>10, <1>13 DEF OnTheWay
  <2>2. Lake!Missing(p, t)' \subseteq proc'[p].missing
    BY <1>0, <1>1, <1>9, <1>10 DEF OnTheWay, Lake!Missing
  <2>3. proc'[p].missing \subseteq Indexed[t]
    BY <1>0, <1>1, <1>10 DEF OnTheWay
  <2>4. proc'[p].at = "indexing" /\ Head(proc'[p].todo) = t /\ proc'[p].todo # <<>>
    BY <1>0, <1>1, <1>10, <1>2
  <2>5. \A u \in Named : u \in Lake!ToSet(proc'[p].todo) \/ Complete(u)'
    BY <1>1, <1>10, <1>15 DEF OnTheWay
  <2>6. QED
    BY <1>13, <2>1, <2>2, <2>3, <2>4, <2>5 DEF OnTheWay
<1>17. QED
  BY <1>10, <1>12, <1>14, <1>16, OneStep

LEMMA OpenedKeeps ==
    ASSUME Lake!StorageConstants, OpenInv, NEW p \in Process, Lake!Opened(p)
    PROVE  OpenInv'
<1>1. /\ proc[p].at \in {"tables", "indexing"}
      /\ proc[p].todo \in Seq(Named) /\ proc[p].existing \in SUBSET Named
      /\ OpenType /\ OnTheWay(p) /\ UNCHANGED <<table, next>>
  BY OpeningState DEF Lake!Opened, OpenInv, Lake!Unchanged
<1>2. CASE proc[p].at = "indexing"
  <2> DEFINE t == Head(proc[p].todo)
             s == [at |-> "tables", todo |-> Tail(proc[p].todo), existing |-> proc[p].existing]
  <2>1. proc[p].missing = {} /\ proc' = [proc EXCEPT ![p] = s] /\ proc[p].todo # <<>>
    BY <1>1, <1>2 DEF Lake!Opened, OpenType, OnTheWay
  <2>2. Tail(proc[p].todo) \in Seq(Named) /\ t \in Named
        /\ \A i \in DOMAIN proc[p].todo \ {1} : i - 1 \in DOMAIN Tail(proc[p].todo)
                                                /\ Tail(proc[p].todo)[i - 1] = proc[p].todo[i]
    BY <1>1, <2>1
  <2>3. s \in ProcessState
    BY <1>1, <2>2 DEF ProcessState
  <2>4. OpenType' /\ proc'[p] = s /\ \A q \in Process \ {p} : proc'[q] = proc[q]
    BY <1>1, <2>1, <2>3 DEF OpenType
  <2>5. Complete(t)
    BY <1>1, <1>2, <2>1, <2>2 DEF OnTheWay, Complete, Lake!Missing, OpenInv, OfSpec
  <2>6. \A u \in Named : Complete(u)' <=> Complete(u)
    BY <1>1, NoTable
  <2>7. ASSUME NEW u \in Named PROVE u \in Lake!ToSet(s.todo) \/ Complete(u)'
    <3>1. CASE Complete(u)
      BY <2>6, <3>1
    <3>2. CASE u \in Lake!ToSet(proc[p].todo) /\ u # t
      <4>1. PICK i \in DOMAIN proc[p].todo : u = proc[p].todo[i]
        BY <3>2 DEF Lake!ToSet
      <4>2. i # 1
        BY <3>2, <4>1, <1>1, <2>1
      <4>3. QED
        BY <2>2, <4>1, <4>2 DEF Lake!ToSet
    <3>3. QED
      BY <1>1, <1>2, <2>5, <3>1, <3>2 DEF OnTheWay
  <2>8. OnTheWay(p)'
    BY <1>1, <1>2, <2>4, <2>7 DEF OnTheWay
  <2>9. QED
    BY <1>1, <2>4, <2>8, NoTable, OneStep
<1>3. CASE proc[p].at = "tables"
  <2> DEFINE s == [at |-> "open"]
  <2>1. proc[p].todo = <<>> /\ proc' = [proc EXCEPT ![p] = s]
    BY <1>1, <1>3 DEF Lake!Opened
  <2>2. OpenType' /\ proc'[p] = s /\ \A q \in Process \ {p} : proc'[q] = proc[q]
    BY <1>1, <2>1 DEF OpenType, ProcessState
  <2>3. Lake!ToSet(proc[p].todo) = {}
    BY <2>1 DEF Lake!ToSet
  <2>4. \A u \in Named : Complete(u)
    BY <1>1, <1>3, <2>3 DEF OnTheWay
  <2>5. OnTheWay(p)'
    BY <1>1, <2>2, <2>4, NoTable DEF OnTheWay
  <2>6. QED
    BY <1>1, <2>2, <2>5, NoTable, OneStep
<1>4. QED
  BY <1>1, <1>2, <1>3

\* A process that has opened the store goes on, or ends: every table stays
\* complete.
LEMMA WorkKeeps ==
    ASSUME Lake!StorageConstants, OpenInv, NEW p \in Process, OpenType', UNCHANGED table,
           \A q \in Process \ {p} : proc'[q] = proc[q],
           \/ proc'[p].at = "down"
           \/ proc[p].at \in {"open", "uploading", "pruning"}
                 /\ proc'[p].at \in {"open", "uploading", "pruning"}
    PROVE  OpenInv'
<1>1. OnTheWay(p)'
  BY NoTable DEF OpenInv, OnTheWay
<1>2. QED
  BY <1>1, NoTable, OneStep

LEMMA ExistingFields ==
    ASSUME NEW r \in Lake!Existing
    PROVE  /\ r.rows \in Nat /\ r.small \in Nat
           /\ r.covered \in UNION {[columns -> Nat] : columns \in SUBSET Lake!Column}
           /\ r = [rows |-> r.rows, small |-> r.small, covered |-> r.covered]
BY DEF Lake!Existing

LEMMA ExistingUpdates ==
    ASSUME NEW r \in Lake!Existing, NEW a, NEW b
    PROVE  /\ [[r EXCEPT !.rows = @ + 1] EXCEPT !.small = @ + 1]
                = [rows |-> r.rows + 1, small |-> r.small + 1, covered |-> r.covered]
           /\ [[r EXCEPT !.small = a] EXCEPT !.covered = b]
                = [rows |-> r.rows, small |-> a, covered |-> b]
<1> DEFINE x == [[r EXCEPT !.rows = @ + 1] EXCEPT !.small = @ + 1]
           y == [[r EXCEPT !.small = a] EXCEPT !.covered = b]
<1>1. /\ x.rows = r.rows + 1 /\ x.small = r.small + 1 /\ x.covered = r.covered
      /\ x = [k \in {"rows", "small", "covered"} |-> x[k]]
  BY DEF Lake!Existing
<1>2. /\ y.rows = r.rows /\ y.small = a /\ y.covered = b
      /\ y = [k \in {"rows", "small", "covered"} |-> y[k]]
  BY DEF Lake!Existing
<1> HIDE DEF x, y
<1>3. x = [rows |-> r.rows + 1, small |-> r.small + 1, covered |-> r.covered]
  BY <1>1
<1>4. y = [rows |-> r.rows, small |-> a, covered |-> b]
  BY <1>2
<1>5. QED
  BY <1>3, <1>4 DEF x, y

LEMMA InsertKeeps ==
    ASSUME Lake!StorageConstants, OpenInv, NEW p \in Process, NEW t \in Named, Lake!Insert(p, t)
    PROVE  OpenInv'
<1>1. /\ proc[p].at \in {"open", "uploading"} /\ OpenType /\ OnTheWay(p) /\ UNCHANGED next
      /\ table' = [table EXCEPT ![t].rows = @ + 1, ![t].small = @ + 1]
      /\ proc' = [proc EXCEPT ![p] = [at |-> "open"]]
  BY DEF Lake!Insert, OpenInv
<1>2. table[t] \in Lake!Existing /\ \A u \in Named : Complete(u)
  BY <1>1 DEF OnTheWay, Complete, OpenType
<1> DEFINE r == [rows |-> table[t].rows + 1, small |-> table[t].small + 1,
                 covered |-> table[t].covered]
<1>3. r \in Lake!Existing /\ r.covered = table[t].covered
  BY <1>2, ExistingFields DEF Lake!Existing
<1>4. table' = [table EXCEPT ![t] = r]
  <2>1. table' = [table EXCEPT ![t] = [[table[t] EXCEPT !.rows = @ + 1] EXCEPT !.small = @ + 1]]
    BY <1>1 DEF OpenType
  <2>2. [[table[t] EXCEPT !.rows = @ + 1] EXCEPT !.small = @ + 1] = r
    BY <1>2, ExistingUpdates
  <2>3. QED
    BY <2>1, <2>2
<1> HIDE DEF r
<1>5. table'[t] = r /\ \A u \in Named \ {t} : table'[u] = table[u]
  BY <1>1, <1>4 DEF OpenType
<1>12. [at |-> "open"] \in ProcessState
  BY DEF ProcessState
<1>6. OpenType' /\ proc'[p] = [at |-> "open"] /\ \A q \in Process \ {p} : proc'[q] = proc[q]
  BY <1>1, <1>3, <1>4, <1>12 DEF OpenType
<1>7. r # Nothing
  BY <1>3 DEF Lake!StorageConstants
<1>8. \A u \in Named : Lake!Indices(u)' = Lake!Indices(u) /\ table'[u] # Nothing
  BY <1>2, <1>3, <1>5, <1>7 DEF Lake!Indices, Complete
<1>9. OfSpec' /\ Grows /\ \A u \in Named : Complete(u)'
  BY <1>2, <1>8 DEF OfSpec, Grows, Complete
<1>10. OnTheWay(p)'
  BY <1>6, <1>9 DEF OnTheWay
<1>11. QED
  BY <1>6, <1>9, <1>10, OneStep

LEMMA CompactKeeps ==
    ASSUME Lake!StorageConstants, OpenInv, NEW p \in Process, Lake!CompactAndReindex(p)
    PROVE  OpenInv'
<1>1. /\ proc[p].at = "pruning" /\ OpenType /\ OnTheWay(p) /\ UNCHANGED next /\ proc[p].todo # <<>>
      /\ table' = [table EXCEPT ![Head(proc[p].todo)].small = Lake!Min({@, 1}),
                                ![Head(proc[p].todo)].covered =
                                    [c \in DOMAIN @ |-> table[Head(proc[p].todo)].rows]]
      /\ proc' = [proc EXCEPT ![p].todo = Tail(@)]
  BY DEF Lake!CompactAndReindex, OpenInv, Lake!Unchanged
<1>2. proc[p] \in [at : {"pruning"}, todo : Seq(Named)]
  BY <1>1 DEF OpenType, ProcessState
<1>0. PICK t \in Named : t = Head(proc[p].todo)
  BY <1>1, <1>2
<1>3. t \in Named /\ Tail(proc[p].todo) \in Seq(Named)
  BY <1>1, <1>2
<1>4. table[t] \in Lake!Existing /\ \A u \in Named : Complete(u)
  BY <1>1, <1>3 DEF OnTheWay, Complete, OpenType
<1> DEFINE m == Lake!Min({table[t].small, 1})
           cov == [c \in DOMAIN table[t].covered |-> table[t].rows]
           r == [rows |-> table[t].rows, small |-> m, covered |-> cov]
<1>5. m \in Nat
  <2>1. table[t].small \in Nat
    BY <1>4 DEF Lake!Existing
  <2>2. \E x \in {table[t].small, 1} : \A y \in {table[t].small, 1} : x <= y
    BY <2>1
  <2>3. m \in {table[t].small, 1}
    BY <2>2 DEF Lake!Min
  <2>4. QED
    BY <2>1, <2>3
<1>6. cov \in UNION {[columns -> Nat] : columns \in SUBSET Lake!Column}
      /\ DOMAIN cov = Lake!Indices(t)
  BY <1>4 DEF Lake!Existing, Lake!Indices
<1>7. table' = [table EXCEPT ![t] = r]
  <2>1. table' = [table EXCEPT ![t].small = Lake!Min({@, 1}),
                               ![t].covered = [c \in DOMAIN @ |-> table[t].rows]]
    BY <1>0, <1>1
  <2>2. table' = [table EXCEPT ![t] = [[table[t] EXCEPT !.small = m] EXCEPT !.covered = cov]]
    <3> HIDE DEF r
    <3>1. table[t].covered = [table[t] EXCEPT !.small = m].covered
      OBVIOUS
    <3>2. QED
      BY <1>1, <2>1, <3>1 DEF OpenType
  <2> HIDE DEF m, cov
  <2>3. [[table[t] EXCEPT !.small = m] EXCEPT !.covered = cov] = r
    BY <1>4, ExistingUpdates
  <2>4. QED
    BY <2>2, <2>3
<1> HIDE DEF m, cov
<1>8. r \in Lake!Existing /\ DOMAIN r.covered = Lake!Indices(t)
  BY <1>4, <1>5, <1>6, ExistingFields DEF Lake!Existing
<1> DEFINE s == [proc[p] EXCEPT !.todo = Tail(@)]
<1>9. s \in [at : {"pruning"}, todo : Seq(Named)] /\ proc' = [proc EXCEPT ![p] = s]
  BY <1>1, <1>2, <1>3 DEF OpenType
<1> HIDE DEF s, r
<1>10. table'[t] = r /\ \A u \in Named \ {t} : table'[u] = table[u]
  BY <1>1, <1>7 DEF OpenType
<1>11. s \in ProcessState /\ s.at = "pruning"
  BY <1>9 DEF ProcessState
<1>12. OpenType' /\ proc'[p] = s /\ \A q \in Process \ {p} : proc'[q] = proc[q]
  BY <1>1, <1>7, <1>8, <1>9, <1>11 DEF OpenType
<1>13. r # Nothing
  BY <1>8 DEF Lake!StorageConstants
<1>14. \A u \in Named : Lake!Indices(u)' = Lake!Indices(u) /\ table'[u] # Nothing
  BY <1>4, <1>8, <1>10, <1>13 DEF Lake!Indices, Complete
<1>15. OfSpec' /\ Grows /\ \A u \in Named : Complete(u)'
  BY <1>4, <1>14 DEF OfSpec, Grows, Complete
<1>16. OnTheWay(p)'
  BY <1>11, <1>12, <1>15 DEF OnTheWay
<1>17. QED
  BY <1>12, <1>15, <1>16, OneStep

LEMMA OpenStep ==
    ASSUME Lake!StorageConstants, OpenInv, [Lake!Next]_(Lake!vars)
    PROVE  OpenInv'
<1>1. OpenType
  BY DEF OpenInv
<1>2. CASE UNCHANGED <<table, proc, next>>
  <2>1. OpenType'
    BY <1>1, <1>2 DEF OpenType
  <2>2. OfSpec' /\ Grows /\ \A p \in Process : proc'[p] = proc[p]
    BY <1>2, NoTable
  <2>3. \A p \in Process : OnTheWay(p)'
    BY <1>1, <2>2, OthersStay DEF OpenInv
  <2>4. QED
    BY <2>1, <2>2, <2>3 DEF OpenInv
<1>3. ASSUME NEW p \in Process, Lake!BeginUpload(p)
      PROVE  OpenInv'
  <2>1. /\ proc[p].at = "open" /\ UNCHANGED table /\ next' = next + 1
        /\ proc' = [proc EXCEPT ![p] = [at |-> "uploading", upload |-> next]]
    BY <1>3 DEF Lake!BeginUpload
  <2>2. [at |-> "uploading", upload |-> next] \in ProcessState
    BY <1>1 DEF OpenType, ProcessState
  <2>3. OpenType' /\ proc'[p].at = "uploading" /\ \A q \in Process \ {p} : proc'[q] = proc[q]
    BY <1>1, <2>1, <2>2 DEF OpenType
  <2>4. QED
    BY <2>1, <2>3, WorkKeeps
<1>4. ASSUME NEW p \in Process, NEW s \in ProcessState,
             proc' = [proc EXCEPT ![p] = s], UNCHANGED <<table, next>>,
             \/ s.at = "down"
             \/ proc[p].at \in {"open", "uploading", "pruning"}
                   /\ s.at \in {"open", "uploading", "pruning"}
      PROVE  OpenInv'
  <2>1. OpenType' /\ proc'[p] = s /\ \A q \in Process \ {p} : proc'[q] = proc[q]
    BY <1>1, <1>4 DEF OpenType
  <2>2. QED
    BY <1>4, <2>1, WorkKeeps
<1>5. ASSUME NEW p \in Process, Lake!LoseUpload(p) \/ Lake!PruneOldVersions(p)
      PROVE  OpenInv'
  <2>1. /\ proc' = [proc EXCEPT ![p] = [at |-> "open"]] /\ UNCHANGED <<table, next>>
        /\ proc[p].at \in {"open", "uploading", "pruning"}
    BY <1>5 DEF Lake!LoseUpload, Lake!PruneOldVersions, Lake!Unchanged
  <2>2. [at |-> "open"] \in ProcessState
    BY DEF ProcessState
  <2>3. QED
    BY <1>4, <2>1, <2>2
<1>6. ASSUME NEW p \in Process, Lake!Optimise(p)
      PROVE  OpenInv'
  <2> DEFINE todo == IF Lake!NeedsAction THEN Tables ELSE <<>>
  <2>1. /\ proc' = [proc EXCEPT ![p] = [at |-> "pruning", todo |-> todo]]
        /\ UNCHANGED <<table, next>> /\ proc[p].at = "open"
    BY <1>6 DEF Lake!Optimise, Lake!Unchanged
  <2>2. todo \in Seq(Named)
    <3>1. <<>> \in Seq(Named)
      OBVIOUS
    <3>2. QED
      BY <3>1 DEF Lake!StorageConstants, Named
  <2> HIDE DEF todo
  <2>3. [at |-> "pruning", todo |-> todo] \in ProcessState
    BY <2>2 DEF ProcessState
  <2>4. QED
    BY <1>4, <2>1, <2>3
<1>7. ASSUME NEW p \in Process, Lake!Crash(p)
      PROVE  OpenInv'
  <2>1. proc' = [proc EXCEPT ![p] = [at |-> "down"]] /\ UNCHANGED <<table, next>>
    BY <1>7 DEF Lake!Crash, Lake!Unchanged, Lake!Down
  <2>2. [at |-> "down"] \in ProcessState
    BY DEF ProcessState
  <2>3. QED
    BY <1>4, <2>1, <2>2
<1>8. ASSUME NEW p \in Process, \E t \in Lake!ToSet(Tables) : Lake!Insert(p, t)
      PROVE  OpenInv'
  BY <1>8, InsertKeeps DEF Lake!StorageConstants, Named
<1>9. CASE Lake!BeginSweep \/ Lake!ListPage \/ Lake!AbortUpload \/ Lake!PageDone \/ Lake!EndSweep
  BY <1>2, <1>9 DEF Lake!BeginSweep, Lake!ListPage, Lake!AbortUpload, Lake!PageDone, Lake!EndSweep
<1>10. CASE UNCHANGED Lake!vars
  BY <1>2, <1>10 DEF Lake!vars
<1>11. QED
  BY <1>3, <1>5, <1>6, <1>7, <1>8, <1>9, <1>10, OpenKeeps, CreateTableKeeps, EnsureIndicesKeeps,
     CreateIndexKeeps, OpenedKeeps, CompactKeeps DEF Lake!Next

\* Whatever processes open, write and maintain the store at once, one that is
\* open has every table of its spec with every index (open.rs:46-48).
THEOREM StoresOpenComplete ==
    ASSUME Lake!StorageConstants
    PROVE  Lake!Spec => []OpenedIsComplete
<1>1. Lake!Init => OpenInv
  BY InitOpen
<1>2. OpenInv /\ [Lake!Next]_(Lake!vars) => OpenInv'
  BY OpenStep
<1>3. OpenInv => Lake!OpenedIsComplete
  BY DEF OpenInv, OnTheWay, Complete, Lake!OpenedIsComplete, Lake!StorageConstants, Named
<1>4. QED
  BY <1>1, <1>2, <1>3, PTL DEF Lake!Spec, OpenedIsComplete

-----------------------------------------------------------------------------
(* The sweep.  Of what it saw when it began there is left what is behind   *)
(* the marker, on the page under way, or failed.                           *)

Owed(u) == u \in uploads \cap sweep.there /\ u \notin sweep.failed

Progress ==
    \/ sweep = Lake!NoSweep
    \/ /\ sweep \in [at : {"listing"}, marker : Int, there : SUBSET Nat, failed : SUBSET Nat]
                    \cup [at : {"listing"}, page : SUBSET Nat, marker : Int, more : BOOLEAN,
                          there : SUBSET Nat, failed : SUBSET Nat]
       /\ \A u \in Nat : Owed(u) => u > sweep.marker
    \/ /\ sweep \in [at : {"aborting"}, page : SUBSET Nat, marker : Int, more : BOOLEAN,
                     there : SUBSET Nat, failed : SUBSET Nat]
       /\ \A u \in Nat : Owed(u) => u \in sweep.page \/ (u > sweep.marker /\ sweep.more)
    \/ /\ sweep \in [at : {"done"}, marker : Int, there : SUBSET Nat, failed : SUBSET Nat]
                    \cup [at : {"done"}, page : SUBSET Nat, marker : Int, more : BOOLEAN,
                          there : SUBSET Nat, failed : SUBSET Nat]
       /\ \A u \in Nat : ~Owed(u)

SweepInv ==
    /\ next \in Nat /\ uploads \subseteq 0 .. next - 1
    /\ sweep # Lake!NoSweep => sweep.there \subseteq 0 .. next - 1
    /\ Progress

\* Writers end uploads or begin new ones: nothing of them is owed.
LEMMA WritersOweNothing ==
    ASSUME SweepInv, UNCHANGED sweep, next' \in Nat, next <= next',
           uploads' \subseteq 0 .. next' - 1,
           \A u \in uploads' : u \in uploads \/ u >= next
    PROVE  SweepInv'
<1>1. sweep # Lake!NoSweep => \A u \in Nat : Owed(u)' => Owed(u)
  BY DEF SweepInv, Owed
<1>2. sweep # Lake!NoSweep => sweep'.there \subseteq 0 .. next' - 1
  BY DEF SweepInv
<1>3. Progress'
  BY <1>1 DEF SweepInv, Progress
<1>4. QED
  BY <1>2, <1>3 DEF SweepInv

LEMMA LastOf ==
    ASSUME NEW n \in Nat, NEW S \in SUBSET (0 .. n - 1), S # {}
    PROVE  Lake!Max(S) \in S /\ \A j \in S : j <= Lake!Max(S)
<1>1. \E i \in S : \A j \in S : i >= j
  BY GreatestOf
<1>2. Lake!Max(S) \in S /\ \A j \in S : Lake!Max(S) >= j
  BY <1>1 DEF Lake!Max
<1>3. QED
  BY <1>2

LEMMA ListPageKeeps ==
    ASSUME Lake!StorageConstants, SweepInv, Lake!ListPage
    PROVE  SweepInv'
<1> DEFINE rest == {u \in uploads : u > sweep.marker}
           before(u) == {v \in rest : v < u}
           page == {u \in rest : Lake!Cardinality(before(u)) < PageSize}
<1>1. /\ sweep.at = "listing" /\ UNCHANGED <<uploads, next>>
      /\ sweep' = IF page = {} THEN [sweep EXCEPT !.at = "done"]
                  ELSE [at |-> "aborting", page |-> page, marker |-> Lake!Max(page),
                        more |-> Lake!Truncated(page, rest), there |-> sweep.there,
                        failed |-> sweep.failed]
  BY DEF Lake!ListPage
<1>2. /\ sweep \in [at : {"listing"}, marker : Int, there : SUBSET Nat, failed : SUBSET Nat]
                 \cup [at : {"listing"}, page : SUBSET Nat, marker : Int, more : BOOLEAN,
                       there : SUBSET Nat, failed : SUBSET Nat]
      /\ \A u \in Nat : Owed(u) => u > sweep.marker
      /\ sweep # Lake!NoSweep
  BY <1>1 DEF SweepInv, Progress, Lake!NoSweep
<1>3. /\ next \in Nat /\ uploads \subseteq 0 .. next - 1
      /\ sweep.there \in SUBSET Nat /\ sweep.failed \in SUBSET Nat
      /\ sweep.there \subseteq 0 .. next - 1
  BY <1>2 DEF SweepInv
<1>4. \A u \in rest : before(u) \subseteq rest /\ IsFiniteSet(before(u))
      /\ Lake!Cardinality(before(u)) \in Nat
  <2>1. IsFiniteSet(0 .. next - 1)
    <3>1. 0 \in Int /\ next - 1 \in Int
      BY <1>3
    <3>2. QED
      BY <3>1, FS_Interval
  <2>2. \A u \in rest : before(u) \subseteq 0 .. next - 1
    BY <1>3
  <2>3. \A u \in rest : IsFiniteSet(before(u))
    BY SameSets, <2>1, <2>2, FS_Subset
  <2>4. QED
    BY SameSets, <2>3, FS_CardinalityType
\* A page is what comes first, and there is one as long as there is a rest.
<1>5. rest # {} => page # {}
  <2>1. ASSUME rest # {} PROVE page # {}
    <3>0. rest \in SUBSET Nat
      <4>1. \A u \in uploads : u \in Nat
        BY <1>3
      <4>2. QED
        BY <4>1
    <3>1. PICK u \in rest : \A v \in rest : u <= v
      <4> HIDE DEF rest
      <4>1. QED
        BY <2>1, <3>0, LeastNat
    <3>2. before(u) = {}
      <4>1. ASSUME NEW v \in rest PROVE ~(v < u)
        <5>1. u <= v /\ u \in Nat /\ v \in Nat
          BY <3>0, <3>1
        <5>2. QED
          BY <5>1
      <4> HIDE DEF rest
      <4>2. QED
        BY <4>1
    <3>3. Lake!Cardinality(before(u)) = 0
      BY SameSets, <3>2, FS_EmptySet
    <3>4. u \in page
      BY <3>1, <3>3 DEF Lake!StorageConstants
    <3>5. QED
      BY <3>4
  <2>2. QED
    BY <2>1
<1>6. ASSUME NEW u \in rest \ page, NEW w \in page PROVE u > w
  <2>1. u \in Nat /\ w \in Nat /\ w \in rest
    BY <1>3
  <2>2. CASE u <= w
    <3>1. before(u) \subseteq before(w)
      <4>1. \A v \in rest : v \in Nat
        BY <1>3
      <4> HIDE DEF rest, page
      <4>2. ASSUME NEW v \in before(u) PROVE v \in before(w)
        <5>1. v \in rest /\ v < u
          OBVIOUS
        <5>2. v < w
          BY <2>1, <2>2, <4>1, <5>1
        <5>3. QED
          BY <5>1, <5>2
      <4> HIDE DEF before
      <4>3. QED
        BY <4>2
    <3>2. Lake!Cardinality(before(u)) <= Lake!Cardinality(before(w))
      <4>1. IsFiniteSet(before(w))
        BY <1>4, <2>1
      <4> HIDE DEF before
      <4>2. QED
        BY SameSets, <3>1, <4>1, FS_Subset
    <3>3. /\ Lake!Cardinality(before(u)) \in Nat /\ Lake!Cardinality(before(w)) \in Nat
          /\ Lake!Cardinality(before(w)) < PageSize /\ PageSize \in Nat
      <4>1. PageSize \in Nat
        BY DEF Lake!StorageConstants
      <4>2. Lake!Cardinality(before(u)) \in Nat /\ Lake!Cardinality(before(w)) \in Nat
        BY <1>4, <2>1
      <4>3. Lake!Cardinality(before(w)) < PageSize
        OBVIOUS
      <4>4. QED
        BY <4>1, <4>2, <4>3
    <3> HIDE DEF before
    <3>4. Lake!Cardinality(before(u)) < PageSize
      BY <3>2, <3>3
    <3>5. u \in page
      BY <3>4
    <3>6. QED
      BY <3>5
  <2>3. QED
    BY <2>1, <2>2
<1>7. page \subseteq rest /\ rest \subseteq 0 .. next - 1
  BY <1>3
<1> HIDE DEF page, before
<1>8. CASE page = {}
  <2>1. sweep' = [sweep EXCEPT !.at = "done"]
    BY <1>1, <1>8
  <2>2. /\ sweep' \in [at : {"done"}, marker : Int, there : SUBSET Nat, failed : SUBSET Nat]
                    \cup [at : {"done"}, page : SUBSET Nat, marker : Int, more : BOOLEAN,
                          there : SUBSET Nat, failed : SUBSET Nat]
        /\ sweep'.there = sweep.there /\ sweep'.failed = sweep.failed
    BY <1>2, <2>1
  <2>3. rest = {}
    BY <1>5, <1>8
  <2>4. \A u \in Nat : ~Owed(u)'
    BY <1>1, <1>2, <1>3, <2>2, <2>3 DEF Owed
  <2>5. QED
    BY <1>1, <1>3, <2>2, <2>4 DEF SweepInv, Progress
<1>9. CASE page # {}
  <2>1. sweep' = [at |-> "aborting", page |-> page, marker |-> Lake!Max(page),
                  more |-> Lake!Truncated(page, rest), there |-> sweep.there,
                  failed |-> sweep.failed]
    BY <1>1, <1>9
  <2>2. Lake!Max(page) \in page
    BY <1>3, <1>7, <1>9, LastOf
  <2>3. Lake!Max(page) \in Int /\ page \in SUBSET Nat
    <3>1. page \subseteq 0 .. next - 1
      BY <1>7
    <3> HIDE DEF page
    <3>2. Lake!Max(page) \in 0 .. next - 1
      BY <2>2, <3>1
    <3>3. QED
      BY <1>3, <3>1, <3>2
  <2>4. Lake!Truncated(page, rest) = (rest # page)
    BY DEF Lake!Truncated
  <2>5. sweep' \in [at : {"aborting"}, page : SUBSET Nat, marker : Int, more : BOOLEAN,
                    there : SUBSET Nat, failed : SUBSET Nat]
    BY <1>3, <2>1, <2>3, <2>4
  <2>6. ASSUME NEW u \in Nat, Owed(u)'
        PROVE  u \in sweep'.page \/ (u > sweep'.marker /\ sweep'.more)
    <3>1. u \in rest
      BY <1>1, <1>2, <1>3, <2>1, <2>6 DEF Owed
    <3>2. CASE u \notin page
      BY <1>6, <2>1, <2>2, <2>4, <3>1, <3>2
    <3>3. QED
      BY <2>1, <3>2
  <2>7. QED
    BY <1>1, <1>3, <2>1, <2>5, <2>6 DEF SweepInv, Progress
<1>10. QED
  BY <1>8, <1>9

LEMMA SweepStep ==
    ASSUME Lake!StorageConstants, OpenInv, SweepInv, [Lake!Next]_(Lake!vars)
    PROVE  SweepInv'
<1>1. next \in Nat /\ uploads \subseteq 0 .. next - 1
  BY DEF SweepInv
<1>2. CASE UNCHANGED <<uploads, next, sweep>>
  BY <1>1, <1>2, WritersOweNothing
<1>3. ASSUME NEW p \in Process, Lake!BeginUpload(p)
      PROVE  SweepInv'
  BY <1>1, <1>3, WritersOweNothing DEF Lake!BeginUpload
<1>4. ASSUME NEW p \in Process, NEW t \in Lake!ToSet(Tables), Lake!Insert(p, t)
      PROVE  SweepInv'
  BY <1>1, <1>4, WritersOweNothing DEF Lake!Insert
<1>5. CASE Lake!BeginSweep
  <2>1. /\ sweep' = [at |-> "listing", marker |-> -1, there |-> uploads, failed |-> {}]
        /\ UNCHANGED <<uploads, next>>
    BY <1>5 DEF Lake!BeginSweep
  <2>2. sweep' \in [at : {"listing"}, marker : Int, there : SUBSET Nat, failed : SUBSET Nat]
    BY <1>1, <2>1
  <2>3. \A u \in Nat : u > sweep'.marker
    BY <2>1
  <2>4. QED
    BY <1>1, <2>1, <2>2, <2>3 DEF SweepInv, Progress
<1>6. ASSUME sweep.at = "aborting"
      PROVE  /\ sweep \in [at : {"aborting"}, page : SUBSET Nat, marker : Int, more : BOOLEAN,
                           there : SUBSET Nat, failed : SUBSET Nat]
             /\ \A u \in Nat : Owed(u) => u \in sweep.page \/ (u > sweep.marker /\ sweep.more)
             /\ sweep.there \subseteq 0 .. next - 1 /\ sweep # Lake!NoSweep
  BY <1>6 DEF SweepInv, Progress, Lake!NoSweep
<1>7. CASE Lake!AbortUpload
  <2>1. /\ sweep.at = "aborting" /\ UNCHANGED next
        /\ \E u \in sweep.page :
            LET left == [sweep EXCEPT !.page = @ \ {u}]
            IN  \/ uploads' = uploads \ {u} /\ sweep' = left
                \/ sweep' = [left EXCEPT !.failed = @ \cup {u}] /\ UNCHANGED uploads
    BY <1>7 DEF Lake!AbortUpload
  <2>2. PICK u \in sweep.page :
            LET left == [sweep EXCEPT !.page = @ \ {u}]
            IN  \/ uploads' = uploads \ {u} /\ sweep' = left
                \/ sweep' = [left EXCEPT !.failed = @ \cup {u}] /\ UNCHANGED uploads
    BY <2>1
  <2>3. u \in Nat
    BY <1>6, <2>1
  <2>4. /\ sweep' \in [at : {"aborting"}, page : SUBSET Nat, marker : Int, more : BOOLEAN,
                       there : SUBSET Nat, failed : SUBSET Nat]
        /\ sweep'.page = sweep.page \ {u} /\ sweep'.marker = sweep.marker
        /\ sweep'.more = sweep.more
        /\ sweep'.there = sweep.there /\ uploads' \subseteq uploads
        /\ sweep.failed \subseteq sweep'.failed
        /\ u \notin uploads' \/ u \in sweep'.failed
    <3> DEFINE left == [sweep EXCEPT !.page = @ \ {u}]
    <3>1. /\ left \in [at : {"aborting"}, page : SUBSET Nat, marker : Int, more : BOOLEAN,
                       there : SUBSET Nat, failed : SUBSET Nat]
          /\ left.page = sweep.page \ {u} /\ left.marker = sweep.marker /\ left.more = sweep.more
          /\ left.there = sweep.there /\ left.failed = sweep.failed
      BY <1>6, <2>1
    <3>2. CASE uploads' = uploads \ {u} /\ sweep' = left
      <4> HIDE DEF left
      <4>1. QED
        BY <3>1, <3>2
    <3>3. CASE sweep' = [left EXCEPT !.failed = @ \cup {u}] /\ UNCHANGED uploads
      <4> HIDE DEF left
      <4>1. QED
        BY <2>3, <3>1, <3>3
    <3>4. QED
      BY <2>2, <3>2, <3>3
  <2>5. \A v \in Nat : Owed(v)' => Owed(v) /\ v # u
    BY <2>4 DEF Owed
  <2>6. QED
    BY <1>1, <1>6, <2>1, <2>4, <2>5 DEF SweepInv, Progress
<1>8. CASE Lake!PageDone
  <2>1. /\ sweep.at = "aborting" /\ sweep.page = {} /\ UNCHANGED <<uploads, next>>
        /\ sweep' = [sweep EXCEPT !.at = IF sweep.more THEN "listing" ELSE "done"]
    BY <1>8 DEF Lake!PageDone
  <2>2. /\ sweep' \in [at : {IF sweep.more THEN "listing" ELSE "done"}, page : SUBSET Nat,
                       marker : Int,
                       more : BOOLEAN, there : SUBSET Nat, failed : SUBSET Nat]
        /\ sweep'.there = sweep.there /\ sweep'.failed = sweep.failed
        /\ sweep'.marker = sweep.marker
    BY <1>6, <2>1
  <2>3. \A v \in Nat : Owed(v)' => v > sweep.marker /\ sweep.more
    BY <1>6, <2>1, <2>2 DEF Owed
  <2>4. QED
    BY <1>1, <1>6, <2>1, <2>2, <2>3 DEF SweepInv, Progress
<1>9. CASE Lake!EndSweep
  BY <1>1, <1>9 DEF Lake!EndSweep, SweepInv, Progress
<1>10. ASSUME NEW p \in Process,
              \/ Lake!Open(p) \/ Lake!CreateTable(p) \/ Lake!EnsureIndices(p)
              \/ Lake!CreateIndex(p) \/ Lake!Opened(p)
              \/ Lake!LoseUpload(p) \/ Lake!Optimise(p) \/ Lake!CompactAndReindex(p)
              \/ Lake!PruneOldVersions(p) \/ Lake!Crash(p)
       PROVE  SweepInv'
  BY <1>2, <1>10 DEF Lake!Open, Lake!CreateTable, Lake!EnsureIndices, Lake!CreateIndex,
                     Lake!Opened, Lake!LoseUpload, Lake!Optimise,
                     Lake!CompactAndReindex, Lake!PruneOldVersions, Lake!Crash, Lake!Unchanged
<1>11. CASE UNCHANGED Lake!vars
  BY <1>2, <1>11 DEF Lake!vars
<1>12. QED
  BY <1>3, <1>4, <1>5, <1>7, <1>8, <1>9, <1>10, <1>11, ListPageKeeps DEF Lake!Next

\* A sweep that is done leaves none of the uploads it saw at its start but those
\* whose abort failed, whatever the page size and whoever uploads meanwhile.
THEOREM SweepsLeaveFailures ==
    ASSUME Lake!StorageConstants
    PROVE  Lake!Spec => []SweptIsGone
<1>1. Lake!Init => OpenInv /\ SweepInv
  BY InitOpen DEF Lake!Init, SweepInv, Progress
<1>2. OpenInv /\ SweepInv /\ [Lake!Next]_(Lake!vars) => (OpenInv /\ SweepInv)'
  BY OpenStep, SweepStep
<1>3. SweepInv => Lake!SweptIsGone
  BY DEF SweepInv, Progress, Lake!SweptIsGone, Owed, Lake!NoSweep
<1>4. QED
  BY <1>1, <1>2, <1>3, PTL DEF Lake!Spec, SweptIsGone

-----------------------------------------------------------------------------
(* Exporters.                                                              *)

Kinds == {"operations", "storage", "costs"}

\* What a job has fetched so far: every bucket it listed is fetched or left,
\* and once there is no further page, every line of the day is there.
FetchInv ==
    /\ now \in Nat
    /\ job.kind \in Kinds \cup {Nothing}
    /\ job.kind = "storage" =>
        /\ DOMAIN job = {"kind", "start", "listed", "left", "usage"}
        /\ job.start \in Nat /\ job.start <= now
        /\ job.listed # Nothing => job.listed \subseteq DOMAIN job.usage \cup job.left
    /\ job.kind = "costs" =>
        /\ DOMAIN job = {"kind", "start", "entries", "more"}
        /\ job.more \in BOOLEAN
        /\ ~job.more => DOMAIN costs \subseteq DOMAIN job.entries

\* The log of runs is a sequence, and says when each was started.
LogInv ==
    /\ \E T : runs \in Seq(T)
    /\ \A n \in Exports!Of("storage") : runs[n].job.start \in Nat

\* A push adds to the series the store has, whatever values it keeps.
LEMMA TakeAdds ==
    ASSUME NEW samples, Exports!Take(samples)
    PROVE  DOMAIN store' = DOMAIN store \cup DOMAIN samples
BY DEF Exports!Take

LEMMA FetchInit == ASSUME Exports!ExportersConstants, Exports!Init PROVE FetchInv
<1>1. now \in Nat /\ job.kind = Nothing
  BY DEF Exports!Init, Exports!NoJob, Exports!ExportersConstants
<1>2. QED
  BY <1>1 DEF FetchInv, Kinds, Exports!ExportersConstants

LEMMA FetchNext ==
    ASSUME Exports!ExportersConstants, FetchInv, [Exports!Next]_(Exports!vars)
    PROVE  FetchInv'
<1> USE DEF FetchInv, Kinds
<1>0. Nothing \notin Kinds
  BY DEF Exports!ExportersConstants
<1>1. CASE UNCHANGED Exports!vars
  BY <1>1 DEF Exports!vars, Exports!world
<1>2. ASSUME NEW outcome, Exports!End(outcome), now' = now PROVE FetchInv'
  <2>1. job'.kind = Nothing
    BY <1>2 DEF Exports!End, Exports!NoJob
  <2>2. QED
    BY <1>0, <1>2, <2>1
<1>3. CASE Exports!StartOperations
  <2>1. job'.kind = "operations" /\ now' = now
    BY <1>3 DEF Exports!StartOperations, Exports!Start, Exports!world
  <2>2. QED
    BY <2>1
<1>4. CASE Exports!StartStorage
  <2>1. job' = [kind |-> "storage", start |-> now, listed |-> Nothing, left |-> {}, usage |-> <<>>]
        /\ now' = now
    BY <1>4 DEF Exports!StartStorage, Exports!Start, Exports!world
  <2>2. QED
    BY <2>1
<1>5. CASE Exports!StartCosts
  <2>1. job' = [kind |-> "costs", start |-> now, entries |-> <<>>, more |-> TRUE] /\ now' = now
    BY <1>5 DEF Exports!StartCosts, Exports!Start, Exports!world
  <2>2. QED
    BY <2>1
<1>6. CASE Exports!FetchOperations
  <2>1. job.kind = "operations" /\ now' = now
    BY <1>6 DEF Exports!FetchOperations, Exports!world
  <2>2. CASE \E outcome : Exports!End(outcome)
    BY <1>2, <2>1, <2>2
  <2>3. CASE ~\E outcome : Exports!End(outcome)
    <3>1. PICK samples : job' = [job EXCEPT !.samples = samples]
      BY <1>6, <2>3 DEF Exports!FetchOperations
    <3>2. job'.kind = "operations"
      BY <2>1, <3>1
    <3>3. QED
      BY <2>1, <3>2
  <2>4. QED
    BY <2>2, <2>3
<1>7. CASE Exports!PushOperations
  <2>1. job'.kind = job.kind /\ job.kind = "operations" /\ now' = now
    BY <1>7 DEF Exports!PushOperations, Exports!world
  <2>2. QED
    BY <2>1
<1>8. CASE Exports!ListBuckets
  <2>1. job.kind = "storage" /\ now' = now
    BY <1>8 DEF Exports!ListBuckets, Exports!world
  <2>2. CASE Exports!End("failure")
    BY <1>2, <2>1, <2>2
  <2>3. CASE \E page : job' = [job EXCEPT !.listed = page, !.left = page]
    BY <2>1, <2>3
  <2>4. QED
    BY <1>8, <2>2, <2>3 DEF Exports!ListBuckets
<1>9. CASE Exports!FetchUsage
  <2>1. job.kind = "storage" /\ job.listed # Nothing /\ now' = now
    BY <1>9 DEF Exports!FetchUsage, Exports!world
  <2>2. CASE Exports!End("failure")
    BY <1>2, <2>1, <2>2
  <2>3. CASE ~Exports!End("failure")
    <3>1. PICK b \in job.left :
            job' = [job EXCEPT !.left = @ \ {b},
                    !.usage = [k \in DOMAIN @ \cup {b} |-> IF k = b THEN now ELSE @[k]]]
      BY <1>9, <2>3 DEF Exports!FetchUsage
    <3>2. /\ job'.kind = "storage" /\ job'.start = job.start /\ job'.listed = job.listed
          /\ DOMAIN job' = DOMAIN job
          /\ job'.left = job.left \ {b} /\ DOMAIN job'.usage = DOMAIN job.usage \cup {b}
      BY <2>1, <3>1
    <3>3. QED
      BY <2>1, <3>2
  <2>4. QED
    BY <2>2, <2>3
<1>10. CASE Exports!PushStorage
  BY <1>2, <1>10 DEF Exports!PushStorage, Exports!world
<1>11. CASE Exports!FetchPage
  <2> DEFINE rest == DOMAIN costs \ DOMAIN job.entries
  <2>1. PICK page \in SUBSET rest :
            job' = [job EXCEPT !.entries = [c \in DOMAIN @ \cup page |->
                                                IF c \in DOMAIN @ THEN @[c] ELSE costs[c]],
                               !.more = Exports!HasMore(rest \ page)]
    BY <1>11 DEF Exports!FetchPage
  <2>2. job.kind = "costs" /\ now' = now /\ costs' = costs
    BY <1>11 DEF Exports!FetchPage, Exports!world
  <2>3. /\ job'.kind = "costs" /\ DOMAIN job' = DOMAIN job
        /\ DOMAIN job'.entries = DOMAIN job.entries \cup page
        /\ job'.more = Exports!HasMore(rest \ page)
    BY <2>1, <2>2
  <2>4. job'.more \in BOOLEAN /\ (job'.more <=> rest \ page # {})
    BY <2>3 DEF Exports!HasMore
  <2>5. QED
    BY <2>2, <2>3, <2>4
<1>12. CASE Exports!PushCosts
  BY <1>2, <1>12 DEF Exports!PushCosts, Exports!world
<1>13. CASE Exports!Fail
  BY <1>2, <1>13 DEF Exports!Fail, Exports!world
<1>14. CASE Exports!Tick
  BY <1>14 DEF Exports!Tick
<1>15. CASE Exports!Operation
  BY <1>15 DEF Exports!Operation
<1>16. CASE Exports!DropBucket
  BY <1>16 DEF Exports!DropBucket
<1>17. QED
  BY <1>1, <1>3, <1>4, <1>5, <1>6, <1>7, <1>8, <1>9, <1>10, <1>11, <1>12, <1>13, <1>14,
     <1>15, <1>16 DEF Exports!Next

SuccessInv == FetchInv /\ LogInv /\ Exports!SuccessMeansAllOfIt

\* A step that ends no run, and takes nothing from the store.
LEMMA LogKept ==
    ASSUME SuccessInv, FetchInv', runs' = runs, DOMAIN store \subseteq DOMAIN store',
           now <= now', costs' = costs
    PROVE  LogInv' /\ Exports!SuccessMeansAllOfIt'
<1>1. Exports!Of("storage")' = Exports!Of("storage") /\ Exports!Of("costs")' = Exports!Of("costs")
  BY DEF Exports!Of, Exports!Succeeded
<1>2. LogInv'
  BY <1>1 DEF SuccessInv, LogInv
<1>3. ASSUME NEW n \in Exports!Of("storage")'
      PROVE  \E at \in runs'[n].job.start .. now' :
                \A b \in runs'[n].job.listed, series \in {"bytes", "objects"} :
                    <<series, b, at>> \in DOMAIN store'
  <2>1. PICK at \in runs[n].job.start .. now :
            \A b \in runs[n].job.listed, series \in {"bytes", "objects"} :
                <<series, b, at>> \in DOMAIN store
    BY <1>1, <1>3 DEF SuccessInv, Exports!SuccessMeansAllOfIt
  <2>2. runs[n].job.start \in Nat /\ now \in Nat /\ now' \in Nat
    BY <1>1, <1>3 DEF SuccessInv, LogInv, FetchInv
  <2>3. at \in runs[n].job.start .. now'
    BY <2>2
  <2>4. QED
    BY <2>1, <2>3
<1>4. ASSUME NEW n \in Exports!Of("costs")', NEW c \in DOMAIN costs'
      PROVE  \E k \in DOMAIN store' : k[1] = "cost" /\ k[2] = c
  BY <1>1 DEF SuccessInv, Exports!SuccessMeansAllOfIt
<1>5. QED
  BY <1>2, <1>3, <1>4 DEF Exports!SuccessMeansAllOfIt

\* A run that ends: those before it are as they were, and of this one it is
\* enough to look at a success.
LEMMA LogGrows ==
    ASSUME SuccessInv, FetchInv', NEW outcome, Exports!End(outcome),
           DOMAIN store \subseteq DOMAIN store', now' = now, costs' = costs,
           outcome = "success" /\ job.kind = "storage" =>
                \A b \in job.listed, series \in {"bytes", "objects"} :
                    <<series, b, now>> \in DOMAIN store',
           outcome = "success" /\ job.kind = "costs" =>
                \A c \in DOMAIN costs : \E k \in DOMAIN store' : k[1] = "cost" /\ k[2] = c
    PROVE  LogInv' /\ Exports!SuccessMeansAllOfIt'
<1> DEFINE run == [job |-> job, outcome |-> outcome]
<1>1. PICK T : runs \in Seq(T)
  BY DEF SuccessInv, LogInv
<1>2. runs' = Append(runs, run)
  BY DEF Exports!End
<1>3. runs \in Seq(T \cup {run}) /\ runs' \in Seq(T \cup {run})
  BY <1>1, <1>2
<1>4. /\ DOMAIN runs' = DOMAIN runs \cup {Len(runs) + 1}
      /\ runs'[Len(runs) + 1] = run
      /\ \A n \in DOMAIN runs : runs'[n] = runs[n]
      /\ Len(runs) + 1 \notin DOMAIN runs
  BY <1>2, <1>3
<1>5. run.job = job /\ run.outcome = outcome
  OBVIOUS
<1> HIDE DEF run
<1>6. ASSUME NEW kind, NEW n \in Exports!Of(kind)'
      PROVE  \/ n \in Exports!Of(kind) /\ runs'[n] = runs[n]
             \/ runs'[n].job = job /\ outcome = "success" /\ job.kind = kind
  BY <1>4, <1>5 DEF Exports!Of, Exports!Succeeded
<1>7. job.kind = "storage" => job.start \in Nat /\ job.start <= now /\ now \in Nat
  BY DEF SuccessInv, FetchInv
<1>8. LogInv'
  <2>1. \A n \in Exports!Of("storage")' : runs'[n].job.start \in Nat
    BY <1>6, <1>7 DEF SuccessInv, LogInv
  <2>2. QED
    BY <1>3, <2>1 DEF LogInv
<1>9. ASSUME NEW n \in Exports!Of("storage")'
      PROVE  \E at \in runs'[n].job.start .. now' :
                \A b \in runs'[n].job.listed, series \in {"bytes", "objects"} :
                    <<series, b, at>> \in DOMAIN store'
  <2>1. CASE n \in Exports!Of("storage") /\ runs'[n] = runs[n]
    BY <2>1 DEF SuccessInv, Exports!SuccessMeansAllOfIt
  <2>2. CASE runs'[n].job = job /\ outcome = "success" /\ job.kind = "storage"
    <3>1. now \in job.start .. now'
      BY <1>7, <2>2
    <3>2. QED
      BY <2>2, <3>1
  <2>3. QED
    BY <1>6, <2>1, <2>2
<1>10. ASSUME NEW n \in Exports!Of("costs")', NEW c \in DOMAIN costs'
      PROVE  \E k \in DOMAIN store' : k[1] = "cost" /\ k[2] = c
  <2>1. CASE n \in Exports!Of("costs")
    BY <2>1 DEF SuccessInv, Exports!SuccessMeansAllOfIt
  <2>2. CASE outcome = "success" /\ job.kind = "costs"
    BY <2>2
  <2>3. QED
    BY <1>6, <2>1, <2>2
<1>11. QED
  BY <1>8, <1>9, <1>10 DEF Exports!SuccessMeansAllOfIt

LEMMA SuccessNext ==
    ASSUME Exports!ExportersConstants, SuccessInv, [Exports!Next]_(Exports!vars)
    PROVE  SuccessInv'
<1>1. FetchInv'
  BY FetchNext DEF SuccessInv
<1> USE DEF SuccessInv
<1>2. costs' = costs /\ now <= now'
  <2>1. now \in Nat
    BY DEF FetchInv
  <2>2. costs' = costs /\ (now' = now \/ now' = now + 1)
    BY DEF Exports!Next, Exports!vars, Exports!world, Exports!StartOperations,
           Exports!StartStorage, Exports!StartCosts, Exports!Start,
           Exports!FetchOperations, Exports!PushOperations, Exports!ListBuckets,
           Exports!FetchUsage, Exports!PushStorage, Exports!FetchPage,
           Exports!PushCosts, Exports!Fail, Exports!Tick, Exports!Operation, Exports!DropBucket
  <2>3. QED
    BY <2>1, <2>2
<1>3. DOMAIN store \subseteq DOMAIN store'
  BY TakeAdds
     DEF Exports!Next, Exports!vars, Exports!world, Exports!StartOperations,
         Exports!StartStorage, Exports!StartCosts, Exports!Start, Exports!FetchOperations,
         Exports!PushOperations, Exports!ListBuckets, Exports!FetchUsage, Exports!PushStorage,
         Exports!FetchPage, Exports!PushCosts, Exports!Fail,
         Exports!Tick, Exports!Operation, Exports!DropBucket
<1>4. CASE runs' = runs
  BY <1>1, <1>2, <1>3, <1>4, LogKept
<1>5. ASSUME Exports!End("failure"), now' = now PROVE LogInv' /\ Exports!SuccessMeansAllOfIt'
  BY <1>1, <1>2, <1>3, <1>5, LogGrows
<1>6. CASE Exports!FetchOperations
  <2>1. job.kind = "operations" /\ now' = now
    BY <1>6 DEF Exports!FetchOperations, Exports!world
  <2>2. runs' = runs \/ Exports!End("success") \/ Exports!End("failure")
    BY <1>6 DEF Exports!FetchOperations
  <2>3. CASE Exports!End("success")
    BY <1>1, <1>2, <1>3, <2>1, <2>3, LogGrows
  <2>4. QED
    BY <1>1, <1>4, <1>5, <2>1, <2>2, <2>3
<1>7. CASE Exports!ListBuckets \/ Exports!FetchUsage \/ Exports!Fail
  <2>1. now' = now /\ (runs' = runs \/ Exports!End("failure"))
    BY <1>7 DEF Exports!ListBuckets, Exports!FetchUsage, Exports!Fail, Exports!world
  <2>2. QED
    BY <1>1, <1>4, <1>5, <2>1
<1>8. CASE Exports!PushStorage
  <2>1. /\ job.kind = "storage" /\ job.listed # Nothing /\ job.left = {}
        /\ Exports!Take(Exports!Gauges) /\ Exports!End("success") /\ now' = now
    BY <1>8 DEF Exports!PushStorage, Exports!world
  <2>2. job.listed \subseteq DOMAIN job.usage
    BY <2>1 DEF FetchInv
  <2>3. DOMAIN Exports!Gauges = {"bytes", "objects"} \X (DOMAIN job.usage) \X {now}
    BY DEF Exports!Gauges
  <2>4. ASSUME NEW b \in job.listed, NEW series \in {"bytes", "objects"}
        PROVE  <<series, b, now>> \in DOMAIN store'
    BY <2>1, <2>2, <2>3, TakeAdds
  <2>5. LogInv' /\ Exports!SuccessMeansAllOfIt'
    BY <1>1, <1>2, <1>3, <2>1, <2>4, LogGrows
  <2>6. QED
    BY <1>1, <2>5
<1>9. CASE Exports!PushCosts
  <2>1. /\ job.kind = "costs" /\ ~job.more
        /\ Exports!Take(Exports!Costs) /\ Exports!End("success") /\ now' = now
    BY <1>9 DEF Exports!PushCosts, Exports!world
  <2>2. DOMAIN costs \subseteq DOMAIN job.entries
    BY <2>1 DEF FetchInv
  <2> DEFINE hour == now - (now % Exports!Hour)
  <2>3. DOMAIN Exports!Costs = {"cost"} \X (DOMAIN job.entries) \X {hour}
    BY DEF Exports!Costs
  <2> HIDE DEF hour
  <2>4. ASSUME NEW c \in DOMAIN costs
        PROVE  \E k \in DOMAIN store' : k[1] = "cost" /\ k[2] = c
    <3>1. <<"cost", c, hour>> \in DOMAIN Exports!Costs
      BY <2>2, <2>3
    <3>2. <<"cost", c, hour>> \in DOMAIN store'
      BY <2>1, <3>1, TakeAdds
    <3>3. QED
      BY <3>2
  <2>5. LogInv' /\ Exports!SuccessMeansAllOfIt'
    BY <1>1, <1>2, <1>3, <2>1, <2>4, LogGrows
  <2>6. QED
    BY <1>1, <2>5
<1>10. QED
  BY <1>1, <1>4, <1>6, <1>7, <1>8, <1>9
     DEF Exports!Next, Exports!vars, Exports!StartOperations, Exports!StartStorage,
         Exports!StartCosts, Exports!Start, Exports!PushOperations,
         Exports!FetchPage, Exports!Tick, Exports!Operation, Exports!DropBucket

LEMMA SuccessInit == ASSUME Exports!ExportersConstants, Exports!Init PROVE SuccessInv
<1>1. LogInv /\ Exports!SuccessMeansAllOfIt
  <2>1. runs = <<>> /\ <<>> \in Seq({})
    BY DEF Exports!Init
  <2>2. Exports!Of("storage") = {} /\ Exports!Of("costs") = {}
    BY <2>1 DEF Exports!Of, Exports!Succeeded
  <2>3. QED
    BY <2>1, <2>2 DEF LogInv, Exports!SuccessMeansAllOfIt
<1>2. QED
  BY <1>1, FetchInit DEF SuccessInv

\* A run that reports success has written everything there was to write: no
\* bucket it listed and no line of the day's costs is without a sample.
THEOREM SuccessIsComplete ==
    ASSUME Exports!ExportersConstants
    PROVE  Exports!Spec => []SuccessMeansAllOfIt
<1>1. Exports!Init => SuccessInv
  BY SuccessInit
<1>2. SuccessInv /\ [Exports!Next]_(Exports!vars) => SuccessInv'
  BY SuccessNext
<1>3. SuccessInv => Exports!SuccessMeansAllOfIt
  BY DEF SuccessInv
<1>4. QED
  BY <1>1, <1>2, <1>3, PTL DEF Exports!Spec, SuccessMeansAllOfIt

-----------------------------------------------------------------------------
(* What the operations come to.  A window is one tick or two long, so that  *)
(* no two windows have their middle in common.                              *)

Windows == [from : Nat, to : Nat]
Ticks(w) == w.from .. w.to - 1

Count(b, t) == operations[<<t, b>>]
Counts(b) == [t \in 0 .. MaxTime |-> Count(b, t)]

CountsOK ==
    /\ now \in Nat /\ now <= MaxTime
    /\ operations \in [(0 .. MaxTime) \X Bucket -> Nat]

Key(b, at) == <<"operations", b, at>>
Keys == {k \in DOMAIN store : k[1] = "operations"}

\* A window that a run can have read by now.
IsWindow(w) ==
    /\ w \in Windows /\ w.from < w.to /\ w.to <= w.from + 2
    /\ \E l \in Lookbacks : w.to + l.to <= now

\* A sample of a window has all that was firm when it was read, and no more
\* than there is.
SampleOK(k, v) ==
    \E b \in Bucket, w \in Windows :
        /\ IsWindow(w) /\ k = Key(b, w.from + w.to) /\ v \in Nat
        /\ SumOf(Counts(b), Exports!Firm(w)) <= v /\ v <= SumOf(Counts(b), Ticks(w))

\* Each bucket has a sample of a window, or needs none.
Has(samples, w) ==
    \A b \in Bucket :
        SumOf(Counts(b), Exports!Firm(w)) = 0 \/ Key(b, w.from + w.to) \in DOMAIN samples

WindowsOf(run) == Exports!Range(Exports!OneMinuteWindows(run.from, run.to))

Truthful == \A k \in Keys : SampleOK(k, store[k])

RunShape ==
    job.kind = "operations" => DOMAIN job = {"kind", "start", "from", "to", "samples", "windows"}

\* A run under way has covered every window that it does not have before it.
UnderWay ==
    job.kind = "operations" =>
        /\ job.windows \in Seq(Windows)
        /\ \A i \in DOMAIN job.windows : IsWindow(job.windows[i])
        /\ \A w \in WindowsOf(job) :
            IsWindow(w) /\ (Has(store, w) \/ \E i \in DOMAIN job.windows : job.windows[i] = w)
        /\ job.samples # Nothing =>
            /\ job.windows # <<>>
            /\ \A k \in DOMAIN job.samples : SampleOK(k, job.samples[k])
            /\ Has(job.samples, Head(job.windows))

\* A run that succeeded has covered its range.
Covering ==
    \A n \in Exports!Of("operations") :
        \A w \in WindowsOf(runs[n].job) : IsWindow(w) /\ Has(store, w)

OperationsInv == SuccessInv /\ CountsOK /\ RunShape /\ Truthful /\ UnderWay /\ Covering

-----------------------------------------------------------------------------
LEMMA TakeKeeps ==
    ASSUME NEW samples, Exports!Take(samples)
    PROVE  /\ DOMAIN store' = DOMAIN store \cup DOMAIN samples
           /\ \A k \in DOMAIN store' :
                \/ k \in DOMAIN store /\ store'[k] = store[k]
                \/ k \in DOMAIN samples /\ store'[k] = samples[k]
BY DEF Exports!Take

\* What happened in some ticks is a sum over the counts of the bucket.
LEMMA HappenedIsSum ==
    ASSUME CountsOK, NEW b \in Bucket, NEW S \in SUBSET (0 .. MaxTime), IsFiniteSet(S)
    PROVE  Exports!Happened(b, S) = SumOf(Counts(b), S)
<1> DEFINE f == [t \in S |-> operations[<<t, b>>]]
<1>1. Exports!Happened(b, S) = SumOf(f, S)
  BY DEF Exports!Happened, SumOf, MapThenSumSet, MapThenFoldSet, Exports!MapThenSumSet, Exports!MapThenFoldSet
<1>2. ASSUME NEW t \in S PROVE f[t] = Counts(b)[t]
  BY <1>2 DEF Counts, Count
<1> HIDE DEF f
<1>3. SumOf(f, S) = SumOf(Counts(b), S)
  BY <1>2, SumOfSame
<1>4. QED
  BY <1>1, <1>3

\* The ticks of a window are past; the firm ones are beyond the late figures.
LEMMA TicksArePast ==
    ASSUME Exports!ExportersConstants, CountsOK, NEW w, IsWindow(w)
    PROVE  /\ Ticks(w) \in SUBSET (0 .. MaxTime) /\ IsFiniteSet(Ticks(w))
           /\ Exports!Firm(w) \in SUBSET Ticks(w) /\ IsFiniteSet(Exports!Firm(w))
           /\ \A t \in Exports!Firm(w) : t + Lag < now
<1>1. PICK l \in Lookbacks : w.to + l.to <= now
  BY DEF IsWindow
<1>2. /\ w.from \in Nat /\ w.to \in Nat /\ l.to \in Nat /\ Lag \in Nat
      /\ now \in Nat /\ now <= MaxTime /\ MaxTime \in Nat
  BY DEF IsWindow, Windows, CountsOK, Exports!ExportersConstants
<1>3. Ticks(w) \in SUBSET (0 .. MaxTime) /\ IsFiniteSet(Ticks(w))
  <2>1. IsFiniteSet(w.from .. w.to - 1)
    <3>1. w.from \in Int /\ w.to - 1 \in Int
      BY <1>2
    <3>2. QED
      BY <3>1, FS_Interval
  <2>2. \A t \in w.from .. w.to - 1 : t \in 0 .. MaxTime
    BY <1>1, <1>2
  <2>3. QED
    BY <2>1, <2>2 DEF Ticks
<1>4. Exports!Firm(w) \in SUBSET Ticks(w)
  BY DEF Exports!Firm, Ticks
<1>5. ASSUME NEW t \in Exports!Firm(w) PROVE t + Lag < now
  <2>1. t \in w.from .. w.to - 1 /\ t + Lag < w.to + l.to
    BY <1>1 DEF Exports!Firm
  <2>2. QED
    BY <1>1, <1>2, <2>1
<1>6. QED
  BY <1>3, <1>4, <1>5, FS_Subset

LEMMA CountsAre ==
    ASSUME CountsOK, NEW b \in Bucket, NEW t \in 0 .. MaxTime
    PROVE  Count(b, t) \in Nat /\ Counts(b)[t] = Count(b, t)
BY DEF CountsOK, Count, Counts

\* Fewer ticks have no more.
LEMMA PartIsLess ==
    ASSUME CountsOK, NEW b \in Bucket, NEW S \in SUBSET (0 .. MaxTime), IsFiniteSet(S),
           NEW R \in SUBSET S
    PROVE  /\ SumOf(Counts(b), R) \in Nat /\ SumOf(Counts(b), S) \in Nat
           /\ SumOf(Counts(b), R) <= SumOf(Counts(b), S)
<1> DEFINE f == Counts(b)
           g == [t \in S |-> IF t \in R THEN f[t] ELSE 0]
<1>1. \A t \in S : f[t] \in Nat
  BY CountsAre
<1>2. IsFiniteSet(R)
  BY FS_Subset
<1> HIDE DEF f
<1>3. SumOf(f, R) = SumOf(g, S)
  <2>1. /\ \A t \in R : f[t] = g[t] /\ f[t] \in Nat
        /\ \A t \in S \ R : g[t] = 0
    BY <1>1
  <2> HIDE DEF g
  <2>2. QED
    BY <2>1, SumOfOfPart
<1>4. SumOf(g, S) <= SumOf(f, S)
  <2>1. \A t \in S : g[t] \in Nat /\ f[t] \in Nat /\ g[t] <= f[t]
    BY <1>1
  <2> HIDE DEF g
  <2>2. QED
    BY <2>1, SumOfLeq
<1>5. SumOf(f, R) \in Nat /\ SumOf(f, S) \in Nat
  BY <1>1, <1>2, SumOfIsNat
<1>6. QED
  BY <1>3, <1>4, <1>5 DEF f

\* Counts only grow, and those beyond the late figures stay.
LEMMA CountsNext ==
    ASSUME Exports!ExportersConstants, CountsOK, [Exports!Next]_(Exports!vars)
    PROVE  /\ CountsOK' /\ now <= now'
           /\ \A b \in Bucket, t \in 0 .. MaxTime :
                /\ Count(b, t) <= Count(b, t)'
                /\ t + Lag < now => Count(b, t)' = Count(b, t)
<1>0. MaxTime \in Nat /\ Lag \in Nat /\ now \in Nat
  BY DEF Exports!ExportersConstants, CountsOK
<1>1. \A b \in Bucket, t \in 0 .. MaxTime : Count(b, t) \in Nat
  BY CountsAre
<1>2. CASE now' = now /\ operations' = operations
  BY <1>0, <1>1, <1>2 DEF CountsOK, Count
<1>3. CASE Exports!Tick
  <2>1. now' = now + 1 /\ now < MaxTime /\ operations' = operations
    BY <1>3 DEF Exports!Tick
  <2>2. QED
    BY <1>0, <1>1, <2>1 DEF CountsOK, Count
<1>4. CASE Exports!Operation
  <2>1. PICK c \in Bucket, t \in (now - Lag) .. now :
            t >= 0 /\ operations' = [operations EXCEPT ![<<t, c>>] = @ + 1]
    BY <1>4 DEF Exports!Operation
  <2>2. now' = now
    BY <1>4 DEF Exports!Operation
  <2>3. t \in 0 .. MaxTime /\ t >= now - Lag
    BY <1>0, <2>1 DEF CountsOK
  <2>4. CountsOK' /\ now <= now'
    BY <1>0, <2>1, <2>2, <2>3 DEF CountsOK
  <2>5. ASSUME NEW b \in Bucket, NEW u \in 0 .. MaxTime
        PROVE  Count(b, u)' = IF u = t /\ b = c THEN Count(b, u) + 1 ELSE Count(b, u)
    <3>1. <<u, b>> \in (0 .. MaxTime) \X Bucket /\ (<<u, b>> = <<t, c>> <=> u = t /\ b = c)
      OBVIOUS
    <3>2. QED
      BY <2>1, <3>1 DEF CountsOK, Count
  <2>6. ASSUME NEW b \in Bucket, NEW u \in 0 .. MaxTime
        PROVE  /\ Count(b, u) <= Count(b, u)'
               /\ u + Lag < now => Count(b, u)' = Count(b, u)
    <3>1. u + Lag < now => u # t
      BY <1>0, <2>3
    <3>2. Count(b, u) \in Nat
      BY <1>1
    <3>3. QED
      BY <2>5, <3>1, <3>2
  <2>7. QED
    BY <2>4, <2>6
<1>5. QED
  BY <1>2, <1>3, <1>4
     DEF Exports!Next, Exports!vars, Exports!world, Exports!StartOperations,
         Exports!StartStorage, Exports!StartCosts, Exports!Start, Exports!FetchOperations,
         Exports!PushOperations, Exports!ListBuckets, Exports!FetchUsage, Exports!PushStorage,
         Exports!FetchPage, Exports!PushCosts, Exports!Fail, Exports!DropBucket

\* A window that could be read can be read from then on; what is firm of it
\* stays, and what there is only grows.
LEMMA WindowStays ==
    ASSUME Exports!ExportersConstants, CountsOK, [Exports!Next]_(Exports!vars),
           NEW w \in Windows, IsWindow(w)
    PROVE  /\ IsWindow(w)'
           /\ \A b \in Bucket :
                /\ SumOf(Counts(b), Exports!Firm(w))' = SumOf(Counts(b), Exports!Firm(w))
                /\ SumOf(Counts(b), Ticks(w)) \in Nat /\ SumOf(Counts(b), Ticks(w))' \in Nat
                /\ SumOf(Counts(b), Ticks(w)) <= SumOf(Counts(b), Ticks(w))'
<1>1. CountsOK' /\ now \in Nat /\ now' \in Nat /\ now <= now'
  BY CountsNext DEF CountsOK
<1>2. IsWindow(w)'
  <2>1. PICK l \in Lookbacks : w.to + l.to <= now
    BY DEF IsWindow
  <2>2. w.to \in Nat /\ l.to \in Nat
    BY DEF Windows, Exports!ExportersConstants
  <2>3. w.to + l.to <= now'
    BY <1>1, <2>1, <2>2
  <2>4. QED
    BY <2>3 DEF IsWindow
<1>3. ASSUME NEW b \in Bucket
      PROVE  /\ SumOf(Counts(b), Exports!Firm(w))' = SumOf(Counts(b), Exports!Firm(w))
             /\ SumOf(Counts(b), Ticks(w)) \in Nat /\ SumOf(Counts(b), Ticks(w))' \in Nat
             /\ SumOf(Counts(b), Ticks(w)) <= SumOf(Counts(b), Ticks(w))'
  <2> DEFINE f == Counts(b)
             g == Counts(b)'
             F == Exports!Firm(w)
             T == Ticks(w)
  <2>1. /\ T \in SUBSET (0 .. MaxTime) /\ IsFiniteSet(T)
        /\ F \in SUBSET T /\ IsFiniteSet(F)
        /\ \A t \in F : t + Lag < now
    BY TicksArePast
  <2>2. \A t \in 0 .. MaxTime : f[t] = Count(b, t) /\ g[t] = Count(b, t)' /\ f[t] \in Nat /\ g[t] \in Nat
    BY <1>1, CountsAre DEF Counts, CountsOK, Count
  <2>3. \A t \in T : f[t] \in Nat /\ g[t] \in Nat /\ f[t] <= g[t]
    BY <2>1, <2>2, CountsNext
  <2>4. \A t \in F : g[t] = f[t]
    BY <2>1, <2>2, CountsNext
  <2>5. /\ SumOf(Counts(b), Exports!Firm(w))' = SumOf(g, F)
        /\ SumOf(Counts(b), Ticks(w))' = SumOf(g, T)
    BY DEF SumOf, MapThenSumSet, MapThenFoldSet
  <2> HIDE DEF f, g, F, T
  <2>6. SumOf(g, F) = SumOf(f, F)
    BY <2>1, <2>4, SumOfSame
  <2>7. SumOf(f, T) \in Nat /\ SumOf(g, T) \in Nat /\ SumOf(f, T) <= SumOf(g, T)
    BY <2>1, <2>3, SumOfIsNat, SumOfLeq
  <2>8. QED
    BY <2>5, <2>6, <2>7 DEF f, F, T
<1>4. QED
  BY <1>2, <1>3

LEMMA SampleStays ==
    ASSUME Exports!ExportersConstants, CountsOK, [Exports!Next]_(Exports!vars),
           NEW k, NEW v, SampleOK(k, v)
    PROVE  SampleOK(k, v)'
<1>1. PICK b \in Bucket, w \in Windows :
        /\ IsWindow(w) /\ k = Key(b, w.from + w.to) /\ v \in Nat
        /\ SumOf(Counts(b), Exports!Firm(w)) <= v /\ v <= SumOf(Counts(b), Ticks(w))
  BY DEF SampleOK
<1>2. /\ IsWindow(w)'
      /\ SumOf(Counts(b), Exports!Firm(w))' = SumOf(Counts(b), Exports!Firm(w))
      /\ SumOf(Counts(b), Ticks(w)) \in Nat /\ SumOf(Counts(b), Ticks(w))' \in Nat
      /\ SumOf(Counts(b), Ticks(w)) <= SumOf(Counts(b), Ticks(w))'
  BY <1>1, WindowStays
<1>3. v <= SumOf(Counts(b), Ticks(w))'
  BY <1>1, <1>2
<1>4. SumOf(Counts(b), Exports!Firm(w))' <= v
  BY <1>1, <1>2
<1>5. k = Key(b, w.from + w.to)'
  BY <1>1 DEF Key
<1>6. QED
  BY <1>1, <1>2, <1>3, <1>4, <1>5 DEF SampleOK

\* What a window needs no sample of or has one of, it has with more samples.
LEMMA HasStays ==
    ASSUME Exports!ExportersConstants, CountsOK, [Exports!Next]_(Exports!vars),
           NEW w \in Windows, IsWindow(w), NEW samples, Has(samples, w),
           NEW more, DOMAIN samples \subseteq more
    PROVE  \A b \in Bucket :
              SumOf(Counts(b), Exports!Firm(w))' = 0 \/ Key(b, w.from + w.to) \in more
BY WindowStays DEF Has

\* A step changes the store, the log of runs and the run under way in few ways.
LEMMA StoreSteps ==
    ASSUME FetchInv, RunShape, [Exports!Next]_(Exports!vars)
    PROVE  \/ store' = store
           \/ job.kind = "operations" /\ job.samples # Nothing /\ Exports!Take(job.samples)
           \/ \E samples : Exports!Take(samples) /\ \A k \in DOMAIN samples : k[1] # "operations"
<1>1. \A k \in DOMAIN Exports!Gauges : k[1] # "operations"
  BY DEF Exports!Gauges
<1>2. \A k \in DOMAIN Exports!Costs : k[1] # "operations"
  BY DEF Exports!Costs
<1>3. QED
  BY <1>1, <1>2
     DEF Exports!Next, Exports!vars, Exports!world, Exports!StartOperations,
         Exports!StartStorage, Exports!StartCosts, Exports!Start, Exports!FetchOperations,
         Exports!PushOperations, Exports!ListBuckets, Exports!FetchUsage, Exports!PushStorage,
         Exports!FetchPage, Exports!PushCosts, Exports!Fail, Exports!Tick, Exports!Operation,
         Exports!DropBucket

LEMMA RunsSteps ==
    ASSUME [Exports!Next]_(Exports!vars)
    PROVE  \/ runs' = runs
           \/ \E outcome :
                /\ Exports!End(outcome)
                /\ job.kind = "operations" /\ outcome = "success" =>
                    job.windows = <<>> /\ job.samples = Nothing
<1>1. CASE Exports!FetchOperations
  <2>1. CASE job.windows = <<>>
    <3>1. Exports!End("success") /\ job.samples = Nothing
      BY <1>1, <2>1 DEF Exports!FetchOperations
    <3>2. QED
      BY <2>1, <3>1
  <2>2. CASE job.windows # <<>>
    <3>1. Exports!End("failure") \/ runs' = runs
      BY <1>1, <2>2 DEF Exports!FetchOperations
    <3>2. QED
      BY <3>1
  <2>3. QED
    BY <2>1, <2>2
<1>2. CASE Exports!ListBuckets \/ Exports!FetchUsage \/ Exports!Fail
  <2>1. runs' = runs \/ Exports!End("failure")
    BY <1>2 DEF Exports!ListBuckets, Exports!FetchUsage, Exports!Fail
  <2>2. QED
    BY <2>1
<1>3. CASE Exports!PushStorage \/ Exports!PushCosts
  <2>1. Exports!End("success") /\ job.kind # "operations"
    BY <1>3 DEF Exports!PushStorage, Exports!PushCosts
  <2>2. QED
    BY <2>1
<1>4. QED
  BY <1>1, <1>2, <1>3
     DEF Exports!Next, Exports!vars, Exports!world, Exports!StartOperations,
         Exports!StartStorage, Exports!StartCosts, Exports!Start, Exports!PushOperations,
         Exports!FetchPage, Exports!Tick, Exports!Operation, Exports!DropBucket

Fetched(window) ==
    [k \in {<<"operations", b, Exports!Timestamp(window)>> : b \in {c \in Bucket : Exports!Sum(c, window) > 0}}
        |-> Exports!Sum(k[2], window)]

LEMMA JobSteps ==
    ASSUME FetchInv, Exports!ExportersConstants, [Exports!Next]_(Exports!vars)
    PROVE  \/ job' = job /\ runs' = runs
           \/ Exports!StartOperations
           \/ job'.kind # "operations" /\ (job.kind # "operations" \/ \E outcome : Exports!End(outcome))
           \/ /\ job.kind = "operations" /\ job.samples = Nothing /\ job.windows # <<>>
              /\ job' = [job EXCEPT !.samples = Fetched(Head(job.windows))]
              /\ UNCHANGED <<now, operations, store, runs>>
           \/ Exports!PushOperations
<1>0. FetchInv'
  BY FetchNext
<1>1. Nothing # "operations"
  BY DEF Exports!ExportersConstants
<1>2. ASSUME NEW outcome, Exports!End(outcome) PROVE job'.kind # "operations"
  BY <1>1, <1>2 DEF Exports!End, Exports!NoJob
<1>3. CASE Exports!FetchOperations
  <2>1. CASE \E outcome : Exports!End(outcome)
    BY <1>2, <2>1
  <2>2. CASE ~\E outcome : Exports!End(outcome)
    <3> DEFINE window == Head(job.windows)
               active == {b \in Bucket : Exports!Sum(b, window) > 0}
    <3>1. /\ job.windows # <<>>
          /\ job' = [job EXCEPT !.samples =
               [k \in {<<"operations", b, Exports!Timestamp(window)>> : b \in active} |->
                    Exports!Sum(k[2], window)]]
      BY <1>3, <2>2 DEF Exports!FetchOperations
    <3>2. job' = [job EXCEPT !.samples = Fetched(Head(job.windows))]
      BY <3>1, Zenon DEF Fetched
    <3>3. UNCHANGED <<now, operations, store, runs>>
      BY <1>3, <2>2 DEF Exports!FetchOperations, Exports!world
    <3>4. QED
      BY <1>3, <3>1, <3>2, <3>3 DEF Exports!FetchOperations
  <2>3. QED
    BY <2>1, <2>2
<1>4. CASE Exports!StartStorage \/ Exports!StartCosts
  <2>1. job = Exports!NoJob /\ (job'.kind = "storage" \/ job'.kind = "costs")
    BY <1>4 DEF Exports!StartStorage, Exports!StartCosts, Exports!Start
  <2>2. QED
    BY <1>1, <2>1 DEF Exports!NoJob
<1>5. CASE Exports!ListBuckets \/ Exports!FetchUsage
  <2>1. job.kind = "storage"
    BY <1>5 DEF Exports!ListBuckets, Exports!FetchUsage
  <2>2. CASE \E outcome : Exports!End(outcome)
    BY <1>2, <2>2
  <2>3. CASE ~\E outcome : Exports!End(outcome)
    <3>1. \/ \E page : job' = [job EXCEPT !.listed = page, !.left = page]
          \/ \E b : job' = [job EXCEPT !.left = @ \ {b},
                    !.usage = [k \in DOMAIN @ \cup {b} |-> IF k = b THEN now ELSE @[k]]]
      BY <1>5, <2>3 DEF Exports!ListBuckets, Exports!FetchUsage
    <3>2. "kind" \in DOMAIN job
      BY <2>1 DEF FetchInv
    <3>3. job'.kind = "storage"
      BY <2>1, <3>1, <3>2
    <3>4. QED
      BY <2>1, <3>3
  <2>4. QED
    BY <2>2, <2>3
<1>6. CASE Exports!FetchPage
  <2>1. job.kind = "costs" /\ "kind" \in DOMAIN job
    BY <1>6 DEF Exports!FetchPage, FetchInv
  <2>2. PICK page : job' = [job EXCEPT !.entries = [c \in DOMAIN @ \cup page |->
                                                IF c \in DOMAIN @ THEN @[c] ELSE costs[c]],
                               !.more = Exports!HasMore((DOMAIN costs \ DOMAIN job.entries) \ page)]
    BY <1>6 DEF Exports!FetchPage
  <2>3. job'.kind = "costs"
    BY <2>1, <2>2
  <2>4. QED
    BY <2>1, <2>3
<1>7. QED
  BY <1>2, <1>3, <1>4, <1>5, <1>6
     DEF Exports!Next, Exports!vars, Exports!world, Exports!PushStorage,
         Exports!PushCosts, Exports!Fail, Exports!Tick, Exports!Operation, Exports!DropBucket

LEMMA StoreGrows ==
    ASSUME FetchInv, RunShape, [Exports!Next]_(Exports!vars)
    PROVE  DOMAIN store \subseteq DOMAIN store'
BY StoreSteps, TakeAdds

LEMMA EndAppends ==
    ASSUME LogInv, NEW outcome, Exports!End(outcome)
    PROVE  /\ DOMAIN runs' = DOMAIN runs \cup {Len(runs) + 1} /\ Len(runs) + 1 \notin DOMAIN runs
           /\ \A n \in DOMAIN runs : runs'[n] = runs[n]
           /\ runs'[Len(runs) + 1] = [job |-> job, outcome |-> outcome]
           /\ job'.kind = Nothing
<1> DEFINE run == [job |-> job, outcome |-> outcome]
<1>1. PICK T : runs \in Seq(T)
  BY DEF LogInv
<1>2. runs' = Append(runs, run)
  BY DEF Exports!End
<1>3. runs \in Seq(T \cup {run}) /\ runs' \in Seq(T \cup {run})
  BY <1>1, <1>2
<1>4. job'.kind = Nothing
  BY DEF Exports!End, Exports!NoJob
<1>5. QED
  BY <1>2, <1>3, <1>4

LEMMA TruthfulNext ==
    ASSUME Exports!ExportersConstants, OperationsInv, [Exports!Next]_(Exports!vars)
    PROVE  Truthful'
<1>0. FetchInv /\ RunShape /\ CountsOK /\ Truthful /\ UnderWay
  BY DEF OperationsInv, SuccessInv
<1> SUFFICES ASSUME NEW k \in DOMAIN store', k[1] = "operations"
             PROVE  \E v : v = store'[k] /\ SampleOK(k, v)'
  BY Zenon DEF Truthful, Keys, SampleOK, Key
<1>1. ASSUME NEW v, v = store'[k], SampleOK(k, v)
      PROVE  \E u : u = store'[k] /\ SampleOK(k, u)'
  BY <1>0, <1>1, SampleStays
<1>2. CASE k \in DOMAIN store /\ store'[k] = store[k]
  <2>1. SampleOK(k, store[k])
    BY <1>0, <1>2 DEF Truthful, Keys
  <2>2. QED
    BY <1>1, <1>2, <2>1
<1>3. CASE /\ job.kind = "operations" /\ job.samples # Nothing
           /\ k \in DOMAIN job.samples /\ store'[k] = job.samples[k]
  <2>1. SampleOK(k, job.samples[k])
    BY <1>0, <1>3 DEF UnderWay
  <2>2. QED
    BY <1>1, <1>3, <2>1
<1>4. QED
  <2>1. CASE store' = store
    BY <1>2, <2>1
  <2>2. CASE job.kind = "operations" /\ job.samples # Nothing /\ Exports!Take(job.samples)
    BY <1>2, <1>3, <2>2, TakeKeeps
  <2>3. ASSUME NEW samples, Exports!Take(samples), \A l \in DOMAIN samples : l[1] # "operations"
        PROVE  k \in DOMAIN store /\ store'[k] = store[k]
    BY <2>3, TakeKeeps
  <2>4. QED
    BY <1>0, <1>2, <2>1, <2>2, <2>3, StoreSteps

\* A run is over when it has no window before it: then it has covered all.
LEMMA CoveringNext ==
    ASSUME Exports!ExportersConstants, OperationsInv, [Exports!Next]_(Exports!vars)
    PROVE  Covering'
<1>0. FetchInv /\ LogInv /\ RunShape /\ CountsOK /\ UnderWay /\ Covering
  BY DEF OperationsInv, SuccessInv
<1> SUFFICES ASSUME NEW n \in Exports!Of("operations")', NEW w \in WindowsOf(runs'[n].job)
             PROVE  IsWindow(w)' /\ Has(store, w)'
  BY DEF Covering, WindowsOf, Exports!Range, Exports!OneMinuteWindows
<1>1. IsWindow(w) /\ Has(store, w)
  <2>1. CASE n \in Exports!Of("operations") /\ runs'[n] = runs[n]
    BY <1>0, <2>1 DEF Covering
  <2>2. CASE /\ runs'[n] = [job |-> job, outcome |-> "success"] /\ job.kind = "operations"
             /\ job.windows = <<>> /\ job.samples = Nothing
    <3>1. runs'[n].job = job
      BY <2>2
    <3>2. w \in WindowsOf(job)
      BY <3>1
    <3>3. DOMAIN job.windows = {}
      BY <2>2
    <3>4. QED
      BY <1>0, <2>2, <3>2, <3>3 DEF UnderWay
  <2>3. CASE runs' = runs
    BY <2>1, <2>3 DEF Exports!Of, Exports!Succeeded
  <2>4. ASSUME NEW outcome, Exports!End(outcome),
               job.kind = "operations" /\ outcome = "success" =>
                    job.windows = <<>> /\ job.samples = Nothing
        PROVE  \/ n \in Exports!Of("operations") /\ runs'[n] = runs[n]
               \/ /\ runs'[n] = [job |-> job, outcome |-> "success"] /\ job.kind = "operations"
                  /\ job.windows = <<>> /\ job.samples = Nothing
    <3>1. n \in DOMAIN runs' /\ runs'[n].outcome = "success" /\ runs'[n].job.kind = "operations"
      BY DEF Exports!Of, Exports!Succeeded
    <3>2. CASE n \in DOMAIN runs
      <4>1. runs'[n] = runs[n]
        BY <1>0, <2>4, <3>2, EndAppends
      <4>2. QED
        BY <3>1, <3>2, <4>1 DEF Exports!Of, Exports!Succeeded
    <3>3. CASE n \notin DOMAIN runs
      <4>1. runs'[n] = [job |-> job, outcome |-> outcome]
        BY <1>0, <2>4, <3>1, <3>3, EndAppends
      <4>2. outcome = "success" /\ job.kind = "operations"
        BY <3>1, <4>1
      <4>3. QED
        BY <2>4, <4>1, <4>2
    <3>4. QED
      BY <3>2, <3>3
  <2>5. QED
    BY <2>1, <2>2, <2>3, <2>4, RunsSteps
<1>2. w \in Windows
  BY <1>1 DEF IsWindow
<1>3. DOMAIN store \subseteq DOMAIN store'
  BY <1>0, StoreGrows
<1>4. QED
  BY <1>0, <1>1, <1>2, <1>3, WindowStays, HasStays DEF Has, Key

\* A range that ends when a run may look back to it is cut into windows.
LEMMA CutIntoWindows ==
    ASSUME Exports!ExportersConstants, NEW from \in Nat, NEW to \in Nat, from < to,
           now \in Nat, NEW l \in Lookbacks, to + l.to <= now
    PROVE  /\ Exports!OneMinuteWindows(from, to) \in Seq(Windows)
           /\ \A i \in DOMAIN Exports!OneMinuteWindows(from, to) :
                IsWindow(Exports!OneMinuteWindows(from, to)[i])
<1> DEFINE N == (to - from + Exports!Minute - 1) \div Exports!Minute
           end(n) == Exports!Min({from + n * Exports!Minute, to})
           cut == Exports!OneMinuteWindows(from, to)
<1>1. N \in Nat /\ 2 * N <= to - from + 1
  BY DEF Exports!Minute
<1>2. ASSUME NEW n \in 1 .. N
      PROVE  /\ from + (n - 1) * Exports!Minute \in Nat /\ end(n) \in Nat
             /\ from + (n - 1) * Exports!Minute < end(n)
             /\ end(n) <= from + (n - 1) * Exports!Minute + 2 /\ end(n) <= to
  <2>1. /\ from + n * Exports!Minute = from + 2 * n
        /\ from + (n - 1) * Exports!Minute = from + 2 * n - 2
        /\ from + 2 * n <= to + 1
    BY <1>1, <1>2 DEF Exports!Minute
  <2> DEFINE S == {from + 2 * n, to}
  <2>2. PICK e \in S : \A y \in S : e <= y
    <3>1. from + 2 * n <= to \/ to <= from + 2 * n
      OBVIOUS
    <3>2. QED
      BY <3>1
  <2>3. \A x \in S : (\A y \in S : x <= y) => x = e
    BY <2>2
  <2>4. Exports!Min(S) = e
    BY <2>2, <2>3, Zenon DEF Exports!Min
  <2>5. end(n) = e
    BY <2>1, <2>4
  <2>6. e \in Nat /\ from + 2 * n - 2 < e /\ e <= from + 2 * n /\ e <= to
    BY <2>1, <2>2
  <2> HIDE DEF end, S
  <2>7. QED
    BY <1>1, <2>1, <2>5, <2>6
<1>3. cut = [n \in 1 .. N |-> [from |-> from + (n - 1) * Exports!Minute, to |-> end(n)]]
  BY Zenon DEF Exports!OneMinuteWindows
<1> HIDE DEF N, end, cut
<1>4. ASSUME NEW n \in 1 .. N
      PROVE  cut[n] \in Windows /\ IsWindow(cut[n])
  <2>1. cut[n] = [from |-> from + (n - 1) * Exports!Minute, to |-> end(n)]
    BY <1>3
  <2>2. cut[n] \in Windows /\ cut[n].from < cut[n].to /\ cut[n].to <= cut[n].from + 2 /\ cut[n].to <= to
    BY <1>2, <2>1 DEF Windows
  <2>3. l.to \in Nat
    BY DEF Exports!ExportersConstants
  <2>4. cut[n].to + l.to <= to + l.to
    BY <2>2, <2>3 DEF Windows
  <2>5. cut[n].to + l.to <= now
    BY <2>2, <2>3, <2>4 DEF Windows
  <2>6. QED
    BY <2>2, <2>5 DEF IsWindow
<1>5. cut \in Seq(Windows) /\ DOMAIN cut = 1 .. N
  BY <1>1, <1>3, <1>4
<1>6. QED
  BY <1>4, <1>5 DEF cut

\* What is fetched of a window is all there is of it.
LEMMA FetchedWindow ==
    ASSUME Exports!ExportersConstants, CountsOK, NEW w \in Windows, IsWindow(w)
    PROVE  (\A k \in DOMAIN Fetched(w) : SampleOK(k, Fetched(w)[k])) /\ Has(Fetched(w), w)
<1> DEFINE at == w.from + w.to
<1>0. /\ Ticks(w) \in SUBSET (0 .. MaxTime) /\ IsFiniteSet(Ticks(w))
      /\ Exports!Firm(w) \in SUBSET Ticks(w) /\ IsFiniteSet(Exports!Firm(w))
  BY TicksArePast
<1>1. Exports!Timestamp(w) = at
  BY DEF Exports!Timestamp
<1>2. ASSUME NEW b \in Bucket
      PROVE  /\ Exports!Sum(b, w) = SumOf(Counts(b), Ticks(w)) /\ Exports!Sum(b, w) \in Nat
             /\ SumOf(Counts(b), Exports!Firm(w)) \in Nat
             /\ SumOf(Counts(b), Exports!Firm(w)) <= Exports!Sum(b, w)
  <2>1. Exports!Sum(b, w) = SumOf(Counts(b), Ticks(w))
    BY <1>0, HappenedIsSum DEF Exports!Sum, Ticks
  <2>2. QED
    BY <1>0, <2>1, PartIsLess
<1> HIDE DEF at
<1> DEFINE S == {Key(b, at) : b \in {c \in Bucket : Exports!Sum(c, w) > 0}}
<1>3. Fetched(w) = [k \in S |-> Exports!Sum(k[2], w)]
  BY <1>1 DEF Fetched, Key
<1>4. ASSUME NEW k \in DOMAIN Fetched(w) PROVE SampleOK(k, Fetched(w)[k])
  <2>1. PICK b \in Bucket : k = Key(b, at) /\ k \in S
    BY <1>3
  <2>2. k[2] = b
    BY <2>1 DEF Key
  <2>3. Fetched(w)[k] = Exports!Sum(b, w)
    BY <1>3, <2>1, <2>2
  <2>4. Exports!Sum(b, w) <= SumOf(Counts(b), Ticks(w))
    BY <1>2
  <2>5. QED
    BY <1>2, <2>1, <2>3, <2>4 DEF SampleOK, at
<1>5. ASSUME NEW b \in Bucket, SumOf(Counts(b), Exports!Firm(w)) # 0
      PROVE  Key(b, at) \in DOMAIN Fetched(w)
  <2>1. Exports!Sum(b, w) > 0
    BY <1>2, <1>5
  <2>2. QED
    BY <1>3, <2>1
<1>6. QED
  BY <1>4, <1>5 DEF Has, at

LEMMA UnderWayNext ==
    ASSUME Exports!ExportersConstants, OperationsInv, [Exports!Next]_(Exports!vars)
    PROVE  UnderWay'
<1>0. /\ FetchInv /\ LogInv /\ RunShape /\ CountsOK /\ UnderWay
      /\ now \in Nat /\ CountsOK' /\ now <= now' /\ DOMAIN store \subseteq DOMAIN store'
  BY CountsNext, StoreGrows DEF OperationsInv, SuccessInv, CountsOK
<1>1. \A w \in Windows : IsWindow(w) => IsWindow(w)'
  BY <1>0, WindowStays
<1>2. ASSUME NEW w \in Windows, IsWindow(w), Has(store, w) PROVE Has(store, w)'
  BY <1>0, <1>2, HasStays DEF Has, Key
<1> SUFFICES ASSUME job'.kind = "operations"
             PROVE  /\ job'.windows \in Seq(Windows)
                    /\ \A i \in DOMAIN job'.windows : IsWindow(job.windows[i])'
                    /\ \A w \in WindowsOf(job)' : IsWindow(w)' /\
                        (Has(store, w)' \/ \E i \in DOMAIN job'.windows : job'.windows[i] = w)
                    /\ job'.samples # Nothing =>
                        /\ job'.windows # <<>>
                        /\ \A k \in DOMAIN job'.samples : SampleOK(k, job.samples[k])'
                        /\ Has(job.samples, Head(job.windows))'
  BY DEF UnderWay
<1>3. ASSUME job.kind = "operations"
      PROVE  /\ DOMAIN job = {"kind", "start", "from", "to", "samples", "windows"}
             /\ job.windows \in Seq(Windows)
             /\ \A i \in DOMAIN job.windows : job.windows[i] \in Windows /\ IsWindow(job.windows[i])
             /\ \A w \in WindowsOf(job) : w \in Windows /\ IsWindow(w) /\
                    (Has(store, w) \/ \E i \in DOMAIN job.windows : job.windows[i] = w)
  BY <1>0, <1>3 DEF RunShape, UnderWay, IsWindow
<1>4. CASE job' = job /\ job.kind = "operations"
  <2>1. /\ job'.windows \in Seq(Windows)
        /\ \A i \in DOMAIN job'.windows : IsWindow(job.windows[i])'
    BY <1>1, <1>3, <1>4 DEF IsWindow
  <2>2. ASSUME NEW w \in WindowsOf(job)'
        PROVE  IsWindow(w)' /\ (Has(store, w)' \/ \E i \in DOMAIN job'.windows : job'.windows[i] = w)
    <3>1. w \in WindowsOf(job)
      BY <1>4 DEF WindowsOf
    <3>2. QED
      BY <1>1, <1>2, <1>3, <1>4, <3>1
  <2>3. ASSUME job'.samples # Nothing
        PROVE  /\ job'.windows # <<>>
               /\ \A k \in DOMAIN job'.samples : SampleOK(k, job.samples[k])'
               /\ Has(job.samples, Head(job.windows))'
    <3>1. /\ job.windows # <<>>
          /\ \A k \in DOMAIN job.samples : SampleOK(k, job.samples[k])
          /\ Has(job.samples, Head(job.windows))
      BY <1>0, <1>4, <2>3 DEF UnderWay
    <3>2. PICK w : w = Head(job.windows)
      OBVIOUS
    <3>3. w \in Windows /\ IsWindow(w)
      <4>1. 1 \in DOMAIN job.windows /\ w = job.windows[1]
        BY <1>3, <1>4, <3>1, <3>2
      <4>2. QED
        BY <1>3, <1>4, <4>1
    <3>4. Has(job.samples, w)'
      BY <1>0, <1>4, <3>1, <3>2, <3>3, HasStays DEF Has, Key
    <3>5. ASSUME NEW k \in DOMAIN job'.samples PROVE SampleOK(k, job.samples[k])'
      <4>1. PICK v : v = job.samples[k]
        OBVIOUS
      <4>2. SampleOK(k, v)'
        BY <1>0, <1>4, <3>1, <4>1, SampleStays
      <4>3. v = job'.samples[k]
        BY <1>4, <4>1
      <4>4. QED
        BY <4>2, <4>3 DEF SampleOK
    <3>6. QED
      BY <1>4, <3>1, <3>2, <3>4, <3>5 DEF Has
  <2>4. QED
    BY <2>1, <2>2, <2>3
<1>5. CASE Exports!StartOperations
  <2>1. PICK back \in Lookbacks :
            /\ now >= back.from
            /\ job' = [kind |-> "operations", start |-> now, from |-> now - back.from,
                       to |-> now - back.to, samples |-> Nothing,
                       windows |-> Exports!OneMinuteWindows(now - back.from, now - back.to)]
    BY <1>5 DEF Exports!StartOperations, Exports!Start
  <2>2. PICK from, to : from = now - back.from /\ to = now - back.to
    OBVIOUS
  <2>3. from \in Nat /\ to \in Nat /\ from < to /\ to + back.to <= now
    BY <1>0, <2>1, <2>2 DEF Exports!ExportersConstants
  <2> DEFINE cut == Exports!OneMinuteWindows(from, to)
  <2>4. job'.from = from /\ job'.to = to /\ job'.samples = Nothing /\ job'.windows = cut
    BY <2>1, <2>2
  <2>5. cut \in Seq(Windows) /\ \A i \in DOMAIN cut : IsWindow(cut[i])
    BY <1>0, <2>3, CutIntoWindows
  <2>6. WindowsOf(job)' = {cut[i] : i \in DOMAIN cut}
    BY <2>4 DEF WindowsOf, Exports!Range, Exports!OneMinuteWindows
  <2> HIDE DEF cut
  <2>7. \A i \in DOMAIN cut : cut[i] \in Windows
    BY <2>5 DEF IsWindow
  <2>8. \A i \in DOMAIN job'.windows : IsWindow(job.windows[i])'
    BY <1>1, <2>4, <2>5, <2>7 DEF IsWindow
  <2>9. \A w \in WindowsOf(job)' : IsWindow(w)' /\ \E i \in DOMAIN job'.windows : job'.windows[i] = w
    BY <1>1, <2>4, <2>5, <2>6, <2>7
  <2>10. QED
    BY <2>4, <2>5, <2>8, <2>9
<1>6. CASE /\ job.kind = "operations" /\ job.samples = Nothing /\ job.windows # <<>>
           /\ job' = [job EXCEPT !.samples = Fetched(Head(job.windows))]
           /\ UNCHANGED <<now, operations, store, runs>>
  <2>1. /\ job'.windows = job.windows /\ job'.from = job.from /\ job'.to = job.to
        /\ job'.samples = Fetched(Head(job.windows))
    BY <1>3, <1>6
  <2>2. \A i \in DOMAIN job'.windows : IsWindow(job.windows[i])'
    BY <1>1, <1>3, <1>6, <2>1 DEF IsWindow
  <2>3. ASSUME NEW w \in WindowsOf(job)'
        PROVE  IsWindow(w)' /\ (Has(store, w)' \/ \E i \in DOMAIN job'.windows : job'.windows[i] = w)
    <3>1. w \in WindowsOf(job)
      BY <2>1 DEF WindowsOf, Exports!Range, Exports!OneMinuteWindows
    <3>2. QED
      BY <1>1, <1>2, <1>3, <1>6, <2>1, <3>1
  <2>4. PICK w : w = Head(job.windows)
    OBVIOUS
  <2>5. w \in Windows /\ IsWindow(w)
    <3>1. 1 \in DOMAIN job.windows /\ w = job.windows[1]
      BY <1>3, <1>6, <2>4
    <3>2. QED
      BY <1>3, <1>6, <3>1
  <2>6. (\A k \in DOMAIN Fetched(w) : SampleOK(k, Fetched(w)[k])) /\ Has(Fetched(w), w)
    BY <1>0, <2>5, FetchedWindow
  <2>7. ASSUME NEW k \in DOMAIN job'.samples PROVE SampleOK(k, job.samples[k])'
    <3>1. PICK v : v = job'.samples[k]
      OBVIOUS
    <3>2. SampleOK(k, v)
      BY <2>1, <2>4, <2>6, <3>1
    <3>3. SampleOK(k, v)'
      BY <1>0, <3>2, SampleStays
    <3>4. QED
      BY <3>1, <3>3 DEF SampleOK
  <2>8. Has(job.samples, Head(job.windows))'
    <3>1. DOMAIN Fetched(w) \subseteq DOMAIN job'.samples
      BY <2>1, <2>4
    <3>2. QED
      BY <1>0, <2>1, <2>4, <2>5, <2>6, <3>1, HasStays DEF Has, Key
  <2>9. QED
    BY <1>3, <1>6, <2>1, <2>2, <2>3, <2>7, <2>8
<1>7. CASE Exports!PushOperations
  <2>1. /\ job.kind = "operations" /\ job.samples # Nothing /\ Exports!Take(job.samples)
        /\ job' = [job EXCEPT !.samples = Nothing, !.windows = Tail(@)]
    BY <1>7 DEF Exports!PushOperations
  <2>2. /\ job'.windows = Tail(job.windows) /\ job'.from = job.from /\ job'.to = job.to
        /\ job'.samples = Nothing
    BY <1>3, <2>1
  <2>3. job.windows # <<>> /\ Has(job.samples, Head(job.windows))
    BY <1>0, <2>1 DEF UnderWay
  <2>4. /\ Tail(job.windows) \in Seq(Windows)
        /\ \A i \in DOMAIN Tail(job.windows) :
            i + 1 \in DOMAIN job.windows /\ Tail(job.windows)[i] = job.windows[i + 1]
        /\ \A i \in DOMAIN job.windows :
            i = 1 \/ (i - 1 \in DOMAIN Tail(job.windows) /\ Tail(job.windows)[i - 1] = job.windows[i])
        /\ Head(job.windows) = job.windows[1] /\ 1 \in DOMAIN job.windows
    BY <1>3, <2>1, <2>3
  <2>5. \A i \in DOMAIN job'.windows : IsWindow(job.windows[i])'
    BY <1>1, <1>3, <2>1, <2>2, <2>4 DEF IsWindow
  <2>6. PICK h : h = Head(job.windows)
    OBVIOUS
  <2>7. h \in Windows /\ IsWindow(h) /\ Has(job.samples, h)
    BY <1>3, <2>1, <2>3, <2>4, <2>6
  <2>8. Has(store, h)'
    <3>1. DOMAIN job.samples \subseteq DOMAIN store'
      BY <2>1, TakeAdds
    <3>2. QED
      BY <1>0, <2>7, <3>1, HasStays DEF Has, Key
  <2>9. ASSUME NEW w \in WindowsOf(job)'
        PROVE  IsWindow(w)' /\ (Has(store, w)' \/ \E i \in DOMAIN job'.windows : job'.windows[i] = w)
    <3>1. w \in WindowsOf(job)
      BY <2>2 DEF WindowsOf, Exports!Range, Exports!OneMinuteWindows
    <3>2. /\ w \in Windows /\ IsWindow(w)
          /\ Has(store, w) \/ \E i \in DOMAIN job.windows : job.windows[i] = w
      BY <1>3, <2>1, <3>1
    <3>3. CASE w = h
      BY <1>1, <2>8, <3>2, <3>3
    <3>4. CASE w # h
      <4>1. ASSUME NEW i \in DOMAIN job.windows, job.windows[i] = w
            PROVE  \E j \in DOMAIN job'.windows : job'.windows[j] = w
        <5>1. i # 1
          BY <2>4, <2>6, <3>4, <4>1
        <5>2. i - 1 \in DOMAIN Tail(job.windows) /\ Tail(job.windows)[i - 1] = w
          BY <2>4, <4>1, <5>1
        <5>3. QED
          BY <2>2, <5>2
      <4>2. QED
        BY <1>1, <1>2, <3>2, <4>1
    <3>5. QED
      BY <3>3, <3>4
  <2>10. QED
    BY <2>2, <2>4, <2>5, <2>9
<1>8. QED
  <2>1. CASE \E outcome : Exports!End(outcome)
    BY <1>0, <2>1, EndAppends DEF Exports!ExportersConstants
  <2>2. QED
    BY <1>0, <1>4, <1>5, <1>6, <1>7, <2>1, JobSteps

LEMMA OperationsInit ==
    ASSUME Exports!ExportersConstants, Exports!Init
    PROVE  OperationsInv
<1>1. /\ now = StartTime /\ job.kind = Nothing /\ runs = <<>> /\ store = <<>>
      /\ \E counted : operations = [k \in (0 .. MaxTime) \X Bucket |-> IF k \in counted THEN 1 ELSE 0]
  BY DEF Exports!Init, Exports!NoJob
<1>2. CountsOK
  BY <1>1 DEF CountsOK, Exports!ExportersConstants
<1>3. job.kind # "operations"
  BY <1>1 DEF Exports!ExportersConstants
<1>4. Truthful /\ Covering
  BY <1>1 DEF Truthful, Keys, Covering, Exports!Of, Exports!Succeeded
<1>5. SuccessInv
  BY SuccessInit
<1>6. QED
  BY <1>2, <1>3, <1>4, <1>5 DEF OperationsInv, RunShape, UnderWay

LEMMA RunShapeNext ==
    ASSUME Exports!ExportersConstants, FetchInv, RunShape, [Exports!Next]_(Exports!vars)
    PROVE  RunShape'
<1> SUFFICES ASSUME job'.kind = "operations"
             PROVE  DOMAIN job' = {"kind", "start", "from", "to", "samples", "windows"}
  BY DEF RunShape
<1>1. CASE Exports!StartOperations
  BY <1>1 DEF Exports!StartOperations, Exports!Start
<1>2. CASE job' = job
  BY <1>2 DEF RunShape
<1>3. CASE job.kind = "operations" /\ \E x : job' = [job EXCEPT !.samples = x]
  BY <1>3 DEF RunShape
<1>4. CASE Exports!PushOperations
  BY <1>4 DEF RunShape, Exports!PushOperations
<1>5. QED
  BY <1>1, <1>2, <1>3, <1>4, JobSteps

LEMMA OperationsNext ==
    ASSUME Exports!ExportersConstants, OperationsInv, [Exports!Next]_(Exports!vars)
    PROVE  OperationsInv'
<1>1. SuccessInv' /\ CountsOK' /\ RunShape'
  BY SuccessNext, CountsNext, RunShapeNext DEF OperationsInv, SuccessInv
<1>2. QED
  BY <1>1, TruthfulNext, UnderWayNext, CoveringNext DEF OperationsInv

\* Windows of one or two ticks that have their middle in common are the same,
\* and its ticks are those around it.
LEMMA OneMiddle ==
    ASSUME CountsOK, MaxTime \in Nat, NEW w \in Windows, IsWindow(w), Ticks(w) \in SUBSET (0 .. MaxTime)
    PROVE  /\ Exports!Around(w.from + w.to) = Ticks(w)
           /\ \A v \in Windows : IsWindow(v) /\ v.from + v.to = w.from + w.to => v = w
<1>1. w.from \in Nat /\ w.to \in Nat /\ w.from < w.to /\ w.to <= w.from + 2
  BY DEF Windows, IsWindow
<1>2. ASSUME NEW t \in 0 .. MaxTime
      PROVE  2 * t + 1 \in w.from + w.to - 1 .. w.from + w.to + 1 <=> t \in w.from .. w.to - 1
  <2>1. w.to = w.from + 1 \/ w.to = w.from + 2
    BY <1>1
  <2>2. QED
    BY <1>1, <2>1
<1>3. Exports!Around(w.from + w.to) = Ticks(w)
  <2>1. \A t : t \in w.from .. w.to - 1 => t \in 0 .. MaxTime
    BY DEF Ticks
  <2>2. ASSUME NEW t PROVE t \in Exports!Around(w.from + w.to) <=> t \in w.from .. w.to - 1
    <3>1. CASE t \in 0 .. MaxTime
      <4>1. t \in Exports!Around(w.from + w.to) <=> 2 * t + 1 \in w.from + w.to - 1 .. w.from + w.to + 1
        BY <1>1, <3>1 DEF Exports!Around
      <4>2. QED
        BY <1>2, <3>1, <4>1, Zenon
    <3>2. CASE t \notin 0 .. MaxTime
      <4>1. t \notin Exports!Around(w.from + w.to)
        BY <3>2 DEF Exports!Around
      <4>2. QED
        BY <2>1, <3>2, <4>1, Zenon
    <3>3. QED
      BY <3>1, <3>2
  <2>3. QED
    BY <2>2, Zenon DEF Ticks
<1>4. ASSUME NEW v \in Windows, IsWindow(v), v.from + v.to = w.from + w.to PROVE v = w
  <2>1. v.from \in Nat /\ v.to \in Nat /\ v.from < v.to /\ v.to <= v.from + 2
    BY <1>4 DEF Windows, IsWindow
  <2>2. v.from = w.from /\ v.to = w.to
    BY <1>1, <1>4, <2>1
  <2>3. QED
    BY <2>2 DEF Windows
<1>5. QED
  BY <1>3, <1>4

\* The invariant says what the samples are, of each window apart.
LEMMA SamplesAreCounts ==
    ASSUME Exports!ExportersConstants, OperationsInv
    PROVE  Exports!OperationsAreCounted
<1>0. CountsOK /\ Truthful /\ Covering /\ MaxTime \in Nat
  BY DEF OperationsInv, Exports!ExportersConstants
<1>1. ASSUME NEW k \in DOMAIN store, k[1] = "operations"
      PROVE  store[k] <= Exports!Happened(k[2], Exports!Around(k[3]))
  <2>1. PICK b \in Bucket, w \in Windows :
            /\ IsWindow(w) /\ k = Key(b, w.from + w.to)
            /\ store[k] <= SumOf(Counts(b), Ticks(w))
    BY <1>0, <1>1 DEF Truthful, Keys, SampleOK
  <2>2. Ticks(w) \in SUBSET (0 .. MaxTime) /\ IsFiniteSet(Ticks(w))
    BY <1>0, <2>1, TicksArePast
  <2>3. Exports!Around(w.from + w.to) = Ticks(w)
    BY <1>0, <2>1, <2>2, OneMiddle
  <2>4. Exports!Happened(b, Ticks(w)) = SumOf(Counts(b), Ticks(w))
    BY <1>0, <2>2, HappenedIsSum
  <2>5. k[2] = b /\ k[3] = w.from + w.to
    BY <2>1 DEF Key
  <2>6. QED
    BY <2>1, <2>3, <2>4, <2>5
<1>2. ASSUME NEW n \in Exports!Of("operations"), NEW b \in Bucket,
             NEW w \in WindowsOf(runs[n].job)
      PROVE  Exports!Happened(b, Exports!Firm(w)) <= Exports!Stored(<<"operations", b, w.from + w.to>>)
  <2>1. w \in Windows /\ IsWindow(w) /\ Has(store, w)
    BY <1>0 DEF Covering, IsWindow
  <2>2. /\ Ticks(w) \in SUBSET (0 .. MaxTime) /\ IsFiniteSet(Exports!Firm(w))
        /\ Exports!Firm(w) \in SUBSET Ticks(w)
    BY <1>0, <2>1, TicksArePast
  <2>3. Exports!Happened(b, Exports!Firm(w)) = SumOf(Counts(b), Exports!Firm(w))
    BY <1>0, <2>2, HappenedIsSum
  <2> DEFINE k == <<"operations", b, w.from + w.to>>
  <2>4. k = Key(b, w.from + w.to)
    BY DEF Key
  <2>5. CASE k \in DOMAIN store
    <3>1. SampleOK(k, store[k])
      BY <1>0, <2>5 DEF Truthful, Keys
    <3>2. PICK c \in Bucket, v \in Windows :
            /\ IsWindow(v) /\ k = Key(c, v.from + v.to)
            /\ SumOf(Counts(c), Exports!Firm(v)) <= store[k]
      BY <3>1 DEF SampleOK
    <3>3. c = b /\ v.from + v.to = w.from + w.to
      BY <3>2 DEF Key
    <3>4. v = w
      BY <1>0, <2>1, <2>2, <3>2, <3>3, OneMiddle
    <3>5. QED
      BY <2>3, <2>5, <3>2, <3>3, <3>4 DEF Exports!Stored
  <2>6. CASE k \notin DOMAIN store
    <3>1. SumOf(Counts(b), Exports!Firm(w)) = 0
      BY <2>1, <2>4, <2>6 DEF Has
    <3>2. QED
      BY <2>3, <2>6, <3>1 DEF Exports!Stored
  <2>7. QED
    BY <2>5, <2>6
<1>3. QED
  BY <1>1, <1>2, Zenon DEF Exports!OperationsAreCounted, WindowsOf

\* However runs overlap, start at other seconds, read minutes too early, fail
\* or are repeated: no sample has more than its minute, and every minute of a
\* run that succeeded has a sample with all that was firm.
THEOREM OperationsAreCountedOnce ==
    ASSUME Exports!ExportersConstants
    PROVE  Exports!Spec => []OperationsAreCounted
<1>1. Exports!Init => OperationsInv
  BY OperationsInit
<1>2. OperationsInv /\ [Exports!Next]_(Exports!vars) => OperationsInv'
  BY OperationsNext
<1>3. OperationsInv => Exports!OperationsAreCounted
  BY SamplesAreCounts
<1>4. QED
  BY <1>1, <1>2, <1>3, PTL DEF Exports!Spec, OperationsAreCounted

-----------------------------------------------------------------------------
(* Scoring.                                                                *)

Totals == [unscored : Nat, scored : Nat, errors : Nat]

BatchTypeOK ==
    /\ phase \in {"idle", "scoring", "saved"}
    /\ open \subseteq Scorable /\ written \subseteq Scorable
    /\ tick \in [scored : SUBSET Scorable, failed : Nat, size : Nat]
    /\ totals \in Totals /\ meters \in Totals /\ metered \in Nat

\* A call is out for open images only, and none of a batch is in the table.
Apart ==
    /\ DOMAIN calls \subseteq open
    /\ open \cap tick.scored = {}
    /\ phase # "scoring" => open = {}
    /\ phase = "scoring" => (open \cup tick.scored) \cap written = {}

BatchAddsUp ==
    phase = "scoring" =>
        tick.size = Batch!Cardinality(open) + Batch!Cardinality(tick.scored) + tick.failed

TotalsAddUp ==
    /\ totals.unscored = totals.scored + totals.errors
    /\ totals.scored <= Batch!Cardinality(written)
    /\ phase = "scoring" => metered = totals.scored + Batch!Cardinality(tick.scored)
    /\ phase # "scoring" => metered = totals.scored

\* What is exported lags between a save and the export only.
Exported ==
    /\ phase # "saved" => meters = totals
    /\ meters.unscored <= totals.unscored
    /\ meters.scored <= totals.scored
    /\ meters.errors <= totals.errors

ScoringInv == BatchTypeOK /\ Apart /\ BatchAddsUp /\ TotalsAddUp /\ Exported

------------------------------------------------------------------------------
\* Sets of images are finite.
LEMMA FiniteImages ==
    ASSUME Batch!ScoringConstants, NEW S \in SUBSET Scorable
    PROVE  IsFiniteSet(S) /\ Batch!Cardinality(S) \in Nat
BY SameSets, FS_Subset, FS_CardinalityType DEF Batch!ScoringConstants

LEMMA InitScoring ==
    ASSUME Batch!ScoringConstants, Batch!Init
    PROVE  ScoringInv
<1>1. DOMAIN calls = {} /\ Batch!Cardinality({}) = 0
  BY SameSets, FS_EmptySet DEF Batch!Init
<1>2. BatchTypeOK
  BY DEF Batch!Init, BatchTypeOK, Totals, Batch!NoTotals, Batch!NoTick
<1>3. Apart
  BY <1>1 DEF Batch!Init, Apart, Batch!NoTick
<1>4. BatchAddsUp /\ TotalsAddUp /\ Exported
  BY <1>1 DEF Batch!Init, BatchAddsUp, TotalsAddUp, Exported, Batch!NoTotals
<1> QED
  BY <1>2, <1>3, <1>4 DEF ScoringInv

\* A batch begins with all its images open.
LEMMA TakeCounts ==
    ASSUME Batch!ScoringConstants, ScoringInv, Batch!Take
    PROVE  ScoringInv'
<1>1. PICK batch \in SUBSET (Scorable \ written) :
        open' = batch /\ tick' = [Batch!NoTick EXCEPT !.size = Batch!Cardinality(batch)]
  BY DEF Batch!Take
<1>2. /\ phase = "idle" /\ phase' = "scoring"
      /\ UNCHANGED <<calls, totals, meters, written, metered>>
  BY DEF Batch!Take
<1>3. tick'.scored = {} /\ tick'.failed = 0 /\ tick'.size = Batch!Cardinality(batch)
      /\ Batch!Cardinality({}) = 0
  BY SameSets, <1>1, FS_EmptySet DEF Batch!NoTick
<1>4. batch \subseteq Scorable /\ Batch!Cardinality(batch) \in Nat
  BY <1>1, FiniteImages
<1>5. BatchTypeOK'
  BY <1>1, <1>2, <1>4 DEF ScoringInv, BatchTypeOK, Batch!NoTick
<1>6. Apart'
  BY <1>1, <1>2, <1>3 DEF ScoringInv, Apart
<1>7. BatchAddsUp'
  <2>1. Batch!Cardinality(open') = Batch!Cardinality(batch) /\ Batch!Cardinality(tick'.scored) = 0
    BY <1>1, <1>3
  <2>2. tick'.size = Batch!Cardinality(open') + Batch!Cardinality(tick'.scored) + tick'.failed
    BY <1>3, <1>4, <2>1
  <2> QED
    BY <2>2 DEF BatchAddsUp
<1>8. TotalsAddUp' /\ Exported'
  BY <1>2, <1>3 DEF ScoringInv, BatchTypeOK, Totals, TotalsAddUp, Exported
<1> QED
  BY <1>5, <1>6, <1>7, <1>8 DEF ScoringInv

\* An image that is answered is open no more, and scored or failed.
LEMMA OutcomeCounts ==
    ASSUME Batch!ScoringConstants, ScoringInv, NEW i \in Scorable, NEW answer,
           Batch!Outcome(i, answer)
    PROVE  ScoringInv'
<1>1. /\ i \in open /\ i \notin tick.scored
      /\ phase = "scoring" /\ UNCHANGED <<phase, totals, meters, written>>
      /\ open' = open \ {i} /\ DOMAIN calls' = DOMAIN calls \ {i}
  BY DEF Batch!Outcome, ScoringInv, Apart
<1>2. /\ Batch!Cardinality(open) \in Nat /\ Batch!Cardinality(open \ {i}) \in Nat
      /\ Batch!Cardinality(open \ {i}) = Batch!Cardinality(open) - 1
  BY SameSets, <1>1, FiniteImages, FS_RemoveElement DEF ScoringInv, BatchTypeOK
<1>3. tick \in [scored : SUBSET Scorable, failed : Nat, size : Nat]
  BY DEF ScoringInv, BatchTypeOK
<1>4. Batch!Cardinality(tick.scored) \in Nat
      /\ Batch!Cardinality(tick.scored \cup {i}) = Batch!Cardinality(tick.scored) + 1
  BY SameSets, <1>1, <1>3, FiniteImages, FS_AddElement
<1>5. CASE answer = "score"
  <2>1. /\ tick'.scored = tick.scored \cup {i} /\ tick'.failed = tick.failed
        /\ tick'.size = tick.size
        /\ tick' \in [scored : SUBSET Scorable, failed : Nat, size : Nat] /\ metered' = metered + 1
    BY <1>3, <1>5 DEF Batch!Outcome
  <2>2. BatchTypeOK'
    BY <1>1, <2>1 DEF ScoringInv, BatchTypeOK
  <2>3. Apart'
    BY <1>1, <2>1 DEF ScoringInv, Apart
  <2>4. BatchAddsUp'
    BY <1>1, <1>2, <1>3, <1>4, <2>1 DEF ScoringInv, BatchAddsUp
  <2>5. TotalsAddUp' /\ Exported'
    BY <1>1, <1>4, <2>1 DEF ScoringInv, BatchTypeOK, Totals, TotalsAddUp, Exported
  <2> QED
    BY <2>2, <2>3, <2>4, <2>5 DEF ScoringInv
<1>6. CASE answer # "score"
  <2>1. /\ tick'.scored = tick.scored /\ tick'.failed = tick.failed + 1 /\ tick'.size = tick.size
        /\ tick' \in [scored : SUBSET Scorable, failed : Nat, size : Nat] /\ metered' = metered
    BY <1>3, <1>6 DEF Batch!Outcome
  <2>2. BatchTypeOK'
    BY <1>1, <2>1 DEF ScoringInv, BatchTypeOK
  <2>3. Apart'
    BY <1>1, <2>1 DEF ScoringInv, Apart
  <2>4. BatchAddsUp'
    BY <1>1, <1>2, <1>3, <1>4, <2>1 DEF ScoringInv, BatchAddsUp
  <2>5. TotalsAddUp' /\ Exported'
    BY <1>1, <2>1 DEF ScoringInv, BatchTypeOK, Totals, TotalsAddUp, Exported
  <2> QED
    BY <2>2, <2>3, <2>4, <2>5 DEF ScoringInv
<1> QED
  BY <1>5, <1>6

\* With none open, the scored and the failed are all of the batch; the scored
\* are new to the table.
LEMMA SaveCounts ==
    ASSUME Batch!ScoringConstants, ScoringInv, Batch!Save
    PROVE  ScoringInv'
<1>1. /\ phase = "scoring" /\ phase' = "saved" /\ open = {} /\ open' = {}
      /\ UNCHANGED <<calls, tick, meters, metered>> /\ written' = written \cup tick.scored
  BY DEF Batch!Save
<1>2. /\ totals'.unscored = totals.unscored + tick.size
      /\ totals'.scored = totals.scored + Batch!Cardinality(tick.scored)
      /\ totals'.errors = totals.errors + tick.failed
  BY DEF Batch!Save
<1>3. /\ tick.scored \subseteq Scorable /\ tick.failed \in Nat /\ tick.size \in Nat
      /\ Batch!Cardinality(tick.scored) \in Nat /\ Batch!Cardinality({}) = 0
  BY SameSets, FiniteImages, FS_EmptySet DEF ScoringInv, BatchTypeOK
<1>4. /\ Batch!Cardinality(written) \in Nat
      /\ Batch!Cardinality(written \cup tick.scored) =
            Batch!Cardinality(written) + Batch!Cardinality(tick.scored)
  <2>1. written \cap tick.scored = {}
    BY <1>1 DEF ScoringInv, Apart
  <2>2. IsFiniteSet(written) /\ IsFiniteSet(tick.scored) /\ Batch!Cardinality(written) \in Nat
    BY <1>3, FiniteImages DEF ScoringInv, BatchTypeOK
  <2> QED
    <3>1. /\ Cardinality(written \cup tick.scored) =
                Cardinality(written) + Cardinality(tick.scored) - Cardinality({})
          /\ Cardinality({}) = 0
      BY <2>1, <2>2, FS_Union, FS_EmptySet
    <3> QED
      BY <1>3, <2>2, <3>1, SameSets
<1>5. tick.size = Batch!Cardinality(tick.scored) + tick.failed
  BY <1>1, <1>3 DEF ScoringInv, BatchAddsUp
<1>6. totals' \in Totals
  BY <1>3 DEF Batch!Save, ScoringInv, BatchTypeOK, Totals
<1>7. BatchTypeOK'
  BY <1>1, <1>3, <1>6 DEF ScoringInv, BatchTypeOK
<1>8. Apart' /\ BatchAddsUp'
  BY <1>1 DEF ScoringInv, Apart, BatchAddsUp
<1>9. TotalsAddUp'
  BY <1>1, <1>2, <1>3, <1>4, <1>5 DEF ScoringInv, BatchTypeOK, Totals, TotalsAddUp
<1>10. Exported'
  BY <1>1, <1>2, <1>3 DEF ScoringInv, BatchTypeOK, Totals, Exported
<1> QED
  BY <1>7, <1>8, <1>9, <1>10 DEF ScoringInv

\* The export catches up.
LEMMA EmitCounts ==
    ASSUME Batch!ScoringConstants, ScoringInv, Batch!Emit
    PROVE  ScoringInv'
<1>1. /\ phase = "saved" /\ phase' = "idle" /\ UNCHANGED <<open, calls, totals, written, metered>>
      /\ tick' = Batch!NoTick /\ open = {}
  BY DEF Batch!Emit, ScoringInv, Apart
<1>2. meters' = totals
  BY DEF Batch!Emit, Batch!Advanced, ScoringInv, BatchTypeOK, Totals, Exported
<1>3. BatchTypeOK'
  BY <1>1, <1>2 DEF ScoringInv, BatchTypeOK, Batch!NoTick
<1>4. Apart' /\ BatchAddsUp'
  BY <1>1 DEF ScoringInv, Apart, BatchAddsUp, Batch!NoTick
<1>5. TotalsAddUp' /\ Exported'
  BY <1>1, <1>2 DEF ScoringInv, BatchTypeOK, Totals, TotalsAddUp, Exported
<1> QED
  BY <1>3, <1>4, <1>5 DEF ScoringInv

\* A new process counts from nothing.
LEMMA RestartCounts ==
    ASSUME Batch!ScoringConstants, ScoringInv, Batch!Restart
    PROVE  ScoringInv'
<1>1. /\ phase' = "idle" /\ open' = {} /\ DOMAIN calls' = {} /\ tick' = Batch!NoTick
      /\ totals' = Batch!NoTotals /\ meters' = Batch!NoTotals /\ metered' = 0
  BY DEF Batch!Restart
<1>2. written' \subseteq Scorable
  BY DEF Batch!Restart, ScoringInv, BatchTypeOK
<1>3. Batch!Cardinality(written') \in Nat
  BY <1>2, FiniteImages
<1>4. BatchTypeOK'
  BY <1>1, <1>2 DEF BatchTypeOK, Totals, Batch!NoTotals, Batch!NoTick
<1>5. Apart' /\ BatchAddsUp'
  BY <1>1 DEF Apart, BatchAddsUp, Batch!NoTick
<1>6. TotalsAddUp' /\ Exported'
  BY <1>1, <1>3 DEF TotalsAddUp, Exported, Batch!NoTotals
<1> QED
  BY <1>4, <1>5, <1>6 DEF ScoringInv

\* Calls and retries change no count.
LEMMA CallsCountNothing ==
    ASSUME ScoringInv, UNCHANGED <<phase, open, tick, totals, meters, written, metered>>,
           DOMAIN calls' \subseteq open
    PROVE  ScoringInv'
BY DEF ScoringInv, BatchTypeOK, Apart, BatchAddsUp, TotalsAddUp, Exported

------------------------------------------------------------------------------
\* Between ticks everything is exported and every image counted once; what is
\* exported as scored is in the table, whatever fails and whenever the process
\* ends (tick.rs:51-55, metrics.rs:52-84, live_refine.rs:118-146).
THEOREM CountsAreRight ==
    ASSUME Batch!ScoringConstants
    PROVE  Batch!Spec => [](Batch!TotalsBalance /\ Batch!ScoredIsWritten)
<1>1. Batch!Init => ScoringInv
  BY InitScoring
<1>2. ScoringInv /\ [Batch!Next]_(Batch!vars) => ScoringInv'
  <2> SUFFICES ASSUME ScoringInv, [Batch!Next]_(Batch!vars) PROVE ScoringInv'
    OBVIOUS
  <2>1. CASE Batch!Take
    BY <2>1, TakeCounts
  <2>2. CASE Batch!Save
    BY <2>2, SaveCounts
  <2>3. CASE Batch!Emit
    BY <2>3, EmitCounts
  <2>4. CASE Batch!Restart
    BY <2>4, RestartCounts
  <2>5. ASSUME NEW i \in Scorable, Batch!Call(i) PROVE ScoringInv'
    <3>1. DOMAIN calls' = DOMAIN calls \cup {i} /\ i \in open /\ DOMAIN calls \subseteq open
      BY <2>5 DEF Batch!Call, ScoringInv, Apart
    <3> QED
      BY <2>5, <3>1, CallsCountNothing DEF Batch!Call
  <2>6. ASSUME NEW i \in Scorable, NEW answer \in Batch!Completion, Batch!Retry(i, answer)
        PROVE ScoringInv'
    <3>1. DOMAIN calls' = DOMAIN calls /\ DOMAIN calls \subseteq open
      BY <2>6 DEF Batch!Retry, ScoringInv, Apart
    <3> QED
      BY <2>6, <3>1, CallsCountNothing DEF Batch!Retry
  <2>7. ASSUME NEW i \in Scorable, NEW answer \in Batch!Completion, Batch!Outcome(i, answer)
        PROVE ScoringInv'
    BY <2>7, OutcomeCounts
  <2>8. CASE UNCHANGED Batch!vars
    <3>1. DOMAIN calls' \subseteq open
      BY <2>8 DEF Batch!vars, ScoringInv, Apart
    <3> QED
      BY <2>8, <3>1, CallsCountNothing DEF Batch!vars
  <2> QED
    BY <2>1, <2>2, <2>3, <2>4, <2>5, <2>6, <2>7, <2>8 DEF Batch!Next
<1>3. ScoringInv => Batch!TotalsBalance /\ Batch!ScoredIsWritten
  <2> SUFFICES ASSUME ScoringInv PROVE Batch!TotalsBalance /\ Batch!ScoredIsWritten
    OBVIOUS
  <2>1. Batch!TotalsBalance
    BY DEF ScoringInv, TotalsAddUp, Exported, Batch!TotalsBalance
  <2>2. written \subseteq Scorable /\ meters \in Totals /\ totals \in Totals
    BY DEF ScoringInv, BatchTypeOK
  <2>3. Batch!Cardinality(written) \in Nat
    BY <2>2, FiniteImages
  <2>4. Batch!ScoredIsWritten
    BY <2>2, <2>3 DEF ScoringInv, TotalsAddUp, Exported, Batch!ScoredIsWritten, Totals
  <2> QED
    BY <2>1, <2>4
<1> QED
  BY <1>1, <1>2, <1>3, PTL DEF Batch!Spec

-----------------------------------------------------------------------------
(* Prices.                                                                 *)

Quote == [id : Nat, model : Priced, price : Amounts]
Registry == [parses : BOOLEAN, labels : [Labels -> Nat], ids : SUBSET Nat, quotes : SUBSET Quote]

PricesTypeOK ==
    /\ file \in Registry /\ baked \in Registry
    /\ stamp \in Nat
    /\ fetched \subseteq Quote

OnceFetched == file.quotes \cup baked.quotes \cup quoted \subseteq fetched

\* No quote is of the future; those of now are of a snapshot in the file.
IdsPassed == \A q \in fetched : q.id <= stamp /\ (q.id = stamp => stamp \in file.ids)

OnePrice == \A p, q \in fetched : p.id = q.id /\ p.model = q.model => p.price = q.price

PricesInv == PricesTypeOK /\ OnceFetched /\ IdsPassed /\ OnePrice

------------------------------------------------------------------------------
LEMMA EmptyIsRegistry == Costs!Empty \in Registry /\ Costs!Empty.quotes = {}
BY DEF Costs!Empty, Registry, Costs!Unset

\* What insert adds are the new quotes.
LEMMA InsertedQuotes ==
    ASSUME NEW held \in Registry, NEW id \in Nat, NEW requested \in SUBSET Priced,
           NEW prices \in [requested -> Amounts], NEW label \in Labels
    PROVE  LET new == Costs!Insert(held, id, prices, label)
               added == {[id |-> id, model |-> m, price |-> prices[m]] : m \in requested}
           IN  /\ new \in Registry
               /\ new.quotes = held.quotes \cup added
               /\ id \in new.ids
               /\ added \subseteq Quote
<1> DEFINE new == Costs!Insert(held, id, prices, label)
           added == {[id |-> id, model |-> m, price |-> prices[m]] : m \in requested}
<1>1. DOMAIN prices = requested /\ added \subseteq Quote
  BY DEF Quote
<1>2. /\ new.parses = TRUE /\ new.labels = [held.labels EXCEPT ![label] = id]
      /\ new.ids = held.ids \cup {id} /\ new.quotes = held.quotes \cup added
  BY <1>1 DEF Costs!Insert
<1>3. /\ held.labels \in [Labels -> Nat] /\ held.ids \subseteq Nat
      /\ held.quotes \subseteq Quote
  BY DEF Registry
<1>4. new = [parses |-> new.parses, labels |-> new.labels, ids |-> new.ids, quotes |-> new.quotes]
  BY DEF Costs!Insert
<1>5. new.labels \in [Labels -> Nat] /\ new.ids \in SUBSET Nat /\ new.quotes \in SUBSET Quote
  BY <1>1, <1>2, <1>3
<1>6. new \in Registry
  BY <1>2, <1>4, <1>5 DEF Registry
<1> QED
  BY <1>1, <1>2, <1>6

\* A torn write leaves nothing that was not written.
LEMMA TornQuotes ==
    ASSUME NEW held \in Registry, NEW torn \in Costs!CutShort(held)
    PROVE  torn \in Registry /\ torn.quotes \subseteq held.quotes
<1>1. CASE torn = Costs!Empty
  BY <1>1, EmptyIsRegistry
<1>2. CASE torn = [held EXCEPT !.parses = FALSE]
  BY <1>2 DEF Registry
<1>3. CASE \E last \in held.ids, models \in SUBSET Priced \ {{}} :
              torn = Costs!CutAfter(held, last, models)
  <2>1. PICK last \in held.ids, models \in SUBSET Priced \ {{}} :
            torn = Costs!CutAfter(held, last, models)
    BY <1>3
  <2>2. /\ held.labels \in [Labels -> Nat] /\ held.ids \subseteq Nat
        /\ held.quotes \subseteq Quote
    BY DEF Registry
  <2>3. torn.quotes \subseteq held.quotes /\ torn.ids \subseteq held.ids
    BY <2>1 DEF Costs!CutAfter
  <2> QED
    BY <2>1, <2>2, <2>3 DEF Costs!CutAfter, Registry
<1> QED
  BY <1>1, <1>2, <1>3 DEF Costs!CutShort

\* An update adds quotes of one id that has none yet.
LEMMA UpdateKeepsPrices ==
    ASSUME Costs!PricesConstants, PricesInv, Costs!UpdatePrices
    PROVE  PricesInv'
<1>0. PICK requested \in SUBSET Priced, listed \in SUBSET Priced, label \in Labels :
        \E response \in [listed -> Amounts \cup {Costs!NoCost}] :
            LET new == Costs!Insert(file, stamp, Costs!ExtractPrices(response, requested), label)
            IN  /\ Costs!Extractable(response, requested)
                /\ Costs!Loads(file) /\ stamp \notin file.ids
                /\ fetched' = fetched \cup Costs!Snapshot(new, stamp)
                /\ \/ file' = new /\ UNCHANGED stamp
                   \/ stamp < MaxStamp /\ file' \in Costs!CutShort(new) /\ stamp' = stamp + 1
                /\ UNCHANGED <<baked, quoted, rows>>
  BY DEF Costs!UpdatePrices
<1>1. PICK response \in [listed -> Amounts \cup {Costs!NoCost}] :
        LET new == Costs!Insert(file, stamp, Costs!ExtractPrices(response, requested), label)
        IN  /\ Costs!Extractable(response, requested)
            /\ Costs!Loads(file) /\ stamp \notin file.ids
            /\ fetched' = fetched \cup Costs!Snapshot(new, stamp)
            /\ \/ file' = new /\ UNCHANGED stamp
               \/ stamp < MaxStamp /\ file' \in Costs!CutShort(new) /\ stamp' = stamp + 1
            /\ UNCHANGED <<baked, quoted, rows>>
  BY <1>0
<1> DEFINE prices == Costs!ExtractPrices(response, requested)
           new == Costs!Insert(file, stamp, prices, label)
           added == {[id |-> stamp, model |-> m, price |-> prices[m]] : m \in requested}
<1>2. prices \in [requested -> Amounts]
  BY <1>1 DEF Costs!Extractable, Costs!ExtractPrices
<1> HIDE DEF prices
<1>3. /\ file \in Registry /\ stamp \in Nat /\ fetched \subseteq Quote
      /\ file.quotes \subseteq fetched
      /\ baked \in Registry /\ baked.quotes \subseteq fetched /\ quoted \subseteq fetched
  BY DEF PricesInv, PricesTypeOK, OnceFetched
<1>4. /\ new \in Registry /\ new.quotes = file.quotes \cup added
      /\ stamp \in new.ids /\ added \subseteq Quote
  BY <1>2, <1>3, InsertedQuotes
<1> USE DEF prices
<1>5. \A q \in added : q.id = stamp
  OBVIOUS
<1>6. \A q \in fetched : q.id < stamp
  BY <1>1, <1>3 DEF PricesInv, IdsPassed, Quote
<1>7. fetched' = fetched \cup added
  <2>1. fetched' = fetched \cup Costs!Snapshot(new, stamp)
    BY <1>1
  <2>2. added \subseteq Costs!Snapshot(new, stamp)
        /\ Costs!Snapshot(new, stamp) \subseteq new.quotes
    BY <1>4, <1>5 DEF Costs!Snapshot
  <2> QED
    BY <1>3, <1>4, <2>1, <2>2
<1>8. /\ file' \in Registry /\ file'.quotes \subseteq new.quotes
      /\ stamp' \in Nat /\ UNCHANGED <<baked, quoted>>
      /\ (stamp' = stamp /\ stamp \in file'.ids) \/ stamp' = stamp + 1
  BY <1>1, <1>3, <1>4, TornQuotes
<1> HIDE DEF new
<1>9. PricesTypeOK'
  BY <1>3, <1>4, <1>7, <1>8 DEF PricesTypeOK
<1>10. OnceFetched'
  BY <1>3, <1>4, <1>7, <1>8 DEF OnceFetched
<1>11. IdsPassed'
  BY <1>3, <1>5, <1>6, <1>7, <1>8 DEF IdsPassed, Quote
<1>12. OnePrice'
  <2>1. \A p, q \in added : p.model = q.model => p.price = q.price
    OBVIOUS
  <2>2. \A p \in fetched, q \in added : p.id # q.id
    BY <1>3, <1>5, <1>6 DEF Quote
  <2>3. \A p, q \in fetched : p.id = q.id /\ p.model = q.model => p.price = q.price
    BY DEF PricesInv, OnePrice
  <2> HIDE DEF added
  <2> QED
    BY <1>7, <2>1, <2>2, <2>3 DEF OnePrice
<1> QED
  BY <1>9, <1>10, <1>11, <1>12 DEF PricesInv

\* What a tool reports comes from its copy of the held.
LEMMA SampleKeepsPrices ==
    ASSUME PricesInv, Costs!SampleCosts
    PROVE  PricesInv'
<1>1. /\ quoted' \subseteq quoted \cup baked.quotes
      /\ UNCHANGED <<file, baked, stamp, fetched>>
  BY DEF Costs!SampleCosts, Costs!Snapshot
<1> QED
  BY <1>1 DEF PricesInv, PricesTypeOK, OnceFetched, IdsPassed, OnePrice

------------------------------------------------------------------------------
\* Costs reported under one snapshot id were computed by the same prices,
\* whatever was updated, built and torn in between (pricing.rs:257-275).
THEOREM PricesAreFixed ==
    ASSUME Costs!PricesConstants
    PROVE  Costs!Spec => []Costs!PricesNeverChange
<1>1. Costs!Init => PricesInv
  BY EmptyIsRegistry DEF Costs!Init, PricesInv, PricesTypeOK, OnceFetched, IdsPassed, OnePrice
<1>2. PricesInv /\ [Costs!Next]_(Costs!vars) => PricesInv'
  <2> SUFFICES ASSUME PricesInv, [Costs!Next]_(Costs!vars) PROVE PricesInv'
    OBVIOUS
  <2>1. CASE Costs!UpdatePrices
    BY <2>1, UpdateKeepsPrices
  <2>2. CASE Costs!Tick
    <3>1. stamp' = stamp + 1 /\ UNCHANGED <<file, baked, fetched, quoted>>
      BY <2>2 DEF Costs!Tick
    <3>2. \A q \in fetched : q.id <= stamp /\ q.id \in Nat /\ stamp \in Nat
      BY DEF PricesInv, PricesTypeOK, IdsPassed, Quote
    <3>3. IdsPassed'
      BY <3>1, <3>2 DEF IdsPassed
    <3> QED
      BY <3>1, <3>3 DEF PricesInv, PricesTypeOK, OnceFetched, OnePrice
  <2>3. CASE Costs!Build
    BY <2>3 DEF Costs!Build, PricesInv, PricesTypeOK, OnceFetched, IdsPassed, OnePrice
  <2>4. CASE Costs!SampleCosts
    BY <2>4, SampleKeepsPrices
  <2>5. CASE UNCHANGED Costs!vars
    BY <2>5 DEF Costs!vars, PricesInv, PricesTypeOK, OnceFetched, IdsPassed, OnePrice
  <2> QED
    BY <2>1, <2>2, <2>3, <2>4, <2>5 DEF Costs!Next
<1>3. PricesInv => Costs!PricesNeverChange
  BY DEF PricesInv, OnceFetched, OnePrice, Costs!PricesNeverChange
<1> QED
  BY <1>1, <1>2, <1>3, PTL DEF Costs!Spec
==============================================================================
