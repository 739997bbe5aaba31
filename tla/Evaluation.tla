----------------------------- MODULE Evaluation -----------------------------
(***************************************************************************)
(* crates/eval and the pure half of skeet-refine's training: confusion     *)
(* counts and the metrics derived from them, the operating point pinned at *)
(* a precision floor, the acceptance gate, stratified splits and samples,  *)
(* and what a run costs.  Ratios (f64 in the code) are exact fractions;    *)
(* the one place where rounding decides, the f32 test share handed to      *)
(* smartcore, keeps its 24 bits.  Scores and thresholds are naturals.      *)
(***************************************************************************)
EXTENDS Integers, Sequences, SequencesExt, FiniteSets, FiniteSetsExt

----------------------------------------------------------------------------
(* Fractions.  A zero denominator is the code's None.                      *)

Undefined == [num |-> 0, den |-> 0]
Defined(q) == q.den # 0
AtLeast(q, r) == q.num * r.den >= r.num * q.den
Exceeds(q, r) == q.num * r.den > r.num * q.den

Ratio(hits, misses) ==
    IF hits + misses = 0 THEN Undefined ELSE [num |-> hits, den |-> hits + misses]

----------------------------------------------------------------------------
(* Confusion counts of labelled scores at a threshold.                     *)

Record(shouldBePositive, predictedPositive) ==
    CASE shouldBePositive /\ predictedPositive   -> "true_pos"
      [] ~shouldBePositive /\ predictedPositive  -> "false_pos"
      [] ~shouldBePositive /\ ~predictedPositive -> "true_neg"
      [] shouldBePositive /\ ~predictedPositive  -> "false_neg"

ConfusionAt(labelled, threshold) ==
    [cell \in {"true_pos", "false_pos", "true_neg", "false_neg"} |->
        Cardinality({i \in DOMAIN labelled :
            Record(labelled[i].is_positive, labelled[i].score >= threshold) = cell})]

Precision(matrix) == Ratio(matrix.true_pos, matrix.false_pos)
Recall(matrix) == Ratio(matrix.true_pos, matrix.false_neg)
Total(matrix) == matrix.true_pos + matrix.false_pos + matrix.true_neg + matrix.false_neg

Harmonic(p, r) ==
    IF p.num = 0 /\ r.num = 0 THEN [num |-> 0, den |-> 1]
    ELSE [num |-> 2 * p.num * r.num, den |-> p.num * r.den + r.num * p.den]

F1(matrix) ==
    IF Defined(Precision(matrix)) /\ Defined(Recall(matrix))
    THEN Harmonic(Precision(matrix), Recall(matrix)) ELSE Undefined

----------------------------------------------------------------------------
(* The operating point with the highest recall whose precision meets a     *)
(* floor.  The candidates run from the highest score down and max_by_key   *)
(* keeps the last of equals, so the lowest threshold wins a tie.           *)

OperatingPoints(labelled) == {labelled[i].score : i \in DOMAIN labelled}

Qualifying(labelled, target) ==
    {t \in OperatingPoints(labelled) :
        LET m == ConfusionAt(labelled, t)
        IN  /\ Defined(Precision(m))
            /\ AtLeast(Precision(m), target)
            /\ Defined(Recall(m))}

PinAtPrecision(labelled, target) ==
    CHOOSE t \in Qualifying(labelled, target) :
        \A u \in Qualifying(labelled, target) :
            LET rt == Recall(ConfusionAt(labelled, t))
                ru == Recall(ConfusionAt(labelled, u))
            IN  Exceeds(rt, ru) \/ (AtLeast(rt, ru) /\ t <= u)

\* The gate: the recall at the pinned point may fall short of the baseline's
\* by at most tolerance, a fraction (the code's 0.01).
EvaluateGate(labelled, baseline, tolerance) ==
    /\ Qualifying(labelled, baseline.precision) # {}
    /\ LET r == Recall(ConfusionAt(labelled, PinAtPrecision(labelled, baseline.precision)))
           b == baseline.recall
       IN  (r.num * b.den - b.num * r.den) * tolerance.den
               >= 0 - tolerance.num * r.den * b.den

----------------------------------------------------------------------------
(* Money.  Amounts are exact (Decimal in the code).                        *)

\* Zero stands for the error BudgetTooSmall.
PerIterationSampleSize(perImageCost, testCount, budget, maxIterations) ==
    LET reserved == perImageCost * testCount
        residual == IF budget > reserved THEN budget - reserved ELSE 0
    IN  residual \div (maxIterations * perImageCost)

----------------------------------------------------------------------------
(* f32 as smartcore's train_test_split meets it: the share quota / n is    *)
(* rounded to 24 bits, multiplied by n, rounded again and truncated.       *)

RoundHalfEven(a, b) ==
    LET q == a \div b
        r == a % b
    IN  IF 2 * r > b \/ (2 * r = b /\ q % 2 = 1) THEN q + 1 ELSE q

\* quota / n for 0 < quota < n: a 24-bit mantissa over 2^exponent.
F32Share(quota, n) ==
    LET k == CHOOSE k \in 1..24 : quota * 2^k >= n /\ quota * 2^(k - 1) < n
        bit(d, i) == IF 2 * d.rest >= n
                     THEN [mantissa |-> 2 * d.mantissa + 1, rest |-> 2 * d.rest - n]
                     ELSE [mantissa |-> 2 * d.mantissa, rest |-> 2 * d.rest]
        long == FoldLeft(bit, [mantissa |-> 1, rest |-> quota * 2^k - n], [i \in 1..23 |-> i])
    IN  [mantissa |-> RoundHalfEven(long.mantissa * n + long.rest, n), exponent |-> 23 + k]

\* The truncated product n * share; n < 64 keeps every product below 2^30.
F32Count(n, share) ==
    LET product == n * share.mantissa
        excess  == CHOOSE s \in 0..7 : product < 2^(24 + s) /\ (s = 0 \/ product >= 2^(23 + s))
    IN  (RoundHalfEven(product, 2^excess) * 2^excess) \div 2^share.exponent

\* What is rounded away never adds an image: a count stays within the quota
\* its share was made from.
SharesTruncate(max) ==
    \A n \in 1 .. max : \A quota \in 1 .. n - 1 : F32Count(n, F32Share(quota, n)) \in 0 .. quota

----------------------------------------------------------------------------
(* Stratified splits and samples.  The shuffle is driven by a seed; every  *)
(* outcome it can have is in the set.  items maps an image to its band.    *)

Group(items, band) == {id \in DOMAIN items : items[id] = band}

\* 1.0 - train_ratio in f32 for a ratio num / den of at least one half.
TestShare(ratio) ==
    [mantissa |-> 2^24 - F32Share(ratio.num, ratio.den).mantissa, exponent |-> 24]

\* The test sides a band may get: empty if the band is too small for one.
BandTests(group, ratio) ==
    kSubset(F32Count(Cardinality(group), TestShare(ratio)), group)

\* The quota of a band: proportional, rounded half up, at least one, at most all.
Quota(n, sampleSize, total) ==
    Min({n, Max({1, (2 * sampleSize * n + total) \div (2 * total)})})

\* How many images of a band of n a quota yields; zero images with a quota
\* above zero is smartcore's panic.
SampleCount(n, quota) == IF quota = n THEN n ELSE F32Count(n, F32Share(quota, n))

SampleBand(group, sampleSize, total) ==
    IF group = {} THEN {{}}
    ELSE LET n == Cardinality(group)
         IN  kSubset(SampleCount(n, Quota(n, sampleSize, total)), group)

SamplePanics(items, sampleSize, bands) ==
    \E b \in bands : LET n == Cardinality(Group(items, b)) IN
        n > 0 /\ SampleCount(n, Quota(n, sampleSize, Cardinality(DOMAIN items))) = 0

StratifiedSample(items, sampleSize, bands) ==
    IF DOMAIN items = {} \/ sampleSize = 0 THEN {{}}
    ELSE {UNION {pick[b] : b \in bands} : pick \in
            {p \in [bands -> SUBSET DOMAIN items] : \A b \in bands :
                p[b] \in SampleBand(Group(items, b), sampleSize, Cardinality(DOMAIN items))}}

StratifiedSplit(items, ratio, bands) ==
    {[train |-> DOMAIN items \ test, test |-> test] : test \in
        {UNION {pick[b] : b \in bands} : pick \in
            {p \in [bands -> SUBSET DOMAIN items] : \A b \in bands :
                p[b] \in BandTests(Group(items, b), ratio)}}}
=============================================================================
