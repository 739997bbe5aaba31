-------------------------------- MODULE Ranking --------------------------------
(***************************************************************************)
(* Which posts a published list shows, and in which order: bands, scores   *)
(* calibrated by the threshold of the model that gave them, visibility and *)
(* the three orders (shared/band.rs, skeet-publish's effective_band.rs,    *)
(* visibility.rs, order.rs, publisher.rs).                                 *)
(*                                                                         *)
(* Scores and thresholds are integers out of Scale, and a normalised score *)
(* is a fraction, so that nothing is rounded.                              *)
(***************************************************************************)
EXTENDS Integers, Sequences, SequencesExt, FiniteSets, FiniteSetsExt

CONSTANTS
    Scale,      \* the score 1.0
    Threshold,  \* the decision thresholds of the registered model versions
    None

ASSUME RankingConstants ==
    /\ Scale \in Nat \ {0} /\ None \notin Int \cup [num : Int, den : Int]
    /\ \A v \in DOMAIN Threshold : Threshold[v] \in 0 .. Scale

Low == 0
MediumLow == 1
MediumHigh == 2
HighQuality == 3
Band == {Low, MediumLow, MediumHigh, HighQuality}

IsVisibleInFeed(band) == band \in {MediumHigh, HighQuality}

\* [0, t] is stretched onto [0, 1/2], [t, 1] onto [1/2, 1].
Normalize(x, t) ==
    IF x > t THEN [num |-> x + Scale - 2 * t, den |-> 2 * (Scale - t)]
    ELSE IF t = 0 THEN [num |-> 1, den |-> 2]
    ELSE [num |-> x, den |-> 2 * t]

FromNormalized(n) ==
    IF 4 * n.num < n.den THEN Low
    ELSE IF 2 * n.num < n.den THEN MediumLow
    ELSE IF 4 * n.num < 3 * n.den THEN MediumHigh
    ELSE HighQuality

----------------------------------------------------------------------------
(* An entry is an image with its post, times and score; manual bands are    *)
(* functions with None where there is no appraisal.                        *)

NormalizedScore(e) ==
    IF e.model \in DOMAIN Threshold THEN Normalize(e.score, Threshold[e.model]) ELSE None

ImageBand(e, manual) ==
    IF manual # None THEN manual
    ELSE IF NormalizedScore(e) = None THEN MediumLow
    ELSE FromNormalized(NormalizedScore(e))

\* The lowest of a post's own band and those of its images.
SkeetBand(manual, bands) ==
    IF bands = {} THEN None ELSE Min(bands \cup ({manual} \ {None}))

\* A post is visible by the lowest of all its images.
VisibleSkeets(entries, imageManual, skeetManual) ==
    LET of(s) == {i \in DOMAIN entries : entries[i].skeet = s}
    IN  {s \in {entries[i].skeet : i \in DOMAIN entries} :
            IsVisibleInFeed(SkeetBand(skeetManual[s],
                {ImageBand(entries[i], imageManual[entries[i].image]) : i \in of(s)}))}

\* Entries come with the best raw score first, and equal ones as they are read.
Leads(entries, k, l) ==
    \/ entries[k].score > entries[l].score
    \/ entries[k].score = entries[l].score /\ k < l

\* The first entry of each visible post.
VisibleEntries(entries, imageManual, skeetManual) ==
    {k \in DOMAIN entries :
        /\ entries[k].skeet \in VisibleSkeets(entries, imageManual, skeetManual)
        /\ \A l \in DOMAIN entries \ {k} :
            entries[l].skeet = entries[k].skeet => Leads(entries, k, l)}

\* Faulty: a list is ordered by what the model says.
AutomaticBand(e, imageManual, skeetManual) == SkeetBand(skeetManual[e.skeet], {ImageBand(e, None)})

RankBand(e, imageManual, skeetManual) ==
    SkeetBand(skeetManual[e.skeet], {ImageBand(e, imageManual[e.image])})

Above(m, n) == m # None /\ (n = None \/ m.num * n.den > n.num * m.den)

\* The better band, the newer post and the higher score come first, as far as
\* the order asks for them; then the ids.
Precedes(order, e, f, imageManual, skeetManual) ==
    LET criteria == CASE order = "recency" -> <<"time">>
                      [] order = "quality" -> <<"band", "score">>
                      [] order = "quality,recency" -> <<"band", "time", "score">>
        band(x) == RankBand(x, imageManual, skeetManual)
        wins(c, x, y) == CASE c = "band"  -> band(x) > band(y)
                           [] c = "time"  -> x.original > y.original
                           [] c = "score" -> Above(NormalizedScore(x), NormalizedScore(y))
        ties(n) == \A k \in 1 .. n : ~wins(criteria[k], e, f) /\ ~wins(criteria[k], f, e)
    IN  \/ \E k \in DOMAIN criteria : ties(k - 1) /\ wins(criteria[k], e, f)
        \/ /\ ties(Len(criteria))
           /\ e.image < f.image \/ (e.image = f.image /\ e.skeet < f.skeet)

\* One list: what is visible, in the window, in order (of which there is one).
\* All images have a URL: the resolver knows those of the current id format.
PublishedForSpec(order, cutoff, entries, imageManual, skeetManual) ==
    LET visible == {entries[k] : k \in VisibleEntries(entries, imageManual, skeetManual)}
        before(e, f) == Precedes(order, e, f, imageManual, skeetManual)
    IN  {list \in SetToSeqs({e \in visible : e.original >= cutoff}) :
            \A m, n \in DOMAIN list : m < n => before(list[m], list[n])}
================================================================================
