----------------------------- MODULE AppraiseProofs -----------------------------
(***************************************************************************)
(* What the ranking, the curation and the admin site promise, for every    *)
(* value of the constants.  Of the ranking (effective_band.rs): the        *)
(* calibration of scores, the bands of a post and the one list there is in *)
(* an order; numbers are exact here, the code rounds to f32.  Of the       *)
(* curation: the walk through the admin pages, the deletions a publication *)
(* sees, the agreement of the home page with the list.  Of the site: who   *)
(* is served, where a sign-in lands, and which feed is shown.              *)
(***************************************************************************)
EXTENDS MCAppraise, FiniteSetTheorems, WellFoundedInduction, TLAPS

-----------------------------------------------------------------------------
(* Scores and bands.                                                       *)

Mark == 0 .. Scale

\* A normalised score is a fraction between 0 and 1.
LEMMA NormalizedIsFraction ==
  ASSUME NEW x \in Mark, NEW t \in Mark
  PROVE  /\ Normalize(x, t) \in [num : Nat, den : Nat \ {0}]
         /\ Normalize(x, t).num <= Normalize(x, t).den
<1>1. CASE x > t
  BY <1>1, RankingConstants DEF Normalize, Mark
<1>2. CASE x <= t /\ t = 0
  BY <1>2, RankingConstants DEF Normalize, Mark
<1>3. CASE x <= t /\ t # 0
  BY <1>3, RankingConstants DEF Normalize, Mark
<1> QED
  BY <1>1, <1>2, <1>3, RankingConstants DEF Mark

\* An image is in a band that shows in the feed if and only if its score
\* reaches the threshold of its model (effective_band.rs:10).
THEOREM VisibleFromThreshold ==
  ASSUME NEW x \in Mark, NEW t \in Mark
  PROVE  IsVisibleInFeed(FromNormalized(Normalize(x, t))) <=> x >= t
<1> DEFINE n == Normalize(x, t)
<1>1. n.num \in Nat /\ n.den \in Nat
  BY NormalizedIsFraction
<1>2. 2 * n.num >= n.den <=> x >= t
  <2>1. CASE x > t
    BY <2>1, RankingConstants DEF Normalize, Mark
  <2>2. CASE x <= t /\ t = 0
    BY <2>2, RankingConstants DEF Normalize, Mark
  <2>3. CASE x <= t /\ t # 0
    BY <2>3, RankingConstants DEF Normalize, Mark
  <2> QED
    BY <2>1, <2>2, <2>3, RankingConstants DEF Mark
<1> HIDE DEF n
<1>3. IsVisibleInFeed(FromNormalized(n)) <=> 2 * n.num >= n.den
  BY <1>1 DEF IsVisibleInFeed, FromNormalized, Low, MediumLow, MediumHigh, HighQuality
<1> QED
  BY <1>2, <1>3 DEF n

\* Of two scores of one model the higher is never ranked below the other
\* (effective_band.rs:9, "monotone in score").
THEOREM CalibrationIsMonotone ==
  ASSUME NEW t \in Mark, NEW x \in Mark, NEW y \in Mark, x <= y
  PROVE  ~ Above(Normalize(x, t), Normalize(y, t))
<1> DEFINE m == Normalize(x, t)
           n == Normalize(y, t)
<1>1. /\ m.num \in Nat /\ m.den \in Nat \ {0}
      /\ n.num \in Nat /\ n.den \in Nat \ {0}
      /\ n # None
  BY NormalizedIsFraction, RankingConstants
<1>2. CASE 2 * m.num <= m.den /\ n.den <= 2 * n.num
  <2>1. m.num * n.den <= n.num * m.den
    <3> HIDE DEF m, n
    <3>1. (2 * m.num) * n.den <= m.den * n.den
      BY <1>1, <1>2
    <3>2. m.den * n.den <= m.den * (2 * n.num)
      BY <1>1, <1>2
    <3> QED
      BY <1>1, <3>1, <3>2
  <2> QED
    BY <1>1, <2>1 DEF Above
<1>3. CASE x <= t /\ y <= t /\ t # 0
  <2>1. m = [num |-> x, den |-> 2 * t] /\ n = [num |-> y, den |-> 2 * t]
    BY <1>3, RankingConstants DEF Normalize, Mark
  <2>2. x * (2 * t) <= y * (2 * t)
    BY <1>3, RankingConstants DEF Mark
  <2>3. m.num * n.den <= n.num * m.den
    BY <2>1, <2>2
  <2> HIDE DEF m, n
  <2>4. ~ Above(m, n)
    BY <1>1, <2>3 DEF Above
  <2> QED
    BY <2>4 DEF m, n
<1>4. CASE x > t /\ y > t
  <2> DEFINE d == 2 * (Scale - t)
  <2>1. m = [num |-> x + Scale - 2 * t, den |-> d] /\ n = [num |-> y + Scale - 2 * t, den |-> d]
    BY <1>4, RankingConstants DEF Normalize, Mark
  <2>2. d \in Nat /\ m.num <= n.num /\ m.num \in Nat /\ n.num \in Nat
    BY <1>1, <1>4, <2>1, RankingConstants DEF Mark
  <2>3. m.num * d <= n.num * d
    <3> HIDE DEF d, m, n
    <3> QED BY <2>2
  <2>4. m.den = d /\ n.den = d
    BY <2>1
  <2>5. m.num * n.den <= n.num * m.den
    BY <2>3, <2>4
  <2> HIDE DEF m, n
  <2>6. ~ Above(m, n)
    BY <1>1, <2>5 DEF Above
  <2> QED
    BY <2>6 DEF m, n
<1>5. x <= t => 2 * m.num <= m.den
  BY RankingConstants DEF Normalize, Mark
<1>6. y >= t => n.den <= 2 * n.num
  BY RankingConstants DEF Normalize, Mark
<1> QED
  BY <1>2, <1>3, <1>4, <1>5, <1>6, RankingConstants DEF Mark

\* The lowest of some bands is one of them.
LEMMA MinOfBands ==
  ASSUME NEW S \in SUBSET Band, S # {}
  PROVE  Min(S) \in S /\ \A b \in S : Min(S) <= b
<1>1. \E x \in S : \A y \in S : x <= y
  <2>1. CASE 0 \in S
    BY <2>1 DEF Band, Low, MediumLow, MediumHigh, HighQuality
  <2>2. CASE 0 \notin S /\ 1 \in S
    BY <2>2 DEF Band, Low, MediumLow, MediumHigh, HighQuality
  <2>3. CASE 0 \notin S /\ 1 \notin S /\ 2 \in S
    BY <2>3 DEF Band, Low, MediumLow, MediumHigh, HighQuality
  <2>4. CASE S = {3}
    BY <2>4
  <2> QED
    BY <2>1, <2>2, <2>3, <2>4 DEF Band, Low, MediumLow, MediumHigh, HighQuality
<1> QED
  BY <1>1 DEF Min

\* A post shows if and only if it has images, none of them is in a band that
\* does not show, and nobody has put the post itself into such a band
\* (effective_band.rs:75-82, visibility.rs).
THEOREM PostIsAsItsWorstImage ==
  ASSUME NEW bands \in SUBSET Band, NEW manual \in Band \cup {None}
  PROVE  IsVisibleInFeed(SkeetBand(manual, bands)) <=>
            /\ bands # {}
            /\ \A b \in bands : IsVisibleInFeed(b)
            /\ manual # None => IsVisibleInFeed(manual)
<1> DEFINE all == bands \cup ({manual} \ {None})
<1>1. CASE bands = {}
  BY <1>1, RankingConstants DEF SkeetBand, IsVisibleInFeed, MediumHigh, HighQuality
<1>2. CASE bands # {}
  <2>1. all \in SUBSET Band /\ all # {}
    BY <1>2
  <2>2. Min(all) \in all /\ \A b \in all : Min(all) <= b
    BY <2>1, MinOfBands
  <2>3. SkeetBand(manual, bands) = Min(all)
    BY <1>2 DEF SkeetBand
  <2>4. \A b \in Band : IsVisibleInFeed(b) <=> b >= 2
    BY DEF IsVisibleInFeed, Band, Low, MediumLow, MediumHigh, HighQuality
  <2>5. IsVisibleInFeed(Min(all)) <=> \A b \in all : IsVisibleInFeed(b)
    <3> HIDE DEF all
    <3>1. Band \subseteq Int
      BY DEF Band, Low, MediumLow, MediumHigh, HighQuality
    <3>2. \A b \in all : b \in Int /\ (IsVisibleInFeed(b) <=> b >= 2)
      BY <2>1, <2>4, <3>1
    <3>3. \A b \in all : Min(all) >= 2 => b >= 2
      BY <2>2, <3>2
    <3> QED
      BY <2>2, <3>2, <3>3
  <2>7. \A b : b \in all <=> b \in bands \/ (b = manual /\ manual # None)
    OBVIOUS
  <2>8. IsVisibleInFeed(SkeetBand(manual, bands)) <=> \A b \in all : IsVisibleInFeed(b)
    BY <2>3, <2>5
  <2>9. (\A b \in all : IsVisibleInFeed(b)) <=>
          (\A b \in bands : IsVisibleInFeed(b)) /\ (manual # None => IsVisibleInFeed(manual))
    <3> HIDE DEF all
    <3> QED BY <2>7 DEF IsVisibleInFeed
  <2> QED
    BY <1>2, <2>8, <2>9, Zenon
<1> QED
  BY <1>1, <1>2

-----------------------------------------------------------------------------
(* Numbers.                                                                *)

\* A nonempty set of naturals has a least element.
LEMMA LeastOf ==
    ASSUME NEW S \in SUBSET Nat, S # {}
    PROVE  Min(S) \in S /\ \A j \in S : Min(S) <= j
<1> DEFINE R == OpToRel(<, Nat)
<1>1. IsWellFoundedOn(R, Nat)
  BY NatLessThanWellFounded
<1>2. PICK i \in S : \A j \in S : <<j, i>> \notin R
  BY <1>1, WFMin
<1>3. R = {ss \in Nat \X Nat : ss[1] < ss[2]}
  BY Zenon DEF OpToRel
<1> HIDE DEF R
<1>4. ASSUME NEW j \in S PROVE i <= j
  <2>1. <<j, i>> \notin R /\ i \in Nat /\ j \in Nat
    BY <1>2
  <2>2. ~(j < i)
    BY <1>3, <2>1
  <2>3. QED
    BY <2>1, <2>2
<1>5. \E x \in S : \A y \in S : x <= y
  BY <1>4
<1>6. QED
  BY <1>5 DEF Min

-----------------------------------------------------------------------------
(* The table of images: rows of distinct images, which only grows.         *)

Keyed(rows) ==
    /\ rows \in Seq(Row)
    /\ \A k, l \in DOMAIN rows : rows[k].image = rows[l].image => k = l

ImagesInv == now \in Nat /\ Keyed(images)

LEMMA RowType ==
    ASSUME ImagesInv, NEW k \in DOMAIN images
    PROVE  /\ images[k] \in Row /\ images[k].image \in Image /\ images[k].skeet \in Skeet
           /\ images[k].discovered \in Nat /\ images[k].original \in Nat
<1>1. images[k] \in Row
  BY DEF ImagesInv, Keyed
<1>2. QED
  BY <1>1 DEF Row

\* What a step may do to the table.
Grows ==
    /\ Keyed(images') /\ DOMAIN images \subseteq DOMAIN images'
    /\ \A k \in DOMAIN images : images'[k] = images[k]
    /\ \A k \in DOMAIN images' \ DOMAIN images : images'[k].image \notin Stored

LEMMA SaveGrows ==
    ASSUME ImagesInv, NEW i \in Image, NEW s \in Skeet, NEW stamp \in 0 .. now, Save(i, s, stamp)
    PROVE  Grows
<1> DEFINE row == [image |-> i, skeet |-> s, discovered |-> stamp, original |-> now]
<1>1. images' = Append(images, row) /\ i \notin Stored /\ row \in Row
  BY DEF Save, Row, ImagesInv
<1>2. images \in Seq(Row)
  BY DEF ImagesInv, Keyed
<1>3. images' \in Seq(Row) /\ DOMAIN images' = DOMAIN images \cup {Len(images) + 1}
      /\ Len(images) + 1 \notin DOMAIN images
      /\ images'[Len(images) + 1] = row /\ \A k \in DOMAIN images : images'[k] = images[k]
  BY <1>1, <1>2
<1>4. \A k \in DOMAIN images : images[k].image # i
  BY <1>1 DEF Stored
<1>5. row.image = i
  OBVIOUS
<1> HIDE DEF row
<1>6. \A k, l \in DOMAIN images' : images'[k].image = images'[l].image => k = l
  BY <1>3, <1>4, <1>5 DEF ImagesInv, Keyed
<1>7. QED
  BY <1>1, <1>3, <1>5, <1>6 DEF Grows, Keyed

\* Only Save touches the table, and only Tick the clock.
LEMMA ImagesStep ==
    ASSUME ImagesInv, [Next]_vars
    PROVE  Grows /\ ImagesInv' /\ now' \in {now, now + 1}
<1>1. CASE UNCHANGED images /\ now' \in {now, now + 1}
  BY <1>1 DEF ImagesInv, Grows, Keyed
<1>2. CASE \E i \in Image, s \in Skeet, stamp \in 0 .. now : Save(i, s, stamp)
  <2>1. Grows
    BY <1>2, SaveGrows
  <2>2. now' = now
    BY <1>2 DEF Save
  <2>3. QED
    BY <2>1, <2>2 DEF ImagesInv, Grows
<1>3. CASE UNCHANGED vars
  BY <1>1, <1>3 DEF vars, store
<1>4. CASE Tick \/ Begin \/ Write \/ Lose \/ Restart \/ OpenAdmin \/ NextPage
  BY <1>1, <1>4 DEF Tick, Begin, Write, Lose, Restart, OpenAdmin, NextPage, store
<1>5. CASE Appraise
  BY <1>1, <1>5 DEF Appraise, AppraiseImage, AppraiseSkeet
<1>6. CASE \/ \E i \in Image, x \in 0 .. Scale, model \in Models : Score(i, x, model)
           \/ \E t \in Target : Delete(t)
           \/ \E phase \in {"skeets", "images"} : Probe(phase) \/ Told(phase)
  BY <1>1, <1>6 DEF Score, Delete, Probe, Told, store
<1>7. QED
  BY <1>2, <1>3, <1>4, <1>5, <1>6 DEF Next

LEMMA ImagesInit == Init => ImagesInv
<1>1. \A scene \in Scene : Keyed(scene.images)
  BY CurationConstants DEF Keyed
<1>2. QED
  BY <1>1 DEF Init, ImagesInv

LEMMA ImagesInvariant == Spec => []ImagesInv
BY ImagesInit, ImagesStep, PTL DEF Spec

-----------------------------------------------------------------------------
(* The walk through the admin pages.                                       *)

On(page) == {row.image : row \in page}
Shown == UNION {On(walk.pages[n]) : n \in DOMAIN walk.pages}

\* An image that has been shown or may be missing.
Settled(k) == images[k].image \in Shown \/ images[k].discovered \in walk.edges

WalkType ==
    \E T : walk \in [phase : {"open", "done"}, before : Nat \cup {None}, pages : Seq(T),
                     edges : SUBSET Nat, start : SUBSET Image]

\* The pages so far hold rows down to the cursor, and all of them, but for ties,
\* that were there at the start.
Covered ==
    /\ walk.start \subseteq Stored
    /\ \A n \in DOMAIN walk.pages : On(walk.pages[n]) \subseteq Stored
    /\ \A p, q \in DOMAIN walk.pages : p # q => On(walk.pages[p]) \cap On(walk.pages[q]) = {}
    /\ walk.phase = "open" /\ walk.before = None => walk.pages = <<>>
    /\ walk.phase = "open" /\ walk.before # None => \A k \in DOMAIN images :
        /\ images[k].image \in Shown => images[k].discovered >= walk.before
        /\ images[k].image \in walk.start => images[k].discovered < walk.before \/ Settled(k)
    /\ walk.phase = "done" => \A k \in DOMAIN images : images[k].image \in walk.start => Settled(k)

WalkInv == walk # NoWalk => WalkType /\ Covered

\* The table may grow while the walk rests.
LEMMA WalkRests ==
    ASSUME ImagesInv, WalkInv, Grows, walk' = walk
    PROVE  WalkInv'
<1> SUFFICES ASSUME walk # NoWalk PROVE WalkType' /\ Covered'
  BY DEF WalkInv
<1>1. WalkType /\ Covered
  BY DEF WalkInv
<1>2. Stored \subseteq Stored'
  BY DEF Stored, Grows
<1>3. Shown' = Shown
  BY DEF Shown, On
<1>4. Shown \subseteq Stored
  BY <1>1 DEF Shown, Covered
<1>5. \A k \in DOMAIN images' :
        images'[k].image \in Stored => k \in DOMAIN images /\ images'[k] = images[k]
  BY DEF Grows
<1>6. \A k \in DOMAIN images : Settled(k) => Settled(k)'
  BY <1>3 DEF Settled, Grows
<1>7. walk'.start \subseteq Stored' /\ \A n \in DOMAIN walk'.pages : On(walk'.pages[n]) \subseteq Stored'
  BY <1>1, <1>2 DEF Covered, On
<1>8. \A p, q \in DOMAIN walk'.pages : p # q => On(walk'.pages[p]) \cap On(walk'.pages[q]) = {}
  BY <1>1 DEF Covered, On
<1>9. ASSUME NEW k \in DOMAIN images',
             (walk.phase = "open" /\ walk.before # None) \/ walk.phase = "done",
             images'[k].image \in Shown \cup walk.start
      PROVE  /\ walk.phase = "open" /\ images'[k].image \in Shown => images'[k].discovered >= walk.before
             /\ walk.phase = "open" /\ images'[k].image \in walk.start =>
                    images'[k].discovered < walk.before \/ Settled(k)'
             /\ walk.phase = "done" /\ images'[k].image \in walk.start => Settled(k)'
  <2>1. images'[k].image \in Stored
    BY <1>1, <1>4, <1>9 DEF Covered
  <2>2. k \in DOMAIN images /\ images'[k] = images[k]
    BY <1>5, <2>1
  <2>3. QED
    BY <1>1, <1>6, <1>9, <2>2 DEF Covered
<1>10. WalkType'
  BY <1>1 DEF WalkType
<1>11. QED
  BY <1>1, <1>3, <1>7, <1>8, <1>9, <1>10 DEF Covered

LEMMA OpenWalks == ASSUME ImagesInv, OpenAdmin PROVE WalkInv'
<1>1. walk' = [phase |-> "open", before |-> None, pages |-> <<>>, edges |-> {}, start |-> Stored]
      /\ images' = images
  BY DEF OpenAdmin, store
<1>2. Stored \subseteq Image /\ Stored' = Stored
  BY <1>1, RowType DEF Stored
<1>3. <<>> \in Seq(Nat)
  OBVIOUS
<1>4. walk' \in [phase : {"open", "done"}, before : Nat \cup {None}, pages : Seq(Nat),
                 edges : SUBSET Nat, start : SUBSET Image]
  BY <1>1, <1>2, <1>3
<1>5. WalkType'
  BY <1>4 DEF WalkType
<1>6. Covered'
  BY <1>1, <1>2 DEF Covered
<1>7. QED
  BY <1>5, <1>6 DEF WalkInv

\* The rows of the next page.
Rest == {k \in DOMAIN images : walk.before = None \/ Before(images[k].discovered, walk.before)}

LEMMA PageShows == ASSUME NEW page \in SUBSET DOMAIN images PROVE On(AdminPage(page)) = {images[k].image : k \in page}
<1>1. \A k : AdminRow(k, "skeet").image = images[k].image
  BY DEF AdminRow
<1>2. QED
  BY <1>1 DEF On, AdminPage

\* A page is put behind the others.
LEMMA PageAdds ==
    ASSUME ImagesInv, WalkInv, walk # NoWalk, walk.phase = "open",
           NEW page \in SUBSET Rest, images' = images,
           DOMAIN walk' = {"phase", "before", "pages", "edges", "start"},
           walk'.pages = Append(walk.pages, AdminPage(page)), walk'.start = walk.start
    PROVE  /\ \E T : walk'.pages \in Seq(T)
           /\ Shown' = Shown \cup {images[k].image : k \in page}
           /\ walk'.start \subseteq Stored'
           /\ \A n \in DOMAIN walk'.pages : On(walk'.pages[n]) \subseteq Stored'
           /\ \A p, q \in DOMAIN walk'.pages : p # q => On(walk'.pages[p]) \cap On(walk'.pages[q]) = {}
           /\ walk.before = None => Shown = {}
<1>1. PICK T : walk.pages \in Seq(T)
  BY DEF WalkInv, WalkType
<1> DEFINE last == Len(walk.pages) + 1
           new == AdminPage(page)
<1>2. walk.pages \in Seq(T \cup {new}) /\ new \in T \cup {new}
  BY <1>1
<1>3. /\ walk'.pages \in Seq(T \cup {new})
      /\ DOMAIN walk'.pages = DOMAIN walk.pages \cup {last} /\ last \notin DOMAIN walk.pages
      /\ walk'.pages[last] = new /\ \A n \in DOMAIN walk.pages : walk'.pages[n] = walk.pages[n]
  <2> HIDE DEF new
  <2>1. QED
    BY <1>2 DEF new
<1>4. Covered /\ Stored' = Stored
  BY DEF WalkInv, Stored
<1>5. On(new) = {images[k].image : k \in page} /\ On(new) \subseteq Stored
  BY PageShows DEF Rest, Stored
<1>6. \A n \in DOMAIN walk.pages : On(walk.pages[n]) \subseteq Shown
  BY DEF Shown
<1>7. walk.before = None => Shown = {}
  BY <1>4 DEF Covered, Shown
<1>8. ASSUME NEW i \in Shown, i \in On(new) PROVE FALSE
  <2>1. PICK k \in page : images[k].image = i
    BY <1>5, <1>8
  <2>2. k \in DOMAIN images /\ walk.before # None /\ images[k].discovered < walk.before
    BY <1>7, <2>1 DEF Rest, Before
  <2>3. images[k].discovered >= walk.before
    BY <1>4, <1>8, <2>1, <2>2 DEF Covered
  <2>4. images[k].discovered \in Nat /\ walk.before \in Nat
    BY <2>2, RowType DEF WalkInv, WalkType
  <2>5. QED
    BY <2>2, <2>3, <2>4
<1> HIDE DEF last, new
<1>9. Shown' = Shown \cup On(new)
  <2>1. \A i : i \in Shown' <=> \E n \in DOMAIN walk'.pages : i \in On(walk'.pages[n])
    BY DEF Shown, On
  <2>2. \A i : i \in Shown <=> \E n \in DOMAIN walk.pages : i \in On(walk.pages[n])
    BY DEF Shown
  <2>3. \A i : i \in Shown' <=> i \in Shown \/ i \in On(new)
    BY <1>3, <2>1, <2>2
  <2>4. QED
    BY <2>3
<1>10. \A n \in DOMAIN walk'.pages : On(walk'.pages[n]) \subseteq Stored'
  BY <1>3, <1>4, <1>5 DEF Covered
<1>11. ASSUME NEW p \in DOMAIN walk'.pages, NEW q \in DOMAIN walk'.pages, p # q
       PROVE  On(walk'.pages[p]) \cap On(walk'.pages[q]) = {}
  <2>1. CASE p = last
    BY <1>3, <1>6, <1>8, <1>11, <2>1
  <2>2. CASE q = last
    BY <1>3, <1>6, <1>8, <1>11, <2>2
  <2>3. CASE p # last /\ q # last
    BY <1>3, <1>4, <1>11, <2>3 DEF Covered
  <2>4. QED
    BY <2>1, <2>2, <2>3
<1>12. QED
  BY <1>3, <1>4, <1>5, <1>7, <1>9, <1>10, <1>11 DEF Covered

LEMMA NextPageWalks == ASSUME ImagesInv, WalkInv, NextPage PROVE WalkInv'
<1> DEFINE last(page) == Min({images[k].discovered : k \in page})
<1>1. walk # NoWalk /\ walk.phase = "open" /\ images' = images
  <2>1. NoWalk.phase = "closed"
    BY DEF NoWalk
  <2>2. QED
    BY <2>1 DEF NextPage, store
<1>2. PICK T : walk \in [phase : {"open", "done"}, before : Nat \cup {None}, pages : Seq(T),
                         edges : SUBSET Nat, start : SUBSET Image]
  BY <1>1 DEF WalkInv, WalkType
<1>3. Covered
  BY <1>1 DEF WalkInv
<1>4. \A k \in DOMAIN images : images[k].discovered \in Nat
  BY RowType
<1>5. CASE walk' = [walk EXCEPT !.phase = "done", !.pages = Append(walk.pages, AdminPage(Rest))]
  <2>1. /\ DOMAIN walk' = {"phase", "before", "pages", "edges", "start"}
        /\ walk' = [f \in {"phase", "before", "pages", "edges", "start"} |-> walk'[f]]
        /\ walk'.phase = "done" /\ walk'.pages = Append(walk.pages, AdminPage(Rest))
        /\ walk'.before = walk.before /\ walk'.edges = walk.edges /\ walk'.start = walk.start
    BY <1>2, <1>5
  <2>2. /\ \E U : walk'.pages \in Seq(U)
        /\ Shown' = Shown \cup {images[k].image : k \in Rest}
        /\ walk'.start \subseteq Stored'
        /\ \A n \in DOMAIN walk'.pages : On(walk'.pages[n]) \subseteq Stored'
        /\ \A p, q \in DOMAIN walk'.pages : p # q => On(walk'.pages[p]) \cap On(walk'.pages[q]) = {}
        /\ walk.before = None => Shown = {}
    BY <1>1, <2>1, PageAdds
  <2>3. ASSUME NEW k \in DOMAIN images, images[k].image \in walk.start PROVE Settled(k)'
    <3>1. k \in Rest \/ Settled(k)
      BY <1>1, <1>3, <2>3 DEF Rest, Before, Covered
    <3>2. QED
      BY <1>1, <2>1, <2>2, <3>1 DEF Settled
  <2>4. Covered'
    BY <1>1, <2>1, <2>2, <2>3 DEF Covered
  <2>5. WalkType'
    <3>1. PICK U : walk'.pages \in Seq(U)
      BY <2>2
    <3>2. walk' \in [phase : {"open", "done"}, before : Nat \cup {None}, pages : Seq(U),
                     edges : SUBSET Nat, start : SUBSET Image]
      BY <1>2, <2>1, <3>1
    <3>3. QED
      BY <3>2 DEF WalkType
  <2>6. QED
    BY <2>4, <2>5 DEF WalkInv
<1>6. CASE \E page \in kSubset(PageSize, Rest) :
            /\ \A k \in page, l \in Rest \ page : images[k].discovered >= images[l].discovered
            /\ walk' = [walk EXCEPT !.before = last(page),
                                    !.pages = Append(walk.pages, AdminPage(page)),
                                    !.edges = @ \cup {last(page)}]
  <2>0. PICK page \in kSubset(PageSize, Rest) :
            /\ \A k \in page, l \in Rest \ page : images[k].discovered >= images[l].discovered
            /\ walk' = [walk EXCEPT !.before = last(page),
                                    !.pages = Append(walk.pages, AdminPage(page)),
                                    !.edges = @ \cup {last(page)}]
    BY <1>6
  <2>1. page \in SUBSET Rest /\ page # {}
    BY <2>0, CurationConstants, FS_EmptySet DEF kSubset
  <2>2. PICK edge : edge = last(page)
    OBVIOUS
  <2>3. edge \in Nat /\ (\E k \in page : images[k].discovered = edge)
        /\ \A k \in page : edge <= images[k].discovered
    <3>1. {images[k].discovered : k \in page} \in SUBSET Nat /\ {images[k].discovered : k \in page} # {}
      BY <1>4, <2>1 DEF Rest
    <3>2. QED
      BY <2>2, <3>1, LeastOf
  <2>4. /\ DOMAIN walk' = {"phase", "before", "pages", "edges", "start"}
        /\ walk' = [f \in {"phase", "before", "pages", "edges", "start"} |-> walk'[f]]
        /\ walk'.phase = "open" /\ walk'.pages = Append(walk.pages, AdminPage(page))
        /\ walk'.before = edge /\ walk'.edges = walk.edges \cup {edge} /\ walk'.start = walk.start
    <3> HIDE DEF last
    <3>1. QED
      BY <1>1, <1>2, <2>0, <2>2
  <2>5. /\ \E U : walk'.pages \in Seq(U)
        /\ Shown' = Shown \cup {images[k].image : k \in page}
        /\ walk'.start \subseteq Stored'
        /\ \A n \in DOMAIN walk'.pages : On(walk'.pages[n]) \subseteq Stored'
        /\ \A p, q \in DOMAIN walk'.pages : p # q => On(walk'.pages[p]) \cap On(walk'.pages[q]) = {}
        /\ walk.before = None => Shown = {}
    BY <1>1, <2>1, <2>4, PageAdds
  <2>6. edge # None
    BY <2>3, RankingConstants
  <2>7. ASSUME NEW k \in DOMAIN images, images[k].image \in walk.start
        PROVE  images[k].discovered < edge \/ Settled(k)'
    <3>1. k \in Rest \/ Settled(k)
      BY <1>1, <1>3, <2>7 DEF Rest, Before, Covered
    <3>2. k \in page => Settled(k)'
      BY <1>1, <2>5 DEF Settled
    <3>3. Settled(k) => Settled(k)'
      BY <1>1, <2>4, <2>5 DEF Settled
    <3>4. ASSUME k \in Rest \ page PROVE images[k].discovered <= edge
      BY <2>0, <2>3, <3>4
    <3>5. images[k].discovered = edge => Settled(k)'
      BY <1>1, <2>4 DEF Settled
    <3>6. QED
      BY <1>4, <2>3, <3>1, <3>2, <3>3, <3>4, <3>5
  <2>8. ASSUME NEW k \in DOMAIN images, images[k].image \in Shown'
        PROVE  images[k].discovered >= edge
    <3>1. CASE images[k].image \in Shown
      <4>1. walk.before # None
        BY <2>5, <3>1
      <4>2. images[k].discovered >= walk.before /\ walk.before \in Nat
        BY <1>1, <1>2, <1>3, <3>1, <4>1 DEF Covered
      <4>3. PICK l \in page : images[l].discovered = edge
        BY <2>3
      <4>4. images[l].discovered < walk.before
        BY <2>1, <4>1, <4>3 DEF Rest, Before
      <4>5. QED
        BY <1>4, <2>3, <4>2, <4>3, <4>4
    <3>2. CASE \E l \in page : images[l].image = images[k].image
      <4>1. k \in page
        BY <2>1, <3>2 DEF Rest, ImagesInv, Keyed
      <4>2. QED
        BY <2>3, <4>1, <1>4
    <3>3. QED
      BY <2>5, <2>8, <3>1, <3>2
  <2>9. Covered'
    BY <1>1, <2>4, <2>5, <2>6, <2>7, <2>8 DEF Covered
  <2>10. WalkType'
    <3>1. PICK U : walk'.pages \in Seq(U)
      BY <2>5
    <3>2. walk' \in [phase : {"open", "done"}, before : Nat \cup {None}, pages : Seq(U),
                     edges : SUBSET Nat, start : SUBSET Image]
      BY <1>2, <2>3, <2>4, <3>1
    <3>3. QED
      BY <3>2 DEF WalkType
  <2>11. QED
    BY <2>9, <2>10 DEF WalkInv
<1>7. QED
  BY <1>5, <1>6 DEF NextPage, Rest

LEMMA WalkNext == ASSUME ImagesInv, WalkInv, [Next]_vars PROVE WalkInv'
<1>1. Grows
  BY ImagesStep
<1>2. CASE walk' = walk
  BY <1>1, <1>2, WalkRests
<1>3. CASE OpenAdmin
  BY <1>3, OpenWalks
<1>4. CASE NextPage
  BY <1>4, NextPageWalks
<1>5. CASE UNCHANGED vars
  BY <1>2, <1>5 DEF vars
<1>6. CASE Tick \/ Begin \/ Write \/ Lose \/ Restart \/ Appraise
  BY <1>2, <1>6 DEF Tick, Begin, Write, Lose, Restart, Appraise, AppraiseImage, AppraiseSkeet
<1>7. CASE \/ \E i \in Image, s \in Skeet, stamp \in 0 .. now : Save(i, s, stamp)
           \/ \E i \in Image, x \in 0 .. Scale, model \in Models : Score(i, x, model)
           \/ \E t \in Target : Delete(t)
           \/ \E phase \in {"skeets", "images"} : Probe(phase) \/ Told(phase)
  BY <1>2, <1>7 DEF Save, Score, Delete, Probe, Told
<1>8. QED
  BY <1>3, <1>4, <1>5, <1>6, <1>7 DEF Next

\* Whatever is saved while someone walks through the admin pages, the walk shows
\* every image that was there at its start, once, but for ties (images.rs:197-217).
THEOREM WalksMissOnlyTies == Spec => []PagesCoverTheTable
<1>1. Init => WalkInv
  BY DEF Init, WalkInv
<1>2. Spec => []WalkInv
  BY <1>1, WalkNext, ImagesInvariant, PTL DEF Spec
<1>3. WalkInv => PagesCoverTheTable
  <2> SUFFICES ASSUME WalkInv, walk # NoWalk PROVE PagesCoverTheTable
    BY DEF PagesCoverTheTable
  <2>1. Covered
    BY DEF WalkInv
  <2>2. Shown = On(UNION ToSet(walk.pages))
    BY DEF Shown, On, ToSet
  <2>3. ASSUME walk.phase = "done", NEW i \in walk.start
        PROVE  i \in Shown \/ \E k \in DOMAIN images : images[k].discovered \in walk.edges /\ images[k].image = i
    BY <2>1, <2>3 DEF Covered, Stored, Settled
  <2>4. QED
    BY <2>1, <2>2, <2>3 DEF PagesCoverTheTable, Covered, On
<1>4. QED
  BY <1>2, <1>3, PTL

-----------------------------------------------------------------------------
(* What is published.                                                      *)

\* The entries of a list are visible entries of the feed, in its order.
LEMMA ListIsOfEntries ==
    ASSUME NEW order, NEW cutoff, NEW entries, NEW im, NEW sm,
           NEW list \in PublishedForSpec(order, cutoff, entries, im, sm)
    PROVE  /\ \A n \in DOMAIN list : \E k \in VisibleEntries(entries, im, sm) : list[n] = entries[k]
           /\ \A m, n \in DOMAIN list : m < n => Precedes(order, list[m], list[n], im, sm)
<1> DEFINE shown == {e \in {entries[k] : k \in VisibleEntries(entries, im, sm)} : e.original >= cutoff}
<1>1. list \in SetToSeqs(shown)
      /\ \A m, n \in DOMAIN list : m < n => Precedes(order, list[m], list[n], im, sm)
  BY Zenon DEF PublishedForSpec
<1>2. list \in [1 .. Cardinality(shown) -> shown]
  BY <1>1, Zenon DEF SetToSeqs
<1>3. \A n \in DOMAIN list : list[n] \in shown
  BY <1>2
<1>4. QED
  BY <1>1, <1>3

\* A list that is begun is of rows with a score.
LEMMA BegunAreRows ==
    ASSUME Begin
    PROVE  \E list \in PublishedForSpec(Order, now - Window, Fetched, imageManual, skeetManual) :
            /\ cycle' = [phase |-> "skeets", version |-> version, since |-> now, lost |-> {},
                         answers |-> <<>>,
                         list |-> [n \in DOMAIN list |->
                                    [image |-> list[n].image, skeet |-> list[n].skeet]]]
            /\ \A n \in DOMAIN list : \E k \in DOMAIN images :
                k \in VisibleEntries(Fetched, imageManual, skeetManual)
                /\ list[n] = Fetched[k] /\ IsScored(k)
                /\ list[n].image = images[k].image /\ list[n].skeet = images[k].skeet
<1>1. PICK list \in PublishedForSpec(Order, now - Window, Fetched, imageManual, skeetManual) :
            cycle' = [phase |-> "skeets", version |-> version, since |-> now, lost |-> {},
                      answers |-> <<>>,
                      list |-> [n \in DOMAIN list |->
                                    [image |-> list[n].image, skeet |-> list[n].skeet]]]
  BY DEF Begin
<1>2. \A n \in DOMAIN list : \E k \in VisibleEntries(Fetched, imageManual, skeetManual) :
        list[n] = Fetched[k]
  BY ListIsOfEntries
<1>3. \A k \in VisibleEntries(Fetched, imageManual, skeetManual) : k \in DOMAIN Fetched
  BY DEF VisibleEntries
<1>4. ASSUME NEW k \in DOMAIN Fetched
      PROVE  /\ k \in DOMAIN images /\ IsScored(k)
             /\ Fetched[k].image = images[k].image /\ Fetched[k].skeet = images[k].skeet
  BY DEF Fetched, Joined, Windowed
<1>5. \A n \in DOMAIN list : \E k \in DOMAIN images :
        k \in VisibleEntries(Fetched, imageManual, skeetManual)
        /\ list[n] = Fetched[k] /\ IsScored(k)
        /\ list[n].image = images[k].image /\ list[n].skeet = images[k].skeet
  BY <1>2, <1>3, <1>4
<1>6. QED
  BY <1>1, <1>5

-----------------------------------------------------------------------------
(* What the publisher knows of deletions.                                  *)

Gone(t) == goneAt[t] # None

\* A verdict is no older than the probe it is of, which took its time.
WorldInv ==
    /\ DOMAIN goneAt = Target /\ DOMAIN checked = Target
    /\ \A t \in Target :
        /\ Gone(t) => goneAt[t] \in Nat /\ goneAt[t] <= now
        /\ checked[t] # None =>
            /\ checked[t] \in [at : Nat, exists : BOOLEAN, sure : BOOLEAN] /\ checked[t].at <= now
            /\ checked[t].exists /\ checked[t].sure /\ Gone(t) =>
                goneAt[t] >= checked[t].at - ProbeTime

\* What the publisher takes t for is right, or has been for all but the TTL
\* and a delay.
Known(t, delay) ==
    \/ t \in cycle.lost
    \/ /\ checked[t] # None
       /\ checked[t].exists /\ checked[t].sure /\ Gone(t) => now - goneAt[t] < Ttl + delay

\* A probe of t is out, or the verdict of an earlier one will do.
Asked(t) ==
    \/ t \in DOMAIN cycle.answers
    \/ checked[t] # None /\ cycle.since - checked[t].at < Ttl

Answered(t) ==
    cycle.answers[t] # None =>
        /\ cycle.answers[t] \in Verdict
        /\ cycle.answers[t].exists /\ cycle.answers[t].sure /\ Gone(t) => goneAt[t] >= cycle.since

Fields == {"phase", "version", "since", "lost", "answers", "list"}
Phases == {"skeets", "probing skeets", "images", "probing images", "writing"}
Posts == {Post(cycle.list[n].skeet) : n \in DOMAIN cycle.list}
Urls == {Url(cycle.list[n].image) : n \in DOMAIN cycle.list}

CycleInv ==
    cycle # NoCycle =>
        /\ DOMAIN cycle = Fields /\ cycle = [f \in Fields |-> cycle[f]]
        /\ cycle.phase \in Phases
        /\ cycle.since \in Nat /\ cycle.since <= now /\ now - cycle.since <= ProbeTime
        /\ Posts \subseteq Target /\ Urls \subseteq Target
        /\ cycle.phase \in {"skeets", "images", "writing"} => DOMAIN cycle.answers = {}
        /\ cycle.phase = "probing skeets" => DOMAIN cycle.answers \subseteq Posts
        /\ cycle.phase = "probing images" => DOMAIN cycle.answers \subseteq Urls
        /\ \A t \in DOMAIN cycle.answers : Answered(t)
        /\ cycle.phase = "probing skeets" => \A t \in Posts : Asked(t)
        /\ cycle.phase = "probing images" => \A t \in Urls : Asked(t)
        /\ cycle.phase = "images" => \A t \in Posts : Known(t, 2 * ProbeTime)
        /\ cycle.phase = "probing images" =>
            \A t \in Posts : Known(t, 2 * ProbeTime + (now - cycle.since))
        /\ cycle.phase = "writing" =>
            (\A t \in Posts : Known(t, 3 * ProbeTime)) /\ (\A t \in Urls : Known(t, 2 * ProbeTime))

DeletionInv == ImagesInv /\ WorldInv /\ CycleInv

LEMMA Constants ==
    /\ Window \in Nat /\ Ttl \in Nat /\ ProbeTime \in Nat /\ Ttl + ProbeTime > 0
    /\ None \notin Nat /\ None \notin Verdict
    /\ None \notin [at : Nat, exists : BOOLEAN, sure : BOOLEAN]
<1>1. None \notin Int
  BY Zenon, RankingConstants
<1>2. None \notin Nat
  BY <1>1
<1>3. None \notin Verdict /\ None \notin [at : Nat, exists : BOOLEAN, sure : BOOLEAN]
  BY Zenon, CurationConstants
<1>4. Window \in Nat /\ Ttl \in Nat /\ ProbeTime \in Nat /\ Ttl + ProbeTime > 0
  BY Zenon, CurationConstants
<1>5. QED
  BY <1>2, <1>3, <1>4, Zenon

LEMMA PostsAreNoUrls == \A t \in Posts : t \notin Urls
<1>1. ASSUME NEW s, NEW i PROVE Post(s) # Url(i)
  BY DEF Post, Url
<1>2. QED
  BY <1>1 DEF Posts, Urls

\* A step that leaves the clock, the world and the caches alone.
LEMMA WorldRests ==
    ASSUME WorldInv, UNCHANGED <<now, goneAt, checked>> PROVE WorldInv'
BY DEF WorldInv, Gone

LEMMA CycleRests ==
    ASSUME CycleInv, UNCHANGED <<now, goneAt, checked, cycle>> PROVE CycleInv'
BY DEF CycleInv, Known, Asked, Answered, Gone, Posts, Urls

LEMMA TickKnows == ASSUME DeletionInv, Tick PROVE WorldInv' /\ CycleInv'
<1>1. now' = now + 1 /\ now \in Nat /\ UNCHANGED <<goneAt, checked, cycle>>
  BY DEF Tick, DeletionInv, ImagesInv, publishing
<1>2. WorldInv'
  <2>1. ASSUME NEW t \in Target, checked[t] # None
        PROVE  checked[t].at \in Nat /\ checked[t].at <= now
    BY <2>1 DEF DeletionInv, WorldInv
  <2>2. QED
    BY <1>1, <2>1 DEF DeletionInv, WorldInv, Gone
<1>3. CASE cycle = NoCycle
  BY <1>1, <1>2, <1>3 DEF CycleInv
<1>4. CASE cycle # NoCycle
  <2>1. now - cycle.since < ProbeTime /\ DOMAIN cycle.answers # {}
    BY <1>4 DEF Tick
  <2>2. cycle.phase \notin {"skeets", "images", "writing"}
    BY <1>4, <2>1 DEF DeletionInv, CycleInv
  <2>3. cycle.since \in Nat /\ cycle.since <= now
    BY <1>4 DEF DeletionInv, CycleInv
  <2>4. cycle.since <= now' /\ now' - cycle.since <= ProbeTime
    BY <1>1, <2>1, <2>3, Constants
  <2>5. ASSUME NEW t \in Posts, cycle.phase = "probing images"
        PROVE  Known(t, 2 * ProbeTime + (now - cycle.since))'
    <3>1. Known(t, 2 * ProbeTime + (now - cycle.since)) /\ t \in Target
      BY <1>4, <2>5 DEF DeletionInv, CycleInv
    <3>2. Gone(t) => goneAt[t] \in Nat
      BY <3>1 DEF DeletionInv, WorldInv
    <3>3. QED
      BY <1>1, <2>3, <3>1, <3>2, Constants DEF Known, Gone
  <2>6. QED
    BY <1>1, <1>2, <1>4, <2>2, <2>3, <2>4, <2>5 DEF DeletionInv, CycleInv, Asked, Answered,
       Gone, Posts, Urls
<1>5. QED
  BY <1>3, <1>4, <1>2

LEMMA DeleteKnows == ASSUME DeletionInv, NEW t \in Target, Delete(t) PROVE WorldInv' /\ CycleInv'
<1>1. UNCHANGED <<now, checked, cycle>> /\ now \in Nat
  BY DEF Delete, DeletionInv, ImagesInv, publishing
<1>2. DOMAIN goneAt' = Target /\ goneAt'[t] = now /\ \A u \in Target \ {t} : goneAt'[u] = goneAt[u]
  BY DEF Delete, DeletionInv, WorldInv
<1>3. WorldInv'
  <2>1. ASSUME NEW u \in Target, checked[u] # None
        PROVE  checked[u].at \in Nat /\ checked[u].at <= now
    BY <2>1 DEF DeletionInv, WorldInv
  <2>2. QED
    BY <1>1, <1>2, <2>1, Constants DEF DeletionInv, WorldInv, Gone
<1>4. ASSUME NEW u \in Target, NEW delay \in Nat, delay >= ProbeTime, Known(u, delay)
      PROVE  u \in cycle.lost \/ (checked[u] # None /\
                (checked[u].exists /\ checked[u].sure /\ goneAt'[u] # None => now - goneAt'[u] < Ttl + delay))
  <2>1. CASE u = t
    BY <1>1, <1>2, <1>4, <2>1, Constants DEF Known
  <2>2. CASE u # t
    BY <1>1, <1>2, <1>4, <2>2, Constants DEF Known, Gone
  <2>3. QED
    BY <2>1, <2>2
<1>5. ASSUME cycle # NoCycle PROVE CycleInv'
  <2>1. cycle.since \in Nat /\ cycle.since <= now /\ Posts \subseteq Target /\ Urls \subseteq Target
    BY <1>5 DEF DeletionInv, CycleInv
  <2>2. 2 * ProbeTime \in Nat /\ 3 * ProbeTime \in Nat /\ 2 * ProbeTime + (now - cycle.since) \in Nat
        /\ 2 * ProbeTime >= ProbeTime /\ 3 * ProbeTime >= ProbeTime
        /\ 2 * ProbeTime + (now - cycle.since) >= ProbeTime
    BY <1>1, <2>1, Constants
  <2>3. cycle.phase = "images" => \A u \in Posts : Known(u, 2 * ProbeTime)'
    BY <1>1, <1>4, <1>5, <2>1, <2>2 DEF DeletionInv, CycleInv, Known, Gone
  <2>4. cycle.phase = "probing images" => \A u \in Posts : Known(u, 2 * ProbeTime + (now - cycle.since))'
    BY <1>1, <1>4, <1>5, <2>1, <2>2 DEF DeletionInv, CycleInv, Known, Gone
  <2>5. cycle.phase = "writing" =>
            (\A u \in Posts : Known(u, 3 * ProbeTime)') /\ (\A u \in Urls : Known(u, 2 * ProbeTime)')
    BY <1>1, <1>4, <1>5, <2>1, <2>2 DEF DeletionInv, CycleInv, Known, Gone
  <2>6. ASSUME NEW u \in DOMAIN cycle.answers PROVE Answered(u)'
    <3>1. Answered(u)
      BY <1>5, <2>6 DEF DeletionInv, CycleInv
    <3>2. u \in Target
      BY <1>5, <2>1, <2>6 DEF DeletionInv, CycleInv, Phases
    <3>3. QED
      BY <1>1, <1>2, <2>1, <3>1, <3>2 DEF Answered, Gone
  <2>7. QED
    BY <1>1, <1>5, <2>3, <2>4, <2>5, <2>6 DEF DeletionInv, CycleInv, Asked, Posts, Urls
<1>6. QED
  BY <1>1, <1>3, <1>5 DEF CycleInv

LEMMA BeginKnows == ASSUME DeletionInv, Begin PROVE WorldInv' /\ CycleInv'
<1>1. UNCHANGED <<now, goneAt, checked>> /\ now \in Nat
  BY DEF Begin, DeletionInv, ImagesInv
<1>2. PICK list :
        /\ cycle' = [phase |-> "skeets", version |-> version, since |-> now, lost |-> {},
                     answers |-> <<>>, list |-> list]
        /\ \A n \in DOMAIN list : \E k \in DOMAIN images :
            list[n].image = images[k].image /\ list[n].skeet = images[k].skeet
  BY BegunAreRows
<1>3. /\ DOMAIN cycle' = Fields /\ cycle' = [f \in Fields |-> cycle'[f]]
      /\ cycle'.phase = "skeets" /\ cycle'.since = now /\ cycle'.answers = <<>> /\ cycle'.list = list
  BY <1>2 DEF Fields
<1>4. \A n \in DOMAIN list : list[n].image \in Image /\ list[n].skeet \in Skeet
  BY <1>2, RowType DEF DeletionInv
<1>5. Posts' \subseteq Target /\ Urls' \subseteq Target
  BY <1>3, <1>4 DEF Posts, Urls, Target
<1>6. CycleInv'
  BY <1>1, <1>3, <1>5, Constants DEF CycleInv, Phases
<1>7. QED
  BY <1>1, <1>6, WorldRests DEF DeletionInv

LEMMA ProbeKnows ==
    ASSUME DeletionInv, NEW phase \in {"skeets", "images"}, Probe(phase)
    PROVE  WorldInv' /\ CycleInv'
<1> DEFINE stale == {t \in Wanted(phase) : Stale(t)}
<1>1. UNCHANGED <<now, goneAt, checked>> /\ now \in Nat /\ cycle.phase = phase
  BY DEF Probe, DeletionInv, ImagesInv
<1>2. cycle # NoCycle
  BY <1>1 DEF NoCycle
<1>3. PICK answers \in Answers(stale) :
            cycle' = [cycle EXCEPT !.phase = Probing(phase), !.answers = answers, !.since = now]
  BY DEF Probe
<1>4. /\ DOMAIN cycle' = Fields /\ cycle' = [f \in Fields |-> cycle'[f]]
      /\ cycle'.phase = Probing(phase) /\ cycle'.answers = answers /\ cycle'.since = now
      /\ cycle'.list = cycle.list /\ cycle'.lost = cycle.lost
  BY <1>2, <1>3 DEF DeletionInv, CycleInv, Fields
<1>5. Wanted(phase) = IF phase = "skeets" THEN Posts ELSE Urls
  BY DEF Wanted, Posts, Urls
<1>6. Wanted(phase) \subseteq Target
  BY <1>2, <1>5 DEF DeletionInv, CycleInv
<1>7. DOMAIN answers = stale /\ \A t \in stale : answers[t] \in Outcome(t)
  BY <1>3 DEF Answers
<1>8. \A t : answers[t] = cycle'.answers[t]
  BY <1>4
<1>9. ASSUME NEW t \in stale PROVE Answered(t)'
  <2>1. answers[t] # None =>
            \/ answers[t] = [exists |-> goneAt[t] = None, sure |-> TRUE]
            \/ answers[t] = [exists |-> TRUE, sure |-> FALSE]
    BY <1>7 DEF Outcome
  <2>2. answers[t] # None => answers[t] \in Verdict
            /\ (answers[t].exists /\ answers[t].sure => goneAt[t] = None)
    <3>1. CASE answers[t] = [exists |-> goneAt[t] = None, sure |-> TRUE]
      <4>1. CASE goneAt[t] = None
        <5>1. answers[t] = [exists |-> TRUE, sure |-> TRUE]
          BY <3>1, <4>1
        <5>2. QED
          BY <4>1, <5>1 DEF Verdict
      <4>2. CASE goneAt[t] # None
        <5>1. answers[t] = [exists |-> FALSE, sure |-> TRUE]
          BY <3>1, <4>2
        <5>2. QED
          BY <5>1 DEF Verdict
      <4>3. QED
        BY <4>1, <4>2
    <3>2. CASE answers[t] = [exists |-> TRUE, sure |-> FALSE]
      BY <3>2 DEF Verdict
    <3>3. QED
      BY <2>1, <3>1, <3>2
  <2>3. QED
    BY <1>1, <1>4, <2>2 DEF Answered, Gone
<1>10. ASSUME NEW t \in Wanted(phase) PROVE Asked(t)'
  <2>1. CASE Stale(t)
    BY <1>4, <1>7, <2>1 DEF Asked
  <2>2. CASE ~Stale(t)
    <3>1. checked[t] # None /\ ~(now - checked[t].at >= Ttl)
      BY <2>2 DEF Stale
    <3>2. checked[t].at \in Nat
      BY <1>6, <3>1 DEF DeletionInv, WorldInv
    <3>3. now - checked[t].at < Ttl
      BY <1>1, <3>1, <3>2, Constants
    <3>4. QED
      BY <1>1, <1>4, <3>1, <3>3 DEF Asked
  <2>3. QED
    BY <2>1, <2>2
<1>11. Posts' = Posts /\ Urls' = Urls
  BY <1>4 DEF Posts, Urls
<1>15. \A t \in DOMAIN cycle'.answers : Answered(t)'
  BY <1>4, <1>7, <1>9
<1>16. now' - cycle'.since = 0 /\ cycle'.since \in Nat /\ cycle'.since <= now'
       /\ now' - cycle'.since <= ProbeTime
  BY <1>1, <1>4, Constants
<1>17. WorldInv'
  BY <1>1, WorldRests DEF DeletionInv
<1>18. stale \subseteq Wanted(phase)
  OBVIOUS
<1> HIDE DEF stale
<1>12. CASE phase = "skeets"
  <2>1. cycle'.phase = "probing skeets"
    BY <1>4, <1>12 DEF Probing
  <2>2. DOMAIN cycle'.answers \subseteq Posts /\ Wanted(phase) = Posts
    BY <1>4, <1>5, <1>7, <1>12, <1>18
  <2>3. Posts \subseteq Target /\ Urls \subseteq Target
    BY <1>2 DEF DeletionInv, CycleInv
  <2>4. QED
    BY <1>4, <1>10, <1>11, <1>15, <1>16, <1>17, <2>1, <2>2, <2>3 DEF CycleInv, Phases
<1>13. CASE phase = "images"
  <2>1. cycle'.phase = "probing images"
    BY <1>4, <1>13 DEF Probing
  <2>2. DOMAIN cycle'.answers \subseteq Urls /\ Wanted(phase) = Urls
    BY <1>4, <1>5, <1>7, <1>13, <1>18
  <2>3. Posts \subseteq Target /\ Urls \subseteq Target
    BY <1>2 DEF DeletionInv, CycleInv
  <2>4. \A t \in Posts : Known(t, 2 * ProbeTime)
    BY <1>1, <1>2, <1>13 DEF DeletionInv, CycleInv
  <2>5. now' - cycle'.since = 0 /\ 2 * ProbeTime + 0 = 2 * ProbeTime
    BY <1>1, <1>4, Constants
  <2>6. \A t \in Posts : Known(t, 2 * ProbeTime + (now - cycle.since))'
    BY <1>1, <1>4, <2>4, <2>5 DEF Known, Gone
  <2>7. QED
    BY <1>4, <1>10, <1>11, <1>15, <1>16, <1>17, <2>1, <2>2, <2>3, <2>6 DEF CycleInv, Phases
<1>14. QED
  BY <1>12, <1>13

\* When the probes of a batch are back, all it wanted is known.
LEMMA ToldIsKnown ==
    ASSUME DeletionInv, NEW phase \in {"skeets", "images"}, Told(phase), NEW t \in Target,
           Asked(t)
    PROVE  Known(t, 2 * ProbeTime)'
<1> DEFINE told == {u \in DOMAIN cycle.answers : cycle.answers[u] # None}
<1>1. UNCHANGED <<now, goneAt>> /\ now \in Nat
  BY DEF Told, DeletionInv, ImagesInv
<1>2. cycle # NoCycle
  <2>1. NoCycle.phase = "idle"
    BY DEF NoCycle
  <2>2. cycle.phase # "idle"
    BY DEF Told, Probing
  <2>3. QED
    BY <2>1, <2>2
<1>3. cycle.since \in Nat /\ cycle.since <= now /\ now - cycle.since <= ProbeTime
      /\ DOMAIN cycle = Fields /\ \A u \in DOMAIN cycle.answers : Answered(u)
  BY <1>2 DEF DeletionInv, CycleInv
<1>4. checked'[t] = IF t \in told
                    THEN [at |-> now, exists |-> cycle.answers[t].exists, sure |-> cycle.answers[t].sure]
                    ELSE checked[t]
  BY DEF Told
<1>5. cycle'.lost = cycle.lost \cup (DOMAIN cycle.answers \ told)
  BY <1>3 DEF Told, Fields
<1>6. CASE t \in told
  <2>1. Answered(t) /\ cycle.answers[t] # None /\ cycle.answers[t] \in Verdict
    BY <1>3, <1>6 DEF Answered
  <2>2. checked'[t] # None /\ checked'[t].exists = cycle.answers[t].exists
        /\ checked'[t].sure = cycle.answers[t].sure
    BY <1>1, <1>4, <1>6, <2>1, Constants DEF Verdict
  <2>3. Gone(t) => goneAt[t] \in Nat
    BY DEF DeletionInv, WorldInv
  <2>4. cycle.answers[t].exists /\ cycle.answers[t].sure /\ Gone(t) =>
            now - goneAt[t] < Ttl + 2 * ProbeTime
    BY <1>1, <1>3, <2>1, <2>3, Constants DEF Answered
  <2>5. QED
    BY <1>1, <2>2, <2>4 DEF Known, Gone
<1>7. CASE t \in DOMAIN cycle.answers \ told
  BY <1>5, <1>7 DEF Known
<1>8. CASE t \notin DOMAIN cycle.answers
  <2>1. checked'[t] = checked[t] /\ checked[t] # None /\ cycle.since - checked[t].at < Ttl
    BY <1>4, <1>8 DEF Asked
  <2>2. checked[t].at \in Nat /\ (Gone(t) => goneAt[t] \in Nat)
        /\ (checked[t].exists /\ checked[t].sure /\ Gone(t) => goneAt[t] >= checked[t].at - ProbeTime)
    BY <2>1 DEF DeletionInv, WorldInv
  <2>3. checked[t].exists /\ checked[t].sure /\ Gone(t) => now - goneAt[t] < Ttl + 2 * ProbeTime
    BY <1>1, <1>3, <2>1, <2>2, Constants
  <2>4. QED
    BY <1>1, <2>1, <2>3 DEF Known, Gone
<1>9. QED
  BY <1>6, <1>7, <1>8

LEMMA ToldKnows ==
    ASSUME DeletionInv, NEW phase \in {"skeets", "images"}, Told(phase)
    PROVE  WorldInv' /\ CycleInv'
<1> DEFINE told == {u \in DOMAIN cycle.answers : cycle.answers[u] # None}
<1>1. UNCHANGED <<now, goneAt>> /\ now \in Nat /\ cycle.phase = Probing(phase)
  BY DEF Told, DeletionInv, ImagesInv
<1>2. cycle # NoCycle
  <2>1. NoCycle.phase = "idle"
    BY DEF NoCycle
  <2>2. cycle.phase # "idle"
    BY <1>1 DEF Probing
  <2>3. QED
    BY <2>1, <2>2
<1>3. /\ DOMAIN cycle' = Fields /\ cycle' = [f \in Fields |-> cycle'[f]]
      /\ cycle'.phase = (IF phase = "skeets" THEN "images" ELSE "writing")
      /\ cycle'.answers = <<>> /\ cycle'.since = cycle.since
      /\ cycle'.list = cycle.list /\ cycle'.lost = cycle.lost \cup (DOMAIN cycle.answers \ told)
  BY <1>2 DEF DeletionInv, CycleInv, Fields, Told
<1>4. cycle.since \in Nat /\ cycle.since <= now /\ now - cycle.since <= ProbeTime
      /\ Posts \subseteq Target /\ Urls \subseteq Target
      /\ \A u \in DOMAIN cycle.answers : Answered(u)
  BY <1>2 DEF DeletionInv, CycleInv
<1>5. checked' = [t \in Target |->
        IF t \in told
        THEN [at |-> now, exists |-> cycle.answers[t].exists, sure |-> cycle.answers[t].sure]
        ELSE checked[t]]
  BY DEF Told
<1>6. WorldInv'
  <2>1. ASSUME NEW t \in Target
        PROVE  /\ Gone(t)' => goneAt'[t] \in Nat /\ goneAt'[t] <= now'
               /\ checked'[t] # None =>
                    /\ checked'[t] \in [at : Nat, exists : BOOLEAN, sure : BOOLEAN] /\ checked'[t].at <= now'
                    /\ checked'[t].exists /\ checked'[t].sure /\ Gone(t)' =>
                        goneAt'[t] >= checked'[t].at - ProbeTime
    <3>0. Gone(t)' = Gone(t) /\ (Gone(t) => goneAt[t] \in Nat /\ goneAt[t] <= now)
      BY <1>1 DEF Gone, DeletionInv, WorldInv
    <3>1. CASE t \in told
      <4>1. Answered(t) /\ cycle.answers[t] \in Verdict
        BY <1>4, <3>1 DEF Answered
      <4>2. checked'[t] = [at |-> now, exists |-> cycle.answers[t].exists, sure |-> cycle.answers[t].sure]
        BY <1>5, <3>1
      <4>3. checked'[t] \in [at : Nat, exists : BOOLEAN, sure : BOOLEAN]
        BY <1>1, <4>1, <4>2 DEF Verdict
      <4>4. cycle.answers[t].exists /\ cycle.answers[t].sure /\ Gone(t) => goneAt[t] >= now - ProbeTime
        BY <1>1, <1>4, <3>0, <3>1, <4>1, Constants DEF Answered
      <4>5. checked'[t].at = now /\ checked'[t].exists = cycle.answers[t].exists
            /\ checked'[t].sure = cycle.answers[t].sure
        BY <4>2
      <4>6. QED
        BY <1>1, <3>0, <4>3, <4>4, <4>5
    <3>2. CASE t \notin told
      <4>1. checked'[t] = checked[t]
        BY <1>5, <3>2
      <4>2. QED
        BY <1>1, <3>0, <4>1 DEF DeletionInv, WorldInv
    <3>3. QED
      BY <3>1, <3>2
  <2>2. QED
    BY <1>1, <1>5, <2>1 DEF DeletionInv, WorldInv
<1>7. Posts' = Posts /\ Urls' = Urls /\ DOMAIN cycle'.answers = {}
  BY <1>3 DEF Posts, Urls
<1>8. CASE phase = "skeets"
  <2>1. cycle.phase = "probing skeets" /\ cycle'.phase = "images"
    BY <1>1, <1>3, <1>8 DEF Probing
  <2>2. \A t \in Posts : Asked(t) /\ t \in Target
    BY <1>2, <1>4, <2>1 DEF DeletionInv, CycleInv
  <2>3. \A t \in Posts : Known(t, 2 * ProbeTime)'
    BY <1>8, <2>2, ToldIsKnown
  <2>4. QED
    BY <1>1, <1>3, <1>4, <1>6, <1>7, <2>1, <2>3 DEF CycleInv, Phases
<1>9. CASE phase = "images"
  <2>1. cycle.phase = "probing images" /\ cycle'.phase = "writing"
    BY <1>1, <1>3, <1>9 DEF Probing
  <2>2. \A t \in Urls : Asked(t) /\ t \in Target
    BY <1>2, <1>4, <2>1 DEF DeletionInv, CycleInv
  <2>3. \A t \in Urls : Known(t, 2 * ProbeTime)'
    BY <1>9, <2>2, ToldIsKnown
  <2>4. ASSUME NEW t \in Posts PROVE Known(t, 3 * ProbeTime)'
    <3>1. Known(t, 2 * ProbeTime + (now - cycle.since)) /\ t \in Target
          /\ DOMAIN cycle.answers \subseteq Urls
      BY <1>2, <1>4, <2>1 DEF DeletionInv, CycleInv
    <3>2. t \notin told
      BY <3>1, PostsAreNoUrls
    <3>3. checked'[t] = checked[t] /\ (Gone(t) => goneAt[t] \in Nat)
      BY <1>5, <3>1, <3>2 DEF DeletionInv, WorldInv
    <3>4. QED
      BY <1>1, <1>3, <1>4, <3>1, <3>3, Constants DEF Known, Gone
  <2>5. QED
    BY <1>1, <1>3, <1>4, <1>6, <1>7, <2>1, <2>3, <2>4 DEF CycleInv, Phases
<1>10. QED
  BY <1>8, <1>9

LEMMA DeletionNext == ASSUME DeletionInv, [Next]_vars PROVE DeletionInv'
<1>1. ImagesInv' /\ ImagesInv
  BY ImagesStep DEF DeletionInv
<1>2. CASE UNCHANGED <<now, goneAt, checked, cycle>>
  BY <1>1, <1>2, WorldRests, CycleRests DEF DeletionInv
<1>3. CASE Tick
  BY <1>1, <1>3, TickKnows DEF DeletionInv
<1>4. CASE \E t \in Target : Delete(t)
  BY <1>1, <1>4, DeleteKnows DEF DeletionInv
<1>5. CASE Begin
  BY <1>1, <1>5, BeginKnows DEF DeletionInv
<1>6. CASE \E phase \in {"skeets", "images"} : Probe(phase) \/ Told(phase)
  BY <1>1, <1>6, ProbeKnows, ToldKnows DEF DeletionInv
<1>7. CASE Write
  <2>1. UNCHANGED <<now, goneAt, checked>> /\ cycle' = NoCycle
    BY <1>7 DEF Write
  <2>2. QED
    BY <1>1, <2>1, WorldRests DEF DeletionInv, CycleInv
<1>8. CASE Restart
  <2>1. UNCHANGED <<now, goneAt>> /\ cycle' = NoCycle /\ checked' = [t \in Target |-> None]
    BY <1>8 DEF Restart
  <2>2. WorldInv'
    BY <2>1 DEF DeletionInv, WorldInv, Gone
  <2>3. QED
    BY <1>1, <2>1, <2>2 DEF DeletionInv, CycleInv
<1>9. CASE UNCHANGED vars
  BY <1>2, <1>9 DEF vars, publishing
<1>10. CASE Lose \/ OpenAdmin \/ NextPage \/ Appraise
  BY <1>2, <1>10 DEF Lose, OpenAdmin, NextPage, Appraise, AppraiseImage, AppraiseSkeet, publishing
<1>11. CASE \/ \E i \in Image, s \in Skeet, stamp \in 0 .. now : Save(i, s, stamp)
            \/ \E i \in Image, x \in 0 .. Scale, model \in Models : Score(i, x, model)
  BY <1>2, <1>11 DEF Save, Score, publishing
<1>12. QED
  BY <1>3, <1>4, <1>5, <1>6, <1>7, <1>8, <1>9, <1>10, <1>11 DEF Next

LEMMA DeletionInvariant == Spec => []DeletionInv
<1>1. Init => DeletionInv
  BY ImagesInit DEF Init, DeletionInv, WorldInv, CycleInv, Gone
<1>2. QED
  BY <1>1, DeletionNext, PTL DEF Spec

\* What is written as live has not been gone for longer than the TTL and the
\* batches of probes take (existence.rs:85-89).
THEOREM DeletionsAreSeen == Spec => DeletionIsSeen
<1> DEFINE seen(t, batches) ==
                \/ t \in cycle.lost \/ ~checked[t].sure
                \/ goneAt[t] = None \/ now - goneAt[t] < Ttl + batches * ProbeTime
<1>1. ASSUME DeletionInv, Write, NEW n \in DOMAIN cycle.list, published'.list[n].live
      PROVE  seen(Post(cycle.list[n].skeet), 3) /\ seen(Url(cycle.list[n].image), 2)
  <2>1. cycle # NoCycle /\ cycle.phase = "writing"
    BY <1>1 DEF Write, NoCycle
  <2>2. Known(Post(cycle.list[n].skeet), 3 * ProbeTime) /\ Known(Url(cycle.list[n].image), 2 * ProbeTime)
        /\ Post(cycle.list[n].skeet) \in Target /\ Url(cycle.list[n].image) \in Target
    BY <1>1, <2>1 DEF DeletionInv, CycleInv, Posts, Urls
  <2>3. published'.list[n].live =
            (Exists(Post(cycle.list[n].skeet)) /\ Exists(Url(cycle.list[n].image)))
    BY <1>1 DEF Write
  <2>4. ASSUME NEW t, NEW delay, Known(t, delay), Exists(t)
        PROVE  t \in cycle.lost \/ ~checked[t].sure \/ goneAt[t] = None
               \/ now - goneAt[t] < Ttl + delay
    BY <2>4 DEF Known, Exists, Gone
  <2>5. QED
    BY <1>1, <2>2, <2>3, <2>4
<1>2. DeletionInv /\ [Next]_vars => [Write =>
        \A n \in {k \in DOMAIN cycle.list : published'.list[k].live} :
            seen(Post(cycle.list[n].skeet), 3) /\ seen(Url(cycle.list[n].image), 2)]_vars
  BY <1>1
<1>3. QED
  BY <1>2, DeletionInvariant, PTL DEF Spec, DeletionIsSeen

-----------------------------------------------------------------------------
(* The list and the pages.                                                 *)

LEMMA ImageBandType ==
    ASSUME NEW e, NEW manual \in Band \cup {None} PROVE ImageBand(e, manual) \in Band
<1>1. \A n : FromNormalized(n) \in Band
  BY DEF FromNormalized, Band
<1>2. MediumLow \in Band
  BY DEF Band
<1>3. QED
  BY <1>1, <1>2 DEF ImageBand

LEMMA SkeetBandType ==
    ASSUME NEW manual \in Band \cup {None}, NEW b \in Band PROVE SkeetBand(manual, {b}) \in Band
<1> DEFINE all == {b} \cup ({manual} \ {None})
<1>1. all \in SUBSET Band /\ all # {}
  OBVIOUS
<1>2. SkeetBand(manual, {b}) = Min(all)
  BY DEF SkeetBand
<1> HIDE DEF all
<1>3. QED
  BY <1>1, <1>2, MinOfBands

LEMMA BandsAreNumbers == Band \subseteq Int /\ None \notin Band
BY RankingConstants DEF Band, Low, MediumLow, MediumHigh, HighQuality

\* Entries of a post that shows are in a band that shows, each by itself.
LEMMA VisibleEntryShows ==
    ASSUME NEW entries, NEW im, NEW sm, NEW k \in VisibleEntries(entries, im, sm),
           \A i \in DOMAIN entries :
                im[entries[i].image] \in Band \cup {None} /\ sm[entries[i].skeet] \in Band \cup {None}
    PROVE  IsVisibleInFeed(RankBand(entries[k], im, sm))
<1> DEFINE of == {i \in DOMAIN entries : entries[i].skeet = entries[k].skeet}
           band(i) == ImageBand(entries[i], im[entries[i].image])
           manual == sm[entries[k].skeet]
<1>1. k \in DOMAIN entries /\ entries[k].skeet \in VisibleSkeets(entries, im, sm)
  BY DEF VisibleEntries
<1>2. IsVisibleInFeed(SkeetBand(manual, {band(i) : i \in of}))
  BY <1>1, Zenon DEF VisibleSkeets
<1>3. \A i \in DOMAIN entries : band(i) \in Band
  BY ImageBandType
<1>4. {band(i) : i \in of} \in SUBSET Band /\ manual \in Band \cup {None} /\ band(k) \in {band(i) : i \in of}
  BY <1>1, <1>3
<1> HIDE DEF band, manual
<1>5. IsVisibleInFeed(band(k)) /\ (manual # None => IsVisibleInFeed(manual))
  BY <1>2, <1>4, PostIsAsItsWorstImage
<1>6. {band(k)} \in SUBSET Band /\ {band(k)} # {} /\ \A b \in {band(k)} : IsVisibleInFeed(b)
  BY <1>1, <1>3, <1>5
<1>7. IsVisibleInFeed(SkeetBand(manual, {band(k)}))
  BY <1>4, <1>5, <1>6, PostIsAsItsWorstImage
<1>8. QED
  BY <1>7 DEF RankBand, band, manual

LEMMA Criteria ==
    ASSUME NEW criteria \in {<<"band", "score">>, <<"band", "time", "score">>}
    PROVE  /\ criteria[1] = "band" /\ Len(criteria) \in Nat /\ Len(criteria) >= 1
           /\ DOMAIN criteria = 1 .. Len(criteria)
           /\ \A j \in DOMAIN criteria : criteria[j] \in {"band", "time", "score"}
<1>1. CASE criteria = <<"band", "score">>
  BY <1>1
<1>2. CASE criteria = <<"band", "time", "score">>
  BY <1>2
<1>3. QED
  BY <1>1, <1>2

\* If the first criterion that does not tie is won, the band is not lost.
LEMMA BandIsFirst ==
    ASSUME NEW criteria \in {<<"band", "score">>, <<"band", "time", "score">>},
           NEW won, NEW lost,
           \/ \E k \in DOMAIN criteria :
                (\A j \in 1 .. (k - 1) : criteria[j] \notin won /\ criteria[j] \notin lost) /\ criteria[k] \in won
           \/ \A j \in 1 .. Len(criteria) : criteria[j] \notin won /\ criteria[j] \notin lost
    PROVE  "band" \in won \/ "band" \notin lost
<1>1. criteria[1] = "band" /\ Len(criteria) \in Nat /\ Len(criteria) >= 1 /\ DOMAIN criteria = 1 .. Len(criteria)
  BY Criteria
<1>2. 1 \in 1 .. Len(criteria)
  BY <1>1
<1>3. CASE \A j \in 1 .. Len(criteria) : criteria[j] \notin won /\ criteria[j] \notin lost
  BY <1>1, <1>2, <1>3
<1>4. ASSUME NEW k \in DOMAIN criteria,
             \A j \in 1 .. (k - 1) : criteria[j] \notin won /\ criteria[j] \notin lost,
             criteria[k] \in won
      PROVE  "band" \in won \/ "band" \notin lost
  <2>1. k \in Nat /\ k >= 1
    BY <1>1
  <2>2. CASE k = 1
    BY <1>1, <1>4, <2>2
  <2>3. CASE k > 1
    <3>1. 1 \in 1 .. (k - 1)
      BY <2>1, <2>3
    <3>2. QED
      BY <1>1, <1>4, <3>1
  <2>4. QED
    BY <2>1, <2>2, <2>3
<1>5. QED
  BY <1>3, <1>4

LEMMA NotBelow == \A a, b \in Int : a > b \/ ~(b > a) => a >= b
OBVIOUS

LEMMA Earlier == \A n \in Nat : \A k \in 1 .. n : \A j \in 1 .. (k - 1) : j \in 1 .. n
OBVIOUS

Wins(c, x, y, im, sm) ==
    CASE c = "band"  -> RankBand(x, im, sm) > RankBand(y, im, sm)
      [] c = "time"  -> x.original > y.original
      [] c = "score" -> Above(NormalizedScore(x), NormalizedScore(y))

\* A list by quality has the better bands first.
LEMMA PrecedesByBand ==
    ASSUME NEW order \in {"quality", "quality,recency"}, NEW e, NEW f, NEW im, NEW sm,
           RankBand(e, im, sm) \in Int, RankBand(f, im, sm) \in Int,
           Precedes(order, e, f, im, sm)
    PROVE  RankBand(e, im, sm) >= RankBand(f, im, sm)
<1>1. PICK criteria : criteria = CASE order = "recency" -> <<"time">>
                      [] order = "quality" -> <<"band", "score">>
                      [] order = "quality,recency" -> <<"band", "time", "score">>
  OBVIOUS
<1>2. criteria \in {<<"band", "score">>, <<"band", "time", "score">>}
  BY <1>1
<1>3. \/ \E k \in DOMAIN criteria :
            (\A j \in 1 .. (k - 1) : ~Wins(criteria[j], e, f, im, sm) /\ ~Wins(criteria[j], f, e, im, sm))
            /\ Wins(criteria[k], e, f, im, sm)
      \/ \A j \in 1 .. Len(criteria) : ~Wins(criteria[j], e, f, im, sm) /\ ~Wins(criteria[j], f, e, im, sm)
  BY <1>1, Zenon DEF Precedes, Wins
<1>4. PICK won : won = {c \in {"band", "time", "score"} : Wins(c, e, f, im, sm)}
  OBVIOUS
<1>5. PICK lost : lost = {c \in {"band", "time", "score"} : Wins(c, f, e, im, sm)}
  OBVIOUS
<1>6. DOMAIN criteria = 1 .. Len(criteria) /\ Len(criteria) \in Nat
      /\ \A j \in DOMAIN criteria : criteria[j] \in {"band", "time", "score"}
  BY <1>2, Criteria
<1>7. \A j \in DOMAIN criteria :
        ~Wins(criteria[j], e, f, im, sm) /\ ~Wins(criteria[j], f, e, im, sm) =>
            criteria[j] \notin won /\ criteria[j] \notin lost
  BY <1>4, <1>5, Zenon
<1>8. \/ \E k \in DOMAIN criteria :
            (\A j \in 1 .. (k - 1) : criteria[j] \notin won /\ criteria[j] \notin lost) /\ criteria[k] \in won
      \/ \A j \in 1 .. Len(criteria) : criteria[j] \notin won /\ criteria[j] \notin lost
  <2>1. ASSUME NEW k \in DOMAIN criteria,
               \A j \in 1 .. (k - 1) :
                    ~Wins(criteria[j], e, f, im, sm) /\ ~Wins(criteria[j], f, e, im, sm),
               Wins(criteria[k], e, f, im, sm)
        PROVE  (\A j \in 1 .. (k - 1) : criteria[j] \notin won /\ criteria[j] \notin lost) /\ criteria[k] \in won
    <3>2. \A j \in 1 .. (k - 1) : j \in DOMAIN criteria
      BY <1>6, Earlier, Zenon
    <3>3. criteria[k] \in won
      BY <1>4, <1>6, <2>1
    <3>4. QED
      BY <1>7, <2>1, <3>2, <3>3
  <2>2. ASSUME \A j \in 1 .. Len(criteria) :
                    ~Wins(criteria[j], e, f, im, sm) /\ ~Wins(criteria[j], f, e, im, sm)
        PROVE  \A j \in 1 .. Len(criteria) : criteria[j] \notin won /\ criteria[j] \notin lost
    BY <1>6, <1>7, <2>2
  <2>3. QED
    BY <1>3, <2>1, <2>2
<1>9. "band" \in won \/ "band" \notin lost
  BY <1>2, <1>8, BandIsFirst
<1>10. RankBand(e, im, sm) > RankBand(f, im, sm) \/ ~(RankBand(f, im, sm) > RankBand(e, im, sm))
  BY <1>4, <1>5, <1>9 DEF Wins
<1>11. QED
  BY <1>10, NotBelow, Zenon

\* A list of which nothing has changed since it was begun.
Agrees(list) ==
    /\ \A n \in DOMAIN list :
        /\ \E k \in DOMAIN images : images[k].image = list[n].image /\ images[k].skeet = list[n].skeet
        /\ scores[list[n].image] # None
        /\ IsVisibleInFeed(HomeBand(list[n]))
    /\ Order # "recency" => \A m, n \in DOMAIN list :
        m < n => HomeBand(list[m]) >= HomeBand(list[n])

AgreeInv ==
    /\ version \in Nat
    /\ imageManual \in [Image -> Band \cup {None}]
    /\ skeetManual \in [Skeet -> Band \cup {None}]
    /\ cycle # NoCycle =>
        /\ DOMAIN cycle = {"phase", "version", "since", "lost", "answers", "list"}
        /\ cycle.version \in Nat /\ cycle.version <= version
        /\ cycle.version = version => Agrees(cycle.list)
    /\ published.version # None =>
        /\ published.version \in Nat /\ published.version <= version
        /\ published.version = version => Agrees(published.list)

\* What changes a score or an appraisal makes all lists old.
LEMMA ChangeAgrees ==
    ASSUME AgreeInv, version' = version + 1, UNCHANGED <<cycle, published>>,
           imageManual' \in [Image -> Band \cup {None}],
           skeetManual' \in [Skeet -> Band \cup {None}]
    PROVE  AgreeInv'
<1>1. version \in Nat /\ version' \in Nat
  BY DEF AgreeInv
<1>2. cycle # NoCycle => cycle.version \in Nat /\ cycle.version < version'
  BY <1>1 DEF AgreeInv
<1>3. published.version # None => published.version \in Nat /\ published.version < version'
  BY <1>1 DEF AgreeInv
<1>4. QED
  BY <1>1, <1>2, <1>3 DEF AgreeInv

LEMMA BeginAgrees == ASSUME ImagesInv, AgreeInv, Begin PROVE AgreeInv'
<1>1. UNCHANGED <<images, scores, imageManual, skeetManual, version, published>>
  BY DEF Begin, store
<1>2. PICK list \in PublishedForSpec(Order, now - Window, Fetched, imageManual, skeetManual) :
        /\ cycle' = [phase |-> "skeets", version |-> version, since |-> now, lost |-> {},
                     answers |-> <<>>,
                     list |-> [n \in DOMAIN list |->
                                    [image |-> list[n].image, skeet |-> list[n].skeet]]]
        /\ \A n \in DOMAIN list : \E k \in DOMAIN images :
            k \in VisibleEntries(Fetched, imageManual, skeetManual)
            /\ list[n] = Fetched[k] /\ IsScored(k)
            /\ list[n].image = images[k].image /\ list[n].skeet = images[k].skeet
  BY BegunAreRows
<1>3. /\ DOMAIN cycle' = {"phase", "version", "since", "lost", "answers", "list"}
      /\ cycle'.version = version
      /\ cycle'.list = [n \in DOMAIN list |-> [image |-> list[n].image, skeet |-> list[n].skeet]]
  BY <1>2
<1>4. \A m, n \in DOMAIN list :
        m < n => Precedes(Order, list[m], list[n], imageManual, skeetManual)
  BY ListIsOfEntries
<1>5. ASSUME NEW k \in DOMAIN Fetched
      PROVE  /\ k \in DOMAIN images
             /\ Fetched[k].image = images[k].image /\ Fetched[k].skeet = images[k].skeet
             /\ Fetched[k].score = scores[images[k].image].score
             /\ Fetched[k].model = scores[images[k].image].model
             /\ imageManual[Fetched[k].image] \in Band \cup {None}
             /\ skeetManual[Fetched[k].skeet] \in Band \cup {None}
  <2>1. /\ k \in DOMAIN images
        /\ Fetched[k].image = images[k].image /\ Fetched[k].skeet = images[k].skeet
        /\ Fetched[k].score = scores[images[k].image].score
        /\ Fetched[k].model = scores[images[k].image].model
    BY DEF Fetched, Joined, Windowed
  <2>2. QED
    BY <2>1, RowType DEF AgreeInv
<1>6. ASSUME NEW n \in DOMAIN list
      PROVE  /\ \E k \in DOMAIN images :
                    images[k].image = list[n].image /\ images[k].skeet = list[n].skeet
             /\ scores[list[n].image] # None
             /\ HomeBand(list[n]) = RankBand(list[n], imageManual, skeetManual)
             /\ HomeBand(list[n]) \in Band
             /\ IsVisibleInFeed(HomeBand(list[n]))
  <2>1. PICK k \in DOMAIN images :
            k \in VisibleEntries(Fetched, imageManual, skeetManual)
            /\ list[n] = Fetched[k] /\ IsScored(k)
            /\ list[n].image = images[k].image /\ list[n].skeet = images[k].skeet
    BY <1>2
  <2>2. k \in DOMAIN Fetched
    BY <2>1 DEF VisibleEntries
  <2>3. scores[list[n].image] # None
    BY <2>1 DEF IsScored
  <2>4. NormalizedScore(list[n]) = NormalizedScore(scores[list[n].image])
    BY <1>5, <2>1, <2>2 DEF NormalizedScore
  <2>5. ImageBand(list[n], imageManual[list[n].image])
            = ImageBand(scores[list[n].image], imageManual[list[n].image])
    BY <2>4 DEF ImageBand
  <2>6. HomeBand(list[n]) = RankBand(list[n], imageManual, skeetManual)
    BY <2>5 DEF HomeBand, RankBand
  <2>7. HomeBand(list[n]) \in Band
    BY <1>5, <2>1, <2>2, ImageBandType, SkeetBandType DEF HomeBand
  <2>8. IsVisibleInFeed(RankBand(Fetched[k], imageManual, skeetManual))
    BY <1>5, <2>1, VisibleEntryShows
  <2>9. QED
    BY <2>1, <2>3, <2>6, <2>7, <2>8
<1>7. ASSUME Order # "recency", NEW m \in DOMAIN list, NEW n \in DOMAIN list, m < n
      PROVE  HomeBand(list[m]) >= HomeBand(list[n])
  <2>1. Order \in {"quality", "quality,recency"}
    BY <1>7, CurationConstants
  <2>2. Precedes(Order, list[m], list[n], imageManual, skeetManual)
    BY <1>4, <1>7
  <2>3. RankBand(list[m], imageManual, skeetManual) \in Int
        /\ RankBand(list[n], imageManual, skeetManual) \in Int
    BY <1>6, BandsAreNumbers
  <2>4. RankBand(list[m], imageManual, skeetManual) >= RankBand(list[n], imageManual, skeetManual)
    BY <2>1, <2>2, <2>3, PrecedesByBand
  <2>5. QED
    BY <1>6, <2>4
<1>8. \A n \in DOMAIN list : cycle'.list[n].image = list[n].image /\ cycle'.list[n].skeet = list[n].skeet
  BY <1>3
<1>9. \A n \in DOMAIN list : HomeBand(cycle'.list[n]) = HomeBand(list[n])
  BY <1>8 DEF HomeBand
<1>10. Agrees(cycle'.list)
  <2>1. DOMAIN cycle'.list = DOMAIN list
    BY <1>3
  <2>2. QED
    BY <1>6, <1>7, <1>8, <1>9, <2>1 DEF Agrees
<1>11. \A l : Agrees(l) => Agrees(l)'
  BY <1>1 DEF Agrees, HomeBand
<1>12. QED
  BY <1>1, <1>3, <1>10, <1>11 DEF AgreeInv

LEMMA WriteAgrees == ASSUME ImagesInv, AgreeInv, Write PROVE AgreeInv'
<1>1. UNCHANGED <<images, scores, imageManual, skeetManual, version>> /\ cycle' = NoCycle
      /\ cycle # NoCycle
  <2>1. NoCycle.phase = "idle"
    BY DEF NoCycle
  <2>2. QED
    BY <2>1 DEF Write, store
<1>2. published'.version = cycle.version /\ DOMAIN published'.list = DOMAIN cycle.list
      /\ \A n \in DOMAIN cycle.list : published'.list[n].image = cycle.list[n].image
                                  /\ published'.list[n].skeet = cycle.list[n].skeet
  BY DEF Write
<1>3. \A n \in DOMAIN cycle.list : HomeBand(published'.list[n]) = HomeBand(cycle.list[n])
  BY <1>2 DEF HomeBand
<1>4. Agrees(cycle.list) => Agrees(published'.list)
  BY <1>2, <1>3 DEF Agrees
<1>5. \A l : Agrees(l) => Agrees(l)'
  BY <1>1 DEF Agrees, HomeBand
<1>6. QED
  BY <1>1, <1>2, <1>4, <1>5 DEF AgreeInv

LEMMA AgreeNext == ASSUME ImagesInv, AgreeInv, [Next]_vars PROVE AgreeInv'
<1>1. Grows
  BY ImagesStep
<1>2. CASE UNCHANGED <<scores, imageManual, skeetManual, version, published>>
           /\ (UNCHANGED cycle \/ cycle' = NoCycle
               \/ (cycle # NoCycle /\ DOMAIN cycle' = DOMAIN cycle
                   /\ cycle'.version = cycle.version /\ cycle'.list = cycle.list))
  <2>1. \A l : Agrees(l) => Agrees(l)'
    <3>1. \A item : HomeBand(item)' = HomeBand(item)
      BY <1>2 DEF HomeBand
    <3>2. QED
      BY <1>1, <1>2, <3>1 DEF Agrees, Grows
  <2>2. QED
    BY <1>2, <2>1 DEF AgreeInv
<1>3. CASE Begin
  BY <1>3, BeginAgrees
<1>4. CASE Write
  BY <1>4, WriteAgrees
<1>5. CASE Lose
  <2>1. UNCHANGED <<scores, imageManual, skeetManual, version, cycle, images>> /\ published'.version = None
    BY <1>5 DEF Lose, store
  <2>2. \A l : Agrees(l) => Agrees(l)'
    BY <2>1 DEF Agrees, HomeBand
  <2>3. QED
    BY <2>1, <2>2 DEF AgreeInv
<1>6. CASE Appraise
  <2>1. ASSUME NEW band \in Band \cup {None}, NEW i \in Image, AppraiseImage(i, band) PROVE AgreeInv'
    <3>1. version' = version + 1 /\ UNCHANGED <<cycle, published, skeetManual>>
          /\ imageManual' = [imageManual EXCEPT ![i] = band]
      BY <2>1 DEF AppraiseImage, publishing
    <3>2. imageManual' \in [Image -> Band \cup {None}] /\ skeetManual' \in [Skeet -> Band \cup {None}]
      BY <3>1 DEF AgreeInv
    <3>3. QED
      BY <3>1, <3>2, ChangeAgrees
  <2>2. ASSUME NEW band \in Band \cup {None}, NEW s \in Skeet, AppraiseSkeet(s, band) PROVE AgreeInv'
    <3>1. version' = version + 1 /\ UNCHANGED <<cycle, published, imageManual>>
          /\ skeetManual' = [skeetManual EXCEPT ![s] = band]
      BY <2>2 DEF AppraiseSkeet, publishing
    <3>2. imageManual' \in [Image -> Band \cup {None}] /\ skeetManual' \in [Skeet -> Band \cup {None}]
      BY <3>1 DEF AgreeInv
    <3>3. QED
      BY <3>1, <3>2, ChangeAgrees
  <2>3. QED
    BY <1>6, <2>1, <2>2 DEF Appraise
<1>7. ASSUME NEW i \in Image, NEW x \in 0 .. Scale, NEW model \in Models, Score(i, x, model) PROVE AgreeInv'
  <2>1. version' = version + 1 /\ UNCHANGED <<cycle, published, imageManual, skeetManual>>
    BY <1>7 DEF Score, publishing
  <2>2. imageManual' \in [Image -> Band \cup {None}] /\ skeetManual' \in [Skeet -> Band \cup {None}]
    BY <2>1 DEF AgreeInv
  <2>3. QED
    BY <2>1, <2>2, ChangeAgrees
<1>8. CASE Tick \/ OpenAdmin \/ NextPage \/ Restart
  BY <1>2, <1>8 DEF Tick, OpenAdmin, NextPage, Restart, store, publishing
<1>9. CASE \/ \E i \in Image, s \in Skeet, stamp \in 0 .. now : Save(i, s, stamp)
           \/ \E t \in Target : Delete(t)
  BY <1>2, <1>9 DEF Save, Delete, store, publishing
<1>10. CASE \E phase \in {"skeets", "images"} : Probe(phase) \/ Told(phase)
  <2>1. PICK phase \in {"skeets", "images"} : Probe(phase) \/ Told(phase)
    BY <1>10
  <2>2. UNCHANGED <<scores, imageManual, skeetManual, version, published>>
    BY <2>1 DEF Probe, Told, store
  <2>3. cycle # NoCycle
    <3>1. NoCycle.phase = "idle"
      BY DEF NoCycle
    <3>2. cycle.phase # "idle"
      BY <2>1 DEF Probe, Told, Probing
    <3>3. QED
      BY <3>1, <3>2
  <2>4. DOMAIN cycle = {"phase", "version", "since", "lost", "answers", "list"}
    BY <2>3 DEF AgreeInv
  <2>5. DOMAIN cycle' = DOMAIN cycle /\ cycle'.version = cycle.version /\ cycle'.list = cycle.list
    <3>1. CASE Probe(phase)
      BY <2>4, <3>1 DEF Probe
    <3>2. CASE Told(phase)
      BY <2>4, <3>2 DEF Told
    <3>3. QED
      BY <2>1, <3>1, <3>2
  <2>6. QED
    BY <1>2, <2>2, <2>3, <2>5
<1>11. CASE UNCHANGED vars
  BY <1>2, <1>11 DEF vars, store, publishing
<1>12. QED
  BY <1>3, <1>4, <1>5, <1>6, <1>7, <1>8, <1>9, <1>10, <1>11 DEF Next

LEMMA AgreeInvariant == Spec => []AgreeInv
<1>1. Init => AgreeInv
  BY DEF Init, AgreeInv
<1>2. QED
  BY <1>1, AgreeNext, ImagesInvariant, PTL DEF Spec

\* The home page and the admin pages show the bands by which the list was made
\* (feed_snapshot.rs:142-144, admin.rs:195-197).
THEOREM PagesAgree == Spec => []PagesAgreeWithTheList
<1>1. ASSUME ImagesInv, AgreeInv, published.version = version, NEW n \in DOMAIN published.list
      PROVE  /\ IsVisibleInFeed(HomeBand(published.list[n]))
             /\ UpdatedRow(Url(published.list[n].image)).band = HomeBand(published.list[n])
             /\ UpdatedRow(Post(published.list[n].skeet)).manual = skeetManual[published.list[n].skeet]
  <2> DEFINE item == published.list[n]
  <2>1. Agrees(published.list)
    BY <1>1, RankingConstants DEF AgreeInv
  <2>2. PICK k \in DOMAIN images : images[k].image = item.image /\ images[k].skeet = item.skeet
    BY <2>1 DEF Agrees
  <2>3. scores[item.image] # None /\ IsVisibleInFeed(HomeBand(item))
    BY <2>1 DEF Agrees
  <2>4. DOMAIN images \subseteq Nat
    BY <1>1 DEF ImagesInv, Keyed
  <2> HIDE DEF item
  <2>5. AdminBand(item.image, item.skeet) = HomeBand(item)
    <3>1. imageManual[item.image] \in Band \cup {None}
      BY <1>1, <2>2, RowType DEF AgreeInv
    <3>2. ImageBand(scores[item.image], imageManual[item.image]) # None
      BY <3>1, ImageBandType, BandsAreNumbers
    <3>3. QED
      BY <2>3, <3>2 DEF AdminBand, HomeBand
  <2>6. UpdatedRow(Url(item.image)).band = HomeBand(item)
    <3> DEFINE of == {l \in DOMAIN images : AdminRow(l, "image").item = Url(item.image)}
    <3>1. \A l : AdminRow(l, "image").item = Url(images[l].image)
          /\ AdminRow(l, "image").band = AdminBand(images[l].image, images[l].skeet)
      BY DEF AdminRow
    <3>2. \A i, j : Url(i) = Url(j) => i = j
      BY DEF Url
    <3>3. of = {k}
      BY <1>1, <2>2, <3>1, <3>2 DEF ImagesInv, Keyed
    <3>4. UpdatedRow(Url(item.image)) = AdminRow(Min(of), "image")
      BY DEF UpdatedRow, Url
    <3> HIDE DEF of
    <3>5. Min(of) = k
      BY <2>4, <3>3, LeastOf
    <3>6. QED
      BY <2>2, <2>5, <3>1, <3>4, <3>5
  <2>7. UpdatedRow(Post(item.skeet)).manual = skeetManual[item.skeet]
    <3> DEFINE of == {l \in DOMAIN images : AdminRow(l, "skeet").item = Post(item.skeet)}
    <3>1. \A l : AdminRow(l, "skeet").item = Post(images[l].skeet)
          /\ AdminRow(l, "skeet").manual = skeetManual[images[l].skeet]
      BY DEF AdminRow
    <3>2. \A i, j : Post(i) = Post(j) => i = j
      BY DEF Post
    <3>3. of \in SUBSET Nat /\ of # {} /\ \A l \in of : images[l].skeet = item.skeet
      BY <2>2, <2>4, <3>1, <3>2
    <3>4. UpdatedRow(Post(item.skeet)) = AdminRow(Min(of), "skeet")
      BY DEF UpdatedRow, Post
    <3> HIDE DEF of
    <3>5. Min(of) \in of
      BY <3>3, LeastOf
    <3>6. QED
      BY <3>1, <3>3, <3>4, <3>5
  <2>8. QED
    BY <2>3, <2>6, <2>7 DEF item
<1>2. ImagesInv /\ AgreeInv => PagesAgreeWithTheList
  <2> SUFFICES ASSUME ImagesInv, AgreeInv, published.version = version PROVE PagesAgreeWithTheList
    BY DEF PagesAgreeWithTheList
  <2>1. Agrees(published.list)
    BY RankingConstants DEF AgreeInv
  <2>2. Order # "recency" => \A m, n \in HomeItems :
            m < n => HomeBand(published.list[m]) >= HomeBand(published.list[n])
    BY <2>1 DEF Agrees, HomeItems
  <2>3. QED
    BY <1>1, <2>2, Zenon DEF PagesAgreeWithTheList, HomeItems
<1>3. QED
  BY <1>2, ImagesInvariant, AgreeInvariant, PTL

-----------------------------------------------------------------------------
(* Who is served.                                                          *)

\* Of a session the proofs look at who is signed in and where a sign-in is to
\* go on; nobody but an account on the list is ever signed in.
Record(r) ==
    /\ DOMAIN r = {"csrfState", "returnTo", "appraiser"}
    /\ r = [f \in {"csrfState", "returnTo", "appraiser"} |-> r[f]]
    /\ r.appraiser \in Allowed \cup {None}
    /\ r.csrfState # None => r.csrfState \in Nat /\ r.csrfState < logins

Served(u) ==
    ~Site!IsPublic(u.path) => u.as \in Allowed \/ (mode.localAdmin /\ u.as = Site!LocalAdmin)

States == {"idle", "asking", "page", "login", "opening", "github", "exchanging"}

\* A tab that signs in has a number of its own, and after the callback a
\* record that says where it was going.
TabInv(t) ==
    /\ tab[t].at \in States
    /\ tab[t].at = "page" => Served(tab[t])
    /\ tab[t].at = "opening" => Record(tab[t].record)
    /\ tab[t].at = "exchanging" =>
        /\ Record(tab[t].record) /\ tab[t].record.csrfState = None
        /\ tab[t].asked # None => tab[t].record.returnTo = tab[t].asked
    /\ tab[t].at \in {"opening", "github"} => tab[t].state \in Nat /\ tab[t].state < logins
    /\ tab[t].at = "github" /\ session.csrfState = tab[t].state /\ tab[t].asked # None =>
        session.returnTo = tab[t].asked

Numbered(t) == tab[t].at \in {"opening", "github"}

SiteInv ==
    /\ logins \in Nat
    /\ DOMAIN tab = Tab
    /\ tab = [t \in Tab |-> tab[t]]
    /\ Record(session)
    /\ \A t \in Tab : TabInv(t)
    /\ \A t, u \in Tab : Numbered(t) /\ Numbered(u) /\ t # u => tab[t].state # tab[u].state

LEMMA SiteInit == ASSUME Site!AppraiseSiteConstants, Site!Init PROVE SiteInv
<1>1. tab = [t \in Tab |-> Site!Idle] /\ session = Site!NoSession /\ logins = 0
  BY DEF Site!Init
<1>2. Record(session)
  BY <1>1 DEF Record, Site!NoSession
<1>3. \A t \in Tab : tab[t].at = "idle"
  BY <1>1 DEF Site!Idle
<1>4. QED
  BY <1>1, <1>2, <1>3 DEF SiteInv, TabInv, Numbered, States

\* A step of one tab leaves the others as they were, does not overwrite what
\* the callback of another will look for, and does not reuse a number.
Alone(t) ==
    /\ DOMAIN tab' = Tab
    /\ tab' = [u \in Tab |-> tab'[u]]
    /\ \A u \in Tab \ {t} : tab'[u] = tab[u]

KeepsReturns(t) ==
    \A u \in Tab \ {t} : tab[u].at = "github" =>
        session' = session \/ session'.csrfState # tab[u].state

OwnNumber(t) ==
    tab'[t].at \in {"opening", "github"} =>
        \A u \in Tab \ {t} : Numbered(u) => tab[u].state # tab'[t].state

LEMMA AloneStep ==
    ASSUME SiteInv, NEW t \in Tab, NEW new, tab' = [tab EXCEPT ![t] = new]
    PROVE  Alone(t) /\ tab'[t] = new
BY DEF SiteInv, Alone

LEMMA OneTab ==
    ASSUME SiteInv, NEW t \in Tab, Alone(t), mode' = mode, logins' \in Nat, logins <= logins',
           Record(session)', KeepsReturns(t), TabInv(t)', OwnNumber(t)
    PROVE  SiteInv'
<1>1. DOMAIN tab' = Tab /\ tab' = [u \in Tab |-> tab'[u]]
      /\ \A u \in Tab \ {t} : tab'[u] = tab[u]
  BY DEF Alone
<1>2. ASSUME NEW u \in Tab \ {t} PROVE TabInv(u)'
  <2>1. TabInv(u) /\ tab'[u] = tab[u] /\ logins \in Nat
    BY <1>1 DEF SiteInv
  <2>2. \A r : Record(r) => (DOMAIN r = {"csrfState", "returnTo", "appraiser"}
            /\ r = [f \in {"csrfState", "returnTo", "appraiser"} |-> r[f]]
            /\ r.appraiser \in Allowed \cup {None}
            /\ (r.csrfState # None => r.csrfState \in Nat /\ r.csrfState < logins'))
    BY <2>1 DEF Record
  <2>3. Record(tab[u].record) => Record(tab[u].record)'
    BY <2>1, <2>2 DEF Record
  <2>4. Served(tab[u]) => Served(tab[u])'
    BY <2>1 DEF Served
  <2>5. QED
    BY <2>1, <2>3, <2>4 DEF TabInv, KeepsReturns
<1>3. ASSUME NEW u \in Tab, NEW v \in Tab, Numbered(u)', Numbered(v)', u # v
      PROVE  tab'[u].state # tab'[v].state
  <2>1. CASE u = t
    BY <1>1, <1>3, <2>1 DEF Numbered, OwnNumber
  <2>2. CASE v = t
    BY <1>1, <1>3, <2>2 DEF Numbered, OwnNumber
  <2>3. CASE u # t /\ v # t
    BY <1>1, <1>3, <2>3 DEF Numbered, SiteInv
  <2>4. QED
    BY <2>1, <2>2, <2>3
<1>4. QED
  BY <1>1, <1>2, <1>3 DEF SiteInv

\* So does one that neither writes the session nor gives a tab a number.
LEMMA QuietTab ==
    ASSUME SiteInv, NEW t \in Tab, NEW new, tab' = [tab EXCEPT ![t] = new],
           UNCHANGED <<mode, session, logins>>,
           new.at \in {"idle", "asking", "page", "login"},
           new.at = "page" => Served(new)
    PROVE  SiteInv'
<1>1. Record(session)'
  BY DEF SiteInv, Record
<1>2. tab'[t] = new
  BY DEF SiteInv
<1>3. TabInv(t)'
  BY <1>2 DEF TabInv, States, Served
<1>4. KeepsReturns(t) /\ OwnNumber(t) /\ Alone(t)
  BY <1>2, AloneStep DEF KeepsReturns, OwnNumber
<1>5. QED
  BY <1>1, <1>3, <1>4, OneTab DEF SiteInv

LEMMA AnswerServes ==
    ASSUME Site!AppraiseSiteConstants, SiteInv, NEW t \in Tab, Site!Answer(t)
    PROVE  SiteInv'
<1> DEFINE path == tab[t].path
           allowed == Site!IsPublic(path) \/ Site!ResolveAppraiser # None
<1>1. UNCHANGED <<mode, logins>>
  BY DEF Site!Answer
<1>2. allowed => \A u : u.path = path /\ u.as = Site!ResolveAppraiser => Served(u)
  <2>1. session.appraiser \in Allowed \cup {None}
    BY DEF SiteInv, Record
  <2>2. QED
    BY <2>1 DEF Served, Site!ResolveAppraiser
<1>3. CASE ~allowed /\ tab' = [tab EXCEPT ![t] = [at |-> "login", asked |-> path]] /\ UNCHANGED session
  <2>1. [at |-> "login", asked |-> path].at = "login"
    OBVIOUS
  <2>2. QED
    BY <1>1, <1>3, <2>1, QuietTab
<1>4. CASE session' = Site!NoSession
           /\ tab' = [tab EXCEPT ![t] = [at |-> "asking", path |-> [page |-> "home", feed |-> None]]]
  <2>1. Record(session)'
    BY <1>4 DEF Record, Site!NoSession
  <2>2. tab'[t].at = "asking"
    BY <1>4 DEF SiteInv
  <2>3. TabInv(t)'
    BY <2>2 DEF TabInv, States
  <2>4. \A u \in Tab \ {t} : tab[u].at = "github" => session'.csrfState # tab[u].state
    BY <1>4 DEF Site!NoSession, SiteInv, TabInv, Site!AppraiseSiteConstants
  <2>5. Alone(t) /\ KeepsReturns(t) /\ OwnNumber(t)
    BY <1>4, <2>2, <2>4, AloneStep DEF KeepsReturns, OwnNumber
  <2>6. logins' \in Nat /\ logins <= logins' /\ mode' = mode
    BY <1>1 DEF SiteInv
  <2>7. QED
    BY <2>1, <2>3, <2>5, <2>6, OneTab
<1>5. CASE allowed /\ (\E home \in Site!Home(path.feed) : tab' = [tab EXCEPT ![t] = Site!HomePage(t, home)])
           /\ UNCHANGED session
  <2>1. PICK home : tab' = [tab EXCEPT ![t] = Site!HomePage(t, home)]
    BY <1>5
  <2>2. Site!HomePage(t, home).at = "page" /\ Served(Site!HomePage(t, home))
    BY <1>2, <1>5 DEF Site!HomePage
  <2>3. QED
    BY <1>1, <1>5, <2>1, <2>2, QuietTab
<1>6. CASE allowed /\ tab' = [tab EXCEPT ![t] = Site!Page(t)] /\ UNCHANGED session
  <2>1. Site!Page(t).at = "page" /\ Served(Site!Page(t))
    BY <1>2, <1>6 DEF Site!Page
  <2>2. QED
    BY <1>1, <1>6, <2>1, QuietTab
<1>7. QED
  BY <1>3, <1>4, <1>5, <1>6 DEF Site!Answer

LEMMA SiteNext ==
    ASSUME Site!AppraiseSiteConstants, SiteInv, [Site!Next]_(Site!vars)
    PROVE  SiteInv'
<1>0. logins \in Nat
  BY DEF SiteInv
<1>1. CASE UNCHANGED Site!vars
  <2>1. Record(session)'
    BY <1>1 DEF Site!vars, SiteInv, Record
  <2>2. \A t \in Tab : TabInv(t)'
    BY <1>1 DEF Site!vars, SiteInv, TabInv, Record, Served
  <2>3. QED
    BY <1>1, <2>1, <2>2 DEF Site!vars, SiteInv, Numbered
<1>2. ASSUME NEW t \in Tab, NEW path \in Path, Site!Visit(t, path) PROVE SiteInv'
  BY <1>2, QuietTab DEF Site!Visit, Site!Ask
<1>3. ASSUME NEW t \in Tab, Site!Pick(t) PROVE SiteInv'
  <2>1. PICK n \in DOMAIN tab[t].home.options :
            tab' = [tab EXCEPT ![t] = [at |-> "asking", from |-> tab[t].home,
                        path |-> [page |-> "home", feed |-> tab[t].home.options[n].value]]]
    BY <1>3 DEF Site!Pick
  <2>2. UNCHANGED <<mode, session, logins>>
    BY <1>3 DEF Site!Pick
  <2>3. QED
    BY <2>1, <2>2, QuietTab
<1>4. ASSUME NEW t \in Tab, Site!OpenLogin(t) PROVE SiteInv'
  BY <1>4, QuietTab DEF Site!OpenLogin
<1>5. ASSUME NEW t \in Tab, Site!BeginLogin(t) PROVE SiteInv'
  <2>1. CASE mode.oauth
    <3> DEFINE new == [at |-> "opening", asked |-> tab[t].asked, state |-> logins, record |-> session]
    <3>1. tab' = [tab EXCEPT ![t] = new] /\ logins' = logins + 1 /\ UNCHANGED <<mode, session>>
      BY <1>5, <2>1 DEF Site!BeginLogin
    <3>2. Record(session)'
      BY <1>0, <3>1 DEF SiteInv, Record
    <3>3. tab'[t] = new
      BY <3>1 DEF SiteInv
    <3>4. TabInv(t)'
      BY <1>0, <3>1, <3>2, <3>3 DEF TabInv, States, Record
    <3>5. \A u \in Tab \ {t} : Numbered(u) => tab[u].state # new.state
      BY <1>0 DEF SiteInv, TabInv, Numbered
    <3>6. Alone(t) /\ KeepsReturns(t) /\ OwnNumber(t)
      BY <3>1, <3>3, <3>5, AloneStep DEF KeepsReturns, OwnNumber
    <3>7. mode' = mode /\ logins' \in Nat /\ logins <= logins'
      BY <1>0, <3>1
    <3> HIDE DEF new
    <3>8. QED
      BY <3>2, <3>4, <3>6, <3>7, OneTab
  <2>2. CASE ~mode.oauth
    <3>1. tab' = [tab EXCEPT ![t] = Site!Idle] /\ UNCHANGED <<mode, session, logins>>
      BY <1>5, <2>2 DEF Site!BeginLogin
    <3>2. Site!Idle.at = "idle"
      BY DEF Site!Idle
    <3>3. QED
      BY <3>1, <3>2, QuietTab
  <2>3. QED
    BY <2>1, <2>2
<1>6. ASSUME NEW t \in Tab, Site!EndLogin(t) PROVE SiteInv'
  <2> DEFINE new == [at |-> "github", asked |-> tab[t].asked, state |-> tab[t].state]
  <2>1. /\ tab[t].at = "opening" /\ tab' = [tab EXCEPT ![t] = new]
        /\ session' = [tab[t].record EXCEPT !.csrfState = tab[t].state,
                                        !.returnTo = IF tab[t].asked = None THEN @ ELSE tab[t].asked]
        /\ UNCHANGED <<mode, logins>>
    BY <1>6 DEF Site!EndLogin
  <2>2. Record(tab[t].record) /\ tab[t].state \in Nat /\ tab[t].state < logins
    BY <2>1 DEF SiteInv, TabInv
  <2>3. session'.csrfState = tab[t].state
        /\ (tab[t].asked # None => session'.returnTo = tab[t].asked)
        /\ session'.appraiser = tab[t].record.appraiser
        /\ DOMAIN session' = {"csrfState", "returnTo", "appraiser"}
        /\ session' = [f \in {"csrfState", "returnTo", "appraiser"} |-> session'[f]]
    BY <2>1, <2>2 DEF Record
  <2>4. Record(session)'
    BY <2>1, <2>2, <2>3 DEF Record
  <2>5. tab'[t] = new
    BY <2>1 DEF SiteInv
  <2>6. TabInv(t)'
    BY <2>1, <2>2, <2>3, <2>5 DEF TabInv, States
  <2>7. \A u \in Tab \ {t} : Numbered(u) => tab[u].state # tab[t].state
    BY <2>1 DEF SiteInv, Numbered
  <2>8. \A u \in Tab \ {t} : tab[u].at = "github" => session'.csrfState # tab[u].state
    BY <2>3, <2>7 DEF Numbered
  <2>9. Alone(t)
    BY <2>1 DEF SiteInv, Alone
  <2>12. KeepsReturns(t) /\ OwnNumber(t)
    BY <2>5, <2>7, <2>8 DEF KeepsReturns, OwnNumber
  <2>10. mode' = mode /\ logins' \in Nat /\ logins <= logins'
    BY <1>0, <2>1
  <2>11. QED
    BY <2>4, <2>6, <2>9, <2>10, <2>12, OneTab
<1>7. ASSUME NEW t \in Tab, Site!BeginCallback(t) PROVE SiteInv'
  <2>1. tab[t].at = "github" /\ UNCHANGED <<mode, session, logins>>
    BY <1>7 DEF Site!BeginCallback
  <2>2. CASE Site!StateMatches(t)
    <3>1. PICK record : record = [session EXCEPT !.csrfState = None]
      OBVIOUS
    <3>2. tab' = [tab EXCEPT ![t] = [at |-> "exchanging", asked |-> tab[t].asked, record |-> record]]
      BY <1>7, <2>2, <3>1 DEF Site!BeginCallback
    <3>3. Record(session)' /\ Record(session)
      BY <2>1 DEF SiteInv, Record
    <3>4. record.csrfState = None /\ record.returnTo = session.returnTo
          /\ record.appraiser = session.appraiser
          /\ DOMAIN record = {"csrfState", "returnTo", "appraiser"}
          /\ record = [f \in {"csrfState", "returnTo", "appraiser"} |-> record[f]]
      BY <3>1, <3>3 DEF Record
    <3>5. tab'[t].at = "exchanging" /\ tab'[t].asked = tab[t].asked /\ tab'[t].record = record
      BY <3>2 DEF SiteInv
    <3>6. session.appraiser \in Allowed \cup {None}
      BY <3>3 DEF Record
    <3>7. Record(record)'
      BY <3>4, <3>6 DEF Record
    <3>14. tab'[t].record = record /\ (Record(tab[t].record))'
      BY <3>5, <3>7
    <3>8. tab[t].asked # None => session.returnTo = tab[t].asked
      BY <2>1, <2>2 DEF SiteInv, TabInv, Site!StateMatches
    <3>9. TabInv(t)'
      BY <3>4, <3>5, <3>14, <3>8 DEF TabInv, States
    <3>10. Alone(t)
      BY <3>2 DEF SiteInv, Alone
    <3>13. KeepsReturns(t) /\ OwnNumber(t)
      BY <2>1, <3>5 DEF KeepsReturns, OwnNumber
    <3>11. mode' = mode /\ logins' \in Nat /\ logins <= logins'
      BY <1>0, <2>1
    <3>12. QED
      BY <3>3, <3>9, <3>10, <3>11, <3>13, OneTab
  <2>3. CASE ~Site!StateMatches(t)
    <3>1. tab' = [tab EXCEPT ![t] = Site!Idle]
      BY <1>7, <2>3 DEF Site!BeginCallback
    <3>2. QED
      BY <2>1, <3>1, QuietTab DEF Site!Idle
  <2>4. QED
    BY <2>2, <2>3
<1>8. ASSUME NEW t \in Tab, Site!FailExchange(t) PROVE SiteInv'
  BY <1>8, QuietTab DEF Site!FailExchange, Site!Idle
<1>9. ASSUME NEW t \in Tab, NEW account \in Account \cup {None}, Site!EndCallback(t, account)
      PROVE  SiteInv'
  <2>1. tab[t].at = "exchanging" /\ UNCHANGED <<mode, logins>>
    BY <1>9 DEF Site!EndCallback
  <2>2. Record(tab[t].record) /\ tab[t].record.csrfState = None
    BY <2>1 DEF SiteInv, TabInv
  <2>3. /\ Record(session)' /\ session'.csrfState = None
        /\ Alone(t) /\ tab'[t].at \in {"asking", "idle"}
    <3>1. CASE account # None /\ Site!IsAllowed(account)
      <4>1. PICK path : tab' = [tab EXCEPT ![t] = [at |-> "asking", path |-> path]]
        BY <1>9, <3>1 DEF Site!EndCallback
      <4>2. session' = [tab[t].record EXCEPT !.appraiser = account, !.returnTo = None]
        BY <1>9, <3>1 DEF Site!EndCallback
      <4>3. session'.csrfState = None /\ session'.appraiser = account
            /\ DOMAIN session' = {"csrfState", "returnTo", "appraiser"}
            /\ session' = [f \in {"csrfState", "returnTo", "appraiser"} |-> session'[f]]
        BY <2>2, <4>2 DEF Record
      <4>4. Record(session)'
        BY <3>1, <4>3 DEF Record, Site!IsAllowed
      <4>5. Alone(t) /\ tab'[t].at = "asking"
        BY <4>1 DEF SiteInv, Alone
      <4>6. QED
        BY <4>3, <4>4, <4>5
    <3>2. CASE ~(account # None /\ Site!IsAllowed(account))
      <4>1. session' = tab[t].record /\ tab' = [tab EXCEPT ![t] = Site!Idle]
        BY <1>9, <3>2 DEF Site!EndCallback
      <4>2. Record(session)'
        BY <2>1, <2>2, <4>1 DEF Record
      <4>3. Alone(t) /\ tab'[t].at = "idle"
        BY <4>1 DEF SiteInv, Alone, Site!Idle
      <4>4. QED
        BY <2>2, <4>1, <4>2, <4>3
    <3>3. QED
      BY <3>1, <3>2
  <2>4. TabInv(t)'
    BY <2>3 DEF TabInv, States
  <2>5. \A u \in Tab \ {t} : tab[u].at = "github" => session'.csrfState # tab[u].state
    BY <2>3 DEF SiteInv, TabInv, Site!AppraiseSiteConstants
  <2>6. KeepsReturns(t) /\ OwnNumber(t) /\ mode' = mode /\ logins' \in Nat /\ logins <= logins'
    BY <1>0, <2>1, <2>3, <2>5 DEF KeepsReturns, OwnNumber
  <2>7. QED
    BY <2>3, <2>4, <2>6, OneTab
<1>10. CASE Site!Restart
  <2>1. UNCHANGED <<mode, logins>>
        /\ tab' = [t \in Tab |-> IF tab[t].at \in {"opening", "exchanging", "asking"} THEN Site!Idle ELSE tab[t]]
        /\ session' \in {session, Site!NoSession}
    BY <1>10 DEF Site!Restart
  <2>2. Record(session)' /\ (session' = session \/ session'.csrfState = None)
    BY <2>1 DEF SiteInv, Record, Site!NoSession
  <2>3. ASSUME NEW t \in Tab PROVE TabInv(t)'
    <3>1. CASE tab'[t] = Site!Idle
      BY <3>1 DEF TabInv, Site!Idle, States
    <3>2. CASE tab'[t] = tab[t] /\ tab[t].at \notin {"opening", "exchanging"}
      <4>1. TabInv(t)
        BY DEF SiteInv
      <4>2. QED
        BY <2>1, <2>2, <3>2, <4>1 DEF TabInv, Served, Site!AppraiseSiteConstants
    <3>3. QED
      BY <2>1, <3>1, <3>2
  <2>4. \A t \in Tab : Numbered(t)' => Numbered(t) /\ tab'[t] = tab[t]
    BY <2>1 DEF Numbered, Site!Idle
  <2>5. DOMAIN tab' = Tab /\ tab' = [t \in Tab |-> tab'[t]]
    BY <2>1
  <2>6. QED
    BY <1>0, <2>1, <2>2, <2>3, <2>4, <2>5 DEF SiteInv
<1>11. CASE Site!Readvertise
  <2>1. UNCHANGED <<mode, session, tab, logins>>
    BY <1>11 DEF Site!Readvertise
  <2>2. Record(session)'
    BY <2>1 DEF SiteInv, Record
  <2>3. \A t \in Tab : TabInv(t)'
    BY <2>1 DEF SiteInv, TabInv, Record, Served
  <2>4. QED
    BY <2>1, <2>2, <2>3 DEF SiteInv, Numbered
<1>12. QED
  BY <1>1, <1>2, <1>3, <1>4, <1>5, <1>6, <1>7, <1>8, <1>9, <1>10, <1>11, AnswerServes
    DEF Site!Next

LEMMA SiteInvariant == ASSUME Site!AppraiseSiteConstants PROVE Site!Spec => []SiteInv
<1>1. SiteInv /\ [Site!Next]_(Site!vars) => SiteInv'
  BY SiteNext
<1>2. QED
  BY <1>1, SiteInit, PTL DEF Site!Spec

\* Pages that are not public are shown to accounts on the list only
\* (require_auth.rs:12-22).
THEOREM ListIsServed == ASSUME Site!AppraiseSiteConstants PROVE Site!Spec => []OnlyTheListIsServed
<1>1. SiteInv => Site!OnlyTheListIsServed
  BY DEF SiteInv, TabInv, Served, Site!OnlyTheListIsServed
<1>2. QED
  BY <1>1, SiteInvariant, PTL DEF OnlyTheListIsServed

\* A sign-in lands where the tab was going, whoever else signs in meanwhile
\* (require_auth.rs:26-28, auth.rs:180-187).
THEOREM SignInsLand == ASSUME Site!AppraiseSiteConstants PROVE Site!Spec => LandsWhereItAsked
<1>1. ASSUME SiteInv, NEW t \in Tab, NEW account \in Allowed, Site!EndCallback(t, account),
             tab[t].asked # None
      PROVE  tab'[t].path = tab[t].asked
  <2>1. account # None /\ Site!IsAllowed(account)
    BY DEF Site!IsAllowed, Site!AppraiseSiteConstants
  <2>2. tab[t].at = "exchanging" /\ tab[t].record.returnTo = tab[t].asked
    BY <1>1 DEF Site!EndCallback, SiteInv, TabInv
  <2>3. tab' = [tab EXCEPT ![t] = [at |-> "asking", path |->
                            IF tab[t].record.returnTo = None THEN [page |-> "admin", feed |-> None]
                            ELSE tab[t].record.returnTo]]
    BY <1>1, <2>1 DEF Site!EndCallback
  <2>4. DOMAIN tab = Tab
    BY <1>1 DEF SiteInv
  <2>5. QED
    BY <1>1, <2>2, <2>3, <2>4
<1>2. SiteInv => \A t \in Tab, account \in Allowed :
        Site!EndCallback(t, account) /\ tab[t].asked # None => tab'[t].path = tab[t].asked
  BY <1>1
<1>3. QED
  BY <1>2, SiteInvariant, PTL DEF LandsWhereItAsked, Site!LandsWhereItAsked

-----------------------------------------------------------------------------
(* What the home page shows.                                               *)

\* An order of a finite set leaves none of its elements out.
LEMMA OrderIsOnto ==
    ASSUME NEW S, IsFiniteSet(S), NEW s \in SetToSeqs(S)
    PROVE  /\ DOMAIN s = 1..Cardinality(S) /\ ToSet(s) = S
           /\ \A i, j \in DOMAIN s : s[i] = s[j] => i = j
<1> DEFINE D == 1..Cardinality(S)
<1>1. s \in [D -> S] /\ \A i, j \in D : i # j => s[i] # s[j]
  BY Zenon DEF SetToSeqs
<1>2. 1 \in Int /\ Cardinality(S) \in Nat
  BY FS_CardinalityType
<1>3. Cardinality(D) = Cardinality(S)
  <2>1. Cardinality(S) \in Int
    BY <1>2
  <2>2. Cardinality(1..Cardinality(S)) =
            IF 1 > Cardinality(S) THEN 0 ELSE Cardinality(S) - 1 + 1
    BY <1>2, <2>1, FS_Interval
  <2>3. QED
    BY <1>2, <2>2
<1> HIDE DEF D
<1>4. s \in Injection(D, S)
  BY <1>1 DEF Injection, IsInjective
<1>5. s \in Surjection(D, S)
  BY <1>3, <1>4, FS_Injection
<1>6. ToSet(s) = S
  BY <1>1, <1>5 DEF ToSet, Surjection
<1>7. QED
  BY <1>1, <1>6 DEF D

\* An instance has its own name for the operators on sets; they mean the same.
LEMMA SiteSets ==
    /\ \A S : Site!IsFiniteSet(S) <=> IsFiniteSet(S)
    /\ \A s : Site!ToSet(s) = ToSet(s)
    /\ \A S : Site!SetToSeqs(S) = SetToSeqs(S)
<1>1. \A S : Site!Cardinality(S) = Cardinality(S)
  BY DEF Site!Cardinality, Cardinality
<1>2. \A s : Site!ToSet(s) = ToSet(s)
  BY DEF Site!ToSet, ToSet
<1>3. \A S : Site!IsFiniteSet(S) <=> IsFiniteSet(S)
  BY DEF Site!IsFiniteSet, IsFiniteSet
<1>4. ASSUME NEW S PROVE Site!SetToSeqs(S) = SetToSeqs(S)
  BY <1>1, Zenon DEF Site!SetToSeqs, SetToSeqs
<1>5. QED
  BY <1>2, <1>3, <1>4

LEMMA OrderedFeeds ==
    ASSUME NEW S, IsFiniteSet(S), NEW s \in Site!SetToSeqs(S)
    PROVE  /\ DOMAIN s = 1..Cardinality(S) /\ Site!ToSet(s) = S
           /\ \A i, j \in DOMAIN s : s[i] = s[j] => i = j
<1>1. s \in SetToSeqs(S)
  BY SiteSets
<1>2. QED
  BY <1>1, SiteSets, OrderIsOnto

\* A feed is read back from its name.
LEMMA NameIsRead == ASSUME NEW feed \in Site!Feeds PROVE Site!ParseSpec(Site!SpecValue(feed)) = feed
<1>1. feed.order \in Site!ToSet(Site!Orders) /\ feed.count \in Nat \ {0} /\ feed.unit \in Site!Units
      /\ feed = [order |-> feed.order, count |-> feed.count, unit |-> feed.unit]
  BY DEF Site!Feeds
<1>2. Len(Site!SpecValue(feed)) = 3 /\ Site!SpecValue(feed)[1] = feed.order
      /\ Site!SpecValue(feed)[2] = feed.count /\ Site!SpecValue(feed)[3] = feed.unit
  BY DEF Site!SpecValue
<1>3. Site!SpecValue(feed)[2] > 0
  BY <1>1, <1>2
<1>4. QED
  BY <1>1, <1>2, <1>3 DEF Site!ParseSpec

Offers(page) == {page.options[n].value : n \in DOMAIN page.options}

\* What was picked was on the page it was picked from.
PickInv ==
    /\ catalog \in Catalogs
    /\ DOMAIN tab = Tab
    /\ \A t \in Tab : tab[t].at = "asking" /\ "from" \in DOMAIN tab[t] =>
            tab[t].path.feed \in Offers(tab[t].from)

\* A step of one tab that does not pick.
LEMMA NoPick ==
    ASSUME PickInv, NEW t \in Tab, Alone(t), catalog' = catalog,
           tab'[t].at # "asking" \/ "from" \notin DOMAIN tab'[t]
    PROVE  PickInv'
BY DEF Alone, PickInv, Offers

LEMMA PickInit == Site!Init => PickInv
BY DEF Site!Init, PickInv, Site!Idle

LEMMA PickNext == ASSUME PickInv, [Site!Next]_(Site!vars) PROVE PickInv'
<1>1. CASE UNCHANGED Site!vars
  BY <1>1 DEF Site!vars, PickInv, Offers
<1>2. ASSUME NEW t \in Tab, NEW path \in Path, Site!Visit(t, path) PROVE PickInv'
  BY <1>2, NoPick DEF Site!Visit, Site!Ask, PickInv, Alone
<1>3. ASSUME NEW t \in Tab, Site!Pick(t) PROVE PickInv'
  <2>1. PICK n \in DOMAIN tab[t].home.options :
            tab' = [tab EXCEPT ![t] = [at |-> "asking", from |-> tab[t].home,
                        path |-> [page |-> "home", feed |-> tab[t].home.options[n].value]]]
    BY <1>3 DEF Site!Pick
  <2>2. DOMAIN tab' = Tab /\ \A u \in Tab \ {t} : tab'[u] = tab[u]
    BY <2>1 DEF PickInv
  <2>3. tab'[t].path.feed = tab[t].home.options[n].value /\ tab'[t].from = tab[t].home
    BY <2>1 DEF PickInv
  <2>4. tab'[t].path.feed \in Offers(tab'[t].from)
    BY <2>3 DEF Offers
  <2>5. catalog' = catalog
    BY <1>3 DEF Site!Pick
  <2>6. QED
    BY <2>2, <2>4, <2>5 DEF PickInv, Offers
<1>4. ASSUME NEW t \in Tab, Site!Answer(t) PROVE PickInv'
  <2>1. catalog' = catalog
    BY <1>4 DEF Site!Answer
  <2>2. Alone(t) /\ (tab'[t].at # "asking" \/ "from" \notin DOMAIN tab'[t])
    <3>1. CASE tab' = [tab EXCEPT ![t] = [at |-> "login", asked |-> tab[t].path]]
      BY <3>1 DEF PickInv, Alone
    <3>2. CASE tab' = [tab EXCEPT ![t] = [at |-> "asking", path |-> [page |-> "home", feed |-> None]]]
      BY <3>2 DEF PickInv, Alone
    <3>3. CASE \E home \in Site!Home(tab[t].path.feed) : tab' = [tab EXCEPT ![t] = Site!HomePage(t, home)]
      <4>1. PICK home : tab' = [tab EXCEPT ![t] = Site!HomePage(t, home)]
        BY <3>3
      <4>2. Site!HomePage(t, home).at = "page"
        BY DEF Site!HomePage
      <4>3. QED
        BY <4>1, <4>2 DEF PickInv, Alone
    <3>4. CASE tab' = [tab EXCEPT ![t] = Site!Page(t)]
      BY <3>4 DEF Site!Page, PickInv, Alone
    <3>5. QED
      BY <1>4, <3>1, <3>2, <3>3, <3>4 DEF Site!Answer
  <2>3. QED
    BY <2>1, <2>2, NoPick
<1>5. ASSUME NEW t \in Tab,
             \/ Site!OpenLogin(t) \/ Site!BeginLogin(t) \/ Site!EndLogin(t) \/ Site!BeginCallback(t) \/ Site!FailExchange(t)
             \/ \E account \in Account \cup {None} : Site!EndCallback(t, account)
      PROVE  PickInv'
  <2>1. catalog' = catalog
    BY <1>5 DEF Site!OpenLogin, Site!BeginLogin, Site!EndLogin, Site!BeginCallback,
       Site!FailExchange, Site!EndCallback
  <2>2. Alone(t) /\ (tab'[t].at # "asking" \/ "from" \notin DOMAIN tab'[t])
    <3>1. CASE Site!OpenLogin(t)
      BY <3>1 DEF Site!OpenLogin, PickInv, Alone
    <3>2. CASE Site!BeginLogin(t)
      BY <3>2 DEF Site!BeginLogin, Site!Idle, PickInv, Alone
    <3>3. CASE Site!EndLogin(t)
      BY <3>3 DEF Site!EndLogin, PickInv, Alone
    <3>4. CASE Site!BeginCallback(t)
      BY <3>4 DEF Site!BeginCallback, Site!Idle, PickInv, Alone
    <3>5. CASE Site!FailExchange(t)
      BY <3>5 DEF Site!FailExchange, Site!Idle, PickInv, Alone
    <3>6. CASE \E account \in Account \cup {None} : Site!EndCallback(t, account)
      BY <3>6 DEF Site!EndCallback, Site!Idle, PickInv, Alone
    <3>7. QED
      BY <1>5, <3>1, <3>2, <3>3, <3>4, <3>5, <3>6
  <2>3. QED
    BY <2>1, <2>2, NoPick
<1>6. CASE Site!Restart
  BY <1>6 DEF Site!Restart, PickInv, Offers, Site!Idle
<1>7. CASE Site!Readvertise
  BY <1>7 DEF Site!Readvertise, PickInv, Offers
<1>8. QED
  BY <1>1, <1>2, <1>3, <1>4, <1>5, <1>6, <1>7 DEF Site!Next

LEMMA PickInvariant == Site!Spec => []PickInv
BY PickInit, PickNext, PTL DEF Site!Spec

\* The home page marks the feed it shows, and shows what it is asked for if
\* the publisher advertises it.
LEMMA HomeShows ==
    ASSUME Site!AppraiseSiteConstants, catalog \in Catalogs, NEW requested, NEW home \in Site!Home(requested)
    PROVE  /\ home.feed # None => \E n \in DOMAIN home.options :
                /\ {m \in DOMAIN home.options : home.options[m].selected} = {n}
                /\ home.options[n].value = Site!SpecValue(home.feed)
           /\ \A feed \in catalog : requested = Site!SpecValue(feed) => home.feed = feed /\ feed # None
<1>1. IsFiniteSet(catalog) /\ catalog \subseteq Site!Feeds
  BY SiteSets DEF Site!AppraiseSiteConstants
<1>2. CASE catalog = {}
  <2>1. home = [feed |-> None, options |-> <<>>]
    BY <1>2 DEF Site!Home
  <2>2. QED
    BY <1>2, <2>1
<1>3. CASE catalog # {}
  <2>1. PICK specs \in Site!SetToSeqs(catalog) :
            home = [feed |-> Site!Resolve(specs, requested),
                    options |-> IF Site!Resolve(specs, requested) = None THEN <<>> ELSE
                        [n \in DOMAIN specs |-> [value |-> Site!SpecValue(specs[n]),
                                                 selected |-> specs[n] = Site!Resolve(specs, requested)]]]
    BY <1>3, Zenon DEF Site!Home
  <2>2. /\ DOMAIN specs = 1..Cardinality(catalog) /\ Site!ToSet(specs) = catalog
        /\ \A i, j \in DOMAIN specs : specs[i] = specs[j] => i = j
    BY <1>1, OrderedFeeds
  <2>3. 1 \in DOMAIN specs
    BY <1>1, <1>3, <2>2, FS_CardinalityType, FS_EmptySet
  <2>4. home.feed = Site!Resolve(specs, requested)
    BY <2>1
  <2>5. home.feed # None => home.feed \in catalog
    <3>1. specs[1] \in Site!ToSet(specs)
      BY <2>3 DEF Site!ToSet
    <3>2. QED
      BY <2>2, <2>4, <3>1 DEF Site!Resolve, Site!DefaultSpec
  <2>6. ASSUME home.feed # None
        PROVE  \E n \in DOMAIN home.options :
                /\ {m \in DOMAIN home.options : home.options[m].selected} = {n}
                /\ home.options[n].value = Site!SpecValue(home.feed)
    <3>1. home.options = [n \in DOMAIN specs |-> [value |-> Site!SpecValue(specs[n]),
                                                  selected |-> specs[n] = home.feed]]
      BY <2>1, <2>4, <2>6
    <3>2. PICK n \in DOMAIN specs : specs[n] = home.feed
      BY <2>2, <2>5, <2>6 DEF Site!ToSet
    <3>3. DOMAIN home.options = DOMAIN specs /\ home.options[n].value = Site!SpecValue(home.feed)
      BY <3>1, <3>2
    <3>4. ASSUME NEW m \in DOMAIN specs PROVE home.options[m].selected <=> m = n
      <4>1. home.options[m].selected = (specs[m] = home.feed)
        BY <3>1
      <4>2. QED
        BY <2>2, <3>2, <4>1
    <3>5. QED
      BY <3>2, <3>3, <3>4
  <2>7. ASSUME NEW feed \in catalog, requested = Site!SpecValue(feed)
        PROVE  home.feed = feed /\ feed # None
    <3>1. feed \in Site!Feeds /\ feed # None /\ requested # None
      BY <1>1, <2>7 DEF Site!AppraiseSiteConstants
    <3>2. Site!ParseSpec(requested) = feed
      BY <2>7, <3>1, NameIsRead
    <3>3. QED
      BY <2>2, <2>4, <3>1, <3>2 DEF Site!Resolve
  <2>8. QED
    BY <2>6, <2>7
<1>4. QED
  BY <1>2, <1>3

\* A feed that is picked and still advertised is the one that is shown and
\* marked (available_feeds.rs:91-111).
THEOREM PicksAreShown == ASSUME Site!AppraiseSiteConstants PROVE Site!Spec => PickedFeedIsShown
<1>1. ASSUME PickInv, NEW t \in Tab, Site!Answer(t), tab'[t].at = "page", tab[t].path.page = "home"
      PROVE  /\ tab'[t].home.feed # None => \E n \in DOMAIN tab'[t].home.options :
                    /\ {m \in DOMAIN tab'[t].home.options : tab'[t].home.options[m].selected} = {n}
                    /\ tab'[t].home.options[n].value = Site!SpecValue(tab'[t].home.feed)
             /\ ("from" \in DOMAIN tab[t] /\ Offers(tab[t].from) = {Site!SpecValue(feed) : feed \in catalog}) =>
                    /\ tab'[t].home.feed # None
                    /\ Site!SpecValue(tab'[t].home.feed) = tab[t].path.feed
  <2>1. PICK home \in Site!Home(tab[t].path.feed) : tab' = [tab EXCEPT ![t] = Site!HomePage(t, home)]
    <3>1. tab' # [tab EXCEPT ![t] = [at |-> "login", asked |-> tab[t].path]]
      BY <1>1 DEF PickInv
    <3>2. QED
      BY <1>1, <3>1 DEF Site!Answer
  <2>2. tab'[t].home = home
    BY <1>1, <2>1 DEF PickInv, Site!HomePage
  <2>3. catalog \in Catalogs /\ tab[t].at = "asking"
    BY <1>1 DEF PickInv, Site!Answer
  <2>4. ASSUME "from" \in DOMAIN tab[t], Offers(tab[t].from) = {Site!SpecValue(feed) : feed \in catalog}
        PROVE  home.feed # None /\ Site!SpecValue(home.feed) = tab[t].path.feed
    <3>1. PICK feed \in catalog : tab[t].path.feed = Site!SpecValue(feed)
      BY <1>1, <2>3, <2>4 DEF PickInv
    <3>2. QED
      BY <2>3, <3>1, HomeShows
  <2>5. home.feed # None => \E n \in DOMAIN home.options :
                /\ {m \in DOMAIN home.options : home.options[m].selected} = {n}
                /\ home.options[n].value = Site!SpecValue(home.feed)
    BY <2>3, HomeShows
  <2>6. QED
    BY <2>2, <2>4, <2>5
<1>2. PickInv /\ [Site!Next]_(Site!vars) => [\A t \in Tab : Site!Answer(t) /\ tab'[t].at = "page" /\ tab[t].path.page = "home" =>
        LET home == tab'[t].home
            offers(page) == {page.options[n].value : n \in DOMAIN page.options}
            selected == {n \in DOMAIN home.options : home.options[n].selected}
        IN  /\ home.feed # None => \E n \in DOMAIN home.options :
                selected = {n} /\ home.options[n].value = Site!SpecValue(home.feed)
            /\ ("from" \in DOMAIN tab[t] /\ offers(tab[t].from) = {Site!SpecValue(feed) : feed \in catalog}) =>
                home.feed # None /\ Site!SpecValue(home.feed) = tab[t].path.feed]_(Site!vars)
  BY <1>1, Zenon DEF Offers
<1>3. QED
  BY <1>2, PickInvariant, PTL DEF Site!Spec, PickedFeedIsShown, Site!PickedFeedIsShown

-----------------------------------------------------------------------------
(* The order of a list.  A relation is a set of pairs: x comes before y.    *)

\* One criterion of an order: it may tie, and ties are no difference.
IsCriterion(R, D) ==
    /\ \A x, y \in D : ~(<<x, y>> \in R /\ <<y, x>> \in R)
    /\ \A x, y, z \in D : <<x, z>> \in R => <<x, y>> \in R \/ <<y, z>> \in R

IsTotal(R, D) == \A x, y \in D : x # y => <<x, y>> \in R \/ <<y, x>> \in R

\* By A, and where A ties by B.
Then(A, B) == A \cup {p \in B : <<p[2], p[1]>> \notin A}

InTurn(A, B) == \A x, y : <<x, y>> \in Then(A, B) <=> <<x, y>> \in A \/ (<<x, y>> \in B /\ <<y, x>> \notin A)

LEMMA ThenIsInTurn == ASSUME NEW A, NEW B PROVE InTurn(A, B)
BY DEF Then, InTurn

\* Two criteria in turn are one, without ties if the second has none.
LEMMA CriteriaCompose ==
    ASSUME NEW D, NEW A, NEW B, IsCriterion(A, D), IsCriterion(B, D)
    PROVE  /\ IsCriterion(Then(A, B), D)
           /\ IsTotal(B, D) => IsTotal(Then(A, B), D)
<1> DEFINE C == Then(A, B)
<1>1. \A x, y : <<x, y>> \in C <=> <<x, y>> \in A \/ (<<x, y>> \in B /\ <<y, x>> \notin A)
  BY ThenIsInTurn, Zenon DEF InTurn
<1> HIDE DEF C
<1>2. ASSUME NEW x \in D, NEW y \in D, <<x, y>> \in C, <<y, x>> \in C PROVE FALSE
  BY <1>1, <1>2 DEF IsCriterion
<1>3. ASSUME NEW x \in D, NEW y \in D, NEW z \in D, <<x, z>> \in C PROVE <<x, y>> \in C \/ <<y, z>> \in C
  <2>1. CASE <<x, z>> \in A
    BY <1>1, <2>1 DEF IsCriterion
  <2>2. CASE <<x, z>> \in B /\ <<z, x>> \notin A
    BY <1>1, <2>2 DEF IsCriterion
  <2> QED
    BY <1>1, <1>3, <2>1, <2>2
<1>4. ASSUME IsTotal(B, D) PROVE IsTotal(C, D)
  BY <1>1, <1>4 DEF IsTotal
<1> QED
  BY <1>2, <1>3, <1>4 DEF IsCriterion, C

\* How many come before x.
Rank(R, S, x) == 1 + Cardinality({y \in S : <<y, x>> \in R})

LEMMA RankIsPlace ==
    ASSUME NEW S, IsFiniteSet(S), NEW R, IsCriterion(R, S), IsTotal(R, S)
    PROVE  /\ \A x \in S : Rank(R, S, x) \in 1 .. Cardinality(S)
           /\ \A x, y \in S : <<x, y>> \in R => Rank(R, S, x) < Rank(R, S, y)
           /\ \A x, y \in S : x # y => Rank(R, S, x) # Rank(R, S, y)
<1> DEFINE Ahead(x) == {y \in S : <<y, x>> \in R}
<1>1. \A x \in S : IsFiniteSet(Ahead(x)) /\ Cardinality(Ahead(x)) \in Nat
  <2>1. \A x \in S : Ahead(x) \in SUBSET S
    OBVIOUS
  <2> QED
    BY <2>1, FS_Subset, FS_CardinalityType
<1>2. \A x \in S : Cardinality(Ahead(x)) < Cardinality(S)
  <2>1. SUFFICES ASSUME NEW x \in S PROVE Cardinality(Ahead(x)) < Cardinality(S)
    BY <2>1
  <2>2. Ahead(x) \in SUBSET S /\ x \notin Ahead(x)
    BY DEF IsCriterion
  <2> HIDE DEF Ahead
  <2>3. Cardinality(Ahead(x)) <= Cardinality(S) /\ Cardinality(Ahead(x)) # Cardinality(S)
    BY <2>2, FS_Subset
  <2> QED
    BY <1>1, <2>3, FS_CardinalityType
<1>3. \A x, y \in S : <<x, y>> \in R => Cardinality(Ahead(x)) < Cardinality(Ahead(y))
  <2>1. SUFFICES ASSUME NEW x \in S, NEW y \in S, <<x, y>> \in R
                 PROVE  Cardinality(Ahead(x)) < Cardinality(Ahead(y))
    BY <2>1
  <2>2. Ahead(x) \in SUBSET Ahead(y)
    BY <2>1 DEF IsCriterion
  <2>3. x \in Ahead(y) /\ x \notin Ahead(x)
    BY <2>1 DEF IsCriterion
  <2> HIDE DEF Ahead
  <2>4. Cardinality(Ahead(x)) <= Cardinality(Ahead(y)) /\ Cardinality(Ahead(x)) # Cardinality(Ahead(y))
    BY <1>1, <2>2, <2>3, FS_Subset
  <2> QED
    BY <1>1, <2>4
<1>4. \A x \in S : Rank(R, S, x) = 1 + Cardinality(Ahead(x))
  BY DEF Rank
<1> HIDE DEF Ahead
<1>5. Cardinality(S) \in Nat
  BY FS_CardinalityType
<1>6. \A x \in S : Rank(R, S, x) \in 1 .. Cardinality(S)
  BY <1>1, <1>2, <1>4, <1>5
<1>7. \A x, y \in S : <<x, y>> \in R => Rank(R, S, x) < Rank(R, S, y)
  BY <1>1, <1>3, <1>4
<1>8. \A x, y \in S : x # y => Rank(R, S, x) # Rank(R, S, y)
  <2>1. SUFFICES ASSUME NEW x \in S, NEW y \in S, x # y PROVE Rank(R, S, x) # Rank(R, S, y)
    BY <2>1
  <2>2. Rank(R, S, x) \in Int /\ Rank(R, S, y) \in Int
    BY <1>6
  <2>3. Rank(R, S, x) < Rank(R, S, y) \/ Rank(R, S, y) < Rank(R, S, x)
    BY <1>7, <2>1 DEF IsTotal
  <2> QED
    BY <2>2, <2>3
<1> QED
  BY <1>6, <1>7, <1>8

InOrder(s, R) == \A m, n \in DOMAIN s : m < n => <<s[m], s[n]>> \in R

\* The entry at a place of an ordered list is the one with that many before it.
LEMMA PlaceIsRank ==
    ASSUME NEW S, IsFiniteSet(S), NEW R, IsCriterion(R, S), NEW s \in SetToSeqs(S), InOrder(s, R)
    PROVE  \A n \in DOMAIN s : Rank(R, S, s[n]) = n
<1>1. /\ DOMAIN s = 1 .. Cardinality(S) /\ ToSet(s) = S
      /\ \A i, j \in DOMAIN s : s[i] = s[j] => i = j
  BY OrderIsOnto
<1>2. Cardinality(S) \in Nat /\ \A i \in DOMAIN s : s[i] \in S
  BY <1>1, FS_CardinalityType DEF ToSet
<1>3. SUFFICES ASSUME NEW n \in DOMAIN s PROVE Rank(R, S, s[n]) = n
  BY <1>3
<1>4. n \in Nat /\ n >= 1 /\ n - 1 \in Nat
  BY <1>1, <1>2
<1> DEFINE I == 1 .. (n - 1)
           T == {y \in S : <<y, s[n]>> \in R}
           f == [i \in I |-> s[i]]
<1>5. IsFiniteSet(I) /\ Cardinality(I) = n - 1
  <2>1. 1 \in Int /\ n - 1 \in Int
    BY <1>4
  <2>2. IsFiniteSet(I) /\ Cardinality(I) = IF 1 > n - 1 THEN 0 ELSE n - 1 - 1 + 1
    BY <2>1, FS_Interval
  <2> QED
    BY <1>4, <2>2
<1>6. \A i \in I : i \in DOMAIN s /\ i < n
  BY <1>1, <1>2, <1>4
<1>7. \A i \in I : s[i] \in T
  BY <1>2, <1>6 DEF InOrder
<1>8. \A y \in T : \E i \in I : y = s[i]
  <2>1. SUFFICES ASSUME NEW y \in T PROVE \E i \in I : y = s[i]
    BY <2>1
  <2>2. PICK i \in DOMAIN s : y = s[i]
    BY <1>1 DEF ToSet
  <2>3. i # n
    BY <1>2, <2>2 DEF IsCriterion
  <2>4. ~(n < i)
    BY <1>2, <2>2 DEF IsCriterion, InOrder
  <2>5. i \in I
    BY <1>1, <1>2, <1>4, <2>3, <2>4
  <2> QED
    BY <2>2, <2>5
<1>9. f \in [I -> T] /\ DOMAIN f = I
  BY <1>7
<1>10. \A i \in I : f[i] = s[i]
  OBVIOUS
<1> HIDE DEF I, T, f
<1>11. f \in Injection(I, T)
  <2>1. \A i, j \in I : f[i] = f[j] => i = j
    BY <1>1, <1>6, <1>10
  <2> QED
    BY <1>9, <2>1 DEF Injection, IsInjective
<1>12. f \in Surjection(I, T)
  BY <1>8, <1>9, <1>10 DEF Surjection
<1>13. ExistsBijection(I, T)
  BY <1>11, <1>12 DEF ExistsBijection, Bijection
<1>14. Cardinality(T) = n - 1
  BY <1>5, <1>13, FS_Bijection
<1> QED
  BY <1>4, <1>14 DEF Rank, T

\* A finite set has one list in a given order.
LEMMA OneList ==
    ASSUME NEW S, IsFiniteSet(S), NEW R, IsCriterion(R, S), IsTotal(R, S)
    PROVE  \E list \in SetToSeqs(S) : InOrder(list, R) /\ \A s \in SetToSeqs(S) : InOrder(s, R) => s = list
<1> DEFINE D == 1 .. Cardinality(S)
           place == [x \in S |-> Rank(R, S, x)]
           list == [n \in D |-> CHOOSE x \in S : Rank(R, S, x) = n]
<1>1. /\ \A x \in S : Rank(R, S, x) \in D
      /\ \A x, y \in S : <<x, y>> \in R => Rank(R, S, x) < Rank(R, S, y)
      /\ \A x, y \in S : x # y => Rank(R, S, x) # Rank(R, S, y)
  BY RankIsPlace
<1>2. IsFiniteSet(D) /\ Cardinality(D) = Cardinality(S)
  <2>1. 1 \in Int /\ Cardinality(S) \in Int /\ Cardinality(S) \in Nat
    BY FS_CardinalityType
  <2>2. IsFiniteSet(D) /\ Cardinality(D) = IF 1 > Cardinality(S) THEN 0 ELSE Cardinality(S) - 1 + 1
    BY <2>1, FS_Interval
  <2> QED
    BY <2>1, <2>2
<1>3. \A n \in D : n \in Int
  OBVIOUS
<1> HIDE DEF D
<1>4. place \in Injection(S, D)
  BY <1>1, Zenon DEF Injection, IsInjective
<1>5. place \in Surjection(S, D)
  BY <1>2, <1>4, FS_Injection
<1>6. \A n \in D : \E x \in S : Rank(R, S, x) = n
  BY <1>5 DEF Surjection
<1>7. \A n \in D : list[n] \in S /\ Rank(R, S, list[n]) = n
  BY <1>6
<1>8. list \in [D -> S] /\ DOMAIN list = D
  BY <1>7
<1> HIDE DEF list
<1>9. list \in SetToSeqs(S)
  BY <1>7, <1>8, Zenon DEF SetToSeqs, D
<1>10. InOrder(list, R)
  <2>1. SUFFICES ASSUME NEW m \in D, NEW n \in D, m < n PROVE <<list[m], list[n]>> \in R
    BY <1>8, <2>1 DEF InOrder
  <2>2. list[m] # list[n] /\ m \in Int /\ n \in Int
    BY <1>3, <1>7, <2>1
  <2>3. ~(<<list[n], list[m]>> \in R)
    BY <1>1, <1>7, <2>1, <2>2
  <2> QED
    BY <1>7, <2>2, <2>3 DEF IsTotal
<1>11. ASSUME NEW s \in SetToSeqs(S), InOrder(s, R) PROVE s = list
  <2>1. s \in [D -> S] /\ DOMAIN s = D
    BY Zenon DEF SetToSeqs, D
  <2>2. \A n \in D : Rank(R, S, s[n]) = n
    BY <1>11, <2>1, PlaceIsRank
  <2>3. \A n \in D : s[n] = list[n]
    BY <1>1, <1>7, <2>1, <2>2
  <2> QED
    BY <1>8, <2>1, <2>3
<1> QED
  BY <1>9, <1>10, <1>11

\* What the order needs of an entry.
IsEntry(e) ==
    /\ e.original \in Int /\ e.image \in Int /\ e.skeet \in Int
    /\ e.score \in Mark

By(c, D, im, sm) == {p \in D \X D : Wins(c, p[1], p[2], im, sm)}

ById(e, f) == e.image < f.image \/ (e.image = f.image /\ e.skeet < f.skeet)

ByIds(D) == {p \in D \X D : ById(p[1], p[2])}

LEMMA Pairs ==
    ASSUME NEW D, NEW im, NEW sm, NEW e \in D, NEW f \in D
    PROVE  /\ \A c : <<e, f>> \in By(c, D, im, sm) <=> Wins(c, e, f, im, sm)
           /\ <<e, f>> \in ByIds(D) <=> ById(e, f)
<1>1. \A c : <<e, f>> \in By(c, D, im, sm) <=> Wins(c, e, f, im, sm)
  <2>1. SUFFICES ASSUME NEW c PROVE <<e, f>> \in By(c, D, im, sm) <=> Wins(c, e, f, im, sm)
    BY <2>1
  <2>2. PICK p : p = <<e, f>>
    OBVIOUS
  <2>3. p \in D \X D /\ p[1] = e /\ p[2] = f
    BY <2>2
  <2> QED
    BY <2>2, <2>3, Zenon DEF By
<1>2. <<e, f>> \in ByIds(D) <=> ById(e, f)
  BY DEF ByIds
<1> QED
  BY <1>1, <1>2

LEMMA Products ==
    ASSUME NEW a \in Nat, NEW b \in Nat, NEW c \in Nat \ {0}, a <= b
    PROVE  a * c <= b * c
<1>1. PICK d \in Nat : b = a + d
  <2>1. b - a \in Nat /\ b = a + (b - a)
    OBVIOUS
  <2> QED
    BY <2>1
<1>2. (a + d) * c = a * c + d * c
  OBVIOUS
<1>3. d * c \in Nat /\ a * c \in Nat
  OBVIOUS
<1> QED
  BY <1>1, <1>2, <1>3

\* Fractions are compared crosswise; that is an order, with ties.
LEMMA FractionsCompare ==
    ASSUME NEW l \in [num : Nat, den : Nat \ {0}], NEW m \in [num : Nat, den : Nat \ {0}],
           NEW n \in [num : Nat, den : Nat \ {0}],
           l.num * m.den <= m.num * l.den, m.num * n.den <= n.num * m.den
    PROVE  l.num * n.den <= n.num * l.den
<1>1. PICK a, b, c \in Nat, p, q, r \in Nat \ {0} :
        a = l.num /\ p = l.den /\ b = m.num /\ q = m.den /\ c = n.num /\ r = n.den
  OBVIOUS
<1>2. a * q <= b * p /\ b * r <= c * q
  BY <1>1
<1>3. (a * q) * r <= (b * p) * r /\ (b * r) * p <= (c * q) * p
  BY <1>2, Products
<1>4. (a * q) * r = (a * r) * q /\ (b * p) * r = (b * r) * p /\ (c * q) * p = (c * p) * q
  OBVIOUS
<1>5. a * r \in Nat /\ c * p \in Nat /\ (a * r) * q \in Nat /\ (b * r) * p \in Nat /\ (c * p) * q \in Nat
  OBVIOUS
<1>6. (a * r) * q <= (c * p) * q
  BY <1>3, <1>4, <1>5
<1>7. CASE a * r > c * p
  <2>1. PICK d \in Nat \ {0} : a * r = c * p + d
    <3>1. a * r - c * p \in Nat \ {0} /\ a * r = c * p + (a * r - c * p)
      BY <1>5, <1>7
    <3> QED
      BY <3>1
  <2>2. PICK x \in Nat : x = c * p
    BY <1>5
  <2>3. (x + d) * q = x * q + d * q
    OBVIOUS
  <2>4. d * q \in Nat \ {0} /\ x * q \in Nat
    OBVIOUS
  <2> QED
    BY <1>6, <2>1, <2>2, <2>3, <2>4
<1> QED
  BY <1>1, <1>5, <1>7

\* What the model says of an entry is unknown or a fraction.
LEMMA ScoreIsKnown ==
    ASSUME NEW e, IsEntry(e)
    PROVE  NormalizedScore(e) \in [num : Nat, den : Nat \ {0}] \cup {None}
<1>1. CASE e.model \in DOMAIN Threshold
  <2>1. Threshold[e.model] \in Mark /\ e.score \in Mark
    BY <1>1, RankingConstants DEF IsEntry, Mark
  <2> QED
    BY <1>1, <2>1, NormalizedIsFraction DEF NormalizedScore
<1> QED
  BY <1>1 DEF NormalizedScore

LEMMA AboveCompares ==
    ASSUME NEW l \in [num : Nat, den : Nat \ {0}] \cup {None}, NEW m \in [num : Nat, den : Nat \ {0}] \cup {None},
           NEW n \in [num : Nat, den : Nat \ {0}] \cup {None}
    PROVE  /\ ~(Above(l, m) /\ Above(m, l))
           /\ Above(l, n) => Above(l, m) \/ Above(m, n)
<1> DEFINE F == [num : Nat, den : Nat \ {0}]
<1>1. None \notin F
  BY RankingConstants
<1>2. \A x, y \in F : Above(x, y) <=> x.num * y.den > y.num * x.den
  BY <1>1 DEF Above
<1>3. \A x, y \in F : x.num * y.den \in Nat
  OBVIOUS
<1>4. \A x \in F : Above(x, None) /\ ~ Above(None, x)
  BY <1>1 DEF Above
<1>5. ~ Above(None, None)
  BY DEF Above
<1>6. ~(Above(l, m) /\ Above(m, l))
  <2>1. CASE l \in F /\ m \in F
    BY <1>2, <1>3, <2>1
  <2> QED
    BY <1>4, <1>5, <2>1
<1>7. Above(l, n) => Above(l, m) \/ Above(m, n)
  <2>1. CASE l \in F /\ m \in F /\ n \in F
    <3>1. SUFFICES ASSUME Above(l, n), ~ Above(l, m), ~ Above(m, n) PROVE FALSE
      BY <3>1
    <3>2. l.num * m.den <= m.num * l.den /\ m.num * n.den <= n.num * m.den
      BY <1>2, <1>3, <2>1, <3>1
    <3>3. l.num * n.den <= n.num * l.den
      BY <2>1, <3>2, FractionsCompare
    <3> QED
      BY <1>2, <1>3, <2>1, <3>1, <3>3
  <2>2. CASE l = None
    BY <1>4, <1>5, <2>2
  <2>3. CASE m = None
    BY <1>4, <1>5, <2>3
  <2>4. CASE n = None
    BY <1>4, <1>5, <2>4
  <2> QED
    BY <2>1, <2>2, <2>3, <2>4
<1> QED
  BY <1>6, <1>7

LEMMA EachIsCriterion ==
    ASSUME NEW D, \A e \in D : IsEntry(e), NEW im, NEW sm, \A e \in D : RankBand(e, im, sm) \in Int,
           NEW c \in {"band", "time", "score"}
    PROVE  IsCriterion(By(c, D, im, sm), D)
<1>1. SUFFICES ASSUME NEW x \in D, NEW y \in D, NEW z \in D
      PROVE /\ ~(Wins(c, x, y, im, sm) /\ Wins(c, y, x, im, sm))
            /\ Wins(c, x, z, im, sm) => Wins(c, x, y, im, sm) \/ Wins(c, y, z, im, sm)
  BY <1>1, Pairs, Zenon DEF IsCriterion
<1>2. CASE c = "band"
  <2>1. RankBand(x, im, sm) \in Int /\ RankBand(y, im, sm) \in Int /\ RankBand(z, im, sm) \in Int
    OBVIOUS
  <2>2. \A e, f : Wins(c, e, f, im, sm) <=> RankBand(e, im, sm) > RankBand(f, im, sm)
    BY <1>2 DEF Wins
  <2> QED
    BY <2>1, <2>2
<1>3. CASE c = "time"
  <2>1. x.original \in Int /\ y.original \in Int /\ z.original \in Int
    BY DEF IsEntry
  <2>2. \A e, f : Wins(c, e, f, im, sm) <=> e.original > f.original
    BY <1>3 DEF Wins
  <2> QED
    BY <2>1, <2>2
<1>4. CASE c = "score"
  <2>1. \A e, f : Wins(c, e, f, im, sm) <=> Above(NormalizedScore(e), NormalizedScore(f))
    BY <1>4 DEF Wins
  <2>2. \A e \in {x, y, z} : NormalizedScore(e) \in [num : Nat, den : Nat \ {0}] \cup {None}
    BY ScoreIsKnown
  <2> QED
    BY <2>1, <2>2, AboveCompares
<1> QED
  BY <1>2, <1>3, <1>4

LEMMA IdsAreCriterion ==
    ASSUME NEW D, \A e \in D : IsEntry(e), \A e, f \in D : e.skeet = f.skeet => e = f
    PROVE  IsCriterion(ByIds(D), D) /\ IsTotal(ByIds(D), D)
<1>1. \A e, f \in D : <<e, f>> \in ByIds(D) <=> e.image < f.image \/ (e.image = f.image /\ e.skeet < f.skeet)
  BY Pairs DEF ById
<1>2. \A e \in D : e.image \in Int /\ e.skeet \in Int
  BY DEF IsEntry
<1>3. IsCriterion(ByIds(D), D)
  BY <1>1, <1>2 DEF IsCriterion
<1>4. IsTotal(ByIds(D), D)
  BY <1>1, <1>2 DEF IsTotal
<1> QED
  BY <1>3, <1>4

\* The first criterion that does not tie is won, or all of them tie.
FirstWon(criteria, won, tied) ==
    \E k \in DOMAIN criteria : (\A j \in 1 .. (k - 1) : criteria[j] \in tied) /\ criteria[k] \in won

AllTied(criteria, tied) == \A j \in 1 .. Len(criteria) : criteria[j] \in tied

LEMMA OneCriterion ==
    ASSUME NEW a, NEW won, NEW tied
    PROVE  /\ FirstWon(<<a>>, won, tied) <=> a \in won
           /\ AllTied(<<a>>, tied) <=> a \in tied
<1>1. PICK s : s = <<a>>
  OBVIOUS
<1>2. s[1] = a /\ DOMAIN s = 1 .. 1 /\ Len(s) = 1
  BY <1>1
<1>3. FirstWon(s, won, tied) <=> a \in won
  BY <1>2 DEF FirstWon
<1>4. AllTied(s, tied) <=> a \in tied
  BY <1>2 DEF AllTied
<1> QED
  BY <1>1, <1>3, <1>4

LEMMA TwoCriteria ==
    ASSUME NEW a, NEW b, NEW won, NEW tied
    PROVE  /\ FirstWon(<<a, b>>, won, tied) <=> a \in won \/ (a \in tied /\ b \in won)
           /\ AllTied(<<a, b>>, tied) <=> a \in tied /\ b \in tied
<1>1. PICK s : s = <<a, b>>
  OBVIOUS
<1>2. s[1] = a /\ s[2] = b /\ DOMAIN s = 1 .. 2 /\ Len(s) = 2
  BY <1>1
<1>3. FirstWon(s, won, tied) <=> a \in won \/ (a \in tied /\ b \in won)
  BY <1>2 DEF FirstWon
<1>4. AllTied(s, tied) <=> a \in tied /\ b \in tied
  BY <1>2 DEF AllTied
<1> QED
  BY <1>1, <1>3, <1>4

LEMMA ThreeCriteria ==
    ASSUME NEW a, NEW b, NEW c, NEW won, NEW tied
    PROVE  /\ FirstWon(<<a, b, c>>, won, tied) <=>
                a \in won \/ (a \in tied /\ b \in won) \/ (a \in tied /\ b \in tied /\ c \in won)
           /\ AllTied(<<a, b, c>>, tied) <=> a \in tied /\ b \in tied /\ c \in tied
<1>1. PICK s : s = <<a, b, c>>
  OBVIOUS
<1>2. s[1] = a /\ s[2] = b /\ s[3] = c /\ DOMAIN s = 1 .. 3 /\ Len(s) = 3
  BY <1>1
<1>3. FirstWon(s, won, tied) <=>
        a \in won \/ (a \in tied /\ b \in won) \/ (a \in tied /\ b \in tied /\ c \in won)
  <2>1. \A k \in 1 .. 3 : (\A j \in 1 .. (k - 1) : s[j] \in tied) <=>
            \/ k = 1
            \/ k = 2 /\ a \in tied
            \/ k = 3 /\ a \in tied /\ b \in tied
    BY <1>2
  <2> QED
    BY <1>2, <2>1 DEF FirstWon
<1>4. AllTied(s, tied) <=> a \in tied /\ b \in tied /\ c \in tied
  BY <1>2 DEF AllTied
<1> QED
  BY <1>1, <1>3, <1>4

CriteriaOf(order) ==
    CASE order = "recency" -> <<"time">>
      [] order = "quality" -> <<"band", "score">>
      [] order = "quality,recency" -> <<"band", "time", "score">>

Names == {"band", "time", "score"}
Won(e, f, im, sm) == {c \in Names : Wins(c, e, f, im, sm)}
Tied(e, f, im, sm) == {c \in Names : ~ Wins(c, e, f, im, sm) /\ ~ Wins(c, f, e, im, sm)}

LEMMA NamedCriteria ==
    ASSUME NEW s \in {<<"time">>, <<"band", "score">>, <<"band", "time", "score">>}
    PROVE  Len(s) \in Nat /\ DOMAIN s = 1 .. Len(s) /\ \A j \in DOMAIN s : s[j] \in Names
<1>1. CASE s = <<"time">>
  BY <1>1 DEF Names
<1>2. CASE s = <<"band", "score">>
  BY <1>2 DEF Names
<1>3. CASE s = <<"band", "time", "score">>
  BY <1>3 DEF Names
<1> QED
  BY <1>1, <1>2, <1>3

LEMMA CriteriaNamed ==
    ASSUME NEW order \in {"recency", "quality", "quality,recency"}
    PROVE  CriteriaOf(order) \in {<<"time">>, <<"band", "score">>, <<"band", "time", "score">>}
<1>1. order = "recency" => CriteriaOf(order) = <<"time">>
  BY DEF CriteriaOf
<1>2. order = "quality" => CriteriaOf(order) = <<"band", "score">>
  BY DEF CriteriaOf
<1>3. order = "quality,recency" => CriteriaOf(order) = <<"band", "time", "score">>
  BY DEF CriteriaOf
<1> QED
  BY <1>1, <1>2, <1>3

LEMMA PrecedesInTurn ==
    ASSUME NEW order \in {"recency", "quality", "quality,recency"}, NEW e, NEW f, NEW im, NEW sm
    PROVE  Precedes(order, e, f, im, sm) <=>
             \/ FirstWon(CriteriaOf(order), Won(e, f, im, sm), Tied(e, f, im, sm))
             \/ AllTied(CriteriaOf(order), Tied(e, f, im, sm)) /\ ById(e, f)
<1>1. PICK s : s = CriteriaOf(order)
  OBVIOUS
<1>2. Len(s) \in Nat /\ DOMAIN s = 1 .. Len(s) /\ \A j \in DOMAIN s : s[j] \in Names
  BY <1>1, CriteriaNamed, NamedCriteria
<1>3. Precedes(order, e, f, im, sm) <=>
        \/ \E k \in DOMAIN s :
            /\ \A j \in 1 .. (k - 1) : ~ Wins(s[j], e, f, im, sm) /\ ~ Wins(s[j], f, e, im, sm)
            /\ Wins(s[k], e, f, im, sm)
        \/ /\ \A j \in 1 .. Len(s) : ~ Wins(s[j], e, f, im, sm) /\ ~ Wins(s[j], f, e, im, sm)
           /\ ById(e, f)
  BY <1>1, Zenon DEF Precedes, Wins, CriteriaOf, ById
<1>4. \A j \in DOMAIN s :
        /\ s[j] \in Tied(e, f, im, sm) <=> ~ Wins(s[j], e, f, im, sm) /\ ~ Wins(s[j], f, e, im, sm)
        /\ s[j] \in Won(e, f, im, sm) <=> Wins(s[j], e, f, im, sm)
  BY <1>2 DEF Won, Tied
<1>5. \A k \in DOMAIN s : \A j \in 1 .. (k - 1) : j \in DOMAIN s
  BY <1>2, Earlier, Zenon
<1>6. (\E k \in DOMAIN s :
            /\ \A j \in 1 .. (k - 1) : ~ Wins(s[j], e, f, im, sm) /\ ~ Wins(s[j], f, e, im, sm)
            /\ Wins(s[k], e, f, im, sm))
      <=> FirstWon(s, Won(e, f, im, sm), Tied(e, f, im, sm))
  BY <1>4, <1>5, Zenon DEF FirstWon
<1>7. (\A j \in 1 .. Len(s) : ~ Wins(s[j], e, f, im, sm) /\ ~ Wins(s[j], f, e, im, sm))
      <=> AllTied(s, Tied(e, f, im, sm))
  BY <1>2, <1>4, Zenon DEF AllTied
<1> QED
  BY <1>1, <1>3, <1>6, <1>7

\* The relation of each order.
Comes(order, D, im, sm) ==
    CASE order = "recency" -> Then(By("time", D, im, sm), ByIds(D))
      [] order = "quality" -> Then(By("band", D, im, sm), Then(By("score", D, im, sm), ByIds(D)))
      [] order = "quality,recency" ->
            Then(By("band", D, im, sm), Then(By("time", D, im, sm), Then(By("score", D, im, sm), ByIds(D))))

LEMMA PrecedesIsComes ==
    ASSUME NEW order \in {"recency", "quality", "quality,recency"}, NEW D, \A e \in D : IsEntry(e),
           NEW im, NEW sm, \A e \in D : RankBand(e, im, sm) \in Int, NEW e \in D, NEW f \in D
    PROVE  Precedes(order, e, f, im, sm) <=> <<e, f>> \in Comes(order, D, im, sm)
<1> DEFINE B == By("band", D, im, sm)
           T == By("time", D, im, sm)
           S == By("score", D, im, sm)
           I == ByIds(D)
           won == Won(e, f, im, sm)
           tied == Tied(e, f, im, sm)
<1>1. IsCriterion(B, D) /\ IsCriterion(T, D) /\ IsCriterion(S, D)
  BY EachIsCriterion
<1>2. /\ \A c : <<e, f>> \in By(c, D, im, sm) <=> Wins(c, e, f, im, sm)
      /\ \A c : <<f, e>> \in By(c, D, im, sm) <=> Wins(c, f, e, im, sm)
      /\ <<e, f>> \in I <=> ById(e, f)
  BY Pairs
<1>3. /\ "band" \in won <=> <<e, f>> \in B
      /\ "time" \in won <=> <<e, f>> \in T
      /\ "score" \in won <=> <<e, f>> \in S
  BY <1>2 DEF Won, Names
<1>4. /\ "band" \in tied <=> <<e, f>> \notin B /\ <<f, e>> \notin B
      /\ "time" \in tied <=> <<e, f>> \notin T /\ <<f, e>> \notin T
      /\ "score" \in tied <=> <<e, f>> \notin S /\ <<f, e>> \notin S
  BY <1>2 DEF Tied, Names
<1>5. \A R, Q : <<e, f>> \in Then(R, Q) <=> <<e, f>> \in R \/ (<<e, f>> \in Q /\ <<f, e>> \notin R)
  BY ThenIsInTurn, Zenon DEF InTurn
<1>6. Precedes(order, e, f, im, sm) <=>
        FirstWon(CriteriaOf(order), won, tied) \/ (AllTied(CriteriaOf(order), tied) /\ <<e, f>> \in I)
  BY <1>2, PrecedesInTurn
<1>7. ~(<<e, f>> \in B /\ <<f, e>> \in B) /\ ~(<<e, f>> \in T /\ <<f, e>> \in T)
      /\ ~(<<e, f>> \in S /\ <<f, e>> \in S)
  BY <1>1 DEF IsCriterion
<1> HIDE DEF B, T, S, I, won, tied
<1>8. CASE order = "recency"
  <2>1. CriteriaOf(order) = <<"time">> /\ Comes(order, D, im, sm) = Then(T, I)
    BY <1>8 DEF CriteriaOf, Comes, T, I
  <2>2. /\ FirstWon(<<"time">>, won, tied) <=> "time" \in won
        /\ AllTied(<<"time">>, tied) <=> "time" \in tied
    BY OneCriterion
  <2>3. /\ <<e, f>> \in Then(T, I) <=> <<e, f>> \in T \/ (<<e, f>> \in I /\ <<f, e>> \notin T)
    BY <1>5
  <2> QED
    BY <1>3, <1>4, <1>6, <1>7, <2>1, <2>2, <2>3
<1>9. CASE order = "quality"
  <2>1. CriteriaOf(order) = <<"band", "score">> /\ Comes(order, D, im, sm) = Then(B, Then(S, I))
    BY <1>9 DEF CriteriaOf, Comes, B, S, I
  <2>2. /\ FirstWon(<<"band", "score">>, won, tied) <=> "band" \in won \/ ("band" \in tied /\ "score" \in won)
        /\ AllTied(<<"band", "score">>, tied) <=> "band" \in tied /\ "score" \in tied
    BY TwoCriteria
  <2>3. /\ <<e, f>> \in Then(S, I) <=> <<e, f>> \in S \/ (<<e, f>> \in I /\ <<f, e>> \notin S)
        /\ <<e, f>> \in Then(B, Then(S, I)) <=> <<e, f>> \in B \/ (<<e, f>> \in Then(S, I) /\ <<f, e>> \notin B)
    BY <1>5
  <2> QED
    BY <1>3, <1>4, <1>6, <1>7, <2>1, <2>2, <2>3
<1>10. CASE order = "quality,recency"
  <2>1. CriteriaOf(order) = <<"band", "time", "score">> /\ Comes(order, D, im, sm) = Then(B, Then(T, Then(S, I)))
    BY <1>10 DEF CriteriaOf, Comes, B, T, S, I
  <2>2. /\ FirstWon(<<"band", "time", "score">>, won, tied) <=> "band" \in won \/ ("band" \in tied /\ "time" \in won)
            \/ ("band" \in tied /\ "time" \in tied /\ "score" \in won)
        /\ AllTied(<<"band", "time", "score">>, tied) <=> "band" \in tied /\ "time" \in tied /\ "score" \in tied
    BY ThreeCriteria
  <2>3. /\ <<e, f>> \in Then(S, I) <=> <<e, f>> \in S \/ (<<e, f>> \in I /\ <<f, e>> \notin S)
        /\ <<e, f>> \in Then(T, Then(S, I)) <=> <<e, f>> \in T \/ (<<e, f>> \in Then(S, I) /\ <<f, e>> \notin T)
        /\ <<e, f>> \in Then(B, Then(T, Then(S, I))) <=> <<e, f>> \in B \/ (<<e, f>> \in Then(T, Then(S, I)) /\ <<f, e>> \notin B)
    BY <1>5
  <2> QED
    BY <1>3, <1>4, <1>6, <1>7, <2>1, <2>2, <2>3
<1> QED
  BY <1>8, <1>9, <1>10

LEMMA ComesIsTotal ==
    ASSUME NEW order \in {"recency", "quality", "quality,recency"}, NEW D, \A e \in D : IsEntry(e),
           NEW im, NEW sm, \A e \in D : RankBand(e, im, sm) \in Int,
           \A e, f \in D : e.skeet = f.skeet => e = f
    PROVE  IsCriterion(Comes(order, D, im, sm), D) /\ IsTotal(Comes(order, D, im, sm), D)
<1> DEFINE B == By("band", D, im, sm)
           T == By("time", D, im, sm)
           S == By("score", D, im, sm)
           I == ByIds(D)
<1>1. IsCriterion(B, D) /\ IsCriterion(T, D) /\ IsCriterion(S, D)
  BY EachIsCriterion
<1>2. IsCriterion(I, D) /\ IsTotal(I, D)
  BY IdsAreCriterion
<1>3. Comes(order, D, im, sm) \in {Then(T, I), Then(B, Then(S, I)), Then(B, Then(T, Then(S, I)))}
  BY DEF Comes
<1> HIDE DEF B, T, S, I
<1>4. /\ IsCriterion(Then(T, I), D) /\ IsTotal(Then(T, I), D)
      /\ IsCriterion(Then(S, I), D) /\ IsTotal(Then(S, I), D)
  BY <1>1, <1>2, CriteriaCompose
<1>5. /\ IsCriterion(Then(B, Then(S, I)), D) /\ IsTotal(Then(B, Then(S, I)), D)
      /\ IsCriterion(Then(T, Then(S, I)), D) /\ IsTotal(Then(T, Then(S, I)), D)
  BY <1>1, <1>4, CriteriaCompose
<1>6. IsCriterion(Then(B, Then(T, Then(S, I))), D) /\ IsTotal(Then(B, Then(T, Then(S, I))), D)
  BY <1>1, <1>5, CriteriaCompose
<1> QED
  BY <1>3, <1>4, <1>5, <1>6

\* Of each post that shows, one entry does.
LEMMA OneEntryEach ==
    ASSUME NEW entries, DOMAIN entries \subseteq Int, \A k \in DOMAIN entries : entries[k].score \in Mark,
           NEW im, NEW sm, NEW k \in VisibleEntries(entries, im, sm), NEW l \in VisibleEntries(entries, im, sm),
           entries[k].skeet = entries[l].skeet
    PROVE  k = l
<1>1. SUFFICES ASSUME k # l PROVE FALSE
  BY <1>1
<1>2. k \in DOMAIN entries /\ l \in DOMAIN entries /\ Leads(entries, k, l) /\ Leads(entries, l, k)
  BY <1>1, Zenon DEF VisibleEntries
<1>3. entries[k].score \in Int /\ entries[l].score \in Int /\ k \in Int /\ l \in Int
  BY <1>2, RankingConstants DEF Mark
<1> QED
  BY <1>2, <1>3 DEF Leads

\* Entries as they are read, with the appraisals there are.
AreRead(entries, im, sm) ==
    /\ IsFiniteSet(DOMAIN entries) /\ DOMAIN entries \subseteq Int
    /\ \A k \in DOMAIN entries :
        /\ IsEntry(entries[k])
        /\ im[entries[k].image] \in Band \cup {None} /\ sm[entries[k].skeet] \in Band \cup {None}

\* One list is to be published, and no other.
IsDetermined(order, cutoff, entries, im, sm) ==
    \E list : PublishedForSpec(order, cutoff, entries, im, sm) = {list}

\* In each order there is exactly one list of given entries and appraisals: of
\* two entries one precedes the other, and they never precede each other in a
\* circle (publisher.rs:116-184, "make equal ranks deterministic").
THEOREM ListIsDetermined ==
    ASSUME NEW order \in {"recency", "quality", "quality,recency"}, NEW cutoff,
           NEW entries, NEW im, NEW sm, AreRead(entries, im, sm)
    PROVE  IsDetermined(order, cutoff, entries, im, sm)
<1> DEFINE V == VisibleEntries(entries, im, sm)
           S == {e \in {entries[k] : k \in V} : e.original >= cutoff}
           R == Comes(order, S, im, sm)
<1>0. /\ IsFiniteSet(DOMAIN entries) /\ DOMAIN entries \subseteq Int
      /\ \A k \in DOMAIN entries : IsEntry(entries[k])
      /\ \A k \in DOMAIN entries :
            im[entries[k].image] \in Band \cup {None} /\ sm[entries[k].skeet] \in Band \cup {None}
  BY DEF AreRead
<1>1. V \in SUBSET DOMAIN entries
  BY Zenon DEF VisibleEntries
<1>2. IsFiniteSet(S)
  <2>1. IsFiniteSet(V)
    BY <1>0, <1>1, FS_Subset
  <2> DEFINE A == {entries[k] : k \in V}
             g == [k \in V |-> entries[k]]
  <2>2. g \in Surjection(V, A)
    BY Zenon DEF Surjection
  <2>3. IsFiniteSet(A)
    BY <2>1, <2>2, FS_Surjection
  <2>4. S \in SUBSET A
    OBVIOUS
  <2> QED
    BY <2>3, <2>4, FS_Subset
<1>3. \A e \in S : \E k \in V : e = entries[k]
  OBVIOUS
<1>4. \A e \in S : IsEntry(e)
  BY <1>0, <1>1, <1>3
<1>5. \A e \in S : RankBand(e, im, sm) \in Int
  <2>1. SUFFICES ASSUME NEW e \in S PROVE RankBand(e, im, sm) \in Int
    BY <2>1
  <2>2. im[e.image] \in Band \cup {None} /\ sm[e.skeet] \in Band \cup {None}
    BY <1>0, <1>1, <1>3
  <2> QED
    BY <2>2, ImageBandType, SkeetBandType, BandsAreNumbers DEF RankBand
<1>6. \A e, f \in S : e.skeet = f.skeet => e = f
  <2>1. SUFFICES ASSUME NEW e \in S, NEW f \in S, e.skeet = f.skeet PROVE e = f
    BY <2>1
  <2>2. PICK k \in V : e = entries[k]
    BY <1>3
  <2>3. PICK l \in V : f = entries[l]
    BY <1>3
  <2>4. k = l
    BY <1>0, <2>1, <2>2, <2>3, OneEntryEach DEF IsEntry
  <2> QED
    BY <2>2, <2>3, <2>4
<1>7. \A s : s \in PublishedForSpec(order, cutoff, entries, im, sm) <=>
        /\ s \in SetToSeqs(S)
        /\ \A m, n \in DOMAIN s : m < n => Precedes(order, s[m], s[n], im, sm)
  BY Zenon DEF PublishedForSpec
<1> HIDE DEF S
<1>8. \A s \in SetToSeqs(S) : \A n \in DOMAIN s : s[n] \in S
  <2>1. SUFFICES ASSUME NEW s \in SetToSeqs(S) PROVE \A n \in DOMAIN s : s[n] \in S
    BY <2>1
  <2>2. s \in [1 .. Cardinality(S) -> S]
    BY Zenon DEF SetToSeqs
  <2> QED
    BY <2>2
<1>9. \A s \in SetToSeqs(S) :
        InOrder(s, R) <=> \A m, n \in DOMAIN s : m < n => Precedes(order, s[m], s[n], im, sm)
  <2>1. \A e, f \in S : Precedes(order, e, f, im, sm) <=> <<e, f>> \in R
    BY <1>4, <1>5, PrecedesIsComes
  <2> QED
    BY <1>8, <2>1, Zenon DEF InOrder
<1>10. IsCriterion(R, S) /\ IsTotal(R, S)
  BY <1>4, <1>5, <1>6, ComesIsTotal
<1> HIDE DEF R
<1>11. PICK list \in SetToSeqs(S) : InOrder(list, R) /\ \A s \in SetToSeqs(S) : InOrder(s, R) => s = list
  BY <1>2, <1>10, OneList
<1>12. PublishedForSpec(order, cutoff, entries, im, sm) = {list}
  BY <1>7, <1>9, <1>11, Zenon
<1> QED
  BY <1>12 DEF IsDetermined

\* Scores are on the scale.
ScoresInv == scores \in [Image -> {None} \cup [score : Mark, model : Models]]

LEMMA ScoresInvariant == Spec => []ScoresInv
<1>1. Init => ScoresInv
  BY CurationConstants DEF Init, ScoresInv, Mark
<1>2. ASSUME ScoresInv, [Next]_vars PROVE ScoresInv'
  <2>1. CASE UNCHANGED scores
    BY <1>2, <2>1 DEF ScoresInv
  <2>2. ASSUME NEW i \in Image, NEW x \in 0 .. Scale, NEW model \in Models, Score(i, x, model)
        PROVE  ScoresInv'
    <3>1. scores' = [scores EXCEPT ![i] = [score |-> x, model |-> model]]
      BY <2>2 DEF Score
    <3>2. [score |-> x, model |-> model] \in [score : Mark, model : Models]
      BY DEF Mark
    <3> QED
      BY <1>2, <3>1, <3>2 DEF ScoresInv
  <2>3. CASE UNCHANGED vars
    BY <2>1, <2>3 DEF vars, store
  <2>4. CASE Tick \/ Begin \/ Write \/ Lose \/ Restart \/ OpenAdmin \/ NextPage
    BY <2>1, <2>4 DEF Tick, Begin, Write, Lose, Restart, OpenAdmin, NextPage, store
  <2>5. CASE Appraise
    BY <2>1, <2>5 DEF Appraise, AppraiseImage, AppraiseSkeet
  <2>6. CASE \/ \E i \in Image, s \in Skeet, stamp \in 0 .. now : Save(i, s, stamp)
             \/ \E t \in Target : Delete(t)
             \/ \E phase \in {"skeets", "images"} : Probe(phase) \/ Told(phase)
    BY <2>1, <2>6 DEF Save, Delete, Probe, Told, store
  <2> QED
    BY <1>2, <2>2, <2>3, <2>4, <2>5, <2>6 DEF Next
<1> QED
  BY <1>1, <1>2, PTL DEF Spec

\* Whatever has been saved, scored and appraised so far, a cycle that begins
\* has exactly one list to publish (publisher.rs:58-95, 328-388).
THEOREM PublicationIsDetermined ==
    Spec => []IsDetermined(Order, now - Window, Fetched, imageManual, skeetManual)
<1>1. ASSUME ImagesInv, ScoresInv, AgreeInv
      PROVE  IsDetermined(Order, now - Window, Fetched, imageManual, skeetManual)
  <2>1. IsFiniteSet(DOMAIN Fetched) /\ DOMAIN Fetched \subseteq DOMAIN images /\ DOMAIN images \subseteq Int
    <3>1. DOMAIN images = 1 .. Len(images) /\ Len(images) \in Nat
      BY <1>1 DEF ImagesInv, Keyed
    <3>2. IsFiniteSet(DOMAIN images)
      <4>1. 1 \in Int /\ Len(images) \in Int
        BY <3>1
      <4> QED
        BY <3>1, <4>1, FS_Interval
    <3>3. DOMAIN Fetched \in SUBSET DOMAIN images
      BY DEF Fetched, Joined, Windowed
    <3> QED
      BY <3>1, <3>2, <3>3, FS_Subset
  <2>2. ASSUME NEW k \in DOMAIN Fetched
        PROVE  /\ IsEntry(Fetched[k])
               /\ imageManual[Fetched[k].image] \in Band \cup {None}
               /\ skeetManual[Fetched[k].skeet] \in Band \cup {None}
    <3>1. k \in DOMAIN images /\ IsScored(k)
      BY DEF Fetched, Joined, Windowed
    <3>2. /\ Fetched[k].image = images[k].image /\ Fetched[k].skeet = images[k].skeet
          /\ Fetched[k].original = images[k].original
          /\ Fetched[k].score = scores[images[k].image].score
      BY DEF Fetched, Joined, Windowed
    <3>3. images[k].image \in Image /\ images[k].skeet \in Skeet /\ images[k].original \in Nat
      BY <1>1, <3>1, RowType
    <3>4. (\A i \in Image : i \in Int) /\ (\A i \in Skeet : i \in Int)
      <4>1. Image \subseteq Nat /\ Skeet \subseteq Nat
        BY CurationConstants
      <4> QED
        BY <4>1
    <3>5. scores[images[k].image].score \in Mark
      BY <1>1, <3>1, <3>3 DEF IsScored, ScoresInv
    <3>6. imageManual \in [Image -> Band \cup {None}] /\ skeetManual \in [Skeet -> Band \cup {None}]
      BY <1>1 DEF AgreeInv
    <3>7. IsEntry(Fetched[k])
      <4>1. Fetched[k].image \in Int
        BY <3>2, <3>3, <3>4
      <4>2. Fetched[k].skeet \in Int
        BY <3>2, <3>3, <3>4
      <4>3. Fetched[k].original \in Int
        BY <3>2, <3>3
      <4>4. Fetched[k].score \in Mark
        BY <3>2, <3>5
      <4> QED
        BY <4>1, <4>2, <4>3, <4>4, Zenon DEF IsEntry
    <3>8. Fetched[k].image \in Image /\ Fetched[k].skeet \in Skeet
      BY <3>2, <3>3
    <3> QED
      BY <3>6, <3>7, <3>8
  <2>3. Order \in {"recency", "quality", "quality,recency"}
    BY CurationConstants
  <2>4. AreRead(Fetched, imageManual, skeetManual)
    BY <2>1, <2>2 DEF AreRead
  <2> QED
    BY <2>3, <2>4, ListIsDetermined
<1> QED
  BY <1>1, ImagesInvariant, ScoresInvariant, AgreeInvariant, PTL
================================================================================
