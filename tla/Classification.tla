---------------------------- MODULE Classification ----------------------------
(***************************************************************************)
(* What skeet-prune decides about one image (skeet-prune/src/classify.rs   *)
(* over face-detection and skin-detection), as operators on a grid of      *)
(* pixels.  The networks and the colour model are left out: a picture is   *)
(* what they found, the raw detections of faces, its skin pixels and the   *)
(* pixels of detected text.                                                *)
(***************************************************************************)
EXTENDS Integers, FiniteSets, Sequences

CONSTANTS
    Side,       \* the images are Side x Side pixels, four grid units a side
    Threshold   \* PruneConfig, as percentages of pixels

ASSUME ClassificationConstants ==
    /\ Side \in Nat /\ Side > 0 /\ Side % 4 = 0
    /\ DOMAIN Threshold = {"minFaceArea", "maxFaceArea", "minFaceSkin", "maxOutsideSkin", "maxText"}
    /\ \A t \in DOMAIN Threshold : Threshold[t] \in 0 .. 100

Pixel == (0 .. Side - 1) \X (0 .. Side - 1)
Unit  == Side \div 4

Category(reason) ==
    CASE reason = "BlockedByMetadata" -> "Metadata"
      [] reason = "TooMuchText"       -> "Text"
      [] OTHER                        -> "Face"

----------------------------------------------------------------------------
(* Rectangles: [x, y, w, h], which may reach out of the image.              *)

Least(a, b)    == IF a < b THEN a ELSE b
Greatest(a, b) == IF a > b THEN a ELSE b

\* What two intervals [start, start + length) share; nothing when apart.
Shared(a, la, b, lb) == Greatest(0, Least(a + la, b + lb) - Greatest(a, b))

OverlapArea(r, s) == Shared(r.x, r.w, s.x, s.w) * Shared(r.y, r.h, s.y, s.h)

Frame == [x |-> 0, y |-> 0, w |-> Side, h |-> Side]

\* area_pct counts the part of the face within the image.
FaceArea(face) == OverlapArea(face, Frame)

\* The cast to u32 moves a negative corner to 0 and keeps the width, so the
\* skin is not measured where the face is when it reaches out of the image.
SkinRect(face) ==
    LET x == Greatest(face.x, 0)
        y == Greatest(face.y, 0)
    IN  {p \in Pixel : /\ p[1] >= x /\ p[1] < Least(x + face.w, Side)
                       /\ p[2] >= y /\ p[2] < Least(y + face.h, Side)}

----------------------------------------------------------------------------
(* Detections: rectangles with a score in percent and, in pixels, both eyes *)
(* and the nose.                                                           *)

Point == Int \X Int
Detection == [score : Int, x : Int, y : Int, w : Nat, h : Nat,
              rightEye : Point, leftEye : Point, nose : Point]
Pictures == [detections : Seq(Detection), skin : SUBSET Pixel, text : SUBSET Pixel]

ScoreThreshold == 60    \* SCORE_THRESHOLD
NmsThreshold   == 30    \* NMS_IOU_THRESHOLD

Confident(detections) == {i \in DOMAIN detections : detections[i].score >= ScoreThreshold}

\* The intersection over the union of two detections exceeds the threshold.
Duplicates(d, e) ==
    LET both  == OverlapArea(d, e)
        union == d.w * d.h + e.w * e.h - both
    IN  union > 0 /\ 100 * both > NmsThreshold * union

\* The best first; the sort is stable.  A rank counts what comes before.
Better(detections, i, j) ==
    \/ detections[i].score > detections[j].score
    \/ detections[i].score = detections[j].score /\ i < j

Rank(detections, i) == Cardinality({j \in Confident(detections) : Better(detections, j, i)})

\* What is kept of the n best: a detection unless one kept before it is of the
\* same face.
Kept(detections) ==
    LET kept[n \in 0 .. Len(detections)] ==
            IF n = 0 THEN {}
            ELSE kept[n - 1] \cup
                 {i \in Confident(detections) :
                    /\ Rank(detections, i) = n - 1
                    /\ \A k \in kept[n - 1] : ~Duplicates(detections[k], detections[i])}
    IN  kept

Nms(detections) == Kept(detections)[Len(detections)]

Square(n) == n * n

\* The eyes stand apart, on a line within 30 degrees, the nose within 35 % of
\* their distance from between them; atan and hypot in whole numbers.
IsFrontal(face) ==
    LET dx   == face.leftEye[1] - face.rightEye[1]
        dy   == face.leftEye[2] - face.rightEye[2]
        apart == Square(dx) + Square(dy)
        offset == 2 * face.nose[1] - face.leftEye[1] - face.rightEye[1]
    IN  /\ apart >= 1
        /\ 3 * Square(dy) <= Square(dx)
        /\ 100 * Square(offset) < 49 * apart

\* part of whole compared with a percentage; an empty region has 0 %.
Below(part, whole, pct) == IF whole = 0 THEN 0 < pct ELSE 100 * part < pct * whole
Above(part, whole, pct) == whole # 0 /\ 100 * part > pct * whole

----------------------------------------------------------------------------
(* Zones: nine blocks of 2 x 2 units, numbered row by row.                 *)

Zone == 1 .. 9
Column(zone) == (zone - 1) % 3
Block(zone) == [x |-> Column(zone) * Unit, y |-> ((zone - 1) \div 3) * Unit,
                w |-> 2 * Unit, h |-> 2 * Unit]

\* max_by keeps the last of several greatest elements.
FaceZone(face) ==
    CHOOSE z \in Zone : \A other \in Zone :
        \/ OverlapArea(face, Block(other)) < OverlapArea(face, Block(z))
        \/ OverlapArea(face, Block(other)) = OverlapArea(face, Block(z)) /\ other <= z

\* Faulty: only the very centre is refused.
AcceptsMiddleColumn(zone) == zone # 5

IsAcceptedZone(zone) == Column(zone) # 1

----------------------------------------------------------------------------
(* classify: the reasons against a picture, none when it is accepted.       *)

AreaReasons(face) ==
    LET all == Side * Side
    IN  (IF Below(FaceArea(face), all, Threshold.minFaceArea) THEN {"FaceTooSmall"} ELSE {})
        \cup (IF Above(FaceArea(face), all, Threshold.maxFaceArea) THEN {"FaceTooLarge"} ELSE {})

SkinReasons(face, skin) ==
    LET inside  == SkinRect(face)
        outside == Pixel \ inside
    IN  (IF Below(Cardinality(skin \cap inside), Cardinality(inside), Threshold.minFaceSkin)
         THEN {"TooLittleFaceSkin"} ELSE {})
        \cup (IF Above(Cardinality(skin \cap outside), Cardinality(outside), Threshold.maxOutsideSkin)
              THEN {"TooMuchSkinOutsideFace"} ELSE {})

TextReasons(text) ==
    IF Above(Cardinality(text), Side * Side, Threshold.maxText) THEN {"TooMuchText"} ELSE {}

Frontal(detections) == {i \in Nms(detections) : IsFrontal(detections[i])}

Classify(shown) ==
    LET frontal == Frontal(shown.detections)
    IN  IF Cardinality(Nms(shown.detections)) > 1 THEN {"TooManyFaces"}
        ELSE IF frontal = {} THEN {"TooFewFrontalFaces"}
        ELSE LET face    == shown.detections[CHOOSE i \in frontal : TRUE]
                 reasons == AreaReasons(face) \cup SkinReasons(face, shown.skin)
                            \cup TextReasons(shown.text)
             IN  IF reasons # {} THEN reasons
                 ELSE IF IsAcceptedZone(FaceZone(face)) THEN {} ELSE {"FaceNotInAcceptedZone"}

----------------------------------------------------------------------------
\* Independent of zones: the halves and the middle of the image, full height.
HalfFrom(x) == [x |-> x, y |-> 0, w |-> 2 * Unit, h |-> Side]

\* Independent of the order of detections: all of whom something confident was
\* detected are the same person as the best detection.
IsOnlyFace(detections, best) ==
    \A i \in Confident(detections) \ {best} :
        /\ ~Better(detections, i, best)
        /\ Duplicates(detections[best], detections[i])

\* The one face is frontal, of the wanted size within the image, and an outer
\* half of the image holds at least as much of it as the middle half.
IsOffCentreSelfie(shown) ==
    \E best \in Confident(shown.detections) :
        LET face == shown.detections[best]
        IN  /\ IsOnlyFace(shown.detections, best) /\ IsFrontal(face)
            /\ 100 * FaceArea(face) \in Threshold.minFaceArea * Side * Side
                                     .. Threshold.maxFaceArea * Side * Side
            /\ \E x \in {0, 2 * Unit} :
                OverlapArea(face, HalfFrom(x)) >= OverlapArea(face, HalfFrom(Unit))
=============================================================================
