----------------------------- MODULE MCCandidate -----------------------------
(* Two posts that share an image, on a 4 x 4 grid of pixels: a unit is one  *)
(* pixel.  The pictures include faces on a tie between two zones, reaching  *)
(* out of the image, too small, and pictures with several reasons against.  *)
EXTENDS Candidate, SequencesExt

CONSTANTS p1, p2, b1, b2

SharedImages == p1 :> <<b1, b2>> @@ p2 :> <<b2>>

Thresholds == [minFaceArea |-> 5, maxFaceArea |-> 35, minFaceSkin |-> 30,
               maxOutsideSkin |-> 15, maxText |-> 10]

\* A detection with its eyes and nose at these places.
Seen(score, x, y, w, h, right, left, nose) ==
    [score |-> score, x |-> x, y |-> y, w |-> w, h |-> h, rightEye |-> right, leftEye |-> left,
     nose |-> nose]
Face(x, y, w, h) == Seen(90, x, y, w, h, <<x, y>>, <<x + 4, y + 2>>, <<x + 2, y + 1>>)

\* A picture with this face, skin all over it and nowhere else, and no text.
Selfie(face) == [detections |-> <<face>>, skin |-> SkinRect(face), text |-> {}]
With(face, detections) == [Selfie(face) EXCEPT !.detections = detections]

SimplePictures ==
    {Selfie(Face(x, 1, 1, 2)) : x \in {-1, 1, 4}} \cup {Selfie(Face(1, 0, 2, 1))}
    \cup {[Selfie(Face(0, 1, 2, 2)) EXCEPT !.skin = Pixel, !.text = {<<0, 0>>, <<3, 3>>}],
          With(Face(0, 0, 1, 1), <<Face(0, 0, 1, 1), Face(3, 3, 1, 1)>>)}

\* One face detected three times, the best of them second, and a doubtful one;
\* a chain in which the best detection does not overlap the last; and one that
\* looks away.
Detected ==
    LET twice == Face(2, 0, 2, 2)
        away  == [Face(2, 0, 2, 2) EXCEPT !.nose = <<5, 1>>]
    IN  {With(twice, <<Seen(70, 2, 0, 2, 1, <<0, 0>>, <<0, 3>>, <<0, 0>>), twice,
                       Seen(65, 1, 0, 3, 2, <<2, 0>>, <<2, 0>>, <<2, 0>>), Seen(59, 0, 3, 1, 1, <<0, 0>>, <<1, 0>>, <<0, 0>>)>>),
         With(Face(0, 0, 2, 1), <<Face(0, 0, 2, 1), Seen(80, 1, 0, 2, 1, <<1, 0>>, <<3, 0>>, <<2, 0>>),
                                   Seen(60, 2, 0, 2, 1, <<2, 0>>, <<4, 0>>, <<3, 0>>)>>),
         With(away, <<away>>)}

\* The shared image is fit.
PerBlob == b1 :> SimplePictures \cup Detected @@ b2 :> {Selfie(Face(-1, 1, 3, 2))}
=============================================================================
