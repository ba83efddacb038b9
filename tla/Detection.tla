------------------------------ MODULE Detection ------------------------------
(***************************************************************************)
(* The detection providers (src/coloursorter/deploy/detection.py).  The    *)
(* OpenCV ones normalise the frame, make detections of its bright regions, *)
(* and keep the measures of the normalisation, which decide whether the    *)
(* capture can be used.  The model stub does nothing of this: it sees one  *)
(* object in the middle of every frame.                                    *)
(*                                                                         *)
(* A picture is grey, so that its white balance is neutral, and has two    *)
(* levels: `share` percent of it at `peak` and the rest at `base`.  Scores *)
(* are in halves of a percent.  A region is what the contour finder says   *)
(* of it, its mean red and its mean colour.                                *)
(***************************************************************************)
EXTENDS Integers, SequencesExt

CONSTANTS Normalises,  (* enable_normalization                             *)
          TargetLuma, MinArea, RejectRed

ASSUME DetectionAssumption == Normalises \in BOOLEAN /\ TargetLuma \in 1..255

DetectionProviders == {"opencv_basic", "opencv_calibrated", "model_stub"}

Clipped(level) == IF level > 255 THEN 255 ELSE level
Least(x, low)  == IF x < low THEN low ELSE x

\* The mean of a picture, in hundredths of a level.
Luma(peak, base, share) == peak * share + base * (100 - share)
LumaOf(picture) == Luma(picture.peak, picture.base, picture.share)

\* max(0.25, min(4.0, target_luma / max(luma_before, 1.0))), as a fraction.
Gain(luma) ==
  LET target == 100 * TargetLuma  mean == Least(luma, 100) IN
  CASE ~Normalises -> [num |-> 1, den |-> 1]
    [] Normalises /\ target > 4 * mean -> [num |-> 4, den |-> 1]
    [] Normalises /\ 4 * target < mean -> [num |-> 1, den |-> 4]
    [] OTHER -> [num |-> target, den |-> mean]

\* The metrics of _normalize_frame that capture_fault_reason reads; the ratio
\* of clipped pixels is in percents.
NormalMetrics(picture) ==
  LET gain        == Gain(LumaOf(picture))
      After(level) == (level * gain.num) \div gain.den
      Clips(level) == level * gain.num > 255 * gain.den
      ratio == (IF Clips(picture.peak) THEN picture.share ELSE 0)
                 + (IF Clips(picture.base) THEN 100 - picture.share ELSE 0)
  IN [luma |-> Luma(Clipped(After(picture.peak)), Clipped(After(picture.base)), picture.share),
      gain |-> gain, ratio |-> ratio, valid |-> ratio <= 20]

\* The metrics of a provider that has none, or has not detected yet.
NoMetrics == [luma |-> 12800, gain |-> [num |-> 1, den |-> 1], ratio |-> 0, valid |-> TRUE]

Metrics(provider, picture) ==
  IF provider = "model_stub" THEN NoMetrics ELSE NormalMetrics(picture)

\* CaptureBaselineConfig and capture_fault_reason.
CaptureFault(metrics) ==
  \/ ~metrics.valid \/ metrics.luma < 8000 \/ metrics.luma > 18000
  \/ 2 * metrics.gain.num > 5 * metrics.gain.den \/ metrics.ratio > 10

-----------------------------------------------------------------------------
Detected(place, label, score) ==
  [lane |-> place.lane, far |-> place.far, label |-> label, score |-> score]

\* The distance of the mean red from its threshold, on either side of it, is
\* the confidence.
BasicDetection(region) ==
  LET distance == IF region.red < RejectRed THEN RejectRed - region.red ELSE region.red - RejectRed
  IN Detected(region, IF region.red >= RejectRed THEN "reject" ELSE "accept", (200 * distance) \div 255)

\* A region is rejected when its mean colour is in the window of the
\* configuration; the confidence does not depend on that.
CalibratedDetection(region) ==
  Detected(region, IF region.inWindow THEN "reject" ELSE "accept", region.confidence)

StubDetections(picture) == <<Detected(picture.middle, "accept", 102)>>

\* The n-th of a set of numbers.
Nth(S, n) == CHOOSE i \in S : Cardinality({j \in S : j < i}) = n - 1

\* Regions that are too small are left out; an object keeps the number of
\* its contour, which makes the ids unique.  The code sorts by the text of the
\* id, which is this order up to ten contours; nobody reads the order.
Detections(provider, picture) ==
  LET large     == {i \in 1..Len(picture.regions) : picture.regions[i].area >= MinArea}
      region(n) == picture.regions[Nth(large, n)]
  IN CASE provider = "opencv_basic" -> [n \in 1..Cardinality(large) |-> BasicDetection(region(n))]
       [] provider = "opencv_calibrated" ->
            [n \in 1..Cardinality(large) |-> CalibratedDetection(region(n))]
       [] provider = "model_stub" -> StubDetections(picture)
=============================================================================
