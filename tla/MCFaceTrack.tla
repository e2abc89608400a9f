---------------------------- MODULE MCFaceTrack ----------------------------
(***************************************************************************)
(* Instances of FaceTrack for TLC.                                         *)
(***************************************************************************)
EXTENDS FaceTrack

AllModes == {Always, Light, ByDetect}

\* Track-by-detect detects in every frame: the interval is never looked at.
TwoIntervals(m) == IF m = ByDetect THEN {2} ELSE {2, 3}
OneInterval(m) == {2}
LightMode == {Light}
=============================================================================
