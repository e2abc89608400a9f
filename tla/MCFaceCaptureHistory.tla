------------------------ MODULE MCFaceCaptureHistory ------------------------
(***************************************************************************)
(* An instance of FaceCaptureHistory for TLC.                              *)
(***************************************************************************)
EXTENDS MCFaceCapture, FaceCaptureHistory
=============================================================================
