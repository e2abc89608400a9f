------------------------------ MODULE MCLaunch ------------------------------
(***************************************************************************)
(* Two packages that load, with one level in common at different places of *)
(* their lists, and one package for each way a load fails.                 *)
(***************************************************************************)
EXTENDS Launch

Loadable == {"near", "far"}
MCPackages == Loadable \cup {"broken", "odd"}
MCOutcome == [p \in MCPackages |->
    CASE p \in Loadable -> "good"
      [] p = "broken"   -> "malformed"
      [] p = "odd"      -> "refused_by_converter"]
MCPixelsOf == [p \in MCPackages |-> IF p = "far" THEN <<160, 320>> ELSE <<320, 640>>]
MCDetectorsOf == [p \in MCPackages |->
    IF p = "far" THEN <<"face_detect_160", "face_detect_320">>
    ELSE <<"face_detect_320", "face_detect_640">>]
Basic == {"face_detect_320", "landmark", "refine_net"}
MCModelsOf == [p \in MCPackages |->
    Basic \cup (IF p = "far" THEN {"face_detect_160"}
               ELSE {"face_detect_640", "landmark_0_50", "feature"})]
\* The near package has no landmark table.
MCEnginesOf == [p \in MCPackages |-> IF p = "far" THEN {"landmark"} ELSE {}]
MCDetectorNames == {"face_detect_160", "face_detect_320", "face_detect_640"}
MCPixelLists == {<<640>>, <<>>}
MCDetectorLists == {<<"face_detect_160">>}
MCPixelLevels == {-1, 600}
MCOptional == {{}, {"feature"}}
NoLists == {}
=============================================================================
