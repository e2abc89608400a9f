------------------------- MODULE FaceCaptureRanking -------------------------
(***************************************************************************)
(* FaceCapture with a history variable: every candidate AddCandidate was   *)
(* given since the last reset, whatever became of it.                      *)
(***************************************************************************)
EXTENDS FaceCapture

VARIABLE accepted

InitR == Init /\ accepted = {}

UpdateR(faces, seen, time, newer, image) ==
    /\ Update(faces, seen, time, newer, image)
    /\ accepted' = IF Accepts(time, newer, image) /\ lastUpdate'.rejects = {}
                   THEN accepted \cup {Candidate(f, time) : f \in seen}
                   ELSE accepted

NextR ==
    \/ \E faces \in Frames(config), time \in 1..MaxTime, newer, image \in BOOLEAN :
         \E seen \in Selected(faces) : UpdateR(faces, seen, time, newer, image)
    \/ Finish /\ UNCHANGED accepted
    \/ (Reset \/ \E c \in Configs, enabled \in Features : Configure(c, enabled)) /\ accepted' = {}

SpecR == InitR /\ [][NextR]_<<vars, accepted>>

-----------------------------------------------------------------------------
\* "Update the bounded Top-N result set": a candidate that is not among the
\* results gave way to one at least as good.  It lost to another sighting of its
\* track, which may itself have been replaced by a better one since, or the
\* results are full of sightings at least as good.
BestKept ==
    \A c \in accepted :
        \/ \E r \in results : r.track = c.track /\ r.score >= c.score
        \/ Cardinality(results) = config.outputCount /\ \A r \in results : r.score >= c.score
=============================================================================
