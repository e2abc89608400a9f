------------------------- MODULE FaceCaptureHistory -------------------------
(***************************************************************************)
(* FaceCapture with a second history variable: the frames the selector has *)
(* evaluated since the last reset, where sightings must be stable.  It     *)
(* lets a property say what a stable sighting is without the selector's    *)
(* own clocks.                                                             *)
(***************************************************************************)
EXTENDS FaceCaptureRanking, Sequences

VARIABLE log

\* A frame without a face, or one whose selected face is flat or usable.
Entries(seen, time) ==
    IF seen = {} THEN {[time |-> time, shows |-> "none", track |-> NoTrack, place |-> NoPlace]}
    ELSE {[time |-> time, shows |-> IF f.area = 0 THEN "flat" ELSE "face",
           track |-> f.track, place |-> f.place] : f \in seen}

InitH == InitR /\ log = <<>>

UpdateH(faces, seen, time, newer, image) ==
    /\ UpdateR(faces, seen, time, newer, image)
    /\ \/ /\ config.stability /\ Accepts(time, newer, image)
          /\ \E e \in Entries(seen, time) : log' = Append(log, e)
       \/ ~(config.stability /\ Accepts(time, newer, image)) /\ UNCHANGED log

NextH ==
    \/ \E faces \in Frames(config), time \in 1..MaxTime, newer, image \in BOOLEAN :
         \E seen \in Selected(faces) : UpdateH(faces, seen, time, newer, image)
    \/ Finish /\ UNCHANGED <<accepted, log>>
    \/ /\ Reset \/ \E c \in Configs, enabled \in Features : Configure(c, enabled)
       /\ accepted' = {} /\ log' = <<>>

varsH == <<vars, accepted, log>>
SpecH == InitH /\ [][NextH]_varsH

-----------------------------------------------------------------------------
\* The last frame before the k-th that shows a usable face.
SeenBefore(k, j) ==
    j < k /\ log[j].shows = "face" /\ \A m \in (j + 1)..(k - 1) : log[m].shows # "face"

\* What may follow a sighting while its face is watched: a sighting of the same
\* track that has not moved from it, or, within the grace period, a frame
\* without a face.  A frame whose selected face is flat says nothing.
Follows(sighting, e) ==
    /\ e.shows = "face" =>
         e.track = sighting.track /\ ~Moved(config, sighting.place, e.place)
    /\ e.shows = "none" => e.time - sighting.time <= config.grace

\* From the sighting in frame i up to frame n, one face has been watched: every
\* frame follows the last sighting before it.
Watched(i, n) ==
    /\ log[i].shows = "face"
    /\ \A k \in (i + 1)..n : \E j \in i..n : SeenBefore(k, j) /\ Follows(log[j], log[k])

\* Every result ends a watch of at least stableDurationMs: since a sighting that
\* long before, no other track was selected, no sighting had moved from the one
\* before it, and every frame without a face came within the grace period.  It
\* does not follow, and the code does not ensure, that the face is where it was
\* (small motions add up), or that it was never out of sight for longer than
\* the grace period (only a frame without a face is tested for it).
ResultsWereStable ==
    \A r \in results : config.stability =>
        \E i, n \in DOMAIN log :
            /\ log[n].time = r.time /\ log[n].track = r.track
            /\ r.time - log[i].time >= config.stable
            /\ Watched(i, n)
=============================================================================
