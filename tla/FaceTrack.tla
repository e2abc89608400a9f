----------------------------- MODULE FaceTrack -----------------------------
(***************************************************************************)
(* The face tracker of a session (track_module/face_track_module.cpp):     *)
(* detection on some frames, tracking of the known faces on every frame.   *)
(* Its operations run under the session's mutex, one at a time.            *)
(*                                                                         *)
(* Abstractions: pictures are what the models make of them, so a frame is  *)
(* a choice of detected boxes, of the faces the non-maximum suppression    *)
(* keeps and of what tracking each face yields.  The order that sorting    *)
(* gives the list is left out: whatever face comes first, any may fail.    *)
(* In track-by-detect mode the ids come from the tracker of ByteTrack.     *)
(***************************************************************************)
EXTENDS ByteTrack, Sequences, Sublists

CONSTANTS
    Modes,         \* the detect modes under study
    MaxFaces,      \* max_detected_faces_
    Intervals(_),  \* detection intervals clients set in each mode
    MaxBoxes,      \* boxes the detector finds at most (a bound)
    MaxTracked,    \* faces that are tracked at once (a bound)
    MaxId,         \* ids given out (a bound)
    MaxTrackId,    \* ids given out by BYTETracker (a bound)
    MaxFrames      \* frames tracked (a bound)

Always == "always_detect"
Light == "light_track"
ByDetect == "track_by_detect"
NoId == -1

\* SetTrackModeDetectInterval refuses an interval below 1.
ASSUME TrackAssumption ==
    /\ Modes \subseteq {Always, Light, ByDetect}
    /\ \A m \in Modes : Intervals(m) \subseteq Nat \ {0}
    /\ MaxFaces \in Nat /\ MaxBoxes \in Nat

VARIABLES
    mode,
    interval,      \* detection_interval_
    recovery,      \* m_track_lost_recovery_mode_
    index,         \* detection_index_
    lastId,        \* tracking_idx_
    tracking,      \* trackingFace: id, tracking_state_, low confidence or not
    frame,         \* the last frame: its status, whether detection ran in it, the
                   \* number of faces it reports, the recovery mode it ran in
    quiet,         \* history: frames since detection last ran, or the interval changed
    newest         \* history: the greatest id ever tracked

vars == <<mode, interval, recovery, index, lastId, tracking, frame, quiet, newest, trackerVars>>

Face(id, low) == [id |-> id, state |-> "detect", low |-> low]
Lost(face) == [face EXCEPT !.state = "untracking"]
Report(status, detected, faces) ==
    [status |-> status, detected |-> detected, count |-> Len(faces), recovery |-> recovery]

-----------------------------------------------------------------------------
Init ==
    /\ mode \in Modes
    /\ interval \in Intervals(mode) /\ recovery = FALSE
    /\ index = -1 /\ lastId = 0
    /\ tracking = <<>>
    /\ frame = Report("none", FALSE, <<>>)
    /\ quiet = 0
    /\ newest = 0
    /\ TrackerInit

-----------------------------------------------------------------------------
(* Tracking one face, and all of them. *)

\* What the models yield: a high or low track score; no quality landmarks or no
\* landmarks; a model that fails.
Yields == {"high", "low", "nothing", "error"}

\* A face whose confidence is low is dropped before the models run.
Dropped(face) == face.low /\ ~recovery

\* Mutant: a new face with a low score waits for the next frame.
TrackLikely(face, yield) ==
    IF Dropped(face) \/ yield \in {"nothing", "error"} \/ (yield = "low" /\ recovery) THEN Lost(face)
    ELSE IF face.state = "detect" /\ yield = "high" THEN [face EXCEPT !.state = "ready"]
    ELSE IF face.state = "detect" THEN face
    ELSE [face EXCEPT !.state = "tracking", !.low = (yield = "low")]

\* TrackFace: a new face becomes ready, a ready one is tracked and from then on
\* has the confidence of its score.
TrackFace(face, yield) ==
    IF \/ Dropped(face)
       \/ yield \in {"nothing", "error"}
       \/ yield = "low" /\ recovery
    THEN Lost(face)
    ELSE IF face.state = "detect" THEN [face EXCEPT !.state = "ready"]
    ELSE [face EXCEPT !.state = "tracking", !.low = (yield = "low")]

Fails(face, yield) == ~Dropped(face) /\ yield = "error"

\* The first model failure ends the frame: the faces behind it stay as they are.
Done(faces, yields) ==
    LET failed == {i \in DOMAIN faces : Fails(faces[i], yields[i])}
    IN {i \in DOMAIN faces : \A j \in failed : i <= j}

\* Mutant: the face whose model failed is left in the list.
KeepsFailed(faces, yields) ==
    LET list == [i \in DOMAIN faces |->
                   IF i \in Done(faces, yields) THEN TrackFace(faces[i], yields[i]) ELSE faces[i]]
        failed == {i \in Done(faces, yields) : Fails(faces[i], yields[i])}
    IN Sublist(list, {i \in DOMAIN faces : list[i].state # "untracking" \/ failed # {}})

\* The list after the loop: the faces that are lost are erased.
TrackAll(faces, yields) ==
    LET list == [i \in DOMAIN faces |->
                   IF i \in Done(faces, yields) THEN TrackFace(faces[i], yields[i]) ELSE faces[i]]
    IN Sublist(list, {i \in DOMAIN faces : list[i].state # "untracking"})

Status(faces, yields) ==
    IF \E i \in DOMAIN faces : Fails(faces[i], yields[i]) THEN "error" ELSE "ok"

-----------------------------------------------------------------------------
(* DetectFace. *)

\* A box is smaller than the minimal face, or has a likely or unlikely face.
Boxes == UNION {[1..n -> {"small", "likely", "unlikely"}] : n \in 0..MaxBoxes}
Large(boxes) == Sublist(boxes, {i \in DOMAIN boxes : boxes[i] # "small"})
AtMost(n, m) == IF n < m THEN n ELSE m

\* Mutant: the id is taken from the position in the list of candidates.
CandidatesByPosition(boxes) ==
    [i \in 1..AtMost(Len(Large(boxes)), MaxFaces) |-> Face(i, Large(boxes)[i] = "unlikely")]

\* Every box that is large enough takes the next id, also beyond the limit, and
\* the first MaxFaces of them become candidates.
Candidates(boxes) ==
    [i \in 1..AtMost(Len(Large(boxes)), MaxFaces) |->
       Face(IF mode = Always THEN NoId ELSE lastId + i, Large(boxes)[i] = "unlikely")]

LastId(boxes) ==
    IF mode = Always /\ Large(boxes) # <<>> THEN NoId
    ELSE lastId + Len(Large(boxes))

\* The faces a detection may yield, and the id counter after it.
DetectFace == {[faces |-> Candidates(b), lastId |-> LastId(b)] : b \in Boxes}

\* In track-by-detect mode, the faces of the tracks BYTETracker returns.
FacesOfTracks ==
    Sublist([id \in 1..nextTrackId |-> Face(id, FALSE)], OutputStracks)

\* What non-maximum suppression leaves: at least the best face.
Suppressions(faces) ==
    {Sublist(faces, kept) :
        kept \in {places \in SUBSET DOMAIN faces : faces # <<>> => places # {}}}

-----------------------------------------------------------------------------
(* UpdateStreamWithStatus. *)

Base == IF mode = Light THEN tracking ELSE <<>>

\* Mutant: detection is only due when there is nothing to track.
DueWhenEmpty(i) == Base = <<>> \/ mode # Light

Due(i) == Base = <<>> \/ i % interval = 0 \/ mode # Light

YieldsOf(faces) == [1..Len(faces) -> Yields]

DetectionFails ==
    /\ Due(index + 1)
    /\ tracking' \in Suppressions(Base)
    /\ frame' = Report("error", TRUE, <<>>)
    /\ quiet' = 0
    /\ index' = index + 1
    /\ UNCHANGED <<mode, interval, recovery, lastId, trackerVars>>

\* Detection, then tracking of old and new faces.
DetectAndTrack ==
    /\ Due(index + 1) /\ mode # ByDetect
    /\ \E old \in Suppressions(Base), new \in DetectFace :
         LET faces == old \o new.faces
         IN \E yields \in YieldsOf(faces) :
              /\ Len(faces) <= MaxTracked
              /\ tracking' = TrackAll(faces, yields)
              /\ frame' = Report(Status(faces, yields), TRUE, tracking')
              /\ lastId' = new.lastId
    /\ quiet' = 0
    /\ index' = index + 1
    /\ UNCHANGED <<mode, interval, recovery, trackerVars>>

\* The same with BYTETracker in between; no old face stays.
DetectAndTrackById ==
    /\ mode = ByDetect
    /\ \E confident, weak \in 0..AtMost(MaxBoxes, MaxFaces) :
         confident + weak <= AtMost(MaxBoxes, MaxFaces) /\ Update(confident, weak)
    /\ nextTrackId' <= MaxTrackId
    /\ \E faces \in {FacesOfTracks'} : \E yields \in YieldsOf(faces) :
         /\ tracking' = TrackAll(faces, yields)
         /\ frame' = Report(Status(faces, yields), TRUE, tracking')
    /\ quiet' = 0
    /\ index' = index + 1
    /\ UNCHANGED <<mode, interval, recovery, lastId>>

\* Mutant: recovery is forgotten.
NeverRecovers(faces, yields) == FALSE

\* In recovery mode, a frame that loses every face is searched again.
MustRecover(faces, yields) ==
    recovery /\ Status(faces, yields) = "ok" /\ TrackAll(faces, yields) = <<>>

TrackOnly ==
    /\ ~Due(index + 1)
    /\ \E yields \in YieldsOf(tracking) :
         /\ ~MustRecover(tracking, yields)
         /\ tracking' = TrackAll(tracking, yields)
         /\ frame' = Report(Status(tracking, yields), FALSE, tracking')
    /\ quiet' = quiet + 1
    /\ index' = index + 1
    /\ UNCHANGED <<mode, interval, recovery, lastId, trackerVars>>

\* The second search of the frame fails, or its faces are tracked in turn.
Recover ==
    /\ ~Due(index + 1)
    /\ \E yields \in YieldsOf(tracking) : MustRecover(tracking, yields)
    /\ \/ /\ tracking' = <<>>
          /\ frame' = Report("error", TRUE, <<>>)
          /\ index' = index + 1
          /\ UNCHANGED lastId
       \/ \E new \in DetectFace : \E yields \in YieldsOf(new.faces) :
            /\ tracking' = TrackAll(new.faces, yields)
            /\ frame' = Report(Status(new.faces, yields), TRUE, tracking')
            /\ index' = 0
            /\ lastId' = new.lastId
    /\ quiet' = 0
    /\ UNCHANGED <<mode, interval, recovery, trackerVars>>

IdsOf(list) == {list[i].id : i \in DOMAIN list}

UpdateStream ==
    /\ index < MaxFrames /\ lastId + MaxBoxes <= MaxId
    /\ DetectionFails \/ DetectAndTrack \/ DetectAndTrackById \/ TrackOnly \/ Recover
    /\ newest' = CHOOSE id \in {newest} \cup IdsOf(tracking') :
                   \A x \in {newest} \cup IdsOf(tracking') : x <= id

-----------------------------------------------------------------------------
(* The setters. *)

SetTrackModeDetectInterval(n) ==
    /\ interval' = n /\ quiet' = 0
    /\ UNCHANGED <<mode, recovery, index, lastId, tracking, frame, newest, trackerVars>>

SetTrackLostRecoveryMode(value) ==
    /\ recovery' = value
    /\ UNCHANGED <<mode, interval, index, lastId, tracking, frame, quiet, newest, trackerVars>>

\* Mutant: clearing starts the ids again.
ClearIds ==
    /\ tracking' = <<>> /\ lastId' = 0
    /\ UNCHANGED <<mode, interval, recovery, index, frame, quiet, newest, trackerVars>>

ClearTrackingFace ==
    /\ tracking' = <<>>
    /\ UNCHANGED <<mode, interval, recovery, index, lastId, frame, quiet, newest, trackerVars>>

Next ==
    \/ UpdateStream
    \/ \E n \in Intervals(mode) : SetTrackModeDetectInterval(n)
    \/ \E value \in BOOLEAN : SetTrackLostRecoveryMode(value)
    \/ ClearTrackingFace

Spec == Init /\ [][Next]_vars

-----------------------------------------------------------------------------
(* Properties. *)

\* Two faces in one frame never have the same id (always-detect mode gives
\* none): faces kept through failed frames, suppressions and detections beside
\* faces found just now included.
DistinctIds ==
    mode # Always => \A i, j \in DOMAIN tracking : i # j => tracking[i].id # tracking[j].id

\* An id that is no longer tracked never comes back for another face: the ids
\* that appear are newer than every id tracked before, through losses,
\* recoveries, failed frames and ClearTrackingFace.
IdsAreFresh ==
    [][mode = Light => \A id \in IdsOf(tracking') \ IdsOf(tracking) : id > newest]_vars

\* A face that was lost, or whose model failed, is gone: none is reported, or
\* tracked again, after any frame; and after a frame without error every face has
\* been tracked in it, none is left as it was detected.
FacesAreTracked ==
    \A i \in DOMAIN tracking :
        /\ tracking[i].state # "untracking"
        /\ frame.status = "ok" => tracking[i].state # "detect"

\* "If all faces are triggered to be lost, detection will be executed
\* immediately": in recovery mode a frame that reports no face was searched.
RecoverySearches ==
    frame.status = "ok" /\ frame.recovery /\ frame.count = 0 => frame.detected

\* In every window of detection_interval_ frames detection runs in one, unless
\* the interval is changed meanwhile: recovery may bring it forward and shifts
\* the count, but never puts it off.
DetectionIsDue == quiet < interval

\* What the Python binding asserts of a result (_validate_detection_results): it
\* has at most max_detect_num faces.
WithinMaxFaces == frame.status = "ok" => frame.count <= MaxFaces
=============================================================================
