----------------------------- MODULE ByteTrack -----------------------------
(***************************************************************************)
(* The tracker behind the track-by-detect mode                             *)
(* (track_module/tracker_optional/bytetrack/BYTETracker.cpp): it gives the *)
(* boxes of each frame the ids of the tracks they continue.                *)
(*                                                                         *)
(* Abstractions: boxes and their motion are left out, so the assignment of *)
(* boxes to tracks is any partial matching, and any tracked and lost pair  *)
(* may overlap.  Of a box's score it matters whether it reaches            *)
(* track_thresh, and, for a box that is left over, high_thresh.  The lists *)
(* are functions from ids to tracks: their order decides nothing.          *)
(***************************************************************************)
EXTENDS Integers, FiniteSets

CONSTANT MaxTimeLost   \* max_time_lost, the frame rate: frames a lost track is remembered

\* FaceSession::Configuration refuses a rate of 0, and a negative one means 30.
ASSUME TimeLostAssumption == MaxTimeLost \in Nat \ {0}

VARIABLES
    frameId,          \* frame_id
    nextTrackId,      \* next_track_id
    trackedStracks,   \* tracked_stracks
    lostStracks,      \* lost_stracks
    removedStracks    \* removed_stracks: the ids of the last frame's

trackerVars == <<frameId, nextTrackId, trackedStracks, lostStracks, removedStracks>>

\* An STrack: confirmed or not, its state, its first and its last frame.
STrack(activated, start) ==
    [is_activated |-> activated, state |-> "tracked", start_frame |-> start, frame_id |-> start]
Age(track) == track.frame_id - track.start_frame

-----------------------------------------------------------------------------
TrackerInit ==
    /\ frameId = 0 /\ nextTrackId = 0
    /\ trackedStracks = << >> /\ lostStracks = << >>
    /\ removedStracks = {}

-----------------------------------------------------------------------------
(* The steps of update.  A confident box has a score of track_thresh or    *)
(* more; the first and the third association use those, the second the     *)
(* weak ones.                                                              *)

TrackedIds == DOMAIN trackedStracks
LostIds == DOMAIN lostStracks
Confirmed == {id \in TrackedIds : trackedStracks[id].is_activated}
Unconfirmed == TrackedIds \ Confirmed
Now == frameId + 1

\* STrack::update and re_activate: the same but for the Kalman filter.
Seen(track) == [track EXCEPT !.is_activated = TRUE, !.state = "tracked", !.frame_id = Now]
MarkLost(track) == [track EXCEPT !.state = "lost"]
MarkRemoved(track) == [track EXCEPT !.state = "removed"]

\* Mutant: a new track counts as confirmed.
ActivateConfirmed(id) == STrack(TRUE, Now)

\* STrack::activate: only the first frame's tracks are confirmed at once.
Activate(id) == STrack(Now = 1, Now)

\* The tracks the frame continues, found again or not, and the ones it starts.
Continued(found, fresh) ==
    [id \in found \cup fresh |->
        IF id \in fresh THEN Activate(id)
        ELSE IF id \in TrackedIds THEN Seen(trackedStracks[id])
        ELSE Seen(lostStracks[id])]

\* Lost tracks the frame does not find and that have waited too long.
Expired(found) ==
    {id \in LostIds \ found : Now - lostStracks[id].frame_id > MaxTimeLost}

\* Mutant: tracks that have just expired are marked but never subtracted.
LostKeepsExpired(found) ==
    [id \in (LostIds \ found) \cup (Confirmed \ found) |->
        IF id \in Confirmed THEN MarkLost(trackedStracks[id])
        ELSE IF id \in Expired(found) THEN MarkRemoved(lostStracks[id])
        ELSE lostStracks[id]]

\* Mutant: the tracks found again are not subtracted.
LostKeepsFound(found) ==
    [id \in (LostIds \cup (Confirmed \ found)) \ removedStracks |->
        IF id \in Confirmed THEN MarkLost(trackedStracks[id])
        ELSE IF id \in Expired(found) THEN MarkRemoved(lostStracks[id])
        ELSE lostStracks[id]]

\* The lost tracks, without the ones that expired in the frame before: those
\* that expire now stay for one more frame.
LostNow(found) ==
    [id \in ((LostIds \ found) \cup (Confirmed \ found)) \ removedStracks |->
        IF id \in Confirmed THEN MarkLost(trackedStracks[id])
        ELSE IF id \in Expired(found) THEN MarkRemoved(lostStracks[id])
        ELSE lostStracks[id]]

Without(list, ids) == [id \in DOMAIN list \ ids |-> list[id]]

\* remove_duplicate_stracks: of a tracked and a lost track in one place the
\* older stays, the lost one if they are of an age.
AreDuplicates(a, tracked, b, lost) ==
    /\ a \subseteq DOMAIN tracked /\ b \subseteq DOMAIN lost
    /\ \A i \in a : \E j \in DOMAIN lost : Age(tracked[i]) <= Age(lost[j])
    /\ \A j \in b : \E i \in DOMAIN tracked : Age(tracked[i]) > Age(lost[j])

\* Mutant: ids are numbered from the tracks that live.
FreshFromLiving(n) == (Cardinality(TrackedIds \cup LostIds) + 1)..(Cardinality(TrackedIds \cup LostIds) + n)

\* The next n ids.
Fresh(n) == (nextTrackId + 1)..(nextTrackId + n)

\* The new lists, for the tracks found and the number of tracks started.
UpdateLists(found, n) ==
    LET tracked == Continued(found, Fresh(n))
        lost    == LostNow(found)
    IN  /\ \E a \in SUBSET DOMAIN tracked, b \in SUBSET DOMAIN lost :
             /\ AreDuplicates(a, tracked, b, lost)
             /\ trackedStracks' = Without(tracked, a)
             /\ lostStracks' = Without(lost, b)
        /\ removedStracks' = (Unconfirmed \ found) \cup Expired(found)
        /\ nextTrackId' = nextTrackId + n
        /\ frameId' = Now

\* update, for a number of confident and of weak boxes: the first association
\* takes confirmed and lost tracks, the second the confirmed ones left, the
\* third the unconfirmed ones; a confident box left over may start a track.
Update(confident, weak) ==
    \E first \in SUBSET (Confirmed \cup LostIds), second \in SUBSET Confirmed,
       third \in SUBSET Unconfirmed, n \in 0..confident :
        /\ first \cap second = {}
        /\ Cardinality(first) + Cardinality(third) + n <= confident
        /\ Cardinality(second) <= weak
        /\ UpdateLists(first \cup second \cup third, n)

\* What update returns: the confirmed tracks.
OutputStracks == {id \in TrackedIds : trackedStracks[id].is_activated}

TrackerNext == \E confident, weak \in Nat : Update(confident, weak)

TrackerSpec == TrackerInit /\ [][TrackerNext]_trackerVars

-----------------------------------------------------------------------------
Ids == 1..nextTrackId
STracks == [is_activated : BOOLEAN, state : {"tracked", "lost", "removed"},
           start_frame : 1..frameId, frame_id : 1..frameId]

\* Type correctness: the lists map ids given out to tracks.
TypeOK ==
    /\ frameId \in Nat /\ nextTrackId \in Nat
    /\ TrackedIds \subseteq Ids /\ LostIds \subseteq Ids /\ removedStracks \subseteq Ids
    /\ trackedStracks \in [TrackedIds -> STracks] /\ lostStracks \in [LostIds -> STracks]

\* An id names one track: none is tracked and lost at once, although expired
\* tracks are found again and the removed ids lag one frame behind.
OneIdentity == TrackedIds \cap LostIds = {}

\* What is tracked was seen in the last frame, and what is reported was seen in
\* two frames at least, unless it was there in the first.
SeenTwice ==
    \A id \in TrackedIds :
        /\ trackedStracks[id].frame_id = frameId
        /\ trackedStracks[id].is_activated =>
             trackedStracks[id].start_frame \in {1} \cup 1..(frameId - 1)

\* A lost track is remembered for max_time_lost frames and, marked as removed,
\* for one more in which it can still be found.
LostExpire ==
    \A id \in LostIds :
        LET gap == frameId - lostStracks[id].frame_id
        IN  /\ gap \in 1..(MaxTimeLost + 1)
            /\ lostStracks[id].state = "removed" <=> gap > MaxTimeLost

\* A track that is dropped never comes back: ids that join the lists are new.
DroppedForGood ==
    [][\A id \in (TrackedIds' \cup LostIds') \ (TrackedIds \cup LostIds) : id > nextTrackId]_trackerVars
=============================================================================
